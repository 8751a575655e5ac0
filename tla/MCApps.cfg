SPECIFICATION Spec
CONSTANTS
    k1 = k1
    k2 = k2
    Apps <- MCApps
    Layout <- MCLayout
    Frame <- MCFrame
    UI_MAX_CHILDREN = 10
    Printable = {k1, k2}
    Command <- MCCommand
    INPUT_SIZE = 3
    OUTPUT_SIZE = 8
    Welcome = 3
    Reply = 1
    LevelMax = 20
    Step = 10
    Brightness0 = 10
    Volume0 = 10
    MaxLaunches = 2
    Cuts <- MCCuts
INVARIANTS ControlsReachable SettingsShown
CHECK_DEADLOCK FALSE
