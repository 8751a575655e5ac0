SPECIFICATION GuiSpec
CONSTANTS
    WM_MAX_WINDOWS = 5
    Keys = {56, 15}
    ALT = 56
    TAB = 15
    KBD_BUFFER_SIZE = 2
    GUI_EVENT_Q = 3
    MaxBurst = 1
    MaxPresses = 4
    InitialWindows = 2
    EventsPerFrame = 1
    Registered = {"files"}
    RecentMax = 2
    MaxOpen = 3
    MaxIds = 3
INVARIANTS AllDrawn DragIsHeld
PROPERTIES OrderKept
