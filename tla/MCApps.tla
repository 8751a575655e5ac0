------------------------------- MODULE MCApps -------------------------------
(***************************************************************************)
(* The applications' widgets at the coordinates of the source, with labels *)
(* 9 pixels per character wide, and a terminal with short buffers.         *)
(***************************************************************************)
EXTENDS Apps

CONSTANTS k1, k2

label(x, y, chars) == [type |-> "label", x |-> x, y |-> y, w |-> 9 * chars, h |-> 16]
button(x, y, w, h) == [type |-> "button", x |-> x, y |-> y, w |-> w, h |-> h]

MCLayout ==
    [launcher |-> <<label(120, 110, 23), label(120, 350, 31),
                    button(120, 170, 260, 50), button(120, 240, 260, 50), button(120, 310, 260, 50)>>,
     terminal |-> <<label(40, 30, 19), label(40, 70, 51), label(40, 400, 7), button(500, 395, 100, 35)>>,
     settings |-> <<label(70, 70, 15), label(70, 120, 12), button(320, 110, 120, 35),
                    label(70, 170, 17), button(320, 160, 120, 35),
                    label(70, 220, 15), button(320, 210, 55, 35), button(385, 210, 55, 35),
                    label(70, 270, 11), button(320, 260, 55, 35), button(385, 260, 55, 35),
                    label(70, 330, 21), button(200, 420, 100, 35), button(320, 420, 100, 35)>>,
     files |-> <<label(50, 40, 23), label(50, 80, 11), label(50, 130, 88),
                 button(50, 430, 80, 35), button(140, 430, 80, 35), button(230, 430, 100, 35),
                 button(600, 430, 80, 35)>>]

frame(x, y, w, h) == [x |-> x, y |-> y, w |-> w, h |-> h]

MCFrame == [launcher |-> frame(100, 100, 500, 400), terminal |-> frame(20, 20, 640, 480),
            settings |-> frame(50, 50, 500, 500), files |-> frame(30, 30, 700, 520)]

MCApps == {"launcher", "terminal", "settings", "files"}

MCCuts == {-1, 2, 8}

MCCommand(line) ==
    CASE line = <<k1>> -> "help" [] line = <<k2>> -> "clear"
      [] line = <<k1, k1>> -> "about"
      [] line = <<k1, k2>> -> "exit" [] line = <<k2, k1>> -> "echo" [] OTHER -> "other"
=============================================================================
