-------------------------------- MODULE Apps --------------------------------
(***************************************************************************)
(* The applications on the toolkit: the launcher (src/apps/app_launcher.c),*)
(* the terminal (terminal.c), the settings (settings_app.c) and the file   *)
(* manager (file_manager.c), which share the toolkit's highlighted button. *)
(* An application is launched, gets clicks, movements and keys, and is     *)
(* shut down by its main function once it has stopped running.             *)
(*                                                                         *)
(* Texts are abstracted: a key is a model value, Command says what a line  *)
(* of keys is as a command, and the terminal's output is its length.       *)
(***************************************************************************)
EXTENDS Toolkit

CONSTANTS
    Printable,              \* printable keys
    Command(_),             \* line -> "help", "clear", "about", "exit", "echo", "other"
    INPUT_SIZE, OUTPUT_SIZE,    \* the terminal's buffers
    Welcome, Reply,         \* lengths of the welcome text and of one line of an answer
    LevelMax, Step,         \* brightness and volume: 0, Step, .., LevelMax
    Brightness0, Volume0,   \* their values at boot
    MaxLaunches,            \* bound on launches
    Cuts                    \* numbers of widgets after which an allocation fails; -1: no panel

\* Two widgets that have no point in common.
Apart(v, w) ==
    \/ v.x + v.w < w.x \/ w.x + w.w < v.x
    \/ v.y + v.h < w.y \/ w.y + w.h < v.y

\* The levels are multiples of their step; no widget a panel has room for lies
\* over a button created before it.
ASSUME AppsAssumption ==
    /\ Apps = {"launcher", "terminal", "settings", "files"}
    /\ {INPUT_SIZE, OUTPUT_SIZE, Welcome, Reply, LevelMax, Step, MaxLaunches} \subseteq Nat
    /\ {Brightness0, Volume0} \subseteq 0 .. LevelMax
    /\ Step > 0 /\ \A v \in {LevelMax, Brightness0, Volume0} : v % Step = 0
    /\ Cuts \subseteq Int
    /\ Len(Layout["settings"]) = 14
    /\ \A a \in Apps : \A j \in 1 .. Min({Len(Layout[a]), UI_MAX_CHILDREN}) : \A i \in 1 .. j - 1 :
         Layout[a][i].type = "button" => Apart(Layout[a][i], Layout[a][j])

VARIABLES running,          \* app -> BOOLEAN
          term,             \* [input, output]: the line, the length of the output
          sys,              \* [theme, language, brightness, volume]
          shown,            \* what the labels of the settings panel say of it
          changed,          \* history: a displayed setting changed since the panel was made
          listed,           \* the text of the file list: "none", "initial", "default"
          launches,         \* history: number of launches,
          whole,            \*   the applications whose last launch succeeded,
          last,             \*   the last application launched
          fault             \* an access to a NULL or freed widget: the end of the run

stateVars == <<running, term, sys, shown, changed, listed>>
vars == <<uiVars, stateVars, launches, whole, last, fault>>

AtBoot == [theme |-> 0, language |-> 0, brightness |-> Brightness0, volume |-> Volume0]

\* The settings whose labels settings_update_display writes: not the language.
Visible(s) == [theme |-> s.theme, brightness |-> s.brightness, volume |-> s.volume]

Init ==
    /\ ToolkitInit
    /\ running = [a \in Apps |-> FALSE]
    /\ term = [input |-> << >>, output |-> 0]
    /\ sys = AtBoot /\ shown = AtBoot /\ changed = FALSE
    /\ listed = "none"
    /\ launches = 0 /\ whole = {} /\ last = "none" /\ fault = "none"

-----------------------------------------------------------------------------
(***************************************************************************)
(* Launching.  A launch that fails leaves running as it was.  The terminal *)
(* adds its welcome to the output of earlier launches without asking for   *)
(* room; the labels of the settings show the values at boot.               *)
(***************************************************************************)
launched(a, made) ==
    /\ IF made = Len(Layout[a])
       THEN /\ running' = [running EXCEPT ![a] = TRUE]
            /\ term' = IF a = "terminal"
                       THEN [input |-> << >>, output |-> term.output + Welcome] ELSE term
            /\ whole' = whole \cup {a}
       ELSE running' = running /\ term' = term /\ whole' = whole \ {a}
    /\ shown' = IF a = "settings" THEN AtBoot ELSE shown
    /\ changed' = IF a = "settings" THEN FALSE ELSE changed
    /\ listed' = IF a = "files" /\ made >= 3 THEN "initial" ELSE listed

launch(a) ==
    /\ launches < MaxLaunches /\ launches' = launches + 1
    /\ last' = a
    /\ \E made \in {n \in Cuts : n < Len(Layout[a])} \cup {Len(Layout[a])} : build(a, made) /\ launched(a, made)
    /\ UNCHANGED <<sys, fault>>

\* The main function of an application ends: it has launched it before.
shutdown(a) ==
    /\ main_panel[a] = "live" /\ ~running[a]
    /\ free_panel(a)
    /\ whole' = whole \ {a}
    /\ UNCHANGED <<stateVars, launches, last, fault>>

app_launcher_main ==
    /\ main_panel["launcher"] = "live" /\ running["launcher"]
    /\ free_panel("launcher")
    /\ whole' = whole \ {"launcher"}
    /\ UNCHANGED <<stateVars, launches, last, fault>>

-----------------------------------------------------------------------------
(***************************************************************************)
(* The terminal.                                                           *)
(***************************************************************************)
\* The room of the line break that follows is not asked for.
terminal_append_output(out, len) == IF out + len >= OUTPUT_SIZE THEN out ELSE out + len + 1

append_lines(out, n) ==
    LET o[k \in 0 .. n] == IF k = 0 THEN out ELSE terminal_append_output(o[k - 1], Reply)
    IN  o[n]

terminal_execute_command ==
    IF term.input = << >> THEN UNCHANGED stateVars
    ELSE LET cmd == Command(term.input)
             out == terminal_append_output(term.output, Len(term.input))
         IN  /\ term' = [input |-> << >>,
                         output |-> CASE cmd = "help" -> append_lines(out, 7)
                                      [] cmd = "clear" -> 0
                                      [] cmd = "about" -> append_lines(out, 3)
                                      [] cmd = "echo" -> terminal_append_output(out, Len(term.input) - 1)
                                      [] OTHER -> terminal_append_output(out, Reply)]
             /\ running' = IF cmd = "exit" THEN [running EXCEPT !["terminal"] = FALSE] ELSE running
             /\ UNCHANGED <<sys, shown, changed, listed>>

type(k) ==
    /\ Len(term.input) < INPUT_SIZE - 1
    /\ term' = [term EXCEPT !.input = Append(@, k)]
    /\ UNCHANGED <<running, sys, shown, changed, listed>>

backspace ==
    /\ term.input # << >>
    /\ term' = [term EXCEPT !.input = SubSeq(@, 1, Len(@) - 1)]
    /\ UNCHANGED <<running, sys, shown, changed, listed>>

terminal_handle_key ==
    /\ running["terminal"]
    /\ (\E k \in Printable : type(k)) \/ backspace \/ terminal_execute_command
    /\ UNCHANGED <<uiVars, launches, whole, last, fault>>

-----------------------------------------------------------------------------
(***************************************************************************)
(* The settings.  The display is updated through the pointers to three     *)
(* labels, of which only the first is tested.                              *)
(***************************************************************************)
LblTheme == 2
LblBrightness == 6
LblVolume == 9

settings_update_display(s) ==
    IF ~field["settings"][LblTheme] THEN shown' = shown /\ fault' = fault
    ELSE IF ~field["settings"][LblBrightness] \/ ~field["settings"][LblVolume]
    THEN shown' = shown /\ fault' = "null"
    ELSE /\ shown' = [shown EXCEPT !.theme = s.theme, !.brightness = s.brightness, !.volume = s.volume]
         /\ fault' = fault

raise(v) == IF v < LevelMax THEN v + Step ELSE v
lower(v) == IF v > 0 THEN v - Step ELSE v

settings_set(s) ==
    IF s = sys THEN UNCHANGED <<sys, shown, fault>> ELSE sys' = s /\ settings_update_display(s)

Mut_toggle_theme == sys' = [sys EXCEPT !.theme = 1 - @] /\ UNCHANGED <<shown, fault>>
settings_on_toggle_theme == settings_set([sys EXCEPT !.theme = 1 - @])
settings_on_toggle_language == sys' = [sys EXCEPT !.language = 1 - @] /\ UNCHANGED <<shown, fault>>
settings_on_brightness(v) == settings_set([sys EXCEPT !.brightness = v])
settings_on_volume(v) == settings_set([sys EXCEPT !.volume = v])

\* Apply prints; Cancel ends the application.
settings_click(i) ==
    /\ CASE i = 3 -> settings_on_toggle_theme
         [] i = 5 -> settings_on_toggle_language
         [] i = 7 -> settings_on_brightness(lower(sys.brightness))
         [] i = 8 -> settings_on_brightness(raise(sys.brightness))
         [] i = 10 -> settings_on_volume(lower(sys.volume))
         [] i = 11 -> settings_on_volume(raise(sys.volume))
         [] OTHER -> UNCHANGED <<sys, shown, fault>>
    /\ changed' = IF Visible(sys') = Visible(sys) THEN changed ELSE TRUE
    /\ running' = IF i = 14 THEN [running EXCEPT !["settings"] = FALSE] ELSE running
    /\ UNCHANGED <<term, listed>>

-----------------------------------------------------------------------------
(***************************************************************************)
(* The file manager knows one path, "/": Back does nothing, Home and       *)
(* Refresh load the default files and show them.                           *)
(***************************************************************************)
file_manager_click(i) ==
    /\ listed' = IF i \in {5, 6} THEN "default" ELSE listed
    /\ running' = IF i = 7 THEN [running EXCEPT !["files"] = FALSE] ELSE running
    /\ UNCHANGED <<term, sys, shown, changed, fault>>

\* The buttons of the launcher are widgets 3 to 5.
AppOf(i) == <<"terminal", "settings", "files">>[i - 2]

clicked(a, i) ==
    CASE a = "launcher" /\ i \in 3 .. 5 -> launch(AppOf(i))
      [] a = "terminal" /\ i = 4 -> terminal_execute_command /\ UNCHANGED <<uiVars, launches, whole, last, fault>>
      [] a = "settings" -> settings_click(i) /\ UNCHANGED <<uiVars, launches, whole, last>>
      [] a = "files" -> file_manager_click(i) /\ UNCHANGED <<uiVars, launches, whole, last>>
      [] OTHER -> FALSE

Hits(a) == {ui_find_clicked(a, p) : p \in Points(a)}

handle_click(a) ==
    /\ main_panel[a] = "live"
    /\ \E i \in Hits(a) : i > 0 /\ clicked(a, i)

handle_mouse_move(a) ==
    /\ main_panel[a] = "live"
    /\ \E i \in Hits(a) : ui_update_hover(a, i)
    /\ UNCHANGED <<stateVars, launches, whole, last, fault>>

\* An event for an application that was shut down reads the freed panel.
late_event(a) ==
    /\ main_panel[a] = "freed"
    /\ fault' = "freed"
    /\ UNCHANGED <<uiVars, stateVars, launches, whole, last>>

Next ==
    /\ fault = "none"
    /\ \/ \E a \in Apps : \/ launch(a) \/ shutdown(a) \/ handle_click(a)
                          \/ handle_mouse_move(a) \/ late_event(a)
       \/ app_launcher_main \/ terminal_handle_key

Spec == Init /\ [][Next]_vars

-----------------------------------------------------------------------------
(***************************************************************************)
(* Every button of a launched application that its panel has room for can  *)
(* be reached: a click on its middle or its corners finds it and nothing   *)
(* that lies over it.  (The settings create more than UI_MAX_CHILDREN.)    *)
(* And the toolkit and the screen agree on the highlighted button: the one *)
(* it remembers is highlighted, and in the application launched last no    *)
(* other is.  (A launch makes it forget the button of an older panel.)     *)
(***************************************************************************)
ControlsReachable ==
    /\ \A a \in whole : \A i \in 1 .. Min({Len(Layout[a]), UI_MAX_CHILDREN}) :
         Layout[a][i].type = "button" =>
             \A p \in PointsOf(Layout[a][i]) : ui_find_clicked(a, p) = i
    /\ g_hovered_button # None => g_hovered_button \in is_hovered
    /\ {b \in is_hovered : b[1] = last} \subseteq {g_hovered_button}

(***************************************************************************)
(* The labels of a launched settings panel: from the first change of the   *)
(* theme, the brightness or the volume made on it they show all three as   *)
(* they are, whatever was changed on earlier panels; before it they show   *)
(* the values at boot, which settings_init writes into them also when the  *)
(* settings have moved on.  The language label is never written again.     *)
(* With all labels in place no change reads a NULL one; and the levels     *)
(* stay in their range.                                                    *)
(***************************************************************************)
SettingsShown ==
    /\ "settings" \in whole =>
         /\ IF changed THEN Visible(shown) = Visible(sys) ELSE shown = AtBoot
         /\ shown.language = AtBoot.language
         /\ fault # "null"
    /\ sys.brightness \in 0 .. LevelMax /\ sys.volume \in 0 .. LevelMax
=============================================================================
