--------------------------------- MODULE Gui ---------------------------------
(***************************************************************************)
(* The GUI loop: gui_layer6_main_loop polls the devices, event_loop_step   *)
(* hands at most EventsPerFrame queued events to the desktop shell and the *)
(* window manager, and a frame ends.  Composes Input and WindowMgr with    *)
(* the drag state of src/gui/wm_events.c, the key states of                *)
(* src/gui/keyboard_system.c and the desktop shell (start menu, panel,     *)
(* launcher, recent list).  The hover state, which nothing reads, is left  *)
(* out.                                                                    *)
(***************************************************************************)
EXTENDS Input, WindowMgr

CONSTANTS InitialWindows,   \* windows gui_layer6_init opens
          EventsPerFrame,   \* events one event_loop_step handles
          Registered,       \* registered applications
          RecentMax,        \* entries of g_recent
          ALT, TAB,         \* scancodes of the keys Alt+Tab is made of
          MaxOpen,          \* bound: windows open at one time
          MaxIds            \* bound: windows created

ASSUME GuiAssumption == /\ InitialWindows \in 1 .. WM_MAX_WINDOWS
                        /\ MaxOpen \in Nat /\ InitialWindows <= MaxOpen
                        /\ EventsPerFrame \in Nat \ {0} /\ RecentMax \in Nat \ {0}
                        /\ {ALT, TAB} \subseteq Keys

VARIABLES pc,               \* where the loop is
          handled,          \* events handled in this frame
          drag,             \* g_drag_state: [is_dragging, dragging_id]
          key_states, prev_key_states,
          g_open,           \* the start menu is open
          recent            \* g_recent and g_recent_pos

shellVars == <<g_open, recent>>
keyVars == <<key_states, prev_key_states>>
guiVars == <<inputVars, wmVars, pc, handled, drag, keyVars, shellVars>>

NoApp == "none"
Ids == {g_windows[i].id : i \in Open(g_windows)}

GuiTypeOK ==
    /\ InputTypeOK /\ WindowsTypeOK
    /\ pc \in {"poll", "step"} /\ handled \in 0 .. EventsPerFrame
    /\ drag \in [is_dragging: BOOLEAN, dragging_id: Nat]
    /\ key_states \in SUBSET Keys /\ prev_key_states \in SUBSET Keys
    /\ g_open \in BOOLEAN
    /\ recent \in [app: [0 .. RecentMax - 1 -> Registered \cup {NoApp}], pos: 0 .. RecentMax - 1]

GuiInit ==
    /\ InputInit /\ WindowsInit(InitialWindows)
    /\ pc = "poll" /\ handled = 0
    /\ drag = [is_dragging |-> FALSE, dragging_id |-> 0]
    /\ key_states = {} /\ prev_key_states = {}
    /\ g_open = FALSE
    /\ recent = [app |-> [i \in 0 .. RecentMax - 1 |-> NoApp], pos |-> 0]

-----------------------------------------------------------------------------
(***************************************************************************)
(* A press.  Where says what of the desktop shell is drawn at the pointer, *)
(* under which windows lie there, and part what of the window it is on.    *)
(***************************************************************************)
Where == {"row", "menu", "start", "panel", "screen"}
Part == {"close", "max", "min", "title", "body"}

Idle == UNCHANGED <<wmVars, drag, keyVars>>

\* desktop_session_note_launch
note_launch(app) ==
    recent' = [app |-> [recent.app EXCEPT ![recent.pos] = app],
               pos |-> (recent.pos + 1) % RecentMax]

\* desktop_app_launch: open a window, raise it, note it; the menu is closed.
desktop_app_launch(app) ==
    /\ wm_get_count(g_windows) < WM_MAX_WINDOWS
    /\ wm_get_count(g_windows) < MaxOpen /\ g_next_id <= MaxIds
    /\ g_windows' = wm_raise(wm_create(g_windows, g_next_id), g_next_id)
    /\ g_next_id' = g_next_id + 1
    /\ note_launch(app)
    /\ UNCHANGED g_focus

\* The open start menu takes the press.
menu_press(where) ==
    /\ g_open
    /\ \/ /\ where = "row" /\ g_open' = FALSE
          /\ \E app \in Registered : desktop_app_launch(app)
          /\ UNCHANGED <<drag, keyVars>>
       \/ /\ where = "menu"
          /\ Idle /\ UNCHANGED shellVars

(***************************************************************************)
(* The panel takes the press.  The menu has closed itself by then (the     *)
(* panel is outside it), so the toggle of the start button always opens.   *)
(***************************************************************************)
panel_press(where) ==
    /\ \/ where = "start" /\ g_open' = TRUE
       \/ where = "panel" /\ g_open' = FALSE
    /\ Idle /\ UNCHANGED recent

\* A press the shell leaves closes the menu.  A row whose launch fails is left, too.
Left(where) ==
    where \in {"screen"} \cup (IF ~g_open THEN {"row", "menu"}
                              ELSE IF wm_get_count(g_windows) = WM_MAX_WINDOWS THEN {"row"}
                              ELSE {})

Focus(id) == g_focus' = id

wm_handle_mouse_down(wid, part) ==
    \/ /\ part = "close"
       /\ g_windows' = wm_close(g_windows, wid)
       /\ UNCHANGED <<g_focus, drag>>
    \/ /\ part = "max"
       /\ g_windows' = wm_raise(wm_maximize(g_windows, wid), wid)
       /\ Focus(wid) /\ UNCHANGED drag
    \/ /\ part = "min"
       /\ g_windows' = wm_minimize(g_windows, wid)
       /\ Focus(wid) /\ UNCHANGED drag
    \/ /\ part = "title"
       /\ drag' = [is_dragging |-> TRUE, dragging_id |-> wid]
       /\ g_windows' = wm_raise(g_windows, wid)
       /\ Focus(wid)
    \/ /\ part = "body"
       /\ g_windows' = wm_raise(g_windows, wid)
       /\ Focus(wid) /\ UNCHANGED drag

window_press(under) ==
    /\ g_open' = FALSE
    /\ LET wid == wm_window_at(g_windows, under)
       IN  \/ wid = 0 /\ UNCHANGED <<g_windows, g_focus, drag>>
           \/ wid # 0 /\ \E part \in Part : wm_handle_mouse_down(wid, part)
    /\ UNCHANGED <<g_next_id, keyVars, recent>>

mouse_down ==
    \E where \in Where :
        \/ menu_press(where)
        \/ panel_press(where)
        \/ Left(where) /\ \E under \in SUBSET Ids : window_press(under)

\* wm_handle_mouse_move: a drag of a window that is gone ends.
mouse_move ==
    /\ drag' = IF drag.is_dragging /\ wm_get_by_id(g_windows, drag.dragging_id) = 0
               THEN [drag EXCEPT !.is_dragging = FALSE] ELSE drag
    /\ UNCHANGED <<wmVars, keyVars, shellVars>>

mouse_up ==
    /\ drag' = IF drag.is_dragging THEN [is_dragging |-> FALSE, dragging_id |-> 0] ELSE drag
    /\ UNCHANGED <<wmVars, keyVars, shellVars>>

\* The release bit of ev.key chooses keyboard_handle_key_up.
key_event(k) ==
    /\ key_states' = IF k.release THEN key_states \ {k.key} ELSE key_states \cup {k.key}
    /\ UNCHANGED <<wmVars, drag, prev_key_states, shellVars>>

\* wm_handle_mouse_right_down and _up are declared and called, and defined
\* nowhere: taken to leave the windows alone.
mouse_right == UNCHANGED <<wmVars, drag, keyVars, shellVars>>

handle(ev) ==
    \/ ev.type = "MOUSE_DOWN" /\ mouse_down
    \/ ev.type = "MOUSE_MOVE" /\ mouse_move
    \/ ev.type = "MOUSE_UP" /\ mouse_up
    \/ ev.type = "MOUSE_RIGHT" /\ mouse_right
    \/ ev.type = "KEY" /\ key_event(ev.key)

\* The end of event_loop_step: Alt+Tab on the edge of Tab, drawing, keyboard_system_frame_end.
alt_tab == ALT \in key_states /\ TAB \in key_states \ prev_key_states

frame_end ==
    /\ LET target == IF alt_tab THEN cycle_target(g_windows) ELSE 0
       IN  IF target = 0 THEN UNCHANGED <<g_windows, g_focus>>
           ELSE g_windows' = wm_raise(g_windows, target) /\ Focus(target)
    /\ prev_key_states' = key_states
    /\ handled' = 0
    /\ UNCHANGED <<g_next_id, drag, key_states, shellVars>>

-----------------------------------------------------------------------------
Goto(a, b) == pc = a /\ pc' = b
loopVars == <<wmVars, handled, drag, keyVars, shellVars>>

Poll == Goto("poll", "step") /\ input_poller_poll /\ UNCHANGED loopVars

HandleEvent ==
    /\ Goto("step", "step") /\ handled < EventsPerFrame
    /\ input_router_pop
    /\ handle(Head(g_q))
    /\ handled' = handled + 1

EndFrame ==
    /\ Goto("step", "poll") /\ (handled = EventsPerFrame \/ g_q = << >>)
    /\ frame_end /\ UNCHANGED inputVars

GuiNext == Poll \/ HandleEvent \/ EndFrame

GuiSpec == GuiInit /\ [][GuiNext]_guiVars

-----------------------------------------------------------------------------
(***************************************************************************)
(* While no more than WM_MAX_WINDOWS - 2 windows are open at a time, the   *)
(* screen and the mouse agree: of the windows at any place, a press goes   *)
(* to the one wm_draw_all draws last there, and to none only if none is    *)
(* drawn.  Creating, closing, raising and compacting lose no window from   *)
(* the stack.  With more, an index of WM_MAX_WINDOWS escapes wm_compact_z, *)
(* and the next raise takes the window out of the range that is drawn.     *)
(***************************************************************************)
AllDrawn ==
    /\ GuiTypeOK
    /\ MaxOpen <= WM_MAX_WINDOWS - 2 =>
         \A under \in SUBSET Ids :
            LET seen == {i \in Drawn(g_windows) : g_windows[i].id \in under}
                wid == wm_window_at(g_windows, under)
            IN  IF wid = 0 THEN seen = {}
                ELSE \E i \in seen : /\ g_windows[i].id = wid
                                     /\ \A j \in seen \ {i} : drawn_later(g_windows, i, j)

(***************************************************************************)
(* A step changes the order of two windows that stay open only by bringing *)
(* one of them to the top of the stack (wm_raise and wm_compact_z keep the *)
(* order of all the others).                                               *)
(***************************************************************************)
Above(arr, a, b) == arr[a].z_index > arr[b].z_index
StaysOpen(i) == /\ g_windows[i].used /\ g_windows'[i].used
                /\ g_windows'[i].id = g_windows[i].id
OrderKept ==
    [][\A a, b \in Slots :
         (/\ a # b /\ StaysOpen(a) /\ StaysOpen(b)
          /\ Above(g_windows, a, b) /\ ~Above(g_windows', a, b))
            => \A c \in Open(g_windows') \ {b} : Above(g_windows', b, c)]_guiVars

(***************************************************************************)
(* Between frames, with every queued event handled, a window follows the   *)
(* pointer only while the poller sees the button down, unless the full     *)
(* queue dropped an event.                                                 *)
(***************************************************************************)
DragIsHeld ==
    (pc = "poll" /\ g_q = << >> /\ ~lost /\ drag.is_dragging) => prev_left_btn
=============================================================================
