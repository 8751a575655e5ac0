-------------------------------- MODULE Input --------------------------------
(***************************************************************************)
(* The path of an input event: the polling drivers src/drivers/kbd.c and   *)
(* src/drivers/mouse.c, the poller that turns their state into events      *)
(* (src/gui/input_poller.c) and the event queue (src/gui/input_router.c).  *)
(*                                                                         *)
(* The interrupt lines are masked and interrupts are off when the GUI loop *)
(* runs, so the drivers only poll.  What the devices sent since the last   *)
(* frame is chosen when it is polled.  A poll empties the scancode buffer  *)
(* and leaves the mouse state equal to what the poller saw, so neither is  *)
(* a variable.                                                             *)
(***************************************************************************)
EXTENDS Integers, Sequences, SequencesExt

CONSTANTS Keys,             \* scancodes without the release bit
          KBD_BUFFER_SIZE,  \* slots of the scancode ring (one stays free)
          GUI_EVENT_Q,      \* slots of the event ring (one stays free)
          MaxBurst,         \* bound: bytes the keyboard sends in one frame
          MaxPresses        \* bound: times the button goes down

ASSUME InputAssumption == /\ KBD_BUFFER_SIZE \in Nat \ {0, 1}
                          /\ GUI_EVENT_Q \in Nat \ {0, 1}
                          /\ MaxBurst \in Nat /\ MaxPresses \in Nat

VARIABLES
    prev_left_btn,  \* the button the poller saw last
    g_q,            \* the event queue
    lost,           \* history: an event was dropped because the queue was full
    presses         \* presses so far, for the bound

inputVars == <<prev_left_btn, g_q, lost, presses>>

KeyCode == [key: Keys, release: BOOLEAN]
KeyEvent(k) == [type |-> "KEY", key |-> k]
Event == {[type |-> t] : t \in {"MOUSE_MOVE", "MOUSE_DOWN", "MOUSE_UP", "MOUSE_RIGHT"}}
             \cup {KeyEvent(k) : k \in KeyCode}

InputTypeOK ==
    /\ g_q \in Seq(Event) /\ Len(g_q) < GUI_EVENT_Q
    /\ prev_left_btn \in BOOLEAN /\ lost \in BOOLEAN /\ presses \in 0 .. MaxPresses

InputInit ==
    /\ prev_left_btn = FALSE
    /\ g_q = << >> /\ lost = FALSE /\ presses = 0

\* kbd_init: the scancode buffer is empty.
kbd_init == << >>

\* kbd_put_scancode_ext: the release bit is cleared before the scancode is stored.
kbd_put_scancode(buf, code) ==
    IF Len(buf) + 1 < KBD_BUFFER_SIZE
    THEN Append(buf, [code EXCEPT !.release = FALSE]) ELSE buf

\* What the loop of kbd_poll can leave in the buffer, from the bytes that are ready.
kbd_take(buf, burst) ==
    LET after[k \in 0 .. Len(burst)] ==
            IF k = 0 THEN buf ELSE kbd_put_scancode(after[k - 1], burst[k])
    IN  after[Len(burst)]
kbd_poll(buf) == {kbd_take(buf, burst) : burst \in BoundedSeq(KeyCode, MaxBurst)}

(***************************************************************************)
(* What the loop of mouse_poll can leave: no packet completes, or the last *)
(* one that does sets the buttons and the position.  A packet that         *)
(* overflows sets nothing.  kbd_poll can take a byte out of a packet, and  *)
(* what is decoded then has any button: a packet's button is arbitrary.    *)
(* Of the right button only counts whether the poller sees a change, which *)
(* is then a press or a release: both are MOUSE_RIGHT.                     *)
(***************************************************************************)
mouse_poll(state) == {state} \cup [left_btn: BOOLEAN, moved: BOOLEAN, right_changed: BOOLEAN]

\* An event that finds the queue full is dropped.
input_router_push(q, ev) == IF Len(q) + 1 < GUI_EVENT_Q THEN Append(q, ev) ELSE q

\* A sequence of events is pushed, one after the other.
push_all(q, evs) ==
    LET after[k \in 0 .. Len(evs)] ==
            IF k = 0 THEN q ELSE input_router_push(after[k - 1], evs[k])
    IN  after[Len(evs)]

\* The loop of kbd_has_data and kbd_read_scancode: it takes all the scancodes.
kbd_read_scancodes(buf) == [i \in DOMAIN buf |-> KeyEvent(buf[i])]

\* The events of one poll, in the order they are injected.
Mut_Polled(keys, mouse) ==
    kbd_read_scancodes(keys)
        \o (IF mouse.moved THEN <<[type |-> "MOUSE_MOVE"]>> ELSE << >>)
        \o (IF mouse.left_btn /\ ~prev_left_btn THEN <<[type |-> "MOUSE_DOWN"]>> ELSE << >>)
        \o (IF ~mouse.left_btn /\ prev_left_btn /\ ~mouse.moved
            THEN <<[type |-> "MOUSE_UP"]>> ELSE << >>)
        \o (IF mouse.right_changed THEN <<[type |-> "MOUSE_RIGHT"]>> ELSE << >>)

Polled(keys, mouse) ==
    kbd_read_scancodes(keys)
        \o (IF mouse.moved THEN <<[type |-> "MOUSE_MOVE"]>> ELSE << >>)
        \o (IF mouse.left_btn /\ ~prev_left_btn THEN <<[type |-> "MOUSE_DOWN"]>> ELSE << >>)
        \o (IF ~mouse.left_btn /\ prev_left_btn THEN <<[type |-> "MOUSE_UP"]>> ELSE << >>)
        \o (IF mouse.right_changed THEN <<[type |-> "MOUSE_RIGHT"]>> ELSE << >>)

(***************************************************************************)
(* input_poller_poll: poll both drivers, inject a key event for every      *)
(* scancode (which empties the keyboard's buffer) and the mouse's changes. *)
(***************************************************************************)
input_poller_poll ==
    \E keys \in kbd_poll(kbd_init),
       mouse \in mouse_poll([left_btn |-> prev_left_btn, moved |-> FALSE, right_changed |-> FALSE]) :
        /\ presses' = presses + (IF mouse.left_btn /\ ~prev_left_btn THEN 1 ELSE 0)
        /\ presses' <= MaxPresses
        /\ g_q' = push_all(g_q, Polled(keys, mouse))
        /\ lost' = (lost \/ Len(g_q) + Len(Polled(keys, mouse)) >= GUI_EVENT_Q)
        /\ prev_left_btn' = mouse.left_btn

\* input_router_pop, in the event loop.
input_router_pop ==
    /\ g_q # << >>
    /\ g_q' = Tail(g_q)
    /\ UNCHANGED <<prev_left_btn, lost, presses>>
=============================================================================
