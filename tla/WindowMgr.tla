------------------------------ MODULE WindowMgr ------------------------------
(***************************************************************************)
(* The window table of src/gui/wm_core.c, the compaction of the z order in *)
(* src/gui/window_list.c and the keyboard focus.  A window keeps the       *)
(* fields that decide what is drawn and what a click hits; its rectangle   *)
(* is abstracted: a click names the set of windows under the pointer.      *)
(***************************************************************************)
EXTENDS Integers, FiniteSets

CONSTANTS WM_MAX_WINDOWS    \* slots of g_windows

ASSUME WindowsAssumption == WM_MAX_WINDOWS \in Nat \ {0}

VARIABLES g_windows,        \* slot -> window
          g_next_id,        \* next window id
          g_focus           \* id that has the focus, 0 for none

wmVars == <<g_windows, g_next_id, g_focus>>

Slots == 1 .. WM_MAX_WINDOWS
WmState == {"WM_NORMAL", "WM_MINIMIZED", "WM_MAXIMIZED"}

Window == [used: BOOLEAN, id: Nat, z_index: Nat, state: WmState]
NoWindow == [used |-> FALSE, id |-> 0, z_index |-> 0, state |-> "WM_NORMAL"]

Open(arr) == {i \in Slots : arr[i].used}
wm_get_count(arr) == Cardinality(Open(arr))

\* The slot of an open window, 0 when the id names none.
wm_get_by_id(arr, id) ==
    IF \E i \in Open(arr) : arr[i].id = id
    THEN CHOOSE i \in Open(arr) : arr[i].id = id
    ELSE 0

(***************************************************************************)
(* The two nested loops, in the order they run: pass is the z index that   *)
(* is renumbered, so indices of WM_MAX_WINDOWS and above are not seen.     *)
(***************************************************************************)
passes == [k \in 1 .. WM_MAX_WINDOWS * WM_MAX_WINDOWS |->
              [pass |-> (k - 1) \div WM_MAX_WINDOWS, slot |-> ((k - 1) % WM_MAX_WINDOWS) + 1]]

Mut_renumber(acc, at) ==
    IF acc.arr[at.slot].used /\ acc.arr[at.slot].z_index >= at.pass
    THEN [arr |-> [acc.arr EXCEPT ![at.slot].z_index = acc.z], z |-> acc.z + 1]
    ELSE acc

renumber(acc, at) ==
    IF acc.arr[at.slot].used /\ acc.arr[at.slot].z_index = at.pass
    THEN [arr |-> [acc.arr EXCEPT ![at.slot].z_index = acc.z], z |-> acc.z + 1]
    ELSE acc

wm_compact_z(arr) ==
    LET after[k \in 0 .. WM_MAX_WINDOWS * WM_MAX_WINDOWS] ==
            IF k = 0 THEN [arr |-> arr, z |-> 0] ELSE renumber(after[k - 1], passes[k])
    IN  after[WM_MAX_WINDOWS * WM_MAX_WINDOWS].arr

\* The first free slot; the new window lies above the windows counted with it.
wm_create(arr, id) ==
    LET i == CHOOSE j \in Slots : ~arr[j].used /\ \A k \in 1 .. j - 1 : arr[k].used
    IN  [arr EXCEPT ![i] = [used |-> TRUE, id |-> id, z_index |-> wm_get_count(arr) + 1,
                            state |-> "WM_NORMAL"]]

maxz(arr) == CHOOSE z \in {0} \cup {arr[i].z_index : i \in Open(arr)} :
                 \A i \in Open(arr) : arr[i].z_index <= z

Mut_raise(arr, id) ==
    IF wm_get_by_id(arr, id) = 0 THEN arr
    ELSE wm_compact_z([arr EXCEPT ![wm_get_by_id(arr, id)].z_index = maxz(arr)])

wm_raise(arr, id) ==
    IF wm_get_by_id(arr, id) = 0 THEN arr
    ELSE wm_compact_z([arr EXCEPT ![wm_get_by_id(arr, id)].z_index = maxz(arr) + 1])

wm_close(arr, id) == wm_compact_z([arr EXCEPT ![wm_get_by_id(arr, id)].used = FALSE])

wm_minimize(arr, id) == [arr EXCEPT ![wm_get_by_id(arr, id)].state = "WM_MINIMIZED"]

wm_maximize(arr, id) ==
    [arr EXCEPT ![wm_get_by_id(arr, id)].state =
        IF @ = "WM_MAXIMIZED" THEN "WM_NORMAL" ELSE "WM_MAXIMIZED"]

\* The topmost of the windows under the pointer that are not minimised.
Hit(arr, under) == {i \in Open(arr) : arr[i].id \in under /\ arr[i].state # "WM_MINIMIZED"}
wm_window_at(arr, under) ==
    IF Hit(arr, under) = {} THEN 0
    ELSE arr[CHOOSE i \in Hit(arr, under) :
                 \A j \in Hit(arr, under) :
                     \/ arr[j].z_index < arr[i].z_index
                     \/ arr[j].z_index = arr[i].z_index /\ i <= j].id

\* wm_draw_all: the windows that are drawn, and which of two is drawn later.
Drawn(arr) == {i \in Open(arr) : /\ arr[i].z_index <= WM_MAX_WINDOWS
                                 /\ arr[i].state # "WM_MINIMIZED"}
drawn_later(arr, i, j) ==
    \/ arr[i].z_index > arr[j].z_index
    \/ arr[i].z_index = arr[j].z_index /\ i > j

(***************************************************************************)
(* Alt+Tab: windows are collected by z index among the ids 1 to            *)
(* WM_MAX_WINDOWS, and the last one collected is the one to raise.         *)
(***************************************************************************)
Collected(arr) == {i \in Drawn(arr) : arr[i].id <= WM_MAX_WINDOWS}
cycle_target(arr) ==
    IF wm_get_count(arr) <= 1 \/ Cardinality(Collected(arr)) <= 1 THEN 0
    ELSE arr[CHOOSE i \in Collected(arr) :
                 \A j \in Collected(arr) \ {i} :
                     \/ arr[j].z_index < arr[i].z_index
                     \/ arr[j].z_index = arr[i].z_index /\ arr[j].id < arr[i].id].id

WindowsTypeOK ==
    /\ g_windows \in [Slots -> Window]
    /\ g_next_id \in Nat /\ g_focus \in Nat

\* The table after count windows have been created in the empty one.
wm_created(count) ==
    LET after[k \in 0 .. count] ==
            IF k = 0 THEN [i \in Slots |-> NoWindow] ELSE wm_create(after[k - 1], k)
    IN  after[count]

\* wm_init, and the windows gui_layer6_init opens.
WindowsInit(count) ==
    /\ g_windows = wm_created(count)
    /\ g_next_id = count + 1
    /\ g_focus = 0
=============================================================================
