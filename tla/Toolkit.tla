------------------------------ MODULE Toolkit ------------------------------
(***************************************************************************)
(* The user interface toolkit (src/gui/ui_toolkit.c): an application's     *)
(* panel is a container of labels and buttons, the topmost child under the *)
(* pointer takes a click, and one button at a time is highlighted.         *)
(*                                                                         *)
(* Layout[app] is the sequence of widgets the application creates, with    *)
(* the coordinates of the source, and Frame[app] the rectangle of its      *)
(* panel.  No application hides or moves a widget.  A widget is allocated  *)
(* with kmalloc, which may fail; the second allocation, for its text,      *)
(* always succeeds in the model.                                           *)
(***************************************************************************)
EXTENDS Integers, Sequences, FiniteSetsExt

CONSTANTS Apps, Layout, Frame, UI_MAX_CHILDREN

ASSUME ToolkitAssumption ==
    /\ UI_MAX_CHILDREN \in Nat
    /\ \A a \in Apps :
         Layout[a] \in Seq([type: {"label", "button"}, x: Int, y: Int, w: Nat, h: Nat])

VARIABLES main_panel,       \* app -> "null", "live", "freed"
          child_count,      \* app -> number of children of the panel
          field,            \* app -> widget -> is the pointer to it non-NULL?
          is_hovered,       \* the highlighted buttons, <<app, widget>>
          g_hovered_button  \* the button the toolkit believes is highlighted

uiVars == <<main_panel, child_count, field, is_hovered, g_hovered_button>>

None == <<"none", 0>>
Widgets(a) == DOMAIN Layout[a]

ToolkitInit ==
    /\ main_panel = [a \in Apps |-> "null"]
    /\ child_count = [a \in Apps |-> 0]
    /\ field = [a \in Apps |-> [i \in Widgets(a) |-> FALSE]]
    /\ is_hovered = {} /\ g_hovered_button = None

\* A container takes no more than UI_MAX_CHILDREN children: the others are
\* created and not added.
Mut_add_child(k) == IF k < UI_MAX_CHILDREN THEN k ELSE UI_MAX_CHILDREN - 1

ui_container_add_child(k) == IF k < UI_MAX_CHILDREN THEN k ELSE UI_MAX_CHILDREN

(***************************************************************************)
(* The interface of an application is built; made widgets are created      *)
(* before an allocation fails, and all of them when none does.  made = -1: *)
(* there is no memory for the panel.  ui_toolkit_init forgets which button *)
(* was highlighted.                                                        *)
(***************************************************************************)
build(a, made) ==
    /\ g_hovered_button' = None
    /\ main_panel' = [main_panel EXCEPT ![a] = IF made < 0 THEN "null" ELSE "live"]
    /\ child_count' = [child_count EXCEPT ![a] =
                          IF made < 0 THEN 0 ELSE ui_container_add_child(made)]
    /\ field' = [field EXCEPT ![a] =
                    [i \in Widgets(a) |-> i <= made \/ (field[a][i] /\ (i = made + 1 => made < 0))]]
    /\ is_hovered' = {b \in is_hovered : b[1] # a}

inside(w, p) ==
    /\ p[1] >= w.x /\ p[1] <= w.x + w.w
    /\ p[2] >= w.y /\ p[2] <= w.y + w.h

\* The points that matter: the middle and two corners of every widget, and a
\* point outside of all.
PointsOf(w) == {<<w.x + w.w \div 2, w.y + w.h \div 2>>, <<w.x, w.y>>, <<w.x + w.w, w.y + w.h>>}
Points(a) == {<<0, 0>>} \cup UNION {PointsOf(Layout[a][i]) : i \in Widgets(a)}

\* The topmost of the first n widgets at p; 0: the panel itself; -1: outside.
topmost ==
    [a \in Apps |-> [n \in 0 .. UI_MAX_CHILDREN |-> [p \in Points(a) |->
        LET hits == {i \in Widgets(a) : i <= n /\ inside(Layout[a][i], p)}
        IN  IF hits # {} THEN Max(hits) ELSE IF inside(Frame[a], p) THEN 0 ELSE -1]]]

ui_find_clicked(a, p) == topmost[a][child_count[a]][p]

ui_update_hover(a, i) ==
    LET hit == IF i > 0 /\ Layout[a][i].type = "button" THEN <<a, i>> ELSE None
    IN  /\ g_hovered_button' = hit
        /\ is_hovered' = (is_hovered \ {g_hovered_button}) \cup ({hit} \ {None})
        /\ UNCHANGED <<main_panel, child_count, field>>

\* The panel is freed, its children and the pointer to it are not touched.
free_panel(a) ==
    /\ main_panel' = [main_panel EXCEPT ![a] = "freed"]
    /\ UNCHANGED <<child_count, field, is_hovered, g_hovered_button>>
=============================================================================
