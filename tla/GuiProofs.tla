------------------------------ MODULE GuiProofs -----------------------------
(***************************************************************************)
(* The event loop, the window manager and the applications, for any number *)
(* of windows, any script of input and any layout.                         *)
(*                                                                         *)
(* The loops of the code (the keyboard buffer, the pushed events, the      *)
(* creation and compaction of windows) are recursive functions, and what   *)
(* they return is shown by induction on their turns (RunExists).  The      *)
(* screen and the mouse agree by StackInv: z indices tell windows apart,   *)
(* and while few windows are open none is larger than their number.  A     *)
(* drag ends by DragInv: the button is seen down, or its release waits in  *)
(* the queue with no press after it.                                       *)
(*                                                                         *)
(* The last part is about the applications on the toolkit: a click on a    *)
(* button finds it (ControlsReachable), because the layouts keep buttons   *)
(* apart and a panel is built in the order of its layout, and the labels   *)
(* of the settings follow every change (SettingsShown).                    *)
(***************************************************************************)
EXTENDS Gui, Apps, FiniteSetTheorems, SequenceTheorems, TLAPS

-----------------------------------------------------------------------------
(***************************************************************************)
(* Induction, for sets of numbers, and the loops of the code.              *)
(***************************************************************************)
\* A set of numbers that is not empty has a least one.
LEMMA LeastNumber ==
    ASSUME NEW S, S \subseteq Nat, S # {}
    PROVE  \E m \in S : \A k \in S : m <= k
  <1> DEFINE T == {0 .. k : k \in S}
             R == StrictSubsetOrdering(Nat)
             F == FiniteSubsetsOf(Nat)
  <1>1. IsWellFoundedOn(R, F)
    BY FS_StrictSubsetOrderingWellFounded
  <1>2. T \subseteq F /\ T # {}
    <2>1. \A k \in S : IsFiniteSet(0 .. k) /\ (0 .. k) \in SUBSET Nat
      BY FS_Interval
    <2> QED
      BY <2>1 DEF FiniteSubsetsOf
  <1>3. PICK x \in T : \A y \in T : <<y, x>> \notin R
    <2> HIDE DEF T, R, F
    <2> QED
      BY <1>1, <1>2, WFMin
  <1>4. PICK m \in S : x = 0 .. m
    BY <1>3
  <1>5. ASSUME NEW k \in S, ~(m <= k)
        PROVE  FALSE
    <2>1. (0 .. k) \in T /\ (0 .. k) \in SUBSET Nat /\ (0 .. m) \in SUBSET Nat
      OBVIOUS
    <2>2. (0 .. k) \subseteq (0 .. m) /\ m \in 0 .. m /\ m \notin 0 .. k
      BY <1>5
    <2>3. <<0 .. k, 0 .. m>> \in R
      BY <2>1, <2>2 DEF StrictSubsetOrdering
    <2> QED
      BY <1>3, <1>4, <2>1, <2>3
  <1> QED
    BY <1>5

LEMMA Induction ==
    ASSUME NEW S, 0 \in S, \A k \in Nat : k \in S => k + 1 \in S
    PROVE  Nat \subseteq S
  <1> DEFINE T == Nat \ S
  <1> SUFFICES ASSUME T # {}
               PROVE  FALSE
    OBVIOUS
  <1>1. T \subseteq Nat
    OBVIOUS
  <1>2. PICK m \in T : \A k \in T : m <= k
    <2> HIDE DEF T
    <2> QED
      BY <1>1, LeastNumber
  <1>3. m # 0 /\ m - 1 \in Nat /\ ~(m <= m - 1) /\ (m - 1) + 1 = m
    OBVIOUS
  <1>4. m - 1 \notin T
    BY <1>2, <1>3
  <1> QED
    BY <1>3, <1>4

\* f is a run of a loop of len turns, from base, whose k-th turn is F[<<k, _>>].
IsRun(f, len, base, F) ==
    f = [k \in 0 .. len |-> IF k = 0 THEN base ELSE F[<<k, f[k - 1]>>]]

\* Every loop with a step function has a run, and it stays in A.
LEMMA RunExists ==
    ASSUME NEW len \in Nat, NEW A, NEW base \in A, NEW F \in [(1 .. len) \X A -> A]
    PROVE  \E f \in [0 .. len -> A] : IsRun(f, len, base, F)
  <1> DEFINE S == {m \in Nat : m <= len => \E f \in [0 .. m -> A] : IsRun(f, m, base, F)}
  <1>1. 0 \in S
    <2> DEFINE f == [k \in 0 .. 0 |-> base]
    <2>1. f \in [0 .. 0 -> A] /\ f = [k \in 0 .. 0 |-> IF k = 0 THEN base ELSE F[<<k, f[k - 1]>>]]
      OBVIOUS
    <2> QED
      BY <2>1 DEF IsRun
  <1>2. ASSUME NEW m \in Nat, m \in S PROVE m + 1 \in S
    <2> SUFFICES ASSUME m + 1 <= len
                 PROVE  \E g \in [0 .. m + 1 -> A] : IsRun(g, m + 1, base, F)
      OBVIOUS
    <2>1. PICK f \in [0 .. m -> A] : IsRun(f, m, base, F)
      BY <1>2
    <2> DEFINE g == [k \in 0 .. m + 1 |-> IF k <= m THEN f[k] ELSE F[<<m + 1, f[m]>>]]
               h == [k \in 0 .. m + 1 |-> IF k = 0 THEN base ELSE F[<<k, g[k - 1]>>]]
    <2>2. \A k \in 0 .. m : f[k] = IF k = 0 THEN base ELSE F[<<k, f[k - 1]>>]
      BY <2>1 DEF IsRun
    <2>3. ASSUME NEW k \in 0 .. m + 1 PROVE g[k] = h[k]
      <3>1. CASE k = 0
        <4>1. k <= m /\ k \in 0 .. m
          BY <3>1
        <4>2. g[k] = f[k] /\ h[k] = base
          BY <3>1, <4>1
        <4> QED
          BY <2>2, <3>1, <4>1, <4>2
      <3>2. CASE k \in 1 .. m
        <4>1. k - 1 \in 0 .. m /\ k \in 0 .. m /\ k # 0 /\ k <= m /\ k - 1 <= m /\ k - 1 \in 0 .. m + 1
          BY <3>2
        <4>2. g[k] = f[k] /\ g[k - 1] = f[k - 1]
          BY <4>1
        <4> QED
          BY <2>2, <4>1, <4>2
      <3>3. CASE k = m + 1
        <4>1. k - 1 = m /\ ~(k <= m) /\ k # 0 /\ m \in 0 .. m + 1 /\ m <= m
          BY <3>3
        <4>2. g[k] = F[<<k, f[m]>>] /\ g[m] = f[m]
          BY <3>3, <4>1
        <4> QED
          BY <4>1, <4>2
      <3> QED
        BY <3>1, <3>2, <3>3
    <2>4. g = h
      <3>1. g = [k \in 0 .. m + 1 |-> g[k]] /\ h = [k \in 0 .. m + 1 |-> h[k]]
        OBVIOUS
      <3> HIDE DEF g, h
      <3> QED
        BY <2>3, <3>1
    <2>5. \A k \in 0 .. m + 1 : g[k] \in A
      <3>1. m + 1 \in 1 .. len /\ m \in 0 .. m /\ f[m] \in A
        OBVIOUS
      <3>2. F[<<m + 1, f[m]>>] \in A
        BY <3>1
      <3> QED
        BY <3>2
    <2>6. g \in [0 .. m + 1 -> A]
      <3>1. DOMAIN g = 0 .. m + 1 /\ g = [k \in DOMAIN g |-> g[k]]
        OBVIOUS
      <3> HIDE DEF g
      <3> QED
        BY <2>5, <3>1
    <2> QED
      BY <2>4, <2>6 DEF IsRun
  <1>3. Nat \subseteq S
    <2> HIDE DEF S
    <2> QED
      BY <1>1, <1>2, Induction
  <1> QED
    BY <1>3

-----------------------------------------------------------------------------
(***************************************************************************)
(* The event queue.                                                        *)
(***************************************************************************)
\* The queue after each of the pushes.
IsPushing(f, q, evs) ==
    f = [k \in 0 .. Len(evs) |-> IF k = 0 THEN q ELSE input_router_push(f[k - 1], evs[k])]

LEMMA PushExists ==
    ASSUME NEW q \in Seq(Event), NEW evs \in Seq(Event)
    PROVE  \E f : IsPushing(f, q, evs) /\ push_all(q, evs) = f[Len(evs)]
  <1> DEFINE A == Seq(Event)
             len == Len(evs)
             F == [x \in (1 .. len) \X A |-> input_router_push(x[2], evs[x[1]])]
  <1>1. F \in [(1 .. len) \X A -> A]
    <2>1. \A x \in (1 .. len) \X A : input_router_push(x[2], evs[x[1]]) \in A
      BY DEF input_router_push
    <2> HIDE DEF A, len
    <2> QED
      BY <2>1
  <1>2. len \in Nat /\ q \in A
    OBVIOUS
  <1>3. PICK f \in [0 .. len -> A] : IsRun(f, len, q, F)
    <2> HIDE DEF A, len, F
    <2> QED
      BY <1>1, <1>2, RunExists
  <1>4. \A k \in 0 .. len : k # 0 => F[<<k, f[k - 1]>>] = input_router_push(f[k - 1], evs[k])
    <2> SUFFICES ASSUME NEW k \in 0 .. len, k # 0
                 PROVE  F[<<k, f[k - 1]>>] = input_router_push(f[k - 1], evs[k])
      OBVIOUS
    <2>1. k - 1 \in 0 .. len /\ k \in 1 .. len
      BY <1>2
    <2>2. <<k, f[k - 1]>> \in (1 .. len) \X A
      BY <2>1
    <2> HIDE DEF A, len
    <2> QED
      BY <2>2
  <1>5. IsPushing(f, q, evs)
    <2> HIDE DEF F
    <2> QED
      BY <1>3, <1>4 DEF IsRun, IsPushing
  <1> DEFINE c == CHOOSE g : IsPushing(g, q, evs)
  <1>6. IsPushing(c, q, evs)
    BY <1>5
  <1>7. push_all(q, evs) = c[Len(evs)]
    BY DEF push_all, IsPushing
  <1> QED
    BY <1>6, <1>7

\* What a sequence of events does to the queue: with room for all, they are
\* appended.
Appended(q, evs, r) ==
    /\ Len(r) = Len(q) + Len(evs)
    /\ \A i \in 1 .. Len(q) : r[i] = q[i]
    /\ \A i \in 1 .. Len(evs) : r[Len(q) + i] = evs[i]

LEMMA PushAll ==
    ASSUME NEW q \in Seq(Event), Len(q) < GUI_EVENT_Q, NEW evs \in Seq(Event)
    PROVE  /\ push_all(q, evs) \in Seq(Event) /\ Len(push_all(q, evs)) < GUI_EVENT_Q
           /\ Len(q) + Len(evs) < GUI_EVENT_Q => Appended(q, evs, push_all(q, evs))
  <1>1. PICK f : IsPushing(f, q, evs) /\ push_all(q, evs) = f[Len(evs)]
    BY PushExists
  <1> DEFINE len == Len(evs)
             Queue(k) == f[k] \in Seq(Event) /\ Len(f[k]) < GUI_EVENT_Q
             Whole(k) == /\ Len(f[k]) = Len(q) + k
                         /\ \A i \in 1 .. Len(q) : f[k][i] = q[i]
                         /\ \A i \in 1 .. k : f[k][Len(q) + i] = evs[i]
             Good(k) == Queue(k) /\ (Len(q) + len < GUI_EVENT_Q => Whole(k))
             S == {k \in Nat : k <= len => Good(k)}
  <1>2. len \in Nat /\ Len(q) \in Nat /\ GUI_EVENT_Q \in Nat
    BY InputAssumption
  <1>3. f[0] = q /\ \A k \in 1 .. len : f[k] = input_router_push(f[k - 1], evs[k])
    BY <1>1, <1>2 DEF IsPushing
  <1>4. 0 \in S
    BY <1>2, <1>3
  <1>5. ASSUME NEW k \in Nat, k \in S PROVE k + 1 \in S
    <2> SUFFICES ASSUME k + 1 <= len
                 PROVE  Good(k + 1)
      OBVIOUS
    <2>1. k <= len /\ k + 1 \in 1 .. len /\ (k + 1) - 1 = k
      BY <1>2
    <2>2. Good(k) /\ evs[k + 1] \in Event
      BY <1>5, <2>1
    <2>3. f[k + 1] = input_router_push(f[k], evs[k + 1])
      BY <1>3, <2>1
    <2>4. Queue(k + 1)
      BY <1>2, <2>2, <2>3 DEF input_router_push
    <2>5. ASSUME Len(q) + len < GUI_EVENT_Q
          PROVE  Whole(k + 1)
      <3>1. Whole(k) /\ f[k] \in Seq(Event)
        BY <2>2, <2>5
      <3>2. Len(f[k]) + 1 < GUI_EVENT_Q
        BY <1>2, <2>1, <2>5, <3>1
      <3>3. f[k + 1] = Append(f[k], evs[k + 1])
        BY <2>3, <3>2 DEF input_router_push
      <3> DEFINE s == f[k]
                 t == f[k + 1]
                 e == evs[k + 1]
      <3>4. Len(t) = Len(s) + 1 /\ (\A i \in 1 .. Len(s) : t[i] = s[i]) /\ t[Len(s) + 1] = e
        <4> HIDE DEF e
        <4> QED
          BY <2>2, <3>1, <3>3 DEF e
      <3>5. Len(t) = Len(q) + (k + 1)
        BY <1>2, <3>1, <3>4
      <3>6. \A i \in 1 .. Len(q) : i \in 1 .. Len(s)
        BY <1>2, <3>1
      <3>7. ASSUME NEW i \in 1 .. k + 1
            PROVE  t[Len(q) + i] = evs[i]
        <4>1. CASE i = k + 1
          <5>1. Len(q) + i = Len(s) + 1
            BY <1>2, <3>1, <4>1
          <5> QED
            BY <3>4, <4>1, <5>1
        <4>2. CASE i \in 1 .. k
          <5>1. Len(q) + i \in 1 .. Len(s)
            BY <1>2, <3>1, <4>2
          <5> QED
            BY <3>1, <3>4, <4>2, <5>1
        <4> QED
          BY <4>1, <4>2
      <3>8. \A i \in 1 .. Len(q) : t[i] = q[i]
        BY <3>1, <3>4, <3>6
      <3> QED
        BY <3>5, <3>7, <3>8
    <2> QED
      BY <2>4, <2>5
  <1>6. Nat \subseteq S
    <2> HIDE DEF S
    <2> QED
      BY <1>4, <1>5, Induction
  <1>7. Good(len)
    <2>1. len \in S /\ len <= len
      BY <1>2, <1>6
    <2> HIDE DEF Good
    <2> QED
      BY <2>1
  <1> QED
    BY <1>1, <1>7 DEF Appended

\* The keyboard's buffer holds scancodes without their release bit.
IsTaking(f, buf, burst) ==
    f = [k \in 0 .. Len(burst) |-> IF k = 0 THEN buf ELSE kbd_put_scancode(f[k - 1], burst[k])]

LEMMA PutType ==
    ASSUME NEW buf \in Seq(KeyCode), NEW code \in KeyCode
    PROVE  kbd_put_scancode(buf, code) \in Seq(KeyCode)
  <1>1. [code EXCEPT !.release = FALSE] \in KeyCode
    BY DEF KeyCode
  <1> QED
    BY <1>1 DEF kbd_put_scancode

LEMMA KeysTaken ==
    ASSUME NEW burst \in Seq(KeyCode)
    PROVE  kbd_take(kbd_init, burst) \in Seq(KeyCode)
  <1> DEFINE A == Seq(KeyCode)
             len == Len(burst)
             F == [x \in (1 .. len) \X A |-> kbd_put_scancode(x[2], burst[x[1]])]
             c == CHOOSE g : IsTaking(g, kbd_init, burst)
             S == {k \in Nat : k <= len => c[k] \in A}
  <1>1. F \in [(1 .. len) \X A -> A]
    <2>1. \A x \in (1 .. len) \X A : x[2] \in Seq(KeyCode) /\ burst[x[1]] \in KeyCode
      OBVIOUS
    <2>2. \A x \in (1 .. len) \X A : kbd_put_scancode(x[2], burst[x[1]]) \in A
      BY <2>1, PutType
    <2> HIDE DEF A, len
    <2> QED
      BY <2>2
  <1>2. len \in Nat /\ kbd_init \in A
    BY DEF kbd_init
  <1>3. PICK f \in [0 .. len -> A] : IsRun(f, len, kbd_init, F)
    <2> HIDE DEF A, len, F
    <2> QED
      BY <1>1, <1>2, RunExists
  <1>4. \A k \in 0 .. len : k # 0 => F[<<k, f[k - 1]>>] = kbd_put_scancode(f[k - 1], burst[k])
    <2> SUFFICES ASSUME NEW k \in 0 .. len, k # 0
                 PROVE  F[<<k, f[k - 1]>>] = kbd_put_scancode(f[k - 1], burst[k])
      OBVIOUS
    <2>1. k - 1 \in 0 .. len /\ k \in 1 .. len
      BY <1>2
    <2>2. <<k, f[k - 1]>> \in (1 .. len) \X A
      BY <2>1
    <2> HIDE DEF A, len
    <2> QED
      BY <2>2
  <1>5. IsTaking(f, kbd_init, burst)
    <2> HIDE DEF F
    <2> QED
      BY <1>3, <1>4 DEF IsRun, IsTaking
  <1>6. IsTaking(c, kbd_init, burst)
    BY <1>5
  <1>7. kbd_take(kbd_init, burst) = c[len]
    BY DEF kbd_take, IsTaking
  <1> HIDE DEF c
  <1>8. c[0] = kbd_init /\ \A k \in 1 .. len : c[k] = kbd_put_scancode(c[k - 1], burst[k])
    BY <1>2, <1>6 DEF IsTaking
  <1>9. 0 \in S
    BY <1>2, <1>8
  <1>10. ASSUME NEW k \in Nat, k \in S PROVE k + 1 \in S
    <2> SUFFICES ASSUME k + 1 <= len
                 PROVE  c[k + 1] \in A
      OBVIOUS
    <2>1. k <= len /\ k + 1 \in 1 .. len /\ (k + 1) - 1 = k
      BY <1>2
    <2>2. c[k] \in A /\ burst[k + 1] \in KeyCode
      BY <1>10, <2>1
    <2> QED
      BY <1>8, <2>1, <2>2, PutType
  <1>11. Nat \subseteq S
    <2> HIDE DEF S
    <2> QED
      BY <1>9, <1>10, Induction
  <1> QED
    BY <1>2, <1>7, <1>11

\* The events of a poll: which of them are about the button.
Quiet(evs) == \A i \in 1 .. Len(evs) : evs[i].type \in {"KEY", "MOUSE_MOVE", "MOUSE_RIGHT"}
ReleaseIn(q) == \E i \in 1 .. Len(q) : /\ q[i].type = "MOUSE_UP"
                                       /\ \A j \in i + 1 .. Len(q) : q[j].type # "MOUSE_DOWN"
Move == [type |-> "MOUSE_MOVE"]
Down == [type |-> "MOUSE_DOWN"]
Up == [type |-> "MOUSE_UP"]
RightBtn == [type |-> "MOUSE_RIGHT"]

LEMMA EventTypes ==
    /\ {Move, Down, Up, RightBtn} \subseteq Event
    /\ Move.type = "MOUSE_MOVE" /\ Down.type = "MOUSE_DOWN" /\ Up.type = "MOUSE_UP"
    /\ RightBtn.type = "MOUSE_RIGHT"
    /\ \A k \in KeyCode : KeyEvent(k) \in Event /\ KeyEvent(k).type = "KEY"
  BY DEF Event, Move, Down, Up, RightBtn, KeyEvent

\* Two quiet sequences, one behind the other.
LEMMA QuietConcat ==
    ASSUME NEW a \in Seq(Event), NEW b \in Seq(Event), Quiet(a), Quiet(b)
    PROVE  a \o b \in Seq(Event) /\ Quiet(a \o b)
  <1> DEFINE ab == a \o b
  <1>1. /\ ab \in Seq(Event) /\ Len(ab) = Len(a) + Len(b)
        /\ \A i \in 1 .. Len(a) + Len(b) : ab[i] = IF i <= Len(a) THEN a[i] ELSE b[i - Len(a)]
    BY ConcatProperties
  <1>2. \A i \in 1 .. Len(a) + Len(b) : (i <= Len(a) /\ i \in 1 .. Len(a)) \/ (~(i <= Len(a)) /\ i - Len(a) \in 1 .. Len(b))
    OBVIOUS
  <1> HIDE DEF ab
  <1>3. Quiet(ab)
    BY <1>1, <1>2 DEF Quiet
  <1> QED
    BY <1>1, <1>3 DEF ab

LEMMA PolledIs ==
    ASSUME NEW keys \in Seq(KeyCode), NEW mouse \in [left_btn : BOOLEAN, moved : BOOLEAN, right_changed : BOOLEAN],
           prev_left_btn \in BOOLEAN
    PROVE  /\ Polled(keys, mouse) \in Seq(Event)
           /\ mouse.left_btn = prev_left_btn => Quiet(Polled(keys, mouse))
           /\ ~mouse.left_btn /\ prev_left_btn => ReleaseIn(Polled(keys, mouse))
  <1> DEFINE a == kbd_read_scancodes(keys)
             b == IF mouse.moved THEN <<Move>> ELSE << >>
             c == IF mouse.left_btn /\ ~prev_left_btn THEN <<Down>> ELSE << >>
             d == IF ~mouse.left_btn /\ prev_left_btn THEN <<Up>> ELSE << >>
             e == IF mouse.right_changed THEN <<RightBtn>> ELSE << >>
             ab == a \o b
             abc == ab \o c
             abcd == abc \o d
             all == abcd \o e
  <1>1. Polled(keys, mouse) = all
    BY DEF Polled, Move, Down, Up, RightBtn
  <1>2. a \in Seq(Event) /\ Quiet(a)
    <2>1. \A i \in 1 .. Len(keys) : a[i] \in Event /\ a[i].type = "KEY"
      BY EventTypes DEF kbd_read_scancodes
    <2>2. a = [i \in 1 .. Len(keys) |-> a[i]] /\ Len(keys) \in Nat
      BY DEF kbd_read_scancodes
    <2> HIDE DEF a
    <2>3. a \in [1 .. Len(keys) -> Event]
      BY <2>1, <2>2
    <2>4. a \in Seq(Event) /\ Len(a) = Len(keys)
      BY <2>2, <2>3
    <2> QED
      BY <2>1, <2>4 DEF Quiet
  <1>3. b \in Seq(Event) /\ Quiet(b) /\ c \in Seq(Event) /\ d \in Seq(Event) /\ e \in Seq(Event) /\ Quiet(e)
    BY EventTypes DEF Quiet
  <1>4. ab \in Seq(Event) /\ Quiet(ab)
    <2> HIDE DEF a, b
    <2> QED
      BY <1>2, <1>3, QuietConcat
  <1>5. abc \in Seq(Event) /\ abcd \in Seq(Event) /\ all \in Seq(Event)
    <2> HIDE DEF ab, c, d, e
    <2> QED
      BY <1>3, <1>4, ConcatProperties
  <1>6. mouse.left_btn = prev_left_btn => Quiet(all)
    <2> SUFFICES ASSUME mouse.left_btn = prev_left_btn
                 PROVE  Quiet(all)
      OBVIOUS
    <2>1. c = << >> /\ d = << >>
      OBVIOUS
    <2>2. abcd = ab
      <3> HIDE DEF ab, c, d
      <3> QED
        BY <1>4, <2>1, ConcatEmptySeq
    <2> HIDE DEF abcd, e, ab
    <2> QED
      BY <1>3, <1>4, <2>2, QuietConcat
  <1>7. ~mouse.left_btn /\ prev_left_btn => ReleaseIn(all)
    <2> SUFFICES ASSUME ~mouse.left_btn /\ prev_left_btn
                 PROVE  ReleaseIn(all)
      OBVIOUS
    <2>1. d = <<Up>>
      OBVIOUS
    <2>2. abcd # << >> /\ abcd[Len(abcd)] = Up
      <3> HIDE DEF abc, d
      <3> QED
        BY <1>5, <2>1
    <2> DEFINE n == Len(abcd)
    <2> HIDE DEF abcd, e
    <2>3. n \in Nat /\ n > 0 /\ Len(e) \in Nat
      BY <1>3, <1>5, <2>2
    <2>4. /\ Len(all) = n + Len(e)
          /\ \A i \in 1 .. n + Len(e) : all[i] = IF i <= n THEN abcd[i] ELSE e[i - n]
      BY <1>3, <1>5, ConcatProperties
    <2>5. \A j \in n + 1 .. n + Len(e) : j \in 1 .. n + Len(e) /\ ~(j <= n) /\ j - n \in 1 .. Len(e)
      BY <2>3
    <2>6. \A j \in n + 1 .. Len(all) : all[j].type # "MOUSE_DOWN"
      <3> HIDE DEF all, n
      <3> QED
        BY <1>3, <2>4, <2>5 DEF Quiet
    <2>7. n \in 1 .. Len(all) /\ all[n] = Up
      <3>1. n \in 1 .. n + Len(e) /\ n <= n
        BY <2>3
      <3> QED
        BY <2>2, <2>4, <3>1
    <2> HIDE DEF all, n
    <2> QED
      BY <2>6, <2>7, EventTypes DEF ReleaseIn
  <1> HIDE DEF all, ab
  <1> QED
    BY <1>1, <1>5, <1>6, <1>7

-----------------------------------------------------------------------------
(***************************************************************************)
(* The drag.  As long as no event is dropped, the button is seen down, or  *)
(* its release is in the queue with no press after it, or nothing is       *)
(* dragged and no press is in the queue.                                   *)
(***************************************************************************)
NoPress(q) == \A i \in 1 .. Len(q) : q[i].type # "MOUSE_DOWN"
DragInv == lost \/ prev_left_btn \/ ReleaseIn(g_q) \/ (~drag.is_dragging /\ NoPress(g_q))

LEMMA PollStep ==
    ASSUME InputTypeOK, input_poller_poll
    PROVE  InputTypeOK'
           /\ \E evs \in Seq(Event) :
                /\ lost' = (lost \/ Len(g_q) + Len(evs) >= GUI_EVENT_Q)
                /\ ~lost' => Appended(g_q, evs, g_q')
                /\ prev_left_btn' = prev_left_btn => Quiet(evs)
                /\ ~prev_left_btn' /\ prev_left_btn => ReleaseIn(evs)
  <1>0. /\ g_q \in Seq(Event) /\ Len(g_q) < GUI_EVENT_Q /\ prev_left_btn \in BOOLEAN /\ lost \in BOOLEAN
        /\ presses \in 0 .. MaxPresses /\ GUI_EVENT_Q \in Nat /\ MaxPresses \in Nat /\ MaxBurst \in Nat
    BY InputAssumption DEF InputTypeOK
  <1>1. PICK keys \in kbd_poll(kbd_init), mouse \in mouse_poll([left_btn |-> prev_left_btn, moved |-> FALSE, right_changed |-> FALSE]) :
            /\ presses' = presses + (IF mouse.left_btn /\ ~prev_left_btn THEN 1 ELSE 0)
            /\ presses' <= MaxPresses
            /\ g_q' = push_all(g_q, Polled(keys, mouse))
            /\ lost' = (lost \/ Len(g_q) + Len(Polled(keys, mouse)) >= GUI_EVENT_Q)
            /\ prev_left_btn' = mouse.left_btn
    BY DEF input_poller_poll
  <1>2. keys \in Seq(KeyCode)
    <2>1. PICK burst \in BoundedSeq(KeyCode, MaxBurst) : keys = kbd_take(kbd_init, burst)
      BY <1>1 DEF kbd_poll
    <2>2. burst \in Seq(KeyCode)
      <3>1. PICK m \in 0 .. MaxBurst : burst \in [1 .. m -> KeyCode]
        BY <2>1 DEF BoundedSeq, SeqOf
      <3> QED
        BY <1>0, <3>1
    <2> QED
      BY <2>1, <2>2, KeysTaken
  <1>3. mouse \in [left_btn : BOOLEAN, moved : BOOLEAN, right_changed : BOOLEAN]
    <2>1. [left_btn |-> prev_left_btn, moved |-> FALSE, right_changed |-> FALSE] \in [left_btn : BOOLEAN, moved : BOOLEAN, right_changed : BOOLEAN]
      BY <1>0
    <2>2. mouse \in {[left_btn |-> prev_left_btn, moved |-> FALSE, right_changed |-> FALSE]} \cup [left_btn : BOOLEAN, moved : BOOLEAN, right_changed : BOOLEAN]
      BY <1>1 DEF mouse_poll
    <2> QED
      BY <2>1, <2>2
  <1> DEFINE evs == Polled(keys, mouse)
  <1>4. /\ evs \in Seq(Event)
        /\ mouse.left_btn = prev_left_btn => Quiet(evs)
        /\ ~mouse.left_btn /\ prev_left_btn => ReleaseIn(evs)
    BY <1>0, <1>2, <1>3, PolledIs
  <1> HIDE DEF evs
  <1>5. /\ g_q' = push_all(g_q, evs) /\ lost' = (lost \/ Len(g_q) + Len(evs) >= GUI_EVENT_Q)
    BY <1>1 DEF evs
  <1>6. /\ g_q' \in Seq(Event) /\ Len(g_q') < GUI_EVENT_Q
        /\ Len(g_q) + Len(evs) < GUI_EVENT_Q => Appended(g_q, evs, g_q')
    BY <1>0, <1>4, <1>5, PushAll
  <1>7. ~lost' => Len(g_q) + Len(evs) < GUI_EVENT_Q
    <2>1. ~lost' => ~(Len(g_q) + Len(evs) >= GUI_EVENT_Q)
      BY <1>5
    <2>2. Len(g_q) \in Nat /\ Len(evs) \in Nat
      BY <1>0, <1>4
    <2> QED
      BY <1>0, <2>1, <2>2
  <1>8. presses' \in 0 .. MaxPresses
    BY <1>0, <1>1, <1>3
  <1>9. lost' \in BOOLEAN /\ prev_left_btn' \in BOOLEAN
    BY <1>1, <1>3
  <1>10. InputTypeOK'
    BY <1>6, <1>8, <1>9 DEF InputTypeOK
  <1> QED
    BY <1>1, <1>4, <1>5, <1>6, <1>7, <1>10

LEMMA PollKeepsDrag ==
    ASSUME InputTypeOK, DragInv, input_poller_poll, UNCHANGED drag
    PROVE  DragInv'
  <1>1. PICK evs \in Seq(Event) :
                /\ lost' = (lost \/ Len(g_q) + Len(evs) >= GUI_EVENT_Q)
                /\ ~lost' => Appended(g_q, evs, g_q')
                /\ prev_left_btn' = prev_left_btn => Quiet(evs)
                /\ ~prev_left_btn' /\ prev_left_btn => ReleaseIn(evs)
    BY PollStep
  <1>2. InputTypeOK' /\ prev_left_btn \in BOOLEAN /\ prev_left_btn' \in BOOLEAN
    BY PollStep DEF InputTypeOK
  <1> SUFFICES ASSUME ~lost', ~prev_left_btn'
               PROVE  ReleaseIn(g_q') \/ (~drag'.is_dragging /\ NoPress(g_q'))
    BY DEF DragInv
  <1> DEFINE q == g_q
             r == g_q'
  <1>3. q \in Seq(Event) /\ r \in Seq(Event) /\ Len(q) \in Nat /\ Len(evs) \in Nat
    BY <1>2 DEF InputTypeOK
  <1>4. /\ Len(r) = Len(q) + Len(evs)
        /\ \A i \in 1 .. Len(q) : r[i] = q[i]
        /\ \A i \in 1 .. Len(evs) : r[Len(q) + i] = evs[i]
    BY <1>1 DEF Appended
  <1> HIDE DEF q, r
  <1>5. CASE prev_left_btn
    <2>1. PICK i \in 1 .. Len(evs) : evs[i].type = "MOUSE_UP" /\ \A j \in i + 1 .. Len(evs) : evs[j].type # "MOUSE_DOWN"
      BY <1>1, <1>5 DEF ReleaseIn
    <2>2. Len(q) + i \in 1 .. Len(r) /\ r[Len(q) + i].type = "MOUSE_UP"
      BY <1>3, <1>4, <2>1
    <2>3. ASSUME NEW j \in (Len(q) + i) + 1 .. Len(r)
          PROVE  r[j].type # "MOUSE_DOWN"
      <3>1. j - Len(q) \in i + 1 .. Len(evs) /\ j - Len(q) \in 1 .. Len(evs) /\ Len(q) + (j - Len(q)) = j
        BY <1>3, <1>4
      <3>2. r[j] = evs[j - Len(q)]
        BY <1>4, <3>1
      <3> QED
        BY <2>1, <3>1, <3>2
    <2>5. ReleaseIn(r)
      BY <2>2, <2>3 DEF ReleaseIn
    <2> QED
      BY <2>5 DEF r
  <1>6. CASE ~prev_left_btn
    <2>1. Quiet(evs)
      BY <1>1, <1>2, <1>6
    <2>2. \A j \in Len(q) + 1 .. Len(r) : r[j].type # "MOUSE_DOWN"
      <3> SUFFICES ASSUME NEW j \in Len(q) + 1 .. Len(r)
                   PROVE  r[j].type # "MOUSE_DOWN"
        OBVIOUS
      <3>1. j - Len(q) \in 1 .. Len(evs) /\ Len(q) + (j - Len(q)) = j
        BY <1>3, <1>4
      <3>2. r[j] = evs[j - Len(q)]
        BY <1>4, <3>1
      <3> QED
        BY <2>1, <3>1, <3>2 DEF Quiet
    <2>3. CASE ReleaseIn(q)
      <3>1. PICK i \in 1 .. Len(q) : q[i].type = "MOUSE_UP" /\ \A j \in i + 1 .. Len(q) : q[j].type # "MOUSE_DOWN"
        BY <2>3 DEF ReleaseIn
      <3>2. i \in 1 .. Len(r) /\ r[i].type = "MOUSE_UP"
        BY <1>3, <1>4, <3>1
      <3>3. ASSUME NEW j \in i + 1 .. Len(r)
            PROVE  r[j].type # "MOUSE_DOWN"
        <4>1. CASE j <= Len(q)
          <5>1. j \in i + 1 .. Len(q) /\ j \in 1 .. Len(q)
            BY <1>3, <4>1
          <5> QED
            BY <1>4, <3>1, <5>1
        <4>2. CASE ~(j <= Len(q))
          <5>1. j \in Len(q) + 1 .. Len(r)
            BY <1>3, <4>2
          <5> QED
            BY <2>2, <5>1
        <4> QED
          BY <4>1, <4>2
      <3>4. ReleaseIn(r)
        BY <3>2, <3>3 DEF ReleaseIn
      <3> QED
        BY <3>4 DEF r
    <2>4. CASE ~drag.is_dragging /\ NoPress(q)
      <3>1. ASSUME NEW i \in 1 .. Len(r)
            PROVE  r[i].type # "MOUSE_DOWN"
        <4>1. i \in 1 .. Len(q) \/ i \in Len(q) + 1 .. Len(r)
          BY <1>3, <1>4
        <4> QED
          BY <1>4, <2>2, <2>4, <4>1 DEF NoPress
      <3>2. NoPress(r)
        BY <3>1 DEF NoPress
      <3> QED
        BY <2>4, <3>2 DEF r
    <2> QED
      BY <1>1, <1>6, <2>3, <2>4 DEF DragInv, q
  <1> QED
    BY <1>5, <1>6

\* What an event does to the drag.
LEMMA PopKeepsDrag ==
    ASSUME InputTypeOK, DragInv, input_router_pop,
           drag'.is_dragging => drag.is_dragging \/ Head(g_q).type = "MOUSE_DOWN",
           Head(g_q).type = "MOUSE_UP" => ~drag'.is_dragging
    PROVE  InputTypeOK' /\ DragInv'
  <1> DEFINE q == g_q
             r == g_q'
  <1>1. q \in Seq(Event) /\ q # << >> /\ r = Tail(q) /\ Head(q) = q[1]
        /\ UNCHANGED <<prev_left_btn, lost, presses>> /\ GUI_EVENT_Q \in Nat
    BY InputAssumption DEF InputTypeOK, input_router_pop
  <1>2. /\ r \in Seq(Event) /\ Len(r) = Len(q) - 1 /\ Len(q) \in Nat /\ Len(r) \in Nat /\ Len(q) >= 1
        /\ \A i \in 1 .. Len(r) : r[i] = q[i + 1]
    BY <1>1
  <1>3. InputTypeOK'
    BY <1>1, <1>2 DEF InputTypeOK
  <1> HIDE DEF q, r
  <1>4. ASSUME ReleaseIn(q)
        PROVE  ReleaseIn(r) \/ (~drag'.is_dragging /\ NoPress(r))
    <2>1. PICK i \in 1 .. Len(q) : q[i].type = "MOUSE_UP" /\ \A j \in i + 1 .. Len(q) : q[j].type # "MOUSE_DOWN"
      BY <1>4 DEF ReleaseIn
    <2>2. CASE i = 1
      <3>1. ~drag'.is_dragging
        BY <1>1, <2>1, <2>2 DEF q
      <3>2. \A j \in 1 .. Len(r) : j + 1 \in i + 1 .. Len(q)
        BY <1>2, <2>2
      <3> QED
        BY <1>2, <2>1, <3>1, <3>2 DEF NoPress
    <2>3. CASE i # 1
      <3>1. i - 1 \in 1 .. Len(r) /\ (i - 1) + 1 = i
        BY <1>2, <2>3
      <3>2. \A j \in (i - 1) + 1 .. Len(r) : j + 1 \in i + 1 .. Len(q) /\ j \in 1 .. Len(r)
        BY <1>2, <2>3
      <3> QED
        BY <1>2, <2>1, <3>1, <3>2 DEF ReleaseIn
    <2> QED
      BY <2>2, <2>3
  <1>5. ASSUME ~drag.is_dragging, NoPress(q)
        PROVE  ~drag'.is_dragging /\ NoPress(r)
    <2>1. q[1].type # "MOUSE_DOWN"
      BY <1>2, <1>5 DEF NoPress
    <2>2. \A j \in 1 .. Len(r) : j + 1 \in 1 .. Len(q)
      BY <1>2
    <2> QED
      BY <1>1, <1>2, <1>5, <2>1, <2>2 DEF NoPress, q
  <1> QED
    BY <1>1, <1>3, <1>4, <1>5 DEF DragInv, q, r

-----------------------------------------------------------------------------
(***************************************************************************)
(* The turns of wm_compact_z.  The window in slot i with index z is looked *)
(* at in turn Turn(z, i).                                                  *)
(***************************************************************************)
M == WM_MAX_WINDOWS
Turn(z, i) == z * M + i

LEMMA MType == M \in Nat \ {0} /\ M * M \in Nat
  BY WindowsAssumption DEF M

LEMMA TurnType ==
    ASSUME NEW z \in Nat, NEW i \in 1 .. M
    PROVE  Turn(z, i) \in Nat \ {0}
  <1>1. z * M \in Nat
    BY MType
  <1> QED
    BY <1>1, MType DEF Turn

LEMMA TurnOrder ==
    ASSUME NEW y \in Nat, NEW z \in Nat, NEW i \in 1 .. M, NEW j \in 1 .. M, y < z
    PROVE  Turn(y, i) < Turn(z, j)
  <1>1. PICK d \in Nat : z = y + 1 + d
    BY SMT
  <1>2. z * M = y * M + M + d * M /\ d * M \in Nat /\ y * M \in Nat
    BY <1>1, MType
  <1> QED
    BY <1>2, MType DEF Turn

\* Turn k looks at slot i in pass z just if k is Turn(z, i).
LEMMA TurnIs ==
    ASSUME NEW k \in 1 .. M * M
    PROVE  /\ passes[k].pass \in Nat /\ passes[k].slot \in 1 .. M
           /\ k = Turn(passes[k].pass, passes[k].slot)
  <1> DEFINE p == (k - 1) \div M
             s == (k - 1) % M
  <1>1. k - 1 \in Nat
    BY MType
  <1>2. p \in Nat /\ s \in 0 .. M - 1 /\ k - 1 = M * p + s
    BY <1>1, MType
  <1>3. passes[k] = [pass |-> p, slot |-> s + 1]
    BY DEF passes, M
  <1> HIDE DEF p, s
  <1>4. M * p = p * M
    BY <1>2, MType
  <1> QED
    BY <1>2, <1>3, <1>4, MType DEF Turn

LEMMA LastTurn ==
    ASSUME NEW z \in Nat, NEW i \in 1 .. M
    PROVE  Turn(z, i) <= M * M <=> z < M
  <1>1. M - 1 \in Nat /\ Turn(M - 1, M) = M * M /\ M \in 1 .. M /\ 1 \in 1 .. M
    BY MType DEF Turn
  <1>2. Turn(M, i) > M * M
    BY MType DEF Turn
  <1>3. CASE z < M
    <2>1. CASE z = M - 1
      BY <1>1, <2>1, MType DEF Turn
    <2>2. CASE z < M - 1
      <3>1. Turn(z, i) < Turn(M - 1, M)
        BY <1>1, <2>2, TurnOrder
      <3> QED
        BY <1>1, <1>3, <3>1, MType, TurnType
    <2> QED
      BY <1>3, <2>1, <2>2, MType
  <1>4. CASE z = M
    BY <1>2, <1>4, MType, TurnType
  <1>5. CASE z > M
    <2>1. Turn(M, i) < Turn(z, i)
      BY <1>5, TurnOrder, MType
    <2> QED
      BY <1>2, <1>5, <2>1, MType, TurnType
  <1> QED
    BY <1>3, <1>4, <1>5, MType

Table == [Slots -> Window]
Acc == [arr : Table, z : Nat]
Distinct(arr, S) == \A i, j \in S : i # j => arr[i].z_index # arr[j].z_index

\* The same windows, apart from their z index.
SameWindows(arr, r) ==
    \A i \in Slots : r[i].used = arr[i].used /\ r[i].id = arr[i].id /\ r[i].state = arr[i].state

LEMMA SlotsAre == Slots = 1 .. M /\ IsFiniteSet(Slots) /\ Cardinality(Slots) = M
  <1>1. Slots = 1 .. M
    BY DEF Slots, M
  <1> QED
    BY <1>1, FS_Interval, MType

LEMMA RenumberType ==
    ASSUME NEW acc \in Acc, NEW k \in 1 .. M * M
    PROVE  renumber(acc, passes[k]) \in Acc
  <1> DEFINE at == passes[k]
  <1>1. at.slot \in Slots
    BY TurnIs, SlotsAre
  <1> HIDE DEF at
  <1>2. acc.arr[at.slot] \in Window /\ acc.arr \in Table /\ acc.z \in Nat
    BY <1>1 DEF Acc, Table
  <1>3. [acc.arr EXCEPT ![at.slot].z_index = acc.z] \in Table
    <2>1. [acc.arr[at.slot] EXCEPT !.z_index = acc.z] \in Window
      BY <1>2 DEF Window
    <2> QED
      BY <1>1, <1>2, <2>1 DEF Table
  <1> QED
    BY <1>2, <1>3 DEF renumber, Acc, at

IsCompacting(f, arr) ==
    f = [k \in 0 .. M * M |-> IF k = 0 THEN [arr |-> arr, z |-> 0] ELSE renumber(f[k - 1], passes[k])]

LEMMA CompactExists ==
    ASSUME NEW arr \in Table
    PROVE  \E f : IsCompacting(f, arr) /\ wm_compact_z(arr) = f[M * M].arr
  <1> DEFINE len == M * M
             base == [arr |-> arr, z |-> 0]
             F == [x \in (1 .. len) \X Acc |-> renumber(x[2], passes[x[1]])]
  <1>0. len \in Nat /\ base \in Acc
    BY MType DEF Acc
  <1>1. F \in [(1 .. len) \X Acc -> Acc]
    <2>1. \A x \in (1 .. len) \X Acc : x[2] \in Acc /\ x[1] \in 1 .. M * M
      OBVIOUS
    <2>2. \A x \in (1 .. len) \X Acc : renumber(x[2], passes[x[1]]) \in Acc
      BY <2>1, RenumberType
    <2> HIDE DEF len
    <2> QED
      BY <2>2
  <1>2. PICK f \in [0 .. len -> Acc] : IsRun(f, len, base, F)
    <2> HIDE DEF len, F, base
    <2> QED
      BY <1>0, <1>1, RunExists
  <1>3. \A k \in 0 .. len : k # 0 => F[<<k, f[k - 1]>>] = renumber(f[k - 1], passes[k])
    <2> SUFFICES ASSUME NEW k \in 0 .. len, k # 0
                 PROVE  F[<<k, f[k - 1]>>] = renumber(f[k - 1], passes[k])
      OBVIOUS
    <2> HIDE DEF len
    <2>1. k - 1 \in 0 .. len /\ k \in 1 .. len
      BY <1>0
    <2>2. <<k, f[k - 1]>> \in (1 .. len) \X Acc
      BY <2>1
    <2> QED
      BY <2>2
  <1>4. IsCompacting(f, arr)
    <2> HIDE DEF F
    <2> QED
      BY <1>2, <1>3 DEF IsRun, IsCompacting
  <1> DEFINE c == CHOOSE g : IsCompacting(g, arr)
  <1>5. IsCompacting(c, arr)
    BY <1>4
  <1>6. wm_compact_z(arr) = c[M * M].arr
    BY DEF wm_compact_z, IsCompacting, M
  <1> QED
    BY <1>5, <1>6

(***************************************************************************)
(* What holds after k turns: the windows whose turn has been are numbered  *)
(* from 0 on in the order they had, none of them got a larger index, and   *)
(* the next number is not above the index of any other window.             *)
(***************************************************************************)
Seen(arr, k) == {i \in Open(arr) : Turn(arr[i].z_index, i) <= k}

Turned(arr, k, acc) ==
    /\ acc \in Acc /\ SameWindows(arr, acc.arr)
    /\ \A i \in Slots \ Seen(arr, k) : acc.arr[i].z_index = arr[i].z_index
    /\ \A i \in Seen(arr, k) : acc.arr[i].z_index < acc.z /\ acc.arr[i].z_index <= arr[i].z_index
    /\ \A i, j \in Seen(arr, k) : arr[i].z_index < arr[j].z_index
                                      => acc.arr[i].z_index < acc.arr[j].z_index
    /\ acc.z = Cardinality(Seen(arr, k))
    /\ \A i \in Open(arr) \ Seen(arr, k) : acc.z <= arr[i].z_index

LEMMA TableType ==
    ASSUME NEW arr \in Table
    PROVE  \A i \in Slots : /\ arr[i].used \in BOOLEAN /\ arr[i].id \in Nat
                            /\ arr[i].z_index \in Nat /\ arr[i].state \in WmState
  BY DEF Table, Window

LEMMA OpenFinite ==
    ASSUME NEW arr
    PROVE  Open(arr) \subseteq Slots /\ IsFiniteSet(Open(arr)) /\ wm_get_count(arr) \in Nat /\ wm_get_count(arr) <= M
  <1>1. Open(arr) \in SUBSET Slots
    BY DEF Open
  <1> QED
    BY <1>1, SlotsAre, FS_Subset, FS_CardinalityType, MType DEF wm_get_count

LEMMA FirstTurn ==
    ASSUME NEW arr \in Table
    PROVE  Turned(arr, 0, [arr |-> arr, z |-> 0])
  <1>1. Seen(arr, 0) = {}
    <2> SUFFICES ASSUME NEW i \in Open(arr)
                 PROVE  ~(Turn(arr[i].z_index, i) <= 0)
      BY DEF Seen
    <2>1. i \in 1 .. M /\ arr[i].z_index \in Nat
      BY SlotsAre, TableType DEF Open
    <2> QED
      BY <2>1, TurnType
  <1>2. [arr |-> arr, z |-> 0] \in Acc
    BY DEF Acc
  <1>3. \A i \in Open(arr) : arr[i].z_index \in Nat
    BY TableType DEF Open
  <1> QED
    BY <1>1, <1>2, <1>3, FS_EmptySet DEF Turned, SameWindows

\* Turns tell windows apart.
LEMMA TurnOnce ==
    ASSUME NEW y \in Nat, NEW z \in Nat, NEW i \in 1 .. M, NEW j \in 1 .. M
    PROVE  /\ Turn(y, i) <= Turn(z, j) => y <= z
           /\ Turn(y, i) = Turn(z, j) => y = z /\ i = j
  <1>1. Turn(y, i) \in Nat /\ Turn(z, j) \in Nat
    BY TurnType
  <1>2. y < z => Turn(y, i) < Turn(z, j)
    BY TurnOrder
  <1>3. z < y => Turn(z, j) < Turn(y, i)
    BY TurnOrder
  <1>4. Turn(y, i) <= Turn(z, j) => y <= z
    BY <1>1, <1>3
  <1>5. Turn(y, i) = Turn(z, j) => y = z
    BY <1>1, <1>2, <1>3
  <1>6. y = z /\ Turn(y, i) = Turn(z, j) => i = j
    <2>1. y * M \in Nat
      BY MType
    <2> QED
      BY <2>1 DEF Turn
  <1> QED
    BY <1>4, <1>5, <1>6

LEMMA NextTurn ==
    ASSUME NEW arr \in Table, Distinct(arr, Open(arr)), NEW k \in Nat, k + 1 <= M * M,
           NEW acc, Turned(arr, k, acc)
    PROVE  Turned(arr, k + 1, renumber(acc, passes[k + 1]))
  <1> DEFINE p == passes[k + 1].pass
             t == passes[k + 1].slot
             new == renumber(acc, passes[k + 1])
             Was(i) == arr[i].z_index
             Is(i) == acc.arr[i].z_index
  <1>1. p \in Nat /\ t \in Slots /\ t \in 1 .. M /\ k + 1 = Turn(p, t)
    <2>1. k + 1 \in 1 .. M * M
      BY MType
    <2> QED
      BY <2>1, TurnIs, SlotsAre
  <1>2. /\ acc \in Acc /\ SameWindows(arr, acc.arr)
        /\ \A i \in Slots \ Seen(arr, k) : Is(i) = Was(i)
        /\ \A i \in Seen(arr, k) : Is(i) < acc.z /\ Is(i) <= Was(i)
        /\ \A i, j \in Seen(arr, k) : Was(i) < Was(j) => Is(i) < Is(j)
        /\ acc.z = Cardinality(Seen(arr, k))
        /\ \A i \in Open(arr) \ Seen(arr, k) : acc.z <= Was(i)
    BY DEF Turned
  <1>3. acc.arr \in Table /\ acc.z \in Nat
        /\ \A i \in Slots : Was(i) \in Nat /\ Is(i) \in Nat /\ i \in 1 .. M /\ Turn(Was(i), i) \in Nat
    <2>1. acc.arr \in Table /\ acc.z \in Nat
      BY <1>2 DEF Acc
    <2>2. \A i \in Slots : Was(i) \in Nat /\ Is(i) \in Nat /\ i \in 1 .. M
      BY <2>1, TableType, SlotsAre
    <2> QED
      BY <2>1, <2>2, TurnType
  <1>4. new \in Acc
    <2>1. k + 1 \in 1 .. M * M
      BY MType
    <2> QED
      BY <1>2, <2>1, RenumberType
  <1>5. Seen(arr, k) \subseteq Open(arr) /\ Open(arr) \subseteq Slots
    BY DEF Seen, Open
  <1>6. CASE t \in Open(arr) /\ Was(t) = p
    <2>1. t \notin Seen(arr, k)
      BY <1>1, <1>6 DEF Seen
    <2>2. Is(t) = p /\ acc.arr[t].used
      BY <1>1, <1>2, <1>6, <2>1 DEF SameWindows, Open
    <2>3. new = [arr |-> [acc.arr EXCEPT ![t].z_index = acc.z], z |-> acc.z + 1]
      BY <2>2 DEF renumber
    <2>4. Seen(arr, k + 1) = Seen(arr, k) \cup {t}
      <3>1. \A i \in Open(arr) : Turn(Was(i), i) <= k + 1 <=> (Turn(Was(i), i) <= k \/ Turn(Was(i), i) = k + 1)
        BY <1>3, <1>5
      <3>2. \A i \in Open(arr) : Turn(Was(i), i) = k + 1 <=> i = t
        BY <1>1, <1>3, <1>5, <1>6, TurnOnce
      <3> HIDE DEF t, p
      <3> QED
        BY <1>6, <3>1, <3>2 DEF Seen
    <2>5. new.z = acc.z + 1 /\ new.arr[t].z_index = acc.z
          /\ \A i \in Slots : i # t => new.arr[i] = acc.arr[i]
      <3> HIDE DEF new, t
      <3>1. acc.arr[t] \in Window
        BY <1>1, <1>3 DEF Table
      <3> QED
        BY <1>1, <1>3, <2>3, <3>1 DEF Table, Window
    <2>6. SameWindows(arr, new.arr)
      <3>1. /\ new.arr[t].used = acc.arr[t].used /\ new.arr[t].id = acc.arr[t].id
            /\ new.arr[t].state = acc.arr[t].state
        <4> HIDE DEF new, t
        <4>1. acc.arr[t] \in Window
          BY <1>1, <1>3 DEF Table
        <4> QED
          BY <1>1, <1>3, <2>3, <4>1 DEF Table, Window
      <3> HIDE DEF new, t
      <3> QED
        BY <1>2, <2>5, <3>1 DEF SameWindows
    <2>7. acc.z <= Was(t)
      BY <1>2, <1>6, <2>1
    <2>8. \A i \in Seen(arr, k) : Was(i) < Was(t)
      <3> SUFFICES ASSUME NEW i \in Seen(arr, k)
                   PROVE  Was(i) < Was(t)
        OBVIOUS
      <3>1. Turn(Was(i), i) <= Turn(Was(t), t) /\ i \in Open(arr) /\ i \in Slots /\ i # t
        BY <1>1, <1>3, <1>5, <1>6, <2>1 DEF Seen
      <3>2. Was(i) <= Was(t)
        BY <1>1, <1>3, <3>1, TurnOnce
      <3>3. Was(i) # Was(t)
        BY <1>6, <3>1 DEF Distinct
      <3> QED
        BY <1>1, <1>3, <3>1, <3>2, <3>3
    <2>9. \A i \in Open(arr) \ Seen(arr, k + 1) : Was(t) < Was(i)
      <3> SUFFICES ASSUME NEW i \in Open(arr) \ Seen(arr, k + 1)
                   PROVE  Was(t) < Was(i)
        OBVIOUS
      <3>1. ~(Turn(Was(i), i) <= k + 1) /\ i \in Slots /\ i # t
        BY <1>5, <2>4 DEF Seen
      <3>2. Turn(Was(t), t) <= Turn(Was(i), i)
        BY <1>1, <1>3, <1>6, <3>1
      <3>3. Was(t) <= Was(i)
        BY <1>1, <1>3, <3>1, <3>2, TurnOnce
      <3>4. Was(t) # Was(i)
        BY <1>6, <3>1 DEF Distinct
      <3> QED
        BY <1>1, <1>3, <3>1, <3>3, <3>4
    <2> HIDE DEF new, t, p
    <2>10. \A i \in Slots \ Seen(arr, k + 1) : new.arr[i].z_index = Was(i)
      BY <1>2, <2>4, <2>5
    <2>11. \A i \in Seen(arr, k + 1) : new.arr[i].z_index < new.z /\ new.arr[i].z_index <= Was(i)
      <3> SUFFICES ASSUME NEW i \in Seen(arr, k + 1)
                   PROVE  new.arr[i].z_index < new.z /\ new.arr[i].z_index <= Was(i)
        OBVIOUS
      <3>1. CASE i = t
        BY <1>3, <2>5, <2>7, <3>1
      <3>2. CASE i # t
        <4>1. i \in Seen(arr, k) /\ i \in Slots
          BY <1>5, <2>4, <3>2
        <4>2. new.arr[i].z_index = Is(i) /\ Is(i) < acc.z /\ Is(i) <= Was(i)
          BY <1>2, <2>5, <3>2, <4>1
        <4> QED
          BY <1>3, <2>5, <4>1, <4>2
      <3> QED
        BY <3>1, <3>2
    <2>12. ASSUME NEW i \in Seen(arr, k + 1), NEW j \in Seen(arr, k + 1), Was(i) < Was(j)
           PROVE  new.arr[i].z_index < new.arr[j].z_index
      <3>0. i \in Slots /\ j \in Slots /\ i # j
        BY <1>1, <1>3, <1>5, <2>4, <2>12
      <3>1. CASE i # t /\ j # t
        <4>1. i \in Seen(arr, k) /\ j \in Seen(arr, k)
          BY <2>4, <3>1
        <4> QED
          BY <1>2, <2>5, <2>12, <3>0, <3>1, <4>1
      <3>2. CASE j = t
        <4>1. i \in Seen(arr, k) /\ i # t
          BY <2>4, <3>0, <3>2
        <4> QED
          BY <1>2, <2>5, <3>0, <3>2, <4>1
      <3>3. CASE i = t
        <4>1. j \in Seen(arr, k)
          BY <2>4, <3>0, <3>3
        <4> QED
          BY <1>3, <2>8, <2>12, <3>0, <3>3, <4>1
      <3> QED
        BY <3>1, <3>2, <3>3
    <2>13. new.z = Cardinality(Seen(arr, k + 1))
      <3>1. IsFiniteSet(Seen(arr, k))
        BY <1>5, OpenFinite, FS_Subset
      <3> QED
        BY <1>2, <2>1, <2>4, <2>5, <3>1, FS_AddElement
    <2>14. \A i \in Open(arr) \ Seen(arr, k + 1) : new.z <= Was(i)
      <3> SUFFICES ASSUME NEW i \in Open(arr) \ Seen(arr, k + 1)
                   PROVE  new.z <= Was(i)
        OBVIOUS
      <3>1. Was(t) < Was(i) /\ Was(t) \in Nat /\ Was(i) \in Nat
        BY <1>1, <1>3, <1>5, <2>9
      <3> QED
        BY <1>3, <2>5, <2>7, <3>1
    <2>15. Turned(arr, k + 1, new)
      BY <1>4, <2>6, <2>10, <2>11, <2>12, <2>13, <2>14 DEF Turned
    <2> QED
      BY <2>15 DEF new
  <1>7. CASE ~(t \in Open(arr) /\ Was(t) = p)
    <2>1. Seen(arr, k + 1) = Seen(arr, k)
      <3>1. \A i \in Open(arr) : Turn(Was(i), i) <= k + 1 <=> (Turn(Was(i), i) <= k \/ Turn(Was(i), i) = k + 1)
        BY <1>3, <1>5
      <3>2. \A i \in Open(arr) : Turn(Was(i), i) # k + 1
        BY <1>1, <1>3, <1>5, <1>7, TurnOnce
      <3> QED
        BY <3>1, <3>2 DEF Seen
    <2>2. new = acc
      <3> SUFFICES ASSUME acc.arr[t].used, Is(t) = p
                   PROVE  FALSE
        BY DEF renumber
      <3>1. t \in Open(arr)
        BY <1>1, <1>2 DEF SameWindows, Open
      <3>2. t \in Seen(arr, k)
        BY <1>1, <1>2, <1>7, <3>1
      <3>3. Turn(Was(t), t) <= k /\ Is(t) <= Was(t)
        BY <1>2, <3>2 DEF Seen
      <3>4. Was(t) # p
        BY <1>7, <3>1
      <3>5. p < Was(t)
        BY <1>1, <1>3, <3>3, <3>4
      <3>6. Turn(p, t) < Turn(Was(t), t)
        BY <1>1, <1>3, <3>5, TurnOrder
      <3> QED
        BY <1>1, <1>3, <3>3, <3>6
    <2> QED
      BY <2>1, <2>2 DEF Turned
  <1> QED
    BY <1>6, <1>7

(***************************************************************************)
(* wm_compact_z keeps the windows and their order, gives different windows *)
(* different indices and, if it has seen all of them, indices below their  *)
(* number.                                                                 *)
(***************************************************************************)
Compacted(arr, r) ==
    /\ r \in Table /\ SameWindows(arr, r) /\ Open(r) = Open(arr)
    /\ \A i, j \in Open(arr) : arr[i].z_index < arr[j].z_index => r[i].z_index < r[j].z_index
    /\ Distinct(r, Open(r))
    /\ (\A i \in Open(arr) : arr[i].z_index < M)
          => \A i \in Open(r) : r[i].z_index < wm_get_count(r)

LEMMA CompactIs ==
    ASSUME NEW arr \in Table, Distinct(arr, Open(arr))
    PROVE  Compacted(arr, wm_compact_z(arr))
  <1>1. PICK f : IsCompacting(f, arr) /\ wm_compact_z(arr) = f[M * M].arr
    BY CompactExists
  <1> DEFINE len == M * M
             S == {k \in Nat : k <= len => Turned(arr, k, f[k])}
             r == f[len].arr
             Was(i) == arr[i].z_index
             Is(i) == r[i].z_index
  <1>2. f[0] = [arr |-> arr, z |-> 0] /\ \A k \in 1 .. len : f[k] = renumber(f[k - 1], passes[k])
    BY <1>1, MType DEF IsCompacting
  <1>3. 0 \in S
    BY <1>2, FirstTurn
  <1>4. ASSUME NEW k \in Nat, k \in S PROVE k + 1 \in S
    <2> SUFFICES ASSUME k + 1 <= len
                 PROVE  Turned(arr, k + 1, f[k + 1])
      OBVIOUS
    <2>1. k <= len /\ k + 1 \in 1 .. len /\ (k + 1) - 1 = k
      BY MType
    <2>2. Turned(arr, k, f[k])
      BY <1>4, <2>1
    <2>3. f[k + 1] = renumber(f[k], passes[k + 1])
      BY <1>2, <2>1
    <2> QED
      BY <2>2, <2>3, NextTurn
  <1>5. Nat \subseteq S
    <2> HIDE DEF S
    <2> QED
      BY <1>3, <1>4, Induction
  <1>6. Turned(arr, len, f[len])
    <2>1. len \in Nat /\ len <= len
      BY MType
    <2> HIDE DEF len
    <2> QED
      BY <1>5, <2>1
  <1> HIDE DEF len
  <1>7. /\ r \in Table /\ SameWindows(arr, r)
        /\ \A i \in Slots \ Seen(arr, len) : Is(i) = Was(i)
        /\ \A i \in Seen(arr, len) : Is(i) < f[len].z /\ Is(i) <= Was(i)
        /\ \A i, j \in Seen(arr, len) : Was(i) < Was(j) => Is(i) < Is(j)
        /\ f[len].z = Cardinality(Seen(arr, len))
    BY <1>6 DEF Turned, Acc
  <1> HIDE DEF r
  <1>8. \A i \in Slots : Was(i) \in Nat /\ Is(i) \in Nat
    BY <1>7, TableType
  <1>9. Open(r) = Open(arr) /\ Open(arr) \subseteq Slots /\ Seen(arr, len) \subseteq Open(arr)
    BY <1>7 DEF Open, SameWindows, Seen
  <1>10. \A i \in Open(arr) : i \in Seen(arr, len) <=> Was(i) < M
    <2> SUFFICES ASSUME NEW i \in Open(arr)
                 PROVE  i \in Seen(arr, len) <=> Was(i) < M
      OBVIOUS
    <2>1. Was(i) \in Nat /\ i \in 1 .. M
      BY <1>8, <1>9, SlotsAre
    <2>2. Turn(Was(i), i) <= len <=> Was(i) < M
      BY <2>1, LastTurn DEF len
    <2> QED
      BY <2>2 DEF Seen
  <1>11. ASSUME NEW i \in Open(arr), NEW j \in Open(arr), Was(i) < Was(j)
         PROVE  Is(i) < Is(j)
    <2>0. i \in Slots /\ j \in Slots /\ Was(i) \in Nat /\ Was(j) \in Nat /\ Is(i) \in Nat /\ Is(j) \in Nat /\ M \in Nat
      BY <1>8, <1>9, MType
    <2>1. CASE i \in Seen(arr, len) /\ j \in Seen(arr, len)
      BY <1>7, <1>11, <2>1
    <2>2. CASE i \in Seen(arr, len) /\ j \notin Seen(arr, len)
      <3>1. Is(j) = Was(j) /\ Is(i) <= Was(i)
        BY <1>7, <2>0, <2>2
      <3> QED
        BY <1>11, <2>0, <3>1
    <2>3. CASE i \notin Seen(arr, len) /\ j \notin Seen(arr, len)
      BY <1>7, <1>11, <2>0, <2>3
    <2>4. CASE i \notin Seen(arr, len) /\ j \in Seen(arr, len)
      BY <1>10, <1>11, <2>0, <2>4
    <2> QED
      BY <2>1, <2>2, <2>3, <2>4
  <1>12. Distinct(r, Open(r))
    <2> SUFFICES ASSUME NEW i \in Open(arr), NEW j \in Open(arr), i # j
                 PROVE  Is(i) # Is(j)
      BY <1>9 DEF Distinct
    <2>1. Was(i) # Was(j) /\ Was(i) \in Nat /\ Was(j) \in Nat /\ Is(i) \in Nat /\ Is(j) \in Nat
      BY <1>8, <1>9 DEF Distinct
    <2>2. Was(i) < Was(j) \/ Was(j) < Was(i)
      BY <2>1
    <2> QED
      BY <1>11, <2>1, <2>2
  <1>13. ASSUME \A i \in Open(arr) : Was(i) < M, NEW i \in Open(r)
         PROVE  Is(i) < wm_get_count(r)
    <2>1. Seen(arr, len) = Open(arr)
      BY <1>9, <1>10, <1>13
    <2> QED
      BY <1>7, <1>9, <2>1 DEF wm_get_count
  <1>14. Compacted(arr, r)
    BY <1>7, <1>9, <1>11, <1>12, <1>13 DEF Compacted
  <1> QED
    BY <1>1, <1>14 DEF r, len

-----------------------------------------------------------------------------
(***************************************************************************)
(* The calls of the window manager.                                        *)
(***************************************************************************)
\* Of some windows, one is the topmost.
LEMMA Topmost ==
    ASSUME NEW arr \in Table, NEW T \in SUBSET Slots, T # {}
    PROVE  \E i \in T : \A j \in T : arr[j].z_index <= arr[i].z_index
  <1> DEFINE z(i) == arr[i].z_index
             Bound(m, b) == \A i \in T : i <= m => z(i) <= b
             S == {m \in Nat : \E b \in Nat : Bound(m, b)}
             U == {b \in Nat : \A i \in T : z(i) <= b}
  <1>1. \A i \in T : z(i) \in Nat /\ i \in 1 .. M
    BY TableType, SlotsAre
  <1>2. 0 \in S
    <2>1. Bound(0, 0)
      BY <1>1
    <2> QED
      BY <2>1
  <1>3. ASSUME NEW m \in Nat, m \in S PROVE m + 1 \in S
    <2>1. PICK b \in Nat : Bound(m, b)
      BY <1>3
    <2>2. CASE m + 1 \in T /\ z(m + 1) > b
      <3>1. Bound(m + 1, z(m + 1))
        BY <1>1, <2>1, <2>2
      <3> QED
        BY <1>1, <2>2, <3>1
    <2>3. CASE ~(m + 1 \in T /\ z(m + 1) > b)
      <3>1. Bound(m + 1, b)
        <4> SUFFICES ASSUME NEW i \in T, i <= m + 1
                     PROVE  z(i) <= b
          OBVIOUS
        <4>1. i <= m \/ i = m + 1
          BY <1>1
        <4> QED
          BY <1>1, <2>1, <2>3, <4>1
      <3> QED
        BY <3>1
    <2> QED
      BY <2>2, <2>3
  <1>4. Nat \subseteq S
    <2> HIDE DEF S
    <2> QED
      BY <1>2, <1>3, Induction
  <1>5. U \subseteq Nat /\ U # {}
    <2>1. PICK b \in Nat : Bound(M, b)
      BY <1>4, MType
    <2>2. b \in U
      BY <1>1, <2>1
    <2> QED
      BY <2>2
  <1>6. PICK b \in U : \A c \in U : b <= c
    <2> HIDE DEF U
    <2> QED
      BY <1>5, LeastNumber
  <1>7. \E i \in T : z(i) = b
    <2> SUFFICES ASSUME \A i \in T : z(i) # b
                 PROVE  FALSE
      OBVIOUS
    <2>1. PICK i \in T : TRUE
      OBVIOUS
    <2>2. b - 1 \in Nat
      BY <1>1, <1>6, <2>1
    <2>3. b - 1 \in U
      BY <1>1, <1>6, <2>2
    <2> QED
      BY <1>6, <2>2, <2>3
  <1> QED
    BY <1>6, <1>7

LEMMA MaxZ ==
    ASSUME NEW arr \in Table
    PROVE  /\ maxz(arr) \in Nat /\ \A i \in Open(arr) : arr[i].z_index <= maxz(arr)
           /\ maxz(arr) = 0 \/ \E i \in Open(arr) : maxz(arr) = arr[i].z_index
  <1> DEFINE Z == {0} \cup {arr[i].z_index : i \in Open(arr)}
             Top(z) == \A i \in Open(arr) : arr[i].z_index <= z
  <1>1. Open(arr) \in SUBSET Slots /\ \A i \in Open(arr) : arr[i].z_index \in Nat
    BY TableType DEF Open
  <1>2. \E z \in Z : Top(z)
    <2>1. CASE Open(arr) = {}
      BY <2>1
    <2>2. CASE Open(arr) # {}
      <3>1. PICK i \in Open(arr) : \A j \in Open(arr) : arr[j].z_index <= arr[i].z_index
        BY <1>1, <2>2, Topmost
      <3> QED
        BY <3>1
    <2> QED
      BY <2>1, <2>2
  <1>3. maxz(arr) = CHOOSE z \in Z : Top(z)
    BY DEF maxz
  <1> DEFINE m == CHOOSE z \in Z : Top(z)
  <1>4. m \in Z /\ Top(m)
    <2> HIDE DEF Z, Top
    <2> QED
      BY <1>2
  <1> HIDE DEF m
  <1>5. maxz(arr) = m
    BY <1>3 DEF m
  <1> QED
    BY <1>1, <1>4, <1>5

LEMMA FoundById ==
    ASSUME NEW arr \in Table, NEW id
    PROVE  /\ wm_get_by_id(arr, id) = 0 \/ (wm_get_by_id(arr, id) \in Open(arr) /\ arr[wm_get_by_id(arr, id)].id = id)
           /\ (\E i \in Open(arr) : arr[i].id = id) => wm_get_by_id(arr, id) # 0
  <1>1. CASE \E i \in Open(arr) : arr[i].id = id
    <2>1. wm_get_by_id(arr, id) \in Open(arr) /\ arr[wm_get_by_id(arr, id)].id = id
      BY <1>1 DEF wm_get_by_id
    <2>2. 0 \notin Open(arr)
      BY SlotsAre, MType DEF Open
    <2> QED
      BY <2>1, <2>2
  <1>2. CASE ~\E i \in Open(arr) : arr[i].id = id
    BY <1>2 DEF wm_get_by_id
  <1> QED
    BY <1>1, <1>2

(***************************************************************************)
(* Raising slot t: t comes to lie above all others, the others stay as     *)
(* they were.                                                              *)
(***************************************************************************)
Raised(arr, t, r) ==
    /\ r \in Table /\ SameWindows(arr, r) /\ Open(r) = Open(arr)
    /\ \A i, j \in Open(arr) \ {t} : arr[i].z_index < arr[j].z_index => r[i].z_index < r[j].z_index
    /\ \A i \in Open(arr) \ {t} : r[i].z_index < r[t].z_index
    /\ Distinct(r, Open(r))
    /\ (\A i \in Open(arr) : arr[i].z_index < M - 1)
          => \A i \in Open(r) : r[i].z_index < wm_get_count(r)

LEMMA RaiseIs ==
    ASSUME NEW arr \in Table, NEW id, wm_get_by_id(arr, id) # 0,
           Distinct(arr, Open(arr) \ {wm_get_by_id(arr, id)})
    PROVE  Raised(arr, wm_get_by_id(arr, id), wm_raise(arr, id))
  <1> DEFINE t == wm_get_by_id(arr, id)
             up == [arr EXCEPT ![t].z_index = maxz(arr) + 1]
             r == wm_compact_z(up)
  <1>1. t \in Open(arr) /\ t \in Slots
    BY FoundById DEF Open
  <1>2. wm_raise(arr, id) = r
    BY DEF wm_raise
  <1>3. /\ up[t].z_index = maxz(arr) + 1 /\ up[t].used = arr[t].used /\ up[t].id = arr[t].id
        /\ up[t].state = arr[t].state /\ (\A i \in Slots : i # t => up[i] = arr[i]) /\ up \in Table
    <2>1. maxz(arr) + 1 \in Nat /\ arr[t] \in Window
      BY <1>1, MaxZ DEF Table
    <2> HIDE DEF t
    <2>2. up[t] = [arr[t] EXCEPT !.z_index = maxz(arr) + 1]
      BY <1>1 DEF Table
    <2>3. up[t] \in Window
      BY <2>1, <2>2 DEF Window
    <2>4. up \in Table
      BY <1>1, <2>1, <2>3 DEF Table, Window
    <2> QED
      BY <1>1, <2>1, <2>2, <2>4 DEF Table, Window
  <1> HIDE DEF up, t
  <1>4. SameWindows(arr, up) /\ Open(up) = Open(arr)
    BY <1>1, <1>3 DEF SameWindows, Open
  <1>5. \A i \in Open(arr) \ {t} : up[i].z_index = arr[i].z_index /\ up[i].z_index < up[t].z_index
        /\ up[i].z_index \in Nat /\ i \in Slots
    <2>1. \A i \in Open(arr) : arr[i].z_index <= maxz(arr) /\ arr[i].z_index \in Nat /\ i \in Slots
      BY MaxZ, TableType DEF Open
    <2>2. maxz(arr) \in Nat
      BY MaxZ
    <2> QED
      BY <1>3, <2>1, <2>2
  <1>6. Distinct(up, Open(up))
    <2> SUFFICES ASSUME NEW i \in Open(arr), NEW j \in Open(arr), i # j
                 PROVE  up[i].z_index # up[j].z_index
      BY <1>4 DEF Distinct
    <2>0. up[t].z_index \in Nat
      BY <1>1, <1>3, TableType
    <2>1. CASE i # t /\ j # t
      BY <1>5, <2>1 DEF Distinct, t
    <2>2. CASE i = t
      BY <1>5, <2>0, <2>2
    <2>3. CASE j = t
      BY <1>5, <2>0, <2>3
    <2> QED
      BY <2>1, <2>2, <2>3
  <1>7. Compacted(up, r)
    BY <1>3, <1>6, CompactIs
  <1> HIDE DEF r
  <1>8. /\ r \in Table /\ SameWindows(arr, r) /\ Open(r) = Open(arr) /\ Distinct(r, Open(r))
    BY <1>4, <1>7 DEF Compacted, SameWindows
  <1>9. \A i, j \in Open(arr) : up[i].z_index < up[j].z_index => r[i].z_index < r[j].z_index
    BY <1>4, <1>7 DEF Compacted
  <1>10. /\ \A i, j \in Open(arr) \ {t} : arr[i].z_index < arr[j].z_index => r[i].z_index < r[j].z_index
         /\ \A i \in Open(arr) \ {t} : r[i].z_index < r[t].z_index
    BY <1>1, <1>5, <1>9
  <1>11. ASSUME \A i \in Open(arr) : arr[i].z_index < M - 1
         PROVE  \A i \in Open(r) : r[i].z_index < wm_get_count(r)
    <2>1. maxz(arr) + 1 < M
      <3>1. CASE maxz(arr) = 0
        <4>1. arr[t].z_index \in Nat /\ arr[t].z_index < M - 1
          BY <1>1, <1>11, TableType
        <4> QED
          BY <3>1, <4>1, MType
      <3>2. CASE \E i \in Open(arr) : maxz(arr) = arr[i].z_index
        <4>1. maxz(arr) < M - 1 /\ maxz(arr) \in Nat
          BY <1>11, <3>2, MaxZ
        <4> QED
          BY <4>1, MType
      <3> QED
        BY <3>1, <3>2, MaxZ
    <2>2. \A i \in Open(up) : up[i].z_index < M
      <3> SUFFICES ASSUME NEW i \in Open(arr)
                   PROVE  up[i].z_index < M
        BY <1>4
      <3>1. CASE i = t
        BY <1>3, <2>1, <3>1
      <3>2. CASE i # t
        <4>1. up[i].z_index = arr[i].z_index /\ arr[i].z_index < M - 1 /\ arr[i].z_index \in Nat
          BY <1>5, <1>11, <3>2
        <4> QED
          BY <4>1, MType
      <3> QED
        BY <3>1, <3>2
    <2> QED
      BY <1>7, <2>2 DEF Compacted
  <1>12. Raised(arr, t, r)
    BY <1>8, <1>10, <1>11 DEF Raised
  <1> QED
    BY <1>2, <1>12 DEF t

\* A new window, in the slot i.
CreatedIn(arr, id, i, r) ==
    /\ i \in Slots /\ ~arr[i].used
    /\ r = [arr EXCEPT ![i] = [used |-> TRUE, id |-> id, z_index |-> wm_get_count(arr) + 1,
                               state |-> "WM_NORMAL"]]

LEMMA CreateIs ==
    ASSUME NEW arr \in Table, NEW id, wm_get_count(arr) < M
    PROVE  \E i : CreatedIn(arr, id, i, wm_create(arr, id))
  <1> DEFINE F == Slots \ Open(arr)
             First(j) == ~arr[j].used /\ \A k \in 1 .. j - 1 : arr[k].used
  <1>1. F # {}
    <2> SUFFICES ASSUME F = {}
                 PROVE  FALSE
      OBVIOUS
    <2>1. Open(arr) = Slots
      BY OpenFinite
    <2> QED
      BY <2>1, SlotsAre, MType DEF wm_get_count
  <1>2. F \subseteq Nat
    BY SlotsAre
  <1>3. PICK j \in F : \A k \in F : j <= k
    <2> HIDE DEF F
    <2> QED
      BY <1>1, <1>2, LeastNumber
  <1>4. \A k \in 1 .. j - 1 : k \in Slots /\ ~(j <= k)
    BY <1>3, SlotsAre, MType
  <1>5. j \in Slots /\ First(j)
    BY <1>3, <1>4 DEF Open
  <1> DEFINE i == CHOOSE k \in Slots : First(k)
  <1>6. i \in Slots /\ First(i)
    <2> HIDE DEF First
    <2> QED
      BY <1>5
  <1>7. wm_create(arr, id) = [arr EXCEPT ![i] = [used |-> TRUE, id |-> id, z_index |-> wm_get_count(arr) + 1,
                                                 state |-> "WM_NORMAL"]]
    BY DEF wm_create
  <1> HIDE DEF i
  <1> QED
    BY <1>6, <1>7 DEF CreatedIn

LEMMA CreatedTable ==
    ASSUME NEW arr \in Table, NEW id \in Nat, NEW i, NEW r, CreatedIn(arr, id, i, r)
    PROVE  /\ r \in Table /\ Open(r) = Open(arr) \cup {i} /\ i \notin Open(arr)
           /\ wm_get_count(r) = wm_get_count(arr) + 1
           /\ r[i].id = id /\ r[i].z_index = wm_get_count(arr) + 1
           /\ \A j \in Slots : j # i => r[j] = arr[j]
  <1> DEFINE w == [used |-> TRUE, id |-> id, z_index |-> wm_get_count(arr) + 1, state |-> "WM_NORMAL"]
  <1>1. w \in Window
    BY OpenFinite DEF Window, WmState
  <1>2. w.used /\ w.id = id /\ w.z_index = wm_get_count(arr) + 1
    OBVIOUS
  <1>3. r = [arr EXCEPT ![i] = w] /\ i \in Slots /\ ~arr[i].used
    BY DEF CreatedIn
  <1> HIDE DEF w
  <1>4. r \in Table /\ r[i] = w /\ \A j \in Slots : j # i => r[j] = arr[j]
    BY <1>1, <1>3 DEF Table
  <1>5. Open(r) = Open(arr) \cup {i} /\ i \notin Open(arr)
    BY <1>2, <1>3, <1>4 DEF Open
  <1>6. wm_get_count(r) = wm_get_count(arr) + 1
    BY <1>5, OpenFinite, FS_AddElement DEF wm_get_count
  <1> QED
    BY <1>2, <1>4, <1>5, <1>6

(***************************************************************************)
(* The invariant of the window table: z indices tell open windows apart,   *)
(* ids are given out once, and while few windows are open no index is      *)
(* larger than their number, so that the next raise is seen by             *)
(* wm_compact_z and by wm_draw_all.                                        *)
(***************************************************************************)
Numbered(arr, next) ==
    /\ arr \in Table /\ next \in Nat \ {0}
    /\ Distinct(arr, Open(arr))
    /\ \A i \in Open(arr) : arr[i].id # 0 /\ arr[i].id < next
Low(arr) == \A i \in Open(arr) : arr[i].z_index <= wm_get_count(arr)
StackInv(arr, next) ==
    /\ Numbered(arr, next)
    /\ wm_get_count(arr) <= MaxOpen
    /\ MaxOpen <= M - 2 => Low(arr)

IsCreating(f, len) ==
    f = [k \in 0 .. len |-> IF k = 0 THEN [i \in Slots |-> NoWindow] ELSE wm_create(f[k - 1], k)]

LEMMA CreateStep ==
    ASSUME NEW k \in Nat, k < M, NEW arr, Numbered(arr, k + 1), Low(arr), wm_get_count(arr) = k
    PROVE  LET r == wm_create(arr, k + 1)
           IN  Numbered(r, k + 2) /\ Low(r) /\ wm_get_count(r) = k + 1
  <1> DEFINE r == wm_create(arr, k + 1)
  <1>1. arr \in Table
    BY DEF Numbered
  <1>2. PICK i : CreatedIn(arr, k + 1, i, r)
    BY <1>1, CreateIs
  <1> HIDE DEF r
  <1>3. /\ r \in Table /\ Open(r) = Open(arr) \cup {i} /\ i \notin Open(arr)
        /\ wm_get_count(r) = k + 1 /\ r[i].id = k + 1 /\ r[i].z_index = k + 1
        /\ \A j \in Slots : j # i => r[j] = arr[j]
    BY <1>1, <1>2, CreatedTable
  <1>4. \A j \in Open(arr) : r[j] = arr[j] /\ arr[j].z_index \in Nat /\ arr[j].z_index <= k
                             /\ arr[j].id # 0 /\ arr[j].id < k + 1 /\ arr[j].id \in Nat
    BY <1>1, <1>3, OpenFinite, TableType DEF Low, Numbered
  <1>5. Distinct(r, Open(r))
    BY <1>3, <1>4 DEF Distinct, Numbered
  <1>6. Low(r)
    BY <1>3, <1>4 DEF Low
  <1>7. \A j \in Open(r) : r[j].id # 0 /\ r[j].id < k + 2
    BY <1>3, <1>4
  <1> QED
    BY <1>3, <1>5, <1>6, <1>7 DEF Numbered, r

\* The windows gui_layer6_init opens.
LEMMA CreatedOK ==
    ASSUME NEW len \in Nat, len <= M
    PROVE  Numbered(wm_created(len), len + 1) /\ Low(wm_created(len)) /\ wm_get_count(wm_created(len)) = len
  <1> DEFINE empty == [i \in Slots |-> NoWindow]
             F == [x \in (1 .. len) \X Table |-> wm_create(x[2], x[1])]
             c == CHOOSE g : IsCreating(g, len)
             Good(k) == Numbered(c[k], k + 1) /\ Low(c[k]) /\ wm_get_count(c[k]) = k
             S == {k \in Nat : k <= len => Good(k)}
  <1>1. Numbered(empty, 1) /\ Low(empty) /\ wm_get_count(empty) = 0 /\ empty \in Table
    <2>1. empty \in Table
      BY DEF Table, Window, WmState, NoWindow
    <2>2. Open(empty) = {}
      BY DEF Open, NoWindow
    <2>3. wm_get_count(empty) = 0
      BY <2>2, FS_EmptySet DEF wm_get_count
    <2> HIDE DEF empty
    <2> QED
      BY <2>1, <2>2, <2>3 DEF Numbered, Low, Distinct
  <1>2. \A x \in (1 .. len) \X Table : wm_create(x[2], x[1]) \in Table
    <2> SUFFICES ASSUME NEW id \in 1 .. len, NEW arr \in Table
                 PROVE  wm_create(arr, id) \in Table
      OBVIOUS
    <2> DEFINE w == [used |-> TRUE, id |-> id, z_index |-> wm_get_count(arr) + 1, state |-> "WM_NORMAL"]
    <2>1. w \in Window
      BY OpenFinite DEF Window, WmState
    <2>2. \E i : wm_create(arr, id) = [arr EXCEPT ![i] = w]
      BY DEF wm_create
    <2> HIDE DEF w
    <2> QED
      BY <2>1, <2>2 DEF Table
  <1>3. F \in [(1 .. len) \X Table -> Table]
    BY <1>2
  <1>4. PICK f \in [0 .. len -> Table] : IsRun(f, len, empty, F)
    <2> HIDE DEF F, empty
    <2> QED
      BY <1>1, <1>3, RunExists
  <1>5. \A k \in 0 .. len : k # 0 => F[<<k, f[k - 1]>>] = wm_create(f[k - 1], k)
    <2> SUFFICES ASSUME NEW k \in 0 .. len, k # 0
                 PROVE  F[<<k, f[k - 1]>>] = wm_create(f[k - 1], k)
      OBVIOUS
    <2>1. k - 1 \in 0 .. len /\ k \in 1 .. len
      OBVIOUS
    <2>2. <<k, f[k - 1]>> \in (1 .. len) \X Table
      BY <2>1
    <2> QED
      BY <2>2
  <1>6. IsCreating(f, len)
    <2> HIDE DEF F
    <2> QED
      BY <1>4, <1>5 DEF IsRun, IsCreating
  <1>7. IsCreating(c, len)
    BY <1>6
  <1>8. wm_created(len) = c[len]
    BY DEF wm_created, IsCreating
  <1> HIDE DEF c
  <1>9. c[0] = empty /\ \A k \in 1 .. len : c[k] = wm_create(c[k - 1], k)
    BY <1>7 DEF IsCreating
  <1> HIDE DEF empty
  <1>10. 0 \in S
    <2>1. Good(0)
      BY <1>1, <1>9
    <2> HIDE DEF Good
    <2> QED
      BY <2>1
  <1>11. ASSUME NEW k \in Nat, k \in S PROVE k + 1 \in S
    <2> SUFFICES ASSUME k + 1 <= len
                 PROVE  Good(k + 1)
      OBVIOUS
    <2>1. k <= len /\ k < M /\ k + 1 \in 1 .. len /\ (k + 1) - 1 = k /\ (k + 1) + 1 = k + 2
      BY MType
    <2>2. Good(k)
      <3> HIDE DEF Good
      <3> QED
        BY <1>11, <2>1
    <2>3. c[k + 1] = wm_create(c[k], k + 1)
      BY <1>9, <2>1
    <2>4. Numbered(c[k + 1], k + 2) /\ Low(c[k + 1]) /\ wm_get_count(c[k + 1]) = k + 1
      BY <2>1, <2>2, <2>3, CreateStep
    <2> QED
      BY <2>1, <2>4
  <1>12. Nat \subseteq S
    <2> HIDE DEF S
    <2> QED
      BY <1>10, <1>11, Induction
  <1>13. Good(len)
    <2>1. len \in S /\ len <= len
      BY <1>12
    <2> HIDE DEF Good
    <2> QED
      BY <2>1
  <1> QED
    BY <1>8, <1>13

\* What OrderKept says of a step from arr to r.
Kept(arr, r) ==
    \A a, b \in Slots :
        (/\ a # b /\ arr[a].used /\ r[a].used /\ r[a].id = arr[a].id
         /\ arr[b].used /\ r[b].used /\ r[b].id = arr[b].id
         /\ arr[a].z_index > arr[b].z_index /\ ~(r[a].z_index > r[b].z_index))
           => \A c \in Open(r) \ {b} : r[b].z_index > r[c].z_index

LEMMA KeptSame ==
    ASSUME NEW arr
    PROVE  Kept(arr, arr)
  BY DEF Kept

LEMMA RaisedKept ==
    ASSUME NEW arr \in Table, NEW t, NEW r, Raised(arr, t, r)
    PROVE  Kept(arr, r)
  <1> SUFFICES ASSUME NEW a \in Slots, NEW b \in Slots, a # b, arr[a].used, arr[b].used,
                      arr[a].z_index > arr[b].z_index, ~(r[a].z_index > r[b].z_index),
                      NEW c \in Open(r) \ {b}
               PROVE  r[b].z_index > r[c].z_index
    BY DEF Kept
  <1>1. /\ r \in Table /\ Open(r) = Open(arr)
        /\ \A i, j \in Open(arr) \ {t} : arr[i].z_index < arr[j].z_index => r[i].z_index < r[j].z_index
        /\ \A i \in Open(arr) \ {t} : r[i].z_index < r[t].z_index
    BY DEF Raised
  <1>2. a \in Open(arr) /\ b \in Open(arr) /\ c \in Open(arr) /\ c \in Slots
    BY <1>1 DEF Open
  <1>3. /\ arr[a].z_index \in Nat /\ arr[b].z_index \in Nat
        /\ r[a].z_index \in Nat /\ r[b].z_index \in Nat /\ r[c].z_index \in Nat
    BY <1>1, <1>2, TableType
  <1>4. a # t
    BY <1>1, <1>2, <1>3
  <1>5. b = t
    BY <1>1, <1>2, <1>3, <1>4
  <1> QED
    BY <1>1, <1>2, <1>3, <1>5

LEMMA RaiseOK ==
    ASSUME NEW arr, NEW next, StackInv(arr, next), NEW id
    PROVE  StackInv(wm_raise(arr, id), next) /\ Kept(arr, wm_raise(arr, id))
  <1> DEFINE t == wm_get_by_id(arr, id)
             r == wm_raise(arr, id)
  <1>1. CASE t = 0
    <2>1. r = arr
      BY <1>1 DEF wm_raise
    <2> QED
      BY <2>1, KeptSame
  <1>2. CASE t # 0
    <2>1. arr \in Table /\ Distinct(arr, Open(arr))
      BY DEF StackInv, Numbered
    <2>2. Distinct(arr, Open(arr) \ {t})
      BY <2>1 DEF Distinct
    <2>3. Raised(arr, t, r)
      BY <1>2, <2>1, <2>2, RaiseIs
    <2> HIDE DEF r, t
    <2>4. Kept(arr, r)
      BY <2>1, <2>3, RaisedKept
    <2>5. /\ r \in Table /\ SameWindows(arr, r) /\ Open(r) = Open(arr) /\ Open(arr) \subseteq Slots
      BY <2>3 DEF Raised, Open
    <2>6. Numbered(r, next)
      BY <2>3, <2>5 DEF Raised, Numbered, SameWindows, StackInv
    <2>7. wm_get_count(r) = wm_get_count(arr)
      BY <2>5 DEF wm_get_count
    <2>8. ASSUME MaxOpen <= M - 2 PROVE Low(r)
      <3>1. \A i \in Open(arr) : arr[i].z_index < M - 1
        <4> SUFFICES ASSUME NEW i \in Open(arr)
                     PROVE  arr[i].z_index < M - 1
          OBVIOUS
        <4>1. arr[i].z_index <= wm_get_count(arr) /\ wm_get_count(arr) <= MaxOpen
          BY <2>8 DEF StackInv, Low
        <4>2. arr[i].z_index \in Nat /\ wm_get_count(arr) \in Nat /\ MaxOpen \in Nat /\ M \in Nat
          BY <2>1, <2>5, TableType, OpenFinite, GuiAssumption, MType
        <4> QED
          BY <2>8, <4>1, <4>2
      <3>2. \A i \in Open(r) : r[i].z_index < wm_get_count(r)
        BY <2>3, <3>1 DEF Raised
      <3> QED
        BY <2>5, <3>2, TableType, OpenFinite DEF Low
    <2>9. StackInv(r, next)
      BY <2>6, <2>7, <2>8 DEF StackInv
    <2> QED
      BY <2>4, <2>9 DEF r
  <1> QED
    BY <1>1, <1>2

\* A call that changes the state of one window only.
Restated(arr, r) ==
    /\ r \in Table /\ Open(r) = Open(arr)
    /\ \A i \in Slots : r[i].used = arr[i].used /\ r[i].id = arr[i].id /\ r[i].z_index = arr[i].z_index

LEMMA RestateIs ==
    ASSUME NEW arr \in Table, NEW t, NEW state \in WmState
    PROVE  Restated(arr, [arr EXCEPT ![t].state = state])
  <1> DEFINE r == [arr EXCEPT ![t].state = state]
  <1>1. ASSUME NEW i \in Slots
        PROVE  /\ r[i] \in Window /\ r[i].used = arr[i].used /\ r[i].id = arr[i].id
               /\ r[i].z_index = arr[i].z_index
    <2>1. arr[i] \in Window
      BY DEF Table
    <2>2. CASE i = t
      <3>1. r[i] = [arr[i] EXCEPT !.state = state]
        BY <2>2 DEF Table
      <3> HIDE DEF r
      <3> QED
        BY <2>1, <3>1 DEF Window
    <2>3. CASE i # t
      <3>1. r[i] = arr[i]
        BY <2>3 DEF Table
      <3> QED
        BY <2>1, <3>1
    <2> QED
      BY <2>2, <2>3
  <1>2. r = [i \in Slots |-> r[i]]
    BY DEF Table
  <1> HIDE DEF r
  <1>3. r \in Table
    BY <1>1, <1>2 DEF Table
  <1>4. Open(r) = Open(arr)
    BY <1>1 DEF Open
  <1> QED
    BY <1>1, <1>3, <1>4 DEF Restated, r

LEMMA RestatedOK ==
    ASSUME NEW arr, NEW next, StackInv(arr, next), NEW r, Restated(arr, r)
    PROVE  /\ StackInv(r, next) /\ Kept(arr, r)
           /\ \A u : Kept(r, u) => Kept(arr, u)
  <1>1. /\ r \in Table /\ Open(r) = Open(arr) /\ Open(arr) \subseteq Slots
        /\ \A i \in Slots : r[i].used = arr[i].used /\ r[i].id = arr[i].id /\ r[i].z_index = arr[i].z_index
    BY DEF Restated, Open
  <1>2. wm_get_count(r) = wm_get_count(arr)
    BY <1>1 DEF wm_get_count
  <1>3. Numbered(r, next)
    BY <1>1 DEF StackInv, Numbered, Distinct
  <1>4. Low(arr) => Low(r)
    BY <1>1, <1>2 DEF Low
  <1>5. Kept(arr, r)
    BY <1>1 DEF Kept
  <1>6. \A u : Kept(r, u) => Kept(arr, u)
    BY <1>1 DEF Kept
  <1> QED
    BY <1>2, <1>3, <1>4, <1>5, <1>6 DEF StackInv

LEMMA MinimizeOK ==
    ASSUME NEW arr, NEW next, StackInv(arr, next), NEW id
    PROVE  StackInv(wm_minimize(arr, id), next) /\ Kept(arr, wm_minimize(arr, id))
  <1>1. arr \in Table /\ "WM_MINIMIZED" \in WmState
    BY DEF StackInv, Numbered, WmState
  <1>2. Restated(arr, wm_minimize(arr, id))
    BY <1>1, RestateIs DEF wm_minimize
  <1> QED
    BY <1>2, RestatedOK

LEMMA MaximizeOK ==
    ASSUME NEW arr, NEW next, StackInv(arr, next), NEW id, wm_get_by_id(arr, id) # 0
    PROVE  /\ StackInv(wm_raise(wm_maximize(arr, id), id), next)
           /\ Kept(arr, wm_raise(wm_maximize(arr, id), id))
  <1> DEFINE t == wm_get_by_id(arr, id)
             s == IF arr[t].state = "WM_MAXIMIZED" THEN "WM_NORMAL" ELSE "WM_MAXIMIZED"
             r == wm_maximize(arr, id)
  <1>1. arr \in Table /\ s \in WmState /\ t \in Slots
    BY FoundById DEF StackInv, Numbered, WmState, Open
  <1>2. r = [arr EXCEPT ![t].state = s]
    BY <1>1 DEF wm_maximize, Table
  <1>3. Restated(arr, r)
    <2> HIDE DEF s, t, r
    <2> QED
      BY <1>1, <1>2, RestateIs
  <1> HIDE DEF r
  <1>4. StackInv(r, next) /\ \A u : Kept(r, u) => Kept(arr, u)
    BY <1>3, RestatedOK
  <1>5. StackInv(wm_raise(r, id), next) /\ Kept(r, wm_raise(r, id))
    BY <1>4, RaiseOK
  <1> QED
    BY <1>4, <1>5 DEF r

LEMMA CloseOK ==
    ASSUME NEW arr, NEW next, StackInv(arr, next), NEW id, wm_get_by_id(arr, id) # 0
    PROVE  StackInv(wm_close(arr, id), next) /\ Kept(arr, wm_close(arr, id))
  <1> DEFINE t == wm_get_by_id(arr, id)
             gone == [arr EXCEPT ![t].used = FALSE]
             r == wm_compact_z(gone)
  <1>1. /\ arr \in Table /\ Distinct(arr, Open(arr)) /\ t \in Slots /\ t \in Open(arr)
        /\ next \in Nat \ {0} /\ \A i \in Open(arr) : arr[i].id # 0 /\ arr[i].id < next
    BY FoundById DEF StackInv, Numbered, Open
  <1>2. wm_close(arr, id) = r
    BY DEF wm_close
  <1> HIDE DEF t
  <1>3. /\ gone \in Table /\ ~gone[t].used /\ \A i \in Slots : i # t => gone[i] = arr[i]
    <2>1. arr[t] \in Window
      BY <1>1 DEF Table
    <2>2. gone[t] = [arr[t] EXCEPT !.used = FALSE]
      BY <1>1 DEF Table
    <2>3. gone[t] \in Window /\ ~gone[t].used
      BY <2>1, <2>2 DEF Window
    <2>4. \A i \in Slots : i # t => gone[i] = arr[i] /\ arr[i] \in Window
      BY <1>1 DEF Table
    <2>5. gone = [i \in Slots |-> gone[i]]
      BY <1>1 DEF Table
    <2> HIDE DEF gone
    <2>6. gone \in Table
      BY <2>3, <2>4, <2>5 DEF Table
    <2> QED
      BY <2>3, <2>4, <2>6
  <1> HIDE DEF gone
  <1>4. Open(gone) = Open(arr) \ {t} /\ Open(arr) \subseteq Slots
    BY <1>3 DEF Open
  <1>5. Distinct(gone, Open(gone))
    BY <1>1, <1>3, <1>4 DEF Distinct
  <1>6. Compacted(gone, r)
    BY <1>3, <1>5, CompactIs
  <1> HIDE DEF r
  <1>7. /\ r \in Table /\ SameWindows(gone, r) /\ Open(r) = Open(arr) \ {t} /\ Distinct(r, Open(r))
        /\ \A i, j \in Open(r) : arr[i].z_index < arr[j].z_index => r[i].z_index < r[j].z_index
    BY <1>3, <1>4, <1>6 DEF Compacted
  <1>8. \A i \in Open(r) : r[i].id = arr[i].id
    BY <1>3, <1>4, <1>7 DEF SameWindows
  <1>9. Numbered(r, next)
    BY <1>1, <1>7, <1>8 DEF Numbered
  <1>10. wm_get_count(r) = wm_get_count(arr) - 1 /\ wm_get_count(r) \in Nat
    BY <1>1, <1>7, OpenFinite, FS_RemoveElement DEF wm_get_count
  <1>11. wm_get_count(r) <= MaxOpen
    BY <1>10, OpenFinite, GuiAssumption DEF StackInv
  <1>12. ASSUME MaxOpen <= M - 2 PROVE Low(r)
    <2>1. \A i \in Open(gone) : gone[i].z_index < M
      <3> SUFFICES ASSUME NEW i \in Open(gone)
                   PROVE  gone[i].z_index < M
        OBVIOUS
      <3>1. gone[i] = arr[i] /\ i \in Open(arr) /\ i \in Slots
        BY <1>3, <1>4
      <3>2. arr[i].z_index <= wm_get_count(arr) /\ wm_get_count(arr) <= MaxOpen
        BY <1>12, <3>1 DEF StackInv, Low
      <3>3. arr[i].z_index \in Nat /\ wm_get_count(arr) \in Nat /\ MaxOpen \in Nat /\ M \in Nat
        BY <1>1, <3>1, TableType, OpenFinite, GuiAssumption, MType
      <3> QED
        BY <1>12, <3>1, <3>2, <3>3
    <2>2. \A i \in Open(r) : r[i].z_index < wm_get_count(r)
      BY <1>6, <2>1 DEF Compacted
    <2>3. \A i \in Open(r) : r[i].z_index \in Nat
      BY <1>7, TableType, OpenFinite
    <2> QED
      BY <1>10, <2>2, <2>3 DEF Low
  <1>13. Kept(arr, r)
    <2> SUFFICES ASSUME NEW a \in Slots, NEW b \in Slots, r[a].used, r[b].used,
                        arr[a].z_index > arr[b].z_index, ~(r[a].z_index > r[b].z_index)
                 PROVE  FALSE
      BY DEF Kept
    <2>1. a \in Open(r) /\ b \in Open(r)
      BY DEF Open
    <2>2. arr[a].z_index \in Nat /\ arr[b].z_index \in Nat /\ r[a].z_index \in Nat /\ r[b].z_index \in Nat
      BY <1>1, <1>7, TableType
    <2> QED
      BY <1>7, <2>1, <2>2
  <1> QED
    BY <1>2, <1>9, <1>11, <1>12, <1>13 DEF StackInv

LEMMA LaunchOK ==
    ASSUME NEW arr, NEW next, StackInv(arr, next), wm_get_count(arr) < M, wm_get_count(arr) < MaxOpen
    PROVE  /\ StackInv(wm_raise(wm_create(arr, next), next), next + 1)
           /\ Kept(arr, wm_raise(wm_create(arr, next), next))
  <1> DEFINE new == wm_create(arr, next)
             r == wm_raise(new, next)
  <1>1. /\ arr \in Table /\ Distinct(arr, Open(arr)) /\ next \in Nat \ {0} /\ Open(arr) \subseteq Slots
        /\ \A i \in Open(arr) : arr[i].id # 0 /\ arr[i].id < next
    BY DEF StackInv, Numbered, Open
  <1>2. PICK t : CreatedIn(arr, next, t, new)
    BY <1>1, CreateIs
  <1> HIDE DEF new
  <1>3. /\ new \in Table /\ Open(new) = Open(arr) \cup {t} /\ t \notin Open(arr)
        /\ wm_get_count(new) = wm_get_count(arr) + 1
        /\ new[t].id = next /\ new[t].z_index = wm_get_count(arr) + 1
        /\ \A j \in Slots : j # t => new[j] = arr[j]
    BY <1>1, <1>2, CreatedTable
  <1>4. t \in Slots /\ \A i \in Open(arr) : new[i] = arr[i] /\ arr[i].id \in Nat
    BY <1>1, <1>2, <1>3, TableType DEF CreatedIn
  <1>5. wm_get_by_id(new, next) = t /\ t # 0
    <2>1. wm_get_by_id(new, next) \in Open(new) /\ new[wm_get_by_id(new, next)].id = next
      BY <1>3, FoundById
    <2>2. \A i \in Open(arr) : new[i].id # next
      BY <1>1, <1>4
    <2>3. 0 \notin Slots
      BY SlotsAre, MType
    <2> QED
      BY <1>3, <1>4, <2>1, <2>2, <2>3
  <1>6. Distinct(new, Open(new) \ {t})
    BY <1>1, <1>3, <1>4 DEF Distinct
  <1>7. Raised(new, t, r)
    BY <1>3, <1>5, <1>6, RaiseIs
  <1> HIDE DEF r
  <1>8. /\ r \in Table /\ SameWindows(new, r) /\ Open(r) = Open(new) /\ Distinct(r, Open(r))
        /\ \A i, j \in Open(arr) : arr[i].z_index < arr[j].z_index => r[i].z_index < r[j].z_index
    <2>1. \A i \in Open(arr) : i \in Open(new) \ {t}
      BY <1>3
    <2> QED
      BY <1>4, <1>7, <2>1 DEF Raised
  <1>9. Numbered(r, next + 1)
    <2>1. \A i \in Open(r) : r[i].id # 0 /\ r[i].id < next + 1
      <3> SUFFICES ASSUME NEW i \in Open(new)
                   PROVE  new[i].id # 0 /\ new[i].id < next + 1
        BY <1>1, <1>3, <1>4, <1>8 DEF SameWindows
      <3>1. CASE i = t
        BY <1>1, <1>3, <3>1
      <3>2. CASE i \in Open(arr)
        BY <1>1, <1>4, <3>2
      <3> QED
        BY <1>3, <3>1, <3>2
    <2> QED
      BY <1>1, <1>8, <2>1 DEF Numbered
  <1>10. wm_get_count(r) = wm_get_count(arr) + 1 /\ wm_get_count(arr) \in Nat /\ MaxOpen \in Nat
    BY <1>3, <1>8, OpenFinite, GuiAssumption DEF wm_get_count
  <1>11. wm_get_count(r) <= MaxOpen
    BY <1>10
  <1>12. ASSUME MaxOpen <= M - 2 PROVE Low(r)
    <2>1. \A i \in Open(new) : new[i].z_index < M - 1
      <3> SUFFICES ASSUME NEW i \in Open(new)
                   PROVE  new[i].z_index < M - 1
        OBVIOUS
      <3>1. CASE i = t
        BY <1>3, <1>10, <1>12, <3>1, MType
      <3>2. CASE i \in Open(arr)
        <4>1. arr[i].z_index <= wm_get_count(arr) /\ arr[i].z_index \in Nat
          BY <1>1, <1>12, <3>2, TableType DEF StackInv, Low
        <4> QED
          BY <1>4, <1>10, <1>12, <3>2, <4>1, MType
      <3> QED
        BY <1>3, <3>1, <3>2
    <2>2. \A i \in Open(r) : r[i].z_index < wm_get_count(r)
      BY <1>7, <2>1 DEF Raised
    <2>3. \A i \in Open(r) : r[i].z_index \in Nat
      BY <1>8, TableType, OpenFinite
    <2> QED
      BY <1>10, <2>2, <2>3 DEF Low
  <1>13. Kept(arr, r)
    <2> SUFFICES ASSUME NEW a \in Slots, NEW b \in Slots, arr[a].used, arr[b].used,
                        arr[a].z_index > arr[b].z_index, ~(r[a].z_index > r[b].z_index)
                 PROVE  FALSE
      BY DEF Kept
    <2>1. a \in Open(arr) /\ b \in Open(arr)
      BY DEF Open
    <2>2. arr[a].z_index \in Nat /\ arr[b].z_index \in Nat /\ r[a].z_index \in Nat /\ r[b].z_index \in Nat
      BY <1>1, <1>8, TableType
    <2> QED
      BY <1>8, <2>1, <2>2
  <1> QED
    BY <1>9, <1>11, <1>12, <1>13 DEF StackInv, r, new

-----------------------------------------------------------------------------
(***************************************************************************)
(* The screen and the mouse.                                               *)
(***************************************************************************)
LEMMA WindowAt ==
    ASSUME NEW arr, NEW next, StackInv(arr, next), NEW under, Hit(arr, under) # {}
    PROVE  /\ wm_window_at(arr, under) \in Nat \ {0}
           /\ wm_get_by_id(arr, wm_window_at(arr, under)) # 0
           /\ \E i \in Hit(arr, under) : /\ arr[i].id = wm_window_at(arr, under)
                                         /\ \A j \in Hit(arr, under) \ {i} : arr[j].z_index < arr[i].z_index
  <1> DEFINE H == Hit(arr, under)
             Top(i) == \A j \in H : \/ arr[j].z_index < arr[i].z_index
                                    \/ arr[j].z_index = arr[i].z_index /\ i <= j
             i == CHOOSE k \in H : Top(k)
  <1>1. /\ arr \in Table /\ Distinct(arr, Open(arr)) /\ H \subseteq Open(arr) /\ Open(arr) \subseteq Slots
        /\ \A k \in Open(arr) : arr[k].id # 0
    BY DEF StackInv, Numbered, Hit, Open
  <1>2. \A k \in H : arr[k].z_index \in Nat /\ arr[k].id \in Nat \ {0} /\ k \in Nat
    BY <1>1, TableType, SlotsAre
  <1>3. PICK m \in H : \A j \in H : arr[j].z_index <= arr[m].z_index
    <2> HIDE DEF H
    <2>1. H \in SUBSET Slots /\ H # {}
      BY <1>1 DEF H
    <2> QED
      BY <1>1, <2>1, Topmost
  <1>4. Top(m)
    <2> SUFFICES ASSUME NEW j \in H
                 PROVE  arr[j].z_index < arr[m].z_index \/ (arr[j].z_index = arr[m].z_index /\ m <= j)
      OBVIOUS
    <2>1. CASE j = m
      BY <1>2, <2>1
    <2>2. CASE j # m
      <3>1. arr[j].z_index # arr[m].z_index
        BY <1>1, <2>2 DEF Distinct
      <3> QED
        BY <1>2, <1>3, <3>1
    <2> QED
      BY <2>1, <2>2
  <1>5. i \in H /\ Top(i)
    <2> HIDE DEF Top, H
    <2> QED
      BY <1>4
  <1>6. wm_window_at(arr, under) = arr[i].id
    BY DEF wm_window_at
  <1> HIDE DEF i
  <1>7. \A j \in H \ {i} : arr[j].z_index < arr[i].z_index
    BY <1>1, <1>5 DEF Distinct
  <1>8. arr[i].id \in Nat \ {0} /\ i \in Open(arr)
    BY <1>1, <1>2, <1>5
  <1>9. wm_get_by_id(arr, arr[i].id) # 0
    BY <1>1, <1>8, FoundById
  <1> QED
    BY <1>5, <1>6, <1>7, <1>8, <1>9

\* What AllDrawn says of the windows.
Agrees(arr) ==
    \A under \in SUBSET {arr[i].id : i \in Open(arr)} :
        LET seen == {i \in Drawn(arr) : arr[i].id \in under}
            wid == wm_window_at(arr, under)
        IN  IF wid = 0 THEN seen = {}
            ELSE \E i \in seen : /\ arr[i].id = wid
                                 /\ \A j \in seen \ {i} : drawn_later(arr, i, j)

LEMMA StackAgrees ==
    ASSUME NEW arr, NEW next, StackInv(arr, next), MaxOpen <= M - 2
    PROVE  Agrees(arr)
  <1> SUFFICES ASSUME NEW under
               PROVE  LET seen == {i \in Drawn(arr) : arr[i].id \in under}
                          wid == wm_window_at(arr, under)
                      IN  IF wid = 0 THEN seen = {}
                          ELSE \E i \in seen : /\ arr[i].id = wid
                                               /\ \A j \in seen \ {i} : drawn_later(arr, i, j)
    BY DEF Agrees
  <1> DEFINE seen == {i \in Drawn(arr) : arr[i].id \in under}
             H == Hit(arr, under)
  <1>1. arr \in Table /\ Open(arr) \subseteq Slots /\ \A i \in Open(arr) : arr[i].z_index <= wm_get_count(arr)
    BY DEF StackInv, Numbered, Open, Low
  <1>2. \A i \in Open(arr) : arr[i].z_index <= WM_MAX_WINDOWS /\ arr[i].z_index \in Nat
    <2>1. wm_get_count(arr) \in Nat /\ wm_get_count(arr) <= M /\ M = WM_MAX_WINDOWS /\ M \in Nat
      BY OpenFinite, MType DEF M
    <2> QED
      BY <1>1, <2>1, TableType
  <1>3. seen = H
    BY <1>2 DEF Drawn, Hit
  <1>4. CASE H = {}
    <2>1. wm_window_at(arr, under) = 0
      BY <1>4 DEF wm_window_at
    <2> QED
      BY <1>3, <1>4, <2>1
  <1>5. CASE H # {}
    <2>1. /\ wm_window_at(arr, under) # 0
          /\ \E i \in H : /\ arr[i].id = wm_window_at(arr, under)
                          /\ \A j \in H \ {i} : arr[j].z_index < arr[i].z_index
      BY <1>5, WindowAt
    <2>2. \A i, j \in H : arr[j].z_index < arr[i].z_index => drawn_later(arr, i, j)
      BY <1>2 DEF drawn_later, Hit
    <2> HIDE DEF seen, H
    <2>3. \E i \in H : /\ arr[i].id = wm_window_at(arr, under)
                       /\ \A j \in H \ {i} : drawn_later(arr, i, j)
      BY <2>1, <2>2
    <2> QED
      BY <1>3, <2>1, <2>3 DEF seen
  <1> QED
    BY <1>4, <1>5

-----------------------------------------------------------------------------
(***************************************************************************)
(* The loop.                                                               *)
(***************************************************************************)
ShellOK ==
    /\ g_focus \in Nat /\ drag \in [is_dragging : BOOLEAN, dragging_id : Nat]
    /\ key_states \in SUBSET Keys /\ prev_key_states \in SUBSET Keys /\ g_open \in BOOLEAN
    /\ recent \in [app : [0 .. RecentMax - 1 -> Registered \cup {NoApp}], pos : 0 .. RecentMax - 1]
LoopOK == pc \in {"poll", "step"} /\ handled \in 0 .. EventsPerFrame
GuiInv == InputTypeOK /\ LoopOK /\ ShellOK /\ StackInv(g_windows, g_next_id) /\ DragInv

\* What a step does to the windows.
WindowsStep == StackInv(g_windows', g_next_id') /\ Kept(g_windows, g_windows')

LEMMA WindowsStay ==
    ASSUME StackInv(g_windows, g_next_id), UNCHANGED <<g_windows, g_next_id>>
    PROVE  WindowsStep
  BY KeptSame DEF WindowsStep

LEMMA WindowPressOK ==
    ASSUME ShellOK, StackInv(g_windows, g_next_id), NEW under, window_press(under)
    PROVE  ShellOK' /\ WindowsStep
  <1> DEFINE wid == wm_window_at(g_windows, under)
  <1>1. g_open' = FALSE /\ UNCHANGED <<g_next_id, key_states, prev_key_states, recent>>
    BY DEF window_press, keyVars
  <1>2. CASE wid = 0 /\ UNCHANGED <<g_windows, g_focus, drag>>
    BY <1>1, <1>2, WindowsStay DEF ShellOK
  <1>3. ASSUME wid # 0, NEW part \in Part, wm_handle_mouse_down(wid, part)
        PROVE  ShellOK' /\ WindowsStep
    <2>1. Hit(g_windows, under) # {}
      BY <1>3 DEF wm_window_at
    <2>2. wid \in Nat /\ wm_get_by_id(g_windows, wid) # 0
      BY <2>1, WindowAt
    <2> HIDE DEF wid
    <2>3. /\ g_focus' \in {wid, g_focus}
          /\ drag' \in {drag, [is_dragging |-> TRUE, dragging_id |-> wid]}
      BY <1>3 DEF wm_handle_mouse_down, Focus
    <2>4. [is_dragging |-> TRUE, dragging_id |-> wid] \in [is_dragging : BOOLEAN, dragging_id : Nat]
      BY <2>2
    <2>5. ShellOK'
      BY <1>1, <2>2, <2>3, <2>4 DEF ShellOK
    <2>6. WindowsStep
      <3>1. g_windows' \in {wm_close(g_windows, wid), wm_raise(wm_maximize(g_windows, wid), wid),
                            wm_minimize(g_windows, wid), wm_raise(g_windows, wid)}
        BY <1>3 DEF wm_handle_mouse_down
      <3>2. CASE g_windows' = wm_close(g_windows, wid)
        BY <1>1, <2>2, <3>2, CloseOK DEF WindowsStep
      <3>3. CASE g_windows' = wm_raise(wm_maximize(g_windows, wid), wid)
        BY <1>1, <2>2, <3>3, MaximizeOK DEF WindowsStep
      <3>4. CASE g_windows' = wm_minimize(g_windows, wid)
        BY <1>1, <3>4, MinimizeOK DEF WindowsStep
      <3>5. CASE g_windows' = wm_raise(g_windows, wid)
        BY <1>1, <3>5, RaiseOK DEF WindowsStep
      <3> QED
        BY <3>1, <3>2, <3>3, <3>4, <3>5
    <2> QED
      BY <2>5, <2>6
  <1> QED
    BY <1>2, <1>3 DEF window_press

LEMMA MouseDownOK ==
    ASSUME ShellOK, StackInv(g_windows, g_next_id), mouse_down
    PROVE  ShellOK' /\ WindowsStep
  <1>1. ASSUME NEW where \in Where, menu_press(where)
        PROVE  ShellOK' /\ WindowsStep
    <2>1. CASE where = "menu" /\ Idle /\ UNCHANGED shellVars
      BY <2>1, WindowsStay DEF Idle, wmVars, keyVars, shellVars, ShellOK
    <2>2. ASSUME g_open' = FALSE, NEW app \in Registered, desktop_app_launch(app),
                 UNCHANGED <<drag, keyVars>>
          PROVE  ShellOK' /\ WindowsStep
      <3>1. /\ wm_get_count(g_windows) < WM_MAX_WINDOWS /\ wm_get_count(g_windows) < MaxOpen
            /\ g_windows' = wm_raise(wm_create(g_windows, g_next_id), g_next_id)
            /\ g_next_id' = g_next_id + 1 /\ UNCHANGED g_focus
            /\ recent' = [app |-> [recent.app EXCEPT ![recent.pos] = app],
                          pos |-> (recent.pos + 1) % RecentMax]
        BY <2>2 DEF desktop_app_launch, note_launch
      <3>2. WindowsStep
        BY <3>1, LaunchOK DEF WindowsStep, M
      <3>3. RecentMax \in Nat \ {0} /\ recent.pos \in 0 .. RecentMax - 1
            /\ recent.app \in [0 .. RecentMax - 1 -> Registered \cup {NoApp}]
        BY GuiAssumption DEF ShellOK
      <3>4. (recent.pos + 1) % RecentMax \in 0 .. RecentMax - 1
        BY <3>3
      <3>5. recent' \in [app : [0 .. RecentMax - 1 -> Registered \cup {NoApp}], pos : 0 .. RecentMax - 1]
        BY <3>1, <3>3, <3>4
      <3>6. ShellOK'
        BY <2>2, <3>1, <3>5 DEF ShellOK, keyVars
      <3> QED
        BY <3>2, <3>6
    <2> QED
      BY <1>1, <2>1, <2>2 DEF menu_press
  <1>2. ASSUME NEW where \in Where, panel_press(where)
        PROVE  ShellOK' /\ WindowsStep
    <2>1. g_open' \in BOOLEAN /\ Idle /\ UNCHANGED recent
      BY <1>2 DEF panel_press
    <2> QED
      BY <2>1, WindowsStay DEF Idle, wmVars, keyVars, ShellOK
  <1> QED
    BY <1>1, <1>2, WindowPressOK DEF mouse_down

LEMMA HandleOK ==
    ASSUME ShellOK, StackInv(g_windows, g_next_id), NEW ev \in Event, handle(ev)
    PROVE  /\ ShellOK' /\ WindowsStep
           /\ drag'.is_dragging => drag.is_dragging \/ ev.type = "MOUSE_DOWN"
           /\ ev.type = "MOUSE_UP" => ~drag'.is_dragging
  <1>0. drag \in [is_dragging : BOOLEAN, dragging_id : Nat]
    BY DEF ShellOK
  <1>1. CASE ev.type = "MOUSE_DOWN" /\ mouse_down
    BY <1>1, MouseDownOK
  <1>2. CASE ev.type = "MOUSE_MOVE" /\ mouse_move
    <2>1. drag' = drag \/ drag' = [drag EXCEPT !.is_dragging = FALSE]
      BY <1>2 DEF mouse_move
    <2>2. /\ drag' \in [is_dragging : BOOLEAN, dragging_id : Nat]
          /\ drag'.is_dragging => drag.is_dragging
      BY <1>0, <2>1
    <2>3. UNCHANGED <<wmVars, keyVars, shellVars>>
      BY <1>2 DEF mouse_move
    <2>4. ShellOK' /\ WindowsStep
      BY <2>2, <2>3, WindowsStay DEF ShellOK, wmVars, keyVars, shellVars
    <2> QED
      BY <1>2, <2>2, <2>4
  <1>3. CASE ev.type = "MOUSE_UP" /\ mouse_up
    <2>1. drag' = IF drag.is_dragging THEN [is_dragging |-> FALSE, dragging_id |-> 0] ELSE drag
      BY <1>3 DEF mouse_up
    <2>2. /\ drag' \in [is_dragging : BOOLEAN, dragging_id : Nat] /\ ~drag'.is_dragging
      BY <1>0, <2>1
    <2>3. UNCHANGED <<wmVars, keyVars, shellVars>>
      BY <1>3 DEF mouse_up
    <2>4. ShellOK' /\ WindowsStep
      BY <2>2, <2>3, WindowsStay DEF ShellOK, wmVars, keyVars, shellVars
    <2> QED
      BY <2>2, <2>4
  <1>4. CASE ev.type = "KEY" /\ key_event(ev.key)
    <2>1. ev.key.key \in Keys
      <3>1. PICK k \in KeyCode : ev = KeyEvent(k)
        BY <1>4 DEF Event
      <3> QED
        BY <3>1 DEF KeyEvent, KeyCode
    <2>2. key_states' \in SUBSET Keys
      BY <1>4, <2>1 DEF key_event, ShellOK
    <2>3. UNCHANGED <<wmVars, drag, prev_key_states, shellVars>>
      BY <1>4 DEF key_event
    <2>4. ShellOK' /\ WindowsStep
      BY <2>2, <2>3, WindowsStay DEF ShellOK, wmVars, shellVars
    <2> QED
      BY <1>4, <2>3, <2>4
  <1>5. CASE ev.type = "MOUSE_RIGHT" /\ mouse_right
    <2>1. UNCHANGED <<wmVars, drag, keyVars, shellVars>>
      BY <1>5 DEF mouse_right
    <2>2. ShellOK' /\ WindowsStep
      BY <2>1, WindowsStay DEF ShellOK, wmVars, keyVars, shellVars
    <2> QED
      BY <1>5, <2>1, <2>2
  <1> QED
    BY <1>1, <1>2, <1>3, <1>4, <1>5 DEF handle

\* Alt+Tab raises a window it has collected.
LEMMA CycleTarget ==
    ASSUME NEW arr, NEW next, StackInv(arr, next)
    PROVE  cycle_target(arr) \in Nat
  <1> SUFFICES ASSUME cycle_target(arr) # 0
               PROVE  cycle_target(arr) \in Nat
    OBVIOUS
  <1> DEFINE C == Collected(arr)
             Final(i) == \A j \in C \ {i} :
                           \/ arr[j].z_index < arr[i].z_index
                           \/ arr[j].z_index = arr[i].z_index /\ arr[j].id < arr[i].id
             i == CHOOSE k \in C : Final(k)
  <1>1. arr \in Table /\ Distinct(arr, Open(arr)) /\ C \subseteq Open(arr) /\ Open(arr) \subseteq Slots
    BY DEF StackInv, Numbered, Collected, Drawn, Open
  <1>2. cycle_target(arr) = arr[i].id /\ ~(Cardinality(C) <= 1)
    BY DEF cycle_target
  <1>3. C # {}
    BY <1>2, FS_EmptySet
  <1>4. PICK m \in C : \A j \in C : arr[j].z_index <= arr[m].z_index
    <2> HIDE DEF C
    <2>1. C \in SUBSET Slots
      BY <1>1
    <2> QED
      BY <1>1, <1>3, <2>1, Topmost
  <1>5. Final(m)
    <2> SUFFICES ASSUME NEW j \in C \ {m}
                 PROVE  arr[j].z_index < arr[m].z_index
      OBVIOUS
    <2> HIDE DEF C
    <2>1. arr[j].z_index # arr[m].z_index
      BY <1>1 DEF Distinct
    <2>2. arr[j].z_index \in Nat /\ arr[m].z_index \in Nat
      BY <1>1, TableType
    <2> QED
      BY <1>4, <2>1, <2>2
  <1>6. i \in C
    <2> HIDE DEF C, Final
    <2> QED
      BY <1>5
  <1> HIDE DEF i, C
  <1> QED
    BY <1>1, <1>2, <1>6, TableType

LEMMA FrameEndOK ==
    ASSUME ShellOK, StackInv(g_windows, g_next_id), frame_end
    PROVE  ShellOK' /\ WindowsStep
  <1> DEFINE target == IF alt_tab THEN cycle_target(g_windows) ELSE 0
  <1>1. UNCHANGED <<g_next_id, drag, key_states, shellVars>> /\ prev_key_states' = key_states
    BY DEF frame_end
  <1>2. CASE target = 0
    <2>1. UNCHANGED <<g_windows, g_focus>>
      BY <1>2 DEF frame_end
    <2> QED
      BY <1>1, <2>1, WindowsStay DEF ShellOK, shellVars
  <1>3. CASE target # 0
    <2>1. g_windows' = wm_raise(g_windows, target) /\ g_focus' = target
      BY <1>3 DEF frame_end, Focus
    <2>2. target \in Nat
      BY CycleTarget
    <2>3. WindowsStep
      BY <1>1, <2>1, RaiseOK DEF WindowsStep
    <2> QED
      BY <1>1, <2>1, <2>2, <2>3 DEF ShellOK, shellVars
  <1> QED
    BY <1>2, <1>3

LEMMA GuiStart == GuiInit => GuiInv
  <1> SUFFICES ASSUME GuiInit PROVE GuiInv
    OBVIOUS
  <1>1. InputTypeOK
    <2>1. prev_left_btn = FALSE /\ g_q = << >> /\ lost = FALSE /\ presses = 0
      BY DEF GuiInit, InputInit
    <2>2. << >> \in Seq(Event) /\ Len(<< >>) < GUI_EVENT_Q /\ 0 \in 0 .. MaxPresses
      BY InputAssumption
    <2> QED
      BY <2>1, <2>2 DEF InputTypeOK
  <1>2. LoopOK
    BY GuiAssumption DEF GuiInit, LoopOK
  <1>3. ShellOK
    <2>1. g_focus = 0 /\ drag = [is_dragging |-> FALSE, dragging_id |-> 0] /\ key_states = {} /\ prev_key_states = {}
          /\ g_open = FALSE /\ recent = [app |-> [i \in 0 .. RecentMax - 1 |-> NoApp], pos |-> 0]
      BY DEF GuiInit, WindowsInit
    <2>2. 0 \in 0 .. RecentMax - 1
      BY GuiAssumption
    <2> QED
      BY <2>1, <2>2 DEF ShellOK
  <1>4. StackInv(g_windows, g_next_id)
    <2>1. InitialWindows \in Nat /\ InitialWindows <= M /\ InitialWindows <= MaxOpen
      BY GuiAssumption DEF M
    <2>2. g_windows = wm_created(InitialWindows) /\ g_next_id = InitialWindows + 1
      BY DEF GuiInit, WindowsInit
    <2> QED
      BY <2>1, <2>2, CreatedOK DEF StackInv
  <1>5. DragInv
    BY DEF GuiInit, InputInit, DragInv, NoPress
  <1> QED
    BY <1>1, <1>2, <1>3, <1>4, <1>5 DEF GuiInv

LEMMA GuiStep ==
    ASSUME GuiInv, [GuiNext]_guiVars
    PROVE  GuiInv' /\ Kept(g_windows, g_windows')
  <1>0. InputTypeOK /\ LoopOK /\ ShellOK /\ StackInv(g_windows, g_next_id) /\ DragInv
        /\ EventsPerFrame \in Nat \ {0}
    BY GuiAssumption DEF GuiInv
  <1>1. CASE UNCHANGED guiVars
    <2>1. UNCHANGED <<prev_left_btn, g_q, lost, presses, g_windows, g_next_id, g_focus, pc, handled,
                      drag, key_states, prev_key_states, g_open, recent>>
      BY <1>1 DEF guiVars, inputVars, wmVars, keyVars, shellVars
    <2>2. InputTypeOK' /\ LoopOK' /\ ShellOK' /\ DragInv'
      BY <1>0, <2>1 DEF InputTypeOK, LoopOK, ShellOK, DragInv
    <2> QED
      BY <1>0, <2>1, <2>2, KeptSame DEF GuiInv
  <1>2. CASE Poll
    <2>1. input_poller_poll /\ pc' = "step"
          /\ UNCHANGED <<g_windows, g_next_id, g_focus, handled, drag, key_states, prev_key_states, g_open, recent>>
      BY <1>2 DEF Poll, Goto, loopVars, wmVars, keyVars, shellVars
    <2>2. InputTypeOK' /\ DragInv'
      BY <1>0, <2>1, PollStep, PollKeepsDrag
    <2>3. LoopOK' /\ ShellOK'
      BY <1>0, <2>1 DEF LoopOK, ShellOK
    <2> QED
      BY <1>0, <2>1, <2>2, <2>3, KeptSame DEF GuiInv
  <1>3. CASE HandleEvent
    <2>1. /\ pc' = "step" /\ handled < EventsPerFrame /\ input_router_pop
          /\ handle(Head(g_q)) /\ handled' = handled + 1
      BY <1>3 DEF HandleEvent, Goto
    <2>2. Head(g_q) \in Event
      BY <1>0, <2>1 DEF InputTypeOK, input_router_pop
    <2>3. /\ ShellOK' /\ WindowsStep
          /\ drag'.is_dragging => drag.is_dragging \/ Head(g_q).type = "MOUSE_DOWN"
          /\ Head(g_q).type = "MOUSE_UP" => ~drag'.is_dragging
      BY <1>0, <2>1, <2>2, HandleOK
    <2>4. InputTypeOK' /\ DragInv'
      BY <1>0, <2>1, <2>3, PopKeepsDrag
    <2>5. LoopOK'
      BY <1>0, <2>1 DEF LoopOK
    <2> QED
      BY <2>3, <2>4, <2>5 DEF GuiInv, WindowsStep
  <1>4. CASE EndFrame
    <2>1. pc' = "poll" /\ frame_end /\ handled' = 0 /\ UNCHANGED <<prev_left_btn, g_q, lost, presses, drag>>
      BY <1>4 DEF EndFrame, Goto, frame_end, inputVars
    <2>2. ShellOK' /\ WindowsStep
      BY <1>0, <2>1, FrameEndOK
    <2>3. InputTypeOK' /\ DragInv' /\ LoopOK'
      BY <1>0, <2>1 DEF InputTypeOK, DragInv, LoopOK
    <2> QED
      BY <2>2, <2>3 DEF GuiInv, WindowsStep
  <1> QED
    BY <1>1, <1>2, <1>3, <1>4 DEF GuiNext

LEMMA GuiInvariance == GuiSpec => []GuiInv
  <1>1. GuiInv /\ [GuiNext]_guiVars => GuiInv'
    BY GuiStep
  <1> QED
    BY <1>1, GuiStart, PTL DEF GuiSpec

(***************************************************************************)
(* For any number of windows, of events and of bytes from the keyboard:    *)
(* while at most WM_MAX_WINDOWS - 2 windows are open, a press goes to the  *)
(* window wm_draw_all draws last at the pointer.                           *)
(***************************************************************************)
THEOREM ScreenAndMouseAgree == GuiSpec => []AllDrawn
  <1>1. GuiInv => AllDrawn
    <2> SUFFICES ASSUME GuiInv PROVE AllDrawn
      OBVIOUS
    <2>1. GuiTypeOK
      BY DEF GuiInv, GuiTypeOK, LoopOK, ShellOK, WindowsTypeOK, StackInv, Numbered, Table
    <2>2. MaxOpen <= WM_MAX_WINDOWS - 2 => Agrees(g_windows)
      BY StackAgrees DEF GuiInv, M
    <2> QED
      BY <2>1, <2>2 DEF AllDrawn, Agrees, Ids
  <1> QED
    BY <1>1, GuiInvariance, PTL

(***************************************************************************)
(* No call of the window manager changes the order of two windows but by   *)
(* raising one of them to the top, also when indices are out of the range  *)
(* wm_compact_z looks at.                                                  *)
(***************************************************************************)
THEOREM RaisesOnly == GuiSpec => OrderKept
  <1>1. GuiInv /\ [GuiNext]_guiVars => Kept(g_windows, g_windows')
    BY GuiStep
  <1> DEFINE A == \A a, b \in Slots :
                    (/\ a # b /\ StaysOpen(a) /\ StaysOpen(b)
                     /\ Above(g_windows, a, b) /\ ~Above(g_windows', a, b))
                       => \A c \in Open(g_windows') \ {b} : Above(g_windows', b, c)
  <1>2. Kept(g_windows, g_windows') => A
    BY DEF Kept, StaysOpen, Above
  <1>3. GuiInv /\ [GuiNext]_guiVars => [A]_guiVars
    BY <1>1, <1>2
  <1> QED
    BY <1>3, GuiInvariance, PTL DEF GuiSpec, OrderKept

(***************************************************************************)
(* A window is not dragged by a pointer whose button is up: between        *)
(* frames, with the queue empty and no event dropped.                      *)
(***************************************************************************)
THEOREM DragsEnd == GuiSpec => []DragIsHeld
  <1>1. GuiInv => DragIsHeld
    BY DEF GuiInv, DragInv, DragIsHeld, ReleaseIn
  <1> QED
    BY <1>1, GuiInvariance, PTL

-----------------------------------------------------------------------------
(***************************************************************************)
(* The applications.                                                       *)
(***************************************************************************)
\* The levels the buttons can reach.
Level == {v \in 0 .. LevelMax : v % Step = 0}

\* The parts of AppsAssumption that the proofs cite.
LEMMA LevelsAre ==
    /\ Step \in Nat \ {0} /\ LevelMax \in Nat /\ LevelMax % Step = 0
    /\ Brightness0 \in Level /\ Volume0 \in Level
  BY AppsAssumption DEF Level
LEMMA CutsAre == Cuts \subseteq Int
  BY AppsAssumption
LEMMA AppsAre == Apps = {"launcher", "terminal", "settings", "files"} /\ Len(Layout["settings"]) = 14
  BY AppsAssumption
LEMMA LayoutApart ==
    ASSUME NEW a \in Apps, NEW j \in 1 .. Min({Len(Layout[a]), UI_MAX_CHILDREN}), NEW i \in 1 .. j - 1,
           Layout[a][i].type = "button"
    PROVE  Apart(Layout[a][i], Layout[a][j])
  BY AppsAssumption

LEMMA DivMod ==
    ASSUME NEW n \in Nat, NEW d \in Nat \ {0}
    PROVE  /\ n \div d \in Nat /\ n % d \in Nat /\ n % d < d
           /\ n = d * (n \div d) + (n % d)
  OBVIOUS

LEMMA LevelsStay ==
    ASSUME NEW v \in Level
    PROVE  raise(v) \in Level /\ lower(v) \in Level
  <1>1. Step \in Nat \ {0} /\ LevelMax \in Nat /\ LevelMax % Step = 0 /\ v \in 0 .. LevelMax /\ v % Step = 0
    BY LevelsAre DEF Level
  <1>2. \A n \in Nat : n % Step = 0 => \E q \in Nat : n = Step * q
    <2> SUFFICES ASSUME NEW n \in Nat, n % Step = 0 PROVE \E q \in Nat : n = Step * q
      OBVIOUS
    <2>0. Step \in Nat \ {0}
      BY <1>1
    <2>1. n \div Step \in Nat /\ n = Step * (n \div Step) + (n % Step)
      BY <2>0, DivMod, Zenon
    <2> QED
      BY <2>1, <1>1
  <1>3. \A q \in Nat : (Step * q) % Step = 0
    BY <1>1
  <1>4. PICK q \in Nat : v = Step * q
    BY <1>1, <1>2
  <1>5. PICK r \in Nat : LevelMax = Step * r
    BY <1>1, <1>2
  <1>6. ASSUME v < LevelMax PROVE v + Step \in Level
    <2>1. q + 1 <= r
      <3>1. ASSUME r <= q PROVE Step * r <= Step * q
        BY <1>1, <3>1
      <3> QED
        BY <3>1, <1>1, <1>4, <1>5, <1>6
    <2>2. Step * (q + 1) = v + Step /\ q + 1 \in Nat
      BY <1>1, <1>4
    <2>3. Step * (q + 1) <= Step * r
      BY <1>1, <2>1
    <2>4. (Step * (q + 1)) % Step = 0
      BY <1>3
    <2> QED
      BY <1>1, <1>5, <2>2, <2>3, <2>4 DEF Level
  <1>7. ASSUME v > 0 PROVE v - Step \in Level
    <2>1. q >= 1 /\ q - 1 \in Nat
      BY <1>1, <1>4, <1>7
    <2>2. Step * (q - 1) = v - Step /\ Step * (q - 1) \in Nat
      BY <1>1, <1>4, <2>1
    <2>4. (Step * (q - 1)) % Step = 0
      BY <1>3, <2>1
    <2> QED
      BY <1>1, <2>2, <2>4 DEF Level
  <1> QED
    BY <1>6, <1>7 DEF raise, lower

\* The children of a panel that was built to its end.
Room(a) == Min({Len(Layout[a]), UI_MAX_CHILDREN})

LEMMA LayoutOf ==
    ASSUME NEW a \in Apps
    PROVE  /\ Len(Layout[a]) \in Nat /\ Widgets(a) = 1 .. Len(Layout[a])
           /\ Room(a) \in Nat /\ Room(a) <= Len(Layout[a]) /\ Room(a) <= UI_MAX_CHILDREN
           /\ Room(a) = ui_container_add_child(Len(Layout[a]))
           /\ \A i \in Widgets(a) : Layout[a][i] \in [type: {"label", "button"}, x: Int, y: Int, w: Nat, h: Nat]
  <1>1. Layout[a] \in Seq([type: {"label", "button"}, x: Int, y: Int, w: Nat, h: Nat]) /\ UI_MAX_CHILDREN \in Nat
    BY ToolkitAssumption
  <1>2. Len(Layout[a]) \in Nat /\ Widgets(a) = 1 .. Len(Layout[a])
    BY <1>1 DEF Widgets
  <1>3. \A i \in Widgets(a) : Layout[a][i] \in [type: {"label", "button"}, x: Int, y: Int, w: Nat, h: Nat]
    <2> DEFINE R == [type: {"label", "button"}, x: Int, y: Int, w: Nat, h: Nat]
    <2>1. Layout[a] \in Seq(R)
      BY <1>1
    <2> HIDE DEF R
    <2>2. \A i \in Widgets(a) : Layout[a][i] \in R
      BY <1>2, <2>1
    <2> QED
      BY <2>2 DEF R
  <1>4. Room(a) = ui_container_add_child(Len(Layout[a]))
    BY <1>1, <1>2 DEF Room, Min, ui_container_add_child
  <1> QED
    BY <1>1, <1>2, <1>3, <1>4 DEF ui_container_add_child

LEMMA MaxIs ==
    ASSUME NEW S, S \subseteq Int, NEW m \in S, \A k \in S : m >= k
    PROVE  Max(S) = m
  <1> DEFINE P(x) == x \in S /\ \A y \in S : x >= y
  <1>1. P(m) /\ \A x : P(x) => x = m
    <2>1. P(m)
      OBVIOUS
    <2>2. ASSUME NEW x, P(x) PROVE x = m
      <3>1. x \in Int /\ m \in Int /\ x >= m /\ m >= x
        BY <2>2
      <3> QED
        BY <3>1
    <2> QED
      BY <2>1, <2>2
  <1> HIDE DEF P
  <1>2. (CHOOSE x : P(x)) = m
    BY <1>1
  <1>3. Max(S) = CHOOSE x : P(x)
    BY DEF Max, P
  <1> QED
    BY <1>2, <1>3

\* A click on a button that has a place in the panel finds it.
LEMMA ButtonFound ==
    ASSUME NEW a \in Apps, NEW i \in 1 .. Room(a), Layout[a][i].type = "button",
           NEW p \in PointsOf(Layout[a][i])
    PROVE  topmost[a][Room(a)][p] = i
  <1> DEFINE hits == {k \in Widgets(a) : k <= Room(a) /\ inside(Layout[a][k], p)}
  <1>0. UI_MAX_CHILDREN \in Nat
    BY ToolkitAssumption
  <1>1. i \in Widgets(a) /\ Room(a) \in 0 .. UI_MAX_CHILDREN
    BY LayoutOf, <1>0
  <1>2. p \in Points(a)
    BY <1>1 DEF Points
  <1>3. inside(Layout[a][i], p)
    <2>1. Layout[a][i].x \in Int /\ Layout[a][i].y \in Int /\ Layout[a][i].w \in Nat /\ Layout[a][i].h \in Nat
      BY LayoutOf, <1>1
    <2> QED
      BY <2>1 DEF inside, PointsOf
  <1>4. ASSUME NEW k \in hits PROVE i >= k
    <2> SUFFICES ASSUME i < k PROVE FALSE
      BY LayoutOf
    <2>1. k \in 1 .. Room(a) /\ i \in 1 .. k - 1 /\ k \in Widgets(a)
      BY LayoutOf
    <2>2. Apart(Layout[a][i], Layout[a][k])
      BY <2>1, LayoutApart DEF Room
    <2>3. inside(Layout[a][k], p)
      OBVIOUS
    <2>4. /\ Layout[a][i].x \in Int /\ Layout[a][i].y \in Int /\ Layout[a][i].w \in Nat /\ Layout[a][i].h \in Nat
          /\ Layout[a][k].x \in Int /\ Layout[a][k].y \in Int /\ Layout[a][k].w \in Nat /\ Layout[a][k].h \in Nat
      BY LayoutOf, <1>1, <2>1
    <2>5. p[1] \in Int /\ p[2] \in Int
      BY <2>4 DEF PointsOf
    <2> QED
      BY <1>3, <2>2, <2>3, <2>4, <2>5 DEF inside, Apart
  <1>5. i \in hits /\ i \in Nat
    BY <1>1, <1>3, LayoutOf
  <1>6. Max(hits) = i
    <2> HIDE DEF hits
    <2>1. hits \subseteq Int
      BY LayoutOf DEF hits
    <2> QED
      BY <1>4, <1>5, <2>1, MaxIs
  <1> QED
    BY <1>1, <1>2, <1>5, <1>6 DEF topmost

-----------------------------------------------------------------------------
(***************************************************************************)
(* The invariant: the panel of an application whose launch succeeded has   *)
(* all the children it has room for, and the settings have their labels.   *)
(***************************************************************************)
PanelsOK ==
    /\ whole \subseteq Apps /\ DOMAIN child_count = Apps /\ DOMAIN field = Apps
    /\ \A a \in whole : child_count[a] = Room(a)
    /\ "settings" \in whole =>
         \A i \in {LblTheme, LblBrightness, LblVolume} : field["settings"][i] = TRUE

LevelsOK == {sys, shown} \subseteq [theme: Int, language: Int, brightness: Level, volume: Level]

HoverOK ==
    /\ g_hovered_button # None => g_hovered_button \in is_hovered
    /\ {b \in is_hovered : b[1] = last} \subseteq {g_hovered_button}

LabelsOK ==
    "settings" \in whole =>
        /\ IF changed THEN Visible(shown) = Visible(sys) ELSE shown = AtBoot
        /\ shown.language = AtBoot.language
        /\ fault # "null"

AppsInv == PanelsOK /\ LevelsOK /\ HoverOK /\ LabelsOK

LEMMA AppsStart == Init => AppsInv
  <1> SUFFICES ASSUME Init PROVE AppsInv
    OBVIOUS
  <1>1. PanelsOK
    BY DEF Init, ToolkitInit, PanelsOK
  <1>2. LevelsOK
    BY LevelsAre DEF Init, LevelsOK, Level, AtBoot
  <1>3. HoverOK
    BY DEF Init, ToolkitInit, HoverOK
  <1>4. LabelsOK
    BY DEF Init, LabelsOK
  <1> QED
    BY <1>1, <1>2, <1>3, <1>4 DEF AppsInv

\* A launch, whether it succeeds or not.
LEMMA AppLaunched ==
    ASSUME AppsInv, fault = "none", NEW a \in Apps, launch(a)
    PROVE  AppsInv'
  <1>0. PanelsOK /\ LevelsOK /\ HoverOK /\ LabelsOK
    BY DEF AppsInv
  <1>1. PICK made \in {n \in Cuts : n < Len(Layout[a])} \cup {Len(Layout[a])} : build(a, made) /\ launched(a, made)
    BY DEF launch
  <1>2. last' = a /\ sys' = sys /\ fault' = fault
    BY DEF launch
  <1>3. Len(Layout[a]) \in Nat /\ made \in Int
    <2>1. Len(Layout[a]) \in Nat
      BY LayoutOf
    <2>2. made \in Cuts \/ made = Len(Layout[a])
      BY <1>1
    <2> QED
      BY <2>1, <2>2, CutsAre
  <1>4. PanelsOK'
    <2>1. CASE made = Len(Layout[a])
      <3>1. whole' = whole \cup {a}
        BY <1>1, <2>1 DEF launched
      <3>2. child_count' = [child_count EXCEPT ![a] = Room(a)]
        <4>1. Room(a) = ui_container_add_child(made) /\ ~(made < 0)
          BY <1>3, <2>1, LayoutOf
        <4> QED
          BY <1>1, <4>1 DEF build
      <3>3. field' = [field EXCEPT ![a] = [i \in Widgets(a) |-> i <= made \/ (field[a][i] /\ (i = made + 1 => made < 0))]]
        BY <1>1 DEF build
      <3>4. ASSUME a = "settings", NEW i \in {LblTheme, LblBrightness, LblVolume}
            PROVE  field'["settings"][i] = TRUE
        <4>0. Widgets(a) = 1 .. 14 /\ made = 14
          BY <2>1, <3>4, AppsAre, LayoutOf
        <4>1. i \in Widgets(a) /\ i <= made
          BY <4>0 DEF LblTheme, LblBrightness, LblVolume
        <4> QED
          BY <1>0, <3>3, <3>4, <4>1 DEF PanelsOK
      <3>5. ASSUME a # "settings" PROVE field'["settings"] = field["settings"]
        BY <3>3, <3>5
      <3> QED
        BY <1>0, <3>1, <3>2, <3>3, <3>4, <3>5 DEF PanelsOK
    <2>2. CASE made # Len(Layout[a])
      <3>1. whole' = whole \ {a}
        BY <1>1, <2>2 DEF launched
      <3>2. /\ DOMAIN child_count' = Apps /\ DOMAIN field' = Apps
            /\ \A b \in Apps \ {a} : child_count'[b] = child_count[b] /\ field'[b] = field[b]
        BY <1>0, <1>1 DEF build, PanelsOK
      <3> QED
        BY <1>0, <3>1, <3>2 DEF PanelsOK
    <2> QED
      BY <2>1, <2>2
  <1>5. LevelsOK'
    <2>1. AtBoot \in [theme: Int, language: Int, brightness: Level, volume: Level]
      BY LevelsAre DEF AtBoot, Level
    <2>2. shown' \in {AtBoot, shown}
      BY <1>1 DEF launched
    <2> QED
      BY <1>0, <1>2, <2>1, <2>2 DEF LevelsOK
  <1>6. HoverOK'
    BY <1>1, <1>2 DEF HoverOK, build
  <1>7. LabelsOK'
    <2>1. CASE a = "settings"
      <3>1. shown' = AtBoot /\ changed' = FALSE
        BY <1>1, <2>1 DEF launched
      <3>2. fault' # "null"
        BY <1>2
      <3> QED
        BY <3>1, <3>2 DEF LabelsOK
    <2>2. CASE a # "settings"
      <3>1. shown' = shown /\ changed' = changed /\ ("settings" \in whole' => "settings" \in whole)
        BY <1>1, <2>2 DEF launched
      <3> QED
        BY <1>0, <1>2, <3>1 DEF LabelsOK, AtBoot, Visible
    <2> QED
      BY <2>1, <2>2
  <1> QED
    BY <1>4, <1>5, <1>6, <1>7 DEF AppsInv

\* A button of the settings.
LEMMA SettingsClicked ==
    ASSUME AppsInv, fault = "none", NEW i, settings_click(i), UNCHANGED <<uiVars, whole, last>>
    PROVE  AppsInv'
  <1>0. PanelsOK /\ LevelsOK /\ HoverOK /\ LabelsOK
    BY DEF AppsInv
  <1>1. UNCHANGED <<child_count, field, is_hovered, g_hovered_button, whole, last>>
    BY DEF uiVars
  <1>2. PanelsOK' /\ HoverOK'
    BY <1>0, <1>1 DEF PanelsOK, HoverOK
  <1> DEFINE S == [theme: Int, language: Int, brightness: Level, volume: Level]
  <1>c. changed' = IF Visible(sys') = Visible(sys) THEN changed ELSE TRUE
    BY DEF settings_click
  <1>u. ASSUME Visible(sys') = Visible(sys), UNCHANGED <<shown, fault>>
        PROVE  LabelsOK'
    <2>1. changed' = changed
      BY <1>c, <1>u
    <2>2. Visible(shown') = Visible(shown) /\ AtBoot' = AtBoot /\ shown'.language = shown.language
      BY <1>u DEF AtBoot
    <2> QED
      BY <1>0, <1>1, <1>u, <2>1, <2>2 DEF LabelsOK
  <1>3. ASSUME NEW s \in S, s.language = sys.language, settings_set(s)
        PROVE  LevelsOK' /\ LabelsOK'
    <2>1. CASE s = sys
      <3>1. UNCHANGED <<sys, shown, fault>>
        BY <1>3, <2>1 DEF settings_set
      <3>2. Visible(sys') = Visible(sys)
        BY <3>1 DEF Visible
      <3> QED
        BY <1>0, <1>u, <3>1, <3>2 DEF LevelsOK
    <2>2. CASE s # sys
      <3>1. sys' = s /\ settings_update_display(s)
        BY <1>3, <2>2 DEF settings_set
      <3> DEFINE written == [shown EXCEPT !.theme = s.theme, !.brightness = s.brightness, !.volume = s.volume]
      <3>2. "settings" \in whole => shown' = written /\ fault' = fault
        BY <1>0, <3>1 DEF settings_update_display, PanelsOK
      <3>3. shown' \in {shown, written}
        BY <3>1 DEF settings_update_display
      <3>4. shown \in S
        BY <1>0 DEF LevelsOK
      <3>5. written \in S /\ written.language = shown.language /\ Visible(written) = Visible(s)
        BY <1>3, <3>4 DEF Visible
      <3> HIDE DEF written
      <3>6. LevelsOK'
        BY <3>1, <3>3, <3>4, <3>5 DEF LevelsOK
      <3>7. ASSUME "settings" \in whole PROVE LabelsOK'
        <4>1. Visible(shown') = Visible(sys') /\ shown'.language = shown.language /\ fault' = fault
          BY <3>1, <3>2, <3>5, <3>7
        <4>2. ASSUME ~changed' PROVE FALSE
          <5>1. ~changed /\ Visible(sys') = Visible(sys)
            BY <1>c, <4>2
          <5>2. Visible(sys) = Visible(s) /\ sys \in S
            BY <1>0, <3>1, <5>1 DEF LevelsOK
          <5>3. sys.theme = s.theme /\ sys.brightness = s.brightness /\ sys.volume = s.volume
            BY <5>2 DEF Visible
          <5> QED
            BY <1>3, <2>2, <5>2, <5>3
        <4>3. AtBoot' = AtBoot /\ shown.language = AtBoot.language /\ fault # "null"
          BY <1>0, <3>7 DEF LabelsOK, AtBoot
        <4> QED
          BY <4>1, <4>2, <4>3 DEF LabelsOK
      <3> QED
        BY <1>1, <3>6, <3>7 DEF LabelsOK
    <2> QED
      BY <2>1, <2>2
  <1>4. sys \in S /\ sys.brightness \in Level /\ sys.volume \in Level /\ sys.theme \in Int /\ sys.language \in Int
    BY <1>0 DEF LevelsOK
  <1>5. \A v \in Level : /\ [sys EXCEPT !.brightness = v] \in S /\ [sys EXCEPT !.volume = v] \in S
                         /\ [sys EXCEPT !.brightness = v].language = sys.language
                         /\ [sys EXCEPT !.volume = v].language = sys.language
    BY <1>4
  <1>6. /\ [sys EXCEPT !.theme = 1 - @] \in S /\ [sys EXCEPT !.language = 1 - @] \in S
        /\ [sys EXCEPT !.theme = 1 - @].language = sys.language
    BY <1>4
  <1> HIDE DEF S
  <1>7. LevelsOK' /\ LabelsOK'
    <2>1. CASE i = 3
      <3>1. settings_set([sys EXCEPT !.theme = 1 - @])
        BY <2>1 DEF settings_click, settings_on_toggle_theme
      <3> QED
        BY <1>3, <1>6, <3>1
    <2>2. CASE i = 5
      <3>1. sys' = [sys EXCEPT !.language = 1 - @] /\ UNCHANGED <<shown, fault>>
        BY <2>2 DEF settings_click, settings_on_toggle_language
      <3>2. Visible(sys') = Visible(sys)
        BY <1>4, <3>1 DEF Visible, S
      <3> QED
        BY <1>0, <1>6, <1>u, <3>1, <3>2 DEF LevelsOK, S
    <2>3. CASE i = 7
      <3>1. settings_set([sys EXCEPT !.brightness = lower(sys.brightness)])
        BY <2>3 DEF settings_click, settings_on_brightness
      <3>2. lower(sys.brightness) \in Level
        BY <1>4, LevelsStay
      <3> QED
        BY <1>3, <1>5, <3>1, <3>2
    <2>4. CASE i = 8
      <3>1. settings_set([sys EXCEPT !.brightness = raise(sys.brightness)])
        BY <2>4 DEF settings_click, settings_on_brightness
      <3>2. raise(sys.brightness) \in Level
        BY <1>4, LevelsStay
      <3> QED
        BY <1>3, <1>5, <3>1, <3>2
    <2>5. CASE i = 10
      <3>1. settings_set([sys EXCEPT !.volume = lower(sys.volume)])
        BY <2>5 DEF settings_click, settings_on_volume
      <3>2. lower(sys.volume) \in Level
        BY <1>4, LevelsStay
      <3> QED
        BY <1>3, <1>5, <3>1, <3>2
    <2>6. CASE i = 11
      <3>1. settings_set([sys EXCEPT !.volume = raise(sys.volume)])
        BY <2>6 DEF settings_click, settings_on_volume
      <3>2. raise(sys.volume) \in Level
        BY <1>4, LevelsStay
      <3> QED
        BY <1>3, <1>5, <3>1, <3>2
    <2>7. CASE i \notin {3, 5, 7, 8, 10, 11}
      <3>1. UNCHANGED <<sys, shown, fault>>
        BY <2>7 DEF settings_click
      <3>2. Visible(sys') = Visible(sys)
        BY <3>1 DEF Visible
      <3> QED
        BY <1>0, <1>u, <3>1, <3>2 DEF LevelsOK
    <2> QED
      BY <2>1, <2>2, <2>3, <2>4, <2>5, <2>6, <2>7
  <1> QED
    BY <1>2, <1>7 DEF AppsInv

\* A step that changes neither the panels nor the settings.
LEMMA AppsSame ==
    ASSUME AppsInv, UNCHANGED <<child_count, field, is_hovered, g_hovered_button, sys, shown, changed, last>>,
           whole' \subseteq whole, fault' # "null"
    PROVE  AppsInv'
  <1>1. PanelsOK' /\ LevelsOK' /\ HoverOK' /\ LabelsOK'
    BY DEF AppsInv, PanelsOK, LevelsOK, HoverOK, LabelsOK, Visible, AtBoot
  <1> QED
    BY <1>1 DEF AppsInv

LEMMA AppsStep ==
    ASSUME AppsInv, [Next]_vars
    PROVE  AppsInv'
  <1>1. CASE UNCHANGED vars
    <2>1. UNCHANGED <<child_count, field, is_hovered, g_hovered_button, sys, shown, changed, last, whole, fault>>
      BY <1>1 DEF vars, uiVars, stateVars
    <2> QED
      BY <2>1 DEF AppsInv, PanelsOK, LevelsOK, HoverOK, LabelsOK, Visible, AtBoot
  <1>2. CASE Next
    <2>0. fault = "none"
      BY <1>2 DEF Next
    <2>1. CASE \E a \in Apps : launch(a)
      BY <2>0, <2>1, AppLaunched
    <2>2. CASE \E a \in Apps : shutdown(a)
      BY <2>0, <2>2, AppsSame DEF shutdown, free_panel, stateVars
    <2>3. CASE app_launcher_main
      BY <2>0, <2>3, AppsSame DEF app_launcher_main, free_panel, stateVars
    <2>4. CASE terminal_handle_key
      <3>1. UNCHANGED <<child_count, field, is_hovered, g_hovered_button, last, whole, fault>>
        BY <2>4 DEF terminal_handle_key, uiVars
      <3>2. UNCHANGED <<sys, shown, changed>>
        BY <2>4 DEF terminal_handle_key, type, backspace, terminal_execute_command, stateVars
      <3> QED
        BY <2>0, <3>1, <3>2, AppsSame
    <2>5. ASSUME NEW a \in Apps, handle_click(a) PROVE AppsInv'
      <3>1. PICK i \in Hits(a) : clicked(a, i)
        BY <2>5 DEF handle_click
      <3>2. CASE a = "launcher" /\ i \in 3 .. 5
        <4>1. launch(AppOf(i))
          BY <3>1, <3>2 DEF clicked
        <4>2. AppOf(i) \in Apps
          BY <3>2, AppsAre DEF AppOf
        <4> QED
          BY <2>0, <4>1, <4>2, AppLaunched
      <3>3. CASE a = "terminal" /\ i = 4
        <4>1. terminal_execute_command /\ UNCHANGED <<uiVars, whole, last, fault>>
          BY <3>1, <3>3 DEF clicked
        <4>2. UNCHANGED <<sys, shown, changed, child_count, field, is_hovered, g_hovered_button>>
          BY <4>1 DEF terminal_execute_command, stateVars, uiVars
        <4> QED
          BY <2>0, <4>1, <4>2, AppsSame
      <3>4. CASE a = "settings"
        <4>1. settings_click(i) /\ UNCHANGED <<uiVars, whole, last>>
          BY <3>1, <3>4 DEF clicked
        <4> QED
          BY <2>0, <4>1, SettingsClicked
      <3>5. CASE a = "files"
        <4>1. file_manager_click(i) /\ UNCHANGED <<uiVars, whole, last>>
          BY <3>1, <3>5 DEF clicked
        <4> QED
          BY <2>0, <4>1, AppsSame DEF file_manager_click, uiVars
      <3>6. CASE ~(a = "launcher" /\ i \in 3 .. 5) /\ ~(a = "terminal" /\ i = 4) /\ a # "settings" /\ a # "files"
        BY <3>1, <3>6 DEF clicked
      <3> QED
        BY <3>2, <3>3, <3>4, <3>5, <3>6
    <2>6. ASSUME NEW a \in Apps, handle_mouse_move(a) PROVE AppsInv'
      <3>1. PICK i \in Hits(a) : ui_update_hover(a, i)
        BY <2>6 DEF handle_mouse_move
      <3>2. UNCHANGED <<child_count, field, sys, shown, changed, whole, last, fault>>
        BY <2>6, <3>1 DEF handle_mouse_move, ui_update_hover, stateVars
      <3>3. HoverOK'
        BY <3>1, <3>2 DEF ui_update_hover, AppsInv, HoverOK
      <3>4. PanelsOK' /\ LevelsOK' /\ LabelsOK'
        BY <3>2 DEF AppsInv, PanelsOK, LevelsOK, LabelsOK, Visible, AtBoot
      <3> QED
        BY <3>3, <3>4 DEF AppsInv
    <2>7. ASSUME NEW a \in Apps, late_event(a) PROVE AppsInv'
      <3>1. UNCHANGED <<child_count, field, is_hovered, g_hovered_button, sys, shown, changed, last, whole>> /\ fault' = "freed"
        BY <2>7 DEF late_event, uiVars, stateVars
      <3> QED
        BY <3>1, AppsSame
    <2> QED
      BY <1>2, <2>1, <2>2, <2>3, <2>4, <2>5, <2>6, <2>7 DEF Next
  <1> QED
    BY <1>1, <1>2

LEMMA AppsInvariance == Spec => []AppsInv
  <1>1. AppsInv /\ [Next]_vars => AppsInv'
    BY AppsStep
  <1> QED
    BY <1>1, AppsStart, PTL DEF Spec

(***************************************************************************)
(* For every layout in which no widget lies over an earlier button, and    *)
(* wherever allocations fail: a click on a button of a launched panel that *)
(* ui_container_add_child had room for finds that button, and the toolkit  *)
(* and the screen agree on the highlighted one.                            *)
(***************************************************************************)
THEOREM ButtonsReachable == Spec => []ControlsReachable
  <1>1. AppsInv => ControlsReachable
    <2> SUFFICES ASSUME AppsInv PROVE ControlsReachable
      OBVIOUS
    <2>1. ASSUME NEW a \in whole, NEW i \in 1 .. Room(a), Layout[a][i].type = "button",
                 NEW p \in PointsOf(Layout[a][i])
          PROVE  ui_find_clicked(a, p) = i
      <3>1. a \in Apps /\ child_count[a] = Room(a)
        BY DEF AppsInv, PanelsOK
      <3> QED
        BY <2>1, <3>1, ButtonFound DEF ui_find_clicked
    <2> QED
      BY <2>1 DEF ControlsReachable, AppsInv, HoverOK, Room
  <1> QED
    BY <1>1, AppsInvariance, PTL

(***************************************************************************)
(* For every step and range of the levels, whatever fails and however      *)
(* often the settings are launched: from the first change made on a panel  *)
(* its labels show the theme, the brightness and the volume as they are,   *)
(* before it the values at boot; the language label stays as it was        *)
(* written, the levels stay in their range, and no NULL label is written.  *)
(***************************************************************************)
THEOREM LabelsAgree == Spec => []SettingsShown
  <1>1. AppsInv => SettingsShown
    BY DEF AppsInv, LabelsOK, LevelsOK, Level, SettingsShown
  <1> QED
    BY <1>1, AppsInvariance, PTL
=============================================================================
