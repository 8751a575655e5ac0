--------------------------- MODULE ServicesProofs ---------------------------
(***************************************************************************)
(* The service manager, the IPC service and the FAT32 service.             *)
(***************************************************************************)
EXTENDS ServiceMgr, Ipc, Fat32, FiniteSetTheorems, SequenceTheorems, TLAPS

-----------------------------------------------------------------------------
(***************************************************************************)
(* The invariants of the service table, for any configuration and any      *)
(* limit on crashes.  They are inductive together: that a restarted        *)
(* service has a pid rests on the types, and that restarts end at the      *)
(* limit on crash_count being the number of restarts that were observed.   *)
(***************************************************************************)

\* One table entry: its fields have their types, and it has a pid exactly
\* while it runs.
Entry == [name : Name, state : SvcState, pid : Nat, crash_count : 0 .. MaxCrashes,
          backoff_delay : 0 .. BackoffMod - 1, enabled : BOOLEAN]

GoodEntry(svc) == svc \in Entry /\ (svc.pid # 0 <=> svc.state = "RUNNING")

Inv ==
    /\ services \in Seq(Entry)
    /\ \A i \in DOMAIN services : GoodEntry(services[i])

\* crash_count is the number of restarts since the last start by hand.
Counted == restarts = [i \in DOMAIN services |-> services[i].crash_count]

-----------------------------------------------------------------------------
LEMMA RegisteredGood ==
    ASSUME NEW n \in Name
    PROVE  GoodEntry(registered(n))
  <1>1. TRUE \in BOOLEAN
    OBVIOUS
  <1> QED
    BY <1>1, ServiceAssumption DEF registered, GoodEntry, Entry, SvcState

LEMMA StartedGood ==
    ASSUME NEW svc, GoodEntry(svc), NEW i \in Nat \ {0}
    PROVE  GoodEntry(started(svc, i))
  <1> DEFINE p == i - 1 + FirstPid
  <1>1. p \in Nat \ {0} /\ 0 \in 0 .. MaxCrashes
    BY ServiceAssumption
  <1>2. started(svc, i) = [svc EXCEPT !.state = "RUNNING", !.pid = p, !.crash_count = 0]
    BY DEF started
  <1> HIDE DEF p
  <1> QED
    BY <1>1, <1>2 DEF GoodEntry, Entry, SvcState

LEMMA ModRange ==
    ASSUME NEW a \in Nat, NEW m \in Nat, m > 0
    PROVE  a % m \in 0 .. m - 1
  BY SMT

LEMMA RestartedGood ==
    ASSUME NEW svc, GoodEntry(svc)
    PROVE  GoodEntry(service_restart(svc)) \/ svc.state # "CRASHED"
  <1> SUFFICES ASSUME svc.state = "CRASHED" PROVE GoodEntry(service_restart(svc))
    OBVIOUS
  <1>1. CASE svc.crash_count >= MaxCrashes
    <2>1. service_restart(svc) = [svc EXCEPT !.enabled = FALSE, !.state = "STOPPED"]
      BY <1>1 DEF service_restart
    <2>2. FALSE \in BOOLEAN
      OBVIOUS
    <2> QED
      BY <2>1, <2>2 DEF GoodEntry, Entry, SvcState
  <1>2. CASE ~(svc.crash_count >= MaxCrashes)
    <2> DEFINE b == (svc.backoff_delay * 2) % BackoffMod
    <2>1. b \in 0 .. BackoffMod - 1
      <3>1. svc.backoff_delay * 2 \in Nat
        BY ServiceAssumption DEF GoodEntry, Entry
      <3> QED
        BY <3>1, ModRange, ServiceAssumption
    <2>2. service_restart(svc) = [svc EXCEPT !.state = "RUNNING", !.crash_count = @ + 1,
                                             !.backoff_delay = b, !.pid = @ + 1]
      BY <1>2 DEF service_restart
    <2> HIDE DEF b
    <2>3. svc.crash_count + 1 \in 0 .. MaxCrashes /\ svc.pid + 1 \in Nat \ {0}
      BY <1>2, ServiceAssumption DEF GoodEntry, Entry
    <2> QED
      BY <2>1, <2>2, <2>3 DEF GoodEntry, Entry, SvcState
  <1> QED
    BY <1>1, <1>2

LEMMA ChangedGood ==
    ASSUME NEW svc, GoodEntry(svc), NEW st \in {"STOPPED", "CRASHED"}
    PROVE  GoodEntry([svc EXCEPT !.state = st, !.pid = 0])
  BY DEF GoodEntry, Entry, SvcState

\* A table in which one entry is replaced by a good one is good.
LEMMA ReplaceGood ==
    ASSUME Inv, NEW i \in DOMAIN services, NEW svc, GoodEntry(svc),
           services' = [services EXCEPT ![i] = svc]
    PROVE  Inv'
  BY DEF Inv, GoodEntry

LEMMA InvInit == Init => Inv
  <1> SUFFICES ASSUME Init PROVE Inv
    OBVIOUS
  <1> DEFINE e(i) == started(registered(Config[i]), i)
  <1>1. ASSUME NEW i \in DOMAIN Config PROVE GoodEntry(e(i))
    <2>1. Config[i] \in Name /\ i \in Nat \ {0}
      BY ServiceAssumption
    <2> QED
      BY <2>1, RegisteredGood, StartedGood
  <1>2. services = [i \in DOMAIN Config |-> e(i)] /\ DOMAIN Config = 1 .. Len(Config) /\ Len(Config) \in Nat
    BY ServiceAssumption DEF Init
  <1> HIDE DEF e
  <1> QED
    BY <1>1, <1>2 DEF Inv, GoodEntry

LEMMA Inductive ==
    ASSUME Inv, [Next]_svc_vars
    PROVE  Inv'
  <1>0. DOMAIN services = 1 .. Len(services) /\ Len(services) \in Nat
    BY DEF Inv
  <1>1. ASSUME NEW n \in Name, service_mgr_register(n) PROVE Inv'
    <2> DEFINE r == registered(n)
    <2>1. services' = Append(services, r) /\ GoodEntry(r) /\ r \in Entry
      BY <1>1, RegisteredGood DEF service_mgr_register, GoodEntry
    <2> HIDE DEF r
    <2>a. services \in Seq(Entry) /\ \A i \in 1 .. Len(services) : GoodEntry(services[i])
      BY <1>0 DEF Inv
    <2>2. /\ services' \in Seq(Entry) /\ Len(services') = Len(services) + 1
          /\ services'[Len(services) + 1] = r
          /\ \A i \in 1 .. Len(services) : services'[i] = services[i]
      BY <2>1, <2>a, AppendProperties
    <2>b. DOMAIN services' = 1 .. Len(services) + 1
      BY <2>2
    <2>3. ASSUME NEW i \in DOMAIN services' PROVE GoodEntry(services'[i])
      <3>1. CASE i = Len(services) + 1
        BY <2>1, <2>2, <3>1
      <3>2. CASE i \in 1 .. Len(services)
        BY <2>a, <2>2, <3>2
      <3> QED
        BY <1>0, <2>b, <3>1, <3>2
    <2> QED
      BY <2>2, <2>3 DEF Inv, GoodEntry
  <1>2. ASSUME NEW n \in Name, service_mgr_start(n) PROVE Inv'
    <2>1. PICK i \in Found(n) : services' = [services EXCEPT ![i] = started(services[i], i)]
      BY <1>2 DEF service_mgr_start
    <2>2. i \in DOMAIN services /\ i \in Nat \ {0} /\ GoodEntry(services[i])
      BY <1>0 DEF Found, Inv
    <2> QED
      BY <2>1, <2>2, StartedGood, ReplaceGood
  <1>3. ASSUME NEW n \in Name, service_mgr_stop(n) PROVE Inv'
    <2>1. PICK i \in Found(n) :
            services' = [services EXCEPT ![i] = [services[i] EXCEPT !.state = "STOPPED", !.pid = 0]]
      BY <1>3 DEF service_mgr_stop, Found, Inv, GoodEntry, Entry
    <2>2. i \in DOMAIN services /\ GoodEntry(services[i])
      BY DEF Found, Inv
    <2> QED
      BY <2>1, <2>2, ChangedGood, ReplaceGood
  <1>4. ASSUME NEW n \in Name, service_mgr_simulate_crash(n) PROVE Inv'
    <2>1. PICK i \in Found(n) :
            services' = [services EXCEPT ![i] = [services[i] EXCEPT !.state = "CRASHED", !.pid = 0]]
      BY <1>4 DEF service_mgr_simulate_crash, Found, Inv, GoodEntry, Entry
    <2>2. i \in DOMAIN services /\ GoodEntry(services[i])
      BY DEF Found, Inv
    <2> QED
      BY <2>1, <2>2, ChangedGood, ReplaceGood
  <1>5. ASSUME service_mgr_check_all PROVE Inv'
    <2> DEFINE e(i) == IF services[i].enabled /\ services[i].state = "CRASHED"
                       THEN service_restart(services[i]) ELSE services[i]
    <2>1. ASSUME NEW i \in DOMAIN services PROVE GoodEntry(e(i))
      BY RestartedGood DEF Inv
    <2>2. services' = [i \in DOMAIN services |-> e(i)]
      BY <1>5 DEF service_mgr_check_all
    <2> HIDE DEF e
    <2> QED
      BY <1>0, <2>1, <2>2 DEF Inv, GoodEntry
  <1>6. CASE UNCHANGED svc_vars
    BY <1>6 DEF Inv, svc_vars
  <1> QED
    BY <1>1, <1>2, <1>3, <1>4, <1>5, <1>6 DEF Next

\* A step that keeps the crash counts and the history keeps their agreement.
LEMMA CountsStay ==
    ASSUME Counted, DOMAIN services' = DOMAIN services, UNCHANGED restarts,
           \A j \in DOMAIN services : services'[j].crash_count = services[j].crash_count
    PROVE  Counted'
  BY DEF Counted

LEMMA CountedInductive ==
    ASSUME Inv, Counted, [Next]_svc_vars
    PROVE  Counted'
  <1>0. /\ services \in Seq(Entry) /\ DOMAIN services = 1 .. Len(services) /\ Len(services) \in Nat
        /\ \A j \in DOMAIN services : services[j] \in Entry
    BY DEF Inv, GoodEntry
  <1>1. ASSUME NEW n \in Name, service_mgr_register(n) PROVE Counted'
    <2> DEFINE r == registered(n)
    <2>1. services' = Append(services, r) /\ restarts' = Append(restarts, 0) /\ r \in Entry
      BY <1>1, RegisteredGood DEF service_mgr_register, GoodEntry
    <2>2. r.crash_count = 0
      BY DEF registered
    <2> HIDE DEF r
    <2>3. restarts \in Seq(Nat) /\ Len(restarts) = Len(services)
      BY <1>0, ServiceAssumption DEF Counted, Entry
    <2>4. /\ services' \in Seq(Entry) /\ Len(services') = Len(services) + 1
          /\ services'[Len(services) + 1] = r
          /\ \A j \in 1 .. Len(services) : services'[j] = services[j]
      BY <1>0, <2>1, AppendProperties
    <2>5. /\ restarts' \in Seq(Nat) /\ Len(restarts') = Len(services) + 1
          /\ restarts'[Len(services) + 1] = 0
          /\ \A j \in 1 .. Len(services) : restarts'[j] = restarts[j]
      BY <1>0, <2>1, <2>3, AppendProperties
    <2>6. DOMAIN services' = 1 .. Len(services) + 1 /\ DOMAIN restarts' = 1 .. Len(services) + 1
      BY <2>4, <2>5
    <2>7. ASSUME NEW j \in DOMAIN services' PROVE restarts'[j] = services'[j].crash_count
      <3>1. CASE j = Len(services) + 1
        BY <2>2, <2>4, <2>5, <3>1
      <3>2. CASE j \in 1 .. Len(services)
        BY <1>0, <2>4, <2>5, <3>2 DEF Counted
      <3> QED
        BY <1>0, <2>6, <3>1, <3>2
    <2>8. restarts' = [j \in DOMAIN restarts' |-> restarts'[j]]
      BY <2>5
    <2> QED
      BY <2>6, <2>7, <2>8 DEF Counted
  <1>2. ASSUME NEW n \in Name, service_mgr_start(n) PROVE Counted'
    <2>1. PICK i \in Found(n) : /\ services' = [services EXCEPT ![i] = started(services[i], i)]
                               /\ restarts' = [restarts EXCEPT ![i] = 0]
      BY <1>2 DEF service_mgr_start
    <2>2. i \in DOMAIN services
      BY DEF Found
    <2>3. started(services[i], i).crash_count = 0
      BY <1>0, <2>2 DEF started, Entry
    <2> QED
      BY <1>0, <2>1, <2>2, <2>3 DEF Counted
  <1>3. ASSUME NEW n \in Name, service_mgr_stop(n) \/ service_mgr_simulate_crash(n) PROVE Counted'
    <2>1. PICK i \in Found(n), st \in SvcState :
            services' = [services EXCEPT ![i] = [services[i] EXCEPT !.state = st, !.pid = 0]]
      BY <1>0, <1>3 DEF service_mgr_stop, service_mgr_simulate_crash, Found, Entry, SvcState
    <2>2. \A j \in DOMAIN services : services'[j].crash_count = services[j].crash_count
      BY <1>0, <2>1 DEF Entry
    <2> QED
      BY <1>3, <2>1, <2>2, CountsStay DEF service_mgr_stop, service_mgr_simulate_crash
  <1>4. ASSUME service_mgr_check_all PROVE Counted'
    <2>1. DOMAIN services' = DOMAIN services
      BY <1>4 DEF service_mgr_check_all
    <2>2. ASSUME NEW j \in DOMAIN services
          PROVE  services'[j].crash_count =
                   IF services[j].state = "CRASHED" /\ services'[j].state = "RUNNING"
                   THEN restarts[j] + 1 ELSE restarts[j]
      <3>1. restarts[j] = services[j].crash_count /\ services[j] \in Entry
        BY <1>0 DEF Counted
      <3>2. CASE services[j].enabled /\ services[j].state = "CRASHED"
        <4>1. services'[j] = service_restart(services[j])
          BY <1>4, <3>2 DEF service_mgr_check_all
        <4> QED
          BY <3>1, <3>2, <4>1 DEF service_restart, Entry
      <3>3. CASE ~(services[j].enabled /\ services[j].state = "CRASHED")
        <4>1. services'[j] = services[j]
          BY <1>4, <3>3 DEF service_mgr_check_all
        <4> QED
          BY <3>1, <3>3, <4>1
      <3> QED
        BY <3>2, <3>3
    <2> QED
      BY <1>4, <2>1, <2>2 DEF Counted, service_mgr_check_all, CountRestarts
  <1>5. CASE UNCHANGED svc_vars
    BY <1>5 DEF Counted, svc_vars
  <1> QED
    BY <1>1, <1>2, <1>3, <1>4, <1>5 DEF Next

LEMMA CountedInit == Init => Counted
  <1>1. ASSUME NEW i \in DOMAIN Config
        PROVE  started(registered(Config[i]), i).crash_count = 0
    BY DEF started, registered
  <1> QED
    BY <1>1 DEF Init, Counted

\* Every entry of the service table is as service_mgr.c keeps it.
THEOREM Invariance == Spec => []Inv
  BY InvInit, Inductive, PTL DEF Spec

\* Over any sequence of starts, stops, crashes and passes of init the fields
\* keep their types and crash_count its limit.
THEOREM ServiceTypes == Spec => []ServiceTypeOK
  <1>1. Inv => ServiceTypeOK
    BY DEF Inv, ServiceTypeOK, Entry
  <1> QED
    BY <1>1, Invariance, PTL

\* A service has a pid exactly while it runs.
THEOREM PidIsRight == Spec => []PidMeansRunning
  <1>1. Inv => PidMeansRunning
    BY DEF Inv, PidMeansRunning, GoodEntry
  <1> QED
    BY <1>1, Invariance, PTL

\* An entry is restarted at most MaxCrashes times between two starts by hand,
\* and only one that crashes again after that is disabled.
THEOREM OnlyCrashLoopsDisable == Spec => DisabledOnlyByCrashLoop
  <1> DEFINE A == \A i \in DOMAIN services :
                    /\ restarts'[i] <= MaxCrashes
                    /\ services[i].enabled /\ ~services'[i].enabled =>
                           services[i].state = "CRASHED" /\ restarts[i] = MaxCrashes
  <1>1. ASSUME Inv, Counted, Inv', Counted', [Next]_svc_vars PROVE A \/ UNCHANGED svc_vars
    <2> SUFFICES ASSUME NEW i \in DOMAIN services, Next
                 PROVE  /\ restarts'[i] <= MaxCrashes
                        /\ services[i].enabled /\ ~services'[i].enabled =>
                               services[i].state = "CRASHED" /\ restarts[i] = MaxCrashes
      BY <1>1
    <2>0. services \in Seq(Entry) /\ services[i] \in Entry
      BY <1>1 DEF Inv, GoodEntry
    <2>1. ASSUME NEW n \in Name, service_mgr_register(n)
          PROVE  i \in DOMAIN services' /\ services'[i] = services[i]
      <3> DEFINE r == registered(n)
      <3>1. services' = Append(services, r)
        BY <2>1 DEF service_mgr_register
      <3> HIDE DEF r
      <3> QED
        BY <2>0, <3>1
    <2>2. ASSUME NEW n \in Name, service_mgr_start(n)
          PROVE  i \in DOMAIN services' /\ services'[i].enabled = services[i].enabled
      BY <2>0, <2>2 DEF service_mgr_start, Found, started, Entry
    <2>3. ASSUME NEW n \in Name, service_mgr_stop(n)
          PROVE  i \in DOMAIN services' /\ services'[i].enabled = services[i].enabled
      BY <2>0, <2>3 DEF service_mgr_stop, Found, Entry
    <2>4. ASSUME NEW n \in Name, service_mgr_simulate_crash(n)
          PROVE  i \in DOMAIN services' /\ services'[i].enabled = services[i].enabled
      BY <2>0, <2>4 DEF service_mgr_simulate_crash, Found, Entry
    <2>5. ASSUME service_mgr_check_all, services[i].enabled, ~services'[i].enabled
          PROVE  services[i].state = "CRASHED" /\ restarts[i] = MaxCrashes
      <3>1. services[i].state = "CRASHED" /\ services'[i] = service_restart(services[i])
        BY <2>5 DEF service_mgr_check_all
      <3>2. services[i].crash_count >= MaxCrashes
        BY <2>0, <2>5, <3>1 DEF service_restart, Entry
      <3> QED
        BY <1>1, <2>0, <3>1, <3>2, ServiceAssumption DEF Entry, Counted
    <2>6. ASSUME service_mgr_check_all PROVE i \in DOMAIN services'
      BY <2>6 DEF service_mgr_check_all
    <2>7. i \in DOMAIN services'
      BY <2>1, <2>2, <2>3, <2>4, <2>6 DEF Next
    <2>8. restarts'[i] = services'[i].crash_count /\ services'[i].crash_count \in 0 .. MaxCrashes
      BY <1>1, <2>7 DEF Counted, Inv, GoodEntry, Entry
    <2>9. restarts'[i] <= MaxCrashes
      BY <2>8, ServiceAssumption
    <2> QED
      BY <2>1, <2>2, <2>3, <2>4, <2>5, <2>9 DEF Next
  <1>2. Spec => []Counted
    BY CountedInit, CountedInductive, Invariance, PTL DEF Spec
  <1> QED
    BY <1>1, <1>2, Invariance, PTL DEF Spec, DisabledOnlyByCrashLoop

-----------------------------------------------------------------------------
(***************************************************************************)
(* The pipes and message queues of Ipc behave as the queues of IpcService. *)
(* A ring of m slots is the sequence InRing of what it holds; its counters *)
(* go round at most once between two operations (Wrap), so that a write is *)
(* an append and a read takes from the front, also where the copy wraps.   *)
(* IpcInv says that the counters of every ring hang together.              *)
(***************************************************************************)

(***************************************************************************)
(* Arithmetic of the rings.                                                *)
(***************************************************************************)
\* A position that has gone round at most once.
Wrap(x, m) == IF x < m THEN x ELSE x - m

LEMMA ModOnce ==
    ASSUME NEW m \in Nat \ {0}, NEW x \in Nat, x < 2 * m
    PROVE  x % m = Wrap(x, m)
  <1> DEFINE r == x % m
             q == x \div m
  <1>1. x = m * q + r /\ q \in Nat /\ r \in 0 .. m - 1
    OBVIOUS
  <1> HIDE DEF r, q
  <1>2. q < 2
    <2> SUFFICES ASSUME q >= 2
                 PROVE  FALSE
      BY <1>1
    <2>1. PICK d \in Nat : q = 2 + d
      BY <1>1
    <2>2. m * q = 2 * m + m * d /\ m * d \in Nat
      BY <2>1
    <2> QED
      BY <1>1, <2>2
  <1>3. q = 0 \/ q = 1
    BY <1>1, <1>2
  <1>4. m * 0 = 0 /\ m * 1 = m
    OBVIOUS
  <1> QED
    BY <1>1, <1>3, <1>4 DEF r, Wrap

(***************************************************************************)
(* A ring of m slots with values in V: what it holds, oldest first, and    *)
(* how its three counters hang together.                                   *)
(***************************************************************************)
RingOK(data, head, tail, count, m, V) ==
    /\ data \in [0 .. m - 1 -> V]
    /\ head \in 0 .. m - 1 /\ tail \in 0 .. m - 1 /\ count \in 0 .. m
    /\ head = Wrap(tail + count, m)

InRing(data, tail, count, m) == [k \in 1 .. count |-> data[(tail + k - 1) % m]]

\* The slots of a ring.
LEMMA RingSlots ==
    ASSUME NEW m \in Nat \ {0}, NEW tail \in 0 .. m - 1
    PROVE  /\ \A k \in 1 .. m : (tail + k - 1) % m = Wrap(tail + k - 1, m) /\ (tail + k - 1) % m \in 0 .. m - 1
           /\ \A k \in 0 .. m : (tail + k) % m = Wrap(tail + k, m) /\ (tail + k) % m \in 0 .. m - 1
  <1>1. ASSUME NEW k \in 0 .. m PROVE (tail + k) % m = Wrap(tail + k, m) /\ (tail + k) % m \in 0 .. m - 1
    <2>1. tail + k \in Nat /\ tail + k < 2 * m
      OBVIOUS
    <2>2. (tail + k) % m = Wrap(tail + k, m)
      BY <2>1, ModOnce
    <2> QED
      BY <2>1, <2>2 DEF Wrap
  <1>2. ASSUME NEW k \in 1 .. m
        PROVE (tail + k - 1) % m = Wrap(tail + k - 1, m) /\ (tail + k - 1) % m \in 0 .. m - 1
    <2>1. k - 1 \in 0 .. m /\ tail + (k - 1) = tail + k - 1
      OBVIOUS
    <2> QED
      BY <1>1, <2>1
  <1> QED
    BY <1>1, <1>2

\* What is in a ring is a sequence.
LEMMA InRingIsSeq ==
    ASSUME NEW m \in Nat \ {0}, NEW V, NEW data, NEW head, NEW tail, NEW count,
           RingOK(data, head, tail, count, m, V)
    PROVE  /\ InRing(data, tail, count, m) \in Seq(V)
           /\ Len(InRing(data, tail, count, m)) = count
           /\ \A k \in 1 .. count : InRing(data, tail, count, m)[k] = data[Wrap(tail + k - 1, m)]
  <1> DEFINE s == InRing(data, tail, count, m)
  <1>1. /\ data \in [0 .. m - 1 -> V] /\ tail \in 0 .. m - 1 /\ count \in Nat /\ count <= m
    BY DEF RingOK
  <1>2. \A k \in 1 .. count : (tail + k - 1) % m = Wrap(tail + k - 1, m) /\ (tail + k - 1) % m \in 0 .. m - 1
    <2>1. 1 .. count \subseteq 1 .. m
      BY <1>1
    <2> QED
      BY <1>1, <2>1, RingSlots
  <1>3. s \in [1 .. count -> V]
    BY <1>1, <1>2 DEF InRing
  <1>4. s \in Seq(V) /\ Len(s) = count
    BY <1>1, <1>3
  <1>5. \A k \in 1 .. count : s[k] = data[Wrap(tail + k - 1, m)]
    BY <1>2 DEF InRing
  <1> QED
    BY <1>4, <1>5

\* Wrapping twice is wrapping once.
LEMMA WrapTwice ==
    ASSUME NEW m \in Nat \ {0}, NEW x \in Nat, NEW y \in Nat, x + y < 2 * m, NEW w, w = Wrap(x, m)
    PROVE  Wrap(w + y, m) = Wrap(x + y, m)
  <1>1. CASE x < m
    BY <1>1 DEF Wrap
  <1>2. CASE ~(x < m)
    <2>1. w = x - m /\ x + y >= m /\ w + y < m
      BY <1>2 DEF Wrap
    <2> QED
      BY <2>1 DEF Wrap
  <1> QED
    BY <1>1, <1>2

\* Within one turn no slot comes twice.
LEMMA WrapInjective ==
    ASSUME NEW m \in Nat \ {0}, NEW h \in 0 .. m - 1, NEW j \in 0 .. m - 1, NEW k \in 0 .. m - 1,
           Wrap(h + j, m) = Wrap(h + k, m)
    PROVE  j = k
  <1>1. CASE h + j < m /\ h + k < m
    BY <1>1 DEF Wrap
  <1>2. CASE ~(h + j < m) /\ ~(h + k < m)
    BY <1>2 DEF Wrap
  <1>3. CASE h + j < m /\ ~(h + k < m)
    BY <1>3 DEF Wrap
  <1>4. CASE ~(h + j < m) /\ h + k < m
    BY <1>4 DEF Wrap
  <1> QED
    BY <1>1, <1>2, <1>3, <1>4

\* Skipping the oldest n.
LEMMA RingSkip ==
    ASSUME NEW m \in Nat \ {0}, NEW V, NEW data, NEW head, NEW tail, NEW count,
           RingOK(data, head, tail, count, m, V), NEW n \in 0 .. count
    PROVE  /\ RingOK(data, head, (tail + n) % m, count - n, m, V)
           /\ InRing(data, (tail + n) % m, count - n, m)
                = SubSeq(InRing(data, tail, count, m), n + 1, count)
  <1> DEFINE s == InRing(data, tail, count, m)
             t == InRing(data, (tail + n) % m, count - n, m)
             u == SubSeq(s, n + 1, count)
  <1>1. /\ data \in [0 .. m - 1 -> V] /\ tail \in 0 .. m - 1 /\ count \in Nat /\ count <= m
        /\ head = Wrap(tail + count, m) /\ head \in 0 .. m - 1 /\ n \in 0 .. m /\ n <= count
    BY DEF RingOK
  <1>2. (tail + n) % m = Wrap(tail + n, m) /\ (tail + n) % m \in 0 .. m - 1
    BY <1>1, RingSlots
  <1>3. RingOK(data, head, (tail + n) % m, count - n, m, V)
    <2> DEFINE w == (tail + n) % m
    <2>0. w = Wrap(tail + n, m)
      BY <1>2
    <2>2. tail + n \in Nat /\ count - n \in Nat /\ (tail + n) + (count - n) = tail + count /\ tail + count < 2 * m
      BY <1>1
    <2> HIDE DEF w
    <2>3. Wrap(w + (count - n), m) = Wrap((tail + n) + (count - n), m)
      BY <2>0, <2>2, WrapTwice
    <2>1. head = Wrap(((tail + n) % m) + (count - n), m)
      BY <1>1, <2>2, <2>3 DEF w
    <2> QED
      BY <1>1, <1>2, <2>1 DEF RingOK
  <1>4. s \in Seq(V) /\ Len(s) = count /\ \A k \in 1 .. count : s[k] = data[Wrap(tail + k - 1, m)]
    BY InRingIsSeq
  <1>5. t \in Seq(V) /\ Len(t) = count - n
        /\ \A k \in 1 .. count - n : t[k] = data[Wrap(((tail + n) % m) + k - 1, m)]
    BY <1>3, InRingIsSeq
  <1>6. \A i \in n + 1 .. count : s[i] \in V
    BY <1>1, <1>4
  <1>7. u \in Seq(V) /\ Len(u) = count - n /\ \A i \in 1 .. count - n : u[i] = s[n + i]
    <2> HIDE DEF s
    <2>1. /\ SubSeq(s, n + 1, count) \in Seq(V)
          /\ Len(SubSeq(s, n + 1, count)) = IF n + 1 <= count THEN count - (n + 1) + 1 ELSE 0
          /\ \A i \in 1 .. count - (n + 1) + 1 : SubSeq(s, n + 1, count)[i] = s[(n + 1) + i - 1]
      BY <1>1, <1>6, SubSeqProperties
    <2>2. Len(SubSeq(s, n + 1, count)) = count - n
      BY <1>1, <2>1
    <2>3. count - (n + 1) + 1 = count - n /\ \A i \in 1 .. count - n : (n + 1) + i - 1 = n + i
      BY <1>1
    <2> QED
      BY <2>1, <2>2, <2>3
  <1>8. \A i \in 1 .. count - n : t[i] = u[i]
    <2> SUFFICES ASSUME NEW i \in 1 .. count - n
                 PROVE  t[i] = u[i]
      OBVIOUS
    <2>1. n + i \in 1 .. count
      BY <1>1
    <2>2. Wrap(((tail + n) % m) + i - 1, m) = Wrap(tail + (n + i) - 1, m)
      <3> DEFINE w == (tail + n) % m
      <3>1. w = Wrap(tail + n, m) /\ w \in 0 .. m - 1
        BY <1>2
      <3> HIDE DEF w
      <3>2. tail + n \in Nat /\ i - 1 \in Nat /\ (tail + n) + (i - 1) < 2 * m
        BY <1>1
      <3>3. Wrap(w + (i - 1), m) = Wrap((tail + n) + (i - 1), m)
        BY <3>1, <3>2, WrapTwice
      <3>4. w + (i - 1) = w + i - 1 /\ (tail + n) + (i - 1) = tail + (n + i) - 1
        BY <1>1, <3>1
      <3> QED
        BY <3>3, <3>4 DEF w
    <2> HIDE DEF s, t, u
    <2> QED
      BY <1>4, <1>5, <1>7, <2>1, <2>2
  <1> HIDE DEF s, t, u
  <1>9. t = u
    BY <1>5, <1>7, <1>8, SeqEqual
  <1> QED
    BY <1>3, <1>9 DEF s, t, u

\* new has the bytes from the head on, and is as data everywhere else.
Stored(data, head, bytes, m, V, new) ==
    /\ new \in [0 .. m - 1 -> V]
    /\ \A k \in 0 .. Len(bytes) - 1 : new[Wrap(head + k, m)] = bytes[k + 1]
    /\ \A i \in 0 .. m - 1 : (\A k \in 0 .. Len(bytes) - 1 : i # Wrap(head + k, m)) => new[i] = data[i]

\* Storing more at the head.
LEMMA RingStore ==
    ASSUME NEW m \in Nat \ {0}, NEW V, NEW data, NEW head, NEW tail, NEW count,
           RingOK(data, head, tail, count, m, V),
           NEW bytes \in Seq(V), Len(bytes) <= m - count,
           NEW new, Stored(data, head, bytes, m, V, new)
    PROVE  /\ RingOK(new, (head + Len(bytes)) % m, tail, count + Len(bytes), m, V)
           /\ InRing(new, tail, count + Len(bytes), m) = InRing(data, tail, count, m) \o bytes
  <1> DEFINE len == Len(bytes)
             s == InRing(data, tail, count, m)
             t == InRing(new, tail, count + len, m)
             u == s \o bytes
  <1>0. len \in Nat
    OBVIOUS
  <1>1. /\ data \in [0 .. m - 1 -> V] /\ tail \in 0 .. m - 1 /\ count \in Nat /\ count <= m
        /\ head = Wrap(tail + count, m) /\ head \in 0 .. m - 1 /\ len \in 0 .. m /\ len + count <= m
    BY <1>0 DEF RingOK
  <1> HIDE DEF len
  <1>2. (head + len) % m = Wrap(head + len, m) /\ (head + len) % m \in 0 .. m - 1
    BY <1>1, RingSlots
  <1>3. RingOK(new, (head + len) % m, tail, count + len, m, V)
    <2>1. Wrap(head + len, m) = Wrap(tail + (count + len), m)
      BY <1>1 DEF Wrap
    <2>2. new \in [0 .. m - 1 -> V]
      BY DEF Stored
    <2> QED
      BY <1>1, <1>2, <2>1, <2>2 DEF RingOK
  <1>4. s \in Seq(V) /\ Len(s) = count /\ \A k \in 1 .. count : s[k] = data[Wrap(tail + k - 1, m)]
    BY InRingIsSeq
  <1>5. t \in Seq(V) /\ Len(t) = count + len
        /\ \A k \in 1 .. count + len : t[k] = new[Wrap(tail + k - 1, m)]
    BY <1>3, InRingIsSeq
  <1>6. u \in Seq(V) /\ Len(u) = count + len
        /\ \A i \in 1 .. count + len : u[i] = IF i <= count THEN s[i] ELSE bytes[i - count]
    <2> HIDE DEF s
    <2> QED
      BY <1>4, ConcatProperties DEF len
  <1>7. ASSUME NEW i \in 1 .. count + len PROVE t[i] = u[i]
    <2>1. CASE i <= count
      <3>1. \A k \in 0 .. len - 1 : Wrap(tail + i - 1, m) # Wrap(head + k, m)
        BY <1>1, <2>1 DEF Wrap
      <3>2. Wrap(tail + i - 1, m) \in 0 .. m - 1
        BY <1>1, <2>1 DEF Wrap
      <3>3. new[Wrap(tail + i - 1, m)] = data[Wrap(tail + i - 1, m)]
        BY <3>1, <3>2 DEF len, Stored
      <3> HIDE DEF s, t, u
      <3>4. i \in 1 .. count
        BY <1>1, <2>1
      <3> QED
        BY <1>4, <1>5, <1>6, <2>1, <3>3, <3>4
    <2>2. CASE i > count
      <3> DEFINE k == i - count - 1
      <3>1. k \in 0 .. len - 1 /\ k + 1 = i - count
        BY <1>1, <2>2
      <3>2. Wrap(tail + i - 1, m) = Wrap(head + k, m)
        BY <1>1, <2>2 DEF Wrap
      <3> HIDE DEF k
      <3>3. new[Wrap(head + k, m)] = bytes[k + 1]
        BY <3>1 DEF len, Stored
      <3> HIDE DEF s, t, u
      <3>4. ~(i <= count)
        BY <1>1, <2>2
      <3> QED
        BY <1>5, <1>6, <3>1, <3>2, <3>3, <3>4
    <2>3. i <= count \/ i > count
      BY <1>1
    <2> QED
      BY <2>1, <2>2, <2>3
  <1> HIDE DEF s, t, u
  <1>8. t = u
    BY <1>5, <1>6, <1>7, SeqEqual
  <1> QED
    BY <1>3, <1>8 DEF s, t, u, len

-----------------------------------------------------------------------------
(***************************************************************************)
(* ring_buffer.c.                                                          *)
(***************************************************************************)
Content == Byte \cup {Zero}
RingRecord == [data : [0 .. RingSize - 1 -> Content], head : Nat, tail : Nat, count : Nat]

BufferOK(rb) ==
    /\ rb \in RingRecord
    /\ RingOK(rb.data, rb.head, rb.tail, rb.count, RingSize, Content)

Held(rb) == InRing(rb.data, rb.tail, rb.count, RingSize)

LEMMA HeldIsSeq ==
    ASSUME NEW rb, BufferOK(rb)
    PROVE  /\ Held(rb) \in Seq(Content) /\ Len(Held(rb)) = rb.count
           /\ rb.count \in 0 .. RingSize
  <1>1. RingSize \in Nat \ {0}
    BY IpcAssumption
  <1> QED
    BY <1>1, InRingIsSeq DEF BufferOK, Held, RingOK

LEMMA PeekIs ==
    ASSUME NEW rb, BufferOK(rb), NEW len \in Nat
    PROVE  /\ ring_buffer_peek(rb, rb.count) = Held(rb)
           /\ ring_buffer_peek(rb, len) = SubSeq(Held(rb), 1, IF len > rb.count THEN rb.count ELSE len)
  <1> DEFINE n == IF len > rb.count THEN rb.count ELSE len
  <1>1. rb.count \in Nat /\ n \in 0 .. rb.count
    BY DEF BufferOK, RingRecord
  <1>2. ring_buffer_peek(rb, rb.count) = Held(rb)
    BY <1>1 DEF ring_buffer_peek, Held, InRing
  <1>3. Held(rb) \in Seq(Content) /\ Len(Held(rb)) = rb.count
    BY HeldIsSeq
  <1>4. ring_buffer_peek(rb, len) = [k \in 1 .. n |-> Held(rb)[k]]
    <2>1. \A k \in 1 .. n : Held(rb)[k] = rb.data[(rb.tail + k - 1) % RingSize]
      BY <1>1 DEF Held, InRing
    <2> QED
      BY <2>1 DEF ring_buffer_peek
  <1>5. SubSeq(Held(rb), 1, n) = [k \in 1 .. n |-> Held(rb)[k]]
    <2> DEFINE s == Held(rb)
               u == SubSeq(s, 1, n)
    <2>0. n \in Int /\ 1 \in Int /\ \A i \in 1 .. n : s[i] \in Content
      BY <1>1, <1>3
    <2> HIDE DEF s, n
    <2>1. /\ u \in Seq(Content)
          /\ Len(u) = IF 1 <= n THEN n - 1 + 1 ELSE 0
          /\ \A i \in 1 .. n - 1 + 1 : u[i] = s[1 + i - 1]
      BY <2>0, SubSeqProperties
    <2>2. Len(u) = n /\ n - 1 + 1 = n /\ \A i \in 1 .. n : 1 + i - 1 = i
      BY <1>1, <2>1 DEF n
    <2>3. u = [k \in 1 .. n |-> s[k]]
      <3> HIDE DEF u
      <3>1. DOMAIN u = 1 .. n /\ u = [k \in DOMAIN u |-> u[k]]
        BY <2>1, <2>2
      <3> QED
        BY <2>1, <2>2, <3>1
    <2> QED
      BY <2>3 DEF s
  <1> QED
    BY <1>2, <1>4, <1>5

\* An empty ring.
LEMMA EmptyRing ==
    BufferOK(ring_buffer_init) /\ Held(ring_buffer_init) = << >>
  <1>0. RingSize \in Nat \ {0}
    BY IpcAssumption
  <1>1. BufferOK(ring_buffer_init)
    BY <1>0 DEF BufferOK, RingRecord, RingOK, Content, ring_buffer_init, Wrap
  <1>2. Held(ring_buffer_init) \in Seq(Content) /\ Len(Held(ring_buffer_init)) = 0
    BY <1>1, HeldIsSeq DEF ring_buffer_init
  <1> QED
    BY <1>1, <1>2, EmptySeq

LEMMA WriteOK ==
    ASSUME NEW rb, BufferOK(rb), NEW bytes \in Seq(Byte), has_room(rb, Len(bytes))
    PROVE  /\ BufferOK(ring_buffer_write(rb, bytes))
           /\ Held(ring_buffer_write(rb, bytes)) = Held(rb) \o bytes
  <1> DEFINE len == Len(bytes)
             N == RingSize
             new == ring_buffer_write(rb, bytes)
             pos(k) == (rb.head + k) % N
             data == [i \in DOMAIN rb.data |->
                        IF \E k \in 0 .. len - 1 : i = pos(k)
                        THEN bytes[1 + CHOOSE k \in 0 .. len - 1 : i = pos(k)]
                        ELSE rb.data[i]]
  <1>0. N \in Nat \ {0} /\ len \in Nat
    BY IpcAssumption
  <1>1. /\ rb.data \in [0 .. N - 1 -> Content] /\ rb.head \in 0 .. N - 1 /\ rb.tail \in 0 .. N - 1
        /\ rb.count \in 0 .. N /\ len <= N - rb.count /\ DOMAIN rb.data = 0 .. N - 1
    BY DEF BufferOK, RingOK, has_room
  <1>2. /\ new = [rb EXCEPT !.data = data, !.head = pos(len), !.count = rb.count + len]
        /\ rb \in RingRecord
    BY DEF ring_buffer_write, BufferOK
  <1>3. \A k \in 0 .. len : pos(k) = Wrap(rb.head + k, N) /\ pos(k) \in 0 .. N - 1
    <2>1. 0 .. len \subseteq 0 .. N
      BY <1>0, <1>1
    <2> QED
      BY <1>0, <1>1, <2>1, RingSlots
  <1>4. ASSUME NEW j \in 0 .. len - 1, NEW k \in 0 .. len - 1, pos(j) = pos(k) PROVE j = k
    <2>1. j \in 0 .. len /\ k \in 0 .. len
      BY <1>0
    <2>2. Wrap(rb.head + j, N) = Wrap(rb.head + k, N)
      BY <1>3, <1>4, <2>1
    <2> HIDE DEF pos, len, N, new
    <2>3. j \in 0 .. N - 1 /\ k \in 0 .. N - 1
      BY <1>0, <1>1
    <2> DEFINE h == rb.head
    <2>4. h \in 0 .. N - 1 /\ Wrap(h + j, N) = Wrap(h + k, N)
      BY <1>1, <2>2
    <2> HIDE DEF h
    <2> QED
      BY <1>0, <2>3, <2>4, WrapInjective
  <1> HIDE DEF N, new, pos, len
  <1>5. ASSUME NEW k \in 0 .. len - 1 PROVE data[pos(k)] = bytes[k + 1] /\ pos(k) \in 0 .. N - 1
    <2>1. pos(k) \in 0 .. N - 1
      BY <1>0, <1>3
    <2>2. (CHOOSE j \in 0 .. len - 1 : pos(k) = pos(j)) = k
      BY <1>4
    <2>3. data[pos(k)] = bytes[1 + CHOOSE j \in 0 .. len - 1 : pos(k) = pos(j)]
      BY <1>1, <2>1
    <2>4. 1 + k = k + 1
      BY <1>0
    <2> QED
      BY <2>1, <2>2, <2>3, <2>4
  <1>6. \A k \in 0 .. len - 1 : bytes[k + 1] \in Content
    BY <1>0 DEF Content, len
  <1>7. data \in [0 .. N - 1 -> Content]
    <2> SUFFICES ASSUME NEW i \in 0 .. N - 1
                 PROVE  data[i] \in Content
      BY <1>1
    <2>1. CASE \E k \in 0 .. len - 1 : i = pos(k)
      <3>1. PICK k \in 0 .. len - 1 : i = pos(k)
        BY <2>1
      <3>2. data[i] = bytes[k + 1]
        <4> HIDE DEF data
        <4> QED
          BY <1>5, <3>1
      <3> QED
        BY <1>6, <3>2
    <2>2. CASE ~\E k \in 0 .. len - 1 : i = pos(k)
      BY <1>1, <2>2
    <2> QED
      BY <2>1, <2>2
  <1>8. \A k \in 0 .. len - 1 : data[Wrap(rb.head + k, N)] = bytes[k + 1]
    <2>1. \A k \in 0 .. len - 1 : k \in 0 .. len
      BY <1>0
    <2> HIDE DEF data
    <2> QED
      BY <1>3, <1>5, <2>1
  <1>9. \A i \in 0 .. N - 1 : (\A k \in 0 .. len - 1 : i # Wrap(rb.head + k, N)) => data[i] = rb.data[i]
    <2>1. \A k \in 0 .. len - 1 : k \in 0 .. len
      BY <1>0
    <2> QED
      BY <1>1, <1>3, <2>1
  <1>10. bytes \in Seq(Content)
    BY SeqMonotonic DEF Content
  <1>11. RingOK(rb.data, rb.head, rb.tail, rb.count, N, Content)
    BY DEF BufferOK, N
  <1>12. pos(len) = (rb.head + len) % N
    BY DEF pos
  <1> HIDE DEF data
  <1>13. /\ RingOK(data, (rb.head + len) % N, rb.tail, rb.count + len, N, Content)
         /\ InRing(data, rb.tail, rb.count + len, N) = InRing(rb.data, rb.tail, rb.count, N) \o bytes
    <2>1. Len(bytes) <= N - rb.count /\ Stored(rb.data, rb.head, bytes, N, Content, data)
      BY <1>1, <1>7, <1>8, <1>9 DEF len, Stored
    <2>2. /\ RingOK(data, (rb.head + Len(bytes)) % N, rb.tail, rb.count + Len(bytes), N, Content)
          /\ InRing(data, rb.tail, rb.count + Len(bytes), N) = InRing(rb.data, rb.tail, rb.count, N) \o bytes
      BY <1>0, <1>10, <1>11, <2>1, RingStore
    <2> QED
      BY <2>2 DEF len
  <1>14. /\ new.data = data /\ new.head = (rb.head + len) % N
         /\ new.tail = rb.tail /\ new.count = rb.count + len
    BY <1>2, <1>12 DEF RingRecord
  <1>15. new \in RingRecord
    <2>1. pos(len) \in Nat /\ rb.count + len \in Nat /\ rb.tail \in Nat
      BY <1>0, <1>1, <1>3
    <2> QED
      BY <1>2, <1>7, <2>1 DEF RingRecord, N
  <1> QED
    BY <1>13, <1>14, <1>15 DEF BufferOK, Held, N, new

LEMMA SkipOK ==
    ASSUME NEW rb, BufferOK(rb), NEW len \in Nat, NEW n,
           n = IF len > rb.count THEN rb.count ELSE len
    PROVE  /\ BufferOK(ring_buffer_skip(rb, len))
           /\ Held(ring_buffer_skip(rb, len)) = SubSeq(Held(rb), n + 1, Len(Held(rb)))
  <1> DEFINE new == ring_buffer_skip(rb, len)
  <1>0. RingSize \in Nat \ {0}
    BY IpcAssumption
  <1>1. rb.count \in Nat /\ n \in 0 .. rb.count /\ Len(Held(rb)) = rb.count
    BY HeldIsSeq
  <1>2. /\ new = [rb EXCEPT !.tail = (rb.tail + n) % RingSize, !.count = rb.count - n]
        /\ rb \in RingRecord
    BY DEF ring_buffer_skip, BufferOK
  <1>3. /\ RingOK(rb.data, rb.head, (rb.tail + n) % RingSize, rb.count - n, RingSize, Content)
        /\ InRing(rb.data, (rb.tail + n) % RingSize, rb.count - n, RingSize)
             = SubSeq(InRing(rb.data, rb.tail, rb.count, RingSize), n + 1, rb.count)
    BY <1>0, <1>1, RingSkip DEF BufferOK
  <1>4. new \in RingRecord
    <2>1. (rb.tail + n) % RingSize \in Nat /\ rb.count - n \in Nat
      BY <1>0, <1>3 DEF RingOK
    <2> QED
      BY <1>2, <2>1 DEF RingRecord
  <1>5. /\ new.data = rb.data /\ new.head = rb.head
        /\ new.tail = (rb.tail + n) % RingSize /\ new.count = rb.count - n
    BY <1>2 DEF RingRecord
  <1> HIDE DEF new
  <1> QED
    BY <1>1, <1>3, <1>4, <1>5 DEF BufferOK, Held, new

-----------------------------------------------------------------------------
(***************************************************************************)
(* The two tables.  A slot of the pipes keeps its own descriptors, or      *)
(* NOFD, and a ring that is in order also while the slot is unused.        *)
(***************************************************************************)
PipeRecord(p) ==
    [used : BOOLEAN, read_end : {NOFD, <<"r", p>>}, write_end : {NOFD, <<"w", p>>}, buffer : RingRecord]
PipeOK(p, e) == e \in PipeRecord(p) /\ BufferOK(e.buffer)

QueueRecord ==
    [used : BOOLEAN, messages : [0 .. QueueCap - 1 -> Seq(Byte)], head : Nat, tail : Nat, count : Nat]
QueueOK(e) ==
    e \in QueueRecord /\ RingOK(e.messages, e.head, e.tail, e.count, QueueCap, Seq(Byte))

PipesOK == /\ pipes = [p \in PipeSlot |-> pipes[p]]
           /\ \A p \in PipeSlot : PipeOK(p, pipes[p])
QueuesOK == /\ msg_queues = [q \in QueueSlot |-> msg_queues[q]]
            /\ \A q \in QueueSlot : QueueOK(msg_queues[q])

IpcInv == PipesOK /\ QueuesOK

\* What is seen of an entry of each table.
PipeShown(e) == IF e.used THEN Held(e.buffer) ELSE CLOSED
Waiting(e) == InRing(e.messages, e.tail, e.count, QueueCap)
QueueShown(e) == IF e.used THEN Waiting(e) ELSE CLOSED

LEMMA PipeIs == PipesOK => PipeContents = [x \in PipeSlot |-> PipeShown(pipes[x])]
  <1> SUFFICES ASSUME PipesOK
               PROVE  PipeContents = [x \in PipeSlot |-> PipeShown(pipes[x])]
    OBVIOUS
  <1>1. ASSUME NEW p \in PipeSlot
        PROVE  ring_buffer_peek(pipes[p].buffer, pipes[p].buffer.count) = Held(pipes[p].buffer)
    <2>1. BufferOK(pipes[p].buffer) /\ 0 \in Nat
      BY DEF PipesOK, PipeOK
    <2> QED
      BY <2>1, PeekIs
  <1> QED
    BY <1>1 DEF PipeContents, PipeShown

LEMMA QueueIs == QueueContents = [x \in QueueSlot |-> QueueShown(msg_queues[x])]
  BY DEF QueueContents, QueueShown, Waiting, InRing

\* A pipe or a queue that is open is not taken for a closed one.
LEMMA OpenPipeIs ==
    ASSUME NEW p \in PipeSlot, NEW e, PipeOK(p, e), e.used
    PROVE  PipeShown(e) = Held(e.buffer) /\ PipeShown(e) # CLOSED
  BY HeldIsSeq, IpcAssumption DEF PipeOK, PipeShown, Content

LEMMA OpenQueueIs ==
    ASSUME NEW e, QueueOK(e), e.used
    PROVE  /\ QueueShown(e) = Waiting(e) /\ QueueShown(e) # CLOSED
           /\ Waiting(e) \in Seq(Seq(Byte)) /\ Len(Waiting(e)) = e.count
  <1>1. QueueCap \in Nat \ {0} /\ CLOSED \notin Seq(Seq(Byte))
    BY IpcAssumption
  <1>2. Waiting(e) \in Seq(Seq(Byte)) /\ Len(Waiting(e)) = e.count
    BY <1>1, InRingIsSeq DEF QueueOK, Waiting
  <1> QED
    BY <1>1, <1>2 DEF QueueShown

\* An end of the pipe e.
EndOpen(e, fd) == e.used /\ (e.read_end = fd \/ e.write_end = fd)

\* A descriptor is an end and the number of its pipe.
LEMMA FdPair ==
    ASSUME NEW fd \in Fd
    PROVE  /\ fd[1] \in {"r", "w"} /\ fd[2] \in PipeSlot /\ fd = <<fd[1], fd[2]>>
           /\ fd # NOFD
  BY IpcAssumption DEF Fd, PipeSlot

\* The ends of an entry are of their kind.
LEMMA EndKinds ==
    ASSUME NEW fd \in Fd, NEW e, PipeOK(fd[2], e), EndOpen(e, fd)
    PROVE  (fd[1] = "w" <=> e.write_end = fd) /\ (fd[1] = "r" <=> e.read_end = fd)
  <1>1. e.read_end \in {NOFD, <<"r", fd[2]>>} /\ e.write_end \in {NOFD, <<"w", fd[2]>>}
    BY DEF PipeOK, PipeRecord
  <1>2. "r" # "w"
    OBVIOUS
  <1> QED
    BY <1>1, <1>2, FdPair DEF EndOpen

\* The pipe a descriptor leads to is the one of its number.
LEMMA EndsAre ==
    PipesOK => \A fd \in Fd : /\ fd \in OpenEnds <=> EndOpen(pipes[fd[2]], fd)
                              /\ \A p \in find_pipe_by_fd(fd) : p = fd[2]
                              /\ EndOpen(pipes[fd[2]], fd) => fd[2] \in find_pipe_by_fd(fd)
  <1> SUFFICES ASSUME PipesOK, NEW fd \in Fd
               PROVE  /\ fd \in OpenEnds <=> EndOpen(pipes[fd[2]], fd)
                      /\ \A p \in find_pipe_by_fd(fd) : p = fd[2]
                      /\ EndOpen(pipes[fd[2]], fd) => fd[2] \in find_pipe_by_fd(fd)
    OBVIOUS
  <1>1. ASSUME NEW p \in find_pipe_by_fd(fd) PROVE p = fd[2] /\ EndOpen(pipes[p], fd)
    <2>1. p \in PipeSlot /\ EndOpen(pipes[p], fd) /\ PipeOK(p, pipes[p])
      BY DEF find_pipe_by_fd, EndOpen, PipesOK
    <2>2. pipes[p].read_end \in {NOFD, <<"r", p>>} /\ pipes[p].write_end \in {NOFD, <<"w", p>>}
      BY <2>1 DEF PipeOK, PipeRecord
    <2>3. fd = <<"r", p>> \/ fd = <<"w", p>>
      BY <2>1, <2>2, FdPair DEF EndOpen
    <2> QED
      BY <2>1, <2>3
  <1>2. EndOpen(pipes[fd[2]], fd) => fd[2] \in find_pipe_by_fd(fd)
    BY FdPair DEF find_pipe_by_fd, EndOpen
  <1>3. fd \in OpenEnds <=> find_pipe_by_fd(fd) # {}
    BY DEF OpenEnds
  <1> QED
    BY <1>1, <1>2, <1>3

LEMMA EndsSeen == PipesOK => \A x \in Fd : x \in OpenEnds <=> EndOpen(pipes[x[2]], x)
  BY EndsAre

\* One entry of a table changes.
LEMMA PipeChange ==
    ASSUME IpcInv, NEW p \in PipeSlot, NEW e, PipeOK(p, e),
           pipes' = [pipes EXCEPT ![p] = e], UNCHANGED msg_queues
    PROVE  /\ IpcInv'
           /\ PipeContents' = [PipeContents EXCEPT ![p] = PipeShown(e)]
           /\ \A fd \in Fd : fd \in OpenEnds' <=> IF fd[2] = p THEN EndOpen(e, fd) ELSE fd \in OpenEnds
           /\ QueueContents' = QueueContents
  <1>1. PipesOK'
    BY DEF IpcInv, PipesOK
  <1>2. QueuesOK'
    BY DEF IpcInv, QueuesOK
  <1>3. PipeContents = [x \in PipeSlot |-> PipeShown(pipes[x])]
    BY PipeIs DEF IpcInv
  <1>4. (PipeContents = [x \in PipeSlot |-> PipeShown(pipes[x])])'
    BY <1>1, PipeIs, PTL
  <1>5. \A x \in PipeSlot : pipes'[x] = IF x = p THEN e ELSE pipes[x]
    BY DEF IpcInv, PipesOK
  <1>6. QueueContents' = QueueContents
    BY DEF QueueContents
  <1>7. ASSUME NEW fd \in Fd
        PROVE  fd \in OpenEnds' <=> IF fd[2] = p THEN EndOpen(e, fd) ELSE fd \in OpenEnds
    <2>1. fd \in OpenEnds <=> EndOpen(pipes[fd[2]], fd)
      BY EndsAre DEF IpcInv
    <2>2. (\A x \in Fd : x \in OpenEnds <=> EndOpen(pipes[x[2]], x))'
      BY <1>1, EndsSeen, PTL
    <2>3. fd \in OpenEnds' <=> EndOpen(pipes'[fd[2]], fd)
      BY <2>2 DEF EndOpen
    <2> QED
      BY <1>5, <2>1, <2>3, FdPair
  <1>8. PipeContents' = [PipeContents EXCEPT ![p] = PipeShown(e)]
    BY <1>3, <1>4, <1>5
  <1> QED
    BY <1>1, <1>2, <1>6, <1>7, <1>8 DEF IpcInv

\* One entry changes, but not its ends.
LEMMA EndsStay ==
    ASSUME IpcInv, NEW p \in PipeSlot, NEW e, PipeOK(p, e), e.used, pipes[p].used,
           e.read_end = pipes[p].read_end, e.write_end = pipes[p].write_end,
           pipes' = [pipes EXCEPT ![p] = e], UNCHANGED msg_queues
    PROVE  OpenEnds' = OpenEnds
  <1>1. \A fd \in Fd : fd \in OpenEnds' <=> IF fd[2] = p THEN EndOpen(e, fd) ELSE fd \in OpenEnds
    BY PipeChange
  <1>2. \A fd \in Fd : fd \in OpenEnds <=> EndOpen(pipes[fd[2]], fd)
    BY EndsAre DEF IpcInv
  <1>3. \A fd \in Fd : fd[2] = p => (EndOpen(e, fd) <=> EndOpen(pipes[p], fd))
    BY DEF EndOpen
  <1>4. \A fd \in Fd : fd \in OpenEnds' <=> fd \in OpenEnds
    BY <1>1, <1>2, <1>3
  <1>5. OpenEnds \subseteq Fd /\ OpenEnds' \subseteq Fd
    BY DEF OpenEnds
  <1> QED
    BY <1>4, <1>5

LEMMA QueueChange ==
    ASSUME IpcInv, NEW q \in QueueSlot, NEW e, QueueOK(e),
           msg_queues' = [msg_queues EXCEPT ![q] = e], UNCHANGED pipes
    PROVE  /\ IpcInv'
           /\ QueueContents' = [QueueContents EXCEPT ![q] = QueueShown(e)]
           /\ PipeContents' = PipeContents
           /\ OpenEnds' = OpenEnds
  <1>1. QueuesOK'
    BY DEF IpcInv, QueuesOK
  <1>2. PipesOK'
    BY DEF IpcInv, PipesOK
  <1>3. QueueContents = [x \in QueueSlot |-> QueueShown(msg_queues[x])]
    BY QueueIs
  <1>4. (QueueContents = [x \in QueueSlot |-> QueueShown(msg_queues[x])])'
    BY QueueIs, PTL
  <1>5. \A x \in QueueSlot : msg_queues'[x] = IF x = q THEN e ELSE msg_queues[x]
    BY DEF IpcInv, QueuesOK
  <1>6. PipeContents' = PipeContents /\ OpenEnds' = OpenEnds
    BY DEF PipeContents, OpenEnds, find_pipe_by_fd
  <1> QED
    BY <1>1, <1>2, <1>3, <1>4, <1>5, <1>6 DEF IpcInv

\* A failed call.
LEMMA FailMaps ==
    ASSUME IpcInv, Fail
    PROVE  IpcInv' /\ Abstract!Fail
  <1>1. IpcInv'
    BY DEF IpcInv, PipesOK, QueuesOK, Fail
  <1>2. PipeContents' = PipeContents /\ QueueContents' = QueueContents /\ OpenEnds' = OpenEnds
    BY DEF PipeContents, QueueContents, OpenEnds, find_pipe_by_fd, Fail
  <1> QED
    BY <1>1, <1>2 DEF Fail, Abstract!Fail

\* A descriptor that leads to a pipe is an open end of it.
LEMMA FdLeads ==
    ASSUME IpcInv, NEW fd \in Fd, NEW p \in find_pipe_by_fd(fd)
    PROVE  /\ p \in PipeSlot /\ pipes[p].used /\ PipeOK(p, pipes[p]) /\ p = fd[2]
           /\ EndOpen(pipes[p], fd) /\ fd \in OpenEnds
           /\ fd[1] = "w" <=> pipes[p].write_end = fd
           /\ fd[1] = "r" <=> pipes[p].read_end = fd
           /\ fd # NOFD
  <1>1. p \in PipeSlot /\ EndOpen(pipes[p], fd) /\ PipeOK(p, pipes[p]) /\ pipes[p].used
    BY DEF find_pipe_by_fd, EndOpen, IpcInv, PipesOK
  <1>2. p = fd[2] /\ fd \in OpenEnds
    <2>1. PipesOK
      BY DEF IpcInv
    <2> QED
      BY <1>1, <2>1, EndsAre
  <1> QED
    BY <1>1, <1>2, EndKinds, FdPair

\* An end that is open leads to a pipe, whose contents are seen.
LEMMA OpenLeads ==
    ASSUME IpcInv, NEW fd \in Fd, fd \in OpenEnds
    PROVE  fd[2] \in find_pipe_by_fd(fd) /\ Len(PipeContents[fd[2]]) = pipes[fd[2]].buffer.count
  <1>1. fd[2] \in find_pipe_by_fd(fd)
    BY EndsAre DEF IpcInv
  <1>2. fd[2] \in PipeSlot /\ pipes[fd[2]].used /\ PipeOK(fd[2], pipes[fd[2]])
    BY <1>1, FdLeads
  <1>3. PipeContents[fd[2]] = PipeShown(pipes[fd[2]])
    BY <1>2, PipeIs DEF IpcInv
  <1>4. Len(PipeContents[fd[2]]) = pipes[fd[2]].buffer.count
    BY <1>2, <1>3, OpenPipeIs, HeldIsSeq DEF PipeOK
  <1> QED
    BY <1>1, <1>4

LEMMA PipeCreateMaps ==
    ASSUME IpcInv, Calls(<<"pipe_create">>), pipe_create
    PROVE  IpcInv' /\ Abstract!CreatePipe
  <1>1. ASSUME NEW p \in PipeSlot, FirstFree(pipes, p), pipes' = [pipes EXCEPT ![p] = fresh_pipe(p)],
               result' = p, UNCHANGED msg_queues
        PROVE  IpcInv' /\ Abstract!CreatePipe
    <2> DEFINE e == fresh_pipe(p)
    <2>1. PipeOK(p, e) /\ PipeShown(e) = << >>
      BY EmptyRing DEF fresh_pipe, PipeOK, PipeRecord, PipeShown, BufferOK
    <2>2. \A fd \in Fd : fd[2] = p => EndOpen(e, fd)
      BY FdPair DEF fresh_pipe, EndOpen
    <2> HIDE DEF e
    <2>3. /\ IpcInv' /\ PipeContents' = [PipeContents EXCEPT ![p] = << >>]
          /\ QueueContents' = QueueContents
          /\ \A fd \in Fd : fd \in OpenEnds' <=> IF fd[2] = p THEN EndOpen(e, fd) ELSE fd \in OpenEnds
      <3>1. pipes' = [pipes EXCEPT ![p] = e]
        BY <1>1 DEF e
      <3>2. /\ IpcInv' /\ PipeContents' = [PipeContents EXCEPT ![p] = PipeShown(e)]
            /\ QueueContents' = QueueContents
            /\ \A fd \in Fd : fd \in OpenEnds' <=> IF fd[2] = p THEN EndOpen(e, fd) ELSE fd \in OpenEnds
        BY <1>1, <2>1, <3>1, PipeChange
      <3> QED
        BY <2>1, <3>2
    <2>4. PipeContents[p] = CLOSED
      BY <1>1 DEF PipeContents, FirstFree
    <2>5. OpenEnds' = OpenEnds \cup Abstract!Ends(p)
      <3>1. OpenEnds \subseteq Fd /\ OpenEnds' \subseteq Fd
        BY DEF OpenEnds
      <3>2. \A fd \in Fd : fd \in Abstract!Ends(p) <=> fd[2] = p
        BY FdPair DEF Abstract!Ends
      <3>3. Abstract!Ends(p) \subseteq Fd
        BY DEF Abstract!Ends, Fd
      <3> QED
        BY <2>2, <2>3, <3>1, <3>2, <3>3
    <2> QED
      BY <1>1, <2>3, <2>4, <2>5 DEF Abstract!CreatePipe, Calls
  <1>2. ASSUME \A p \in PipeSlot : pipes[p].used, Fail
        PROVE  IpcInv' /\ Abstract!CreatePipe
    <2>1. ASSUME NEW p \in PipeSlot PROVE PipeContents[p] # CLOSED
      <3>1. PipeContents[p] = PipeShown(pipes[p]) /\ PipeOK(p, pipes[p])
        BY PipeIs DEF IpcInv, PipesOK
      <3> QED
        BY <1>2, <3>1, OpenPipeIs
    <2> QED
      BY <1>2, <2>1, FailMaps DEF Abstract!CreatePipe, Calls
  <1> QED
    BY <1>1, <1>2 DEF pipe_create

LEMMA PipeWriteMaps ==
    ASSUME IpcInv, NEW fd \in Fd, NEW bytes \in Payload(RingSize),
           Calls(<<"pipe_write", fd, bytes>>), pipe_write(fd, bytes)
    PROVE  IpcInv' /\ Abstract!Write(fd, bytes)
  <1>0. bytes \in Seq(Byte) /\ Len(bytes) \in Nat /\ RingSize \in Nat
    BY IpcAssumption DEF Payload
  <1>1. ASSUME NEW p \in find_pipe_by_fd(fd), pipes[p].write_end = fd,
               has_room(pipes[p].buffer, Len(bytes)),
               pipes' = [pipes EXCEPT ![p].buffer = ring_buffer_write(@, bytes)],
               result' = OK, UNCHANGED msg_queues
        PROVE  IpcInv' /\ Abstract!Write(fd, bytes)
    <2> DEFINE rb == pipes[p].buffer
               new == ring_buffer_write(rb, bytes)
               e == [pipes[p] EXCEPT !.buffer = new]
    <2>1. /\ p \in PipeSlot /\ pipes[p].used /\ PipeOK(p, pipes[p]) /\ p = fd[2]
          /\ fd \in OpenEnds /\ fd[1] = "w"
      BY <1>1, FdLeads
    <2>3. BufferOK(rb)
      BY <2>1 DEF PipeOK
    <2>4. BufferOK(new) /\ Held(new) = Held(rb) \o bytes
      <3> HIDE DEF rb
      <3>1. has_room(rb, Len(bytes))
        BY <1>1 DEF rb
      <3> QED
        BY <1>0, <2>3, <3>1, WriteOK
    <2>5. /\ Held(rb) \in Seq(Content) /\ Len(Held(rb)) = rb.count /\ rb.count \in 0 .. RingSize
      BY <2>3, HeldIsSeq
    <2> HIDE DEF new
    <2>6. /\ PipeOK(p, e) /\ e.used /\ e.buffer = new
          /\ e.read_end = pipes[p].read_end /\ e.write_end = pipes[p].write_end
      BY <2>1, <2>4 DEF PipeOK, PipeRecord, BufferOK
    <2>7. pipes' = [pipes EXCEPT ![p] = e]
      BY <1>1 DEF new
    <2> HIDE DEF e
    <2>8. /\ IpcInv' /\ PipeContents' = [PipeContents EXCEPT ![p] = PipeShown(e)]
          /\ QueueContents' = QueueContents
      BY <1>1, <2>1, <2>6, <2>7, PipeChange
    <2>o. OpenEnds' = OpenEnds
      BY <1>1, <2>1, <2>6, <2>7, EndsStay
    <2>9. PipeContents[p] = Held(rb)
      <3>1. PipeContents[p] = PipeShown(pipes[p])
        BY <2>1, PipeIs DEF IpcInv
      <3> QED
        BY <2>1, <3>1, OpenPipeIs
    <2>10. PipeShown(e) = PipeContents[p] \o bytes
      BY <2>1, <2>4, <2>6, <2>9, OpenPipeIs
    <2>11. Len(PipeContents[p]) + Len(bytes) <= RingSize
      BY <1>0, <1>1, <2>5, <2>9 DEF has_room
    <2> QED
      BY <1>1, <2>1, <2>8, <2>o, <2>10, <2>11 DEF Abstract!Write, Abstract!CanWrite, Calls
  <1>2. ASSUME \A p \in find_pipe_by_fd(fd) :
                 pipes[p].write_end # fd \/ ~has_room(pipes[p].buffer, Len(bytes)), Fail
        PROVE  IpcInv' /\ Abstract!Write(fd, bytes)
    <2>1. ASSUME fd \in OpenEnds, fd[1] = "w", Len(PipeContents[fd[2]]) + Len(bytes) <= RingSize
          PROVE  FALSE
      <3>1. fd[2] \in find_pipe_by_fd(fd) /\ Len(PipeContents[fd[2]]) = pipes[fd[2]].buffer.count
        BY <2>1, OpenLeads
      <3>2. pipes[fd[2]].write_end = fd /\ BufferOK(pipes[fd[2]].buffer)
        BY <2>1, <3>1, FdLeads DEF PipeOK
      <3>3. pipes[fd[2]].buffer.count \in Nat
        BY <1>0, <3>2, HeldIsSeq
      <3>4. has_room(pipes[fd[2]].buffer, Len(bytes))
        BY <1>0, <2>1, <3>1, <3>3 DEF has_room
      <3> QED
        BY <1>2, <3>1, <3>2, <3>4
    <2>2. ~Abstract!CanWrite(fd, bytes)
      BY <2>1 DEF Abstract!CanWrite
    <2> QED
      BY <1>2, <2>2, FailMaps DEF Abstract!Write, Calls
  <1> QED
    BY <1>1, <1>2 DEF pipe_write

LEMMA PipeReadMaps ==
    ASSUME IpcInv, NEW fd \in Fd, NEW len \in 1 .. RingSize + 1,
           Calls(<<"pipe_read", fd, len>>), pipe_read(fd, len)
    PROVE  IpcInv' /\ Abstract!Read(fd, len)
  <1>1. ASSUME NEW p \in find_pipe_by_fd(fd), pipes[p].read_end = fd,
               result' = ring_buffer_peek(pipes[p].buffer, len),
               pipes' = [pipes EXCEPT ![p].buffer = ring_buffer_skip(@, len)], UNCHANGED msg_queues
        PROVE  IpcInv' /\ Abstract!Read(fd, len)
    <2> DEFINE rb == pipes[p].buffer
               new == ring_buffer_skip(rb, len)
               e == [pipes[p] EXCEPT !.buffer = new]
               k == IF len > rb.count THEN rb.count ELSE len
    <2>1. /\ p \in PipeSlot /\ pipes[p].used /\ PipeOK(p, pipes[p]) /\ p = fd[2]
          /\ fd \in OpenEnds /\ fd[1] = "r"
      BY <1>1, FdLeads
    <2>2. len \in Nat
      BY IpcAssumption
    <2>3. BufferOK(rb)
      BY <2>1 DEF PipeOK
    <2>4. BufferOK(new) /\ Held(new) = SubSeq(Held(rb), k + 1, Len(Held(rb)))
      <3> HIDE DEF rb
      <3> QED
        BY <2>2, <2>3, SkipOK
    <2>5. result' = SubSeq(Held(rb), 1, k) /\ Len(Held(rb)) = rb.count
      <3>1. ring_buffer_peek(rb, len) = SubSeq(Held(rb), 1, k)
        <4> HIDE DEF rb
        <4> QED
          BY <2>2, <2>3, PeekIs
      <3> QED
        BY <1>1, <2>3, <3>1, HeldIsSeq
    <2> HIDE DEF new
    <2>6. /\ PipeOK(p, e) /\ e.used /\ e.buffer = new
          /\ e.read_end = pipes[p].read_end /\ e.write_end = pipes[p].write_end
      BY <2>1, <2>4 DEF PipeOK, PipeRecord, BufferOK
    <2>7. pipes' = [pipes EXCEPT ![p] = e]
      BY <1>1 DEF new
    <2> HIDE DEF e
    <2>8. /\ IpcInv' /\ PipeContents' = [PipeContents EXCEPT ![p] = PipeShown(e)]
          /\ QueueContents' = QueueContents
      BY <1>1, <2>1, <2>6, <2>7, PipeChange
    <2>o. OpenEnds' = OpenEnds
      BY <1>1, <2>1, <2>6, <2>7, EndsStay
    <2>9. PipeContents[p] = Held(rb)
      <3>1. PipeContents[p] = PipeShown(pipes[p])
        BY <2>1, PipeIs DEF IpcInv
      <3> QED
        BY <2>1, <3>1, OpenPipeIs
    <2>10. PipeShown(e) = SubSeq(PipeContents[p], k + 1, Len(PipeContents[p]))
      BY <2>1, <2>4, <2>6, <2>9, OpenPipeIs
    <2>11. k = IF len > Len(PipeContents[p]) THEN Len(PipeContents[p]) ELSE len
      BY <2>5, <2>9
    <2> HIDE DEF k, rb
    <2> QED
      BY <1>1, <2>1, <2>5, <2>8, <2>o, <2>9, <2>10, <2>11 DEF Abstract!Read, Calls
  <1>2. ASSUME \A p \in find_pipe_by_fd(fd) : pipes[p].read_end # fd, Fail
        PROVE  IpcInv' /\ Abstract!Read(fd, len)
    <2>1. ~(fd \in OpenEnds /\ fd[1] = "r")
      BY <1>2, OpenLeads, FdLeads
    <2> QED
      BY <1>2, <2>1, FailMaps DEF Abstract!Read, Calls
  <1> QED
    BY <1>1, <1>2 DEF pipe_read

LEMMA PipeCloseMaps ==
    ASSUME IpcInv, NEW fd \in Fd, Calls(<<"pipe_close", fd>>), pipe_close(fd)
    PROVE  IpcInv' /\ Abstract!Close(fd)
  <1>1. ASSUME find_pipe_by_fd(fd) = {}, Fail
        PROVE  IpcInv' /\ Abstract!Close(fd)
    BY <1>1, FailMaps DEF Abstract!Close, Calls, OpenEnds
  <1>2. ASSUME NEW p \in find_pipe_by_fd(fd),
            LET Shut(end) == IF end = fd THEN NOFD ELSE end
                r == Shut(pipes[p].read_end)
                w == Shut(pipes[p].write_end)
            IN  /\ pipes' = [pipes EXCEPT ![p].read_end = r, ![p].write_end = w,
                                          ![p].used = ~(r = NOFD /\ w = NOFD)]
                /\ result' = OK /\ UNCHANGED msg_queues
        PROVE  IpcInv' /\ Abstract!Close(fd)
    <2>2. /\ p \in PipeSlot /\ pipes[p].used /\ PipeOK(p, pipes[p]) /\ p = fd[2]
          /\ EndOpen(pipes[p], fd) /\ fd \in OpenEnds /\ fd # NOFD
      BY FdLeads
    <2> DEFINE r == IF pipes[p].read_end = fd THEN NOFD ELSE pipes[p].read_end
               w == IF pipes[p].write_end = fd THEN NOFD ELSE pipes[p].write_end
               e == [pipes[p] EXCEPT !.read_end = r, !.write_end = w, !.used = ~(r = NOFD /\ w = NOFD)]
    <2>3. pipes' = [pipes EXCEPT ![p] = e] /\ result' = OK /\ UNCHANGED msg_queues
      BY <1>2, <2>2 DEF IpcInv, PipesOK
    <2>4. /\ PipeOK(p, e) /\ e.buffer = pipes[p].buffer /\ e.read_end = r /\ e.write_end = w
          /\ e.used <=> ~(r = NOFD /\ w = NOFD)
      BY <2>2 DEF PipeOK, PipeRecord
    <2>a. \A x \in Fd : x # NOFD
      BY FdPair
    <2>b. \A x \in Fd : x[2] = p => (EndOpen(e, x) <=> EndOpen(pipes[p], x) /\ x # fd)
      <3> HIDE DEF e
      <3> QED
        BY <2>2, <2>4, <2>a DEF EndOpen
    <2>c. e.used <=> \E x \in Abstract!Ends(p) : EndOpen(e, x)
      <3>1. r \in {NOFD, <<"r", p>>} /\ w \in {NOFD, <<"w", p>>}
        BY <2>2 DEF PipeOK, PipeRecord
      <3> HIDE DEF e, r, w
      <3>2. Abstract!Ends(p) = {<<"r", p>>, <<"w", p>>} /\ Abstract!Ends(p) \subseteq Fd
        BY <2>2 DEF Abstract!Ends, Fd
      <3> QED
        BY <2>4, <2>a, <3>1, <3>2 DEF EndOpen
    <2> HIDE DEF e
    <2>5. /\ IpcInv' /\ PipeContents' = [PipeContents EXCEPT ![p] = PipeShown(e)]
          /\ QueueContents' = QueueContents
          /\ \A x \in Fd : x \in OpenEnds' <=> IF x[2] = p THEN EndOpen(e, x) ELSE x \in OpenEnds
      BY <2>2, <2>3, <2>4, PipeChange
    <2>d. \A x \in Fd : x \in OpenEnds <=> EndOpen(pipes[x[2]], x)
      BY EndsAre DEF IpcInv
    <2>e. OpenEnds' = OpenEnds \ {fd}
      <3>1. OpenEnds \subseteq Fd /\ OpenEnds' \subseteq Fd
        BY DEF OpenEnds
      <3> QED
        BY <2>2, <2>5, <2>b, <2>d, <3>1
    <2>f. e.used <=> OpenEnds' \cap Abstract!Ends(p) # {}
      <3>1. \A x \in Abstract!Ends(p) : x \in Fd /\ x[2] = p
        BY <2>2 DEF Abstract!Ends, Fd
      <3> QED
        BY <2>5, <2>c, <3>1
    <2>6. PipeContents[p] = Held(pipes[p].buffer) /\ PipeContents = [x \in PipeSlot |-> PipeContents[x]]
      <3>1. PipeContents[p] = PipeShown(pipes[p])
        BY <2>2, PipeIs DEF IpcInv
      <3>2. PipeContents = [x \in PipeSlot |-> PipeContents[x]]
        BY DEF PipeContents
      <3> QED
        BY <2>2, <3>1, <3>2, OpenPipeIs
    <2>7. CASE e.used
      <3>1. PipeShown(e) = PipeContents[p]
        BY <2>2, <2>4, <2>6, <2>7, OpenPipeIs
      <3>2. PipeContents' = PipeContents
        BY <2>2, <2>5, <2>6, <3>1
      <3> QED
        BY <2>2, <2>3, <2>5, <2>7, <2>e, <2>f, <3>2 DEF Abstract!Close, Calls
    <2>8. CASE ~e.used
      <3>1. PipeShown(e) = CLOSED
        BY <2>8 DEF PipeShown
      <3> QED
        BY <2>2, <2>3, <2>5, <2>8, <2>e, <2>f, <3>1 DEF Abstract!Close, Calls
    <2> QED
      BY <2>7, <2>8
  <1> QED
    BY <1>1, <1>2 DEF pipe_close

LEMMA QueueCreateMaps ==
    ASSUME IpcInv, Calls(<<"msgq_create">>), msgq_create
    PROVE  IpcInv' /\ Abstract!CreateQueue
  <1>0. QueueCap \in Nat \ {0}
    BY IpcAssumption
  <1>1. ASSUME NEW q \in QueueSlot, FirstFree(msg_queues, q),
               msg_queues' = [msg_queues EXCEPT ![q].used = TRUE, ![q].head = 0,
                                                ![q].tail = 0, ![q].count = 0],
               result' = q, UNCHANGED pipes
        PROVE  IpcInv' /\ Abstract!CreateQueue
    <2> DEFINE e == [msg_queues[q] EXCEPT !.used = TRUE, !.head = 0, !.tail = 0, !.count = 0]
    <2>1. QueueOK(msg_queues[q])
      BY DEF IpcInv, QueuesOK
    <2>2. e \in QueueRecord /\ e.used /\ e.count = 0 /\ e.tail = 0 /\ e.head = 0
          /\ e.messages = msg_queues[q].messages
      BY <2>1 DEF QueueOK, QueueRecord
    <2>3. msg_queues' = [msg_queues EXCEPT ![q] = e]
      BY <1>1 DEF IpcInv, QueuesOK
    <2> HIDE DEF e
    <2>4. QueueOK(e)
      BY <1>0, <2>1, <2>2 DEF QueueOK, RingOK, Wrap
    <2>5. QueueShown(e) = << >>
      <3>1. QueueShown(e) = Waiting(e) /\ Waiting(e) \in Seq(Seq(Byte)) /\ Len(Waiting(e)) = 0
        BY <2>2, <2>4, OpenQueueIs
      <3> QED
        BY <3>1, EmptySeq
    <2>a. /\ IpcInv' /\ QueueContents' = [QueueContents EXCEPT ![q] = QueueShown(e)]
          /\ PipeContents' = PipeContents /\ OpenEnds' = OpenEnds
      BY <1>1, <2>3, <2>4, QueueChange
    <2>6. /\ IpcInv' /\ QueueContents' = [QueueContents EXCEPT ![q] = << >>]
          /\ PipeContents' = PipeContents /\ OpenEnds' = OpenEnds
      BY <2>a, <2>5
    <2>7. QueueContents[q] = CLOSED
      BY <1>1 DEF QueueContents, FirstFree
    <2> QED
      BY <1>1, <2>6, <2>7 DEF Abstract!CreateQueue, Calls
  <1>2. ASSUME \A q \in QueueSlot : msg_queues[q].used, Fail
        PROVE  IpcInv' /\ Abstract!CreateQueue
    <2>1. ASSUME NEW q \in QueueSlot PROVE QueueContents[q] # CLOSED
      <3>1. QueueContents[q] = QueueShown(msg_queues[q]) /\ QueueOK(msg_queues[q])
        BY QueueIs DEF IpcInv, QueuesOK
      <3> QED
        BY <1>2, <3>1, OpenQueueIs
    <2> QED
      BY <1>2, <2>1, FailMaps DEF Abstract!CreateQueue, Calls
  <1> QED
    BY <1>1, <1>2 DEF msgq_create

\* What is seen of a queue.
LEMMA QueueSeen ==
    ASSUME IpcInv, NEW q \in QueueSlot
    PROVE  /\ QueueContents[q] # CLOSED <=> msg_queues[q].used
           /\ msg_queues[q].used => Len(QueueContents[q]) = msg_queues[q].count
           /\ msg_queues[q].count \in Nat
  <1>1. QueueContents[q] = QueueShown(msg_queues[q]) /\ QueueOK(msg_queues[q])
    BY QueueIs DEF IpcInv, QueuesOK
  <1>2. msg_queues[q].count \in Nat
    BY <1>1 DEF QueueOK, QueueRecord
  <1>3. CASE msg_queues[q].used
    BY <1>1, <1>2, <1>3, OpenQueueIs
  <1>4. CASE ~msg_queues[q].used
    BY <1>1, <1>2, <1>4 DEF QueueShown
  <1> QED
    BY <1>3, <1>4

LEMMA SendMaps ==
    ASSUME IpcInv, NEW q \in QueueSlot, NEW msg \in Payload(MaxMsgSize + 1),
           Calls(<<"msgq_send", q, msg>>), msgq_send(q, msg)
    PROVE  IpcInv' /\ Abstract!Send(q, msg)
  <1> DEFINE mq == msg_queues[q]
             N == QueueCap
             messages == [mq.messages EXCEPT ![mq.head] = msg]
             e == [mq EXCEPT !.messages = messages, !.head = (mq.head + 1) % N, !.count = mq.count + 1]
  <1>0. N \in Nat \ {0} /\ MaxMsgSize \in Nat
    BY IpcAssumption
  <1>1. CASE ~(mq.used /\ Len(msg) <= MaxMsgSize /\ mq.count < N)
    <2>1. Fail
      BY <1>1 DEF msgq_send
    <2>2. ~Abstract!CanSend(q, msg)
      BY <1>1, QueueSeen DEF Abstract!CanSend
    <2> QED
      BY <2>1, <2>2, FailMaps DEF Abstract!Send, Calls
  <1>2. CASE mq.used /\ Len(msg) <= MaxMsgSize /\ mq.count < N
    <2>1. /\ mq.used /\ Len(msg) <= MaxMsgSize /\ mq.count < N
          /\ msg_queues' = [msg_queues EXCEPT ![q].messages[mq.head] = msg,
                                              ![q].head = (@ + 1) % N, ![q].count = @ + 1]
          /\ result' = OK /\ UNCHANGED pipes
      BY <1>2 DEF msgq_send
    <2>2. QueueOK(mq)
      BY DEF IpcInv, QueuesOK
    <2>3. /\ mq.messages \in [0 .. N - 1 -> Seq(Byte)] /\ mq.head \in 0 .. N - 1
          /\ mq.tail \in 0 .. N - 1 /\ mq.count \in 0 .. N
          /\ RingOK(mq.messages, mq.head, mq.tail, mq.count, N, Seq(Byte))
      BY <2>2 DEF QueueOK, RingOK
    <2>4. msg \in Seq(Byte) /\ <<msg>> \in Seq(Seq(Byte)) /\ Len(<<msg>>) = 1 /\ <<msg>>[1] = msg
      BY <1>0 DEF Payload
    <2>5. messages \in [0 .. N - 1 -> Seq(Byte)] /\ Stored(mq.messages, mq.head, <<msg>>, N, Seq(Byte), messages)
      <3>1. \A k \in 0 .. Len(<<msg>>) - 1 : k = 0
        BY <2>4
      <3>2. Wrap(mq.head + 0, N) = mq.head
        BY <1>0, <2>3 DEF Wrap
      <3>3. messages \in [0 .. N - 1 -> Seq(Byte)]
        BY <2>3, <2>4
      <3>4. 0 \in 0 .. Len(<<msg>>) - 1
        BY <2>4
      <3>5. messages[mq.head] = msg /\ \A i \in 0 .. N - 1 : i # mq.head => messages[i] = mq.messages[i]
        BY <2>3
      <3>6. <<msg>>[0 + 1] = msg
        OBVIOUS
      <3> HIDE DEF messages, mq
      <3>7. \A k \in 0 .. Len(<<msg>>) - 1 : messages[Wrap(mq.head + k, N)] = <<msg>>[k + 1]
        BY <3>1, <3>2, <3>5, <3>6
      <3>8. \A i \in 0 .. N - 1 : (\A k \in 0 .. Len(<<msg>>) - 1 : i # Wrap(mq.head + k, N))
                                      => messages[i] = mq.messages[i]
        BY <3>2, <3>4, <3>5
      <3> QED
        BY <3>3, <3>7, <3>8 DEF Stored
    <2> HIDE DEF messages
    <2>6. /\ RingOK(messages, (mq.head + 1) % N, mq.tail, mq.count + 1, N, Seq(Byte))
          /\ InRing(messages, mq.tail, mq.count + 1, N) = InRing(mq.messages, mq.tail, mq.count, N) \o <<msg>>
      <3>1. Len(<<msg>>) <= N - mq.count
        BY <1>0, <2>1, <2>3, <2>4
      <3> DEFINE V == Seq(Byte)
                 one == <<msg>>
      <3>a. /\ N \in Nat \ {0} /\ one \in Seq(V) /\ Len(one) <= N - mq.count
            /\ RingOK(mq.messages, mq.head, mq.tail, mq.count, N, V)
            /\ Stored(mq.messages, mq.head, one, N, V, messages)
        BY <1>0, <2>3, <2>4, <2>5, <3>1
      <3> HIDE DEF mq, N, V, one
      <3>b. /\ RingOK(messages, (mq.head + Len(one)) % N, mq.tail, mq.count + Len(one), N, V)
            /\ InRing(messages, mq.tail, mq.count + Len(one), N) = InRing(mq.messages, mq.tail, mq.count, N) \o one
        BY <3>a, RingStore
      <3>2. /\ RingOK(messages, (mq.head + Len(<<msg>>)) % N, mq.tail, mq.count + Len(<<msg>>), N, Seq(Byte))
            /\ InRing(messages, mq.tail, mq.count + Len(<<msg>>), N) = InRing(mq.messages, mq.tail, mq.count, N) \o <<msg>>
        BY <3>b DEF V, one
      <3> QED
        BY <2>4, <3>2
    <2>7. msg_queues' = [msg_queues EXCEPT ![q] = e]
      BY <2>1, <2>2 DEF IpcInv, QueuesOK, messages, QueueOK, QueueRecord
    <2>8. /\ e \in QueueRecord /\ e.used /\ e.messages = messages /\ e.head = (mq.head + 1) % N
          /\ e.tail = mq.tail /\ e.count = mq.count + 1
      <3>1. (mq.head + 1) % N \in Nat /\ mq.count + 1 \in Nat
        <4> DEFINE h == (mq.head + 1) % N
                   c == mq.count + 1
        <4>1. RingOK(messages, h, mq.tail, c, N, Seq(Byte))
          BY <2>6
        <4> HIDE DEF h, c
        <4>2. h \in 0 .. N - 1 /\ c \in 0 .. N
          BY <4>1 DEF RingOK
        <4>3. h \in Nat /\ c \in Nat
          BY <1>0, <4>2
        <4> QED
          BY <4>3 DEF h, c
      <3>2. mq \in QueueRecord
        BY <2>2 DEF QueueOK
      <3> HIDE DEF mq
      <3> QED
        BY <2>1, <2>5, <3>1, <3>2 DEF QueueRecord
    <2> HIDE DEF e
    <2>9. QueueOK(e)
      BY <2>6, <2>8 DEF QueueOK
    <2>10. /\ IpcInv' /\ QueueContents' = [QueueContents EXCEPT ![q] = QueueShown(e)]
           /\ PipeContents' = PipeContents /\ OpenEnds' = OpenEnds
      BY <2>1, <2>7, <2>9, QueueChange
    <2>11. /\ QueueContents[q] = Waiting(mq) /\ QueueContents[q] # CLOSED
           /\ Waiting(mq) \in Seq(Seq(Byte)) /\ Len(Waiting(mq)) = mq.count
      <3>1. QueueContents[q] = QueueShown(mq)
        BY QueueIs
      <3> QED
        BY <2>1, <2>2, <3>1, OpenQueueIs
    <2>12. QueueShown(e) = Append(QueueContents[q], msg)
      <3>1. QueueShown(e) = Waiting(e)
        BY <2>8, <2>9, OpenQueueIs
      <3>2. Waiting(e) = Waiting(mq) \o <<msg>>
        BY <2>6, <2>8 DEF Waiting
      <3> QED
        BY <2>4, <2>11, <3>1, <3>2, AppendIsConcat
    <2>13. Abstract!CanSend(q, msg)
      BY <2>1, <2>11 DEF Abstract!CanSend
    <2> QED
      BY <2>1, <2>10, <2>12, <2>13 DEF Abstract!Send, Calls
  <1> QED
    BY <1>1, <1>2

LEMMA ReceiveMaps ==
    ASSUME IpcInv, NEW q \in QueueSlot, NEW max \in 1 .. MaxMsgSize,
           Calls(<<"msgq_recv", q, max>>), msgq_recv(q, max)
    PROVE  IpcInv' /\ Abstract!Receive(q, max)
  <1> DEFINE mq == msg_queues[q]
             N == QueueCap
             e == [mq EXCEPT !.tail = (mq.tail + 1) % N, !.count = mq.count - 1]
             msg == mq.messages[mq.tail]
  <1>0. N \in Nat \ {0} /\ MaxMsgSize \in Nat
    BY IpcAssumption
  <1>1. CASE ~(mq.used /\ mq.count > 0)
    <2>1. Fail
      BY <1>1 DEF msgq_recv
    <2>2. ~Abstract!CanReceive(q)
      <3>1. CASE ~mq.used
        BY <3>1, QueueSeen DEF Abstract!CanReceive
      <3>2. CASE mq.used /\ mq.count = 0
        <4>1. QueueContents[q] = QueueShown(mq) /\ QueueOK(mq)
          BY QueueIs DEF IpcInv, QueuesOK
        <4>2. QueueContents[q] \in Seq(Seq(Byte)) /\ Len(QueueContents[q]) = 0
          BY <3>2, <4>1, OpenQueueIs
        <4>3. QueueContents[q] = << >>
          BY <4>2, EmptySeq
        <4> QED
          BY <4>3 DEF Abstract!CanReceive
      <3> QED
        BY <1>1, <3>1, <3>2, QueueSeen
    <2> QED
      BY <2>1, <2>2, FailMaps DEF Abstract!Receive, Calls
  <1>2. CASE mq.used /\ mq.count > 0
    <2>1. /\ mq.used /\ mq.count > 0
          /\ msg_queues' = [msg_queues EXCEPT ![q].tail = (@ + 1) % N, ![q].count = @ - 1]
          /\ result' = SubSeq(msg, 1, IF Len(msg) > max THEN max ELSE Len(msg)) /\ UNCHANGED pipes
      BY <1>2 DEF msgq_recv
    <2>2. QueueOK(mq)
      BY DEF IpcInv, QueuesOK
    <2>3. /\ mq.messages \in [0 .. N - 1 -> Seq(Byte)] /\ mq.head \in 0 .. N - 1
          /\ mq.tail \in 0 .. N - 1 /\ mq.count \in 1 .. N
          /\ RingOK(mq.messages, mq.head, mq.tail, mq.count, N, Seq(Byte))
      BY <2>1, <2>2 DEF QueueOK, RingOK
    <2>4. msg_queues' = [msg_queues EXCEPT ![q] = e]
      BY <2>1, <2>2 DEF IpcInv, QueuesOK, QueueOK, QueueRecord
    <2>5. /\ RingOK(mq.messages, mq.head, (mq.tail + 1) % N, mq.count - 1, N, Seq(Byte))
          /\ InRing(mq.messages, (mq.tail + 1) % N, mq.count - 1, N)
               = SubSeq(InRing(mq.messages, mq.tail, mq.count, N), 2, mq.count)
      <3>1. 1 \in 0 .. mq.count /\ 1 + 1 = 2
        BY <2>3
      <3> DEFINE V == Seq(Byte)
      <3>a. N \in Nat \ {0} /\ RingOK(mq.messages, mq.head, mq.tail, mq.count, N, V)
        BY <1>0, <2>3
      <3> HIDE DEF mq, N, V
      <3>b. RingOK(mq.messages, mq.head, (mq.tail + 1) % N, mq.count - 1, N, V)
            /\ InRing(mq.messages, (mq.tail + 1) % N, mq.count - 1, N)
               = SubSeq(InRing(mq.messages, mq.tail, mq.count, N), 1 + 1, mq.count)
        BY <3>a, <3>1, RingSkip
      <3>2. InRing(mq.messages, (mq.tail + 1) % N, mq.count - 1, N)
               = SubSeq(InRing(mq.messages, mq.tail, mq.count, N), 1 + 1, mq.count)
            /\ RingOK(mq.messages, mq.head, (mq.tail + 1) % N, mq.count - 1, N, Seq(Byte))
        BY <3>b DEF V
      <3> QED
        BY <3>1, <3>2
    <2>6. /\ e \in QueueRecord /\ e.used /\ e.messages = mq.messages /\ e.head = mq.head
          /\ e.tail = (mq.tail + 1) % N /\ e.count = mq.count - 1
      <3>1. (mq.tail + 1) % N \in Nat /\ mq.count - 1 \in Nat
        BY <1>0, <2>3, <2>5 DEF RingOK
      <3>2. mq \in QueueRecord
        BY <2>2 DEF QueueOK
      <3> HIDE DEF mq
      <3> QED
        BY <2>1, <3>1, <3>2 DEF QueueRecord
    <2> HIDE DEF e
    <2>7. QueueOK(e)
      BY <2>5, <2>6 DEF QueueOK
    <2>8. /\ IpcInv' /\ QueueContents' = [QueueContents EXCEPT ![q] = QueueShown(e)]
          /\ PipeContents' = PipeContents /\ OpenEnds' = OpenEnds
      BY <2>1, <2>4, <2>7, QueueChange
    <2>9. /\ QueueContents[q] = Waiting(mq) /\ QueueContents[q] # CLOSED
          /\ Waiting(mq) \in Seq(Seq(Byte)) /\ Len(Waiting(mq)) = mq.count
          /\ QueueShown(e) = Waiting(e)
      <3>1. QueueContents[q] = QueueShown(mq)
        BY QueueIs
      <3> QED
        BY <2>1, <2>2, <2>6, <2>7, <3>1, OpenQueueIs
    <2>10. Waiting(mq) # << >> /\ Head(Waiting(mq)) = msg
      <3>1. Waiting(mq)[1] = mq.messages[Wrap(mq.tail + 1 - 1, N)]
        <4>1. \A k \in 1 .. mq.count : InRing(mq.messages, mq.tail, mq.count, N)[k] = mq.messages[Wrap(mq.tail + k - 1, N)]
          <5> DEFINE V == Seq(Byte)
          <5>a. N \in Nat \ {0} /\ RingOK(mq.messages, mq.head, mq.tail, mq.count, N, V)
            BY <1>0, <2>3
          <5> HIDE DEF mq, N, V
          <5> QED
            BY <5>a, InRingIsSeq
        <4>2. 1 \in 1 .. mq.count
          BY <2>3
        <4> QED
          BY <4>1, <4>2 DEF Waiting
      <3>2. Wrap(mq.tail + 1 - 1, N) = mq.tail
        BY <1>0, <2>3 DEF Wrap
      <3>3. Waiting(mq) # << >>
        BY <2>3, <2>9
      <3> HIDE DEF mq
      <3> QED
        BY <2>9, <3>1, <3>2, <3>3 DEF msg
    <2>11. QueueShown(e) = Tail(QueueContents[q])
      <3>1. Waiting(e) = SubSeq(Waiting(mq), 2, Len(Waiting(mq)))
        BY <2>5, <2>6, <2>9 DEF Waiting
      <3> QED
        BY <2>9, <2>10, <3>1, TailIsSubSeq
    <2> HIDE DEF mq, msg
    <2>12. Abstract!CanReceive(q)
      BY <2>9, <2>10 DEF Abstract!CanReceive
    <2> QED
      BY <2>1, <2>8, <2>9, <2>10, <2>11, <2>12 DEF Abstract!Receive, Calls
  <1> QED
    BY <1>1, <1>2

LEMMA DestroyMaps ==
    ASSUME IpcInv, NEW q \in QueueSlot, Calls(<<"msgq_destroy", q>>), msgq_destroy(q)
    PROVE  IpcInv' /\ Abstract!DestroyQueue(q)
  <1> DEFINE e == [msg_queues[q] EXCEPT !.used = FALSE]
  <1>1. QueueOK(e) /\ ~e.used
    BY DEF IpcInv, QueuesOK, QueueOK, QueueRecord
  <1>2. msg_queues' = [msg_queues EXCEPT ![q] = e] /\ UNCHANGED pipes /\ result' = OK
    BY DEF msgq_destroy
  <1> HIDE DEF e
  <1>3. /\ IpcInv' /\ QueueContents' = [QueueContents EXCEPT ![q] = QueueShown(e)]
        /\ PipeContents' = PipeContents /\ OpenEnds' = OpenEnds
    BY <1>1, <1>2, QueueChange
  <1> QED
    BY <1>1, <1>2, <1>3 DEF Abstract!DestroyQueue, QueueShown, Calls

LEMMA IpcStart == IpcInit => IpcInv /\ Abstract!Init
  <1> SUFFICES ASSUME IpcInit PROVE IpcInv /\ Abstract!Init
    OBVIOUS
  <1>0. QueueCap \in Nat \ {0}
    BY IpcAssumption
  <1>1. PipesOK
    BY EmptyRing DEF IpcInit, PipesOK, PipeOK, PipeRecord, BufferOK
  <1>2. QueuesOK
    <2>1. [i \in 0 .. QueueCap - 1 |-> << >>] \in [0 .. QueueCap - 1 -> Seq(Byte)]
      OBVIOUS
    <2> DEFINE e == [used |-> FALSE, messages |-> [i \in 0 .. QueueCap - 1 |-> << >>],
                     head |-> 0, tail |-> 0, count |-> 0]
    <2>2. msg_queues = [q \in QueueSlot |-> e]
      BY DEF IpcInit
    <2>3. e \in QueueRecord
      BY <2>1 DEF QueueRecord
    <2>4. RingOK(e.messages, e.head, e.tail, e.count, QueueCap, Seq(Byte))
      BY <1>0, <2>1 DEF RingOK, Wrap
    <2> HIDE DEF e
    <2>5. QueueOK(e)
      BY <2>3, <2>4 DEF QueueOK
    <2> QED
      BY <2>2, <2>5 DEF QueuesOK
  <1>3. /\ PipeContents = [p \in PipeSlot |-> CLOSED] /\ QueueContents = [q \in QueueSlot |-> CLOSED]
        /\ OpenEnds = {} /\ call = <<"init">> /\ result = OK
    BY DEF IpcInit, PipeContents, QueueContents, OpenEnds, find_pipe_by_fd
  <1> QED
    BY <1>1, <1>2, <1>3 DEF IpcInv, Abstract!Init

LEMMA IpcMaps ==
    ASSUME IpcInv, [IpcNext]_ipcVars
    PROVE  IpcInv' /\ [Abstract!Next]_(Abstract!vars)
  <1>1. CASE UNCHANGED ipcVars
    <2>1. IpcInv'
      BY <1>1 DEF ipcVars, IpcInv, PipesOK, QueuesOK
    <2>2. UNCHANGED Abstract!vars
      BY <1>1 DEF ipcVars, Abstract!vars, PipeContents, QueueContents, OpenEnds, find_pipe_by_fd
    <2> QED
      BY <2>1, <2>2
  <1>2. CASE IpcNext
    <2>0. /\ Abstract!End = Fd /\ Payload(RingSize) = Abstract!Bytes(RingSize)
          /\ Payload(MaxMsgSize + 1) = Abstract!Bytes(MaxMsgSize + 1)
      BY DEF Abstract!End, Fd, Payload, Abstract!Bytes
    <2>1. ASSUME Calls(<<"pipe_create">>), pipe_create PROVE IpcInv' /\ Abstract!Next
      BY <2>1, PipeCreateMaps DEF Abstract!Next
    <2>2. ASSUME NEW fd \in Fd, NEW bytes \in Payload(RingSize),
                 Calls(<<"pipe_write", fd, bytes>>), pipe_write(fd, bytes)
          PROVE  IpcInv' /\ Abstract!Next
      BY <2>0, <2>2, PipeWriteMaps DEF Abstract!Next
    <2>3. ASSUME NEW fd \in Fd, NEW len \in 1 .. RingSize + 1,
                 Calls(<<"pipe_read", fd, len>>), pipe_read(fd, len)
          PROVE  IpcInv' /\ Abstract!Next
      BY <2>0, <2>3, PipeReadMaps DEF Abstract!Next
    <2>4. ASSUME NEW fd \in Fd, Calls(<<"pipe_close", fd>>), pipe_close(fd)
          PROVE  IpcInv' /\ Abstract!Next
      BY <2>0, <2>4, PipeCloseMaps DEF Abstract!Next
    <2>5. ASSUME Calls(<<"msgq_create">>), msgq_create PROVE IpcInv' /\ Abstract!Next
      BY <2>5, QueueCreateMaps DEF Abstract!Next
    <2>6. ASSUME NEW q \in QueueSlot, NEW msg \in Payload(MaxMsgSize + 1),
                 Calls(<<"msgq_send", q, msg>>), msgq_send(q, msg)
          PROVE  IpcInv' /\ Abstract!Next
      BY <2>0, <2>6, SendMaps DEF Abstract!Next
    <2>7. ASSUME NEW q \in QueueSlot, NEW max \in 1 .. MaxMsgSize,
                 Calls(<<"msgq_recv", q, max>>), msgq_recv(q, max)
          PROVE  IpcInv' /\ Abstract!Next
      BY <2>7, ReceiveMaps DEF Abstract!Next
    <2>8. ASSUME NEW q \in QueueSlot, Calls(<<"msgq_destroy", q>>), msgq_destroy(q)
          PROVE  IpcInv' /\ Abstract!Next
      BY <2>8, DestroyMaps DEF Abstract!Next
    <2> QED
      BY <1>2, <2>1, <2>2, <2>3, <2>4, <2>5, <2>6, <2>7, <2>8 DEF IpcNext
  <1> QED
    BY <1>1, <1>2

(***************************************************************************)
(* The rings of ring_buffer.c and ipc.c, of any size and in tables of any  *)
(* size, implement bounded queues: what goes in is what the caller passed, *)
(* what comes out is the oldest, nothing is lost, doubled or reordered     *)
(* over wrap-around and reuse of slots, data moves only through open ends  *)
(* of the right kind, and a call fails exactly when it cannot be served.   *)
(***************************************************************************)
THEOREM RingsAreQueues == IpcSpec => RefinesIpcService
  BY IpcStart, IpcMaps, PTL DEF IpcSpec, RefinesIpcService, Abstract!Spec

-----------------------------------------------------------------------------
(***************************************************************************)
(* FAT32 on the ATA driver, for any well formed volume, any offset and     *)
(* length, and any order of the disk's errors, timeouts and late answers.  *)
(*                                                                         *)
(* The reference is Contents, the units of the root's chain of clusters;   *)
(* the chain is a recursive function of the disk and Clusters what it ends *)
(* in.  FatInv relates each place of a call to it: the i-th cluster is     *)
(* being loaded and k of its sectors are there (Loads), what was found in  *)
(* the first m clusters is what the same operation finds in the first m    *)
(* clusters of the reference (Progress), and a call that has ended has the *)
(* reference's answer (CallDone).  A call with an error is still a prefix  *)
(* of it (Marred).  Nothing is claimed once an answer went astray or a     *)
(* failed FAT read was followed.                                           *)
(***************************************************************************)

-----------------------------------------------------------------------------
(***************************************************************************)
(* Induction, for sets of numbers, and the loops of the code.              *)
(***************************************************************************)
\* A set of numbers that is not empty has a least one.
LEMMA LeastNumber ==
    ASSUME NEW S, S \subseteq Nat, S # {}
    PROVE  \E m \in S : \A k \in S : m <= k
  <1> DEFINE T == {0 .. k : k \in S}
             R == StrictSubsetOrdering(Nat)
             F == FiniteSubsetsOf(Nat)
  <1>1. IsWellFoundedOn(R, F)
    BY FS_StrictSubsetOrderingWellFounded
  <1>2. T \subseteq F /\ T # {}
    <2>1. \A k \in S : IsFiniteSet(0 .. k) /\ (0 .. k) \in SUBSET Nat
      BY FS_Interval
    <2> QED
      BY <2>1 DEF FiniteSubsetsOf
  <1>3. PICK x \in T : \A y \in T : <<y, x>> \notin R
    <2> HIDE DEF T, R, F
    <2> QED
      BY <1>1, <1>2, WFMin
  <1>4. PICK m \in S : x = 0 .. m
    BY <1>3
  <1>5. ASSUME NEW k \in S, ~(m <= k)
        PROVE  FALSE
    <2>1. (0 .. k) \in T /\ (0 .. k) \in SUBSET Nat /\ (0 .. m) \in SUBSET Nat
      OBVIOUS
    <2>2. (0 .. k) \subseteq (0 .. m) /\ m \in 0 .. m /\ m \notin 0 .. k
      BY <1>5
    <2>3. <<0 .. k, 0 .. m>> \in R
      BY <2>1, <2>2 DEF StrictSubsetOrdering
    <2> QED
      BY <1>3, <1>4, <2>1, <2>3
  <1> QED
    BY <1>5

LEMMA Induction ==
    ASSUME NEW S, 0 \in S, \A k \in Nat : k \in S => k + 1 \in S
    PROVE  Nat \subseteq S
  <1> DEFINE T == Nat \ S
  <1> SUFFICES ASSUME T # {}
               PROVE  FALSE
    OBVIOUS
  <1>1. T \subseteq Nat
    OBVIOUS
  <1>2. PICK m \in T : \A k \in T : m <= k
    <2> HIDE DEF T
    <2> QED
      BY <1>1, LeastNumber
  <1>3. m # 0 /\ m - 1 \in Nat /\ ~(m <= m - 1) /\ (m - 1) + 1 = m
    OBVIOUS
  <1>4. m - 1 \notin T
    BY <1>2, <1>3
  <1> QED
    BY <1>3, <1>4

\* f is a run of a loop of len turns, from base, whose k-th turn is F[<<k, _>>].
IsRun(f, len, base, F) ==
    f = [k \in 0 .. len |-> IF k = 0 THEN base ELSE F[<<k, f[k - 1]>>]]

\* Every loop with a step function has a run, and it stays in A.
LEMMA RunExists ==
    ASSUME NEW len \in Nat, NEW A, NEW base \in A, NEW F \in [(1 .. len) \X A -> A]
    PROVE  \E f \in [0 .. len -> A] : IsRun(f, len, base, F)
  <1> DEFINE S == {m \in Nat : m <= len => \E f \in [0 .. m -> A] : IsRun(f, m, base, F)}
  <1>1. 0 \in S
    <2> DEFINE f == [k \in 0 .. 0 |-> base]
    <2>1. f \in [0 .. 0 -> A] /\ f = [k \in 0 .. 0 |-> IF k = 0 THEN base ELSE F[<<k, f[k - 1]>>]]
      OBVIOUS
    <2> QED
      BY <2>1 DEF IsRun
  <1>2. ASSUME NEW m \in Nat, m \in S PROVE m + 1 \in S
    <2> SUFFICES ASSUME m + 1 <= len
                 PROVE  \E g \in [0 .. m + 1 -> A] : IsRun(g, m + 1, base, F)
      OBVIOUS
    <2>1. PICK f \in [0 .. m -> A] : IsRun(f, m, base, F)
      BY <1>2
    <2> DEFINE g == [k \in 0 .. m + 1 |-> IF k <= m THEN f[k] ELSE F[<<m + 1, f[m]>>]]
               h == [k \in 0 .. m + 1 |-> IF k = 0 THEN base ELSE F[<<k, g[k - 1]>>]]
    <2>2. \A k \in 0 .. m : f[k] = IF k = 0 THEN base ELSE F[<<k, f[k - 1]>>]
      BY <2>1 DEF IsRun
    <2>3. ASSUME NEW k \in 0 .. m + 1 PROVE g[k] = h[k]
      <3>1. CASE k = 0
        <4>1. k <= m /\ k \in 0 .. m
          BY <3>1
        <4>2. g[k] = f[k] /\ h[k] = base
          BY <3>1, <4>1
        <4> QED
          BY <2>2, <3>1, <4>1, <4>2
      <3>2. CASE k \in 1 .. m
        <4>1. k - 1 \in 0 .. m /\ k \in 0 .. m /\ k # 0 /\ k <= m /\ k - 1 <= m /\ k - 1 \in 0 .. m + 1
          BY <3>2
        <4>2. g[k] = f[k] /\ g[k - 1] = f[k - 1]
          BY <4>1
        <4> QED
          BY <2>2, <4>1, <4>2
      <3>3. CASE k = m + 1
        <4>1. k - 1 = m /\ ~(k <= m) /\ k # 0 /\ m \in 0 .. m + 1 /\ m <= m
          BY <3>3
        <4>2. g[k] = F[<<k, f[m]>>] /\ g[m] = f[m]
          BY <3>3, <4>1
        <4> QED
          BY <4>1, <4>2
      <3> QED
        BY <3>1, <3>2, <3>3
    <2>4. g = h
      <3>1. g = [k \in 0 .. m + 1 |-> g[k]] /\ h = [k \in 0 .. m + 1 |-> h[k]]
        OBVIOUS
      <3> HIDE DEF g, h
      <3> QED
        BY <2>3, <3>1
    <2>5. \A k \in 0 .. m + 1 : g[k] \in A
      <3>1. m + 1 \in 1 .. len /\ m \in 0 .. m /\ f[m] \in A
        OBVIOUS
      <3>2. F[<<m + 1, f[m]>>] \in A
        BY <3>1
      <3> QED
        BY <3>2
    <2>6. g \in [0 .. m + 1 -> A]
      <3>1. DOMAIN g = 0 .. m + 1 /\ g = [k \in DOMAIN g |-> g[k]]
        OBVIOUS
      <3> HIDE DEF g
      <3> QED
        BY <2>5, <3>1
    <2> QED
      BY <2>4, <2>6 DEF IsRun
  <1>3. Nat \subseteq S
    <2> HIDE DEF S
    <2> QED
      BY <1>1, <1>2, Induction
  <1> QED
    BY <1>3

-----------------------------------------------------------------------------
(***************************************************************************)
(* Parts of sequences.  Part(s, a, b) is what follows the first a members, *)
(* up to the b-th.                                                         *)
(***************************************************************************)

Part(s, a, b) == SubSeq(s, a + 1, b)

IsPart(A, p, s, a, n) ==
    /\ p \in Seq(A) /\ Len(p) = n
    /\ \A i \in 1 .. n : p[i] = s[a + i]

LEMMA PartIs ==
    ASSUME NEW A, NEW s \in Seq(A), NEW a \in Nat, NEW b \in Nat, a <= b, b <= Len(s)
    PROVE  IsPart(A, Part(s, a, b), s, a, b - a)
  <1>1. Part(s, a, b) \in Seq(A) /\ Len(Part(s, a, b)) = b - a
    BY DEF Part
  <1>2. ASSUME NEW i \in 1 .. b - a PROVE Part(s, a, b)[i] = s[a + i]
    <2>1. SubSeq(s, a + 1, b)[i] = s[(a + 1) + i - 1]
      OBVIOUS
    <2>2. (a + 1) + i - 1 = a + i
      OBVIOUS
    <2> QED
      BY <2>1, <2>2 DEF Part
  <1> QED
    BY <1>1, <1>2 DEF IsPart

LEMMA SameSeq ==
    ASSUME NEW A, NEW s \in Seq(A), NEW t \in Seq(A), Len(s) = Len(t), \A i \in 1 .. Len(s) : s[i] = t[i]
    PROVE  s = t
  OBVIOUS

LEMMA SamePart ==
    ASSUME NEW A, NEW s, NEW a, NEW n, NEW p, NEW q, IsPart(A, p, s, a, n), IsPart(A, q, s, a, n)
    PROVE  p = q
  <1>1. p \in Seq(A) /\ q \in Seq(A) /\ Len(p) = Len(q) /\ \A i \in 1 .. Len(p) : p[i] = q[i]
    BY DEF IsPart
  <1> QED
    BY <1>1, SameSeq

\* Two sequences one after the other.
IsJoin(A, j, l, r) ==
    /\ j \in Seq(A) /\ Len(j) = Len(l) + Len(r)
    /\ \A i \in 1 .. Len(l) : j[i] = l[i]
    /\ \A i \in 1 .. Len(r) : j[Len(l) + i] = r[i]

LEMMA JoinIs ==
    ASSUME NEW A, NEW l \in Seq(A), NEW r \in Seq(A)
    PROVE  IsJoin(A, l \o r, l, r)
  <1>1. l \o r \in Seq(A) /\ Len(l \o r) = Len(l) + Len(r)
    OBVIOUS
  <1>2. ASSUME NEW i \in 1 .. Len(l) PROVE (l \o r)[i] = l[i]
    OBVIOUS
  <1>3. ASSUME NEW i \in 1 .. Len(r) PROVE (l \o r)[Len(l) + i] = r[i]
    <2>1. Len(l) \in Nat /\ Len(r) \in Nat
      OBVIOUS
    <2>2. Len(l) + i \in 1 .. Len(l) + Len(r) /\ Len(l) + i > Len(l) /\ (Len(l) + i) - Len(l) = i
      BY <2>1
    <2>3. (l \o r)[Len(l) + i] = r[(Len(l) + i) - Len(l)]
      BY <2>2
    <2> QED
      BY <2>2, <2>3
  <1> QED
    BY <1>1, <1>2, <1>3 DEF IsJoin

LEMMA PartsMeet ==
    ASSUME NEW A, NEW s, NEW a \in Nat, NEW m \in Nat, NEW n \in Nat, NEW l, NEW r,
           IsPart(A, l, s, a, m), IsPart(A, r, s, a + m, n)
    PROVE  IsPart(A, l \o r, s, a, m + n)
  <1>1. l \in Seq(A) /\ r \in Seq(A) /\ Len(l) = m /\ Len(r) = n
    BY DEF IsPart
  <1>2. /\ l \o r \in Seq(A) /\ Len(l \o r) = m + n
        /\ \A i \in 1 .. m : (l \o r)[i] = l[i]
        /\ \A i \in 1 .. n : (l \o r)[m + i] = r[i]
    <2>1. IsJoin(A, l \o r, l, r)
      BY <1>1, JoinIs
    <2> QED
      BY <1>1, <2>1 DEF IsJoin
  <1>3. ASSUME NEW i \in 1 .. m + n PROVE (l \o r)[i] = s[a + i]
    <2>1. CASE i <= m
      <3>1. i \in 1 .. m
        BY <2>1
      <3> QED
        BY <1>2, <3>1 DEF IsPart
    <2>2. CASE ~(i <= m)
      <3> DEFINE j == i - m
      <3>1. j \in 1 .. n /\ m + j = i /\ (a + m) + j = a + i
        BY <2>2
      <3>2. (l \o r)[m + j] = s[(a + m) + j]
        <4> HIDE DEF j
        <4> QED
          BY <1>2, <3>1 DEF IsPart
      <3> QED
        BY <3>1, <3>2
    <2> QED
      BY <2>1, <2>2
  <1> QED
    BY <1>2, <1>3 DEF IsPart

LEMMA PartsJoin ==
    ASSUME NEW A, NEW s \in Seq(A), NEW a \in Nat, NEW b \in Nat, NEW c \in Nat, a <= b, b <= c, c <= Len(s)
    PROVE  Part(s, a, b) \o Part(s, b, c) = Part(s, a, c)
  <1>0. Len(s) \in Nat /\ b <= Len(s) /\ a <= c /\ b - a \in Nat /\ c - b \in Nat /\ a + (b - a) = b
        /\ (b - a) + (c - b) = c - a
    OBVIOUS
  <1>1. IsPart(A, Part(s, a, b), s, a, b - a)
    BY <1>0, PartIs
  <1>2. IsPart(A, Part(s, b, c), s, b, c - b)
    BY <1>0, PartIs
  <1>3. IsPart(A, Part(s, a, c), s, a, c - a)
    BY <1>0, PartIs
  <1> DEFINE m == b - a
             n == c - b
             l == Part(s, a, b)
             r == Part(s, b, c)
  <1>4. m \in Nat /\ n \in Nat /\ a + m = b /\ m + n = c - a /\ IsPart(A, l, s, a, m) /\ IsPart(A, r, s, a + m, n)
    BY <1>0, <1>1, <1>2
  <1> HIDE DEF m, n, l, r
  <1>5. IsPart(A, l \o r, s, a, m + n)
    BY <1>4, PartsMeet
  <1>6. IsPart(A, l \o r, s, a, c - a)
    BY <1>4, <1>5
  <1>7. l \o r = Part(s, a, c)
    BY <1>3, <1>6, SamePart
  <1> QED
    BY <1>7 DEF l, r

\* The same as one formula.
Joins(s, a, b, c) == Part(s, a, b) \o Part(s, b, c) = Part(s, a, c)

LEMMA PartsAreJoined ==
    ASSUME NEW A, NEW s \in Seq(A), NEW a \in Nat, NEW b \in Nat, NEW c \in Nat, a <= b, b <= c, c <= Len(s)
    PROVE  Joins(s, a, b, c)
  BY PartsJoin DEF Joins

\* A part of a part.
LEMMA PartOfPart ==
    ASSUME NEW A, NEW s \in Seq(A), NEW a \in Nat, NEW b \in Nat, a <= b, b <= Len(s),
           NEW x \in Nat, NEW y \in Nat, x <= y, y <= b - a
    PROVE  Part(Part(s, a, b), x, y) = Part(s, a + x, a + y)
  <1> DEFINE p == Part(s, a, b)
             l == Part(p, x, y)
             r == Part(s, a + x, a + y)
             c == a + x
             d == a + y
  <1>0. Len(s) \in Nat /\ c \in Nat /\ d \in Nat /\ c <= d /\ d <= Len(s) /\ d - c = y - x
    OBVIOUS
  <1>1. IsPart(A, p, s, a, b - a)
    BY PartIs
  <1> HIDE DEF p
  <1>2. p \in Seq(A) /\ Len(p) = b - a /\ \A i \in 1 .. b - a : p[i] = s[a + i]
    BY <1>1 DEF IsPart
  <1>3. IsPart(A, l, p, x, y - x)
    BY <1>2, PartIs
  <1>4. IsPart(A, r, s, c, y - x)
    <2>1. IsPart(A, Part(s, c, d), s, c, d - c)
      <3> HIDE DEF c, d
      <3> QED
        BY <1>0, PartIs
    <2> QED
      BY <1>0, <2>1
  <1> HIDE DEF l, r
  <1>5. IsPart(A, l, s, c, y - x)
    <2>1. l \in Seq(A) /\ Len(l) = y - x /\ \A i \in 1 .. y - x : l[i] = p[x + i]
      BY <1>3 DEF IsPart
    <2>2. ASSUME NEW i \in 1 .. y - x PROVE p[x + i] = s[c + i]
      <3>1. x + i \in 1 .. b - a /\ a + (x + i) = c + i
        OBVIOUS
      <3> QED
        BY <1>2, <3>1
    <2> QED
      BY <2>1, <2>2 DEF IsPart
  <1>6. l = r
    BY <1>4, <1>5, SamePart
  <1> QED
    BY <1>6 DEF p, l, r

LEMMA PartWhole ==
    ASSUME NEW A, NEW s \in Seq(A)
    PROVE  Part(s, 0, Len(s)) = s
  <1>1. Len(s) \in Nat /\ 0 <= Len(s) /\ Len(s) - 0 = Len(s)
    OBVIOUS
  <1>2. IsPart(A, Part(s, 0, Len(s)), s, 0, Len(s))
    <2>1. IsPart(A, Part(s, 0, Len(s)), s, 0, Len(s) - 0)
      BY <1>1, PartIs
    <2> QED
      BY <1>1, <2>1
  <1>3. IsPart(A, s, s, 0, Len(s))
    BY DEF IsPart
  <1> QED
    BY <1>2, <1>3, SamePart

-----------------------------------------------------------------------------
(***************************************************************************)
(* The entries of a directory, cluster by cluster.                         *)
(***************************************************************************)
IsKept(f, s, X) ==
    f = [n \in 0 .. Len(s) |-> IF n = 0 THEN << >>
                               ELSE IF s[n] \in X THEN f[n - 1] ELSE Append(f[n - 1], s[n])]

Keeping(A, f, s, X) ==
    /\ f \in [0 .. Len(s) -> Seq(A)] /\ f[0] = << >>
    /\ \A n \in 1 .. Len(s) : f[n] = IF s[n] \in X THEN f[n - 1] ELSE Append(f[n - 1], s[n])

\* A solution of the recursion, if it has one, has the types of its steps.
LEMMA KeptSolved ==
    ASSUME NEW A, NEW s \in Seq(A), NEW X, NEW f, IsKept(f, s, X)
    PROVE  Keeping(A, f, s, X)
  <1> DEFINE len == Len(s)
             S == {n \in Nat : n <= len => f[n] \in Seq(A)}
  <1>1. len \in Nat
    OBVIOUS
  <1> DEFINE turn(n) == IF n = 0 THEN << >> ELSE IF s[n] \in X THEN f[n - 1] ELSE Append(f[n - 1], s[n])
  <1>2. DOMAIN f = 0 .. len /\ f[0] = << >>
        /\ \A n \in 1 .. len : f[n] = IF s[n] \in X THEN f[n - 1] ELSE Append(f[n - 1], s[n])
    <2>1. f = [n \in 0 .. len |-> turn(n)]
      BY DEF IsKept
    <2> HIDE DEF turn, len
    <2>2. DOMAIN f = 0 .. len /\ \A n \in 0 .. len : f[n] = turn(n)
      BY <2>1
    <2>3. 0 \in 0 .. len /\ \A n \in 1 .. len : n \in 0 .. len /\ n # 0
      BY <1>1
    <2> QED
      BY <2>2, <2>3 DEF turn
  <1>3. 0 \in S
    <2>1. << >> \in Seq(A)
      OBVIOUS
    <2> QED
      BY <1>2, <2>1
  <1>4. ASSUME NEW n \in Nat, n \in S PROVE n + 1 \in S
    <2> SUFFICES ASSUME n + 1 <= len PROVE f[n + 1] \in Seq(A)
      OBVIOUS
    <2>1. f[n] \in Seq(A) /\ n + 1 \in 1 .. len /\ (n + 1) - 1 = n
      BY <1>1, <1>4
    <2>2. s[n + 1] \in A
      BY <2>1
    <2>3. Append(f[n], s[n + 1]) \in Seq(A)
      BY <2>1, <2>2
    <2>4. f[n + 1] = IF s[n + 1] \in X THEN f[n] ELSE Append(f[n], s[n + 1])
      BY <1>2, <2>1
    <2> QED
      BY <2>1, <2>3, <2>4
  <1>5. Nat \subseteq S
    <2> HIDE DEF S
    <2> QED
      BY <1>3, <1>4, Induction
  <1>6. f = [n \in 0 .. len |-> f[n]] /\ \A n \in 0 .. len : f[n] \in Seq(A)
    <2>1. f = [n \in 0 .. len |-> f[n]]
      BY <1>1, <1>2 DEF IsKept
    <2> QED
      BY <1>1, <1>5, <2>1
  <1>7. f \in [0 .. len -> Seq(A)]
    BY <1>6
  <1> QED
    BY <1>2, <1>7 DEF Keeping

LEMMA WithoutIs ==
    ASSUME NEW A, NEW s \in Seq(A), NEW X
    PROVE  \E f : Keeping(A, f, s, X) /\ Without(s, X) = f[Len(s)]
  <1> DEFINE B == Seq(A)
             len == Len(s)
             F == [x \in (1 .. len) \X B |-> IF s[x[1]] \in X THEN x[2] ELSE Append(x[2], s[x[1]])]
  <1>1. F \in [(1 .. len) \X B -> B]
    <2>1. \A x \in (1 .. len) \X B : (IF s[x[1]] \in X THEN x[2] ELSE Append(x[2], s[x[1]])) \in B
      OBVIOUS
    <2> HIDE DEF B, len
    <2> QED
      BY <2>1
  <1>2. len \in Nat /\ << >> \in B
    OBVIOUS
  <1>3. PICK f \in [0 .. len -> B] : IsRun(f, len, << >>, F)
    <2> HIDE DEF B, len, F
    <2> QED
      BY <1>1, <1>2, RunExists
  <1>4. \A n \in 0 .. len : n # 0 => F[<<n, f[n - 1]>>] = IF s[n] \in X THEN f[n - 1] ELSE Append(f[n - 1], s[n])
    <2> SUFFICES ASSUME NEW n \in 0 .. len, n # 0
                 PROVE  F[<<n, f[n - 1]>>] = IF s[n] \in X THEN f[n - 1] ELSE Append(f[n - 1], s[n])
      OBVIOUS
    <2>1. n - 1 \in 0 .. len /\ n \in 1 .. len
      BY <1>2
    <2>2. <<n, f[n - 1]>> \in (1 .. len) \X B
      BY <2>1
    <2> HIDE DEF B, len
    <2> QED
      BY <2>2
  <1>5. IsKept(f, s, X)
    <2> HIDE DEF F
    <2> QED
      BY <1>3, <1>4 DEF IsRun, IsKept
  <1> DEFINE c == CHOOSE g : IsKept(g, s, X)
  <1>6. IsKept(c, s, X)
    BY <1>5
  <1>7. Without(s, X) = c[Len(s)]
    BY DEF Without, IsKept
  <1> HIDE DEF c
  <1>8. Keeping(A, c, s, X)
    BY <1>6, KeptSolved
  <1> QED
    BY <1>7, <1>8

LEMMA AppendJoin ==
    ASSUME NEW A, NEW s \in Seq(A), NEW t \in Seq(A), NEW e \in A
    PROVE  s \o Append(t, e) = Append(s \o t, e)
  <1> DEFINE l == s \o Append(t, e)
             r == Append(s \o t, e)
  <1>1. Append(t, e) \in Seq(A) /\ Len(Append(t, e)) = Len(t) + 1 /\ Append(t, e)[Len(t) + 1] = e
        /\ (\A i \in 1 .. Len(t) : Append(t, e)[i] = t[i]) /\ Len(s) \in Nat /\ Len(t) \in Nat
    OBVIOUS
  <1>2. IsJoin(A, s \o t, s, t)
    BY JoinIs
  <1> DEFINE u == Append(t, e)
  <1>3. IsJoin(A, l, s, u)
    <2> HIDE DEF u
    <2>1. u \in Seq(A)
      BY <1>1 DEF u
    <2> QED
      BY <2>1, JoinIs DEF u
  <1>4. l \in Seq(A) /\ Len(l) = Len(s) + (Len(t) + 1)
    BY <1>1, <1>3 DEF IsJoin
  <1>5. r \in Seq(A) /\ Len(r) = (Len(s) + Len(t)) + 1 /\ r[(Len(s) + Len(t)) + 1] = e
        /\ \A i \in 1 .. Len(s) + Len(t) : r[i] = (s \o t)[i]
    <2> DEFINE v == s \o t
    <2>1. v \in Seq(A) /\ Len(v) = Len(s) + Len(t)
      BY <1>2 DEF IsJoin
    <2> HIDE DEF v
    <2>2. Append(v, e) \in Seq(A) /\ Len(Append(v, e)) = Len(v) + 1 /\ Append(v, e)[Len(v) + 1] = e
          /\ \A i \in 1 .. Len(v) : Append(v, e)[i] = v[i]
      BY <2>1
    <2> QED
      BY <2>1, <2>2 DEF v
  <1>6. ASSUME NEW i \in 1 .. Len(s) + (Len(t) + 1) PROVE l[i] = r[i]
    <2>1. CASE i <= Len(s)
      <3>1. i \in 1 .. Len(s) /\ i \in 1 .. Len(s) + Len(t)
        BY <1>1, <2>1
      <3>2. l[i] = s[i] /\ (s \o t)[i] = s[i]
        BY <1>2, <1>3, <3>1 DEF IsJoin
      <3> QED
        BY <1>5, <3>1, <3>2
    <2>2. CASE i > Len(s)
      <3> DEFINE j == i - Len(s)
      <3>1. j \in 1 .. Len(t) + 1 /\ i = Len(s) + j
        BY <1>1, <2>2
      <3> HIDE DEF j
      <3>2. l[Len(s) + j] = Append(t, e)[j]
        BY <1>1, <1>3, <3>1 DEF IsJoin
      <3>3. CASE j = Len(t) + 1
        <4>1. Len(s) + j = (Len(s) + Len(t)) + 1
          BY <1>1, <3>3
        <4> QED
          BY <1>1, <1>5, <3>1, <3>2, <3>3, <4>1
      <3>4. CASE j # Len(t) + 1
        <4>1. j \in 1 .. Len(t) /\ Len(s) + j \in 1 .. Len(s) + Len(t)
          BY <1>1, <3>1, <3>4
        <4>2. (s \o t)[Len(s) + j] = t[j]
          BY <1>2, <4>1 DEF IsJoin
        <4>3. r[Len(s) + j] = t[j]
          BY <1>5, <4>1, <4>2
        <4> QED
          BY <1>1, <3>1, <3>2, <4>1, <4>3
      <3> QED
        BY <3>3, <3>4
    <2> QED
      BY <1>1, <2>1, <2>2
  <1> HIDE DEF l, r
  <1>7. Len(l) = Len(r) /\ \A i \in 1 .. Len(l) : l[i] = r[i]
    BY <1>1, <1>4, <1>5, <1>6
  <1>8. l = r
    BY <1>4, <1>5, <1>7, SameSeq
  <1> QED
    BY <1>8 DEF l, r

\* Leaving members out of two sequences, one after the other.
LEMMA WithoutJoin ==
    ASSUME NEW A, NEW s \in Seq(A), NEW t \in Seq(A), NEW X
    PROVE  Without(s \o t, X) = Without(s, X) \o Without(t, X)
  <1>1. PICK g : Keeping(A, g, s, X) /\ Without(s, X) = g[Len(s)]
    BY WithoutIs
  <1>2. PICK h : Keeping(A, h, t, X) /\ Without(t, X) = h[Len(t)]
    BY WithoutIs
  <1>3. IsJoin(A, s \o t, s, t)
    BY JoinIs
  <1> DEFINE w == s \o t
             m == Len(s)
             n == Len(t)
  <1>4. w \in Seq(A) /\ Len(w) = m + n /\ m \in Nat /\ n \in Nat
        /\ (\A i \in 1 .. m : w[i] = s[i]) /\ (\A i \in 1 .. n : w[m + i] = t[i])
    BY <1>3 DEF IsJoin
  <1>5. PICK f : Keeping(A, f, w, X) /\ Without(w, X) = f[Len(w)]
    <2> HIDE DEF w
    <2> QED
      BY <1>4, WithoutIs
  <1> HIDE DEF w
  <1>6. f[0] = << >> /\ \A i \in 1 .. m + n : f[i] = IF w[i] \in X THEN f[i - 1] ELSE Append(f[i - 1], w[i])
    BY <1>4, <1>5 DEF Keeping
  <1>7. g[0] = << >> /\ (\A i \in 1 .. m : g[i] = IF s[i] \in X THEN g[i - 1] ELSE Append(g[i - 1], s[i]))
        /\ \A i \in 0 .. m : g[i] \in Seq(A)
    BY <1>1, <1>4 DEF Keeping
  <1>8. h[0] = << >> /\ (\A i \in 1 .. n : h[i] = IF t[i] \in X THEN h[i - 1] ELSE Append(h[i - 1], t[i]))
        /\ \A i \in 0 .. n : h[i] \in Seq(A)
    BY <1>2, <1>4 DEF Keeping
  <1> DEFINE S == {i \in Nat : i <= m => f[i] = g[i]}
             G(i) == f[m + i] = g[m] \o h[i]
             T == {i \in Nat : i <= n => G(i)}
  <1>9. Nat \subseteq S
    <2>1. 0 \in S
      BY <1>6, <1>7
    <2>2. ASSUME NEW i \in Nat, i \in S PROVE i + 1 \in S
      <3> SUFFICES ASSUME i + 1 <= m PROVE f[i + 1] = g[i + 1]
        OBVIOUS
      <3>1. i + 1 \in 1 .. m /\ i + 1 \in 1 .. m + n /\ (i + 1) - 1 = i /\ f[i] = g[i]
        BY <1>4, <2>2
      <3> QED
        BY <1>4, <1>6, <1>7, <3>1
    <2> HIDE DEF S
    <2> QED
      BY <2>1, <2>2, Induction
  <1>10. f[m] = g[m] /\ g[m] \in Seq(A)
    BY <1>4, <1>7, <1>9
  <1>11. Nat \subseteq T
    <2>1. 0 \in T
      <3>1. g[m] \o << >> = g[m] /\ m + 0 = m
        BY <1>4, <1>10
      <3> QED
        BY <1>8, <1>10, <3>1
    <2>2. ASSUME NEW i \in Nat, i \in T PROVE i + 1 \in T
      <3> HIDE DEF G
      <3> SUFFICES ASSUME i + 1 <= n PROVE G(i + 1)
        OBVIOUS
      <3>1. i + 1 \in 1 .. n /\ m + (i + 1) \in 1 .. m + n /\ (m + (i + 1)) - 1 = m + i /\ (i + 1) - 1 = i
            /\ i \in 0 .. n
        BY <1>4
      <3>0. G(i)
        BY <1>4, <2>2, <3>1
      <3>2. f[m + i] = g[m] \o h[i] /\ h[i] \in Seq(A)
        BY <1>8, <3>0, <3>1 DEF G
      <3>3. w[m + (i + 1)] = t[i + 1] /\ t[i + 1] \in A
        BY <1>4, <3>1
      <3>4. f[m + (i + 1)] = IF t[i + 1] \in X THEN g[m] \o h[i] ELSE Append(g[m] \o h[i], t[i + 1])
        BY <1>6, <3>1, <3>2, <3>3
      <3>5. h[i + 1] = IF t[i + 1] \in X THEN h[i] ELSE Append(h[i], t[i + 1])
        BY <1>8, <3>1
      <3>6. g[m] \o Append(h[i], t[i + 1]) = Append(g[m] \o h[i], t[i + 1])
        <4> DEFINE a == g[m]
                   b == h[i]
                   e == t[i + 1]
        <4>1. a \in Seq(A) /\ b \in Seq(A) /\ e \in A
          BY <1>10, <3>2, <3>3
        <4> HIDE DEF a, b, e
        <4>2. a \o Append(b, e) = Append(a \o b, e)
          BY <4>1, AppendJoin
        <4> QED
          BY <4>2 DEF a, b, e
      <3> QED
        BY <3>4, <3>5, <3>6 DEF G
    <2> HIDE DEF T
    <2> QED
      BY <2>1, <2>2, Induction
  <1>12. f[m + n] = g[m] \o h[n]
    <2> HIDE DEF G
    <2>1. G(n)
      BY <1>4, <1>11
    <2> QED
      BY <2>1 DEF G
  <1> QED
    BY <1>1, <1>2, <1>4, <1>5, <1>12 DEF w

\* The same as one formula.
KeptApart(s, t, X) == Without(s \o t, X) = Without(s, X) \o Without(t, X)

LEMMA WithoutParts ==
    ASSUME NEW A, NEW s \in Seq(A), NEW t \in Seq(A), NEW X
    PROVE  KeptApart(s, t, X)
  BY WithoutJoin DEF KeptApart

LEMMA WithoutType ==
    ASSUME NEW A, NEW s \in Seq(A), NEW X
    PROVE  Without(s, X) \in Seq(A)
  <1>1. PICK f : Keeping(A, f, s, X) /\ Without(s, X) = f[Len(s)]
    BY WithoutIs
  <1>2. Len(s) \in 0 .. Len(s)
    OBVIOUS
  <1> QED
    BY <1>1, <1>2 DEF Keeping

\* What is kept was there.
LEMMA WithoutRange ==
    ASSUME NEW A, NEW s \in Seq(A), NEW X
    PROVE  \A i \in DOMAIN Without(s, X) : \E j \in DOMAIN s : Without(s, X)[i] = s[j]
  <1>1. PICK f : Keeping(A, f, s, X) /\ Without(s, X) = f[Len(s)]
    BY WithoutIs
  <1> DEFINE G(n) == \A i \in DOMAIN f[n] : \E j \in 1 .. n : f[n][i] = s[j]
             S == {n \in Nat : n <= Len(s) => G(n)}
  <1>2. Len(s) \in Nat /\ DOMAIN s = 1 .. Len(s) /\ f[0] = << >> /\ (\A n \in 0 .. Len(s) : f[n] \in Seq(A))
        /\ \A n \in 1 .. Len(s) : f[n] = IF s[n] \in X THEN f[n - 1] ELSE Append(f[n - 1], s[n])
    <2>1. Len(s) \in Nat /\ DOMAIN s = 1 .. Len(s)
      OBVIOUS
    <2>2. f[0] = << >> /\ \A n \in 0 .. Len(s) : f[n] \in Seq(A)
      BY <1>1 DEF Keeping
    <2>3. \A n \in 1 .. Len(s) : f[n] = IF s[n] \in X THEN f[n - 1] ELSE Append(f[n - 1], s[n])
      BY <1>1 DEF Keeping
    <2> QED
      BY <2>1, <2>2, <2>3
  <1>3. 0 \in S
    <2>1. DOMAIN << >> = {}
      OBVIOUS
    <2> QED
      BY <1>2, <2>1
  <1>4. ASSUME NEW n \in Nat, n \in S PROVE n + 1 \in S
    <2> SUFFICES ASSUME n + 1 <= Len(s) PROVE G(n + 1)
      OBVIOUS
    <2>0. Len(s) \in Nat
      OBVIOUS
    <2>1. n + 1 \in 1 .. Len(s) /\ (n + 1) - 1 = n /\ n \in 0 .. Len(s)
      BY <2>0
    <2>2. G(n) /\ f[n] \in Seq(A) /\ f[n + 1] = IF s[n + 1] \in X THEN f[n] ELSE Append(f[n], s[n + 1])
      BY <1>2, <1>4, <2>1
    <2>3. CASE s[n + 1] \in X
      <3>1. f[n + 1] = f[n]
        BY <2>2, <2>3
      <3>2. \A j \in 1 .. n : j \in 1 .. n + 1
        OBVIOUS
      <3> QED
        BY <2>2, <3>1, <3>2
    <2>4. CASE s[n + 1] \notin X
      <3>1. f[n + 1] = Append(f[n], s[n + 1])
        BY <2>2, <2>4
      <3> SUFFICES ASSUME NEW i \in DOMAIN f[n + 1] PROVE \E j \in 1 .. n + 1 : f[n + 1][i] = s[j]
        OBVIOUS
      <3>2. (i \in DOMAIN f[n] /\ f[n + 1][i] = f[n][i]) \/ f[n + 1][i] = s[n + 1]
        <4> DEFINE a == f[n]
                   e == s[n + 1]
        <4>1. a \in Seq(A)
          BY <2>2
        <4> HIDE DEF a, e
        <4>2. \A k \in DOMAIN Append(a, e) : (k \in DOMAIN a /\ Append(a, e)[k] = a[k]) \/ Append(a, e)[k] = e
          BY <4>1
        <4> QED
          BY <3>1, <4>2 DEF a, e
      <3>3. CASE i \in DOMAIN f[n] /\ f[n + 1][i] = f[n][i]
        <4>1. PICK j \in 1 .. n : f[n][i] = s[j]
          BY <2>2, <3>3
        <4>2. j \in 1 .. n + 1
          OBVIOUS
        <4> QED
          BY <3>3, <4>1, <4>2
      <3>4. CASE f[n + 1][i] = s[n + 1]
        <4>1. n + 1 \in 1 .. n + 1
          OBVIOUS
        <4> QED
          BY <3>4, <4>1
      <3> QED
        BY <3>2, <3>3, <3>4
    <2> QED
      BY <2>3, <2>4
  <1>5. Nat \subseteq S
    <2> HIDE DEF S
    <2> QED
      BY <1>3, <1>4, Induction
  <1> HIDE DEF G
  <1>6. G(Len(s))
    BY <1>2, <1>5
  <1> QED
    BY <1>1, <1>2, <1>6 DEF G

LEMMA BeforeFirst ==
    ASSUME NEW A, NEW s \in Seq(A), NEW m \in 1 .. Len(s), s[m] = 0, \A i \in 1 .. m - 1 : s[i] # 0
    PROVE  BeforeEnd(s) = Part(s, 0, m - 1)
  <1> DEFINE ends == {i \in DOMAIN s : s[i] = 0}
  <1>1. DOMAIN s = 1 .. Len(s) /\ Len(s) \in Nat
    OBVIOUS
  <1>2. m \in ends /\ \A j \in ends : m <= j
    BY <1>1
  <1>3. \A i \in ends : (\A j \in ends : i <= j) => i = m
    <2> SUFFICES ASSUME NEW i \in ends, \A j \in ends : i <= j PROVE i = m
      OBVIOUS
    <2>1. i \in Nat /\ m \in Nat /\ i <= m /\ m <= i
      BY <1>1, <1>2
    <2> QED
      BY <2>1
  <1> DEFINE P(i) == i \in ends /\ \A j \in ends : i <= j
  <1>4. (CHOOSE i : P(i)) = m
    <2>1. P(m) /\ \A i : P(i) => i = m
      BY <1>2, <1>3
    <2> HIDE DEF P
    <2> QED
      BY <2>1
  <1>5. (CHOOSE i \in ends : \A j \in ends : i <= j) = m
    BY <1>4
  <1>6. ends # {}
    BY <1>2
  <1>7. 0 + 1 = 1
    OBVIOUS
  <1> QED
    BY <1>5, <1>6, <1>7 DEF BeforeEnd, Part

LEMMA FirstEnd ==
    ASSUME NEW A, NEW s \in Seq(A), Ends(s)
    PROVE  \E m \in 1 .. Len(s) : s[m] = 0 /\ \A i \in 1 .. m - 1 : s[i] # 0
  <1> DEFINE ends == {i \in DOMAIN s : s[i] = 0}
  <1>1. DOMAIN s = 1 .. Len(s) /\ Len(s) \in Nat
    OBVIOUS
  <1>2. ends \subseteq Nat /\ ends # {}
    BY <1>1 DEF Ends
  <1>3. PICK m \in ends : \A k \in ends : m <= k
    <2> HIDE DEF ends
    <2> QED
      BY <1>2, LeastNumber
  <1>4. m \in 1 .. Len(s) /\ s[m] = 0
    BY <1>1, <1>3
  <1>5. ASSUME NEW i \in 1 .. m - 1, s[i] = 0 PROVE FALSE
    <2>1. i \in ends /\ ~(m <= i)
      BY <1>1, <1>4, <1>5
    <2> QED
      BY <1>3, <2>1
  <1> QED
    BY <1>4, <1>5

LEMMA BeforeType ==
    ASSUME NEW A, NEW s \in Seq(A)
    PROVE  BeforeEnd(s) \in Seq(A) /\ (~Ends(s) => BeforeEnd(s) = s)
  <1>1. CASE Ends(s)
    <2>1. PICK m \in 1 .. Len(s) : s[m] = 0 /\ \A i \in 1 .. m - 1 : s[i] # 0
      BY <1>1, FirstEnd
    <2>2. BeforeEnd(s) = Part(s, 0, m - 1)
      BY <2>1, BeforeFirst
    <2>3. m - 1 \in Nat /\ 0 <= m - 1 /\ m - 1 <= Len(s)
      OBVIOUS
    <2>4. IsPart(A, Part(s, 0, m - 1), s, 0, m - 1 - 0)
      BY <2>3, PartIs
    <2> QED
      BY <1>1, <2>2, <2>4 DEF IsPart
  <1>2. CASE ~Ends(s)
    BY <1>2 DEF BeforeEnd, Ends
  <1> QED
    BY <1>1, <1>2

LEMMA JoinEnds ==
    ASSUME NEW A, NEW s \in Seq(A), NEW t \in Seq(A)
    PROVE  Ends(s \o t) <=> Ends(s) \/ Ends(t)
  <1>1. IsJoin(A, s \o t, s, t)
    BY JoinIs
  <1> DEFINE w == s \o t
  <1>2. w \in Seq(A) /\ Len(w) = Len(s) + Len(t) /\ Len(s) \in Nat /\ Len(t) \in Nat
        /\ DOMAIN s = 1 .. Len(s) /\ DOMAIN t = 1 .. Len(t)
        /\ (\A i \in 1 .. Len(s) : w[i] = s[i]) /\ (\A i \in 1 .. Len(t) : w[Len(s) + i] = t[i])
    BY <1>1 DEF IsJoin
  <1> HIDE DEF w
  <1>3. DOMAIN w = 1 .. Len(s) + Len(t)
    BY <1>2
  <1>4. ASSUME Ends(s) \/ Ends(t) PROVE Ends(w)
    <2>1. CASE Ends(s)
      <3>1. PICK i \in 1 .. Len(s) : s[i] = 0
        BY <1>2, <2>1 DEF Ends
      <3>2. i \in DOMAIN w /\ w[i] = 0
        BY <1>2, <1>3, <3>1
      <3> QED
        BY <3>2 DEF Ends
    <2>2. CASE Ends(t)
      <3>1. PICK i \in 1 .. Len(t) : t[i] = 0
        BY <1>2, <2>2 DEF Ends
      <3>2. Len(s) + i \in DOMAIN w /\ w[Len(s) + i] = 0
        BY <1>2, <1>3, <3>1
      <3> QED
        BY <3>2 DEF Ends
    <2> QED
      BY <1>4, <2>1, <2>2
  <1>5. ASSUME Ends(w) PROVE Ends(s) \/ Ends(t)
    <2>1. PICK i \in 1 .. Len(s) + Len(t) : w[i] = 0
      BY <1>3, <1>5 DEF Ends
    <2>2. CASE i <= Len(s)
      <3>1. i \in DOMAIN s /\ s[i] = 0
        BY <1>2, <2>1, <2>2
      <3> QED
        BY <3>1 DEF Ends
    <2>3. CASE ~(i <= Len(s))
      <3> DEFINE j == i - Len(s)
      <3>1. j \in 1 .. Len(t) /\ i = Len(s) + j
        BY <1>2, <2>3
      <3>2. j \in DOMAIN t /\ t[j] = 0
        BY <1>2, <2>1, <3>1
      <3> QED
        BY <3>2 DEF Ends
    <2> QED
      BY <2>2, <2>3
  <1> QED
    BY <1>4, <1>5 DEF w

\* The end mark of a directory that starts with the entries s.
LEMMA JoinBefore ==
    ASSUME NEW A, NEW s \in Seq(A), NEW t \in Seq(A)
    PROVE  BeforeEnd(s \o t) = IF Ends(s) THEN BeforeEnd(s) ELSE s \o BeforeEnd(t)
  <1>1. IsJoin(A, s \o t, s, t)
    BY JoinIs
  <1> DEFINE w == s \o t
  <1>2. w \in Seq(A) /\ Len(w) = Len(s) + Len(t) /\ Len(s) \in Nat /\ Len(t) \in Nat
        /\ (\A i \in 1 .. Len(s) : w[i] = s[i]) /\ (\A i \in 1 .. Len(t) : w[Len(s) + i] = t[i])
    BY <1>1 DEF IsJoin
  <1> HIDE DEF w
  <1>3. CASE Ends(s)
    <2>1. PICK m \in 1 .. Len(s) : s[m] = 0 /\ \A i \in 1 .. m - 1 : s[i] # 0
      BY <1>3, FirstEnd
    <2>2. m \in 1 .. Len(w) /\ w[m] = 0 /\ m - 1 \in Nat /\ 0 <= m - 1 /\ m - 1 <= Len(s) /\ m - 1 <= Len(w)
          /\ (m - 1) - 0 = m - 1
      BY <1>2, <2>1
    <2>3. \A i \in 1 .. m - 1 : w[i] = s[i] /\ w[i] # 0
      BY <1>2, <2>1, <2>2
    <2>4. BeforeEnd(w) = Part(w, 0, m - 1) /\ BeforeEnd(s) = Part(s, 0, m - 1)
      BY <1>2, <2>1, <2>2, <2>3, BeforeFirst
    <2>5. IsPart(A, Part(w, 0, m - 1), w, 0, m - 1) /\ IsPart(A, Part(s, 0, m - 1), s, 0, m - 1)
      <3>1. IsPart(A, Part(w, 0, m - 1), w, 0, (m - 1) - 0) /\ IsPart(A, Part(s, 0, m - 1), s, 0, (m - 1) - 0)
        BY <1>2, <2>2, PartIs
      <3> QED
        BY <2>2, <3>1
    <2>6. IsPart(A, Part(w, 0, m - 1), s, 0, m - 1)
      <3>1. \A i \in 1 .. m - 1 : 0 + i = i
        OBVIOUS
      <3> QED
        BY <2>3, <2>5, <3>1 DEF IsPart
    <2>7. Part(w, 0, m - 1) = Part(s, 0, m - 1)
      BY <2>5, <2>6, SamePart
    <2> QED
      BY <1>3, <2>4, <2>7 DEF w
  <1>4. CASE ~Ends(s) /\ ~Ends(t)
    <2>1. ~Ends(w)
      BY <1>4, JoinEnds DEF w
    <2>2. BeforeEnd(w) = w /\ BeforeEnd(t) = t
      BY <1>2, <1>4, <2>1, BeforeType
    <2> QED
      BY <1>4, <2>2 DEF w
  <1>5. CASE ~Ends(s) /\ Ends(t)
    <2>1. PICK m \in 1 .. Len(t) : t[m] = 0 /\ \A i \in 1 .. m - 1 : t[i] # 0
      BY <1>5, FirstEnd
    <2> DEFINE k == Len(s) + m
               n == m - 1
    <2>2. k \in 1 .. Len(w) /\ w[k] = 0 /\ n \in Nat /\ n <= Len(t) /\ k - 1 = Len(s) + n
          /\ k - 1 \in Nat /\ k - 1 <= Len(w)
      BY <1>2, <2>1
    <2>3. ASSUME NEW i \in 1 .. k - 1 PROVE w[i] # 0
      <3>1. CASE i <= Len(s)
        <4>1. i \in DOMAIN s /\ w[i] = s[i]
          BY <1>2, <3>1
        <4> QED
          BY <1>5, <4>1 DEF Ends
      <3>2. CASE ~(i <= Len(s))
        <4> DEFINE j == i - Len(s)
        <4>1. j \in 1 .. m - 1 /\ j \in 1 .. Len(t) /\ i = Len(s) + j
          BY <1>2, <2>1, <3>2
        <4> HIDE DEF j
        <4>2. w[i] = t[j]
          BY <1>2, <4>1
        <4> QED
          BY <2>1, <4>1, <4>2
      <3> QED
        BY <3>1, <3>2
    <2>4. BeforeEnd(w) = Part(w, 0, k - 1)
      <3> HIDE DEF k
      <3> QED
        BY <1>2, <2>2, <2>3, BeforeFirst
    <2>5. BeforeEnd(t) = Part(t, 0, n)
      BY <2>1, BeforeFirst
    <2>6. IsPart(A, Part(t, 0, n), t, 0, n)
      <3>1. IsPart(A, Part(t, 0, n), t, 0, n - 0)
        <4> HIDE DEF n
        <4> QED
          BY <2>2, PartIs
      <3> QED
        BY <3>1, <2>2
    <2>7. IsPart(A, Part(w, 0, k - 1), w, 0, Len(s) + n)
      <3>1. IsPart(A, Part(w, 0, k - 1), w, 0, (k - 1) - 0)
        <4> DEFINE z == k - 1
        <4>1. z \in Nat /\ z <= Len(w) /\ 0 <= z
          BY <2>2
        <4> HIDE DEF z, k
        <4>2. IsPart(A, Part(w, 0, z), w, 0, z - 0)
          BY <1>2, <4>1, PartIs
        <4> QED
          BY <4>2 DEF z
      <3> QED
        BY <3>1, <2>2
    <2>8. IsPart(A, s, w, 0, Len(s))
      <3>1. \A i \in 1 .. Len(s) : 0 + i = i
        OBVIOUS
      <3> QED
        BY <1>2, <3>1 DEF IsPart
    <2>9. IsPart(A, Part(t, 0, n), w, 0 + Len(s), n)
      <3>1. \A i \in 1 .. n : i \in 1 .. Len(t) /\ 0 + i = i /\ (0 + Len(s)) + i = Len(s) + i
        BY <1>2, <2>2
      <3> QED
        BY <1>2, <2>6, <3>1 DEF IsPart
    <2>10. IsPart(A, s \o Part(t, 0, n), w, 0, Len(s) + n)
      <3> HIDE DEF n
      <3> QED
        BY <1>2, <2>2, <2>8, <2>9, PartsMeet
    <2>11. Part(w, 0, k - 1) = s \o Part(t, 0, n)
      BY <2>7, <2>10, SamePart
    <2> QED
      BY <1>5, <2>4, <2>5, <2>11 DEF w
  <1> QED
    BY <1>3, <1>4, <1>5

LiveJoined(A, s, t) ==
    /\ Live(s) \in Seq(A) /\ Listed(s) \in Seq(A)
    /\ Ends(s) => Live(s \o t) = Live(s) /\ Listed(s \o t) = Listed(s)
    /\ ~Ends(s) => Live(s \o t) = Live(s) \o Live(t) /\ Listed(s \o t) = Listed(s) \o Listed(t)

LEMMA JoinLive ==
    ASSUME NEW A, NEW s \in Seq(A), NEW t \in Seq(A)
    PROVE  LiveJoined(A, s, t)
  <1>1. BeforeEnd(s) \in Seq(A) /\ BeforeEnd(t) \in Seq(A) /\ (~Ends(s) => BeforeEnd(s) = s)
    BY BeforeType
  <1>2. Live(s) \in Seq(A) /\ Live(t) \in Seq(A)
    BY <1>1, WithoutType DEF Live
  <1>3. Listed(s) \in Seq(A)
    BY <1>2, WithoutType DEF Listed
  <1>4. BeforeEnd(s \o t) = IF Ends(s) THEN BeforeEnd(s) ELSE s \o BeforeEnd(t)
    BY JoinBefore
  <1>5. Live(s \o t) = IF Ends(s) THEN Live(s) ELSE Live(s) \o Live(t)
    <2>1. CASE Ends(s)
      BY <1>4, <2>1 DEF Live
    <2>2. CASE ~Ends(s)
      <3>1. Without(s \o BeforeEnd(t), Skipped) = Without(s, Skipped) \o Without(BeforeEnd(t), Skipped)
        <4>1. KeptApart(s, BeforeEnd(t), Skipped)
          BY <1>1, WithoutParts
        <4> QED
          BY <4>1 DEF KeptApart
      <3> QED
        BY <1>1, <1>4, <2>2, <3>1 DEF Live
    <2> QED
      BY <2>1, <2>2
  <1>6. Listed(s \o t) = IF Ends(s) THEN Listed(s) ELSE Listed(s) \o Listed(t)
    <2>1. CASE Ends(s)
      BY <1>5, <2>1 DEF Listed
    <2>2. CASE ~Ends(s)
      <3>1. Without(Live(s) \o Live(t), Labels) = Without(Live(s), Labels) \o Without(Live(t), Labels)
        <4>1. KeptApart(Live(s), Live(t), Labels)
          BY <1>2, WithoutParts
        <4> QED
          BY <4>1 DEF KeptApart
      <3> QED
        BY <1>5, <2>2, <3>1 DEF Listed
    <2> QED
      BY <2>1, <2>2
  <1> QED
    BY <1>2, <1>3, <1>5, <1>6 DEF LiveJoined

LEMMA LiveType ==
    ASSUME NEW A, NEW s \in Seq(A)
    PROVE  Live(s) \in Seq(A) /\ Listed(s) \in Seq(A)
  <1>1. LiveJoined(A, s, s)
    BY JoinLive
  <1> QED
    BY <1>1 DEF LiveJoined

-----------------------------------------------------------------------------
(***************************************************************************)
(* The chain of clusters.                                                  *)
(***************************************************************************)
Unit == 0 .. Word - 1
Safe == (1 .. Sectors - 1) \ Scratch

extended(d, v, s) ==
    IF link(d, v, s[Len(s)]) \in 2 .. EndOfChain - 1 THEN Append(s, link(d, v, s[Len(s)])) ELSE s

IsLinked(f, d, v, c) == f = [n \in 0 .. Word |-> IF n = 0 THEN <<c>> ELSE extended(d, v, f[n - 1])]

Linked(f, d, v, c) ==
    /\ f \in [0 .. Word -> Seq(Nat)] /\ f[0] = <<c>>
    /\ \A n \in 1 .. Word : f[n] = extended(d, v, f[n - 1])

LEMMA WordIs == Word \in Nat /\ EndOfChain \in Nat /\ Word >= 3 /\ EndOfChain >= 2 /\ EndOfChain < Word
                /\ FAT32_SECTOR_SIZE \in Nat /\ FAT32_SECTOR_SIZE >= 1
  BY Fat32Assumption

LEMMA ExtendedType ==
    ASSUME NEW d, NEW v, NEW s \in Seq(Nat)
    PROVE  extended(d, v, s) \in Seq(Nat)
  <1> DEFINE x == link(d, v, s[Len(s)])
  <1>1. CASE x \in 2 .. EndOfChain - 1
    <2>1. x \in Nat
      BY <1>1, WordIs
    <2>2. extended(d, v, s) = Append(s, x)
      BY <1>1 DEF extended
    <2> HIDE DEF x
    <2> QED
      BY <2>1, <2>2
  <1>2. CASE x \notin 2 .. EndOfChain - 1
    BY <1>2 DEF extended
  <1> QED
    BY <1>1, <1>2

LEMMA LinkedSolved ==
    ASSUME NEW d, NEW v, NEW c \in Nat, NEW f, IsLinked(f, d, v, c)
    PROVE  Linked(f, d, v, c)
  <1> DEFINE turn(n) == IF n = 0 THEN <<c>> ELSE extended(d, v, f[n - 1])
             S == {n \in Nat : n <= Word => f[n] \in Seq(Nat)}
  <1>1. f = [n \in 0 .. Word |-> turn(n)]
    BY DEF IsLinked
  <1>2. DOMAIN f = 0 .. Word /\ \A n \in 0 .. Word : f[n] = turn(n)
    <2> HIDE DEF turn
    <2> QED
      BY <1>1
  <1>3. 0 \in 0 .. Word /\ \A n \in 1 .. Word : n \in 0 .. Word /\ n # 0
    BY WordIs
  <1>4. f[0] = <<c>> /\ \A n \in 1 .. Word : f[n] = extended(d, v, f[n - 1])
    BY <1>2, <1>3
  <1>5. 0 \in S
    <2>1. <<c>> \in Seq(Nat)
      OBVIOUS
    <2> QED
      BY <1>4, <2>1
  <1>6. ASSUME NEW n \in Nat, n \in S PROVE n + 1 \in S
    <2> SUFFICES ASSUME n + 1 <= Word PROVE f[n + 1] \in Seq(Nat)
      OBVIOUS
    <2>1. n + 1 \in 1 .. Word /\ (n + 1) - 1 = n /\ f[n] \in Seq(Nat)
      BY <1>6, WordIs
    <2> QED
      BY <1>4, <2>1, ExtendedType
  <1>7. Nat \subseteq S
    <2> HIDE DEF S
    <2> QED
      BY <1>5, <1>6, Induction
  <1>8. \A n \in 0 .. Word : f[n] \in Seq(Nat)
    BY <1>7, WordIs
  <1>9. f = [n \in 0 .. Word |-> f[n]]
    <2> HIDE DEF turn
    <2> QED
      BY <1>1
  <1>10. f \in [0 .. Word -> Seq(Nat)]
    BY <1>8, <1>9
  <1> QED
    BY <1>4, <1>10 DEF Linked

LEMMA ChainIs ==
    ASSUME NEW d, NEW v, NEW c \in Nat
    PROVE  Linked(ChainFrom(d, v, c), d, v, c)
  <1> DEFINE B == Seq(Nat)
             F == [x \in (1 .. Word) \X B |-> extended(d, v, x[2])]
  <1>1. F \in [(1 .. Word) \X B -> B]
    <2>1. \A x \in (1 .. Word) \X B : extended(d, v, x[2]) \in B
      BY ExtendedType
    <2> HIDE DEF B
    <2> QED
      BY <2>1
  <1>2. Word \in Nat /\ <<c>> \in B
    BY WordIs
  <1>3. PICK f \in [0 .. Word -> B] : IsRun(f, Word, <<c>>, F)
    <2> HIDE DEF B, F
    <2> QED
      BY <1>1, <1>2, RunExists
  <1>4. \A n \in 0 .. Word : n # 0 => F[<<n, f[n - 1]>>] = extended(d, v, f[n - 1])
    <2> SUFFICES ASSUME NEW n \in 0 .. Word, n # 0
                 PROVE  F[<<n, f[n - 1]>>] = extended(d, v, f[n - 1])
      OBVIOUS
    <2>1. n - 1 \in 0 .. Word /\ n \in 1 .. Word
      BY <1>2
    <2>2. <<n, f[n - 1]>> \in (1 .. Word) \X B
      BY <2>1
    <2> HIDE DEF B
    <2> QED
      BY <2>2
  <1>5. IsLinked(f, d, v, c)
    <2> HIDE DEF F
    <2> QED
      BY <1>3, <1>4 DEF IsRun, IsLinked
  <1> DEFINE g == CHOOSE h : IsLinked(h, d, v, c)
  <1>6. IsLinked(g, d, v, c)
    BY <1>5
  <1>7. ChainFrom(d, v, c) = g
    BY DEF ChainFrom, IsLinked, extended
  <1> HIDE DEF g
  <1>8. Linked(g, d, v, c)
    BY <1>6, LinkedSolved
  <1> QED
    BY <1>7, <1>8

LEMMA LinkedOnce ==
    ASSUME NEW d, NEW v, NEW c, NEW f, NEW g, Linked(f, d, v, c), Linked(g, d, v, c)
    PROVE  f = g
  <1> DEFINE S == {n \in Nat : n <= Word => f[n] = g[n]}
  <1>1. 0 \in S
    BY DEF Linked
  <1>2. ASSUME NEW n \in Nat, n \in S PROVE n + 1 \in S
    <2> SUFFICES ASSUME n + 1 <= Word PROVE f[n + 1] = g[n + 1]
      OBVIOUS
    <2>1. n + 1 \in 1 .. Word /\ (n + 1) - 1 = n /\ f[n] = g[n]
      BY <1>2, WordIs
    <2>2. f[n + 1] = extended(d, v, f[n]) /\ g[n + 1] = extended(d, v, g[n])
      BY <2>1 DEF Linked
    <2> QED
      BY <2>1, <2>2
  <1>3. Nat \subseteq S
    <2> HIDE DEF S
    <2> QED
      BY <1>1, <1>2, Induction
  <1>4. \A n \in 0 .. Word : f[n] = g[n]
    BY <1>3, WordIs
  <1>5. f = [n \in 0 .. Word |-> f[n]] /\ g = [n \in 0 .. Word |-> g[n]]
    BY DEF Linked
  <1> QED
    BY <1>4, <1>5

-----------------------------------------------------------------------------
(***************************************************************************)
(* Disks with a volume on them.                                            *)
(***************************************************************************)
GoodDisk(d) ==
    /\ d \in [0 .. Sectors - 1 -> Seq(Unit)] /\ WellFormed(d)
    /\ Len(d[0]) >= 5 /\ Len(d[0]) >= FAT32_SECTOR_SIZE
    /\ \A s \in 1 .. Sectors - 1 : Len(d[s]) = FAT32_SECTOR_SIZE

Volume(d) == Parameters(d[0])

\* The end of the chain after n links.
EndOf(d, n) ==
    ChainFrom(d, Volume(d), Volume(d).root)[n][Len(ChainFrom(d, Volume(d), Volume(d).root)[n])]

LEMMA WellFormedIs ==
    ASSUME NEW d
    PROVE  WellFormed(d) <=>
             /\ Volume(d).spc > 0 /\ Volume(d).root \in 2 .. EndOfChain - 1
             /\ \A n \in 0 .. Word :
                  /\ fat_sector(Volume(d), EndOf(d, n)) \in Safe
                  /\ \A k \in 0 .. Volume(d).spc - 1 : data_sector(Volume(d), EndOf(d, n), k) \in Safe
             /\ link(d, Volume(d), EndOf(d, Word)) \notin 2 .. EndOfChain - 1
  BY DEF WellFormed, Volume, EndOf, Safe

LEMMA UnsignedType ==
    ASSUME NEW n \in Int
    PROVE  unsigned(n) \in Nat /\ unsigned(n) < Word
  BY WordIs DEF unsigned

LEMMA VolumeType ==
    ASSUME NEW d, GoodDisk(d)
    PROVE  /\ Volume(d).mounted = TRUE /\ Volume(d).spc \in Nat /\ Volume(d).spc > 0
           /\ Volume(d).fat_start \in Nat /\ Volume(d).data_start \in Nat
           /\ Volume(d).root \in Nat /\ Volume(d).root >= 2
  <1> DEFINE b == d[0]
  <1>1. b \in Seq(Unit) /\ Len(b) >= 5
    <2>1. 0 \in 0 .. Sectors - 1
      BY SectorsAssumption
    <2> QED
      BY <2>1 DEF GoodDisk
  <1>2. b[1] \in Nat /\ b[2] \in Nat /\ b[3] \in Nat /\ b[4] \in Nat /\ b[5] \in Nat
    <2>1. Unit \subseteq Nat
      BY WordIs DEF Unit
    <2>2. \A i \in 1 .. Len(b) : b[i] \in Unit
      <3> HIDE DEF b
      <3> QED
        BY <1>1
    <2>3. Len(b) \in Nat
      BY <1>1
    <2>4. 1 \in 1 .. Len(b) /\ 2 \in 1 .. Len(b) /\ 3 \in 1 .. Len(b) /\ 4 \in 1 .. Len(b) /\ 5 \in 1 .. Len(b)
      BY <1>1, <2>3
    <2> QED
      BY <2>1, <2>2, <2>4
  <1>3. b[1] + b[2] * b[3] \in Int
    BY <1>2
  <1>4. unsigned(b[1] + b[2] * b[3]) \in Nat
    BY <1>3, UnsignedType
  <1>5. Volume(d) = [mounted |-> TRUE, fat_start |-> b[1], spc |-> b[4],
                     data_start |-> unsigned(b[1] + b[2] * b[3]), root |-> b[5]]
    BY DEF Volume, Parameters
  <1>6. Volume(d).spc > 0 /\ Volume(d).root \in 2 .. EndOfChain - 1
    BY WellFormedIs DEF GoodDisk
  <1>7. Volume(d).root >= 2
    BY <1>2, <1>5, <1>6, WordIs
  <1> QED
    BY <1>2, <1>4, <1>5, <1>6, <1>7

\* What is written outside the volume changes nothing of it.
LEMMA VolumeStays ==
    ASSUME NEW d, GoodDisk(d), NEW e \in [0 .. Sectors - 1 -> Seq(Unit)],
           \A s \in (0 .. Sectors - 1) \ Scratch : e[s] = d[s]
    PROVE  /\ Volume(e) = Volume(d) /\ WellFormed(e)
           /\ ChainFrom(e, Volume(d), Volume(d).root) = ChainFrom(d, Volume(d), Volume(d).root)
  <1> DEFINE v == Volume(d)
             f == ChainFrom(d, v, v.root)
  <1>1. 0 \in (0 .. Sectors - 1) \ Scratch /\ Safe \subseteq (0 .. Sectors - 1) \ Scratch
    BY SectorsAssumption, VolumesAssumption DEF Safe
  <1>2. Volume(e) = v
    BY <1>1 DEF Volume
  <1>3. v.root \in Nat
    BY VolumeType
  <1>4. Linked(f, d, v, v.root)
    <2> HIDE DEF v
    <2> QED
      BY <1>3, ChainIs
  <1>5. /\ v.spc > 0 /\ v.root \in 2 .. EndOfChain - 1
        /\ \A n \in 0 .. Word :
             /\ fat_sector(v, EndOf(d, n)) \in Safe
             /\ \A k \in 0 .. v.spc - 1 : data_sector(v, EndOf(d, n), k) \in Safe
        /\ link(d, v, EndOf(d, Word)) \notin 2 .. EndOfChain - 1
    BY WellFormedIs DEF GoodDisk
  <1>6. \A n \in 0 .. Word : link(e, v, EndOf(d, n)) = link(d, v, EndOf(d, n))
    BY <1>1, <1>5 DEF link
  <1>7. \A n \in 0 .. Word : EndOf(d, n) = f[n][Len(f[n])]
    BY DEF EndOf
  <1> HIDE DEF v, f
  <1>8. Linked(f, e, v, v.root)
    <2>1. ASSUME NEW n \in 1 .. Word PROVE f[n] = extended(e, v, f[n - 1])
      <3>1. n - 1 \in 0 .. Word
        BY WordIs
      <3>2. f[n] = extended(d, v, f[n - 1])
        BY <1>4 DEF Linked
      <3>3. link(e, v, f[n - 1][Len(f[n - 1])]) = link(d, v, f[n - 1][Len(f[n - 1])])
        BY <1>6, <1>7, <3>1
      <3> QED
        BY <3>2, <3>3 DEF extended
    <2> QED
      BY <1>4, <2>1 DEF Linked
  <1>9. ChainFrom(e, v, v.root) = f
    <2>1. Linked(ChainFrom(e, v, v.root), e, v, v.root)
      BY <1>3, ChainIs
    <2> QED
      BY <1>8, <2>1, LinkedOnce
  <1>10. \A n \in 0 .. Word : EndOf(e, n) = EndOf(d, n)
    BY <1>2, <1>7, <1>9 DEF EndOf
  <1>11. WellFormed(e)
    <2>1. Word \in 0 .. Word
      BY WordIs
    <2>2. /\ Volume(e).spc > 0 /\ Volume(e).root \in 2 .. EndOfChain - 1
          /\ \A n \in 0 .. Word :
               /\ fat_sector(Volume(e), EndOf(e, n)) \in Safe
               /\ \A k \in 0 .. Volume(e).spc - 1 : data_sector(Volume(e), EndOf(e, n), k) \in Safe
          /\ link(e, Volume(e), EndOf(e, Word)) \notin 2 .. EndOfChain - 1
      BY <1>2, <1>5, <1>6, <1>10, <2>1
    <2> QED
      BY <2>2, WellFormedIs
  <1> QED
    BY <1>2, <1>9, <1>11 DEF v, f

\* The clusters of the root directory.
Clusters(d) == ChainFrom(d, Volume(d), Volume(d).root)[Word]

\* A cluster whose sectors and whose FAT entry are part of the volume.
Reachable(v, c) ==
    /\ c \in 2 .. EndOfChain - 1 /\ fat_sector(v, c) \in Safe
    /\ \A k \in 0 .. v.spc - 1 : data_sector(v, c, k) \in Safe

IsChain(d, s) ==
    /\ s \in Seq(2 .. EndOfChain - 1) /\ Len(s) >= 1 /\ s[1] = Volume(d).root
    /\ \A i \in 1 .. Len(s) : Reachable(Volume(d), s[i])
    /\ \A i \in 1 .. Len(s) - 1 : link(d, Volume(d), s[i]) = s[i + 1]

LEMMA ClustersAre ==
    ASSUME NEW d, GoodDisk(d)
    PROVE  /\ IsChain(d, Clusters(d))
           /\ link(d, Volume(d), Clusters(d)[Len(Clusters(d))]) \notin 2 .. EndOfChain - 1
  <1> DEFINE v == Volume(d)
             f == ChainFrom(d, v, v.root)
             C == 2 .. EndOfChain - 1
             S == {n \in Nat : n <= Word => IsChain(d, f[n])}
  <1>1. v.root \in Nat
    BY VolumeType
  <1>2. Linked(f, d, v, v.root)
    <2> HIDE DEF v
    <2> QED
      BY <1>1, ChainIs
  <1>3. /\ v.spc > 0 /\ v.root \in 2 .. EndOfChain - 1
        /\ \A n \in 0 .. Word :
             /\ fat_sector(v, EndOf(d, n)) \in Safe
             /\ \A k \in 0 .. v.spc - 1 : data_sector(v, EndOf(d, n), k) \in Safe
        /\ link(d, v, EndOf(d, Word)) \notin 2 .. EndOfChain - 1
    BY WellFormedIs DEF GoodDisk
  <1>4. \A n \in 0 .. Word : EndOf(d, n) = f[n][Len(f[n])]
    BY DEF EndOf
  <1>5. ASSUME NEW n \in 0 .. Word, f[n][Len(f[n])] \in C PROVE Reachable(v, f[n][Len(f[n])])
    BY <1>3, <1>4, <1>5 DEF Reachable
  <1> HIDE DEF f
  <1>6. 0 \in S
    <2>1. f[0] = <<v.root>> /\ 0 \in 0 .. Word
      BY <1>2, WordIs DEF Linked
    <2>2. f[0] \in Seq(C) /\ Len(f[0]) = 1 /\ f[0][1] = v.root
      BY <1>3, <2>1
    <2>3. Reachable(v, f[0][1])
      BY <1>3, <1>5, <2>1, <2>2
    <2>4. (\A i \in 1 .. 1 : i = 1) /\ 1 .. 1 - 1 = {}
      OBVIOUS
    <2>5. IsChain(d, f[0])
      BY <2>2, <2>3, <2>4 DEF IsChain
    <2> QED
      BY <2>5
  <1>7. ASSUME NEW n \in Nat, n \in S PROVE n + 1 \in S
    <2> SUFFICES ASSUME n + 1 <= Word PROVE IsChain(d, f[n + 1])
      OBVIOUS
    <2>1. n + 1 \in 1 .. Word /\ n + 1 \in 0 .. Word /\ (n + 1) - 1 = n /\ IsChain(d, f[n])
      BY <1>7, WordIs
    <2> DEFINE s == f[n]
               x == link(d, v, s[Len(s)])
    <2>2. f[n + 1] = extended(d, v, s)
      BY <1>2, <2>1 DEF Linked
    <2>3. CASE x \notin C
      <3>1. f[n + 1] = s
        BY <2>2, <2>3 DEF extended
      <3> QED
        BY <2>1, <3>1
    <2>4. CASE x \in C
      <3>1. f[n + 1] = Append(s, x)
        BY <2>2, <2>4 DEF extended
      <3>2. s \in Seq(C) /\ Len(s) \in Nat /\ Len(s) >= 1 /\ s[1] = v.root
            /\ (\A i \in 1 .. Len(s) : Reachable(v, s[i])) /\ \A i \in 1 .. Len(s) - 1 : link(d, v, s[i]) = s[i + 1]
        <4>1. s \in Seq(C) /\ Len(s) >= 1 /\ s[1] = v.root /\ (\A i \in 1 .. Len(s) : Reachable(v, s[i]))
              /\ \A i \in 1 .. Len(s) - 1 : link(d, v, s[i]) = s[i + 1]
          BY <2>1 DEF IsChain
        <4>2. Len(s) \in Nat
          <5> HIDE DEF s, C
          <5> QED
            BY <4>1
        <4> QED
          BY <4>1, <4>2
      <3>3. x = link(d, v, s[Len(s)])
        OBVIOUS
      <3> HIDE DEF x, s, v, C
      <3> DEFINE t == Append(s, x)
      <3>4. t \in Seq(C) /\ Len(t) = Len(s) + 1 /\ t[Len(s) + 1] = x /\ \A i \in 1 .. Len(s) : t[i] = s[i]
        BY <2>4, <3>2
      <3> HIDE DEF t
      <3>5. Reachable(v, x)
        <4>1. f[n + 1] = t /\ t[Len(t)] = x
          BY <3>1, <3>4 DEF t
        <4> QED
          BY <1>5, <2>1, <2>4, <4>1
      <3>6. ASSUME NEW i \in 1 .. Len(t) PROVE Reachable(v, t[i])
        <4>1. CASE i = Len(s) + 1
          BY <3>4, <3>5, <4>1
        <4>2. CASE i # Len(s) + 1
          <5>1. i \in 1 .. Len(s)
            BY <3>2, <3>4, <4>2
          <5> QED
            BY <3>2, <3>4, <5>1
        <4> QED
          BY <4>1, <4>2
      <3>7. ASSUME NEW i \in 1 .. Len(t) - 1 PROVE link(d, v, t[i]) = t[i + 1]
        <4>0. i \in 1 .. Len(s)
          BY <3>2, <3>4
        <4>1. CASE i = Len(s)
          BY <3>3, <3>4, <4>0, <4>1
        <4>2. CASE i # Len(s)
          <5>1. i \in 1 .. Len(s) - 1 /\ i + 1 \in 1 .. Len(s)
            BY <3>2, <4>0, <4>2
          <5> QED
            BY <3>2, <3>4, <4>0, <5>1
        <4> QED
          BY <4>1, <4>2
      <3>8. Len(t) >= 1 /\ t[1] = v.root
        <4>1. 1 \in 1 .. Len(s)
          BY <3>2
        <4> QED
          BY <3>2, <3>4, <4>1
      <3>9. IsChain(d, t)
        BY <3>4, <3>6, <3>7, <3>8 DEF IsChain, v, C
      <3> QED
        BY <3>1, <3>9 DEF t
    <2> QED
      BY <2>3, <2>4
  <1>8. Nat \subseteq S
    <2> HIDE DEF S
    <2> QED
      BY <1>6, <1>7, Induction
  <1>9. IsChain(d, f[Word]) /\ Word \in 0 .. Word
    BY <1>8, WordIs
  <1> QED
    BY <1>3, <1>4, <1>9 DEF Clusters, f

LEMMA DivModIs ==
    ASSUME NEW a \in Nat, NEW b \in Nat, b >= 1, NEW r \in 0 .. b - 1
    PROVE  (a * b + r) \div b = a /\ (a * b + r) % b = r
  <1> DEFINE x == a * b + r
             q == x \div b
             m == x % b
  <1>1. a * b \in Nat /\ x \in Nat
    OBVIOUS
  <1>2. x = b * q + m /\ q \in Nat /\ m \in 0 .. b - 1
    <2> HIDE DEF x
    <2> QED
      BY <1>1
  <1>3. a * b + r = b * q + m
    BY <1>2
  <1> HIDE DEF q, m, x
  <1>4. ~(q < a)
    <2> SUFFICES ASSUME q < a PROVE FALSE
      OBVIOUS
    <2>1. PICK k \in Nat : a = q + 1 + k
      <3>1. a - q - 1 \in Nat /\ a = q + 1 + (a - q - 1)
        BY <1>2
      <3> QED
        BY <3>1
    <2>2. a * b = b * q + b + k * b /\ k * b \in Nat /\ b * q \in Nat
      BY <1>2, <2>1
    <2> QED
      BY <1>2, <1>3, <2>2
  <1>5. ~(a < q)
    <2> SUFFICES ASSUME a < q PROVE FALSE
      OBVIOUS
    <2>1. PICK k \in Nat : q = a + 1 + k
      <3>1. q - a - 1 \in Nat /\ q = a + 1 + (q - a - 1)
        BY <1>2
      <3> QED
        BY <3>1
    <2>2. b * q = a * b + b + k * b /\ k * b \in Nat /\ a * b \in Nat
      BY <1>2, <2>1
    <2> QED
      BY <1>2, <1>3, <2>2
  <1>6. q = a
    BY <1>2, <1>4, <1>5
  <1>7. b * q = a * b
    BY <1>6
  <1>8. m = r
    BY <1>1, <1>2, <1>3, <1>7
  <1> QED
    BY <1>6, <1>8 DEF q, m, x

LEMMA DivBound ==
    ASSUME NEW x \in Nat, NEW n \in Nat, NEW b \in Nat, b >= 1, x < n * b
    PROVE  x \div b \in 0 .. n - 1 /\ x % b \in 0 .. b - 1
  <1> DEFINE q == x \div b
             m == x % b
  <1>1. x = b * q + m /\ q \in Nat /\ m \in 0 .. b - 1
    OBVIOUS
  <1> HIDE DEF q, m
  <1>2. q < n
    <2> SUFFICES ASSUME q >= n PROVE FALSE
      BY <1>1
    <2>1. PICK k \in Nat : q = n + k
      <3>1. q - n \in Nat /\ q = n + (q - n)
        BY <1>1
      <3> QED
        BY <3>1
    <2>2. b * q = n * b + b * k /\ b * k \in Nat /\ n * b \in Nat
      BY <2>1
    <2> QED
      BY <1>1, <2>2
  <1> QED
    BY <1>1, <1>2 DEF q, m

LEMMA TimesUp ==
    ASSUME NEW i \in Nat, NEW n \in Nat, NEW b \in Nat, i < n
    PROVE  i * b + b <= n * b /\ i * b \in Nat /\ n * b \in Nat /\ (i + 1) * b = i * b + b
  <1>1. PICK k \in Nat : n = i + 1 + k
    <2>1. n - i - 1 \in Nat /\ n = i + 1 + (n - i - 1)
      OBVIOUS
    <2> QED
      BY <2>1
  <1>2. n * b = i * b + b + k * b /\ k * b \in Nat /\ i * b \in Nat /\ (i + 1) * b = i * b + b
    BY <1>1
  <1> QED
    BY <1>2

-----------------------------------------------------------------------------
(***************************************************************************)
(* The units of the root directory are those of its sectors, cluster by    *)
(* cluster.                                                                *)
(***************************************************************************)
SS == FAT32_SECTOR_SIZE
SizeOf(d) == Volume(d).spc * SS
All(d) == Contents(d, Volume(d))

\* The sector of the u-th unit.
SectorOf(d, u) ==
    data_sector(Volume(d), Clusters(d)[((u - 1) \div SizeOf(d)) + 1], ((u - 1) % SizeOf(d)) \div SS)

LEMMA SizeType ==
    ASSUME NEW d, GoodDisk(d)
    PROVE  SizeOf(d) \in Nat /\ SizeOf(d) >= SS /\ SizeOf(d) >= 1
  <1>1. Volume(d).spc \in Nat /\ 0 < Volume(d).spc /\ SS \in Nat /\ SS >= 1
    BY VolumeType, WordIs DEF SS
  <1>2. 0 * SS + SS <= Volume(d).spc * SS /\ Volume(d).spc * SS \in Nat /\ 0 * SS = 0
    BY <1>1, TimesUp
  <1> QED
    BY <1>1, <1>2 DEF SizeOf

LEMMA AllIs ==
    ASSUME NEW d, GoodDisk(d)
    PROVE  /\ All(d) \in Seq(Unit) /\ Len(All(d)) = Len(Clusters(d)) * SizeOf(d)
           /\ \A u \in 1 .. Len(Clusters(d)) * SizeOf(d) :
                /\ SectorOf(d, u) \in Safe
                /\ All(d)[u] = d[SectorOf(d, u)][(((u - 1) % SizeOf(d)) % SS) + 1]
  <1> DEFINE v == Volume(d)
             s == Clusters(d)
             n == Len(s)
             size == SizeOf(d)
             unit(u) == d[data_sector(v, s[((u - 1) \div size) + 1], ((u - 1) % size) \div SS)]
                         [(((u - 1) % size) % SS) + 1]
  <1>1. All(d) = [u \in 1 .. n * size |-> unit(u)]
    BY DEF All, Contents, Clusters, SizeOf, SS
  <1>2. s \in Seq(2 .. EndOfChain - 1) /\ n \in Nat /\ \A i \in 1 .. n : Reachable(v, s[i])
    <2>1. IsChain(d, s)
      BY ClustersAre
    <2>2. s \in Seq(2 .. EndOfChain - 1) /\ \A i \in 1 .. n : Reachable(v, s[i])
      BY <2>1 DEF IsChain
    <2> HIDE DEF s
    <2> QED
      BY <2>2
  <1>3. size \in Nat /\ size >= 1 /\ n * size \in Nat /\ SS \in Nat /\ SS >= 1 /\ v.spc \in Nat /\ size = v.spc * SS
    <2>1. size \in Nat /\ size >= 1
      BY SizeType
    <2>2. SS \in Nat /\ SS >= 1 /\ v.spc \in Nat /\ size = v.spc * SS
      BY VolumeType, WordIs DEF SS, SizeOf
    <2> HIDE DEF size, n
    <2> QED
      BY <1>2, <2>1, <2>2
  <1>4. ASSUME NEW u \in 1 .. n * size PROVE unit(u) \in Unit /\ SectorOf(d, u) \in Safe
    <2> DEFINE x == u - 1
               i == x \div size
               at == x % size
               k == at \div SS
               j == at % SS
    <2>1. x \in Nat /\ x < n * size
      BY <1>3
    <2>2. i \in 0 .. n - 1 /\ at \in 0 .. size - 1
      <3> HIDE DEF x, n, size
      <3> QED
        BY <1>2, <1>3, <2>1, DivBound
    <2>3. at \in Nat /\ at < v.spc * SS
      BY <1>3, <2>2
    <2>4. k \in 0 .. v.spc - 1 /\ j \in 0 .. SS - 1
      <3> HIDE DEF at, v
      <3> QED
        BY <1>3, <2>3, DivBound
    <2> DEFINE c == s[i + 1]
               sec == data_sector(v, c, k)
    <2>5. i + 1 \in 1 .. n
      BY <1>2, <2>2
    <2>6. sec \in Safe
      <3> HIDE DEF i, k, s, n, v
      <3> QED
        BY <1>2, <2>4, <2>5 DEF Reachable
    <2>7. d[sec] \in Seq(Unit) /\ Len(d[sec]) = SS
      <3> HIDE DEF sec
      <3>1. sec \in 1 .. Sectors - 1 /\ sec \in 0 .. Sectors - 1
        BY <2>6, SectorsAssumption DEF Safe
      <3> QED
        BY <3>1 DEF GoodDisk, SS
    <2>8. j + 1 \in 1 .. SS
      <3> HIDE DEF j, at, k, v
      <3> QED
        BY <1>3, <2>4
    <2>9. d[sec][j + 1] \in Unit
      <3> HIDE DEF sec, j
      <3> QED
        BY <2>7, <2>8
    <2> QED
      BY <2>6, <2>9 DEF SectorOf
  <1>5. All(d) \in Seq(Unit) /\ Len(All(d)) = n * size /\ \A u \in 1 .. n * size : All(d)[u] = unit(u)
    <2> HIDE DEF unit, n, size
    <2>1. (\A u \in 1 .. n * size : unit(u) \in Unit) /\ n * size \in Nat
      BY <1>3, <1>4
    <2> QED
      BY <1>1, <2>1
  <1>6. \A u \in 1 .. n * size : unit(u) = d[SectorOf(d, u)][(((u - 1) % size) % SS) + 1]
    BY DEF SectorOf
  <1> HIDE DEF unit
  <1> QED
    BY <1>4, <1>5, <1>6

\* Sector k of the i-th cluster.
LEMMA SectorIs ==
    ASSUME NEW d, GoodDisk(d), NEW i \in 1 .. Len(Clusters(d)), NEW k \in 0 .. Volume(d).spc - 1
    PROVE  IsPart(Unit, d[data_sector(Volume(d), Clusters(d)[i], k)], All(d), (i - 1) * SizeOf(d) + k * SS, SS)
  <1> DEFINE v == Volume(d)
             s == Clusters(d)
             n == Len(s)
             size == SizeOf(d)
             sec == data_sector(v, s[i], k)
  <1>1. s \in Seq(2 .. EndOfChain - 1) /\ n \in Nat /\ Reachable(v, s[i])
    <2>1. IsChain(d, s)
      BY ClustersAre
    <2>2. s \in Seq(2 .. EndOfChain - 1) /\ Reachable(v, s[i])
      BY <2>1 DEF IsChain
    <2> HIDE DEF s
    <2> QED
      BY <2>2
  <1>2. size \in Nat /\ size >= 1 /\ SS \in Nat /\ SS >= 1 /\ v.spc \in Nat /\ size = v.spc * SS
    BY SizeType, VolumeType, WordIs DEF SS, SizeOf
  <1>3. d[sec] \in Seq(Unit) /\ Len(d[sec]) = SS
    <2>1. sec \in Safe
      BY <1>1 DEF Reachable
    <2> HIDE DEF sec
    <2>2. sec \in 1 .. Sectors - 1 /\ sec \in 0 .. Sectors - 1
      BY <2>1, SectorsAssumption DEF Safe
    <2> QED
      BY <2>2 DEF GoodDisk, SS
  <1> DEFINE unit(u) == d[data_sector(v, s[((u - 1) \div size) + 1], ((u - 1) % size) \div SS)]
                         [(((u - 1) % size) % SS) + 1]
  <1>4. \A u \in 1 .. n * size : All(d)[u] = unit(u)
    BY AllIs DEF SectorOf
  <1>5. ASSUME NEW j \in 1 .. SS PROVE d[sec][j] = All(d)[((i - 1) * size + k * SS) + j]
    <2> DEFINE a == i - 1
               r == k * SS + (j - 1)
               u == (a * size + k * SS) + j
    <2>1. a \in Nat /\ a < n /\ k \in Nat /\ k < v.spc /\ j - 1 \in 0 .. SS - 1 /\ a + 1 = i
      BY <1>1, <1>2
    <2>2. k * SS + SS <= size /\ k * SS \in Nat
      <3> HIDE DEF v, size
      <3> QED
        BY <1>2, <2>1, TimesUp
    <2>3. a * size + size <= n * size /\ a * size \in Nat /\ n * size \in Nat
      <3> HIDE DEF a, n, size
      <3> QED
        BY <1>1, <1>2, <2>1, TimesUp
    <2>4. r \in 0 .. size - 1
      BY <1>2, <2>1, <2>2
    <2>5. u \in 1 .. n * size /\ u - 1 = a * size + r
      <3> DEFINE x == a * size
                 y == k * SS
                 z == n * size
      <3>1. x \in Nat /\ y \in Nat /\ z \in Nat /\ x + size <= z /\ y + SS <= size /\ j \in 1 .. SS
            /\ size \in Nat /\ SS \in Nat
        BY <1>2, <2>2, <2>3
      <3> HIDE DEF x, y, z, size, v
      <3>2. (x + y) + j \in 1 .. z /\ ((x + y) + j) - 1 = x + (y + (j - 1))
        BY <3>1
      <3> QED
        BY <3>2 DEF x, y, z
    <2>6. (u - 1) \div size = a /\ (u - 1) % size = r
      <3>1. (a * size + r) \div size = a /\ (a * size + r) % size = r
        <4>1. a \in Nat /\ size \in Nat /\ size >= 1 /\ r \in 0 .. size - 1
          BY <1>2, <2>1, <2>4
        <4> HIDE DEF a, size, r
        <4> QED
          BY <4>1, DivModIs
      <3> HIDE DEF a, r, size, u
      <3> QED
        BY <2>5, <3>1
    <2>7. r \div SS = k /\ r % SS = j - 1
      <3> DEFINE b == j - 1
      <3> HIDE DEF b
      <3>1. b \in 0 .. SS - 1
        BY <2>1 DEF b
      <3>2. (k * SS + b) \div SS = k /\ (k * SS + b) % SS = b
        BY <1>2, <2>1, <3>1, DivModIs
      <3> QED
        BY <3>2 DEF b
    <2>8. (j - 1) + 1 = j
      OBVIOUS
    <2>9. unit(u) = d[data_sector(v, s[a + 1], r \div SS)][(r % SS) + 1]
      BY <2>6
    <2>10. unit(u) = d[sec][j]
      <3> HIDE DEF unit, u, r, a
      <3> QED
        BY <2>1, <2>7, <2>8, <2>9
    <2> HIDE DEF unit
    <2> QED
      BY <1>4, <2>5, <2>10
  <1> QED
    BY <1>3, <1>5 DEF IsPart

\* Writing to a sector outside the volume.
LEMMA ScratchWritten ==
    ASSUME NEW d, GoodDisk(d), NEW l \in Scratch, NEW data \in Seq(Unit), Len(data) = SS
    PROVE  /\ GoodDisk([d EXCEPT ![l] = data]) /\ Volume([d EXCEPT ![l] = data]) = Volume(d)
           /\ Clusters([d EXCEPT ![l] = data]) = Clusters(d) /\ All([d EXCEPT ![l] = data]) = All(d)
  <1> DEFINE e == [d EXCEPT ![l] = data]
  <1>1. d \in [0 .. Sectors - 1 -> Seq(Unit)] /\ l \in 0 .. Sectors - 1 /\ l # 0
    BY Fat32Assumption, VolumesAssumption DEF GoodDisk
  <1>2. /\ e \in [0 .. Sectors - 1 -> Seq(Unit)] /\ e[0] = d[0] /\ e[l] = data
        /\ \A s \in 0 .. Sectors - 1 : s # l => e[s] = d[s]
    <2>1. 0 \in 0 .. Sectors - 1
      BY SectorsAssumption
    <2> QED
      BY <1>1, <2>1
  <1> HIDE DEF e
  <1>3. /\ Volume(e) = Volume(d) /\ WellFormed(e)
        /\ ChainFrom(e, Volume(d), Volume(d).root) = ChainFrom(d, Volume(d), Volume(d).root)
    <2>1. \A s \in (0 .. Sectors - 1) \ Scratch : e[s] = d[s]
      BY <1>2
    <2> QED
      BY <1>2, <2>1, VolumeStays
  <1>4. GoodDisk(e)
    <2>1. \A s \in 1 .. Sectors - 1 : Len(e[s]) = FAT32_SECTOR_SIZE
      <3> SUFFICES ASSUME NEW s \in 1 .. Sectors - 1 PROVE Len(e[s]) = FAT32_SECTOR_SIZE
        OBVIOUS
      <3>1. s \in 0 .. Sectors - 1
        BY SectorsAssumption
      <3>2. CASE s = l
        BY <1>2, <3>2 DEF SS
      <3>3. CASE s # l
        BY <1>2, <3>1, <3>3 DEF GoodDisk
      <3> QED
        BY <3>2, <3>3
    <2> QED
      BY <1>2, <1>3, <2>1 DEF GoodDisk
  <1>5. Clusters(e) = Clusters(d) /\ SizeOf(e) = SizeOf(d)
    BY <1>3 DEF Clusters, SizeOf
  <1>6. All(e) = All(d)
    <2> DEFINE n == Len(Clusters(d)) * SizeOf(d)
    <2>1. All(d) \in Seq(Unit) /\ Len(All(d)) = n
          /\ \A u \in 1 .. n : SectorOf(d, u) \in Safe /\ All(d)[u] = d[SectorOf(d, u)][(((u - 1) % SizeOf(d)) % SS) + 1]
      BY AllIs
    <2>2. All(e) \in Seq(Unit) /\ Len(All(e)) = n
          /\ \A u \in 1 .. n : SectorOf(e, u) \in Safe /\ All(e)[u] = e[SectorOf(e, u)][(((u - 1) % SizeOf(e)) % SS) + 1]
      <3>1. n = Len(Clusters(e)) * SizeOf(e)
        BY <1>5
      <3> QED
        BY <1>4, <3>1, AllIs
    <2>3. \A u \in 1 .. n : SectorOf(e, u) = SectorOf(d, u)
      BY <1>3, <1>5 DEF SectorOf
    <2> HIDE DEF n
    <2>4. \A u \in 1 .. n : All(e)[u] = All(d)[u]
      <3> SUFFICES ASSUME NEW u \in 1 .. n PROVE All(e)[u] = All(d)[u]
        OBVIOUS
      <3> DEFINE sec == SectorOf(d, u)
      <3>1. sec \in Safe
        BY <2>1
      <3> HIDE DEF sec
      <3>2. sec \in 0 .. Sectors - 1 /\ sec # l
        BY <3>1, SectorsAssumption DEF Safe
      <3>3. e[sec] = d[sec]
        BY <1>2, <3>2
      <3> QED
        BY <1>5, <2>1, <2>2, <2>3, <3>3 DEF sec
    <2> QED
      BY <2>1, <2>2, <2>4, SameSeq
  <1> QED
    BY <1>3, <1>4, <1>5, <1>6 DEF e

-----------------------------------------------------------------------------
(***************************************************************************)
(* What a call has found in the first m clusters.  ...To: it goes on;      *)
(* ...End: it has its result.                                              *)
(***************************************************************************)
\* The units of the first m clusters.
Pre(d, m) == Part(All(d), 0, m * SizeOf(d))

ReadTo(d, a, l, buf, len, m, off) ==
    /\ a < Len(All(d)) /\ m * SizeOf(d) + off = a + Len(buf)
    /\ Len(buf) + len = l /\ len > 0
    /\ buf = Part(All(d), a, a + Len(buf))

ReadEnd(d, a, l, buf) ==
    a < Len(All(d)) /\ buf = SubSeq(UpTo(All(d), a + l), a + 1, Len(UpTo(All(d), a + l)))

ListTo(d, max, buf, m) == ~Ends(Pre(d, m)) /\ buf = Listed(Pre(d, m)) /\ Len(buf) < max
ListEnd(d, max, buf) == buf = UpTo(Listed(All(d)), max)

ReaddirTo(d, idx, buf, m) == ~Ends(Pre(d, m)) /\ buf = Listed(Pre(d, m)) /\ Len(buf) <= idx

Holds(s, x) == \E j \in DOMAIN s : s[j] = x
InLive(s, x) == Holds(Live(s), x)
LookupTo(d, name, m) == ~Ends(Pre(d, m)) /\ ~InLive(Pre(d, m), name)

\* The cluster after the first m.
IsCluster(d, m, cb) == IsPart(Unit, cb, All(d), m * SizeOf(d), SizeOf(d))

\* The cluster after the first m is inside.
LEMMA ClusterFits ==
    ASSUME NEW d, GoodDisk(d), NEW m \in Nat, m < Len(Clusters(d))
    PROVE  /\ SizeOf(d) \in Nat /\ SizeOf(d) >= 1 /\ Len(All(d)) \in Nat /\ All(d) \in Seq(Unit)
           /\ m * SizeOf(d) \in Nat /\ m * SizeOf(d) + SizeOf(d) <= Len(All(d))
           /\ (m + 1) * SizeOf(d) = m * SizeOf(d) + SizeOf(d)
  <1> DEFINE size == SizeOf(d)
             n == Len(Clusters(d))
  <1>1. n \in Nat /\ m < n
    <2>1. IsChain(d, Clusters(d))
      BY ClustersAre
    <2> QED
      BY <2>1 DEF IsChain
  <1>2. size \in Nat /\ size >= 1 /\ All(d) \in Seq(Unit) /\ Len(All(d)) = n * size
    BY AllIs, SizeType
  <1> HIDE DEF size, n
  <1>3. m * size + size <= n * size /\ m * size \in Nat /\ n * size \in Nat /\ (m + 1) * size = m * size + size
    BY <1>1, <1>2, TimesUp
  <1> QED
    BY <1>2, <1>3 DEF size

PreGrows(d, m, cb) ==
    /\ Pre(d, m) \in Seq(Unit) /\ cb \in Seq(Unit) /\ Pre(d, m + 1) = Pre(d, m) \o cb
    /\ \E rest \in Seq(Unit) : All(d) = (Pre(d, m) \o cb) \o rest

LEMMA PreNext ==
    ASSUME NEW d, GoodDisk(d), NEW m \in Nat, m < Len(Clusters(d)), NEW cb, IsCluster(d, m, cb)
    PROVE  PreGrows(d, m, cb)
  <1> DEFINE all == All(d)
             size == SizeOf(d)
             a == m * size
             b == (m + 1) * size
             c == Len(all)
  <1>1. all \in Seq(Unit) /\ size \in Nat /\ c \in Nat
    BY ClusterFits
  <1>2. a + size <= c /\ a \in Nat /\ b = a + size
    BY ClusterFits
  <1> HIDE DEF all, size, a, b, c
  <1>3. a \in Nat /\ b \in Nat /\ c \in Nat /\ a <= b /\ b <= c /\ b - a = size /\ 0 <= a /\ 0 <= b /\ c <= c
    BY <1>1, <1>2
  <1>4. c = Len(all)
    BY DEF c
  <1>5. Part(all, 0, a) \o Part(all, a, b) = Part(all, 0, b)
    <2>1. Joins(all, 0, a, b)
      BY <1>1, <1>3, <1>4, PartsAreJoined
    <2> QED
      BY <2>1 DEF Joins
  <1>6. Part(all, 0, b) \o Part(all, b, c) = Part(all, 0, c)
    <2>1. c <= Len(all)
      BY <1>3, <1>4
    <2> QED
      BY <1>1, <1>3, <2>1, PartsJoin
  <1>7. Part(all, 0, c) = all
    BY <1>1, <1>4, PartWhole
  <1>8. IsPart(Unit, Part(all, a, b), all, a, size)
    <2>1. IsPart(Unit, Part(all, a, b), all, a, b - a)
      BY <1>1, <1>3, <1>4, PartIs
    <2> QED
      BY <1>3, <2>1
  <1>9. cb = Part(all, a, b)
    <2>1. IsPart(Unit, cb, all, a, size)
      BY DEF IsCluster, all, a, size
    <2> QED
      BY <1>8, <2>1, SamePart
  <1>10. Part(all, 0, a) \in Seq(Unit) /\ cb \in Seq(Unit) /\ Part(all, b, c) \in Seq(Unit)
    <2>1. IsPart(Unit, Part(all, 0, a), all, 0, a - 0)
      <3>1. 0 <= a /\ a <= c
        BY <1>3
      <3> QED
        BY <1>1, <1>3, <1>4, <3>1, PartIs
    <2>2. IsPart(Unit, Part(all, b, c), all, b, c - b)
      <3>1. c <= c
        BY <1>3
      <3> QED
        BY <1>1, <1>3, <1>4, <3>1, PartIs
    <2> QED
      BY <1>8, <1>9, <2>1, <2>2 DEF IsPart
  <1>11. Pre(d, m) = Part(all, 0, a) /\ Pre(d, m + 1) = Part(all, 0, b)
    BY DEF Pre, all, a, b, size
  <1> QED
    BY <1>5, <1>6, <1>7, <1>9, <1>10, <1>11 DEF all, PreGrows

LEMMA PreZero ==
    ASSUME NEW d, GoodDisk(d)
    PROVE  Pre(d, 0) = << >> /\ ~Ends(Pre(d, 0)) /\ Listed(Pre(d, 0)) = << >> /\ \A x : ~InLive(Pre(d, 0), x)
  <1>1. SizeOf(d) \in Nat /\ 0 * SizeOf(d) = 0
    BY SizeType
  <1>2. All(d) \in Seq(Unit)
    BY AllIs
  <1>3. Pre(d, 0) = << >>
    <2>1. SubSeq(All(d), 0 + 1, 0) = << >>
      BY <1>2
    <2> QED
      BY <1>1, <2>1 DEF Pre, Part
  <1>4. ~Ends(<< >>)
    BY DEF Ends
  <1>5. << >> \in Seq(Unit)
    OBVIOUS
  <1>6. \A X : Without(<< >>, X) = << >>
    <2> SUFFICES ASSUME NEW X PROVE Without(<< >>, X) = << >>
      OBVIOUS
    <2> DEFINE e == << >>
    <2>0. e \in Seq(Unit) /\ Len(e) = 0
      OBVIOUS
    <2>1. PICK f : Keeping(Unit, f, e, X) /\ Without(e, X) = f[Len(e)]
      <3> HIDE DEF e
      <3> QED
        BY <2>0, WithoutIs
    <2> QED
      BY <2>0, <2>1 DEF Keeping
  <1>7. BeforeEnd(<< >>) = << >>
    BY <1>4, <1>5, BeforeType
  <1>8. Live(<< >>) = << >> /\ Listed(<< >>) = << >>
    BY <1>6, <1>7 DEF Live, Listed
  <1>9. DOMAIN << >> = {}
    OBVIOUS
  <1> QED
    BY <1>3, <1>4, <1>8, <1>9 DEF InLive, Holds

LEMMA PreAll ==
    ASSUME NEW d, GoodDisk(d)
    PROVE  Pre(d, Len(Clusters(d))) = All(d) /\ All(d) \in Seq(Unit) /\ Len(All(d)) \in Nat
           /\ Len(All(d)) = Len(Clusters(d)) * SizeOf(d)
  <1>1. All(d) \in Seq(Unit) /\ Len(All(d)) = Len(Clusters(d)) * SizeOf(d)
    BY AllIs
  <1>2. Part(All(d), 0, Len(All(d))) = All(d)
    BY <1>1, PartWhole
  <1> QED
    BY <1>1, <1>2 DEF Pre

LEMMA PreType ==
    ASSUME NEW d, GoodDisk(d), NEW m \in Nat, m <= Len(Clusters(d))
    PROVE  Pre(d, m) \in Seq(Unit)
  <1> DEFINE n == Len(Clusters(d))
  <1>0. n \in Nat
    <2>1. IsChain(d, Clusters(d))
      BY ClustersAre
    <2> QED
      BY <2>1 DEF IsChain
  <1>1. CASE m < n
    <2>1. /\ SizeOf(d) \in Nat /\ Len(All(d)) \in Nat /\ All(d) \in Seq(Unit)
          /\ m * SizeOf(d) \in Nat /\ m * SizeOf(d) + SizeOf(d) <= Len(All(d))
      BY <1>1, ClusterFits
    <2> DEFINE a == m * SizeOf(d)
               all == All(d)
    <2>2. a \in Nat /\ 0 <= a /\ all \in Seq(Unit) /\ a <= Len(all)
      BY <2>1
    <2> HIDE DEF a, all
    <2>3. IsPart(Unit, Part(all, 0, a), all, 0, a - 0)
      BY <2>2, PartIs
    <2> QED
      BY <2>3 DEF IsPart, Pre, all, a
  <1>2. CASE ~(m < n)
    <2>1. m = n
      BY <1>0, <1>2
    <2> QED
      BY <2>1, PreAll
  <1> QED
    BY <1>1, <1>2

-----------------------------------------------------------------------------
\* fat32_read_file.
LEMMA UpToIs ==
    ASSUME NEW A, NEW s \in Seq(A), NEW n \in Nat
    PROVE  /\ n <= Len(s) => UpTo(s, n) = Part(s, 0, n) /\ Len(UpTo(s, n)) = n
           /\ n >= Len(s) => UpTo(s, n) = s
           /\ UpTo(s, n) \in Seq(A)
  <1>1. Len(s) \in Nat /\ 0 + 1 = 1
    OBVIOUS
  <1>2. ASSUME n <= Len(s) PROVE UpTo(s, n) = Part(s, 0, n) /\ Len(UpTo(s, n)) = n /\ UpTo(s, n) \in Seq(A)
    <2>1. UpTo(s, n) = Part(s, 0, n)
      BY <1>1, <1>2 DEF UpTo, Part
    <2>2. IsPart(A, Part(s, 0, n), s, 0, n - 0)
      <3>1. 0 <= n
        OBVIOUS
      <3> QED
        BY <1>2, <3>1, PartIs
    <2> QED
      BY <2>1, <2>2 DEF IsPart
  <1>3. ASSUME n >= Len(s) PROVE UpTo(s, n) = s
    <2>1. (IF n > Len(s) THEN Len(s) ELSE n) = Len(s)
      BY <1>1, <1>3
    <2>2. UpTo(s, n) = Part(s, 0, Len(s))
      BY <1>1, <2>1 DEF UpTo, Part
    <2> QED
      BY <2>2, PartWhole
  <1> QED
    BY <1>1, <1>2, <1>3

LEMMA ReadEnds ==
    ASSUME NEW d, GoodDisk(d), NEW a \in Nat, NEW l \in Nat, a < Len(All(d)),
           NEW e \in Nat, e = (IF a + l > Len(All(d)) THEN Len(All(d)) ELSE a + l)
    PROVE  ReadEnd(d, a, l, Part(All(d), a, e))
  <1> DEFINE all == All(d)
             cut == UpTo(all, a + l)
  <1>1. all \in Seq(Unit) /\ Len(all) \in Nat /\ a + l \in Nat
    BY PreAll
  <1>2. a <= e /\ e <= Len(all) /\ 0 <= e
    BY <1>1
  <1>3. cut = Part(all, 0, e) /\ Len(cut) = e
    <2>1. CASE a + l > Len(all)
      <3>1. cut = all
        <4> HIDE DEF all
        <4> QED
          BY <1>1, <2>1, UpToIs
      <3>2. e = Len(all)
        BY <2>1
      <3>3. Part(all, 0, Len(all)) = all
        BY <1>1, PartWhole
      <3> HIDE DEF all, cut
      <3> QED
        BY <3>1, <3>2, <3>3
    <2>2. CASE ~(a + l > Len(all))
      <3>1. e = a + l /\ e <= Len(all)
        BY <1>1, <2>2
      <3> HIDE DEF all
      <3> QED
        BY <1>1, <3>1, UpToIs
    <2> QED
      BY <2>1, <2>2
  <1> HIDE DEF all, cut
  <1>4. Part(Part(all, 0, e), a, e) = Part(all, 0 + a, 0 + e)
    <2>1. e <= e - 0
      BY <1>2
    <2> QED
      BY <1>1, <1>2, <2>1, PartOfPart
  <1>5. SubSeq(cut, a + 1, Len(cut)) = Part(all, a, e)
    <2>1. 0 + a = a /\ 0 + e = e
      OBVIOUS
    <2> QED
      BY <1>3, <1>4, <2>1 DEF Part
  <1> QED
    BY <1>5 DEF ReadEnd, all, cut

\* The end of the chain.
LEMMA ReadAll ==
    ASSUME NEW d, GoodDisk(d), NEW a \in Nat, NEW l \in Nat, NEW buf \in Seq(Unit), NEW len \in Nat,
           ReadTo(d, a, l, buf, len, Len(Clusters(d)), 0)
    PROVE  ReadEnd(d, a, l, buf)
  <1> DEFINE all == All(d)
             e == Len(all)
  <1>1. e \in Nat /\ e = Len(Clusters(d)) * SizeOf(d)
    BY PreAll
  <1>2. Len(buf) \in Nat
    OBVIOUS
  <1>3. a < e /\ e = a + Len(buf) /\ Len(buf) + len = l /\ len > 0 /\ buf = Part(all, a, a + Len(buf))
    BY <1>1 DEF ReadTo
  <1>4. e = (IF a + l > e THEN e ELSE a + l)
    BY <1>1, <1>2, <1>3
  <1>5. ReadEnd(d, a, l, Part(all, a, e))
    <2> HIDE DEF e
    <2> QED
      BY <1>1, <1>3, <1>4, ReadEnds DEF e
  <1> QED
    BY <1>3, <1>5

\* One cluster is copied.
LEMMA ReadCopied ==
    ASSUME NEW d, GoodDisk(d), NEW a \in Nat, NEW l \in Nat, NEW buf \in Seq(Unit), NEW len \in Nat,
           NEW m \in Nat, m < Len(Clusters(d)), NEW off \in Nat, off < SizeOf(d),
           ReadTo(d, a, l, buf, len, m, off), NEW cb, IsCluster(d, m, cb),
           NEW k \in Nat, k <= len, off + k <= SizeOf(d), k = len \/ off + k = SizeOf(d)
    PROVE  /\ buf \o SubSeq(cb, off + 1, off + k) \in Seq(Unit) /\ len - k \in Nat
           /\ \/ ReadTo(d, a, l, buf \o SubSeq(cb, off + 1, off + k), len - k, m + 1, 0)
              \/ len - k = 0 /\ ReadEnd(d, a, l, buf \o SubSeq(cb, off + 1, off + k))
  <1> DEFINE all == All(d)
             size == SizeOf(d)
             x == m * size
             z == Len(all)
             b == Len(buf)
  <1>1. all \in Seq(Unit) /\ size \in Nat /\ z \in Nat /\ b \in Nat
    BY ClusterFits
  <1>2. x + size <= z /\ x \in Nat
    BY ClusterFits
  <1> DEFINE y == (m + 1) * size
             q == a + b
             e == q + k
  <1>20. y = x + size
    BY ClusterFits
  <1>3. a < z /\ x + off = q /\ q = a + b /\ b + len = l /\ len > 0 /\ buf = Part(all, a, q)
    BY DEF ReadTo
  <1>4. off + k <= size /\ (k = len \/ off + k = size) /\ z = Len(all)
    OBVIOUS
  <1>5. IsPart(Unit, cb, all, x, size)
    BY DEF IsCluster
  <1> HIDE DEF all, size, x, y, z, b, q
  <1>0. /\ k <= len /\ off + k <= size /\ len - k \in Nat
        /\ len - k > 0 => off + k = size
        /\ ~(len - k > 0) => len - k = 0
    BY <1>1, <1>4
  <1>6. cb = Part(all, x, x + size)
    <2>1. IsPart(Unit, Part(all, x, x + size), all, x, (x + size) - x)
      <3>1. x + size \in Nat /\ x <= x + size
        BY <1>1, <1>2
      <3> QED
        BY <1>1, <1>2, <3>1, PartIs DEF z
    <2>2. (x + size) - x = size
      BY <1>1, <1>2
    <2> QED
      BY <1>5, <2>1, <2>2, SamePart
  <1>7. Part(cb, off, off + k) = Part(all, x + off, x + (off + k))
    <2>1. x + size \in Nat /\ x <= x + size /\ x + size <= Len(all) /\ off + k \in Nat /\ off <= off + k
          /\ off + k <= (x + size) - x
      BY <1>0, <1>1, <1>2, <1>4
    <2> QED
      BY <1>1, <1>2, <1>6, <2>1, PartOfPart
  <1>8. e \in Nat /\ q \in Nat /\ a <= q /\ q <= e /\ e <= z /\ a <= e /\ x + (off + k) = e /\ x + off = q
    BY <1>0, <1>1, <1>2, <1>3
  <1>21. e = a + (b + k) /\ (b + k) + (len - k) = l /\ (len - k > 0 => y = e) /\ (len - k = 0 => e = a + l)
    BY <1>0, <1>1, <1>2, <1>3, <1>20
  <1> HIDE DEF e
  <1>9. buf \o Part(cb, off, off + k) = Part(all, a, e)
    <2>1. Part(all, a, q) \o Part(all, q, e) = Part(all, a, e)
      <3>1. e <= Len(all)
        BY <1>4, <1>8
      <3>2. all \in Seq(Unit) /\ q \in Nat /\ e \in Nat /\ a <= q /\ q <= e
        BY <1>1, <1>8
      <3> HIDE DEF all, q
      <3> QED
        <4>1. Joins(all, a, q, e)
          BY <3>1, <3>2, PartsAreJoined
        <4> QED
          BY <4>1 DEF Joins
    <2> QED
      BY <1>3, <1>7, <1>8, <2>1
  <1> DEFINE new == Part(all, a, e)
  <1>10. new \in Seq(Unit) /\ Len(new) = b + k
    <2>1. IsPart(Unit, new, all, a, e - a)
      BY <1>1, <1>4, <1>8, PartIs
    <2>2. e - a = b + k
      BY <1>1, <1>21
    <2> QED
      BY <2>1, <2>2 DEF IsPart
  <1>11. buf \o SubSeq(cb, off + 1, off + k) = new
    BY <1>9 DEF Part
  <1> HIDE DEF new
  <1>12. len - k \in Nat
    BY <1>0
  <1>13. CASE len - k > 0
    <2>1. (m + 1) * size + 0 = a + Len(new)
      <3>1. y + 0 = a + Len(new)
        BY <1>8, <1>10, <1>13, <1>21
      <3> QED
        BY <3>1 DEF y
    <2>2. Len(new) + (len - k) = l
      BY <1>10, <1>21
    <2>3. new = Part(all, a, a + Len(new))
      BY <1>10, <1>21 DEF new
    <2>4. ReadTo(d, a, l, new, len - k, m + 1, 0)
      BY <1>3, <1>13, <2>1, <2>2, <2>3 DEF ReadTo, all, size, z
    <2> QED
      BY <1>10, <1>11, <1>12, <2>4
  <1>14. CASE ~(len - k > 0)
    <2>1. len - k = 0 /\ e = a + l
      BY <1>0, <1>14, <1>21
    <2>2. e = (IF a + l > z THEN z ELSE a + l)
      BY <1>1, <1>4, <1>8, <2>1
    <2>3. ReadEnd(d, a, l, Part(All(d), a, e))
      BY <1>3, <1>8, <2>2, ReadEnds DEF z, all
    <2> QED
      BY <1>10, <1>11, <1>12, <2>1, <2>3 DEF new, all
  <1> QED
    BY <1>13, <1>14

-----------------------------------------------------------------------------
\* The directory calls.

\* A sequence cut at its start.
LEMMA JoinCut ==
    ASSUME NEW A, NEW s \in Seq(A), NEW t \in Seq(A)
    PROVE  Part(s \o t, 0, Len(s)) = s /\ IsPrefix(s, s \o t)
  <1> DEFINE w == s \o t
             n == Len(s)
  <1>1. IsJoin(A, w, s, t)
    BY JoinIs
  <1> HIDE DEF w
  <1>2. w \in Seq(A) /\ n \in Nat /\ Len(w) \in Nat /\ n <= Len(w) /\ \A i \in 1 .. n : w[i] = s[i]
    <2>1. Len(t) \in Nat /\ Len(s) \in Nat
      OBVIOUS
    <2> QED
      BY <1>1, <2>1 DEF IsJoin
  <1>3. IsPart(A, s, w, 0, n)
    <2>1. \A i \in 1 .. n : s[i] = w[0 + i]
      BY <1>2
    <2> QED
      BY <2>1 DEF IsPart
  <1>4. IsPart(A, Part(w, 0, n), w, 0, n)
    <2>1. IsPart(A, Part(w, 0, n), w, 0, n - 0)
      <3> HIDE DEF n
      <3>1. 0 <= n
        BY <1>2
      <3> QED
        BY <1>2, <3>1, PartIs
    <2>2. n - 0 = n
      BY <1>2
    <2> QED
      BY <2>1, <2>2
  <1>5. Part(w, 0, n) = s
    BY <1>3, <1>4, SamePart
  <1>6. Part(s, 0, n) = s
    BY PartWhole
  <1>7. IsPrefix(s, w)
    <2>1. 0 + 1 = 1
      OBVIOUS
    <2> QED
      BY <1>2, <1>5, <1>6, <2>1 DEF IsPrefix, Part
  <1> QED
    BY <1>5, <1>7 DEF w

LEMMA JoinNothing ==
    ASSUME NEW A, NEW s \in Seq(A)
    PROVE  s \o << >> = s
  OBVIOUS

LEMMA JoinTwice ==
    ASSUME NEW A, NEW s \in Seq(A), NEW t \in Seq(A), NEW r \in Seq(A)
    PROVE  (s \o t) \o r = s \o (t \o r)
  OBVIOUS

\* A part of the first sequence is a part of the two.
LEMMA PartOfJoin ==
    ASSUME NEW A, NEW s \in Seq(A), NEW t \in Seq(A), NEW n \in Nat, n <= Len(s)
    PROVE  Part(s \o t, 0, n) = Part(s, 0, n)
  <1> DEFINE w == s \o t
             b == Len(s)
  <1>1. w \in Seq(A) /\ b \in Nat /\ Len(w) \in Nat /\ b <= Len(w) /\ Part(w, 0, b) = s /\ n <= b
    <2>1. IsJoin(A, w, s, t)
      BY JoinIs
    <2>2. Len(t) \in Nat /\ Len(s) \in Nat
      OBVIOUS
    <2>3. Part(w, 0, b) = s
      BY JoinCut
    <2> HIDE DEF w
    <2> QED
      BY <2>1, <2>2, <2>3 DEF IsJoin
  <1> HIDE DEF w, b
  <1>2. 0 <= b /\ 0 <= n /\ n <= b - 0 /\ 0 + 0 = 0 /\ 0 + n = n
    BY <1>1
  <1>3. Part(Part(w, 0, b), 0, n) = Part(w, 0 + 0, 0 + n)
    BY <1>1, <1>2, PartOfPart
  <1> QED
    BY <1>1, <1>2, <1>3 DEF w

\* What is cut from the first sequence and as much of the second as there is room for.
LEMMA UpToJoin ==
    ASSUME NEW A, NEW s \in Seq(A), NEW t \in Seq(A), NEW n \in Nat, Len(s) <= n
    PROVE  /\ UpTo(s \o t, n) = s \o UpTo(t, n - Len(s))
           /\ Len(s) + Len(t) < n => s \o UpTo(t, n - Len(s)) = s \o t /\ Len(s \o t) < n
           /\ ~(Len(s) + Len(t) < n) => Len(s \o UpTo(t, n - Len(s))) = n
  <1> DEFINE w == s \o t
             b == Len(s)
             k == n - b
  <1>1. IsJoin(A, w, s, t)
    BY JoinIs
  <1>2. b \in Nat /\ Len(t) \in Nat /\ k \in Nat /\ n = b + k
    OBVIOUS
  <1> HIDE DEF w, k
  <1>3. w \in Seq(A) /\ Len(w) = b + Len(t) /\ \A i \in 1 .. Len(t) : w[b + i] = t[i]
    BY <1>1 DEF IsJoin
  <1>4. CASE k >= Len(t)
    <2>1. UpTo(t, k) = t
      BY <1>2, <1>4, UpToIs
    <2>2. n >= Len(w)
      BY <1>2, <1>3, <1>4
    <2>3. UpTo(w, n) = w
      BY <1>3, <2>2, UpToIs
    <2>4. Len(w) \in Nat /\ (b + Len(t) < n => Len(w) < n) /\ (~(b + Len(t) < n) => Len(w) = n)
      BY <1>2, <1>3, <1>4
    <2> QED
      BY <2>1, <2>3, <2>4 DEF w, k
  <1>5. CASE ~(k >= Len(t))
    <2>1. k <= Len(t) /\ n <= Len(w) /\ b <= n /\ ~(b + Len(t) < n) /\ 0 <= b
      BY <1>2, <1>3, <1>5
    <2>2. UpTo(t, k) = Part(t, 0, k) /\ Len(UpTo(t, k)) = k
      BY <1>2, <2>1, UpToIs
    <2>3. UpTo(w, n) = Part(w, 0, n) /\ Len(UpTo(w, n)) = n
      BY <1>3, <2>1, UpToIs
    <2>4. Part(w, 0, b) \o Part(w, b, n) = Part(w, 0, n)
      <3> HIDE DEF b
      <3> QED
        <4>1. Joins(w, 0, b, n)
          BY <1>2, <1>3, <2>1, PartsAreJoined
        <4> QED
          BY <4>1 DEF Joins
    <2>5. Part(w, 0, b) = s
      BY JoinCut DEF w
    <2>6. Part(w, b, n) = Part(t, 0, k)
      <3>1. IsPart(A, Part(w, b, n), w, b, n - b)
        <4> HIDE DEF b
        <4> QED
          BY <1>2, <1>3, <2>1, PartIs
      <3>2. IsPart(A, Part(t, 0, k), t, 0, k - 0)
        <4>1. 0 <= k
          BY <1>2
        <4> QED
          BY <1>2, <2>1, <4>1, PartIs
      <3>3. n - b = k /\ k - 0 = k
        BY <1>2
      <3>4. IsPart(A, Part(w, b, n), t, 0, k)
        <4> DEFINE p == Part(w, b, n)
        <4>1. p \in Seq(A) /\ Len(p) = k /\ \A i \in 1 .. k : p[i] = w[b + i]
          BY <3>1, <3>3 DEF IsPart
        <4>2. \A i \in 1 .. k : w[b + i] = t[0 + i]
          BY <1>2, <1>3, <2>1
        <4> HIDE DEF p
        <4>3. IsPart(A, p, t, 0, k)
          BY <4>1, <4>2 DEF IsPart
        <4> QED
          BY <4>3 DEF p
      <3> QED
        BY <3>2, <3>3, <3>4, SamePart
    <2> QED
      BY <2>1, <2>2, <2>3, <2>4, <2>5, <2>6 DEF w, k
  <1> QED
    BY <1>4, <1>5

\* The entries after one more cluster, and those that follow.
DirGrows(d, m, cb) ==
    /\ Listed(Pre(d, m)) \in Seq(Unit) /\ Live(Pre(d, m)) \in Seq(Unit)
    /\ Listed(cb) \in Seq(Unit) /\ Live(cb) \in Seq(Unit)
    /\ Listed(Pre(d, m + 1)) = Listed(Pre(d, m)) \o Listed(cb)
    /\ Live(Pre(d, m + 1)) = Live(Pre(d, m)) \o Live(cb)
    /\ Ends(Pre(d, m + 1)) <=> Ends(cb)

DirRest(d, m, r, q) ==
    /\ r \in Seq(Unit) /\ Listed(All(d)) = Listed(Pre(d, m)) \o r
    /\ q \in Seq(Unit) /\ Live(All(d)) = Live(Pre(d, m)) \o q
    /\ Ends(Pre(d, m)) => r = << >> /\ q = << >>

LEMMA RestIs ==
    ASSUME NEW d, NEW m, NEW p \in Seq(Unit), NEW rest \in Seq(Unit), Pre(d, m) = p, All(d) = p \o rest
    PROVE  \E r, q : DirRest(d, m, r, q)
  <1>1. /\ Live(p) \in Seq(Unit) /\ Listed(p) \in Seq(Unit)
        /\ Ends(p) => Live(p \o rest) = Live(p) /\ Listed(p \o rest) = Listed(p)
        /\ ~Ends(p) => Live(p \o rest) = Live(p) \o Live(rest) /\ Listed(p \o rest) = Listed(p) \o Listed(rest)
    <2>1. LiveJoined(Unit, p, rest)
      BY JoinLive
    <2> QED
      BY <2>1 DEF LiveJoined
  <1>2. Live(rest) \in Seq(Unit) /\ Listed(rest) \in Seq(Unit)
    BY LiveType
  <1>3. CASE Ends(p)
    <2>1. Live(p) \o << >> = Live(p) /\ Listed(p) \o << >> = Listed(p)
      BY <1>1, JoinNothing
    <2>2. << >> \in Seq(Unit)
      OBVIOUS
    <2>3. DirRest(d, m, << >>, << >>)
      BY <1>1, <1>3, <2>1, <2>2 DEF DirRest
    <2> QED
      BY <2>3
  <1>4. CASE ~Ends(p)
    <2>1. DirRest(d, m, Listed(rest), Live(rest))
      BY <1>1, <1>2, <1>4 DEF DirRest
    <2> QED
      BY <2>1
  <1> QED
    BY <1>3, <1>4

LEMMA DirNext ==
    ASSUME NEW d, GoodDisk(d), NEW m \in Nat, m < Len(Clusters(d)), NEW cb, IsCluster(d, m, cb), ~Ends(Pre(d, m))
    PROVE  DirGrows(d, m, cb) /\ \E r, q : DirRest(d, m + 1, r, q)
  <1> DEFINE p == Pre(d, m)
             w == p \o cb
  <1>1. p \in Seq(Unit) /\ cb \in Seq(Unit) /\ Pre(d, m + 1) = w
    <2>1. PreGrows(d, m, cb)
      BY PreNext
    <2> QED
      BY <2>1 DEF PreGrows
  <1>2. PICK rest \in Seq(Unit) : All(d) = w \o rest
    <2>1. PreGrows(d, m, cb)
      BY PreNext
    <2> QED
      BY <2>1 DEF PreGrows
  <1>3. /\ Live(p) \in Seq(Unit) /\ Listed(p) \in Seq(Unit)
        /\ Live(w) = Live(p) \o Live(cb) /\ Listed(w) = Listed(p) \o Listed(cb)
    <2>1. ~Ends(p)
      OBVIOUS
    <2> HIDE DEF p
    <2>2. LiveJoined(Unit, p, cb)
      BY <1>1, JoinLive
    <2> QED
      BY <2>1, <2>2 DEF LiveJoined
  <1>4. Live(cb) \in Seq(Unit) /\ Listed(cb) \in Seq(Unit)
    BY <1>1, LiveType
  <1>5. Ends(w) <=> Ends(cb)
    <2> HIDE DEF p
    <2>1. Ends(w) <=> Ends(p) \/ Ends(cb)
      BY <1>1, JoinEnds
    <2> QED
      BY <2>1 DEF p
  <1>6. w \in Seq(Unit)
    <2> HIDE DEF p
    <2> QED
      BY <1>1
  <1>7. DirGrows(d, m, cb)
    BY <1>1, <1>3, <1>4, <1>5 DEF DirGrows
  <1>8. \E r, q : DirRest(d, m + 1, r, q)
    <2> HIDE DEF w
    <2> QED
      BY <1>1, <1>2, <1>6, RestIs
  <1> QED
    BY <1>7, <1>8

\* What follows the first m clusters.
LEMMA PreRest ==
    ASSUME NEW d, GoodDisk(d), NEW m \in Nat, m <= Len(Clusters(d))
    PROVE  \E r, q : DirRest(d, m, r, q)
  <1> DEFINE n == Len(Clusters(d))
             p == Pre(d, m)
  <1>0. n \in Nat
    <2>1. IsChain(d, Clusters(d))
      BY ClustersAre
    <2> QED
      BY <2>1 DEF IsChain
  <1>1. CASE m < n
    <2>1. /\ SizeOf(d) \in Nat /\ Len(All(d)) \in Nat /\ All(d) \in Seq(Unit)
          /\ m * SizeOf(d) \in Nat /\ m * SizeOf(d) + SizeOf(d) <= Len(All(d))
      BY <1>1, ClusterFits
    <2> DEFINE a == m * SizeOf(d)
               all == All(d)
               c == Len(all)
    <2>2. a \in Nat /\ c \in Nat /\ 0 <= a /\ a <= c /\ all \in Seq(Unit) /\ c = Len(all) /\ c <= Len(all) /\ a <= Len(all)
      BY <2>1
    <2> HIDE DEF a, all, c
    <2>3. Part(all, 0, a) \o Part(all, a, c) = Part(all, 0, c) /\ Part(all, 0, c) = all
      BY <2>2, PartsJoin, PartWhole
    <2>4. Part(all, 0, a) \in Seq(Unit) /\ Part(all, a, c) \in Seq(Unit)
      <3>1. IsPart(Unit, Part(all, 0, a), all, 0, a - 0)
        BY <2>2, PartIs
      <3>2. IsPart(Unit, Part(all, a, c), all, a, c - a)
        BY <2>2, PartIs
      <3> QED
        BY <3>1, <3>2 DEF IsPart
    <2>5. p = Part(all, 0, a) /\ All(d) = all
      BY DEF Pre, all, a
    <2>6. p \in Seq(Unit) /\ All(d) = p \o Part(all, a, c)
      BY <2>3, <2>4, <2>5
    <2> HIDE DEF p
    <2>7. Pre(d, m) = p
      BY DEF p
    <2> QED
      BY <2>4, <2>6, <2>7, RestIs
  <1>2. CASE ~(m < n)
    <2>1. m = n
      BY <1>0, <1>2
    <2>2. Pre(d, m) = All(d) /\ All(d) \in Seq(Unit)
      BY <2>1, PreAll
    <2>3. All(d) \o << >> = All(d) /\ << >> \in Seq(Unit)
      BY <2>2, JoinNothing
    <2> QED
      BY <2>2, <2>3, RestIs
  <1> QED
    BY <1>1, <1>2

\* fat32_list_root.
LEMMA ListAll ==
    ASSUME NEW d, GoodDisk(d), NEW max \in Nat, NEW buf, ListTo(d, max, buf, Len(Clusters(d)))
    PROVE  ListEnd(d, max, buf)
  <1>1. Pre(d, Len(Clusters(d))) = All(d) /\ All(d) \in Seq(Unit)
    BY PreAll
  <1>2. buf = Listed(All(d)) /\ Len(buf) < max
    BY <1>1 DEF ListTo
  <1>3. buf \in Seq(Unit)
    BY <1>1, <1>2, LiveType
  <1>4. Len(buf) \in Nat
    BY <1>3
  <1>5. max >= Len(buf)
    BY <1>2, <1>4
  <1>6. UpTo(buf, max) = buf
    BY <1>3, <1>5, UpToIs
  <1> QED
    BY <1>2, <1>6 DEF ListEnd

LEMMA ListPrefix ==
    ASSUME NEW d, GoodDisk(d), NEW max \in Nat, NEW buf,
           ListEnd(d, max, buf) \/ \E m \in Nat : m <= Len(Clusters(d)) /\ buf = Listed(Pre(d, m))
    PROVE  IsPrefix(buf, Listed(All(d)))
  <1> DEFINE all == Listed(All(d))
  <1>1. all \in Seq(Unit)
    <2>1. All(d) \in Seq(Unit)
      BY PreAll
    <2> QED
      BY <2>1, LiveType
  <1>2. CASE ListEnd(d, max, buf)
    <2>1. buf = UpTo(all, max)
      BY <1>2 DEF ListEnd
    <2> HIDE DEF all
    <2>2. Len(all) \in Nat
      BY <1>1
    <2>3. CASE max <= Len(all)
      <3>1. buf = Part(all, 0, max) /\ Len(buf) = max
        BY <1>1, <2>1, <2>3, UpToIs
      <3>2. buf \in Seq(Unit)
        BY <1>1, <2>1, UpToIs
      <3>3. Part(buf, 0, Len(buf)) = buf
        BY <3>2, PartWhole
      <3>4. 0 + 1 = 1
        OBVIOUS
      <3>5. IsPrefix(buf, all)
        BY <2>3, <3>1, <3>3, <3>4 DEF IsPrefix, Part
      <3> QED
        BY <3>5 DEF all
    <2>4. CASE ~(max <= Len(all))
      <3>1. max >= Len(all)
        BY <2>2, <2>4
      <3>2. buf = all
        BY <1>1, <2>1, <3>1, UpToIs
      <3>3. Len(all) <= Len(all)
        BY <2>2
      <3>4. IsPrefix(all, all)
        BY <3>3 DEF IsPrefix
      <3> QED
        BY <3>2, <3>4 DEF all
    <2> QED
      BY <2>3, <2>4
  <1>3. CASE \E m \in Nat : m <= Len(Clusters(d)) /\ buf = Listed(Pre(d, m))
    <2>1. PICK m \in Nat : m <= Len(Clusters(d)) /\ buf = Listed(Pre(d, m))
      BY <1>3
    <2>2. PICK r, q : DirRest(d, m, r, q)
      BY <2>1, PreRest
    <2>3. r \in Seq(Unit) /\ Listed(All(d)) = buf \o r
      BY <2>1, <2>2 DEF DirRest
    <2>4. buf \in Seq(Unit)
      <3>1. Pre(d, m) \in Seq(Unit)
        BY <2>1, PreType
      <3> QED
        BY <2>1, <3>1, LiveType
    <2>5. IsPrefix(buf, buf \o r)
      BY <2>3, <2>4, JoinCut
    <2> QED
      BY <2>3, <2>5
  <1> QED
    BY <1>2, <1>3

\* One cluster is listed: the directory ends in it, the listing is full, or it goes on.
LEMMA ListCluster ==
    ASSUME NEW d, GoodDisk(d), NEW max \in Nat, NEW buf, NEW m \in Nat, m < Len(Clusters(d)),
           ListTo(d, max, buf, m), NEW cb, IsCluster(d, m, cb)
    PROVE  /\ buf \in Seq(Unit) /\ Len(buf) \in Nat /\ Listed(cb) \in Seq(Unit) /\ Len(Listed(cb)) \in Nat
           /\ buf \o UpTo(Listed(cb), max - Len(buf)) \in Seq(Unit)
           /\ \/ /\ Ends(cb) /\ Len(buf) + Len(Listed(cb)) < max
                 /\ ListEnd(d, max, buf \o UpTo(Listed(cb), max - Len(buf)))
              \/ ~Ends(cb) /\ ListTo(d, max, buf \o UpTo(Listed(cb), max - Len(buf)), m + 1)
              \/ /\ Len(buf \o UpTo(Listed(cb), max - Len(buf))) = max /\ ~(Len(buf) + Len(Listed(cb)) < max)
                 /\ ListEnd(d, max, buf \o UpTo(Listed(cb), max - Len(buf)))
  <1> DEFINE new == Listed(cb)
             w == buf \o new
             B == buf \o UpTo(new, max - Len(buf))
  <1>1. buf = Listed(Pre(d, m)) /\ Len(buf) < max /\ ~Ends(Pre(d, m))
    BY DEF ListTo
  <1>2. DirGrows(d, m, cb) /\ \E r, q : DirRest(d, m + 1, r, q)
    BY <1>1, DirNext
  <1>3. buf \in Seq(Unit) /\ new \in Seq(Unit) /\ Listed(Pre(d, m + 1)) = w /\ (Ends(Pre(d, m + 1)) <=> Ends(cb))
    BY <1>1, <1>2 DEF DirGrows
  <1>4. PICK r \in Seq(Unit) : Listed(All(d)) = w \o r /\ (Ends(cb) => r = << >>)
    <2>1. PICK r, q : DirRest(d, m + 1, r, q)
      BY <1>2
    <2> QED
      BY <1>3, <2>1 DEF DirRest
  <1> HIDE DEF new
  <1>5. Len(buf) \in Nat /\ Len(new) \in Nat /\ Len(buf) <= max /\ max - Len(buf) \in Nat
    BY <1>1, <1>3
  <1>6. /\ UpTo(w, max) = B
        /\ Len(buf) + Len(new) < max => B = w /\ Len(w) < max
        /\ ~(Len(buf) + Len(new) < max) => Len(B) = max
    BY <1>3, <1>5, UpToJoin
  <1>7. w \in Seq(Unit) /\ B \in Seq(Unit) /\ Len(w) \in Nat /\ Len(w) = Len(buf) + Len(new)
    <2>1. w \in Seq(Unit) /\ Len(w) = Len(buf) + Len(new)
      BY <1>3
    <2> HIDE DEF w, B
    <2>2. Len(w) \in Nat
      BY <2>1
    <2>3. UpTo(w, max) \in Seq(Unit)
      BY <2>1, UpToIs
    <2> QED
      BY <1>6, <2>1, <2>2, <2>3
  <1> HIDE DEF w, B
  <1>8. CASE Len(buf) + Len(new) < max
    <2>1. B = w /\ Len(w) < max
      BY <1>6, <1>8
    <2>2. CASE Ends(cb)
      <3>1. w \o r = w
        BY <1>4, <1>7, <2>2, JoinNothing
      <3>2. max >= Len(w)
        BY <1>7, <2>1
      <3>3. UpTo(w, max) = w
        BY <1>7, <3>2, UpToIs
      <3>4. ListEnd(d, max, B)
        BY <1>4, <2>1, <3>1, <3>3 DEF ListEnd
      <3> QED
        BY <1>3, <1>5, <1>7, <1>8, <2>2, <3>4 DEF B, new
    <2>3. CASE ~Ends(cb)
      <3>1. ListTo(d, max, B, m + 1)
        BY <1>3, <2>1, <2>3 DEF ListTo
      <3> QED
        BY <1>3, <1>5, <1>7, <2>3, <3>1 DEF B, new
    <2> QED
      BY <2>2, <2>3
  <1>9. CASE ~(Len(buf) + Len(new) < max)
    <2>1. Len(B) = max
      BY <1>6, <1>9
    <2>2. max <= Len(w)
      BY <1>5, <1>7, <1>9
    <2>3. B = Part(w, 0, max)
      BY <1>6, <1>7, <2>2, UpToIs
    <2>4. Part(w \o r, 0, max) = Part(w, 0, max)
      BY <1>7, <2>2, PartOfJoin
    <2>5. w \o r \in Seq(Unit) /\ max <= Len(w \o r)
      <3>1. IsJoin(Unit, w \o r, w, r)
        BY <1>7, JoinIs
      <3>2. Len(r) \in Nat
        OBVIOUS
      <3>3. w \o r \in Seq(Unit) /\ Len(w \o r) = Len(w) + Len(r)
        BY <3>1 DEF IsJoin
      <3> QED
        BY <1>7, <2>2, <3>2, <3>3
    <2>6. UpTo(w \o r, max) = Part(w \o r, 0, max)
      <3> DEFINE u == w \o r
      <3>1. u \in Seq(Unit) /\ max <= Len(u)
        BY <2>5
      <3> HIDE DEF u
      <3>2. UpTo(u, max) = Part(u, 0, max)
        BY <3>1, UpToIs
      <3> QED
        BY <3>2 DEF u
    <2>7. ListEnd(d, max, B)
      BY <1>4, <2>3, <2>4, <2>6 DEF ListEnd
    <2> QED
      BY <1>3, <1>5, <1>7, <1>9, <2>1, <2>7 DEF B, new
  <1> QED
    BY <1>8, <1>9

\* fat32_readdir.
ReaddirHas(d, idx, x) == idx + 1 \in DOMAIN Listed(All(d)) /\ x = Listed(All(d))[idx + 1]
ReaddirLacks(d, idx) == idx + 1 \notin DOMAIN Listed(All(d))

LEMMA ReaddirCluster ==
    ASSUME NEW d, GoodDisk(d), NEW idx \in Nat, NEW buf, NEW m \in Nat, m < Len(Clusters(d)),
           ReaddirTo(d, idx, buf, m), NEW cb, IsCluster(d, m, cb)
    PROVE  /\ buf \in Seq(Unit) /\ Listed(cb) \in Seq(Unit) /\ buf \o Listed(cb) \in Seq(Unit)
           /\ idx - Len(buf) + 1 \in DOMAIN Listed(cb) => ReaddirHas(d, idx, Listed(cb)[idx - Len(buf) + 1])
           /\ idx - Len(buf) + 1 \notin DOMAIN Listed(cb) =>
                \/ Ends(cb) /\ ReaddirLacks(d, idx)
                \/ ~Ends(cb) /\ ReaddirTo(d, idx, buf \o Listed(cb), m + 1)
  <1> DEFINE new == Listed(cb)
             w == buf \o new
             all == Listed(All(d))
             b == Len(buf)
             at == idx - b + 1
  <1>1. buf = Listed(Pre(d, m)) /\ Len(buf) <= idx /\ ~Ends(Pre(d, m))
    BY DEF ReaddirTo
  <1>2. DirGrows(d, m, cb) /\ \E r, q : DirRest(d, m + 1, r, q)
    BY <1>1, DirNext
  <1>3. buf \in Seq(Unit) /\ new \in Seq(Unit) /\ Listed(Pre(d, m + 1)) = w /\ (Ends(Pre(d, m + 1)) <=> Ends(cb))
    BY <1>1, <1>2 DEF DirGrows
  <1>4. PICK r \in Seq(Unit) : all = w \o r /\ (Ends(cb) => r = << >>)
    <2>1. PICK r, q : DirRest(d, m + 1, r, q)
      BY <1>2
    <2> QED
      BY <1>3, <2>1 DEF DirRest
  <1> HIDE DEF new, all
  <1>5. b \in Nat /\ Len(new) \in Nat /\ Len(r) \in Nat /\ DOMAIN new = 1 .. Len(new) /\ at \in Nat /\ b + at = idx + 1
        /\ at >= 1 /\ b <= idx
    BY <1>1, <1>3
  <1>6. w \in Seq(Unit) /\ Len(w) = b + Len(new) /\ \A i \in 1 .. Len(new) : w[b + i] = new[i]
    <2>1. IsJoin(Unit, w, buf, new)
      BY <1>3, JoinIs
    <2> HIDE DEF w
    <2> QED
      BY <2>1 DEF IsJoin
  <1> HIDE DEF w, b, at
  <1>7. all \in Seq(Unit) /\ Len(all) = Len(w) + Len(r) /\ (\A i \in 1 .. Len(w) : all[i] = w[i])
        /\ DOMAIN all = 1 .. Len(all)
    <2>1. IsJoin(Unit, all, w, r)
      BY <1>4, <1>6, JoinIs
    <2>2. all \in Seq(Unit)
      BY <2>1 DEF IsJoin
    <2> QED
      BY <2>1, <2>2 DEF IsJoin
  <1>8. ASSUME at \in DOMAIN new PROVE ReaddirHas(d, idx, new[at])
    <2>1. at \in 1 .. Len(new)
      BY <1>5, <1>8
    <2>2. b + at \in 1 .. Len(w) /\ Len(w) \in Nat
      BY <1>5, <1>6, <2>1
    <2>3. w[b + at] = new[at] /\ all[b + at] = w[b + at]
      BY <1>6, <1>7, <2>1, <2>2
    <2>4. b + at \in DOMAIN all
      BY <1>5, <1>7, <2>2
    <2> QED
      BY <1>5, <2>3, <2>4 DEF ReaddirHas, all
  <1>9. ASSUME at \notin DOMAIN new PROVE (Ends(cb) => ReaddirLacks(d, idx)) /\ (~Ends(cb) => ReaddirTo(d, idx, w, m + 1))
    <2>1. at > Len(new)
      BY <1>5, <1>9
    <2>2. Len(w) <= idx /\ Len(w) \in Nat
      BY <1>5, <1>6, <2>1
    <2>3. ASSUME Ends(cb) PROVE ReaddirLacks(d, idx)
      <3>1. all = w
        BY <1>4, <1>6, <2>3, JoinNothing
      <3>2. idx + 1 \notin DOMAIN all
        BY <1>7, <2>2, <3>1
      <3> QED
        BY <3>2 DEF ReaddirLacks, all
    <2>4. ASSUME ~Ends(cb) PROVE ReaddirTo(d, idx, w, m + 1)
      BY <1>3, <2>2, <2>4 DEF ReaddirTo
    <2> QED
      BY <2>3, <2>4
  <1> QED
    BY <1>3, <1>6, <1>8, <1>9 DEF new, w, b, at

LEMMA ReaddirAll ==
    ASSUME NEW d, GoodDisk(d), NEW idx \in Nat, NEW buf, ReaddirTo(d, idx, buf, Len(Clusters(d)))
    PROVE  ReaddirLacks(d, idx)
  <1>1. Pre(d, Len(Clusters(d))) = All(d) /\ All(d) \in Seq(Unit)
    BY PreAll
  <1> DEFINE all == Listed(All(d))
  <1>2. buf = all /\ Len(all) <= idx /\ all \in Seq(Unit)
    BY <1>1, LiveType DEF ReaddirTo
  <1> HIDE DEF all
  <1>3. Len(all) \in Nat /\ DOMAIN all = 1 .. Len(all)
    BY <1>2
  <1>4. idx + 1 \notin DOMAIN all
    BY <1>2, <1>3
  <1> QED
    BY <1>4 DEF ReaddirLacks, all

\* fat32_lookup.
LEMMA InJoin ==
    ASSUME NEW A, NEW s \in Seq(A), NEW t \in Seq(A), NEW x
    PROVE  Holds(s \o t, x) <=> Holds(s, x) \/ Holds(t, x)
  <1> DEFINE w == s \o t
  <1>1. IsJoin(A, w, s, t)
    BY JoinIs
  <1> HIDE DEF w
  <1>2. Len(s) \in Nat /\ Len(t) \in Nat /\ DOMAIN s = 1 .. Len(s) /\ DOMAIN t = 1 .. Len(t)
    OBVIOUS
  <1>3. w \in Seq(A) /\ Len(w) = Len(s) + Len(t)
        /\ (\A i \in 1 .. Len(s) : w[i] = s[i]) /\ (\A i \in 1 .. Len(t) : w[Len(s) + i] = t[i])
    BY <1>1 DEF IsJoin
  <1>4. DOMAIN w = 1 .. Len(s) + Len(t)
    BY <1>3
  <1>5. ASSUME NEW i \in DOMAIN s, s[i] = x PROVE \E j \in DOMAIN w : w[j] = x
    <2>1. i \in DOMAIN w /\ w[i] = x
      BY <1>2, <1>3, <1>4, <1>5
    <2> QED
      BY <2>1
  <1>6. ASSUME NEW i \in DOMAIN t, t[i] = x PROVE \E j \in DOMAIN w : w[j] = x
    <2>1. Len(s) + i \in DOMAIN w /\ w[Len(s) + i] = x
      BY <1>2, <1>3, <1>4, <1>6
    <2> QED
      BY <2>1
  <1>7. ASSUME NEW i \in DOMAIN w, w[i] = x PROVE (\E j \in DOMAIN s : s[j] = x) \/ (\E j \in DOMAIN t : t[j] = x)
    <2>1. CASE i <= Len(s)
      <3>1. i \in DOMAIN s /\ s[i] = x
        BY <1>2, <1>3, <1>4, <1>7, <2>1
      <3> QED
        BY <3>1
    <2>2. CASE ~(i <= Len(s))
      <3> DEFINE j == i - Len(s)
      <3>1. j \in 1 .. Len(t) /\ Len(s) + j = i
        BY <1>2, <1>4, <2>2
      <3>2. t[j] = x
        <4> HIDE DEF j
        <4> QED
          BY <1>3, <1>7, <3>1
      <3> QED
        BY <1>2, <3>1, <3>2
    <2> QED
      BY <2>1, <2>2
  <1> QED
    BY <1>5, <1>6, <1>7 DEF w, Holds

LEMMA LookupCluster ==
    ASSUME NEW d, GoodDisk(d), NEW name, NEW m \in Nat, m < Len(Clusters(d)),
           LookupTo(d, name, m), NEW cb, IsCluster(d, m, cb)
    PROVE  /\ InLive(cb, name) => InLive(All(d), name)
           /\ ~InLive(cb, name) => \/ Ends(cb) /\ ~InLive(All(d), name)
                                   \/ ~Ends(cb) /\ LookupTo(d, name, m + 1)
  <1> DEFINE p == Live(Pre(d, m))
             new == Live(cb)
             w == p \o new
             all == Live(All(d))
             In(s) == Holds(s, name)
  <1>1. ~Ends(Pre(d, m)) /\ ~In(p)
    BY DEF LookupTo, InLive
  <1>2. DirGrows(d, m, cb) /\ \E r, q : DirRest(d, m + 1, r, q)
    BY <1>1, DirNext
  <1>3. p \in Seq(Unit) /\ new \in Seq(Unit) /\ Live(Pre(d, m + 1)) = w /\ (Ends(Pre(d, m + 1)) <=> Ends(cb))
    BY <1>2 DEF DirGrows
  <1>4. PICK q \in Seq(Unit) : all = w \o q /\ (Ends(cb) => q = << >>)
    <2>1. PICK r, q : DirRest(d, m + 1, r, q)
      BY <1>2
    <2> QED
      BY <1>3, <2>1 DEF DirRest
  <1> HIDE DEF p, new, all
  <1>5. In(w) <=> In(p) \/ In(new)
    BY <1>3, InJoin
  <1>6. w \in Seq(Unit)
    BY <1>3
  <1>7. In(all) <=> In(w) \/ In(q)
    <2> HIDE DEF w
    <2> QED
      BY <1>4, <1>6, InJoin
  <1>8. q = << >> => ~In(q)
    BY DEF Holds
  <1>9. (InLive(cb, name) <=> In(new)) /\ (InLive(All(d), name) <=> In(all)) /\ (InLive(Pre(d, m + 1), name) <=> In(w))
    BY <1>3 DEF InLive, new, all
  <1> HIDE DEF In, w
  <1> QED
    BY <1>1, <1>3, <1>4, <1>5, <1>7, <1>8, <1>9 DEF LookupTo

LEMMA LookupAll ==
    ASSUME NEW d, GoodDisk(d), NEW name, LookupTo(d, name, Len(Clusters(d)))
    PROVE  ~InLive(All(d), name)
  <1>1. Pre(d, Len(Clusters(d))) = All(d)
    BY PreAll
  <1> QED
    BY <1>1 DEF LookupTo

LEMMA ListedIsLive ==
    ASSUME NEW d, GoodDisk(d), NEW name, ~InLive(All(d), name)
    PROVE  name \notin Range(Listed(All(d)))
  <1> DEFINE s == Live(All(d))
  <1>1. s \in Seq(Unit)
    BY PreAll, LiveType
  <1>2. Listed(All(d)) = Without(s, Labels)
    BY DEF Listed
  <1>3. ~\E j \in DOMAIN s : s[j] = name
    BY DEF InLive, Holds
  <1> HIDE DEF s
  <1>4. \A i \in DOMAIN Without(s, Labels) : \E j \in DOMAIN s : Without(s, Labels)[i] = s[j]
    BY <1>1, WithoutRange
  <1> QED
    BY <1>2, <1>3, <1>4 DEF Range

-----------------------------------------------------------------------------
(***************************************************************************)
(* The disk's answers.                                                     *)
(***************************************************************************)
AtaGood ==
    /\ AtaTypeOK /\ GoodDisk(disk)
    /\ pending.op = "write" => pending.lba \in Scratch

ReadAnswer(a, l) ==
    /\ a.err \in BOOLEAN /\ a.wrong \in BOOLEAN /\ a.disk = disk
    /\ a.pending \in {NoCommand, pending, [op |-> "read", lba |-> l]}
    /\ ~a.err => a.data \in Seq(Unit) /\ Len(a.data) >= SS
    /\ ~a.err /\ ~a.wrong => l \in 0 .. Sectors - 1 /\ a.data = disk[l]

WriteAnswer(a, l, data) ==
    /\ a.err \in BOOLEAN /\ a.wrong \in BOOLEAN /\ a.data \in Seq(Unit)
    /\ a.pending \in {NoCommand, pending, [op |-> "write", lba |-> l]}
    /\ a.disk = disk \/ \E s \in Scratch : a.disk = [disk EXCEPT ![s] = data]
    /\ a.err => a.disk = disk
    /\ ~a.err /\ ~a.wrong => a.disk = [disk EXCEPT ![l] = data] /\ a.data = << >>

LEMMA SectorType ==
    ASSUME NEW d, GoodDisk(d), NEW s \in 0 .. Sectors - 1
    PROVE  d[s] \in Seq(Unit) /\ Len(d[s]) >= SS
  <1>1. d[s] \in Seq(Unit)
    BY DEF GoodDisk
  <1>2. CASE s = 0
    BY <1>1, <1>2 DEF GoodDisk, SS
  <1>3. CASE s # 0
    <2>1. s \in 1 .. Sectors - 1
      BY <1>3, SectorsAssumption
    <2>2. Len(d[s]) = FAT32_SECTOR_SIZE
      BY <2>1 DEF GoodDisk
    <2> QED
      BY <1>1, <2>2, WordIs DEF SS
  <1> QED
    BY <1>2, <1>3

LEMMA FailedIs ==
    ASSUME NEW left
    PROVE  LET a == Failed(left)
           IN  a.err = TRUE /\ a.wrong = FALSE /\ a.disk = disk /\ a.pending = left /\ a.data = << >>
  BY DEF Failed, Answer

LEMMA ReadAnswerIs ==
    ASSUME AtaGood, NEW l \in Nat, NEW data, NEW a \in ata_pio_sector("read", l, data)
    PROVE  ReadAnswer(a, l)
  <1> DEFINE c == [op |-> "read", lba |-> l]
  <1>0. GoodDisk(disk) /\ AtaTypeOK /\ Sectors \in Nat
    BY SectorsAssumption DEF AtaGood
  <1>1. ASSUME NEW left \in {NoCommand, pending, c}, a = Failed(left) PROVE ReadAnswer(a, l)
    <2>1. a.err = TRUE /\ a.wrong = FALSE /\ a.disk = disk /\ a.pending = left
      BY <1>1, FailedIs
    <2> QED
      BY <2>1 DEF ReadAnswer
  <1>2. ASSUME NEW s \in Nat, ~(s >= Sectors), NEW wrong \in BOOLEAN, ~wrong => s = l,
               a = Answer(FALSE, disk[s], disk, NoCommand, wrong)
        PROVE  ReadAnswer(a, l)
    <2>1. a.err = FALSE /\ a.wrong = wrong /\ a.disk = disk /\ a.pending = NoCommand /\ a.data = disk[s]
      BY <1>2 DEF Answer
    <2>2. s \in 0 .. Sectors - 1
      BY <1>0, <1>2
    <2>3. disk[s] \in Seq(Unit) /\ Len(disk[s]) >= SS
      BY <1>0, <2>2, SectorType
    <2> QED
      BY <1>2, <2>1, <2>2, <2>3 DEF ReadAnswer
  <1>3. ASSUME a \in Accepted("read", l, data) PROVE ReadAnswer(a, l)
    <2>1. \/ a = Failed(NoCommand) \/ a = Failed(c)
          \/ ~(l >= Sectors) /\ a = Answer(FALSE, disk[l], disk, NoCommand, FALSE)
      BY <1>3 DEF Accepted
    <2> HIDE DEF c
    <2> QED
      BY <1>1, <1>2, <2>1
  <1>4. CASE ata0 # "present"
    <2>1. a = Failed(pending)
      BY <1>4 DEF ata_pio_sector
    <2> QED
      BY <1>1, <2>1
  <1>5. CASE ata0 = "present" /\ pending = NoCommand
    BY <1>3, <1>5 DEF ata_pio_sector
  <1>6. CASE ata0 = "present" /\ pending # NoCommand
    <2>1. a \in StillBusy(pending, "read", l, data)
      BY <1>6 DEF ata_pio_sector
    <2>2. pending.lba \in Nat /\ (pending.lba # l) \in BOOLEAN
      BY <1>0, <1>6 DEF AtaTypeOK, Command
    <2>3. \/ a \in Accepted("read", l, data) \/ a = Failed(NoCommand) \/ a = Failed(pending)
          \/ ~(pending.lba >= Sectors) /\ a = Answer(FALSE, disk[pending.lba], disk, NoCommand, TRUE)
          \/ ~(pending.lba >= Sectors) /\ a = Answer(FALSE, disk[pending.lba], disk, NoCommand, pending.lba # l)
      BY <2>1 DEF StillBusy
    <2> DEFINE p == pending.lba
               wrong == p # l
    <2>4. wrong \in BOOLEAN /\ (~wrong => p = l)
      OBVIOUS
    <2>5. CASE ~(p >= Sectors) /\ a = Answer(FALSE, disk[p], disk, NoCommand, wrong)
      <3> HIDE DEF wrong
      <3> QED
        BY <1>2, <2>2, <2>4, <2>5
    <2>6. CASE ~(p >= Sectors) /\ a = Answer(FALSE, disk[p], disk, NoCommand, TRUE)
      BY <1>2, <2>2, <2>6
    <2> QED
      BY <1>1, <1>3, <2>3, <2>5, <2>6
  <1> QED
    BY <1>4, <1>5, <1>6

LEMMA WriteAnswerIs ==
    ASSUME AtaGood, NEW l \in Scratch, NEW data \in Seq(Unit), NEW a \in ata_pio_sector("write", l, data)
    PROVE  WriteAnswer(a, l, data)
  <1> DEFINE c == [op |-> "write", lba |-> l]
  <1>0. GoodDisk(disk) /\ AtaTypeOK /\ Sectors \in Nat /\ << >> \in Seq(Unit)
    BY SectorsAssumption DEF AtaGood
  <1>1. ASSUME NEW left \in {NoCommand, pending, c}, a = Failed(left) PROVE WriteAnswer(a, l, data)
    <2>1. a.err = TRUE /\ a.wrong = FALSE /\ a.disk = disk /\ a.pending = left /\ a.data = << >>
      BY <1>1, FailedIs
    <2> QED
      BY <1>0, <2>1 DEF WriteAnswer
  <1>2. ASSUME NEW s \in Scratch, NEW wrong \in BOOLEAN, ~wrong => s = l,
               a = Answer(FALSE, << >>, [disk EXCEPT ![s] = data], NoCommand, wrong)
        PROVE  WriteAnswer(a, l, data)
    <2>1. a.err = FALSE /\ a.wrong = wrong /\ a.disk = [disk EXCEPT ![s] = data] /\ a.pending = NoCommand
          /\ a.data = << >>
      BY <1>2 DEF Answer
    <2> QED
      BY <1>0, <1>2, <2>1 DEF WriteAnswer
  <1>3. ASSUME NEW x \in Seq(Unit), a = Answer(FALSE, x, disk, NoCommand, TRUE) PROVE WriteAnswer(a, l, data)
    <2>1. a.err = FALSE /\ a.wrong = TRUE /\ a.disk = disk /\ a.pending = NoCommand /\ a.data = x
      BY <1>3 DEF Answer
    <2> QED
      BY <1>3, <2>1 DEF WriteAnswer
  <1>4. ASSUME a \in Accepted("write", l, data) PROVE WriteAnswer(a, l, data)
    <2>1. \/ a = Failed(NoCommand) \/ a = Failed(c)
          \/ a = Answer(FALSE, << >>, [disk EXCEPT ![l] = data], NoCommand, FALSE)
          \/ a = Answer(FALSE, << >>, disk, NoCommand, TRUE)
      BY <1>4 DEF Accepted
    <2> HIDE DEF c
    <2> QED
      BY <1>0, <1>1, <1>2, <1>3, <2>1
  <1>5. CASE ata0 # "present"
    <2>1. a = Failed(pending)
      BY <1>5 DEF ata_pio_sector
    <2> QED
      BY <1>1, <2>1
  <1>6. CASE ata0 = "present" /\ pending = NoCommand
    BY <1>4, <1>6 DEF ata_pio_sector
  <1>7. CASE ata0 = "present" /\ pending # NoCommand
    <2> DEFINE p == pending.lba
               wrong == p # l
    <2>1. a \in StillBusy(pending, "write", l, data)
      BY <1>7 DEF ata_pio_sector
    <2>2. p \in Nat /\ wrong \in BOOLEAN /\ (~wrong => p = l)
      BY <1>0, <1>7 DEF AtaTypeOK, Command
    <2>3. \/ a \in Accepted("write", l, data) \/ a = Failed(NoCommand) \/ a = Failed(pending)
          \/ ~(p >= Sectors) /\ a = Answer(FALSE, disk[p], disk, NoCommand, TRUE)
          \/ pending.op = "write" /\ a = Answer(FALSE, << >>, [disk EXCEPT ![p] = data], NoCommand, wrong)
      BY <2>1 DEF StillBusy
    <2>4. CASE ~(p >= Sectors) /\ a = Answer(FALSE, disk[p], disk, NoCommand, TRUE)
      <3> HIDE DEF p
      <3>1. p \in 0 .. Sectors - 1
        BY <1>0, <2>2, <2>4
      <3>2. disk[p] \in Seq(Unit)
        BY <1>0, <3>1, SectorType
      <3> QED
        BY <1>3, <2>4, <3>2
    <2>5. CASE pending.op = "write" /\ a = Answer(FALSE, << >>, [disk EXCEPT ![p] = data], NoCommand, wrong)
      <3>1. p \in Scratch
        BY <2>5 DEF AtaGood
      <3> HIDE DEF p, wrong
      <3> QED
        BY <1>2, <2>2, <2>5, <3>1
    <2> QED
      BY <1>1, <1>4, <2>3, <2>4, <2>5
  <1> QED
    BY <1>5, <1>6, <1>7

\* The next cluster.
LEMMA NextType ==
    ASSUME NEW a, NEW c \in Nat, ~a.err => a.data \in Seq(Unit) /\ Len(a.data) >= SS
    PROVE  next_cluster(c, a) \in Nat
  <1>1. CASE a.err
    BY <1>1, WordIs DEF next_cluster, BadCluster
  <1>2. CASE ~a.err
    <2> DEFINE k == entry_offset(c) + 1
               s == a.data
    <2>1. k \in 1 .. SS
      BY WordIs DEF entry_offset, SS
    <2>2. s \in Seq(Unit) /\ Len(s) >= SS /\ SS \in Nat
      BY <1>2, WordIs DEF SS
    <2>3. next_cluster(c, a) = IF s[k] >= EndOfChain THEN 0 ELSE s[k]
      BY <1>2 DEF next_cluster
    <2> HIDE DEF k, s
    <2>4. Len(s) \in Nat
      BY <2>2
    <2>5. k \in 1 .. Len(s)
      BY <2>1, <2>2, <2>4
    <2>6. s[k] \in Unit
      BY <2>2, <2>5
    <2>7. s[k] \in Nat
      BY <2>6, WordIs DEF Unit
    <2> QED
      BY <2>3, <2>7
  <1> QED
    BY <1>1, <1>2

LEMMA NextRight ==
    ASSUME NEW d, GoodDisk(d), NEW i \in 1 .. Len(Clusters(d)), NEW a, ~a.err,
           a.data = d[fat_sector(Volume(d), Clusters(d)[i])]
    PROVE  /\ i < Len(Clusters(d)) => /\ i + 1 \in 1 .. Len(Clusters(d))
                                      /\ next_cluster(Clusters(d)[i], a) = Clusters(d)[i + 1]
           /\ ~(i < Len(Clusters(d))) => i = Len(Clusters(d)) /\ next_cluster(Clusters(d)[i], a) < 2
  <1> DEFINE s == Clusters(d)
             v == Volume(d)
             n == Len(s)
             next == link(d, v, s[i])
  <1>1. IsChain(d, s) /\ link(d, v, s[n]) \notin 2 .. EndOfChain - 1
    BY ClustersAre
  <1>2. n \in Nat /\ i \in 1 .. n /\ s \in Seq(2 .. EndOfChain - 1)
        /\ (\A j \in 1 .. n - 1 : link(d, v, s[j]) = s[j + 1]) /\ fat_sector(v, s[i]) \in Safe
    <2>1. s \in Seq(2 .. EndOfChain - 1) /\ (\A j \in 1 .. n - 1 : link(d, v, s[j]) = s[j + 1])
          /\ fat_sector(v, s[i]) \in Safe
      BY <1>1 DEF IsChain, Reachable
    <2> HIDE DEF s
    <2> QED
      BY <2>1 DEF s
  <1>7. \A j \in 1 .. n : s[j] \in 2 .. EndOfChain - 1
    <2> DEFINE C == 2 .. EndOfChain - 1
    <2>1. s \in Seq(C)
      BY <1>2
    <2> HIDE DEF s, C
    <2>2. \A j \in 1 .. n : s[j] \in C
      BY <2>1
    <2> QED
      BY <2>2 DEF C
  <1>3. next_cluster(s[i], a) = IF next >= EndOfChain THEN 0 ELSE next
    BY DEF next_cluster, link
  <1>4. next \in Nat
    <2> DEFINE sec == d[fat_sector(v, s[i])]
               k == entry_offset(s[i]) + 1
    <2>1. fat_sector(v, s[i]) \in 0 .. Sectors - 1
      BY <1>2, SectorsAssumption DEF Safe
    <2>2. sec \in Seq(Unit) /\ Len(sec) >= SS /\ SS \in Nat
      BY <2>1, SectorType, WordIs DEF SS
    <2>3. s[i] \in Nat
      BY <1>2, <1>7, WordIs
    <2>4. k \in 1 .. SS
      <3> HIDE DEF s
      <3> QED
        BY <2>3, WordIs DEF entry_offset, SS
    <2>5. next = sec[k]
      BY DEF link
    <2> HIDE DEF sec, k, next
    <2>6. Len(sec) \in Nat
      BY <2>2
    <2>7. k \in 1 .. Len(sec)
      BY <2>2, <2>4, <2>6
    <2>8. sec[k] \in Unit
      BY <2>2, <2>7
    <2> QED
      BY <2>5, <2>8, WordIs DEF Unit
  <1>5. ASSUME i < n PROVE i + 1 \in 1 .. n /\ next_cluster(s[i], a) = s[i + 1]
    <2>1. i \in 1 .. n - 1 /\ i + 1 \in 1 .. n
      BY <1>2, <1>5
    <2>2. next = s[i + 1]
      BY <1>2, <2>1
    <2>3. s[i + 1] \in 2 .. EndOfChain - 1
      BY <1>7, <2>1
    <2> HIDE DEF next, s
    <2>4. ~(next >= EndOfChain)
      BY <1>4, <2>2, <2>3, WordIs
    <2> QED
      BY <1>3, <2>1, <2>2, <2>4
  <1>6. ASSUME ~(i < n) PROVE i = n /\ next_cluster(s[i], a) < 2
    <2>1. i = n
      BY <1>2, <1>6
    <2>2. next \notin 2 .. EndOfChain - 1
      BY <1>1, <2>1
    <2> HIDE DEF next
    <2>3. next < 2 \/ next >= EndOfChain
      BY <1>4, <2>2, WordIs
    <2> QED
      BY <1>3, <1>4, <2>1, <2>3
  <1> QED
    BY <1>5, <1>6

-----------------------------------------------------------------------------
(***************************************************************************)
(* The state of a call.  Nothing is claimed of one that took BadCluster    *)
(* for a cluster, or once an answer went astray.                           *)
(***************************************************************************)
Fields == {"kind", "at", "arg", "cluster", "skip", "offset", "len", "cbuf", "buf", "retry", "result",
           "walked", "failed"}
Dirs == {"list", "readdir", "lookup"}
Transfers == {"pio_read", "pio_write"}

\* What the call has found in the first m clusters, and it goes on.
Progress(d, o, m) ==
    \/ /\ o.kind = "read" /\ o.arg[1] \in Nat /\ o.arg[2] \in Nat /\ o.buf \in Seq(Unit)
       /\ o.len \in Nat /\ o.offset \in Nat /\ o.offset < SizeOf(d)
       /\ ReadTo(d, o.arg[1], o.arg[2], o.buf, o.len, m, o.offset)
    \/ o.kind = "list" /\ o.arg \in Nat /\ ListTo(d, o.arg, o.buf, m)
    \/ o.kind = "readdir" /\ o.arg \in Nat /\ ReaddirTo(d, o.arg, o.buf, m)
    \/ o.kind = "lookup" /\ o.arg \in Nat /\ LookupTo(d, o.arg, m)

\* It has all it was asked for.
Enough(d, o) ==
    \/ o.kind = "read" /\ o.len = 0 /\ o.buf \in Seq(Unit) /\ ReadEnd(d, o.arg[1], o.arg[2], o.buf)
    \/ /\ o.kind = "list" /\ o.arg \in Nat /\ o.buf \in Seq(Unit) /\ ~(Len(o.buf) < o.arg)
       /\ ListEnd(d, o.arg, o.buf)

Skips(d, o) ==
    \E i \in 1 .. Len(Clusters(d)), t \in Nat :
        /\ o.cluster = Clusters(d)[i] /\ o.skip \in Nat /\ o.skip > 0 /\ t = (i - 1) + o.skip
        /\ o.arg[1] \in Nat /\ o.arg[2] \in Nat /\ o.arg[2] > 0 /\ o.len = o.arg[2]
        /\ o.offset \in Nat /\ o.offset < SizeOf(d) /\ o.arg[1] = t * SizeOf(d) + o.offset
        /\ o.buf = << >> /\ o.cbuf = << >>

Loads(d, o) ==
    \E i \in 1 .. Len(Clusters(d)), k \in 0 .. Volume(d).spc - 1 :
        /\ o.cluster = Clusters(d)[i]
        /\ IsPart(Unit, o.cbuf, All(d), (i - 1) * SizeOf(d), k * SS)
        /\ Progress(d, o, i - 1)

Follows(d, o) ==
    \E i \in 1 .. Len(Clusters(d)) :
        /\ o.cluster = Clusters(d)[i] /\ o.cbuf = << >>
        /\ o.kind = "read" => o.offset = 0
        /\ Progress(d, o, i) \/ Enough(d, o)

ReadDone(d, o) ==
    IF o.result < 0 THEN o.arg[3] < 2 \/ o.arg[1] >= Len(All(d))
    ELSE ReadEnd(d, o.arg[1], o.arg[2], o.buf)

\* What a directory call may answer: always, and without an error.
DirSound(d, o) ==
    /\ o.kind = "list" => IsPrefix(o.buf, Listed(All(d)))
    /\ o.kind = "readdir" /\ o.result >= 0 => ReaddirHas(d, o.arg, o.result)
    /\ o.kind = "lookup" /\ o.result >= 0 => InLive(All(d), o.arg)
DirDone(d, o) ==
    /\ DirSound(d, o)
    /\ o.kind = "list" => ListEnd(d, o.arg, o.buf)
    /\ o.kind = "readdir" /\ ~(o.result >= 0) => ReaddirLacks(d, o.arg)
    /\ o.kind = "lookup" /\ ~(o.result >= 0) => ~InLive(All(d), o.arg)

CallDone(d, o) == (o.kind = "read" => ReadDone(d, o)) /\ (o.kind \in Dirs => DirDone(d, o))

\* A call without an error so far, and one with an error.
Right(d, o) ==
    /\ o.at = "skip" => Skips(d, o)
    /\ o.at = "load" => Loads(d, o)
    /\ o.at = "next" => Follows(d, o)
    /\ o.at = "done" => CallDone(d, o)
Marred(d, o) ==
    o.kind \in Dirs => /\ o.at = "done" => DirSound(d, o)
                       /\ o.at = "load" => o.cluster = BadCluster
                       /\ o.at \in {"done", "load"}

\* A transfer that has moved n sectors.
Moved(d, o, n) ==
    /\ o.kind = "pio_read" => /\ n = 0 => o.buf = << >>
                              /\ n = 1 => o.buf = d[o.cluster]
                              /\ n = 2 => o.buf = d[o.cluster] \o d[o.cluster + 1]
    /\ o.kind = "pio_write" => /\ n \in {1, 2} => d[o.cluster] = Filled(o.arg, 0)
                               /\ n = 2 => d[o.cluster + 1] = Filled(o.arg, 1)

Trust(d, o) ==
    /\ o.kind \in Dirs \cup {"read"} /\ ~o.failed => Right(d, o)
    /\ o.kind \in Dirs \cup {"read"} /\ o.failed => Marred(d, o)
    /\ o.kind \in Transfers => /\ o.at = "pio" => Moved(d, o, o.len)
                               /\ o.at = "done" /\ o.result = 0 => Moved(d, o, 2)

Shape(o) ==
    /\ DOMAIN o = Fields /\ o.cluster \in Nat /\ o.cbuf \in Seq(Unit)
    /\ o.walked \in BOOLEAN /\ o.failed \in BOOLEAN
    /\ o.kind \in Dirs \cup Transfers \cup {"read", "none"}
    /\ o.at \in {"skip", "load", "next", "pio", "done"}
    /\ o.at \in {"skip", "load", "next"} => o.kind \in Dirs \cup {"read"}
    /\ o.at = "skip" => o.kind = "read"
    /\ o.at = "pio" => /\ o.kind \in Transfers /\ o.cluster \in Scratch /\ o.cluster + 1 \in Scratch
                       /\ o.arg \in Patterns /\ o.len \in {0, 1}

Mounted ==
    \/ fat32_ctx = Volume(disk)
    \/ fat32_ctx = NoCtx /\ op = NoOp /\ pending \in {NoCommand, [op |-> "read", lba |-> 0]}

FatInv ==
    /\ AtaGood /\ Mounted /\ Shape(op)
    /\ (~astray /\ ~op.walked) => Trust(disk, op)

\* A sector of the i-th cluster is added to k of them.
LEMMA SectorAdded ==
    ASSUME NEW d, GoodDisk(d), NEW i \in 1 .. Len(Clusters(d)), NEW k \in 0 .. Volume(d).spc - 1, NEW s,
           IsPart(Unit, s, All(d), (i - 1) * SizeOf(d), k * SS)
    PROVE  /\ Len(s) \div SS = k
           /\ IsPart(Unit, s \o d[data_sector(Volume(d), Clusters(d)[i], k)], All(d), (i - 1) * SizeOf(d), (k + 1) * SS)
           /\ k + 1 = Volume(d).spc => IsCluster(d, i - 1, s \o d[data_sector(Volume(d), Clusters(d)[i], k)])
  <1> DEFINE size == SizeOf(d)
             spc == Volume(d).spc
             a == (i - 1) * size
             m == k * SS
             r == d[data_sector(Volume(d), Clusters(d)[i], k)]
             all == All(d)
  <1>1. SS \in Nat /\ SS >= 1 /\ spc \in Nat /\ k \in Nat /\ k < spc /\ size \in Nat
    <2>1. SS \in Nat /\ SS >= 1
      BY WordIs DEF SS
    <2>2. spc \in Nat
      BY VolumeType
    <2>3. size \in Nat
      BY SizeType
    <2>4. k \in Nat /\ k < spc
      BY <2>2
    <2> QED
      BY <2>1, <2>2, <2>3, <2>4
  <1>2. m \in Nat /\ (k + 1) * SS = m + SS
    <2> HIDE DEF spc
    <2> QED
      BY <1>1, TimesUp
  <1>3. a \in Nat
    <2>1. i - 1 \in Nat
      OBVIOUS
    <2> DEFINE j == i - 1
    <2> HIDE DEF size, j
    <2>2. j * size \in Nat
      BY <1>1, <2>1 DEF j
    <2> QED
      BY <2>2 DEF j
  <1>4. IsPart(Unit, r, all, a + m, SS)
    BY SectorIs
  <1>5. IsPart(Unit, s, all, a, m)
    OBVIOUS
  <1>6. Len(s) = m
    BY <1>5 DEF IsPart
  <1>7. Len(s) \div SS = k
    <2>1. 0 \in 0 .. SS - 1
      BY <1>1
    <2>2. (k * SS + 0) \div SS = k
      BY <1>1, <2>1, DivModIs
    <2>3. k * SS + 0 = m
      BY <1>2
    <2> QED
      BY <1>6, <2>2, <2>3
  <1>8. IsPart(Unit, s \o r, all, a, m + SS)
    <2> HIDE DEF a, m, r, all
    <2> QED
      BY <1>1, <1>2, <1>3, <1>4, <1>5, PartsMeet
  <1>9. IsPart(Unit, s \o r, all, a, (k + 1) * SS)
    <2> HIDE DEF a, m, r, all
    <2> QED
      BY <1>2, <1>8
  <1>10. ASSUME k + 1 = spc PROVE IsCluster(d, i - 1, s \o r)
    <2>1. (k + 1) * SS = size
      BY <1>10 DEF SizeOf
    <2>2. IsPart(Unit, s \o r, all, a, size)
      <3> HIDE DEF a, r, all, size
      <3> QED
        BY <1>9, <2>1
    <2> QED
      BY <2>2 DEF IsCluster
  <1> QED
    BY <1>7, <1>9, <1>10

-----------------------------------------------------------------------------
(***************************************************************************)
(* What a call does with a cluster.                                        *)
(***************************************************************************)
Kept(o, p) ==
    /\ DOMAIN p = Fields /\ p.kind = o.kind /\ p.arg = o.arg /\ p.cluster = o.cluster
    /\ p.walked = o.walked /\ p.failed = o.failed

LEMMA GoOnIs ==
    ASSUME NEW o, DOMAIN o = Fields, NEW q, Kept(o, q), GoOn(q)
    PROVE  /\ Kept(o, op') /\ op'.at = "next" /\ op'.cbuf = << >>
           /\ op'.buf = q.buf /\ op'.len = q.len /\ op'.offset = q.offset
  BY DEF GoOn, Kept, Fields

LEMMA FreeIs ==
    ASSUME NEW o, DOMAIN o = Fields, NEW q, Kept(o, q), NEW r, Free(q, r)
    PROVE  Kept(o, op') /\ op'.at = "done" /\ op'.cbuf = q.cbuf /\ op'.buf = q.buf /\ op'.result = r
  BY DEF Free, Return, Kept, Fields

\* The call goes on after m clusters, or has its answer.
Went(d, o, p, m) ==
    /\ Kept(o, p)
    /\ \/ /\ p.at = "next" /\ p.cbuf = << >>
          /\ p.kind = "read" => p.offset = 0
          /\ Progress(d, p, m) \/ Enough(d, p)
       \/ p.at = "done" /\ p.cbuf \in {<< >>, o.cbuf} /\ CallDone(d, p)

LEMMA CopyRight ==
    ASSUME NEW d, GoodDisk(d), fat32_ctx = Volume(d), NEW o, DOMAIN o = Fields, o.kind = "read",
           NEW m \in Nat, m < Len(Clusters(d)), Progress(d, o, m), NEW cb, IsCluster(d, m, cb), copy(o, cb)
    PROVE  Went(d, o, op', m + 1)
  <1> DEFINE a == o.arg[1]
             l == o.arg[2]
             size == SizeOf(d)
             n == IF size - o.offset > o.len THEN o.len ELSE size - o.offset
             new == o.buf \o SubSeq(cb, o.offset + 1, o.offset + n)
             q == [o EXCEPT !.buf = @ \o SubSeq(cb, o.offset + 1, o.offset + n), !.len = @ - n, !.offset = 0]
  <1>1. /\ a \in Nat /\ l \in Nat /\ o.buf \in Seq(Unit) /\ o.len \in Nat /\ o.offset \in Nat /\ o.offset < size
        /\ ReadTo(d, a, l, o.buf, o.len, m, o.offset)
    BY DEF Progress
  <1>2. cluster_size = size
    BY DEF cluster_size, SizeOf, SS
  <1>3. GoOn(q)
    BY <1>2 DEF copy
  <1>4. Kept(o, q) /\ q.buf = new /\ q.len = o.len - n /\ q.offset = 0
    BY DEF Kept, Fields
  <1>5. Kept(o, op') /\ op'.at = "next" /\ op'.cbuf = << >> /\ op'.buf = new /\ op'.len = o.len - n /\ op'.offset = 0
    <2> HIDE DEF q, new, n
    <2> QED
      BY <1>3, <1>4, GoOnIs
  <1>6. size \in Nat /\ size >= 1
    BY SizeType
  <1>7. n \in Nat /\ n <= o.len /\ o.offset + n <= size /\ (n = o.len \/ o.offset + n = size)
    <2> HIDE DEF size
    <2>1. CASE size - o.offset > o.len
      BY <1>1, <1>6, <2>1
    <2>2. CASE ~(size - o.offset > o.len)
      BY <1>1, <1>6, <2>2
    <2> QED
      BY <2>1, <2>2
  <1>8. /\ new \in Seq(Unit) /\ o.len - n \in Nat
        /\ \/ ReadTo(d, a, l, new, o.len - n, m + 1, 0)
           \/ o.len - n = 0 /\ ReadEnd(d, a, l, new)
    <2> DEFINE b == o.buf
               len == o.len
               off == o.offset
    <2>1. /\ a \in Nat /\ l \in Nat /\ b \in Seq(Unit) /\ len \in Nat /\ off \in Nat /\ off < SizeOf(d)
          /\ ReadTo(d, a, l, b, len, m, off) /\ n \in Nat /\ n <= len /\ off + n <= SizeOf(d)
          /\ (n = len \/ off + n = SizeOf(d)) /\ new = b \o SubSeq(cb, off + 1, off + n)
      BY <1>1, <1>7
    <2> HIDE DEF n, size, a, l, b, len, off
    <2> HIDE DEF new
    <2>2. /\ b \o SubSeq(cb, off + 1, off + n) \in Seq(Unit) /\ len - n \in Nat
          /\ \/ ReadTo(d, a, l, b \o SubSeq(cb, off + 1, off + n), len - n, m + 1, 0)
             \/ len - n = 0 /\ ReadEnd(d, a, l, b \o SubSeq(cb, off + 1, off + n))
      BY <2>1, ReadCopied
    <2> QED
      BY <2>1, <2>2 DEF len
  <1>9. op'.arg[1] = a /\ op'.arg[2] = l /\ op'.kind = "read"
    BY <1>5 DEF Kept
  <1> HIDE DEF a, l, size, n, new, q
  <1>10. CASE ReadTo(d, a, l, new, o.len - n, m + 1, 0)
    <2>1. 0 \in Nat /\ 0 < SizeOf(d)
      BY <1>6 DEF size
    <2>2. Progress(d, op', m + 1)
      BY <1>1, <1>5, <1>8, <1>9, <1>10, <2>1 DEF Progress
    <2> QED
      BY <1>5, <2>2 DEF Went
  <1>11. CASE o.len - n = 0 /\ ReadEnd(d, a, l, new)
    <2>1. Enough(d, op')
      BY <1>5, <1>8, <1>9, <1>11 DEF Enough
    <2> QED
      BY <1>5, <2>1 DEF Went
  <1> QED
    BY <1>8, <1>10, <1>11

LEMMA ListRight ==
    ASSUME NEW d, GoodDisk(d), NEW o, DOMAIN o = Fields, o.kind = "list",
           NEW m \in Nat, m < Len(Clusters(d)), Progress(d, o, m), NEW cb, IsCluster(d, m, cb), list_cluster(o, cb)
    PROVE  Went(d, o, op', m + 1)
  <1> DEFINE max == o.arg
             b == o.buf
             new == Listed(cb)
             room == max - Len(b)
             B == b \o UpTo(new, room)
             q == [o EXCEPT !.buf = @ \o SubSeq(new, 1, IF Len(new) > room THEN room ELSE Len(new))]
  <1>1. max \in Nat /\ ListTo(d, max, b, m)
    BY DEF Progress
  <1>2. Len(b) < max
    BY <1>1 DEF ListTo
  <1>3. /\ b \in Seq(Unit) /\ Len(b) \in Nat /\ new \in Seq(Unit) /\ Len(new) \in Nat /\ B \in Seq(Unit)
        /\ \/ Ends(cb) /\ Len(b) + Len(new) < max /\ ListEnd(d, max, B)
           \/ ~Ends(cb) /\ ListTo(d, max, B, m + 1)
           \/ Len(B) = max /\ ~(Len(b) + Len(new) < max) /\ ListEnd(d, max, B)
    <2> HIDE DEF max, b
    <2> QED
      BY <1>1, ListCluster
  <1>4. SubSeq(new, 1, IF Len(new) > room THEN room ELSE Len(new)) = UpTo(new, room)
    <2> HIDE DEF new, max, b
    <2>1. room \in Int /\ Len(new) \in Int
      BY <1>1, <1>3
    <2>2. CASE Len(new) > room
      <3>1. ~(room > Len(new))
        BY <2>1, <2>2
      <3> QED
        BY <2>2, <3>1 DEF UpTo
    <2>3. CASE ~(Len(new) > room)
      <3>1. (IF room > Len(new) THEN Len(new) ELSE room) = Len(new)
        BY <2>1, <2>3
      <3> QED
        BY <2>3, <3>1 DEF UpTo
    <2> QED
      BY <2>2, <2>3
  <1>5. Kept(o, q) /\ q.buf = B /\ q.cbuf = o.cbuf
    BY <1>4 DEF Kept, Fields
  <1>6. IF Ends(cb) /\ Len(new) < room THEN Free(q, Len(q.buf)) ELSE GoOn(q)
    BY DEF list_cluster
  <1> HIDE DEF q, B, new
  <1>7. Len(B) \in Nat
    BY <1>3
  <1>8. CASE Ends(cb) /\ Len(new) < room
    <2>1. Free(q, Len(q.buf))
      BY <1>6, <1>8
    <2>2. Kept(o, op') /\ op'.at = "done" /\ op'.cbuf = o.cbuf /\ op'.buf = B
      BY <1>5, <2>1, FreeIs
    <2>3. ListEnd(d, max, B)
      BY <1>3, <1>8
    <2>4. IsPrefix(B, Listed(All(d)))
      <3> HIDE DEF max
      <3> QED
        BY <1>1, <2>3, ListPrefix
    <2>5. op'.kind = "list" /\ op'.arg = max
      BY <2>2 DEF Kept
    <2>6. CallDone(d, op')
      BY <2>2, <2>3, <2>4, <2>5 DEF CallDone, DirDone, DirSound
    <2> QED
      BY <2>2, <2>6 DEF Went
  <1>9. CASE ~(Ends(cb) /\ Len(new) < room)
    <2>1. GoOn(q)
      BY <1>6, <1>9
    <2>2. Kept(o, op') /\ op'.at = "next" /\ op'.cbuf = << >> /\ op'.buf = B
      BY <1>5, <2>1, GoOnIs
    <2>3. op'.kind = "list" /\ op'.arg = max
      BY <2>2 DEF Kept
    <2>4. CASE ~Ends(cb) /\ ListTo(d, max, B, m + 1)
      <3>1. Progress(d, op', m + 1)
        BY <1>1, <2>2, <2>3, <2>4 DEF Progress
      <3> QED
        BY <2>2, <2>3, <3>1 DEF Went
    <2>5. CASE Len(B) = max /\ ListEnd(d, max, B)
      <3>1. ~(Len(B) < max)
        BY <1>7, <2>5
      <3>2. Enough(d, op')
        BY <1>1, <1>3, <2>2, <2>3, <2>5, <3>1 DEF Enough
      <3> QED
        BY <2>2, <2>3, <3>2 DEF Went
    <2>6. ~(Ends(cb) /\ Len(b) + Len(new) < max)
      <3> HIDE DEF max, b
      <3> QED
        BY <1>1, <1>3, <1>9
    <2> QED
      BY <1>3, <2>4, <2>5, <2>6
  <1> QED
    BY <1>8, <1>9

LEMMA ReaddirRight ==
    ASSUME NEW d, GoodDisk(d), NEW o, DOMAIN o = Fields, o.kind = "readdir",
           NEW m \in Nat, m < Len(Clusters(d)), Progress(d, o, m), NEW cb, IsCluster(d, m, cb), readdir_cluster(o, cb)
    PROVE  Went(d, o, op', m + 1)
  <1> DEFINE idx == o.arg
             b == o.buf
             new == Listed(cb)
             at == idx - Len(b) + 1
             q == [o EXCEPT !.buf = @ \o new]
  <1>1. idx \in Nat /\ ReaddirTo(d, idx, b, m)
    BY DEF Progress
  <1>2. /\ b \in Seq(Unit) /\ new \in Seq(Unit) /\ b \o new \in Seq(Unit)
        /\ at \in DOMAIN new => ReaddirHas(d, idx, new[at])
        /\ at \notin DOMAIN new => \/ Ends(cb) /\ ReaddirLacks(d, idx)
                                   \/ ~Ends(cb) /\ ReaddirTo(d, idx, b \o new, m + 1)
    <2> HIDE DEF idx, b
    <2> QED
      BY <1>1, ReaddirCluster
  <1>3. IF at \in DOMAIN new THEN Free(o, new[at]) ELSE IF Ends(cb) THEN Free(o, -1) ELSE GoOn(q)
    BY DEF readdir_cluster
  <1>4. Kept(o, q) /\ q.buf = b \o new /\ Kept(o, o)
    BY DEF Kept, Fields
  <1> HIDE DEF q, new, at
  <1>5. CASE at \in DOMAIN new
    <2>1. Kept(o, op') /\ op'.at = "done" /\ op'.cbuf = o.cbuf /\ op'.result = new[at]
      BY <1>3, <1>4, <1>5, FreeIs
    <2>2. op'.kind = "readdir" /\ op'.arg = idx
      BY <2>1 DEF Kept
    <2>3. ReaddirHas(d, idx, new[at])
      BY <1>2, <1>5
    <2>4. new[at] >= 0
      <3>1. new[at] \in Unit
        BY <1>2, <1>5
      <3> QED
        BY <3>1, WordIs DEF Unit
    <2>5. CallDone(d, op')
      BY <2>1, <2>2, <2>3, <2>4 DEF CallDone, DirDone, DirSound
    <2> QED
      BY <2>1, <2>5 DEF Went
  <1>6. CASE at \notin DOMAIN new /\ Ends(cb)
    <2>1. Kept(o, op') /\ op'.at = "done" /\ op'.cbuf = o.cbuf /\ op'.result = -1
      BY <1>3, <1>4, <1>6, FreeIs
    <2>2. op'.kind = "readdir" /\ op'.arg = idx
      BY <2>1 DEF Kept
    <2>3. ReaddirLacks(d, idx)
      BY <1>2, <1>6
    <2>4. ~(-1 >= 0)
      OBVIOUS
    <2>5. CallDone(d, op')
      BY <2>1, <2>2, <2>3, <2>4 DEF CallDone, DirDone, DirSound
    <2> QED
      BY <2>1, <2>5 DEF Went
  <1>7. CASE at \notin DOMAIN new /\ ~Ends(cb)
    <2>1. GoOn(q)
      BY <1>3, <1>7
    <2>2. Kept(o, op') /\ op'.at = "next" /\ op'.cbuf = << >> /\ op'.buf = b \o new
      BY <1>4, <2>1, GoOnIs
    <2>3. op'.kind = "readdir" /\ op'.arg = idx
      BY <2>2 DEF Kept
    <2>4. Progress(d, op', m + 1)
      BY <1>1, <1>2, <1>7, <2>2, <2>3 DEF Progress
    <2> QED
      BY <2>2, <2>3, <2>4 DEF Went
  <1> QED
    BY <1>5, <1>6, <1>7

LEMMA LookupRight ==
    ASSUME NEW d, GoodDisk(d), NEW o, DOMAIN o = Fields, o.kind = "lookup",
           NEW m \in Nat, m < Len(Clusters(d)), Progress(d, o, m), NEW cb, IsCluster(d, m, cb), lookup_cluster(o, cb)
    PROVE  Went(d, o, op', m + 1)
  <1> DEFINE name == o.arg
  <1>1. name \in Nat /\ LookupTo(d, name, m)
    BY DEF Progress
  <1>2. /\ InLive(cb, name) => InLive(All(d), name)
        /\ ~InLive(cb, name) => \/ Ends(cb) /\ ~InLive(All(d), name)
                                \/ ~Ends(cb) /\ LookupTo(d, name, m + 1)
    <2> HIDE DEF name
    <2> QED
      BY <1>1, LookupCluster
  <1>3. IF InLive(cb, name) THEN Free(o, name) ELSE IF Ends(cb) THEN Free(o, -1) ELSE GoOn(o)
    BY DEF lookup_cluster, InLive, Holds
  <1>4. Kept(o, o)
    BY DEF Kept, Fields
  <1>5. CASE InLive(cb, name)
    <2>1. Kept(o, op') /\ op'.at = "done" /\ op'.cbuf = o.cbuf /\ op'.result = name
      BY <1>3, <1>4, <1>5, FreeIs
    <2>2. op'.kind = "lookup" /\ op'.arg = name
      BY <2>1 DEF Kept
    <2>3. name >= 0 /\ InLive(All(d), name)
      BY <1>1, <1>2, <1>5
    <2>4. CallDone(d, op')
      BY <2>1, <2>2, <2>3 DEF CallDone, DirDone, DirSound
    <2> QED
      BY <2>1, <2>4 DEF Went
  <1>6. CASE ~InLive(cb, name) /\ Ends(cb)
    <2>1. Kept(o, op') /\ op'.at = "done" /\ op'.cbuf = o.cbuf /\ op'.result = -1
      BY <1>3, <1>4, <1>6, FreeIs
    <2>2. op'.kind = "lookup" /\ op'.arg = name
      BY <2>1 DEF Kept
    <2>3. ~InLive(All(d), name) /\ ~(-1 >= 0)
      BY <1>2, <1>6
    <2>4. CallDone(d, op')
      BY <2>1, <2>2, <2>3 DEF CallDone, DirDone, DirSound
    <2> QED
      BY <2>1, <2>4 DEF Went
  <1>7. CASE ~InLive(cb, name) /\ ~Ends(cb)
    <2>1. GoOn(o)
      BY <1>3, <1>7
    <2>2. Kept(o, op') /\ op'.at = "next" /\ op'.cbuf = << >>
      BY <1>4, <2>1, GoOnIs
    <2>3. op'.kind = "lookup" /\ op'.arg = name
      BY <2>2 DEF Kept
    <2>4. Progress(d, op', m + 1)
      BY <1>1, <1>2, <1>7, <2>2, <2>3 DEF Progress
    <2> QED
      BY <2>2, <2>3, <2>4 DEF Went
  <1> QED
    BY <1>5, <1>6, <1>7

LEMMA ProcessRight ==
    ASSUME NEW d, GoodDisk(d), fat32_ctx = Volume(d), NEW o, DOMAIN o = Fields,
           NEW m \in Nat, m < Len(Clusters(d)), Progress(d, o, m), NEW cb, IsCluster(d, m, cb), process(o, cb)
    PROVE  Went(d, o, op', m + 1)
  <1>1. CASE o.kind = "read" /\ copy(o, cb)
    BY <1>1, CopyRight
  <1>2. CASE o.kind = "list" /\ list_cluster(o, cb)
    BY <1>2, ListRight
  <1>3. CASE o.kind = "readdir" /\ readdir_cluster(o, cb)
    BY <1>3, ReaddirRight
  <1>4. CASE o.kind = "lookup" /\ lookup_cluster(o, cb)
    BY <1>4, LookupRight
  <1> QED
    BY <1>1, <1>2, <1>3, <1>4 DEF process

\* Whatever the cluster is, the call keeps its fields.
LEMMA ProcessKeeps ==
    ASSUME NEW o, DOMAIN o = Fields, NEW cb, process(o, cb)
    PROVE  Kept(o, op') /\ op'.at \in {"next", "done"} /\ op'.cbuf \in {<< >>, o.cbuf}
  <1> DEFINE Goal == Kept(o, op') /\ op'.at \in {"next", "done"} /\ op'.cbuf \in {<< >>, o.cbuf}
  <1>1. ASSUME NEW q, Kept(o, q), GoOn(q) PROVE Goal
    BY <1>1, GoOnIs
  <1>2. ASSUME NEW q, Kept(o, q), q.cbuf = o.cbuf, NEW r, Free(q, r) PROVE Goal
    BY <1>2, FreeIs
  <1>3. Kept(o, o)
    BY DEF Kept, Fields
  <1>4. ASSUME NEW s PROVE LET q == [o EXCEPT !.buf = s] IN Kept(o, q) /\ q.cbuf = o.cbuf
    BY DEF Kept, Fields
  <1>5. ASSUME NEW s, NEW l PROVE Kept(o, [o EXCEPT !.buf = s, !.len = l, !.offset = 0])
    BY DEF Kept, Fields
  <1> SUFFICES Goal
    OBVIOUS
  <1> HIDE DEF Goal
  <1>6. CASE copy(o, cb)
    <2> DEFINE n == IF cluster_size - o.offset > o.len THEN o.len ELSE cluster_size - o.offset
               s == o.buf \o SubSeq(cb, o.offset + 1, o.offset + n)
               l == o.len - n
    <2>1. GoOn([o EXCEPT !.buf = s, !.len = l, !.offset = 0])
      BY <1>6 DEF copy
    <2> HIDE DEF s, l
    <2> QED
      BY <1>1, <1>5, <2>1
  <1>7. CASE list_cluster(o, cb)
    <2> DEFINE room == o.arg - Len(o.buf)
               new == Listed(cb)
               s == o.buf \o SubSeq(new, 1, IF Len(new) > room THEN room ELSE Len(new))
               q == [o EXCEPT !.buf = s]
    <2>1. Free(q, Len(q.buf)) \/ GoOn(q)
      BY <1>7 DEF list_cluster
    <2>2. Kept(o, q) /\ q.cbuf = o.cbuf
      <3> HIDE DEF s
      <3> QED
        BY <1>4
    <2> HIDE DEF q
    <2> QED
      BY <1>1, <1>2, <2>1, <2>2
  <1>8. CASE readdir_cluster(o, cb)
    <2> DEFINE s == o.buf \o Listed(cb)
               q == [o EXCEPT !.buf = s]
    <2>1. (\E r : Free(o, r)) \/ GoOn(q)
      <3>1. Free(o, Listed(cb)[o.arg - Len(o.buf) + 1]) \/ Free(o, -1) \/ GoOn(q)
        BY <1>8 DEF readdir_cluster
      <3> QED
        BY <3>1
    <2>2. Kept(o, q)
      <3> HIDE DEF s
      <3> QED
        BY <1>4
    <2> HIDE DEF q
    <2> QED
      BY <1>1, <1>2, <1>3, <2>1, <2>2
  <1>9. CASE lookup_cluster(o, cb)
    <2>1. (\E r : Free(o, r)) \/ GoOn(o)
      <3>1. Free(o, o.arg) \/ Free(o, -1) \/ GoOn(o)
        BY <1>9 DEF lookup_cluster
      <3> QED
        BY <3>1
    <2> QED
      BY <1>1, <1>2, <1>3, <2>1
  <1> QED
    BY <1>6, <1>7, <1>8, <1>9 DEF process

-----------------------------------------------------------------------------
(***************************************************************************)
(* The steps of the calls.                                                 *)
(***************************************************************************)
LEMMA LbaType ==
    ASSUME NEW d, GoodDisk(d), NEW c \in Nat, NEW k \in Int
    PROVE  fat_sector(Volume(d), c) \in Nat /\ data_sector(Volume(d), c, k) \in Nat
  <1> DEFINE v == Volume(d)
  <1>1. v.fat_start \in Nat /\ v.data_start \in Nat /\ v.spc \in Nat
    BY VolumeType
  <1> HIDE DEF v
  <1>2. c \div FAT32_SECTOR_SIZE \in Int
    BY WordIs
  <1>3. v.fat_start + c \div FAT32_SECTOR_SIZE \in Int
    BY <1>1, <1>2
  <1>4. (c - 2) * v.spc \in Int
    BY <1>1
  <1>5. v.data_start + (c - 2) * v.spc + k \in Int
    BY <1>1, <1>4
  <1>6. unsigned(v.fat_start + c \div FAT32_SECTOR_SIZE) \in Nat /\ unsigned(v.data_start + (c - 2) * v.spc + k) \in Nat
    BY <1>3, <1>5, UnsignedType
  <1> QED
    BY <1>6 DEF fat_sector, data_sector, v

LEMMA ReadTook ==
    ASSUME AtaGood, NEW l \in Nat, NEW a, ReadAnswer(a, l), Took(a)
    PROVE  AtaGood' /\ disk' = disk /\ (~astray' => ~astray /\ ~a.wrong)
  <1>1. disk' = disk /\ ata0' = ata0 /\ pending' = a.pending /\ astray' = (astray \/ a.wrong)
    BY DEF Took, ReadAnswer
  <1>2. a.wrong \in BOOLEAN /\ a.pending \in {NoCommand, pending, [op |-> "read", lba |-> l]}
    BY DEF ReadAnswer
  <1>3. AtaTypeOK /\ GoodDisk(disk) /\ (pending.op = "write" => pending.lba \in Scratch)
    BY DEF AtaGood
  <1>4. astray' \in BOOLEAN /\ (~astray' => ~astray /\ ~a.wrong)
    BY <1>1, <1>2, <1>3 DEF AtaTypeOK
  <1>5. pending' \in Command \cup {NoCommand} /\ (pending'.op = "write" => pending'.lba \in Scratch)
    <2>1. CASE pending' = pending
      BY <1>3, <2>1 DEF AtaTypeOK
    <2>2. CASE pending' = NoCommand
      BY <2>2 DEF NoCommand
    <2>3. CASE pending' = [op |-> "read", lba |-> l]
      BY <2>3 DEF Command
    <2> QED
      BY <1>1, <1>2, <2>1, <2>2, <2>3
  <1>6. AtaTypeOK'
    BY <1>1, <1>3, <1>4, <1>5 DEF AtaTypeOK
  <1>7. GoodDisk(disk')
    BY <1>1, <1>3
  <1> QED
    BY <1>1, <1>4, <1>5, <1>6, <1>7 DEF AtaGood

LEMMA NothingLoaded ==
    ASSUME NEW s, NEW a
    PROVE  IsPart(Unit, << >>, s, a, 0 * SS)
  <1>1. 0 * SS = 0
    BY WordIs DEF SS
  <1> QED
    BY <1>1 DEF IsPart

\* A cluster number of the chain.
LEMMA ClusterType ==
    ASSUME NEW d, GoodDisk(d), NEW i \in 1 .. Len(Clusters(d))
    PROVE  /\ Len(Clusters(d)) \in Nat /\ Clusters(d)[i] \in Nat /\ Clusters(d)[i] >= 2
           /\ Clusters(d)[i] # BadCluster
           /\ fat_sector(Volume(d), Clusters(d)[i]) \in 0 .. Sectors - 1
           /\ i - 1 \in Nat /\ i - 1 < Len(Clusters(d))
  <1>1. IsChain(d, Clusters(d))
    BY ClustersAre
  <1>2. Reachable(Volume(d), Clusters(d)[i]) /\ Len(Clusters(d)) \in Nat
    BY <1>1 DEF IsChain
  <1> DEFINE c == Clusters(d)[i]
  <1>3. c \in 2 .. EndOfChain - 1 /\ fat_sector(Volume(d), c) \in Safe
    BY <1>2 DEF Reachable
  <1>4. fat_sector(Volume(d), c) \in 0 .. Sectors - 1
    BY <1>3, SectorsAssumption DEF Safe
  <1>5. i - 1 \in Nat /\ i - 1 < Len(Clusters(d))
    BY <1>2
  <1> HIDE DEF c
  <1>6. c \in Nat /\ c >= 2 /\ c # BadCluster
    BY <1>3, WordIs DEF BadCluster
  <1> QED
    BY <1>2, <1>4, <1>5, <1>6 DEF c

LEMMA FirstSector ==
    ASSUME NEW d, GoodDisk(d)
    PROVE  0 \in 0 .. Volume(d).spc - 1
  <1> DEFINE spc == Volume(d).spc
  <1>1. spc \in Nat /\ spc > 0
    BY VolumeType
  <1> HIDE DEF spc
  <1>2. 0 \in 0 .. spc - 1
    BY <1>1
  <1> QED
    BY <1>2 DEF spc

\* The chain ends before the offset.
LEMMA SkipEnds ==
    ASSUME NEW d, GoodDisk(d), NEW t \in Nat, t >= Len(Clusters(d)), NEW off \in Nat
    PROVE  t * SizeOf(d) + off >= Len(All(d))
  <1> DEFINE n == Len(Clusters(d))
             size == SizeOf(d)
  <1>1. n \in Nat /\ size \in Nat /\ t >= n
    <2>1. IsChain(d, Clusters(d))
      BY ClustersAre
    <2>2. n \in Nat
      BY <2>1 DEF IsChain
    <2> QED
      BY <2>2, SizeType
  <1>2. Len(All(d)) = n * size
    BY PreAll
  <1> HIDE DEF n, size
  <1>3. t * size >= n * size /\ t * size \in Nat /\ n * size \in Nat
    <2>1. PICK k \in Nat : t = n + k
      <3>1. t - n \in Nat /\ t = n + (t - n)
        BY <1>1
      <3> QED
        BY <3>1
    <2>2. t * size = n * size + k * size /\ k * size \in Nat /\ n * size \in Nat
      BY <1>1, <2>1
    <2> QED
      BY <1>1, <2>2
  <1>4. t * size + off >= Len(All(d))
    BY <1>2, <1>3
  <1> QED
    BY <1>4 DEF size

\* The first cluster to copy from.
LEMMA ReadStarts ==
    ASSUME NEW d, GoodDisk(d), NEW m \in Nat, m < Len(Clusters(d)), NEW p, p.kind = "read",
           p.arg[1] \in Nat, p.arg[2] \in Nat, p.arg[2] > 0, p.len = p.arg[2], p.buf = << >>,
           p.offset \in Nat, p.offset < SizeOf(d), p.arg[1] = m * SizeOf(d) + p.offset
    PROVE  Progress(d, p, m)
  <1> DEFINE a == p.arg[1]
             off == p.offset
             size == SizeOf(d)
             x == m * size
             z == Len(All(d))
  <1>1. size \in Nat /\ x \in Nat /\ z \in Nat /\ x + size <= z /\ All(d) \in Seq(Unit)
    BY ClusterFits
  <1>2. a = x + off /\ off < size /\ a \in Nat /\ off \in Nat
    OBVIOUS
  <1>3. a < z
    <2> HIDE DEF a, off, size, x, z
    <2> QED
      BY <1>1, <1>2
  <1>4. Len(p.buf) = 0 /\ p.buf \in Seq(Unit) /\ a + 0 = a
    BY <1>2
  <1>5. p.buf = Part(All(d), a, a)
    <2>1. IsPart(Unit, Part(All(d), a, a), All(d), a, a - a)
      <3>1. a <= a /\ a <= Len(All(d))
        BY <1>1, <1>2, <1>3
      <3> HIDE DEF a
      <3> QED
        BY <1>1, <1>2, <3>1, PartIs
    <2>2. a - a = 0
      BY <1>2
    <2>3. IsPart(Unit, p.buf, All(d), a, 0)
      BY <1>4 DEF IsPart
    <2> HIDE DEF a
    <2> QED
      BY <2>1, <2>2, <2>3, SamePart
  <1>6. ReadTo(d, a, p.arg[2], p.buf, p.len, m, off)
    <2>1. x + off = a + Len(p.buf) /\ Len(p.buf) + p.len = p.arg[2]
      BY <1>2, <1>4
    <2>2. p.buf = Part(All(d), a, a + Len(p.buf))
      BY <1>4, <1>5
    <2> QED
      BY <1>3, <2>1, <2>2 DEF ReadTo
  <1> QED
    BY <1>4, <1>6 DEF Progress

\* What is claimed of a call does not depend on where it is.
Alike(p, q) ==
    /\ q.kind = p.kind /\ q.arg = p.arg /\ q.cluster = p.cluster /\ q.skip = p.skip /\ q.offset = p.offset
    /\ q.len = p.len /\ q.cbuf = p.cbuf /\ q.buf = p.buf

LEMMA AlikeClaims ==
    ASSUME NEW d, NEW p, NEW q, Alike(p, q)
    PROVE  /\ \A m : Progress(d, p, m) => Progress(d, q, m)
           /\ Enough(d, p) => Enough(d, q)
           /\ Skips(d, p) => Skips(d, q)
           /\ Loads(d, p) => Loads(d, q)
  <1>1. \A m : Progress(d, p, m) => Progress(d, q, m)
    BY DEF Alike, Progress
  <1>2. Enough(d, p) => Enough(d, q)
    BY DEF Alike, Enough
  <1>3. Skips(d, p) => Skips(d, q)
    BY DEF Alike, Skips
  <1>4. ASSUME Loads(d, p) PROVE Loads(d, q)
    <2>1. PICK i \in 1 .. Len(Clusters(d)), k \in 0 .. Volume(d).spc - 1 :
             /\ p.cluster = Clusters(d)[i] /\ IsPart(Unit, p.cbuf, All(d), (i - 1) * SizeOf(d), k * SS)
             /\ Progress(d, p, i - 1)
      BY <1>4 DEF Loads
    <2>2. q.cluster = Clusters(d)[i] /\ IsPart(Unit, q.cbuf, All(d), (i - 1) * SizeOf(d), k * SS)
      BY <2>1 DEF Alike
    <2>3. Progress(d, q, i - 1)
      BY <1>1, <2>1
    <2> QED
      BY <2>2, <2>3 DEF Loads
  <1> QED
    BY <1>1, <1>2, <1>3, <1>4

LEMMA SkipRight ==
    ASSUME NEW d, GoodDisk(d), NEW o, Skips(d, o), NEW a, ~a.err,
           a.data = d[fat_sector(Volume(d), o.cluster)],
           NEW p, p.kind = "read", p.arg = o.arg, p.buf = o.buf, p.cbuf = o.cbuf, p.offset = o.offset, p.len = o.len,
           p.cluster = next_cluster(o.cluster, a), p.skip = o.skip - 1
    PROVE  /\ p.cluster < 2 => p.arg[1] >= Len(All(d))
           /\ p.cluster >= 2 /\ p.skip > 0 => Skips(d, p)
           /\ p.cluster >= 2 /\ p.skip = 0 => Loads(d, p)
  <1> DEFINE s == Clusters(d)
             n == Len(s)
  <1>1. PICK i \in 1 .. n, t \in Nat :
        /\ o.cluster = s[i] /\ o.skip \in Nat /\ o.skip > 0 /\ t = (i - 1) + o.skip
        /\ o.arg[1] \in Nat /\ o.arg[2] \in Nat /\ o.arg[2] > 0 /\ o.len = o.arg[2]
        /\ o.offset \in Nat /\ o.offset < SizeOf(d) /\ o.arg[1] = t * SizeOf(d) + o.offset
        /\ o.buf = << >> /\ o.cbuf = << >>
    BY DEF Skips
  <1>2. n \in Nat
    BY ClusterType
  <1>3. /\ i < n => i + 1 \in 1 .. n /\ next_cluster(s[i], a) = s[i + 1]
        /\ ~(i < n) => i = n /\ next_cluster(s[i], a) < 2
    BY <1>1, NextRight
  <1>4. CASE i < n
    <2>1. i + 1 \in 1 .. n /\ p.cluster = s[i + 1]
      BY <1>1, <1>3, <1>4
    <2>2. p.cluster \in Nat /\ p.cluster >= 2
      BY <2>1, ClusterType
    <2>3. ASSUME p.skip > 0 PROVE Skips(d, p)
      <3>1. p.skip \in Nat /\ t = ((i + 1) - 1) + p.skip
        BY <1>1, <2>3
      <3> QED
        BY <1>1, <2>1, <2>3, <3>1 DEF Skips
    <2>4. ASSUME p.skip = 0 PROVE Loads(d, p)
      <3>1. t = i /\ i \in Nat /\ (i + 1) - 1 = i
        BY <1>1, <2>4
      <3>2. Progress(d, p, i)
        <4>1. /\ p.arg[1] \in Nat /\ p.arg[2] \in Nat /\ p.arg[2] > 0 /\ p.len = p.arg[2] /\ p.buf = << >>
              /\ p.offset \in Nat /\ p.offset < SizeOf(d) /\ p.arg[1] = i * SizeOf(d) + p.offset
          BY <1>1, <3>1
        <4> QED
          BY <1>4, <3>1, <4>1, ReadStarts
      <3>3. 0 \in 0 .. Volume(d).spc - 1
        BY FirstSector
      <3>4. p.cbuf = << >>
        BY <1>1
      <3>5. IsPart(Unit, p.cbuf, All(d), ((i + 1) - 1) * SizeOf(d), 0 * SS)
        BY <3>4, NothingLoaded
      <3> QED
        BY <2>1, <3>1, <3>2, <3>3, <3>5 DEF Loads
    <2>5. ~(p.cluster < 2)
      BY <2>2
    <2> QED
      BY <2>3, <2>4, <2>5
  <1>5. CASE ~(i < n)
    <2>1. i = n /\ p.cluster < 2
      BY <1>1, <1>3, <1>5
    <2>2. t >= Len(Clusters(d))
      BY <1>1, <1>2, <2>1
    <2>3. p.arg[1] >= Len(All(d))
      <3>1. t * SizeOf(d) + o.offset >= Len(All(d))
        BY <1>1, <2>2, SkipEnds
      <3> QED
        BY <1>1, <3>1
    <2>4. ~(p.cluster >= 2)
      <3>1. p.cluster \in Nat
        <4>1. s[i] \in Nat /\ fat_sector(Volume(d), s[i]) \in 0 .. Sectors - 1
          BY ClusterType
        <4>2. a.data \in Seq(Unit) /\ Len(a.data) >= SS
          BY <1>1, <4>1, SectorType
        <4>3. next_cluster(s[i], a) \in Nat
          BY <4>1, <4>2, NextType
        <4> QED
          BY <1>1, <4>3
      <3> QED
        BY <2>1, <3>1
    <2> QED
      BY <2>3, <2>4
  <1> QED
    BY <1>4, <1>5

\* The cluster after the i-th, once the i-th has been dealt with.
LEMMA FollowRight ==
    ASSUME NEW d, GoodDisk(d), NEW o, Follows(d, o), NEW a, ~a.err,
           a.data = d[fat_sector(Volume(d), o.cluster)],
           NEW p, DOMAIN p = Fields, p.kind = o.kind, p.arg = o.arg, p.buf = o.buf, p.cbuf = o.cbuf,
           p.offset = o.offset, p.len = o.len, p.cluster = next_cluster(o.cluster, a)
    PROVE  /\ Continues(p) => Loads(d, p)
           /\ ~Continues(p) => \A q : (q.kind = p.kind /\ q.arg = p.arg /\ q.buf = p.buf
                 /\ q.result = IF p.kind \in {"read", "list"} THEN Len(p.buf) ELSE -1) => CallDone(d, q)
  <1> DEFINE s == Clusters(d)
             n == Len(s)
  <1>1. PICK i \in 1 .. n : /\ o.cluster = s[i] /\ o.cbuf = << >> /\ (o.kind = "read" => o.offset = 0)
                            /\ Progress(d, o, i) \/ Enough(d, o)
    BY DEF Follows
  <1>2. n \in Nat
    BY ClusterType
  <1>3. /\ i < n => i + 1 \in 1 .. n /\ next_cluster(s[i], a) = s[i + 1]
        /\ ~(i < n) => i = n /\ next_cluster(s[i], a) < 2
    BY <1>1, NextRight
  <1>4. Progress(d, p, i) \/ Enough(d, p)
    <2>1. Progress(d, o, i) => Progress(d, p, i)
      BY DEF Progress
    <2>2. Enough(d, o) => Enough(d, p)
      BY DEF Enough
    <2> QED
      BY <1>1, <2>1, <2>2
  <1>5. p.kind \in Dirs \cup {"read"}
    BY <1>4 DEF Progress, Enough, Dirs
  <1>6. Enough(d, p) => ~Continues(p)
    BY DEF Enough, Continues
  <1>7. ASSUME i < n, Progress(d, p, i) PROVE Continues(p) /\ Loads(d, p)
    <2>1. i + 1 \in 1 .. n /\ p.cluster = s[i + 1] /\ i \in Nat /\ (i + 1) - 1 = i
      BY <1>1, <1>3, <1>7
    <2>2. p.cluster >= 2
      BY <2>1, ClusterType
    <2>3. Continues(p)
      BY <1>7, <2>2 DEF Continues, Progress, ReadTo, ListTo
    <2>4. 0 \in 0 .. Volume(d).spc - 1
      BY FirstSector
    <2>5. IsPart(Unit, p.cbuf, All(d), ((i + 1) - 1) * SizeOf(d), 0 * SS)
      BY <1>1, NothingLoaded
    <2>6. Loads(d, p)
      BY <1>7, <2>1, <2>4, <2>5 DEF Loads
    <2> QED
      BY <2>3, <2>6
  <1>8. ASSUME ~(i < n) PROVE ~Continues(p) /\ i = n
    <2>1. i = n /\ p.cluster < 2
      BY <1>1, <1>3, <1>8
    <2>2. p.cluster \in Nat
      <3>1. s[i] \in Nat /\ fat_sector(Volume(d), s[i]) \in 0 .. Sectors - 1
        BY ClusterType
      <3>2. a.data \in Seq(Unit) /\ Len(a.data) >= SS
        BY <1>1, <3>1, SectorType
      <3>3. next_cluster(s[i], a) \in Nat
        BY <3>1, <3>2, NextType
      <3> QED
        BY <1>1, <3>3
    <2>3. ~(p.cluster >= 2)
      BY <2>1, <2>2
    <2> QED
      BY <2>1, <2>3 DEF Continues
  <1>9. ASSUME NEW q, q.kind = p.kind, q.arg = p.arg, q.buf = p.buf,
               q.result = (IF p.kind \in {"read", "list"} THEN Len(p.buf) ELSE -1),
               Enough(d, p) \/ (i = n /\ Progress(d, p, i))
        PROVE  CallDone(d, q)
    <2>1. CASE p.kind = "read"
      <3>1. q.result = Len(p.buf)
        BY <1>9, <2>1
      <3>2. p.buf \in Seq(Unit)
        BY <1>9, <2>1 DEF Enough, Progress
      <3>3. ~(q.result < 0)
        BY <3>1, <3>2
      <3>4. ReadEnd(d, p.arg[1], p.arg[2], p.buf)
        <4>1. CASE Enough(d, p)
          BY <2>1, <4>1 DEF Enough
        <4>2. CASE i = n /\ Progress(d, p, i)
          <5> DEFINE x == p.arg[1]
                     l == p.arg[2]
                     b == p.buf
                     len == p.len
          <5>1. x \in Nat /\ l \in Nat /\ b \in Seq(Unit) /\ len \in Nat /\ ReadTo(d, x, l, b, len, n, 0)
            BY <1>1, <2>1, <4>2 DEF Progress
          <5>2. ReadEnd(d, x, l, b)
            <6> HIDE DEF x, l, b, len
            <6> QED
              BY <5>1, ReadAll
          <5> QED
            BY <5>2
        <4> QED
          BY <1>9, <4>1, <4>2
      <3>5. ReadDone(d, q)
        BY <1>9, <3>3, <3>4 DEF ReadDone
      <3>6. q.kind = "read"
        BY <1>9, <2>1
      <3> QED
        BY <3>5, <3>6 DEF CallDone, Dirs
    <2>2. CASE p.kind = "list"
      <3> DEFINE max == p.arg
                 b == p.buf
      <3>1. max \in Nat /\ ListEnd(d, max, b)
        <4>1. CASE Enough(d, p)
          BY <2>2, <4>1 DEF Enough
        <4>2. CASE i = n /\ Progress(d, p, i)
          <5>1. max \in Nat /\ ListTo(d, max, b, Len(Clusters(d)))
            BY <2>2, <4>2 DEF Progress
          <5> HIDE DEF max, b
          <5> QED
            BY <5>1, ListAll
        <4> QED
          BY <1>9, <4>1, <4>2
      <3>2. IsPrefix(b, Listed(All(d)))
        <4> HIDE DEF max, b
        <4> QED
          BY <3>1, ListPrefix
      <3>3. q.kind = "list"
        BY <1>9, <2>2
      <3> QED
        BY <1>9, <3>1, <3>2, <3>3 DEF CallDone, DirDone, DirSound
    <2>3. CASE p.kind = "readdir"
      <3>1. i = n /\ Progress(d, p, i)
        BY <1>9, <2>3 DEF Enough
      <3>2. p.arg \in Nat /\ ReaddirTo(d, p.arg, p.buf, Len(Clusters(d)))
        BY <2>3, <3>1 DEF Progress
      <3>3. ReaddirLacks(d, p.arg)
        BY <3>2, ReaddirAll
      <3>4. q.kind = "readdir" /\ q.result = -1 /\ ~(-1 >= 0)
        BY <1>9, <2>3
      <3> QED
        BY <1>9, <3>3, <3>4 DEF CallDone, DirDone, DirSound
    <2>4. CASE p.kind = "lookup"
      <3>1. i = n /\ Progress(d, p, i)
        BY <1>9, <2>4 DEF Enough
      <3>2. LookupTo(d, p.arg, Len(Clusters(d)))
        BY <2>4, <3>1 DEF Progress
      <3>3. ~InLive(All(d), p.arg)
        BY <3>2, LookupAll
      <3>4. q.kind = "lookup" /\ q.result = -1 /\ ~(-1 >= 0)
        BY <1>9, <2>4
      <3> QED
        BY <1>9, <3>3, <3>4 DEF CallDone, DirDone, DirSound
    <2> QED
      BY <1>5, <2>1, <2>2, <2>3, <2>4 DEF Dirs
  <1>10. Continues(p) => Loads(d, p)
    BY <1>4, <1>6, <1>7, <1>8
  <1>11. ~Continues(p) => Enough(d, p) \/ (i = n /\ Progress(d, p, i))
    BY <1>4, <1>7, <1>8
  <1> QED
    BY <1>9, <1>10, <1>11

\* A step of a call that reads a sector.
LEMMA Underway ==
    ASSUME FatInv, op.at # "done"
    PROVE  fat32_ctx = Volume(disk) /\ GoodDisk(disk) /\ AtaGood /\ Shape(op)
  <1>1. op # NoOp
    BY DEF NoOp
  <1> QED
    BY <1>1 DEF FatInv, Mounted, AtaGood

LEMMA ReadStep ==
    ASSUME FatInv, op.at # "done", NEW l \in Nat, NEW a \in ata_pio_sector("read", l, << >>), Took(a),
           fat32_ctx' = fat32_ctx, Shape(op'),
           ~astray /\ ~a.wrong /\ ~op'.walked => Trust(disk, op')
    PROVE  FatInv'
  <1>1. fat32_ctx = Volume(disk) /\ AtaGood
    BY Underway
  <1>2. ReadAnswer(a, l)
    BY <1>1, ReadAnswerIs
  <1>3. AtaGood' /\ disk' = disk /\ (~astray' => ~astray /\ ~a.wrong)
    BY <1>1, <1>2, ReadTook
  <1>4. fat32_ctx' = Volume(disk')
    BY <1>1, <1>3
  <1>5. (~astray' /\ ~op'.walked) => Trust(disk', op')
    BY <1>3
  <1>6. Mounted' /\ Shape(op)'
    BY <1>4 DEF Mounted
  <1> QED
    BY <1>3, <1>5, <1>6 DEF FatInv

LEMMA SkipKeeps ==
    ASSUME FatInv, skip_cluster
    PROVE  FatInv'
  <1> DEFINE l == fat_sector(fat32_ctx, op.cluster)
  <1>0. op.at = "skip" /\ fat32_ctx' = fat32_ctx
    BY DEF skip_cluster
  <1>1. fat32_ctx = Volume(disk) /\ GoodDisk(disk) /\ AtaGood /\ Shape(op)
    BY <1>0, Underway
  <1>2. op.kind = "read" /\ op.cluster \in Nat /\ DOMAIN op = Fields /\ op.cbuf \in Seq(Unit)
        /\ op.walked \in BOOLEAN /\ op.failed \in BOOLEAN
    BY <1>0, <1>1 DEF Shape
  <1>3. l \in Nat
    <2>1. 0 \in Int
      OBVIOUS
    <2> QED
      BY <1>1, <1>2, <2>1, LbaType
  <1>4. PICK a \in ata_pio_sector("read", l, << >>) :
           /\ Took(a)
           /\ LET o == [op EXCEPT !.cluster = next_cluster(op.cluster, a), !.skip = @ - 1, !.failed = @ \/ a.err]
              IN  \/ o.cluster < 2 /\ Return(o, -1) /\ UNCHANGED held
                  \/ o.cluster >= 2 /\ o.skip > 0 /\ op' = o /\ UNCHANGED held
                  \/ o.cluster >= 2 /\ o.skip = 0 /\ Allocate(o)
    BY DEF skip_cluster
  <1> DEFINE o == [op EXCEPT !.cluster = next_cluster(op.cluster, a), !.skip = @ - 1, !.failed = @ \/ a.err]
  <1>5. ReadAnswer(a, l)
    BY <1>1, <1>3, ReadAnswerIs
  <1>6. a.err \in BOOLEAN /\ a.wrong \in BOOLEAN /\ (~a.err => a.data \in Seq(Unit) /\ Len(a.data) >= SS)
        /\ (~a.err /\ ~a.wrong => a.data = disk[l])
    BY <1>5 DEF ReadAnswer
  <1>7. next_cluster(op.cluster, a) \in Nat
    BY <1>2, <1>6, NextType
  <1>8. /\ DOMAIN o = Fields /\ o.kind = "read" /\ o.arg = op.arg /\ o.buf = op.buf /\ o.cbuf = op.cbuf
        /\ o.offset = op.offset /\ o.len = op.len /\ o.cluster = next_cluster(op.cluster, a)
        /\ o.skip = op.skip - 1 /\ o.at = "skip" /\ o.walked = op.walked
    BY <1>0, <1>2 DEF Fields
  <1>9. o.failed = (op.failed \/ a.err)
    BY <1>2 DEF Fields
  <1>10. o.failed \in BOOLEAN /\ (~o.failed => ~op.failed /\ ~a.err)
    BY <1>2, <1>6, <1>9
  <1> HIDE DEF o, l
  <1>11. \/ o.cluster < 2 /\ op' = [o EXCEPT !.at = "done", !.result = -1]
         \/ o.cluster >= 2 /\ o.skip > 0 /\ op' = o
         \/ o.cluster >= 2 /\ o.skip = 0 /\ op' = [o EXCEPT !.at = "load"]
         \/ op' = [[o EXCEPT !.failed = TRUE] EXCEPT !.at = "done", !.result = -1]
    BY <1>4 DEF o, Return, Allocate
  <1>12. /\ DOMAIN op' = Fields /\ Alike(o, op') /\ op'.walked = op.walked
         /\ \/ o.cluster < 2 /\ op'.at = "done" /\ op'.result = -1 /\ op'.failed = o.failed
            \/ o.cluster >= 2 /\ o.skip > 0 /\ op'.at = "skip" /\ op'.failed = o.failed
            \/ o.cluster >= 2 /\ o.skip = 0 /\ op'.at = "load" /\ op'.failed = o.failed
            \/ op'.at = "done" /\ op'.failed = TRUE
    <2>1. CASE o.cluster < 2 /\ op' = [o EXCEPT !.at = "done", !.result = -1]
      BY <1>8, <2>1 DEF Fields, Alike
    <2>2. CASE o.cluster >= 2 /\ o.skip > 0 /\ op' = o
      BY <1>8, <2>2 DEF Fields, Alike
    <2>3. CASE o.cluster >= 2 /\ o.skip = 0 /\ op' = [o EXCEPT !.at = "load"]
      BY <1>8, <2>3 DEF Fields, Alike
    <2>4. CASE op' = [[o EXCEPT !.failed = TRUE] EXCEPT !.at = "done", !.result = -1]
      BY <1>8, <2>4 DEF Fields, Alike
    <2> QED
      BY <1>11, <2>1, <2>2, <2>3, <2>4
  <1>13. Shape(op')
    <2>1. op'.kind = "read" /\ op'.cluster \in Nat /\ op'.cbuf \in Seq(Unit)
      BY <1>2, <1>7, <1>8, <1>12 DEF Alike
    <2>2. op'.failed \in BOOLEAN /\ op'.at \in {"skip", "load", "done"} /\ op'.walked \in BOOLEAN
      BY <1>2, <1>10, <1>12
    <2> QED
      BY <1>12, <2>1, <2>2 DEF Shape
  <1>14. ASSUME ~astray, ~a.wrong, ~op'.walked PROVE Trust(disk, op')
    <2>1. op'.kind = "read"
      BY <1>8, <1>12 DEF Alike
    <2>2. op'.failed => Marred(disk, op')
      BY <2>1 DEF Marred, Dirs
    <2>3. ASSUME ~op'.failed PROVE Right(disk, op')
      <3>1. ~op.failed /\ ~a.err
        BY <1>10, <1>12, <2>3
      <3>2. ~op.walked
        BY <1>12, <1>14
      <3>3. Skips(disk, op)
        <4>1. Trust(disk, op)
          BY <1>14, <3>2 DEF FatInv
        <4> QED
          BY <1>0, <1>2, <3>1, <4>1 DEF Trust, Right
      <3>4. a.data = disk[fat_sector(Volume(disk), op.cluster)]
        BY <1>1, <1>6, <1>14, <3>1 DEF l
      <3>5. /\ o.cluster < 2 => o.arg[1] >= Len(All(disk))
            /\ o.cluster >= 2 /\ o.skip > 0 => Skips(disk, o)
            /\ o.cluster >= 2 /\ o.skip = 0 => Loads(disk, o)
        BY <1>1, <1>8, <3>1, <3>3, <3>4, SkipRight
      <3>6. (Skips(disk, o) => Skips(disk, op')) /\ (Loads(disk, o) => Loads(disk, op'))
        BY <1>12, AlikeClaims
      <3>7. CASE o.cluster < 2 /\ op'.at = "done" /\ op'.result = -1
        <4>1. op'.arg[1] >= Len(All(disk))
          BY <1>12, <3>5, <3>7 DEF Alike
        <4>2. ReadDone(disk, op')
          BY <3>7, <4>1 DEF ReadDone
        <4> QED
          BY <2>1, <3>7, <4>2 DEF Right, CallDone, Dirs
      <3>8. CASE o.cluster >= 2 /\ o.skip > 0 /\ op'.at = "skip"
        BY <3>5, <3>6, <3>8 DEF Right
      <3>9. CASE o.cluster >= 2 /\ o.skip = 0 /\ op'.at = "load"
        BY <3>5, <3>6, <3>9 DEF Right
      <3> QED
        BY <1>12, <2>3, <3>7, <3>8, <3>9
    <2> QED
      BY <2>1, <2>2, <2>3 DEF Trust, Transfers
  <1> QED
    BY <1>0, <1>3, <1>4, <1>13, <1>14, ReadStep

LEMMA LoadKeeps ==
    ASSUME FatInv, load_sector
    PROVE  FatInv'
  <1> DEFINE k == Len(op.cbuf) \div FAT32_SECTOR_SIZE
             o == [op EXCEPT !.walked = @ \/ op.cluster = BadCluster]
             l == data_sector(fat32_ctx, op.cluster, k)
             g == [o EXCEPT !.failed = TRUE]
  <1>0. op.at = "load" /\ fat32_ctx' = fat32_ctx
    BY DEF load_sector
  <1>1. fat32_ctx = Volume(disk) /\ GoodDisk(disk) /\ AtaGood /\ Shape(op)
    BY <1>0, Underway
  <1>2. op.kind \in Dirs \cup {"read"} /\ op.cluster \in Nat /\ DOMAIN op = Fields /\ op.cbuf \in Seq(Unit)
        /\ op.walked \in BOOLEAN /\ op.failed \in BOOLEAN
    BY <1>0, <1>1 DEF Shape
  <1>3. l \in Nat
    <2>1. Len(op.cbuf) \in Nat
      BY <1>2
    <2>2. k \in Int
      BY <2>1, WordIs
    <2> HIDE DEF k
    <2> QED
      BY <1>1, <1>2, <2>2, LbaType
  <1>4. PICK a \in ata_pio_sector("read", l, << >>) :
           /\ Took(a)
           /\ \/ a.err /\ give_up(g)
              \/ ~a.err /\ k + 1 < fat32_ctx.spc /\ op' = [o EXCEPT !.cbuf = @ \o a.data]
              \/ ~a.err /\ k + 1 = fat32_ctx.spc /\ process(o, op.cbuf \o a.data)
    BY DEF load_sector
  <1>5. ReadAnswer(a, l)
    BY <1>1, <1>3, ReadAnswerIs
  <1>6. a.err \in BOOLEAN /\ a.wrong \in BOOLEAN /\ (~a.err => a.data \in Seq(Unit) /\ Len(a.data) >= SS)
        /\ (~a.err /\ ~a.wrong => a.data = disk[l])
    BY <1>5 DEF ReadAnswer
  <1>7. /\ DOMAIN o = Fields /\ o.kind = op.kind /\ o.arg = op.arg /\ o.cluster = op.cluster /\ o.cbuf = op.cbuf
        /\ o.at = "load" /\ o.failed = op.failed /\ Alike(op, o)
    BY <1>0, <1>2 DEF Fields, Alike
  <1>8. o.walked = (op.walked \/ op.cluster = BadCluster)
    BY <1>2 DEF Fields
  <1>9. o.walked \in BOOLEAN /\ (~o.walked => ~op.walked /\ op.cluster # BadCluster)
    BY <1>2, <1>8
  <1> HIDE DEF o, l, k
  <1>10. /\ DOMAIN g = Fields /\ g.kind = op.kind /\ g.arg = op.arg /\ g.cluster = op.cluster /\ g.cbuf = op.cbuf
         /\ g.failed = TRUE /\ g.walked = o.walked /\ g.buf = op.buf
    BY <1>7 DEF Fields, Alike
  <1> HIDE DEF g
  <1> DEFINE Goal == Shape(op') /\ (~astray /\ ~a.wrong /\ ~op'.walked => Trust(disk, op'))
  \* What the invariant says when nothing has gone wrong so far.
  <1>11. ASSUME ~astray, ~o.walked, ~op.failed \/ op.kind \in Dirs
         PROVE  ~op.failed /\ \E i \in 1 .. Len(Clusters(disk)), j \in 0 .. Volume(disk).spc - 1 :
                   /\ op.cluster = Clusters(disk)[i]
                   /\ IsPart(Unit, op.cbuf, All(disk), (i - 1) * SizeOf(disk), j * SS)
                   /\ Progress(disk, op, i - 1)
    <2>1. Trust(disk, op)
      BY <1>9, <1>11 DEF FatInv
    <2>2. ~op.failed
      <3> SUFFICES ASSUME op.failed PROVE FALSE
        BY <1>2
      <3>1. Marred(disk, op) /\ op.kind \in Dirs
        BY <1>2, <1>11, <2>1 DEF Trust
      <3>2. op.cluster = BadCluster
        BY <1>0, <3>1 DEF Marred
      <3> QED
        BY <1>9, <1>11, <3>2
    <2>3. Loads(disk, op)
      BY <1>0, <1>2, <2>1, <2>2 DEF Trust, Right
    <2> QED
      BY <2>2, <2>3 DEF Loads
  <1>12. ASSUME a.err, give_up(g) PROVE Goal
    <2> DEFINE r == IF g.kind = "list" THEN Len(g.buf) ELSE -1
    <2>1. Free(g, r)
      BY <1>12 DEF give_up
    <2>2. Kept(g, g)
      BY <1>10 DEF Kept
    <2>3. Kept(g, op') /\ op'.at = "done" /\ op'.cbuf = op.cbuf /\ op'.buf = op.buf /\ op'.result = r
      <3> HIDE DEF r
      <3> QED
        BY <1>10, <2>1, <2>2, FreeIs
    <2>4. /\ DOMAIN op' = Fields /\ op'.kind = op.kind /\ op'.arg = op.arg /\ op'.cluster = op.cluster
          /\ op'.failed = TRUE /\ op'.walked = o.walked
      BY <1>10, <2>3 DEF Kept
    <2>5. Shape(op')
      BY <1>2, <1>9, <2>3, <2>4 DEF Shape
    <2>6. ASSUME ~astray, ~a.wrong, ~op'.walked PROVE Trust(disk, op')
      <3>1. ASSUME op.kind \in Dirs PROVE DirSound(disk, op')
        <4>1. ~o.walked
          BY <2>4, <2>6
        <4>2. PICK i \in 1 .. Len(Clusters(disk)) : Progress(disk, op, i - 1)
          BY <1>11, <2>6, <3>1, <4>1
        <4>3. op.kind = "list" => IsPrefix(op.buf, Listed(All(disk)))
          <5> SUFFICES ASSUME op.kind = "list" PROVE IsPrefix(op.buf, Listed(All(disk)))
            OBVIOUS
          <5>1. op.arg \in Nat /\ op.buf = Listed(Pre(disk, i - 1))
            BY <4>2 DEF Progress, ListTo
          <5>2. i - 1 \in Nat /\ i - 1 <= Len(Clusters(disk))
            BY <1>1, ClusterType
          <5> DEFINE m == i - 1
                     max == op.arg
                     b == op.buf
          <5>3. max \in Nat /\ m \in Nat /\ m <= Len(Clusters(disk)) /\ b = Listed(Pre(disk, m))
            BY <5>1, <5>2
          <5> HIDE DEF m, max, b
          <5>4. IsPrefix(b, Listed(All(disk)))
            BY <1>1, <5>3, ListPrefix
          <5> QED
            BY <5>4 DEF b
        <4>4. op.kind # "list" => ~(op'.result >= 0)
          <5>1. op.kind # "list" => op'.result = -1
            BY <1>10, <2>3
          <5> QED
            BY <5>1
        <4> QED
          BY <2>3, <2>4, <4>3, <4>4 DEF DirSound
      <3>2. Marred(disk, op')
        BY <2>3, <2>4, <3>1 DEF Marred
      <3> QED
        BY <1>2, <2>4, <3>2 DEF Trust, Transfers, Dirs
    <2> QED
      BY <2>5, <2>6
  <1>13. ASSUME ~a.err, k + 1 < fat32_ctx.spc, op' = [o EXCEPT !.cbuf = @ \o a.data] PROVE Goal
    <2>1. /\ DOMAIN op' = Fields /\ op'.kind = op.kind /\ op'.arg = op.arg /\ op'.cluster = op.cluster
          /\ op'.failed = op.failed /\ op'.walked = o.walked /\ op'.at = "load"
          /\ op'.cbuf = op.cbuf \o a.data /\ op'.buf = op.buf /\ op'.len = op.len /\ op'.offset = op.offset
      BY <1>7, <1>13 DEF Fields, Alike
    <2>2. Shape(op')
      <3>1. op'.cbuf \in Seq(Unit)
        <4> DEFINE x == op.cbuf
                   y == a.data
        <4>1. x \in Seq(Unit) /\ y \in Seq(Unit) /\ op'.cbuf = x \o y
          BY <1>2, <1>6, <1>13, <2>1
        <4> HIDE DEF x, y
        <4> QED
          BY <4>1
      <3> QED
        BY <1>2, <1>9, <2>1, <3>1 DEF Shape, Dirs
    <2>3. ASSUME ~astray, ~a.wrong, ~op'.walked PROVE Trust(disk, op')
      <3>1. ~o.walked
        BY <2>1, <2>3
      <3>2. CASE ~op.failed
        <4>1. PICK i \in 1 .. Len(Clusters(disk)), j \in 0 .. Volume(disk).spc - 1 :
                   /\ op.cluster = Clusters(disk)[i]
                   /\ IsPart(Unit, op.cbuf, All(disk), (i - 1) * SizeOf(disk), j * SS)
                   /\ Progress(disk, op, i - 1)
          BY <1>11, <2>3, <3>1, <3>2
        <4>2. Len(op.cbuf) \div SS = j
          BY <1>1, <4>1, SectorAdded
        <4>3. k = j
          BY <4>2 DEF k, SS
        <4>4. a.data = disk[data_sector(Volume(disk), Clusters(disk)[i], j)]
          BY <1>1, <1>6, <1>13, <2>3, <4>1, <4>3 DEF l
        <4>5. IsPart(Unit, op.cbuf \o a.data, All(disk), (i - 1) * SizeOf(disk), (j + 1) * SS)
          BY <1>1, <4>1, <4>4, SectorAdded
        <4>6. j + 1 \in 0 .. Volume(disk).spc - 1
          <5> DEFINE spc == Volume(disk).spc
          <5>1. spc \in Nat /\ j + 1 < spc /\ j \in 0 .. spc - 1
            BY <1>1, <1>13, <4>3, VolumeType
          <5> HIDE DEF spc
          <5>2. j + 1 \in 0 .. spc - 1
            BY <5>1
          <5> QED
            BY <5>2 DEF spc
        <4>7. Progress(disk, op', i - 1)
          BY <2>1, <4>1 DEF Progress
        <4>8. Loads(disk, op')
          BY <2>1, <4>1, <4>5, <4>6, <4>7 DEF Loads
        <4>9. Right(disk, op')
          BY <2>1, <4>8 DEF Right
        <4> QED
          BY <1>2, <2>1, <3>2, <4>9 DEF Trust, Transfers, Dirs
      <3>3. CASE op.failed
        <4>1. op.kind \notin Dirs
          BY <1>11, <2>3, <3>1, <3>3
        <4> QED
          BY <1>2, <2>1, <3>3, <4>1 DEF Trust, Marred, Transfers, Dirs
      <3> QED
        BY <1>2, <3>2, <3>3
    <2> QED
      BY <2>2, <2>3
  <1>14. ASSUME ~a.err, k + 1 = fat32_ctx.spc, process(o, op.cbuf \o a.data) PROVE Goal
    <2> DEFINE cb == op.cbuf \o a.data
    <2>1. Kept(o, op') /\ op'.at \in {"next", "done"} /\ op'.cbuf \in {<< >>, o.cbuf}
      BY <1>7, <1>14, ProcessKeeps
    <2>2. /\ DOMAIN op' = Fields /\ op'.kind = op.kind /\ op'.arg = op.arg /\ op'.cluster = op.cluster
          /\ op'.failed = op.failed /\ op'.walked = o.walked
      BY <1>7, <2>1 DEF Kept
    <2>3. Shape(op')
      <3>1. op'.cbuf \in Seq(Unit)
        <4>1. << >> \in Seq(Unit)
          OBVIOUS
        <4> QED
          BY <1>2, <1>7, <2>1, <4>1
      <3> QED
        BY <1>2, <1>9, <2>1, <2>2, <3>1 DEF Shape, Dirs
    <2>4. ASSUME ~astray, ~a.wrong, ~op'.walked PROVE Trust(disk, op')
      <3>1. ~o.walked
        BY <2>2, <2>4
      <3>2. CASE ~op.failed
        <4>1. PICK i \in 1 .. Len(Clusters(disk)), j \in 0 .. Volume(disk).spc - 1 :
                   /\ op.cluster = Clusters(disk)[i]
                   /\ IsPart(Unit, op.cbuf, All(disk), (i - 1) * SizeOf(disk), j * SS)
                   /\ Progress(disk, op, i - 1)
          BY <1>11, <2>4, <3>1, <3>2
        <4>2. Len(op.cbuf) \div SS = j
          BY <1>1, <4>1, SectorAdded
        <4>3. k = j
          BY <4>2 DEF k, SS
        <4>4. a.data = disk[data_sector(Volume(disk), Clusters(disk)[i], j)]
          BY <1>1, <1>6, <1>14, <2>4, <4>1, <4>3 DEF l
        <4>5. IsCluster(disk, i - 1, cb)
          <5>1. j + 1 = Volume(disk).spc
            BY <1>1, <1>14, <4>3
          <5> QED
            BY <1>1, <4>1, <4>4, <5>1, SectorAdded
        <4>6. i - 1 \in Nat /\ i - 1 < Len(Clusters(disk)) /\ (i - 1) + 1 = i
          BY <1>1, ClusterType
        <4>7. Progress(disk, o, i - 1)
          BY <1>7, <4>1, AlikeClaims
        <4>8. Went(disk, o, op', i)
          <5> DEFINE m == i - 1
          <5>1. m \in Nat /\ m < Len(Clusters(disk)) /\ m + 1 = i /\ IsCluster(disk, m, cb) /\ Progress(disk, o, m)
                /\ process(o, cb)
            BY <1>14, <4>5, <4>6, <4>7
          <5> HIDE DEF m, cb
          <5>2. Went(disk, o, op', m + 1)
            BY <1>1, <1>7, <5>1, ProcessRight
          <5> QED
            BY <5>1, <5>2
        <4>9. CASE op'.at = "next"
          <5>1. Follows(disk, op')
            BY <2>2, <4>1, <4>8, <4>9 DEF Follows, Went
          <5> QED
            BY <4>9, <5>1, <1>2, <2>2, <3>2 DEF Trust, Right, Transfers, Dirs
        <4>10. CASE op'.at = "done"
          <5>1. CallDone(disk, op')
            BY <4>8, <4>10 DEF Went
          <5> QED
            BY <4>10, <5>1, <1>2, <2>2, <3>2 DEF Trust, Right, Transfers, Dirs
        <4> QED
          BY <2>1, <4>9, <4>10
      <3>3. CASE op.failed
        <4>1. op.kind \notin Dirs
          BY <1>11, <2>4, <3>1, <3>3
        <4> QED
          BY <1>2, <2>2, <3>3, <4>1 DEF Trust, Marred, Transfers, Dirs
      <3> QED
        BY <1>2, <3>2, <3>3
    <2> QED
      BY <2>3, <2>4
  <1>15. Goal
    BY <1>4, <1>12, <1>13, <1>14
  <1>16. op.at # "done"
    BY <1>0
  <1> QED
    BY <1>0, <1>3, <1>4, <1>15, <1>16, ReadStep

LEMMA FollowKeeps ==
    ASSUME FatInv, follow_chain
    PROVE  FatInv'
  <1> DEFINE l == fat_sector(fat32_ctx, op.cluster)
  <1>0. op.at = "next" /\ fat32_ctx' = fat32_ctx
    BY DEF follow_chain
  <1>1. fat32_ctx = Volume(disk) /\ GoodDisk(disk) /\ AtaGood /\ Shape(op)
    BY <1>0, Underway
  <1>2. op.kind \in Dirs \cup {"read"} /\ op.cluster \in Nat /\ DOMAIN op = Fields /\ op.cbuf \in Seq(Unit)
        /\ op.walked \in BOOLEAN /\ op.failed \in BOOLEAN
    BY <1>0, <1>1 DEF Shape
  <1>3. l \in Nat
    <2>1. 0 \in Int
      OBVIOUS
    <2> QED
      BY <1>1, <1>2, <2>1, LbaType
  <1>4. PICK a \in ata_pio_sector("read", l, << >>) :
           /\ Took(a)
           /\ LET o == [op EXCEPT !.cluster = next_cluster(op.cluster, a), !.failed = @ \/ a.err]
              IN  \/ Continues(o) /\ op' = [o EXCEPT !.at = "load"] /\ UNCHANGED held
                  \/ ~Continues(o) /\ Finish(o)
    BY DEF follow_chain
  <1> DEFINE o == [op EXCEPT !.cluster = next_cluster(op.cluster, a), !.failed = @ \/ a.err]
  <1>5. ReadAnswer(a, l)
    BY <1>1, <1>3, ReadAnswerIs
  <1>6. a.err \in BOOLEAN /\ a.wrong \in BOOLEAN /\ (~a.err => a.data \in Seq(Unit) /\ Len(a.data) >= SS)
        /\ (~a.err /\ ~a.wrong => a.data = disk[l])
    BY <1>5 DEF ReadAnswer
  <1>7. next_cluster(op.cluster, a) \in Nat
    BY <1>2, <1>6, NextType
  <1>8. /\ DOMAIN o = Fields /\ o.kind = op.kind /\ o.arg = op.arg /\ o.buf = op.buf /\ o.cbuf = op.cbuf
        /\ o.offset = op.offset /\ o.len = op.len /\ o.cluster = next_cluster(op.cluster, a)
        /\ o.walked = op.walked
    BY <1>2 DEF Fields
  <1>9. o.failed = (op.failed \/ a.err)
    BY <1>2 DEF Fields
  <1>10. o.failed \in BOOLEAN /\ (~o.failed => ~op.failed /\ ~a.err) /\ (o.failed => op.failed \/ a.err)
    BY <1>2, <1>6, <1>9
  <1> HIDE DEF o, l
  <1> DEFINE r == IF o.kind \in {"read", "list"} THEN Len(o.buf) ELSE -1
  <1>11. \/ Continues(o) /\ op' = [o EXCEPT !.at = "load"]
         \/ ~Continues(o) /\ op' = [o EXCEPT !.at = "done", !.result = r]
    BY <1>4 DEF o, Finish, Free, Return
  <1>12. /\ DOMAIN op' = Fields /\ Alike(o, op') /\ op'.walked = op.walked /\ op'.failed = o.failed
         /\ \/ Continues(o) /\ op'.at = "load"
            \/ ~Continues(o) /\ op'.at = "done" /\ op'.result = r
    <2>1. CASE Continues(o) /\ op' = [o EXCEPT !.at = "load"]
      BY <1>8, <2>1 DEF Fields, Alike
    <2>2. CASE ~Continues(o) /\ op' = [o EXCEPT !.at = "done", !.result = r]
      <3> HIDE DEF r
      <3> QED
        BY <1>8, <2>2 DEF Fields, Alike
    <2> QED
      BY <1>11, <2>1, <2>2
  <1>13. op'.kind = op.kind /\ op'.arg = op.arg /\ op'.buf = op.buf /\ op'.cluster = o.cluster /\ op'.cbuf = op.cbuf
    BY <1>8, <1>12 DEF Alike
  <1>14. Shape(op')
    BY <1>2, <1>7, <1>8, <1>10, <1>12, <1>13 DEF Shape, Dirs
  <1>15. ASSUME ~astray, ~a.wrong, ~op'.walked PROVE Trust(disk, op')
    <2>1. ~op.walked
      BY <1>12, <1>15
    <2>2. Trust(disk, op)
      BY <1>15, <2>1 DEF FatInv
    <2>3. CASE ~o.failed
      <3>1. ~op.failed /\ ~a.err
        BY <1>10, <2>3
      <3>2. Follows(disk, op)
        BY <1>0, <1>2, <2>2, <3>1 DEF Trust, Right
      <3>3. a.data = disk[fat_sector(Volume(disk), op.cluster)]
        BY <1>1, <1>6, <1>15, <3>1 DEF l
      <3>4. /\ Continues(o) => Loads(disk, o)
            /\ ~Continues(o) => \A q : (q.kind = o.kind /\ q.arg = o.arg /\ q.buf = o.buf /\ q.result = r) => CallDone(disk, q)
        BY <1>1, <1>8, <3>1, <3>2, <3>3, FollowRight
      <3>5. CASE Continues(o) /\ op'.at = "load"
        <4>1. Loads(disk, op')
          BY <1>12, <3>4, <3>5, AlikeClaims
        <4> QED
          BY <1>2, <1>12, <1>13, <2>3, <3>5, <4>1 DEF Trust, Right, Transfers, Dirs
      <3>6. CASE ~Continues(o) /\ op'.at = "done" /\ op'.result = r
        <4>1. CallDone(disk, op')
          <5> HIDE DEF r
          <5> QED
            BY <1>12, <3>4, <3>6 DEF Alike
        <4> QED
          BY <1>2, <1>12, <1>13, <2>3, <3>6, <4>1 DEF Trust, Right, Transfers, Dirs
      <3> QED
        BY <1>12, <3>5, <3>6
    <2>4. CASE o.failed
      <3>1. Marred(disk, op')
        <4> SUFFICES ASSUME op.kind \in Dirs
                     PROVE  /\ op'.at = "done" => DirSound(disk, op')
                            /\ op'.at = "load" => op'.cluster = BadCluster
                            /\ op'.at \in {"done", "load"}
          BY <1>13 DEF Marred
        <4>1. ~op.failed
          BY <1>0, <1>2, <2>2 DEF Trust, Marred
        <4>2. o.cluster = BadCluster
          BY <1>8, <1>10, <2>4, <4>1 DEF next_cluster
        <4>3. ASSUME op'.at = "done" PROVE DirSound(disk, op')
          <5>1. op'.result = r
            BY <1>12, <4>3
          <5>2. op.kind = "list" => IsPrefix(op.buf, Listed(All(disk)))
            <6> SUFFICES ASSUME op.kind = "list" PROVE IsPrefix(op.buf, Listed(All(disk)))
              OBVIOUS
            <6>1. Follows(disk, op)
              BY <1>0, <1>2, <2>2, <4>1 DEF Trust, Right
            <6>2. PICK i \in 1 .. Len(Clusters(disk)) : Progress(disk, op, i) \/ Enough(disk, op)
              BY <6>1 DEF Follows
            <6> DEFINE max == op.arg
                       b == op.buf
            <6>3. max \in Nat /\ (ListEnd(disk, max, b) \/ b = Listed(Pre(disk, i)))
              BY <6>2 DEF Progress, Enough, ListTo
            <6>4. i \in Nat /\ i <= Len(Clusters(disk))
              OBVIOUS
            <6> HIDE DEF max, b
            <6>5. IsPrefix(b, Listed(All(disk)))
              BY <1>1, <6>3, <6>4, ListPrefix
            <6> QED
              BY <6>5 DEF b
          <5>3. op.kind # "list" => ~(op'.result >= 0)
            <6>1. op.kind # "list" => r = -1
              BY <1>8 DEF Dirs
            <6> QED
              BY <5>1, <6>1
          <5> QED
            BY <1>13, <5>2, <5>3 DEF DirSound
        <4> QED
          BY <1>12, <1>13, <4>2, <4>3
      <3> QED
        BY <1>2, <1>12, <1>13, <2>4, <3>1 DEF Trust, Transfers, Dirs
    <2> QED
      BY <1>10, <2>3, <2>4
  <1>16. op.at # "done"
    BY <1>0
  <1> QED
    BY <1>0, <1>3, <1>4, <1>14, <1>15, <1>16, ReadStep

-----------------------------------------------------------------------------
(***************************************************************************)
(* Transfers of two sectors outside the volume.                            *)
(***************************************************************************)
LEMMA FilledType ==
    ASSUME NEW p \in Patterns, NEW n \in {0, 1}
    PROVE  Filled(p, n) \in Seq(Unit) /\ Len(Filled(p, n)) = SS
  <1>1. p \in Unit /\ n \in Unit
    BY Fat32Assumption, WordIs DEF Unit
  <1>2. SS \in Nat
    BY WordIs DEF SS
  <1>3. Filled(p, n) = [k \in 1 .. SS |-> IF k = 1 THEN p ELSE n]
    BY DEF Filled, SS
  <1>4. Filled(p, n) \in [1 .. SS -> Unit]
    BY <1>1, <1>3
  <1> HIDE DEF Filled, Unit, SS
  <1> QED
    BY <1>2, <1>4

LEMMA WriteTook ==
    ASSUME AtaGood, NEW l \in Scratch, NEW data \in Seq(Unit), Len(data) = SS, NEW a, WriteAnswer(a, l, data), Took(a)
    PROVE  AtaGood' /\ Volume(disk') = Volume(disk) /\ (~astray' => ~astray /\ ~a.wrong)
  <1>1. disk' = a.disk /\ ata0' = ata0 /\ pending' = a.pending /\ astray' = (astray \/ a.wrong)
    BY DEF Took
  <1>2. a.wrong \in BOOLEAN /\ a.pending \in {NoCommand, pending, [op |-> "write", lba |-> l]}
        /\ (a.disk = disk \/ \E s \in Scratch : a.disk = [disk EXCEPT ![s] = data])
    BY DEF WriteAnswer
  <1>3. AtaTypeOK /\ GoodDisk(disk) /\ (pending.op = "write" => pending.lba \in Scratch)
    BY DEF AtaGood
  <1>4. astray' \in BOOLEAN /\ (~astray' => ~astray /\ ~a.wrong)
    BY <1>1, <1>2, <1>3 DEF AtaTypeOK
  <1>5. pending' \in Command \cup {NoCommand} /\ (pending'.op = "write" => pending'.lba \in Scratch)
    <2>1. CASE pending' = pending
      BY <1>3, <2>1 DEF AtaTypeOK
    <2>2. CASE pending' = NoCommand
      BY <2>2 DEF NoCommand
    <2>3. CASE pending' = [op |-> "write", lba |-> l]
      <3>1. l \in Nat
        BY Fat32Assumption, SectorsAssumption
      <3> QED
        BY <2>3, <3>1 DEF Command
    <2> QED
      BY <1>1, <1>2, <2>1, <2>2, <2>3
  <1>6. GoodDisk(disk') /\ Volume(disk') = Volume(disk)
    <2>1. CASE disk' = disk
      BY <1>3, <2>1
    <2>2. ASSUME NEW s \in Scratch, disk' = [disk EXCEPT ![s] = data]
          PROVE  GoodDisk(disk') /\ Volume(disk') = Volume(disk)
      <3>1. GoodDisk([disk EXCEPT ![s] = data]) /\ Volume([disk EXCEPT ![s] = data]) = Volume(disk)
        BY <1>3, ScratchWritten
      <3> QED
        BY <2>2, <3>1
    <2> QED
      BY <1>1, <1>2, <2>1, <2>2
  <1>7. AtaTypeOK'
    <2>1. DOMAIN disk' = 0 .. Sectors - 1
      BY <1>6 DEF GoodDisk
    <2> QED
      BY <1>1, <1>3, <1>4, <1>5, <2>1 DEF AtaTypeOK
  <1> QED
    BY <1>4, <1>5, <1>6, <1>7 DEF AtaGood

LEMMA TransferKeeps ==
    ASSUME FatInv, transfer_sector
    PROVE  FatInv'
  <1> DEFINE c == op.cluster
             n == op.len
             l == c + n
             data == Filled(op.arg, n)
             cmd == IF op.kind = "pio_read" THEN "read" ELSE "write"
  <1>0. op.at = "pio" /\ fat32_ctx' = fat32_ctx
    BY DEF transfer_sector
  <1>1. fat32_ctx = Volume(disk) /\ GoodDisk(disk) /\ AtaGood /\ Shape(op)
    BY <1>0, Underway
  <1>2. op.kind \in Transfers /\ c \in Nat /\ DOMAIN op = Fields /\ op.cbuf \in Seq(Unit)
        /\ op.walked \in BOOLEAN /\ op.failed \in BOOLEAN /\ op.arg \in Patterns /\ c \in Scratch /\ c + 1 \in Scratch
        /\ n \in {0, 1}
    BY <1>0, <1>1 DEF Shape
  <1>3. l \in Nat /\ l \in Scratch /\ c \in 0 .. Sectors - 1 /\ c + 1 \in 0 .. Sectors - 1
    <2>1. l = c \/ l = c + 1
      BY <1>2
    <2> QED
      BY <1>2, <2>1, Fat32Assumption
  <1>4. PICK a \in ata_pio_sector(cmd, l, data) :
           /\ Took(a)
           /\ LET o == [op EXCEPT !.len = @ + 1, !.buf = @ \o a.data]
              IN  \/ a.err /\ op.retry > 1 /\ op' = retried(op)
                  \/ a.err /\ op.retry = 1 /\ Return(op, -1)
                  \/ ~a.err /\ o.len < 2 /\ op' = o
                  \/ ~a.err /\ o.len = 2 /\ Return(o, 0)
    BY DEF transfer_sector
  <1>5. /\ DOMAIN op' = Fields /\ op'.kind = op.kind /\ op'.arg = op.arg /\ op'.cluster = c /\ op'.cbuf = op.cbuf
        /\ op'.walked = op.walked /\ op'.failed = op.failed
        /\ \/ a.err /\ op'.at = "pio" /\ op'.len = 0 /\ op'.buf = << >>
           \/ op'.at = "done" /\ op'.result = -1
           \/ ~a.err /\ n + 1 < 2 /\ op'.at = "pio" /\ op'.len = n + 1 /\ op'.buf = op.buf \o a.data
           \/ ~a.err /\ n + 1 = 2 /\ op'.at = "done" /\ op'.buf = op.buf \o a.data
    <2> DEFINE o == [op EXCEPT !.len = @ + 1, !.buf = @ \o a.data]
    <2>0. /\ DOMAIN o = Fields /\ o.kind = op.kind /\ o.arg = op.arg /\ o.cluster = c /\ o.cbuf = op.cbuf
          /\ o.walked = op.walked /\ o.failed = op.failed /\ o.at = "pio" /\ o.len = n + 1 /\ o.buf = op.buf \o a.data
      BY <1>0, <1>2 DEF Fields
    <2>1. CASE a.err /\ op' = retried(op)
      BY <1>0, <1>2, <2>1 DEF retried, Fields
    <2>2. CASE Return(op, -1)
      BY <1>2, <2>2 DEF Return, Fields
    <2> HIDE DEF o
    <2>3. CASE ~a.err /\ o.len < 2 /\ op' = o
      BY <2>0, <2>3
    <2>4. CASE ~a.err /\ o.len = 2 /\ Return(o, 0)
      BY <2>0, <2>4 DEF Return, Fields
    <2> QED
      BY <1>4, <2>1, <2>2, <2>3, <2>4 DEF o
  <1>6. Shape(op')
    <2>1. op'.at \in {"pio", "done"} /\ (op'.at = "pio" => op'.len \in {0, 1})
      <3>1. CASE op'.at = "pio" /\ op'.len = 0
        BY <3>1
      <3>2. CASE op'.at = "done"
        BY <3>2
      <3>3. CASE n + 1 < 2 /\ op'.at = "pio" /\ op'.len = n + 1
        <4>1. n \in {0, 1}
          BY <1>2
        <4> HIDE DEF n
        <4>2. op'.len = 1
          BY <3>3, <4>1
        <4> QED
          BY <3>3, <4>2
      <3> QED
        BY <1>5, <3>1, <3>2, <3>3
    <2> QED
      BY <1>2, <1>5, <2>1 DEF Shape, Transfers, Dirs
  \* The sectors already moved.
  <1>7. ~astray /\ ~op.walked => Moved(disk, op, n)
    <2>1. ~astray /\ ~op.walked => Trust(disk, op)
      BY DEF FatInv
    <2>2. Trust(disk, op) => Moved(disk, op, op.len)
      <3> HIDE DEF n, c, l, data, cmd
      <3> QED
        BY <1>0, <1>2 DEF Trust
    <2> QED
      BY <2>1, <2>2
  <1>8. CASE op.kind = "pio_read"
    <2>1. a \in ata_pio_sector("read", l, data)
      BY <1>8
    <2>2. ReadAnswer(a, l)
      BY <1>1, <1>3, <2>1, ReadAnswerIs
    <2>3. AtaGood' /\ disk' = disk /\ (~astray' => ~astray /\ ~a.wrong)
      BY <1>1, <1>3, <1>4, <2>2, ReadTook
    <2>4. a.err \in BOOLEAN /\ (~a.err /\ ~a.wrong => a.data = disk[l])
      BY <2>2 DEF ReadAnswer
    <2>5. ASSUME ~astray', ~op'.walked PROVE Trust(disk, op')
      <3>1. Moved(disk, op, n) /\ ~a.wrong
        BY <1>5, <1>7, <2>3, <2>5
      <3>2. CASE op'.at = "pio" /\ op'.len = 0 /\ op'.buf = << >>
        BY <1>5, <1>8, <3>2 DEF Trust, Moved, Transfers, Dirs
      <3>3. CASE op'.at = "done" /\ op'.result = -1
        BY <1>5, <1>8, <3>3 DEF Trust, Transfers, Dirs
      <3>4. CASE ~a.err /\ n + 1 < 2 /\ op'.at = "pio" /\ op'.len = n + 1 /\ op'.buf = op.buf \o a.data
        <4>1. n = 0 /\ op'.len = 1 /\ l = c
          BY <1>2, <3>4
        <4>2. op.buf = << >>
          <5>1. Moved(disk, op, 0)
            <6> HIDE DEF n
            <6> QED
              BY <3>1, <4>1
          <5> QED
            BY <1>8, <5>1 DEF Moved
        <4>3. a.data = disk[c] /\ disk[c] \in Seq(Unit)
          BY <1>1, <1>3, <2>4, <3>1, <3>4, <4>1, SectorType
        <4>4. op'.buf = disk[c]
          <5> DEFINE s == disk[c]
          <5>1. op'.buf = << >> \o s /\ s \in Seq(Unit)
            BY <3>4, <4>2, <4>3
          <5> HIDE DEF s
          <5>2. op'.buf = s
            BY <5>1
          <5> QED
            BY <5>2 DEF s
        <4>5. Moved(disk, op', 1)
          BY <1>5, <1>8, <4>4 DEF Moved
        <4> QED
          BY <1>5, <1>8, <3>4, <4>1, <4>5 DEF Trust, Transfers, Dirs
      <3>5. CASE ~a.err /\ n + 1 = 2 /\ op'.at = "done" /\ op'.buf = op.buf \o a.data
        <4>1. n = 1 /\ l = c + 1
          BY <1>2, <3>5
        <4>2. op.buf = disk[c]
          <5>1. Moved(disk, op, 1)
            <6> HIDE DEF n
            <6> QED
              BY <3>1, <4>1
          <5> QED
            BY <1>8, <5>1 DEF Moved
        <4>3. a.data = disk[c + 1]
          BY <2>4, <3>1, <3>5, <4>1
        <4>4. Moved(disk, op', 2)
          BY <1>5, <1>8, <3>5, <4>2, <4>3 DEF Moved
        <4> QED
          BY <1>5, <1>8, <3>5, <4>4 DEF Trust, Transfers, Dirs
      <3> QED
        BY <1>5, <3>2, <3>3, <3>4, <3>5
    <2>6. Mounted'
      BY <1>0, <1>1, <2>3 DEF Mounted
    <2> QED
      BY <1>6, <2>3, <2>5, <2>6 DEF FatInv
  <1>9. CASE op.kind = "pio_write"
    <2>1. a \in ata_pio_sector("write", l, data)
      BY <1>9
    <2>2. data \in Seq(Unit) /\ Len(data) = SS
      BY <1>2, FilledType
    <2>3. WriteAnswer(a, l, data)
      <3> HIDE DEF data, l
      <3> QED
        BY <1>1, <1>3, <2>1, <2>2, WriteAnswerIs
    <2>4. AtaGood' /\ Volume(disk') = Volume(disk) /\ (~astray' => ~astray /\ ~a.wrong)
      <3> HIDE DEF data, l
      <3> QED
        BY <1>1, <1>3, <1>4, <2>2, <2>3, WriteTook
    <2>5. a.err \in BOOLEAN /\ (~a.err /\ ~a.wrong => disk' = [disk EXCEPT ![l] = data])
      BY <1>4, <2>3 DEF WriteAnswer, Took
    <2>6. ASSUME ~astray', ~op'.walked PROVE Trust(disk', op')
      <3>1. Moved(disk, op, n) /\ ~a.wrong
        BY <1>5, <1>7, <2>4, <2>6
      <3>2. CASE op'.at = "pio" /\ op'.len = 0 /\ op'.buf = << >>
        BY <1>5, <1>9, <3>2 DEF Trust, Moved, Transfers, Dirs
      <3>3. CASE op'.at = "done" /\ op'.result = -1
        BY <1>5, <1>9, <3>3 DEF Trust, Transfers, Dirs
      <3>6. DOMAIN disk = 0 .. Sectors - 1
        BY <1>1 DEF GoodDisk
      <3>4. CASE ~a.err /\ n + 1 < 2 /\ op'.at = "pio" /\ op'.len = n + 1 /\ op'.buf = op.buf \o a.data
        <4>1. n = 0 /\ op'.len = 1 /\ l = c
          BY <1>2, <3>4
        <4>2. disk'[c] = Filled(op.arg, 0)
          BY <1>3, <2>5, <3>1, <3>4, <3>6, <4>1
        <4>3. Moved(disk', op', 1)
          BY <1>5, <1>9, <4>2 DEF Moved
        <4> QED
          BY <1>5, <1>9, <3>4, <4>1, <4>3 DEF Trust, Transfers, Dirs
      <3>5. CASE ~a.err /\ n + 1 = 2 /\ op'.at = "done" /\ op'.buf = op.buf \o a.data
        <4>1. n = 1 /\ l = c + 1 /\ c # c + 1
          BY <1>2, <3>5
        <4>2. disk[c] = Filled(op.arg, 0)
          <5>1. Moved(disk, op, 1)
            <6> HIDE DEF n
            <6> QED
              BY <3>1, <4>1
          <5> QED
            BY <1>9, <5>1 DEF Moved
        <4>3. disk' = [disk EXCEPT ![c + 1] = Filled(op.arg, 1)]
          BY <2>5, <3>1, <3>5, <4>1
        <4>4. disk'[c + 1] = Filled(op.arg, 1) /\ disk'[c] = Filled(op.arg, 0)
          BY <1>3, <3>6, <4>1, <4>2, <4>3
        <4>5. Moved(disk', op', 2)
          BY <1>5, <1>9, <4>4 DEF Moved
        <4> QED
          BY <1>5, <1>9, <3>5, <4>5 DEF Trust, Transfers, Dirs
      <3> QED
        BY <1>5, <3>2, <3>3, <3>4, <3>5
    <2>7. Mounted'
      BY <1>0, <1>1, <2>4 DEF Mounted
    <2> QED
      BY <1>6, <2>4, <2>6, <2>7 DEF FatInv
  <1> QED
    BY <1>2, <1>8, <1>9 DEF Transfers

-----------------------------------------------------------------------------
(***************************************************************************)
(* The calls begin.                                                        *)
(***************************************************************************)
LEMMA Begins ==
    ASSUME FatInv, fat32_ctx.mounted, UNCHANGED <<ataVars, fat32_ctx>>, Shape(op'), Trust(disk, op')
    PROVE  FatInv'
  <1>1. disk' = disk /\ pending' = pending /\ astray' = astray /\ ata0' = ata0 /\ fat32_ctx' = fat32_ctx
    BY DEF ataVars
  <1>2. fat32_ctx # NoCtx
    BY DEF NoCtx
  <1>3. fat32_ctx = Volume(disk)
    BY <1>2 DEF FatInv, Mounted
  <1>4. AtaGood'
    BY <1>1 DEF FatInv, AtaGood, AtaTypeOK
  <1>5. Mounted'
    BY <1>1, <1>3 DEF Mounted
  <1>6. Trust(disk', op')
    BY <1>1
  <1> QED
    BY <1>4, <1>5, <1>6 DEF FatInv

LEMMA IsMounted ==
    ASSUME FatInv, fat32_ctx.mounted
    PROVE  fat32_ctx = Volume(disk) /\ GoodDisk(disk)
  <1>1. fat32_ctx # NoCtx
    BY DEF NoCtx
  <1> QED
    BY <1>1 DEF FatInv, Mounted, AtaGood

LEMMA AllocateIs ==
    ASSUME NEW o, DOMAIN o = Fields, Allocate(o)
    PROVE  /\ DOMAIN op' = Fields /\ op'.kind = o.kind /\ op'.arg = o.arg /\ op'.cluster = o.cluster
           /\ op'.cbuf = o.cbuf /\ op'.buf = o.buf /\ op'.len = o.len /\ op'.offset = o.offset /\ op'.walked = o.walked
           /\ \/ op'.at = "load" /\ op'.failed = o.failed
              \/ op'.at = "done" /\ op'.result = -1 /\ op'.failed = TRUE
  <1>1. CASE op' = [o EXCEPT !.at = "load"]
    BY <1>1 DEF Fields
  <1>2. CASE Return([o EXCEPT !.failed = TRUE], -1)
    BY <1>2 DEF Return, Fields
  <1> QED
    BY <1>1, <1>2 DEF Allocate

Fresh(o, kind, arg, start) ==
    /\ DOMAIN o = Fields /\ o.kind = kind /\ o.arg = arg /\ o.cluster = start /\ o.at = "done"
    /\ o.cbuf = << >> /\ o.buf = << >> /\ o.walked = FALSE /\ o.failed = FALSE
    /\ o.len = 0 /\ o.result = 0

LEMMA CallIs ==
    ASSUME NEW kind, NEW arg, NEW start
    PROVE  Fresh(Call(kind, arg, start), kind, arg, start)
  BY DEF Call, NoOp, Fields, Fresh

LEMMA FirstLoads ==
    ASSUME NEW d, GoodDisk(d), NEW p, p.cluster = Volume(d).root, p.cbuf = << >>, Progress(d, p, 0)
    PROVE  Loads(d, p)
  <1> DEFINE s == Clusters(d)
             n == Len(s)
  <1>1. n \in Nat /\ n >= 1 /\ s[1] = Volume(d).root
    <2>1. IsChain(d, s)
      BY ClustersAre
    <2> QED
      BY <2>1 DEF IsChain
  <1>2. 1 \in 1 .. n
    BY <1>1
  <1>3. 0 \in 0 .. Volume(d).spc - 1
    BY FirstSector
  <1>4. IsPart(Unit, p.cbuf, All(d), (1 - 1) * SizeOf(d), 0 * SS)
    BY NothingLoaded
  <1>5. 1 - 1 = 0
    OBVIOUS
  <1>6. Progress(d, p, 1 - 1)
    BY <1>5
  <1> QED
    BY <1>1, <1>2, <1>3, <1>4, <1>6 DEF Loads

LEMMA DirStarts ==
    ASSUME NEW d, GoodDisk(d), NEW p, p.buf = << >>, p.arg \in Nat, p.kind \in Dirs, p.kind = "list" => p.arg > 0
    PROVE  Progress(d, p, 0)
  <1>1. ~Ends(Pre(d, 0)) /\ Listed(Pre(d, 0)) = << >> /\ ~InLive(Pre(d, 0), p.arg)
    BY PreZero
  <1>2. CASE p.kind = "list"
    <2>1. Len(p.buf) < p.arg
      BY <1>2
    <2> QED
      BY <1>1, <1>2, <2>1 DEF Progress, ListTo
  <1>3. CASE p.kind = "readdir"
    <2>1. Len(p.buf) <= p.arg
      OBVIOUS
    <2> QED
      BY <1>1, <1>3, <2>1 DEF Progress, ReaddirTo
  <1>4. CASE p.kind = "lookup"
    BY <1>1, <1>4 DEF Progress, LookupTo
  <1> QED
    BY <1>2, <1>3, <1>4 DEF Dirs

LEMMA DirBegins ==
    ASSUME FatInv, fat32_dir
    PROVE  FatInv'
  <1>0. fat32_ctx.mounted /\ UNCHANGED <<ataVars, fat32_ctx>>
    BY DEF fat32_dir
  <1>1. fat32_ctx = Volume(disk) /\ GoodDisk(disk)
    BY <1>0, IsMounted
  <1>2. PICK kind \in Dirs, arg \in Nat : (kind = "list" => arg > 0) /\ Allocate(Call(kind, arg, fat32_ctx.root))
    <2>1. CASE \E max \in Lengths : Allocate(Call("list", max, fat32_ctx.root))
      <3>1. PICK max \in Lengths : Allocate(Call("list", max, fat32_ctx.root))
        BY <2>1
      <3>2. max \in Nat /\ max > 0
        BY Fat32Assumption
      <3> QED
        BY <3>1, <3>2 DEF Dirs
    <2>2. CASE \E idx \in Offsets : Allocate(Call("readdir", idx, fat32_ctx.root))
      <3>1. PICK idx \in Offsets : Allocate(Call("readdir", idx, fat32_ctx.root))
        BY <2>2
      <3>2. idx \in Nat
        BY Fat32Assumption
      <3> QED
        BY <3>1, <3>2 DEF Dirs
    <2>3. CASE \E name \in Names : Allocate(Call("lookup", name, fat32_ctx.root))
      <3>1. PICK name \in Names : Allocate(Call("lookup", name, fat32_ctx.root))
        BY <2>3
      <3>2. name \in Nat
        BY Fat32Assumption
      <3> QED
        BY <3>1, <3>2 DEF Dirs
    <2> QED
      BY <2>1, <2>2, <2>3 DEF fat32_dir
  <1> DEFINE o == Call(kind, arg, fat32_ctx.root)
  <1>3. /\ DOMAIN o = Fields /\ o.kind = kind /\ o.arg = arg /\ o.cluster = fat32_ctx.root
        /\ o.cbuf = << >> /\ o.buf = << >> /\ o.walked = FALSE /\ o.failed = FALSE
    <2>1. Fresh(o, kind, arg, fat32_ctx.root)
      BY CallIs
    <2> HIDE DEF o
    <2> QED
      BY <2>1 DEF Fresh
  <1>4. Allocate(o)
    BY <1>2
  <1> HIDE DEF o
  <1>5. /\ DOMAIN op' = Fields /\ op'.kind = kind /\ op'.arg = arg /\ op'.cluster = Volume(disk).root
        /\ op'.cbuf = << >> /\ op'.buf = << >> /\ op'.walked = FALSE
        /\ \/ op'.at = "load" /\ op'.failed = FALSE
           \/ op'.at = "done" /\ op'.result = -1 /\ op'.failed = TRUE
    BY <1>1, <1>3, <1>4, AllocateIs
  <1>6. Shape(op')
    <2>1. Volume(disk).root \in Nat
      BY <1>1, VolumeType
    <2>2. << >> \in Seq(Unit)
      OBVIOUS
    <2> QED
      BY <1>5, <2>1, <2>2 DEF Shape, Transfers, Dirs
  <1>7. Trust(disk, op')
    <2>1. kind \in Dirs /\ kind \notin Transfers
      BY DEF Dirs, Transfers
    <2>2. CASE op'.at = "load" /\ op'.failed = FALSE
      <3>1. Progress(disk, op', 0)
        BY <1>1, <1>2, <1>5, DirStarts
      <3>2. Loads(disk, op')
        BY <1>1, <1>5, <3>1, FirstLoads
      <3> QED
        BY <1>5, <2>1, <2>2, <3>2 DEF Trust, Right
    <2>3. CASE op'.at = "done" /\ op'.result = -1 /\ op'.failed = TRUE
      <3>1. IsPrefix(<< >>, Listed(All(disk)))
        <4>1. << >> = Listed(Pre(disk, 0))
          BY <1>1, PreZero
        <4>2. 0 <= Len(Clusters(disk))
          <5>1. IsChain(disk, Clusters(disk))
            BY <1>1, ClustersAre
          <5> QED
            BY <5>1 DEF IsChain
        <4>3. 0 \in Nat
          OBVIOUS
        <4> QED
          BY <1>1, <4>1, <4>2, <4>3, ListPrefix
      <3>2. ~(op'.result >= 0)
        BY <2>3
      <3>3. DirSound(disk, op')
        BY <1>5, <3>1, <3>2 DEF DirSound
      <3> QED
        BY <1>5, <2>1, <2>3, <3>3 DEF Trust, Marred
    <2> QED
      BY <1>5, <2>2, <2>3
  <1> QED
    BY <1>0, <1>6, <1>7, Begins

\* An offset is whole clusters and a rest.
IsOffset(x, b, q, m) == q \in Nat /\ m \in Nat /\ m < b /\ x = q * b + m

LEMMA OffsetIs ==
    ASSUME NEW x \in Nat, NEW b \in Nat, b >= 1
    PROVE  IsOffset(x, b, x \div b, x % b)
  <1> DEFINE q == x \div b
             m == x % b
  <1>1. x = b * q + m /\ q \in Nat /\ m \in 0 .. b - 1
    OBVIOUS
  <1> HIDE DEF q, m
  <1>2. b * q = q * b
    BY <1>1
  <1>3. IsOffset(x, b, q, m)
    BY <1>1, <1>2 DEF IsOffset
  <1> QED
    BY <1>3 DEF q, m

LEMMA ReadBegins ==
    ASSUME FatInv, fat32_read_file
    PROVE  FatInv'
  <1>0. fat32_ctx.mounted /\ UNCHANGED <<ataVars, fat32_ctx>>
    BY DEF fat32_read_file
  <1>1. fat32_ctx = Volume(disk) /\ GoodDisk(disk)
    BY <1>0, IsMounted
  <1> DEFINE size == SizeOf(disk)
  <1>2. size \in Nat /\ size >= 1 /\ cluster_size = size
    BY <1>1, SizeType DEF cluster_size, SizeOf, SS
  <1>3. PICK start \in {fat32_ctx.root, 0}, offset \in Offsets, len \in Lengths :
         LET o == [Call("read", <<offset, len, start>>, start) EXCEPT
                      !.skip = offset \div cluster_size, !.offset = offset % cluster_size,
                      !.len = len]
         IN  \/ o.cluster < 2 /\ Return(o, -1) /\ UNCHANGED held
             \/ o.cluster >= 2 /\ o.skip > 0 /\ op' = [o EXCEPT !.at = "skip"] /\ UNCHANGED held
             \/ o.cluster >= 2 /\ o.skip = 0 /\ Allocate(o)
    BY DEF fat32_read_file
  <1> DEFINE arg == <<offset, len, start>>
             q == offset \div size
             m == offset % size
             o == [Call("read", arg, start) EXCEPT !.skip = q, !.offset = m, !.len = len]
  <1>4. \/ o.cluster < 2 /\ Return(o, -1)
        \/ o.cluster >= 2 /\ o.skip > 0 /\ op' = [o EXCEPT !.at = "skip"]
        \/ o.cluster >= 2 /\ o.skip = 0 /\ Allocate(o)
    BY <1>2, <1>3
  <1>5. offset \in Nat /\ len \in Nat /\ len > 0 /\ IsOffset(offset, size, q, m)
    <2>1. offset \in Nat /\ len \in Nat /\ len > 0
      BY Fat32Assumption
    <2> HIDE DEF size
    <2> QED
      BY <1>2, <2>1, OffsetIs
  <1>6. arg[1] = offset /\ arg[2] = len /\ arg[3] = start
    OBVIOUS
  <1>7. start \in Nat /\ Volume(disk).root \in Nat /\ Volume(disk).root >= 2 /\ (start >= 2 => start = Volume(disk).root)
    <2> DEFINE root == Volume(disk).root
    <2>1. root \in Nat /\ root >= 2
      BY <1>1, VolumeType
    <2>2. start = root \/ start = 0
      BY <1>1
    <2> HIDE DEF root
    <2>3. start \in Nat /\ root \in Nat /\ root >= 2 /\ (start >= 2 => start = root)
      BY <2>1, <2>2
    <2> QED
      BY <2>3 DEF root
  <1> HIDE DEF arg, q, m, size
  <1>8. /\ DOMAIN o = Fields /\ o.kind = "read" /\ o.arg = arg /\ o.cluster = start
        /\ o.cbuf = << >> /\ o.buf = << >> /\ o.walked = FALSE /\ o.failed = FALSE
        /\ o.skip = q /\ o.offset = m /\ o.len = len
    <2> DEFINE p == Call("read", arg, start)
    <2>1. Fresh(p, "read", arg, start)
      BY CallIs
    <2> HIDE DEF p
    <2>2. /\ DOMAIN p = Fields /\ p.kind = "read" /\ p.arg = arg /\ p.cluster = start
          /\ p.cbuf = << >> /\ p.buf = << >> /\ p.walked = FALSE /\ p.failed = FALSE
      BY <2>1 DEF Fresh
    <2>3. o = [p EXCEPT !.skip = q, !.offset = m, !.len = len]
      BY DEF p
    <2> HIDE DEF o
    <2> QED
      BY <2>2, <2>3 DEF Fields
  <1> HIDE DEF o
  <1>9. /\ DOMAIN op' = Fields /\ op'.kind = "read" /\ op'.arg = arg /\ op'.cluster = start
        /\ op'.cbuf = << >> /\ op'.buf = << >> /\ op'.walked = FALSE /\ op'.offset = m /\ op'.len = len
        /\ \/ start < 2 /\ op'.at = "done" /\ op'.result = -1 /\ op'.failed = FALSE
           \/ start >= 2 /\ q > 0 /\ op'.at = "skip" /\ op'.skip = q /\ op'.failed = FALSE
           \/ start >= 2 /\ q = 0 /\ op'.at = "load" /\ op'.failed = FALSE
           \/ start >= 2 /\ op'.at = "done" /\ op'.result = -1 /\ op'.failed = TRUE
    <2>1. CASE o.cluster < 2 /\ Return(o, -1)
      BY <1>8, <2>1 DEF Return, Fields
    <2>2. CASE o.cluster >= 2 /\ o.skip > 0 /\ op' = [o EXCEPT !.at = "skip"]
      BY <1>8, <2>2 DEF Fields
    <2>3. CASE o.cluster >= 2 /\ o.skip = 0 /\ Allocate(o)
      <3>1. /\ DOMAIN op' = Fields /\ op'.kind = o.kind /\ op'.arg = o.arg /\ op'.cluster = o.cluster
            /\ op'.cbuf = o.cbuf /\ op'.buf = o.buf /\ op'.len = o.len /\ op'.offset = o.offset /\ op'.walked = o.walked
            /\ \/ op'.at = "load" /\ op'.failed = o.failed
               \/ op'.at = "done" /\ op'.result = -1 /\ op'.failed = TRUE
        BY <1>8, <2>3, AllocateIs
      <3> QED
        BY <1>8, <2>3, <3>1
    <2> QED
      BY <1>4, <2>1, <2>2, <2>3
  <1>10. Shape(op')
    <2>1. << >> \in Seq(Unit)
      OBVIOUS
    <2> QED
      BY <1>7, <1>9, <2>1 DEF Shape, Transfers, Dirs
  <1>11. q \in Nat /\ m \in Nat /\ m < SizeOf(disk) /\ arg[1] = q * SizeOf(disk) + m
    BY <1>5, <1>6 DEF IsOffset, size
  <1>12. Trust(disk, op')
    <2>1. "read" \notin Transfers /\ "read" \notin Dirs
      BY DEF Dirs, Transfers
    <2>2. CASE start < 2 /\ op'.at = "done" /\ op'.result = -1 /\ op'.failed = FALSE
      <3>1. ReadDone(disk, op')
        BY <1>6, <1>9, <2>2 DEF ReadDone
      <3> QED
        BY <1>9, <2>1, <2>2, <3>1 DEF Trust, Right, CallDone
    <2>3. CASE start >= 2 /\ q > 0 /\ op'.at = "skip" /\ op'.skip = q /\ op'.failed = FALSE
      <3>1. Len(Clusters(disk)) \in Nat /\ Len(Clusters(disk)) >= 1 /\ Clusters(disk)[1] = start
        <4>1. IsChain(disk, Clusters(disk))
          BY <1>1, ClustersAre
        <4>2. start = Volume(disk).root
          BY <1>7, <2>3
        <4> QED
          BY <4>1, <4>2 DEF IsChain
      <3>2. 1 \in 1 .. Len(Clusters(disk)) /\ q = (1 - 1) + q
        BY <1>11, <3>1
      <3>3. Skips(disk, op')
        BY <1>5, <1>6, <1>9, <1>11, <2>3, <3>1, <3>2 DEF Skips
      <3> QED
        BY <1>9, <2>1, <2>3, <3>3 DEF Trust, Right
    <2>4. CASE start >= 2 /\ q = 0 /\ op'.at = "load" /\ op'.failed = FALSE
      <3>1. start = Volume(disk).root
        BY <1>7, <2>4
      <3>2. 0 \in Nat /\ 0 < Len(Clusters(disk))
        <4>1. IsChain(disk, Clusters(disk))
          BY <1>1, ClustersAre
        <4> QED
          BY <4>1 DEF IsChain
      <3>3. arg[1] = 0 * SizeOf(disk) + m
        BY <1>11, <2>4
      <3>4. Progress(disk, op', 0)
        BY <1>1, <1>5, <1>6, <1>9, <1>11, <3>2, <3>3, ReadStarts
      <3>5. Loads(disk, op')
        BY <1>1, <1>9, <3>1, <3>4, FirstLoads
      <3> QED
        BY <1>9, <2>1, <2>4, <3>5 DEF Trust, Right
    <2>5. CASE op'.at = "done" /\ op'.result = -1 /\ op'.failed = TRUE
      BY <1>9, <2>1, <2>5 DEF Trust, Marred
    <2> QED
      BY <1>9, <2>2, <2>3, <2>4, <2>5
  <1> QED
    BY <1>0, <1>10, <1>12, Begins

LEMMA TransferBegins ==
    ASSUME FatInv, transfer
    PROVE  FatInv'
  <1>0. fat32_ctx.mounted /\ UNCHANGED <<ataVars, fat32_ctx>>
    BY DEF transfer
  <1>1. PICK kind \in Transfers, lba \in Scratch, p \in Patterns, tries \in {1, ATA_RETRY_COUNT} :
           /\ lba + 1 \in Scratch
           /\ op' = [Call(kind, p, lba) EXCEPT !.at = "pio", !.retry = tries]
    BY DEF transfer, Transfers
  <1> DEFINE o == Call(kind, p, lba)
  <1>2. /\ DOMAIN o = Fields /\ o.kind = kind /\ o.arg = p /\ o.cluster = lba
        /\ o.cbuf = << >> /\ o.buf = << >> /\ o.walked = FALSE /\ o.failed = FALSE /\ o.len = 0
    <2>1. Fresh(o, kind, p, lba)
      BY CallIs
    <2> HIDE DEF o
    <2> QED
      BY <2>1 DEF Fresh
  <1>3. op' = [o EXCEPT !.at = "pio", !.retry = tries]
    BY <1>1
  <1> HIDE DEF o
  <1>4. /\ DOMAIN op' = Fields /\ op'.kind = kind /\ op'.arg = p /\ op'.cluster = lba /\ op'.at = "pio"
        /\ op'.cbuf = << >> /\ op'.buf = << >> /\ op'.walked = FALSE /\ op'.failed = FALSE /\ op'.len = 0
    BY <1>2, <1>3 DEF Fields
  <1>5. Shape(op')
    <2>1. << >> \in Seq(Unit)
      OBVIOUS
    <2>2. lba \in Nat
      BY Fat32Assumption, SectorsAssumption
    <2> QED
      BY <1>1, <1>4, <2>1, <2>2 DEF Shape, Transfers, Dirs
  <1>6. Trust(disk, op')
    <2>1. Moved(disk, op', 0)
      BY <1>4 DEF Moved
    <2>2. kind \notin Dirs \cup {"read"}
      BY DEF Dirs, Transfers
    <2> QED
      BY <1>4, <2>1, <2>2 DEF Trust
  <1> QED
    BY <1>0, <1>5, <1>6, Begins

\* Until a volume is mounted only the boot sector is read: no answer is another command's.
LEMMA BootSectorAnswer ==
    ASSUME pending \in {NoCommand, [op |-> "read", lba |-> 0]}, NEW a \in ata_pio_sector("read", 0, << >>)
    PROVE  a.wrong = FALSE
  <1> DEFINE c == [op |-> "read", lba |-> 0]
  <1>1. \A left : Failed(left).wrong = FALSE
    BY DEF Failed, Answer
  <1>2. \A x, y, z, w : Answer(x, y, z, w, FALSE).wrong = FALSE
    BY DEF Answer
  <1>3. ASSUME a \in Accepted("read", 0, << >>) PROVE a.wrong = FALSE
    BY <1>1, <1>2, <1>3 DEF Accepted
  <1>4. ASSUME pending = c, a \in StillBusy(pending, "read", 0, << >>) PROVE a.wrong = FALSE
    <2>1. c.op = "read" /\ c.lba = 0 /\ (c.lba # 0) = FALSE
      OBVIOUS
    <2>2. CASE a \in Accepted("read", 0, << >>)
      BY <1>3, <2>2
    <2>3. CASE a \in {Failed(NoCommand), Failed(pending)}
      BY <1>1, <2>3
    <2>4. CASE a = Answer(FALSE, disk[0], disk, NoCommand, FALSE)
      BY <1>2, <2>4
    <2> QED
      BY <1>4, <2>1, <2>2, <2>3, <2>4 DEF StillBusy
  <1>5. pending # NoCommand => pending = c
    OBVIOUS
  <1> QED
    BY <1>1, <1>3, <1>4, <1>5 DEF ata_pio_sector

LEMMA MountKeeps ==
    ASSUME FatInv, fat32_mount
    PROVE  FatInv'
  <1>0. ~fat32_ctx.mounted /\ UNCHANGED <<op, held>>
    BY DEF fat32_mount
  <1>1. AtaGood /\ GoodDisk(disk)
    BY DEF FatInv, AtaGood
  <1>2. fat32_ctx = NoCtx /\ op = NoOp /\ pending \in {NoCommand, [op |-> "read", lba |-> 0]}
    <2>1. fat32_ctx # Volume(disk)
      BY <1>0, <1>1, VolumeType
    <2> QED
      BY <2>1 DEF FatInv, Mounted
  <1>3. PICK a \in ata_pio_sector("read", 0, << >>) :
          Took(a) /\ fat32_ctx' = IF a.err THEN fat32_ctx ELSE Parameters(a.data)
    BY DEF fat32_mount
  <1>4. 0 \in Nat
    OBVIOUS
  <1>5. ReadAnswer(a, 0)
    BY <1>1, <1>4, ReadAnswerIs
  <1>6. AtaGood' /\ disk' = disk
    BY <1>1, <1>3, <1>4, <1>5, ReadTook
  <1>7. a.err \in BOOLEAN /\ (~a.err => a.data = disk[0]) /\ a.pending \in {NoCommand, [op |-> "read", lba |-> 0]}
    <2>1. a.wrong = FALSE
      BY <1>2, BootSectorAnswer
    <2>2. a.pending \in {NoCommand, pending, [op |-> "read", lba |-> 0]}
      BY <1>5 DEF ReadAnswer
    <2>3. a.err \in BOOLEAN /\ (~a.err /\ ~a.wrong => a.data = disk[0])
      BY <1>5 DEF ReadAnswer
    <2>4. a.pending \in {NoCommand, [op |-> "read", lba |-> 0]}
      BY <1>2, <2>2
    <2> QED
      BY <2>1, <2>3, <2>4
  <1>8. Mounted'
    <2>1. CASE a.err
      <3>1. pending' = a.pending
        BY <1>3 DEF Took
      <3> QED
        BY <1>0, <1>2, <1>3, <1>7, <2>1, <3>1 DEF Mounted
    <2>2. CASE ~a.err
      <3>1. fat32_ctx' = Volume(disk)
        BY <1>3, <1>7, <2>2 DEF Volume
      <3> QED
        BY <1>6, <3>1 DEF Mounted
    <2> QED
      BY <1>7, <2>1, <2>2
  <1>9. Shape(op') /\ Trust(disk', op')
    <2>1. op' = op /\ op'.kind = "none"
      BY <1>0, <1>2 DEF NoOp
    <2> QED
      BY <2>1 DEF FatInv, Trust, Dirs, Transfers
  <1> QED
    BY <1>6, <1>8, <1>9 DEF FatInv

LEMMA FatInvInit == FatInit => FatInv
  <1> SUFFICES ASSUME FatInit PROVE FatInv
    OBVIOUS
  <1>1. PICK v \in Volumes : AtaInit(v)
    BY DEF FatInit
  <1>2. disk = v /\ pending = NoCommand /\ ata0 = "unprobed" /\ astray = FALSE /\ fat32_ctx = NoCtx /\ op = NoOp
    BY <1>1 DEF FatInit, AtaInit
  <1>3. GoodDisk(disk)
    BY <1>2, VolumesAssumption DEF GoodDisk, Unit
  <1>4. AtaGood
    <2>1. DOMAIN disk = 0 .. Sectors - 1
      BY <1>3 DEF GoodDisk
    <2> QED
      BY <1>2, <1>3, <2>1 DEF AtaGood, AtaTypeOK, NoCommand
  <1>5. Mounted
    BY <1>2 DEF Mounted
  <1>6. Shape(op) /\ Trust(disk, op)
    <2>1. << >> \in Seq(Unit)
      OBVIOUS
    <2>2. op.kind = "none" /\ op.at = "done" /\ op.cbuf = << >> /\ op.cluster = 0 /\ op.walked = FALSE
          /\ op.failed = FALSE /\ DOMAIN op = Fields
      BY <1>2 DEF NoOp, Fields
    <2>5. op.walked \in BOOLEAN /\ op.failed \in BOOLEAN
      BY <2>2
    <2>6. 0 \in Nat
      OBVIOUS
    <2>7. op.cluster \in Nat /\ op.cbuf \in Seq(Unit) /\ DOMAIN op = Fields
      BY <2>1, <2>2, <2>6
    <2>3. Shape(op)
      BY <2>2, <2>5, <2>7 DEF Shape, Dirs, Transfers
    <2>4. Trust(disk, op)
      BY <2>2 DEF Trust, Dirs, Transfers
    <2> QED
      BY <2>3, <2>4
  <1> QED
    BY <1>4, <1>5, <1>6 DEF FatInv

LEMMA FatInvStep == FatInv /\ [FatNext]_fatVars => FatInv'
  <1> SUFFICES ASSUME FatInv, [FatNext]_fatVars PROVE FatInv'
    OBVIOUS
  <1>1. CASE Probe
    <2>1. ata0' \in {"present", "absent"} /\ disk' = disk /\ pending' = pending /\ astray' = astray
          /\ fat32_ctx' = fat32_ctx /\ op' = op
      BY <1>1 DEF Probe, ata_init, ata_identify_device
    <2>2. AtaGood'
      BY <2>1 DEF FatInv, AtaGood, AtaTypeOK
    <2>3. Mounted'
      BY <2>1 DEF FatInv, Mounted
    <2> QED
      BY <2>1, <2>2, <2>3 DEF FatInv
  <1>2. CASE fat32_mount
    BY <1>2, MountKeeps
  <1>3. CASE fat32_read_file
    BY <1>3, ReadBegins
  <1>4. CASE fat32_dir
    BY <1>4, DirBegins
  <1>5. CASE transfer
    BY <1>5, TransferBegins
  <1>6. CASE skip_cluster
    BY <1>6, SkipKeeps
  <1>7. CASE load_sector
    BY <1>7, LoadKeeps
  <1>8. CASE follow_chain
    BY <1>8, FollowKeeps
  <1>9. CASE transfer_sector
    BY <1>9, TransferKeeps
  <1>10. CASE UNCHANGED fatVars
    <2>1. ata0' = ata0 /\ disk' = disk /\ pending' = pending /\ astray' = astray
          /\ fat32_ctx' = fat32_ctx /\ op' = op
      BY <1>10 DEF fatVars, ataVars
    <2>2. AtaGood'
      BY <2>1 DEF FatInv, AtaGood, AtaTypeOK
    <2>3. Mounted'
      BY <2>1 DEF FatInv, Mounted
    <2> QED
      BY <2>1, <2>2, <2>3 DEF FatInv
  <1> QED
    BY <1>1, <1>2, <1>3, <1>4, <1>5, <1>6, <1>7, <1>8, <1>9, <1>10 DEF FatNext, Step

-----------------------------------------------------------------------------
(***************************************************************************)
(* What the calls promise.                                                 *)
(***************************************************************************)
LEMMA FatInvAlways == FatSpec => []FatInv
  <1>1. FatInit => FatInv
    BY FatInvInit
  <1>2. FatInv /\ [FatNext]_fatVars => FatInv'
    BY FatInvStep
  <1> QED
    BY <1>1, <1>2, PTL DEF FatSpec

\* What FatInv says of a call that has ended.
LEMMA Ended ==
    ASSUME FatInv, Trusted, op.kind # "none"
    PROVE  fat32_ctx = Volume(disk) /\ GoodDisk(disk) /\ Shape(op) /\ op.at = "done" /\ Trust(disk, op)
           /\ Contents(disk, fat32_ctx) = All(disk)
  <1>1. op # NoOp
    BY DEF NoOp
  <1>2. fat32_ctx = Volume(disk)
    BY <1>1 DEF FatInv, Mounted
  <1>3. op.at = "done" /\ ~astray /\ ~op.walked
    BY DEF Trusted, Idle
  <1> QED
    BY <1>2, <1>3 DEF FatInv, AtaGood, All

LEMMA ReadIsRightNow == FatInv => ReadIsRight
  <1> SUFFICES ASSUME FatInv, Trusted, op.kind = "read", ~op.failed
               PROVE  LET all == Contents(disk, fat32_ctx)
                          cut == UpTo(all, op.arg[1] + op.arg[2])
                      IN  IF op.result < 0 THEN op.arg[3] < 2 \/ op.arg[1] >= Len(all)
                          ELSE op.arg[1] < Len(all) /\ op.buf = SubSeq(cut, op.arg[1] + 1, Len(cut))
    BY DEF ReadIsRight
  <1>1. op.at = "done" /\ Trust(disk, op) /\ Contents(disk, fat32_ctx) = All(disk)
    BY Ended
  <1>2. ReadDone(disk, op)
    <2>1. Right(disk, op)
      BY <1>1 DEF Trust
    <2>2. CallDone(disk, op)
      BY <1>1, <2>1 DEF Right
    <2> QED
      BY <2>2 DEF CallDone
  <1> QED
    BY <1>1, <1>2 DEF ReadDone, ReadEnd, Part

LEMMA DirectoryAgreesNow == FatInv => DirectoryAgrees
  <1> SUFFICES ASSUME FatInv, Trusted, op.kind \in Dirs
               PROVE  LET entries == Contents(disk, fat32_ctx)
                          all == Listed(entries)
                          found == op.result >= 0
                      IN  /\ op.kind = "list" =>
                               /\ IsPrefix(op.buf, all)
                               /\ ~op.failed => op.buf = UpTo(all, op.arg)
                          /\ op.kind = "readdir" =>
                               /\ found => op.arg + 1 \in DOMAIN all /\ op.result = all[op.arg + 1]
                               /\ ~found /\ ~op.failed => op.arg + 1 \notin DOMAIN all
                          /\ op.kind = "lookup" =>
                               /\ found => op.arg \in Range(Live(entries))
                               /\ ~found /\ ~op.failed => op.arg \notin Range(all)
    BY DEF DirectoryAgrees, Dirs
  <1>0. op.kind # "none"
    BY DEF Dirs
  <1>1. op.at = "done" /\ Trust(disk, op) /\ Contents(disk, fat32_ctx) = All(disk) /\ Shape(op) /\ GoodDisk(disk)
    BY <1>0, Ended
  <1>2. DirSound(disk, op)
    <2>1. op.failed \in BOOLEAN
      BY <1>1 DEF Shape
    <2>2. CASE op.failed
      <3>1. Marred(disk, op)
        BY <1>1, <2>2 DEF Trust
      <3> QED
        BY <1>1, <3>1 DEF Marred
    <2>3. CASE ~op.failed
      <3>1. Right(disk, op)
        BY <1>1, <2>3 DEF Trust
      <3>2. CallDone(disk, op)
        BY <1>1, <3>1 DEF Right
      <3> QED
        BY <3>2 DEF CallDone, DirDone
    <2> QED
      BY <2>1, <2>2, <2>3
  <1>3. ~op.failed => DirDone(disk, op)
    <2>1. ASSUME ~op.failed PROVE DirDone(disk, op)
      <3>1. Right(disk, op)
        BY <1>1, <2>1 DEF Trust
      <3>2. CallDone(disk, op)
        BY <1>1, <3>1 DEF Right
      <3> QED
        BY <3>2 DEF CallDone
    <2> QED
      BY <2>1
  <1>4. ASSUME op.kind = "list"
        PROVE  /\ IsPrefix(op.buf, Listed(All(disk)))
               /\ ~op.failed => op.buf = UpTo(Listed(All(disk)), op.arg)
    BY <1>2, <1>3, <1>4 DEF DirSound, DirDone, ListEnd
  <1>5. ASSUME op.kind = "readdir"
        PROVE  /\ op.result >= 0 => op.arg + 1 \in DOMAIN Listed(All(disk)) /\ op.result = Listed(All(disk))[op.arg + 1]
               /\ ~(op.result >= 0) /\ ~op.failed => op.arg + 1 \notin DOMAIN Listed(All(disk))
    BY <1>2, <1>3, <1>5 DEF DirSound, DirDone, ReaddirHas, ReaddirLacks
  <1>6. ASSUME op.kind = "lookup"
        PROVE  /\ op.result >= 0 => op.arg \in Range(Live(All(disk)))
               /\ ~(op.result >= 0) /\ ~op.failed => op.arg \notin Range(Listed(All(disk)))
    <2>1. ASSUME op.result >= 0 PROVE op.arg \in Range(Live(All(disk)))
      <3>1. InLive(All(disk), op.arg)
        BY <1>2, <1>6, <2>1 DEF DirSound
      <3> QED
        BY <3>1 DEF InLive, Holds, Range
    <2>2. ASSUME ~(op.result >= 0), ~op.failed PROVE op.arg \notin Range(Listed(All(disk)))
      <3>1. ~InLive(All(disk), op.arg)
        BY <1>3, <1>6, <2>2 DEF DirDone
      <3> QED
        BY <1>1, <3>1, ListedIsLive
    <2> QED
      BY <2>1, <2>2
  <1> QED
    BY <1>1, <1>4, <1>5, <1>6

LEMMA TransferIsWholeNow == FatInv => TransferIsWhole
  <1> SUFFICES ASSUME FatInv PROVE TransferIsWhole
    OBVIOUS
  <1>1. AtaTypeOK
    BY DEF FatInv, AtaGood
  <1>2. ASSUME Trusted, op.kind \in Transfers, op.result = 0
        PROVE  /\ op.kind = "pio_read" => op.buf = disk[op.cluster] \o disk[op.cluster + 1]
               /\ op.kind = "pio_write" => \A i \in 0 .. 1 : disk[op.cluster + i] = Filled(op.arg, i)
    <2>1. op.at = "done" /\ Trust(disk, op) /\ Shape(op)
      BY <1>2, Ended DEF Transfers
    <2>2. Moved(disk, op, 2) /\ op.cluster \in Nat
      BY <1>2, <2>1 DEF Trust, Shape
    <2>3. ASSUME op.kind = "pio_write", NEW i \in 0 .. 1 PROVE disk[op.cluster + i] = Filled(op.arg, i)
      <3>1. disk[op.cluster] = Filled(op.arg, 0) /\ disk[op.cluster + 1] = Filled(op.arg, 1)
        BY <2>2, <2>3 DEF Moved
      <3>2. i = 0 \/ i = 1
        OBVIOUS
      <3>3. op.cluster + 0 = op.cluster
        BY <2>2
      <3> QED
        BY <3>1, <3>2, <3>3
    <2>4. ASSUME op.kind = "pio_read" PROVE op.buf = disk[op.cluster] \o disk[op.cluster + 1]
      BY <2>2, <2>4 DEF Moved
    <2> QED
      BY <2>3, <2>4
  <1> QED
    BY <1>1, <1>2 DEF TransferIsWhole, Transfers

(***************************************************************************)
(* Whatever volumes, offsets and lengths there are, and however the disk's *)
(* errors and timeouts fall, fat32_read_file returns the units of the      *)
(* chain from its offset on, up to its length or the chain's end, and      *)
(* fails only past the end or after an error.                              *)
(***************************************************************************)
THEOREM ReadsAreExact == FatSpec => []ReadIsRight
  <1>1. FatInv => ReadIsRight
    BY ReadIsRightNow
  <1> QED
    BY <1>1, FatInvAlways, PTL

(***************************************************************************)
(* Whatever the root directory holds, fat32_list_root, fat32_readdir and   *)
(* fat32_lookup answer from the same entries: the whole chain up to its    *)
(* end mark, and a prefix of it when a sector could not be read.           *)
(***************************************************************************)
THEOREM DirectoryCallsAgree == FatSpec => []DirectoryAgrees
  <1>1. FatInv => DirectoryAgrees
    BY DirectoryAgreesNow
  <1> QED
    BY <1>1, FatInvAlways, PTL

(***************************************************************************)
(* A transfer of two sectors that reports success has moved both, however  *)
(* many tries ata_read_sectors and ata_write_sectors needed.               *)
(***************************************************************************)
THEOREM TransfersAreWhole == FatSpec => []TransferIsWhole
  <1>1. FatInv => TransferIsWhole
    BY TransferIsWholeNow
  <1> QED
    BY <1>1, FatInvAlways, PTL
=============================================================================
