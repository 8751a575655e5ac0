----------------------------- MODULE ServiceMgr -----------------------------
(***************************************************************************)
(* The service manager, services/service_mgr.c, as init (services/init.c)  *)
(* runs it: config_parse registers and starts the configured services, the *)
(* main loop is written to call service_mgr_check_all once in              *)
(* INIT_CHECK_INTERVAL ticks.  The table is a sequence in order of         *)
(* registration; a call by name acts on the first entry with that name.    *)
(* The slot i of the code is i - 1.                                        *)
(*                                                                         *)
(* restarts is a history variable, not in the code: how often a pass has   *)
(* brought each entry from CRASHED back to RUNNING since the entry was     *)
(* registered or last started by hand.                                     *)
(***************************************************************************)
EXTENDS Naturals, Sequences, FiniteSets

CONSTANTS Name,          \* service names
          Config,        \* the services of init.cfg, in order
          MaxServices,   \* MAX_SERVICES
          MaxCrashes,    \* SVC_MAX_CRASHES
          FirstPid,      \* 100, the fake pid of slot 0
          Base,          \* backoff_delay of a new service (2000)
          BackoffMod     \* backoff_delay is computed modulo this (2^32)

ASSUME ServiceAssumption ==
    /\ Config \in Seq(Name) /\ Len(Config) <= MaxServices
    /\ MaxServices \in Nat /\ MaxCrashes \in Nat
    /\ FirstPid \in Nat \ {0}
    /\ Base \in Nat /\ BackoffMod \in Nat \ {0} /\ Base < BackoffMod

VARIABLES services, restarts

svc_vars == <<services, restarts>>

\* svc_state_t between calls: service_restart sets RESTARTING and leaves it.
SvcState == {"STOPPED", "RUNNING", "CRASHED"}

\* A table entry as service_mgr_register leaves it.
registered(n) ==
    [name |-> n, state |-> "STOPPED", pid |-> 0, crash_count |-> 0,
     backoff_delay |-> Base, enabled |-> TRUE]

\* The entry that a call by name finds; none if the name is unknown.
Found(n) ==
    {i \in DOMAIN services : services[i].name = n
                             /\ \A j \in 1 .. i - 1 : services[j].name # n}

\* Started by hand: a fresh crash count.  enabled and backoff_delay stay.
started(svc, i) ==
    [svc EXCEPT !.state = "RUNNING", !.pid = i - 1 + FirstPid, !.crash_count = 0]

\* Mutant: the pid is not set on a restart.
Mut_service_restart(svc) ==
    IF svc.crash_count >= MaxCrashes THEN [svc EXCEPT !.enabled = FALSE, !.state = "STOPPED"]
    ELSE [svc EXCEPT !.state = "RUNNING", !.crash_count = @ + 1,
                     !.backoff_delay = (@ * 2) % BackoffMod]

\* Mutant: disabled one crash early.
Mut_restart_early(svc) ==
    IF svc.crash_count + 1 >= MaxCrashes THEN [svc EXCEPT !.enabled = FALSE, !.state = "STOPPED"]
    ELSE [svc EXCEPT !.state = "RUNNING", !.crash_count = @ + 1,
                     !.backoff_delay = (@ * 2) % BackoffMod, !.pid = @ + 1]

\* A crashed service is restarted, or disabled after MaxCrashes restarts.
service_restart(svc) ==
    IF svc.crash_count >= MaxCrashes THEN [svc EXCEPT !.enabled = FALSE, !.state = "STOPPED"]
    ELSE [svc EXCEPT !.state = "RUNNING", !.crash_count = @ + 1,
                     !.backoff_delay = (@ * 2) % BackoffMod, !.pid = @ + 1]

-----------------------------------------------------------------------------
\* init_start: the configured services are registered and started.
Init ==
    /\ services = [i \in DOMAIN Config |-> started(registered(Config[i]), i)]
    /\ restarts = [i \in DOMAIN Config |-> 0]

service_mgr_register(n) ==
    /\ Len(services) < MaxServices
    /\ services' = Append(services, registered(n))
    /\ restarts' = Append(restarts, 0)

service_mgr_start(n) ==
    \E i \in Found(n) :
        /\ services' = [services EXCEPT ![i] = started(@, i)]
        /\ restarts' = [restarts EXCEPT ![i] = 0]

service_mgr_stop(n) ==
    /\ \E i \in Found(n) : services' = [services EXCEPT ![i].state = "STOPPED", ![i].pid = 0]
    /\ UNCHANGED restarts

\* service_mgr_simulate_crash: a service dies.
service_mgr_simulate_crash(n) ==
    /\ \E i \in Found(n) : services' = [services EXCEPT ![i].state = "CRASHED", ![i].pid = 0]
    /\ UNCHANGED restarts

\* The history of the step: who was CRASHED before it and RUNNING after it.
CountRestarts ==
    restarts' = [i \in DOMAIN services |->
        IF services[i].state = "CRASHED" /\ services'[i].state = "RUNNING"
        THEN restarts[i] + 1 ELSE restarts[i]]

\* Mutant: the pass ends at the first service that is disabled.
Mut_service_mgr_check_all ==
    /\ services' = [i \in DOMAIN services |->
           IF (\A j \in 1 .. i : services[j].enabled) /\ services[i].state = "CRASHED"
           THEN service_restart(services[i]) ELSE services[i]]
    /\ CountRestarts

\* One pass over the whole table.
service_mgr_check_all ==
    /\ services' = [i \in DOMAIN services |->
           IF services[i].enabled /\ services[i].state = "CRASHED"
           THEN service_restart(services[i]) ELSE services[i]]
    /\ CountRestarts

Next ==
    \/ \E n \in Name : \/ service_mgr_register(n) \/ service_mgr_start(n)
                       \/ service_mgr_stop(n) \/ service_mgr_simulate_crash(n)
    \/ service_mgr_check_all

\* No fairness: no code enters init_main_loop, and the loop waits for ticks
\* of a timer whose line stays masked, so no pass is guaranteed.
Spec == Init /\ [][Next]_svc_vars

-----------------------------------------------------------------------------
\* Every field has its type, and crash_count its limit.
ServiceTypeOK ==
    services \in Seq([name : Name, state : SvcState, pid : Nat, crash_count : 0 .. MaxCrashes,
                      backoff_delay : 0 .. BackoffMod - 1, enabled : BOOLEAN])

\* A service has a pid exactly while it runs: over crashes, restarts, stops
\* and the disabling after too many crashes.
PidMeansRunning ==
    \A i \in DOMAIN services : services[i].pid # 0 <=> services[i].state = "RUNNING"

\* Automatic restarts end in time and not too soon: however crashes, passes,
\* stops and starts by hand follow each other, an entry is restarted at most
\* MaxCrashes times before somebody starts it again, and only an entry that
\* crashes once more after MaxCrashes restarts is disabled.
DisabledOnlyByCrashLoop ==
    [][\A i \in DOMAIN services :
         /\ restarts'[i] <= MaxCrashes
         /\ services[i].enabled /\ ~services'[i].enabled =>
                services[i].state = "CRASHED" /\ restarts[i] = MaxCrashes]_svc_vars

\* Passes go on being made.  This is a hypothesis: nothing enters
\* init_main_loop, and its condition waits for ticks that do not come.
PassesGoOn == WF_svc_vars(service_mgr_check_all)

\* A pass reaches every entry: if passes go on being made, a crash of an
\* enabled service is dealt with, whatever state the other services are in.
CrashHandled ==
    PassesGoOn =>
        \A i \in 1 .. MaxServices :
            (i \in DOMAIN services /\ services[i].enabled /\ services[i].state = "CRASHED")
                ~> (i \in DOMAIN services /\ services[i].state # "CRASHED")
=============================================================================
