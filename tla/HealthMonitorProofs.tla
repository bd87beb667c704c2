------------------------ MODULE HealthMonitorProofs ------------------------
(***************************************************************************)
(* Proofs about HealthMonitor for any apps and thresholds, and any number  *)
(* of restarts of the platform.                                            *)
(***************************************************************************)
EXTENDS HealthMonitor, TLAPS

\* What keeps a deleted app down is that no unit file is left: a check that goes on
\* after the deletion restarts nothing then.
DeletedHasNoUnitFile == \A a \in Apps : status[a] = "absent" => a \notin unit_file

IInv == TypeOK /\ DeletedHasNoUnitFile

\* The registry forgets and remembers apps only where a deletion and a discovery do.
LEMMA UpdateStatusKeeps ==
    ASSUME TypeOK, NEW a \in Apps, NEW s \in Statuses \ {"absent"}, UpdateStatus(a, s)
    PROVE  /\ status' \in [Apps -> Statuses]
           /\ \A b \in Apps : status'[b] = "absent" <=> status[b] = "absent"
BY DEF TypeOK, UpdateStatus

\* Units start only where there is a unit file.
LEMMA LaunchKeeps ==
    ASSUME TypeOK, NEW a \in unit_file, Launch(a) \/ Halt(a)
    PROVE  active' \subseteq unit_file /\ hung' \subseteq active'
BY DEF TypeOK, Launch, Halt

LEMMA HaltKeeps ==
    ASSUME TypeOK, NEW a \in Apps, Halt(a)
    PROVE  active' \subseteq unit_file /\ hung' \subseteq active' /\ a \notin active'
BY DEF TypeOK, Halt

LEMMA CountKeeps ==
    ASSUME TypeOK, NEW a \in Apps
    PROVE  /\ FailureCount(a) \in 0 .. MaxFailures
           /\ Counted(a) => failures' \in [Apps -> 0 .. MaxFailures]
<1>1. FailureCount(a) \in 0 .. MaxFailures
    BY HealthAssumption DEF TypeOK, FailureCount
<1> QED
    BY <1>1 DEF TypeOK, Counted

LEMMA EndCheckKeeps ==
    ASSUME TypeOK, NEW a \in Apps, EndCheck(a)
    PROVE  check' \in [Apps -> Checks] /\ held' \in [Apps -> {"current"} \cup (Statuses \ {"absent"})]
BY DEF TypeOK, EndCheck, SetCheck, Checks

LEMMA SomeStatuses == {"idle", "running", "error"} = Statuses \ {"absent"}
BY DEF Statuses

LEMMA Initially == Init => IInv
BY HealthAssumption DEF Init, IInv, TypeOK, DeletedHasNoUnitFile, Statuses, Checks

-----------------------------------------------------------------------------
(* The monitoring loop. *)

LEMMA MonitorKeeps ==
    ASSUME IInv, NEW a \in Apps, monitor(a)
    PROVE  IInv'
<1>0. TypeOK /\ DeletedHasNoUnitFile /\ 0 \in 0 .. MaxFailures
    BY HealthAssumption DEF IInv
<1>1. CASE check_app_health(a)
    BY <1>0, <1>1 DEF check_app_health, SetCheck, registry, systemd, IInv, TypeOK, Checks,
                      DeletedHasNoUnitFile
<1>2. CASE on_good_answer(a)
    <2>1. failures' \in [Apps -> 0 .. MaxFailures] /\ UNCHANGED <<systemd, boots>> /\ EndCheck(a)
        BY <1>0, <1>2 DEF on_good_answer, TypeOK
    <2>2. /\ status' \in [Apps -> Statuses]
          /\ \A b \in Apps : status'[b] = "absent" <=> status[b] = "absent"
        <3>1. UpdateStatus(a, "running") \/ UNCHANGED status
            BY <1>2 DEF on_good_answer
        <3> QED
            BY <1>0, <3>1, UpdateStatusKeeps, SomeStatuses DEF TypeOK
    <2> QED
        BY <1>0, <2>1, <2>2, EndCheckKeeps DEF IInv, TypeOK, DeletedHasNoUnitFile, systemd
<1>3. CASE on_failure(a)
    <2>1. UNCHANGED <<unit_file, boots>>
        BY <1>3 DEF on_failure
    <2>2. CASE RestartWorks(a)
        <3>1. /\ a \in unit_file /\ Launch(a) /\ UpdateStatus(a, "running")
              /\ failures' = [failures EXCEPT ![a] = 0]
              /\ check' = [check EXCEPT ![a] = "resting"] /\ UNCHANGED held
            BY <2>2 DEF RestartWorks, SetCheck
        <3>2. /\ status' \in [Apps -> Statuses]
              /\ \A b \in Apps : status'[b] = "absent" <=> status[b] = "absent"
            BY <1>0, <3>1, UpdateStatusKeeps, SomeStatuses
        <3>3. active' \subseteq unit_file /\ hung' \subseteq active'
            BY <1>0, <3>1, LaunchKeeps
        <3>4. failures' \in [Apps -> 0 .. MaxFailures] /\ check' \in [Apps -> Checks]
            BY <1>0, <3>1 DEF TypeOK, Checks
        <3> QED
            BY <1>0, <2>1, <3>1, <3>2, <3>3, <3>4 DEF IInv, TypeOK, DeletedHasNoUnitFile
    <2>3. CASE ~ RestartWorks(a)
        <3>1. /\ Counted(a) /\ EndCheck(a)
              /\ UpdateStatus(a, "error") \/ UNCHANGED status
              /\ UNCHANGED <<active, hung>> \/ Halt(a)
            BY <1>3, <2>3 DEF on_failure, RestartFails
        <3>2. /\ status' \in [Apps -> Statuses]
              /\ \A b \in Apps : status'[b] = "absent" <=> status[b] = "absent"
            BY <1>0, <3>1, UpdateStatusKeeps, SomeStatuses DEF TypeOK
        <3>3. active' \subseteq unit_file /\ hung' \subseteq active'
            BY <1>0, <3>1, HaltKeeps DEF TypeOK
        <3>4. /\ failures' \in [Apps -> 0 .. MaxFailures] /\ check' \in [Apps -> Checks]
              /\ held' \in [Apps -> {"current"} \cup (Statuses \ {"absent"})]
            BY <1>0, <3>1, CountKeeps, EndCheckKeeps
        <3> QED
            BY <1>0, <2>1, <3>2, <3>3, <3>4 DEF IInv, TypeOK, DeletedHasNoUnitFile
    <2> QED
        BY <2>2, <2>3
<1>4. CASE wake(a)
    BY <1>0, <1>4, EndCheckKeeps DEF wake, systemd, IInv, TypeOK, DeletedHasNoUnitFile
<1> QED
    BY <1>1, <1>2, <1>3, <1>4 DEF monitor

LEMMA LoopKeeps ==
    ASSUME IInv, perform_health_checks
    PROVE  IInv'
BY DEF perform_health_checks, registry, systemd, IInv, TypeOK, Checks, DeletedHasNoUnitFile

-----------------------------------------------------------------------------
(* Operators, processes and the platform. *)

LEMMA OperatorKeeps ==
    ASSUME IInv, NEW a \in Apps, operator(a)
    PROVE  IInv'
<1>0. TypeOK /\ DeletedHasNoUnitFile
    BY DEF IInv
<1>1. CASE start_service(a)
    <2>1. status[a] # "absent" /\ UNCHANGED <<held, failures, check, boots>>
        BY <1>1 DEF start_service, Operator
    <2>2. /\ status' \in [Apps -> Statuses]
          /\ \A b \in Apps : status'[b] = "absent" <=> status[b] = "absent"
        <3>1. CASE UpdateStatus(a, "running")
            BY <1>0, <3>1, UpdateStatusKeeps, SomeStatuses
        <3>2. CASE status' \in {status, [status EXCEPT ![a] = "error"]}
            BY <1>0, <2>1, <3>2, SomeStatuses DEF TypeOK
        <3> QED
            BY <1>1, <3>1, <3>2 DEF start_service
    <2>3. /\ unit_file' \in {unit_file, unit_file \cup {a}}
          /\ active' \subseteq unit_file' /\ hung' \subseteq active'
        BY <1>0, <1>1 DEF start_service, Launch, TypeOK
    <2> QED
        BY <1>0, <2>1, <2>2, <2>3 DEF IInv, TypeOK, DeletedHasNoUnitFile
<1>2. CASE stop_service(a) \/ restart_service(a)
    <2>1. /\ a \in unit_file /\ UNCHANGED <<unit_file, held, failures, check, boots>>
          /\ Launch(a) \/ Halt(a)
          /\ UNCHANGED status \/ UpdateStatus(a, "idle") \/ UpdateStatus(a, "running")
        BY <1>2 DEF stop_service, restart_service, Operator
    <2>2. /\ status' \in [Apps -> Statuses]
          /\ \A b \in Apps : status'[b] = "absent" <=> status[b] = "absent"
        BY <1>0, <2>1, UpdateStatusKeeps, SomeStatuses DEF TypeOK
    <2>3. active' \subseteq unit_file /\ hung' \subseteq active'
        BY <1>0, <2>1, LaunchKeeps
    <2> QED
        BY <1>0, <2>1, <2>2, <2>3 DEF IInv, TypeOK, DeletedHasNoUnitFile
<1>3. CASE delete_app(a)
    <2>1. /\ status[a] # "absent" /\ UNCHANGED <<failures, check, boots>>
          /\ status' = [status EXCEPT ![a] = "absent"]
          /\ held' = [held EXCEPT ![a] = IF HoldsEntry(a) THEN StatusLeft(a) ELSE @]
          /\ unit_file' = unit_file \ {a} /\ Halt(a)
        BY <1>3 DEF delete_app, RemovedUnit, Operator
    <2>2. StatusLeft(a) \in Statuses \ {"absent"}
        BY <1>0, <2>1, SomeStatuses DEF StatusLeft, TypeOK
    <2>3. /\ held' \in [Apps -> {"current"} \cup (Statuses \ {"absent"})]
          /\ status' \in [Apps -> Statuses]
        BY <1>0, <2>1, <2>2 DEF TypeOK, Statuses
    <2>4. active' \subseteq unit_file' /\ hung' \subseteq active'
        BY <1>0, <2>1, HaltKeeps
    <2> QED
        BY <1>0, <2>1, <2>3, <2>4 DEF IInv, TypeOK, DeletedHasNoUnitFile
<1>4. CASE discover_apps(a)
    <2>1. /\ UNCHANGED <<failures, check, boots, held, unit_file, active, hung>>
          /\ \E s \in {"idle", "error"} : status' = [status EXCEPT ![a] = s]
        BY <1>4 DEF discover_apps, Operator, systemd
    <2> QED
        BY <1>0, <2>1 DEF IInv, TypeOK, Statuses, DeletedHasNoUnitFile
<1> QED
    BY <1>1, <1>2, <1>3, <1>4 DEF operator

LEMMA ProcessKeeps ==
    ASSUME IInv, NEW a \in Apps, process(a)
    PROVE  IInv'
<1>1. UNCHANGED <<status, failures, held, unit_file, boots>>
    BY DEF process, answers, no_answer, dies, hangs, recovers, Process
<1>2. check' \in [Apps -> Checks]
    BY DEF IInv, TypeOK, Checks, process, answers, no_answer, dies, hangs, recovers, SetCheck
<1>3. active' \subseteq unit_file /\ hung' \subseteq active'
    BY DEF IInv, TypeOK, process, answers, no_answer, dies, hangs, recovers, Launch, Halt
<1> QED
    BY <1>1, <1>2, <1>3 DEF IInv, TypeOK, DeletedHasNoUnitFile

LEMMA RebootKeeps ==
    ASSUME IInv, reboot
    PROVE  IInv'
<1>1. /\ boots' \in 0 .. MaxBoots /\ UNCHANGED <<unit_file, active, hung>>
      /\ failures' \in [Apps -> 0 .. MaxFailures] /\ check' \in [Apps -> Checks]
      /\ held' \in [Apps -> {"current"} \cup (Statuses \ {"absent"})]
    BY HealthAssumption DEF reboot, IInv, TypeOK, Checks, systemd
<1>2. \A b \in Apps : /\ status'[b] \in Statuses
                      /\ status'[b] = "absent" => status[b] = "absent"
    BY DEF reboot, IInv, Statuses
<1>3. status' \in [Apps -> Statuses]
    BY <1>2 DEF reboot
<1> QED
    BY <1>1, <1>2, <1>3 DEF IInv, TypeOK, DeletedHasNoUnitFile

LEMMA NextKeeps == IInv /\ [Next]_vars => IInv'
<1> SUFFICES ASSUME IInv, [Next]_vars PROVE IInv'
    OBVIOUS
<1>1. CASE UNCHANGED vars
    BY <1>1 DEF vars, registry, systemd, IInv, TypeOK, DeletedHasNoUnitFile
<1> QED
    BY <1>1, LoopKeeps, MonitorKeeps, OperatorKeeps, ProcessKeeps, RebootKeeps DEF Next

LEMMA Invariance == Spec => []IInv
BY Initially, NextKeeps, PTL DEF Spec

-----------------------------------------------------------------------------
(* Theorems. *)

\* Statuses, failure counts, checks and units keep their types, and only units with a
\* unit file are active, for any apps and thresholds.
THEOREM TypeCorrect == Spec => []TypeOK
<1>1. IInv => TypeOK
    BY DEF IInv
<1> QED
    BY <1>1, Invariance, PTL

\* No answer, timeout or restart of a check that outlives its app's deletion brings the
\* app's unit up again.
THEOREM DeletedAppAlwaysDown == Spec => []DeletedAppStaysDown
<1>1. IInv => DeletedAppStaysDown
    BY DEF IInv, TypeOK, DeletedHasNoUnitFile, DeletedAppStaysDown
<1> QED
    BY <1>1, Invariance, PTL
=============================================================================
