--------------------------- MODULE HealthMonitor ---------------------------
(***************************************************************************)
(* managers/health_monitor.py on Linux: the loop that asks every running   *)
(* service app for its /health, counts failures, marks apps ERROR and      *)
(* restarts their units, beside the requests of operators that start,      *)
(* stop, restart and delete the same apps while a check awaits its answer. *)
(*                                                                         *)
(* One event loop runs all of it: an action below is what one task does    *)
(* between two awaits.  On Linux nobody sets process_id or started_at of a *)
(* service app (SubprocessLauncher does, on Darwin), so an app in ERROR is *)
(* not alive for _is_process_alive and no startup grace period applies.    *)
(*                                                                         *)
(* Left out: the ports (every running app here has one; ServiceManager has *)
(* the apps that do not), the MCP probe after a good answer (MCPGateway),  *)
(* the stored results, which only the dashboard reads, and apps without a  *)
(* has_UI flag, which are never checked.                                   *)
(***************************************************************************)
EXTENDS Integers

CONSTANTS
    Apps,
    FailureThreshold,   \* config.failure_threshold
    MaxFailures,        \* config.max_failures
    MaxBoots            \* bound: how often the platform is restarted

ASSUME HealthAssumption ==
    /\ FailureThreshold \in Nat \ {0} /\ MaxFailures \in Nat
    /\ FailureThreshold <= MaxFailures
    /\ MaxBoots \in Nat

VARIABLES
    status,         \* registry: app -> "absent", "running", "error", or "idle"
                    \* for DISCOVERED, READY and STOPPED
    failures,       \* failure_counts, never removed with the app
    check,          \* where the check of an app stands
    held,           \* the registry entry that check holds: "current", or the
                    \* status of an entry that has been deleted since
    unit_file,      \* apps with a unit file
    active,         \* apps whose unit is active
    hung,           \* apps whose process answers nothing
    boots

registry == <<status, held>>
systemd  == <<unit_file, active, hung>>
vars     == <<status, failures, check, held, systemd, boots>>

Statuses == {"absent", "idle", "running", "error"}
Checks   == {"none", "created", "asked", "good", "bad", "resting"}

Init ==
    /\ status = [a \in Apps |-> "idle"]
    /\ failures = [a \in Apps |-> 0]
    /\ check = [a \in Apps |-> "none"]
    /\ held = [a \in Apps |-> "current"]
    /\ unit_file = {} /\ active = {} /\ hung = {}
    /\ boots = 0

SetCheck(a, c) == check' = [check EXCEPT ![a] = c]

\* registry.update_app(app_id, status=s): nothing for an app that is gone.
UpdateStatus(a, s) ==
    status' = IF status[a] = "absent" THEN status ELSE [status EXCEPT ![a] = s]

\* A new process: it is up and not hung.
Launch(a) == active' = active \cup {a} /\ hung' = hung \ {a}
Halt(a)   == active' = active \ {a} /\ hung' = hung \ {a}

-----------------------------------------------------------------------------
(* The monitoring loop.                                                    *)

Checkable == {a \in Apps : status[a] = "running"}

\* One task per app; gather returns when every one of them has ended.
perform_health_checks ==
    /\ \A a \in Apps : check[a] = "none"
    /\ Checkable # {}
    /\ check' = [a \in Apps |-> IF a \in Checkable THEN "created" ELSE "none"]
    /\ UNCHANGED <<failures, registry, systemd, boots>>

\* The task looks its app up and sends the request.
check_app_health(a) ==
    /\ check[a] = "created"
    /\ SetCheck(a, IF status[a] = "absent" THEN "none" ELSE "asked")
    /\ UNCHANGED <<failures, registry, systemd, boots>>

EndCheck(a) == SetCheck(a, "none") /\ held' = [held EXCEPT ![a] = "current"]

\* good or warning.  app is the entry read before the await.
on_good_answer(a) ==
    /\ check[a] = "good"
    /\ failures' = [failures EXCEPT ![a] = 0]
    /\ LET seen == IF held[a] = "current" THEN status[a] ELSE held[a]
       IN  IF seen = "error" THEN UpdateStatus(a, "running") ELSE UNCHANGED status
    /\ EndCheck(a)
    /\ UNCHANGED <<systemd, boots>>

CountsOnlyTheLast(a) == 1                                            \* mutant
UncappedCount(a) == failures[a] + 1                                  \* mutant

\* Counts beyond MaxFailures behave like MaxFailures.
FailureCount(a) == IF failures[a] < MaxFailures THEN failures[a] + 1 ELSE MaxFailures

Counted(a) == failures' = [failures EXCEPT ![a] = FailureCount(a)]

\* _attempt_service_restart: the check sleeps ten seconds after a restart that
\* worked, and systemctl restart works only where there is a unit file.
RestartWorks(a) ==
    /\ a \in unit_file
    /\ Launch(a)
    /\ UpdateStatus(a, "running")
    /\ failures' = [failures EXCEPT ![a] = 0]
    /\ SetCheck(a, "resting") /\ UNCHANGED held

RestartFails(a) ==
    /\ IF a \in unit_file THEN Halt(a) ELSE UNCHANGED <<active, hung>>
    /\ UpdateStatus(a, "error")
    /\ Counted(a) /\ EndCheck(a)

\* _handle_health_check_failure, for an HTTP error, a health of "error", no
\* answer in time or a refused connection, whatever the app's status is by now.
on_failure(a) ==
    /\ check[a] = "bad"
    /\ \/ /\ FailureCount(a) < MaxFailures
          /\ Counted(a) /\ EndCheck(a)
          /\ IF FailureCount(a) < FailureThreshold THEN UNCHANGED status ELSE UpdateStatus(a, "error")
          /\ UNCHANGED <<active, hung>>
       \/ /\ FailureCount(a) >= MaxFailures
          /\ RestartWorks(a) \/ RestartFails(a)
    /\ UNCHANGED <<unit_file, boots>>

wake(a) ==
    /\ check[a] = "resting" /\ EndCheck(a)
    /\ UNCHANGED <<status, failures, systemd, boots>>

-----------------------------------------------------------------------------
(* Requests of operators, each handled without an await (see               *)
(* ServiceManager for what they do to ports and files).                    *)

Operator == UNCHANGED <<failures, check, boots>>

start_service(a) ==
    /\ status[a] # "absent"
    /\ \/ /\ UpdateStatus(a, "running") /\ unit_file' = unit_file \cup {a}
          /\ IF a \in active THEN UNCHANGED <<active, hung>> ELSE Launch(a)
       \/ /\ status' \in {status, [status EXCEPT ![a] = "error"]}
          /\ unit_file' \in {unit_file, unit_file \cup {a}}
          /\ UNCHANGED <<active, hung>>
    /\ UNCHANGED held /\ Operator

stop_service(a) ==
    /\ a \in unit_file
    /\ UpdateStatus(a, "idle") /\ Halt(a)
    /\ UNCHANGED <<unit_file, held>> /\ Operator

restart_service(a) ==
    /\ a \in unit_file
    /\ \/ Launch(a) /\ UpdateStatus(a, "running")
       \/ Halt(a) /\ UNCHANGED status
    /\ UNCHANGED <<unit_file, held>> /\ Operator

\* The entry goes, as stop_service left it; a check that holds it goes on.
StatusLeft(a) == IF a \in unit_file THEN "idle" ELSE status[a]

HoldsEntry(a) == check[a] \in {"asked", "good", "bad"} /\ held[a] = "current"

RemovedUnit(a) == unit_file' = unit_file \ {a} /\ Halt(a)

DeleteKeepsUnitFile(a) ==                                            \* mutant
    /\ status[a] # "absent"
    /\ held' = [held EXCEPT ![a] = IF HoldsEntry(a) THEN StatusLeft(a) ELSE @]
    /\ status' = [status EXCEPT ![a] = "absent"]
    /\ Halt(a) /\ UNCHANGED unit_file /\ Operator

delete_app(a) ==
    /\ status[a] # "absent"
    /\ held' = [held EXCEPT ![a] = IF HoldsEntry(a) THEN StatusLeft(a) ELSE @]
    /\ status' = [status EXCEPT ![a] = "absent"]
    /\ RemovedUnit(a) /\ Operator

\* Discovery: a new entry under the old id, or a version bump, whose migrations
\* may fail, of an app that may be running.
discover_apps(a) ==
    /\ \/ status' = [status EXCEPT ![a] = "idle"]
       \/ status[a] # "absent" /\ status' = [status EXCEPT ![a] = "error"]
    /\ UNCHANGED <<held, systemd>> /\ Operator

\* The platform is killed and comes back: the memory is lost, and every app whose
\* folder is there is found again, RUNNING if its unit is active.
reboot ==
    /\ boots < MaxBoots /\ boots' = boots + 1
    /\ status' = [a \in Apps |-> CASE a \in active -> "running"
                                  [] status[a] = "absent" -> "absent"
                                  [] OTHER -> "idle"]
    /\ failures' = [a \in Apps |-> 0]
    /\ check' = [a \in Apps |-> "none"]
    /\ held' = [a \in Apps |-> "current"]
    /\ UNCHANGED systemd

-----------------------------------------------------------------------------
(* The processes.                                                          *)

Process == UNCHANGED <<status, failures, held, unit_file, boots>>

answers(a) ==
    /\ check[a] = "asked" /\ a \in active \ hung
    /\ SetCheck(a, "good") \/ SetCheck(a, "bad")
    /\ Process /\ UNCHANGED <<active, hung>>

\* Refused, reset, or cut off by the timeout of the session.
no_answer(a) ==
    /\ check[a] = "asked" /\ SetCheck(a, "bad")
    /\ Process /\ UNCHANGED <<active, hung>>

\* It dies and stays down, or systemd starts it again.
dies(a) ==
    /\ a \in active /\ (Halt(a) \/ Launch(a))
    /\ Process /\ UNCHANGED check

hangs(a)    == a \in active /\ hung' = hung \cup {a} /\ Process /\ UNCHANGED <<check, active>>
recovers(a) == a \in hung /\ hung' = hung \ {a} /\ Process /\ UNCHANGED <<check, active>>

monitor(a) == check_app_health(a) \/ on_good_answer(a) \/ on_failure(a) \/ wake(a)

operator(a) ==
    \/ start_service(a)
    \/ stop_service(a)
    \/ restart_service(a)
    \/ delete_app(a)
    \/ discover_apps(a)

process(a) == answers(a) \/ no_answer(a) \/ dies(a) \/ hangs(a) \/ recovers(a)

Next ==
    \/ perform_health_checks
    \/ \E a \in Apps : monitor(a) \/ operator(a) \/ process(a)
    \/ reboot

\* The event loop resumes every task that is ready, the loop comes round again,
\* and no request outlives the five seconds of the client session.
Fairness ==
    /\ WF_vars(perform_health_checks)
    /\ \A a \in Apps : WF_vars(monitor(a)) /\ WF_vars(no_answer(a))

Spec == Init /\ [][Next]_vars /\ Fairness

-----------------------------------------------------------------------------
(* Properties *)

TypeOK ==
    /\ status \in [Apps -> Statuses]
    /\ failures \in [Apps -> 0 .. MaxFailures]
    /\ check \in [Apps -> Checks]
    /\ held \in [Apps -> {"current"} \cup (Statuses \ {"absent"})]
    /\ unit_file \subseteq Apps /\ active \subseteq unit_file /\ hung \subseteq active
    /\ boots \in 0 .. MaxBoots

\* However late the answer to its last check, and however many failures the
\* monitor still remembers for its id, a deleted app is not brought back to life:
\* the restart finds no unit file.
DeletedAppStaysDown == \A a \in Apps : status[a] = "absent" => a \notin active

\* An app whose process is gone or hangs for good does not stay RUNNING in the
\* registry: one slow check, the sleep after another app's restart or a request of
\* an operator can delay the verdict and never prevent it.
DeadAppIsNoticed ==
    \A a \in Apps : ~ <>[](status[a] = "running" /\ a \notin active \ hung)

-----------------------------------------------------------------------------
(* What a comment of the code says and the code does not do. *)

\* "Include RUNNING apps and ERROR apps whose process is still alive (the latter
\* allows recovery from transient startup failures)": an app in ERROR whose unit
\* stays active is checked again.
AliveErrorAppIsChecked ==
    \A a \in Apps : ~ <>[](status[a] = "error" /\ a \in active /\ check[a] = "none")
=============================================================================
