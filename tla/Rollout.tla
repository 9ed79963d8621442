------------------------------- MODULE Rollout -------------------------------
(***************************************************************************)
(* How one control-plane process follows another: the boot sequence of     *)
(* serve() (reset, migrations, reclaim, listen), the restart of a process  *)
(* that died or could not boot, and the replacement of a deployment by the *)
(* next one.  Module Scheduler assumes one process at a time; here two may *)
(* be alive at once, since the platform keeps the old deployment until the *)
(* health check of the new one answers.                                    *)
(*                                                                         *)
(* A run is its row and its task; what the task does is in Scheduler.  The *)
(* machine rows, reclaimed after the runs, are in Fleet, and the dev seed  *)
(* is in Ingress.                                                          *)
(***************************************************************************)
EXTENDS Naturals, FiniteSets

CONSTANTS
    Last,         \* deployments are numbered 1..Last
    Files,        \* migration files are numbered 1..Files
    Needs,        \* the files whose tables each file refers to
    ResetPlans,   \* which deployments may have ONSAGER_RESET_SCHEMA=true
    Modes,        \* how the platform may replace a deployment
    Runs,         \* runs, each fired at most once
    MaxRetries,   \* restartPolicyMaxRetries
    MaxCrashes,   \* bound: processes that die
    MaxFaults     \* bound: boot statements that fail

ASSUME LastAssumption == Last \in Nat \ {0}
ASSUME FilesAssumption == Files \in Nat \ {0}
ASSUME NeedsAssumption ==
    Needs \in [1..Files -> SUBSET (1..Files)] /\ \A f \in 1..Files : Needs[f] \subseteq 1..(f-1)
ASSUME ResetPlansAssumption == ResetPlans \subseteq SUBSET (1..Last)
ASSUME ModesAssumption == Modes \subseteq {"stop_first", "overlap"}
ASSUME BoundsAssumption == MaxRetries \in Nat /\ MaxCrashes \in Nat /\ MaxFaults \in Nat

Deploys == 1..Last

VARIABLES
    (* Postgres *)
    ledger,       \* schema_migrations exists
    applied,      \* files recorded in it
    present,      \* files whose tables exist, by committed transactions
    row,          \* runs.status, "none" before the INSERT, "gone" with the schema
    (* one process per deployment *)
    pc,           \* where serve() is, or what became of the process
    file,         \* the migration it is at
    tx,           \* the file its open transaction has created, 0 if none
    todo,         \* runs its reclaim selected and has not finished
    tasks,        \* runs whose task is alive, and the process it lives in
    (* the platform *)
    mode,         \* how deployments are replaced, fixed
    resets,       \* the deployments with the reset flag, fixed
    active,       \* the deployment that gets the requests, 0 before the first
    retries,      \* restarts of each deployment
    crashes, faults,
    wiped         \* history: who has not begun to migrate since the last reset

dbVars == <<ledger, applied, present, row>>
platformVars == <<mode, resets, active, crashes>>
vars == <<dbVars, pc, file, tx, todo, tasks, platformVars, wiped, retries, faults>>

Migrating == {"reset", "ledger", "check", "ddl", "commit"}
Booting == Migrating \cup {"select", "finish"}
Alive == Booting \cup {"serving"}

BootPc(d) == IF d \in resets THEN "reset" ELSE "ledger"

Init ==
    /\ ledger = FALSE /\ applied = {} /\ present = {}
    /\ row = [r \in Runs |-> "none"]
    /\ pc = [d \in Deploys |-> "waiting"]
    /\ file = [d \in Deploys |-> 1]
    /\ tx = [d \in Deploys |-> 0]
    /\ todo = [d \in Deploys |-> {}]
    /\ tasks = [d \in Deploys |-> {}]
    /\ mode \in Modes /\ resets \in ResetPlans
    /\ active = 0
    /\ retries = [d \in Deploys |-> 0]
    /\ crashes = 0 /\ faults = 0 /\ wiped = {}

-----------------------------------------------------------------------------
(* A process ends: its open transaction is rolled back and its tasks are   *)
(* gone.  After an error or a crash the platform restarts it, as often as  *)
(* its policy allows.                                                      *)

Ends(d, to) ==
    /\ pc' = [pc EXCEPT ![d] = to]
    /\ tx' = [tx EXCEPT ![d] = 0]
    /\ todo' = [todo EXCEPT ![d] = {}]
    /\ tasks' = [tasks EXCEPT ![d] = {}]

(* Variant: without a limit. *)
Exits_Always(d) == Ends(d, "exited")
Exits(d) == Ends(d, IF retries[d] < MaxRetries THEN "exited" ELSE "failed")

(* An error in migrate leaves serve() by `?`. *)
BootFails(d) == Exits(d) /\ UNCHANGED <<file, row>>

Goto(d, to) == pc' = [pc EXCEPT ![d] = to] /\ UNCHANGED <<todo, tasks>>

-----------------------------------------------------------------------------
(* migrate: every statement waits for the locks of the transactions that   *)
(* other processes have open.                                              *)

(* DROP SCHEMA and CREATE SCHEMA, one implicit transaction. *)
Reset(d) ==
    /\ pc[d] = "reset"
    /\ \A e \in Deploys : tx[e] = 0
    /\ ledger' = FALSE /\ applied' = {} /\ present' = {}
    /\ row' = [r \in Runs |-> IF row[r] = "none" THEN "none" ELSE "gone"]
    /\ Goto(d, "ledger")
    /\ wiped' = Deploys
    /\ UNCHANGED <<file, tx, platformVars, retries, faults>>

(* CREATE TABLE IF NOT EXISTS schema_migrations *)
CreateLedger(d) ==
    /\ pc[d] = "ledger"
    /\ ledger' = TRUE
    /\ file' = [file EXCEPT ![d] = 1]
    /\ Goto(d, "check")
    /\ wiped' = wiped \ {d}
    /\ UNCHANGED <<applied, present, row, tx, platformVars, retries, faults>>

(* The next file, or the reclaim.  Variant: the last one is left out.      *)
AfterFile_Short(d) == IF file[d] + 1 < Files THEN "check" ELSE "select"
AfterFile(d) == IF file[d] < Files THEN "check" ELSE "select"
NextFile(d) ==
    /\ file' = [file EXCEPT ![d] = IF @ < Files THEN @ + 1 ELSE @]
    /\ Goto(d, AfterFile(d))

(* The files a check skips.  Variant: none. *)
Skipped_None == {}
Skipped == applied

Check(d) ==
    /\ pc[d] = "check"
    /\ \/ /\ ~ledger
          /\ BootFails(d)
       \/ /\ ledger /\ file[d] \in Skipped
          /\ NextFile(d)
          /\ UNCHANGED <<row, tx>>
       \/ /\ ledger /\ file[d] \notin Skipped
          /\ Goto(d, "ddl")
          /\ UNCHANGED <<file, row, tx>>
    /\ UNCHANGED <<ledger, applied, present, platformVars, wiped, retries, faults>>

(* What others see of the file while its transaction is open.  Variant:    *)
(* all of it, the statements run outside of the transaction.               *)
PresentEarly_Autocommit(d) == present \cup {file[d]}
PresentEarly(d) == present

(* The file's statements wait for another transaction that has created the *)
(* same tables, and fail if they exist or if one they refer to does not.   *)
Ddl(d) ==
    /\ pc[d] = "ddl"
    /\ \A e \in Deploys : tx[e] # file[d]
    /\ IF file[d] \notin present /\ Needs[file[d]] \subseteq present
       THEN /\ tx' = [tx EXCEPT ![d] = file[d]]
            /\ present' = PresentEarly(d)
            /\ Goto(d, "commit")
            /\ UNCHANGED <<file, row>>
       ELSE /\ BootFails(d)
            /\ UNCHANGED present
    /\ UNCHANGED <<ledger, applied, platformVars, wiped, retries, faults>>

(* The record is inserted in the same transaction, which then commits.     *)
Commit(d) ==
    /\ pc[d] = "commit"
    /\ IF ledger
       THEN /\ applied' = applied \cup {file[d]}
            /\ present' = present \cup {file[d]}
            /\ tx' = [tx EXCEPT ![d] = 0]
            /\ NextFile(d)
            /\ UNCHANGED row
       ELSE /\ BootFails(d)
            /\ UNCHANGED <<applied, present>>
    /\ UNCHANGED <<ledger, platformVars, wiped, retries, faults>>

-----------------------------------------------------------------------------
(* reclaim_orphaned_runs: the running rows are selected and then finished  *)
(* one after the other.                                                    *)

(* Variants: every row; none.                                              *)
Orphans_All == {r \in Runs : row[r] \in {"running", "completed", "failed"}}
Orphans_None == {}
Orphans == {r \in Runs : row[r] = "running"}

ReclaimSelect(d) ==
    /\ pc[d] = "select"
    /\ todo' = [todo EXCEPT ![d] = Orphans]
    /\ pc' = [pc EXCEPT ![d] = "finish"]
    /\ UNCHANGED <<dbVars, file, tx, tasks, platformVars, wiped, retries, faults>>

(* finish: an UPDATE without a condition on the status. *)
FinishRow(r, status) ==
    row' = IF row[r] = "gone" THEN row ELSE [row EXCEPT ![r] = status]

ReclaimFinish(d, r) ==
    /\ pc[d] = "finish" /\ r \in todo[d]
    /\ FinishRow(r, "failed")
    /\ todo' = [todo EXCEPT ![d] = @ \ {r}]
    /\ UNCHANGED <<ledger, applied, present, pc, file, tx, tasks, platformVars, wiped,
                   retries, faults>>

Serve(d) ==
    /\ pc[d] = "finish" /\ todo[d] = {}
    /\ Goto(d, "serving")
    /\ UNCHANGED <<dbVars, file, tx, platformVars, wiped, retries, faults>>

(* A boot statement fails: in migrate the process exits, in the reclaim    *)
(* the error is logged and the process serves.                             *)
StatementFails(d) ==
    /\ faults < MaxFaults
    /\ faults' = faults + 1
    /\ \/ pc[d] \in Migrating /\ BootFails(d)
       \/ /\ pc[d] = "select"
          /\ Goto(d, "serving")
          /\ UNCHANGED <<file, tx, row>>
       \/ /\ pc[d] = "finish"
          /\ \E r \in todo[d] : todo' = [todo EXCEPT ![d] = @ \ {r}]
          /\ UNCHANGED <<pc, file, tx, tasks, row>>
    /\ UNCHANGED <<ledger, applied, present, platformVars, wiped, retries>>

-----------------------------------------------------------------------------
(* Runs: a request reaches the active deployment; the task ends by itself. *)

Fire(d, r) ==
    /\ pc[d] = "serving" /\ d = active
    /\ row[r] = "none"
    /\ present = 1..Files
    /\ row' = [row EXCEPT ![r] = "running"]
    /\ tasks' = [tasks EXCEPT ![d] = @ \cup {r}]
    /\ UNCHANGED <<ledger, applied, present, pc, file, tx, todo, platformVars, wiped,
                   retries, faults>>

TaskEnds(d, r, status) ==
    /\ r \in tasks[d]
    /\ FinishRow(r, status)
    /\ tasks' = [tasks EXCEPT ![d] = @ \ {r}]
    /\ UNCHANGED <<ledger, applied, present, pc, file, tx, todo, platformVars, wiped,
                   retries, faults>>

-----------------------------------------------------------------------------
(* The platform.  A deployment is started beside the one it replaces, or   *)
(* when that one is stopped; once it serves, its health check answers, the *)
(* requests go to it, and the older ones are stopped.                      *)

Settled(d) == pc[d] \in {"serving", "stopped", "failed"}

Deploy(d) ==
    /\ pc[d] = "waiting"
    /\ \A e \in 1..(d-1) : IF mode = "overlap" THEN pc[e] # "waiting"
                                               ELSE pc[e] \in {"stopped", "failed"}
    /\ pc' = [pc EXCEPT ![d] = BootPc(d)]
    /\ UNCHANGED <<dbVars, file, tx, todo, tasks, platformVars, wiped, retries, faults>>

Promote(d) ==
    /\ pc[d] = "serving" /\ active < d
    /\ active' = d
    /\ UNCHANGED <<dbVars, pc, file, tx, todo, tasks, mode, resets, crashes, wiped, retries,
                   faults>>

Replaceable(d) ==
    IF mode = "overlap" THEN d < active
                        ELSE d < Last /\ pc[d + 1] = "waiting" /\ Settled(d)

Stop(d) ==
    /\ pc[d] \in Alive \cup {"exited"} /\ Replaceable(d)
    /\ Ends(d, "stopped")
    /\ UNCHANGED <<dbVars, file, platformVars, wiped, retries, faults>>

Crash(d) ==
    /\ pc[d] \in Alive
    /\ crashes < MaxCrashes
    /\ crashes' = crashes + 1
    /\ Exits(d)
    /\ UNCHANGED <<dbVars, file, mode, resets, active, wiped, retries, faults>>

Restart(d) ==
    /\ pc[d] = "exited"
    /\ retries' = [retries EXCEPT ![d] = @ + 1]
    /\ pc' = [pc EXCEPT ![d] = BootPc(d)]
    /\ UNCHANGED <<dbVars, file, tx, todo, tasks, platformVars, wiped, faults>>

-----------------------------------------------------------------------------
Boot(d) ==
    \/ Reset(d) \/ CreateLedger(d) \/ Check(d) \/ Ddl(d) \/ Commit(d)
    \/ ReclaimSelect(d) \/ Serve(d)
    \/ \E r \in Runs : ReclaimFinish(d, r)

Next ==
    \E d \in Deploys :
        \/ Boot(d) \/ StatementFails(d)
        \/ Deploy(d) \/ Promote(d) \/ Stop(d) \/ Crash(d) \/ Restart(d)
        \/ \E r \in Runs : \/ Fire(d, r)
                           \/ \E status \in {"completed", "failed"} : TaskEnds(d, r, status)

Spec == Init /\ [][Next]_vars

(***************************************************************************)
(* Fairness.  A process that boots goes on: Postgres answers, also a       *)
(* statement that waits for another transaction; the platform restarts a   *)
(* process that exited.  Requests, deployments and crashes are not forced. *)
(***************************************************************************)
Fairness == \A d \in Deploys : WF_vars(Boot(d)) /\ WF_vars(Restart(d))

FairSpec == Spec /\ Fairness

-----------------------------------------------------------------------------
(***************************************************************************)
(* Properties                                                              *)
(***************************************************************************)

(* Every variable stays in its type. *)
TypeOK ==
    /\ ledger \in BOOLEAN
    /\ applied \subseteq 1..Files /\ present \subseteq 1..Files
    /\ row \in [Runs -> {"none", "running", "completed", "failed", "gone"}]
    /\ pc \in [Deploys -> Alive \cup {"waiting", "exited", "stopped", "failed"}]
    /\ file \in [Deploys -> 1..Files]
    /\ tx \in [Deploys -> 0..Files]
    /\ todo \in [Deploys -> SUBSET Runs] /\ tasks \in [Deploys -> SUBSET Runs]
    /\ mode \in Modes /\ resets \in ResetPlans
    /\ active \in 0..Last
    /\ retries \in [Deploys -> 0..MaxRetries]
    /\ crashes \in 0..MaxCrashes /\ faults \in 0..MaxFaults /\ wiped \subseteq Deploys

(* A migration is recorded exactly if its tables exist, at every moment a  *)
(* process could look, whoever dies, collides or resets (db.rs:3-5).       *)
RecordedIffPresent == applied = present

(* A process that listens has every table it was built for, unless the     *)
(* schema was dropped under it: a reset before its own boot, the           *)
(* documented use of the flag, is no excuse.                               *)
ServesMigrated ==
    \A d \in Deploys : pc[d] = "serving" => present = 1..Files \/ d \in wiped

(* A running row has a task, or a process that will still reclaim it.      *)
Reclaiming(r) == \E d \in Deploys :
    pc[d] \in Migrating \cup {"select"} \/ r \in todo[d]
HasTask(r) == \E d \in Deploys : r \in tasks[d]

(* "Fail them loudly rather than leave zombies" (scheduler.rs:91-92): once *)
(* a process serves, no row is left running with neither.                  *)
NoZombieRow ==
    faults = 0 /\ (\E d \in Deploys : pc[d] = "serving") =>
        \A r \in Runs : row[r] = "running" => HasTask(r) \/ Reclaiming(r)

(* So it is when the old process is gone before the next one boots,        *)
(* however often processes crash, also during a reclaim.                   *)
OrphansReclaimed == mode = "stop_first" => NoZombieRow

(* Then a run's verdict also survives every restart: a reclaim never takes *)
(* a run that ended, or whose task is alive and may still end it.          *)
VerdictsSurvive ==
    [][mode = "stop_first" =>
          \A r \in Runs : row[r] \in {"completed", "failed"} =>
              row'[r] \in {row[r], "gone"}]_vars

(* Processes that boot at the same time fail on each other's tables, but   *)
(* each file can cost a deployment one boot only: with retries for every   *)
(* file and crash, it comes up or is replaced.                             *)
ComesUp ==
    resets = {} =>
        \A d \in Deploys : pc[d] \in Booting ~> pc[d] \in {"serving", "stopped"}

=============================================================================
