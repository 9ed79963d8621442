------------------------------ MODULE Scheduler ------------------------------
(***************************************************************************)
(* The life of a run on the control plane: the HTTP handler that fires it, *)
(* the tokio task that executes its stages, the abort handlers that race   *)
(* that task, the run-slot semaphore, and the boot-time reclaim after the  *)
(* process dies.  Sessions run in-process here (no machine connected);     *)
(* module Fleet models the remote side of the dispatch seam.               *)
(*                                                                         *)
(* One action is one awaited step of an actor together with the            *)
(* synchronous code that follows it up to the next await.  Every SQL       *)
(* statement takes a parameter "ok": a statement may fail while fewer than *)
(* MaxFaults faults have happened.                                         *)
(***************************************************************************)
EXTENDS Naturals, FiniteSets

CONSTANTS
    Runs,         \* run ids; each one is fired at most once (fresh uuid)
    Stages,       \* stages of the workflow's definition
    Cap,          \* config.max_concurrent_runs
    Handlers,     \* POST /api/runs/:id/abort requests
    Target,       \* the run each of them names
    Deliverers,   \* bound: sessions whose agents may deliver
    MaxFaults,    \* bound: failed statements and dropped handler futures
    MaxCrashes    \* bound: deaths of the control-plane process

ASSUME StagesAssumption == Stages \in Nat \ {0}
ASSUME CapAssumption == Cap \in Nat \ {0}
ASSUME RunsAssumption == IsFiniteSet(Runs)
ASSUME TargetAssumption == Target \in [Handlers -> Runs]
ASSUME BoundsAssumption == MaxFaults \in Nat /\ MaxCrashes \in Nat

VARIABLES
    (* Postgres: survives a crash *)
    runStatus,    \* runs.status, "none" before the INSERT
    sessStatus,   \* sessions.status
    delivered,    \* sessions with an artifact row or a declared reason
    audit,        \* events rows, as the set of kinds recorded for a run
    (* one control-plane process *)
    boot,         \* where serve() is: "sessions", "select", "finish", "serving"
    todo,         \* runs the reclaim selected and has not finished
    noted,        \* the run the reclaim finished and has not recorded yet
    fire,         \* program counter of the handler that fires a run
    task,         \* program counter of a run's tokio task
    stage,        \* index of the stage the task executes
    cancel,       \* AbortHandle::abort() seen by the task
    permits,      \* available permits of run_slots
    registry,     \* AppState.running
    feeds,        \* AppState.feeds
    procs,        \* sessions whose agent process group is alive
    calls,        \* sessions with an MCP delivery under way
    abort,        \* program counter of each abort handler
    (* environment *)
    faults, crashes,
    (* history *)
    launched      \* sessions ever handed to dispatch

dbVars == <<runStatus, sessStatus, delivered, audit>>
bootVars == <<boot, todo, noted>>
taskVars == <<task, stage, cancel>>
memVars == <<permits, registry, feeds, procs, calls>>
vars == <<dbVars, bootVars, fire, taskVars, memVars, abort, faults, crashes,
          launched>>

Sessions == Runs \X (1..Stages)

RunStatus == {"none", "running", "completed", "failed", "aborted"}
Terminal == {"completed", "failed", "aborted"}
SessStatus == {"none", "running", "completed", "failed"}
AuditKinds == {"run.started", "run.completed", "run.failed", "run.aborted",
               "session.started", "session.completed", "session.failed"}

(* Task steps at which the task owns a permit: all after acquire_run_slot. *)
Holding == {"insert", "note_started", "launch", "session", "settle_ok",
            "note_ok", "check", "settle_err", "note_err", "finish_ok",
            "finish_err", "record_ok", "record_err"}
Live == Holding \cup {"slot"}
TaskPc == Live \cup {"none", "done", "dead"}

Current(r) == <<r, stage[r]>>
SessionsOf(r) == {r} \X (1..Stages)
Holders == {r \in Runs : task[r] \in Holding}

(***************************************************************************)
(* One SQL statement: it succeeds, or it fails and uses up a fault.        *)
(***************************************************************************)
Statement(ok) ==
    /\ ok \/ faults < MaxFaults
    /\ faults' = IF ok THEN faults ELSE faults + 1

(* Variant: an event is only recorded while the run is still running. *)
Record_WhileRunning(r, kind, ok) ==
    audit' = IF ok /\ runStatus[r] = "running"
             THEN [audit EXCEPT ![r] = @ \cup {kind}] ELSE audit

(* events::record: a failed insert is logged and otherwise ignored. *)
Record(r, kind, ok) ==
    audit' = IF ok THEN [audit EXCEPT ![r] = @ \cup {kind}] ELSE audit

(* scheduler::finish: unconditional on the current status; errors logged. *)
FinishRun(r, status, ok) ==
    runStatus' = IF ok THEN [runStatus EXCEPT ![r] = status] ELSE runStatus

Init ==
    /\ runStatus = [r \in Runs |-> "none"]
    /\ sessStatus = [s \in Sessions |-> "none"]
    /\ delivered = {}
    /\ audit = [r \in Runs |-> {}]
    /\ boot = "serving" /\ todo = {} /\ noted = {}
    /\ fire = [r \in Runs |-> "idle"]
    /\ task = [r \in Runs |-> "none"]
    /\ stage = [r \in Runs |-> 1]
    /\ cancel = [r \in Runs |-> "no"]
    /\ permits = Cap
    /\ registry = {} /\ feeds = {} /\ procs = {} /\ calls = {}
    /\ abort = [h \in Handlers |-> "idle"]
    /\ faults = 0 /\ crashes = 0
    /\ launched = {}

-----------------------------------------------------------------------------
(* The fire handler: INSERT the run row, record, spawn the task, register. *)

FireInsert(r, ok) ==
    /\ boot = "serving"
    /\ fire[r] = "idle"
    /\ Statement(ok)
    /\ runStatus' = IF ok THEN [runStatus EXCEPT ![r] = "running"] ELSE runStatus
    /\ fire' = [fire EXCEPT ![r] = IF ok THEN "record" ELSE "done"]
    /\ UNCHANGED <<sessStatus, delivered, audit, bootVars, taskVars, memVars,
                   abort, crashes, launched>>

(* run.started is awaited; the spawn follows it in the same poll. *)
FireSpawn(r, ok) ==
    /\ fire[r] = "record"
    /\ Statement(ok)
    /\ Record(r, "run.started", ok)
    /\ task' = [task EXCEPT ![r] = "slot"]
    /\ fire' = [fire EXCEPT ![r] = "register"]
    /\ UNCHANGED <<runStatus, sessStatus, delivered, bootVars, stage, cancel,
                   memVars, abort, crashes, launched>>

(* The handle is inserted after the spawn: the task may already be running *)
(* on another worker thread, or may even have finished.                    *)
FireRegister(r) ==
    /\ fire[r] = "register"
    /\ registry' = registry \cup {r}
    /\ fire' = [fire EXCEPT ![r] = "done"]
    /\ UNCHANGED <<dbVars, bootVars, taskVars, permits, feeds, procs, calls,
                   abort, faults, crashes, launched>>

(* The client goes away while run.started is awaited: the server drops the *)
(* handler future and nobody spawns the task.                              *)
FireDropped(r) ==
    /\ fire[r] = "record"
    /\ faults < MaxFaults
    /\ faults' = faults + 1
    /\ fire' = [fire EXCEPT ![r] = "done"]
    /\ UNCHANGED <<dbVars, bootVars, taskVars, memVars, abort, crashes, launched>>

-----------------------------------------------------------------------------
(* Variant: the delivery check looks for the run's artifacts, not the      *)
(* session's.                                                              *)
Delivered_ByRun(r) == SessionsOf(r) \cap delivered # {}

(* Variant: it is made once, for the run as a whole, behind its last stage. *)
Delivered_Last(r) == stage[r] < Stages \/ Current(r) \in delivered

(* session_delivered: an artifact, or a declared reason for having none. *)
Delivered(r) == Current(r) \in delivered

(* Variants: a dropped task gives back a permit it may not have, or none. *)
PermitsAfterDrop_Always(r) == permits + 1
PermitsAfterDrop_Never(r) == permits

(* The permit goes back when the task that owns it is dropped. *)
PermitsAfterDrop(r) == IF task[r] \in Holding THEN permits + 1 ELSE permits

(* Variant: the agent outlives the task. *)
ProcsAfterDrop_NoKill(r) == procs

(* kill_on_drop: dropping the session future takes its agent down. *)
ProcsAfterDrop(r) == procs \ {Current(r)}

(* The run's task.  abort() takes effect at the task's next suspension:    *)
(* the statement in flight, or the one the running poll is about to issue, *)
(* still lands; so a cancelled task takes at most one more step.           *)

At(r, pc) == task[r] = pc /\ cancel[r] # "last"

Goto(r, pc) ==
    /\ task' = [task EXCEPT ![r] = pc]
    /\ cancel' = [cancel EXCEPT ![r] = IF @ = "asked" THEN "last" ELSE @]

TaskAcquire(r) ==
    /\ At(r, "slot")
    /\ permits > 0
    /\ permits' = permits - 1
    /\ Goto(r, "insert")
    /\ UNCHANGED <<dbVars, bootVars, fire, stage, registry, feeds, procs,
                   calls, abort, faults, crashes, launched>>

TaskInsertSession(r, ok) ==
    /\ At(r, "insert")
    /\ Statement(ok)
    /\ sessStatus' = IF ok THEN [sessStatus EXCEPT ![Current(r)] = "running"]
                           ELSE sessStatus
    /\ Goto(r, IF ok THEN "note_started" ELSE "finish_err")
    /\ UNCHANGED <<runStatus, delivered, audit, bootVars, fire, stage, memVars,
                   abort, crashes, launched>>

(* The session-level audit records and where the task goes after each; the *)
(* variant launches a failed session again.                                *)
NoteKind == [note_started |-> "session.started",
             note_ok |-> "session.completed",
             note_err |-> "session.failed"]
NoteNext_Retry == [note_started |-> "launch", note_ok |-> "check",
                   note_err |-> "launch"]
NoteNext == [note_started |-> "launch", note_ok |-> "check",
             note_err |-> "finish_err"]

TaskNote(r, pc, ok) ==
    /\ At(r, pc)
    /\ Statement(ok)
    /\ Record(r, NoteKind[pc], ok)
    /\ Goto(r, NoteNext[pc])
    /\ UNCHANGED <<runStatus, sessStatus, delivered, bootVars, fire, stage,
                   memVars, abort, crashes, launched>>

(* Credentials fail to load or decrypt: the error leaves run_agent_stage   *)
(* by `?`, past the code that settles the session row.                     *)
TaskCredentialsFail(r) ==
    /\ At(r, "launch")
    /\ Goto(r, "finish_err")
    /\ UNCHANGED <<dbVars, bootVars, fire, stage, memVars, abort, faults,
                   crashes, launched>>

(* Credentials, feed, dispatch to the in-process agent: its process group  *)
(* starts, or spawning fails and the feed is closed again.                 *)
TaskLaunch(r, spawned) ==
    /\ At(r, "launch")
    /\ launched' = launched \cup {Current(r)}
    /\ \/ /\ spawned
          /\ feeds' = feeds \cup {Current(r)}
          /\ procs' = procs \cup {Current(r)}
          /\ Goto(r, "session")
       \/ /\ ~spawned
          /\ Goto(r, "settle_err")
          /\ UNCHANGED <<feeds, procs>>
    /\ UNCHANGED <<dbVars, bootVars, fire, stage, permits, registry, calls, abort,
                   faults, crashes>>

(* The agent's stdout is closed: run_agent_session returns what the Result *)
(* event said, if there was one.                                           *)
TaskReapAgent(r, success) ==
    /\ At(r, "session")
    /\ Current(r) \notin procs
    /\ feeds' = feeds \ {Current(r)}
    /\ Goto(r, IF success THEN "settle_ok" ELSE "settle_err")
    /\ UNCHANGED <<dbVars, bootVars, fire, stage, permits, registry, procs,
                   calls, abort, faults, crashes, launched>>

(* The session row is settled with the outcome; a failed UPDATE is a `?`. *)
TaskSettleSession(r, pc, ok) ==
    /\ At(r, pc)
    /\ Statement(ok)
    /\ sessStatus' =
         IF ok THEN [sessStatus EXCEPT ![Current(r)] =
                        IF pc = "settle_ok" THEN "completed" ELSE "failed"]
               ELSE sessStatus
    /\ Goto(r, IF ~ok THEN "finish_err"
               ELSE IF pc = "settle_ok" THEN "note_ok" ELSE "note_err")
    /\ UNCHANGED <<runStatus, delivered, audit, bootVars, fire, stage, memVars,
                   abort, crashes, launched>>

(* session_delivered, then the next stage or the end of the loop. *)
TaskCheck(r, ok) ==
    /\ At(r, "check")
    /\ Statement(ok)
    /\ \/ /\ ok /\ Delivered(r) /\ stage[r] < Stages
          /\ stage' = [stage EXCEPT ![r] = @ + 1]
          /\ Goto(r, "insert")
       \/ /\ ok /\ Delivered(r) /\ stage[r] = Stages
          /\ Goto(r, "finish_ok")
          /\ UNCHANGED stage
       \/ /\ ~ok \/ ~Delivered(r)
          /\ Goto(r, "finish_err")
          /\ UNCHANGED stage
    /\ UNCHANGED <<dbVars, bootVars, fire, memVars, abort, crashes, launched>>

TaskFinish(r, pc, ok) ==
    /\ At(r, pc)
    /\ Statement(ok)
    /\ FinishRun(r, IF pc = "finish_ok" THEN "completed" ELSE "failed", ok)
    /\ Goto(r, IF pc = "finish_ok" THEN "record_ok" ELSE "record_err")
    /\ UNCHANGED <<sessStatus, delivered, audit, bootVars, fire, stage, memVars,
                   abort, crashes, launched>>

(* The last step: record, deregister, and drop the permit with the task. *)
TaskRecord(r, pc, ok) ==
    /\ At(r, pc)
    /\ Statement(ok)
    /\ Record(r, IF pc = "record_ok" THEN "run.completed" ELSE "run.failed", ok)
    /\ registry' = registry \ {r}
    /\ permits' = permits + 1
    /\ Goto(r, "done")
    /\ UNCHANGED <<runStatus, sessStatus, delivered, bootVars, fire, stage,
                   feeds, procs, calls, abort, crashes, launched>>

(* The runtime drops the cancelled task: kill_on_drop reaches the agent,   *)
(* the permit goes back, and the code after the await never runs.          *)
TaskDropped(r) ==
    /\ task[r] \in Live
    /\ cancel[r] # "no"
    /\ permits' = PermitsAfterDrop(r)
    /\ procs' = ProcsAfterDrop(r)
    /\ task' = [task EXCEPT ![r] = "dead"]
    /\ UNCHANGED <<dbVars, bootVars, fire, stage, cancel, registry, feeds,
                   calls, abort, faults, crashes, launched>>

(* The agent process calls emit_artifact or declare_no_output over MCP     *)
(* while it lives, and exits.  The call is a handler of its own: its token *)
(* has been looked up when the agent exits or is killed, and its row may   *)
(* land long after, or never.  (A second delivery changes nothing here.)   *)
AgentCalls(s) ==
    /\ s \in procs /\ s \in Deliverers \ delivered
    /\ calls' = calls \cup {s}
    /\ UNCHANGED <<dbVars, bootVars, fire, taskVars, permits, registry, feeds,
                   procs, abort, faults, crashes, launched>>

CallLands(s) ==
    /\ s \in calls
    /\ calls' = calls \ {s}
    /\ delivered' = delivered \cup {s}
    /\ UNCHANGED <<runStatus, sessStatus, audit, bootVars, fire, taskVars, permits,
                   registry, feeds, procs, abort, faults, crashes, launched>>

AgentExits(s) ==
    /\ s \in procs
    /\ procs' = procs \ {s}
    /\ UNCHANGED <<dbVars, bootVars, fire, taskVars, permits, registry, feeds,
                   calls, abort, faults, crashes, launched>>

-----------------------------------------------------------------------------
(* POST /api/runs/:id/abort.  A run that is not running is refused (404 or *)
(* 409) without a state change, so only the accepted lookup is an action.  *)

AbortStep(h, from, to) ==
    /\ abort[h] = from
    /\ abort' = [abort EXCEPT ![h] = to]

AbortLookup(h) ==
    /\ boot = "serving"
    /\ runStatus[Target[h]] = "running"
    /\ AbortStep(h, "idle", "kill")
    /\ UNCHANGED <<dbVars, bootVars, fire, taskVars, memVars, faults, crashes,
                   launched>>

(* Variant: only a task whose agent has started is cancelled. *)
CancelTask_Started(r) ==
    cancel' = [cancel EXCEPT ![r] =
                  IF task[r] = "session" /\ @ = "no" THEN "asked" ELSE @]

CancelTask(r) ==
    cancel' = [cancel EXCEPT ![r] =
                  IF task[r] \in Live /\ @ = "no" THEN "asked" ELSE @]

(* Take the handle, cancel the task, SIGKILL the session's process group. *)
AbortKill(h) ==
    LET r == Target[h] IN
    /\ AbortStep(h, "kill", "settle_run")
    /\ \/ /\ r \in registry
          /\ registry' = registry \ {r}
          /\ CancelTask(r)
          /\ procs' = procs \ SessionsOf(r)
       \/ /\ r \notin registry
          /\ UNCHANGED <<registry, cancel, procs>>
    /\ UNCHANGED <<dbVars, bootVars, fire, task, stage, permits, feeds, calls, faults,
                   crashes, launched>>

(* The run row; a failed UPDATE answers 500 and leaves the sessions alone. *)
AbortSettleRun(h, ok) ==
    /\ Statement(ok)
    /\ AbortStep(h, "settle_run", IF ok THEN "settle_sessions" ELSE "done")
    /\ FinishRun(Target[h], "aborted", ok)
    /\ UNCHANGED <<sessStatus, delivered, audit, bootVars, fire, taskVars,
                   memVars, crashes, launched>>

(* The sessions an abort settles; the variant takes the first stage's only. *)
Unsettled_First(r) == {s \in SessionsOf(r) : sessStatus[s] = "running" /\ s[2] = 1}
Unsettled(r) == {s \in SessionsOf(r) : sessStatus[s] = "running"}

AbortSettleSessions(h, ok) ==
    /\ Statement(ok)
    /\ AbortStep(h, "settle_sessions", "record")
    /\ sessStatus' = [s \in Sessions |->
          IF ok /\ s \in Unsettled(Target[h]) THEN "failed" ELSE sessStatus[s]]
    /\ UNCHANGED <<runStatus, delivered, audit, bootVars, fire, taskVars,
                   memVars, crashes, launched>>

AbortRecord(h, ok) ==
    /\ Statement(ok)
    /\ AbortStep(h, "record", "done")
    /\ Record(Target[h], "run.aborted", ok)
    /\ UNCHANGED <<runStatus, sessStatus, delivered, bootVars, fire, taskVars,
                   memVars, crashes, launched>>

(* The operator's client goes away between two of the handler's awaits. *)
AbortDropped(h) ==
    /\ abort[h] \notin {"idle", "done"}
    /\ faults < MaxFaults
    /\ faults' = faults + 1
    /\ abort' = [abort EXCEPT ![h] = "done"]
    /\ UNCHANGED <<dbVars, bootVars, fire, taskVars, memVars, crashes, launched>>

-----------------------------------------------------------------------------
(* The process dies (its container with it) and serve() starts over.       *)

Crash ==
    /\ crashes < MaxCrashes
    /\ crashes' = crashes + 1
    /\ boot' = "sessions" /\ todo' = {} /\ noted' = {}
    /\ fire' = [r \in Runs |-> IF fire[r] = "idle" THEN "idle" ELSE "done"]
    /\ task' = [r \in Runs |-> IF task[r] \in Live THEN "dead" ELSE task[r]]
    /\ cancel' = [r \in Runs |-> "no"]
    /\ permits' = Cap
    /\ registry' = {} /\ feeds' = {} /\ procs' = {} /\ calls' = {}
    /\ abort' = [h \in Handlers |-> IF abort[h] = "idle" THEN "idle" ELSE "done"]
    /\ UNCHANGED <<dbVars, stage, faults, launched>>

(* The rows the reclaim takes for orphans.  Variants: every run that ever  *)
(* started; only runs that have a running session.                         *)
Orphans_Unfiltered == {r \in Runs : runStatus[r] # "none"}
Orphans_WithSession == {r \in Runs : /\ runStatus[r] = "running"
                                     /\ Unsettled(r) # {}}
Orphans == {r \in Runs : runStatus[r] = "running"}

(* reclaim_orphaned_runs: an error is logged and the server serves anyway. *)
BootSessions(ok) ==
    /\ boot = "sessions"
    /\ Statement(ok)
    /\ sessStatus' = [s \in Sessions |->
          IF ok /\ sessStatus[s] = "running" THEN "failed" ELSE sessStatus[s]]
    /\ boot' = IF ok THEN "select" ELSE "serving"
    /\ UNCHANGED <<runStatus, delivered, audit, todo, noted, fire, taskVars,
                   memVars, abort, crashes, launched>>

BootSelect(ok) ==
    /\ boot = "select"
    /\ Statement(ok)
    /\ todo' = IF ok THEN Orphans ELSE {}
    /\ boot' = IF ok THEN "finish" ELSE "serving"
    /\ UNCHANGED <<dbVars, noted, fire, taskVars, memVars, abort, crashes,
                   launched>>

BootFinish(r, ok) ==
    /\ boot = "finish"
    /\ r \in todo /\ noted = {}
    /\ Statement(ok)
    /\ FinishRun(r, "failed", ok)
    /\ todo' = todo \ {r} /\ noted' = {r}
    /\ UNCHANGED <<sessStatus, delivered, audit, boot, fire, taskVars, memVars,
                   abort, crashes, launched>>

BootRecord(r, ok) ==
    /\ boot = "finish"
    /\ noted = {r}
    /\ Statement(ok)
    /\ Record(r, "run.failed", ok)
    /\ noted' = {}
    /\ UNCHANGED <<runStatus, sessStatus, delivered, boot, todo, fire, taskVars,
                   memVars, abort, crashes, launched>>

BootServe ==
    /\ boot = "finish"
    /\ todo = {} /\ noted = {}
    /\ boot' = "serving"
    /\ UNCHANGED <<dbVars, todo, noted, fire, taskVars, memVars, abort, faults,
                   crashes, launched>>

-----------------------------------------------------------------------------
Fire(r) ==
    \/ \E ok \in BOOLEAN : FireInsert(r, ok) \/ FireSpawn(r, ok)
    \/ FireRegister(r)
    \/ FireDropped(r)

(* What the task does of its own accord once it has been scheduled. *)
TaskStep(r) ==
    \/ \E ok \in BOOLEAN :
        \/ TaskInsertSession(r, ok)
        \/ \E pc \in {"note_started", "note_ok", "note_err"} : TaskNote(r, pc, ok)
        \/ TaskLaunch(r, ok)
        \/ TaskReapAgent(r, ok)
        \/ \E pc \in {"settle_ok", "settle_err"} : TaskSettleSession(r, pc, ok)
        \/ TaskCheck(r, ok)
        \/ \E pc \in {"finish_ok", "finish_err"} : TaskFinish(r, pc, ok)
        \/ \E pc \in {"record_ok", "record_err"} : TaskRecord(r, pc, ok)
    \/ TaskCredentialsFail(r)

AbortHandler(h) ==
    \/ AbortLookup(h)
    \/ AbortKill(h)
    \/ \E ok \in BOOLEAN :
        \/ AbortSettleRun(h, ok)
        \/ AbortSettleSessions(h, ok)
        \/ AbortRecord(h, ok)
    \/ AbortDropped(h)

Boot ==
    \/ \E ok \in BOOLEAN : BootSessions(ok) \/ BootSelect(ok)
    \/ \E r \in Runs, ok \in BOOLEAN : BootFinish(r, ok) \/ BootRecord(r, ok)
    \/ BootServe

Agent(s) == AgentCalls(s) \/ CallLands(s) \/ AgentExits(s)

Next ==
    \/ \E r \in Runs : Fire(r) \/ TaskAcquire(r) \/ TaskStep(r) \/ TaskDropped(r)
    \/ \E s \in Sessions : Agent(s)
    \/ \E h \in Handlers : AbortHandler(h)
    \/ Crash
    \/ Boot

Spec == Init /\ [][Next]_vars

(***************************************************************************)
(* Fairness.  The runtime polls every task and handler that can run, and   *)
(* drops every cancelled task; the boot sequence runs to its end.  The     *)
(* semaphore hands permits out in FIFO order, so a waiter that sees permits *)
(* become free again and again gets one: strong fairness.  That an agent   *)
(* exits is an assumption about the agent: no session has a deadline here. *)
(* Faults, crashes and abort requests are never forced.                    *)
(***************************************************************************)
FireProgress(r) == FireSpawn(r, TRUE) \/ FireRegister(r)
AbortProgress(h) ==
    \/ AbortKill(h) \/ AbortSettleRun(h, TRUE)
    \/ AbortSettleSessions(h, TRUE) \/ AbortRecord(h, TRUE)

Fairness ==
    /\ \A r \in Runs :
        /\ WF_vars(FireProgress(r))
        /\ SF_vars(TaskAcquire(r))
        /\ WF_vars(TaskStep(r) \/ TaskDropped(r))
    /\ \A s \in Sessions : WF_vars(AgentExits(s))
    /\ \A h \in Handlers : WF_vars(AbortProgress(h))
    /\ WF_vars(Boot)

FairSpec == Spec /\ Fairness

-----------------------------------------------------------------------------
(***************************************************************************)
(* Properties                                                              *)
(***************************************************************************)

(* Every variable stays in its type. *)
TypeOK ==
    /\ runStatus \in [Runs -> RunStatus]
    /\ sessStatus \in [Sessions -> SessStatus]
    /\ delivered \subseteq Sessions
    /\ audit \in [Runs -> SUBSET AuditKinds]
    /\ boot \in {"sessions", "select", "finish", "serving"}
    /\ todo \subseteq Runs /\ noted \subseteq Runs
    /\ fire \in [Runs -> {"idle", "record", "register", "done"}]
    /\ task \in [Runs -> TaskPc]
    /\ stage \in [Runs -> 1..Stages]
    /\ cancel \in [Runs -> {"no", "asked", "last"}]
    /\ permits \in 0..Cap
    /\ registry \subseteq Runs
    /\ feeds \subseteq Sessions /\ procs \subseteq Sessions
    /\ calls \subseteq Sessions
    /\ abort \in [Handlers -> {"idle", "kill", "settle_run", "settle_sessions",
                               "record", "done"}]
    /\ faults \in 0..MaxFaults /\ crashes \in 0..MaxCrashes
    /\ launched \subseteq Sessions

(* No permit is lost or duplicated, however tasks end: by returning, by    *)
(* being cancelled at any await, or with the process (state.rs:100-109).   *)
SlotAccounting == permits + Cardinality(Holders) = Cap

(* "the number of live sessions never exceeds config.max_concurrent_runs"  *)
(* (state.rs:56-59) for in-process sessions: a slot never goes back while  *)
(* the agent it stood for is alive.                                        *)
LiveWithinCap == Cardinality(procs) <= Cap

(* Somebody is still going to settle a running row: the handler that will  *)
(* spawn the task, the task, an abort in progress, or the boot reclaim.    *)
InCharge(r) ==
    \/ fire[r] = "record"
    \/ task[r] \in Live \ {"record_ok", "record_err"} /\ cancel[r] = "no"
    \/ \E h \in Handlers : Target[h] = r /\ abort[h] \in {"kill", "settle_run"}
    \/ boot \in {"sessions", "select"} \/ r \in todo

(* No zombie runs: unless a statement failed or a client dropped a handler *)
(* half way, no interleaving of fire, task, aborts and crashes leaves a    *)
(* row running with nobody to settle it (scheduler.rs:88-92).              *)
NoZombieRun ==
    faults = 0 => \A r \in Runs : runStatus[r] = "running" => InCharge(r)

(* Who will still settle the row of a session that was dispatched. *)
SessionInCharge(s) ==
    \/ task[s[1]] \in Live /\ stage[s[1]] = s[2] /\ cancel[s[1]] = "no"
    \/ \E h \in Handlers : /\ Target[h] = s[1]
                          /\ abort[h] \in {"kill", "settle_run", "settle_sessions"}
    \/ boot = "sessions"

(* No dispatched session is left running in the database either: the task  *)
(* settles it before it moves on, or the abort that cancelled the task or  *)
(* the reclaim does.  (Sessions that never reach dispatch do not have this *)
(* property: a credential failure returns past the settling UPDATE.)       *)
NoZombieSession ==
    faults = 0 => \A s \in launched : sessStatus[s] = "running" => SessionInCharge(s)

(* A completed run delivered in every stage (sessions.rs:356-359): no      *)
(* abort, crash or late row write turns an undelivered run into a          *)
(* completed one.                                                          *)
CompletedMeansDelivered ==
    \A r \in Runs : runStatus[r] = "completed" => SessionsOf(r) \subseteq delivered

(* A live task can be aborted: once fire has returned, the handle of every *)
(* uncancelled task is in the registry (state.rs:47-49).                   *)
LiveTaskAbortable ==
    \A r \in Runs : task[r] \in Live /\ cancel[r] = "no" /\ fire[r] = "done"
                      => r \in registry

(* The audit record does not lie about a verdict: as long as no statement  *)
(* fails, run.completed and run.failed are only said of a row that ended   *)
(* so, or that an abort has overwritten since, and never both of one run,  *)
(* although a task, its aborts and the reclaims of later processes write   *)
(* rows and events in statements of their own (events.rs:1-3).             *)
AuditTruthful ==
    faults = 0 => \A r \in Runs :
        /\ "run.completed" \in audit[r] =>
              runStatus[r] \in {"completed", "aborted"} /\ "run.failed" \notin audit[r]
        /\ "run.failed" \in audit[r] => runStatus[r] \in {"failed", "aborted"}

(* And it closes every run: with no lost statement and no crash, a settled *)
(* run whose task and abort handlers are gone has the event that says how  *)
(* its row ended.  One exception is left: an abort may drop the task       *)
(* between its last UPDATE and the event (scheduler.rs:51-58), and then    *)
(* run.aborted is all that is said of a row that completed or failed.      *)
EventOf == [completed |-> "run.completed", failed |-> "run.failed",
            aborted |-> "run.aborted"]

AuditCloses ==
    faults = 0 /\ crashes = 0 =>
        \A r \in Runs :
            /\ runStatus[r] \in Terminal
            /\ task[r] \notin Live
            /\ \A h \in Handlers : Target[h] = r => abort[h] \in {"idle", "done"}
            => \/ EventOf[runStatus[r]] \in audit[r]
               \/ task[r] = "dead" /\ "run.aborted" \in audit[r]

(* At-most-once (ADR 0030 D4): no row leaves a terminal status for         *)
(* running, and the scheduler's own verdicts, completed and failed, never  *)
(* replace each other: neither the reclaim after a crash nor a straggling  *)
(* task overturns one.                                                     *)
VerdictsAreFinal ==
    [][\A r \in Runs : runStatus[r] \in Terminal /\ runStatus'[r] # runStatus[r]
          => "aborted" \in {runStatus[r], runStatus'[r]} /\ runStatus'[r] \in Terminal
      ]_vars

(* At-most-once: a session is dispatched at most once, by a task that has  *)
(* a slot, and nothing is dispatched for a run the reclaim or the task     *)
(* itself has already failed or completed.                                 *)
DispatchedOnce ==
    [][\A s \in Sessions : s \in procs' \ procs =>
          /\ s \notin launched
          /\ runStatus[s[1]] \notin {"completed", "failed"}]_vars

(* Every row that says running stops saying so, however the run is raced   *)
(* by aborts and crashes, as long as agents exit and no statement fails.   *)
RunsSettle == \A r \in Runs : runStatus[r] = "running" ~> runStatus[r] \in Terminal

(* A task waiting for a slot gets it or goes away with an abort or a crash: *)
(* finished, failed and aborted tasks all give their slot back.            *)
WaitersProceed == \A r \in Runs : task[r] = "slot" ~> task[r] # "slot"

(* Whatever is raced by aborts, crashes and late rows, a run keeps the     *)
(* promise of RunContract: its stages are dispatched in order, once each,  *)
(* on what the earlier ones delivered, and completed is said of nothing    *)
(* less (scheduler.rs:133-158, sessions.rs:356-359, ADR 0030 D4).          *)
ContractSpec == INSTANCE RunContract WITH status <- runStatus, dispatched <- launched
Contract == ContractSpec!Spec

(* What the abort handler's comment says of an aborted run: its task is    *)
(* dead and the handler settles the rows "the dead task can no longer      *)
(* settle" (http/operate.rs:170-172, 240): aborted is the last word.       *)
AbortedStaysAborted ==
    [][\A r \in Runs : runStatus[r] = "aborted" => runStatus'[r] = "aborted"]_vars

(* "The stream ends when the session does (the scheduler drops the         *)
(* channel)" (http/operate.rs:72-73): no feed outlives its run's task.     *)
StreamEndsWithSession == \A s \in feeds : task[s[1]] \in Live

=============================================================================
