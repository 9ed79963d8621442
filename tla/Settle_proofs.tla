---------------------------- MODULE Settle_proofs ----------------------------
(***************************************************************************)
(* What the scheduler settles: no dispatched session is left running, and  *)
(* the audit record says how every run ended, and nothing else.  The       *)
(* invariant follows a session through its task (settled before the task   *)
(* moves on), through the abort that cancels the task (which may still be  *)
(* launching it), and into the reclaim; and every verdict, whoever wrote   *)
(* it, to the event of its own kind.                                       *)
(***************************************************************************)
EXTENDS Verdict_proofs

(* Past the settling UPDATE the session a task dispatched is not running. *)
SettledPc == {"note_ok", "note_err", "check", "finish_ok", "finish_err",
              "record_ok", "record_err"}
SettledBehind ==
    faults = 0 => \A r \in Runs : task[r] \in SettledPc /\ Current(r) \in launched
                      => sessStatus[Current(r)] # "running"

(* A cancelled task may still launch the session it had inserted: so an    *)
(* abort watches the running session of such a task, dispatched or not.    *)
Watched ==
    faults = 0 => \A s \in Sessions :
        sessStatus[s] = "running" /\ (s \in launched \/ cancel[s[1]] = "asked")
            => SessionInCharge(s)

(* An aborted row, or a cancelled task, has its event or a handler that is *)
(* about to record it.                                                     *)
AbortNoted(r) ==
    \/ "run.aborted" \in audit[r]
    \/ \E h \in Handlers : /\ Target[h] = r
                          /\ abort[h] \in {"settle_run", "settle_sessions", "record"}

(* A verdict of the task has its event or the task is about to record it,  *)
(* unless an abort has dropped the task since.                             *)
VerdictNoted(r, kind, pc) ==
    kind \in audit[r] \/ task[r] = pc \/ (task[r] = "dead" /\ cancel[r] # "no")

Noted(r) ==
    /\ runStatus[r] = "aborted" \/ cancel[r] # "no" => AbortNoted(r)
    /\ runStatus[r] = "completed" => VerdictNoted(r, "run.completed", "record_ok")
    /\ runStatus[r] = "failed" => VerdictNoted(r, "run.failed", "record_err")

VerdictsRecorded ==
    faults = 0 /\ crashes = 0 => boot = "serving" /\ \A r \in Runs : Noted(r)

(* An event that names a verdict was preceded by the UPDATE that wrote it, *)
(* and follows everything else the task or the reclaim does about the run. *)
Truth(r) ==
    /\ task[r] = "record_ok" => runStatus[r] \in {"completed", "aborted"}
    /\ task[r] = "record_err" => runStatus[r] \in {"failed", "aborted"}
    /\ r \in noted => boot = "finish" /\ runStatus[r] = "failed"
    /\ "run.completed" \in audit[r] =>
          runStatus[r] \in {"completed", "aborted"} /\ "run.failed" \notin audit[r]
    /\ "run.failed" \in audit[r] => runStatus[r] \in {"failed", "aborted"}
    /\ audit[r] \cap {"run.completed", "run.failed"} # {} =>
          task[r] \notin Live /\ fire[r] # "record"

Truthful == faults = 0 => \A r \in Runs : Truth(r)

SettleInv == RunInv /\ SettledBehind /\ Watched /\ VerdictsRecorded /\ Truthful

LEMMA SettleInvInit == Init => SettleInv
<1> SUFFICES ASSUME Init PROVE SettleInv
    OBVIOUS
<1>1. SettledBehind /\ Watched
    BY DEF Init, SettledBehind, SettledPc, Watched
<1>2. VerdictsRecorded
    BY DEF Init, VerdictsRecorded, Noted
<1>3. Truthful
    BY DEF Init, Truthful, Truth, Live, Holding
<1> QED
    BY <1>1, <1>2, <1>3, RunInvInit DEF SettleInv

-----------------------------------------------------------------------------
(* What each actor does to the session rows.                               *)

(* A task inserts its current session while that is still ahead, and       *)
(* writes nothing else but the outcome of the current session.             *)
LEMMA TaskSession ==
    ASSUME TypeOK, NEW r \in Runs, TaskAcquire(r) \/ TaskStep(r)
    PROVE  \/ sessStatus' = sessStatus
           \/ /\ task[r] = "insert" /\ launched' = launched
              /\ sessStatus' = [sessStatus EXCEPT ![Current(r)] = "running"]
           \/ \E status \in {"completed", "failed"} :
                sessStatus' = [sessStatus EXCEPT ![Current(r)] = status]
<1> QED
    BY DEF TaskAcquire, TaskStep, TaskInsertSession, TaskNote, TaskLaunch, TaskReapAgent,
        TaskSettleSession, TaskCheck, TaskFinish, TaskRecord, TaskCredentialsFail, At,
        dbVars

(* With no fault, a task passes from the steps before the settling UPDATE  *)
(* to those after it only by settling, or without having dispatched.       *)
LEMMA TaskSettles ==
    ASSUME TypeOK, NEW r \in Runs, TaskAcquire(r) \/ TaskStep(r), faults' = 0,
           task'[r] \in SettledPc, task[r] \notin SettledPc
    PROVE  /\ stage' = stage
           /\ \/ sessStatus'[Current(r)] # "running"
              \/ task[r] = "launch" /\ launched' = launched
<1>1. faults \in Nat /\ Current(r) \in Sessions
    BY BoundsAssumption DEF TypeOK, Current, Sessions
<1> USE <1>1 DEF At, Goto, SettledPc, TypeOK, Statement
<1>2. ASSUME NEW ok \in BOOLEAN, NEW pc \in {"note_started", "note_ok", "note_err"},
             TaskNote(r, pc, ok)
      PROVE  FALSE
    BY <1>2 DEF TaskNote, NoteNext
<1>3. ASSUME NEW ok \in BOOLEAN, NEW pc \in {"settle_ok", "settle_err"},
             TaskSettleSession(r, pc, ok)
      PROVE  stage' = stage /\ sessStatus'[Current(r)] # "running"
    BY <1>3 DEF TaskSettleSession
<1>4. ASSUME TaskCredentialsFail(r)
      PROVE  stage' = stage /\ task[r] = "launch" /\ launched' = launched
    BY <1>4 DEF TaskCredentialsFail
<1>5. ASSUME NEW ok \in BOOLEAN,
             \/ TaskAcquire(r) \/ TaskInsertSession(r, ok) \/ TaskLaunch(r, ok)
             \/ TaskReapAgent(r, ok)
      PROVE  FALSE
    BY <1>5 DEF TaskAcquire, TaskInsertSession, TaskLaunch, TaskReapAgent
<1>6. ASSUME NEW ok \in BOOLEAN,
             \/ TaskCheck(r, ok)
             \/ \E pc \in {"finish_ok", "finish_err"} : TaskFinish(r, pc, ok)
             \/ \E pc \in {"record_ok", "record_err"} : TaskRecord(r, pc, ok)
      PROVE  FALSE
    BY <1>6 DEF TaskCheck, TaskFinish, TaskRecord
<1> QED
    BY <1>2, <1>3, <1>4, <1>5, <1>6 DEF TaskStep

(* Among the steps past the settling UPDATE the task stays in its stage.   *)
LEMMA TaskSettled ==
    ASSUME TypeOK, NEW r \in Runs, TaskAcquire(r) \/ TaskStep(r),
           task[r] \in SettledPc, task'[r] \in SettledPc
    PROVE  stage' = stage
<1> QED
    BY DEF TaskAcquire, TaskStep, TaskInsertSession, TaskNote, TaskLaunch, TaskReapAgent,
        TaskSettleSession, TaskCheck, TaskFinish, TaskRecord, TaskCredentialsFail, At,
        Goto, SettledPc, TypeOK, taskVars

(* A task only leaves a stage, or ends, past the settling UPDATE.          *)
LEMMA TaskLeaves ==
    ASSUME TypeOK, NEW r \in Runs, TaskAcquire(r) \/ TaskStep(r),
           stage' # stage \/ task'[r] \notin Live
    PROVE  task[r] \in SettledPc
<1> USE DEF At, Goto, SettledPc, TypeOK, Live, Holding
<1>1. ASSUME NEW ok \in BOOLEAN, NEW pc \in {"note_started", "note_ok", "note_err"},
             TaskNote(r, pc, ok)
      PROVE  FALSE
    BY <1>1 DEF TaskNote, NoteNext
<1>2. ASSUME NEW ok \in BOOLEAN,
             \/ TaskAcquire(r) \/ TaskInsertSession(r, ok) \/ TaskLaunch(r, ok)
             \/ TaskReapAgent(r, ok) \/ TaskCredentialsFail(r)
      PROVE  FALSE
    BY <1>2
    DEF TaskAcquire, TaskInsertSession, TaskLaunch, TaskReapAgent, TaskCredentialsFail
<1>3. ASSUME NEW ok \in BOOLEAN, NEW pc \in {"settle_ok", "settle_err"},
             TaskSettleSession(r, pc, ok)
      PROVE  FALSE
    BY <1>3 DEF TaskSettleSession
<1>4. ASSUME NEW ok \in BOOLEAN,
             \/ TaskCheck(r, ok)
             \/ \E pc \in {"finish_ok", "finish_err"} : TaskFinish(r, pc, ok)
             \/ \E pc \in {"record_ok", "record_err"} : TaskRecord(r, pc, ok)
      PROVE  task[r] \in SettledPc
    BY <1>4 DEF TaskCheck, TaskFinish, TaskRecord
<1> QED
    BY <1>1, <1>2, <1>3, <1>4 DEF TaskStep

(* Everybody else only ever takes a session row out of "running".          *)
LEMMA OthersSettle ==
    ASSUME TypeOK, NEW s \in Sessions, sessStatus'[s] = "running",
           \/ \E q \in Runs : Fire(q) \/ TaskDropped(q)
           \/ \E a \in Sessions : Agent(a)
           \/ \E h \in Handlers : AbortHandler(h)
           \/ Crash \/ Boot
    PROVE  sessStatus[s] = "running" /\ launched' = launched
<1>1. ASSUME NEW q \in Runs, Fire(q) \/ TaskDropped(q)
      PROVE  sessStatus' = sessStatus /\ launched' = launched
    BY <1>1
    DEF Fire, FireInsert, FireSpawn, FireRegister, FireDropped, TaskDropped, dbVars
<1>2. ASSUME NEW a \in Sessions, Agent(a)
      PROVE  sessStatus' = sessStatus /\ launched' = launched
    BY <1>2 DEF Agent, AgentCalls, CallLands, AgentExits, dbVars
<1>3. ASSUME NEW h \in Handlers, AbortHandler(h)
      PROVE  sessStatus[s] = "running" /\ launched' = launched
    BY <1>3
    DEF AbortHandler, AbortLookup, AbortKill, AbortDropped, AbortSettleRun,
        AbortSettleSessions, AbortRecord, dbVars
<1>4. ASSUME Crash \/ Boot
      PROVE  sessStatus[s] = "running" /\ launched' = launched
    BY <1>4
    DEF Crash, Boot, BootSessions, BootSelect, BootFinish, BootRecord, BootServe, dbVars
<1> QED
    BY <1>1, <1>2, <1>3, <1>4

-----------------------------------------------------------------------------
LEMMA KeepSettled ==
    ASSUME TypeOK, Unspawned, FutureUnlaunched, SettledBehind, Next
    PROVE  SettledBehind'
<1> SUFFICES ASSUME faults' = 0, NEW r \in Runs, task'[r] \in SettledPc,
                    Current(r)' \in launched', sessStatus'[Current(r)'] = "running"
             PROVE  FALSE
    BY DEF SettledBehind
<1>0. /\ faults = 0 /\ Current(r) \in Sessions
      /\ \A q \in Runs \ {r} : Current(q) # Current(r)
    BY FaultsStay DEF TypeOK, Current, Sessions
<1>a. ~(task[r] \in SettledPc /\ Current(r) \in launched
          /\ sessStatus[Current(r)] = "running")
    BY <1>0 DEF SettledBehind
<1>1. ASSUME \/ \E q \in Runs : Fire(q) \/ TaskDropped(q)
             \/ \E a \in Sessions : Agent(a)
             \/ \E h \in Handlers : AbortHandler(h)
             \/ Crash \/ Boot
      PROVE  FALSE
    <2>1. task'[r] = task[r] /\ stage' = stage
        <3>1. ASSUME NEW q \in Runs, Fire(q) PROVE task'[r] = task[r] /\ stage' = stage
            BY <3>1
            DEF Fire, FireInsert, FireSpawn, FireRegister, FireDropped, taskVars, TypeOK,
                SettledPc
        <3>2. ASSUME NEW q \in Runs, TaskDropped(q)
              PROVE  task'[r] = task[r] /\ stage' = stage
            BY <3>2, DropFrame DEF TypeOK, SettledPc
        <3>3. ASSUME Crash PROVE task'[r] = task[r] /\ stage' = stage
            BY <3>3 DEF Crash, SettledPc
        <3> QED
            BY <1>1, <3>1, <3>2, <3>3, AgentFrame, AbortFrame, BootFrame
    <2> QED
        BY <1>0, <1>1, <1>a, <2>1, OthersSettle DEF Current
<1>2. ASSUME NEW q \in Runs, TaskAcquire(q) \/ TaskStep(q), q # r PROVE FALSE
    <2>1. task'[r] = task[r] /\ stage'[r] = stage[r]
        BY <1>2, TaskMoves, TaskStage DEF Moves, Goto, TypeOK
    <2>2. sessStatus'[Current(r)] = sessStatus[Current(r)]
        BY <1>0, <1>2, TaskSession DEF TypeOK
    <2>3. Current(r) \in launched
        BY <1>0, <1>2, <2>1, TaskLaunches DEF Current
    <2> QED
        BY <1>a, <2>1, <2>2, <2>3 DEF Current
<1>3. ASSUME TaskAcquire(r) \/ TaskStep(r) PROVE FALSE
    <2>1. CASE task[r] \in SettledPc
        <3>1. stage' = stage
            BY <1>3, <2>1, TaskSettled
        <3> QED
            BY <1>0, <1>3, <1>a, <2>1, <3>1, TaskSession, TaskLaunches
            DEF Current, TypeOK, SettledPc
    <2>2. CASE task[r] \notin SettledPc
        <3>1. /\ stage' = stage
              /\ task[r] = "launch" /\ launched' = launched
            BY <1>3, <2>2, TaskSettles DEF Current
        <3>2. Current(r) \notin launched
            BY <3>1 DEF FutureUnlaunched, Ahead, Current, TypeOK, Live, Holding
        <3> QED
            BY <3>1, <3>2 DEF Current
    <2> QED
        BY <2>1, <2>2
<1> QED
    BY <1>1, <1>2, <1>3 DEF Next

(* A running session passes from its task to the abort that cancels it, or *)
(* to the reclaim, and never out of sight.                                 *)
LEMMA KeepWatched ==
    ASSUME TypeOK, Unspawned, Unstarted, ReclaimAlone, FutureUnlaunched, SettledBehind,
           Watched, Next
    PROVE  Watched'
<1> SUFFICES ASSUME faults' = 0, NEW s \in Sessions, NEW r \in Runs,
                    NEW k \in 1..Stages, s = <<r, k>>, sessStatus'[s] = "running",
                    s \in launched' \/ cancel'[r] = "asked"
             PROVE  SessionInCharge(s)'
    BY DEF Watched, Sessions
<1>0. /\ faults = 0 /\ faults \in Nat /\ MaxFaults \in Nat
      /\ s[1] = r /\ s[2] = k
    BY FaultsStay, BoundsAssumption
<1>a. sessStatus[s] = "running" /\ (s \in launched \/ cancel[r] = "asked")
        => SessionInCharge(s)
    BY <1>0 DEF Watched
<1>1. ASSUME NEW q \in Runs, Fire(q) PROVE SessionInCharge(s)'
    <2>1. SessionInCharge(s)
        BY <1>1, <1>a, OthersSettle
        DEF Fire, FireInsert, FireSpawn, FireRegister, FireDropped, taskVars
    <2> QED
        BY <1>1, <2>1
        DEF Fire, FireInsert, FireSpawn, FireRegister, FireDropped, taskVars, bootVars,
            SessionInCharge, Unspawned, TypeOK, Live, Holding
<1>2. ASSUME NEW q \in Runs, TaskAcquire(q) \/ TaskStep(q), q # r
      PROVE  SessionInCharge(s)'
    <2>1. /\ task'[r] = task[r] /\ stage'[r] = stage[r] /\ cancel'[r] = cancel[r]
          /\ abort' = abort /\ boot' = boot
        BY <1>2, TaskMoves, TaskStage DEF Moves, Goto, TypeOK
    <2>2. sessStatus[s] = "running" /\ (s \in launched' => s \in launched)
        <3>1. Current(q) # s
            BY <1>2 DEF Current
        <3>2. sessStatus'[s] = sessStatus[s]
            BY <1>2, <3>1, TaskSession DEF TypeOK
        <3> QED
            BY <1>2, <3>1, <3>2, TaskLaunches
    <2> QED
        BY <1>a, <2>1, <2>2 DEF SessionInCharge
<1>3. ASSUME TaskAcquire(r) \/ TaskStep(r) PROVE SessionInCharge(s)'
    <2>1. /\ task[r] \in Live /\ abort' = abort /\ boot' = boot
          /\ cancel'[r] # "asked" /\ (cancel[r] = "no" => cancel'[r] = "no")
        BY <1>3, TaskMoves DEF Moves, Goto, TypeOK
    <2>2. sessStatus[s] = "running"
        <3>1. ASSUME task[r] = "insert", launched' = launched, s = Current(r) PROVE FALSE
            BY <1>0, <2>1, <3>1 DEF FutureUnlaunched, Ahead, Current, Live, Holding
        <3> QED
            BY <1>0, <1>3, <3>1, TaskSession DEF TypeOK
    <2>3. CASE s \in launched
        <3>1. SessionInCharge(s)
            BY <1>a, <2>2, <2>3
        <3>2. CASE task[r] \in SettledPc /\ s = Current(r)
            BY <1>0, <2>2, <2>3, <3>2 DEF SettledBehind
        <3>3. CASE ~(task[r] \in SettledPc /\ s = Current(r))
            BY <1>0, <1>3, <2>1, <3>1, <3>3, TaskLeaves DEF SessionInCharge, Current
        <3> QED
            BY <3>2, <3>3
    <2>4. CASE s \notin launched
        <3>1. s = Current(r) /\ task[r] = "launch"
            BY <1>3, <2>1, <2>4, TaskLaunches
        <3>2. stage' = stage /\ task'[r] \in Live
            BY <1>3, <3>1, TaskLeaves DEF SettledPc
        <3>3. CASE cancel[r] = "no"
            BY <2>1, <3>1, <3>2, <3>3 DEF SessionInCharge, Current
        <3>4. CASE cancel[r] # "no"
            <4>1. cancel[r] = "asked"
                BY <1>3, <3>4, TaskMoves DEF Moves, TypeOK
            <4> QED
                BY <1>a, <2>1, <2>2, <3>4, <4>1 DEF SessionInCharge
        <3> QED
            BY <3>3, <3>4
    <2> QED
        BY <2>3, <2>4
<1>4. ASSUME NEW q \in Runs, TaskDropped(q) PROVE SessionInCharge(s)'
    BY <1>4, <1>a, OthersSettle, DropFrame DEF SessionInCharge, TypeOK
<1>5. ASSUME NEW a \in Sessions, Agent(a) PROVE SessionInCharge(s)'
    BY <1>5, <1>a, OthersSettle, AgentFrame DEF SessionInCharge
<1>6. ASSUME NEW h \in Handlers, AbortHandler(h) PROVE SessionInCharge(s)'
    <2>0. sessStatus[s] = "running" /\ launched' = launched /\ Target[h] \in Runs
        BY <1>6, OthersSettle, TargetAssumption
    <2>1. ASSUME AbortLookup(h) PROVE SessionInCharge(s)'
        BY <1>a, <2>0, <2>1
        DEF AbortLookup, AbortStep, SessionInCharge, TypeOK, bootVars, taskVars
    <2>2. ASSUME AbortKill(h) PROVE SessionInCharge(s)'
        <3>1. CASE Target[h] = r
            BY <2>2, <3>1 DEF AbortKill, AbortStep, SessionInCharge, TypeOK
        <3>2. CASE Target[h] # r
            <4>1. cancel'[r] = cancel[r]
                BY <2>2, <3>2 DEF AbortKill, CancelTask, TypeOK
            <4> QED
                BY <1>a, <2>0, <2>2, <3>2, <4>1
                DEF AbortKill, AbortStep, SessionInCharge, TypeOK, bootVars
        <3> QED
            BY <3>1, <3>2
    <2>3. ASSUME NEW ok \in BOOLEAN, AbortSettleRun(h, ok) PROVE SessionInCharge(s)'
        <3>1. ok
            BY <1>0, <2>3 DEF AbortSettleRun, Statement
        <3> QED
            BY <1>a, <2>0, <2>3, <3>1
            DEF AbortSettleRun, AbortStep, SessionInCharge, TypeOK, bootVars, taskVars
    <2>4. ASSUME NEW ok \in BOOLEAN, AbortSettleSessions(h, ok) PROVE SessionInCharge(s)'
        <3>1. ok
            BY <1>0, <2>4 DEF AbortSettleSessions, Statement
        <3>2. Target[h] # r
            BY <1>0, <2>0, <2>4, <3>1 DEF AbortSettleSessions, Unsettled, SessionsOf
        <3> QED
            BY <1>a, <2>0, <2>4, <3>2
            DEF AbortSettleSessions, AbortStep, SessionInCharge, TypeOK, bootVars, taskVars
    <2>5. ASSUME NEW ok \in BOOLEAN, AbortRecord(h, ok) PROVE SessionInCharge(s)'
        BY <1>a, <2>0, <2>5
        DEF AbortRecord, AbortStep, SessionInCharge, TypeOK, bootVars, taskVars
    <2>6. ASSUME AbortDropped(h) PROVE SessionInCharge(s)'
        BY <1>0, <2>6 DEF AbortDropped
    <2> QED
        BY <1>6, <2>1, <2>2, <2>3, <2>4, <2>5, <2>6 DEF AbortHandler
<1>7. ASSUME Crash PROVE SessionInCharge(s)'
    BY <1>7 DEF Crash, SessionInCharge
<1>8. ASSUME Boot PROVE SessionInCharge(s)'
    <2>1. SessionInCharge(s)
        BY <1>8, <1>a, OthersSettle, BootFrame
    <2>2. ~\E ok \in BOOLEAN : BootSessions(ok)
        BY <1>0 DEF BootSessions, Statement
    <2> QED
        BY <1>8, <2>1, <2>2, BootFrame
        DEF Boot, BootSelect, BootFinish, BootRecord, BootServe, SessionInCharge
<1> QED
    BY <1>1, <1>2, <1>3, <1>4, <1>5, <1>6, <1>7, <1>8 DEF Next

-----------------------------------------------------------------------------
(* The audit record only grows.                                            *)
LEMMA AuditGrows ==
    ASSUME TypeOK, Next, NEW r \in Runs
    PROVE  audit[r] \subseteq audit'[r]
<1> USE DEF Record, TypeOK, dbVars
<1>1. ASSUME NEW q \in Runs, Fire(q) \/ TaskAcquire(q) \/ TaskDropped(q)
      PROVE  audit[r] \subseteq audit'[r]
    BY <1>1
    DEF Fire, FireInsert, FireSpawn, FireRegister, FireDropped, TaskAcquire, TaskDropped
<1>2. ASSUME NEW q \in Runs, TaskStep(q)
      PROVE  audit[r] \subseteq audit'[r]
    BY <1>2
    DEF TaskStep, TaskInsertSession, TaskNote, TaskLaunch, TaskReapAgent,
        TaskSettleSession, TaskCheck, TaskFinish, TaskRecord, TaskCredentialsFail
<1>3. ASSUME NEW h \in Handlers, AbortHandler(h)
      PROVE  audit[r] \subseteq audit'[r]
    BY <1>3
    DEF AbortHandler, AbortLookup, AbortKill, AbortDropped, AbortSettleRun,
        AbortSettleSessions, AbortRecord
<1>4. ASSUME Boot PROVE audit[r] \subseteq audit'[r]
    BY <1>4 DEF Boot, BootSessions, BootSelect, BootFinish, BootRecord, BootServe
<1> QED
    BY <1>1, <1>2, <1>3, <1>4 DEF Next, Agent, AgentCalls, CallLands, AgentExits, Crash

(* Without a crash so far the process has served from the start.           *)
LEMMA StillServing ==
    ASSUME TypeOK, VerdictsRecorded, Next, faults' = 0, crashes' = 0
    PROVE  crashes = 0 /\ boot = "serving" /\ boot' = "serving" /\ ~Crash /\ ~Boot
<1>1. crashes \in Nat
    BY BoundsAssumption DEF TypeOK
<1>2. ~Crash
    BY <1>1 DEF Crash
<1>3. crashes = 0 /\ (boot = "serving" => boot' = "serving")
    <2>1. ASSUME NEW q \in Runs, Fire(q) \/ TaskAcquire(q) \/ TaskDropped(q)
          PROVE  crashes' = crashes /\ boot' = boot
        BY <2>1
        DEF Fire, FireInsert, FireSpawn, FireRegister, FireDropped, TaskAcquire,
            TaskDropped, bootVars
    <2>2. ASSUME NEW q \in Runs, TaskStep(q) PROVE crashes' = crashes /\ boot' = boot
        BY <2>2
        DEF TaskStep, TaskInsertSession, TaskNote, TaskLaunch, TaskReapAgent,
            TaskSettleSession, TaskCheck, TaskFinish, TaskRecord, TaskCredentialsFail,
            bootVars
    <2>3. ASSUME NEW h \in Handlers, AbortHandler(h)
          PROVE  crashes' = crashes /\ boot' = boot
        BY <2>3
        DEF AbortHandler, AbortLookup, AbortKill, AbortDropped, AbortSettleRun,
            AbortSettleSessions, AbortRecord, bootVars
    <2>4. ASSUME NEW s \in Sessions, Agent(s) PROVE crashes' = crashes /\ boot' = boot
        BY <2>4 DEF Agent, AgentCalls, CallLands, AgentExits, bootVars
    <2>5. ASSUME Boot PROVE crashes' = crashes /\ boot # "serving"
        BY <2>5 DEF Boot, BootSessions, BootSelect, BootFinish, BootRecord, BootServe
    <2> QED
        BY <1>2, <2>1, <2>2, <2>3, <2>4, <2>5 DEF Next
<1>4. boot = "serving"
    BY <1>3, FaultsStay DEF VerdictsRecorded
<1> QED
    BY <1>2, <1>3, <1>4, BootFrame

(* With no fault, the finishing UPDATE and the event after it agree.       *)
LEMMA TaskRecords ==
    ASSUME TypeOK, NEW r \in Runs, TaskAcquire(r) \/ TaskStep(r), faults' = 0
    PROVE  /\ task[r] = "finish_ok" => runStatus'[r] = "completed" /\ task'[r] = "record_ok"
           /\ task[r] = "finish_err" => runStatus'[r] = "failed" /\ task'[r] = "record_err"
           /\ task[r] = "record_ok" => "run.completed" \in audit'[r]
           /\ task[r] = "record_err" => "run.failed" \in audit'[r]
<1>1. faults \in Nat
    BY BoundsAssumption DEF TypeOK
<1>2. ASSUME task[r] \in Recording
      PROVE  \E ok \in BOOLEAN, pc \in Recording : TaskRecord(r, pc, ok)
    BY <1>2
    DEF TaskAcquire, TaskStep, TaskInsertSession, TaskNote, TaskLaunch, TaskReapAgent,
        TaskSettleSession, TaskCheck, TaskFinish, TaskCredentialsFail, At, Recording
<1>3. ASSUME task[r] \in {"finish_ok", "finish_err"}
      PROVE  \E ok \in BOOLEAN, pc \in {"finish_ok", "finish_err"} : TaskFinish(r, pc, ok)
    BY <1>3
    DEF TaskAcquire, TaskStep, TaskInsertSession, TaskNote, TaskLaunch, TaskReapAgent,
        TaskSettleSession, TaskCheck, TaskRecord, TaskCredentialsFail, At
<1>4. CASE task[r] \in Recording
    BY <1>1, <1>2, <1>4 DEF TaskRecord, Statement, Record, TypeOK, Recording, At
<1>5. CASE task[r] \in {"finish_ok", "finish_err"}
    BY <1>1, <1>3, <1>5 DEF TaskFinish, FinishRun, Goto, Statement, TypeOK, At
<1> QED
    BY <1>4, <1>5 DEF Recording

(* Who adds a verdict to the record of a run: its task, and the reclaim.   *)
LEMMA VerdictEvents ==
    ASSUME TypeOK, Next, NEW r \in Runs, NEW kind \in {"run.completed", "run.failed"},
           kind \in audit'[r], kind \notin audit[r]
    PROVE  \/ /\ TaskStep(r)
              /\ task[r] = (IF kind = "run.completed" THEN "record_ok" ELSE "record_err")
           \/ Boot /\ kind = "run.failed" /\ noted = {r}
<1> USE DEF Record, TypeOK, dbVars
<1>1. ASSUME NEW q \in Runs, Fire(q) \/ TaskAcquire(q) \/ TaskDropped(q)
      PROVE  FALSE
    BY <1>1
    DEF Fire, FireInsert, FireSpawn, FireRegister, FireDropped, TaskAcquire, TaskDropped
<1>2. ASSUME NEW q \in Runs, TaskStep(q)
      PROVE  /\ q = r
             /\ task[r] = (IF kind = "run.completed" THEN "record_ok" ELSE "record_err")
    <2>1. ASSUME NEW ok \in BOOLEAN, NEW pc \in {"note_started", "note_ok", "note_err"},
                 TaskNote(q, pc, ok)
          PROVE  FALSE
        <3>1. NoteKind[pc] \notin {"run.completed", "run.failed"}
            BY DEF NoteKind
        <3> QED
            BY <2>1, <3>1 DEF TaskNote
    <2>2. ASSUME NEW ok \in BOOLEAN, NEW pc \in {"record_ok", "record_err"},
                 TaskRecord(q, pc, ok)
          PROVE  /\ q = r
                 /\ task[r] = (IF kind = "run.completed" THEN "record_ok"
                                                       ELSE "record_err")
        BY <2>2 DEF TaskRecord, At
    <2> QED
        BY <1>2, <2>1, <2>2
        DEF TaskStep, TaskInsertSession, TaskLaunch, TaskReapAgent, TaskSettleSession,
            TaskCheck, TaskFinish, TaskCredentialsFail
<1>3. ASSUME NEW h \in Handlers, AbortHandler(h)
      PROVE  FALSE
    BY <1>3
    DEF AbortHandler, AbortLookup, AbortKill, AbortDropped, AbortSettleRun,
        AbortSettleSessions, AbortRecord
<1>4. ASSUME Boot PROVE kind = "run.failed" /\ noted = {r}
    BY <1>4 DEF Boot, BootSessions, BootSelect, BootFinish, BootRecord, BootServe
<1> QED
    BY <1>1, <1>2, <1>3, <1>4 DEF Next, Agent, AgentCalls, CallLands, AgentExits, Crash

LEMMA KeepTruthful ==
    ASSUME TypeOK, FreshRuns, Unspawned, ReclaimAlone, ReclaimsRunning, Truthful, Next
    PROVE  Truthful'
<1> SUFFICES ASSUME faults' = 0, NEW r \in Runs
             PROVE  Truth(r)'
    BY DEF Truthful
<1>0. faults = 0 /\ faults \in Nat /\ Truth(r)
    BY FaultsStay, BoundsAssumption DEF TypeOK, Truthful
<1>a. audit[r] \subseteq audit'[r]
    BY AuditGrows
<1>1. ASSUME NEW q \in Runs, Fire(q) PROVE Truth(r)'
    <2>1. /\ noted' = noted /\ boot' = boot
          /\ "run.completed" \in audit'[r] => "run.completed" \in audit[r]
          /\ "run.failed" \in audit'[r] => "run.failed" \in audit[r]
        BY <1>1
        DEF Fire, FireInsert, FireSpawn, FireRegister, FireDropped, Record, TypeOK, dbVars,
            bootVars
    <2>2. CASE q # r
        <3>1. /\ runStatus'[r] = runStatus[r] /\ task'[r] = task[r]
              /\ fire'[r] = fire[r]
            BY <1>1, <2>2
            DEF Fire, FireInsert, FireSpawn, FireRegister, FireDropped, TypeOK, dbVars,
                taskVars
        <3> QED
            BY <1>0, <2>1, <3>1 DEF Truth
    <2>3. CASE q = r
        <3>1. ASSUME NEW ok \in BOOLEAN, FireInsert(r, ok) PROVE Truth(r)'
            BY <1>0, <2>1, <3>1
            DEF FireInsert, Truth, FreshRuns, Unspawned, TypeOK, taskVars, Live, Holding
        <3>2. ASSUME NEW ok \in BOOLEAN, FireSpawn(r, ok) PROVE Truth(r)'
            BY <1>0, <2>1, <3>2 DEF FireSpawn, Truth, TypeOK
        <3>3. ASSUME FireRegister(r) \/ FireDropped(r) PROVE Truth(r)'
            BY <1>0, <2>1, <3>3 DEF FireRegister, FireDropped, Truth, TypeOK, dbVars, taskVars
        <3> QED
            BY <1>1, <2>3, <3>1, <3>2, <3>3 DEF Fire
    <2> QED
        BY <2>2, <2>3
<1>2. ASSUME NEW q \in Runs, TaskAcquire(q) \/ TaskStep(q) PROVE Truth(r)'
    <2>0. boot = "serving" /\ ~Boot /\ ~Crash /\ noted' = noted /\ boot' = boot
        <3>1. task[q] \in Live
            BY <1>2, TaskMoves DEF Moves
        <3>2. boot = "serving"
            BY <3>1 DEF ReclaimAlone
        <3>3. noted' = noted /\ boot' = boot
            BY <1>2
            DEF TaskAcquire, TaskStep, TaskInsertSession, TaskNote, TaskLaunch,
                TaskReapAgent, TaskSettleSession, TaskCheck, TaskFinish, TaskRecord,
                TaskCredentialsFail, bootVars
        <3> QED
            BY <3>2, <3>3, BootFrame DEF Crash
    <2>1. CASE q # r
        <3>1. /\ task'[r] = task[r] /\ fire' = fire /\ runStatus'[r] = runStatus[r]
            BY <1>2, <2>1, TaskMoves, TaskVerdict DEF Moves, Goto, TypeOK
        <3>2. audit'[r] = audit[r]
            BY <1>2, <2>1
            DEF TaskAcquire, TaskStep, TaskInsertSession, TaskNote, TaskLaunch,
                TaskReapAgent, TaskSettleSession, TaskCheck, TaskFinish, TaskRecord,
                TaskCredentialsFail, Record, TypeOK, dbVars
        <3> QED
            BY <1>0, <2>0, <3>1, <3>2 DEF Truth
    <2>2. CASE q = r
        <3>1. fire' = fire /\ task[r] \in Live
            BY <1>2, <2>2, TaskMoves DEF Moves
        <3>2. r \notin noted /\ "run.completed" \notin audit[r] /\ "run.failed" \notin audit[r]
            BY <1>0, <2>0, <3>1 DEF Truth
        <3>3. CASE task[r] \in {"finish_ok", "finish_err"}
            BY <1>0, <1>2, <2>0, <2>2, <3>2, <3>3, TaskRecords, VerdictEvents DEF Truth
        <3>4. CASE task[r] \in Recording
            <4>1. task'[r] = "done" /\ runStatus' = runStatus
                BY <1>2, <2>2, <3>4, TaskMoves, TaskVerdict
                DEF Moves, Goto, TypeOK, Recording
            <4>2. task[r] = "record_ok" => "run.failed" \notin audit'[r]
                BY <2>0, <3>2, VerdictEvents
            <4>3. task[r] = "record_err" => "run.completed" \notin audit'[r]
                BY <2>0, <3>2, VerdictEvents
            <4>4. fire[r] # "record"
                BY <3>1 DEF Unspawned, Live, Holding
            <4> QED
                BY <1>0, <2>0, <3>1, <3>2, <3>4, <4>1, <4>2, <4>3, <4>4
                DEF Truth, Recording, Live, Holding
        <3>5. CASE task[r] \notin Recording \cup {"finish_ok", "finish_err"}
            <4>1. task'[r] \notin Recording
                BY <1>2, <2>2, <3>5, TaskMoves DEF Moves, Goto, TypeOK
            <4>2. "run.completed" \notin audit'[r] /\ "run.failed" \notin audit'[r]
                BY <2>0, <3>2, <3>5, VerdictEvents DEF Recording
            <4> QED
                BY <2>0, <3>2, <4>1, <4>2 DEF Truth, Recording
        <3> QED
            BY <3>3, <3>4, <3>5
    <2> QED
        BY <2>1, <2>2
<1>3. ASSUME NEW q \in Runs, TaskDropped(q) PROVE Truth(r)'
    <2>1. audit' = audit /\ noted' = noted
        BY <1>3 DEF TaskDropped, dbVars, bootVars
    <2>2. /\ runStatus' = runStatus /\ boot' = boot /\ fire' = fire
          /\ task'[r] = task[r] \/ task'[r] = "dead"
        BY <1>3, DropFrame DEF TypeOK
    <2> QED
        BY <1>0, <2>1, <2>2 DEF Truth, Live, Holding
<1>4. ASSUME NEW s \in Sessions, Agent(s) PROVE Truth(r)'
    <2>1. audit' = audit /\ noted' = noted
        BY <1>4 DEF Agent, AgentCalls, CallLands, AgentExits, dbVars, bootVars
    <2> QED
        BY <1>0, <1>4, <2>1, AgentFrame DEF Truth
<1>5. ASSUME NEW h \in Handlers, AbortHandler(h) PROVE Truth(r)'
    <2>1. /\ noted' = noted /\ boot' = boot /\ task' = task /\ fire' = fire
          /\ runStatus'[r] \in {runStatus[r], "aborted"}
        <3>1. noted' = noted
            BY <1>5
            DEF AbortHandler, AbortLookup, AbortKill, AbortDropped, AbortSettleRun,
                AbortSettleSessions, AbortRecord, bootVars
        <3> QED
            BY <1>5, <3>1, AbortFrame, TargetAssumption DEF TypeOK
    <2>2. /\ "run.completed" \in audit'[r] => "run.completed" \in audit[r]
          /\ "run.failed" \in audit'[r] => "run.failed" \in audit[r]
        BY <1>5
        DEF AbortHandler, AbortLookup, AbortKill, AbortDropped, AbortSettleRun,
            AbortSettleSessions, AbortRecord, Record, TypeOK, dbVars
    <2>3. r \in noted => runStatus' = runStatus
        <3>1. ASSUME r \in noted PROVE boot # "serving" /\ abort[h] \in {"idle", "done"}
            BY <1>0, <3>1 DEF Truth, ReclaimAlone
        <3> QED
            BY <1>5, <3>1, AbortFrame
    <2> QED
        BY <1>0, <2>1, <2>2, <2>3 DEF Truth
<1>6. ASSUME Crash PROVE Truth(r)'
    BY <1>0, <1>6 DEF Crash, Truth, TypeOK, dbVars, Live, Holding
<1>7. ASSUME Boot PROVE Truth(r)'
    <2>0. /\ task' = task /\ fire' = fire
          /\ task[r] \notin Live /\ fire[r] \in {"idle", "done"}
        BY <1>7, BootFrame DEF ReclaimAlone
    <2>1. ASSUME \/ \E ok \in BOOLEAN : BootSessions(ok) \/ BootSelect(ok)
                 \/ BootServe
          PROVE  Truth(r)'
        BY <1>0, <2>0, <2>1
        DEF BootSessions, BootSelect, BootServe, Truth, dbVars, Live, Holding
    <2>2. ASSUME NEW q \in Runs, NEW ok \in BOOLEAN, BootFinish(q, ok) PROVE Truth(r)'
        <3>1. ok /\ audit' = audit /\ noted' = {q} /\ boot' = "finish"
            BY <1>0, <2>2 DEF BootFinish, Statement
        <3>2. runStatus' = [runStatus EXCEPT ![q] = "failed"] /\ runStatus[q] = "running"
            BY <2>2, <3>1 DEF BootFinish, FinishRun, ReclaimsRunning
        <3> QED
            BY <1>0, <2>0, <3>1, <3>2 DEF Truth, TypeOK, Live, Holding
    <2>3. ASSUME NEW q \in Runs, NEW ok \in BOOLEAN, BootRecord(q, ok) PROVE Truth(r)'
        <3>1. /\ runStatus' = runStatus /\ noted' = {} /\ noted = {q}
              /\ q # r => audit'[r] = audit[r]
              /\ "run.completed" \in audit'[r] => "run.completed" \in audit[r]
            BY <2>3 DEF BootRecord, Record, TypeOK
        <3> QED
            BY <1>0, <2>0, <3>1 DEF Truth, Live, Holding
    <2> QED
        BY <1>7, <2>1, <2>2, <2>3 DEF Boot
<1> QED
    BY <1>1, <1>2, <1>3, <1>4, <1>5, <1>6, <1>7 DEF Next

LEMMA KeepRecorded ==
    ASSUME TypeOK, FreshRuns, Unspawned, Unstarted, VerdictsRecorded, Next
    PROVE  VerdictsRecorded'
<1> SUFFICES ASSUME faults' = 0, crashes' = 0, NEW r \in Runs
             PROVE  Noted(r)'
    BY StillServing DEF VerdictsRecorded
<1>0. faults = 0 /\ faults \in Nat /\ crashes = 0 /\ ~Crash /\ ~Boot
    BY FaultsStay, StillServing, BoundsAssumption DEF TypeOK
<1>a. Noted(r)
    BY <1>0 DEF VerdictsRecorded
<1>b. audit[r] \subseteq audit'[r]
    BY AuditGrows
<1>2. ASSUME NEW q \in Runs, Fire(q) PROVE Noted(r)'
    <2>1. /\ runStatus'[r] = runStatus[r] \/ runStatus'[r] = "running"
          /\ cancel' = cancel /\ abort' = abort
          /\ task'[r] = task[r] \/ task[r] = "none"
        BY <1>2
        DEF Fire, FireInsert, FireSpawn, FireRegister, FireDropped, dbVars, taskVars,
            TypeOK, Unspawned
    <2> QED
        BY <1>a, <1>b, <2>1 DEF Noted, AbortNoted, VerdictNoted
<1>3. ASSUME NEW q \in Runs, TaskAcquire(q) \/ TaskStep(q), q # r PROVE Noted(r)'
    <2>1. /\ task'[r] = task[r] /\ cancel'[r] = cancel[r] /\ abort' = abort
          /\ runStatus'[r] = runStatus[r]
        BY <1>3, TaskMoves, TaskVerdict DEF Moves, Goto, TypeOK
    <2> QED
        BY <1>a, <1>b, <2>1 DEF Noted, AbortNoted, VerdictNoted
<1>4. ASSUME TaskAcquire(r) \/ TaskStep(r) PROVE Noted(r)'
    <2>1. /\ abort' = abort /\ task[r] \in Live /\ task[r] # "dead"
          /\ cancel[r] = "no" => cancel'[r] = "no"
        BY <1>4, TaskMoves DEF Moves, Goto, TypeOK, Live, Holding
    <2>2. CASE task[r] \in {"finish_ok", "finish_err"}
        BY <1>4, <1>a, <1>b, <2>1, <2>2, TaskRecords DEF Noted, AbortNoted, VerdictNoted
    <2>3. CASE task[r] \notin {"finish_ok", "finish_err"}
        <3>1. runStatus' = runStatus
            BY <1>4, <2>3, TaskVerdict
        <3> QED
            BY <1>4, <1>a, <1>b, <2>1, <2>3, <3>1, TaskRecords
            DEF Noted, AbortNoted, VerdictNoted
    <2> QED
        BY <2>2, <2>3
<1>5. ASSUME NEW q \in Runs, TaskDropped(q) PROVE Noted(r)'
    <2>1. /\ runStatus' = runStatus /\ cancel' = cancel /\ abort' = abort
          /\ \/ task'[r] = task[r]
             \/ task'[r] = "dead" /\ cancel[r] # "no"
        BY <1>5, DropFrame DEF TypeOK
    <2> QED
        BY <1>a, <1>b, <2>1 DEF Noted, AbortNoted, VerdictNoted
<1>6. ASSUME NEW s \in Sessions, Agent(s) PROVE Noted(r)'
    BY <1>6, <1>a, <1>b, AgentFrame DEF Noted, AbortNoted, VerdictNoted
<1>7. ASSUME NEW h \in Handlers, AbortHandler(h) PROVE Noted(r)'
    <2>0. /\ task' = task /\ Target[h] \in Runs
          /\ runStatus'[r] \in {runStatus[r], "aborted"}
          /\ cancel[r] # "no" => cancel'[r] = cancel[r]
        BY <1>7, AbortFrame, TargetAssumption DEF CancelTask, TypeOK
    <2>1. SUFFICES ASSUME runStatus'[r] = "aborted" \/ cancel'[r] # "no"
                   PROVE  AbortNoted(r)'
        BY <1>a, <1>b, <2>0 DEF Noted, VerdictNoted
    <2>a. runStatus[r] = "aborted" \/ cancel[r] # "no" => AbortNoted(r)
        BY <1>a DEF Noted
    <2>2. ASSUME AbortLookup(h) PROVE AbortNoted(r)'
        BY <1>b, <2>1, <2>2, <2>a
        DEF AbortLookup, AbortStep, AbortNoted, TypeOK, dbVars, taskVars
    <2>3. ASSUME AbortKill(h) PROVE AbortNoted(r)'
        <3>1. CASE Target[h] = r
            BY <2>3, <3>1 DEF AbortKill, AbortStep, AbortNoted, TypeOK
        <3>2. CASE Target[h] # r
            <4>1. cancel'[r] = cancel[r] /\ runStatus' = runStatus
                BY <2>3, <3>2 DEF AbortKill, CancelTask, TypeOK, dbVars
            <4> QED
                BY <1>b, <2>1, <2>3, <2>a, <4>1
                DEF AbortKill, AbortStep, AbortNoted, TypeOK
        <3> QED
            BY <3>1, <3>2
    <2>4. ASSUME NEW ok \in BOOLEAN, AbortSettleRun(h, ok) PROVE AbortNoted(r)'
        <3>1. ok /\ cancel' = cancel
            BY <1>0, <2>4 DEF AbortSettleRun, Statement, taskVars
        <3>2. CASE Target[h] = r
            BY <2>4, <3>1, <3>2 DEF AbortSettleRun, AbortStep, AbortNoted, TypeOK
        <3>3. CASE Target[h] # r
            BY <1>b, <2>0, <2>1, <2>4, <2>a, <3>1, <3>3
            DEF AbortSettleRun, AbortStep, FinishRun, AbortNoted, TypeOK
        <3> QED
            BY <3>2, <3>3
    <2>5. ASSUME NEW ok \in BOOLEAN, AbortSettleSessions(h, ok) PROVE AbortNoted(r)'
        BY <1>b, <2>1, <2>5, <2>a
        DEF AbortSettleSessions, AbortStep, AbortNoted, TypeOK, taskVars
    <2>6. ASSUME NEW ok \in BOOLEAN, AbortRecord(h, ok) PROVE AbortNoted(r)'
        <3>1. ok /\ cancel' = cancel /\ runStatus' = runStatus
            BY <1>0, <2>6 DEF AbortRecord, Statement, taskVars
        <3>2. CASE Target[h] = r
            BY <2>6, <3>1, <3>2 DEF AbortRecord, Record, AbortNoted, TypeOK
        <3>3. CASE Target[h] # r
            BY <1>b, <2>1, <2>6, <2>a, <3>1, <3>3
            DEF AbortRecord, AbortStep, AbortNoted, TypeOK
        <3> QED
            BY <3>2, <3>3
    <2>7. ASSUME AbortDropped(h) PROVE AbortNoted(r)'
        BY <1>0, <2>7 DEF AbortDropped
    <2> QED
        BY <1>7, <2>2, <2>3, <2>4, <2>5, <2>6, <2>7 DEF AbortHandler
<1> QED
    BY <1>0, <1>2, <1>3, <1>4, <1>5, <1>6, <1>7 DEF Next

-----------------------------------------------------------------------------
LEMMA SettleInvStep == SettleInv /\ [Next]_vars => SettleInv'
<1> SUFFICES ASSUME SettleInv, [Next]_vars PROVE SettleInv'
    OBVIOUS
<1>1. RunInv'
    BY RunInvStep DEF SettleInv
<1>2. CASE Next
    <2>1. /\ TypeOK /\ Unspawned /\ Unstarted /\ FutureUnlaunched /\ FreshRuns
          /\ ReclaimAlone /\ ReclaimsRunning
        BY DEF SettleInv, RunInv, SlotInv
    <2>2. SettledBehind' /\ Watched' /\ VerdictsRecorded' /\ Truthful'
        BY <1>2, <2>1, KeepSettled, KeepWatched, KeepRecorded, KeepTruthful DEF SettleInv
    <2> QED
        BY <1>1, <2>2 DEF SettleInv
<1>3. CASE UNCHANGED vars
    <2> USE <1>3 DEF SettleInv, vars, dbVars, bootVars, taskVars, memVars
    <2>1. SettledBehind' /\ Watched'
        BY DEF SettledBehind, Watched, SessionInCharge, Current
    <2>2. VerdictsRecorded'
        BY DEF VerdictsRecorded, Noted, AbortNoted, VerdictNoted
    <2>3. Truthful'
        BY DEF Truthful, Truth
    <2> QED
        BY <1>1, <2>1, <2>2, <2>3
<1> QED
    BY <1>2, <1>3

LEMMA SettleInvAlways == Spec => []SettleInv
BY SettleInvInit, SettleInvStep, PTL DEF Spec

(* While no statement fails and no handler is dropped, a dispatched        *)
(* session whose row says running has somebody who will settle it.         *)
THEOREM NoZombieSessions == Spec => []NoZombieSession
<1>1. SettleInv => NoZombieSession
    BY DEF SettleInv, Watched, NoZombieSession, RunInv, SlotInv, TypeOK
<1> QED
    BY <1>1, SettleInvAlways, PTL

(* As long as no statement fails, and through any number of crashes and    *)
(* reclaims, run.completed and run.failed are only said of a row that      *)
(* ended so or was aborted since, and never both of one run.               *)
THEOREM AuditsTruthful == Spec => []AuditTruthful
<1>1. SettleInv => AuditTruthful
    BY DEF SettleInv, Truthful, Truth, AuditTruthful
<1> QED
    BY <1>1, SettleInvAlways, PTL

(* In a process that lost no statement and did not die, the audit record   *)
(* has, of every settled run, the event that says how its row ended        *)
(* (events.rs:1-3), or run.aborted if an abort dropped the task between    *)
(* its last UPDATE and that event.                                         *)
THEOREM AuditsClose == Spec => []AuditCloses
<1>1. SettleInv => AuditCloses
    <2> SUFFICES ASSUME SettleInv, faults = 0, crashes = 0, NEW r \in Runs,
                        runStatus[r] \in Terminal, task[r] \notin Live,
                        \A h \in Handlers :
                            Target[h] = r => abort[h] \in {"idle", "done"}
                 PROVE  \/ EventOf[runStatus[r]] \in audit[r]
                        \/ task[r] = "dead" /\ "run.aborted" \in audit[r]
        BY DEF AuditCloses
    <2>1. /\ EventOf["completed"] = "run.completed" /\ EventOf["failed"] = "run.failed"
          /\ EventOf["aborted"] = "run.aborted"
        BY DEF EventOf
    <2>2. Noted(r)
        BY DEF SettleInv, VerdictsRecorded
    <2> QED
        BY <2>1, <2>2 DEF Noted, AbortNoted, VerdictNoted, Terminal, Live, Holding
<1> QED
    BY <1>1, SettleInvAlways, PTL

=============================================================================
