----------------------------- MODULE Verdict_proofs -----------------------------
(***************************************************************************)
(* What the scheduler promises about verdicts, for any number of runs,     *)
(* stages, slots, abort requests, faults and crashes: a row that says      *)
(* running has somebody in charge, a verdict is final, a session is        *)
(* dispatched at most once, a completed run delivered in every stage, and  *)
(* a live task can be aborted.  RunInv strengthens SlotInv by what these   *)
(* rest on: which rows a new process can find, that it is alone while it   *)
(* reclaims them, and what a task has behind it and before it.             *)
(*                                                                         *)
(* The second half: Scheduler implements RunContract, and how far the two  *)
(* comments hold that the abort falsifies - which streams outlive their    *)
(* session, and who overrules an abort.                                    *)
(***************************************************************************)
EXTENDS Scheduler_proofs

-----------------------------------------------------------------------------
(* The invariant.                                                          *)

Recording == {"record_ok", "record_err"}

(* A run that has not been fired has no row, and nobody aborts it. *)
FreshRuns ==
    \A r \in Runs : fire[r] = "idle" =>
        /\ runStatus[r] = "none"
        /\ \A h \in Handlers : Target[h] = r => abort[h] \in {"idle", "done"}

(* While a run can still be spawned, or its task has not written its       *)
(* verdict, nobody has written completed or failed.                        *)
Undecided ==
    \A r \in Runs :
        \/ fire[r] = "record"
        \/ task[r] \in Live \ Recording
        => runStatus[r] \notin {"completed", "failed"}

(* Before it serves, a process is alone: what was under way died with the  *)
(* one before.                                                             *)
ReclaimAlone ==
    boot # "serving" =>
        /\ \A r \in Runs : task[r] \notin Live /\ fire[r] \in {"idle", "done"}
        /\ \A h \in Handlers : abort[h] \in {"idle", "done"}

(* The reclaim has work only between its SELECT and its last UPDATE, and   *)
(* the rows it selected still say running.                                 *)
ReclaimsRunning ==
    /\ boot # "finish" => todo = {}
    /\ \A r \in todo : runStatus[r] = "running"

(* A run without a task is at its first stage, and nothing was cancelled.  *)
Unstarted == \A r \in Runs : task[r] = "none" => stage[r] = 1 /\ cancel[r] = "no"

(* What a task has behind it was delivered, ... *)
PastDelivered ==
    \A r \in Runs :
        /\ task[r] \in Live =>
              \A k \in 1..Stages : k < stage[r] => <<r, k>> \in delivered
        /\ task[r] = "finish_ok" => SessionsOf(r) \subseteq delivered

(* ... and what it has before it was not dispatched. *)
Ahead(r) ==
    {k \in 1..Stages :
        \/ k > stage[r]
        \/ k = stage[r] /\ task[r] \in {"none", "slot", "insert", "note_started", "launch"}}
FutureUnlaunched ==
    \A r \in Runs : task[r] \in Live \cup {"none"} =>
        \A k \in Ahead(r) : <<r, k>> \notin launched

RunInv ==
    /\ SlotInv
    /\ FreshRuns /\ Undecided /\ ReclaimAlone /\ ReclaimsRunning /\ Unstarted
    /\ PastDelivered /\ FutureUnlaunched
    /\ CompletedMeansDelivered /\ LiveTaskAbortable /\ NoZombieRun

LEMMA RunInvInit == Init => RunInv
<1> SUFFICES ASSUME Init PROVE RunInv
    OBVIOUS
<1>1. SlotInv
    BY SlotInvInit
<1>2. FreshRuns /\ Undecided /\ ReclaimAlone /\ ReclaimsRunning /\ Unstarted
    BY DEF Init, FreshRuns, Undecided, ReclaimAlone, ReclaimsRunning, Unstarted, Live,
        Holding
<1>3. PastDelivered /\ FutureUnlaunched
    BY DEF Init, PastDelivered, FutureUnlaunched, Live, Holding
<1>4. CompletedMeansDelivered /\ LiveTaskAbortable /\ NoZombieRun
    BY DEF Init, CompletedMeansDelivered, LiveTaskAbortable, NoZombieRun, Live, Holding
<1> QED
    BY <1>1, <1>2, <1>3, <1>4 DEF RunInv

-----------------------------------------------------------------------------
(* What each actor leaves alone.                                           *)

(* A task step goes from one live place to the next, or from the audit     *)
(* record of its verdict to the end.                                       *)
Moves(r) ==
    /\ task[r] \in Live /\ cancel[r] # "last"
    /\ \E pc \in Live \cup {"done"} :
         /\ Goto(r, pc)
         /\ pc = "done" <=> task[r] \in Recording
         /\ pc \in Recording <=> task[r] \in {"finish_ok", "finish_err"}
    /\ fire' = fire /\ boot' = boot /\ todo' = todo /\ abort' = abort
    /\ delivered' = delivered

LEMMA TaskMoves ==
    ASSUME NEW r \in Runs, TaskAcquire(r) \/ TaskStep(r)
    PROVE  Moves(r)
<1> USE DEF At, dbVars, bootVars, Live, Holding, Recording, Moves
<1>1. ASSUME TaskAcquire(r) PROVE Moves(r)
    BY <1>1 DEF TaskAcquire
<1>2. ASSUME NEW ok \in BOOLEAN, TaskInsertSession(r, ok) PROVE Moves(r)
    BY <1>2 DEF TaskInsertSession
<1>3. ASSUME NEW ok \in BOOLEAN, NEW pc \in {"note_started", "note_ok", "note_err"},
             TaskNote(r, pc, ok)
      PROVE  Moves(r)
    <2>1. NoteNext[pc] \in {"launch", "check", "finish_err"}
        BY DEF NoteNext
    <2> QED
        BY <1>3, <2>1 DEF TaskNote
<1>4. ASSUME NEW ok \in BOOLEAN, TaskLaunch(r, ok) PROVE Moves(r)
    BY <1>4 DEF TaskLaunch
<1>5. ASSUME NEW ok \in BOOLEAN, TaskReapAgent(r, ok) PROVE Moves(r)
    BY <1>5 DEF TaskReapAgent
<1>6. ASSUME NEW ok \in BOOLEAN, NEW pc \in {"settle_ok", "settle_err"},
             TaskSettleSession(r, pc, ok)
      PROVE  Moves(r)
    BY <1>6 DEF TaskSettleSession
<1>7. ASSUME NEW ok \in BOOLEAN, TaskCheck(r, ok) PROVE Moves(r)
    BY <1>7 DEF TaskCheck
<1>8. ASSUME NEW ok \in BOOLEAN, NEW pc \in {"finish_ok", "finish_err"},
             TaskFinish(r, pc, ok)
      PROVE  Moves(r)
    BY <1>8 DEF TaskFinish
<1>9. ASSUME NEW ok \in BOOLEAN, NEW pc \in {"record_ok", "record_err"},
             TaskRecord(r, pc, ok)
      PROVE  Moves(r)
    BY <1>9 DEF TaskRecord
<1>10. ASSUME TaskCredentialsFail(r) PROVE Moves(r)
    BY <1>10 DEF TaskCredentialsFail
<1> QED
    BY <1>1, <1>2, <1>3, <1>4, <1>5, <1>6, <1>7, <1>8, <1>9, <1>10 DEF TaskStep

(* Only the finishing UPDATE touches the run row; if it succeeds it says   *)
(* what the task decided.                                                  *)
LEMMA TaskVerdict ==
    ASSUME NEW r \in Runs, TaskAcquire(r) \/ TaskStep(r)
    PROVE  \/ runStatus' = runStatus
           \/ /\ task[r] = "finish_ok"
              /\ runStatus' = [runStatus EXCEPT ![r] = "completed"]
           \/ /\ task[r] = "finish_err"
              /\ runStatus' = [runStatus EXCEPT ![r] = "failed"]
<1> QED
    BY DEF TaskAcquire, TaskStep, TaskInsertSession, TaskNote, TaskLaunch, TaskReapAgent,
        TaskSettleSession, TaskCheck, TaskFinish, TaskRecord, TaskCredentialsFail,
        FinishRun, At, dbVars

(* If no statement fails, the finishing UPDATE does write a verdict.       *)
LEMMA TaskFinishes ==
    ASSUME TypeOK, NEW r \in Runs, TaskAcquire(r) \/ TaskStep(r),
           task[r] \in {"finish_ok", "finish_err"}, faults' = 0
    PROVE  runStatus'[r] # "running"
<1>1. \E ok \in BOOLEAN, pc \in {"finish_ok", "finish_err"} : TaskFinish(r, pc, ok)
    BY DEF TaskAcquire, TaskStep, TaskInsertSession, TaskNote, TaskLaunch, TaskReapAgent,
        TaskSettleSession, TaskCheck, TaskRecord, TaskCredentialsFail, At
<1> QED
    BY <1>1, BoundsAssumption DEF TaskFinish, FinishRun, Statement, TypeOK

(* The stage only grows, past a stage that delivered.                      *)
LEMMA TaskStage ==
    ASSUME TypeOK, NEW r \in Runs, TaskAcquire(r) \/ TaskStep(r)
    PROVE  \/ stage' = stage
           \/ /\ stage' = [stage EXCEPT ![r] = @ + 1]
              /\ Current(r) \in delivered
<1> QED
    BY DEF TaskAcquire, TaskStep, TaskInsertSession, TaskNote, TaskLaunch, TaskReapAgent,
        TaskSettleSession, TaskCheck, TaskFinish, TaskRecord, TaskCredentialsFail,
        Delivered, At

LEMMA DropFrame ==
    ASSUME TypeOK, NEW r \in Runs, TaskDropped(r)
    PROVE  /\ task[r] \in Live /\ cancel[r] # "no"
           /\ task' = [task EXCEPT ![r] = "dead"]
           /\ "dead" \notin Live \cup {"none"}
           /\ runStatus' = runStatus /\ delivered' = delivered /\ launched' = launched
           /\ boot' = boot /\ todo' = todo /\ fire' = fire /\ stage' = stage
           /\ cancel' = cancel /\ registry' = registry /\ abort' = abort
BY DEF TaskDropped, dbVars, bootVars, Live, Holding

LEMMA AgentFrame ==
    ASSUME NEW s \in Sessions, Agent(s)
    PROVE  /\ runStatus' = runStatus /\ launched' = launched
           /\ boot' = boot /\ todo' = todo /\ fire' = fire
           /\ task' = task /\ stage' = stage /\ cancel' = cancel
           /\ registry' = registry /\ abort' = abort /\ procs' \subseteq procs
           /\ delivered \subseteq delivered'
BY DEF Agent, AgentCalls, CallLands, AgentExits, dbVars, bootVars, taskVars, memVars

(* An abort writes one verdict, and cancels what its handle is for.        *)
LEMMA AbortFrame ==
    ASSUME NEW h \in Handlers, AbortHandler(h)
    PROVE  /\ \/ runStatus' = runStatus
              \/ runStatus' = [runStatus EXCEPT ![Target[h]] = "aborted"]
           /\ \/ registry' = registry /\ cancel' = cancel
              \/ registry' = registry \ {Target[h]} /\ CancelTask(Target[h])
           /\ delivered' = delivered /\ launched' = launched
           /\ boot' = boot /\ todo' = todo /\ fire' = fire
           /\ task' = task /\ stage' = stage /\ procs' \subseteq procs
           /\ abort[h] \in {"idle", "done"} =>
                 boot = "serving" /\ runStatus[Target[h]] = "running"
           /\ \E pc : abort' = [abort EXCEPT ![h] = pc]
<1> USE DEF AbortStep, dbVars, bootVars, taskVars, memVars
<1> QED
    BY DEF AbortHandler, AbortLookup, AbortKill, AbortDropped, AbortSettleRun,
        AbortSettleSessions, AbortRecord, FinishRun

LEMMA BootFrame ==
    ASSUME TypeOK, Boot
    PROVE  /\ boot # "serving"
           /\ \/ runStatus' = runStatus
              \/ \E r \in todo : /\ runStatus' = [runStatus EXCEPT ![r] = "failed"]
                               /\ todo' = todo \ {r}
           /\ delivered' = delivered /\ launched' = launched
           /\ fire' = fire /\ task' = task /\ stage' = stage /\ cancel' = cancel
           /\ registry' = registry /\ abort' = abort /\ procs' = procs
BY DEF Boot, BootSessions, BootSelect, BootFinish, BootRecord, BootServe, FinishRun,
    dbVars, taskVars, memVars

-----------------------------------------------------------------------------
(* One step keeps each part of the invariant.                              *)

LEMMA KeepFresh ==
    ASSUME TypeOK, FreshRuns, Unspawned, ReclaimsRunning, Next
    PROVE  FreshRuns'
<1>1. ASSUME NEW q \in Runs, Fire(q) PROVE FreshRuns'
    BY <1>1
    DEF Fire, FireInsert, FireSpawn, FireRegister, FireDropped, dbVars, bootVars,
        taskVars, memVars, FreshRuns, Unspawned, ReclaimsRunning, TypeOK, Live,
        Holding
<1>2. ASSUME NEW q \in Runs, TaskAcquire(q) \/ TaskStep(q) PROVE FreshRuns'
    BY <1>2, TaskMoves, TaskVerdict, TaskStage
    DEF Moves, Goto, FreshRuns, Unspawned, ReclaimsRunning, TypeOK, Live, Holding
<1>3. ASSUME NEW q \in Runs, TaskDropped(q) PROVE FreshRuns'
    BY <1>3, DropFrame
    DEF FreshRuns, Unspawned, ReclaimsRunning, TypeOK, Live, Holding
<1>4. ASSUME NEW s \in Sessions, Agent(s) PROVE FreshRuns'
    BY <1>4, AgentFrame
    DEF FreshRuns, Unspawned, ReclaimsRunning, TypeOK, Live, Holding
<1>5. ASSUME NEW h \in Handlers, AbortHandler(h) PROVE FreshRuns'
    BY <1>5, AbortFrame, TargetAssumption
    DEF CancelTask, FreshRuns, Unspawned, ReclaimsRunning, TypeOK, Live, Holding
<1>6. ASSUME Crash PROVE FreshRuns'
    BY <1>6
    DEF Crash, dbVars, FreshRuns, Unspawned, ReclaimsRunning, TypeOK, Live, Holding
<1>7. ASSUME Boot PROVE FreshRuns'
    BY <1>7, BootFrame
    DEF FreshRuns, Unspawned, ReclaimsRunning, TypeOK, Live, Holding
<1> QED
    BY <1>1, <1>2, <1>3, <1>4, <1>5, <1>6, <1>7 DEF Next

LEMMA KeepUndecided ==
    ASSUME TypeOK, Unspawned, FreshRuns, Undecided, ReclaimAlone, Next
    PROVE  Undecided'
<1>1. ASSUME NEW q \in Runs, Fire(q) PROVE Undecided'
    BY <1>1
    DEF Fire, FireInsert, FireSpawn, FireRegister, FireDropped, dbVars, bootVars,
        taskVars, memVars, Undecided, FreshRuns, Unspawned, ReclaimAlone, TypeOK, Live,
        Holding, Recording
<1>2. ASSUME NEW q \in Runs, TaskAcquire(q) \/ TaskStep(q) PROVE Undecided'
    BY <1>2, TaskMoves, TaskVerdict, TaskStage
    DEF Moves, Goto, Undecided, FreshRuns, Unspawned, ReclaimAlone, TypeOK, Live,
        Holding, Recording
<1>3. ASSUME NEW q \in Runs, TaskDropped(q) PROVE Undecided'
    BY <1>3, DropFrame
    DEF Undecided, FreshRuns, Unspawned, ReclaimAlone, TypeOK, Live, Holding,
        Recording
<1>4. ASSUME NEW s \in Sessions, Agent(s) PROVE Undecided'
    BY <1>4, AgentFrame
    DEF Undecided, FreshRuns, Unspawned, ReclaimAlone, TypeOK, Live, Holding,
        Recording
<1>5. ASSUME NEW h \in Handlers, AbortHandler(h) PROVE Undecided'
    BY <1>5, AbortFrame, TargetAssumption
    DEF CancelTask, Undecided, FreshRuns, Unspawned, ReclaimAlone, TypeOK, Live,
        Holding, Recording
<1>6. ASSUME Crash PROVE Undecided'
    BY <1>6
    DEF Crash, dbVars, Undecided, FreshRuns, Unspawned, ReclaimAlone, TypeOK, Live,
        Holding, Recording
<1>7. ASSUME Boot PROVE Undecided'
    BY <1>7, BootFrame
    DEF Undecided, FreshRuns, Unspawned, ReclaimAlone, TypeOK, Live, Holding,
        Recording
<1> QED
    BY <1>1, <1>2, <1>3, <1>4, <1>5, <1>6, <1>7 DEF Next

LEMMA KeepAlone ==
    ASSUME TypeOK, Unspawned, ReclaimAlone, Next
    PROVE  ReclaimAlone'
<1>1. ASSUME NEW q \in Runs, Fire(q) PROVE ReclaimAlone'
    BY <1>1
    DEF Fire, FireInsert, FireSpawn, FireRegister, FireDropped, dbVars, bootVars,
        taskVars, memVars, ReclaimAlone, TypeOK, Live, Holding
<1>2. ASSUME NEW q \in Runs, TaskAcquire(q) \/ TaskStep(q) PROVE ReclaimAlone'
    BY <1>2, TaskMoves, TaskVerdict, TaskStage
    DEF Moves, Goto, ReclaimAlone, TypeOK, Live, Holding
<1>3. ASSUME NEW q \in Runs, TaskDropped(q) PROVE ReclaimAlone'
    BY <1>3, DropFrame
    DEF ReclaimAlone, TypeOK, Live, Holding
<1>4. ASSUME NEW s \in Sessions, Agent(s) PROVE ReclaimAlone'
    BY <1>4, AgentFrame
    DEF ReclaimAlone, TypeOK, Live, Holding
<1>5. ASSUME NEW h \in Handlers, AbortHandler(h) PROVE ReclaimAlone'
    BY <1>5, AbortFrame, TargetAssumption
    DEF CancelTask, ReclaimAlone, TypeOK, Live, Holding
<1>6. ASSUME Crash PROVE ReclaimAlone'
    BY <1>6
    DEF Crash, dbVars, ReclaimAlone, TypeOK, Live, Holding
<1>7. ASSUME Boot PROVE ReclaimAlone'
    BY <1>7, BootFrame
    DEF ReclaimAlone, TypeOK, Live, Holding
<1> QED
    BY <1>1, <1>2, <1>3, <1>4, <1>5, <1>6, <1>7 DEF Next

LEMMA KeepReclaiming ==
    ASSUME TypeOK, ReclaimAlone, ReclaimsRunning, Next
    PROVE  ReclaimsRunning'
<1>1. ASSUME NEW q \in Runs, Fire(q) PROVE ReclaimsRunning'
    BY <1>1
    DEF Fire, FireInsert, FireSpawn, FireRegister, FireDropped, dbVars, bootVars,
        taskVars, memVars, ReclaimAlone, ReclaimsRunning, TypeOK, Live, Holding
<1>2. ASSUME NEW q \in Runs, TaskAcquire(q) \/ TaskStep(q) PROVE ReclaimsRunning'
    BY <1>2, TaskMoves, TaskVerdict, TaskStage
    DEF Moves, Goto, ReclaimAlone, ReclaimsRunning, TypeOK, Live, Holding
<1>3. ASSUME NEW q \in Runs, TaskDropped(q) PROVE ReclaimsRunning'
    BY <1>3, DropFrame
    DEF ReclaimAlone, ReclaimsRunning, TypeOK, Live, Holding
<1>4. ASSUME NEW s \in Sessions, Agent(s) PROVE ReclaimsRunning'
    BY <1>4, AgentFrame
    DEF ReclaimAlone, ReclaimsRunning, TypeOK, Live, Holding
<1>5. ASSUME NEW h \in Handlers, AbortHandler(h) PROVE ReclaimsRunning'
    BY <1>5, AbortFrame, TargetAssumption
    DEF CancelTask, ReclaimAlone, ReclaimsRunning, TypeOK, Live, Holding
<1>6. ASSUME Crash PROVE ReclaimsRunning'
    BY <1>6
    DEF Crash, dbVars, ReclaimAlone, ReclaimsRunning, TypeOK, Live, Holding
<1>7. ASSUME Boot PROVE ReclaimsRunning'
    <2>1. ASSUME NEW ok \in BOOLEAN, BootSessions(ok) \/ BootSelect(ok)
          PROVE  ReclaimsRunning'
        BY <2>1 DEF BootSessions, BootSelect, Orphans, dbVars, ReclaimsRunning
    <2>2. ASSUME NEW r \in Runs, NEW ok \in BOOLEAN, BootFinish(r, ok)
          PROVE  ReclaimsRunning'
        BY <2>2 DEF BootFinish, FinishRun, ReclaimsRunning, TypeOK
    <2>3. ASSUME NEW r \in Runs, NEW ok \in BOOLEAN, BootRecord(r, ok)
          PROVE  ReclaimsRunning'
        BY <2>3 DEF BootRecord, ReclaimsRunning
    <2>4. ASSUME BootServe PROVE ReclaimsRunning'
        BY <2>4 DEF BootServe, dbVars, ReclaimsRunning
    <2> QED
        BY <1>7, <2>1, <2>2, <2>3, <2>4 DEF Boot
<1> QED
    BY <1>1, <1>2, <1>3, <1>4, <1>5, <1>6, <1>7 DEF Next

LEMMA KeepUnstarted ==
    ASSUME TypeOK, Unstarted, Next
    PROVE  Unstarted'
<1>1. ASSUME NEW q \in Runs, Fire(q) PROVE Unstarted'
    BY <1>1
    DEF Fire, FireInsert, FireSpawn, FireRegister, FireDropped, dbVars, bootVars,
        taskVars, memVars, Unstarted, TypeOK, Live, Holding
<1>2. ASSUME NEW q \in Runs, TaskAcquire(q) \/ TaskStep(q) PROVE Unstarted'
    BY <1>2, TaskMoves, TaskVerdict, TaskStage
    DEF Moves, Goto, Unstarted, TypeOK, Live, Holding
<1>3. ASSUME NEW q \in Runs, TaskDropped(q) PROVE Unstarted'
    BY <1>3, DropFrame
    DEF Unstarted, TypeOK, Live, Holding
<1>4. ASSUME NEW s \in Sessions, Agent(s) PROVE Unstarted'
    BY <1>4, AgentFrame
    DEF Unstarted, TypeOK, Live, Holding
<1>5. ASSUME NEW h \in Handlers, AbortHandler(h) PROVE Unstarted'
    BY <1>5, AbortFrame, TargetAssumption
    DEF CancelTask, Unstarted, TypeOK, Live, Holding
<1>6. ASSUME Crash PROVE Unstarted'
    BY <1>6
    DEF Crash, dbVars, Unstarted, TypeOK, Live, Holding
<1>7. ASSUME Boot PROVE Unstarted'
    BY <1>7, BootFrame
    DEF Unstarted, TypeOK, Live, Holding
<1> QED
    BY <1>1, <1>2, <1>3, <1>4, <1>5, <1>6, <1>7 DEF Next

(* The loop over the stages ends behind the last one, if that delivered.   *)
LEMMA TaskEndsLoop ==
    ASSUME TypeOK, NEW r \in Runs, TaskAcquire(r) \/ TaskStep(r),
           task'[r] = "finish_ok"
    PROVE  task[r] = "check" /\ stage[r] = Stages /\ Current(r) \in delivered
<1>1. \E ok \in BOOLEAN : TaskCheck(r, ok)
    BY DEF TaskAcquire, TaskStep, TaskInsertSession, TaskNote, TaskLaunch, TaskReapAgent,
        TaskSettleSession, TaskFinish, TaskRecord, TaskCredentialsFail, At, Goto, NoteNext,
        TypeOK
<1> QED
    BY <1>1 DEF TaskCheck, Delivered, At, Goto, TypeOK

LEMMA KeepPast ==
    ASSUME TypeOK, Unspawned, Unstarted, PastDelivered, Next
    PROVE  PastDelivered'
<1>1. ASSUME NEW q \in Runs, Fire(q) PROVE PastDelivered'
    BY <1>1
    DEF Fire, FireInsert, FireSpawn, FireRegister, FireDropped, dbVars, bootVars,
        taskVars, memVars, PastDelivered, Unspawned, Unstarted, SessionsOf, TypeOK,
        Live, Holding
<1>2. ASSUME NEW q \in Runs, TaskAcquire(q) \/ TaskStep(q) PROVE PastDelivered'
    <2>1. /\ task[q] \in Live /\ delivered' = delivered
          /\ \A r \in Runs \ {q} : task'[r] = task[r] /\ stage'[r] = stage[r]
        BY <1>2, TaskMoves, TaskStage DEF Moves, Goto, TypeOK
    <2>2. ASSUME NEW k \in 1..Stages, k < stage'[q] PROVE <<q, k>> \in delivered
        <3>1. k < stage[q] \/ (k = stage[q] /\ Current(q) \in delivered)
            BY <1>2, <2>2, TaskStage DEF TypeOK
        <3> QED
            BY <2>1, <3>1 DEF PastDelivered, Current
    <2>3. ASSUME task'[q] = "finish_ok" PROVE SessionsOf(q) \subseteq delivered
        <3>1. stage[q] = Stages /\ <<q, Stages>> \in delivered
            BY <1>2, <2>3, TaskEndsLoop DEF Current
        <3>2. \A k \in 1..Stages : k < Stages \/ k = Stages
            BY StagesAssumption
        <3> QED
            BY <2>1, <3>1, <3>2 DEF PastDelivered, SessionsOf
    <2> QED
        BY <2>1, <2>2, <2>3 DEF PastDelivered, SessionsOf
<1>3. ASSUME NEW q \in Runs, TaskDropped(q) PROVE PastDelivered'
    BY <1>3, DropFrame
    DEF PastDelivered, Unspawned, Unstarted, SessionsOf, TypeOK, Live, Holding
<1>4. ASSUME NEW s \in Sessions, Agent(s) PROVE PastDelivered'
    BY <1>4, AgentFrame
    DEF PastDelivered, Unspawned, Unstarted, SessionsOf, TypeOK, Live, Holding
<1>5. ASSUME NEW h \in Handlers, AbortHandler(h) PROVE PastDelivered'
    BY <1>5, AbortFrame, TargetAssumption
    DEF CancelTask, PastDelivered, Unspawned, Unstarted, SessionsOf, TypeOK, Live,
        Holding
<1>6. ASSUME Crash PROVE PastDelivered'
    BY <1>6
    DEF Crash, dbVars, PastDelivered, Unspawned, Unstarted, SessionsOf, TypeOK, Live,
        Holding
<1>7. ASSUME Boot PROVE PastDelivered'
    BY <1>7, BootFrame
    DEF PastDelivered, Unspawned, Unstarted, SessionsOf, TypeOK, Live, Holding
<1> QED
    BY <1>1, <1>2, <1>3, <1>4, <1>5, <1>6, <1>7 DEF Next

LEMMA KeepCompleted ==
    ASSUME TypeOK, PastDelivered, CompletedMeansDelivered, Next
    PROVE  CompletedMeansDelivered'
<1>1. ASSUME NEW q \in Runs, Fire(q) PROVE CompletedMeansDelivered'
    BY <1>1
    DEF Fire, FireInsert, FireSpawn, FireRegister, FireDropped, dbVars, bootVars,
        taskVars, memVars, CompletedMeansDelivered, PastDelivered, SessionsOf, TypeOK
<1>2. ASSUME NEW q \in Runs, TaskAcquire(q) \/ TaskStep(q) PROVE CompletedMeansDelivered'
    BY <1>2, TaskMoves, TaskVerdict, TaskStage
    DEF Moves, Goto, CompletedMeansDelivered, PastDelivered, SessionsOf, TypeOK
<1>3. ASSUME NEW q \in Runs, TaskDropped(q) PROVE CompletedMeansDelivered'
    BY <1>3, DropFrame
    DEF CompletedMeansDelivered, PastDelivered, SessionsOf, TypeOK
<1>4. ASSUME NEW s \in Sessions, Agent(s) PROVE CompletedMeansDelivered'
    BY <1>4, AgentFrame
    DEF CompletedMeansDelivered, PastDelivered, SessionsOf, TypeOK
<1>5. ASSUME NEW h \in Handlers, AbortHandler(h) PROVE CompletedMeansDelivered'
    BY <1>5, AbortFrame, TargetAssumption
    DEF CancelTask, CompletedMeansDelivered, PastDelivered, SessionsOf, TypeOK
<1>6. ASSUME Crash PROVE CompletedMeansDelivered'
    BY <1>6
    DEF Crash, dbVars, CompletedMeansDelivered, PastDelivered, SessionsOf, TypeOK
<1>7. ASSUME Boot PROVE CompletedMeansDelivered'
    BY <1>7, BootFrame
    DEF CompletedMeansDelivered, PastDelivered, SessionsOf, TypeOK
<1> QED
    BY <1>1, <1>2, <1>3, <1>4, <1>5, <1>6, <1>7 DEF Next

LEMMA KeepAbortable ==
    ASSUME TypeOK, Unspawned, LiveTaskAbortable, Next
    PROVE  LiveTaskAbortable'
<1>1. ASSUME NEW q \in Runs, Fire(q) PROVE LiveTaskAbortable'
    BY <1>1
    DEF Fire, FireInsert, FireSpawn, FireRegister, FireDropped, dbVars, bootVars,
        taskVars, memVars, LiveTaskAbortable, Unspawned, TypeOK, Live, Holding
<1>2. ASSUME NEW q \in Runs, TaskAcquire(q) \/ TaskStep(q) PROVE LiveTaskAbortable'
    <2>1. registry' = registry \/ (task'[q] = "done" /\ registry' = registry \ {q})
        BY <1>2
        DEF TaskAcquire, TaskStep, TaskInsertSession, TaskNote, TaskLaunch, TaskReapAgent,
            TaskSettleSession, TaskCheck, TaskFinish, TaskRecord, TaskCredentialsFail, At,
            Goto, memVars, TypeOK
    <2> QED
        BY <1>2, <2>1, TaskMoves DEF Moves, Goto, LiveTaskAbortable, TypeOK, Live, Holding
<1>3. ASSUME NEW q \in Runs, TaskDropped(q) PROVE LiveTaskAbortable'
    BY <1>3, DropFrame
    DEF LiveTaskAbortable, Unspawned, TypeOK, Live, Holding
<1>4. ASSUME NEW s \in Sessions, Agent(s) PROVE LiveTaskAbortable'
    BY <1>4, AgentFrame
    DEF LiveTaskAbortable, Unspawned, TypeOK, Live, Holding
<1>5. ASSUME NEW h \in Handlers, AbortHandler(h) PROVE LiveTaskAbortable'
    BY <1>5, AbortFrame, TargetAssumption
    DEF CancelTask, LiveTaskAbortable, Unspawned, TypeOK, Live, Holding
<1>6. ASSUME Crash PROVE LiveTaskAbortable'
    BY <1>6
    DEF Crash, dbVars, LiveTaskAbortable, Unspawned, TypeOK, Live, Holding
<1>7. ASSUME Boot PROVE LiveTaskAbortable'
    BY <1>7, BootFrame
    DEF LiveTaskAbortable, Unspawned, TypeOK, Live, Holding
<1> QED
    BY <1>1, <1>2, <1>3, <1>4, <1>5, <1>6, <1>7 DEF Next

(* A task step leaves less ahead, and what it launches was ahead.          *)
LEMMA TaskLaunches ==
    ASSUME TypeOK, NEW r \in Runs, TaskAcquire(r) \/ TaskStep(r)
    PROVE  /\ Ahead(r)' \subseteq Ahead(r)
           /\ \/ launched' = launched /\ procs' \subseteq procs
              \/ /\ task[r] = "launch" /\ stage[r] \notin Ahead(r)'
                 /\ launched' = launched \cup {Current(r)}
                 /\ procs' \subseteq procs \cup {Current(r)}
<1> USE DEF At, Goto, Ahead, TypeOK
<1>1. CASE \E ok \in BOOLEAN : TaskLaunch(r, ok)
    BY <1>1 DEF TaskLaunch
<1>2. CASE \E ok \in BOOLEAN : TaskCheck(r, ok)
    BY <1>2 DEF TaskCheck, memVars
<1>3. ASSUME NEW ok \in BOOLEAN, NEW pc \in {"note_started", "note_ok", "note_err"},
             TaskNote(r, pc, ok)
      PROVE  Ahead(r)' \subseteq Ahead(r) /\ launched' = launched /\ procs' = procs
    BY <1>3 DEF TaskNote, NoteNext, memVars
<1>4. CASE TaskAcquire(r)
    BY <1>4 DEF TaskAcquire
<1>5. CASE \E ok \in BOOLEAN : TaskInsertSession(r, ok)
    BY <1>5 DEF TaskInsertSession, memVars
<1>6. CASE \E ok \in BOOLEAN :
            \/ TaskReapAgent(r, ok)
            \/ \E pc \in {"settle_ok", "settle_err"} : TaskSettleSession(r, pc, ok)
            \/ \E pc \in {"finish_ok", "finish_err"} : TaskFinish(r, pc, ok)
            \/ \E pc \in {"record_ok", "record_err"} : TaskRecord(r, pc, ok)
            \/ TaskCredentialsFail(r)
    BY <1>6
    DEF TaskReapAgent, TaskSettleSession, TaskFinish, TaskRecord, TaskCredentialsFail, memVars
<1> QED
    BY <1>1, <1>2, <1>3, <1>4, <1>5, <1>6 DEF TaskStep

LEMMA KeepUnlaunched ==
    ASSUME TypeOK, Unspawned, FutureUnlaunched, Next
    PROVE  FutureUnlaunched'
<1>1. ASSUME NEW q \in Runs, Fire(q) PROVE FutureUnlaunched'
    BY <1>1
    DEF Fire, FireInsert, FireSpawn, FireRegister, FireDropped, dbVars, bootVars,
        taskVars, memVars, FutureUnlaunched, Ahead, Unspawned, TypeOK, Live, Holding
<1>2. ASSUME NEW q \in Runs, TaskAcquire(q) \/ TaskStep(q) PROVE FutureUnlaunched'
    <2>1. \A r \in Runs \ {q} : task'[r] = task[r] /\ stage'[r] = stage[r]
        BY <1>2, TaskMoves, TaskStage DEF Moves, Goto, TypeOK
    <2>2. ASSUME NEW r \in Runs \ {q}, task'[r] \in Live \cup {"none"}, NEW k \in Ahead(r)'
          PROVE  <<r, k>> \notin launched'
        <3>1. k \in Ahead(r) /\ <<r, k>> \notin launched
            BY <2>1, <2>2 DEF FutureUnlaunched, Ahead
        <3> QED
            BY <1>2, <3>1, TaskLaunches DEF Current
    <2>3. ASSUME NEW k \in Ahead(q)' PROVE <<q, k>> \notin launched'
        <3>1. k \in Ahead(q) /\ task[q] \in Live
            BY <1>2, <2>3, TaskLaunches, TaskMoves DEF Moves
        <3>2. <<q, k>> \notin launched
            BY <3>1 DEF FutureUnlaunched
        <3> QED
            BY <1>2, <2>3, <3>2, TaskLaunches DEF Current
    <2> QED
        BY <2>2, <2>3 DEF FutureUnlaunched
<1>3. ASSUME NEW q \in Runs, TaskDropped(q) PROVE FutureUnlaunched'
    BY <1>3, DropFrame
    DEF FutureUnlaunched, Ahead, Unspawned, TypeOK, Live, Holding
<1>4. ASSUME NEW s \in Sessions, Agent(s) PROVE FutureUnlaunched'
    BY <1>4, AgentFrame
    DEF FutureUnlaunched, Ahead, Unspawned, TypeOK, Live, Holding
<1>5. ASSUME NEW h \in Handlers, AbortHandler(h) PROVE FutureUnlaunched'
    BY <1>5, AbortFrame, TargetAssumption
    DEF CancelTask, FutureUnlaunched, Ahead, Unspawned, TypeOK, Live, Holding
<1>6. ASSUME Crash PROVE FutureUnlaunched'
    BY <1>6
    DEF Crash, dbVars, FutureUnlaunched, Ahead, Unspawned, TypeOK, Live, Holding
<1>7. ASSUME Boot PROVE FutureUnlaunched'
    BY <1>7, BootFrame
    DEF FutureUnlaunched, Ahead, Unspawned, TypeOK, Live, Holding
<1> QED
    BY <1>1, <1>2, <1>3, <1>4, <1>5, <1>6, <1>7 DEF Next

(* With no fault so far, every statement has succeeded and no handler has  *)
(* been dropped.                                                           *)
LEMMA FaultsStay ==
    ASSUME TypeOK, Next, faults' = 0
    PROVE  faults = 0
<1>0. faults \in Nat
    BY BoundsAssumption DEF TypeOK
<1> USE <1>0 DEF Statement
<1>1. ASSUME NEW r \in Runs, Fire(r) \/ TaskAcquire(r) \/ TaskStep(r) \/ TaskDropped(r)
      PROVE  faults = 0
    BY <1>1
    DEF Fire, FireInsert, FireSpawn, FireRegister, FireDropped, TaskAcquire, TaskStep,
        TaskInsertSession, TaskNote, TaskLaunch, TaskReapAgent, TaskSettleSession,
        TaskCheck, TaskFinish, TaskRecord, TaskCredentialsFail, TaskDropped
<1>2. ASSUME NEW h \in Handlers, AbortHandler(h) PROVE faults = 0
    BY <1>2
    DEF AbortHandler, AbortLookup, AbortKill, AbortSettleRun, AbortSettleSessions,
        AbortRecord, AbortDropped
<1> QED
    BY <1>1, <1>2
    DEF Next, Agent, AgentCalls, CallLands, AgentExits, Crash, Boot, BootSessions, BootSelect,
        BootFinish, BootRecord, BootServe

LEMMA KeepInCharge ==
    ASSUME TypeOK, Unspawned, Unstarted, ReclaimsRunning, NoZombieRun, Next
    PROVE  NoZombieRun'
<1> SUFFICES ASSUME faults' = 0, NEW r \in Runs, runStatus'[r] = "running"
             PROVE  InCharge(r)'
    BY DEF NoZombieRun
<1>0. faults = 0 /\ faults \in Nat /\ MaxFaults \in Nat
    BY FaultsStay, BoundsAssumption
<1>a. runStatus[r] = "running" => InCharge(r)
    BY <1>0 DEF NoZombieRun
<1>1. ASSUME NEW q \in Runs, Fire(q) PROVE InCharge(r)'
    <2>1. ASSUME NEW ok \in BOOLEAN, FireInsert(q, ok) PROVE InCharge(r)'
        BY <1>0, <1>a, <2>1
        DEF FireInsert, Statement, InCharge, TypeOK, bootVars, taskVars
    <2>2. ASSUME NEW ok \in BOOLEAN, FireSpawn(q, ok) PROVE InCharge(r)'
        BY <1>a, <2>2
        DEF FireSpawn, InCharge, Unspawned, Unstarted, TypeOK, bootVars, Live, Holding
    <2>3. ASSUME FireRegister(q) PROVE InCharge(r)'
        BY <1>a, <2>3 DEF FireRegister, InCharge, TypeOK, dbVars, bootVars, taskVars
    <2>4. ASSUME FireDropped(q) PROVE InCharge(r)'
        BY <1>0, <2>4 DEF FireDropped
    <2> QED
        BY <1>1, <2>1, <2>2, <2>3, <2>4 DEF Fire
<1>2. ASSUME NEW q \in Runs, TaskAcquire(q) \/ TaskStep(q) PROVE InCharge(r)'
    <2>1. runStatus[r] = "running"
        BY <1>2, TaskVerdict DEF TypeOK
    <2>2. ~(r = q /\ task[q] \in {"finish_ok", "finish_err"})
        BY <1>2, TaskFinishes
    <2> QED
        BY <1>2, <1>a, <2>1, <2>2, TaskMoves
        DEF Moves, Goto, InCharge, TypeOK, Recording
<1>3. ASSUME NEW q \in Runs, TaskDropped(q) PROVE InCharge(r)'
    BY <1>3, <1>a, DropFrame DEF InCharge, TypeOK
<1>4. ASSUME NEW s \in Sessions, Agent(s) PROVE InCharge(r)'
    BY <1>4, <1>a, AgentFrame DEF InCharge
<1>5. ASSUME NEW h \in Handlers, AbortHandler(h) PROVE InCharge(r)'
    <2>0. runStatus[r] = "running" /\ InCharge(r) /\ Target[h] \in Runs
        BY <1>5, <1>a, AbortFrame, TargetAssumption DEF TypeOK
    <2>1. ASSUME AbortLookup(h) PROVE InCharge(r)'
        BY <2>0, <2>1
        DEF AbortLookup, AbortStep, InCharge, TypeOK, dbVars, bootVars, taskVars
    <2>2. ASSUME AbortKill(h) PROVE InCharge(r)'
        <3>1. CASE Target[h] = r
            BY <2>2, <3>1 DEF AbortKill, AbortStep, InCharge, TypeOK
        <3>2. CASE Target[h] # r
            BY <2>0, <2>2, <3>2
            DEF AbortKill, AbortStep, CancelTask, InCharge, TypeOK, dbVars, bootVars
        <3> QED
            BY <3>1, <3>2
    <2>3. ASSUME NEW ok \in BOOLEAN, AbortSettleRun(h, ok) PROVE InCharge(r)'
        <3>1. ok /\ Target[h] # r
            BY <1>0, <2>3 DEF AbortSettleRun, Statement, FinishRun, TypeOK
        <3> QED
            BY <2>0, <2>3, <3>1
            DEF AbortSettleRun, AbortStep, InCharge, TypeOK, bootVars, taskVars
    <2>4. ASSUME NEW ok \in BOOLEAN, AbortSettleSessions(h, ok) \/ AbortRecord(h, ok)
          PROVE  InCharge(r)'
        BY <2>0, <2>4
        DEF AbortSettleSessions, AbortRecord, AbortStep, InCharge, TypeOK, bootVars,
            taskVars
    <2>5. ASSUME AbortDropped(h) PROVE InCharge(r)'
        BY <1>0, <2>5 DEF AbortDropped
    <2> QED
        BY <1>5, <2>1, <2>2, <2>3, <2>4, <2>5 DEF AbortHandler
<1>6. ASSUME Crash PROVE InCharge(r)'
    BY <1>6 DEF Crash, InCharge
<1>7. ASSUME Boot PROVE InCharge(r)'
    <2>0. runStatus[r] = "running" /\ InCharge(r)
        BY <1>7, <1>a, BootFrame DEF TypeOK
    <2>1. ASSUME NEW ok \in BOOLEAN, BootSessions(ok) \/ BootSelect(ok)
          PROVE  InCharge(r)'
        BY <1>0, <2>0, <2>1
        DEF BootSessions, BootSelect, Statement, Orphans, InCharge, taskVars
    <2>2. ASSUME NEW q \in Runs, NEW ok \in BOOLEAN, BootFinish(q, ok)
          PROVE  InCharge(r)'
        <3>1. ok /\ q # r
            BY <1>0, <2>2 DEF BootFinish, Statement, FinishRun, TypeOK
        <3> QED
            BY <2>0, <2>2, <3>1 DEF BootFinish, InCharge, taskVars
    <2>3. ASSUME NEW q \in Runs, NEW ok \in BOOLEAN, BootRecord(q, ok)
          PROVE  InCharge(r)'
        BY <2>0, <2>3 DEF BootRecord, InCharge, taskVars
    <2>4. ASSUME BootServe PROVE InCharge(r)'
        BY <2>0, <2>4 DEF BootServe, InCharge, taskVars
    <2> QED
        BY <1>7, <2>1, <2>2, <2>3, <2>4 DEF Boot
<1> QED
    BY <1>1, <1>2, <1>3, <1>4, <1>5, <1>6, <1>7 DEF Next

-----------------------------------------------------------------------------
LEMMA RunInvStep == RunInv /\ [Next]_vars => RunInv'
<1> SUFFICES ASSUME RunInv, [Next]_vars PROVE RunInv'
    OBVIOUS
<1>1. SlotInv'
    BY SlotInvStep DEF RunInv
<1>2. CASE Next
    <2>0. TypeOK /\ Unspawned
        BY DEF RunInv, SlotInv
    <2>1. FreshRuns' /\ Undecided' /\ ReclaimAlone' /\ ReclaimsRunning' /\ Unstarted'
        BY <1>2, <2>0, KeepFresh, KeepUndecided, KeepAlone, KeepReclaiming, KeepUnstarted
        DEF RunInv
    <2>2. PastDelivered' /\ FutureUnlaunched' /\ CompletedMeansDelivered'
        BY <1>2, <2>0, KeepPast, KeepUnlaunched, KeepCompleted DEF RunInv
    <2>3. LiveTaskAbortable' /\ NoZombieRun'
        BY <1>2, <2>0, KeepAbortable, KeepInCharge DEF RunInv
    <2> QED
        BY <1>1, <2>1, <2>2, <2>3 DEF RunInv
<1>3. CASE UNCHANGED vars
    <2> USE <1>3 DEF RunInv, vars, dbVars, bootVars, taskVars, memVars
    <2>1. FreshRuns' /\ Undecided' /\ ReclaimAlone' /\ ReclaimsRunning' /\ Unstarted'
        BY DEF FreshRuns, Undecided, ReclaimAlone, ReclaimsRunning, Unstarted
    <2>2. PastDelivered' /\ FutureUnlaunched' /\ CompletedMeansDelivered'
        BY DEF PastDelivered, FutureUnlaunched, CompletedMeansDelivered, Ahead
    <2>3. LiveTaskAbortable' /\ NoZombieRun'
        BY DEF LiveTaskAbortable, NoZombieRun, InCharge
    <2> QED
        BY <1>1, <2>1, <2>2, <2>3
<1> QED
    BY <1>2, <1>3

LEMMA RunInvAlways == Spec => []RunInv
BY RunInvInit, RunInvStep, PTL DEF Spec

-----------------------------------------------------------------------------
(* The theorems.                                                           *)

(* While no statement fails and no handler is dropped, a row that says     *)
(* running always has somebody who will settle it (scheduler.rs:88-92).    *)
THEOREM NoZombies == Spec => []NoZombieRun
BY RunInvAlways, PTL DEF RunInv

(* A run that says completed delivered in every stage, whatever aborts,    *)
(* crashes and failing statements did (sessions.rs:356-359).               *)
THEOREM CompletedDelivered == Spec => []CompletedMeansDelivered
BY RunInvAlways, PTL DEF RunInv

(* A live task that nobody has cancelled can be aborted (state.rs:47-49).  *)
THEOREM TasksAbortable == Spec => []LiveTaskAbortable
BY RunInvAlways, PTL DEF RunInv

(* One step overturns no verdict: those who write one do so for a run that *)
(* has none yet, or they abort.                                            *)
LEMMA VerdictStep ==
    ASSUME RunInv, Next, NEW r \in Runs,
           runStatus[r] \in Terminal, runStatus'[r] # runStatus[r]
    PROVE  "aborted" \in {runStatus[r], runStatus'[r]} /\ runStatus'[r] \in Terminal
<1>0. TypeOK
    BY DEF RunInv, SlotInv
<1>1. ASSUME NEW q \in Runs, Fire(q) PROVE FALSE
    <2>1. runStatus'[r] = runStatus[r] \/ (r = q /\ fire[r] = "idle")
        BY <1>0, <1>1
        DEF Fire, FireInsert, FireSpawn, FireRegister, FireDropped, dbVars, TypeOK
    <2> QED
        BY <2>1 DEF RunInv, FreshRuns, Terminal
<1>2. ASSUME NEW q \in Runs, TaskAcquire(q) \/ TaskStep(q)
      PROVE  runStatus[r] = "aborted" /\ runStatus'[r] \in Terminal
    <2>1. /\ r = q /\ task[r] \in {"finish_ok", "finish_err"}
          /\ runStatus'[r] \in {"completed", "failed"}
        BY <1>0, <1>2, TaskVerdict DEF TypeOK
    <2>2. runStatus[r] \notin {"completed", "failed"}
        BY <2>1 DEF RunInv, Undecided, Live, Holding, Recording
    <2> QED
        BY <2>1, <2>2 DEF Terminal
<1>3. ASSUME NEW q \in Runs, TaskDropped(q) PROVE FALSE
    BY <1>0, <1>3, DropFrame
<1>4. ASSUME NEW s \in Sessions, Agent(s) PROVE FALSE
    BY <1>4, AgentFrame
<1>5. ASSUME NEW h \in Handlers, AbortHandler(h) PROVE runStatus'[r] = "aborted"
    BY <1>0, <1>5, AbortFrame DEF TypeOK
<1>6. ASSUME Crash PROVE FALSE
    BY <1>6 DEF Crash, dbVars
<1>7. ASSUME Boot PROVE FALSE
    <2>1. r \in todo
        BY <1>0, <1>7, BootFrame DEF TypeOK
    <2> QED
        BY <2>1 DEF RunInv, ReclaimsRunning, Terminal
<1> QED
    BY <1>1, <1>2, <1>3, <1>4, <1>5, <1>6, <1>7 DEF Next, Terminal

(* No row leaves a terminal status for running, and completed and failed   *)
(* never replace each other (ADR 0030 D4).                                 *)
THEOREM VerdictsFinal == Spec => VerdictsAreFinal
<1>1. RunInv /\ [Next]_vars =>
        [\A r \in Runs : runStatus[r] \in Terminal /\ runStatus'[r] # runStatus[r]
            => "aborted" \in {runStatus[r], runStatus'[r]} /\ runStatus'[r] \in Terminal
        ]_vars
    BY VerdictStep
<1> QED
    BY <1>1, RunInvAlways, PTL DEF Spec, VerdictsAreFinal

(* One step dispatches nothing twice, and nothing for a decided run.       *)
LEMMA DispatchStep ==
    ASSUME RunInv, Next, NEW s \in procs' \ procs
    PROVE  s \notin launched /\ runStatus[s[1]] \notin {"completed", "failed"}
<1>0. TypeOK
    BY DEF RunInv, SlotInv
<1>1. ASSUME NEW q \in Runs, TaskAcquire(q) \/ TaskStep(q)
      PROVE  s \notin launched /\ runStatus[s[1]] \notin {"completed", "failed"}
    <2>1. task[q] = "launch" /\ s = Current(q)
        BY <1>0, <1>1, TaskLaunches
    <2>2. stage[q] \in Ahead(q) /\ task[q] \in Live
        BY <1>0, <2>1 DEF Ahead, TypeOK, Live, Holding
    <2>3. s = <<q, stage[q]>> /\ s \notin launched
        BY <2>1, <2>2 DEF RunInv, FutureUnlaunched, Current
    <2>4. runStatus[q] \notin {"completed", "failed"}
        BY <2>1, <2>2 DEF RunInv, Undecided, Recording
    <2> QED
        BY <2>3, <2>4
<1>2. ASSUME NEW q \in Runs, Fire(q) \/ TaskDropped(q) PROVE FALSE
    BY <1>2
    DEF Fire, FireInsert, FireSpawn, FireRegister, FireDropped, TaskDropped,
        ProcsAfterDrop, memVars
<1>3. ASSUME NEW a \in Sessions, Agent(a) PROVE FALSE
    BY <1>3, AgentFrame
<1>4. ASSUME NEW h \in Handlers, AbortHandler(h) PROVE FALSE
    BY <1>4, AbortFrame
<1>5. ASSUME Crash \/ Boot PROVE FALSE
    BY <1>0, <1>5, BootFrame DEF Crash
<1> QED
    BY <1>1, <1>2, <1>3, <1>4, <1>5 DEF Next

(* A session is dispatched at most once, for a run nobody has decided yet  *)
(* (ADR 0030 D4).                                                          *)
THEOREM AtMostOnce == Spec => DispatchedOnce
<1>1. RunInv /\ [Next]_vars =>
        [\A s \in Sessions : s \in procs' \ procs =>
            /\ s \notin launched
            /\ runStatus[s[1]] \notin {"completed", "failed"}]_vars
    BY DispatchStep
<1> QED
    BY <1>1, RunInvAlways, PTL DEF Spec, DispatchedOnce

-----------------------------------------------------------------------------
(* The refinement: what each step does to rows, dispatches and deliveries. *)

(* A run has a row before anybody does anything for it, ... *)
RowFirst ==
    \A r \in Runs :
        \/ fire[r] \in {"record", "register"}
        \/ task[r] # "none"
        \/ \E h \in Handlers : Target[h] = r /\ abort[h] \notin {"idle", "done"}
        => runStatus[r] # "none"

(* ... and only agents that were dispatched run, call and deliver. *)
Traced == procs \cup calls \cup delivered \subseteq launched

LEMMA KeepRowFirst ==
    ASSUME TypeOK, RowFirst, Next
    PROVE  RowFirst'
<1>1. ASSUME NEW q \in Runs, Fire(q) PROVE RowFirst'
    BY <1>1
    DEF Fire, FireInsert, FireSpawn, FireRegister, FireDropped, dbVars, taskVars, RowFirst,
        TypeOK
<1>2. ASSUME NEW q \in Runs, TaskAcquire(q) \/ TaskStep(q) PROVE RowFirst'
    <2>1. /\ fire' = fire /\ abort' = abort /\ task[q] # "none"
          /\ \A r \in Runs \ {q} : task'[r] = task[r]
        BY <1>2, TaskMoves DEF Moves, Goto, TypeOK, Live, Holding
    <2>2. \A r \in Runs : runStatus[r] # "none" => runStatus'[r] # "none"
        BY <1>2, TaskVerdict DEF TypeOK
    <2> QED
        BY <2>1, <2>2 DEF RowFirst
<1>3. ASSUME NEW q \in Runs, TaskDropped(q) PROVE RowFirst'
    BY <1>3, DropFrame DEF RowFirst, TypeOK, Live, Holding
<1>4. ASSUME NEW s \in Sessions, Agent(s) PROVE RowFirst'
    BY <1>4, AgentFrame DEF RowFirst
<1>5. ASSUME NEW h \in Handlers, AbortHandler(h) PROVE RowFirst'
    <2>1. /\ fire' = fire /\ task' = task
          /\ \A g \in Handlers \ {h} : abort'[g] = abort[g]
        BY <1>5, AbortFrame DEF TypeOK
    <2>2. \A r \in Runs : runStatus[r] # "none" => runStatus'[r] # "none"
        BY <1>5, AbortFrame DEF TypeOK
    <2>3. runStatus[Target[h]] # "none"
        BY <1>5, AbortFrame, TargetAssumption DEF RowFirst
    <2> QED
        BY <2>1, <2>2, <2>3 DEF RowFirst
<1>6. ASSUME Crash PROVE RowFirst'
    BY <1>6 DEF Crash, dbVars, RowFirst, TypeOK, Live, Holding
<1>7. ASSUME Boot PROVE RowFirst'
    BY <1>7, BootFrame DEF RowFirst, TypeOK
<1> QED
    BY <1>1, <1>2, <1>3, <1>4, <1>5, <1>6, <1>7 DEF Next

LEMMA KeepTraced ==
    ASSUME TypeOK, Traced, Next
    PROVE  Traced'
<1>1. ASSUME NEW q \in Runs, Fire(q) PROVE Traced'
    BY <1>1
    DEF Fire, FireInsert, FireSpawn, FireRegister, FireDropped, dbVars, memVars, Traced
<1>2. ASSUME NEW q \in Runs, TaskAcquire(q) \/ TaskStep(q) PROVE Traced'
    <2>1. calls' = calls /\ delivered' = delivered
        BY <1>2
        DEF TaskAcquire, TaskStep, TaskInsertSession, TaskNote, TaskLaunch, TaskReapAgent,
            TaskSettleSession, TaskCheck, TaskFinish, TaskRecord, TaskCredentialsFail,
            dbVars, memVars
    <2> QED
        BY <1>2, <2>1, TaskLaunches DEF Traced
<1>3. ASSUME NEW q \in Runs, TaskDropped(q) PROVE Traced'
    BY <1>3 DEF TaskDropped, ProcsAfterDrop, dbVars, Traced
<1>4. ASSUME NEW s \in Sessions, Agent(s) PROVE Traced'
    BY <1>4 DEF Agent, AgentCalls, CallLands, AgentExits, dbVars, Traced
<1>5. ASSUME NEW h \in Handlers, AbortHandler(h) PROVE Traced'
    <2>1. calls' = calls
        BY <1>5
        DEF AbortHandler, AbortLookup, AbortKill, AbortDropped, AbortSettleRun,
            AbortSettleSessions, AbortRecord, memVars
    <2> QED
        BY <1>5, <2>1, AbortFrame DEF Traced
<1>6. ASSUME Crash PROVE Traced'
    BY <1>6 DEF Crash, dbVars, Traced
<1>7. ASSUME Boot PROVE Traced'
    <2>1. calls' = calls
        BY <1>7
        DEF Boot, BootSessions, BootSelect, BootFinish, BootRecord, BootServe, memVars
    <2> QED
        BY <1>7, <2>1, BootFrame DEF Traced
<1> QED
    BY <1>1, <1>2, <1>3, <1>4, <1>5, <1>6, <1>7 DEF Next

(* What a run's task has behind it is finished in the sense of the         *)
(* contract.                                                               *)
LEMMA BehindFinished ==
    ASSUME TypeOK, Traced, PastDelivered, NEW r \in Runs, task[r] \in Live
    PROVE  /\ ContractSpec!Finished(ContractSpec!StagesOf(r, stage[r] - 1))
           /\ task[r] = "finish_ok" => ContractSpec!Finished(ContractSpec!StagesOf(r, Stages))
<1>1. stage[r] \in 1..Stages
    BY DEF TypeOK
<1>2. ASSUME NEW k \in 1..(stage[r] - 1) PROVE <<r, k>> \in delivered
    BY <1>1, <1>2, StagesAssumption DEF PastDelivered
<1>3. task[r] = "finish_ok" => \A k \in 1..Stages : <<r, k>> \in delivered
    BY DEF PastDelivered, SessionsOf
<1> QED
    BY <1>2, <1>3 DEF ContractSpec!Finished, ContractSpec!StagesOf, Traced

LEMMA ContractStep ==
    ASSUME RunInv, RowFirst, Traced, Next
    PROVE  ContractSpec!Next \/ UNCHANGED <<runStatus, launched, delivered>>
<1>0. TypeOK
    BY DEF RunInv, SlotInv
<1>1. ASSUME NEW r \in Runs, Fire(r)
      PROVE  ContractSpec!Fire(r) \/ UNCHANGED <<runStatus, launched, delivered>>
    BY <1>1
    DEF Fire, FireInsert, FireSpawn, FireRegister, FireDropped, dbVars, RunInv, FreshRuns,
        ContractSpec!Fire
<1>2. ASSUME NEW r \in Runs, TaskAcquire(r) \/ TaskStep(r)
      PROVE  \/ \E k \in 1..Stages : ContractSpec!Dispatch(r, k)
             \/ \E v \in {"completed", "failed"} : ContractSpec!Conclude(r, v)
             \/ UNCHANGED <<runStatus, launched, delivered>>
    <2>1. task[r] \in Live /\ delivered' = delivered
        BY <1>2, TaskMoves DEF Moves
    <2>2. task[r] \notin Recording => runStatus[r] \in {"running", "aborted"}
        BY <1>0, <2>1 DEF RunInv, Undecided, RowFirst, TypeOK, RunStatus, Live, Holding
    <2>3. CASE launched' # launched
        <3>1. task[r] = "launch" /\ launched' = launched \cup {Current(r)}
            BY <1>0, <1>2, <2>3, TaskLaunches
        <3>2. stage[r] \in 1..Stages /\ stage[r] \in Ahead(r)
            BY <1>0, <3>1 DEF Ahead, TypeOK
        <3>3. <<r, stage[r]>> \notin launched
            BY <2>1, <3>2 DEF RunInv, FutureUnlaunched
        <3>4. runStatus' = runStatus
            BY <1>2, <3>1, TaskVerdict
        <3> QED
            BY <1>0, <2>1, <2>2, <3>1, <3>2, <3>3, <3>4, BehindFinished
            DEF RunInv, Recording, Current, ContractSpec!Dispatch
    <2>4. CASE launched' = launched /\ runStatus' # runStatus
        <3>1. PICK v \in {"completed", "failed"} :
                 /\ runStatus' = [runStatus EXCEPT ![r] = v]
                 /\ v = "completed" => task[r] = "finish_ok"
                 /\ task[r] \notin Recording
            BY <1>2, <2>4, TaskVerdict DEF Recording
        <3> QED
            BY <1>0, <2>1, <2>2, <2>4, <3>1, BehindFinished
            DEF RunInv, ContractSpec!Conclude
    <2> QED
        BY <2>1, <2>3, <2>4
<1>3. ASSUME NEW r \in Runs, TaskDropped(r)
      PROVE  UNCHANGED <<runStatus, launched, delivered>>
    BY <1>0, <1>3, DropFrame
<1>4. ASSUME NEW s \in Sessions, Agent(s)
      PROVE  \/ s \in launched /\ ContractSpec!Deliver(s)
             \/ UNCHANGED <<runStatus, launched, delivered>>
    BY <1>4
    DEF Agent, AgentCalls, CallLands, AgentExits, dbVars, Traced, ContractSpec!Deliver
<1>5. ASSUME NEW h \in Handlers, AbortHandler(h)
      PROVE  \/ ContractSpec!Abort(Target[h])
             \/ UNCHANGED <<runStatus, launched, delivered>>
    <2>1. runStatus[Target[h]] # "none"
        BY <1>5, AbortFrame, TargetAssumption DEF RowFirst
    <2> QED
        BY <1>5, <2>1, AbortFrame DEF ContractSpec!Abort
<1>6. ASSUME Crash PROVE UNCHANGED <<runStatus, launched, delivered>>
    BY <1>6 DEF Crash, dbVars
<1>7. ASSUME Boot
      PROVE  \/ \E r \in Runs : ContractSpec!Conclude(r, "failed")
             \/ UNCHANGED <<runStatus, launched, delivered>>
    <2>1. \A r \in todo : r \in Runs /\ runStatus[r] = "running"
        BY <1>0 DEF RunInv, ReclaimsRunning, TypeOK
    <2> QED
        BY <1>0, <1>7, <2>1, BootFrame DEF ContractSpec!Conclude
<1> QED
    BY <1>1, <1>2, <1>3, <1>4, <1>5, <1>6, <1>7, TargetAssumption DEF Next, ContractSpec!Next

(* The control plane keeps the promise of RunContract (scheduler.rs:88-92  *)
(* and 133-158, sessions.rs:356-359): every step of Scheduler is a firing, *)
(* a dispatch in order, a delivery, a verdict or a stutter there.          *)
THEOREM KeepsContract == Spec => Contract
<1>1. Init => RowFirst /\ Traced /\ ContractSpec!Init
    BY DEF Init, RowFirst, Traced, ContractSpec!Init
<1>2. ASSUME TypeOK, RowFirst, Traced, [Next]_vars PROVE (RowFirst /\ Traced)'
    <2>1. CASE Next
        BY <1>2, <2>1, KeepRowFirst, KeepTraced
    <2>2. CASE UNCHANGED vars
        BY <1>2, <2>2 DEF vars, dbVars, taskVars, memVars, RowFirst, Traced
    <2> QED
        BY <1>2, <2>1, <2>2
<1>3. ASSUME RunInv, RowFirst, Traced, [Next]_vars
      PROVE  [ContractSpec!Next]_(ContractSpec!vars)
    <2>1. UNCHANGED vars => UNCHANGED <<runStatus, launched, delivered>>
        BY DEF vars, dbVars
    <2> QED
        BY <1>3, <2>1, ContractStep DEF ContractSpec!vars
<1>4. RunInv => TypeOK
    BY DEF RunInv, SlotInv
<1> QED
    BY <1>1, <1>2, <1>3, <1>4, RunInvAlways, PTL DEF Spec, Contract, ContractSpec!Spec

-----------------------------------------------------------------------------
(* How far two comments hold that are not true as they stand.              *)

(* A feed is that of the session its run's task waits for, unless the task *)
(* was dropped after an abort.                                             *)
FeedsWatched ==
    \A s \in feeds :
        \/ task[s[1]] = "session" /\ s = Current(s[1])
        \/ task[s[1]] = "dead" /\ cancel[s[1]] # "no"

LEMMA TaskFeeds ==
    ASSUME TypeOK, NEW r \in Runs, TaskAcquire(r) \/ TaskStep(r)
    PROVE  \/ task[r] = "launch" /\ stage' = stage
              /\ \/ feeds' = feeds
                 \/ feeds' = feeds \cup {Current(r)} /\ task'[r] = "session"
           \/ task[r] = "session" /\ feeds' = feeds \ {Current(r)}
           \/ task[r] \notin {"launch", "session"} /\ feeds' = feeds
<1> USE DEF At, Goto, memVars, TypeOK
<1>1. ASSUME NEW ok \in BOOLEAN, TaskLaunch(r, ok)
      PROVE  /\ task[r] = "launch" /\ stage' = stage
             /\ \/ feeds' = feeds
                \/ feeds' = feeds \cup {Current(r)} /\ task'[r] = "session"
    <2>1. task[r] = "launch" /\ stage' = stage
        BY <1>1 DEF TaskLaunch
    <2>2. CASE ok
        BY <1>1, <2>1, <2>2 DEF TaskLaunch
    <2>3. CASE ~ok
        <3>1. feeds' = feeds
            BY <1>1, <2>3 DEF TaskLaunch
        <3> QED
            BY <2>1, <3>1
    <2> QED
        BY <2>1, <2>2, <2>3
<1>2. CASE \E ok \in BOOLEAN : TaskReapAgent(r, ok)
    BY <1>2 DEF TaskReapAgent
<1>3. ASSUME TaskCredentialsFail(r)
      PROVE  task[r] = "launch" /\ stage' = stage /\ feeds' = feeds
    BY <1>3 DEF TaskCredentialsFail
<1>4. CASE TaskAcquire(r)
    BY <1>4 DEF TaskAcquire
<1>5. CASE \E ok \in BOOLEAN :
            \/ TaskInsertSession(r, ok)
            \/ \E pc \in {"note_started", "note_ok", "note_err"} : TaskNote(r, pc, ok)
            \/ \E pc \in {"settle_ok", "settle_err"} : TaskSettleSession(r, pc, ok)
            \/ TaskCheck(r, ok)
            \/ \E pc \in {"finish_ok", "finish_err"} : TaskFinish(r, pc, ok)
            \/ \E pc \in {"record_ok", "record_err"} : TaskRecord(r, pc, ok)
    BY <1>5
    DEF TaskInsertSession, TaskNote, TaskSettleSession, TaskCheck, TaskFinish, TaskRecord
<1>6. \/ TaskAcquire(r)
      \/ \E ok \in BOOLEAN : TaskLaunch(r, ok)
      \/ \E ok \in BOOLEAN : TaskReapAgent(r, ok)
      \/ TaskCredentialsFail(r)
      \/ \E ok \in BOOLEAN :
            \/ TaskInsertSession(r, ok)
            \/ \E pc \in {"note_started", "note_ok", "note_err"} : TaskNote(r, pc, ok)
            \/ \E pc \in {"settle_ok", "settle_err"} : TaskSettleSession(r, pc, ok)
            \/ TaskCheck(r, ok)
            \/ \E pc \in {"finish_ok", "finish_err"} : TaskFinish(r, pc, ok)
            \/ \E pc \in {"record_ok", "record_err"} : TaskRecord(r, pc, ok)
    BY DEF TaskStep
<1> HIDE DEF At, Goto, memVars, TypeOK
<1> QED
    BY <1>1, <1>2, <1>3, <1>4, <1>5, <1>6

LEMMA KeepFeeds ==
    ASSUME TypeOK, Unspawned, FeedsWatched, Next
    PROVE  FeedsWatched'
<1>0. \A s \in feeds : s[1] \in Runs /\ s = <<s[1], s[2]>>
    BY DEF TypeOK, Sessions
<1>1. ASSUME NEW q \in Runs, Fire(q) PROVE FeedsWatched'
    <2>1. \A r \in Runs : task'[r] = task[r] \/ (fire[r] = "record" /\ r = q)
        BY <1>1
        DEF Fire, FireInsert, FireSpawn, FireRegister, FireDropped, taskVars, TypeOK
    <2>2. feeds' = feeds /\ cancel' = cancel /\ stage' = stage
        BY <1>1
        DEF Fire, FireInsert, FireSpawn, FireRegister, FireDropped, taskVars, memVars
    <2> QED
        BY <1>0, <2>1, <2>2 DEF FeedsWatched, Unspawned, Current
<1>2. ASSUME NEW q \in Runs, TaskAcquire(q) \/ TaskStep(q) PROVE FeedsWatched'
    <2>1. /\ task[q] \in Live
          /\ \A r \in Runs \ {q} : /\ task'[r] = task[r] /\ cancel'[r] = cancel[r]
                                  /\ stage'[r] = stage[r]
        BY <1>2, TaskMoves, TaskStage DEF Moves, Goto, TypeOK
    <2>2. ASSUME NEW s \in feeds, s[1] = q PROVE task[q] = "session" /\ s = Current(q)
        BY <2>1, <2>2 DEF FeedsWatched, Live, Holding
    <2>3. ASSUME NEW s \in feeds', s[1] = q PROVE task'[q] = "session" /\ s = Current(q)'
        BY <1>2, <2>2, <2>3, TaskFeeds DEF Current
    <2>4. ASSUME NEW s \in feeds', s[1] # q PROVE s \in feeds
        BY <1>2, <2>4, TaskFeeds DEF Current
    <2> QED
        BY <1>0, <2>1, <2>3, <2>4 DEF FeedsWatched, Current
<1>3. ASSUME NEW q \in Runs, TaskDropped(q) PROVE FeedsWatched'
    <2>1. feeds' = feeds
        BY <1>3 DEF TaskDropped
    <2> QED
        BY <1>0, <1>3, <2>1, DropFrame DEF FeedsWatched, Current, TypeOK
<1>4. ASSUME NEW s \in Sessions, Agent(s) PROVE FeedsWatched'
    <2>1. feeds' = feeds
        BY <1>4 DEF Agent, AgentCalls, CallLands, AgentExits
    <2> QED
        BY <1>4, <2>1, AgentFrame DEF FeedsWatched, Current
<1>5. ASSUME NEW h \in Handlers, AbortHandler(h) PROVE FeedsWatched'
    <2>1. feeds' = feeds
        BY <1>5
        DEF AbortHandler, AbortLookup, AbortKill, AbortDropped, AbortSettleRun,
            AbortSettleSessions, AbortRecord, memVars
    <2>2. \A r \in Runs : cancel[r] # "no" => cancel'[r] = cancel[r]
        BY <1>5, AbortFrame, TargetAssumption DEF CancelTask, TypeOK
    <2> QED
        BY <1>0, <1>5, <2>1, <2>2, AbortFrame DEF FeedsWatched, Current
<1>6. ASSUME Crash PROVE FeedsWatched'
    BY <1>6 DEF Crash, FeedsWatched
<1>7. ASSUME Boot PROVE FeedsWatched'
    <2>1. feeds' = feeds
        BY <1>7
        DEF Boot, BootSessions, BootSelect, BootFinish, BootRecord, BootServe, memVars
    <2> QED
        BY <1>7, <2>1, BootFrame DEF FeedsWatched, Current
<1> QED
    BY <1>1, <1>2, <1>3, <1>4, <1>5, <1>6, <1>7 DEF Next

(* "The stream ends when the session does" (http/operate.rs:72-73) is true *)
(* of every session but one whose task was dropped after an abort; and a   *)
(* run never has a feed for any other session than the one it waits for.   *)
THEOREM StreamsEndUnlessAborted == Spec => []FeedsWatched
<1>1. Init => FeedsWatched
    BY DEF Init, FeedsWatched
<1>2. ASSUME RunInv, FeedsWatched, [Next]_vars PROVE FeedsWatched'
    <2>1. CASE Next
        BY <1>2, <2>1, KeepFeeds DEF RunInv, SlotInv
    <2>2. CASE UNCHANGED vars
        BY <1>2, <2>2 DEF vars, taskVars, memVars, FeedsWatched, Current
    <2> QED
        BY <1>2, <2>1, <2>2
<1> QED
    BY <1>1, <1>2, RunInvAlways, PTL DEF Spec

(* An aborted run is overruled by nobody but its own task, at the UPDATE   *)
(* that finishes the run: one that was cancelled too late to stop that     *)
(* statement, or one whose handle the abort could not find yet.            *)
OverruledByTask ==
    [][\A r \in Runs : runStatus[r] = "aborted" /\ runStatus'[r] # "aborted" =>
          /\ task[r] \in {"finish_ok", "finish_err"}
          /\ cancel[r] = "asked" \/ fire[r] # "done" \/ r \in registry]_vars

(* "the dead task can no longer settle" the rows (http/operate.rs:170-172) *)
(* fails in these two orders and in no other: no reclaim, no second fire   *)
(* and no other run's task touches an aborted row.                         *)
THEOREM AbortsOverruled == Spec => OverruledByTask
<1>1. ASSUME RunInv, Next, NEW r \in Runs, runStatus[r] = "aborted", runStatus'[r] # "aborted"
      PROVE  /\ task[r] \in {"finish_ok", "finish_err"}
             /\ cancel[r] = "asked" \/ fire[r] # "done" \/ r \in registry
    <2>0. TypeOK
        BY <1>1 DEF RunInv, SlotInv
    <2>1. ASSUME NEW q \in Runs, Fire(q) PROVE FALSE
        BY <1>1, <2>0, <2>1
        DEF Fire, FireInsert, FireSpawn, FireRegister, FireDropped, dbVars, RunInv,
            FreshRuns, TypeOK
    <2>2. ASSUME NEW q \in Runs, TaskAcquire(q) \/ TaskStep(q)
          PROVE  /\ task[r] \in {"finish_ok", "finish_err"}
                 /\ cancel[r] = "asked" \/ fire[r] # "done" \/ r \in registry
        <3>1. q = r /\ task[r] \in {"finish_ok", "finish_err"}
            BY <1>1, <2>0, <2>2, TaskVerdict DEF TypeOK
        <3>2. cancel[r] \in {"no", "asked"} /\ task[r] \in Live
            BY <2>0, <2>2, <3>1, TaskMoves DEF Moves, TypeOK
        <3> QED
            BY <1>1, <3>1, <3>2 DEF RunInv, LiveTaskAbortable
    <2>3. ASSUME NEW q \in Runs, TaskDropped(q) PROVE FALSE
        BY <1>1, <2>0, <2>3, DropFrame
    <2>4. ASSUME NEW s \in Sessions, Agent(s) PROVE FALSE
        BY <1>1, <2>4, AgentFrame
    <2>5. ASSUME NEW h \in Handlers, AbortHandler(h) PROVE FALSE
        BY <1>1, <2>0, <2>5, AbortFrame DEF TypeOK
    <2>6. ASSUME Crash PROVE FALSE
        BY <1>1, <2>6 DEF Crash, dbVars
    <2>7. ASSUME Boot PROVE FALSE
        <3>1. r \in todo
            BY <1>1, <2>0, <2>7, BootFrame DEF TypeOK
        <3> QED
            BY <1>1, <3>1 DEF RunInv, ReclaimsRunning
    <2> QED
        BY <1>1, <2>1, <2>2, <2>3, <2>4, <2>5, <2>6, <2>7 DEF Next
<1>2. RunInv /\ [Next]_vars =>
        [\A r \in Runs : runStatus[r] = "aborted" /\ runStatus'[r] # "aborted" =>
            /\ task[r] \in {"finish_ok", "finish_err"}
            /\ cancel[r] = "asked" \/ fire[r] # "done" \/ r \in registry]_vars
    BY <1>1
<1> QED
    BY <1>2, RunInvAlways, PTL DEF Spec, OverruledByTask
=============================================================================
