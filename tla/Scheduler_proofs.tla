--------------------------- MODULE Scheduler_proofs ---------------------------
(***************************************************************************)
(* What holds of module Scheduler for any number of runs, stages, slots,   *)
(* abort requests, faults and crashes.  The inductive invariant SlotInv    *)
(* strengthens the slot accounting by what it needs to be inductive: the   *)
(* types, that a run which is not spawned has no task, and that an agent   *)
(* belongs to the stage its task waits for.                                *)
(***************************************************************************)
EXTENDS Scheduler, FiniteSetTheorems, TLAPS

-----------------------------------------------------------------------------
(* Finite sets of holders. *)

LEMMA HoldersFinite ==
    /\ IsFiniteSet(Holders)
    /\ Cardinality(Holders) \in Nat
BY RunsAssumption, FS_Subset, FS_CardinalityType DEF Holders

(* A run that holds a permit leaves room for one more. *)
LEMMA HolderRoom ==
    ASSUME TypeOK, SlotAccounting, NEW r \in Holders
    PROVE  permits + 1 \in 0..Cap
<1>1. Cardinality(Holders \ {r}) = Cardinality(Holders) - 1
    BY HoldersFinite, FS_RemoveElement
<1>2. Cardinality(Holders \ {r}) \in Nat
    BY HoldersFinite, FS_RemoveElement, FS_CardinalityType
<1> QED
    BY <1>1, <1>2, HoldersFinite, CapAssumption DEF TypeOK, SlotAccounting

-----------------------------------------------------------------------------
(* The inductive invariant. *)

(* A run that is not spawned yet has no task. *)
Unspawned == \A r \in Runs : fire[r] \in {"idle", "record"} => task[r] = "none"

(* A live agent belongs to the stage its task is waiting for. *)
AgentsAwaited ==
    \A s \in procs : task[s[1]] = "session" /\ stage[s[1]] = s[2]

SlotInv == TypeOK /\ SlotAccounting /\ Unspawned /\ AgentsAwaited

LEMMA SlotInvInit == Init => SlotInv
<1> SUFFICES ASSUME Init PROVE SlotInv
    OBVIOUS
<1>1. TypeOK
    BY StagesAssumption, CapAssumption, BoundsAssumption
    DEF Init, TypeOK, RunStatus, SessStatus, AuditKinds, TaskPc, Live, Holding, Sessions
<1>2. Holders = {}
    BY DEF Init, Holders, Holding
<1>3. SlotAccounting
    BY <1>2, FS_EmptySet, CapAssumption DEF Init, SlotAccounting
<1>4. Unspawned /\ AgentsAwaited
    BY DEF Init, Unspawned, AgentsAwaited
<1> QED
    BY <1>1, <1>3, <1>4 DEF SlotInv

-----------------------------------------------------------------------------
(* One step keeps the types.                                               *)

LEMMA CurrentInSessions ==
    ASSUME TypeOK, NEW r \in Runs
    PROVE  Current(r) \in Sessions
BY DEF TypeOK, Current, Sessions

LEMMA NoteTables ==
    ASSUME NEW pc \in {"note_started", "note_ok", "note_err"}
    PROVE  NoteKind[pc] \in AuditKinds /\ NoteNext[pc] \in Holding
BY DEF NoteKind, NoteNext, AuditKinds, Holding

(* The shape of a task step: where the cancelled task's counter goes. *)
LEMMA GotoType ==
    ASSUME TypeOK, NEW r \in Runs, NEW pc \in TaskPc, Goto(r, pc)
    PROVE  /\ task' \in [Runs -> TaskPc]
           /\ cancel' \in [Runs -> {"no", "asked", "last"}]
BY DEF TypeOK, Goto

LEMMA StatementType ==
    ASSUME TypeOK, NEW ok \in BOOLEAN, Statement(ok)
    PROVE  faults' \in 0..MaxFaults
BY BoundsAssumption DEF TypeOK, Statement

LEMMA RecordType ==
    ASSUME TypeOK, NEW r \in Runs, NEW kind \in AuditKinds, NEW ok \in BOOLEAN,
           Record(r, kind, ok)
    PROVE  audit' \in [Runs -> SUBSET AuditKinds]
BY DEF TypeOK, Record

LEMMA FinishType ==
    ASSUME TypeOK, NEW r \in Runs, NEW status \in RunStatus, NEW ok \in BOOLEAN,
           FinishRun(r, status, ok)
    PROVE  runStatus' \in [Runs -> RunStatus]
BY DEF TypeOK, FinishRun

LEMMA TypeFire ==
    ASSUME TypeOK, NEW r \in Runs, Fire(r)
    PROVE  TypeOK'
<1>1. ASSUME NEW ok \in BOOLEAN, FireInsert(r, ok) PROVE TypeOK'
    BY <1>1, StatementType
    DEF FireInsert, TypeOK, RunStatus, dbVars, bootVars, taskVars, memVars
<1>2. ASSUME NEW ok \in BOOLEAN, FireSpawn(r, ok) PROVE TypeOK'
    <2>1. "run.started" \in AuditKinds /\ "slot" \in TaskPc
        BY DEF AuditKinds, TaskPc, Live
    <2>2. audit' \in [Runs -> SUBSET AuditKinds]
        BY <1>2, <2>1, RecordType DEF FireSpawn
    <2> QED
        BY <1>2, <2>1, <2>2, StatementType
        DEF FireSpawn, TypeOK, bootVars, memVars
<1>3. ASSUME FireRegister(r) PROVE TypeOK'
    BY <1>3 DEF FireRegister, TypeOK, dbVars, bootVars, taskVars
<1>4. ASSUME FireDropped(r) PROVE TypeOK'
    BY <1>4, BoundsAssumption
    DEF FireDropped, TypeOK, dbVars, bootVars, taskVars, memVars
<1> QED
    BY <1>1, <1>2, <1>3, <1>4 DEF Fire

LEMMA TypeTask ==
    ASSUME TypeOK, SlotAccounting, NEW r \in Runs, TaskAcquire(r) \/ TaskStep(r)
    PROVE  TypeOK'
<1>0. Holding \subseteq TaskPc /\ "done" \in TaskPc
    BY DEF TaskPc, Live
<1>1. ASSUME TaskAcquire(r) PROVE TypeOK'
    <2>1. "insert" \in TaskPc
        BY <1>0 DEF Holding
    <2>2. permits' \in 0..Cap
        BY <1>1, CapAssumption DEF TaskAcquire, TypeOK
    <2> QED
        BY <1>1, <2>1, <2>2, GotoType DEF TaskAcquire, TypeOK, dbVars, bootVars
<1>2. ASSUME NEW ok \in BOOLEAN, TaskInsertSession(r, ok) PROVE TypeOK'
    <2>1. "note_started" \in TaskPc /\ "finish_err" \in TaskPc
        BY <1>0 DEF Holding
    <2>2. sessStatus' \in [Sessions -> SessStatus]
        BY <1>2, CurrentInSessions DEF TaskInsertSession, TypeOK, SessStatus
    <2> QED
        BY <1>2, <2>1, <2>2, GotoType, StatementType
        DEF TaskInsertSession, TypeOK, bootVars, memVars
<1>3. ASSUME NEW ok \in BOOLEAN, NEW pc \in {"note_started", "note_ok", "note_err"},
             TaskNote(r, pc, ok)
      PROVE  TypeOK'
    <2>1. audit' \in [Runs -> SUBSET AuditKinds]
        BY <1>3, NoteTables, RecordType DEF TaskNote
    <2>2. NoteNext[pc] \in TaskPc
        BY <1>0, NoteTables
    <2> QED
        BY <1>3, <2>1, <2>2, GotoType, StatementType
        DEF TaskNote, TypeOK, bootVars, memVars
<1>4. ASSUME NEW ok \in BOOLEAN, TaskLaunch(r, ok) PROVE TypeOK'
    <2>1. "session" \in TaskPc /\ "settle_err" \in TaskPc
        BY <1>0 DEF Holding
    <2> QED
        BY <1>4, <2>1, CurrentInSessions, GotoType
        DEF TaskLaunch, TypeOK, dbVars, bootVars
<1>5. ASSUME NEW ok \in BOOLEAN, TaskReapAgent(r, ok) PROVE TypeOK'
    <2>1. "settle_ok" \in TaskPc /\ "settle_err" \in TaskPc
        BY <1>0 DEF Holding
    <2> QED
        BY <1>5, <2>1, GotoType DEF TaskReapAgent, TypeOK, dbVars, bootVars
<1>6. ASSUME NEW ok \in BOOLEAN, NEW pc \in {"settle_ok", "settle_err"},
             TaskSettleSession(r, pc, ok)
      PROVE  TypeOK'
    <2>1. {"finish_err", "note_ok", "note_err"} \subseteq TaskPc
        BY <1>0 DEF Holding
    <2>2. sessStatus' \in [Sessions -> SessStatus]
        BY <1>6, CurrentInSessions DEF TaskSettleSession, TypeOK, SessStatus
    <2>3. task' \in [Runs -> TaskPc] /\ cancel' \in [Runs -> {"no", "asked", "last"}]
        BY <1>6, <2>1, GotoType DEF TaskSettleSession
    <2> QED
        BY <1>6, <2>2, <2>3, StatementType
        DEF TaskSettleSession, TypeOK, bootVars, memVars
<1>7. ASSUME NEW ok \in BOOLEAN, TaskCheck(r, ok) PROVE TypeOK'
    <2>1. {"insert", "finish_ok", "finish_err"} \subseteq TaskPc
        BY <1>0 DEF Holding
    <2>2. task' \in [Runs -> TaskPc] /\ cancel' \in [Runs -> {"no", "asked", "last"}]
        BY <1>7, <2>1, GotoType DEF TaskCheck
    <2>3. stage' \in [Runs -> 1..Stages]
        BY <1>7, StagesAssumption DEF TaskCheck, TypeOK
    <2> QED
        BY <1>7, <2>2, <2>3, StatementType
        DEF TaskCheck, TypeOK, dbVars, bootVars, memVars
<1>8. ASSUME NEW ok \in BOOLEAN, NEW pc \in {"finish_ok", "finish_err"},
             TaskFinish(r, pc, ok)
      PROVE  TypeOK'
    <2>1. {"record_ok", "record_err"} \subseteq TaskPc
        BY <1>0 DEF Holding
    <2>2. task' \in [Runs -> TaskPc] /\ cancel' \in [Runs -> {"no", "asked", "last"}]
        BY <1>8, <2>1, GotoType DEF TaskFinish
    <2>3. runStatus' \in [Runs -> RunStatus]
        BY <1>8, FinishType DEF TaskFinish, RunStatus
    <2> QED
        BY <1>8, <2>2, <2>3, StatementType
        DEF TaskFinish, TypeOK, bootVars, memVars
<1>9. ASSUME NEW ok \in BOOLEAN, NEW pc \in {"record_ok", "record_err"},
             TaskRecord(r, pc, ok)
      PROVE  TypeOK'
    <2>1. r \in Holders
        BY <1>9 DEF TaskRecord, At, Holders, Holding
    <2>2. permits' \in 0..Cap
        BY <1>9, <2>1, HolderRoom DEF TaskRecord
    <2>3. audit' \in [Runs -> SUBSET AuditKinds]
        BY <1>9, RecordType DEF TaskRecord, AuditKinds
    <2> QED
        BY <1>0, <1>9, <2>2, <2>3, GotoType, StatementType
        DEF TaskRecord, TypeOK, bootVars
<1>10. ASSUME TaskCredentialsFail(r) PROVE TypeOK'
    <2>1. "finish_err" \in TaskPc
        BY <1>0 DEF Holding
    <2> QED
        BY <1>10, <2>1, GotoType
        DEF TaskCredentialsFail, TypeOK, dbVars, bootVars, memVars
<1> QED
    BY <1>1, <1>2, <1>3, <1>4, <1>5, <1>6, <1>7, <1>8, <1>9, <1>10 DEF TaskStep

LEMMA TypeRest ==
    ASSUME TypeOK, SlotAccounting,
           \/ \E r \in Runs : TaskDropped(r)
           \/ \E s \in Sessions : Agent(s)
           \/ \E h \in Handlers : AbortHandler(h)
           \/ Crash \/ Boot
    PROVE  TypeOK'
<1>1. ASSUME NEW r \in Runs, TaskDropped(r) PROVE TypeOK'
    <2>1. permits' \in 0..Cap
        BY <1>1, HolderRoom DEF TaskDropped, PermitsAfterDrop, Holders, TypeOK
    <2>2. "dead" \in TaskPc
        BY DEF TaskPc
    <2> QED
        BY <1>1, <2>1, <2>2
        DEF TaskDropped, ProcsAfterDrop, TypeOK, dbVars, bootVars
<1>2. ASSUME NEW s \in Sessions, Agent(s) PROVE TypeOK'
    BY <1>2
    DEF Agent, AgentCalls, CallLands, AgentExits, TypeOK, dbVars, bootVars, taskVars, memVars
<1>3. ASSUME NEW h \in Handlers, AbortHandler(h) PROVE TypeOK'
    <2>0. Target[h] \in Runs
        BY TargetAssumption
    <2>1. ASSUME AbortLookup(h) PROVE TypeOK'
        BY <2>1 DEF AbortLookup, AbortStep, TypeOK, dbVars, bootVars, taskVars, memVars
    <2>2. ASSUME AbortKill(h) PROVE TypeOK'
        BY <2>0, <2>2 DEF AbortKill, AbortStep, CancelTask, TypeOK, dbVars, bootVars
    <2>3. ASSUME NEW ok \in BOOLEAN, AbortSettleRun(h, ok) PROVE TypeOK'
        <3>1. runStatus' \in [Runs -> RunStatus]
            BY <2>0, <2>3, FinishType DEF AbortSettleRun, RunStatus
        <3> QED
            BY <2>3, <3>1, StatementType
            DEF AbortSettleRun, AbortStep, TypeOK, bootVars, taskVars, memVars
    <2>4. ASSUME NEW ok \in BOOLEAN, AbortSettleSessions(h, ok) PROVE TypeOK'
        <3>1. sessStatus' \in [Sessions -> SessStatus]
            BY <2>4 DEF AbortSettleSessions, TypeOK, SessStatus
        <3> QED
            BY <2>4, <3>1, StatementType
            DEF AbortSettleSessions, AbortStep, TypeOK, bootVars, taskVars, memVars
    <2>5. ASSUME NEW ok \in BOOLEAN, AbortRecord(h, ok) PROVE TypeOK'
        <3>1. audit' \in [Runs -> SUBSET AuditKinds]
            BY <2>0, <2>5, RecordType DEF AbortRecord, AuditKinds
        <3> QED
            BY <2>5, <3>1, StatementType
            DEF AbortRecord, AbortStep, TypeOK, bootVars, taskVars, memVars
    <2>6. ASSUME AbortDropped(h) PROVE TypeOK'
        BY <2>6, BoundsAssumption
        DEF AbortDropped, TypeOK, dbVars, bootVars, taskVars, memVars
    <2> QED
        BY <1>3, <2>1, <2>2, <2>3, <2>4, <2>5, <2>6 DEF AbortHandler
<1>4. ASSUME Crash PROVE TypeOK'
    BY <1>4, CapAssumption, BoundsAssumption DEF Crash, TypeOK, TaskPc, dbVars
<1>5. ASSUME Boot PROVE TypeOK'
    <2>1. ASSUME NEW ok \in BOOLEAN, BootSessions(ok) PROVE TypeOK'
        <3>1. sessStatus' \in [Sessions -> SessStatus]
            BY <2>1 DEF BootSessions, TypeOK, SessStatus
        <3> QED
            BY <2>1, <3>1, StatementType DEF BootSessions, TypeOK, taskVars, memVars
    <2>2. ASSUME NEW ok \in BOOLEAN, BootSelect(ok) PROVE TypeOK'
        BY <2>2, StatementType DEF BootSelect, Orphans, TypeOK, dbVars, taskVars, memVars
    <2>3. ASSUME NEW r \in Runs, NEW ok \in BOOLEAN, BootFinish(r, ok) PROVE TypeOK'
        <3>1. runStatus' \in [Runs -> RunStatus]
            BY <2>3, FinishType DEF BootFinish, RunStatus
        <3> QED
            BY <2>3, <3>1, StatementType DEF BootFinish, TypeOK, taskVars, memVars
    <2>4. ASSUME NEW r \in Runs, NEW ok \in BOOLEAN, BootRecord(r, ok) PROVE TypeOK'
        <3>1. audit' \in [Runs -> SUBSET AuditKinds]
            BY <2>4, RecordType DEF BootRecord, AuditKinds
        <3> QED
            BY <2>4, <3>1, StatementType DEF BootRecord, TypeOK, taskVars, memVars
    <2>5. ASSUME BootServe PROVE TypeOK'
        BY <2>5 DEF BootServe, TypeOK, dbVars, taskVars, memVars
    <2> QED
        BY <1>5, <2>1, <2>2, <2>3, <2>4, <2>5 DEF Boot
<1> QED
    BY <1>1, <1>2, <1>3, <1>4, <1>5

-----------------------------------------------------------------------------
(* One step keeps the books: the steps that change who holds a permit are  *)
(* TaskAcquire, TaskRecord, TaskDropped and Crash.                         *)

LEMMA SameHolders ==
    ASSUME SlotAccounting, permits' = permits,
           \A r \in Runs : task'[r] \in Holding <=> task[r] \in Holding
    PROVE  SlotAccounting'
<1>1. Holders' = Holders
    BY DEF Holders
<1> QED
    BY <1>1 DEF SlotAccounting

(* A permit goes back with the task that held it. *)
LEMMA HolderLeaves ==
    ASSUME TypeOK, SlotAccounting, NEW r \in Holders,
           permits' = permits + 1, NEW pc \in TaskPc \ Holding,
           task' = [task EXCEPT ![r] = pc]
    PROVE  SlotAccounting'
<1>1. Holders' = Holders \ {r}
    BY DEF Holders, TypeOK
<1>2. Cardinality(Holders') = Cardinality(Holders) - 1
    BY <1>1, HoldersFinite, FS_RemoveElement
<1> QED
    BY <1>2, HoldersFinite DEF SlotAccounting, TypeOK

(* A task step between two places that both hold a permit, or neither. *)
LEMMA StepHolders ==
    ASSUME TypeOK, NEW r \in Runs, NEW pc, Goto(r, pc),
           task[r] \in Holding <=> pc \in Holding
    PROVE  \A q \in Runs : task'[q] \in Holding <=> task[q] \in Holding
BY DEF Goto, TypeOK

LEMMA SlotTask ==
    ASSUME TypeOK, SlotAccounting, NEW r \in Runs, TaskStep(r)
    PROVE  SlotAccounting'
<1>1. ASSUME NEW ok \in BOOLEAN, TaskInsertSession(r, ok) PROVE SlotAccounting'
    BY <1>1, StepHolders, SameHolders DEF TaskInsertSession, At, memVars, Holding
<1>2. ASSUME NEW ok \in BOOLEAN, NEW pc \in {"note_started", "note_ok", "note_err"},
             TaskNote(r, pc, ok)
      PROVE  SlotAccounting'
    <2>1. pc \in Holding
        BY DEF Holding
    <2> QED
        BY <1>2, <2>1, NoteTables, StepHolders, SameHolders DEF TaskNote, At, memVars
<1>3. ASSUME NEW ok \in BOOLEAN, TaskLaunch(r, ok) PROVE SlotAccounting'
    BY <1>3, StepHolders, SameHolders DEF TaskLaunch, At, Holding
<1>4. ASSUME NEW ok \in BOOLEAN, TaskReapAgent(r, ok) PROVE SlotAccounting'
    BY <1>4, StepHolders, SameHolders DEF TaskReapAgent, At, Holding
<1>5. ASSUME NEW ok \in BOOLEAN, NEW pc \in {"settle_ok", "settle_err"},
             TaskSettleSession(r, pc, ok)
      PROVE  SlotAccounting'
    BY <1>5, StepHolders, SameHolders DEF TaskSettleSession, At, memVars, Holding
<1>6. ASSUME NEW ok \in BOOLEAN, TaskCheck(r, ok) PROVE SlotAccounting'
    BY <1>6, StepHolders, SameHolders DEF TaskCheck, At, memVars, Holding
<1>7. ASSUME NEW ok \in BOOLEAN, NEW pc \in {"finish_ok", "finish_err"},
             TaskFinish(r, pc, ok)
      PROVE  SlotAccounting'
    BY <1>7, StepHolders, SameHolders DEF TaskFinish, At, memVars, Holding
<1>8. ASSUME NEW ok \in BOOLEAN, NEW pc \in {"record_ok", "record_err"},
             TaskRecord(r, pc, ok)
      PROVE  SlotAccounting'
    <2>1. r \in Holders /\ "done" \in TaskPc \ Holding
        BY <1>8 DEF TaskRecord, At, Holders, Holding, TaskPc
    <2> QED
        BY <1>8, <2>1, HolderLeaves DEF TaskRecord, Goto
<1>9. ASSUME TaskCredentialsFail(r) PROVE SlotAccounting'
    BY <1>9, StepHolders, SameHolders DEF TaskCredentialsFail, At, memVars, Holding
<1> QED
    BY <1>1, <1>2, <1>3, <1>4, <1>5, <1>6, <1>7, <1>8, <1>9 DEF TaskStep

LEMMA SlotAcquire ==
    ASSUME TypeOK, SlotAccounting, NEW r \in Runs, TaskAcquire(r)
    PROVE  SlotAccounting'
<1>1. r \notin Holders /\ Holders' = Holders \cup {r}
    BY DEF TaskAcquire, At, Goto, Holders, Holding, TypeOK
<1>2. Cardinality(Holders') = Cardinality(Holders) + 1
    BY <1>1, HoldersFinite, FS_AddElement
<1> QED
    BY <1>2, HoldersFinite, CapAssumption DEF TaskAcquire, SlotAccounting, TypeOK

LEMMA SlotRest ==
    ASSUME TypeOK, SlotAccounting, Unspawned,
           \/ \E r \in Runs : Fire(r) \/ TaskDropped(r)
           \/ \E s \in Sessions : Agent(s)
           \/ \E h \in Handlers : AbortHandler(h)
           \/ Crash \/ Boot
    PROVE  SlotAccounting'
<1>1. ASSUME NEW r \in Runs, Fire(r) PROVE SlotAccounting'
    <2>1. \A q \in Runs : task'[q] \in Holding <=> task[q] \in Holding
        BY <1>1
        DEF Fire, FireInsert, FireSpawn, FireRegister, FireDropped, taskVars,
            Unspawned, TypeOK, Holding
    <2>2. permits' = permits
        BY <1>1 DEF Fire, FireInsert, FireSpawn, FireRegister, FireDropped, memVars
    <2> QED
        BY <2>1, <2>2, SameHolders
<1>2. ASSUME NEW r \in Runs, TaskDropped(r) PROVE SlotAccounting'
    <2>1. CASE task[r] \in Holding
        <3>1. r \in Holders /\ "dead" \in TaskPc \ Holding
            BY <2>1 DEF Holders, TaskPc, Holding
        <3> QED
            BY <1>2, <2>1, <3>1, HolderLeaves DEF TaskDropped, PermitsAfterDrop
    <2>2. CASE task[r] \notin Holding
        BY <1>2, <2>2, SameHolders DEF TaskDropped, PermitsAfterDrop, TypeOK, Holding
    <2> QED
        BY <2>1, <2>2
<1>3. ASSUME NEW s \in Sessions, Agent(s) PROVE SlotAccounting'
    BY <1>3, SameHolders DEF Agent, AgentCalls, CallLands, AgentExits, taskVars, memVars
<1>4. ASSUME NEW h \in Handlers, AbortHandler(h) PROVE SlotAccounting'
    BY <1>4, SameHolders
    DEF AbortHandler, AbortLookup, AbortKill, AbortSettleRun, AbortSettleSessions,
        AbortRecord, AbortDropped, taskVars, memVars
<1>5. ASSUME Crash PROVE SlotAccounting'
    <2>1. Holders' = {}
        BY <1>5 DEF Crash, Holders, Live, Holding
    <2> QED
        BY <1>5, <2>1, FS_EmptySet, CapAssumption DEF Crash, SlotAccounting
<1>6. ASSUME Boot PROVE SlotAccounting'
    BY <1>6, SameHolders
    DEF Boot, BootSessions, BootSelect, BootFinish, BootRecord, BootServe, taskVars,
        memVars
<1> QED
    BY <1>1, <1>2, <1>3, <1>4, <1>5, <1>6

-----------------------------------------------------------------------------
(* One step keeps a fired run and its task, and a task and its agent,      *)
(* together.                                                               *)

LEMMA KeepUnspawned ==
    ASSUME TypeOK, Unspawned, Next
    PROVE  Unspawned'
<1>1. ASSUME NEW r \in Runs, Fire(r) PROVE Unspawned'
    BY <1>1
    DEF Fire, FireInsert, FireSpawn, FireRegister, FireDropped, taskVars, Unspawned,
        TypeOK
<1>2. ASSUME NEW r \in Runs, NEW pc, task[r] # "none", Goto(r, pc), fire' = fire
      PROVE  Unspawned'
    BY <1>2 DEF Goto, Unspawned, TypeOK
<1>3. ASSUME NEW r \in Runs, TaskAcquire(r) PROVE Unspawned'
    BY <1>2, <1>3 DEF TaskAcquire, At
<1>4. ASSUME NEW r \in Runs, TaskStep(r) PROVE Unspawned'
    <2>1. task[r] # "none" /\ fire' = fire
        BY <1>4
        DEF TaskStep, TaskInsertSession, TaskNote, TaskLaunch, TaskReapAgent,
            TaskSettleSession, TaskCheck, TaskFinish, TaskRecord, TaskCredentialsFail, At
    <2>2. \E pc : Goto(r, pc)
        BY <1>4
        DEF TaskStep, TaskInsertSession, TaskNote, TaskLaunch, TaskReapAgent,
            TaskSettleSession, TaskCheck, TaskFinish, TaskRecord, TaskCredentialsFail
    <2> QED
        BY <1>2, <2>1, <2>2
<1>5. ASSUME NEW r \in Runs, TaskDropped(r) PROVE Unspawned'
    BY <1>5 DEF TaskDropped, Unspawned, TypeOK, Live, Holding
<1>6. ASSUME NEW s \in Sessions, Agent(s) PROVE Unspawned'
    BY <1>6 DEF Agent, AgentCalls, CallLands, AgentExits, taskVars, Unspawned
<1>7. ASSUME NEW h \in Handlers, AbortHandler(h) PROVE Unspawned'
    BY <1>7
    DEF AbortHandler, AbortLookup, AbortKill, AbortSettleRun, AbortSettleSessions,
        AbortRecord, AbortDropped, taskVars, Unspawned
<1>8. ASSUME Crash PROVE Unspawned'
    BY <1>8 DEF Crash, Unspawned, TypeOK, Live, Holding
<1>9. ASSUME Boot PROVE Unspawned'
    BY <1>9
    DEF Boot, BootSessions, BootSelect, BootFinish, BootRecord, BootServe, taskVars,
        Unspawned
<1> QED
    BY <1>1, <1>3, <1>4, <1>5, <1>6, <1>7, <1>8, <1>9 DEF Next

(* A step of a task whose agent is not awaited, before it or after it,     *)
(* touches no agent.                                                       *)
LEMMA OtherTaskStep ==
    ASSUME TypeOK, AgentsAwaited, NEW r \in Runs, NEW pc, Goto(r, pc),
           task[r] # "session", procs' = procs,
           stage' = stage \/ \E i : stage' = [stage EXCEPT ![r] = i]
    PROVE  AgentsAwaited'
<1> SUFFICES ASSUME NEW s \in procs' PROVE task'[s[1]] = "session" /\ stage'[s[1]] = s[2]
    BY DEF AgentsAwaited
<1>1. s \in procs /\ s[1] \in Runs
    BY DEF TypeOK, Sessions
<1>2. s[1] # r
    BY <1>1 DEF AgentsAwaited
<1> QED
    BY <1>1, <1>2 DEF AgentsAwaited, Goto, TypeOK

LEMMA KeepAwaited ==
    ASSUME TypeOK, Unspawned, AgentsAwaited, Next
    PROVE  AgentsAwaited'
<1>0. \A s \in procs : s[1] \in Runs /\ s[2] \in 1..Stages /\ s = <<s[1], s[2]>>
    BY DEF TypeOK, Sessions
<1>1. ASSUME NEW r \in Runs, Fire(r) PROVE AgentsAwaited'
    BY <1>0, <1>1
    DEF Fire, FireInsert, FireSpawn, FireRegister, FireDropped, taskVars, memVars,
        Unspawned, AgentsAwaited, TypeOK
<1>2. ASSUME NEW r \in Runs, TaskAcquire(r) PROVE AgentsAwaited'
    BY <1>2, OtherTaskStep DEF TaskAcquire, At
<1>3. ASSUME NEW r \in Runs, TaskStep(r) PROVE AgentsAwaited'
    <2>1. ASSUME NEW ok \in BOOLEAN, TaskLaunch(r, ok) PROVE AgentsAwaited'
        BY <1>0, <2>1 DEF TaskLaunch, At, Goto, Current, AgentsAwaited, TypeOK
    <2>2. ASSUME NEW ok \in BOOLEAN, TaskReapAgent(r, ok) PROVE AgentsAwaited'
        <3>1. \A s \in procs : s[1] # r
            BY <1>0, <2>2 DEF TaskReapAgent, Current, AgentsAwaited
        <3> QED
            BY <1>0, <2>2, <3>1 DEF TaskReapAgent, Goto, AgentsAwaited, TypeOK
    <2>3. ASSUME NEW ok \in BOOLEAN,
                 \/ TaskInsertSession(r, ok) \/ TaskCheck(r, ok)
                 \/ \E pc \in {"note_started", "note_ok", "note_err"} : TaskNote(r, pc, ok)
                 \/ \E pc \in {"settle_ok", "settle_err"} : TaskSettleSession(r, pc, ok)
                 \/ \E pc \in {"finish_ok", "finish_err"} : TaskFinish(r, pc, ok)
                 \/ \E pc \in {"record_ok", "record_err"} : TaskRecord(r, pc, ok)
                 \/ TaskCredentialsFail(r)
          PROVE  AgentsAwaited'
        <3>1. task[r] # "session" /\ procs' = procs
            BY <2>3
            DEF TaskInsertSession, TaskCheck, TaskNote, TaskSettleSession, TaskFinish,
                TaskRecord, TaskCredentialsFail, At, memVars
        <3>2. \E pc : Goto(r, pc)
            BY <2>3
            DEF TaskInsertSession, TaskCheck, TaskNote, TaskSettleSession, TaskFinish,
                TaskRecord, TaskCredentialsFail
        <3>3. stage' = stage \/ \E i : stage' = [stage EXCEPT ![r] = i]
            BY <2>3
            DEF TaskInsertSession, TaskCheck, TaskNote, TaskSettleSession, TaskFinish,
                TaskRecord, TaskCredentialsFail
        <3> QED
            BY <3>1, <3>2, <3>3, OtherTaskStep
    <2> QED
        BY <1>3, <2>1, <2>2, <2>3 DEF TaskStep
<1>4. ASSUME NEW r \in Runs, TaskDropped(r) PROVE AgentsAwaited'
    BY <1>0, <1>4 DEF TaskDropped, ProcsAfterDrop, Current, AgentsAwaited, TypeOK
<1>5. ASSUME NEW s \in Sessions, Agent(s) PROVE AgentsAwaited'
    BY <1>5 DEF Agent, AgentCalls, CallLands, AgentExits, taskVars, memVars, AgentsAwaited
<1>6. ASSUME NEW h \in Handlers, AbortHandler(h) PROVE AgentsAwaited'
    BY <1>6
    DEF AbortHandler, AbortLookup, AbortKill, AbortSettleRun, AbortSettleSessions,
        AbortRecord, AbortDropped, taskVars, memVars, AgentsAwaited
<1>7. ASSUME Crash PROVE AgentsAwaited'
    BY <1>7 DEF Crash, AgentsAwaited
<1>8. ASSUME Boot PROVE AgentsAwaited'
    BY <1>8
    DEF Boot, BootSessions, BootSelect, BootFinish, BootRecord, BootServe, taskVars,
        memVars, AgentsAwaited
<1> QED
    BY <1>1, <1>2, <1>3, <1>4, <1>5, <1>6, <1>7, <1>8 DEF Next

-----------------------------------------------------------------------------
LEMMA SlotInvStep == SlotInv /\ [Next]_vars => SlotInv'
<1> SUFFICES ASSUME SlotInv, [Next]_vars PROVE SlotInv'
    OBVIOUS
<1>1. CASE Next
    <2>1. TypeOK'
        BY <1>1, TypeFire, TypeTask, TypeRest DEF Next, SlotInv
    <2>2. SlotAccounting'
        BY <1>1, SlotTask, SlotAcquire, SlotRest DEF Next, SlotInv
    <2>3. Unspawned' /\ AgentsAwaited'
        BY <1>1, KeepUnspawned, KeepAwaited DEF SlotInv
    <2> QED
        BY <2>1, <2>2, <2>3 DEF SlotInv
<1>2. CASE UNCHANGED vars
    <2>1. Holders' = Holders
        BY <1>2 DEF vars, taskVars, Holders
    <2>2. TypeOK' /\ Unspawned' /\ AgentsAwaited'
        BY <1>2
        DEF SlotInv, vars, dbVars, bootVars, taskVars, memVars, TypeOK, Unspawned,
            AgentsAwaited
    <2> QED
        BY <1>2, <2>1, <2>2 DEF SlotInv, SlotAccounting, vars, memVars
<1> QED
    BY <1>1, <1>2

LEMMA SlotInvAlways == Spec => []SlotInv
BY SlotInvInit, SlotInvStep, PTL DEF Spec

(* Every variable stays in its type; in particular the semaphore never has *)
(* more permits than the configured cap (state.rs:77).                     *)
THEOREM TypeCorrect == Spec => []TypeOK
BY SlotInvAlways, PTL DEF SlotInv

(* Every permit is free or held by a live task, however tasks end: by      *)
(* returning, by an abort at any await, or with the process.               *)
THEOREM SlotsAccounted == Spec => []SlotAccounting
BY SlotInvAlways, PTL DEF SlotInv

(* At most Cap agents are alive: each belongs to a task of its own that    *)
(* holds a permit (state.rs:56-59).                                        *)
LEMMA AgentsWithinCap == SlotInv => LiveWithinCap
<1> SUFFICES ASSUME SlotInv PROVE LiveWithinCap
    OBVIOUS
<1> DEFINE owner == [s \in procs |-> s[1]]
<1>1. \A s \in procs : s \in Sessions
    BY DEF SlotInv, TypeOK
<1>2. \A s \in procs : s[1] \in Holders /\ s = <<s[1], stage[s[1]]>>
    BY <1>1 DEF SlotInv, AgentsAwaited, Holders, Holding, Sessions
<1>3. owner \in Injection(procs, Holders)
    BY <1>2 DEF Injection, IsInjective
<1>4. Cardinality(procs) <= Cardinality(Holders) /\ IsFiniteSet(procs)
    BY <1>3, HoldersFinite, FS_Injection
<1>5. Cardinality(procs) \in Nat
    BY <1>4, FS_CardinalityType
<1> QED
    BY <1>4, <1>5, HoldersFinite, CapAssumption
    DEF SlotInv, SlotAccounting, TypeOK, LiveWithinCap

THEOREM CapRespected == Spec => []LiveWithinCap
BY SlotInvAlways, AgentsWithinCap, PTL
=============================================================================
