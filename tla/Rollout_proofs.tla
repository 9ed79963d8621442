--------------------------- MODULE Rollout_proofs ---------------------------
(***************************************************************************)
(* Theorems about module Rollout, for any number of deployments, migration *)
(* files, runs, crashes and failed statements.                             *)
(*                                                                         *)
(* The inductive invariant says where a boot stands: a process that is at  *)
(* file n has the files before n, unless somebody else resets the schema;  *)
(* if deployments do not overlap, one process at a time is alive, tasks    *)
(* live in the serving one, and what it still has to finish or reclaim is  *)
(* running.                                                                *)
(***************************************************************************)
EXTENDS Rollout, TLAPS

-----------------------------------------------------------------------------
(* Types *)

LEMMA InitType == Init => TypeOK
  <1> SUFFICES ASSUME Init PROVE TypeOK
    OBVIOUS
  <1>1. ledger \in BOOLEAN /\ applied \subseteq 1..Files /\ present \subseteq 1..Files
    BY DEF Init
  <1>2. /\ row \in [Runs -> {"none", "running", "completed", "failed", "gone"}]
        /\ pc \in [Deploys -> Alive \cup {"waiting", "exited", "stopped", "failed"}]
    BY DEF Init
  <1>3. file \in [Deploys -> 1..Files] /\ tx \in [Deploys -> 0..Files]
    <2>1. 1 \in 1..Files /\ 0 \in 0..Files
      BY FilesAssumption
    <2> QED BY <2>1 DEF Init
  <1>4. todo \in [Deploys -> SUBSET Runs] /\ tasks \in [Deploys -> SUBSET Runs]
    BY DEF Init
  <1>5. mode \in Modes /\ resets \in ResetPlans
    BY DEF Init
  <1>6. active \in 0..Last
    BY LastAssumption DEF Init
  <1>7. retries \in [Deploys -> 0..MaxRetries] /\ crashes \in 0..MaxCrashes /\ faults \in 0..MaxFaults
    <2>1. 0 \in 0..MaxRetries /\ 0 \in 0..MaxCrashes /\ 0 \in 0..MaxFaults
      BY BoundsAssumption
    <2> QED BY <2>1 DEF Init
  <1>8. wiped \subseteq Deploys
    BY DEF Init
  <1> QED BY <1>1, <1>2, <1>3, <1>4, <1>5, <1>6, <1>7, <1>8 DEF TypeOK

(* What ends a process keeps the types of what it touches. *)
LEMMA EndsType ==
  ASSUME TypeOK, NEW d \in Deploys, NEW to \in {"exited", "stopped", "failed"}, Ends(d, to)
  PROVE  /\ pc' \in [Deploys -> Alive \cup {"waiting", "exited", "stopped", "failed"}]
         /\ tx' \in [Deploys -> 0..Files]
         /\ todo' \in [Deploys -> SUBSET Runs] /\ tasks' \in [Deploys -> SUBSET Runs]
  <1>1. 0 \in 0..Files
    BY FilesAssumption
  <1> QED BY <1>1 DEF TypeOK, Ends

LEMMA ExitsType ==
  ASSUME TypeOK, NEW d \in Deploys, Exits(d)
  PROVE  /\ pc' \in [Deploys -> Alive \cup {"waiting", "exited", "stopped", "failed"}]
         /\ tx' \in [Deploys -> 0..Files]
         /\ todo' \in [Deploys -> SUBSET Runs] /\ tasks' \in [Deploys -> SUBSET Runs]
  <1>1. CASE retries[d] < MaxRetries
    BY <1>1, EndsType DEF Exits
  <1>2. CASE ~(retries[d] < MaxRetries)
    BY <1>2, EndsType DEF Exits
  <1> QED BY <1>1, <1>2

(* A process that exited may be restarted once more. *)
RetriesLeft == \A d \in Deploys : pc[d] = "exited" => retries[d] < MaxRetries

LEMMA TypeStep ==
  ASSUME TypeOK, RetriesLeft, Next PROVE TypeOK'
  <1>1. PICK d \in Deploys :
        \/ Boot(d) \/ StatementFails(d)
        \/ Deploy(d) \/ Promote(d) \/ Stop(d) \/ Crash(d) \/ Restart(d)
        \/ \E r \in Runs : \/ Fire(d, r)
                           \/ \E status \in {"completed", "failed"} : TaskEnds(d, r, status)
    BY DEF Next
  <1>2. BootPc(d) \in {"reset", "ledger"} /\ AfterFile(d) \in {"check", "select"}
    BY DEF BootPc, AfterFile
  <1>3. file[d] \in 1..Files /\ file[d] \in 0..Files /\ Files \in Nat /\ d \in 1..Last /\ Last \in Nat
    BY FilesAssumption, LastAssumption DEF TypeOK, Deploys
  <1>4. NextFile(d) =>
           /\ file' \in [Deploys -> 1..Files]
           /\ pc' \in [Deploys -> Alive \cup {"waiting", "exited", "stopped", "failed"}]
           /\ todo' = todo /\ tasks' = tasks
    <2> SUFFICES ASSUME NextFile(d)
                 PROVE  /\ file' \in [Deploys -> 1..Files]
                        /\ pc' \in [Deploys -> Alive \cup {"waiting", "exited", "stopped", "failed"}]
                        /\ todo' = todo /\ tasks' = tasks
      OBVIOUS
    <2>1. (IF file[d] < Files THEN file[d] + 1 ELSE file[d]) \in 1..Files
      BY <1>3
    <2>2. file' \in [Deploys -> 1..Files]
      BY <2>1 DEF NextFile, TypeOK
    <2>3. pc' = [pc EXCEPT ![d] = AfterFile(d)] /\ todo' = todo /\ tasks' = tasks
      BY DEF NextFile, Goto
    <2> QED BY <1>2, <2>2, <2>3 DEF TypeOK, Alive, Booting, Migrating
  <1>5. CASE Reset(d)
    BY <1>5 DEF TypeOK, Reset, Goto, platformVars, Alive, Booting, Migrating
  <1>6. CASE CreateLedger(d)
    <2>1. 1 \in 1..Files
      BY FilesAssumption
    <2> QED BY <1>6, <2>1 DEF TypeOK, CreateLedger, Goto, platformVars, Alive, Booting, Migrating
  <1>7. CASE Check(d)
    <2>1. CASE ~ledger /\ BootFails(d)
      BY <1>7, <2>1, ExitsType DEF TypeOK, Check, BootFails, platformVars
    <2>2. CASE NextFile(d) /\ UNCHANGED <<row, tx>>
      BY <1>4, <1>7, <2>2 DEF TypeOK, Check, platformVars
    <2>3. CASE Goto(d, "ddl") /\ UNCHANGED <<file, row, tx>>
      BY <1>7, <2>3 DEF TypeOK, Check, Goto, platformVars, Alive, Booting, Migrating
    <2> QED BY <1>7, <2>1, <2>2, <2>3 DEF Check
  <1>8. CASE Ddl(d)
    <2>1. CASE BootFails(d) /\ UNCHANGED present
      BY <1>8, <2>1, ExitsType DEF TypeOK, Ddl, BootFails, platformVars
    <2>2. CASE /\ tx' = [tx EXCEPT ![d] = file[d]] /\ present' = PresentEarly(d)
               /\ Goto(d, "commit") /\ UNCHANGED <<file, row>>
      BY <1>3, <1>8, <2>2
      DEF TypeOK, Ddl, PresentEarly, Goto, platformVars, Alive, Booting, Migrating
    <2> QED BY <1>8, <2>1, <2>2 DEF Ddl
  <1>9. CASE Commit(d)
    <2>1. CASE BootFails(d) /\ UNCHANGED <<applied, present>>
      BY <1>9, <2>1, ExitsType DEF TypeOK, Commit, BootFails, platformVars
    <2>2. CASE /\ applied' = applied \cup {file[d]} /\ present' = present \cup {file[d]}
               /\ tx' = [tx EXCEPT ![d] = 0] /\ NextFile(d) /\ UNCHANGED row
      <3>1. 0 \in 0..Files
        BY <1>3
      <3> QED BY <1>3, <1>4, <1>9, <2>2, <3>1 DEF TypeOK, Commit, platformVars
    <2> QED BY <1>9, <2>1, <2>2 DEF Commit
  <1>10. CASE ReclaimSelect(d)
    BY <1>10 DEF TypeOK, ReclaimSelect, Orphans, dbVars, platformVars, Alive, Booting, Migrating
  <1>11. ASSUME NEW r \in Runs, ReclaimFinish(d, r) PROVE TypeOK'
    BY <1>11 DEF TypeOK, ReclaimFinish, FinishRow, platformVars
  <1>12. CASE Serve(d)
    BY <1>12 DEF TypeOK, Serve, Goto, dbVars, platformVars, Alive, Booting, Migrating
  <1>13. CASE StatementFails(d)
    <2>1. faults' \in 0..MaxFaults
      BY <1>13, BoundsAssumption DEF TypeOK, StatementFails
    <2>2. CASE BootFails(d)
      BY <1>13, <2>1, <2>2, ExitsType DEF TypeOK, StatementFails, BootFails, platformVars
    <2>3. CASE Goto(d, "serving") /\ UNCHANGED <<file, tx, row>>
      BY <1>13, <2>1, <2>3
      DEF TypeOK, StatementFails, Goto, platformVars, Alive, Booting, Migrating
    <2>4. CASE /\ \E r \in todo[d] : todo' = [todo EXCEPT ![d] = @ \ {r}]
               /\ UNCHANGED <<pc, file, tx, tasks, row>>
      BY <1>13, <2>1, <2>4 DEF TypeOK, StatementFails, platformVars
    <2> QED BY <1>13, <2>2, <2>3, <2>4 DEF StatementFails
  <1>14. ASSUME NEW r \in Runs, Fire(d, r) PROVE TypeOK'
    BY <1>14 DEF TypeOK, Fire, platformVars
  <1>15. ASSUME NEW r \in Runs, NEW status \in {"completed", "failed"}, TaskEnds(d, r, status)
         PROVE  TypeOK'
    BY <1>15 DEF TypeOK, TaskEnds, FinishRow, platformVars
  <1>16. CASE Deploy(d)
    BY <1>2, <1>16 DEF TypeOK, Deploy, dbVars, platformVars, Alive, Booting, Migrating
  <1>17. CASE Promote(d)
    BY <1>3, <1>17 DEF TypeOK, Promote, dbVars
  <1>18. CASE Stop(d)
    BY <1>18, EndsType DEF TypeOK, Stop, dbVars, platformVars
  <1>19. CASE Crash(d)
    <2>1. crashes' \in 0..MaxCrashes
      BY <1>19, BoundsAssumption DEF TypeOK, Crash
    <2> QED BY <1>19, <2>1, ExitsType DEF TypeOK, Crash, dbVars
  <1>20. CASE Restart(d)
    <2>1. retries[d] + 1 \in 0..MaxRetries
      BY <1>20, BoundsAssumption DEF TypeOK, RetriesLeft, Restart
    <2> QED BY <1>2, <1>20, <2>1 DEF TypeOK, Restart, dbVars, platformVars, Alive, Booting, Migrating
  <1> QED
    BY <1>1, <1>5, <1>6, <1>7, <1>8, <1>9, <1>10, <1>11, <1>12, <1>13, <1>14, <1>15, <1>16,
       <1>17, <1>18, <1>19, <1>20 DEF Boot

(* What holds of each process by itself. *)
Local(d) ==
    /\ pc[d] = "exited" => retries[d] < MaxRetries
    /\ pc[d] = "reset" => d \in resets
    /\ tasks[d] # {} => pc[d] = "serving"
    /\ todo[d] # {} => pc[d] = "finish"

LEMMA LocalStep ==
  ASSUME TypeOK, \A d \in Deploys : Local(d), Next
  PROVE  \A e \in Deploys : Local(e)'
  <1>1. PICK d \in Deploys :
        \/ Boot(d) \/ StatementFails(d)
        \/ Deploy(d) \/ Promote(d) \/ Stop(d) \/ Crash(d) \/ Restart(d)
        \/ \E r \in Runs : \/ Fire(d, r)
                           \/ \E status \in {"completed", "failed"} : TaskEnds(d, r, status)
    BY DEF Next
  <1>2. CASE Reset(d)
    BY <1>2, BoundsAssumption
    DEF Reset, Goto, platformVars, TypeOK, Local
  <1>3. CASE CreateLedger(d)
    BY <1>3, BoundsAssumption
    DEF CreateLedger, Goto, platformVars, TypeOK, Local
  <1>4. CASE Check(d)
    BY <1>4, BoundsAssumption
    DEF Check, BootFails, Exits, Ends, NextFile, AfterFile, Goto, platformVars,
       TypeOK, Local
  <1>5. CASE Ddl(d)
    BY <1>5, BoundsAssumption
    DEF Ddl, BootFails, Exits, Ends, PresentEarly, Goto, platformVars, TypeOK, Local
  <1>6. CASE Commit(d)
    BY <1>6, BoundsAssumption
    DEF Commit, BootFails, Exits, Ends, NextFile, AfterFile, Goto, platformVars,
       TypeOK, Local
  <1>7. CASE ReclaimSelect(d)
    BY <1>7, BoundsAssumption
    DEF ReclaimSelect, Orphans, dbVars, platformVars, TypeOK, Local
  <1>8. ASSUME NEW r \in Runs, ReclaimFinish(d, r) PROVE \A e \in Deploys : Local(e)'
    BY <1>8, BoundsAssumption
    DEF ReclaimFinish, FinishRow, platformVars, TypeOK, Local
  <1>9. CASE Serve(d)
    BY <1>9, BoundsAssumption
    DEF Serve, Goto, dbVars, platformVars, TypeOK, Local
  <1>10. CASE StatementFails(d)
    BY <1>10, BoundsAssumption
    DEF StatementFails, BootFails, Exits, Ends, Goto, platformVars, TypeOK, Local
  <1>11. ASSUME NEW r \in Runs, Fire(d, r) PROVE \A e \in Deploys : Local(e)'
    BY <1>11, BoundsAssumption
    DEF Fire, platformVars, TypeOK, Local
  <1>12. ASSUME NEW r \in Runs, NEW status \in {"completed", "failed"}, TaskEnds(d, r, status)
         PROVE  \A e \in Deploys : Local(e)'
    BY <1>12, BoundsAssumption
    DEF TaskEnds, FinishRow, platformVars, TypeOK, Local
  <1>13. CASE Deploy(d)
    BY <1>13, BoundsAssumption
    DEF Deploy, BootPc, dbVars, platformVars, TypeOK, Local
  <1>14. CASE Promote(d)
    BY <1>14, BoundsAssumption
    DEF Promote, dbVars, TypeOK, Local
  <1>15. CASE Stop(d)
    BY <1>15, BoundsAssumption
    DEF Stop, Ends, dbVars, platformVars, TypeOK, Local
  <1>16. CASE Crash(d)
    BY <1>16, BoundsAssumption
    DEF Crash, Exits, Ends, dbVars, TypeOK, Local
  <1>17. CASE Restart(d)
    BY <1>17, BoundsAssumption
    DEF Restart, BootPc, dbVars, platformVars, TypeOK, Local
  <1> QED
    BY <1>1, <1>2, <1>3, <1>4, <1>5, <1>6, <1>7, <1>8, <1>9, <1>10, <1>11, <1>12,
       <1>13, <1>14, <1>15, <1>16, <1>17 DEF Boot

(* A process at file n has the files before it, unless the schema was      *)
(* dropped since it began.                                                 *)
Progress(d) ==
    /\ pc[d] \in {"check", "ddl", "commit"} => 1..(file[d] - 1) \subseteq applied
    /\ pc[d] \in {"select", "finish", "serving"} => 1..Files \subseteq applied

LEMMA RecordedStep ==
  ASSUME TypeOK, RecordedIffPresent, Next
  PROVE  RecordedIffPresent'
  <1>1. PICK d \in Deploys :
        \/ Boot(d) \/ StatementFails(d)
        \/ Deploy(d) \/ Promote(d) \/ Stop(d) \/ Crash(d) \/ Restart(d)
        \/ \E r \in Runs : \/ Fire(d, r)
                           \/ \E status \in {"completed", "failed"} : TaskEnds(d, r, status)
    BY DEF Next
  <1>2. CASE Reset(d)
    BY <1>2
    DEF Reset, Goto, platformVars, RecordedIffPresent
  <1>3. CASE CreateLedger(d)
    BY <1>3
    DEF CreateLedger, Goto, platformVars, RecordedIffPresent
  <1>4. CASE Check(d)
    BY <1>4
    DEF Check, BootFails, Exits, Ends, NextFile, AfterFile, Goto, platformVars,
       RecordedIffPresent
  <1>5. CASE Ddl(d)
    BY <1>5
    DEF Ddl, BootFails, Exits, Ends, PresentEarly, Goto, platformVars,
       RecordedIffPresent
  <1>6. CASE Commit(d)
    BY <1>6
    DEF Commit, BootFails, Exits, Ends, NextFile, AfterFile, Goto, platformVars,
       RecordedIffPresent
  <1>7. CASE ReclaimSelect(d)
    BY <1>7
    DEF ReclaimSelect, Orphans, dbVars, platformVars, RecordedIffPresent
  <1>8. ASSUME NEW r \in Runs, ReclaimFinish(d, r) PROVE RecordedIffPresent'
    BY <1>8
    DEF ReclaimFinish, FinishRow, platformVars, RecordedIffPresent
  <1>9. CASE Serve(d)
    BY <1>9
    DEF Serve, Goto, dbVars, platformVars, RecordedIffPresent
  <1>10. CASE StatementFails(d)
    BY <1>10
    DEF StatementFails, BootFails, Exits, Ends, Goto, platformVars,
       RecordedIffPresent
  <1>11. ASSUME NEW r \in Runs, Fire(d, r) PROVE RecordedIffPresent'
    BY <1>11
    DEF Fire, platformVars, RecordedIffPresent
  <1>12. ASSUME NEW r \in Runs, NEW status \in {"completed", "failed"}, TaskEnds(d, r, status)
         PROVE  RecordedIffPresent'
    BY <1>12
    DEF TaskEnds, FinishRow, platformVars, RecordedIffPresent
  <1>13. CASE Deploy(d)
    BY <1>13
    DEF Deploy, BootPc, dbVars, platformVars, RecordedIffPresent
  <1>14. CASE Promote(d)
    BY <1>14
    DEF Promote, dbVars, RecordedIffPresent
  <1>15. CASE Stop(d)
    BY <1>15
    DEF Stop, Ends, dbVars, platformVars, RecordedIffPresent
  <1>16. CASE Crash(d)
    BY <1>16
    DEF Crash, Exits, Ends, dbVars, RecordedIffPresent
  <1>17. CASE Restart(d)
    BY <1>17
    DEF Restart, BootPc, dbVars, platformVars, RecordedIffPresent
  <1> QED
    BY <1>1, <1>2, <1>3, <1>4, <1>5, <1>6, <1>7, <1>8, <1>9, <1>10, <1>11, <1>12,
       <1>13, <1>14, <1>15, <1>16, <1>17 DEF Boot

LEMMA ProgressStep ==
  ASSUME TypeOK, RecordedIffPresent, \A d \in Deploys : Local(d), Next,
         \A d \in Deploys : d \in wiped \/ Progress(d)
  PROVE  \A e \in Deploys : e \in wiped' \/ Progress(e)'
  <1>1. PICK d \in Deploys :
        \/ Boot(d) \/ StatementFails(d)
        \/ Deploy(d) \/ Promote(d) \/ Stop(d) \/ Crash(d) \/ Restart(d)
        \/ \E r \in Runs : \/ Fire(d, r)
                           \/ \E status \in {"completed", "failed"} : TaskEnds(d, r, status)
    BY DEF Next
  <1>3. file[d] \in 1..Files /\ Files \in Nat
    BY FilesAssumption DEF TypeOK
  <1>4. 1..((file[d] + 1) - 1) \subseteq 1..(file[d] - 1) \cup {file[d]}
    BY <1>3
  <1>5. file[d] < Files \/ 1..Files \subseteq 1..(file[d] - 1) \cup {file[d]}
    BY <1>3
  <1>6. NextFile(d) /\ (1..(file[d] - 1) \cup {file[d]}) \subseteq applied' => Progress(d)'
    <2>1. CASE file[d] < Files
      BY <1>3, <1>4, <2>1 DEF NextFile, AfterFile, Goto, Progress, TypeOK
    <2>2. CASE ~(file[d] < Files)
      BY <1>3, <1>5, <2>2 DEF NextFile, AfterFile, Goto, Progress, TypeOK
    <2> QED BY <2>1, <2>2
  <1>7. CASE Reset(d)
    BY <1>7 DEF Reset
  <1>8. CASE CreateLedger(d)
    <2>1. 1..(1 - 1) = {}
      OBVIOUS
    <2> QED
      BY <1>8, <1>3, <2>1 DEF CreateLedger, Goto, platformVars, TypeOK, Progress
  <1>9. CASE Check(d)
    <2>0. wiped' = wiped
      BY <1>9 DEF Check
    <2>1. applied \subseteq applied' /\ \A e \in Deploys \ {d} : pc'[e] = pc[e] /\ file'[e] = file[e]
      BY <1>9 DEF Check, BootFails, Exits, Ends, NextFile, Goto, platformVars, TypeOK
    <2>2. \A e \in Deploys \ {d} : Progress(e) => Progress(e)'
      BY <2>1 DEF Progress
    <2>3. Progress(d) => Progress(d)'
      <3>1. CASE BootFails(d)
        BY <3>1 DEF BootFails, Exits, Ends, Progress, TypeOK
      <3>2. CASE ledger /\ file[d] \in Skipped /\ NextFile(d)
        <4>1. Progress(d) => 1..(file[d] - 1) \cup {file[d]} \subseteq applied'
          BY <1>9, <3>2 DEF Check, Skipped, Progress
        <4> QED BY <1>6, <3>2, <4>1
      <3> QED BY <1>9, <1>3, <3>1, <3>2 DEF Check, Goto, Progress, TypeOK
    <2> QED BY <2>0, <2>2, <2>3
  <1>10. CASE Ddl(d)
    BY <1>10, <1>3
    DEF Ddl, BootFails, Exits, Ends, PresentEarly, Goto, platformVars, TypeOK,
       Progress
  <1>11. CASE Commit(d)
    <2>0. wiped' = wiped
      BY <1>11 DEF Commit
    <2>1. applied \subseteq applied' /\ \A e \in Deploys \ {d} : pc'[e] = pc[e] /\ file'[e] = file[e]
      BY <1>11 DEF Commit, BootFails, Exits, Ends, NextFile, Goto, platformVars, TypeOK
    <2>2. \A e \in Deploys \ {d} : Progress(e) => Progress(e)'
      BY <2>1 DEF Progress
    <2>3. Progress(d) => Progress(d)'
      <3>1. CASE BootFails(d)
        BY <3>1 DEF BootFails, Exits, Ends, Progress, TypeOK
      <3>2. CASE ledger /\ NextFile(d)
        <4>1. Progress(d) => 1..(file[d] - 1) \cup {file[d]} \subseteq applied'
          BY <1>11, <3>2 DEF Commit, Skipped, Progress
        <4> QED BY <1>6, <3>2, <4>1
      <3> QED BY <1>11, <1>3, <3>1, <3>2 DEF Commit, Goto, Progress, TypeOK
    <2> QED BY <2>0, <2>2, <2>3
  <1>12. CASE ReclaimSelect(d)
    BY <1>12, <1>3
    DEF ReclaimSelect, Orphans, dbVars, platformVars, TypeOK, Progress
  <1>13. ASSUME NEW r \in Runs, ReclaimFinish(d, r) PROVE \A e \in Deploys : e \in wiped' \/ Progress(e)'
    BY <1>13, <1>3
    DEF ReclaimFinish, FinishRow, platformVars, TypeOK, Progress
  <1>14. CASE Serve(d)
    BY <1>14, <1>3
    DEF Serve, Goto, dbVars, platformVars, TypeOK, Progress
  <1>15. CASE StatementFails(d)
    BY <1>15, <1>3
    DEF StatementFails, BootFails, Exits, Ends, Goto, platformVars, TypeOK, Progress
  <1>16. ASSUME NEW r \in Runs, Fire(d, r) PROVE \A e \in Deploys : e \in wiped' \/ Progress(e)'
    BY <1>16, <1>3
    DEF Fire, platformVars, TypeOK, Progress
  <1>17. ASSUME NEW r \in Runs, NEW status \in {"completed", "failed"}, TaskEnds(d, r, status)
         PROVE  \A e \in Deploys : e \in wiped' \/ Progress(e)'
    BY <1>17, <1>3
    DEF TaskEnds, FinishRow, platformVars, TypeOK, Progress
  <1>18. CASE Deploy(d)
    BY <1>18, <1>3
    DEF Deploy, BootPc, dbVars, platformVars, TypeOK, Progress
  <1>19. CASE Promote(d)
    BY <1>19, <1>3
    DEF Promote, dbVars, TypeOK, Progress
  <1>20. CASE Stop(d)
    BY <1>20, <1>3
    DEF Stop, Ends, dbVars, platformVars, TypeOK, Progress
  <1>21. CASE Crash(d)
    BY <1>21, <1>3
    DEF Crash, Exits, Ends, dbVars, TypeOK, Progress
  <1>22. CASE Restart(d)
    BY <1>22, <1>3
    DEF Restart, BootPc, dbVars, platformVars, TypeOK, Progress
  <1> QED
    BY <1>1, <1>7, <1>8, <1>9, <1>10, <1>11, <1>12, <1>13, <1>14, <1>15, <1>16,
       <1>17, <1>18, <1>19, <1>20, <1>21, <1>22 DEF Boot

(* Without overlap, what is before the deployment at work is over. *)
OneAtATime ==
    mode = "stop_first" =>
        \A d, e \in Deploys : e < d /\ pc[d] # "waiting" => pc[e] \in {"stopped", "failed"}

LEMMA OneAtATimeStep ==
  ASSUME TypeOK, OneAtATime, Next
  PROVE  OneAtATime'
  <1>1. PICK d \in Deploys :
        \/ Boot(d) \/ StatementFails(d)
        \/ Deploy(d) \/ Promote(d) \/ Stop(d) \/ Crash(d) \/ Restart(d)
        \/ \E r \in Runs : \/ Fire(d, r)
                           \/ \E status \in {"completed", "failed"} : TaskEnds(d, r, status)
    BY DEF Next
  <1>2. CASE Reset(d)
    BY <1>2, LastAssumption
    DEF Reset, Goto, platformVars, TypeOK, OneAtATime, Deploys, Alive, Booting,
       Migrating
  <1>3. CASE CreateLedger(d)
    BY <1>3, LastAssumption
    DEF CreateLedger, Goto, platformVars, TypeOK, OneAtATime, Deploys, Alive,
       Booting, Migrating
  <1>4. CASE Check(d)
    BY <1>4, LastAssumption
    DEF Check, BootFails, Exits, Ends, NextFile, AfterFile, Goto, platformVars,
       TypeOK, OneAtATime, Deploys, Alive, Booting, Migrating
  <1>5. CASE Ddl(d)
    BY <1>5, LastAssumption
    DEF Ddl, BootFails, Exits, Ends, PresentEarly, Goto, platformVars, TypeOK,
       OneAtATime, Deploys, Alive, Booting, Migrating
  <1>6. CASE Commit(d)
    BY <1>6, LastAssumption
    DEF Commit, BootFails, Exits, Ends, NextFile, AfterFile, Goto, platformVars,
       TypeOK, OneAtATime, Deploys, Alive, Booting, Migrating
  <1>7. CASE ReclaimSelect(d)
    BY <1>7, LastAssumption
    DEF ReclaimSelect, Orphans, dbVars, platformVars, TypeOK, OneAtATime, Deploys,
       Alive, Booting, Migrating
  <1>8. ASSUME NEW r \in Runs, ReclaimFinish(d, r) PROVE OneAtATime'
    BY <1>8, LastAssumption
    DEF ReclaimFinish, FinishRow, platformVars, TypeOK, OneAtATime, Deploys, Alive,
       Booting, Migrating
  <1>9. CASE Serve(d)
    BY <1>9, LastAssumption
    DEF Serve, Goto, dbVars, platformVars, TypeOK, OneAtATime, Deploys, Alive,
       Booting, Migrating
  <1>10. CASE StatementFails(d)
    BY <1>10, LastAssumption
    DEF StatementFails, BootFails, Exits, Ends, Goto, platformVars, TypeOK,
       OneAtATime, Deploys, Alive, Booting, Migrating
  <1>11. ASSUME NEW r \in Runs, Fire(d, r) PROVE OneAtATime'
    BY <1>11, LastAssumption
    DEF Fire, platformVars, TypeOK, OneAtATime, Deploys, Alive, Booting, Migrating
  <1>12. ASSUME NEW r \in Runs, NEW status \in {"completed", "failed"}, TaskEnds(d, r, status)
         PROVE  OneAtATime'
    BY <1>12, LastAssumption
    DEF TaskEnds, FinishRow, platformVars, TypeOK, OneAtATime, Deploys, Alive,
       Booting, Migrating
  <1>13. CASE Deploy(d)
    BY <1>13, LastAssumption
    DEF Deploy, BootPc, dbVars, platformVars, TypeOK, OneAtATime, Deploys, Alive,
       Booting, Migrating
  <1>14. CASE Promote(d)
    BY <1>14, LastAssumption
    DEF Promote, dbVars, TypeOK, OneAtATime, Deploys, Alive, Booting, Migrating
  <1>15. CASE Stop(d)
    BY <1>15, LastAssumption
    DEF Stop, Ends, dbVars, platformVars, TypeOK, OneAtATime, Deploys, Alive,
       Booting, Migrating
  <1>16. CASE Crash(d)
    BY <1>16, LastAssumption
    DEF Crash, Exits, Ends, dbVars, TypeOK, OneAtATime, Deploys, Alive, Booting,
       Migrating
  <1>17. CASE Restart(d)
    BY <1>17, LastAssumption
    DEF Restart, BootPc, dbVars, platformVars, TypeOK, OneAtATime, Deploys, Alive,
       Booting, Migrating
  <1> QED
    BY <1>1, <1>2, <1>3, <1>4, <1>5, <1>6, <1>7, <1>8, <1>9, <1>10, <1>11, <1>12,
       <1>13, <1>14, <1>15, <1>16, <1>17 DEF Boot

(* Then what a process has still to finish or to reclaim is unsettled. *)
Unsettled ==
    mode = "stop_first" =>
        \A d \in Deploys : \A r \in tasks[d] \cup todo[d] : row[r] \in {"running", "gone"}

(* Without overlap, a process that holds runs is the only one alive. *)
LEMMA OnlyOne ==
  ASSUME TypeOK, OneAtATime, mode = "stop_first", NEW d \in Deploys, NEW e \in Deploys,
         pc[d] \in Alive, pc[e] \in Alive
  PROVE  d = e
  BY DEF OneAtATime, Deploys, Alive, Booting, Migrating

LEMMA UnsettledStep ==
  ASSUME TypeOK, \A d \in Deploys : Local(d), OneAtATime, Unsettled, Next
  PROVE  Unsettled'
  <1>1. PICK d \in Deploys :
        \/ Boot(d) \/ StatementFails(d)
        \/ Deploy(d) \/ Promote(d) \/ Stop(d) \/ Crash(d) \/ Restart(d)
        \/ \E r \in Runs : \/ Fire(d, r)
                           \/ \E status \in {"completed", "failed"} : TaskEnds(d, r, status)
    BY DEF Next
  <1>2. mode = "stop_first" =>
           \A e \in Deploys \ {d} : pc[d] \in Alive => tasks[e] = {} /\ todo[e] = {}
    BY OnlyOne DEF Local, Alive, Booting, Migrating
  <1>3. CASE Reset(d)
    BY <1>3, <1>2
    DEF Reset, Goto, platformVars, TypeOK, Local, Unsettled, Alive, Booting,
       Migrating
  <1>4. CASE CreateLedger(d)
    BY <1>4, <1>2
    DEF CreateLedger, Goto, platformVars, TypeOK, Local, Unsettled, Alive, Booting,
       Migrating
  <1>5. CASE Check(d)
    BY <1>5, <1>2
    DEF Check, BootFails, Exits, Ends, NextFile, AfterFile, Goto, platformVars,
       TypeOK, Local, Unsettled, Alive, Booting, Migrating
  <1>6. CASE Ddl(d)
    BY <1>6, <1>2
    DEF Ddl, BootFails, Exits, Ends, PresentEarly, Goto, platformVars, TypeOK,
       Local, Unsettled, Alive, Booting, Migrating
  <1>7. CASE Commit(d)
    BY <1>7, <1>2
    DEF Commit, BootFails, Exits, Ends, NextFile, AfterFile, Goto, platformVars,
       TypeOK, Local, Unsettled, Alive, Booting, Migrating
  <1>8. CASE ReclaimSelect(d)
    BY <1>8, <1>2
    DEF ReclaimSelect, Orphans, dbVars, platformVars, TypeOK, Local, Unsettled,
       Alive, Booting, Migrating
  <1>9. ASSUME NEW r \in Runs, ReclaimFinish(d, r) PROVE Unsettled'
    BY <1>9, <1>2
    DEF ReclaimFinish, FinishRow, platformVars, TypeOK, Local, Unsettled, Alive,
       Booting, Migrating
  <1>10. CASE Serve(d)
    BY <1>10, <1>2
    DEF Serve, Goto, dbVars, platformVars, TypeOK, Local, Unsettled, Alive,
       Booting, Migrating
  <1>11. CASE StatementFails(d)
    BY <1>11, <1>2
    DEF StatementFails, BootFails, Exits, Ends, Goto, platformVars, TypeOK, Local,
       Unsettled, Alive, Booting, Migrating
  <1>12. ASSUME NEW r \in Runs, Fire(d, r) PROVE Unsettled'
    BY <1>12, <1>2
    DEF Fire, platformVars, TypeOK, Local, Unsettled, Alive, Booting, Migrating
  <1>13. ASSUME NEW r \in Runs, NEW status \in {"completed", "failed"}, TaskEnds(d, r, status)
         PROVE  Unsettled'
    BY <1>13, <1>2
    DEF TaskEnds, FinishRow, platformVars, TypeOK, Local, Unsettled, Alive,
       Booting, Migrating
  <1>14. CASE Deploy(d)
    BY <1>14, <1>2
    DEF Deploy, BootPc, dbVars, platformVars, TypeOK, Local, Unsettled, Alive,
       Booting, Migrating
  <1>15. CASE Promote(d)
    BY <1>15, <1>2
    DEF Promote, dbVars, TypeOK, Local, Unsettled, Alive, Booting, Migrating
  <1>16. CASE Stop(d)
    BY <1>16, <1>2
    DEF Stop, Ends, dbVars, platformVars, TypeOK, Local, Unsettled, Alive, Booting,
       Migrating
  <1>17. CASE Crash(d)
    BY <1>17, <1>2
    DEF Crash, Exits, Ends, dbVars, TypeOK, Local, Unsettled, Alive, Booting,
       Migrating
  <1>18. CASE Restart(d)
    BY <1>18, <1>2
    DEF Restart, BootPc, dbVars, platformVars, TypeOK, Local, Unsettled, Alive,
       Booting, Migrating
  <1> QED
    BY <1>1, <1>3, <1>4, <1>5, <1>6, <1>7, <1>8, <1>9, <1>10, <1>11, <1>12, <1>13,
       <1>14, <1>15, <1>16, <1>17, <1>18 DEF Boot

(* And while no statement fails, a process that has reclaimed has found    *)
(* every run without a task.                                               *)
Reclaimed ==
    mode = "stop_first" /\ faults = 0 /\ (\E d \in Deploys : pc[d] \in {"finish", "serving"}) =>
        \A r \in Runs : row[r] = "running" => HasTask(r) \/ Reclaiming(r)

LEMMA ReclaimedStep ==
  ASSUME TypeOK, \A d \in Deploys : Local(d), OneAtATime, Unsettled, Reclaimed, Next
  PROVE  Reclaimed'
  <1>1. PICK d \in Deploys :
        \/ Boot(d) \/ StatementFails(d)
        \/ Deploy(d) \/ Promote(d) \/ Stop(d) \/ Crash(d) \/ Restart(d)
        \/ \E r \in Runs : \/ Fire(d, r)
                           \/ \E status \in {"completed", "failed"} : TaskEnds(d, r, status)
    BY DEF Next
  <1>2. CASE Reset(d)
    BY <1>2, OnlyOne
    DEF Reset, Goto, platformVars, TypeOK, Local, Unsettled, Reclaimed, HasTask,
       Reclaiming, Alive, Booting, Migrating
  <1>3. CASE CreateLedger(d)
    BY <1>3, OnlyOne
    DEF CreateLedger, Goto, platformVars, TypeOK, Local, Unsettled, Reclaimed,
       HasTask, Reclaiming, Alive, Booting, Migrating
  <1>4. CASE Check(d)
    BY <1>4, OnlyOne
    DEF Check, BootFails, Exits, Ends, NextFile, AfterFile, Goto, platformVars,
       TypeOK, Local, Unsettled, Reclaimed, HasTask, Reclaiming, Alive, Booting,
       Migrating
  <1>5. CASE Ddl(d)
    BY <1>5, OnlyOne
    DEF Ddl, BootFails, Exits, Ends, PresentEarly, Goto, platformVars, TypeOK,
       Local, Unsettled, Reclaimed, HasTask, Reclaiming, Alive, Booting, Migrating
  <1>6. CASE Commit(d)
    BY <1>6, OnlyOne
    DEF Commit, BootFails, Exits, Ends, NextFile, AfterFile, Goto, platformVars,
       TypeOK, Local, Unsettled, Reclaimed, HasTask, Reclaiming, Alive, Booting,
       Migrating
  <1>7. CASE ReclaimSelect(d)
    BY <1>7, OnlyOne
    DEF ReclaimSelect, Orphans, dbVars, platformVars, TypeOK, Local, Unsettled,
       Reclaimed, HasTask, Reclaiming, Alive, Booting, Migrating
  <1>8. ASSUME NEW r \in Runs, ReclaimFinish(d, r) PROVE Reclaimed'
    BY <1>8, OnlyOne
    DEF ReclaimFinish, FinishRow, platformVars, TypeOK, Local, Unsettled,
       Reclaimed, HasTask, Reclaiming, Alive, Booting, Migrating
  <1>9. CASE Serve(d)
    BY <1>9, OnlyOne
    DEF Serve, Goto, dbVars, platformVars, TypeOK, Local, Unsettled, Reclaimed,
       HasTask, Reclaiming, Alive, Booting, Migrating
  <1>10. CASE StatementFails(d)
    BY <1>10, OnlyOne
    DEF StatementFails, BootFails, Exits, Ends, Goto, platformVars, TypeOK, Local,
       Unsettled, Reclaimed, HasTask, Reclaiming, Alive, Booting, Migrating
  <1>11. ASSUME NEW r \in Runs, Fire(d, r) PROVE Reclaimed'
    BY <1>11, OnlyOne
    DEF Fire, platformVars, TypeOK, Local, Unsettled, Reclaimed, HasTask,
       Reclaiming, Alive, Booting, Migrating
  <1>12. ASSUME NEW r \in Runs, NEW status \in {"completed", "failed"}, TaskEnds(d, r, status)
         PROVE  Reclaimed'
    BY <1>12, OnlyOne
    DEF TaskEnds, FinishRow, platformVars, TypeOK, Local, Unsettled, Reclaimed,
       HasTask, Reclaiming, Alive, Booting, Migrating
  <1>13. CASE Deploy(d)
    BY <1>13, OnlyOne
    DEF Deploy, BootPc, dbVars, platformVars, TypeOK, Local, Unsettled, Reclaimed,
       HasTask, Reclaiming, Alive, Booting, Migrating
  <1>14. CASE Promote(d)
    BY <1>14, OnlyOne
    DEF Promote, dbVars, TypeOK, Local, Unsettled, Reclaimed, HasTask, Reclaiming,
       Alive, Booting, Migrating
  <1>15. CASE Stop(d)
    BY <1>15, OnlyOne
    DEF Stop, Ends, dbVars, platformVars, TypeOK, Local, Unsettled, Reclaimed,
       HasTask, Reclaiming, Alive, Booting, Migrating
  <1>16. CASE Crash(d)
    BY <1>16, OnlyOne
    DEF Crash, Exits, Ends, dbVars, TypeOK, Local, Unsettled, Reclaimed, HasTask,
       Reclaiming, Alive, Booting, Migrating
  <1>17. CASE Restart(d)
    BY <1>17, OnlyOne
    DEF Restart, BootPc, dbVars, platformVars, TypeOK, Local, Unsettled, Reclaimed,
       HasTask, Reclaiming, Alive, Booting, Migrating
  <1> QED
    BY <1>1, <1>2, <1>3, <1>4, <1>5, <1>6, <1>7, <1>8, <1>9, <1>10, <1>11, <1>12,
       <1>13, <1>14, <1>15, <1>16, <1>17 DEF Boot

(* No step settles a run that is settled. *)
SettledStays ==
    mode = "stop_first" =>
        \A q \in Runs : row[q] \in {"completed", "failed"} => row'[q] \in {row[q], "gone"}

LEMMA SettledStaysStep ==
  ASSUME TypeOK, Unsettled, Next
  PROVE  SettledStays
  <1>1. PICK d \in Deploys :
        \/ Boot(d) \/ StatementFails(d)
        \/ Deploy(d) \/ Promote(d) \/ Stop(d) \/ Crash(d) \/ Restart(d)
        \/ \E r \in Runs : \/ Fire(d, r)
                           \/ \E status \in {"completed", "failed"} : TaskEnds(d, r, status)
    BY DEF Next
  <1>2. CASE Reset(d)
    BY <1>2
    DEF Reset, Goto, platformVars, TypeOK, Unsettled, SettledStays
  <1>3. CASE CreateLedger(d)
    BY <1>3
    DEF CreateLedger, Goto, platformVars, TypeOK, Unsettled, SettledStays
  <1>4. CASE Check(d)
    BY <1>4
    DEF Check, BootFails, Exits, Ends, NextFile, AfterFile, Goto, platformVars,
       TypeOK, Unsettled, SettledStays
  <1>5. CASE Ddl(d)
    BY <1>5
    DEF Ddl, BootFails, Exits, Ends, PresentEarly, Goto, platformVars, TypeOK,
       Unsettled, SettledStays
  <1>6. CASE Commit(d)
    BY <1>6
    DEF Commit, BootFails, Exits, Ends, NextFile, AfterFile, Goto, platformVars,
       TypeOK, Unsettled, SettledStays
  <1>7. CASE ReclaimSelect(d)
    BY <1>7
    DEF ReclaimSelect, Orphans, dbVars, platformVars, TypeOK, Unsettled,
       SettledStays
  <1>8. ASSUME NEW r \in Runs, ReclaimFinish(d, r) PROVE SettledStays
    BY <1>8
    DEF ReclaimFinish, FinishRow, platformVars, TypeOK, Unsettled, SettledStays
  <1>9. CASE Serve(d)
    BY <1>9
    DEF Serve, Goto, dbVars, platformVars, TypeOK, Unsettled, SettledStays
  <1>10. CASE StatementFails(d)
    BY <1>10
    DEF StatementFails, BootFails, Exits, Ends, Goto, platformVars, TypeOK,
       Unsettled, SettledStays
  <1>11. ASSUME NEW r \in Runs, Fire(d, r) PROVE SettledStays
    BY <1>11
    DEF Fire, platformVars, TypeOK, Unsettled, SettledStays
  <1>12. ASSUME NEW r \in Runs, NEW status \in {"completed", "failed"}, TaskEnds(d, r, status)
         PROVE  SettledStays
    BY <1>12
    DEF TaskEnds, FinishRow, platformVars, TypeOK, Unsettled, SettledStays
  <1>13. CASE Deploy(d)
    BY <1>13
    DEF Deploy, BootPc, dbVars, platformVars, TypeOK, Unsettled, SettledStays
  <1>14. CASE Promote(d)
    BY <1>14
    DEF Promote, dbVars, TypeOK, Unsettled, SettledStays
  <1>15. CASE Stop(d)
    BY <1>15
    DEF Stop, Ends, dbVars, platformVars, TypeOK, Unsettled, SettledStays
  <1>16. CASE Crash(d)
    BY <1>16
    DEF Crash, Exits, Ends, dbVars, TypeOK, Unsettled, SettledStays
  <1>17. CASE Restart(d)
    BY <1>17
    DEF Restart, BootPc, dbVars, platformVars, TypeOK, Unsettled, SettledStays
  <1> QED
    BY <1>1, <1>2, <1>3, <1>4, <1>5, <1>6, <1>7, <1>8, <1>9, <1>10, <1>11, <1>12,
       <1>13, <1>14, <1>15, <1>16, <1>17 DEF Boot

-----------------------------------------------------------------------------
(* The inductive invariant *)

IInv ==
    /\ TypeOK
    /\ RecordedIffPresent
    /\ \A d \in Deploys : Local(d)
    /\ \A d \in Deploys : d \in wiped \/ Progress(d)
    /\ OneAtATime
    /\ Unsettled
    /\ Reclaimed

LEMMA InitInv == Init => IInv
  <1> SUFFICES ASSUME Init PROVE IInv
    OBVIOUS
  <1>1. TypeOK
    BY InitType
  <1>2. RecordedIffPresent
    BY DEF Init, RecordedIffPresent
  <1>3. \A d \in Deploys : Local(d) /\ Progress(d)
    BY DEF Init, Local, Progress
  <1>4. OneAtATime /\ Unsettled /\ Reclaimed
    BY DEF Init, OneAtATime, Unsettled, Reclaimed
  <1> QED BY <1>1, <1>2, <1>3, <1>4 DEF IInv

LEMMA StepInv == IInv /\ [Next]_vars => IInv'
  <1> SUFFICES ASSUME IInv, [Next]_vars PROVE IInv'
    OBVIOUS
  <1> USE DEF IInv
  <1>1. CASE Next
    <2>1. TypeOK'
      <3>1. RetriesLeft
        BY DEF RetriesLeft, Local
      <3> QED BY <1>1, <3>1, TypeStep
    <2>2. RecordedIffPresent' /\ OneAtATime'
      BY <1>1, RecordedStep, OneAtATimeStep
    <2>3. (\A d \in Deploys : Local(d))'
      BY <1>1, LocalStep DEF Deploys
    <2>4. (\A d \in Deploys : d \in wiped \/ Progress(d))'
      BY <1>1, ProgressStep DEF Deploys
    <2>5. Unsettled' /\ Reclaimed'
      BY <1>1, UnsettledStep, ReclaimedStep
    <2> QED BY <2>1, <2>2, <2>3, <2>4, <2>5
  <1>2. CASE UNCHANGED vars
    BY <1>2 DEF vars, dbVars, platformVars, TypeOK, RecordedIffPresent, Local,
       Progress, OneAtATime, Unsettled, Reclaimed, HasTask, Reclaiming
  <1> QED BY <1>1, <1>2

LEMMA Invariant == Spec => []IInv
  BY InitInv, StepInv, PTL DEF Spec

-----------------------------------------------------------------------------
(* Every variable keeps its type; a deployment is restarted no more often  *)
(* than restartPolicyMaxRetries (railway.toml:31) says.                    *)
THEOREM RolloutTypes == Spec => []TypeOK
  <1>1. IInv => TypeOK
    BY DEF IInv
  <1> QED BY <1>1, Invariant, PTL

(* Whatever processes migrate at once, reset, fail or die: a file is in    *)
(* schema_migrations exactly if its tables exist (db.rs:78-111).           *)
THEOREM LedgerTrue == Spec => []RecordedIffPresent
  <1>1. IInv => RecordedIffPresent
    BY DEF IInv
  <1> QED BY <1>1, Invariant, PTL

(* A process that listens (lib.rs:62-66) has all its tables, unless the    *)
(* schema was dropped (db.rs:56-79) since it began to migrate.             *)
THEOREM ServingMigrated == Spec => []ServesMigrated
  <1>1. IInv => ServesMigrated
    BY FilesAssumption
    DEF IInv, ServesMigrated, Progress, RecordedIffPresent, TypeOK
  <1> QED BY <1>1, Invariant, PTL

(* If the platform stops the old process before it starts the next one,    *)
(* reclaim_orphaned_runs leaves no row running without a task.             *)
THEOREM NoOrphans == Spec => []OrphansReclaimed
  <1>1. IInv => OrphansReclaimed
    BY DEF IInv, OrphansReclaimed, NoZombieRow, Reclaimed
  <1> QED BY <1>1, Invariant, PTL

(* Then neither a reclaim nor a task changes what a run ended with,        *)
(* although finish (scheduler.rs:120-131) would overwrite it.              *)
THEOREM VerdictsKept == Spec => VerdictsSurvive
  <1>1. IInv /\ [Next]_vars => [SettledStays]_vars
    BY SettledStaysStep DEF IInv
  <1>2. [SettledStays]_vars =>
          [mode = "stop_first" =>
              \A r \in Runs : row[r] \in {"completed", "failed"} =>
                  row'[r] \in {row[r], "gone"}]_vars
    BY DEF SettledStays
  <1> QED BY <1>1, <1>2, Invariant, PTL DEF Spec, VerdictsSurvive

=============================================================================
