---------------------------- MODULE Fleet_proofs ----------------------------
(***************************************************************************)
(* Theorems about module Fleet, for any set of machines, connections and   *)
(* sessions and any number of breaks, redials, lapses, aborts and crashes. *)
(*                                                                         *)
(* The inductive invariant follows a session on its way: before it is      *)
(* enlisted nothing refers to it; its one assignment waits on the          *)
(* connection it was picked for while its agent has not started; a success *)
(* in transit or handed over is that of an agent that finished well; and   *)
(* until it is answered it is where the teardown of its connection looks.  *)
(*                                                                         *)
(* The second half is about names.  Nobody is failed without a connection  *)
(* that broke or a lease that lapsed under its name; up to then the served *)
(* connection is the registered one; and while no name has two handlers at *)
(* work its row agrees with the map.                                       *)
(***************************************************************************)
EXTENDS Fleet, TLAPS

-----------------------------------------------------------------------------
(* Sequences: what taking the first element and appending one do to the    *)
(* positions.                                                              *)

LEMMA TailElements ==
  ASSUME NEW S, NEW q \in Seq(S), q # <<>>
  PROVE  /\ Head(q) \in S /\ Tail(q) \in Seq(S)
         /\ Head(q) = q[1] /\ 1 \in 1..Len(q)
         /\ \A i \in 1..Len(Tail(q)) : Tail(q)[i] = q[i + 1] /\ i + 1 \in 1..Len(q)
  OBVIOUS

LEMMA Elements ==
  ASSUME NEW S, NEW q \in Seq(S), NEW i \in 1..Len(q)
  PROVE  q[i] \in S
  OBVIOUS

LEMMA AppendElements ==
  ASSUME NEW S, NEW q \in Seq(S), NEW x \in S
  PROVE  /\ Append(q, x) \in Seq(S)
         /\ \A i \in 1..Len(Append(q, x)) :
               \/ i \in 1..Len(q) /\ Append(q, x)[i] = q[i]
               \/ i = Len(q) + 1 /\ Append(q, x)[i] = x
  OBVIOUS

-----------------------------------------------------------------------------
(* Types.  What a dispatch under way holds is a connection. *)
Picked == \A s \in Sessions : disp[s] \notin {"idle", "local"} => tx[s] \in Conns

LEMMA InitType == Init => TypeOK /\ Picked
  <1> SUFFICES ASSUME Init PROVE TypeOK /\ Picked
    OBVIOUS
  <1>1. aborts \in 0..MaxAborts /\ crashes \in 0..MaxCrashes /\ faults \in 0..MaxFaults
    BY BoundsAssumption DEF Init
  <1>2. down \in [Conns -> Seq(Frame)] /\ up \in [Conns -> Seq(Ended)]
    BY DEF Init
  <1> QED BY <1>1, <1>2 DEF Init, TypeOK, Picked, InFlight, Failers

LEMMA RowTypes ==
  ASSUME TypeOK, NEW n \in Names
  PROVE  /\ Begins(n) => muddled' \subseteq Names
         /\ \A status \in {"absent", "online", "offline"}, ok \in BOOLEAN :
               Writes(n, status, ok) => /\ row' \in [Names -> {"absent", "online", "offline"}]
                                        /\ muddled' \subseteq Names
                                        /\ faults' \in 0..MaxFaults
  <1>1. Begins(n) => muddled' \subseteq Names
    BY DEF Begins, TypeOK
  <1>2. ASSUME NEW status \in {"absent", "online", "offline"}, NEW ok \in BOOLEAN,
               Writes(n, status, ok)
        PROVE  /\ row' \in [Names -> {"absent", "online", "offline"}]
               /\ muddled' \subseteq Names
               /\ faults' \in 0..MaxFaults
    <2>1. row' \in [Names -> {"absent", "online", "offline"}] /\ muddled' \subseteq Names
      BY <1>2 DEF Writes, TypeOK
    <2>2. faults' \in 0..MaxFaults
      BY <1>2, BoundsAssumption DEF Writes, Statement, TypeOK
    <2> QED BY <2>1, <2>2
  <1> QED BY <1>1, <1>2

LEMMA TypeStep ==
  ASSUME TypeOK, Picked, Next
  PROVE  TypeOK'
  <1>1. ASSUME NEW c \in Conns, Dial(c) PROVE TypeOK'
    BY <1>1, OwnerAssumption
    DEF Dial, mapVars, failVars, dispVars, envVars, TypeOK
  <1>2. ASSUME NEW c \in Conns, Register(c) PROVE TypeOK'
    <2>1. Owner[c] \in Names
      BY OwnerAssumption
    <2>2. muddled' \subseteq Names
      BY <1>2, <2>1, RowTypes DEF Register
    <2> QED BY <1>2, <2>1, <2>2 DEF Register, failVars, dispVars, netVars, workVars, envVars, TypeOK
  <1>3. ASSUME NEW c \in Conns, NEW ok \in BOOLEAN, MarkOnline(c, ok) PROVE TypeOK'
    <2>1. Owner[c] \in Names
      BY OwnerAssumption
    <2>2. /\ row' \in [Names -> {"absent", "online", "offline"}] /\ muddled' \subseteq Names
          /\ faults' \in 0..MaxFaults
      BY <1>3, <2>1, RowTypes DEF MarkOnline
    <2> QED BY <1>3, <2>2 DEF MarkOnline, failVars, dispVars, netVars, workVars, TypeOK
  <1>4. ASSUME NEW c \in Conns, HandleEnded(c) PROVE TypeOK'
    <2>1. Head(up[c]) \in Ended /\ Tail(up[c]) \in Seq(Ended)
      BY <1>4, TailElements DEF TypeOK, HandleEnded
    <2> QED BY <1>4, <2>1 DEF HandleEnded, Forgotten, failVars, workVars, envVars, TypeOK, Ended
  <1>5. ASSUME NEW c \in Conns, HandleHeartbeat(c) PROVE TypeOK'
    BY <1>5, OwnerAssumption
    DEF HandleHeartbeat, mapVars, failVars, dispVars, netVars, workVars, envVars,
       TypeOK
  <1>6. ASSUME NEW c \in Conns, HandlerNotices(c) PROVE TypeOK'
    <2>1. Owner[c] \in Names
      BY OwnerAssumption
    <2>2. muddled' \subseteq Names
      BY <1>6, <2>1, RowTypes DEF HandlerNotices, FailRemove
    <2>3. /\ failPc' \in [Failers -> {"idle", "fail", "offline"}] /\ reapName' = reapName
          /\ failPc'[Reaper] = failPc[Reaper]
      BY <1>6, ReaperAssumption DEF HandlerNotices, FailRemove, TypeOK, Failers
    <2> QED BY <1>6, <2>1, <2>2, <2>3
            DEF HandlerNotices, FailRemove, dispVars, netVars, workVars, envVars, TypeOK
  <1>7. ASSUME NEW c \in Conns, WriterGone(c) PROVE TypeOK'
    BY <1>7, OwnerAssumption
    DEF WriterGone, mapVars, failVars, dispVars, netVars, workVars, envVars, TypeOK
  <1>8. ASSUME NEW c \in Conns, WorkerAssign(c) PROVE TypeOK'
    <2>1. Head(down[c]) \in Frame /\ Tail(down[c]) \in Seq(Frame)
      BY <1>8, TailElements DEF TypeOK, WorkerAssign, NextFrame
    <2> QED BY <1>8, <2>1 DEF WorkerAssign, NextFrame, Serving, mapVars, connVars, failVars, dispVars, envVars, TypeOK, Frame
  <1>9. ASSUME NEW c \in Conns, WorkerInsert(c) PROVE TypeOK'
    BY <1>9, OwnerAssumption
    DEF WorkerInsert, mapVars, connVars, failVars, dispVars, netVars, envVars,
       TypeOK
  <1>10. ASSUME NEW c \in Conns, WorkerAbort(c) PROVE TypeOK'
    <2>1. Head(down[c]) \in Frame /\ Tail(down[c]) \in Seq(Frame)
      BY <1>10, TailElements DEF TypeOK, WorkerAbort, NextFrame
    <2> QED BY <1>10, <2>1 DEF WorkerAbort, NextFrame, Serving, Doomed, mapVars, connVars, failVars, dispVars, envVars, TypeOK, Frame
  <1>11. ASSUME NEW c \in Conns, WorkerNotices(c) PROVE TypeOK'
    BY <1>11, OwnerAssumption
    DEF WorkerNotices, AgentsAfter, mapVars, connVars, failVars, dispVars, netVars,
       envVars, TypeOK
  <1>12. ASSUME NEW c \in Conns, Break(c) PROVE TypeOK'
    BY <1>12, OwnerAssumption
    DEF Break, mapVars, connVars, failVars, dispVars, workVars, envVars, TypeOK
  <1>13. ASSUME NEW c \in Conns, Silence(c) PROVE TypeOK'
    <2>1. lapsed' \subseteq Names
      <3>1. lapsed' = lapsed \/ lapsed' = lapsed \cup {Owner[c]}
        BY <1>13 DEF Silence
      <3>2. Owner[c] \in Names /\ lapsed \subseteq Names
        BY OwnerAssumption DEF TypeOK
      <3> QED BY <3>1, <3>2
    <2>2. aborts' = aborts /\ crashes' = crashes /\ faults' = faults
      BY <1>13 DEF Silence
    <2> QED BY <1>13, <2>1, <2>2
            DEF Silence, mapVars, failVars, dispVars, netVars, workVars, TypeOK
  <1>14. ASSUME NEW f \in Failers, FailSessions(f) PROVE TypeOK'
    BY <1>14, OwnerAssumption
    DEF Failers, FailSessions, OwnedBy, Waiting, Forgotten, connVars, netVars, workVars,
       envVars, TypeOK
  <1>15. ASSUME NEW f \in Failers, NEW ok \in BOOLEAN, FailOffline(f, ok) PROVE TypeOK'
    <2>0. f # Reaper => Owner[f] \in Names
      BY OwnerAssumption DEF Failers
    <2>1. /\ row' \in [Names -> {"absent", "online", "offline"}]
          /\ muddled' \subseteq Names /\ faults' \in 0..MaxFaults
      <3>1. FailName(f) \in Names
        BY <1>15, <2>0 DEF FailOffline, FailName, TypeOK
      <3>2. (IF row[FailName(f)] = "absent" THEN "absent" ELSE "offline")
               \in {"absent", "online", "offline"}
        OBVIOUS
      <3> QED BY <1>15, <3>1, <3>2, RowTypes DEF FailOffline
    <2>2. /\ handler' \in [Conns -> {"none", "register", "mark", "loop", "teardown", "closed"}]
          /\ stale' \in [Conns -> BOOLEAN]
      BY <1>15 DEF FailOffline, TypeOK
    <2>4. down' \in [Conns -> Seq(Frame)]
      <3>1. <<>> \in Seq(Frame) /\ \A c \in Conns : down[c] \in Seq(Frame)
        BY DEF TypeOK
      <3>2. down' = [c \in Conns |-> IF c = f THEN <<>> ELSE down[c]]
        BY <1>15 DEF FailOffline
      <3> QED BY <3>1, <3>2
    <2>3. /\ failPc' \in [Failers -> {"idle", "fail", "offline"}]
          /\ reapName' \in IF failPc'[Reaper] = "idle" THEN {NoName} ELSE Names
      BY <1>15 DEF FailOffline, TypeOK, Failers
    <2> QED BY <1>15, <2>1, <2>2, <2>3, <2>4 DEF FailOffline, dispVars, workVars, envVars, TypeOK
  <1>16. CASE ReapScan
    BY <1>16, OwnerAssumption
    DEF ReapScan, Expired, mapVars, connVars, dispVars, netVars, workVars, envVars,
       TypeOK
  <1>17. ASSUME NEW n \in Names, ReapNext(n) PROVE TypeOK'
    BY <1>17, OwnerAssumption
    DEF Failers, ReapNext, FailRemove, Begins, connVars, dispVars, netVars, workVars, envVars, TypeOK
  <1>18. ASSUME NEW s \in Sessions, PickMachine(s) PROVE TypeOK'
    BY <1>18, OwnerAssumption
    DEF PickMachine, mapVars, connVars, failVars, netVars, workVars, envVars,
       TypeOK, InFlight
  <1>19. ASSUME NEW s \in Sessions, RunLocally(s) PROVE TypeOK'
    BY <1>19, OwnerAssumption
    DEF RunLocally, mapVars, connVars, failVars, netVars, workVars, envVars, TypeOK
  <1>20. ASSUME NEW s \in Sessions, Enlist(s) PROVE TypeOK'
    BY <1>20, OwnerAssumption
    DEF Enlist, OwnerKey, connVars, failVars, netVars, workVars, envVars, TypeOK,
       Picked, InFlight
  <1>21. ASSUME NEW s \in Sessions, SendAssign(s) PROVE TypeOK'
    <2>1. tx[s] \in Conns /\ [t |-> "assign", s |-> s] \in Frame
      BY <1>21 DEF SendAssign, Picked, Frame
    <2>2. down' \in [Conns -> Seq(Frame)]
      BY <1>21, <2>1 DEF SendAssign, Transmit, TypeOK
    <2> QED BY <1>21, <2>2 DEF SendAssign, mapVars, connVars, failVars, workVars, envVars, TypeOK, InFlight
  <1>22. ASSUME NEW s \in Sessions, SendFails(s) PROVE TypeOK'
    BY <1>22, OwnerAssumption
    DEF SendFails, Forgotten, connVars, failVars, netVars, workVars, envVars, TypeOK
  <1>23. ASSUME NEW s \in Sessions, Receive(s) PROVE TypeOK'
    BY <1>23, OwnerAssumption
    DEF Receive, Outcome, mapVars, connVars, failVars, netVars, workVars, envVars,
       TypeOK
  <1>24. ASSUME NEW s \in Sessions, AbortTask(s) PROVE TypeOK'
    BY <1>24, OwnerAssumption, BoundsAssumption
    DEF AbortTask, mapVars, connVars, failVars, netVars, workVars, TypeOK
  <1>25. ASSUME NEW s \in Sessions, DropTask(s) PROVE TypeOK'
    BY <1>25, OwnerAssumption
    DEF DropTask, mapVars, connVars, failVars, netVars, workVars, envVars, TypeOK
  <1>26. ASSUME NEW s \in Sessions, RouteAbort(s) PROVE TypeOK'
    <2>1. [t |-> "abort", s |-> s] \in Frame
      BY DEF Frame
    <2>2. down' \in [Conns -> Seq(Frame)]
      <3>1. CASE down' = down
        BY <3>1 DEF TypeOK
      <3>2. CASE Transmit(AbortRoute(s), "abort", s)
        <4>1. AbortRoute(s) \in Conns => Append(down[AbortRoute(s)], [t |-> "abort", s |-> s]) \in Seq(Frame)
          BY <2>1 DEF TypeOK
        <4> QED BY <3>2, <4>1 DEF Transmit, TypeOK
      <3> QED BY <1>26, <3>1, <3>2 DEF RouteAbort
    <2> QED BY <1>26, <2>2 DEF RouteAbort, mapVars, connVars, failVars, workVars, envVars, TypeOK
  <1>27. ASSUME NEW s \in Sessions, NEW ok \in BOOLEAN, AgentEnds(s, ok) PROVE TypeOK'
    <2>1. [s |-> s, ok |-> ok] \in Ended
      BY DEF Ended
    <2>2. up' \in [Conns -> Seq(Ended)]
      <3>1. tx[s] \in Conns => Append(up[tx[s]], [s |-> s, ok |-> ok]) \in Seq(Ended)
        BY <2>1 DEF TypeOK
      <3> QED BY <1>27, <3>1 DEF AgentEnds, TypeOK
    <2>3. inflight' \in [Conns -> SUBSET Sessions]
      BY <1>27 DEF AgentEnds, TypeOK
    <2>4. agent' \in [Sessions -> {"none", "running", "ok", "err", "killed"}]
      BY <1>27 DEF AgentEnds, TypeOK
    <2> QED BY <1>27, <2>2, <2>3, <2>4
            DEF AgentEnds, mapVars, connVars, failVars, dispVars, envVars, TypeOK
  <1>28. CASE Crash
    <2>1. disp' \in [Sessions -> InFlight \cup {"idle", "local", "ok", "err", "aborted", "dead"}]
      BY <1>28 DEF Failers, Crash, AfterCrash, TypeOK
    <2>2. crashes' \in 0..MaxCrashes
      BY <1>28, BoundsAssumption DEF Failers, Crash, TypeOK
    <2>3. down' \in [Conns -> Seq(Frame)] /\ up' \in [Conns -> Seq(Ended)]
      BY <1>28 DEF Crash
    <2>4. /\ handler' \in [Conns -> {"none", "register", "mark", "loop", "teardown", "closed"}]
          /\ link' \in [Conns -> {"none", "up", "down"}]
      BY <1>28 DEF Failers, Crash, TypeOK
    <2> QED BY <1>28, <2>1, <2>2, <2>3, <2>4 DEF Failers, Crash, workVars, TypeOK
  <1>29. ASSUME NEW ok \in BOOLEAN, BootReclaim(ok) PROVE TypeOK'
    <2>1. row' \in [Names -> {"absent", "online", "offline"}] /\ muddled' \subseteq Names
      BY <1>29 DEF BootReclaim, Reclaimed, TypeOK
    <2>2. faults' \in 0..MaxFaults
      BY <1>29, BoundsAssumption DEF BootReclaim, Statement, TypeOK
    <2> QED BY <1>29, <2>1, <2>2
            DEF BootReclaim, connVars, failVars, dispVars, netVars, workVars, TypeOK
  <1> QED
    BY <1>1, <1>2, <1>3, <1>4, <1>5, <1>6, <1>7, <1>8, <1>9, <1>10, <1>11, <1>12,
       <1>13, <1>14, <1>15, <1>16, <1>17, <1>18, <1>19, <1>20, <1>21, <1>22, <1>23,
       <1>24, <1>25, <1>26, <1>27, <1>28, <1>29
    DEF Next, Online, Handler, Worker, FailMachine, Reap, Dispatch, Abort

LEMMA PickedStep ==
  ASSUME TypeOK, Picked, Next
  PROVE  Picked'
  <1>1. ASSUME NEW c \in Conns, Dial(c) PROVE Picked'
    BY <1>1
    DEF Dial, mapVars, failVars, dispVars, envVars, TypeOK, Picked
  <1>2. ASSUME NEW c \in Conns, Register(c) PROVE Picked'
    BY <1>2
    DEF Register, failVars, dispVars, netVars, workVars, envVars, TypeOK, Picked
  <1>3. ASSUME NEW c \in Conns, NEW ok \in BOOLEAN, MarkOnline(c, ok) PROVE Picked'
    BY <1>3
    DEF MarkOnline, failVars, dispVars, netVars, workVars, envVars, TypeOK, Picked
  <1>4. ASSUME NEW c \in Conns, HandleEnded(c) PROVE Picked'
    BY <1>4
    DEF HandleEnded, Forgotten, failVars, workVars, envVars, TypeOK, Picked
  <1>5. ASSUME NEW c \in Conns, HandleHeartbeat(c) PROVE Picked'
    BY <1>5
    DEF HandleHeartbeat, mapVars, failVars, dispVars, netVars, workVars, envVars,
       TypeOK, Picked
  <1>6. ASSUME NEW c \in Conns, HandlerNotices(c) PROVE Picked'
    BY <1>6
    DEF HandlerNotices, FailRemove, dispVars, netVars, workVars, envVars, TypeOK,
       Picked
  <1>7. ASSUME NEW c \in Conns, WriterGone(c) PROVE Picked'
    BY <1>7
    DEF WriterGone, mapVars, failVars, dispVars, netVars, workVars, envVars,
       TypeOK, Picked
  <1>8. ASSUME NEW c \in Conns, WorkerAssign(c) PROVE Picked'
    BY <1>8
    DEF WorkerAssign, NextFrame, Serving, mapVars, connVars, failVars, dispVars,
       envVars, TypeOK, Picked
  <1>9. ASSUME NEW c \in Conns, WorkerInsert(c) PROVE Picked'
    BY <1>9
    DEF WorkerInsert, mapVars, connVars, failVars, dispVars, netVars, envVars,
       TypeOK, Picked
  <1>10. ASSUME NEW c \in Conns, WorkerAbort(c) PROVE Picked'
    BY <1>10
    DEF WorkerAbort, NextFrame, Serving, Doomed, mapVars, connVars, failVars,
       dispVars, envVars, TypeOK, Picked
  <1>11. ASSUME NEW c \in Conns, WorkerNotices(c) PROVE Picked'
    BY <1>11
    DEF WorkerNotices, AgentsAfter, mapVars, connVars, failVars, dispVars, netVars,
       envVars, TypeOK, Picked
  <1>12. ASSUME NEW c \in Conns, Break(c) PROVE Picked'
    BY <1>12
    DEF Break, mapVars, connVars, failVars, dispVars, workVars, envVars, TypeOK,
       Picked
  <1>13. ASSUME NEW c \in Conns, Silence(c) PROVE Picked'
    BY <1>13
    DEF Silence, mapVars, failVars, dispVars, netVars, workVars, TypeOK, Picked
  <1>14. ASSUME NEW f \in Failers, FailSessions(f) PROVE Picked'
    BY <1>14
    DEF FailSessions, OwnedBy, Waiting, Forgotten, connVars, netVars, workVars,
       envVars, TypeOK, Picked
  <1>15. ASSUME NEW f \in Failers, NEW ok \in BOOLEAN, FailOffline(f, ok) PROVE Picked'
    BY <1>15
    DEF FailOffline, dispVars, workVars, envVars, TypeOK, Picked
  <1>16. CASE ReapScan
    BY <1>16
    DEF ReapScan, Expired, mapVars, connVars, dispVars, netVars, workVars, envVars,
       TypeOK, Picked
  <1>17. ASSUME NEW n \in Names, ReapNext(n) PROVE Picked'
    BY <1>17
    DEF ReapNext, FailRemove, connVars, dispVars, netVars, workVars, envVars,
       TypeOK, Picked
  <1>18. ASSUME NEW s \in Sessions, PickMachine(s) PROVE Picked'
    BY <1>18
    DEF PickMachine, mapVars, connVars, failVars, netVars, workVars, envVars,
       TypeOK, Picked
  <1>19. ASSUME NEW s \in Sessions, RunLocally(s) PROVE Picked'
    BY <1>19
    DEF RunLocally, mapVars, connVars, failVars, netVars, workVars, envVars,
       TypeOK, Picked
  <1>20. ASSUME NEW s \in Sessions, Enlist(s) PROVE Picked'
    BY <1>20
    DEF Enlist, OwnerKey, connVars, failVars, netVars, workVars, envVars, TypeOK,
       Picked
  <1>21. ASSUME NEW s \in Sessions, SendAssign(s) PROVE Picked'
    BY <1>21
    DEF SendAssign, Transmit, mapVars, connVars, failVars, workVars, envVars,
       TypeOK, Picked
  <1>22. ASSUME NEW s \in Sessions, SendFails(s) PROVE Picked'
    BY <1>22
    DEF SendFails, Forgotten, connVars, failVars, netVars, workVars, envVars,
       TypeOK, Picked
  <1>23. ASSUME NEW s \in Sessions, Receive(s) PROVE Picked'
    BY <1>23
    DEF Receive, Outcome, mapVars, connVars, failVars, netVars, workVars, envVars,
       TypeOK, Picked
  <1>24. ASSUME NEW s \in Sessions, AbortTask(s) PROVE Picked'
    BY <1>24
    DEF AbortTask, mapVars, connVars, failVars, netVars, workVars, TypeOK, Picked
  <1>25. ASSUME NEW s \in Sessions, DropTask(s) PROVE Picked'
    BY <1>25
    DEF DropTask, mapVars, connVars, failVars, netVars, workVars, envVars, TypeOK,
       Picked
  <1>26. ASSUME NEW s \in Sessions, RouteAbort(s) PROVE Picked'
    BY <1>26
    DEF RouteAbort, Transmit, mapVars, connVars, failVars, workVars, envVars,
       TypeOK, Picked
  <1>27. ASSUME NEW s \in Sessions, NEW ok \in BOOLEAN, AgentEnds(s, ok) PROVE Picked'
    BY <1>27
    DEF AgentEnds, Serving, mapVars, connVars, failVars, dispVars, envVars, TypeOK,
       Picked
  <1>28. CASE Crash
    BY <1>28
    DEF Crash, AfterCrash, workVars, TypeOK, Picked, InFlight
  <1>29. CASE \E ok \in BOOLEAN : BootReclaim(ok)
    BY <1>29
    DEF BootReclaim, Reclaimed, connVars, failVars, dispVars, netVars, workVars,
       envVars, TypeOK, Picked
  <1> QED
    BY <1>1, <1>2, <1>3, <1>4, <1>5, <1>6, <1>7, <1>8, <1>9, <1>10, <1>11, <1>12,
       <1>13, <1>14, <1>15, <1>16, <1>17, <1>18, <1>19, <1>20, <1>21, <1>22, <1>23,
       <1>24, <1>25, <1>26, <1>27, <1>28, <1>29
    DEF Next, Online, Handler, Worker, FailMachine, Reap, Dispatch, Abort

-----------------------------------------------------------------------------
(* What the session invariants are about, and the steps that touch it. *)
core == <<pending, remote, disp, tx, answer, cancelled, routing, down, up, agent>>

LEMMA CoreCases ==
  ASSUME Next
  PROVE  \/ UNCHANGED core
         \/ \E c \in Conns : HandleEnded(c) \/ WorkerAssign(c) \/ WorkerAbort(c) \/ Break(c)
         \/ \E f \in Failers : FailMachine(f)
         \/ \E s \in Sessions :
               \/ PickMachine(s) \/ RunLocally(s) \/ Enlist(s) \/ SendAssign(s) \/ SendFails(s)
               \/ Receive(s) \/ AbortTask(s) \/ DropTask(s) \/ RouteAbort(s)
               \/ \E ok \in BOOLEAN : AgentEnds(s, ok)
         \/ Crash
  <1>1. ASSUME NEW c \in Conns,
               \/ Dial(c) \/ Online(c) \/ HandleHeartbeat(c)
               \/ HandlerNotices(c) \/ WriterGone(c) \/ WorkerInsert(c) \/ WorkerNotices(c)
               \/ Silence(c)
        PROVE  UNCHANGED core
    BY <1>1
    DEF core, Dial, Online, Register, MarkOnline, HandleHeartbeat, HandlerNotices, WriterGone,
        WorkerInsert, WorkerNotices, AgentsAfter, Silence, mapVars, dispVars, netVars, workVars
  <1>2. CASE ReapScan \/ (\E n \in Names : ReapNext(n)) \/ (\E ok \in BOOLEAN : BootReclaim(ok))
    BY <1>2 DEF core, ReapScan, ReapNext, BootReclaim, mapVars, dispVars, netVars, workVars
  <1> QED
    BY <1>1, <1>2 DEF Next, Online, Handler, Worker, FailMachine, Reap, Dispatch, Abort

Early == {"idle", "enlist", "local"}
Unsent == {"idle", "enlist", "local", "send"}

(* Nothing refers to a session before it is enlisted, and no agent runs    *)
(* for it before it is sent.                                               *)
Fresh ==
    \A s \in Sessions :
        /\ disp[s] \in Early => s \notin pending /\ remote[s] = NoName /\ answer[s] = "none"
        /\ disp[s] \in Unsent => agent[s] = "none"

(* An answer takes the entries with it; "ok" is an agent's word. *)
Answered ==
    \A s \in Sessions :
        /\ answer[s] # "none" => s \notin pending /\ remote[s] = NoName
        /\ answer[s] = "ok" => agent[s] = "ok"

(* The one assignment of a session waits where it was sent until its agent *)
(* starts, and kill frames are for aborted sessions.                       *)
Frames ==
    \A c \in Conns : \A i \in 1..Len(down[c]) :
        /\ down[c][i].t = "assign" =>
              /\ disp[down[c][i].s] \notin Unsent
              /\ tx[down[c][i].s] = c
              /\ agent[down[c][i].s] = "none"
              /\ \A j \in 1..Len(down[c]) :
                    down[c][j].t = "assign" /\ down[c][j].s = down[c][i].s => i = j
        /\ down[c][i].t = "abort" => down[c][i].s \in cancelled

Reports == \A c \in Conns : \A i \in 1..Len(up[c]) : up[c][i].ok => agent[up[c][i].s] = "ok"

LEMMA FrameTypes ==
  ASSUME TypeOK, NEW c \in Conns
  PROVE  /\ \A i \in 1..Len(down[c]) : down[c][i] \in Frame /\ down[c][i].s \in Sessions
         /\ \A i \in 1..Len(up[c]) : up[c][i] \in Ended /\ up[c][i].s \in Sessions
  <1>1. down[c] \in Seq(Frame) /\ up[c] \in Seq(Ended)
    BY DEF TypeOK
  <1>2. \A i \in 1..Len(down[c]) : down[c][i] \in Frame
    BY <1>1, Elements
  <1>3. \A i \in 1..Len(up[c]) : up[c][i] \in Ended
    BY <1>1, Elements
  <1>4. \A m \in Frame : m.s \in Sessions
    BY DEF Frame
  <1>5. \A m \in Ended : m.s \in Sessions
    BY DEF Ended
  <1> QED BY <1>2, <1>3, <1>4, <1>5

(* The start and the kill of an agent. *)
LEMMA AssignStarts ==
  ASSUME TypeOK, Frames, NEW c \in Conns, WorkerAssign(c)
  PROVE  \E s \in Sessions :
            /\ agent[s] = "none" /\ disp[s] \notin Unsent
            /\ agent' = [agent EXCEPT ![s] = "running"]
            /\ UNCHANGED <<pending, remote, disp, tx, answer, cancelled, up>>
  <1>1. down[c] \in Seq(Frame) /\ down[c] # <<>>
    BY DEF WorkerAssign, NextFrame, TypeOK
  <1>2. Head(down[c]) \in Frame /\ Head(down[c]) = down[c][1] /\ 1 \in 1..Len(down[c])
    BY <1>1, TailElements
  <1>3. Head(down[c]).s \in Sessions
    BY <1>2 DEF Frame
  <1>4. agent[Head(down[c]).s] = "none" /\ disp[Head(down[c]).s] \notin Unsent
    BY <1>2 DEF Frames, WorkerAssign, NextFrame
  <1> QED BY <1>3, <1>4 DEF WorkerAssign, mapVars, dispVars

LEMMA AbortKills ==
  ASSUME TypeOK, Frames, NEW c \in Conns, WorkerAbort(c)
  PROVE  /\ \E s \in cancelled : \A q \in Sessions :
               \/ agent'[q] = agent[q]
               \/ q = s /\ agent[q] = "running" /\ agent'[q] = "killed"
         /\ agent' = [q \in Sessions |-> agent'[q]]
         /\ UNCHANGED <<pending, remote, disp, tx, answer, cancelled, up>>
         /\ down' = [down EXCEPT ![c] = Tail(down[c])]
         /\ down[c] \in Seq(Frame) /\ down[c] # <<>>
  <1> DEFINE s == Head(down[c]).s
  <1>1. down[c] \in Seq(Frame) /\ down[c] # <<>>
    BY DEF WorkerAbort, NextFrame, TypeOK
  <1>2. Head(down[c]) \in Frame /\ Head(down[c]) = down[c][1] /\ 1 \in 1..Len(down[c])
    BY <1>1, TailElements
  <1>3. s \in cancelled
    BY <1>2 DEF Frames, WorkerAbort, NextFrame
  <1>4. agent' = [q \in Sessions |-> IF q \in inflight[c] \cap {s} /\ agent[q] = "running"
                                    THEN "killed" ELSE agent[q]]
    BY DEF WorkerAbort, Doomed
  <1>5. \A q \in Sessions :
           \/ agent'[q] = agent[q]
           \/ q = s /\ agent[q] = "running" /\ agent'[q] = "killed"
    BY <1>4
  <1>6. agent' = [q \in Sessions |-> agent'[q]]
    BY <1>4
  <1>7. UNCHANGED <<pending, remote, disp, tx, answer, cancelled, up>>
    BY DEF WorkerAbort, mapVars, dispVars
  <1>8. down' = [down EXCEPT ![c] = Tail(down[c])]
    BY DEF WorkerAbort
  <1> QED BY <1>1, <1>3, <1>5, <1>6, <1>7, <1>8

LEMMA Outcomes ==
  ASSUME TypeOK, NEW s \in Sessions, Receive(s)
  PROVE  answer[s] \in {"ok", "err"} /\ disp' = [disp EXCEPT ![s] = answer[s]]
  BY DEF TypeOK, Receive, Outcome

LEMMA FreshStep ==
  ASSUME TypeOK, Fresh, Frames, Next
  PROVE  Fresh'
  <1>1. CASE UNCHANGED core
    BY <1>1
    DEF TypeOK, Fresh, Early, Unsent, core
  <1>2. ASSUME NEW c \in Conns, HandleEnded(c) PROVE Fresh'
    BY <1>2
    DEF HandleEnded, Forgotten, failVars, workVars, envVars, TypeOK, Fresh, Early,
       Unsent
  <1>3. ASSUME NEW c \in Conns, WorkerAssign(c) PROVE Fresh'
    BY <1>3, AssignStarts DEF TypeOK, Fresh, Early, Unsent
  <1>4. ASSUME NEW c \in Conns, WorkerAbort(c) PROVE Fresh'
    BY <1>4, AbortKills DEF TypeOK, Fresh, Early, Unsent
  <1>5. ASSUME NEW c \in Conns, Break(c) PROVE Fresh'
    BY <1>5
    DEF Break, mapVars, connVars, failVars, dispVars, workVars, envVars, TypeOK,
       Fresh, Early, Unsent
  <1>6. ASSUME NEW f \in Failers, FailSessions(f) PROVE Fresh'
    BY <1>6
    DEF FailSessions, OwnedBy, Waiting, Forgotten, connVars, netVars, workVars,
       envVars, TypeOK, Fresh, Early, Unsent
  <1>7. ASSUME NEW f \in Failers, NEW ok \in BOOLEAN, FailOffline(f, ok) PROVE Fresh'
    BY <1>7
    DEF FailOffline, dispVars, workVars, envVars, TypeOK, Fresh, Early, Unsent
  <1>8. ASSUME NEW s \in Sessions, PickMachine(s) PROVE Fresh'
    BY <1>8
    DEF PickMachine, mapVars, connVars, failVars, netVars, workVars, envVars,
       TypeOK, Fresh, Early, Unsent
  <1>9. ASSUME NEW s \in Sessions, RunLocally(s) PROVE Fresh'
    BY <1>9
    DEF RunLocally, mapVars, connVars, failVars, netVars, workVars, envVars,
       TypeOK, Fresh, Early, Unsent
  <1>10. ASSUME NEW s \in Sessions, Enlist(s) PROVE Fresh'
    BY <1>10
    DEF Enlist, OwnerKey, connVars, failVars, netVars, workVars, envVars, TypeOK,
       Fresh, Early, Unsent
  <1>11. ASSUME NEW s \in Sessions, SendAssign(s) PROVE Fresh'
    BY <1>11
    DEF SendAssign, Transmit, mapVars, connVars, failVars, workVars, envVars,
       TypeOK, Fresh, Early, Unsent
  <1>12. ASSUME NEW s \in Sessions, SendFails(s) PROVE Fresh'
    BY <1>12
    DEF SendFails, Forgotten, connVars, failVars, netVars, workVars, envVars,
       TypeOK, Fresh, Early, Unsent
  <1>13. ASSUME NEW s \in Sessions, Receive(s) PROVE Fresh'
    <2>1. answer[s] \in {"ok", "err"} /\ disp' = [disp EXCEPT ![s] = answer[s]]
      BY <1>13, Outcomes
    <2> QED BY <1>13, <2>1 DEF Receive, dispVars, mapVars, workVars, netVars, TypeOK, Fresh, Early, Unsent
  <1>14. ASSUME NEW s \in Sessions, AbortTask(s) PROVE Fresh'
    BY <1>14
    DEF AbortTask, mapVars, connVars, failVars, netVars, workVars, TypeOK, Fresh,
       Early, Unsent
  <1>15. ASSUME NEW s \in Sessions, DropTask(s) PROVE Fresh'
    BY <1>15
    DEF DropTask, mapVars, connVars, failVars, netVars, workVars, envVars, TypeOK,
       Fresh, Early, Unsent
  <1>16. ASSUME NEW s \in Sessions, RouteAbort(s) PROVE Fresh'
    BY <1>16
    DEF RouteAbort, Transmit, mapVars, connVars, failVars, workVars, envVars,
       TypeOK, Fresh, Early, Unsent
  <1>17. ASSUME NEW s \in Sessions, NEW ok \in BOOLEAN, AgentEnds(s, ok) PROVE Fresh'
    BY <1>17
    DEF AgentEnds, Serving, mapVars, connVars, failVars, dispVars, envVars, TypeOK,
       Fresh, Early, Unsent
  <1>18. CASE Crash
    BY <1>18
    DEF Crash, AfterCrash, workVars, TypeOK, Fresh, Early, Unsent, InFlight
  <1> QED
    BY <1>1, <1>2, <1>3, <1>4, <1>5, <1>6, <1>7, <1>8, <1>9, <1>10, <1>11, <1>12,
       <1>13, <1>14, <1>15, <1>16, <1>17, <1>18, CoreCases DEF FailMachine

LEMMA AnsweredStep ==
  ASSUME TypeOK, Fresh, Answered, Frames, Reports, Next
  PROVE  Answered'
  <1>1. CASE UNCHANGED core
    BY <1>1
    DEF TypeOK, Fresh, Early, Answered, core
  <1>2. ASSUME NEW c \in Conns, HandleEnded(c) PROVE Answered'
    <2>1. up[c] \in Seq(Ended) /\ up[c] # <<>>
      BY <1>2 DEF HandleEnded, TypeOK
    <2>2. /\ Head(up[c]) \in Ended /\ Head(up[c]) = up[c][1] /\ 1 \in 1..Len(up[c])
      BY <2>1, TailElements
    <2>3. Head(up[c]).s \in Sessions /\ (Head(up[c]).ok => agent[Head(up[c]).s] = "ok")
      BY <2>2 DEF Ended, Reports
    <2>4. agent' = agent
      BY <1>2 DEF HandleEnded, workVars
    <2> QED BY <1>2, <2>3, <2>4 DEF HandleEnded, Forgotten, TypeOK, Answered
  <1>3. ASSUME NEW c \in Conns, WorkerAssign(c) PROVE Answered'
    BY <1>3, AssignStarts DEF TypeOK, Answered
  <1>4. ASSUME NEW c \in Conns, WorkerAbort(c) PROVE Answered'
    BY <1>4, AbortKills DEF TypeOK, Answered
  <1>5. ASSUME NEW c \in Conns, Break(c) PROVE Answered'
    BY <1>5
    DEF Break, mapVars, connVars, failVars, dispVars, workVars, envVars, TypeOK,
       Fresh, Early, Answered
  <1>6. ASSUME NEW f \in Failers, FailSessions(f) PROVE Answered'
    BY <1>6
    DEF FailSessions, OwnedBy, Waiting, Forgotten, connVars, netVars, workVars,
       envVars, TypeOK, Fresh, Early, Answered
  <1>7. ASSUME NEW f \in Failers, NEW ok \in BOOLEAN, FailOffline(f, ok) PROVE Answered'
    BY <1>7
    DEF FailOffline, dispVars, workVars, envVars, TypeOK, Fresh, Early, Answered
  <1>8. ASSUME NEW s \in Sessions, PickMachine(s) PROVE Answered'
    BY <1>8
    DEF PickMachine, mapVars, connVars, failVars, netVars, workVars, envVars,
       TypeOK, Fresh, Early, Answered
  <1>9. ASSUME NEW s \in Sessions, RunLocally(s) PROVE Answered'
    BY <1>9
    DEF RunLocally, mapVars, connVars, failVars, netVars, workVars, envVars,
       TypeOK, Fresh, Early, Answered
  <1>10. ASSUME NEW s \in Sessions, Enlist(s) PROVE Answered'
    BY <1>10
    DEF Enlist, OwnerKey, connVars, failVars, netVars, workVars, envVars, TypeOK,
       Fresh, Early, Answered
  <1>11. ASSUME NEW s \in Sessions, SendAssign(s) PROVE Answered'
    BY <1>11
    DEF SendAssign, Transmit, mapVars, connVars, failVars, workVars, envVars,
       TypeOK, Fresh, Early, Answered
  <1>12. ASSUME NEW s \in Sessions, SendFails(s) PROVE Answered'
    BY <1>12
    DEF SendFails, Forgotten, connVars, failVars, netVars, workVars, envVars,
       TypeOK, Fresh, Early, Answered
  <1>13. ASSUME NEW s \in Sessions, Receive(s) PROVE Answered'
    BY <1>13
    DEF Receive, Outcome, mapVars, connVars, failVars, netVars, workVars, envVars,
       TypeOK, Fresh, Early, Answered
  <1>14. ASSUME NEW s \in Sessions, AbortTask(s) PROVE Answered'
    BY <1>14
    DEF AbortTask, mapVars, connVars, failVars, netVars, workVars, TypeOK, Fresh,
       Early, Answered
  <1>15. ASSUME NEW s \in Sessions, DropTask(s) PROVE Answered'
    BY <1>15
    DEF DropTask, mapVars, connVars, failVars, netVars, workVars, envVars, TypeOK,
       Fresh, Early, Answered
  <1>16. ASSUME NEW s \in Sessions, RouteAbort(s) PROVE Answered'
    BY <1>16
    DEF RouteAbort, Transmit, mapVars, connVars, failVars, workVars, envVars,
       TypeOK, Fresh, Early, Answered
  <1>17. ASSUME NEW s \in Sessions, NEW ok \in BOOLEAN, AgentEnds(s, ok) PROVE Answered'
    BY <1>17
    DEF AgentEnds, Serving, mapVars, connVars, failVars, dispVars, envVars, TypeOK,
       Fresh, Early, Answered
  <1>18. CASE Crash
    BY <1>18
    DEF Crash, AfterCrash, workVars, TypeOK, Fresh, Early, Answered
  <1> QED
    BY <1>1, <1>2, <1>3, <1>4, <1>5, <1>6, <1>7, <1>8, <1>9, <1>10, <1>11, <1>12,
       <1>13, <1>14, <1>15, <1>16, <1>17, <1>18, CoreCases DEF FailMachine

LEMMA NoLeakStep ==
  ASSUME TypeOK, Fresh, Answered, NoLeak, Next
  PROVE  NoLeak'
  <1>1. CASE UNCHANGED core
    BY <1>1
    DEF TypeOK, Fresh, Early, Answered, NoLeak, core
  <1>2. ASSUME NEW c \in Conns, HandleEnded(c) PROVE NoLeak'
    BY <1>2
    DEF HandleEnded, Forgotten, failVars, workVars, envVars, TypeOK, Fresh, Early,
       Answered, NoLeak
  <1>3. ASSUME NEW c \in Conns, WorkerAssign(c) PROVE NoLeak'
    BY <1>3
    DEF WorkerAssign, NextFrame, Serving, mapVars, connVars, failVars, dispVars,
       envVars, TypeOK, Fresh, Early, Answered, NoLeak
  <1>4. ASSUME NEW c \in Conns, WorkerAbort(c) PROVE NoLeak'
    BY <1>4
    DEF WorkerAbort, NextFrame, Serving, Doomed, mapVars, connVars, failVars,
       dispVars, envVars, TypeOK, Fresh, Early, Answered, NoLeak
  <1>5. ASSUME NEW c \in Conns, Break(c) PROVE NoLeak'
    BY <1>5
    DEF Break, mapVars, connVars, failVars, dispVars, workVars, envVars, TypeOK,
       Fresh, Early, Answered, NoLeak
  <1>6. ASSUME NEW f \in Failers, FailSessions(f) PROVE NoLeak'
    BY <1>6
    DEF FailSessions, OwnedBy, Waiting, Forgotten, connVars, netVars, workVars,
       envVars, TypeOK, Fresh, Early, Answered, NoLeak
  <1>7. ASSUME NEW f \in Failers, NEW ok \in BOOLEAN, FailOffline(f, ok) PROVE NoLeak'
    BY <1>7
    DEF FailOffline, dispVars, workVars, envVars, TypeOK, Fresh, Early, Answered,
       NoLeak
  <1>8. ASSUME NEW s \in Sessions, PickMachine(s) PROVE NoLeak'
    BY <1>8
    DEF PickMachine, mapVars, connVars, failVars, netVars, workVars, envVars,
       TypeOK, Fresh, Early, Answered, NoLeak
  <1>9. ASSUME NEW s \in Sessions, RunLocally(s) PROVE NoLeak'
    BY <1>9
    DEF RunLocally, mapVars, connVars, failVars, netVars, workVars, envVars,
       TypeOK, Fresh, Early, Answered, NoLeak
  <1>10. ASSUME NEW s \in Sessions, Enlist(s) PROVE NoLeak'
    BY <1>10
    DEF Enlist, OwnerKey, connVars, failVars, netVars, workVars, envVars, TypeOK,
       Fresh, Early, Answered, NoLeak
  <1>11. ASSUME NEW s \in Sessions, SendAssign(s) PROVE NoLeak'
    BY <1>11
    DEF SendAssign, Transmit, mapVars, connVars, failVars, workVars, envVars,
       TypeOK, Fresh, Early, Answered, NoLeak
  <1>12. ASSUME NEW s \in Sessions, SendFails(s) PROVE NoLeak'
    BY <1>12
    DEF SendFails, Forgotten, connVars, failVars, netVars, workVars, envVars,
       TypeOK, Fresh, Early, Answered, NoLeak
  <1>13. ASSUME NEW s \in Sessions, Receive(s) PROVE NoLeak'
    BY <1>13
    DEF Receive, Outcome, mapVars, connVars, failVars, netVars, workVars, envVars,
       TypeOK, Fresh, Early, Answered, NoLeak
  <1>14. ASSUME NEW s \in Sessions, AbortTask(s) PROVE NoLeak'
    BY <1>14
    DEF AbortTask, mapVars, connVars, failVars, netVars, workVars, TypeOK, Fresh,
       Early, Answered, NoLeak
  <1>15. ASSUME NEW s \in Sessions, DropTask(s) PROVE NoLeak'
    BY <1>15
    DEF DropTask, mapVars, connVars, failVars, netVars, workVars, envVars, TypeOK,
       Fresh, Early, Answered, NoLeak
  <1>16. ASSUME NEW s \in Sessions, RouteAbort(s) PROVE NoLeak'
    BY <1>16
    DEF RouteAbort, Transmit, mapVars, connVars, failVars, workVars, envVars,
       TypeOK, Fresh, Early, Answered, NoLeak
  <1>17. ASSUME NEW s \in Sessions, NEW ok \in BOOLEAN, AgentEnds(s, ok) PROVE NoLeak'
    BY <1>17
    DEF AgentEnds, Serving, mapVars, connVars, failVars, dispVars, envVars, TypeOK,
       Fresh, Early, Answered, NoLeak
  <1>18. CASE Crash
    BY <1>18
    DEF Crash, AfterCrash, workVars, TypeOK, Fresh, Early, Answered, NoLeak,
       InFlight
  <1> QED
    BY <1>1, <1>2, <1>3, <1>4, <1>5, <1>6, <1>7, <1>8, <1>9, <1>10, <1>11, <1>12,
       <1>13, <1>14, <1>15, <1>16, <1>17, <1>18, CoreCases DEF FailMachine

LEMMA KilledStep ==
  ASSUME TypeOK, KilledOnlyIfAborted, Frames, Next
  PROVE  KilledOnlyIfAborted'
  <1>1. CASE UNCHANGED core
    BY <1>1
    DEF TypeOK, KilledOnlyIfAborted, core
  <1>2. ASSUME NEW c \in Conns, HandleEnded(c) PROVE KilledOnlyIfAborted'
    BY <1>2
    DEF HandleEnded, Forgotten, failVars, workVars, envVars, TypeOK,
       KilledOnlyIfAborted
  <1>3. ASSUME NEW c \in Conns, WorkerAssign(c) PROVE KilledOnlyIfAborted'
    BY <1>3
    DEF WorkerAssign, NextFrame, Serving, mapVars, connVars, failVars, dispVars,
       envVars, TypeOK, KilledOnlyIfAborted
  <1>4. ASSUME NEW c \in Conns, WorkerAbort(c) PROVE KilledOnlyIfAborted'
    BY <1>4, AbortKills DEF TypeOK, KilledOnlyIfAborted
  <1>5. ASSUME NEW c \in Conns, Break(c) PROVE KilledOnlyIfAborted'
    BY <1>5
    DEF Break, mapVars, connVars, failVars, dispVars, workVars, envVars, TypeOK,
       KilledOnlyIfAborted
  <1>6. ASSUME NEW f \in Failers, FailSessions(f) PROVE KilledOnlyIfAborted'
    BY <1>6
    DEF FailSessions, OwnedBy, Waiting, Forgotten, connVars, netVars, workVars,
       envVars, TypeOK, KilledOnlyIfAborted
  <1>7. ASSUME NEW f \in Failers, NEW ok \in BOOLEAN, FailOffline(f, ok) PROVE KilledOnlyIfAborted'
    BY <1>7
    DEF FailOffline, dispVars, workVars, envVars, TypeOK, KilledOnlyIfAborted
  <1>8. ASSUME NEW s \in Sessions, PickMachine(s) PROVE KilledOnlyIfAborted'
    BY <1>8
    DEF PickMachine, mapVars, connVars, failVars, netVars, workVars, envVars,
       TypeOK, KilledOnlyIfAborted
  <1>9. ASSUME NEW s \in Sessions, RunLocally(s) PROVE KilledOnlyIfAborted'
    BY <1>9
    DEF RunLocally, mapVars, connVars, failVars, netVars, workVars, envVars,
       TypeOK, KilledOnlyIfAborted
  <1>10. ASSUME NEW s \in Sessions, Enlist(s) PROVE KilledOnlyIfAborted'
    BY <1>10
    DEF Enlist, OwnerKey, connVars, failVars, netVars, workVars, envVars, TypeOK,
       KilledOnlyIfAborted
  <1>11. ASSUME NEW s \in Sessions, SendAssign(s) PROVE KilledOnlyIfAborted'
    BY <1>11
    DEF SendAssign, Transmit, mapVars, connVars, failVars, workVars, envVars,
       TypeOK, KilledOnlyIfAborted
  <1>12. ASSUME NEW s \in Sessions, SendFails(s) PROVE KilledOnlyIfAborted'
    BY <1>12
    DEF SendFails, Forgotten, connVars, failVars, netVars, workVars, envVars,
       TypeOK, KilledOnlyIfAborted
  <1>13. ASSUME NEW s \in Sessions, Receive(s) PROVE KilledOnlyIfAborted'
    BY <1>13
    DEF Receive, Outcome, mapVars, connVars, failVars, netVars, workVars, envVars,
       TypeOK, KilledOnlyIfAborted
  <1>14. ASSUME NEW s \in Sessions, AbortTask(s) PROVE KilledOnlyIfAborted'
    BY <1>14
    DEF AbortTask, mapVars, connVars, failVars, netVars, workVars, TypeOK,
       KilledOnlyIfAborted
  <1>15. ASSUME NEW s \in Sessions, DropTask(s) PROVE KilledOnlyIfAborted'
    BY <1>15
    DEF DropTask, mapVars, connVars, failVars, netVars, workVars, envVars, TypeOK,
       KilledOnlyIfAborted
  <1>16. ASSUME NEW s \in Sessions, RouteAbort(s) PROVE KilledOnlyIfAborted'
    BY <1>16
    DEF RouteAbort, Transmit, mapVars, connVars, failVars, workVars, envVars,
       TypeOK, KilledOnlyIfAborted
  <1>17. ASSUME NEW s \in Sessions, NEW ok \in BOOLEAN, AgentEnds(s, ok) PROVE KilledOnlyIfAborted'
    BY <1>17
    DEF AgentEnds, Serving, mapVars, connVars, failVars, dispVars, envVars, TypeOK,
       KilledOnlyIfAborted
  <1>18. CASE Crash
    BY <1>18
    DEF Crash, AfterCrash, workVars, TypeOK, KilledOnlyIfAborted
  <1> QED
    BY <1>1, <1>2, <1>3, <1>4, <1>5, <1>6, <1>7, <1>8, <1>9, <1>10, <1>11, <1>12,
       <1>13, <1>14, <1>15, <1>16, <1>17, <1>18, CoreCases DEF FailMachine

LEMMA ReportsStep ==
  ASSUME TypeOK, Reports, Fresh, Frames, Next
  PROVE  Reports'
  <1>1. CASE UNCHANGED core
    BY <1>1
    DEF TypeOK, Reports, core
  <1>2. ASSUME NEW c \in Conns, HandleEnded(c) PROVE Reports'
    BY <1>2
    DEF HandleEnded, Forgotten, failVars, workVars, envVars, TypeOK, Reports
  <1>3. ASSUME NEW c \in Conns, WorkerAssign(c) PROVE Reports'
    <2>1. /\ up' = up
          /\ \A q \in Sessions : agent[q] = "ok" => agent'[q] = "ok"
      BY <1>3, AssignStarts DEF TypeOK
    <2>2. \A d \in Conns : \A i \in 1..Len(up[d]) : up[d][i].s \in Sessions
      BY FrameTypes
    <2> QED BY <2>1, <2>2 DEF Reports
  <1>4. ASSUME NEW c \in Conns, WorkerAbort(c) PROVE Reports'
    <2>1. /\ up' = up
          /\ \A q \in Sessions : agent[q] = "ok" => agent'[q] = "ok"
      BY <1>4, AbortKills DEF TypeOK
    <2>2. \A d \in Conns : \A i \in 1..Len(up[d]) : up[d][i].s \in Sessions
      BY FrameTypes
    <2> QED BY <2>1, <2>2 DEF Reports
  <1>5. ASSUME NEW c \in Conns, Break(c) PROVE Reports'
    BY <1>5
    DEF Break, mapVars, connVars, failVars, dispVars, workVars, envVars, TypeOK,
       Reports
  <1>6. ASSUME NEW f \in Failers, FailSessions(f) PROVE Reports'
    BY <1>6
    DEF FailSessions, OwnedBy, Waiting, Forgotten, connVars, netVars, workVars,
       envVars, TypeOK, Reports
  <1>7. ASSUME NEW f \in Failers, NEW ok \in BOOLEAN, FailOffline(f, ok) PROVE Reports'
    BY <1>7
    DEF FailOffline, dispVars, workVars, envVars, TypeOK, Reports
  <1>8. ASSUME NEW s \in Sessions, PickMachine(s) PROVE Reports'
    BY <1>8
    DEF PickMachine, mapVars, connVars, failVars, netVars, workVars, envVars,
       TypeOK, Reports
  <1>9. ASSUME NEW s \in Sessions, RunLocally(s) PROVE Reports'
    BY <1>9
    DEF RunLocally, mapVars, connVars, failVars, netVars, workVars, envVars,
       TypeOK, Reports
  <1>10. ASSUME NEW s \in Sessions, Enlist(s) PROVE Reports'
    BY <1>10
    DEF Enlist, OwnerKey, connVars, failVars, netVars, workVars, envVars, TypeOK,
       Reports
  <1>11. ASSUME NEW s \in Sessions, SendAssign(s) PROVE Reports'
    BY <1>11
    DEF SendAssign, Transmit, mapVars, connVars, failVars, workVars, envVars,
       TypeOK, Reports
  <1>12. ASSUME NEW s \in Sessions, SendFails(s) PROVE Reports'
    BY <1>12
    DEF SendFails, Forgotten, connVars, failVars, netVars, workVars, envVars,
       TypeOK, Reports
  <1>13. ASSUME NEW s \in Sessions, Receive(s) PROVE Reports'
    BY <1>13
    DEF Receive, Outcome, mapVars, connVars, failVars, netVars, workVars, envVars,
       TypeOK, Reports
  <1>14. ASSUME NEW s \in Sessions, AbortTask(s) PROVE Reports'
    BY <1>14
    DEF AbortTask, mapVars, connVars, failVars, netVars, workVars, TypeOK, Reports
  <1>15. ASSUME NEW s \in Sessions, DropTask(s) PROVE Reports'
    BY <1>15
    DEF DropTask, mapVars, connVars, failVars, netVars, workVars, envVars, TypeOK,
       Reports
  <1>16. ASSUME NEW s \in Sessions, RouteAbort(s) PROVE Reports'
    BY <1>16
    DEF RouteAbort, Transmit, mapVars, connVars, failVars, workVars, envVars,
       TypeOK, Reports
  <1>17. ASSUME NEW s \in Sessions, NEW ok \in BOOLEAN, AgentEnds(s, ok) PROVE Reports'
    BY <1>17
    DEF AgentEnds, Serving, mapVars, connVars, failVars, dispVars, envVars, TypeOK,
       Reports
  <1>18. CASE Crash
    BY <1>18
    DEF Crash, AfterCrash, workVars, TypeOK, Reports
  <1> QED
    BY <1>1, <1>2, <1>3, <1>4, <1>5, <1>6, <1>7, <1>8, <1>9, <1>10, <1>11, <1>12,
       <1>13, <1>14, <1>15, <1>16, <1>17, <1>18, CoreCases DEF FailMachine

LEMMA FramesStep ==
  ASSUME TypeOK, Picked, Fresh, Frames, Next
  PROVE  Frames'
  <1>1. CASE UNCHANGED core
    BY <1>1
    DEF TypeOK, Frames, Unsent, core
  <1>2. ASSUME NEW c \in Conns, HandleEnded(c) PROVE Frames'
    BY <1>2
    DEF HandleEnded, Forgotten, failVars, workVars, envVars, TypeOK, Frames, Unsent
  <1>3. ASSUME NEW c \in Conns, WorkerAssign(c) PROVE Frames'
    <2> DEFINE q == down[c][1].s
    <2>1. down[c] \in Seq(Frame) /\ down[c] # <<>>
      BY <1>3 DEF WorkerAssign, NextFrame, TypeOK
    <2>2. /\ Head(down[c]) = down[c][1] /\ 1 \in 1..Len(down[c])
          /\ \A i \in 1..Len(Tail(down[c])) :
                Tail(down[c])[i] = down[c][i + 1] /\ i + 1 \in 1..Len(down[c])
      BY <2>1, TailElements
    <2>3. /\ down[c][1].t = "assign" /\ tx[q] = c
          /\ \A i \in 1..Len(down[c]) : down[c][i].t = "assign" /\ down[c][i].s = q => i = 1
      BY <1>3, <2>2 DEF WorkerAssign, NextFrame, Frames
    <2>4. UNCHANGED <<disp, tx, cancelled>> /\ agent' = [agent EXCEPT ![q] = "running"]
      BY <1>3, <2>2 DEF WorkerAssign, dispVars
    <2>5. \A d \in Conns : \A i \in 1..Len(down[d]) : down[d][i].s \in Sessions
      BY FrameTypes
    <2>6. \A d \in Conns : down'[d] = IF d = c THEN Tail(down[c]) ELSE down[d]
      BY <1>3 DEF WorkerAssign, TypeOK
    <2>9. \A s \in Sessions : s # q => agent'[s] = agent[s]
      BY <2>4 DEF TypeOK
    <2>7. ASSUME NEW d \in Conns, d # c, NEW i \in 1..Len(down'[d])
          PROVE  /\ down'[d][i].t = "assign" =>
                       /\ disp[down'[d][i].s] \notin Unsent /\ tx[down'[d][i].s] = d
                       /\ agent'[down'[d][i].s] = "none"
                       /\ \A j \in 1..Len(down'[d]) :
                             down'[d][j].t = "assign" /\ down'[d][j].s = down'[d][i].s => i = j
                 /\ down'[d][i].t = "abort" => down'[d][i].s \in cancelled
      BY <2>3, <2>5, <2>6, <2>7, <2>9 DEF Frames
    <2>8. ASSUME NEW i \in 1..Len(down'[c])
          PROVE  /\ down'[c][i].t = "assign" =>
                       /\ disp[down'[c][i].s] \notin Unsent /\ tx[down'[c][i].s] = c
                       /\ agent'[down'[c][i].s] = "none"
                       /\ \A j \in 1..Len(down'[c]) :
                             down'[c][j].t = "assign" /\ down'[c][j].s = down'[c][i].s => i = j
                 /\ down'[c][i].t = "abort" => down'[c][i].s \in cancelled
      <3>1. down'[c] = Tail(down[c])
        BY <2>6
      <3>2. down[c][i + 1].t = "assign" => down[c][i + 1].s # q
        BY <2>2, <2>3, <3>1
      <3> QED BY <2>2, <2>5, <2>8, <2>9, <3>1, <3>2 DEF Frames
    <2> QED BY <2>4, <2>7, <2>8 DEF Frames
  <1>4. ASSUME NEW c \in Conns, WorkerAbort(c) PROVE Frames'
    <2>1. down[c] \in Seq(Frame) /\ down[c] # <<>> /\ down' = [down EXCEPT ![c] = Tail(down[c])]
      BY <1>4, AbortKills
    <2>2. \A i \in 1..Len(Tail(down[c])) : Tail(down[c])[i] = down[c][i + 1] /\ i + 1 \in 1..Len(down[c])
      BY <2>1, TailElements
    <2>3. \A q \in Sessions : agent[q] = "none" => agent'[q] = "none"
      BY <1>4, AbortKills DEF TypeOK
    <2>4. UNCHANGED <<disp, tx, cancelled>>
      BY <1>4 DEF WorkerAbort, dispVars
    <2>5. \A d \in Conns : \A i \in 1..Len(down[d]) : down[d][i].s \in Sessions
      BY FrameTypes
    <2>6. \A d \in Conns : down'[d] = IF d = c THEN Tail(down[c]) ELSE down[d]
      BY <2>1 DEF TypeOK
    <2>7. ASSUME NEW d \in Conns, d # c, NEW i \in 1..Len(down'[d])
          PROVE  /\ down'[d][i].t = "assign" =>
                       /\ disp[down'[d][i].s] \notin Unsent /\ tx[down'[d][i].s] = d
                       /\ agent'[down'[d][i].s] = "none"
                       /\ \A j \in 1..Len(down'[d]) :
                             down'[d][j].t = "assign" /\ down'[d][j].s = down'[d][i].s => i = j
                 /\ down'[d][i].t = "abort" => down'[d][i].s \in cancelled
      BY <2>3, <2>5, <2>6, <2>7 DEF Frames
    <2>8. ASSUME NEW i \in 1..Len(down'[c])
          PROVE  /\ down'[c][i].t = "assign" =>
                       /\ disp[down'[c][i].s] \notin Unsent /\ tx[down'[c][i].s] = c
                       /\ agent'[down'[c][i].s] = "none"
                       /\ \A j \in 1..Len(down'[c]) :
                             down'[c][j].t = "assign" /\ down'[c][j].s = down'[c][i].s => i = j
                 /\ down'[c][i].t = "abort" => down'[c][i].s \in cancelled
      <3>1. down'[c] = Tail(down[c])
        BY <2>6
      <3> QED BY <2>2, <2>3, <2>5, <2>8, <3>1 DEF Frames
    <2> QED BY <2>4, <2>7, <2>8 DEF Frames
  <1>5. ASSUME NEW c \in Conns, Break(c) PROVE Frames'
    BY <1>5
    DEF Break, mapVars, connVars, failVars, dispVars, workVars, envVars, TypeOK,
       Frames, Unsent
  <1>6. ASSUME NEW f \in Failers, FailSessions(f) PROVE Frames'
    BY <1>6
    DEF FailSessions, OwnedBy, Waiting, Forgotten, connVars, netVars, workVars,
       envVars, TypeOK, Frames, Unsent
  <1>7. ASSUME NEW f \in Failers, NEW ok \in BOOLEAN, FailOffline(f, ok) PROVE Frames'
    BY <1>7
    DEF FailOffline, dispVars, workVars, envVars, TypeOK, Frames, Unsent
  <1>8. ASSUME NEW s \in Sessions, PickMachine(s) PROVE Frames'
    BY <1>8
    DEF PickMachine, mapVars, connVars, failVars, netVars, workVars, envVars,
       TypeOK, Frames, Unsent
  <1>9. ASSUME NEW s \in Sessions, RunLocally(s) PROVE Frames'
    BY <1>9
    DEF RunLocally, mapVars, connVars, failVars, netVars, workVars, envVars,
       TypeOK, Frames, Unsent
  <1>10. ASSUME NEW s \in Sessions, Enlist(s) PROVE Frames'
    BY <1>10
    DEF Enlist, OwnerKey, connVars, failVars, netVars, workVars, envVars, TypeOK,
       Frames, Unsent
  <1>11. ASSUME NEW s \in Sessions, SendAssign(s) PROVE Frames'
    <2> DEFINE m == [t |-> "assign", s |-> s]
    <2>1. tx[s] \in Conns /\ disp[s] = "send" /\ agent[s] = "none" /\ m \in Frame
      BY <1>11 DEF SendAssign, Picked, Fresh, Unsent, Frame
    <2>2. /\ down' = [down EXCEPT ![tx[s]] = Append(down[tx[s]], m)]
          /\ disp' = [disp EXCEPT ![s] = "await"]
          /\ UNCHANGED <<tx, agent, cancelled>>
      BY <1>11 DEF SendAssign, Transmit, workVars
    <2>3. \A c \in Conns : down[c] \in Seq(Frame)
      BY DEF TypeOK
    <2>4. \A c \in Conns : \A i \in 1..Len(down[c]) :
             down[c][i].s \in Sessions /\ (down[c][i].t = "assign" => down[c][i].s # s)
      BY <2>1, FrameTypes DEF Frames, Unsent
    <2>5. /\ Append(down[tx[s]], m) \in Seq(Frame)
          /\ \A i \in 1..Len(Append(down[tx[s]], m)) :
                \/ i \in 1..Len(down[tx[s]]) /\ Append(down[tx[s]], m)[i] = down[tx[s]][i]
                \/ i = Len(down[tx[s]]) + 1 /\ Append(down[tx[s]], m)[i] = m
      BY <2>1, <2>3, AppendElements
    <2>6. \A c \in Conns : \A i \in 1..Len(down'[c]) :
             \/ i \in 1..Len(down[c]) /\ down'[c][i] = down[c][i]
             \/ c = tx[s] /\ i = Len(down[c]) + 1 /\ down'[c][i] = m
      <3>1. \A c \in Conns : down'[c] = IF c = tx[s] THEN Append(down[c], m) ELSE down[c]
        BY <2>1, <2>2 DEF TypeOK
      <3> QED BY <2>1, <2>5, <3>1
    <2>7. \A q \in Sessions : disp[q] \notin Unsent => disp'[q] \notin Unsent
      BY <2>2 DEF Unsent, TypeOK
    <2>8. disp'[s] = "await"
      BY <2>2 DEF TypeOK
    <2>9. ASSUME NEW c \in Conns, NEW i \in 1..Len(down'[c]), down'[c][i].t = "assign"
          PROVE  /\ disp'[down'[c][i].s] \notin Unsent
                 /\ tx[down'[c][i].s] = c
                 /\ agent[down'[c][i].s] = "none"
                 /\ \A j \in 1..Len(down'[c]) :
                       down'[c][j].t = "assign" /\ down'[c][j].s = down'[c][i].s => i = j
      <3>1. CASE i \in 1..Len(down[c]) /\ down'[c][i] = down[c][i]
        BY <2>4, <2>6, <2>7, <2>9, <3>1 DEF Frames
      <3>2. CASE c = tx[s] /\ i = Len(down[c]) + 1 /\ down'[c][i] = m
        BY <2>1, <2>4, <2>6, <2>8, <2>9, <3>2 DEF Unsent
      <3> QED BY <2>6, <3>1, <3>2
    <2>10. ASSUME NEW c \in Conns, NEW i \in 1..Len(down'[c]), down'[c][i].t = "abort"
           PROVE  down'[c][i].s \in cancelled
      BY <2>6, <2>10 DEF Frames
    <2>11. tx' = tx /\ agent' = agent /\ cancelled' = cancelled
      BY <2>2
    <2> QED BY <2>9, <2>10, <2>11 DEF Frames
  <1>12. ASSUME NEW s \in Sessions, SendFails(s) PROVE Frames'
    BY <1>12
    DEF SendFails, Forgotten, connVars, failVars, netVars, workVars, envVars,
       TypeOK, Frames, Unsent
  <1>13. ASSUME NEW s \in Sessions, Receive(s) PROVE Frames'
    <2>1. answer[s] \in {"ok", "err"} /\ disp' = [disp EXCEPT ![s] = answer[s]]
      BY <1>13, Outcomes
    <2>2. \A q : q \in Sessions /\ disp[q] \notin Unsent => disp'[q] \notin Unsent
      BY <2>1 DEF TypeOK, Unsent
    <2>3. UNCHANGED <<tx, agent, cancelled, down>>
      BY <1>13 DEF Receive, netVars, workVars
    <2>4. \A d \in Conns : \A i \in 1..Len(down[d]) : down[d][i].s \in Sessions
      BY FrameTypes
    <2> QED BY <2>2, <2>3, <2>4 DEF Frames
  <1>14. ASSUME NEW s \in Sessions, AbortTask(s) PROVE Frames'
    BY <1>14
    DEF AbortTask, mapVars, connVars, failVars, netVars, workVars, TypeOK, Frames,
       Unsent
  <1>15. ASSUME NEW s \in Sessions, DropTask(s) PROVE Frames'
    BY <1>15
    DEF DropTask, mapVars, connVars, failVars, netVars, workVars, envVars, TypeOK,
       Frames, Unsent
  <1>16. ASSUME NEW s \in Sessions, RouteAbort(s) PROVE Frames'
    <2> DEFINE m == [t |-> "abort", s |-> s]
    <2>1. s \in cancelled /\ m \in Frame
      BY <1>16 DEF RouteAbort, TypeOK, Frame
    <2>2. UNCHANGED <<disp, tx, agent, cancelled>>
      BY <1>16 DEF RouteAbort, workVars
    <2>3. \A c \in Conns : \A i \in 1..Len(down'[c]) :
             \/ i \in 1..Len(down[c]) /\ down'[c][i] = down[c][i]
             \/ down'[c][i] = m
      <3>1. CASE down' = down
        BY <3>1
      <3>2. CASE down' = [down EXCEPT ![AbortRoute(s)] = Append(down[AbortRoute(s)], m)]
        <4>1. ASSUME AbortRoute(s) \in Conns
              PROVE  \A i \in 1..Len(Append(down[AbortRoute(s)], m)) :
                        \/ /\ i \in 1..Len(down[AbortRoute(s)])
                           /\ Append(down[AbortRoute(s)], m)[i] = down[AbortRoute(s)][i]
                        \/ Append(down[AbortRoute(s)], m)[i] = m
          <5>1. down[AbortRoute(s)] \in Seq(Frame)
            BY <4>1 DEF TypeOK
          <5> QED BY <2>1, <5>1, AppendElements
        <4>2. \A c \in Conns :
                 down'[c] = IF c = AbortRoute(s) THEN Append(down[AbortRoute(s)], m) ELSE down[c]
          BY <3>2 DEF TypeOK
        <4> QED BY <4>1, <4>2
      <3> QED BY <1>16, <3>1, <3>2 DEF RouteAbort, Transmit
    <2> QED BY <2>1, <2>2, <2>3 DEF Frames
  <1>17. ASSUME NEW s \in Sessions, NEW ok \in BOOLEAN, AgentEnds(s, ok) PROVE Frames'
    BY <1>17
    DEF AgentEnds, Serving, mapVars, connVars, failVars, dispVars, envVars, TypeOK,
       Frames, Unsent
  <1>18. CASE Crash
    BY <1>18
    DEF Crash, AfterCrash, workVars, TypeOK, Frames, Unsent
  <1> QED
    BY <1>1, <1>2, <1>3, <1>4, <1>5, <1>6, <1>7, <1>8, <1>9, <1>10, <1>11, <1>12,
       <1>13, <1>14, <1>15, <1>16, <1>17, <1>18, CoreCases DEF FailMachine

-----------------------------------------------------------------------------
(* Until it is answered, a session that was not entered too late is where  *)
(* the handler of its connection will look for it, and it has not looked.  *)
Held ==
    \A s \in Sessions :
        disp[s] \in {"send", "await"} /\ answer[s] = "none" /\ late[s] # "torn_down" =>
            s \in pending /\ remote[s] = Owner[tx[s]] /\ ~TornDown(tx[s])

LEMMA HeldStep ==
  ASSUME TypeOK, Picked, Fresh, Held, Next
  PROVE  Held'
  <1>1. ASSUME NEW c \in Conns, Dial(c) PROVE Held'
    BY <1>1, OwnerAssumption, ReaperAssumption
    DEF Dial, mapVars, failVars, dispVars, envVars, TypeOK, Picked, Held, TornDown
  <1>2. ASSUME NEW c \in Conns, Register(c) PROVE Held'
    BY <1>2, OwnerAssumption, ReaperAssumption
    DEF Register, failVars, dispVars, netVars, workVars, envVars, TypeOK, Picked,
       Held, TornDown
  <1>3. ASSUME NEW c \in Conns, NEW ok \in BOOLEAN, MarkOnline(c, ok) PROVE Held'
    BY <1>3, OwnerAssumption, ReaperAssumption
    DEF MarkOnline, failVars, dispVars, netVars, workVars, envVars, TypeOK, Picked,
       Held, TornDown
  <1>4. ASSUME NEW c \in Conns, HandleEnded(c) PROVE Held'
    BY <1>4, OwnerAssumption, ReaperAssumption
    DEF HandleEnded, Forgotten, failVars, workVars, envVars, TypeOK, Picked, Held,
       TornDown
  <1>5. ASSUME NEW c \in Conns, HandleHeartbeat(c) PROVE Held'
    BY <1>5, OwnerAssumption, ReaperAssumption
    DEF HandleHeartbeat, mapVars, failVars, dispVars, netVars, workVars, envVars,
       TypeOK, Picked, Held, TornDown
  <1>6. ASSUME NEW c \in Conns, HandlerNotices(c) PROVE Held'
    BY <1>6, OwnerAssumption, ReaperAssumption
    DEF HandlerNotices, FailRemove, dispVars, netVars, workVars, envVars, TypeOK,
       Picked, Held, TornDown
  <1>7. ASSUME NEW c \in Conns, WriterGone(c) PROVE Held'
    BY <1>7, OwnerAssumption, ReaperAssumption
    DEF WriterGone, mapVars, failVars, dispVars, netVars, workVars, envVars,
       TypeOK, Picked, Held, TornDown
  <1>8. ASSUME NEW c \in Conns, WorkerAssign(c) PROVE Held'
    BY <1>8, OwnerAssumption, ReaperAssumption
    DEF WorkerAssign, NextFrame, Serving, mapVars, connVars, failVars, dispVars,
       envVars, TypeOK, Picked, Held, TornDown
  <1>9. ASSUME NEW c \in Conns, WorkerInsert(c) PROVE Held'
    BY <1>9, OwnerAssumption, ReaperAssumption
    DEF WorkerInsert, mapVars, connVars, failVars, dispVars, netVars, envVars,
       TypeOK, Picked, Held, TornDown
  <1>10. ASSUME NEW c \in Conns, WorkerAbort(c) PROVE Held'
    BY <1>10, OwnerAssumption, ReaperAssumption
    DEF WorkerAbort, NextFrame, Serving, Doomed, mapVars, connVars, failVars,
       dispVars, envVars, TypeOK, Picked, Held, TornDown
  <1>11. ASSUME NEW c \in Conns, WorkerNotices(c) PROVE Held'
    BY <1>11, OwnerAssumption, ReaperAssumption
    DEF WorkerNotices, AgentsAfter, mapVars, connVars, failVars, dispVars, netVars,
       envVars, TypeOK, Picked, Held, TornDown
  <1>12. ASSUME NEW c \in Conns, Break(c) PROVE Held'
    BY <1>12, OwnerAssumption, ReaperAssumption
    DEF Break, mapVars, connVars, failVars, dispVars, workVars, envVars, TypeOK,
       Picked, Held, TornDown
  <1>13. ASSUME NEW c \in Conns, Silence(c) PROVE Held'
    BY <1>13, OwnerAssumption, ReaperAssumption
    DEF Silence, mapVars, failVars, dispVars, netVars, workVars, TypeOK, Picked,
       Held, TornDown
  <1>14. ASSUME NEW f \in Failers, FailSessions(f) PROVE Held'
    <2>1. TypeOK /\ f \in Conns \cup {Reaper}
      BY DEF Failers
    <2>2. failPc' = [failPc EXCEPT ![f] = "offline"] /\ handler' = handler
      BY <1>14 DEF FailSessions, connVars
    <2>3. /\ remote' = [s \in Sessions |-> IF remote[s] = FailName(f) THEN NoName ELSE remote[s]]
          /\ pending' = pending \ {s \in Sessions : remote[s] = FailName(f)}
          /\ \A s \in Sessions : answer'[s] = IF remote[s] = FailName(f) /\ s \in pending
                                             THEN "err" ELSE answer[s]
      BY <1>14 DEF FailSessions, OwnedBy, Waiting, Forgotten
    <2>4. UNCHANGED <<disp, tx, late>>
      BY <1>14 DEF FailSessions
    <2>5. ASSUME NEW s \in Sessions,
                 disp[s] \in {"send", "await"}, answer'[s] = "none", late[s] # "torn_down"
          PROVE  s \in pending' /\ remote'[s] = Owner[tx[s]] /\ ~TornDown(tx[s])'
      <3>1. answer[s] = "none"
        BY <2>3, <2>5
      <3>2. s \in pending /\ remote[s] = Owner[tx[s]] /\ ~TornDown(tx[s])
        BY <2>5, <3>1 DEF Held
      <3>3. remote[s] # FailName(f)
        BY <2>3, <2>5, <3>2
      <3>4. tx[s] # f
        BY <2>1, <2>5, <3>2, <3>3, ReaperAssumption DEF FailName, Picked
      <3>5. ~TornDown(tx[s])'
        BY <2>2, <2>4, <3>2, <3>4 DEF TornDown, TypeOK
      <3> QED BY <2>3, <3>2, <3>3, <3>5
    <2> QED BY <2>4, <2>5 DEF Held
  <1>15. ASSUME NEW f \in Failers, NEW ok \in BOOLEAN, FailOffline(f, ok) PROVE Held'
    <2>1. /\ failPc[f] = "offline"
          /\ failPc' = [failPc EXCEPT ![f] = "idle"]
          /\ handler' = [c \in Conns |-> IF c = f THEN "closed" ELSE handler[c]]
          /\ UNCHANGED <<pending, remote, disp, tx, answer, late>>
      BY <1>15 DEF FailOffline, dispVars
    <2>2. \A c \in Conns : ~TornDown(c) => ~TornDown(c)'
      BY <2>1 DEF TornDown, TypeOK, Failers
    <2>3. \A s \in Sessions : disp[s] \in {"send", "await"} => tx[s] \in Conns
      BY DEF Picked
    <2>4. ASSUME NEW s \in Sessions,
                 disp[s] \in {"send", "await"}, answer[s] = "none", late[s] # "torn_down"
          PROVE  s \in pending /\ remote[s] = Owner[tx[s]] /\ ~TornDown(tx[s])'
      <3>1. tx' = tx
        BY <2>1
      <3> QED BY <2>1, <2>2, <2>3, <2>4, <3>1 DEF Held, TornDown
    <2> QED BY <2>1, <2>4 DEF Held
  <1>16. CASE ReapScan
    BY <1>16, OwnerAssumption, ReaperAssumption
    DEF ReapScan, Expired, mapVars, connVars, dispVars, netVars, workVars, envVars,
       TypeOK, Picked, Held, TornDown
  <1>17. ASSUME NEW n \in Names, ReapNext(n) PROVE Held'
    BY <1>17, OwnerAssumption, ReaperAssumption
    DEF ReapNext, FailRemove, connVars, dispVars, netVars, workVars, envVars,
       TypeOK, Picked, Held, TornDown
  <1>18. ASSUME NEW s \in Sessions, PickMachine(s) PROVE Held'
    BY <1>18, OwnerAssumption, ReaperAssumption
    DEF PickMachine, mapVars, connVars, failVars, netVars, workVars, envVars,
       TypeOK, Picked, Held, TornDown, InFlight
  <1>19. ASSUME NEW s \in Sessions, RunLocally(s) PROVE Held'
    BY <1>19, OwnerAssumption, ReaperAssumption
    DEF RunLocally, mapVars, connVars, failVars, netVars, workVars, envVars,
       TypeOK, Picked, Held, TornDown
  <1>20. ASSUME NEW s \in Sessions, Enlist(s) PROVE Held'
    BY <1>20, OwnerAssumption, ReaperAssumption
    DEF Enlist, OwnerKey, connVars, failVars, netVars, workVars, envVars, TypeOK,
       Picked, Held, TornDown, InFlight, Fresh, Early
  <1>21. ASSUME NEW s \in Sessions, SendAssign(s) PROVE Held'
    BY <1>21, OwnerAssumption, ReaperAssumption
    DEF SendAssign, Transmit, mapVars, connVars, failVars, workVars, envVars,
       TypeOK, Picked, Held, TornDown
  <1>22. ASSUME NEW s \in Sessions, SendFails(s) PROVE Held'
    BY <1>22, OwnerAssumption, ReaperAssumption
    DEF SendFails, Forgotten, connVars, failVars, netVars, workVars, envVars,
       TypeOK, Picked, Held, TornDown
  <1>23. ASSUME NEW s \in Sessions, Receive(s) PROVE Held'
    BY <1>23, OwnerAssumption, ReaperAssumption
    DEF Receive, Outcome, mapVars, connVars, failVars, netVars, workVars, envVars,
       TypeOK, Picked, Held, TornDown
  <1>24. ASSUME NEW s \in Sessions, AbortTask(s) PROVE Held'
    BY <1>24, OwnerAssumption, ReaperAssumption
    DEF AbortTask, mapVars, connVars, failVars, netVars, workVars, TypeOK, Picked,
       Held, TornDown
  <1>25. ASSUME NEW s \in Sessions, DropTask(s) PROVE Held'
    BY <1>25, OwnerAssumption, ReaperAssumption
    DEF DropTask, mapVars, connVars, failVars, netVars, workVars, envVars, TypeOK,
       Picked, Held, TornDown
  <1>26. ASSUME NEW s \in Sessions, RouteAbort(s) PROVE Held'
    BY <1>26, OwnerAssumption, ReaperAssumption
    DEF RouteAbort, Transmit, mapVars, connVars, failVars, workVars, envVars,
       TypeOK, Picked, Held, TornDown
  <1>27. ASSUME NEW s \in Sessions, NEW ok \in BOOLEAN, AgentEnds(s, ok) PROVE Held'
    BY <1>27, OwnerAssumption, ReaperAssumption
    DEF AgentEnds, Serving, mapVars, connVars, failVars, dispVars, envVars, TypeOK,
       Picked, Held, TornDown
  <1>28. CASE Crash
    BY <1>28, OwnerAssumption, ReaperAssumption
    DEF Crash, AfterCrash, workVars, TypeOK, Picked, Held, TornDown, InFlight
  <1>29. CASE \E ok \in BOOLEAN : BootReclaim(ok)
    BY <1>29, OwnerAssumption, ReaperAssumption
    DEF BootReclaim, Reclaimed, connVars, failVars, dispVars, netVars, workVars,
       envVars, TypeOK, Picked, Held, TornDown
  <1> QED
    BY <1>1, <1>2, <1>3, <1>4, <1>5, <1>6, <1>7, <1>8, <1>9, <1>10, <1>11, <1>12,
       <1>13, <1>14, <1>15, <1>16, <1>17, <1>18, <1>19, <1>20, <1>21, <1>22, <1>23,
       <1>24, <1>25, <1>26, <1>27, <1>28, <1>29
    DEF Next, Online, Handler, Worker, FailMachine, Reap, Dispatch, Abort

-----------------------------------------------------------------------------
IInv ==
    /\ TypeOK /\ Picked /\ Fresh /\ Answered /\ Frames /\ Reports
    /\ NoLeak /\ KilledOnlyIfAborted /\ Held

LEMMA InitInv == Init => IInv
  <1> SUFFICES ASSUME Init PROVE IInv
    OBVIOUS
  <1>1. TypeOK /\ Picked
    BY InitType
  <1>2. Fresh /\ Answered /\ NoLeak /\ KilledOnlyIfAborted
    BY DEF Init, Fresh, Answered, NoLeak, KilledOnlyIfAborted
  <1>3. Frames /\ Reports
    BY DEF Init, Frames, Reports
  <1>4. Held
    BY DEF Init, Held
  <1> QED BY <1>1, <1>2, <1>3, <1>4 DEF IInv

LEMMA StepInv == IInv /\ [Next]_vars => IInv'
  <1> SUFFICES ASSUME IInv, [Next]_vars PROVE IInv'
    OBVIOUS
  <1> USE DEF IInv
  <1>1. CASE Next
    <2>1. TypeOK' /\ Picked'
      BY <1>1, TypeStep, PickedStep
    <2>2. Fresh' /\ Answered' /\ Frames' /\ Reports'
      BY <1>1, FreshStep, AnsweredStep, FramesStep, ReportsStep
    <2>3. NoLeak' /\ KilledOnlyIfAborted' /\ Held'
      BY <1>1, NoLeakStep, KilledStep, HeldStep
    <2> QED BY <2>1, <2>2, <2>3
  <1>2. CASE UNCHANGED vars
    BY <1>2
    DEF vars, mapVars, connVars, failVars, dispVars, netVars, workVars, envVars,
        TypeOK, Picked, Fresh, Answered, Frames, Reports, NoLeak, KilledOnlyIfAborted,
        Held, TornDown
  <1> QED BY <1>1, <1>2

LEMMA Invariant == Spec => []IInv
  BY InitInv, StepInv, PTL DEF Spec

-----------------------------------------------------------------------------
(* Every variable keeps its type: what the shared maps and the frames name *)
(* (state.rs:63-79) are machines, connections and sessions that exist.     *)
THEOREM FleetTypes == Spec => []TypeOK
  <1>1. IInv => TypeOK
    BY DEF IInv
  <1> QED BY <1>1, Invariant, PTL

(* The maps keep nothing of a session whose dispatch has returned          *)
(* (fleet.rs:226-231, 275-290, 458-463), whoever ended it.                 *)
THEOREM NothingLeaks == Spec => []NoLeak
  <1>1. IInv => NoLeak
    BY DEF IInv
  <1> QED BY <1>1, Invariant, PTL

(* A kill frame (fleet.rs:487-503) takes down the aborted run's agent and  *)
(* no other, whatever connection the name resolves to by then.             *)
THEOREM KillsTargeted == Spec => []KilledOnlyIfAborted
  <1>1. IInv => KilledOnlyIfAborted
    BY DEF IInv
  <1> QED BY <1>1, Invariant, PTL

(* A session that is waited for can still be answered, unless it was       *)
(* entered after the last scan for it (fleet.rs:275-290 and 435-456).      *)
THEOREM NobodyStranded == Spec => []NoStranded
  <1>1. IInv => NoStranded
    BY DEF IInv, NoStranded, Awaiting, Held
  <1> QED BY <1>1, Invariant, PTL

-----------------------------------------------------------------------------
(* The refinement: what each step does to agents and verdicts. *)

LEMMA VerdictKept ==
  ASSUME TypeOK, agent' = agent,
         \A s \in Sessions :
            \/ disp'[s] = disp[s]
            \/ {disp[s], disp'[s]} \subseteq InFlight \cup {"idle", "local"}
  PROVE  UNCHANGED <<agent, Verdict>>
  BY DEF Verdict, InFlight

LEMMA OneDecided ==
  ASSUME TypeOK, NEW s \in Sessions, NEW v \in {"ok", "err", "aborted"},
         disp[s] \in InFlight, v = "ok" => agent[s] = "ok",
         disp' = [disp EXCEPT ![s] = v], agent' = agent
  PROVE  SeamSpec!Decide
  <1> DEFINE w == IF v = "aborted" THEN "cancelled" ELSE v
  <1>1. {s} \in (SUBSET Sessions) \ {{}} /\ w \in {"ok", "err", "cancelled"}
    OBVIOUS
  <1>2. \A q \in {s} : SeamSpec!Decided(q, w)
    BY DEF SeamSpec!Decided, Verdict, InFlight
  <1>3. Verdict' = [q \in Sessions |-> IF q \in {s} THEN w ELSE Verdict[q]]
    BY DEF Verdict, TypeOK
  <1> QED BY <1>1, <1>2, <1>3 DEF SeamSpec!Decide

LEMMA SeamStep ==
  ASSUME IInv, Next
  PROVE  SeamSpec!Next \/ UNCHANGED <<agent, Verdict>>
  <1> USE DEF IInv
  <1>1. ASSUME UNCHANGED <<agent, disp>> PROVE UNCHANGED <<agent, Verdict>>
    BY <1>1 DEF Verdict
  <1>2. ASSUME NEW c \in Conns, WorkerAssign(c) PROVE SeamSpec!Next
    <2>1. PICK s \in Sessions :
             agent[s] = "none" /\ agent' = [agent EXCEPT ![s] = "running"] /\ disp' = disp
      BY <1>2, AssignStarts
    <2> QED BY <2>1 DEF SeamSpec!Next, SeamSpec!Start, Verdict
  <1>3. ASSUME NEW c \in Conns, WorkerAbort(c)
        PROVE  SeamSpec!Next \/ UNCHANGED <<agent, Verdict>>
    <2>1. PICK s \in cancelled : \A q \in Sessions :
             \/ agent'[q] = agent[q]
             \/ q = s /\ agent[q] = "running" /\ agent'[q] = "killed"
      BY <1>3, AbortKills
    <2>2. agent' = [q \in Sessions |-> agent'[q]] /\ disp' = disp
      BY <1>3, AbortKills
    <2>3. s \in Sessions /\ agent = [q \in Sessions |-> agent[q]]
      BY DEF TypeOK
    <2>4. CASE agent'[s] = agent[s]
      <3>1. agent' = agent
        BY <2>1, <2>2, <2>3, <2>4
      <3> QED BY <1>1, <2>2, <3>1
    <2>5. CASE agent[s] = "running" /\ agent'[s] = "killed"
      <3>1. agent' = [agent EXCEPT ![s] = "killed"]
        BY <2>1, <2>2, <2>3, <2>5
      <3>2. SeamSpec!End(s)
        BY <2>2, <2>5, <3>1 DEF SeamSpec!End, Verdict
      <3> QED BY <2>3, <3>2 DEF SeamSpec!Next
    <2> QED BY <2>1, <2>3, <2>4, <2>5
  <1>4. ASSUME NEW c \in Conns, HandleEnded(c) \/ Break(c) PROVE UNCHANGED <<agent, disp>>
    BY <1>4 DEF HandleEnded, Break, dispVars, workVars
  <1>5. ASSUME NEW f \in Failers, FailMachine(f)
        PROVE  UNCHANGED <<agent, disp>>
    BY <1>5 DEF FailMachine, FailSessions, FailOffline, dispVars, workVars
  <1>6. ASSUME NEW s \in Sessions,
               \/ PickMachine(s) \/ RunLocally(s) \/ Enlist(s) \/ SendAssign(s)
               \/ AbortTask(s) \/ RouteAbort(s)
        PROVE  UNCHANGED <<agent, Verdict>>
    <2>1. /\ agent' = agent
          /\ \A q \in Sessions :
                \/ disp'[q] = disp[q]
                \/ {disp[q], disp'[q]} \subseteq InFlight \cup {"idle", "local"}
      BY <1>6
      DEF PickMachine, RunLocally, Enlist, SendAssign, AbortTask, RouteAbort, workVars,
          InFlight, TypeOK
    <2> QED BY <2>1, VerdictKept
  <1>7. ASSUME NEW s \in Sessions, SendFails(s) \/ Receive(s) \/ DropTask(s)
        PROVE  SeamSpec!Next
    <2>1. agent' = agent
      BY <1>7 DEF SendFails, Receive, DropTask, workVars
    <2>2. CASE SendFails(s)
      <3>1. disp[s] \in InFlight /\ disp' = [disp EXCEPT ![s] = "err"]
        BY <2>2 DEF SendFails, InFlight
      <3> QED BY <2>1, <3>1, OneDecided DEF SeamSpec!Next
    <2>3. CASE Receive(s)
      <3>1. answer[s] \in {"ok", "err"} /\ disp' = [disp EXCEPT ![s] = answer[s]]
        BY <2>3, Outcomes
      <3>2. disp[s] \in InFlight /\ (answer[s] = "ok" => agent[s] = "ok")
        BY <2>3 DEF Receive, InFlight, Answered
      <3> QED BY <2>1, <3>1, <3>2, OneDecided DEF SeamSpec!Next
    <2>4. CASE DropTask(s)
      <3>1. disp[s] \in InFlight /\ disp' = [disp EXCEPT ![s] = "aborted"]
        BY <2>4 DEF DropTask, InFlight
      <3> QED BY <2>1, <3>1, OneDecided DEF SeamSpec!Next
    <2> QED BY <1>7, <2>2, <2>3, <2>4
  <1>8. ASSUME NEW s \in Sessions, NEW ok \in BOOLEAN, AgentEnds(s, ok)
        PROVE  SeamSpec!Next
    <2>1. /\ agent[s] = "running" /\ disp' = disp
          /\ \E e \in {"ok", "err", "killed"} : agent' = [agent EXCEPT ![s] = e]
      BY <1>8 DEF AgentEnds, dispVars
    <2> QED BY <2>1 DEF SeamSpec!Next, SeamSpec!End, Verdict
  <1>9. CASE Crash
    <2> DEFINE S == {s \in Sessions : disp[s] \in InFlight}
    <2>1. agent' = agent /\ disp' = [s \in Sessions |-> IF s \in S THEN "dead" ELSE disp[s]]
      BY <1>9 DEF Crash, AfterCrash, workVars
    <2>2. CASE S = {}
      <3>1. disp' = disp
        BY <2>1, <2>2 DEF TypeOK
      <3> QED BY <1>1, <2>1, <3>1
    <2>3. CASE S # {}
      <3>1. S \in (SUBSET Sessions) \ {{}}
        BY <2>3
      <3>2. \A s \in S : SeamSpec!Decided(s, "cancelled")
        BY DEF SeamSpec!Decided, Verdict, InFlight
      <3>3. Verdict' = [s \in Sessions |-> IF s \in S THEN "cancelled" ELSE Verdict[s]]
        BY <2>1 DEF Verdict
      <3> QED BY <2>1, <3>1, <3>2, <3>3 DEF SeamSpec!Next, SeamSpec!Decide
    <2> QED BY <1>1, <2>2, <2>3
  <1>10. CASE UNCHANGED core
    BY <1>1, <1>10 DEF core
  <1> QED BY <1>1, <1>2, <1>3, <1>4, <1>5, <1>6, <1>7, <1>8, <1>9, <1>10, CoreCases DEF FailMachine

(* Below the seam the fleet keeps the promise of SessionSeam               *)
(* (fleet.rs:369-371): every step of Fleet is a start, an end, a verdict   *)
(* or a stutter there.                                                     *)
THEOREM ImplementsSeam == Spec => Seam
  <1>1. Init => SeamSpec!Init
    BY DEF Init, SeamSpec!Init, Verdict
  <1>2. IInv /\ [Next]_vars => [SeamSpec!Next]_(SeamSpec!vars)
    <2>1. ASSUME UNCHANGED vars PROVE UNCHANGED <<agent, Verdict>>
      BY <2>1 DEF vars, dispVars, workVars, Verdict
    <2> QED BY <2>1, SeamStep DEF SeamSpec!vars
  <1> QED BY <1>1, <1>2, Invariant, PTL DEF Spec, Seam, SeamSpec!Spec

-----------------------------------------------------------------------------
(* What registers, expires and fails connections.  Few actions touch it.   *)
registry == <<machines, row, muddled, handler, stale, failPc, reapList, reapName, booted,
              link, lapsed>>

LEMMA RegistryCases ==
  ASSUME Next
  PROVE  \/ UNCHANGED registry
         \/ \E c \in Conns :
               \/ Dial(c) \/ Online(c) \/ HandleEnded(c)
               \/ HandleHeartbeat(c) \/ HandlerNotices(c) \/ Break(c) \/ Silence(c)
         \/ \E f \in Failers : FailMachine(f)
         \/ ReapScan \/ \E n \in Names : ReapNext(n)
         \/ Crash \/ (\E ok \in BOOLEAN : BootReclaim(ok))
  <1>1. ASSUME NEW c \in Conns,
               \/ WriterGone(c) \/ WorkerAssign(c) \/ WorkerInsert(c) \/ WorkerAbort(c)
               \/ WorkerNotices(c)
        PROVE  UNCHANGED registry
    BY <1>1
    DEF registry, WriterGone, WorkerAssign, WorkerInsert, WorkerAbort, WorkerNotices,
        mapVars, connVars, failVars, netVars, envVars
  <1>2. ASSUME NEW s \in Sessions,
               \/ PickMachine(s) \/ RunLocally(s) \/ Enlist(s) \/ SendAssign(s) \/ SendFails(s)
               \/ Receive(s) \/ AbortTask(s) \/ DropTask(s) \/ RouteAbort(s)
               \/ \E ok \in BOOLEAN : AgentEnds(s, ok)
        PROVE  UNCHANGED registry
    BY <1>2
    DEF registry, PickMachine, RunLocally, Enlist, SendAssign, SendFails, Receive, AbortTask,
        DropTask, RouteAbort, AgentEnds, mapVars, connVars, failVars, netVars, envVars
  <1> QED
    BY <1>1, <1>2 DEF Next, Online, Handler, Worker, FailMachine, Reap, Dispatch, Abort

LEMMA BlameStays ==
  ASSUME TypeOK, Next
  PROVE  Blamed \subseteq Blamed'
  <1>1. SUFFICES /\ lapsed \subseteq lapsed'
                 /\ \A d \in Conns : link[d] = "down" => link'[d] = "down"
    BY DEF Blamed, Broken
  <1>2. CASE UNCHANGED registry
    BY <1>2 DEF registry
  <1>3. ASSUME NEW c \in Conns,
               \/ Dial(c) \/ Online(c) \/ HandleEnded(c)
               \/ HandleHeartbeat(c) \/ HandlerNotices(c) \/ Break(c) \/ Silence(c)
        PROVE  /\ lapsed \subseteq lapsed'
               /\ \A d \in Conns : link[d] = "down" => link'[d] = "down"
    <2>1. lapsed \subseteq lapsed'
      BY <1>3
      DEF Dial, Online, Register, MarkOnline, HandleEnded, HandleHeartbeat, HandlerNotices,
          Break, Silence, envVars
    <2>2. \A d \in Conns : link[d] = "down" => link'[d] = "down"
      BY <1>3
      DEF Dial, Online, Register, MarkOnline, HandleEnded, HandleHeartbeat, HandlerNotices,
          Break, Silence, netVars, TypeOK
    <2> QED BY <2>1, <2>2
  <1>4. ASSUME NEW f \in Failers, FailMachine(f) PROVE lapsed' = lapsed /\ link' = link
    BY <1>4 DEF FailMachine, FailSessions, FailOffline, netVars, envVars
  <1>5. CASE ReapScan \/ (\E m \in Names : ReapNext(m)) \/ (\E ok \in BOOLEAN : BootReclaim(ok))
    BY <1>5 DEF ReapScan, ReapNext, BootReclaim, netVars, envVars
  <1>6. CASE Crash
    BY <1>6 DEF Crash
  <1> QED BY <1>2, <1>3, <1>4, <1>5, <1>6, RegistryCases DEF Online, FailMachine

(* Whoever fails a name has a reason to; and the map of connections only   *)
(* ever leads from a name to a connection that dialled in under it.        *)
Suspects ==
    /\ \A c \in Conns : failPc[c] # "idle" => link[c] = "down"
    /\ \A c \in Conns : stale[c] => Owner[c] \in Blamed
    /\ reapList \subseteq Blamed
    /\ failPc[Reaper] # "idle" => reapName \in Blamed
    /\ \A n \in Names : machines[n] # NoConn => Owner[machines[n]] = n

LEMMA SuspectsStep ==
  ASSUME TypeOK, Suspects, Next
  PROVE  Suspects'
  <1> USE OwnerAssumption, ReaperAssumption, NoConnAssumption
  <1>0. Blamed \subseteq Blamed'
    BY BlameStays
  <1>1. CASE UNCHANGED registry
    BY <1>1 DEF registry, Suspects, Blamed, Broken
  <1>2. ASSUME NEW c \in Conns, Dial(c) PROVE Suspects'
    BY <1>2, <1>0 DEF Dial, Suspects, mapVars, failVars, TypeOK
  <1>3. ASSUME NEW c \in Conns, Register(c) PROVE Suspects'
    BY <1>3, <1>0 DEF Register, Suspects, failVars, netVars, TypeOK
  <1>4. ASSUME NEW c \in Conns, NEW ok \in BOOLEAN, MarkOnline(c, ok) PROVE Suspects'
    BY <1>4, <1>0 DEF MarkOnline, Suspects, failVars, netVars, TypeOK
  <1>5. ASSUME NEW c \in Conns, HandleEnded(c) PROVE Suspects'
    BY <1>5, <1>0 DEF HandleEnded, Suspects, failVars, TypeOK
  <1>6. ASSUME NEW c \in Conns, HandleHeartbeat(c) PROVE Suspects'
    BY <1>6, <1>0 DEF HandleHeartbeat, Suspects, mapVars, failVars, netVars, TypeOK
  <1>7. ASSUME NEW c \in Conns, HandlerNotices(c) PROVE Suspects'
    BY <1>7, <1>0 DEF HandlerNotices, FailRemove, Suspects, netVars, TypeOK, Failers
  <1>8. ASSUME NEW c \in Conns, Break(c) PROVE Suspects'
    BY <1>8, <1>0 DEF Break, Suspects, mapVars, connVars, failVars, TypeOK
  <1>9. ASSUME NEW c \in Conns, Silence(c) PROVE Suspects'
    <2>1. Owner[c] \in Blamed'
      <3>1. CASE link[c] = "down"
        BY <3>1, <1>9, <1>0 DEF Blamed, Broken
      <3>2. CASE lapsed' = lapsed \cup {Owner[c]}
        BY <3>2 DEF Blamed
      <3> QED BY <1>9, <3>1, <3>2 DEF Silence
    <2> QED BY <1>9, <1>0, <2>1 DEF Silence, Suspects, mapVars, failVars, netVars, TypeOK
  <1>10. ASSUME NEW f \in Failers, FailSessions(f) PROVE Suspects'
    BY <1>10, <1>0 DEF FailSessions, Suspects, connVars, netVars, TypeOK, Failers
  <1>11. ASSUME NEW f \in Failers, NEW ok \in BOOLEAN, FailOffline(f, ok) PROVE Suspects'
    <2>1. /\ \A c \in Conns : failPc'[c] # "idle" => failPc[c] # "idle"
          /\ failPc'[Reaper] # "idle" => failPc[Reaper] # "idle" /\ reapName' = reapName
          /\ \A c \in Conns : stale'[c] => stale[c]
      BY <1>11 DEF FailOffline, TypeOK, Failers
    <2> QED BY <1>11, <1>0, <2>1 DEF FailOffline, Suspects
  <1>12. CASE ReapScan
    <2>1. Expired \subseteq Blamed
      BY DEF Expired, Suspects, TypeOK
    <2> QED BY <1>12, <1>0, <2>1 DEF ReapScan, Suspects, mapVars, connVars, netVars
  <1>13. ASSUME NEW n \in Names, ReapNext(n) PROVE Suspects'
    BY <1>13, <1>0 DEF ReapNext, FailRemove, Suspects, connVars, netVars, TypeOK, Failers
  <1>14. CASE Crash
    BY <1>14 DEF Crash, Suspects, Failers
  <1>15. CASE \E ok \in BOOLEAN : BootReclaim(ok)
    BY <1>15, <1>0 DEF BootReclaim, Suspects, connVars, failVars, netVars
  <1> QED
    BY <1>1, <1>2, <1>3, <1>4, <1>5, <1>6, <1>7, <1>8, <1>9, <1>10, <1>11, <1>12,
       <1>13, <1>14, <1>15, RegistryCases DEF Online, FailMachine

-----------------------------------------------------------------------------
(* An entry of remote_sessions names the machine that the session was      *)
(* picked for.                                                             *)
Owned ==
    \A s \in Sessions : remote[s] # NoName => tx[s] \in Conns /\ remote[s] = Owner[tx[s]]

LEMMA OwnedStep ==
  ASSUME TypeOK, Picked, Fresh, Owned, Next
  PROVE  Owned'
  <1>1. ASSUME remote' = remote, tx' = tx PROVE Owned'
    BY <1>1 DEF Owned
  <1>2. ASSUME tx' = tx, NEW S, remote' = Forgotten(S) PROVE Owned'
    BY <1>2 DEF Owned, Forgotten
  <1>3. ASSUME NEW c \in Conns,
               HandleEnded(c) \/ WorkerAssign(c) \/ WorkerAbort(c) \/ Break(c)
        PROVE  Owned'
    <2>1. tx' = tx /\ (remote' = remote \/ \E S : remote' = Forgotten(S))
      BY <1>3 DEF HandleEnded, WorkerAssign, WorkerAbort, Break, mapVars, dispVars
    <2> QED BY <1>1, <1>2, <2>1
  <1>4. ASSUME NEW f \in Failers, FailMachine(f) PROVE Owned'
    <2>1. tx' = tx /\ (remote' = remote \/ \E S : remote' = Forgotten(S))
      BY <1>4 DEF FailMachine, FailSessions, FailOffline, dispVars
    <2> QED BY <1>1, <1>2, <2>1
  <1>5. ASSUME NEW s \in Sessions, PickMachine(s) PROVE Owned'
    <2>1. /\ remote' = remote /\ remote[s] = NoName
          /\ \A q \in Sessions \ {s} : tx'[q] = tx[q]
      BY <1>5 DEF PickMachine, mapVars, Fresh, Early, TypeOK
    <2> QED BY <2>1 DEF Owned
  <1>6. ASSUME NEW s \in Sessions, Enlist(s) PROVE Owned'
    BY <1>6 DEF Enlist, OwnerKey, Owned, Picked, TypeOK
  <1>7. ASSUME NEW s \in Sessions,
               \/ RunLocally(s) \/ SendAssign(s) \/ SendFails(s) \/ Receive(s)
               \/ AbortTask(s) \/ DropTask(s) \/ RouteAbort(s)
               \/ \E ok \in BOOLEAN : AgentEnds(s, ok)
        PROVE  Owned'
    <2>1. tx' = tx /\ (remote' = remote \/ \E S : remote' = Forgotten(S))
      BY <1>7
      DEF RunLocally, SendAssign, SendFails, Receive, AbortTask, DropTask, RouteAbort,
          AgentEnds, mapVars, dispVars
    <2> QED BY <1>1, <1>2, <2>1
  <1>8. CASE Crash
    BY <1>8 DEF Crash, Owned
  <1> QED BY <1>1, <1>3, <1>4, <1>5, <1>6, <1>7, <1>8, CoreCases DEF core, FailMachine

(* A failure in transit is that of an agent that failed. *)
Complaints ==
    \A c \in Conns : \A i \in 1..Len(up[c]) : ~up[c][i].ok => agent[up[c][i].s] = "err"

LEMMA ErrStays ==
  ASSUME TypeOK, Frames, Next, NEW s \in Sessions, agent[s] = "err"
  PROVE  agent'[s] = "err"
  <1>1. CASE agent' = agent
    BY <1>1
  <1>2. ASSUME NEW c \in Conns, WorkerAssign(c) PROVE agent'[s] = "err"
    BY <1>2, AssignStarts DEF TypeOK
  <1>3. ASSUME NEW c \in Conns, WorkerAbort(c) PROVE agent'[s] = "err"
    BY <1>3, AbortKills
  <1>4. ASSUME NEW q \in Sessions, NEW ok \in BOOLEAN, AgentEnds(q, ok)
        PROVE  agent'[s] = "err"
    BY <1>4 DEF AgentEnds, TypeOK
  <1>5. ASSUME NEW c \in Conns, HandleEnded(c) \/ Break(c) PROVE agent' = agent
    BY <1>5 DEF HandleEnded, Break, workVars
  <1>6. ASSUME NEW f \in Failers, FailMachine(f) PROVE agent' = agent
    BY <1>6 DEF FailMachine, FailSessions, FailOffline, workVars
  <1>7. ASSUME NEW q \in Sessions,
               \/ PickMachine(q) \/ RunLocally(q) \/ Enlist(q) \/ SendAssign(q) \/ SendFails(q)
               \/ Receive(q) \/ AbortTask(q) \/ DropTask(q) \/ RouteAbort(q)
        PROVE  agent' = agent
    BY <1>7
    DEF PickMachine, RunLocally, Enlist, SendAssign, SendFails, Receive, AbortTask, DropTask,
        RouteAbort, workVars
  <1>8. Crash => agent' = agent
    BY DEF Crash, workVars
  <1> QED BY <1>1, <1>2, <1>3, <1>4, <1>5, <1>6, <1>7, <1>8, CoreCases DEF core, FailMachine

LEMMA ComplaintsStep ==
  ASSUME TypeOK, Frames, Complaints, Next
  PROVE  Complaints'
  <1>0. /\ \A s \in Sessions : agent[s] = "err" => agent'[s] = "err"
        /\ \A d \in Conns : \A i \in 1..Len(up[d]) : up[d][i].s \in Sessions
    BY ErrStays, FrameTypes
  <1>1. ASSUME up' = up PROVE Complaints'
    BY <1>0, <1>1 DEF Complaints
  <1>2. ASSUME NEW c \in Conns, HandleEnded(c) PROVE Complaints'
    <2>1. up[c] \in Seq(Ended) /\ up[c] # <<>>
      BY <1>2 DEF HandleEnded, TypeOK
    <2>2. \A i \in 1..Len(Tail(up[c])) : Tail(up[c])[i] = up[c][i + 1] /\ i + 1 \in 1..Len(up[c])
      BY <2>1, TailElements
    <2>3. \A d \in Conns : up'[d] = IF d = c THEN Tail(up[c]) ELSE up[d]
      BY <1>2 DEF HandleEnded, TypeOK
    <2>4. \A d \in Conns : \A i \in 1..Len(up'[d]) :
             \E j \in 1..Len(up[d]) : up'[d][i] = up[d][j]
      BY <2>2, <2>3
    <2> QED BY <1>0, <2>4 DEF Complaints
  <1>3. ASSUME NEW c \in Conns, Break(c) PROVE Complaints'
    <2>1. \A d \in Conns : up'[d] = <<>> \/ up'[d] = up[d]
      BY <1>3 DEF Break, TypeOK
    <2> QED BY <1>0, <2>1 DEF Complaints
  <1>4. ASSUME NEW s \in Sessions, NEW ok \in BOOLEAN, AgentEnds(s, ok) PROVE Complaints'
    <2> DEFINE m == [s |-> s, ok |-> ok]
    <2>1. CASE up' = up
      BY <1>1, <2>1
    <2>2. CASE up' = [up EXCEPT ![tx[s]] = Append(@, m)]
      <3>1. m \in Ended /\ \A d \in Conns : up[d] \in Seq(Ended)
        BY DEF Ended, TypeOK
      <3>2. \A d \in Conns : up'[d] = up[d] \/ up'[d] = Append(up[d], m)
        BY <2>2 DEF TypeOK
      <3>3. \A d \in Conns : \A i \in 1..Len(up'[d]) :
               \/ i \in 1..Len(up[d]) /\ up'[d][i] = up[d][i]
               \/ up'[d][i] = m
        BY <3>1, <3>2, AppendElements
      <3>4. ~ok => agent'[s] = "err"
        BY <1>4 DEF AgentEnds, TypeOK
      <3> QED BY <1>0, <3>3, <3>4 DEF Complaints
    <2> QED BY <1>4, <2>1, <2>2 DEF AgentEnds
  <1>5. ASSUME NEW c \in Conns, WorkerAssign(c) \/ WorkerAbort(c) PROVE up' = up
    BY <1>5 DEF WorkerAssign, WorkerAbort
  <1>6. ASSUME NEW f \in Failers, FailMachine(f) PROVE up' = up
    BY <1>6 DEF FailMachine, FailSessions, FailOffline, netVars
  <1>7. ASSUME NEW q \in Sessions,
               \/ PickMachine(q) \/ RunLocally(q) \/ Enlist(q) \/ SendAssign(q) \/ SendFails(q)
               \/ Receive(q) \/ AbortTask(q) \/ DropTask(q) \/ RouteAbort(q)
        PROVE  up' = up
    BY <1>7
    DEF PickMachine, RunLocally, Enlist, SendAssign, SendFails, Receive, AbortTask, DropTask,
        RouteAbort, netVars
  <1>8. CASE Crash
    BY <1>8 DEF Crash, Complaints
  <1> QED BY <1>1, <1>2, <1>3, <1>4, <1>5, <1>6, <1>7, <1>8, CoreCases DEF core, FailMachine

-----------------------------------------------------------------------------
LEMMA ReasonStep ==
  ASSUME TypeOK, Fresh, Frames, Suspects, Owned, Complaints, FailedForAReason, Next
  PROVE  FailedForAReason'
  <1>0. /\ \A s \in Sessions : agent[s] = "err" => agent'[s] = "err"
        /\ Blamed \subseteq Blamed'
    BY ErrStays, BlameStays
  <1>1. ASSUME answer' = answer, tx' = tx PROVE FailedForAReason'
    BY <1>0, <1>1 DEF FailedForAReason
  <1>2. ASSUME NEW c \in Conns, HandleEnded(c) PROVE FailedForAReason'
    <2>1. up[c] \in Seq(Ended) /\ up[c] # <<>>
      BY <1>2 DEF HandleEnded, TypeOK
    <2>2. ~Head(up[c]).ok => agent[Head(up[c]).s] = "err"
      BY <2>1, TailElements DEF Complaints
    <2>3. tx' = tx /\ agent' = agent
          /\ \A s \in Sessions : answer'[s] = "err" =>
                answer[s] = "err" \/ (s = Head(up[c]).s /\ ~Head(up[c]).ok)
      BY <1>2 DEF HandleEnded, workVars, TypeOK
    <2> QED BY <1>0, <2>2, <2>3 DEF FailedForAReason
  <1>3. ASSUME NEW f \in Failers, FailSessions(f) PROVE FailedForAReason'
    <2>1. tx' = tx /\ \A s \in Sessions : answer'[s] = "err" =>
                         answer[s] = "err" \/ remote[s] = FailName(f)
      BY <1>3 DEF FailSessions, OwnedBy, Waiting
    <2>2. FailName(f) \in Blamed
      BY <1>3, OwnerAssumption, ReaperAssumption
      DEF FailSessions, Suspects, FailName, Failers, Blamed, Broken
    <2>3. \A s \in Sessions : remote[s] = FailName(f) => Owner[tx[s]] = FailName(f)
      <3>1. FailName(f) \in Names
        BY <2>2, OwnerAssumption DEF Blamed, Broken, TypeOK
      <3> QED BY <3>1, NoNameAssumption DEF Owned
    <2> QED BY <1>0, <2>1, <2>2, <2>3 DEF FailedForAReason
  <1>4. ASSUME NEW s \in Sessions, PickMachine(s) PROVE FailedForAReason'
    <2>1. /\ answer' = answer /\ answer[s] = "none"
          /\ \A q \in Sessions \ {s} : tx'[q] = tx[q]
      BY <1>4 DEF PickMachine, Fresh, Early, TypeOK
    <2> QED BY <1>0, <2>1 DEF FailedForAReason
  <1>5. ASSUME NEW c \in Conns, WorkerAssign(c) \/ WorkerAbort(c) \/ Break(c)
        PROVE  answer' = answer /\ tx' = tx
    BY <1>5 DEF WorkerAssign, WorkerAbort, Break, dispVars
  <1>6. ASSUME NEW f \in Failers, NEW ok \in BOOLEAN, FailOffline(f, ok) PROVE answer' = answer /\ tx' = tx
    BY <1>6 DEF FailOffline, dispVars
  <1>7. ASSUME NEW s \in Sessions,
               \/ RunLocally(s) \/ Enlist(s) \/ SendAssign(s) \/ SendFails(s)
               \/ Receive(s) \/ AbortTask(s) \/ DropTask(s) \/ RouteAbort(s)
               \/ \E ok \in BOOLEAN : AgentEnds(s, ok)
        PROVE  answer' = answer /\ tx' = tx
    BY <1>7
    DEF RunLocally, Enlist, SendAssign, SendFails, Receive, AbortTask, DropTask, RouteAbort,
        AgentEnds, dispVars
  <1>8. Crash => answer' = answer /\ tx' = tx
    BY DEF Crash
  <1> QED BY <1>1, <1>2, <1>3, <1>4, <1>5, <1>6, <1>7, <1>8, CoreCases DEF core, FailMachine

Reasons == Suspects /\ Owned /\ Complaints /\ FailedForAReason

LEMMA ReasonsInvariant == Spec => [](IInv /\ Reasons)
  <1>1. Init => Reasons
    BY DEF Init, Reasons, Suspects, Owned, Complaints, FailedForAReason, Failers
  <1>2. ASSUME IInv, Reasons, Next PROVE Reasons'
    BY <1>2, SuspectsStep, OwnedStep, ComplaintsStep, ReasonStep DEF IInv, Reasons
  <1>3. ASSUME Reasons, UNCHANGED vars PROVE Reasons'
    BY <1>3
    DEF vars, mapVars, connVars, failVars, dispVars, netVars, workVars, envVars,
        Reasons, Suspects, Owned, Complaints, FailedForAReason, Blamed, Broken
  <1> QED BY <1>1, <1>2, <1>3, Invariant, PTL DEF Spec

(* A session fails because its agent failed, a connection of its machine   *)
(* broke, or its machine's lease lapsed, and for nothing that happens to   *)
(* another machine (fleet.rs:233-239, 264-292, 361-364), however often     *)
(* the machine redials.                                                    *)
THEOREM FailuresHaveReasons == Spec => []FailedForAReason
  <1>1. Reasons => FailedForAReason
    BY DEF Reasons
  <1> QED BY <1>1, ReasonsInvariant, PTL

-----------------------------------------------------------------------------
(* A handler begins with its connection. *)
Linked == \A c \in Conns : link[c] = "none" => handler[c] = "none"

LEMMA LinkedStep ==
  ASSUME TypeOK, Suspects, Linked, Next
  PROVE  Linked'
  <1>1. CASE UNCHANGED registry
    BY <1>1 DEF registry, Linked
  <1>2. ASSUME NEW c \in Conns,
               \/ Dial(c) \/ Online(c) \/ HandleEnded(c)
               \/ HandleHeartbeat(c) \/ HandlerNotices(c) \/ Break(c) \/ Silence(c)
        PROVE  Linked'
    BY <1>2
    DEF Dial, Online, Register, MarkOnline, HandleEnded, HandleHeartbeat, HandlerNotices, Break,
        Silence, connVars, netVars, TypeOK, Linked
  <1>3. ASSUME NEW f \in Failers, FailMachine(f) PROVE Linked'
    <2>1. f \in Conns => link[f] = "down"
      BY <1>3 DEF FailMachine, FailSessions, FailOffline, Suspects
    <2> QED BY <1>3, <2>1 DEF FailMachine, FailSessions, FailOffline, connVars, netVars, Linked
  <1>4. CASE ReapScan \/ (\E n \in Names : ReapNext(n)) \/ (\E ok \in BOOLEAN : BootReclaim(ok))
    BY <1>4 DEF ReapScan, ReapNext, BootReclaim, connVars, netVars, Linked
  <1>5. CASE Crash
    BY <1>5 DEF Crash, Linked
  <1> QED BY <1>1, <1>2, <1>3, <1>4, <1>5, RegistryCases DEF Online, FailMachine

(* Who is at work on a name that is not muddled is alone there, and what   *)
(* it began with is still so: a registration that has not been marked is   *)
(* the one in the map, a name that is being failed has none.  Before the   *)
(* boot is over nobody is at work at all.                                  *)
Busy == {c \in Conns : handler[c] \in {"mark", "teardown"}}

AtRest ==
    ~booted =>
        /\ \A c \in Conns : handler[c] \in {"none", "closed"} /\ failPc[c] = "idle"
        /\ reapName = NoName /\ reapList = {}
        /\ \A n \in Names : machines[n] = NoConn

Tearing == \A c \in Conns : failPc[c] # "idle" => handler[c] = "teardown"

Alone(n) ==
    /\ \A c, d \in Busy : Owner[c] = n /\ Owner[d] = n => c = d
    /\ \A c \in Busy : Owner[c] = n => reapName # n

Begun(n) ==
    /\ \A c \in Busy : Owner[c] = n /\ handler[c] = "mark" => machines[n] = c
    /\ \A c \in Busy : Owner[c] = n /\ handler[c] = "teardown" => machines[n] = NoConn
    /\ reapName = n => machines[n] = NoConn

Agrees(n) == Settled(n) => (row[n] = "online" <=> machines[n] # NoConn)

Orderly ==
    /\ AtRest /\ Tearing
    /\ \A n \in Names \ muddled : Alone(n) /\ Begun(n) /\ Agrees(n)

(* What an operation on one name leaves of the others. *)
Same(n) ==
    /\ machines'[n] = machines[n] /\ row'[n] = row[n]
    /\ (n \in muddled' <=> n \in muddled)
    /\ (reapName' = n <=> reapName = n)
    /\ booted' = booted
    /\ \A c \in Conns : Owner[c] = n =>
          \/ handler'[c] = handler[c]
          \/ handler[c] \notin {"mark", "teardown"} /\ handler'[c] \notin {"mark", "teardown"}

LEMMA OthersSame ==
  ASSUME Orderly, NEW n \in Names, Same(n), n \notin muddled'
  PROVE  (Alone(n) /\ Begun(n) /\ Agrees(n))'
  <1>1. Alone(n) /\ Begun(n) /\ Agrees(n)
    BY DEF Orderly, Same
  <1>2. \A c \in Conns : Owner[c] = n => (c \in Busy' <=> c \in Busy)
    BY DEF Same, Busy
  <1>3. \A c \in Conns : Owner[c] = n /\ c \in Busy => handler'[c] = handler[c]
    BY DEF Same, Busy
  <1>4. Alone(n)'
    BY <1>1, <1>2 DEF Alone, Same, Busy
  <1>5. Begun(n)'
    BY <1>1, <1>2, <1>3 DEF Begun, Same, Busy
  <1>6. AtWork(n)' <=> AtWork(n)
    BY <1>2 DEF AtWork, Same, Busy
  <1>7. Agrees(n)'
    BY <1>1, <1>6 DEF Agrees, Settled, Same
  <1> QED BY <1>4, <1>5, <1>7

LEMMA OrderlyStep ==
  ASSUME TypeOK, Linked, Orderly, Next
  PROVE  Orderly'
  <1> USE OwnerAssumption, ReaperAssumption, NoConnAssumption, NoNameAssumption
  <1>0. ASSUME (AtRest /\ Tearing)', \A n \in Names : Same(n) PROVE Orderly'
    BY <1>0, OthersSame DEF Orderly
  <1>1. CASE UNCHANGED registry
    <2>1. (AtRest /\ Tearing)'
      BY <1>1 DEF registry, Orderly, AtRest, Tearing
    <2> QED BY <1>0, <1>1, <2>1 DEF registry, Same
  <1>2. ASSUME NEW c \in Conns, Dial(c) PROVE Orderly'
    <2>0. handler[c] \notin {"mark", "teardown"}
      BY <1>2 DEF Dial, Linked
    <2>1. (AtRest /\ Tearing)'
      BY <1>2, <2>0 DEF Dial, Orderly, AtRest, Tearing, failVars, TypeOK
    <2>2. \A n \in Names : Same(n)
      <3>1. \A d \in Conns :
               \/ handler'[d] = handler[d]
               \/ handler[d] \notin {"mark", "teardown"} /\ handler'[d] \notin {"mark", "teardown"}
        BY <1>2, <2>0 DEF Dial, TypeOK
      <3> QED BY <1>2, <3>1 DEF Dial, Same, mapVars, failVars
    <2> QED BY <1>0, <2>1, <2>2
  <1>3. ASSUME NEW c \in Conns, Register(c) PROVE Orderly'
    <2> DEFINE m == Owner[c]
    <2>1. /\ handler[c] = "register" /\ booted /\ UNCHANGED <<booted, row, reapName, failPc>>
          /\ machines' = [machines EXCEPT ![m] = c]
          /\ handler' = [handler EXCEPT ![c] = "mark"]
          /\ muddled' = IF AtWork(m) THEN muddled \cup {m} ELSE muddled \ {m}
      BY <1>3 DEF Register, Begins, failVars, Orderly, AtRest
    <2>2. (AtRest /\ Tearing)'
      BY <2>1 DEF Orderly, AtRest, Tearing, TypeOK
    <2>3. ASSUME NEW n \in Names, n # m PROVE Same(n)
      BY <2>1, <2>3 DEF Same, TypeOK
    <2>4. m \notin muddled' => (Alone(m) /\ Begun(m) /\ Agrees(m))'
      <3> SUFFICES ASSUME ~AtWork(m) PROVE (Alone(m) /\ Begun(m) /\ Agrees(m))'
        BY <2>1
      <3>1. \A d \in Conns : Owner[d] = m /\ d \in Busy' => d = c
        BY <2>1 DEF AtWork, Busy, TypeOK
      <3>2. reapName' # m /\ machines'[m] = c /\ handler'[c] = "mark"
        BY <2>1 DEF AtWork, TypeOK
      <3>3. AtWork(m)'
        BY <3>2 DEF AtWork
      <3> QED BY <3>1, <3>2, <3>3 DEF Alone, Begun, Agrees, Settled, Busy
    <2> QED BY <2>2, <2>3, <2>4, OthersSame DEF Orderly
  <1>4. ASSUME NEW c \in Conns, NEW ok \in BOOLEAN, MarkOnline(c, ok) PROVE Orderly'
    <2> DEFINE m == Owner[c]
    <2>1. /\ handler[c] = "mark" /\ booted /\ UNCHANGED <<booted, machines, reapName, failPc>>
          /\ row' = IF ok THEN [row EXCEPT ![m] = "online"] ELSE row
          /\ handler' = [handler EXCEPT ![c] = "loop"]
          /\ muddled' = IF ok THEN muddled ELSE muddled \cup {m}
      BY <1>4 DEF MarkOnline, Writes, failVars, Orderly, AtRest
    <2>2. (AtRest /\ Tearing)'
      BY <2>1 DEF Orderly, AtRest, Tearing, TypeOK
    <2>3. ASSUME NEW n \in Names, n # m PROVE Same(n)
      BY <2>1, <2>3 DEF Same, TypeOK
    <2>4. m \notin muddled' => (Alone(m) /\ Begun(m) /\ Agrees(m))'
      <3> SUFFICES ASSUME m \notin muddled' PROVE (Alone(m) /\ Begun(m) /\ Agrees(m))'
        OBVIOUS
      <3>1. ok /\ m \notin muddled /\ Alone(m) /\ Begun(m) /\ c \in Busy
        BY <2>1 DEF Orderly, Busy
      <3>2. reapName' # m /\ machines'[m] = c /\ row'[m] = "online"
        BY <2>1, <3>1 DEF Alone, Begun, TypeOK
      <3>3. \A d \in Conns : Owner[d] = m => d \notin Busy'
        BY <2>1, <3>1 DEF Alone, Busy, TypeOK
      <3> QED BY <3>2, <3>3 DEF Alone, Begun, Agrees, Busy
    <2> QED BY <2>2, <2>3, <2>4, OthersSame DEF Orderly
  <1>5. ASSUME NEW c \in Conns, HandleEnded(c) \/ HandleHeartbeat(c) \/ Break(c) \/ Silence(c)
        PROVE  Orderly'
    <2>1. UNCHANGED <<machines, row, muddled, reapName, reapList, booted, handler, failPc>>
      BY <1>5 DEF HandleEnded, HandleHeartbeat, Break, Silence, mapVars, connVars, failVars
    <2>2. (AtRest /\ Tearing)'
      BY <2>1 DEF Orderly, AtRest, Tearing
    <2> QED BY <1>0, <2>1, <2>2 DEF Same
  <1>6. ASSUME NEW c \in Conns, HandlerNotices(c) PROVE Orderly'
    <2> DEFINE m == Owner[c]
    <2>1. /\ handler[c] = "loop" /\ booted /\ UNCHANGED <<booted, row, reapName>>
          /\ machines' = [machines EXCEPT ![m] = NoConn]
          /\ handler' = [handler EXCEPT ![c] = "teardown"]
          /\ failPc' = [failPc EXCEPT ![c] = "fail"]
          /\ muddled' = IF AtWork(m) THEN muddled \cup {m} ELSE muddled \ {m}
      BY <1>6 DEF HandlerNotices, FailRemove, Begins, Orderly, AtRest
    <2>2. (AtRest /\ Tearing)'
      BY <2>1 DEF Orderly, AtRest, Tearing, TypeOK
    <2>3. ASSUME NEW n \in Names, n # m PROVE Same(n)
      BY <2>1, <2>3 DEF Same, TypeOK
    <2>4. m \notin muddled' => (Alone(m) /\ Begun(m) /\ Agrees(m))'
      <3> SUFFICES ASSUME ~AtWork(m) PROVE (Alone(m) /\ Begun(m) /\ Agrees(m))'
        BY <2>1
      <3>1. \A d \in Conns : Owner[d] = m /\ d \in Busy' => d = c
        BY <2>1 DEF AtWork, Busy, TypeOK
      <3>2. reapName' # m /\ machines'[m] = NoConn /\ handler'[c] = "teardown"
        BY <2>1 DEF AtWork, TypeOK
      <3>3. AtWork(m)'
        BY <3>2 DEF AtWork
      <3> QED BY <3>1, <3>2, <3>3 DEF Alone, Begun, Agrees, Settled, Busy
    <2> QED BY <2>2, <2>3, <2>4, OthersSame DEF Orderly
  <1>7. ASSUME NEW f \in Failers, FailSessions(f) PROVE Orderly'
    <2>1. /\ UNCHANGED <<machines, row, muddled, reapName, reapList, booted, handler>>
          /\ failPc[f] # "idle"
          /\ \A g \in Failers \ {f} : failPc'[g] = failPc[g]
      BY <1>7 DEF FailSessions, connVars, TypeOK
    <2>2. (AtRest /\ Tearing)'
      BY <2>1 DEF Orderly, AtRest, Tearing, TypeOK, Failers
    <2> QED BY <1>0, <2>1, <2>2 DEF Same
  <1>8. ASSUME NEW f \in Failers, NEW ok \in BOOLEAN, FailOffline(f, ok) PROVE Orderly'
    <2>. PICK m \in Names : m = FailName(f)
      BY <1>8 DEF FailOffline, FailName, Failers, TypeOK
    <2>0. /\ failPc[f] # "idle" /\ booted
          /\ f \in Conns => handler[f] = "teardown" /\ m = Owner[f]
          /\ f = Reaper => reapName = m
      BY <1>8 DEF FailOffline, FailName, Failers, Orderly, AtRest, Tearing, TypeOK
    <2>1. /\ UNCHANGED <<booted, machines, reapList>>
          /\ \A n \in Names \ {m} : row'[n] = row[n]
          /\ ok => row'[m] # "online"
          /\ \A c \in Conns : handler'[c] = IF c = f THEN "closed" ELSE handler[c]
          /\ \A g \in Failers : failPc'[g] = IF g = f THEN "idle" ELSE failPc[g]
          /\ reapName' = IF f = Reaper THEN NoName ELSE reapName
          /\ muddled' = IF ok THEN muddled ELSE muddled \cup {m}
      BY <1>8, <2>0 DEF FailOffline, Writes, TypeOK
    <2>2. (AtRest /\ Tearing)'
      BY <2>0, <2>1 DEF Orderly, AtRest, Tearing, Failers
    <2>3. ASSUME NEW n \in Names, n # m PROVE Same(n)
      BY <2>0, <2>1, <2>3 DEF Same, Failers
    <2>4. m \notin muddled' => (Alone(m) /\ Begun(m) /\ Agrees(m))'
      <3> SUFFICES ASSUME m \notin muddled' PROVE (Alone(m) /\ Begun(m) /\ Agrees(m))'
        OBVIOUS
      <3>1. ok /\ m \notin muddled /\ Alone(m) /\ Begun(m) /\ (f \in Conns => f \in Busy)
        BY <2>0, <2>1 DEF Orderly, Busy
      <3>2. machines'[m] = NoConn /\ row'[m] # "online"
        BY <2>0, <2>1, <3>1 DEF Begun, Failers, Busy
      <3>3. reapName' # m /\ \A d \in Conns : Owner[d] = m => d \notin Busy'
        BY <2>0, <2>1, <3>1 DEF Alone, Busy, Failers
      <3> QED BY <3>2, <3>3 DEF Alone, Begun, Agrees, Busy
    <2> QED BY <2>2, <2>3, <2>4, OthersSame DEF Orderly
  <1>9. CASE ReapScan
    <2>1. /\ UNCHANGED <<machines, row, muddled, reapName, booted, handler, failPc>>
          /\ booted
      BY <1>9 DEF ReapScan, mapVars, connVars
    <2>2. (AtRest /\ Tearing)'
      BY <2>1 DEF Orderly, AtRest, Tearing
    <2> QED BY <1>0, <2>1, <2>2 DEF Same
  <1>10. ASSUME NEW m \in Names, ReapNext(m) PROVE Orderly'
    <2>1. /\ booted /\ reapName = NoName /\ UNCHANGED <<booted, row, handler>>
          /\ machines' = [machines EXCEPT ![m] = NoConn]
          /\ reapName' = m
          /\ failPc' = [failPc EXCEPT ![Reaper] = "fail"]
          /\ muddled' = IF AtWork(m) THEN muddled \cup {m} ELSE muddled \ {m}
      BY <1>10 DEF ReapNext, FailRemove, Begins, connVars, Orderly, AtRest, TypeOK
    <2>2. (AtRest /\ Tearing)'
      BY <2>1 DEF Orderly, AtRest, Tearing, TypeOK, Failers
    <2>3. ASSUME NEW n \in Names, n # m PROVE Same(n)
      BY <2>1, <2>3 DEF Same, TypeOK
    <2>4. m \notin muddled' => (Alone(m) /\ Begun(m) /\ Agrees(m))'
      <3> SUFFICES ASSUME ~AtWork(m) PROVE (Alone(m) /\ Begun(m) /\ Agrees(m))'
        BY <2>1
      <3>1. \A d \in Conns : Owner[d] = m => d \notin Busy'
        BY <2>1 DEF AtWork, Busy
      <3>2. machines'[m] = NoConn /\ AtWork(m)'
        BY <2>1 DEF AtWork, TypeOK
      <3> QED BY <3>1, <3>2 DEF Alone, Begun, Agrees, Settled, Busy
    <2> QED BY <2>2, <2>3, <2>4, OthersSame DEF Orderly
  <1>11. CASE Crash
    <2>1. /\ ~booted' /\ reapName' = NoName /\ reapList' = {}
          /\ \A n \in Names : machines'[n] = NoConn
          /\ \A c \in Conns : handler'[c] \in {"none", "closed"} /\ failPc'[c] = "idle"
      BY <1>11 DEF Crash, Failers
    <2>2. Busy' = {}
      BY <2>1 DEF Busy
    <2>3. (AtRest /\ Tearing)'
      BY <2>1 DEF AtRest, Tearing
    <2>4. \A n \in Names : (Alone(n) /\ Begun(n) /\ Agrees(n))'
      BY <2>1, <2>2 DEF Alone, Begun, Agrees, Settled
    <2> QED BY <2>3, <2>4 DEF Orderly
  <1>12. ASSUME NEW ok \in BOOLEAN, BootReclaim(ok) PROVE Orderly'
    <2>1. /\ UNCHANGED <<machines, reapName, reapList, handler, failPc>> /\ booted'
          /\ reapName = NoName /\ Busy = {} /\ Busy' = {}
          /\ \A n \in Names : machines[n] = NoConn
          /\ \A n \in Names \ muddled' : row'[n] # "online"
      BY <1>12
      DEF BootReclaim, Reclaimed, Orderly, AtRest, Busy, connVars, failVars
    <2>2. (AtRest /\ Tearing)'
      BY <2>1 DEF Orderly, AtRest, Tearing
    <2>3. \A n \in Names \ muddled' : (Alone(n) /\ Begun(n) /\ Agrees(n))'
      BY <2>1 DEF Alone, Begun, Agrees
    <2> QED BY <2>2, <2>3 DEF Orderly
  <1> QED
    BY <1>1, <1>2, <1>3, <1>4, <1>5, <1>6, <1>7, <1>8, <1>9, <1>10, <1>11, <1>12,
       RegistryCases DEF Online, FailMachine

(* Whatever redials, teardowns, lapses and crashes there are: once nobody  *)
(* is at work on a name, its row agrees with the map, unless the last      *)
(* operations on it overlapped or a statement of theirs failed             *)
(* (fleet.rs:159-170, 261-333, 361-364).                                   *)
THEOREM RowsAgree == Spec => []RowAgrees
  <1>1. Init => Linked /\ Orderly
    BY DEF Init, Linked, Orderly, AtRest, Tearing, Alone, Begun, Agrees, Settled, AtWork, Busy,
           Failers
  <1>2. IInv /\ Reasons /\ Linked /\ Orderly /\ [Next]_vars => (Linked /\ Orderly)'
    <2>1. ASSUME Linked, Orderly, UNCHANGED vars PROVE (Linked /\ Orderly)'
      <3>1. (AtRest /\ Tearing)' /\ \A n \in Names : Same(n)
        BY <2>1 DEF vars, mapVars, connVars, failVars, Orderly, AtRest, Tearing, Same
      <3>2. Linked'
        BY <2>1 DEF vars, connVars, netVars, Linked
      <3> QED BY <2>1, <3>1, <3>2, OthersSame DEF Orderly
    <2>2. ASSUME IInv, Reasons, Linked, Orderly, Next PROVE (Linked /\ Orderly)'
      BY <2>2, LinkedStep, OrderlyStep DEF IInv, Reasons
    <2> QED BY <2>1, <2>2
  <1>3. Orderly => RowAgrees
    BY DEF Orderly, Agrees, RowAgrees
  <1> QED BY <1>1, <1>2, <1>3, ReasonsInvariant, PTL DEF Spec

-----------------------------------------------------------------------------
(* Until a connection of its name breaks, a worker serves one connection,  *)
(* and that one is registered once its handler has got that far.           *)
Served == \A c \in Conns : link[c] = "up" => wconn[Owner[c]] = c

Registered ==
    \A c \in Conns :
        handler[c] \in {"mark", "loop"} /\ Owner[c] \notin Blamed => machines[Owner[c]] = c

LEMMA ServedStep ==
  ASSUME TypeOK, Served, Next
  PROVE  Served'
  <1> USE OwnerAssumption
  <1>1. ASSUME link' = link, wconn' = wconn PROVE Served'
    BY <1>1 DEF Served
  <1>2. ASSUME NEW c \in Conns, Dial(c) PROVE Served'
    <2>1. \A d \in Conns : link[d] = "up" => Owner[d] # Owner[c] \/ c = NoConn
      BY <1>2, NoConnAssumption DEF Dial, Served
    <2> QED BY <1>2, <2>1, NoConnAssumption DEF Dial, Served, TypeOK
  <1>3. ASSUME NEW c \in Conns, WorkerNotices(c) PROVE Served'
    BY <1>3 DEF WorkerNotices, Served, netVars, TypeOK
  <1>4. ASSUME NEW c \in Conns, Break(c) PROVE Served'
    BY <1>4 DEF Break, Served, workVars, TypeOK
  <1>5. CASE Crash
    BY <1>5 DEF Crash, Served, workVars
  <1>6. ASSUME NEW c \in Conns,
               \/ Online(c) \/ HandleEnded(c) \/ HandleHeartbeat(c)
               \/ HandlerNotices(c) \/ WriterGone(c) \/ WorkerAssign(c) \/ WorkerInsert(c)
               \/ WorkerAbort(c) \/ Silence(c)
        PROVE  Served'
    BY <1>1, <1>6
    DEF Online, Register, MarkOnline, HandleEnded, HandleHeartbeat, HandlerNotices, WriterGone,
        WorkerAssign, WorkerInsert, WorkerAbort, Silence, netVars, workVars
  <1>7. ASSUME NEW f \in Failers, FailMachine(f) PROVE Served'
    BY <1>1, <1>7 DEF FailMachine, FailSessions, FailOffline, netVars, workVars
  <1>8. ASSUME NEW s \in Sessions,
               \/ PickMachine(s) \/ RunLocally(s) \/ Enlist(s) \/ SendAssign(s) \/ SendFails(s)
               \/ Receive(s) \/ AbortTask(s) \/ DropTask(s) \/ RouteAbort(s)
               \/ \E ok \in BOOLEAN : AgentEnds(s, ok)
        PROVE  Served'
    BY <1>1, <1>8
    DEF PickMachine, RunLocally, Enlist, SendAssign, SendFails, Receive, AbortTask, DropTask,
        RouteAbort, AgentEnds, netVars, workVars
  <1>9. CASE ReapScan \/ (\E n \in Names : ReapNext(n)) \/ (\E ok \in BOOLEAN : BootReclaim(ok))
    BY <1>1, <1>9 DEF ReapScan, ReapNext, BootReclaim, netVars, workVars
  <1> QED
    BY <1>2, <1>3, <1>4, <1>5, <1>6, <1>7, <1>8, <1>9
    DEF Next, Online, Handler, Worker, FailMachine, Reap, Dispatch, Abort

LEMMA RegisteredStep ==
  ASSUME TypeOK, Suspects, Linked, Served, Registered, Next
  PROVE  Registered'
  <1> USE OwnerAssumption, ReaperAssumption
  <1>0. Blamed \subseteq Blamed'
    BY BlameStays
  <1>1. \A c, d \in Conns :
           /\ handler[c] # "none" /\ handler[d] # "none" /\ Owner[c] = Owner[d]
           /\ Owner[c] \notin Blamed
           => c = d
    <2>1. \A c \in Conns : handler[c] # "none" /\ Owner[c] \notin Blamed => link[c] = "up"
      BY DEF Linked, Blamed, Broken, TypeOK
    <2> QED BY <2>1 DEF Served
  <1>2. CASE UNCHANGED registry
    BY <1>2, <1>0 DEF registry, Registered
  <1>3. ASSUME NEW c \in Conns, Register(c) PROVE Registered'
    <2>1. /\ machines' = [machines EXCEPT ![Owner[c]] = c] /\ handler[c] = "register"
          /\ \A d \in Conns \ {c} : handler'[d] = handler[d]
      BY <1>3 DEF Register, TypeOK
    <2>2. ASSUME NEW d \in Conns, handler'[d] \in {"mark", "loop"}, Owner[d] \notin Blamed
          PROVE  machines'[Owner[d]] = d
      <3>1. Owner[d] = Owner[c] => d = c
        BY <1>1, <2>1, <2>2
      <3>2. CASE d = c
        BY <2>1, <3>2 DEF TypeOK
      <3>3. CASE d # c
        BY <2>1, <2>2, <3>1, <3>3 DEF Registered, TypeOK
      <3> QED BY <3>2, <3>3
    <2> QED BY <1>0, <2>2 DEF Registered
  <1>4. ASSUME NEW c \in Conns, HandlerNotices(c) PROVE Registered'
    <2>1. Owner[c] \in Blamed
      BY <1>4 DEF HandlerNotices, Blamed, Broken
    <2> QED BY <1>0, <1>4, <2>1 DEF HandlerNotices, FailRemove, Registered, TypeOK
  <1>5. ASSUME NEW n \in Names, ReapNext(n) PROVE Registered'
    BY <1>0, <1>5 DEF ReapNext, FailRemove, Registered, Suspects, connVars, TypeOK
  <1>6. ASSUME NEW c \in Conns,
               \/ Dial(c) \/ (\E ok \in BOOLEAN : MarkOnline(c, ok)) \/ HandleEnded(c) \/ HandleHeartbeat(c)
               \/ Break(c) \/ Silence(c)
        PROVE  Registered'
    BY <1>0, <1>6
    DEF Dial, MarkOnline, HandleEnded, HandleHeartbeat, Break, Silence, mapVars, connVars,
        Registered, TypeOK
  <1>7. ASSUME NEW f \in Failers, FailMachine(f) PROVE Registered'
    BY <1>0, <1>7 DEF FailMachine, FailSessions, FailOffline, connVars, Registered
  <1>8. CASE ReapScan \/ (\E ok \in BOOLEAN : BootReclaim(ok))
    BY <1>0, <1>8 DEF ReapScan, BootReclaim, mapVars, connVars, Registered
  <1>9. CASE Crash
    BY <1>9 DEF Crash, Registered
  <1> QED
    BY <1>2, <1>3, <1>4, <1>5, <1>6, <1>7, <1>8, <1>9, RegistryCases DEF Online, FailMachine

(* "a machine registers on WS connect, deregisters on disconnect"          *)
(* (state.rs:63-65) is true up to the first broken connection of the       *)
(* machine and the first lapse of a lease: the served connection is the    *)
(* registered one.  What a redial makes of it is another matter.           *)
THEOREM RegisteredUnlessBlamed == Spec => []Registered
  <1> DEFINE I == Linked /\ Served /\ Registered
  <1>1. Init => I
    BY DEF Init, Linked, Served, Registered
  <1>2. IInv /\ Reasons /\ I /\ [Next]_vars => I'
    <2>1. ASSUME I, UNCHANGED vars PROVE I'
      BY <2>1
      DEF vars, mapVars, connVars, netVars, workVars, envVars, Linked, Served, Registered,
          Blamed, Broken
    <2>2. ASSUME IInv, Reasons, I, Next PROVE I'
      BY <2>2, LinkedStep, ServedStep, RegisteredStep DEF IInv, Reasons
    <2> QED BY <2>1, <2>2
  <1>3. I => Registered
    OBVIOUS
  <1> QED BY <1>1, <1>2, <1>3, ReasonsInvariant, PTL DEF Spec
=============================================================================
