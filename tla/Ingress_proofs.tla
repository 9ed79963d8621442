--------------------------- MODULE Ingress_proofs ---------------------------
(***************************************************************************)
(* Proofs about Ingress, for any accounts, requests, faults and crashes.   *)
(* One inductive invariant, IInv, says what a handler may rely on at each  *)
(* of its statements although every other handler runs in between: rows    *)
(* are never deleted, so what it has read or written is still there.       *)
(***************************************************************************)
EXTENDS Ingress, FiniteSetTheorems, TLAPS

(* A login knows its user, and where the member row will go. *)
LoginInv(h) ==
    /\ req[h].at \in {"upsert", "lookup", "insert", "suffix", "join"} =>
            req[h].user \in Accounts
    /\ req[h].at \in {"lookup", "insert", "suffix", "join", "mint"} =>
            req[h].user \in users
    /\ req[h].at = "join" =>
            /\ req[h].ws \in Ids \ FreeIds
            /\ workspaces[req[h].ws].by = req[h].user
    /\ req[h].at = "mint" => Homes(req[h].user) # {}

(* A workflow request knows an existing workflow or workspace, and that    *)
(* its user is a member once it acts.                                      *)
WorkflowInv(h) ==
    /\ req[h].at \in {"load", "access", "act"} =>
            /\ req[h].user \in People
            /\ req[h].op \in {"create", "activate", "deactivate", "fire"}
    /\ req[h].at = "load" => req[h].op # "create"
    /\ req[h].at \in {"load", "access", "act"} /\ req[h].op # "create" =>
            req[h].wf \in Existing
    /\ req[h].at \in {"access", "act"} => req[h].ws \in Ids \ FreeIds
    /\ req[h].at \in {"access", "act"} /\ req[h].op = "create" =>
            req[h].trigger \in Triggers
    /\ req[h].at \in {"access", "act"} /\ req[h].op = "fire" =>
            req[h].row \in Workflow
    /\ req[h].at = "act" => <<req[h].ws, req[h].user>> \in members

(* What a handler has read of the active flags lies in its history, which  *)
(* grows with every activation.                                            *)
SeenInv(h) ==
    /\ req[h].at = "scan" => req[h].op = "issue"
    /\ req[h].at = "loop" => req[h].op = "issue"
    /\ req[h].at = "scan" \/ (req[h].at = "load" /\ req[h].op = "fire") =>
            Active \subseteq req[h].seen
    /\ req[h].at \in {"access", "act"} /\ req[h].op = "fire" /\ req[h].row.active =>
            req[h].wf \in req[h].seen
    /\ req[h].todo \cup req[h].fired \subseteq req[h].seen

(* The matches of a delivery that are neither fired nor still to be fired  *)
(* were lost to failed statements.                                         *)
LostInv(h) ==
    /\ req[h].at \notin {"loop", "answered"} => req[h].matched = {}
    /\ req[h].at # "loop" => req[h].todo = {}
    /\ Cardinality(req[h].matched \ (req[h].fired \cup req[h].todo)) <= faults

BootInv ==
    /\ boot # "serving" => \A h \in Handlers : req[h] = Idle
    /\ boot \in {"workspace", "member"} => Dev \in users
    /\ boot = "member" => Bare(DevSlug) # {}
    /\ devLogin /\ boot = "serving" => Dev \in users /\ Homes(Dev) # {}

WorkflowRows == \A w \in Existing : workflows[w].ws \in Ids \ FreeIds

HandlerInv(h) == LoginInv(h) /\ WorkflowInv(h) /\ SeenInv(h) /\ LostInv(h)

IInv ==
    /\ TypeOK /\ BootInv /\ WorkflowRows
    /\ CookieHasHome /\ PersonalStaysPersonal /\ ErrorsAreFaults
    /\ \A h \in Handlers : HandlerInv(h)

-----------------------------------------------------------------------------
(* The part of TypeOK that is about the database. *)
DbOK ==
    /\ users \subseteq People /\ cookies \subseteq users
    /\ workspaces \in [Ids -> Workspace \cup {NoRow}]
    /\ \A slug \in Slugs : \A i, j \in Bare(slug) : i = j
    /\ members \subseteq (Ids \ FreeIds) \X users
    /\ workflows \in [Wfs -> Workflow \cup {NoRow}]

(* No statement deletes a row of these tables or rewrites a workspace. *)
RowsKept ==
    /\ users \subseteq users' /\ members \subseteq members'
    /\ \A i \in Ids \ FreeIds : workspaces'[i] = workspaces[i]
    /\ \A w \in Existing : workflows'[w] # NoRow

(* What a statement does to the database besides. *)
DbStep ==
    /\ DbOK' /\ RowsKept
    /\ WorkflowRows' /\ CookieHasHome' /\ PersonalStaysPersonal'

LEMMA Numbers ==
    ASSUME TypeOK
    PROVE  faults \in Nat /\ MaxFaults \in Nat /\ MaxArrivals \in Nat /\ MaxCrashes \in Nat
BY BoundsAssumption DEF TypeOK

LEMMA Faults ==
    ASSUME TypeOK, NEW ok \in BOOLEAN, Statement(ok)
    PROVE  faults' \in 0..MaxFaults /\ faults <= faults' /\ (~ok => faults' > 0)
BY Numbers DEF Statement, TypeOK

LEMMA Quiet ==
    ASSUME IInv, UNCHANGED dbVars
    PROVE  DbStep /\ Active' = Active
BY DEF IInv, dbVars, DbStep, DbOK, TypeOK, RowsKept, WorkflowRows, CookieHasHome,
       PersonalStaysPersonal, Active, Existing, FreeIds, Homes, Bare

LEMMA LostCount ==
    ASSUME TypeOK, NEW k \in Handlers
    PROVE  Cardinality(req[k].matched \ (req[k].fired \cup req[k].todo)) \in Nat
<1>1. req[k].matched \subseteq Wfs  BY DEF TypeOK, Request
<1> QED  BY <1>1, AccountsAssumption, FS_Subset, FS_CardinalityType

(* A handler that does not move keeps its invariant whatever another one   *)
(* writes, if it has seen what becomes active.                             *)
LEMMA Bystander ==
    ASSUME IInv, DbStep, faults' \in Nat, faults <= faults',
           NEW k \in Handlers, req'[k] = req[k], Active' \subseteq Active
    PROVE  HandlerInv(k)'
<1>1. HandlerInv(k)  BY DEF IInv
<1>2. LoginInv(k)'
  BY <1>1 DEF HandlerInv, LoginInv, DbStep, RowsKept, FreeIds, Homes
<1>3. WorkflowInv(k)'
  BY <1>1 DEF HandlerInv, WorkflowInv, DbStep, RowsKept, FreeIds, Existing
<1>4. SeenInv(k)'
  BY <1>1 DEF HandlerInv, SeenInv
<1>5. LostInv(k)'
  BY <1>1, LostCount, Numbers DEF HandlerInv, LostInv, IInv
<1> QED  BY <1>2, <1>3, <1>4, <1>5 DEF HandlerInv

LEMMA IdleInv ==
    ASSUME IInv, NEW k \in Handlers, req'[k] = Idle, faults' \in Nat
    PROVE  HandlerInv(k)'
<1>1. Cardinality({} \ ({} \cup {})) = 0  BY FS_EmptySet
<1> QED  BY <1>1 DEF HandlerInv, LoginInv, WorkflowInv, SeenInv, LostInv, Idle

LEMMA InitInv == Init => IInv
<1> SUFFICES ASSUME Init PROVE IInv  OBVIOUS
<1>0. \A h \in Handlers : req[h] = Idle  BY DEF Init
<1>1. TypeOK
  <2>1. Idle \in Request  BY DEF Idle, Request, Ops
  <2>0. /\ boot \in {"user", "workspace", "member", "serving"} /\ devLogin \in BOOLEAN
        /\ req \in [Handlers -> Request] /\ arrivals \in 0..MaxArrivals
        /\ faults \in 0..MaxFaults /\ crashes \in 0..MaxCrashes
    BY <2>1, BoundsAssumption DEF Init, Booting
  <2>2. CASE Empty
    BY <2>0, <2>2 DEF Empty, TypeOK, FreeIds, Bare
  <2>3. CASE \E a \in Accounts : InUse(a, CHOOSE i \in Ids : TRUE)
    <3>1. PICK a \in Accounts : InUse(a, CHOOSE i \in Ids : TRUE)  BY <2>3
    <3>2. PICK i \in Ids : InUse(a, i)  BY <3>1, AccountsAssumption
    <3>3. workspaces \in [Ids -> Workspace \cup {NoRow}]
      BY <3>2 DEF InUse, Workspace, People, Slugs
    <3>4. workflows \in [Wfs -> Workflow \cup {NoRow}]
      <4>1. \A t \in Triggers :
              [ws |-> i, trigger |-> t, active |-> FALSE, by |-> a] \in Workflow
        BY DEF Workflow, People
      <4> QED  BY <3>2, <4>1 DEF InUse
    <3>5. \A slug \in Slugs : \A j, k \in Bare(slug) : j = k
      BY <3>2 DEF InUse, Bare
    <3>6. i \notin FreeIds
      <4>1. workspaces[i] = [slug |-> Login[a], bare |-> TRUE, by |-> a]
        BY <3>2 DEF InUse
      <4>2. workspaces[i] \in Workspace
        BY <4>1 DEF Workspace, People, Slugs
      <4> QED  BY <4>2, NoRowAssumption DEF FreeIds
    <3>7. /\ users = {a} /\ cookies = {a} /\ members = {<<i, a>>} /\ a \in People
          /\ members \subseteq (Ids \ FreeIds) \X users
      BY <3>2, <3>6 DEF InUse, People
    <3>8. users \subseteq People /\ cookies \subseteq users
      BY <3>7
    <3> QED  BY <2>1, <2>0, <3>3, <3>4, <3>5, <3>7, <3>8 DEF TypeOK
  <2> QED  BY <2>2, <2>3 DEF Init
<1>2. BootInv
  BY <1>0 DEF BootInv, Init, Booting
<1>3. WorkflowRows /\ CookieHasHome /\ PersonalStaysPersonal
  <2>1. CASE Empty
    BY <2>1 DEF Empty, WorkflowRows, CookieHasHome, PersonalStaysPersonal, Existing
  <2>2. CASE \E a \in Accounts : InUse(a, CHOOSE i \in Ids : TRUE)
    <3>1. PICK a \in Accounts : InUse(a, CHOOSE i \in Ids : TRUE)  BY <2>2
    <3>2. PICK i \in Ids : InUse(a, i)  BY <3>1, AccountsAssumption
    <3>3. \A w \in Wfs : workflows[w].ws = i /\ workflows[w].by = a
      BY <3>2 DEF InUse
    <3>4. workspaces[i].by = a /\ members = {<<i, a>>} /\ cookies = {a}
      BY <3>2 DEF InUse
    <3>5. i \notin FreeIds  BY <1>1, <3>4 DEF TypeOK
    <3>6. CookieHasHome  BY <3>4 DEF CookieHasHome, Homes
    <3>7. PersonalStaysPersonal  BY <3>3, <3>4 DEF PersonalStaysPersonal, Existing
    <3>8. WorkflowRows  BY <3>3, <3>5 DEF WorkflowRows, Existing
    <3> QED  BY <3>6, <3>7, <3>8
  <2> QED  BY <2>1, <2>2 DEF Init
<1>4. ErrorsAreFaults
  BY <1>0 DEF ErrorsAreFaults, Idle
<1>5. ASSUME NEW h \in Handlers PROVE HandlerInv(h)
  <2>1. req[h] = Idle /\ faults = 0  BY <1>0 DEF Init
  <2>2. Cardinality({} \ ({} \cup {})) = 0  BY FS_EmptySet
  <2> QED  BY <2>1, <2>2 DEF HandlerInv, LoginInv, WorkflowInv, SeenInv, LostInv, Idle
<1> QED  BY <1>1, <1>2, <1>3, <1>4, <1>5 DEF IInv

-----------------------------------------------------------------------------
(* Steps of a handler.                                                     *)

LEMMA Types ==
    ASSUME TypeOK, NEW h \in Handlers
    PROVE  /\ Idle \in Request
           /\ \A at \in {"lookup", "insert", "suffix", "join", "mint", "access", "act",
                       "loop"} : Goto(h, at) \in Request
           /\ \A at \in {"answered", "error"} : Answer(h, at) \in Request
<1>1. Idle \in Request  BY DEF Idle, Request, Ops
<1>2. req[h] \in Request  BY DEF TypeOK
<1>3. \A at \in {"lookup", "insert", "suffix", "join", "mint", "access", "act", "loop"} :
        Goto(h, at) \in Request
  BY <1>2 DEF Goto, Request
<1>4. \A at \in {"answered", "error"} : Answer(h, at) \in Request
  BY <1>1, <1>2 DEF Answer, Idle, Request
<1> QED  BY <1>1, <1>3, <1>4

LEMMA StepInv ==
    ASSUME IInv, NEW h \in Handlers, NEW ok \in BOOLEAN, Statement(ok),
           boot = "serving", UNCHANGED <<procVars, crashes>>,
           arrivals' \in 0..MaxArrivals,
           req' \in [Handlers -> Request],
           \A k \in Handlers \ {h} : req'[k] = req[k],
           \/ HandlerInv(h)' /\ req'[h].at # "error"
           \/ /\ ~ok /\ req'[h] = Answer(h, "error")
              /\ req[h].at \notin {"loop", "answered"},
           DbStep, Active' \subseteq Active
    PROVE  IInv'
<1>1. faults' \in 0..MaxFaults /\ faults' \in Nat /\ faults <= faults' /\ (~ok => faults' > 0)
  BY Faults, Numbers DEF IInv
<1>2. TypeOK'
  BY <1>1 DEF IInv, TypeOK, DbStep, DbOK, procVars
<1>3. HandlerInv(h)'
  <2>1. CASE req'[h] = Answer(h, "error") /\ req[h].at \notin {"loop", "answered"}
    <3>1. HandlerInv(h)  BY DEF IInv
    <3>2. req[h].matched = {}  BY <2>1, <3>1 DEF HandlerInv, LostInv
    <3>3. Cardinality({} \ (req[h].fired \cup {})) = 0
      <4>1. {} \ (req[h].fired \cup {}) = {}  OBVIOUS
      <4> QED  BY <4>1, FS_EmptySet
    <3>4. /\ req'[h].at = "error" /\ req'[h].matched = {} /\ req'[h].todo = {}
          /\ req'[h].fired = req[h].fired /\ req'[h].seen = req[h].seen
      BY <2>1, <3>2 DEF Answer, Idle
    <3>5. req[h].fired \subseteq req[h].seen  BY <3>1 DEF HandlerInv, SeenInv
    <3> QED  BY <1>1, <3>3, <3>4, <3>5
        DEF HandlerInv, LoginInv, WorkflowInv, SeenInv, LostInv
  <2> QED  BY <2>1
<1>4. \A k \in Handlers : HandlerInv(k)'
  BY <1>1, <1>3, Bystander
<1>5. ErrorsAreFaults'
  BY <1>1, Numbers DEF IInv, ErrorsAreFaults
<1>6. BootInv'
  BY DEF IInv, BootInv, DbStep, RowsKept, procVars, Homes
<1> QED  BY <1>2, <1>4, <1>5, <1>6 DEF IInv, DbStep

LEMMA NothingLost ==
    ASSUME NEW h \in Handlers, faults' \in Nat, req'[h].matched = {}, req'[h].todo = {}
    PROVE  LostInv(h)'
<1>1. Cardinality({} \ (req'[h].fired \cup {})) = 0
  <2>1. {} \ (req'[h].fired \cup {}) = {}  OBVIOUS
  <2> QED  BY <2>1, FS_EmptySet
<1> QED  BY <1>1 DEF LostInv

(* A request that arrives changes nothing but its handler. *)
LEMMA ArriveInv ==
    ASSUME IInv, NEW h \in Handlers, boot = "serving",
           arrivals' = arrivals + 1, arrivals < MaxArrivals,
           UNCHANGED <<dbVars, procVars, faults, crashes>>,
           req' \in [Handlers -> Request],
           \A k \in Handlers \ {h} : req'[k] = req[k],
           req'[h].matched = {}, req'[h].todo = {}, req'[h].at # "error",
           LoginInv(h)', WorkflowInv(h)', SeenInv(h)'
    PROVE  IInv'
<1>1. TypeOK  BY DEF IInv
<1>2. Statement(TRUE)  BY DEF Statement
<1>3. arrivals' \in 0..MaxArrivals  BY <1>1, Numbers DEF TypeOK
<1>4. faults' \in Nat  BY <1>1, Numbers
<1>5. HandlerInv(h)'  BY <1>4, NothingLost DEF HandlerInv
<1>6. DbStep /\ Active' = Active  BY Quiet
<1> QED  BY <1>2, <1>3, <1>5, <1>6, StepInv

LEMMA CallbackStep ==
    ASSUME IInv, NEW h \in Handlers, Callback(h)
    PROVE  IInv'
<1>1. PICK a \in Accounts :
        Arrive(h, [Idle EXCEPT !.at = "upsert", !.op = "login", !.user = a])
  BY DEF Callback
<1> DEFINE r == [Idle EXCEPT !.at = "upsert", !.op = "login", !.user = a]
<1>2. r \in Request  BY DEF Idle, Request, Ops, People
<1>3. req' = [req EXCEPT ![h] = r] /\ req \in [Handlers -> Request]
  BY <1>1 DEF Arrive, IInv, TypeOK
<1>4. req'[h] = r /\ req' \in [Handlers -> Request]
  BY <1>2, <1>3
<1>5. LoginInv(h)' /\ WorkflowInv(h)' /\ SeenInv(h)'
  BY <1>4 DEF LoginInv, WorkflowInv, SeenInv, Idle
<1>6. r.matched = {} /\ r.todo = {} /\ r.at # "error"  BY DEF Idle
<1> HIDE DEF r
<1> QED  BY <1>1, <1>3, <1>4, <1>5, <1>6, ArriveInv DEF Arrive, r

LEMMA DevCallbackStep ==
    ASSUME IInv, NEW h \in Handlers, DevCallback(h)
    PROVE  IInv'
<1>1. Dev \in users /\ Homes(Dev) # {}
  BY DEF DevCallback, Arrive, IInv, BootInv
<1> DEFINE r == [Idle EXCEPT !.at = "mint", !.op = "dev", !.user = Dev]
<1>2. Arrive(h, r)  BY <1>1 DEF DevCallback
<1>3. req' = [req EXCEPT ![h] = r] /\ req \in [Handlers -> Request]
  BY <1>2 DEF Arrive, IInv, TypeOK
<1>4. r \in Request  BY DEF Idle, Request, Ops, People
<1>5. req'[h] = r /\ req' \in [Handlers -> Request]  BY <1>3, <1>4
<1>6. users' = users /\ Homes(Dev)' = Homes(Dev)
  BY <1>2 DEF Arrive, dbVars, Homes
<1>7. LoginInv(h)' /\ WorkflowInv(h)' /\ SeenInv(h)'
  BY <1>1, <1>5, <1>6 DEF LoginInv, WorkflowInv, SeenInv, Idle, Homes
<1>8. r.matched = {} /\ r.todo = {} /\ r.at # "error"  BY DEF Idle
<1> HIDE DEF r
<1> QED  BY <1>2, <1>3, <1>5, <1>7, <1>8, ArriveInv DEF Arrive

LEMMA CreateRequestStep ==
    ASSUME IInv, NEW h \in Handlers, CreateRequest(h)
    PROVE  IInv'
<1>1. PICK u \in cookies, i \in Ids \ FreeIds, t \in Triggers :
        Arrive(h, [Idle EXCEPT !.at = "access", !.op = "create", !.user = u,
                               !.ws = i, !.trigger = t])
  BY DEF CreateRequest
<1> DEFINE r == [Idle EXCEPT !.at = "access", !.op = "create", !.user = u,
                             !.ws = i, !.trigger = t]
<1>2. u \in People  BY DEF IInv, TypeOK
<1>3. r \in Request  BY <1>2 DEF Idle, Request, Ops
<1>4. req' = [req EXCEPT ![h] = r] /\ req \in [Handlers -> Request]
  BY <1>1 DEF Arrive, IInv, TypeOK
<1>5. req'[h] = r /\ req' \in [Handlers -> Request]  BY <1>3, <1>4
<1>6. FreeIds' = FreeIds  BY <1>1 DEF Arrive, dbVars, FreeIds
<1>7. LoginInv(h)' /\ WorkflowInv(h)' /\ SeenInv(h)'
  BY <1>2, <1>5, <1>6 DEF LoginInv, WorkflowInv, SeenInv, Idle
<1>8. r.matched = {} /\ r.todo = {} /\ r.at # "error"  BY DEF Idle
<1>9. Arrive(h, r)  BY <1>1
<1> HIDE DEF r
<1> QED  BY <1>4, <1>5, <1>7, <1>8, <1>9, ArriveInv DEF Arrive

LEMMA WorkflowRequestStep ==
    ASSUME IInv, NEW h \in Handlers, WorkflowRequest(h)
    PROVE  IInv'
<1>1. PICK u \in cookies, w \in Existing, op \in {"activate", "deactivate", "fire"} :
        Arrive(h, [Idle EXCEPT !.at = "load", !.op = op, !.user = u, !.wf = w,
                               !.seen = IF op = "fire" THEN Active ELSE {}])
  BY DEF WorkflowRequest
<1> DEFINE seen == IF op = "fire" THEN Active ELSE {}
           r == [Idle EXCEPT !.at = "load", !.op = op, !.user = u, !.wf = w,
                             !.seen = seen]
<1>2. u \in People /\ w \in Wfs /\ seen \subseteq Wfs
  BY DEF IInv, TypeOK, Existing, Active
<1>3. r \in Request  BY <1>2 DEF Idle, Request, Ops
<1>4. req' = [req EXCEPT ![h] = r] /\ req \in [Handlers -> Request]
  BY <1>1 DEF Arrive, IInv, TypeOK
<1>5. req'[h] = r /\ req' \in [Handlers -> Request]  BY <1>3, <1>4
<1>6. Existing' = Existing /\ Active' = Active
  BY <1>1 DEF Arrive, dbVars, Existing, Active
<1>7. LoginInv(h)' /\ WorkflowInv(h)' /\ SeenInv(h)'
  BY <1>2, <1>5, <1>6 DEF LoginInv, WorkflowInv, SeenInv, Idle
<1>8. r.matched = {} /\ r.todo = {} /\ r.at # "error"  BY DEF Idle
<1>9. Arrive(h, r)  BY <1>1
<1> HIDE DEF r
<1> QED  BY <1>4, <1>5, <1>7, <1>8, <1>9, ArriveInv DEF Arrive

LEMMA DeliverStep ==
    ASSUME IInv, NEW h \in Handlers, Deliver(h)
    PROVE  IInv'
<1>1. PICK e \in Events :
        Arrive(h, [Idle EXCEPT !.at = "scan", !.op = "issue", !.trigger = e,
                               !.seen = Active])
  BY DEF Deliver
<1> DEFINE r == [Idle EXCEPT !.at = "scan", !.op = "issue", !.trigger = e,
                             !.seen = Active]
<1>2. Active \subseteq Wfs  BY DEF Existing, Active
<1>3. r \in Request  BY <1>2 DEF Idle, Request, Ops, Triggers
<1>4. req' = [req EXCEPT ![h] = r] /\ req \in [Handlers -> Request]
  BY <1>1 DEF Arrive, IInv, TypeOK
<1>5. req'[h] = r /\ req' \in [Handlers -> Request]  BY <1>3, <1>4
<1>6. Active' = Active  BY <1>1 DEF Arrive, dbVars, Existing, Active
<1>7. LoginInv(h)' /\ WorkflowInv(h)' /\ SeenInv(h)'
  BY <1>5, <1>6 DEF LoginInv, WorkflowInv, SeenInv, Idle
<1>8. r.matched = {} /\ r.todo = {} /\ r.at # "error"  BY DEF Idle
<1>9. Arrive(h, r)  BY <1>1
<1> HIDE DEF r
<1> QED  BY <1>4, <1>5, <1>7, <1>8, <1>9, ArriveInv DEF Arrive

-----------------------------------------------------------------------------
(* Logins.                                                                 *)

(* A handler that is at a login statement next has nothing else to show.   *)
LEMMA LoginGoes ==
    ASSUME IInv, NEW h \in Handlers, faults' \in Nat,
           req[h].at \notin {"loop", "answered"},
           req'[h].at \in {"idle", "lookup", "insert", "suffix", "join", "mint"},
           req'[h].matched = req[h].matched, req'[h].todo = req[h].todo,
           req'[h].fired = req[h].fired, req'[h].seen = req[h].seen
    PROVE  WorkflowInv(h)' /\ SeenInv(h)' /\ LostInv(h)'
<1>1. HandlerInv(h)  BY DEF IInv
<1>2. req[h].matched = {} /\ req[h].todo = {}  BY <1>1 DEF HandlerInv, LostInv
<1>3. LostInv(h)'  BY <1>2, NothingLost
<1> QED  BY <1>1, <1>3 DEF HandlerInv, WorkflowInv, SeenInv

(* Going on to another statement keeps the local variables. *)
LEMMA GotoLocals ==
    ASSUME TypeOK, NEW h \in Handlers, NEW at
    PROVE  LET r == Goto(h, at) IN
           /\ r.at = at /\ r.op = req[h].op /\ r.user = req[h].user
           /\ r.ws = req[h].ws /\ r.wf = req[h].wf /\ r.row = req[h].row
           /\ r.trigger = req[h].trigger /\ r.matched = req[h].matched
           /\ r.todo = req[h].todo /\ r.fired = req[h].fired /\ r.seen = req[h].seen
<1>1. req[h] \in Request  BY DEF TypeOK
<1> QED  BY <1>1 DEF Goto, Request

(* A statement of a login: it goes on to another one if it succeeds.       *)
LEMMA LoginRowInv ==
    ASSUME IInv, NEW h \in Handlers, NEW ok \in BOOLEAN, Statement(ok),
           boot = "serving", UNCHANGED <<procVars, arrivals, crashes>>,
           req[h].at \notin {"loop", "answered"},
           NEW r \in Request,
           r.at \in {"lookup", "insert", "suffix", "join", "mint"},
           r.matched = req[h].matched, r.todo = req[h].todo,
           r.fired = req[h].fired, r.seen = req[h].seen,
           req' = [req EXCEPT ![h] = IF ok THEN r ELSE Answer(h, "error")],
           DbStep, Active' = Active,
           ok => LoginInv(h)'
    PROVE  IInv'
<1>0. TypeOK /\ HandlerInv(h)  BY DEF IInv
<1>1. req' \in [Handlers -> Request] /\ \A k \in Handlers \ {h} : req'[k] = req[k]
  BY <1>0, Types DEF TypeOK
<1>2. CASE ok
  <2>1. req'[h] = r  BY <1>0, <1>2 DEF TypeOK
  <2>2. faults' \in Nat  BY <1>0, Faults, Numbers
  <2>3. WorkflowInv(h)' /\ SeenInv(h)' /\ LostInv(h)' /\ req'[h].at # "error"
    BY <1>0, <2>1, <2>2, LoginGoes
  <2>4. HandlerInv(h)'  BY <1>2, <2>3 DEF HandlerInv
  <2> QED  BY <1>0, <1>1, <2>3, <2>4, StepInv DEF TypeOK
<1>3. CASE ~ok
  <2>1. req'[h] = Answer(h, "error")  BY <1>0, <1>3 DEF TypeOK
  <2> QED  BY <1>0, <1>1, <1>3, <2>1, StepInv DEF TypeOK
<1> QED  BY <1>2, <1>3

LEMMA LoginStepInv ==
    ASSUME IInv, NEW h \in Handlers, NEW ok \in BOOLEAN, Statement(ok),
           boot = "serving", UNCHANGED <<procVars, arrivals, crashes>>,
           req[h].at \notin {"loop", "answered"},
           NEW at \in {"lookup", "insert", "suffix", "join", "mint"},
           req' = [req EXCEPT ![h] = IF ok THEN Goto(h, at) ELSE Answer(h, "error")],
           DbStep, Active' = Active,
           ok => LoginInv(h)'
    PROVE  IInv'
<1>1. TypeOK  BY DEF IInv
<1>2. Goto(h, at) \in Request  BY <1>1, Types
<1>3. /\ Goto(h, at).at = at /\ Goto(h, at).matched = req[h].matched
      /\ Goto(h, at).todo = req[h].todo /\ Goto(h, at).fired = req[h].fired
      /\ Goto(h, at).seen = req[h].seen
  BY <1>1, GotoLocals
<1> QED  BY <1>2, <1>3, LoginRowInv

(* A handler that returns after its statement, or answers 500.             *)
LEMMA ReturnInv ==
    ASSUME IInv, NEW h \in Handlers, NEW ok \in BOOLEAN, Statement(ok),
           boot = "serving", UNCHANGED <<procVars, arrivals, crashes>>,
           req[h].at \notin {"loop", "answered"},
           req' = [req EXCEPT ![h] = IF ok THEN Idle ELSE Answer(h, "error")],
           DbStep, Active' \subseteq Active
    PROVE  IInv'
<1>0. TypeOK  BY DEF IInv
<1>1. req' \in [Handlers -> Request] /\ \A k \in Handlers \ {h} : req'[k] = req[k]
  BY <1>0, Types DEF TypeOK
<1>2. arrivals' \in 0..MaxArrivals  BY <1>0 DEF TypeOK
<1>3. CASE ok
  <2>1. req'[h] = Idle  BY <1>0, <1>3 DEF TypeOK
  <2>2. faults' \in Nat  BY <1>0, Faults, Numbers
  <2>3. HandlerInv(h)'  BY <2>1, <2>2, IdleInv
  <2>4. req'[h].at # "error"  BY <2>1 DEF Idle
  <2> QED  BY <1>1, <1>2, <2>3, <2>4, StepInv
<1>4. CASE ~ok
  <2>1. req'[h] = Answer(h, "error")  BY <1>0, <1>4 DEF TypeOK
  <2> QED  BY <1>1, <1>2, <1>4, <2>1, StepInv
<1> QED  BY <1>3, <1>4

LEMMA UpsertUserStep ==
    ASSUME IInv, NEW h \in Handlers, NEW ok \in BOOLEAN, UpsertUser(h, ok)
    PROVE  IInv'
<1>0. TypeOK /\ HandlerInv(h)  BY DEF IInv
<1>1. boot = "serving" /\ req[h].at = "upsert" /\ req[h].user \in Accounts
  BY <1>0 DEF UpsertUser, At, HandlerInv, LoginInv
<1>2. Statement(ok) /\ UNCHANGED <<procVars, arrivals, crashes>>
  BY DEF UpsertUser, Continue
<1>3. req' = [req EXCEPT ![h] = IF ok THEN Goto(h, "lookup") ELSE Answer(h, "error")]
  BY DEF UpsertUser, Continue
<1>4. users' = (IF ok THEN users \cup {req[h].user} ELSE users)
      /\ UNCHANGED <<workspaces, members, cookies, workflows>>
  BY DEF UpsertUser
<1>5. DbStep /\ Active' = Active
  <2>1. users \subseteq users' /\ users' \subseteq People
    BY <1>0, <1>1, <1>4 DEF TypeOK, People
  <2>2. FreeIds' = FreeIds /\ Existing' = Existing /\ Active' = Active
    BY <1>4 DEF FreeIds, Existing, Active
  <2>3. DbOK'
    BY <1>0, <1>4, <2>1, <2>2 DEF TypeOK, DbOK, Bare
  <2>4. RowsKept  BY <1>4, <2>1 DEF RowsKept, Existing
  <2>5. WorkflowRows' /\ CookieHasHome' /\ PersonalStaysPersonal'
    BY <1>4, <2>2 DEF IInv, WorkflowRows, CookieHasHome, PersonalStaysPersonal, Homes
  <2> QED  BY <2>2, <2>3, <2>4, <2>5 DEF DbStep
<1>6. ASSUME ok PROVE LoginInv(h)'
  <2>1. req'[h] = Goto(h, "lookup")  BY <1>0, <1>3, <1>6 DEF TypeOK
  <2> QED  BY <1>0, <1>1, <1>4, <1>6, <2>1, GotoLocals DEF LoginInv
<1> QED  BY <1>1, <1>2, <1>3, <1>5, <1>6, LoginStepInv

LEMMA LookupHomeStep ==
    ASSUME IInv, NEW h \in Handlers, NEW ok \in BOOLEAN, LookupHome(h, ok)
    PROVE  IInv'
<1>0. TypeOK /\ HandlerInv(h)  BY DEF IInv
<1>1. /\ boot = "serving" /\ req[h].at = "lookup"
      /\ req[h].user \in Accounts /\ req[h].user \in users
  BY <1>0 DEF LookupHome, At, HandlerInv, LoginInv
<1>2. Statement(ok) /\ UNCHANGED <<dbVars, procVars, arrivals, crashes>>
  BY DEF LookupHome, Continue
<1>3. DbStep /\ Active' = Active  BY <1>2, Quiet
<1>4. users' = users /\ members' = members  BY <1>2 DEF dbVars
<1>5. CASE Provisioned(req[h].user)
  <2>1. req' = [req EXCEPT ![h] = IF ok THEN Goto(h, "mint") ELSE Answer(h, "error")]
    BY <1>5 DEF LookupHome, Continue
  <2>2. ASSUME ok PROVE LoginInv(h)'
    <3>1. req'[h] = Goto(h, "mint")  BY <1>0, <2>1, <2>2 DEF TypeOK
    <3>2. req'[h].at = "mint" /\ req'[h].user = req[h].user
      BY <1>0, <3>1, GotoLocals
    <3>3. PICK i \in Ids : <<i, req[h].user>> \in members
      BY <1>5 DEF Provisioned, Homes
    <3>4. Homes(req[h].user)' # {}  BY <1>4, <3>2, <3>3 DEF Homes
    <3> QED  BY <1>1, <1>4, <3>2, <3>4 DEF LoginInv
  <2> QED  BY <1>1, <1>2, <1>3, <2>1, <2>2, LoginStepInv
<1>6. CASE ~Provisioned(req[h].user)
  <2>1. req' = [req EXCEPT ![h] = IF ok THEN Goto(h, "insert") ELSE Answer(h, "error")]
    BY <1>6 DEF LookupHome, Continue
  <2>2. ASSUME ok PROVE LoginInv(h)'
    <3>1. req'[h] = Goto(h, "insert")  BY <1>0, <2>1, <2>2 DEF TypeOK
    <3> QED  BY <1>0, <1>1, <1>4, <3>1, GotoLocals DEF LoginInv
  <2> QED  BY <1>1, <1>2, <1>3, <2>1, <2>2, LoginStepInv
<1> QED  BY <1>5, <1>6

(* A workspace with a fresh id and a slug nobody has. *)
LEMMA NewRow ==
    ASSUME IInv, NEW i \in FreeIds, NEW slug \in Slugs, NEW bare \in BOOLEAN,
           NEW u \in users, bare => Bare(slug) = {},
           workspaces' = [workspaces EXCEPT ![i] =
                             [slug |-> slug, bare |-> bare, by |-> u]],
           UNCHANGED <<users, members, cookies, workflows>>
    PROVE  /\ DbStep /\ Active' = Active
           /\ i \in (Ids \ FreeIds)' /\ workspaces'[i].by = u
<1> DEFINE row == [slug |-> slug, bare |-> bare, by |-> u]
<1>0. TypeOK /\ i \in Ids /\ workspaces[i] = NoRow  BY DEF IInv, FreeIds
<1>1. row \in Workspace  BY <1>0 DEF Workspace, TypeOK
<1>2. row # NoRow  BY <1>1, NoRowAssumption
<1>3. workspaces'[i] = row /\ \A j \in Ids \ {i} : workspaces'[j] = workspaces[j]
  BY <1>0 DEF TypeOK
<1>4. FreeIds' = FreeIds \ {i}
  BY <1>0, <1>2, <1>3 DEF FreeIds
<1>5. workspaces' \in [Ids -> Workspace \cup {NoRow}]
  BY <1>0, <1>1 DEF TypeOK
<1>6. ASSUME NEW s \in Slugs, NEW j \in Bare(s)', NEW k \in Bare(s)'
      PROVE  j = k
  <2>1. j \in Ids /\ k \in Ids  BY DEF Bare
  <2>2. CASE j # i /\ k # i
    <3>1. j \in Bare(s) /\ k \in Bare(s)  BY <1>3, <2>1, <2>2 DEF Bare
    <3> QED  BY <1>0, <3>1 DEF TypeOK
  <2>3. CASE j = i /\ k # i
    <3>1. k \in Bare(s)  BY <1>3, <2>1, <2>3 DEF Bare
    <3>2. s = slug /\ bare  BY <1>3, <2>3 DEF Bare
    <3> QED  BY <3>1, <3>2
  <2>4. CASE k = i /\ j # i
    <3>1. j \in Bare(s)  BY <1>3, <2>1, <2>4 DEF Bare
    <3>2. s = slug /\ bare  BY <1>3, <2>4 DEF Bare
    <3> QED  BY <3>1, <3>2
  <2> QED  BY <2>2, <2>3, <2>4
<1>7. DbOK'
  BY <1>0, <1>4, <1>5, <1>6 DEF TypeOK, DbOK
<1>8. RowsKept
  BY <1>0, <1>3 DEF RowsKept, FreeIds, Existing
<1>9. WorkflowRows' /\ CookieHasHome' /\ PersonalStaysPersonal' /\ Active' = Active
  <2>1. Existing' = Existing /\ Active' = Active  BY DEF Existing, Active
  <2>2. WorkflowRows'  BY <1>4, <2>1 DEF IInv, WorkflowRows
  <2>3. CookieHasHome'  BY DEF IInv, CookieHasHome, Homes
  <2>4. \A j \in Ids \ FreeIds : workspaces'[j] = workspaces[j]  BY <1>8 DEF RowsKept
  <2>5. \A m \in members : m[1] \in Ids \ FreeIds  BY <1>0 DEF TypeOK
  <2>6. \A w \in Existing : workflows[w].ws \in Ids \ FreeIds  BY DEF IInv, WorkflowRows
  <2>7. PersonalStaysPersonal'
    BY <2>1, <2>4, <2>5, <2>6 DEF IInv, PersonalStaysPersonal
  <2> QED  BY <2>1, <2>2, <2>3, <2>7
<1> QED  BY <1>0, <1>3, <1>4, <1>7, <1>8, <1>9 DEF DbStep

LEMMA Fresh ==
    ASSUME FreeIds # {}
    PROVE  FreshId \in FreeIds
<1>1. PICK i \in Ids : workspaces[i] = NoRow  BY DEF FreeIds
<1>2. FreshId \in Ids /\ workspaces[FreshId] = NoRow  BY <1>1 DEF FreshId
<1> QED  BY <1>2 DEF FreeIds

(* A login that has inserted its workspace goes on to the member row.      *)
LEMMA InsertedInv ==
    ASSUME IInv, NEW h \in Handlers, boot = "serving", Statement(TRUE),
           UNCHANGED <<procVars, arrivals, crashes>>,
           req[h].at \in {"insert", "suffix"},
           NEW bare \in BOOLEAN, bare => Bare(Login[req[h].user]) = {},
           FreeIds # {}, NewWorkspace(req[h].user, bare),
           UNCHANGED <<users, members, cookies, workflows>>,
           req' = [req EXCEPT ![h] = [Goto(h, "join") EXCEPT !.ws = FreshId]]
    PROVE  IInv'
<1>0. TypeOK /\ HandlerInv(h)  BY DEF IInv
<1> DEFINE u == req[h].user
           i == FreshId
           r == [Goto(h, "join") EXCEPT !.ws = i]
<1>1. u \in Accounts /\ u \in users  BY <1>0 DEF HandlerInv, LoginInv
<1>2. Login[u] \in Slugs  BY <1>1 DEF Slugs
<1>3. i \in FreeIds /\ i \in Ids  BY Fresh DEF FreeIds
<1>4. workspaces' = [workspaces EXCEPT ![i] =
                        [slug |-> Login[u], bare |-> bare, by |-> u]]
  BY DEF NewWorkspace
<1>5. r \in Request
  <2>1. Goto(h, "join") \in Request  BY <1>0, Types
  <2> QED  BY <1>3, <2>1 DEF Request
<1>6. r.at = "join" /\ r.user = u /\ r.ws = i /\ r.matched = req[h].matched
      /\ r.todo = req[h].todo /\ r.fired = req[h].fired /\ r.seen = req[h].seen
  <2>1. Goto(h, "join") \in Request  BY <1>0, Types
  <2> QED  BY <1>0, <2>1, GotoLocals DEF Request
<1>7. req' = [req EXCEPT ![h] = IF TRUE THEN r ELSE Answer(h, "error")]
  OBVIOUS
<1>8. req'[h] = r  BY <1>0 DEF TypeOK
<1> HIDE DEF u, i, r
<1>9. DbStep /\ Active' = Active /\ i \in Ids \ FreeIds' /\ workspaces'[i].by = u
  <2>1. bare => Bare(Login[u]) = {}  BY DEF u
  <2> QED  BY <1>1, <1>2, <1>3, <1>4, <2>1, NewRow
<1>10. LoginInv(h)'
  <2>1. req'[h].at = "join" /\ req'[h].user = u /\ req'[h].ws = i  BY <1>6, <1>8
  <2>2. users' = users  OBVIOUS
  <2> QED  BY <1>1, <1>9, <2>1, <2>2 DEF LoginInv
<1> QED  BY <1>5, <1>6, <1>7, <1>9, <1>10, LoginRowInv

LEMMA InsertWorkspaceStep ==
    ASSUME IInv, NEW h \in Handlers, NEW ok \in BOOLEAN, InsertWorkspace(h, ok)
    PROVE  IInv'
<1> DEFINE u == req[h].user
           taken == Bare(Login[u]) # {}
<1>0. TypeOK /\ HandlerInv(h)  BY DEF IInv
<1>1. boot = "serving" /\ req[h].at = "insert" /\ u \in Accounts /\ u \in users
  BY <1>0 DEF InsertWorkspace, At, HandlerInv, LoginInv
<1>2. Statement(ok) /\ UNCHANGED <<procVars, arrivals, crashes>>
      /\ UNCHANGED <<users, members, cookies, workflows>>
  BY DEF InsertWorkspace, Continue
<1>3. CASE ok /\ ~taken
  <2>1. ok = TRUE  BY <1>3
  <2>2. FreeIds # {} /\ NewWorkspace(u, TRUE)
    BY <1>3 DEF InsertWorkspace
  <2>3. req' = [req EXCEPT ![h] = [Goto(h, "join") EXCEPT !.ws = FreshId]]
    BY <1>3 DEF InsertWorkspace, Continue
  <2> QED  BY <1>1, <1>2, <1>3, <2>1, <2>2, <2>3, InsertedInv
<1>4. CASE ok /\ taken
  <2>1. workspaces' = workspaces  BY <1>4 DEF InsertWorkspace
  <2>2. UNCHANGED dbVars  BY <1>2, <2>1 DEF dbVars
  <2>3. req' = [req EXCEPT ![h] = IF ok THEN Goto(h, "suffix") ELSE Answer(h, "error")]
    BY <1>4 DEF InsertWorkspace, Continue, OnConflict
  <2>4. req'[h] = Goto(h, "suffix")  BY <1>0, <1>4, <2>3 DEF TypeOK
  <2>5. LoginInv(h)'  BY <1>0, <1>1, <1>2, <2>4, GotoLocals DEF LoginInv
  <2> QED  BY <1>1, <1>2, <2>2, <2>3, <2>5, Quiet, LoginStepInv
<1>5. CASE ~ok
  <2>1. workspaces' = workspaces  BY <1>5 DEF InsertWorkspace
  <2>2. UNCHANGED dbVars  BY <1>2, <2>1 DEF dbVars
  <2>3. req' = [req EXCEPT ![h] = IF ok THEN Idle ELSE Answer(h, "error")]
    BY <1>5 DEF InsertWorkspace, Continue
  <2> QED  BY <1>1, <1>2, <2>2, <2>3, Quiet, ReturnInv
<1> QED  BY <1>3, <1>4, <1>5

LEMMA InsertSuffixedStep ==
    ASSUME IInv, NEW h \in Handlers, NEW ok \in BOOLEAN, InsertSuffixed(h, ok)
    PROVE  IInv'
<1>1. boot = "serving" /\ req[h].at = "suffix"
  BY DEF InsertSuffixed, At
<1>2. Statement(ok) /\ UNCHANGED <<procVars, arrivals, crashes>>
      /\ UNCHANGED <<users, members, cookies, workflows>>
  BY DEF InsertSuffixed, Continue
<1>3. CASE ok
  <2>1. ok = TRUE  BY <1>3
  <2>2. FreeIds # {} /\ NewWorkspace(req[h].user, FALSE)
    BY <1>3 DEF InsertSuffixed
  <2>3. req' = [req EXCEPT ![h] = [Goto(h, "join") EXCEPT !.ws = FreshId]]
    BY <1>3 DEF InsertSuffixed, Continue
  <2> QED  BY <1>1, <1>2, <2>1, <2>2, <2>3, InsertedInv
<1>4. CASE ~ok
  <2>1. workspaces' = workspaces  BY <1>4 DEF InsertSuffixed
  <2>2. UNCHANGED dbVars  BY <1>2, <2>1 DEF dbVars
  <2>3. req' = [req EXCEPT ![h] = IF ok THEN Idle ELSE Answer(h, "error")]
    BY <1>4 DEF InsertSuffixed, Continue
  <2> QED  BY <1>1, <1>2, <2>2, <2>3, Quiet, ReturnInv
<1> QED  BY <1>3, <1>4

(* Member rows of creators and of the dev user leave everything in order.  *)
LEMMA NewMembers ==
    ASSUME IInv, members \subseteq members',
           members' \subseteq (Ids \ FreeIds) \X users,
           \A m \in members' \ members : m[2] \in {workspaces[m[1]].by, Dev},
           UNCHANGED <<users, workspaces, cookies, workflows>>
    PROVE  DbStep /\ Active' = Active
<1>0. TypeOK  BY DEF IInv
<1>1. FreeIds' = FreeIds /\ Existing' = Existing /\ Active' = Active
  BY DEF FreeIds, Existing, Active
<1>2. DbOK'  BY <1>0, <1>1 DEF TypeOK, DbOK, Bare
<1>3. RowsKept  BY DEF RowsKept, Existing
<1>4. WorkflowRows'  BY <1>1 DEF IInv, WorkflowRows
<1>5. CookieHasHome'  BY DEF IInv, CookieHasHome, Homes
<1>6. PersonalStaysPersonal'  BY <1>1 DEF IInv, PersonalStaysPersonal
<1> QED  BY <1>1, <1>2, <1>3, <1>4, <1>5, <1>6 DEF DbStep

LEMMA InsertMemberStep ==
    ASSUME IInv, NEW h \in Handlers, NEW ok \in BOOLEAN, InsertMember(h, ok)
    PROVE  IInv'
<1> DEFINE u == req[h].user
           i == req[h].ws
<1>0. TypeOK /\ HandlerInv(h)  BY DEF IInv
<1>1. /\ boot = "serving" /\ req[h].at = "join" /\ u \in users
      /\ i \in Ids \ FreeIds /\ workspaces[i].by = u
  BY <1>0 DEF InsertMember, At, HandlerInv, LoginInv
<1>2. Statement(ok) /\ UNCHANGED <<procVars, arrivals, crashes>>
      /\ UNCHANGED <<users, workspaces, cookies, workflows>>
  BY DEF InsertMember, Continue
<1>3. CASE ok
  <2>1. members' = members \cup {<<i, u>>}  BY <1>3 DEF InsertMember
  <2>2. DbStep /\ Active' = Active
    <3>1. members' \subseteq (Ids \ FreeIds) \X users
      BY <1>0, <1>1, <2>1 DEF TypeOK
    <3>2. \A m \in members' \ members : m[2] \in {workspaces[m[1]].by, Dev}
      BY <1>1, <2>1
    <3> QED  BY <1>2, <2>1, <3>1, <3>2, NewMembers
  <2>3. req' = [req EXCEPT ![h] = IF ok THEN Goto(h, "mint") ELSE Answer(h, "error")]
    BY DEF InsertMember, Continue
  <2>4. req'[h] = Goto(h, "mint")  BY <1>0, <1>3, <2>3 DEF TypeOK
  <2>5. req'[h].at = "mint" /\ req'[h].user = u  BY <1>0, <2>4, GotoLocals
  <2>6. i \in Ids /\ <<i, u>> \in members'  BY <1>1, <2>1
  <2>7. LoginInv(h)'
    <3>1. Homes(req[h].user)' # {}  BY <2>5, <2>6 DEF Homes
    <3> QED  BY <1>1, <1>2, <2>5, <3>1 DEF LoginInv
  <2> QED  BY <1>1, <1>2, <2>2, <2>3, <2>7, LoginStepInv
<1>4. CASE ~ok
  <2>1. UNCHANGED dbVars  BY <1>2, <1>4 DEF InsertMember, dbVars
  <2>2. req' = [req EXCEPT ![h] = IF ok THEN Idle ELSE Answer(h, "error")]
    BY <1>4 DEF InsertMember, Continue
  <2> QED  BY <1>1, <1>2, <2>1, <2>2, Quiet, ReturnInv
<1> QED  BY <1>3, <1>4

(* A cookie for somebody with a home, or one that ends.                    *)
LEMMA NewCookies ==
    ASSUME IInv, cookies' \subseteq users,
           \A u \in cookies' : Homes(u) # {},
           UNCHANGED <<users, workspaces, members, workflows>>
    PROVE  DbStep /\ Active' = Active
<1>0. TypeOK  BY DEF IInv
<1>1. FreeIds' = FreeIds /\ Existing' = Existing /\ Active' = Active
  BY DEF FreeIds, Existing, Active
<1>2. DbOK'  BY <1>0, <1>1 DEF TypeOK, DbOK, Bare
<1>3. RowsKept  BY DEF RowsKept, Existing
<1>4. WorkflowRows'  BY <1>1 DEF IInv, WorkflowRows
<1>5. CookieHasHome'  BY DEF CookieHasHome, Homes
<1>6. PersonalStaysPersonal'  BY <1>1 DEF IInv, PersonalStaysPersonal
<1> QED  BY <1>1, <1>2, <1>3, <1>4, <1>5, <1>6 DEF DbStep

LEMMA MintCookieStep ==
    ASSUME IInv, NEW h \in Handlers, NEW ok \in BOOLEAN, MintCookie(h, ok)
    PROVE  IInv'
<1>0. TypeOK /\ HandlerInv(h)  BY DEF IInv
<1>1. /\ boot = "serving" /\ req[h].at = "mint"
      /\ req[h].user \in users /\ Homes(req[h].user) # {}
  BY <1>0 DEF MintCookie, At, HandlerInv, LoginInv
<1>2. /\ Statement(ok) /\ UNCHANGED <<procVars, arrivals, crashes>>
      /\ UNCHANGED <<users, workspaces, members, workflows>>
      /\ req' = [req EXCEPT ![h] = IF ok THEN Idle ELSE Answer(h, "error")]
      /\ cookies' \subseteq cookies \cup {req[h].user}
  BY DEF MintCookie, Continue
<1>3. cookies' \subseteq users  BY <1>0, <1>1, <1>2 DEF TypeOK
<1>4. \A u \in cookies' : Homes(u) # {}  BY <1>1, <1>2 DEF IInv, CookieHasHome
<1>5. DbStep /\ Active' = Active  BY <1>2, <1>3, <1>4, NewCookies
<1> QED  BY <1>1, <1>2, <1>5, ReturnInv

LEMMA CookieEndsStep ==
    ASSUME IInv, NEW u \in People, CookieEnds(u)
    PROVE  IInv'
<1>0. TypeOK  BY DEF IInv
<1>1. /\ cookies' = cookies \ {u}
      /\ UNCHANGED <<users, workspaces, members, workflows, procVars, req,
                      arrivals, faults, crashes>>
  BY DEF CookieEnds
<1>2. DbStep /\ Active' = Active
  <2>1. cookies' \subseteq users  BY <1>0, <1>1 DEF TypeOK
  <2>2. \A v \in cookies' : Homes(v) # {}  BY <1>1 DEF IInv, CookieHasHome
  <2> QED  BY <1>1, <2>1, <2>2, NewCookies
<1>3. TypeOK'  BY <1>0, <1>1, <1>2 DEF TypeOK, DbStep, DbOK, procVars
<1>4. \A k \in Handlers : HandlerInv(k)'
  BY <1>0, <1>1, <1>2, Numbers, Bystander
<1>5. ErrorsAreFaults'  BY <1>1 DEF IInv, ErrorsAreFaults
<1>6. BootInv'  BY <1>1 DEF IInv, BootInv, procVars, Homes, Bare
<1> QED  BY <1>2, <1>3, <1>4, <1>5, <1>6 DEF IInv, DbStep

-----------------------------------------------------------------------------
(* Workflow requests.                                                      *)

(* A workflow request that goes on: it has fired nothing yet.              *)
LEMMA RequestGoesInv ==
    ASSUME IInv, NEW h \in Handlers, NEW ok \in BOOLEAN, Statement(ok),
           boot = "serving", UNCHANGED <<dbVars, procVars, arrivals, crashes>>,
           req[h].at \notin {"loop", "answered"},
           NEW r \in Request, r.at \in {"access", "act"},
           r.matched = req[h].matched, r.todo = req[h].todo,
           req' = [req EXCEPT ![h] = IF ok THEN r ELSE Answer(h, "error")],
           ok => WorkflowInv(h)' /\ SeenInv(h)'
    PROVE  IInv'
<1>0. TypeOK /\ HandlerInv(h)  BY DEF IInv
<1>1. req' \in [Handlers -> Request] /\ \A k \in Handlers \ {h} : req'[k] = req[k]
  BY <1>0, Types DEF TypeOK
<1>2. arrivals' \in 0..MaxArrivals  BY <1>0 DEF TypeOK
<1>3. DbStep /\ Active' = Active  BY Quiet
<1>4. CASE ok
  <2>1. req'[h] = r  BY <1>0, <1>4 DEF TypeOK
  <2>2. faults' \in Nat  BY <1>0, Faults, Numbers
  <2>3. r.matched = {} /\ r.todo = {}  BY <1>0 DEF HandlerInv, LostInv
  <2>4. LostInv(h)'  BY <2>1, <2>2, <2>3, NothingLost
  <2>5. LoginInv(h)'  BY <2>1 DEF LoginInv
  <2>6. HandlerInv(h)'  BY <1>4, <2>4, <2>5 DEF HandlerInv
  <2>7. req'[h].at # "error"  BY <2>1
  <2> QED  BY <1>1, <1>2, <1>3, <2>6, <2>7, StepInv
<1>5. CASE ~ok
  <2>1. req'[h] = Answer(h, "error")  BY <1>0, <1>5 DEF TypeOK
  <2> QED  BY <1>1, <1>2, <1>3, <1>5, <2>1, StepInv
<1> QED  BY <1>4, <1>5

LEMMA LoadWorkflowStep ==
    ASSUME IInv, NEW h \in Handlers, NEW ok \in BOOLEAN, LoadWorkflow(h, ok)
    PROVE  IInv'
<1>0. TypeOK /\ HandlerInv(h)  BY DEF IInv
<1>1. boot = "serving" /\ req[h].at = "load"  BY DEF LoadWorkflow, At
<1>2. Statement(ok) /\ UNCHANGED <<dbVars, procVars, arrivals, crashes>>
  BY DEF LoadWorkflow, Continue
<1>3. PICK row : row = workflows[req[h].wf]  OBVIOUS
<1>4. PICK r : r = [Goto(h, "access") EXCEPT !.row = row, !.ws = row.ws]  OBVIOUS
<1>5. req' = [req EXCEPT ![h] = IF ok THEN r ELSE Answer(h, "error")]
  BY <1>3, <1>4 DEF LoadWorkflow, Continue
<1>6. Goto(h, "access") \in Request  BY <1>0, Types
<1>7. /\ r.at = "access" /\ r.row = row /\ r.ws = row.ws
      /\ r.op = req[h].op /\ r.user = req[h].user /\ r.wf = req[h].wf
      /\ r.trigger = req[h].trigger /\ r.matched = req[h].matched
      /\ r.todo = req[h].todo /\ r.fired = req[h].fired /\ r.seen = req[h].seen
  BY <1>0, <1>4, <1>6, GotoLocals DEF Request
<1>8. /\ req[h].op \in {"create", "activate", "deactivate", "fire"}
      /\ req[h].user \in People
      /\ req[h].op # "create" => req[h].wf \in Existing
      /\ req[h].op = "fire" => Active \subseteq req[h].seen
      /\ req[h].todo \cup req[h].fired \subseteq req[h].seen
  BY <1>0, <1>1 DEF HandlerInv, WorkflowInv, SeenInv
<1>9. req[h].op # "create"
  BY <1>0, <1>1 DEF HandlerInv, WorkflowInv
<1>10. row \in Workflow /\ row.ws \in Ids \ FreeIds /\ req[h].wf \in Wfs
  BY <1>0, <1>3, <1>8, <1>9 DEF Existing, TypeOK, IInv, WorkflowRows
<1>11. r \in Request
  BY <1>4, <1>6, <1>10 DEF Request, Workflow
<1>12. ASSUME ok PROVE WorkflowInv(h)' /\ SeenInv(h)'
  <2>1. req'[h] = r  BY <1>0, <1>5, <1>12 DEF TypeOK
  <2>2. FreeIds' = FreeIds /\ Existing' = Existing
    BY <1>2 DEF dbVars, FreeIds, Existing
  <2>3. WorkflowInv(h)'
    BY <1>7, <1>8, <1>9, <1>10, <2>1, <2>2 DEF WorkflowInv
  <2>4. row.active => req[h].wf \in Active
    BY <1>3, <1>8, <1>9 DEF Active
  <2>5. SeenInv(h)'
    BY <1>7, <1>8, <2>1, <2>4 DEF SeenInv
  <2> QED  BY <2>3, <2>5
<1> QED  BY <1>1, <1>2, <1>5, <1>7, <1>11, <1>12, RequestGoesInv

LEMMA CheckAccessStep ==
    ASSUME IInv, NEW h \in Handlers, NEW ok \in BOOLEAN, CheckAccess(h, ok)
    PROVE  IInv'
<1>0. TypeOK /\ HandlerInv(h)  BY DEF IInv
<1>1. boot = "serving" /\ req[h].at = "access"  BY DEF CheckAccess, At
<1>2. Statement(ok) /\ UNCHANGED <<dbVars, procVars, arrivals, crashes>>
  BY DEF CheckAccess, Continue
<1>3. CASE MayAct(req[h].user, req[h].ws)
  <2>1. PICK r : r = Goto(h, "act")  OBVIOUS
  <2>2. req' = [req EXCEPT ![h] = IF ok THEN r ELSE Answer(h, "error")]
    BY <1>3, <2>1 DEF CheckAccess, Continue
  <2>3. r \in Request  BY <1>0, <2>1, Types
  <2>4. /\ r.at = "act" /\ r.op = req[h].op /\ r.user = req[h].user
        /\ r.ws = req[h].ws /\ r.wf = req[h].wf /\ r.row = req[h].row
        /\ r.trigger = req[h].trigger /\ r.matched = req[h].matched
        /\ r.todo = req[h].todo /\ r.fired = req[h].fired /\ r.seen = req[h].seen
    BY <1>0, <2>1, GotoLocals
  <2>5. ASSUME ok PROVE WorkflowInv(h)' /\ SeenInv(h)'
    <3>1. req'[h] = r  BY <1>0, <2>2, <2>5 DEF TypeOK
    <3>2. FreeIds' = FreeIds /\ Existing' = Existing /\ members' = members
      BY <1>2 DEF dbVars, FreeIds, Existing
    <3>3. <<req[h].ws, req[h].user>> \in members  BY <1>3 DEF MayAct
    <3>4. WorkflowInv(h)'
      BY <1>0, <1>1, <2>4, <3>1, <3>2, <3>3 DEF HandlerInv, WorkflowInv
    <3>5. SeenInv(h)'
      BY <1>0, <1>1, <2>4, <3>1 DEF HandlerInv, SeenInv
    <3> QED  BY <3>4, <3>5
  <2> QED  BY <1>1, <1>2, <2>2, <2>3, <2>4, <2>5, RequestGoesInv
<1>4. CASE ~MayAct(req[h].user, req[h].ws)
  <2>1. req' = [req EXCEPT ![h] = IF ok THEN Idle ELSE Answer(h, "error")]
    BY <1>4 DEF CheckAccess, Continue
  <2> QED  BY <1>1, <1>2, <2>1, Quiet, ReturnInv
<1> QED  BY <1>3, <1>4

(* A workflow row of a workspace, written by somebody the workspace admits. *)
LEMMA NewWorkflow ==
    ASSUME IInv, NEW w \in Wfs, NEW row \in Workflow,
           row.ws \in Ids \ FreeIds, row.by \in {workspaces[row.ws].by, Dev},
           workflows' = [workflows EXCEPT ![w] = row],
           UNCHANGED <<users, workspaces, members, cookies>>
    PROVE  /\ DbStep /\ Active' \subseteq Active \cup {w}
           /\ ~row.active => Active' \subseteq Active
<1>0. TypeOK  BY DEF IInv
<1>1. row # NoRow  BY NoRowAssumption
<1>2. workflows'[w] = row /\ \A v \in Wfs \ {w} : workflows'[v] = workflows[v]
  BY <1>0 DEF TypeOK
<1>3. FreeIds' = FreeIds  BY DEF FreeIds
<1>4. DbOK'
  <2>1. workflows' \in [Wfs -> Workflow \cup {NoRow}]  BY <1>0 DEF TypeOK
  <2> QED  BY <1>0, <1>3, <2>1 DEF TypeOK, DbOK, Bare
<1>5. RowsKept  BY <1>1, <1>2 DEF RowsKept, Existing
<1>6. WorkflowRows'  BY <1>2, <1>3 DEF IInv, WorkflowRows, Existing
<1>7. CookieHasHome'  BY DEF IInv, CookieHasHome, Homes
<1>8. PersonalStaysPersonal'
  BY <1>2 DEF IInv, PersonalStaysPersonal, Existing
<1>9. Active' \subseteq Active \cup {w} /\ (~row.active => Active' \subseteq Active)
  BY <1>1, <1>2 DEF Active, Existing
<1> QED  BY <1>4, <1>5, <1>6, <1>7, <1>8, <1>9 DEF DbStep

LEMMA CreateWorkflowStep ==
    ASSUME IInv, NEW h \in Handlers, NEW ok \in BOOLEAN, CreateWorkflow(h, ok)
    PROVE  IInv'
<1>0. TypeOK /\ HandlerInv(h)  BY DEF IInv
<1>1. boot = "serving" /\ req[h].at = "act" /\ req[h].op = "create"
  BY DEF CreateWorkflow, Acts, At
<1>2. /\ Statement(ok) /\ UNCHANGED <<procVars, arrivals, crashes>>
      /\ UNCHANGED <<users, workspaces, members, cookies>>
      /\ req' = [req EXCEPT ![h] = IF ok THEN Idle ELSE Answer(h, "error")]
  BY DEF CreateWorkflow, Continue
<1>3. DbStep /\ Active' \subseteq Active
  <2>1. CASE ~ok
    <3>1. UNCHANGED dbVars  BY <1>2, <2>1 DEF CreateWorkflow, dbVars
    <3> QED  BY <3>1, Quiet
  <2>2. CASE ok
    <3>1. PICK row : row = [ws |-> req[h].ws, trigger |-> req[h].trigger,
                            active |-> FALSE, by |-> req[h].user]
      OBVIOUS
    <3>2. PICK w \in Wfs : workflows' = [workflows EXCEPT ![w] = row]
      BY <2>2, <3>1 DEF CreateWorkflow, Existing
    <3>3. /\ req[h].ws \in Ids \ FreeIds /\ req[h].user \in People
          /\ req[h].trigger \in Triggers
          /\ <<req[h].ws, req[h].user>> \in members
      BY <1>0, <1>1 DEF HandlerInv, WorkflowInv
    <3>4. row \in Workflow  BY <3>1, <3>3 DEF Workflow
    <3>5. req[h].user \in {workspaces[req[h].ws].by, Dev}
      BY <3>3 DEF IInv, PersonalStaysPersonal
    <3>6. /\ row.ws \in Ids \ FreeIds /\ row.by \in {workspaces[row.ws].by, Dev}
          /\ ~row.active
      BY <3>1, <3>3, <3>5
    <3> QED  BY <1>2, <3>2, <3>4, <3>6, NewWorkflow
  <2> QED  BY <2>1, <2>2
<1> QED  BY <1>1, <1>2, <1>3, ReturnInv

(* What changes when the active flag of a workflow is written.             *)
LEMMA SetActive ==
    ASSUME IInv, NEW w \in Existing, NEW on \in BOOLEAN,
           workflows' = [workflows EXCEPT ![w].active = on],
           UNCHANGED <<users, workspaces, members, cookies>>
    PROVE  /\ DbStep /\ Active' \subseteq Active \cup {w}
           /\ ~on => Active' \subseteq Active
<1>0. TypeOK  BY DEF IInv
<1>1. w \in Wfs /\ workflows[w] \in Workflow  BY <1>0 DEF TypeOK, Existing
<1>2. PICK row : row = [workflows[w] EXCEPT !.active = on]  OBVIOUS
<1>3. /\ row \in Workflow /\ row.active = on
      /\ row.ws = workflows[w].ws /\ row.by = workflows[w].by
  BY <1>1, <1>2 DEF Workflow
<1>4. workflows' = [workflows EXCEPT ![w] = row]  BY <1>0, <1>1, <1>2 DEF TypeOK
<1>5. row.ws \in Ids \ FreeIds /\ row.by \in {workspaces[row.ws].by, Dev}
  BY <1>3 DEF IInv, WorkflowRows, PersonalStaysPersonal
<1> QED  BY <1>1, <1>3, <1>4, <1>5, NewWorkflow

(* An activation is added to the history of everybody who may fire.        *)
LEMMA NoticedInv ==
    ASSUME IInv, NEW w \in Wfs, DbStep, Active' \subseteq Active \cup {w},
           faults' = faults, NEW k \in Handlers, req'[k] = Noticed(w)[k]
    PROVE  HandlerInv(k)' /\ req'[k] \in Request /\ req'[k].at = req[k].at
<1>0. TypeOK /\ HandlerInv(k) /\ req[k] \in Request  BY DEF IInv, TypeOK
<1>1. faults' \in Nat  BY <1>0, Numbers
<1>2. /\ req'[k] \in Request
      /\ req'[k].at = req[k].at /\ req'[k].op = req[k].op
      /\ req'[k].user = req[k].user /\ req'[k].ws = req[k].ws
      /\ req'[k].wf = req[k].wf /\ req'[k].row = req[k].row
      /\ req'[k].trigger = req[k].trigger /\ req'[k].matched = req[k].matched
      /\ req'[k].todo = req[k].todo /\ req'[k].fired = req[k].fired
      /\ req[k].seen \subseteq req'[k].seen
      /\ req[k].op \in {"fire", "issue"} => req'[k].seen = req[k].seen \cup {w}
  <2>1. CASE req[k].op \in {"fire", "issue"}
    <3>1. req'[k] = [req[k] EXCEPT !.seen = @ \cup {w}]  BY <2>1 DEF Noticed
    <3> QED  BY <1>0, <3>1 DEF Request
  <2>2. CASE req[k].op \notin {"fire", "issue"}
    <3>1. req'[k] = req[k]  BY <2>2 DEF Noticed
    <3> QED  BY <1>0, <2>2, <3>1
  <2> QED  BY <2>1, <2>2
<1>3. LoginInv(k)'
  BY <1>0, <1>2 DEF HandlerInv, LoginInv, DbStep, RowsKept, FreeIds, Homes
<1>4. WorkflowInv(k)'
  BY <1>0, <1>2 DEF HandlerInv, WorkflowInv, DbStep, RowsKept, FreeIds, Existing
<1>5. SeenInv(k)'
  BY <1>0, <1>2 DEF HandlerInv, SeenInv
<1>6. LostInv(k)'
  BY <1>0, <1>2 DEF HandlerInv, LostInv
<1> QED  BY <1>2, <1>3, <1>4, <1>5, <1>6 DEF HandlerInv

LEMMA PatchWorkflowStep ==
    ASSUME IInv, NEW h \in Handlers, NEW ok \in BOOLEAN, PatchWorkflow(h, ok)
    PROVE  IInv'
<1>0. TypeOK /\ HandlerInv(h)  BY DEF IInv
<1>1. /\ boot = "serving" /\ req[h].at = "act"
      /\ req[h].op \in {"activate", "deactivate"}
  BY DEF PatchWorkflow, Acts, At
<1>2. PICK w : w = req[h].wf  OBVIOUS
<1>3. w \in Existing /\ w \in Wfs
  BY <1>0, <1>1, <1>2 DEF HandlerInv, WorkflowInv, Existing
<1>4. /\ Statement(ok) /\ UNCHANGED <<procVars, arrivals, crashes>>
      /\ UNCHANGED <<users, workspaces, members, cookies>>
  BY DEF PatchWorkflow
<1>5. CASE ~ok
  <2>1. UNCHANGED dbVars  BY <1>4, <1>5 DEF PatchWorkflow, dbVars
  <2>2. req' = [req EXCEPT ![h] = IF ok THEN Idle ELSE Answer(h, "error")]
    BY <1>5 DEF PatchWorkflow
  <2> QED  BY <1>1, <1>4, <2>1, <2>2, Quiet, ReturnInv
<1>6. CASE ok /\ req[h].op = "deactivate"
  <2>1. workflows' = [workflows EXCEPT ![w].active = FALSE]
    BY <1>2, <1>6 DEF PatchWorkflow
  <2>2. req' = [req EXCEPT ![h] = IF ok THEN Idle ELSE Answer(h, "error")]
    BY <1>6 DEF PatchWorkflow
  <2>3. DbStep /\ Active' \subseteq Active
    BY <1>3, <1>4, <2>1, SetActive
  <2> QED  BY <1>1, <1>4, <2>2, <2>3, ReturnInv
<1>7. CASE ok /\ req[h].op = "activate"
  <2>1. workflows' = [workflows EXCEPT ![w].active = TRUE]
    BY <1>2, <1>7 DEF PatchWorkflow
  <2>2. req' = [Noticed(w) EXCEPT ![h] = Idle]
    BY <1>2, <1>7 DEF PatchWorkflow
  <2>3. DbStep /\ Active' \subseteq Active \cup {w}
    BY <1>3, <1>4, <2>1, SetActive
  <2>4. faults' = faults  BY <1>4, <1>7 DEF Statement
  <2>5. /\ req'[h] = Idle
        /\ \A k \in Handlers \ {h} : req'[k] = Noticed(w)[k]
        /\ req' = [k \in Handlers |-> req'[k]]
    BY <2>2 DEF Noticed
  <2>6. \A k \in Handlers \ {h} :
          HandlerInv(k)' /\ req'[k] \in Request /\ req'[k].at = req[k].at
    BY <1>3, <2>3, <2>4, <2>5, NoticedInv
  <2>7. HandlerInv(h)'  BY <1>0, <2>4, <2>5, IdleInv, Numbers
  <2>8. req' \in [Handlers -> Request]  BY <1>0, <2>5, <2>6, Types
  <2>9. TypeOK'
    BY <1>0, <1>4, <2>3, <2>4, <2>8 DEF TypeOK, DbStep, DbOK, procVars
  <2>10. ErrorsAreFaults'
    BY <2>4, <2>5, <2>6 DEF IInv, ErrorsAreFaults, Idle
  <2>11. BootInv'
    BY <1>1, <1>4 DEF IInv, BootInv, procVars, Homes
  <2> QED  BY <2>3, <2>6, <2>7, <2>9, <2>10, <2>11 DEF IInv, DbStep
<1> QED  BY <1>1, <1>5, <1>6, <1>7

(* An answer keeps what was matched, fired and seen. *)
LEMMA AnswerFields ==
    ASSUME NEW h \in Handlers, NEW at
    PROVE  LET r == Answer(h, at) IN
           /\ r.at = at /\ r.todo = {} /\ r.matched = req[h].matched
           /\ r.fired = req[h].fired /\ r.seen = req[h].seen
BY DEF Answer, Idle

LEMMA FireWorkflowStep ==
    ASSUME IInv, NEW h \in Handlers, NEW ok \in BOOLEAN, FireWorkflow(h, ok)
    PROVE  IInv'
<1>0. TypeOK /\ HandlerInv(h)  BY DEF IInv
<1>1. boot = "serving" /\ req[h].at = "act" /\ req[h].op = "fire"
  BY DEF FireWorkflow, Acts, At
<1>2. Statement(ok) /\ UNCHANGED <<dbVars, procVars, arrivals, crashes>>
  BY DEF FireWorkflow, Continue
<1>3. DbStep /\ Active' = Active  BY <1>2, Quiet
<1>4. CASE ~ok \/ ~Fireable(req[h].row)
  <2>1. req' = [req EXCEPT ![h] = IF ok THEN Idle ELSE Answer(h, "error")]
    BY <1>4 DEF FireWorkflow, Continue
  <2> QED  BY <1>1, <1>2, <1>3, <2>1, ReturnInv
<1>5. CASE ok /\ Fireable(req[h].row)
  <2>1. PICK r : r = [Answer(h, "answered") EXCEPT !.fired = {req[h].wf}]  OBVIOUS
  <2>2. req' = [req EXCEPT ![h] = r]
    BY <1>5, <2>1 DEF FireWorkflow, Continue
  <2>3. Answer(h, "answered") \in Request  BY <1>0, Types
  <2>4. /\ req[h].wf \in req[h].seen /\ req[h].wf \in Wfs
        /\ req[h].matched = {}
    BY <1>0, <1>1, <1>5
    DEF HandlerInv, WorkflowInv, SeenInv, LostInv, Existing, Fireable
  <2>5. r \in Request  BY <2>1, <2>3, <2>4 DEF Request
  <2>6. /\ r.at = "answered" /\ r.todo = {} /\ r.matched = {}
        /\ r.fired = {req[h].wf} /\ r.seen = req[h].seen
    BY <2>1, <2>3, <2>4, AnswerFields DEF Request
  <2>7. req'[h] = r /\ req' \in [Handlers -> Request]
        /\ \A k \in Handlers \ {h} : req'[k] = req[k]
    BY <1>0, <2>2, <2>5 DEF TypeOK
  <2>8. faults' \in Nat  BY <1>0, <1>2, Faults, Numbers
  <2>9. LostInv(h)'  BY <2>6, <2>7, <2>8, NothingLost
  <2>10. LoginInv(h)' /\ WorkflowInv(h)' /\ SeenInv(h)'
    BY <2>4, <2>6, <2>7 DEF LoginInv, WorkflowInv, SeenInv
  <2>11. HandlerInv(h)' /\ req'[h].at # "error"
    BY <2>6, <2>7, <2>9, <2>10 DEF HandlerInv
  <2>12. arrivals' \in 0..MaxArrivals  BY <1>0, <1>2 DEF TypeOK
  <2> QED  BY <1>1, <1>2, <1>3, <2>7, <2>11, <2>12, StepInv
<1> QED  BY <1>4, <1>5

-----------------------------------------------------------------------------
(* issues.labeled.                                                         *)

(* A delivery that goes on, whether or not its statement failed.           *)
LEMMA DeliveryInv ==
    ASSUME IInv, NEW h \in Handlers, NEW ok \in BOOLEAN, Statement(ok),
           boot = "serving", UNCHANGED <<dbVars, procVars, arrivals, crashes>>,
           NEW r \in Request, r.at \in {"loop", "answered"},
           r.at = "loop" => r.op = "issue",
           r.at = "answered" => r.todo = {},
           r.todo \cup r.fired \subseteq r.seen,
           Cardinality(r.matched \ (r.fired \cup r.todo)) <= faults',
           req' = [req EXCEPT ![h] = r]
    PROVE  IInv'
<1>0. TypeOK  BY DEF IInv
<1>1. req'[h] = r /\ req' \in [Handlers -> Request]
      /\ \A k \in Handlers \ {h} : req'[k] = req[k]
  BY <1>0 DEF TypeOK
<1>2. HandlerInv(h)' /\ req'[h].at # "error"
  BY <1>1 DEF HandlerInv, LoginInv, WorkflowInv, SeenInv, LostInv
<1>3. arrivals' \in 0..MaxArrivals  BY <1>0 DEF TypeOK
<1> QED  BY <1>1, <1>2, <1>3, Quiet, StepInv

LEMMA ScanStep ==
    ASSUME IInv, NEW h \in Handlers, NEW ok \in BOOLEAN, Scan(h, ok)
    PROVE  IInv'
<1>0. TypeOK /\ HandlerInv(h)  BY DEF IInv
<1>1. /\ boot = "serving" /\ req[h].at = "scan" /\ Statement(ok)
      /\ UNCHANGED <<dbVars, procVars, arrivals, crashes>>
  BY DEF Scan, At
<1>2. PICK found : found = IF ok THEN Matching(req[h].trigger) ELSE {}  OBVIOUS
<1>3. PICK r : r = [Goto(h, "loop") EXCEPT !.matched = found, !.todo = found]  OBVIOUS
<1>4. req' = [req EXCEPT ![h] = r]  BY <1>2, <1>3 DEF Scan
<1>5. /\ req[h].op = "issue" /\ Active \subseteq req[h].seen
      /\ req[h].fired \subseteq req[h].seen
  BY <1>0, <1>1 DEF HandlerInv, SeenInv
<1>6. found \subseteq Active /\ found \subseteq Wfs
  BY <1>2 DEF Matching, Active, Existing
<1>7. Goto(h, "loop") \in Request  BY <1>0, Types
<1>8. r \in Request  BY <1>3, <1>6, <1>7 DEF Request
<1>9. /\ r.at = "loop" /\ r.op = req[h].op /\ r.matched = found /\ r.todo = found
      /\ r.fired = req[h].fired /\ r.seen = req[h].seen
  BY <1>0, <1>3, <1>7, GotoLocals DEF Request
<1>10. Cardinality(r.matched \ (r.fired \cup r.todo)) <= faults'
  <2>1. r.matched \ (r.fired \cup r.todo) = {}  BY <1>9
  <2>2. faults' \in Nat  BY <1>0, <1>1, Faults, Numbers
  <2> QED  BY <2>1, <2>2, FS_EmptySet
<1> QED  BY <1>1, <1>4, <1>5, <1>6, <1>8, <1>9, <1>10, DeliveryInv

LEMMA FireMatchStep ==
    ASSUME IInv, NEW h \in Handlers, NEW ok \in BOOLEAN, FireMatch(h, ok)
    PROVE  IInv'
<1>0. TypeOK /\ HandlerInv(h) /\ req[h] \in Request  BY DEF IInv, TypeOK
<1>1. PICK w \in req[h].todo :
        /\ At(h, "loop") /\ Statement(ok)
        /\ req' = [req EXCEPT ![h].todo = Remaining(@, w, ok),
                              ![h].fired = IF ok THEN @ \cup {w} ELSE @]
        /\ UNCHANGED <<dbVars, procVars, arrivals, crashes>>
  BY DEF FireMatch
<1>2. boot = "serving" /\ req[h].at = "loop"  BY <1>1 DEF At
<1>3. PICK r : r = [req[h] EXCEPT !.todo = req[h].todo \ {w},
                                  !.fired = IF ok THEN @ \cup {w} ELSE @]
  OBVIOUS
<1>4. req' = [req EXCEPT ![h] = r]
  BY <1>0, <1>1, <1>3 DEF Remaining, TypeOK
<1>5. w \in Wfs  BY <1>0 DEF Request
<1>6. /\ r \in Request
      /\ r.at = "loop" /\ r.op = req[h].op /\ r.matched = req[h].matched
      /\ r.seen = req[h].seen /\ r.todo = req[h].todo \ {w}
      /\ r.fired = IF ok THEN req[h].fired \cup {w} ELSE req[h].fired
  <2>1. req[h].fired \cup {w} \subseteq Wfs  BY <1>0, <1>5 DEF Request
  <2> QED  BY <1>0, <1>2, <1>3, <2>1 DEF Request
<1>7. req[h].op = "issue" /\ req[h].todo \cup req[h].fired \subseteq req[h].seen
  BY <1>0, <1>2 DEF HandlerInv, SeenInv
<1>8. r.todo \cup r.fired \subseteq r.seen  BY <1>6, <1>7
<1> DEFINE lost == req[h].matched \ (req[h].fired \cup req[h].todo)
           next == r.matched \ (r.fired \cup r.todo)
<1>9. lost \subseteq Wfs /\ IsFiniteSet(lost) /\ Cardinality(lost) \in Nat
      /\ Cardinality(lost) <= faults
  <2>1. lost \subseteq Wfs  BY <1>0 DEF Request
  <2>2. IsFiniteSet(lost)  BY <2>1, AccountsAssumption, FS_Subset
  <2>3. Cardinality(lost) <= faults  BY <1>0 DEF HandlerInv, LostInv
  <2> QED  BY <2>1, <2>2, <2>3, FS_CardinalityType
<1>10. Cardinality(next) <= faults'
  <2>1. CASE ok
    <3>1. next = lost  BY <1>6, <2>1
    <3>2. faults' = faults  BY <1>1, <2>1 DEF Statement
    <3> QED  BY <1>9, <3>1, <3>2
  <2>2. CASE ~ok
    <3>1. next \subseteq lost \cup {w}  BY <1>6, <2>2
    <3>2. IsFiniteSet(lost \cup {w})
          /\ Cardinality(lost \cup {w}) <= Cardinality(lost) + 1
          /\ Cardinality(lost \cup {w}) \in Nat
      <4> HIDE DEF lost
      <4>1. IsFiniteSet(lost \cup {w})
            /\ Cardinality(lost \cup {w}) =
                  IF w \in lost THEN Cardinality(lost) ELSE Cardinality(lost) + 1
        BY <1>9, FS_AddElement
      <4> QED  BY <1>9, <4>1
    <3>3. Cardinality(next) <= Cardinality(lost \cup {w}) /\ Cardinality(next) \in Nat
      <4> HIDE DEF lost, next
      <4> QED  BY <3>1, <3>2, FS_Subset, FS_CardinalityType
    <3>4. faults' = faults + 1  BY <1>1, <2>2 DEF Statement
    <3>5. faults \in Nat  BY <1>0, Numbers
    <3> HIDE DEF lost, next
    <3> QED  BY <1>9, <3>2, <3>3, <3>4, <3>5
  <2> QED  BY <2>1, <2>2
<1> QED  BY <1>1, <1>2, <1>4, <1>6, <1>7, <1>8, <1>10, DeliveryInv

LEMMA AcceptedStep ==
    ASSUME IInv, NEW h \in Handlers, Accepted(h)
    PROVE  IInv'
<1>0. TypeOK /\ HandlerInv(h)  BY DEF IInv
<1>1. /\ boot = "serving" /\ req[h].at = "loop" /\ req[h].todo = {}
      /\ UNCHANGED <<dbVars, procVars, arrivals, faults, crashes>>
  BY DEF Accepted, At
<1>2. PICK r : r = Answer(h, "answered")  OBVIOUS
<1>3. req' = [req EXCEPT ![h] = r] /\ r \in Request
  BY <1>0, <1>2, Types DEF Accepted
<1>4. /\ r.at = "answered" /\ r.todo = {} /\ r.matched = req[h].matched
      /\ r.fired = req[h].fired /\ r.seen = req[h].seen
  BY <1>2, AnswerFields
<1>5. Statement(TRUE)  BY <1>1 DEF Statement
<1>6. r.todo \cup r.fired \subseteq r.seen
  BY <1>0, <1>4 DEF HandlerInv, SeenInv
<1>7. Cardinality(r.matched \ (r.fired \cup r.todo)) <= faults'
  BY <1>0, <1>1, <1>4 DEF HandlerInv, LostInv
<1> QED  BY <1>1, <1>3, <1>4, <1>5, <1>6, <1>7, DeliveryInv

-----------------------------------------------------------------------------
(* The end of a handler, the end of the process, and the dev seed.         *)

LEMMA EndsStep ==
    ASSUME IInv, NEW h \in Handlers, Ends(h)
    PROVE  IInv'
<1>0. TypeOK /\ HandlerInv(h)  BY DEF IInv
<1>1. /\ req[h].at # "idle" /\ req' = [req EXCEPT ![h] = Idle]
      /\ UNCHANGED <<dbVars, procVars, arrivals, faults, crashes>>
  BY DEF Ends
<1>2. boot = "serving"  BY <1>1 DEF IInv, BootInv, Idle
<1>3. req'[h] = Idle /\ req' \in [Handlers -> Request]
      /\ \A k \in Handlers \ {h} : req'[k] = req[k]
  BY <1>0, <1>1, Types DEF TypeOK
<1>4. HandlerInv(h)'  BY <1>0, <1>1, <1>3, Numbers, IdleInv
<1>5. Statement(TRUE) /\ arrivals' \in 0..MaxArrivals
  BY <1>0, <1>1 DEF Statement, TypeOK
<1>6. req'[h].at # "error"  BY <1>3 DEF Idle
<1> QED  BY <1>1, <1>2, <1>3, <1>4, <1>5, <1>6, Quiet, StepInv

LEMMA CrashStep ==
    ASSUME IInv, NEW on \in BOOLEAN, Crash(on)
    PROVE  IInv'
<1>0. TypeOK  BY DEF IInv
<1>1. /\ crashes < MaxCrashes /\ crashes' = crashes + 1
      /\ devLogin' = on /\ boot' = Booting(on)
      /\ req' = [h \in Handlers |-> Idle]
      /\ UNCHANGED <<dbVars, arrivals, faults>>
  BY DEF Crash
<1>2. DbStep  BY <1>1, Quiet
<1>3. \A k \in Handlers : req'[k] = Idle  BY <1>1
<1>4. req' \in [Handlers -> Request]
  <2>1. Idle \in Request  BY DEF Idle, Request, Ops
  <2> QED  BY <1>1, <2>1
<1>5. crashes' \in 0..MaxCrashes  BY <1>0, <1>1, Numbers DEF TypeOK
<1>6. boot' \in {"user", "serving"} /\ (boot' = "serving" => ~devLogin')
  BY <1>1 DEF Booting
<1>7. TypeOK'
  BY <1>0, <1>1, <1>2, <1>4, <1>5, <1>6 DEF TypeOK, DbStep, DbOK
<1>8. BootInv'  BY <1>3, <1>6 DEF BootInv
<1>9. ErrorsAreFaults'  BY <1>3 DEF ErrorsAreFaults, Idle
<1>10. \A k \in Handlers : HandlerInv(k)'
  BY <1>0, <1>1, <1>3, Numbers, IdleInv
<1> QED  BY <1>2, <1>7, <1>8, <1>9, <1>10 DEF IInv, DbStep

(* A statement of the dev seed, while no handler runs. *)
LEMMA SeedInv ==
    ASSUME IInv, boot # "serving", DbStep,
           UNCHANGED <<devLogin, req, arrivals, faults, crashes>>,
           boot' \in {"workspace", "member", "serving"},
           Dev \in users', boot' = "member" => Bare(DevSlug)' # {},
           boot' = "serving" => Homes(Dev)' # {}
    PROVE  IInv'
<1>0. TypeOK  BY DEF IInv
<1>1. \A h \in Handlers : req'[h] = Idle  BY DEF IInv, BootInv
<1>2. TypeOK'  BY <1>0 DEF TypeOK, DbStep, DbOK
<1>3. BootInv'  BY <1>1 DEF BootInv
<1>4. ErrorsAreFaults'  BY <1>1 DEF ErrorsAreFaults, Idle
<1>5. \A k \in Handlers : HandlerInv(k)'  BY <1>0, <1>1, Numbers, IdleInv
<1> QED  BY <1>2, <1>3, <1>4, <1>5 DEF IInv, DbStep

LEMMA SeedUserStep ==
    ASSUME IInv, SeedUser
    PROVE  IInv'
<1>0. TypeOK  BY DEF IInv
<1>1. /\ boot = "user" /\ boot' = "workspace" /\ users' = users \cup {Dev}
      /\ UNCHANGED <<workspaces, members, cookies, workflows, devLogin, req,
                      arrivals, faults, crashes>>
  BY DEF SeedUser
<1>2. FreeIds' = FreeIds /\ Existing' = Existing
  BY <1>1 DEF FreeIds, Existing
<1>3. DbOK'
  <2>1. users \subseteq users' /\ users' \subseteq People
    BY <1>0, <1>1 DEF TypeOK, People
  <2> QED  BY <1>0, <1>1, <1>2, <2>1 DEF TypeOK, DbOK, Bare
<1>4. RowsKept  BY <1>1 DEF RowsKept, Existing
<1>5. WorkflowRows' /\ CookieHasHome' /\ PersonalStaysPersonal'
  BY <1>1, <1>2 DEF IInv, WorkflowRows, CookieHasHome, PersonalStaysPersonal, Homes
<1>6. DbStep  BY <1>3, <1>4, <1>5 DEF DbStep
<1> QED  BY <1>1, <1>6, SeedInv

LEMMA SeedWorkspaceStep ==
    ASSUME IInv, SeedWorkspace
    PROVE  IInv'
<1>0. TypeOK  BY DEF IInv
<1>1. /\ boot = "workspace" /\ boot' = "member"
      /\ UNCHANGED <<users, members, cookies, workflows, devLogin, req,
                      arrivals, faults, crashes>>
  BY DEF SeedWorkspace
<1>2. Dev \in users  BY <1>1 DEF IInv, BootInv
<1>3. CASE Bare(DevSlug) # {} /\ UNCHANGED workspaces
  <2>1. UNCHANGED dbVars  BY <1>1, <1>3 DEF dbVars
  <2>2. Bare(DevSlug)' # {}  BY <1>3 DEF Bare
  <2> QED  BY <1>1, <1>2, <2>1, <2>2, Quiet, SeedInv
<1>4. CASE /\ Bare(DevSlug) = {} /\ FreeIds # {}
           /\ workspaces' = [workspaces EXCEPT ![FreshId] =
                                [slug |-> DevSlug, bare |-> TRUE, by |-> Dev]]
  <2>1. PICK i : i = FreshId  OBVIOUS
  <2>2. i \in FreeIds  BY <1>4, <2>1, Fresh
  <2>3. workspaces' = [workspaces EXCEPT ![i] =
                          [slug |-> DevSlug, bare |-> TRUE, by |-> Dev]]
    BY <1>4, <2>1
  <2>4. DbStep /\ i \in Ids \ FreeIds'
    BY <1>1, <1>2, <1>4, <2>2, <2>3, NewRow DEF Slugs
  <2>5. workspaces'[i] = [slug |-> DevSlug, bare |-> TRUE, by |-> Dev]
    BY <1>0, <2>2, <2>3 DEF TypeOK, FreeIds
  <2>6. i \in Ids /\ workspaces'[i] # NoRow  BY <2>4 DEF FreeIds
  <2>7. Bare(DevSlug)' # {}  BY <2>5, <2>6 DEF Bare
  <2> QED  BY <1>1, <1>2, <2>4, <2>7, SeedInv
<1> QED  BY <1>3, <1>4 DEF SeedWorkspace

LEMMA SeedMemberStep ==
    ASSUME IInv, SeedMember
    PROVE  IInv'
<1>0. TypeOK  BY DEF IInv
<1>1. /\ boot = "member" /\ boot' = "serving"
      /\ members' = members \cup {<<i, Dev>> : i \in Bare(DevSlug)}
      /\ UNCHANGED <<users, workspaces, cookies, workflows, devLogin, req,
                      arrivals, faults, crashes>>
  BY DEF SeedMember
<1>2. Dev \in users /\ Bare(DevSlug) # {}  BY <1>1 DEF IInv, BootInv
<1>3. members' \subseteq (Ids \ FreeIds) \X users
  <2>1. \A i \in Bare(DevSlug) : i \in Ids \ FreeIds  BY DEF Bare, FreeIds
  <2> QED  BY <1>0, <1>1, <1>2, <2>1 DEF TypeOK
<1>4. \A m \in members' \ members : m[2] \in {workspaces[m[1]].by, Dev}
  BY <1>1
<1>5. DbStep  BY <1>1, <1>3, <1>4, NewMembers
<1>6. Homes(Dev)' # {}
  <2>1. PICK i : i \in Bare(DevSlug)  BY <1>2
  <2>2. i \in Ids /\ <<i, Dev>> \in members'  BY <1>1, <2>1 DEF Bare
  <2> QED  BY <2>2 DEF Homes
<1> QED  BY <1>1, <1>2, <1>5, <1>6, SeedInv

-----------------------------------------------------------------------------
(* The invariant holds throughout, and what it says of the system.         *)

LEMMA StutterInv ==
    ASSUME IInv, UNCHANGED vars
    PROVE  IInv'
<1>0. TypeOK  BY DEF IInv
<1>1. UNCHANGED <<dbVars, procVars, req, arrivals, faults, crashes>>
  BY DEF vars
<1>2. DbStep /\ Active' = Active  BY <1>1, Quiet
<1>3. TypeOK'  BY <1>0, <1>1, <1>2 DEF TypeOK, DbStep, DbOK, procVars
<1>4. \A k \in Handlers : HandlerInv(k)'
  BY <1>0, <1>1, <1>2, Numbers, Bystander
<1>5. ErrorsAreFaults'  BY <1>1 DEF IInv, ErrorsAreFaults
<1>6. BootInv'  BY <1>1 DEF IInv, BootInv, dbVars, procVars, Homes, Bare
<1> QED  BY <1>2, <1>3, <1>4, <1>5, <1>6 DEF IInv, DbStep

LEMMA NextInv == IInv /\ [Next]_vars => IInv'
<1> SUFFICES ASSUME IInv, [Next]_vars PROVE IInv'  OBVIOUS
<1>1. CASE Seed
  BY <1>1, SeedUserStep, SeedWorkspaceStep, SeedMemberStep DEF Seed
<1>2. CASE \E u \in People : CookieEnds(u)
  BY <1>2, CookieEndsStep
<1>3. CASE \E on \in BOOLEAN : Crash(on)
  BY <1>3, CrashStep
<1>4. ASSUME NEW h \in Handlers,
             \/ Callback(h) \/ DevCallback(h) \/ CreateRequest(h)
             \/ WorkflowRequest(h) \/ Deliver(h)
             \/ Accepted(h) \/ Ends(h)
      PROVE  IInv'
  BY <1>4, CallbackStep, DevCallbackStep, CreateRequestStep, WorkflowRequestStep,
     DeliverStep, AcceptedStep, EndsStep
<1>5. ASSUME NEW h \in Handlers, NEW ok \in BOOLEAN, LoginStep(h, ok)
      PROVE  IInv'
  BY <1>5, UpsertUserStep, LookupHomeStep, InsertWorkspaceStep, InsertSuffixedStep,
     InsertMemberStep, MintCookieStep DEF LoginStep
<1>6. ASSUME NEW h \in Handlers, NEW ok \in BOOLEAN, WorkflowStep(h, ok)
      PROVE  IInv'
  BY <1>6, LoadWorkflowStep, CheckAccessStep, CreateWorkflowStep, PatchWorkflowStep,
     FireWorkflowStep DEF WorkflowStep
<1>7. ASSUME NEW h \in Handlers, NEW ok \in BOOLEAN, Scan(h, ok) \/ FireMatch(h, ok)
      PROVE  IInv'
  BY <1>7, ScanStep, FireMatchStep
<1>8. CASE UNCHANGED vars
  BY <1>8, StutterInv
<1> QED  BY <1>1, <1>2, <1>3, <1>4, <1>5, <1>6, <1>7, <1>8 DEF Next

LEMMA Inductive == Spec => []IInv
BY InitInv, NextInv, PTL DEF Spec

(* Types, foreign keys and unique slugs hold whatever two handlers, a boot *)
(* and dropped requests write in between each other's statements.          *)
THEOREM IngressTypes == Spec => []TypeOK
<1>1. IInv => TypeOK  BY DEF IInv
<1> QED  BY <1>1, Inductive, PTL

(* Nobody holds a cookie without a workspace (oauth.rs:116-117), after any *)
(* number of concurrent logins, failed statements and restarts.            *)
THEOREM CookiesHaveHomes == Spec => []CookieHasHome
<1>1. IInv => CookieHasHome  BY DEF IInv
<1> QED  BY <1>1, Inductive, PTL

(* A workspace keeps to its creator, for any set of logins however their   *)
(* slugs collide (auth.rs:177-203, 236-238).                               *)
THEOREM PersonalWorkspaces == Spec => []PersonalStaysPersonal
<1>1. IInv => PersonalStaysPersonal  BY DEF IInv
<1> QED  BY <1>1, Inductive, PTL

(* A handler answers 500 only if a statement has failed: no race does it.  *)
THEOREM NoSpuriousErrors == Spec => []ErrorsAreFaults
<1>1. IInv => ErrorsAreFaults  BY DEF IInv
<1> QED  BY <1>1, Inductive, PTL

(* What a button press or a delivery fires was active while it ran         *)
(* (github.rs:110-113, workflows.rs:211-220).                              *)
THEOREM FiresActive == Spec => []FiredWhileActive
<1>1. IInv => FiredWhileActive  BY DEF IInv, HandlerInv, SeenInv, FiredWhileActive
<1> QED  BY <1>1, Inductive, PTL

(* An answered delivery has fired all it matched save one workflow per     *)
(* failed statement (github.rs:125-134).                                   *)
THEOREM DeliveriesFire == Spec => []MatchesFired
<1>1. IInv => MatchesFired
  <2> SUFFICES ASSUME IInv, NEW h \in Handlers, req[h].at = "answered"
               PROVE  Cardinality(req[h].matched \ req[h].fired) <= faults
    BY DEF MatchesFired
  <2>1. /\ req[h].todo = {}
        /\ Cardinality(req[h].matched \ (req[h].fired \cup req[h].todo)) <= faults
    BY DEF IInv, HandlerInv, LostInv
  <2>2. req[h].matched \ (req[h].fired \cup req[h].todo) =
          req[h].matched \ req[h].fired
    BY <2>1
  <2> QED  BY <2>1, <2>2
<1> QED  BY <1>1, Inductive, PTL
=============================================================================
