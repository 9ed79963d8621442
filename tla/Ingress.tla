------------------------------- MODULE Ingress -------------------------------
(***************************************************************************)
(* The HTTP edge over its database: who may come in, and what makes a run. *)
(* GitHub logins provision a user, a personal workspace and a cookie;      *)
(* cookies authorise workflow requests; the manual button and labelled     *)
(* issues fire workflows.  Every handler is a task of its own, every SQL   *)
(* statement commits by itself (there is no transaction in these paths),   *)
(* and a handler may be dropped at any await when its client goes away.    *)
(*                                                                         *)
(* One action is one statement with the code up to the next one.  The      *)
(* parameter "ok" says whether it succeeds; fewer than MaxFaults fail.     *)
(* Module Scheduler takes over where a run row has been inserted.          *)
(***************************************************************************)
EXTENDS Naturals, FiniteSets

CONSTANTS
    Accounts,     \* GitHub accounts, one users row each (github_id is UNIQUE)
    Dev,          \* the seeded dev user (github_id -1)
    Login,        \* lower-cased login of each account
    DevSlug,      \* DEV_WORKSPACE_SLUG
    Ids,          \* bound: workspace ids
    Wfs,          \* bound: workflow ids
    Events,       \* what issues.labeled can name: a repo and a label
    Handlers,     \* bound: requests in flight at a time
    MaxArrivals,  \* bound: requests altogether
    MaxFaults,    \* bound: failed statements
    MaxCrashes,   \* bound: deaths of the process
    NoRow         \* a row that is not there

ASSUME AccountsAssumption == Dev \notin Accounts /\ Ids # {} /\ IsFiniteSet(Wfs)
ASSUME EventsAssumption == "manual" \notin Events
ASSUME BoundsAssumption == {MaxArrivals, MaxFaults, MaxCrashes} \subseteq Nat

VARIABLES
    (* Postgres *)
    users,        \* people with a row
    workspaces,   \* per id: slug, whether it is the bare login, created_by
    members,      \* workspace_members
    cookies,      \* people with an auth_sessions row that has not expired
    workflows,    \* per id: workspace, trigger, active, created_by
    (* the process *)
    boot,         \* "user", "workspace", "member" (the dev seed), "serving"
    devLogin,     \* config.dev_login_enabled() of this process
    req,          \* what each handler is doing
    (* environment *)
    arrivals, faults, crashes

dbVars == <<users, workspaces, members, cookies, workflows>>
procVars == <<boot, devLogin>>
vars == <<dbVars, procVars, req, arrivals, faults, crashes>>

People == Accounts \cup {Dev}
Triggers == Events \cup {"manual"}
Slugs == {Login[a] : a \in Accounts} \cup {DevSlug}
Workspace == [slug : Slugs, bare : BOOLEAN, by : People]
Workflow == [ws : Ids, trigger : Triggers, active : BOOLEAN, by : People]

ASSUME NoRowAssumption == NoRow \notin Workspace \cup Workflow

(***************************************************************************)
(* A request: the statement it is at, what it is, and its local variables. *)
(* "seen" is history: the workflows active at some time since it arrived.  *)
(***************************************************************************)
Ops == {"none", "login", "dev", "create", "activate", "deactivate", "fire", "issue"}
Request == [at : {"idle", "upsert", "lookup", "insert", "suffix", "join", "mint",
                  "load", "access", "act", "scan", "loop", "answered", "error"},
            op : Ops, user : People \cup {NoRow}, ws : Ids \cup {NoRow},
            wf : Wfs \cup {NoRow}, row : Workflow \cup {NoRow},
            trigger : Triggers \cup {"none"},
            matched : SUBSET Wfs, todo : SUBSET Wfs, fired : SUBSET Wfs,
            seen : SUBSET Wfs]

Idle == [at |-> "idle", op |-> "none", user |-> NoRow, ws |-> NoRow, wf |-> NoRow,
         row |-> NoRow, trigger |-> "none",
         matched |-> {}, todo |-> {}, fired |-> {}, seen |-> {}]

Homes(u) == {i \in Ids : <<i, u>> \in members}
Existing == {w \in Wfs : workflows[w] # NoRow}
Active == {w \in Existing : workflows[w].active}
Bare(slug) == {i \in Ids : workspaces[i] # NoRow
                            /\ workspaces[i].slug = slug /\ workspaces[i].bare}
FreeIds == {i \in Ids : workspaces[i] = NoRow}
(* Uuid::new_v4, up to renaming. *)
FreshId == CHOOSE i \in Ids : workspaces[i] = NoRow

(***************************************************************************)
(* serve() starts over whatever database earlier processes left: an empty  *)
(* one, or that of one account with its home and some drafted workflows.   *)
(***************************************************************************)
Empty == /\ users = {} /\ members = {} /\ cookies = {}
         /\ workspaces = [i \in Ids |-> NoRow]
         /\ workflows = [w \in Wfs |-> NoRow]

InUse(a, i) ==
    /\ users = {a} /\ members = {<<i, a>>} /\ cookies = {a}
    /\ workspaces = [j \in Ids |-> IF j = i
                        THEN [slug |-> Login[a], bare |-> TRUE, by |-> a] ELSE NoRow]
    /\ workflows \in [Wfs -> {[ws |-> i, trigger |-> t, active |-> FALSE, by |-> a] :
                                t \in Triggers}]

Booting(on) == IF on THEN "user" ELSE "serving"

Init ==
    /\ \/ Empty
       \/ \E a \in Accounts : InUse(a, CHOOSE i \in Ids : TRUE)
    /\ devLogin \in BOOLEAN /\ boot = Booting(devLogin)
    /\ req = [h \in Handlers |-> Idle]
    /\ arrivals = 0 /\ faults = 0 /\ crashes = 0

-----------------------------------------------------------------------------
(* The dev seed of a booting process; nothing else runs yet.               *)

SeedUser ==
    /\ boot = "user"
    /\ users' = users \cup {Dev}
    /\ boot' = "workspace"
    /\ UNCHANGED <<workspaces, members, cookies, workflows, devLogin, req,
                   arrivals, faults, crashes>>

SeedWorkspace ==
    /\ boot = "workspace"
    /\ boot' = "member"
    /\ \/ Bare(DevSlug) # {} /\ UNCHANGED workspaces
       \/ /\ Bare(DevSlug) = {} /\ FreeIds # {}
          /\ workspaces' = [workspaces EXCEPT ![FreshId] =
                                [slug |-> DevSlug, bare |-> TRUE, by |-> Dev]]
    /\ UNCHANGED <<users, members, cookies, workflows, devLogin, req,
                   arrivals, faults, crashes>>

SeedMember ==
    /\ boot = "member"
    /\ members' = members \cup {<<i, Dev>> : i \in Bare(DevSlug)}
    /\ boot' = "serving"
    /\ UNCHANGED <<users, workspaces, cookies, workflows, devLogin, req,
                   arrivals, faults, crashes>>

-----------------------------------------------------------------------------
(* Steps of a handler.                                                     *)

Statement(ok) ==
    /\ ok \/ faults < MaxFaults
    /\ faults' = IF ok THEN faults ELSE faults + 1

Arrive(h, r) ==
    /\ boot = "serving" /\ req[h].at = "idle" /\ arrivals < MaxArrivals
    /\ arrivals' = arrivals + 1
    /\ req' = [req EXCEPT ![h] = r]
    /\ UNCHANGED <<dbVars, procVars, faults, crashes>>

(* A handler at a statement of an operation. *)
At(h, at) == boot = "serving" /\ req[h].at = at

Goto(h, at) == [req[h] EXCEPT !.at = at]

(* An answer that still shows what the handler fired, or that it failed; a
   handler without either returns, to Idle. *)
Answer(h, at) == [Idle EXCEPT !.at = at, !.op = req[h].op, !.matched = req[h].matched,
                              !.fired = req[h].fired, !.seen = req[h].seen]

(* The handler goes on as r; a failed statement answers 500. *)
Continue(h, r, ok) ==
    /\ Statement(ok)
    /\ req' = [req EXCEPT ![h] = IF ok THEN r ELSE Answer(h, "error")]
    /\ UNCHANGED <<procVars, arrivals, crashes>>

-----------------------------------------------------------------------------
(* Logins.                                                                 *)

(* The callback has matched the state cookie and exchanged the code. *)
Callback(h) ==
    \E a \in Accounts :
        Arrive(h, [Idle EXCEPT !.at = "upsert", !.op = "login", !.user = a])

(* dev_login finds the seeded user, or says that it is missing. *)
DevCallback(h) ==
    /\ devLogin
    /\ Arrive(h, [Idle EXCEPT !.at = IF Dev \in users THEN "mint" ELSE "error",
                              !.op = "dev", !.user = Dev])

(* upsert_user, and the canonical row re-read (users are never deleted). *)
UpsertUser(h, ok) ==
    /\ At(h, "upsert")
    /\ users' = IF ok THEN users \cup {req[h].user} ELSE users
    /\ Continue(h, Goto(h, "lookup"), ok)
    /\ UNCHANGED <<workspaces, members, cookies, workflows>>

(* Variant: whoever has created a workspace counts as provisioned. *)
Provisioned_Creator(u) == \E i \in Ids \ FreeIds : workspaces[i].by = u

(* ensure_personal_workspace is "a no-op once the user has any membership". *)
Provisioned(u) == Homes(u) # {}

LookupHome(h, ok) ==
    /\ At(h, "lookup")
    /\ Continue(h, Goto(h, IF Provisioned(req[h].user) THEN "mint" ELSE "insert"), ok)
    /\ UNCHANGED dbVars

NewWorkspace(u, bare) ==
    workspaces' = [workspaces EXCEPT ![FreshId] =
                        [slug |-> Login[u], bare |-> bare, by |-> u]]

(* Variant: an insert without ON CONFLICT, which fails on the unique slug. *)
OnConflict_Error(h) == Answer(h, "error")
(* Variant: the workspace that has the slug is taken for the user's own. *)
OnConflict_Join(h) ==
    [Goto(h, "join") EXCEPT !.ws = CHOOSE i \in Bare(Login[req[h].user]) : TRUE]

(* Variant: the member row takes the id of the insert that did nothing. *)
OnConflict_Unsaved(h) == Goto(h, "join")

(* The slug is taken: fall back to an id-suffixed one. *)
OnConflict(h) == Goto(h, "suffix")

(* INSERT ... ON CONFLICT (slug) DO NOTHING. *)
InsertWorkspace(h, ok) ==
    LET u == req[h].user taken == Bare(Login[u]) # {} IN
    /\ At(h, "insert")
    /\ ok /\ ~taken => FreeIds # {}
    /\ IF ok /\ ~taken THEN NewWorkspace(u, TRUE) ELSE UNCHANGED workspaces
    /\ Continue(h, IF taken THEN OnConflict(h)
                   ELSE [Goto(h, "join") EXCEPT !.ws = FreshId], ok)
    /\ UNCHANGED <<users, members, cookies, workflows>>

InsertSuffixed(h, ok) ==
    /\ At(h, "suffix")
    /\ ok => FreeIds # {}
    /\ IF ok THEN NewWorkspace(req[h].user, FALSE) ELSE UNCHANGED workspaces
    /\ Continue(h, [Goto(h, "join") EXCEPT !.ws = FreshId], ok)
    /\ UNCHANGED <<users, members, cookies, workflows>>

InsertMember(h, ok) ==
    /\ At(h, "join")
    /\ members' = IF ok THEN members \cup {<<req[h].ws, req[h].user>>} ELSE members
    /\ Continue(h, Goto(h, "mint"), ok)
    /\ UNCHANGED <<users, workspaces, cookies, workflows>>

(* create_auth_session, for a GitHub and for the dev login. *)
MintCookie(h, ok) ==
    /\ At(h, "mint")
    /\ cookies' = IF ok THEN cookies \cup {req[h].user} ELSE cookies
    /\ Continue(h, Idle, ok)
    /\ UNCHANGED <<users, workspaces, members, workflows>>

(* The last session of a user is logged out or expires. *)
CookieEnds(u) ==
    /\ u \in cookies
    /\ cookies' = cookies \ {u}
    /\ UNCHANGED <<users, workspaces, members, workflows, procVars, req,
                   arrivals, faults, crashes>>

-----------------------------------------------------------------------------
(* Workflow requests, authenticated by their cookie when they arrive.      *)

CreateRequest(h) ==
    \E u \in cookies, i \in Ids \ FreeIds, t \in Triggers :
        Arrive(h, [Idle EXCEPT !.at = "access", !.op = "create", !.user = u,
                               !.ws = i, !.trigger = t])

WorkflowRequest(h) ==
    \E u \in cookies, w \in Existing, op \in {"activate", "deactivate", "fire"} :
        Arrive(h, [Idle EXCEPT !.at = "load", !.op = op, !.user = u, !.wf = w,
                               !.seen = IF op = "fire" THEN Active ELSE {}])

LoadWorkflow(h, ok) ==
    LET row == workflows[req[h].wf] IN
    /\ At(h, "load")
    /\ Continue(h, [Goto(h, "access") EXCEPT !.row = row, !.ws = row.ws], ok)
    /\ UNCHANGED dbVars

MayAct(u, i) == <<i, u>> \in members

(* require_workspace_access: for an outsider the workspace does not exist. *)
CheckAccess(h, ok) ==
    /\ At(h, "access")
    /\ Continue(h, IF MayAct(req[h].user, req[h].ws) THEN Goto(h, "act")
                   ELSE Idle, ok)
    /\ UNCHANGED dbVars

Acts(h, op) == At(h, "act") /\ req[h].op = op

CreateWorkflow(h, ok) ==
    /\ Acts(h, "create")
    /\ \E w \in Wfs \ Existing :
        workflows' = IF ok
            THEN [workflows EXCEPT ![w] = [ws |-> req[h].ws, trigger |-> req[h].trigger,
                                           active |-> FALSE, by |-> req[h].user]]
            ELSE workflows
    /\ Continue(h, Idle, ok)
    /\ UNCHANGED <<users, workspaces, members, cookies>>

(* patch_workflow sets the flag; history notes who could have seen it. *)
Noticed(w) ==
    [k \in Handlers |-> IF req[k].op \in {"fire", "issue"}
                        THEN [req[k] EXCEPT !.seen = @ \cup {w}] ELSE req[k]]

PatchWorkflow(h, ok) ==
    LET w == req[h].wf on == req[h].op = "activate"
        next == IF on /\ ok THEN Noticed(w) ELSE req IN
    /\ Acts(h, "activate") \/ Acts(h, "deactivate")
    /\ Statement(ok)
    /\ workflows' = IF ok THEN [workflows EXCEPT ![w].active = on] ELSE workflows
    /\ req' = [next EXCEPT ![h] = IF ok THEN Idle ELSE Answer(h, "error")]
    /\ UNCHANGED <<users, workspaces, members, cookies, procVars, arrivals, crashes>>

(* fire_workflow goes by the row it loaded, before the access check. *)
Fireable(row) == row.trigger = "manual" /\ row.active

FireWorkflow(h, ok) ==
    /\ Acts(h, "fire")
    /\ IF Fireable(req[h].row)
       THEN Continue(h, [Answer(h, "answered") EXCEPT !.fired = {req[h].wf}], ok)
       ELSE ok /\ Continue(h, Idle, ok)
    /\ UNCHANGED dbVars

-----------------------------------------------------------------------------
(* issues.labeled.                                                         *)

Deliver(h) ==
    \E e \in Events :
        Arrive(h, [Idle EXCEPT !.at = "scan", !.op = "issue", !.trigger = e,
                               !.seen = Active])

(* Variant: the scan does not ask whether a workflow is active. *)
Matching_All(e) == {w \in Existing : workflows[w].trigger = e}
(* The active workflows whose trigger names this repo and label. *)
Matching(e) == {w \in Active : workflows[w].trigger = e}

(* A failed scan is logged and answered 202 like everything else. *)
Scan(h, ok) ==
    LET found == IF ok THEN Matching(req[h].trigger) ELSE {} IN
    /\ At(h, "scan")
    /\ Statement(ok)
    /\ req' = [req EXCEPT ![h] = [Goto(h, "loop") EXCEPT !.matched = found,
                                                         !.todo = found]]
    /\ UNCHANGED <<dbVars, procVars, arrivals, crashes>>

(* Variant: the first failure ends the loop. *)
Remaining_Stop(todo, w, ok) == IF ok THEN todo \ {w} ELSE {}
(* A failed fire is logged; the loop goes on. *)
Remaining(todo, w, ok) == todo \ {w}

FireMatch(h, ok) ==
    \E w \in req[h].todo :
        /\ At(h, "loop")
        /\ Statement(ok)
        /\ req' = [req EXCEPT ![h].todo = Remaining(@, w, ok),
                              ![h].fired = IF ok THEN @ \cup {w} ELSE @]
        /\ UNCHANGED <<dbVars, procVars, arrivals, crashes>>

Accepted(h) ==
    /\ At(h, "loop") /\ req[h].todo = {}
    /\ req' = [req EXCEPT ![h] = Answer(h, "answered")]
    /\ UNCHANGED <<dbVars, procVars, arrivals, faults, crashes>>

-----------------------------------------------------------------------------
(* A handler returns, or its client closes the connection and it is dropped
   at whatever await it is at.                                             *)
Ends(h) ==
    /\ req[h].at # "idle"
    /\ req' = [req EXCEPT ![h] = Idle]
    /\ UNCHANGED <<dbVars, procVars, arrivals, faults, crashes>>

(* The process dies and the next one boots, perhaps with another setting
   of DEV_LOGIN_ENABLED.                                                   *)
Crash(on) ==
    /\ crashes < MaxCrashes
    /\ crashes' = crashes + 1
    /\ devLogin' = on /\ boot' = Booting(on)
    /\ req' = [h \in Handlers |-> Idle]
    /\ UNCHANGED <<dbVars, arrivals, faults>>

Seed == SeedUser \/ SeedWorkspace \/ SeedMember

LoginStep(h, ok) ==
    \/ UpsertUser(h, ok) \/ LookupHome(h, ok) \/ InsertWorkspace(h, ok)
    \/ InsertSuffixed(h, ok) \/ InsertMember(h, ok) \/ MintCookie(h, ok)

WorkflowStep(h, ok) ==
    \/ LoadWorkflow(h, ok) \/ CheckAccess(h, ok) \/ CreateWorkflow(h, ok)
    \/ PatchWorkflow(h, ok) \/ FireWorkflow(h, ok)

Next ==
    \/ Seed
    \/ \E u \in People : CookieEnds(u)
    \/ \E on \in BOOLEAN : Crash(on)
    \/ \E h \in Handlers :
        \/ Callback(h) \/ DevCallback(h) \/ CreateRequest(h)
        \/ WorkflowRequest(h) \/ Deliver(h)
        \/ Accepted(h) \/ Ends(h)
        \/ \E ok \in BOOLEAN : LoginStep(h, ok) \/ WorkflowStep(h, ok)
                               \/ Scan(h, ok) \/ FireMatch(h, ok)

Spec == Init /\ [][Next]_vars

-----------------------------------------------------------------------------
(***************************************************************************)
(* Properties                                                              *)
(***************************************************************************)

(* Every variable stays in its type; foreign keys resolve, slugs are unique. *)
TypeOK ==
    /\ users \subseteq People /\ cookies \subseteq users
    /\ workspaces \in [Ids -> Workspace \cup {NoRow}]
    /\ \A slug \in Slugs : \A i, j \in Bare(slug) : i = j
    /\ members \subseteq (Ids \ FreeIds) \X users
    /\ workflows \in [Wfs -> Workflow \cup {NoRow}]
    /\ boot \in {"user", "workspace", "member", "serving"} /\ devLogin \in BOOLEAN
    /\ req \in [Handlers -> Request]
    /\ arrivals \in 0..MaxArrivals /\ faults \in 0..MaxFaults
    /\ crashes \in 0..MaxCrashes

(* Whoever holds a cookie has a workspace to show, or "the dashboard has   *)
(* nothing to show" (oauth.rs:116-117): whatever crashed, failed or was    *)
(* dropped between the statements of an earlier login, the next one mends  *)
(* it before it mints.                                                     *)
CookieHasHome == \A u \in cookies : Homes(u) # {}

(* A personal workspace stays personal (auth.rs:177-203, 236-238): the     *)
(* members of a workspace and the authors of its workflows are its         *)
(* creator, however slugs collide and requests interleave.  The dev user   *)
(* is excepted: the seed joins whatever workspace has the slug "dev".      *)
PersonalStaysPersonal ==
    /\ \A m \in members : m[2] \in {workspaces[m[1]].by, Dev}
    /\ \A w \in Existing : workflows[w].by \in {workspaces[workflows[w].ws].by, Dev}

(* Nothing but a failed statement makes a handler answer 500: neither a    *)
(* login racing another first login of the account, nor a slug already     *)
(* taken, nor a dev login without its seeded user.                         *)
ErrorsAreFaults == \A h \in Handlers : req[h].at = "error" => faults > 0

(* A workflow is fired only if it was active at some time since the        *)
(* request or the delivery arrived (github.rs:110-113,                     *)
(* workflows.rs:211-220): a deactivation may lose the race against a fire  *)
(* under way, but none that arrives later.                                 *)
FiredWhileActive == \A h \in Handlers : req[h].fired \subseteq req[h].seen

(* A delivery that is answered has fired every workflow it matched, save   *)
(* one per failed statement: a workflow whose fire fails does not take     *)
(* the others with it (github.rs:125-134).                                 *)
MatchesFired ==
    \A h \in Handlers : req[h].at = "answered" =>
        Cardinality(req[h].matched \ req[h].fired) <= faults
=============================================================================
