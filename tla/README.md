# Onsager: a formal model of the run factory

Onsager fires *runs* of AI-agent workflows.  A control plane (one Rust process
over Postgres) executes the stages of a run one after the other, each as an
*agent session*: a CLI child process, in the control plane itself or on a
*machine* that has dialled in over a WebSocket.  The agent delivers over MCP; a
dashboard watches.  Almost everything that is hard about it is concurrency and
failure: handlers, tasks, reapers and workers interleave at every `await`; an
abort drops a task in the middle of what it does; links break without anybody
being told; the process dies and the next one cleans up.

This directory holds TLA+ modules of those parts, TLC configurations that check
them on small instances, and TLAPS proofs.  `PROJECT.json` is the index: every
component, run, mutant, hazard, finding and theorem, and for each definition
the source lines it stands for.

- [Inventory](#inventory)
- [Modules and how they correspond to the code](#modules-and-how-they-correspond-to-the-code)
- [Runs, bounds and what they show](#runs-bounds-and-what-they-show)
- [Fairness](#fairness)
- [Where code and comments disagree](#where-code-and-comments-disagree)
- [What is proved](#what-is-proved)
- [What is only model-checked, and what is not modelled](#what-is-only-model-checked-and-what-is-not-modelled)
- [Plan](#plan)

Paths are relative to `src/crates/onsager/src/` unless they start with `src/`.

## Inventory

| component | state it keeps | operations | interacts with | hard behaviour | correctness |
|---|---|---|---|---|---|
| Run lifecycle (`scheduler.rs`, `http/operate.rs`, `state.rs`, `events.rs`) | `runs`, `sessions`, `events` rows; `AppState.running` (abort handles), `run_slots` (semaphore), `feeds` | fire, execute stages, abort, boot reclaim | agent sessions or fleet (`dispatch`), MCP rows, HTTP handlers | fire, task and abort are separate actors over one unconditional UPDATE; an abort drops the task at any await; a crash between any two statements; the reclaim itself may fail or die | no zombie rows, verdicts final, at-most-once, slots neither lost nor doubled, completed means delivered, everything settles |
| In-process agent session (`sessions.rs`) | the child's process group, its feed, the numbering of events | spawn, read stdout line by line, reap, `session_delivered` | scheduler, feed, MCP | killed with its task by `kill_on_drop`; no deadline of its own | agents within the cap, an agent belongs to the stage its task waits for |
| Fleet (`fleet.rs`) | `machines` (name → connection), `pending` (session → completion channel), `remote_sessions` (session → name), `last_seen` per connection, `machines` rows; at the worker the connection and the in-flight map | dial, register, heartbeat, dispatch, Ended, teardown (`fail_machine`), reap, route a kill frame, redial | scheduler above the seam, workers below | half-open links, redial under the same name while the old handler lives, frames lost with a connection, `fail_machine` in three steps from two callers, restart | one verdict per session and one start, a waiting session can be answered, nothing leaks, kills hit the aborted agent only, rows agree with the registry |
| Live session feed (`agent_events.rs`, `sessions.rs`, `http/operate.rs`, `src/apps/dashboard/src/components/runs/SessionFeed.tsx`) | normalizer (open calls, warned), `seq`, `session_events` rows, broadcast channel, query cache and draft in the page | normalize, persist, broadcast, fetch, stream | both kinds of sessions, abort, lease | two sources for one view, bounded channel that drops, stream that never reopens, rows behind the status | what is shown is what happened, complete at the end, calls and results paired as the normalizer did, the page learns the end |
| MCP edge (`mcp.rs`) | `artifacts` rows, a declared reason on the session | `emit_artifact`, `declare_no_output` | agents (token), scheduler's delivery check | a call that passed the token lookup lands when it lands: also after its agent, its stage or its run has ended; a token never expires | nothing that lands late turns a verdict; completed means delivered |
| Workflows and reads (`http/workflows.rs`, `http/mod.rs`, `http/me.rs`, `http/workspaces.rs`, `domain.rs`) | `workflows` rows | create, patch, list, fire | scheduler, identity | a workflow is loaded two statements before it is acted on; handlers may be dropped at any await | only members act; what is fired was active while the request ran |
| Identity (`auth.rs`, `http/oauth.rs`) | `users`, `auth_sessions`, `workspaces`, `workspace_members` | login callback, dev login and its seed at boot, session lookup, logout, personal workspace | browsers, GitHub | two callbacks of one user at once; six statements without a transaction, any of which may be the last; taken slugs | every cookie has a workspace, a personal workspace stays personal, no race answers 500 |
| GitHub ingress (`github.rs`) | `github_app_installations` | `issues.labeled`, installation events | GitHub, scheduler | a deactivation between scan and fire; one fire of several fails; deliveries twice or out of order | what a delivery fires was active; an answered delivery has fired all it matched |
| GitHub API client (`src/crates/onsager-github/`) | none | requests, parsing | GitHub | none: stateless I/O | |
| Credentials (`http/credentials.rs`, `crypto.rs`) | `credentials` rows | put, delete, decrypt | agent environment | a credential that does not decrypt | as a failing step of a stage |
| Migrations (`db.rs`) | `schema_migrations`, the schema | reset the schema, create the ledger, check, apply and record each file | boot, other booting processes | two processes boot at once and collide in a file; a reset under a process that serves; a crash in an open transaction | recorded exactly if present, who serves has its tables, a loser comes up on a retry |
| Configuration, entry point (`config.rs`, `main.rs`, `lib.rs`) | none at run time | parse the environment, serve | everything | | the cap is at least one |
| Dashboard (`src/apps/dashboard/`) | query caches | forms, lists, polling | HTTP | | except `SessionFeed.tsx`, rendering |
| Deployment (`src/railway.toml`), CI (`src/deploy/`, `src/justfile`, …) | which deployment gets the requests | start the next deployment, promote it when it answers, stop the old one, restart after a failure | processes, through the health check | the old process serves while the new one reclaims | no orphaned run, verdicts survive |

## Modules and how they correspond to the code

```
                     RunContract  SessionSeam     what a run, a dispatch promises (abstract)
                          ^         ^             implemented by (Contract, Seam)
  Rollout   Ingress   Scheduler   Fleet   SessionEvents     the components
     ^         ^          ^         ^           ^
 MCRollout MCIngress MCScheduler MCFleet MCSessionEvents    instances for TLC

 Rollout_proofs  Ingress_proofs  Fleet_proofs               theorems
 Scheduler_proofs <- Verdict_proofs <- Settle_proofs
 SessionEvents_proofs <- Page_proofs
```

Ingress ends where `fire` inserts a run row, which is where Scheduler begins.
Rollout is about whole processes: Scheduler's reclaim of one process, whose
predecessor Scheduler takes to be dead, is seen there beside other processes that
may be alive.

The other three meet at `dispatch` (`fleet.rs`): Scheduler models what is
above it with in-process agents, Fleet what is below it for machines, and
`SessionSeam` is the contract between them.  SessionEvents follows one session
across either and reduces the two others to what the feed sees of them.

In every module one action is one awaited step of one actor, together with the
synchronous code that follows it up to the next await (or, in Fleet, one
section under a lock).  A program counter per actor says where it waits.

### Scheduler

The fire handler (`FireInsert`, `FireSpawn`, `FireRegister`, `FireDropped`), the
task of each run (`Task…`), the abort handlers (`Abort…`), the agent process,
`Crash`, and `reclaim_orphaned_runs` (`Boot…`).

| variables | code |
|---|---|
| `runStatus`, `sessStatus`, `delivered`, `audit` | the rows of `runs`, `sessions`, `artifacts`/`declared_reason`, `events`; they survive `Crash` |
| `permits` | free permits of `AppState.run_slots` |
| `registry`, `feeds` | the keys of `AppState.running` and `AppState.feeds` |
| `task`, `stage`, `cancel` | where `execute_run` / `run_agent_stage` waits; `cancel` is what the task has seen of `AbortHandle::abort()` |
| `procs` | live agent process groups |
| `calls` | MCP calls whose token was looked up and whose INSERT has not landed |
| `boot`, `todo`, `noted` | the reclaim in `serve` before the listener is bound |
| `launched` | history: sessions ever handed to `dispatch` |

Four points deserve a reader's attention.

*Cancellation.*  `abort()` on a tokio task takes effect at the next await, and a
task that is being polled when it is called finishes that poll.  `cancel` goes
from "no" to "asked"; a task may take one more step ("last") and is then
dropped (`TaskDropped`).  The UPDATE in flight at the moment of the abort may
therefore land.

*Failing statements.*  Each SQL statement has a parameter `ok`; what follows
when it is false is what the code does: `?` for some, a log line for others.
`events::record` and `finish` only log.

*Late deliveries.*  An agent's `emit_artifact` or `declare_no_output` begins while
it lives (`AgentCalls`: the token lookup) and lands any time after that
(`CallLands`): also behind the delivery check of its stage, or in a run that has
been aborted.  `Deliverers` bounds whose agents may deliver; the proofs put no
condition on it.

*Dropped handlers.*  hyper drops a handler's future when its client goes away.
Fire and abort are both exposed (`FireDropped`, `AbortDropped`), and both count
as a fault.

### RunContract

An abstract specification of each run, without tasks, handlers or processes: what is fired, which stages were dispatched, which have delivered, what
the row says.  A stage is dispatched at most once, after all before it were
dispatched and have delivered, and not for a run that is completed or failed;
only what was dispatched delivers (`Deliver` stays possible for ever: tokens do
not expire); a run is completed only if every stage has delivered.  `Abort` may come at any
time, and may be overruled (`Conclude` from "aborted"), which is the first finding;
what the contract then still says is that no run is completed that has not
delivered, overruled or not.  `Contract` in Scheduler states that every behaviour of
the scheduler is one of the contract, with `status <- runStatus` and `dispatched <-
launched`.

### SessionSeam

An abstract specification with two variables, the state of a session's agent
and the verdict the scheduler has of it.  An agent is started at most once; a
verdict is given at most once and never changes; "ok" only follows an agent that
finished well; a verdict of failure promises nothing about the agent, which may
still be running or not even have started.  It is what lets the scheduler be
"unchanged below the seam" (`fleet.rs:369-371`).

### Fleet

Per connection a `handle_machine` task, per name a worker process, the reaper,
and per session a `dispatch`.  Frames travel in two FIFO queues per connection
(`down`, `up`); `Break` makes a link dead without telling anyone and loses what
the worker had sent.  `fail_machine` is a three-step program (`failPc`) that the
teardown of a connection and the reaper both run, by *name*, which is where the
interesting races are.

The inserts in `pending` and `remote_sessions` are one step (`Enlist`): the first
is only read with a session found in the second.  The worker's spawn of a session
(`WorkerAssign`) and the entry in its in-flight map (`WorkerInsert`) are two, as
in the code, where the task may end before its entry is made: the entry then stays,
and an abort for it finds nothing to kill.

`late[s]` is a history variable: how far a `fail_machine` had come when `s` was
entered under its owner's name.  Nothing orders `dispatch` and `fail_machine`,
so a session entered after the scan is waited for although nobody will fail it;
`NoStranded` and `ResolvedUnlessTakenOver` are stated for all others, and the model
reaches both kinds.

The three statements on machine rows (`MarkOnline`, `FailOffline`, `BootReclaim`) may
fail, up to `MaxFaults`, and then only leave a log line: the machine is served, failed,
or the server up, with a row that says otherwise.  `muddled` (history) has the
names whose last operations overlapped or failed; `lapsed` the names whose lease
has lapsed.

### SessionEvents

The reader (`ReadLine`, `AgentCloses`) turns lines into numbered events through
the normalizer (`Normalized`, `OpenAfter`), and puts them on the way to the
persister: the reader itself in-process (`home = "local"`, it reads on only when
its sink has returned), `handle_machine` for a machine's frames (`home =
"remote"`).  `Insert` and `Publish` are the two halves of
`persist_session_event`.  The stage may fail before its dispatch (`StageDispatch`) and in its
settling UPDATE (`StageSettle`), both past the point that would settle the row; an abort may come at any
of its awaits, and its own UPDATE may fail or never be reached (`AbortSettle`, after which `task` is
"left").  The page mounts, fetches (`FetchStatus`, `FetchRows`:
two statements), polls while what it has says running, and follows the stream
(`StreamOpens`, `Message`, `StreamEnds`, `StreamBreaks`) until the first error
closes it for good.  `Cards` is `foldToolPairs`: `CardsOf` puts the rows one after the other
into cards (`Placed`), as the loop does.

Lines are abstracted to what becomes of them (`LineTypes`), a text message or a
call to its number.  Left out: contents and their truncation, rate-limit and
permission warnings (they are further `warning` events on the same path), a
refetch when the window regains focus (nothing may rely on it) and fetches that
fail (the query retries them).

### Ingress

The HTTP edge: every handler is a record in `req` with the statement it is at
(`at`) and its local variables, and one action per SQL statement.

| variables | code |
|---|---|
| `users`, `workspaces`, `members`, `cookies`, `workflows` | rows; `cookies` has the users with at least one unexpired `auth_sessions` row |
| `boot`, `devLogin` | the dev seed that `serve` awaits before it listens, and the setting it depends on |
| `req` | handlers in flight; `matched`, `todo`, `fired` belong to a delivery, `seen` is history: the workflows that were active at some time since it arrived |

A login is `Callback`, `UpsertUser`, `LookupHome`, `InsertWorkspace`, if the slug
is taken `InsertSuffixed`, then `InsertMember` and `MintCookie`.  A workflow request is
`LoadWorkflow` (not for a creation), `CheckAccess`, and `CreateWorkflow`,
`PatchWorkflow` or `FireWorkflow`.  A delivery is `Scan`, one `FireMatch` per match,
`Accepted`.  `Ends` drops a handler at any of them.  A slug is abstracted to the login
it is made of and whether it carries an id suffix (`bare`): only bare ones collide.

A few things the model makes visible that no comment denies, so that they are
neither findings nor forbidden by a property.  Two first logins of one account at the same time
both find no membership, and the account ends up with two personal
workspaces, one of them with a suffixed slug.  The dev seed joins a workspace that
has the slug "dev" whoever created it.  A delivery that arrives twice fires
twice.

### Rollout

Deployments `1..Last`, one process each.  A process boots (`Boot`: the migrations
statement by statement, then the reclaim), serves, and ends.

| variables | code |
|---|---|
| `ledger`, `applied`, `present` | `schema_migrations` and its rows; the files whose tables exist |
| `row` | `runs.status` |
| `wiped` | history: the processes that have not begun to migrate since the last reset |
| `pc`, `file`, `tx`, `todo`, `tasks` | per process: the statement of `serve` it is at, the file, its open transaction, the rows its reclaim selected, its live tasks |
| `mode`, `resets`, `active`, `retries` | the platform: how it replaces a deployment, which ones have `ONSAGER_RESET_SCHEMA`, who gets the requests, restarts |

A file and its record are one transaction (`Ddl`, `Commit`).  Before it ends,
another process that creates the same tables waits for it, and then fails
because they exist; its process exits and the platform restarts it
(`Restart`, at most `MaxRetries` times).  `mode` is "overlap" for what
`railway.toml` asks for: the old deployment is stopped once the new one answers its
health check (`Promote`, `Stop`); and "stop_first" for a restart in place.  A reset takes
the rows along (`"gone"`), and no UPDATE finds them again.

## Runs, bounds and what they show

All runs say `CHECK_DEADLOCK FALSE`: the system does stop, when every run is
settled and every session has ended.

| run | instance | states | properties |
|---|---|---|---|
| `scheduler_contention` | 2 runs, 1 stage, 1 slot, 1 abort, 1 crash; the second run's agent may deliver | 89 k | `SlotAccounting`, `LiveWithinCap`, `DispatchedOnce`, `RunsSettle`, `WaitersProceed` |
| `scheduler_recovery` | 1 run, 2 stages, 2 aborts, 1 fault, 2 crashes | 330 k | `TypeOK`, `NoZombieRun`, `NoZombieSession`, `CompletedMeansDelivered`, `LiveTaskAbortable`, `AuditTruthful`, `AuditCloses`, `VerdictsAreFinal`, `Contract` |
| `scheduler_abort_race` | as small as it gets | | `AbortedStaysAborted` is violated |
| `scheduler_stream` | as small as it gets | | `StreamEndsWithSession` is violated |
| `fleet_teardown` | 1 machine that may dial twice, 2 sessions that are alike; 1 of: broken link, lapsed lease, abort, crash | 1.66 M | `TypeOK`, `NoStranded`, `KilledOnlyIfAborted`, `Seam` |
| `fleet_lease` | 2 machines, one may dial twice, 1 session; 1 of: broken link, lapsed lease, abort, crash, failed statement | 257 k | `FailedForAReason`, `RowAgrees`, `NoLeak`, `ResolvedUnlessTakenOver` |
| `fleet_reconnect` | 1 machine that dials twice | | `ConnectedIsRegistered` is violated |
| `fleet_half_open` | 1 machine that dials twice, 1 session | | `SessionsResolve` is violated |
| `session_feed` | 5 scripts, channel of 1, 1 failed INSERT; both homes | 562 k | `TypeOK`, `ViewFaithful`, `FinalViewComplete`, `PairingAgrees`, `DraftSuperseded`, `ViewSettles` |
| `ingress_edge` | 2 accounts, 2 workflows, 3 requests two at a time, 1 fault, 1 crash | 1.16 M | `TypeOK`, `CookieHasHome`, `PersonalStaysPersonal`, `ErrorsAreFaults`, `FiredWhileActive`, `MatchesFired` |
| `rollout_handover` | 2 deployments, 3 files, 1 run, 1 fault, 1 crash, 5 retries; both modes, no reset or one by either deployment | 727 k | `TypeOK`, `RecordedIffPresent`, `ServesMigrated`, `OrphansReclaimed`, `VerdictsSurvive`, `ComesUp` |
| `rollout_overlap` | 2 deployments, 1 file, 1 run | | `NoZombieRow` is violated |

Why the bounds are enough to be interesting:

- *Two runs on one slot* is the smallest contention: the waiter's turn depends
  on every way the holder can go. The aborted run is the holder in some
  behaviours and the waiter in others.
- *Two aborts, two crashes*: two aborts of one run race each other as well as the
  task; the second crash can hit the reclaim after the first, half way.  One
  fault per behaviour is enough to reach every error path once; properties that
  a fault may break say so (`faults = 0 =>`).
- *Deliveries*: whether the waiter gets its turn does not depend on what the holder
  delivered, so in `scheduler_contention` only the second agent delivers; in
  `scheduler_recovery` both stages may, early, late or never.
- *Two connections of one machine* is the smallest instance in which an old
  handler meets a new registration; *two sessions on one machine* the smallest
  in which the failure or the kill of one could take the other along, or leave its
  entries; *two machines* the smallest in which a session could fail for somebody
  else's sake.  `fleet_teardown` has the first two, `fleet_lease` the first and
  the third.  What goes wrong is counted: a link
  that breaks, a lease that lapses although the link is up, an abort, a death of the control
  plane, a failed statement on a machine row.  `MaxMishaps` keeps their sum to one in these two
  runs.  A worker redials only a link that is down, so one mishap is what a redial
  costs; the death of the control plane breaks all links at once.  What takes two mishaps
  (a kill routed to a later connection that serves another session; two operations on one row
  that overlap, one of which fails) is beyond these instances and covered by the proofs,
  which hold for every bound.
- *A channel of one message* lags at the second event, where the code's 256 would
  need 257: every event after the first can be dropped.
- *Five scripts* between them have a drafted message, a message with a call in
  one line (two events), a duplicate result, interleaved calls of which the
  later is answered, an orphan result, an unknown line twice, and Result lines
  that say ok, error, or are missing; the agent may end after any line.
- *Three requests, two at a time* at the edge: two logins of one account, or of
  two accounts that want one slug, race and a third finds what they left; or a
  deactivation races a fire or a delivery.  Bob's login is the slug of the dev
  seed, so that all three ways to a taken slug occur.  The database is empty at
  first, or in use by one account with drafted workflows, which is what makes
  three requests enough to activate, fire and deactivate.

- *Two deployments, three files, five retries*: a file can cost a deployment at
  most one boot (after that somebody has applied it), the crash and the fault
  at most two more, so with five retries a process that does not come up would not be
  the restart policy's doing.  (`railway.toml:31` allows ten restarts for five files.)
  The reset may be that of the first deployment, booted long before the second
  begins, or that of the second, while the first serves.
  The second file refers to the first and the third to none, as in the
  repository (`002_run_loop.sql`, `003_github.sql`), so that processes can collide
  in tables, in references, and in neither.

Every property has a mutant in `PROJECT.json`: a plausible bug in one definition
(a permit returned twice, kill_on_drop forgotten, the reclaim taking settled
runs, an owner map keyed by connection, frames re-queued after a restart, events
numbered by line, persistence spawned instead of awaited, …) under which the
run finds that property violated.  The variants stand beside the definitions
they change (`X_Variant`) and are used by nothing else.

### What the properties mean

- `SlotAccounting`, `LiveWithinCap`: permits plus holders is always the cap, and
  live agents never exceed it.  Cancellation is what makes this non-trivial: a
  task may be dropped while it waits for a permit, while it holds one, or while
  its agent lives.
- `NoZombieRun`, `NoZombieSession`: a row that says running has somebody who
  will still settle it (`InCharge`).  Stated as an invariant, so it names the
  hand-overs: fire to task, task to abort, dead process to reclaim.
- `DispatchedOnce`, `VerdictsAreFinal`, `CompletedMeansDelivered`: the at-most-once
  contract of ADR 0030 D4.  `VerdictsAreFinal` excuses "aborted", which is the
  subject of the first finding.
- `AuditTruthful`, `AuditCloses`: a row's verdict and the event that reports it are two
  statements, of three kinds of writers (task, abort, reclaim) that interleave.  The
  first says that the record reports no verdict the row did not have, nor two; the
  second that a settled run gets the event of *its* status.  One exception is in the
  code and in the formula: an abort may drop the task between its last UPDATE and
  the event behind it, and then "run.aborted" is all that is said of a row that says
  completed or failed.
- `RunsSettle`, `WaitersProceed`: what is running settles, who waits for a slot
  gets on.
- `Contract`: Scheduler implements RunContract.  It is the one property that orders the
  dispatches: the second stage waits for what the first one *delivered*, not for its exit.
- `Seam`: Fleet implements SessionSeam.
- `NoStranded`, `ResolvedUnlessTakenOver`: a session that is waited for can be answered,
  and is.  The first is about the maps, the second about progress by the lease
  alone, with nobody told that the link is dead.  What can get in its way is a later
  connection under the same name: that is the fourth finding, where `SessionsResolve`, which
  does not except it, is violated.
- `FailedForAReason`: a session fails because its agent failed, a connection of its own
  machine broke, or its own machine's lease lapsed; never for what happens to another
  machine.  (An *older connection of its machine* may be the reason: machines are
  failed by name.)
- `RowAgrees`: once nobody is at work on a name, its row says online exactly if it is
  registered, through redials, lapses, crashes and statements that fail.  Two operations that overlap,
  or a failed UPDATE, can part them (`muddled`); what the property then
  says is that the next operation that begins alone, or the next boot, mends it.
- `NoLeak`, `KilledOnlyIfAborted`: the maps, and the routing of kill frames: to the
  aborted session's agent and not to the one beside it on the machine.
- `ViewFaithful`, `FinalViewComplete`, `PairingAgrees`, `ViewSettles`: the page
  shows what happened; with the final status "completed" it has all of it; it
  pairs as the normalizer did; and it learns that the session ended even when the
  stream was refused, lagged, broke, or is never closed.  The exception has a name,
  `Abandoned`: the row says running and nobody is left to settle it, because
  the stage failed past its settling UPDATE, that UPDATE itself failed, or the
  abort's did or was never reached.  Such a page polls until the next boot.
- `DraftSuperseded`: while the stream is up and has skipped nothing, a message is
  not shown twice, as a row and as a draft.  Rows come by one way and the
  message that clears the draft by the other.
- `RecordedIffPresent`, `ServesMigrated`: the ledger never lies about the tables, and a
  process that listens has them all, unless a reset dropped them after it had begun to
  migrate (`wiped`).
- `OrphansReclaimed`, `VerdictsSurvive`: if the old process is gone before the next
  one boots, a row that says running has a task or a reclaim ahead of it, and a
  reclaim never takes a verdict back.  That condition is what `rollout_overlap` is about.
- `ComesUp`: processes that collide in a migration do not keep each other down.
- `CookieHasHome`, `PersonalStaysPersonal`, `ErrorsAreFaults`: a login is resumable.
  Wherever an earlier one stopped, the next one mends what it left before a cookie
  exists, does not take over somebody's workspace on the way, and does not fail
  because of a race.
- `FiredWhileActive`, `MatchesFired`: the flag is read before the fire, so a
  deactivation may lose a race, but only one; and one failing fire does not
  take the others with it.

## Fairness

No fairness is assumed of anything that need not happen: aborts, crashes,
faults, breaks, expiring leases of healthy machines, dials.

- *Tasks are polled* (WF on every actor's steps): tokio's scheduler.  For the
  fire, abort and task steps of Scheduler the fair actions are those that succeed
  or advance.
- *The semaphore is FIFO* (tokio documents it), so a waiter that sees a permit
  become free again and again gets one: SF on `TaskAcquire`.
- *The boot finishes*: WF on `Boot`.
- *An agent ends*: WF on `AgentExits`, `AgentEnds`, `AgentCloses`.  This is an
  assumption about agents, not a fact of the code, which has no session
  deadline; a hung agent holds its slot until somebody aborts the run.
- *Fleet*: WF on the reaper's tick and on the silence of a connection that is
  down.  `HandlerNotices`, by which the control plane learns of a dead socket, is
  fair only while a frame is waiting to be retransmitted on it, which is when TCP
  reports it.  `WorkerNotices` and `Dial` are not fair at all.
- *Rollout*: WF on the boot of each deployment and on its restart.  Postgres answers
  also a statement that waits for the locks of another transaction, since the other
  one goes on or dies; deployments, requests and stops are not forced.
- *Page*: timers fire, requests are answered, what the channel holds is
  delivered.

## Where code and comments disagree

Five runs end in a violation, each of a sentence of the repository. They are
listed with quotations under "findings" in `PROJECT.json`.

1. **An aborted run can become completed or failed** (`scheduler_abort_race`).
   `finish` is unconditional, and the abort handle is registered after the row
   is visible. An abort in between finds nothing to kill.
2. **A stream does not end when an aborted session does** (`scheduler_stream`).
   The line that removes the feed is behind the await at which the task is
   dropped.
3. **A connected machine can be deregistered** (`fleet_reconnect`).  The teardown of
   an old connection works by name and removes the new one.
4. **A half-open socket can outlive its lease** (`fleet_half_open`).  A redial
   renews the name, and the sessions of the old connection are waited for without
   end if the control plane is not told of the dead socket.
5. **A rollout can leave a zombie run** (`rollout_overlap`).  The reclaim takes what
   "a dead predecessor left"; on a redeploy the predecessor is alive until the new
   process answers, and may fire a run after the reclaim has looked.  Stopped
   with its task, that run says running until the next boot.

Met while modelling, stated by no comment or a matter of words, and therefore not findings (the
hazard list has those with state, at their lines): a fire request whose client goes away
before the spawn leaves a running row until the next boot; a `?` between the
session's INSERT and the end of its UPDATE leaves that row running, and so does an abort whose
UPDATE of the session row fails; a machine row keeps saying online (or offline) after a
failed UPDATE until the machine's next registration or teardown; a session entered after
`fail_machine`'s scan is never failed; a stream requested between the session's
INSERT and its feed's registration gets the answer meant for ended sessions;
rows can land after an abort or an expired lease has made the status final, and
a page that has seen it does not fetch them; a stream that broke or skipped a message
leaves its draft beside the row (`SessionFeed.tsx:18-19` speaks of the row's arrival,
lines 52-68 clear it on the stream's message); while two deployments overlap, the reclaim of the new
one overturns what the tasks of the old one are about to write, and the other way
round.

## What is proved

For any number of runs, stages, slots, abort requests, faults and crashes
(`Scheduler_proofs`, `Verdict_proofs`, `Settle_proofs`); of machines, connections,
sessions, lapses, aborts and crashes (`Fleet_proofs`); of accounts, logins,
workflows, requests, faults and crashes (`Ingress_proofs`); of deployments, files, runs,
retries, faults and crashes (`Rollout_proofs`); of scripts, of places in the feed channel and of
failed INSERTs (`SessionEvents_proofs`, `Page_proofs`):

| theorem | module | says |
|---|---|---|
| `TypeCorrect` | `Scheduler_proofs` | `Spec => []TypeOK` |
| `SlotsAccounted` | `Scheduler_proofs` | `Spec => []SlotAccounting` |
| `CapRespected` | `Scheduler_proofs` | `Spec => []LiveWithinCap` |
| `NoZombies` | `Verdict_proofs` | `Spec => []NoZombieRun` |
| `VerdictsFinal` | `Verdict_proofs` | `Spec => VerdictsAreFinal` (an action property) |
| `AtMostOnce` | `Verdict_proofs` | `Spec => DispatchedOnce` (an action property) |
| `CompletedDelivered` | `Verdict_proofs` | `Spec => []CompletedMeansDelivered` |
| `TasksAbortable` | `Verdict_proofs` | `Spec => []LiveTaskAbortable` |
| `KeepsContract` | `Verdict_proofs` | `Spec => Contract` (Scheduler implements RunContract) |
| `AbortsOverruled` | `Verdict_proofs` | `Spec => OverruledByTask`: who overrules an abort |
| `StreamsEndUnlessAborted` | `Verdict_proofs` | `Spec => []FeedsWatched`: which feeds outlive their session |
| `NoZombieSessions` | `Settle_proofs` | `Spec => []NoZombieSession` |
| `AuditsTruthful` | `Settle_proofs` | `Spec => []AuditTruthful` |
| `AuditsClose` | `Settle_proofs` | `Spec => []AuditCloses` |
| `FleetTypes` | `Fleet_proofs` | `Spec => []TypeOK` |
| `NothingLeaks` | `Fleet_proofs` | `Spec => []NoLeak` |
| `KillsTargeted` | `Fleet_proofs` | `Spec => []KilledOnlyIfAborted` |
| `NobodyStranded` | `Fleet_proofs` | `Spec => []NoStranded` |
| `ImplementsSeam` | `Fleet_proofs` | `Spec => Seam` (Fleet implements SessionSeam) |
| `FailuresHaveReasons` | `Fleet_proofs` | `Spec => []FailedForAReason` |
| `RowsAgree` | `Fleet_proofs` | `Spec => []RowAgrees` |
| `RegisteredUnlessBlamed` | `Fleet_proofs` | `Spec => []Registered`: how long the served connection is the registered one |
| `FeedTypes` | `SessionEvents_proofs` | `Spec => []TypeOK` |
| `ViewsFaithful` | `SessionEvents_proofs` | `Spec => []ViewFaithful` |
| `FinalViewsComplete` | `SessionEvents_proofs` | `Spec => []FinalViewComplete` |
| `PairingsAgree` | `Page_proofs` | `Spec => []PairingAgrees` |
| `DraftsSuperseded` | `Page_proofs` | `Spec => []DraftSuperseded` |
| `RolloutTypes` | `Rollout_proofs` | `Spec => []TypeOK` |
| `LedgerTrue` | `Rollout_proofs` | `Spec => []RecordedIffPresent` |
| `ServingMigrated` | `Rollout_proofs` | `Spec => []ServesMigrated` |
| `NoOrphans` | `Rollout_proofs` | `Spec => []OrphansReclaimed` |
| `VerdictsKept` | `Rollout_proofs` | `Spec => VerdictsSurvive` (an action property) |
| `IngressTypes` | `Ingress_proofs` | `Spec => []TypeOK` (with foreign keys and unique slugs) |
| `CookiesHaveHomes` | `Ingress_proofs` | `Spec => []CookieHasHome` |
| `PersonalWorkspaces` | `Ingress_proofs` | `Spec => []PersonalStaysPersonal` |
| `NoSpuriousErrors` | `Ingress_proofs` | `Spec => []ErrorsAreFaults` |
| `FiresActive` | `Ingress_proofs` | `Spec => []FiredWhileActive` |
| `DeliveriesFire` | `Ingress_proofs` | `Spec => []MatchesFired` |

The proofs rest on the assumptions named in the modules.  `Scheduler`: the set of runs is finite (it is
counted), the cap and the number of stages are positive (`config.rs:44-48`
floors the cap at one; `http/workflows.rs:101` refuses a workflow without a
stage), and each
abort request names a run.  `Ingress` assumes that the dev user is no GitHub account (its
`github_id` is -1), that there are workspace ids and finitely many workflows (their lost
fires are counted), and that no label is called like the manual trigger, which
is a kind of its own in the code.  `Fleet` assumes that each
connection is dialled by one of the names, and that "no connection", "no name" and the
reaper are none of them.  `Rollout` assumes that there is a deployment and a file, and that a file
refers to earlier ones only.  `SessionEvents` assumes that the feed channel has room for a message
(`scheduler.rs:209` makes it 256) and that scripts are made of the line types it knows.

**`SlotInv`** is the first inductive invariant: `TypeOK`, `SlotAccounting`, and two
facts they need.  `Unspawned`: a run whose fire handler has not spawned has no
task, so the spawn creates a holder out of nothing.  `AgentsAwaited`: a live
agent belongs to the stage its task waits for.  `TypeOK` is not inductive alone:
that `permits + 1` stays within the cap when a task ends *is* the slot
accounting (`HolderRoom`: one who holds a permit leaves room for one more).
Most steps leave the set of holders as it is (`SameHolders`); the permit goes
back with the holder in `TaskRecord` and `TaskDropped` (`HolderLeaves`).
`CapRespected` follows by an injection from agents to holders.

**`RunInv`** adds what the verdicts rest on:

| conjunct | why it is needed |
|---|---|
| `FreshRuns` | the fire handler's INSERT must not overwrite a verdict, and no abort knows a run that was not fired |
| `Undecided` | a task that has not written its verdict finds none but "aborted" |
| `ReclaimAlone` | while the reclaim works nobody else writes: handlers and tasks died with the old process, and none is accepted yet |
| `ReclaimsRunning` | what the reclaim selected still says running, so it overturns nothing |
| `Unstarted` | a spawned task is at stage one and not cancelled, so it is in charge |
| `PastDelivered` | the loop has delivered everything behind it; at `finish_ok` that is every stage |
| `FutureUnlaunched` | what is ahead of the task was never dispatched |

Each is kept by every step (one lemma per conjunct, one step per actor); the
frame lemmas (`TaskMoves`, `TaskVerdict`, `TaskStage`, `DropFrame`, `AgentFrame`,
`AbortFrame`, `BootFrame`) say once what each actor leaves alone.  Both
invariants were checked by TLC on the instances of the two passing Scheduler
runs before they were proved.

**The contract** needs two facts more.  `RowFirst`: nobody works for a run that has no row;
`Traced`: agents, calls under way and deliveries are those of dispatched sessions.
Then each step of Scheduler is one of RunContract or a stutter (`ContractStep`): a launch is
a `Dispatch`, since `PastDelivered` says what lies behind the stage and
`FutureUnlaunched` that the stage itself was not dispatched (`BehindFinished`); `TaskFinish` is a
`Conclude`, the reclaim's UPDATE one with "failed", a landing call a `Deliver`.

**How far two violated comments hold.**  `FeedsWatched` is inductive beside `SlotInv`: each feed
belongs to the session its run waits for, or its task was dropped *after an abort*.  So only aborted
runs leave a stream open, and none has a feed of an earlier stage.  `OverruledByTask`, an action property: what
leaves "aborted" is the last UPDATE of the run's own task, which either was asked to stop while that
statement was on its way, or could not be found because its handle is registered late.  The two
orders of the first finding are all there are; in particular no reclaim overrules an abort.

**`SettleInv`** adds what becomes of a session when its run does not go on as usual.
`SettledBehind`: behind the settling UPDATE the current session, if dispatched, is not running.
`Watched` strengthens `NoZombieSession` to sessions that are inserted
and not dispatched when their task is cancelled: the task may have one more
step, which may dispatch the session, so the abort must have it in its sight before.
`VerdictsRecorded`: a verdict has its own event or a task that is about to write it, an abort or a
cancelled task has "run.aborted" or a handler that is; `AuditCloses` is what is left of it when no
actor is.  `Truthful`, for `AuditTruthful` and through any number of crashes: an event that names a verdict
comes behind the UPDATE of that verdict and behind all else the task does, and who is about to
write one (the task at "record", the reclaim with a run in `noted`) finds the row as it left it, or aborted.

**`IInv`** of `Fleet_proofs` follows a session on its way:

| conjunct | why it is needed |
|---|---|
| `Picked` | a dispatch under way holds a connection |
| `Fresh` | before a session is enlisted no map knows it, before it is sent there is no agent |
| `Frames` | its one assignment waits on the connection it was picked for, while its agent has not started; so an agent starts once |
| `Reports` | a frame that says ok is that of an agent that finished well |
| `Answered` | an answer takes the map entries with it, and "ok" is an agent's word |
| `Held` | until it is answered, a session that was entered before the scan is in both maps, and its connection's handler has not scanned |

`Seam` needs `Frames` (one start), `Reports` and `Answered` ("ok" only of a
finished agent), and that no step changes a verdict (`VerdictKept`); each step
of Fleet is then a start, an end, a decision about some sessions, or a stutter
(`SeamStep`).  A crash is the decision about several at once.

**`Reasons`** of `Fleet_proofs` is about failures.  `Blamed` names have had a broken connection or a
lapse; blame is never taken back.  `Suspects`: who is in the
middle of failing a name, or holds it in the reaper's list, has a blamed one; and the map of connections only
leads from a name to a connection that dialled in under it.  `Owned`: the map's owner of
a session is the machine it was picked for.  `Complaints`: a frame that says "failed" is of an agent
that did.  Then an error is the agent's, or its machine is blamed, however often it is
redialled.

**`Orderly`** of `Fleet_proofs` is about rows.  An operation on a name (a registration, a teardown, the reaper's)
that begins while another is at work on it, or whose statement fails, makes the name `muddled`, and one that
begins alone makes an end of that.  For names that are not muddled: `Alone`, at most one operation is at work;
`Begun`, it has left the registry as it wants the row to be; `Agrees`, when none is, row and registry agree.  `Tearing` and `AtRest` say
who can be at work at all, in particular nobody before the boot is over.  No hypothesis on who
redials is needed.  `Registered` with `Served` (until it breaks, a link is the one its worker serves) is what remains of "a
machine registers on WS connect, deregisters on disconnect" for all behaviours.

**`IInv`** of `SessionEvents_proofs` follows a row from the normalizer to the page:

| conjunct | why it is needed |
|---|---|
| `TypeInv` | `TypeOK`, and that a line makes at most two events: what bounds the numbers |
| `Control` | what the task's program counter says of the agent, the feed and the path; a dropped local task takes its agent and its persister along |
| `Origin` | every row, whether in the database, under way or shown, is a produced event under its number |
| `Ordered` | the rows are in the order of their numbers, and what the persister and the path hold is behind them in order; so the unique index refuses nothing and `ORDER BY` moves nothing |
| `EndsLast` | nothing comes behind the frame that ends a machine's session |
| `InPlace`, `Gapless` | if no INSERT failed, the rows are the first of the events, and while the feed is there all others are on their way |
| `Done`, `Seen` | a session completes when nothing moves any more, and who has read that reads all rows after it |

`SortSeq` is out of the prover's reach, so the `ORDER BY` of the fetch is stated by
ranks (`InOrder`): `RankOfRow` counts the rows before one.

**`Page_proofs`** adds two invariants to that one.  `Paired` compares the two pairings: the normalizer's
map has exactly the calls that are open in what was produced (`OpenIn`: a use without a result behind it), every
result carries the number of a call open at its place, or none.  Folding such events into cards keeps
"the card waits" and "the call is open" together (`AgreeNext`), so no result ends up in another's card.  The
fold is a recursive function and the claim one about each of its prefixes; the library's induction
theorems being unusable, `Least` (every set of numbers that has one has a least one, from well-foundedness)
gives the first prefix at which it fails, and the step leads to a contradiction.  That the recursive function
exists at all is shown in the same way (`CardsExist`, `CardsFold`).
`Drafting` follows a message from its delta to its row: `Behind`, deltas are ahead of
their row in the outbox; `Written`, rows have the numbers of messages that were read; `Shut`, a stream that is not open has nothing;
`Shown`, the page's rows are rows.  `Superseded` ties them up: whatever draft or delta of a message that has its row is
still about, its message is behind it in the stream, or about to be sent.

**`IInv`** of `Rollout_proofs`: what a process has in its hands at each program counter
(`Local`); a process has the files behind it unless the schema was dropped since it began (`Progress`, `wiped`); and, when the old process is
stopped first, that all earlier deployments are gone (`OneAtATime`), that what a task or a reclaim holds
has no verdict yet (`Unsettled`), and that no row is overlooked (`Reclaimed`).

**`IInv`** of `Ingress_proofs` says what each handler may rely on at each of its statements
although all others run in between.  `LoginInv`: its user has a row once
upserted, the workspace at "join" exists and is its user's own, and at "mint" the
user has a home.  `WorkflowInv`: the workflow and workspace named by a request exist,
and its user is a member once it acts.  `SeenInv`: whatever it has read as active is
in its history.  `LostInv`: matches that are neither fired nor still to be fired number at most
the faults.  `BootInv`: the seed runs alone, and a server with dev login has a dev user with a home.
The argument has one idea, stated in `RowsKept`: no statement of
these handlers deletes a row of the tables a handler remembers (only
cookies go), so `Bystander` preserves what a handler knows under every step of
another one, and `StepInv` reduces an action to the handler that moves and to
what it does to the database (`DbStep`).  `PatchWorkflow` alone touches what other handlers
carry, the history variable `seen` (`NoticedInv`).

## What is only model-checked, and what is not modelled

Only model-checked:

- every liveness property (`RunsSettle`, `WaitersProceed`, `ResolvedUnlessTakenOver`,
  `ViewSettles`, `ComesUp`): fairness and ENABLED are out of the prover's reach.

Every other property of a passing run is a theorem.

Not modelled:

- *In modelled components*: wall-clock time (leases, intervals and the delay before a
  redial are nondeterministic), process ids and their reuse, two
  workers that use the same name, the contents of frames, prompts and payloads,
  list endpoints.
- *GitHub*: installation rows (each event is one idempotent statement, and nothing in
  the model reads them), and the repository token that a fire mints from them.
  Which repository a delivery is about is part of the event's name; the code
  compares it without regard to case (`github.rs:144`), and so does the model
  by not telling the cases apart.
- *Whole components*, and why: the credential endpoints are single statements; the
  GitHub client is stateless requests and parsing, and its listing calls have no
  callers yet; configuration is read once; the rest of the dashboard renders what it polls; build
  and test scripts are no program logic; AES-GCM is cryptography.

## Plan

Written, in the order of what matters most: Scheduler with its proofs and its
contract, SessionSeam, Fleet with its proofs, SessionEvents with its proofs, Ingress with its proofs,
Rollout with its proofs.

What could follow:

1. A composition of Scheduler over SessionSeam instead of in-process agents: the
   same safety properties with remote sessions.  `Seam` says that it is sound.
2. Abstract specifications of a login (resumable, one home) and of a rollout, as RunContract is
   of a run.
3. Installation rows, once something that is modelled depends on their order.
