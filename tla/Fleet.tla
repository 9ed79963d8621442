-------------------------------- MODULE Fleet --------------------------------
(***************************************************************************)
(* The fleet: machines dial in over WebSockets, the control plane          *)
(* dispatches sessions to them, and a lease reaper gives up on machines    *)
(* that go silent.  The state has three parts: the control plane's maps    *)
(* (name -> connection, session -> completion channel, session -> owning   *)
(* name), one handle_machine task per connection, and the workers with     *)
(* their agents.  Connections break without either side being told; each   *)
(* side notices, if it does, on its own.                                   *)
(*                                                                         *)
(* Every action is one section under a lock, or one awaited step.  Session *)
(* events and deltas are left to the module on session events: here a      *)
(* worker frame is Ended, or a heartbeat.                                  *)
(***************************************************************************)
EXTENDS Naturals, Sequences, FiniteSets

CONSTANTS
    Names,        \* machine names; one worker process per name
    Conns,        \* connection incarnations: how often workers may dial
    Owner,        \* the name each of them dials in with
    Sessions,     \* remote-eligible sessions, each dispatched at most once
    NoConn, NoName, Reaper,
    MaxLapses,    \* bound: machines whose lease lapses although the link is up
    MaxAborts,    \* bound: aborted runs
    MaxCrashes,   \* bound: deaths of the control plane
    MaxFaults,    \* bound: statements on the machine rows that fail
    MaxMishaps    \* bound: all of these together, and broken links

ASSUME OwnerAssumption == Owner \in [Conns -> Names]
ASSUME NoConnAssumption == NoConn \notin Conns
ASSUME NoNameAssumption == NoName \notin Names
ASSUME ReaperAssumption == Reaper \notin Conns
ASSUME BoundsAssumption ==
    /\ MaxLapses \in Nat /\ MaxAborts \in Nat /\ MaxCrashes \in Nat
    /\ MaxFaults \in Nat /\ MaxMishaps \in Nat

VARIABLES
    (* control plane: shared maps *)
    machines,     \* AppState.machines: name -> connection, or NoConn
    pending,      \* AppState.pending: sessions with a completion sender
    remote,       \* AppState.remote_sessions: session -> name, or NoName
    row,          \* machines.status in Postgres
    (* control plane: one handle_machine per connection, and the reaper *)
    handler,      \* program counter of handle_machine
    writer,       \* the outgoing pump still holds the channel's receiver
    stale,        \* last_seen is more than MACHINE_TIMEOUT ago
    failPc,       \* program counter of fail_machine, per caller
    reapList,     \* names the reaper snapshotted and has not failed yet
    reapName,     \* the name the reaper is failing
    booted,       \* the machine rows have been reclaimed at boot
    (* control plane: dispatch *)
    disp,         \* program counter of dispatch
    tx,           \* the connection it picked
    answer,       \* what was sent on the completion channel
    cancelled,    \* sessions whose dispatching task was aborted
    routing,      \* aborted sessions whose kill frame is not routed yet
    (* network *)
    link,         \* "none", "up", "down"
    down, up,     \* frames to the worker, frames to the control plane
    (* workers *)
    wconn,        \* the connection a worker serves
    entering,     \* per connection: a session spawned and not yet in flight
    inflight,     \* per connection: sessions the worker can abort
    agent,        \* the agent process of a session
    (* environment and history *)
    lapsed,       \* machines whose lease has lapsed although the link was up
    aborts, crashes, faults,
    late,         \* how late a session was entered under its owner's name
    muddled       \* names whose registration and row were last changed by
                  \* operations that overlapped, or of which a statement failed

mapVars == <<machines, pending, remote, row, muddled>>
connVars == <<handler, writer, stale>>
failVars == <<failPc, reapList, reapName>>
dispVars == <<disp, tx, answer, cancelled, routing, late>>
netVars == <<link, down, up>>
workVars == <<wconn, entering, inflight, agent>>
envVars == <<lapsed, aborts, crashes, faults>>
vars == <<mapVars, connVars, failVars, booted, dispVars, netVars, workVars,
          envVars>>

Failers == Conns \cup {Reaper}
Frame == [t : {"assign", "abort"}, s : Sessions]
Ended == [s : Sessions, ok : BOOLEAN]

Init ==
    /\ machines = [n \in Names |-> NoConn]
    /\ pending = {}
    /\ remote = [s \in Sessions |-> NoName]
    /\ row = [n \in Names |-> "absent"]
    /\ handler = [c \in Conns |-> "none"]
    /\ writer = [c \in Conns |-> FALSE]
    /\ stale = [c \in Conns |-> FALSE]
    /\ failPc = [f \in Failers |-> "idle"]
    /\ reapList = {} /\ reapName = NoName
    /\ booted = TRUE
    /\ disp = [s \in Sessions |-> "idle"]
    /\ tx = [s \in Sessions |-> NoConn]
    /\ answer = [s \in Sessions |-> "none"]
    /\ cancelled = {} /\ routing = {}
    /\ link = [c \in Conns |-> "none"]
    /\ down = [c \in Conns |-> <<>>] /\ up = [c \in Conns |-> <<>>]
    /\ wconn = [n \in Names |-> NoConn]
    /\ entering = [c \in Conns |-> {}] /\ inflight = [c \in Conns |-> {}]
    /\ agent = [s \in Sessions |-> "none"]
    /\ lapsed = {} /\ aborts = 0 /\ crashes = 0 /\ faults = 0
    /\ muddled = {}
    /\ late = [s \in Sessions |-> "no"]

(* One mishap more is within the bound.  A crash breaks links, too. *)
Broken == {c \in Conns : link[c] = "down"}
More ==
    Cardinality(lapsed) + aborts + crashes + faults + Cardinality(Broken) < MaxMishaps

(* Every statement on the machine rows may fail; the code only logs it.    *)
Statement(ok) ==
    /\ ok \/ (faults < MaxFaults /\ More)
    /\ faults' = IF ok THEN faults ELSE faults + 1

(* Registering and failing a name changes its registration first and its   *)
(* row later; the handler or reaper in between is at work on the name.  An *)
(* operation that begins while another is at work muddles the name, one    *)
(* that begins alone and whose statement succeeds sets it right.           *)
AtWork(n) ==
    \/ \E c \in Conns : Owner[c] = n /\ handler[c] \in {"mark", "teardown"}
    \/ reapName = n
Begins(n) == muddled' = IF AtWork(n) THEN muddled \cup {n} ELSE muddled \ {n}
Writes(n, status, ok) ==
    /\ Statement(ok)
    /\ row' = IF ok THEN [row EXCEPT ![n] = status] ELSE row
    /\ muddled' = IF ok THEN muddled ELSE muddled \cup {n}

-----------------------------------------------------------------------------
(* remote_sessions without the sessions in S.  Variant: entries stay.      *)
Forgotten_Never(S) == remote
Forgotten(S) == [s \in Sessions |-> IF s \in S THEN NoName ELSE remote[s]]

(* connect_and_serve and handle_machine: a worker without a connection     *)
(* dials; the handler inserts the connection under the name, whatever was  *)
(* there, and then upserts the row.  It serves on if the upsert fails.      *)

Dial(c) ==
    /\ booted
    /\ link[c] = "none"
    /\ wconn[Owner[c]] = NoConn
    /\ link' = [link EXCEPT ![c] = "up"]
    /\ wconn' = [wconn EXCEPT ![Owner[c]] = c]
    /\ handler' = [handler EXCEPT ![c] = "register"]
    /\ UNCHANGED <<mapVars, writer, stale, failVars, booted, dispVars, down, up,
                   entering, inflight, agent, envVars>>

Register(c) ==
    /\ handler[c] = "register"
    /\ machines' = [machines EXCEPT ![Owner[c]] = c]
    /\ handler' = [handler EXCEPT ![c] = "mark"]
    /\ writer' = [writer EXCEPT ![c] = TRUE]
    /\ Begins(Owner[c])
    /\ UNCHANGED <<pending, remote, row, stale, failVars, booted, dispVars,
                   netVars, workVars, envVars>>

MarkOnline(c, ok) ==
    /\ handler[c] = "mark"
    /\ Writes(Owner[c], "online", ok)
    /\ handler' = [handler EXCEPT ![c] = "loop"]
    /\ UNCHANGED <<machines, pending, remote, writer, stale, failVars, booted,
                   dispVars, netVars, workVars, lapsed, aborts, crashes>>

(* An Ended frame: any frame refreshes the lease; the session is forgotten *)
(* and its waiter, if it still has one, gets the outcome.                  *)
HandleEnded(c) ==
    /\ handler[c] = "loop" /\ link[c] = "up" /\ up[c] # <<>>
    /\ LET s == Head(up[c]).s IN
        /\ remote' = Forgotten({s})
        /\ pending' = pending \ {s}
        /\ answer' = IF s \in pending
                     THEN [answer EXCEPT ![s] = IF Head(up[c]).ok THEN "ok" ELSE "err"]
                     ELSE answer
    /\ up' = [up EXCEPT ![c] = Tail(@)]
    /\ stale' = [stale EXCEPT ![c] = FALSE]
    /\ UNCHANGED <<machines, row, muddled, handler, writer, failVars, booted, disp,
                   tx, cancelled, routing, late, link, down, workVars,
                   envVars>>

(* A heartbeat gets through. *)
HandleHeartbeat(c) ==
    /\ handler[c] = "loop" /\ link[c] = "up" /\ wconn[Owner[c]] = c
    /\ stale[c]
    /\ stale' = [stale EXCEPT ![c] = FALSE]
    /\ UNCHANGED <<mapVars, handler, writer, failVars, booted, dispVars, netVars,
                   workVars, envVars>>

(* fail_machine, called by a handler's teardown and by the reaper, always  *)
(* by name: the registration, the sessions and the row, in this order.     *)
FailRemove(f, n) ==
    /\ machines' = [machines EXCEPT ![n] = NoConn]
    /\ failPc' = [failPc EXCEPT ![f] = "fail"]
    /\ Begins(n)

(* The read loop ends; the outgoing pump is told to stop and fail_machine  *)
(* removes whatever connection is registered under the name.               *)
HandlerNotices(c) ==
    /\ handler[c] = "loop" /\ link[c] = "down"
    /\ handler' = [handler EXCEPT ![c] = "teardown"]
    /\ FailRemove(c, Owner[c])
    /\ UNCHANGED <<pending, remote, row, writer, stale, reapList, reapName, booted,
                   dispVars, netVars, workVars, envVars>>

(* The pump drops the channel's receiver: it was aborted, or its socket    *)
(* failed under a frame.  Only a holder of the sender can tell.            *)
WriterGone(c) ==
    /\ writer[c]
    /\ \/ machines[Owner[c]] = c
       \/ \E s \in Sessions : tx[s] = c /\ disp[s] \in {"enlist", "send"}
    /\ link[c] = "down" /\ handler[c] \in {"loop", "teardown", "closed"}
    /\ writer' = [writer EXCEPT ![c] = FALSE]
    /\ UNCHANGED <<mapVars, handler, stale, failVars, booted, dispVars, netVars,
                   workVars, envVars>>

-----------------------------------------------------------------------------
(* The rest of fail_machine. *)

FailName(f) == IF f = Reaper THEN reapName ELSE Owner[f]

(* The sessions of a name, and those of them that still have a waiter.     *)
(* Variants: only those already sent; those of every machine.              *)
OwnedBy_Sent(n) == {s \in Sessions : remote[s] = n /\ disp[s] = "await"}
OwnedBy_All(n) == {s \in Sessions : remote[s] # NoName}
OwnedBy(n) == {s \in Sessions : remote[s] = n}
Waiting(S) == S \cap pending

FailSessions(f) ==
    LET owned == OwnedBy(FailName(f)) IN
    /\ failPc[f] = "fail"
    /\ remote' = Forgotten(owned)
    /\ pending' = pending \ owned
    /\ answer' = [s \in Sessions |->
                     IF s \in Waiting(owned) THEN "err" ELSE answer[s]]
    /\ failPc' = [failPc EXCEPT ![f] = "offline"]
    /\ UNCHANGED <<machines, row, muddled, connVars, reapList, reapName, booted,
                   disp, tx, cancelled, routing, late, netVars, workVars, envVars>>

(* The UPDATE finds no row if the upsert has not been there yet.  After it *)
(* the caller returns, also if it failed: a handler drops its socket and   *)
(* the lease that goes with it.                                            *)
FailOffline(f, ok) ==
    LET n == FailName(f) IN
    /\ failPc[f] = "offline"
    /\ Writes(n, IF row[n] = "absent" THEN "absent" ELSE "offline", ok)
    /\ failPc' = [failPc EXCEPT ![f] = "idle"]
    /\ handler' = [c \in Conns |-> IF c = f THEN "closed" ELSE handler[c]]
    /\ stale' = [c \in Conns |-> IF c = f THEN FALSE ELSE stale[c]]
    /\ down' = [c \in Conns |-> IF c = f THEN <<>> ELSE down[c]]
    /\ reapName' = IF f = Reaper THEN NoName ELSE reapName
    /\ UNCHANGED <<machines, pending, remote, writer, reapList, booted, dispVars,
                   link, up, workVars, lapsed, aborts, crashes>>

(* reap_stale_machines: snapshot the stale names under the lock, then fail *)
(* them one after the other; the connections themselves are left alone.    *)
(* Variants: only machines without sessions expire; every machine does.    *)
Expired_All == {n \in Names : machines[n] # NoConn}
Expired_Idle == {n \in Names : /\ machines[n] # NoConn /\ stale[machines[n]]
                               /\ OwnedBy(n) = {}}
Expired == {n \in Names : machines[n] # NoConn /\ stale[machines[n]]}

ReapScan ==
    /\ booted
    /\ failPc[Reaper] = "idle" /\ reapList = {}
    /\ Expired # {}
    /\ reapList' = Expired
    /\ UNCHANGED <<mapVars, connVars, failPc, reapName, booted, dispVars, netVars,
                   workVars, envVars>>

ReapNext(n) ==
    /\ failPc[Reaper] = "idle" /\ n \in reapList
    /\ reapList' = reapList \ {n}
    /\ reapName' = n
    /\ FailRemove(Reaper, n)
    /\ UNCHANGED <<pending, remote, row, connVars, booted, dispVars, netVars, workVars,
                   envVars>>

-----------------------------------------------------------------------------
(* dispatch: pick a machine, enlist the session, send the assignment, wait. *)

PickMachine(s) ==
    /\ booted
    /\ disp[s] = "idle"
    /\ \E n \in Names :
        /\ machines[n] # NoConn
        /\ tx' = [tx EXCEPT ![s] = machines[n]]
    /\ disp' = [disp EXCEPT ![s] = "enlist"]
    /\ UNCHANGED <<mapVars, connVars, failVars, booted, answer, cancelled, routing,
                   late,
                   netVars, workVars, envVars>>

(* No machine connected: the session runs in-process, out of this model. *)
RunLocally(s) ==
    /\ booted
    /\ disp[s] = "idle"
    /\ \A n \in Names : machines[n] = NoConn
    /\ disp' = [disp EXCEPT ![s] = "local"]
    /\ UNCHANGED <<mapVars, connVars, failVars, booted, tx, answer, cancelled,
                   routing, late,
                   netVars, workVars, envVars>>

(* What remote_sessions keeps as the owner.  Variant: the connection.      *)
OwnerKey_Conn(s) == tx[s]
OwnerKey(s) == Owner[tx[s]]

(* The scans of fail_machine that will not see a session entered from now  *)
(* on: that of the connection's own handler, and that of every other one.  *)
TornDown(c) == handler[c] = "closed" \/ failPc[c] = "offline"
Deregistered(c) ==
    /\ machines[Owner[c]] # c
    /\ \A f \in Failers : FailName(f) = Owner[c] => failPc[f] # "fail"

(* The completion channel goes in before the owner: whoever finds the one  *)
(* finds the other, so the two inserts are one action.                     *)
Enlist(s) ==
    /\ disp[s] = "enlist"
    /\ pending' = pending \cup {s}
    /\ remote' = [remote EXCEPT ![s] = OwnerKey(s)]
    /\ late' = [late EXCEPT ![s] = IF TornDown(tx[s]) THEN "torn_down"
                                   ELSE IF Deregistered(tx[s]) THEN "deregistered"
                                   ELSE "no"]
    /\ disp' = [disp EXCEPT ![s] = "send"]
    /\ UNCHANGED <<machines, row, muddled, connVars, failVars, booted, tx, answer,
                   cancelled, routing, netVars, workVars, envVars>>

(* The unbounded channel takes a frame as long as its receiver lives.  A   *)
(* frame on a broken link stays there, retransmitted in vain.              *)
Transmit(c, t, s) == down' = [down EXCEPT ![c] = Append(@, [t |-> t, s |-> s])]

SendAssign(s) ==
    LET c == tx[s] IN
    /\ disp[s] = "send"
    /\ writer[c]
    /\ Transmit(c, "assign", s)
    /\ disp' = [disp EXCEPT ![s] = "await"]
    /\ UNCHANGED <<mapVars, connVars, failVars, booted, tx, answer, cancelled,
                   routing, late,
                   link, up, workVars, envVars>>

SendFails(s) ==
    /\ disp[s] = "send"
    /\ ~writer[tx[s]]
    /\ pending' = pending \ {s}
    /\ remote' = Forgotten({s})
    /\ disp' = [disp EXCEPT ![s] = "err"]
    /\ UNCHANGED <<machines, row, muddled, connVars, failVars, booted, tx, answer,
                   cancelled, routing, late, netVars, workVars, envVars>>

(* What the scheduler makes of an answer.  Variant: it tries again.        *)
Outcome_Retry(s) == IF answer[s] = "err" THEN "idle" ELSE answer[s]
Outcome(s) == answer[s]

Receive(s) ==
    /\ disp[s] = "await"
    /\ answer[s] # "none"
    /\ disp' = [disp EXCEPT ![s] = Outcome(s)]
    /\ UNCHANGED <<mapVars, connVars, failVars, booted, tx, answer, cancelled,
                   routing, late,
                   netVars, workVars, envVars>>

(* abort_run cancels the task, which is dropped when it next waits, and    *)
(* then routes a kill frame to the machine the session's owner name maps   *)
(* to by then, if any.  The two race the steps of dispatch, which are      *)
(* synchronous and cannot be interrupted.                                  *)
InFlight == {"enlist", "send", "await"}

AbortTask(s) ==
    /\ disp[s] \in InFlight /\ s \notin cancelled
    /\ aborts < MaxAborts /\ More
    /\ aborts' = aborts + 1
    /\ cancelled' = cancelled \cup {s}
    /\ routing' = routing \cup {s}
    /\ UNCHANGED <<mapVars, connVars, failVars, booted, disp, tx, answer, late,
                   netVars, workVars, lapsed, crashes, faults>>

DropTask(s) ==
    /\ s \in cancelled /\ disp[s] = "await"
    /\ disp' = [disp EXCEPT ![s] = "aborted"]
    /\ UNCHANGED <<mapVars, connVars, failVars, booted, tx, answer, cancelled,
                   routing, late, netVars, workVars, envVars>>

(* The connection a kill frame for s is sent on. *)
AbortRoute(s) == IF remote[s] = NoName THEN NoConn ELSE machines[remote[s]]

RouteAbort(s) ==
    LET c == AbortRoute(s) IN
    /\ s \in routing
    /\ routing' = routing \ {s}
    /\ IF c # NoConn /\ writer[c] THEN Transmit(c, "abort", s) ELSE UNCHANGED down
    /\ UNCHANGED <<mapVars, connVars, failVars, booted, disp, tx, answer,
                   cancelled, late, link, up, workVars, envVars>>

-----------------------------------------------------------------------------
(* The worker: it serves the frames of its connection; agents run on when  *)
(* the connection is gone, and report on the connection they came by.      *)

Serving(c) == link[c] = "up" /\ wconn[Owner[c]] = c

(* An assignment is spawned as a task, and then entered in the in-flight   *)
(* map before the next frame is read.  A task that is over before it is    *)
(* entered has removed nothing, and its entry stays.                       *)
NextFrame(c, t) ==
    Serving(c) /\ entering[c] = {} /\ down[c] # <<>> /\ Head(down[c]).t = t

WorkerAssign(c) ==
    LET s == Head(down[c]).s IN
    /\ NextFrame(c, "assign")
    /\ agent' = [agent EXCEPT ![s] = "running"]
    /\ entering' = [entering EXCEPT ![c] = {s}]
    /\ down' = [down EXCEPT ![c] = Tail(@)]
    /\ UNCHANGED <<mapVars, connVars, failVars, booted, dispVars, link, up, wconn,
                   inflight, envVars>>

WorkerInsert(c) ==
    /\ entering[c] # {}
    /\ inflight' = [inflight EXCEPT ![c] = @ \cup entering[c]]
    /\ entering' = [entering EXCEPT ![c] = {}]
    /\ UNCHANGED <<mapVars, connVars, failVars, booted, dispVars, netVars, wconn,
                   agent, envVars>>

(* The sessions a kill frame for s takes down.  Variant: all in flight.    *)
Doomed_All(c, s) == inflight[c]
Doomed(c, s) == inflight[c] \cap {s}

(* A killed session's task is aborted with it: no Ended frame follows.     *)
(* Nothing is left to kill of one whose entry is stale.                    *)
WorkerAbort(c) ==
    /\ NextFrame(c, "abort")
    /\ LET doomed == Doomed(c, Head(down[c]).s) IN
        /\ agent' = [s \in Sessions |-> IF s \in doomed /\ agent[s] = "running"
                                        THEN "killed" ELSE agent[s]]
        /\ inflight' = [inflight EXCEPT ![c] = @ \ doomed]
    /\ down' = [down EXCEPT ![c] = Tail(@)]
    /\ UNCHANGED <<mapVars, connVars, failVars, booted, dispVars, link, up, wconn,
                   entering, envVars>>

AgentEnds(s, ok) ==
    LET c == tx[s] IN   \* the connection it was assigned on
    /\ agent[s] = "running"
    /\ agent' = [agent EXCEPT ![s] = IF ok THEN "ok" ELSE "err"]
    /\ inflight' = [inflight EXCEPT ![c] = @ \ {s}]
    /\ up' = IF Serving(c) THEN [up EXCEPT ![c] = Append(@, [s |-> s, ok |-> ok])]
                           ELSE up
    /\ UNCHANGED <<mapVars, connVars, failVars, booted, dispVars, link, down, wconn,
                   entering, envVars>>

(* What becomes of the agents of a connection that ended: they run on.     *)
AgentsAfter(c) == agent

WorkerNotices(c) ==
    /\ link[c] = "down" /\ wconn[Owner[c]] = c /\ entering[c] = {}
    /\ wconn' = [wconn EXCEPT ![Owner[c]] = NoConn]
    /\ agent' = AgentsAfter(c)
    /\ UNCHANGED <<mapVars, connVars, failVars, booted, dispVars, netVars, entering,
                   inflight, envVars>>

-----------------------------------------------------------------------------
(* The environment: links break and lose what is in transit; time passes   *)
(* without a frame; the control plane dies and boots again.                *)

Break(c) ==
    /\ link[c] = "up" /\ More
    /\ link' = [link EXCEPT ![c] = "down"]
    /\ up' = [up EXCEPT ![c] = <<>>]
    /\ UNCHANGED <<mapVars, connVars, failVars, booted, dispVars, down, workVars,
                   envVars>>

(* Only the lease of the registered connection is ever looked at. *)
Silence(c) ==
    /\ handler[c] = "loop" /\ machines[Owner[c]] = c
    /\ ~stale[c]
    /\ \/ /\ link[c] = "down"
          /\ UNCHANGED lapsed
       \/ /\ link[c] = "up"
          /\ Owner[c] \in lapsed \/ (Cardinality(lapsed) < MaxLapses /\ More)
          /\ lapsed' = lapsed \cup {Owner[c]}
    /\ stale' = [stale EXCEPT ![c] = TRUE]
    /\ UNCHANGED <<mapVars, handler, writer, failVars, booted, dispVars, netVars,
                   workVars, aborts, crashes, faults>>

(* A dispatch under way dies with the process. *)
AfterCrash(s) == IF disp[s] \in InFlight THEN "dead" ELSE disp[s]

Crash ==
    /\ crashes < MaxCrashes /\ More
    /\ crashes' = crashes + 1
    /\ machines' = [n \in Names |-> NoConn]
    /\ pending' = {}
    /\ remote' = [s \in Sessions |-> NoName]
    /\ handler' = [c \in Conns |-> IF handler[c] = "none" THEN "none" ELSE "closed"]
    /\ writer' = [c \in Conns |-> FALSE]
    /\ stale' = [c \in Conns |-> FALSE]
    /\ failPc' = [f \in Failers |-> "idle"]
    /\ reapList' = {} /\ reapName' = NoName
    /\ booted' = FALSE
    /\ disp' = [s \in Sessions |-> AfterCrash(s)]
    /\ routing' = {}
    /\ link' = [c \in Conns |-> IF link[c] = "up" THEN "down" ELSE link[c]]
    /\ down' = [c \in Conns |-> <<>>] /\ up' = [c \in Conns |-> <<>>]
    /\ UNCHANGED <<row, muddled, tx, answer, cancelled, late, workVars, lapsed, aborts,
                   faults>>

(* reclaim_machines_offline.  Variant: the rows are left as they are. *)
Reclaimed_None(n) == row[n]
Reclaimed(n) == IF row[n] = "online" THEN "offline" ELSE row[n]

(* The server serves, with the rows as they are, if the UPDATE fails. *)
BootReclaim(ok) ==
    /\ ~booted
    /\ Statement(ok)
    /\ row' = IF ok THEN [n \in Names |-> Reclaimed(n)] ELSE row
    /\ muddled' = IF ok THEN {} ELSE {n \in Names : row[n] = "online"}
    /\ booted' = TRUE
    /\ UNCHANGED <<machines, pending, remote, connVars, failVars, dispVars, netVars,
                   workVars, lapsed, aborts, crashes>>

-----------------------------------------------------------------------------
Online(c) == Register(c) \/ \E ok \in BOOLEAN : MarkOnline(c, ok)
Handler(c) == Online(c) \/ HandleEnded(c) \/ HandleHeartbeat(c)
FailMachine(f) == FailSessions(f) \/ \E ok \in BOOLEAN : FailOffline(f, ok)
Reap == ReapScan \/ \E n \in Names : ReapNext(n)
Dispatch(s) ==
    \/ Enlist(s)
    \/ SendAssign(s) \/ SendFails(s) \/ Receive(s)
Abort(s) == AbortTask(s) \/ DropTask(s) \/ RouteAbort(s)
Worker(c) == WorkerAssign(c) \/ WorkerInsert(c) \/ WorkerAbort(c)

Next ==
    \/ \E c \in Conns : \/ Dial(c) \/ Handler(c) \/ HandlerNotices(c) \/ WriterGone(c)
                        \/ Worker(c) \/ WorkerNotices(c) \/ Break(c) \/ Silence(c)
    \/ \E f \in Failers : FailMachine(f)
    \/ Reap
    \/ \E s \in Sessions : \/ PickMachine(s) \/ RunLocally(s) \/ Dispatch(s) \/ Abort(s)
                           \/ \E ok \in BOOLEAN : AgentEnds(s, ok)
    \/ Crash
    \/ \E ok \in BOOLEAN : BootReclaim(ok)

Spec == Init /\ [][Next]_vars

(***************************************************************************)
(* Fairness.  The runtime runs its tasks, the worker reads its socket,     *)
(* the reaper ticks and time passes on a connection that delivers nothing. *)
(* That an agent ends is an assumption about agents.  TCP reports a broken *)
(* link to the control plane if it has a frame to retransmit; a peer that  *)
(* vanished without one may never be noticed, nor by the worker, and that  *)
(* is what the lease is for.                                               *)
(***************************************************************************)
Fairness ==
    /\ \A c \in Conns :
        /\ WF_vars(Online(c))
        /\ WF_vars(HandleEnded(c))
        /\ WF_vars(Worker(c))
        /\ WF_vars(link[c] = "down" /\ Silence(c))
        /\ WF_vars(down[c] # <<>> /\ HandlerNotices(c))
    /\ \A f \in Failers : WF_vars(FailMachine(f))
    /\ WF_vars(Reap)
    /\ \A s \in Sessions :
        /\ WF_vars(Dispatch(s))
        /\ WF_vars(DropTask(s))
        /\ WF_vars(\E ok \in BOOLEAN : AgentEnds(s, ok))
    /\ WF_vars(\E ok \in BOOLEAN : BootReclaim(ok))

FairSpec == Spec /\ Fairness

-----------------------------------------------------------------------------
(***************************************************************************)
(* Properties                                                              *)
(***************************************************************************)

(* Every variable stays in its type. *)
TypeOK ==
    /\ machines \in [Names -> Conns \cup {NoConn}]
    /\ pending \subseteq Sessions
    /\ remote \in [Sessions -> Names \cup {NoName}]
    /\ row \in [Names -> {"absent", "online", "offline"}]
    /\ handler \in [Conns -> {"none", "register", "mark", "loop", "teardown",
                              "closed"}]
    /\ writer \in [Conns -> BOOLEAN] /\ stale \in [Conns -> BOOLEAN]
    /\ failPc \in [Failers -> {"idle", "fail", "offline"}]
    /\ reapList \subseteq Names
    /\ reapName \in IF failPc[Reaper] = "idle" THEN {NoName} ELSE Names
    /\ booted \in BOOLEAN
    /\ disp \in [Sessions -> InFlight \cup {"idle", "local", "ok", "err",
                                            "aborted", "dead"}]
    /\ tx \in [Sessions -> Conns \cup {NoConn}]
    /\ answer \in [Sessions -> {"none", "ok", "err"}]
    /\ cancelled \subseteq Sessions /\ routing \subseteq cancelled
    /\ link \in [Conns -> {"none", "up", "down"}]
    /\ down \in [Conns -> Seq(Frame)] /\ up \in [Conns -> Seq(Ended)]
    /\ wconn \in [Names -> Conns \cup {NoConn}]
    /\ entering \in [Conns -> SUBSET Sessions] /\ inflight \in [Conns -> SUBSET Sessions]
    /\ agent \in [Sessions -> {"none", "running", "ok", "err", "killed"}]
    /\ lapsed \subseteq Names /\ aborts \in 0..MaxAborts
    /\ crashes \in 0..MaxCrashes /\ faults \in 0..MaxFaults
    /\ muddled \subseteq Names
    /\ late \in [Sessions -> {"no", "deregistered", "torn_down"}]

(* The verdict the scheduler has of a session. *)
Verdict == [s \in Sessions |->
              IF disp[s] \in {"ok", "err"} THEN disp[s]
              ELSE IF disp[s] \in {"aborted", "dead"} THEN "cancelled" ELSE "none"]

(* Below the seam the fleet keeps the promise of SessionSeam: at most one  *)
(* start and one final verdict per session, and "ok" only of an agent that *)
(* finished well, whatever breaks, reconnects, lapses or crashes           *)
(* (fleet.rs:8-9 and 369-371, ADR 0030 D4).                                *)
SeamSpec == INSTANCE SessionSeam WITH verdict <- Verdict
Seam == SeamSpec!Spec

Awaiting(s) == disp[s] = "await" /\ answer[s] = "none"

(* A session that is waited for can still be answered: its completion      *)
(* channel and its owner entry are in the maps, and the handler of the     *)
(* connection it was sent on has not scanned them for the last time.  (Not *)
(* so for a session entered after that scan: nothing orders dispatch and   *)
(* fail_machine.)                                                          *)
NoStranded ==
    \A s \in Sessions : Awaiting(s) /\ late[s] # "torn_down" =>
        /\ s \in pending
        /\ remote[s] = Owner[tx[s]]
        /\ ~TornDown(tx[s])

(* Nothing is kept for a session whose dispatch has returned: its entries  *)
(* are gone from both maps, whoever ended it (fleet.rs:226-231).  (One     *)
(* that was dropped by an abort has not returned; its entries stay until   *)
(* its agent ends or its machine is failed.)                               *)
NoLeak ==
    \A s \in Sessions : disp[s] \in {"ok", "err", "local"} =>
        s \notin pending /\ remote[s] = NoName

(* A kill frame takes down the agent of the aborted run and no other: not  *)
(* the one next to it on the machine, nor one that a later connection of   *)
(* the machine serves by the time the frame is routed there by name        *)
(* (fleet.rs:458-474, 675-688).                                            *)
KilledOnlyIfAborted ==
    \A s \in Sessions : agent[s] = "killed" => s \in cancelled

(* Once nobody is at work on a name any more, its row says online exactly  *)
(* if it is registered, however often the machine has redialled, been      *)
(* failed or lost its control plane in between.  Only operations that      *)
(* overlap and statements that fail can part the two, and the next         *)
(* operation that begins alone, or the next boot, brings them together     *)
(* (fleet.rs:159-170, 261-333).                                            *)
Settled(n) == booted /\ ~AtWork(n)

RowAgrees ==
    \A n \in Names : Settled(n) /\ n \notin muddled =>
        (row[n] = "online" <=> machines[n] # NoConn)

(* A session only fails for a reason of its own: its agent failed, or a    *)
(* connection of its machine broke, or its machine's lease lapsed.  Not of *)
(* its own may be the connection: machines are failed by name.  What       *)
(* happens to other machines never fails it (fleet.rs:233-239, 264-292,    *)
(* 361-364).                                                               *)
Blamed == lapsed \cup {Owner[c] : c \in Broken}

FailedForAReason ==
    \A s \in Sessions : answer[s] = "err" => agent[s] = "err" \/ Owner[tx[s]] \in Blamed

(* "so its run resolves instead of hanging forever" (fleet.rs:261-262),    *)
(* also when nobody is told that the socket is dead, thanks to the lease   *)
(* (fleet.rs:336-338).                                                     *)
SessionsResolve ==
    \A s \in Sessions :
        disp[s] = "await" /\ late[s] = "no" ~> disp[s] # "await"

(* What the lease does achieve: a session that was entered in time is      *)
(* resolved, or a later connection of its machine has taken over the name  *)
(* that the lease is kept under (fleet.rs:261-292, 336-367).               *)
TakenOver(s) == machines[Owner[tx[s]]] \notin {tx[s], NoConn}

ResolvedUnlessTakenOver ==
    \A s \in Sessions :
        disp[s] = "await" /\ late[s] = "no" ~> disp[s] # "await" \/ TakenOver(s)

(* "a machine registers on WS connect, deregisters on disconnect"          *)
(* (state.rs:63-65): when its lease has not lapsed and every other         *)
(* connection of the machine is closed, the one that is served is          *)
(* registered.                                                             *)
ConnectedIsRegistered ==
    \A c \in Conns :
        /\ handler[c] = "loop" /\ link[c] = "up" /\ Owner[c] \notin lapsed
        /\ \A d \in Conns \ {c} : Owner[d] = Owner[c] => handler[d] \in {"none", "closed"}
        => machines[Owner[c]] = c

=============================================================================
