----------------------------- MODULE SessionEvents -----------------------------
(***************************************************************************)
(* What an agent says, on its way to the screen.  run_agent_session reads  *)
(* the agent's stdout line by line, normalizes each line to numbered       *)
(* events and hands them to a sink: in-process the sink is an INSERT       *)
(* followed by a broadcast; on a machine it is a frame to the control      *)
(* plane, which does the same on receipt.  A dashboard shows the session   *)
(* from two sources: it fetches the rows, on an interval and whenever it   *)
(* is told to, and it follows the broadcast as server-sent events, from    *)
(* which it drafts the message the agent is still writing.                 *)
(*                                                                         *)
(* One session, one dashboard.  The task that runs the stage is reduced to *)
(* what the feed can see of it (module Scheduler has the rest), and so is  *)
(* the fleet: a machine's frames arrive in order, an abort drops the task, *)
(* a lease may expire while the frames still come.                         *)
(***************************************************************************)
EXTENDS Naturals, Sequences, FiniteSets, SequencesExt

CONSTANTS
    Capacity,     \* of the broadcast channel (256 in the code)
    Scripts,      \* bound: what the agent may write, as sequences of lines
    MaxFaults     \* bound: event rows whose INSERT fails

ASSUME CapacityAssumption == Capacity \in Nat \ {0}
ASSUME FaultsAssumption == MaxFaults \in Nat

(* Stream-JSON lines, abstracted to what becomes of them: part of a text   *)
(* message, a message, a tool call, a message with a tool call, the result *)
(* of the n-th call (0: of a call that was never made), a line of unknown  *)
(* type, and the Result line of a session that went well or badly.         *)
Line(t) == [t |-> t, n |-> 0]
ResultOf(n) == [t |-> "result", n |-> n]
LineTypes == {"delta", "text", "use", "text_use", "result", "mystery", "success",
              "error"}
ASSUME ScriptsAssumption ==
    \A s \in Scripts : s \in Seq([t : LineTypes, n : 0..Len(s)])

VARIABLES
    home,         \* where the session runs: "local" or "remote"
    (* the stage's task, and Postgres *)
    task,         \* program counter of run_agent_stage
    outcome,      \* what dispatch returned
    feed,         \* the session has an entry in AppState.feeds
    status,       \* sessions.status, "none" before the INSERT
    rows,         \* session_events of the session
    (* run_agent_session, on either side *)
    script,       \* what the agent writes unless it ends before
    agent,        \* "none", "running", "closed"
    lines, texts, calls,  \* lines read; text messages and tool calls in them
    open, warned, \* Normalizer: pending_tools, warned_unknown
    seq,          \* number of the last event
    result,       \* what the last Result line said
    outbox,       \* events and deltas on their way to the persister
    (* who persists: the reader itself, or the machine's handler *)
    persist,      \* the event being persisted and published
    (* the dashboard *)
    view,         \* the query's data, NoView before the first answer
    known,        \* the status the page knew when it mounted the feed
    poll, got,    \* the fetch under way, and the status it read
    sse, chan,    \* the event stream and what it has not delivered
    lagged,       \* the open stream has skipped messages
    draft,        \* messages with text in the pending draft
    (* environment and history *)
    faults, produced

stageVars == <<task, outcome, feed, status>>
readerVars == <<agent, lines, texts, calls, open, warned, seq, result, produced>>
pollVars == <<view, known, poll, got>>
streamVars == <<sse, chan, lagged, draft>>
vars == <<home, script, stageVars, rows, readerVars, outbox, persist, pollVars,
          streamVars, faults>>

NoView == [status |-> "none", rows |-> <<>>]
Idle == [pc |-> "idle"]
EndedItem == [t |-> "ended"]

(* An event, with the number of the text message or tool call it is about, *)
(* and, for a tool result, the call it was attributed to (0: "unknown").   *)
Event(kind, n, tool) == [kind |-> kind, n |-> n, tool |-> tool]

Init ==
    /\ home \in {"local", "remote"} /\ script \in Scripts
    /\ task = "insert" /\ outcome = "none" /\ feed = FALSE /\ status = "none"
    /\ rows = <<>>
    /\ agent = "none" /\ lines = 0 /\ texts = 0 /\ calls = 0
    /\ open = {} /\ warned = FALSE /\ seq = 0 /\ result = "none"
    /\ produced = <<>>
    /\ outbox = <<>> /\ persist = Idle
    /\ view = NoView /\ known = "none" /\ poll = "unmounted" /\ got = "none"
    /\ sse = "off" /\ chan = <<>> /\ lagged = FALSE /\ draft = {}
    /\ faults = 0

(* session_events with one row more: UNIQUE (session_id, seq).             *)
WithRow(row) ==
    IF \E i \in DOMAIN rows : rows[i].seq = row.seq THEN rows ELSE Append(rows, row)

-----------------------------------------------------------------------------
(* The stage's task.                                                       *)

(* (If its INSERT fails there is no session to watch.)                     *)
StageInsert ==
    /\ task = "insert"
    /\ status' = "running"
    /\ task' = "prepare"
    /\ UNCHANGED <<home, script, outcome, feed, rows, readerVars, outbox, persist, pollVars,
                   streamVars, faults>>

(* Audit record and credentials come first; then the feed is registered    *)
(* and the session dispatched.  Credentials that cannot be read or         *)
(* decrypted end the stage there, and the row stays as it is.              *)
StageDispatch(ok) ==
    /\ task = "prepare"
    /\ IF ok THEN feed' = TRUE /\ agent' = "running" /\ task' = "await"
             ELSE task' = "done" /\ UNCHANGED <<feed, agent>>
    /\ UNCHANGED <<home, script, outcome, status, rows, lines, texts, calls, open, warned, seq,
                   result, produced, outbox, persist, pollVars, streamVars, faults>>

(* An UPDATE that fails ends the stage, too; nobody tries it again.  (The  *)
(* run fails then, and an abort that comes before it does is like one that *)
(* comes before the stage's error.)                                        *)
Verdict == IF outcome = "ok" THEN "completed" ELSE "failed"

StageSettle(ok) ==
    /\ task = "settle"
    /\ IF ok THEN status' = Verdict /\ task' = "done"
             ELSE task' = "done" /\ UNCHANGED status
    /\ UNCHANGED <<home, script, outcome, feed, rows, readerVars, outbox, persist, pollVars,
                   streamVars, faults>>

(* What happens when dispatch returns to a task that still waits.          *)
Return(o) ==
    /\ task' = "settle"
    /\ outcome' = o
    /\ feed' = FALSE

(* The machine's lease expires; the machine may not know.                  *)
LeaseExpires ==
    /\ home = "remote" /\ task = "await"
    /\ Return("err")
    /\ UNCHANGED <<home, script, status, rows, readerVars, outbox, persist, pollVars,
                   streamVars, faults>>

(* abort_run drops the task at its await, whose UPDATE may land all the    *)
(* same.  In-process the reader goes with it, though an INSERT in flight   *)
(* may land; a machine's frames keep coming until the kill frame reaches   *)
(* it.  The feed's entry stays.                                            *)
Abort ==
    /\ task \in {"prepare", "await", "settle"}
    /\ task' = "dropped"
    /\ \/ UNCHANGED status
       \/ task = "settle" /\ status' = Verdict
    /\ IF home = "local"
       THEN /\ agent' = "closed"
            /\ outbox' = <<>> /\ persist' = Idle
            /\ \/ rows' = rows
               \/ persist.pc = "insert" /\ rows' = WithRow(persist.row)
       ELSE /\ agent' = IF agent = "none" THEN "closed" ELSE agent
            /\ UNCHANGED <<outbox, persist, rows>>
    /\ UNCHANGED <<home, script, outcome, feed, lines, texts, calls, open, warned, seq, result,
                   produced, pollVars, streamVars, faults>>

(* Then it settles the rows.  If the sessions' UPDATE fails that is only   *)
(* logged, and a handler whose client hangs up never comes to it.          *)
AbortSettle(ok) ==
    /\ task = "dropped" /\ status = "running"
    /\ IF ok THEN status' = "failed" /\ UNCHANGED task
             ELSE task' = "left" /\ UNCHANGED status
    /\ UNCHANGED <<home, script, outcome, feed, rows, readerVars, outbox, persist, pollVars,
                   streamVars, faults>>

Aborted == task \in {"dropped", "left"}

RemoteKilled ==
    /\ home = "remote" /\ Aborted /\ agent = "running"
    /\ agent' = "closed"
    /\ UNCHANGED <<home, script, stageVars, rows, lines, texts, calls, open, warned, seq,
                   result, produced, outbox, persist, pollVars, streamVars, faults>>

-----------------------------------------------------------------------------
(* Normalizer::handle: a line is zero or more events.                      *)

(* The message and the tool call of an assistant line, in that order.      *)
HasText(line) == line.t \in {"text", "text_use"}
HasCall(line) == line.t \in {"use", "text_use"}
AssistantEvents(line) ==
    (IF HasText(line) THEN <<Event("text", texts + 1, 0)>> ELSE <<>>)
    \o (IF HasCall(line) THEN <<Event("use", calls + 1, 0)>> ELSE <<>>)

(* A tool result is attributed to its call if that is still open; an       *)
(* orphan is kept.                                                         *)
UserEvents(line) ==
    <<Event("result", line.n, IF line.n \in open THEN line.n ELSE 0)>>

ResultEvents(line) ==
    <<Event("completed", 0, 0)>>
    \o (IF line.t = "error" THEN <<Event("warning", 0, 0)>> ELSE <<>>)

Normalized(line) ==
    CASE HasText(line) \/ HasCall(line) -> AssistantEvents(line)
      [] line.t = "result" -> UserEvents(line)
      [] line.t \in {"success", "error"} -> ResultEvents(line)
      [] line.t = "mystery" -> IF warned THEN <<>> ELSE <<Event("warning", 0, 0)>>
      [] line.t = "delta" -> <<>>

(* pending_tools after a line.  Variant: a result leaves its call in it.   *)
OpenAfter_Kept(line) ==
    IF HasCall(line) THEN open \cup {calls + 1} ELSE open
OpenAfter(line) ==
    IF HasCall(line) THEN open \cup {calls + 1}
    ELSE IF line.t = "result" THEN open \ {line.n} ELSE open

(* Events are numbered one by one.  Variant: line by line.                 *)
NumberOf_Line(i) == seq + 1
NumberOf(i) == seq + i

Items(line, evs) ==
    (IF line.t = "delta" THEN <<[t |-> "delta", n |-> texts + 1]>> ELSE <<>>)
    \o [i \in DOMAIN evs |-> [t |-> "event", row |-> [seq |-> NumberOf(i), ev |-> evs[i]]]]

(* In-process the reader persists what it has before it reads on.          *)
ReadLine ==
    LET line == script[lines + 1]
        evs == Normalized(line)
    IN
    /\ agent = "running" /\ lines < Len(script)
    /\ home = "local" => outbox = <<>> /\ persist = Idle
    /\ lines' = lines + 1
    /\ texts' = IF HasText(line) THEN texts + 1 ELSE texts
    /\ calls' = IF HasCall(line) THEN calls + 1 ELSE calls
    /\ open' = OpenAfter(line)
    /\ warned' = (warned \/ line.t = "mystery")
    /\ seq' = IF evs = <<>> THEN seq ELSE NumberOf(Len(evs))
    /\ result' = IF line.t = "success" THEN "ok"
                 ELSE IF line.t = "error" THEN "err" ELSE result
    /\ produced' = produced \o evs
    /\ outbox' = outbox \o Items(line, evs)
    /\ UNCHANGED <<home, script, stageVars, rows, agent, persist, pollVars, streamVars, faults>>

(* stdout is closed or cannot be read: the loop ends behind the last       *)
(* event, and a machine sends Ended behind the frames it has sent.         *)
AgentCloses ==
    /\ agent = "running"
    /\ agent' = "closed"
    /\ result' \in {result, "err"}
    /\ outbox' = Append(outbox, EndedItem)
    /\ UNCHANGED <<home, script, stageVars, rows, lines, texts, calls, open, warned, seq,
                   produced, persist, pollVars, streamVars, faults>>

-----------------------------------------------------------------------------
(* The persister: persist_session_event, called by the local sink or by    *)
(* handle_machine for each Event frame of a session that has a feed.       *)

(* The broadcast overwrites what a slow receiver has not taken.  Variant:  *)
(* the channel grows.                                                      *)
Queued_Unbounded(m) == Append(chan, m)
Queued(m) == IF Len(chan) < Capacity THEN Append(chan, m) ELSE Append(Tail(chan), m)

Broadcast(m) ==
    /\ chan' = IF sse = "open" THEN Queued(m) ELSE chan
    /\ lagged' = (lagged \/ (sse = "open" /\ Len(chan) = Capacity))
    /\ UNCHANGED <<sse, draft>>

(* The machine's handler awaits one event before it reads the next frame.  *)
(* Variant: it spawns the persistence and reads on.                        *)
HandlerFree_Spawned == TRUE
HandlerFree == persist = Idle

TakeDelta ==
    /\ outbox # <<>> /\ Head(outbox).t = "delta" /\ persist = Idle
    /\ IF feed THEN Broadcast([t |-> "delta", n |-> Head(outbox).n])
               ELSE UNCHANGED streamVars
    /\ outbox' = Tail(outbox)
    /\ UNCHANGED <<home, script, stageVars, rows, readerVars, persist, pollVars, faults>>

TakeEvent ==
    /\ outbox # <<>> /\ Head(outbox).t = "event" /\ persist = Idle
    /\ persist' = IF feed THEN [pc |-> "insert", row |-> Head(outbox).row] ELSE Idle
    /\ outbox' = Tail(outbox)
    /\ UNCHANGED <<home, script, stageVars, rows, readerVars, pollVars, streamVars, faults>>

(* An INSERT that fails is logged, and the event published all the same.   *)
Insert(ok) ==
    /\ persist.pc = "insert"
    /\ ok \/ faults < MaxFaults
    /\ faults' = IF ok THEN faults ELSE faults + 1
    /\ rows' = IF ok THEN WithRow(persist.row) ELSE rows
    /\ persist' = [persist EXCEPT !.pc = "publish"]
    /\ UNCHANGED <<home, script, stageVars, readerVars, outbox, pollVars, streamVars>>

Publish ==
    /\ persist.pc = "publish"
    /\ Broadcast([t |-> persist.row.ev.kind, n |-> persist.row.ev.n])
    /\ persist' = Idle
    /\ UNCHANGED <<home, script, stageVars, rows, readerVars, outbox, pollVars, faults>>

(* The session has ended: the task that waits for it, if any, goes on.     *)
TakeEnded ==
    /\ outbox # <<>> /\ Head(outbox) = EndedItem /\ HandlerFree
    /\ outbox' = Tail(outbox)
    /\ IF task = "await" THEN Return(IF result = "ok" THEN "ok" ELSE "err")
                         ELSE UNCHANGED <<task, outcome, feed>>
    /\ UNCHANGED <<home, script, status, rows, readerVars, persist, pollVars, streamVars,
                   faults>>

-----------------------------------------------------------------------------
(* The dashboard: SessionFeed.tsx over TanStack Query and EventSource.     *)
(* (The query also refetches when the window regains focus; nothing may    *)
(* depend on that, and it is left out.)                                    *)

Live == (IF view = NoView THEN known ELSE view.status) = "running"

(* invalidateQueries restarts the fetch under way, unless it is the first. *)
Invalidate ==
    poll' = IF poll = "rows" /\ view = NoView THEN poll ELSE "wanted"

Mount ==
    /\ poll = "unmounted" /\ status # "none"
    /\ known' = status
    /\ poll' = "wanted"
    /\ sse' = IF status = "running" THEN "wanted" ELSE "off"
    /\ UNCHANGED <<home, script, stageVars, rows, readerVars, outbox, persist, view, got,
                   chan, lagged, draft, faults>>

(* refetchInterval.  Variant: polling is only the fallback.                *)
KeepsPolling_Fallback == view.status = "running" /\ sse = "off"
KeepsPolling == view.status = "running"

IntervalElapses ==
    /\ poll = "idle" /\ KeepsPolling
    /\ poll' = "wanted"
    /\ UNCHANGED <<home, script, stageVars, rows, readerVars, outbox, persist, view, known,
                   got, streamVars, faults>>

(* GET /api/sessions/:id/events reads the status, then the rows.           *)
FetchStatus ==
    /\ poll = "wanted"
    /\ got' = status
    /\ poll' = "rows"
    /\ UNCHANGED <<home, script, stageVars, rows, readerVars, outbox, persist, view, known,
                   streamVars, faults>>

(* ORDER BY seq: each row has as many before it as have lower numbers.     *)
InOrder(rs) ==
    LET Rank(row) == Cardinality({r \in Range(rs) : r.seq < row.seq})
    IN  [i \in DOMAIN rs |-> CHOOSE row \in Range(rs) : Rank(row) = i - 1]

StreamOff == sse' = "off" /\ chan' = <<>> /\ lagged' = FALSE

(* The answer; the effect closes the stream when the session is not live.  *)
FetchRows ==
    /\ poll = "rows"
    /\ view' = [status |-> got, rows |-> InOrder(rows)]
    /\ poll' = "idle"
    /\ IF got = "running" THEN UNCHANGED <<sse, chan, lagged>> ELSE StreamOff
    /\ UNCHANGED <<home, script, stageVars, rows, readerVars, outbox, persist, known, got,
                   draft, faults>>

(* session_events_stream subscribes to the feed, or answers with a stream  *)
(* that is closed already.                                                 *)
StreamOpens ==
    /\ sse = "wanted"
    /\ \/ feed /\ sse' = "open" /\ UNCHANGED poll
       \/ ~feed /\ sse' = "off" /\ Invalidate
    /\ UNCHANGED <<home, script, stageVars, rows, readerVars, outbox, persist, view, known,
                   got, chan, lagged, draft, faults>>

(* The stream ends when the last sender is dropped, or it breaks.          *)
StreamCloses ==
    /\ sse = "open"
    /\ StreamOff
    /\ Invalidate
    /\ UNCHANGED <<home, script, stageVars, rows, readerVars, outbox, persist, view, known,
                   got, draft, faults>>

SendersGone == ~feed /\ persist = Idle
StreamEnds == chan = <<>> /\ SendersGone /\ StreamCloses
StreamBreaks == StreamCloses

(* The pending draft after a message.  Variant: the end clears it.         *)
DraftAfter_End(m) ==
    IF m.t = "delta" THEN draft \cup {m.n}
    ELSE IF m.t = "completed" THEN {} ELSE draft
DraftAfter(m) ==
    IF m.t = "delta" THEN draft \cup {m.n}
    ELSE IF m.t = "text" THEN {} ELSE draft

Message ==
    LET m == Head(chan) IN
    /\ sse = "open" /\ chan # <<>>
    /\ chan' = Tail(chan)
    /\ draft' = DraftAfter(m)
    /\ IF m.t = "delta" THEN UNCHANGED poll ELSE Invalidate
    /\ UNCHANGED <<home, script, stageVars, rows, readerVars, outbox, persist, view, known,
                   got, sse, lagged, faults>>

(* foldToolPairs: rows in order become cards; a result goes into the card  *)
(* of its call if that is still open, else it gets a card of its own.      *)
Card(call, res) == [call |-> call, result |-> res]
WaitingFor(cards, n) == {i \in DOMAIN cards : cards[i].call = n /\ cards[i].result = {}}

Placed(cards, ev) ==
    LET mine == WaitingFor(cards, ev.n)
    IN  CASE ev.kind = "use" -> Append(cards, Card(ev.n, {}))
          [] ev.kind = "result" /\ mine # {} ->
                [cards EXCEPT ![CHOOSE i \in mine : TRUE] = Card(ev.n, {ev.tool})]
          [] ev.kind = "result" /\ mine = {} -> Append(cards, Card(0, {ev.tool}))
          [] OTHER -> cards

CardsOf(rs) ==
    LET cards[k \in 0..Len(rs)] == IF k = 0 THEN <<>> ELSE Placed(cards[k - 1], rs[k].ev)
    IN  cards[Len(rs)]
Cards == CardsOf(view.rows)

-----------------------------------------------------------------------------
Stage ==
    \/ StageInsert
    \/ \E ok \in BOOLEAN : StageDispatch(ok) \/ StageSettle(ok)
AbortSettles == \E ok \in BOOLEAN : AbortSettle(ok)
Persister == TakeDelta \/ TakeEvent \/ Publish \/ TakeEnded \/ \E ok \in BOOLEAN : Insert(ok)
Fetch == FetchStatus \/ FetchRows

Next ==
    \/ Stage \/ LeaseExpires \/ Abort \/ AbortSettles \/ RemoteKilled
    \/ ReadLine \/ AgentCloses
    \/ Persister
    \/ Mount \/ IntervalElapses \/ Fetch
    \/ StreamOpens \/ StreamEnds \/ StreamBreaks \/ Message

Spec == Init /\ [][Next]_vars

(***************************************************************************)
(* Fairness: tasks are polled, timers tick, requests are answered, what    *)
(* the stream has is delivered; that the agent ends is an assumption about *)
(* agents.  A statement that settles the row is tried, and may fail.       *)
(* Aborts, faults, expiring leases and breaks are never forced.            *)
(***************************************************************************)
Fairness ==
    /\ WF_vars(Stage) /\ WF_vars(Persister) /\ WF_vars(AbortSettles)
    /\ WF_vars(AgentCloses)
    /\ WF_vars(IntervalElapses) /\ WF_vars(FetchStatus) /\ WF_vars(FetchRows)
    /\ WF_vars(StreamOpens) /\ WF_vars(StreamEnds) /\ WF_vars(Message)

FairSpec == Spec /\ Fairness

-----------------------------------------------------------------------------
(***************************************************************************)
(* Properties                                                              *)
(***************************************************************************)

Events == [kind : {"text", "use", "result", "warning", "completed"},
           n : 0..Len(script), tool : 0..Len(script)]
Rows == [seq : 1..(2 * Len(script)), ev : Events]
Statuses == {"none", "running", "completed", "failed"}

(* Every variable stays in its type; the channel within its capacity.      *)
TypeOK ==
    /\ home \in {"local", "remote"}
    /\ task \in {"insert", "prepare", "await", "settle", "done", "dropped", "left"}
    /\ outcome \in {"none", "ok", "err"} /\ feed \in BOOLEAN
    /\ status \in Statuses
    /\ rows \in Seq(Rows)
    /\ agent \in {"none", "running", "closed"}
    /\ script \in Scripts /\ lines \in 0..Len(script)
    /\ texts \in 0..lines /\ calls \in 0..lines
    /\ open \subseteq 1..calls /\ warned \in BOOLEAN
    /\ seq = Len(produced) /\ result \in {"none", "ok", "err"}
    /\ outbox \in Seq({EndedItem} \cup [t : {"delta"}, n : 1..(texts + 1)]
                      \cup [t : {"event"}, row : Rows])
    /\ persist = Idle \/ persist \in [pc : {"insert", "publish"}, row : Rows]
    /\ view.status \in Statuses /\ view.rows \in Seq(Rows)
    /\ known \in Statuses /\ got \in Statuses
    /\ poll \in {"unmounted", "idle", "wanted", "rows"}
    /\ sse \in {"off", "wanted", "open"} /\ Len(chan) <= Capacity
    /\ lagged \in BOOLEAN /\ draft \subseteq 1..(texts + 1)
    /\ faults \in 0..MaxFaults
    /\ produced \in Seq(Events)

(* What the dashboard shows is what the agent did, in that order and       *)
(* without a hole, as long as no INSERT failed: numbering, the unique      *)
(* index, the frames and the fetch lose and mix up nothing.                *)
ViewFaithful ==
    \A i \in DOMAIN view.rows :
        /\ view.rows[i].ev = produced[view.rows[i].seq]
        /\ faults = 0 => view.rows[i].seq = i

(* The dashboard stops fetching when it sees a final status; of a session  *)
(* that ended by itself it then has every row there will ever be: rows are *)
(* written before the status, and the status is read before the rows.      *)
FinalViewComplete ==
    view.status = "completed" /\ faults = 0 => Len(view.rows) = Len(produced)

(* The two pairings agree: a result is shown in the card of the call the   *)
(* normalizer attributed it to, and on its own if it was left "unknown".   *)
PairingAgrees ==
    LET cards == Cards IN
    faults = 0 => \A i \in DOMAIN cards : cards[i].result \subseteq {cards[i].call}

(* The row says running and nobody is left who would settle it, until the  *)
(* next boot: the stage failed before its agent began or in its UPDATE, or *)
(* an abort did not come to its own.                                       *)
Abandoned == status = "running" /\ task \in {"done", "left"}

(* A dashboard that watches a session learns that it ended, also when the  *)
(* stream was refused, broke, lagged, or is never closed after an abort;   *)
(* only of a session whose row was abandoned it never learns.              *)
ViewSettles ==
    poll # "unmounted" ~> view.status \in {"completed", "failed"} \/ Abandoned

(* "Pending token-streamed prose: accumulates from SSE deltas, cleared     *)
(* when its durable agent.text row arrives" (SessionFeed.tsx:18-19): as    *)
(* long as the stream is up and has skipped nothing (operate.rs:126-127),  *)
(* and once it has delivered what it has, no message of the session under  *)
(* way is shown both as a row and as a draft.  (A stream that broke or     *)
(* skipped the message leaves the draft beside the row: the row does not   *)
(* clear it.)                                                              *)
DraftSuperseded ==
    task = "await" /\ sse = "open" /\ ~lagged /\ chan = <<>> /\ persist = Idle =>
        \A i \in DOMAIN view.rows :
            view.rows[i].ev.kind = "text" => view.rows[i].ev.n \notin draft

=============================================================================
