------------------------- MODULE SessionEvents_proofs -------------------------
(***************************************************************************)
(* Theorems about module SessionEvents, for any scripts, any capacity of   *)
(* the feed channel and any number of failed INSERTs.                      *)
(*                                                                         *)
(* The inductive invariant follows a row from the normalizer to the page:  *)
(* every row anywhere is an event the agent produced, rows are in the      *)
(* order of their numbers and what is still under way is behind them, and  *)
(* without a failed INSERT nothing between them is missing. A session has  *)
(* completed only when nothing moves any more.                             *)
(***************************************************************************)
EXTENDS SessionEvents, FiniteSetTheorems, SequenceTheorems, TLAPS

-----------------------------------------------------------------------------
(* ORDER BY seq.                                                           *)

Increasing(rs) ==
    \A i, j \in DOMAIN rs : i < j => rs[i].seq < rs[j].seq

(* The j-th of rows with increasing numbers has j - 1 rows before it.      *)
LEMMA RankOfRow ==
    ASSUME NEW S, NEW rs \in Seq(S), \A i \in DOMAIN rs : rs[i].seq \in Nat,
           Increasing(rs), NEW k \in DOMAIN rs
    PROVE  Cardinality({r \in Range(rs) : r.seq < rs[k].seq}) = k - 1
<1> DEFINE B == {r \in Range(rs) : r.seq < rs[k].seq}
           f == [j \in 1..(k - 1) |-> rs[j]]
<1>1. k \in Nat /\ k >= 1 /\ DOMAIN rs = 1..Len(rs) /\ Len(rs) \in Nat
    OBVIOUS
<1>2. B = {rs[j] : j \in 1..(k - 1)}
    <2>1. ASSUME NEW r \in B PROVE r \in {rs[j] : j \in 1..(k - 1)}
        <3>1. PICK j \in DOMAIN rs : r = rs[j]
            BY DEF Range
        <3>2. ~(j >= k)
            BY <1>1, <3>1 DEF Increasing
        <3> QED
            BY <1>1, <3>1, <3>2
    <2>2. ASSUME NEW j \in 1..(k - 1) PROVE rs[j] \in B
        BY <1>1 DEF Range, Increasing
    <2> QED
        BY <2>1, <2>2
<1>3. f \in Bijection(1..(k - 1), B)
    <2>1. f \in [1..(k - 1) -> B]
        BY <1>2
    <2>2. \A a, b \in 1..(k - 1) : f[a] = f[b] => a = b
        <3> SUFFICES ASSUME NEW a \in 1..(k - 1), NEW b \in 1..(k - 1), f[a] = f[b]
                     PROVE  a = b
            OBVIOUS
        <3>1. rs[a].seq = rs[b].seq /\ rs[a].seq \in Nat /\ a \in DOMAIN rs /\ b \in DOMAIN rs
            BY <1>1
        <3> QED
            BY <1>1, <3>1 DEF Increasing
    <2>3. \A r \in B : \E j \in 1..(k - 1) : f[j] = r
        BY <1>2
    <2> HIDE DEF B, f
    <2> QED
        BY <2>1, <2>2, <2>3 DEF Bijection, Injection, Surjection, IsInjective
<1> QED
    <2> HIDE DEF B
    <2>1. k - 1 \in Nat
        BY <1>1
    <2>2. Cardinality(B) = k - 1
        BY <1>3, <2>1, FS_CountingElements DEF ExistsBijection
    <2> QED
        BY <2>2 DEF B

LEMMA OrderKept ==
    ASSUME NEW S, NEW rs \in Seq(S), \A i \in DOMAIN rs : rs[i].seq \in Nat,
           Increasing(rs)
    PROVE  InOrder(rs) = rs
<1> DEFINE Rank(row) == Cardinality({r \in Range(rs) : r.seq < row.seq})
           Nth(i) == CHOOSE row \in Range(rs) : Rank(row) = i - 1
<1>1. ASSUME NEW k \in DOMAIN rs PROVE Rank(rs[k]) = k - 1
    BY <1>1, RankOfRow
<1>2. ASSUME NEW i \in DOMAIN rs PROVE Nth(i) = rs[i]
    <2> HIDE DEF Rank
    <2>1. rs[i] \in Range(rs) /\ Rank(rs[i]) = i - 1
        BY <1>1 DEF Range
    <2>2. Nth(i) \in Range(rs) /\ Rank(Nth(i)) = i - 1
        BY <2>1
    <2>3. PICK k \in DOMAIN rs : Nth(i) = rs[k]
        BY <2>2 DEF Range
    <2>4. k - 1 = i - 1 /\ k \in Nat /\ i \in Nat
        BY <1>1, <2>2, <2>3
    <2> QED
        BY <2>3, <2>4
<1>3. InOrder(rs) = [i \in DOMAIN rs |-> Nth(i)]
    BY DEF InOrder
<1> HIDE DEF Nth
<1>4. [i \in DOMAIN rs |-> Nth(i)] = [i \in DOMAIN rs |-> rs[i]]
    BY <1>2
<1> QED
    BY <1>3, <1>4
-----------------------------------------------------------------------------
(* Types.                                                                  *)

Kinds == {"text", "use", "result", "warning", "completed"}
Item == {EndedItem} \cup [t : {"delta"}, n : 1..(texts + 1)] \cup [t : {"event"}, row : Rows]
Msg == [t : {"delta"}, n : 1..(texts + 1)] \cup [t : Kinds, n : 0..Len(script)]

TypeInv == TypeOK /\ seq <= 2 * lines /\ chan \in Seq(Msg)

(* A line that can be read is of a known type, and its numbers are small.  *)
LEMMA NextLine ==
    ASSUME TypeOK, lines < Len(script)
    PROVE  /\ script[lines + 1] \in [t : LineTypes, n : 0..Len(script)]
           /\ Len(script) \in Nat /\ lines \in Nat /\ texts \in Nat /\ calls \in Nat
           /\ texts <= lines /\ calls <= lines /\ lines + 1 <= Len(script)
<1>1. script \in Seq([t : LineTypes, n : 0..Len(script)])
    BY ScriptsAssumption DEF TypeOK
<1>2. Len(script) \in Nat /\ lines \in Nat
    BY <1>1 DEF TypeOK
<1>3. lines + 1 \in 1..Len(script)
    BY <1>2
<1>4. script[lines + 1] \in [t : LineTypes, n : 0..Len(script)]
    BY <1>1, <1>3, ElementOfSeq
<1> QED
    BY <1>2, <1>4 DEF TypeOK

LEMMA OneOfTwo ==
    ASSUME NEW n \in 0..2, NEW i \in 1..n
    PROVE  i \in 1..2
OBVIOUS

LEMMA MoreNumbers ==
    ASSUME NEW a \in Nat, NEW b \in Nat, a <= b
    PROVE  1..(a + 1) \subseteq 1..(b + 1)
OBVIOUS

LEMMA NoNumbers ==
    ASSUME NEW b \in Nat
    PROVE  (b + 1)..0 = {}
OBVIOUS

LEMMA Joined ==
    ASSUME NEW S, NEW a \in Seq(S), NEW b \in Seq(S), Len(a) \in 0..1, Len(b) \in 0..1
    PROVE  a \o b \in Seq(S) /\ Len(a \o b) \in 0..2
<1>1. a \o b \in Seq(S) /\ Len(a \o b) = Len(a) + Len(b)
    BY ConcatProperties
<1> DEFINE n == Len(a)
           m == Len(b)
<1>2. n \in 0..1 /\ m \in 0..1
    OBVIOUS
<1> HIDE DEF n, m
<1>3. n + m \in 0..2
    BY <1>2
<1> QED
    BY <1>1, <1>3 DEF n, m

(* A line is at most two events; a delta is none.                          *)
LEMMA LineEvents ==
    ASSUME TypeOK, lines < Len(script), NEW line, line = script[lines + 1]
    PROVE  /\ Normalized(line) \in Seq(Events) /\ Len(Normalized(line)) \in 0..2
           /\ line.t = "delta" => Normalized(line) = <<>>
<1>0. /\ line.t \in LineTypes /\ line.n \in 0..Len(script)
      /\ Len(script) \in Nat /\ texts + 1 \in 0..Len(script) /\ calls + 1 \in 0..Len(script)
    BY NextLine
<1>1. CASE HasText(line) \/ HasCall(line)
    <2>1. Normalized(line) = AssistantEvents(line)
        BY <1>1 DEF Normalized, HasText, HasCall
    <2>2. Event("text", texts + 1, 0) \in Events /\ Event("use", calls + 1, 0) \in Events
        BY <1>0 DEF Event, Events
    <2>3. line.t # "delta"
        BY <1>1 DEF HasText, HasCall
    <2> DEFINE a == IF HasText(line) THEN <<Event("text", texts + 1, 0)>> ELSE <<>>
               b == IF HasCall(line) THEN <<Event("use", calls + 1, 0)>> ELSE <<>>
    <2>4. a \in Seq(Events) /\ b \in Seq(Events) /\ Len(a) \in 0..1 /\ Len(b) \in 0..1
        BY <2>2
    <2> HIDE DEF a, b
    <2>5. a \o b \in Seq(Events) /\ Len(a \o b) \in 0..2
        BY <2>4, Joined
    <2> QED
        BY <2>1, <2>3, <2>5 DEF AssistantEvents, a, b
<1>2. CASE line.t = "result"
    <2>1. Normalized(line) = UserEvents(line)
        BY <1>2 DEF Normalized, HasText, HasCall
    <2>2. Event("result", line.n, IF line.n \in open THEN line.n ELSE 0) \in Events
        BY <1>0 DEF Event, Events
    <2> QED
        BY <1>2, <2>1, <2>2 DEF UserEvents
<1>3. CASE line.t \in {"success", "error"}
    <2>1. Normalized(line) = ResultEvents(line)
        BY <1>3 DEF Normalized, HasText, HasCall
    <2>2. Event("completed", 0, 0) \in Events /\ Event("warning", 0, 0) \in Events
        BY <1>0 DEF Event, Events
    <2> DEFINE a == <<Event("completed", 0, 0)>>
               b == IF line.t = "error" THEN <<Event("warning", 0, 0)>> ELSE <<>>
    <2>3. a \in Seq(Events) /\ b \in Seq(Events) /\ Len(a) = 1 /\ Len(b) \in 0..1
        BY <2>2
    <2> HIDE DEF a, b
    <2>4. a \o b \in Seq(Events) /\ Len(a \o b) \in 0..2
        BY <2>3, Joined
    <2> QED
        BY <1>3, <2>1, <2>4 DEF ResultEvents, a, b
<1>4. CASE line.t = "mystery"
    <2>1. Normalized(line) = IF warned THEN <<>> ELSE <<Event("warning", 0, 0)>>
        BY <1>4 DEF Normalized, HasText, HasCall
    <2>2. Event("warning", 0, 0) \in Events
        BY <1>0 DEF Event, Events
    <2> QED
        BY <1>4, <2>1, <2>2
<1>5. CASE line.t = "delta"
    <2>1. Normalized(line) = <<>>
        BY <1>5 DEF Normalized, HasText, HasCall
    <2> QED
        BY <2>1
<1> QED
    BY <1>0, <1>1, <1>2, <1>3, <1>4, <1>5 DEF HasText, HasCall, LineTypes

(* What reading a line adds: the events behind those produced before, with *)
(* the next numbers, and an item for each, or one for a delta.             *)
Numbered(i, ev) == [t |-> "event", row |-> [seq |-> seq + i, ev |-> ev]]
Read(evs) ==
    /\ evs \in Seq(Events) /\ Len(evs) \in 0..2
    /\ seq' = seq + Len(evs)
    /\ produced' = produced \o evs
    /\ Len(outbox') >= Len(outbox) + Len(evs)
    /\ script[lines + 1].t # "delta" => Len(outbox') = Len(outbox) + Len(evs)
    /\ \A k \in 1..Len(outbox) : outbox'[k] = outbox[k]
    /\ \A i \in 1..Len(evs) : outbox'[Len(outbox) + i] = Numbered(i, evs[i])
    /\ \A k \in 1..Len(outbox') : k > Len(outbox) =>
          \/ outbox'[k] = [t |-> "delta", n |-> texts + 1]
          \/ \E i \in 1..Len(evs) : k = Len(outbox) + i

LEMMA ReadAdds ==
    ASSUME TypeInv, ReadLine
    PROVE  /\ outbox' \in Seq(Item') /\ produced' \in Seq(Events)
           /\ Read(Normalized(script[lines + 1]))
           /\ script' = script /\ texts \in Nat /\ texts <= texts' /\ texts' \in Nat
<1> DEFINE line == script[lines + 1]
           evs == Normalized(line)
           items == Items(line, evs)
<1>0. TypeOK /\ lines < Len(script) /\ script' = script
    BY DEF TypeInv, ReadLine
<1>1. /\ evs \in Seq(Events) /\ Len(evs) \in 0..2 /\ Len(evs) \in Nat
      /\ line.t = "delta" => evs = <<>>
    BY <1>0, LineEvents
<1>2. texts \in Nat /\ texts' \in Nat /\ texts <= texts'
    BY <1>0, NextLine DEF ReadLine
<1>3. produced \in Seq(Events) /\ seq = Len(produced) /\ Events' = Events
    BY <1>0 DEF TypeOK, Events
<1>4. seq' = seq + Len(evs) /\ produced' = produced \o evs
    <2>1. produced' = produced \o evs /\ seq' = IF evs = <<>> THEN seq ELSE seq + Len(evs)
        BY DEF ReadLine, NumberOf
    <2>2. seq \in Nat
        BY <1>3
    <2> HIDE DEF evs
    <2>3. evs = <<>> => Len(evs) = 0
        OBVIOUS
    <2> QED
        BY <2>1, <2>2, <2>3
<1>5. produced' \in Seq(Events)
    BY <1>1, <1>3, <1>4, ConcatProperties
<1>6. /\ items \in Seq(Item')
      /\ IF line.t = "delta" THEN Len(items) = 1 /\ items[1] = [t |-> "delta", n |-> texts + 1]
         ELSE /\ Len(items) = Len(evs)
              /\ \A i \in 1..Len(evs) : items[i] = Numbered(i, evs[i])
    <2>1. CASE line.t = "delta"
        <3> DEFINE d == [t |-> "delta", n |-> texts + 1]
                   e == [i \in DOMAIN evs |->
                            [t |-> "event", row |-> [seq |-> NumberOf(i), ev |-> evs[i]]]]
        <3>1. e = <<>>
            BY <1>1, <2>1
        <3>2. items = <<d>> \o e
            BY <2>1 DEF Items
        <3>3. d \in Item'
            BY <1>2 DEF Item
        <3> HIDE DEF d, e
        <3>4. items = <<d>>
            BY <3>1, <3>2, <3>3, ConcatEmptySeq
        <3> QED
            BY <2>1, <3>3, <3>4 DEF d
    <2>2. CASE line.t # "delta"
        <3> DEFINE e == [i \in DOMAIN evs |->
                            [t |-> "event", row |-> [seq |-> NumberOf(i), ev |-> evs[i]]]]
        <3>1. items = <<>> \o e
            BY <2>2 DEF Items
        <3>2. DOMAIN evs = 1..Len(evs) /\ \A i \in 1..Len(evs) : evs[i] \in Events
            BY <1>1, LenProperties, ElementOfSeq
        <3>3. \A i \in 1..Len(evs) : e[i] = Numbered(i, evs[i]) /\ e[i] \in Item'
            <4> SUFFICES ASSUME NEW i \in 1..Len(evs)
                         PROVE  e[i] = Numbered(i, evs[i]) /\ e[i] \in Item'
                OBVIOUS
            <4>1. e[i] = Numbered(i, evs[i])
                BY <3>2 DEF Numbered, NumberOf
            <4>2. seq + i \in 1..(2 * Len(script))
                <5>1. seq \in Nat /\ seq <= 2 * lines /\ lines + 1 <= Len(script) /\ lines \in Nat
                    BY <1>0, <1>3, NextLine DEF TypeInv
                <5>2. i \in 1..2
                    BY <1>1, OneOfTwo
                <5> QED
                    BY <1>0, <5>1, <5>2, NextLine
            <4>3. [seq |-> seq + i, ev |-> evs[i]] \in Rows'
                BY <1>0, <1>3, <3>2, <4>2 DEF Rows
            <4> QED
                BY <4>1, <4>3 DEF Numbered, Item
        <3>4. e \in [1..Len(evs) -> Item']
            BY <3>2, <3>3
        <3> HIDE DEF e
        <3>5. e \in Seq(Item') /\ Len(e) = Len(evs)
            <4>1. e \in Seq(Item')
                BY <1>1, <3>4, SeqDef
            <4> QED
                BY <1>1, <3>4, <4>1, LenProperties
        <3>6. items = e
            BY <3>1, <3>5, ConcatEmptySeq
        <3> QED
            BY <2>2, <3>3, <3>5, <3>6
    <2> QED
        BY <2>1, <2>2
<1>7. outbox \in Seq(Item')
    <2>1. outbox \in Seq(Item)
        BY <1>0 DEF TypeOK, Item
    <2>2. Item \subseteq Item'
        BY <1>0, <1>2, <1>3 DEF Item, Rows
    <2> QED
        BY <2>1, <2>2, SeqMonotonic
<1>8. outbox' = outbox \o items
    BY DEF ReadLine
<1> HIDE DEF items, evs, line
<1>9. /\ outbox' \in Seq(Item') /\ Len(outbox') = Len(outbox) + Len(items)
      /\ \A k \in 1..(Len(outbox) + Len(items)) :
            outbox'[k] = IF k <= Len(outbox) THEN outbox[k] ELSE items[k - Len(outbox)]
      /\ Len(outbox) \in Nat /\ Len(items) \in Nat
    BY <1>6, <1>7, <1>8, ConcatProperties, LenProperties
<1>10. Read(evs)
    <2>1. Len(outbox') >= Len(outbox) + Len(evs)
        BY <1>1, <1>6, <1>9
    <2>2. \A k \in 1..Len(outbox) : outbox'[k] = outbox[k]
        BY <1>9
    <2>3. ASSUME NEW i \in 1..Len(evs)
          PROVE  outbox'[Len(outbox) + i] = Numbered(i, evs[i])
        <3>1. Len(evs) > 0 /\ ~(line.t = "delta")
            <4>1. evs = <<>> => Len(evs) = 0
                OBVIOUS
            <4> QED
                BY <1>1, <2>3, <4>1
        <3>2. Len(items) = Len(evs) /\ items[i] = Numbered(i, evs[i])
            BY <1>6, <2>3, <3>1
        <3>3. /\ Len(outbox) + i \in 1..(Len(outbox) + Len(items))
              /\ ~(Len(outbox) + i <= Len(outbox)) /\ (Len(outbox) + i) - Len(outbox) = i
            BY <1>1, <1>9, <2>3, <3>2
        <3> QED
            BY <1>9, <3>2, <3>3
    <2>4. ASSUME NEW k \in 1..Len(outbox'), k > Len(outbox)
          PROVE  \/ outbox'[k] = [t |-> "delta", n |-> texts + 1]
                 \/ \E i \in 1..Len(evs) : k = Len(outbox) + i
        <3>1. k - Len(outbox) \in 1..Len(items) /\ outbox'[k] = items[k - Len(outbox)]
            BY <1>9, <2>4
        <3>2. CASE line.t = "delta"
            <4>1. Len(items) = 1 /\ items[1] = [t |-> "delta", n |-> texts + 1]
                BY <1>6, <3>2
            <4>2. k - Len(outbox) = 1
                BY <1>9, <3>1, <4>1
            <4> QED
                BY <3>1, <4>1, <4>2
        <3>3. CASE line.t # "delta"
            <4>1. k - Len(outbox) \in 1..Len(evs) /\ k = Len(outbox) + (k - Len(outbox))
                BY <1>6, <1>9, <2>4, <3>1, <3>3
            <4> QED
                BY <4>1
        <3> QED
            BY <3>2, <3>3
    <2>5. line.t # "delta" => Len(outbox') = Len(outbox) + Len(evs)
        BY <1>6, <1>9
    <2> QED
        BY <1>1, <1>4, <2>1, <2>2, <2>3, <2>4, <2>5 DEF Read, line
<1> QED
    BY <1>0, <1>2, <1>5, <1>9, <1>10 DEF evs, line

-----------------------------------------------------------------------------
(* Types are kept by every step.                                           *)

LEMMA TailOf ==
    ASSUME NEW S, NEW q \in Seq(S), q # <<>>
    PROVE  /\ Head(q) \in S /\ Tail(q) \in Seq(S)
           /\ Head(q) = q[1] /\ 1 \in 1..Len(q) /\ Len(Tail(q)) = Len(q) - 1
           /\ \A i \in 1..Len(Tail(q)) : Tail(q)[i] = q[i + 1] /\ i + 1 \in 1..Len(q)
           /\ \A k \in 1..Len(q) : k # 1 => k - 1 \in 1..Len(Tail(q)) /\ Tail(q)[k - 1] = q[k]
OBVIOUS

LEMMA AppendOf ==
    ASSUME NEW S, NEW q \in Seq(S), NEW x \in S
    PROVE  /\ Append(q, x) \in Seq(S) /\ Len(Append(q, x)) = Len(q) + 1
           /\ \A i \in 1..Len(q) : Append(q, x)[i] = q[i] /\ i \in 1..(Len(q) + 1)
           /\ Append(q, x)[Len(q) + 1] = x
OBVIOUS

StageType ==
    /\ home \in {"local", "remote"}
    /\ task \in {"insert", "prepare", "await", "settle", "done", "dropped", "left"}
    /\ outcome \in {"none", "ok", "err"} /\ feed \in BOOLEAN
    /\ status \in Statuses
ReaderType ==
    /\ agent \in {"none", "running", "closed"}
    /\ script \in Scripts /\ lines \in 0..Len(script)
    /\ texts \in 0..lines /\ calls \in 0..lines
    /\ open \subseteq 1..calls /\ warned \in BOOLEAN
    /\ seq = Len(produced) /\ result \in {"none", "ok", "err"}
    /\ produced \in Seq(Events) /\ seq <= 2 * lines
PathType ==
    /\ outbox \in Seq(Item) /\ rows \in Seq(Rows) /\ faults \in 0..MaxFaults
    /\ persist = Idle \/ persist \in [pc : {"insert", "publish"}, row : Rows]
PageType ==
    /\ view.status \in Statuses /\ view.rows \in Seq(Rows)
    /\ known \in Statuses /\ got \in Statuses
    /\ poll \in {"unmounted", "idle", "wanted", "rows"}
    /\ sse \in {"off", "wanted", "open"}
StreamType ==
    /\ chan \in Seq(Msg) /\ Len(chan) <= Capacity
    /\ lagged \in BOOLEAN /\ draft \subseteq 1..(texts + 1)

LEMMA TypeParts ==
    TypeInv <=> StageType /\ ReaderType /\ PathType /\ PageType /\ StreamType
BY DEF TypeInv, TypeOK, StageType, ReaderType, PathType, PageType, StreamType, Item

LEMMA TypePartsNext ==
    (StageType /\ ReaderType /\ PathType /\ PageType /\ StreamType)' => TypeInv'
BY TypeParts, PTL

Same == script' = script /\ texts' = texts

LEMMA SameSets ==
    ASSUME Same PROVE Rows' = Rows /\ Item' = Item /\ Msg' = Msg /\ Events' = Events
BY DEF Same, Rows, Events, Item, Msg, EndedItem, Kinds

LEMMA ReaderKept ==
    ASSUME ReaderType, UNCHANGED <<script, readerVars>>
    PROVE  ReaderType'
BY SameSets DEF ReaderType, readerVars, Same

LEMMA PathKept ==
    ASSUME PathType, Same, UNCHANGED <<outbox, rows, persist, faults>>
    PROVE  PathType'
BY SameSets DEF PathType, Idle

LEMMA PageKept ==
    ASSUME PageType, Same, UNCHANGED <<pollVars, sse>>
    PROVE  PageType'
BY SameSets DEF PageType, pollVars, Statuses

LEMMA StreamKept ==
    ASSUME StreamType, Same, UNCHANGED <<chan, lagged, draft>>
    PROVE  StreamType'
BY SameSets DEF StreamType, Same

LEMMA StreamMoves ==
    ASSUME StreamType, Same, draft' = draft,
           UNCHANGED <<chan, lagged>> \/ StreamOff
    PROVE  StreamType'
<1>1. lagged' \in BOOLEAN
    BY DEF StreamType, StreamOff
<1>2. chan' \in Seq(Msg) /\ Len(chan') <= Capacity
    <2>1. CASE chan' = chan
        BY <2>1 DEF StreamType
    <2>2. CASE chan' = <<>>
        <3>1. 0 <= Capacity
            BY CapacityAssumption
        <3> QED
            BY <2>2, <3>1
    <2> QED
        BY <2>1, <2>2 DEF StreamOff
<1> QED
    BY <1>1, <1>2, SameSets DEF StreamType, Same

LEMMA InitType == Init => TypeInv
<1> SUFFICES ASSUME Init PROVE TypeInv
    OBVIOUS
<1>1. script \in Seq([t : LineTypes, n : 0..Len(script)])
    BY ScriptsAssumption DEF Init
<1>2. Len(script) \in Nat
    BY <1>1
<1>3. StageType
    BY DEF Init, StageType, Statuses
<1>4. ReaderType
    <2>1. produced \in Seq(Events) /\ Len(produced) = 0
        BY DEF Init
    <2> QED
        <3>1. lines = 0 /\ texts = 0 /\ calls = 0 /\ open = {} /\ script \in Scripts /\ seq = 0
              /\ agent = "none" /\ result = "none"
            BY DEF Init
        <3>2. warned \in BOOLEAN
            BY DEF Init
        <3> QED
            BY <1>2, <2>1, <3>1, <3>2 DEF ReaderType
<1>5. PathType
    <2>1. outbox \in Seq(Item) /\ rows \in Seq(Rows)
        BY DEF Init
    <2> QED
        BY <2>1, FaultsAssumption DEF Init, PathType
<1>6. PageType
    <2>1. view.rows \in Seq(Rows) /\ view.status = "none"
        BY DEF Init, NoView
    <2> QED
        BY <2>1 DEF Init, PageType, Statuses
<1>7. StreamType
    <2>1. chan \in Seq(Msg) /\ Len(chan) = 0
        BY DEF Init
    <2>2. lagged \in BOOLEAN /\ draft = {}
        BY DEF Init
    <2> QED
        BY <2>1, <2>2, CapacityAssumption DEF StreamType
<1> QED
    BY <1>3, <1>4, <1>5, <1>6, <1>7, TypeParts

(* A message goes into the channel, if anybody listens.                    *)
LEMMA BroadcastType ==
    ASSUME StreamType, Same, NEW m \in Msg, Broadcast(m)
    PROVE  StreamType'
<1>1. chan \in Seq(Msg) /\ Len(chan) <= Capacity /\ Len(chan) \in Nat
    BY DEF StreamType
<1>2. Queued(m) \in Seq(Msg) /\ Len(Queued(m)) <= Capacity
    <2>1. CASE Len(chan) < Capacity
        <3>1. Append(chan, m) \in Seq(Msg) /\ Len(Append(chan, m)) = Len(chan) + 1
            BY <1>1, AppendOf
        <3>2. Queued(m) = Append(chan, m)
            BY <2>1 DEF Queued
        <3> QED
            BY <1>1, <2>1, <3>1, <3>2, CapacityAssumption
    <2>2. CASE ~(Len(chan) < Capacity)
        <3>1. chan # <<>>
            BY <1>1, <2>2, CapacityAssumption
        <3>2. Tail(chan) \in Seq(Msg) /\ Len(Tail(chan)) = Len(chan) - 1
            BY <1>1, <3>1, TailOf
        <3>3. Append(Tail(chan), m) \in Seq(Msg) /\ Len(Append(Tail(chan), m)) = Len(Tail(chan)) + 1
            BY <3>2, AppendOf
        <3>4. Queued(m) = Append(Tail(chan), m)
            BY <2>2 DEF Queued
        <3>5. Len(Queued(m)) = Len(chan)
            BY <1>1, <3>2, <3>3, <3>4
        <3> QED
            BY <1>1, <3>3, <3>4, <3>5
    <2> QED
        BY <2>1, <2>2
<1>3. chan' \in Seq(Msg) /\ Len(chan') <= Capacity
    BY <1>1, <1>2 DEF Broadcast
<1>4. lagged' \in BOOLEAN /\ draft' = draft
    BY DEF Broadcast, StreamType
<1> QED
    BY <1>3, <1>4, SameSets DEF StreamType, Same

LEMMA WithRowType ==
    ASSUME PathType, NEW row \in Rows
    PROVE  WithRow(row) \in Seq(Rows)
    BY DEF PathType, WithRow

LEMMA TypeStage ==
    ASSUME TypeInv, Stage \/ LeaseExpires \/ AbortSettles \/ RemoteKilled
    PROVE  TypeInv'
<1>0. StageType /\ ReaderType /\ PathType /\ PageType /\ StreamType
    BY TypeParts
<1>1. Same /\ UNCHANGED <<outbox, rows, persist, faults, pollVars, streamVars>>
    BY
    DEF Stage, StageInsert, StageDispatch, StageSettle, LeaseExpires, AbortSettle, AbortSettles,
        Aborted, Verdict, RemoteKilled, readerVars, Same
<1>2. StageType'
    BY <1>0
    DEF Stage, StageInsert, StageDispatch, StageSettle, LeaseExpires, AbortSettle, AbortSettles,
        Aborted, Verdict, RemoteKilled, Return, StageType, Statuses, stageVars
<1>3. ReaderType'
    BY <1>0, <1>1, SameSets
    DEF Stage, StageInsert, StageDispatch, StageSettle, LeaseExpires, AbortSettle, AbortSettles,
        Aborted, Verdict, RemoteKilled, readerVars, ReaderType, Same
<1> QED
    BY <1>0, <1>1, <1>2, <1>3, PathKept, PageKept, StreamKept, TypePartsNext DEF streamVars

LEMMA TypeAbort ==
    ASSUME TypeInv, Abort
    PROVE  TypeInv'
<1>0. StageType /\ ReaderType /\ PathType /\ PageType /\ StreamType
    BY TypeParts
<1>1. Same /\ UNCHANGED <<faults, pollVars, streamVars>>
    BY DEF Abort, Same
<1>2. StageType'
    BY <1>0 DEF Abort, Verdict, StageType, Statuses
<1>3. ReaderType'
    BY <1>0, <1>1, SameSets DEF Abort, ReaderType, Same
<1>4. PathType'
    <2>1. persist.pc = "insert" => persist.row \in Rows
        BY <1>0 DEF PathType, Idle
    <2>2. rows' \in Seq(Rows)
        <3>1. rows' = rows \/ (persist.pc = "insert" /\ rows' = WithRow(persist.row))
            BY DEF Abort
        <3> QED
            BY <1>0, <2>1, <3>1, WithRowType DEF PathType
    <2>3. \/ outbox' = <<>> /\ persist' = Idle
          \/ outbox' = outbox /\ persist' = persist
        BY DEF Abort
    <2>4. outbox' \in Seq(Item)
        <3>1. outbox' = <<>> \/ outbox' = outbox
            BY <2>3
        <3>2. outbox \in Seq(Item) /\ <<>> \in Seq(Item)
            BY <1>0 DEF PathType
        <3> QED
            BY <3>1, <3>2
    <2>5. persist' = Idle \/ persist' \in [pc : {"insert", "publish"}, row : Rows]
        <3>1. persist' = Idle \/ persist' = persist
            BY <2>3
        <3>2. persist = Idle \/ persist \in [pc : {"insert", "publish"}, row : Rows]
            BY <1>0 DEF PathType
        <3> QED
            BY <3>1, <3>2
    <2> QED
        BY <1>0, <1>1, <2>2, <2>4, <2>5, SameSets DEF PathType, Idle
<1> QED
    BY <1>0, <1>1, <1>2, <1>3, <1>4, PageKept, StreamKept, TypePartsNext DEF streamVars

LEMMA TypePage ==
    ASSUME TypeInv, Mount \/ IntervalElapses \/ FetchStatus \/ StreamOpens \/ StreamEnds
                    \/ StreamBreaks
    PROVE  TypeInv'
<1>0. StageType /\ ReaderType /\ PathType /\ PageType /\ StreamType
    BY TypeParts
<1>1. Same /\ UNCHANGED <<home, script, stageVars, rows, readerVars, outbox, persist, faults>>
    BY DEF Mount, IntervalElapses, FetchStatus, StreamOpens, StreamEnds, StreamBreaks,
           StreamCloses, readerVars, Same
<1>2. StageType'
    BY <1>0, <1>1 DEF StageType, stageVars, Statuses
<1>4. StreamType'
    <2>1. draft' = draft /\ (UNCHANGED <<chan, lagged>> \/ StreamOff)
        BY DEF Mount, IntervalElapses, FetchStatus, StreamOpens, StreamEnds, StreamBreaks,
               StreamCloses, streamVars
    <2> QED
        BY <1>0, <1>1, <2>1, StreamMoves
<1>5. PageType'
    <2>1. view' = view /\ known' \in {known, status} /\ got' \in {got, status}
        BY DEF Mount, IntervalElapses, FetchStatus, StreamOpens, StreamEnds, StreamBreaks,
               StreamCloses, pollVars
    <2>2. poll' \in {poll, "wanted", "rows"} /\ sse' \in {sse, "off", "wanted", "open"}
        BY DEF Mount, IntervalElapses, FetchStatus, StreamOpens, StreamEnds, StreamBreaks,
               StreamCloses, StreamOff, Invalidate, pollVars, streamVars
    <2> QED
        BY <1>0, <1>1, <2>1, <2>2, SameSets DEF PageType, StageType, Statuses
<1> QED
    BY <1>0, <1>1, <1>2, <1>4, <1>5, ReaderKept, PathKept, TypePartsNext

LEMMA TypeFetchRows ==
    ASSUME TypeInv, Increasing(rows), FetchRows
    PROVE  TypeInv'
<1>0. StageType /\ ReaderType /\ PathType /\ PageType /\ StreamType
    BY TypeParts
<1>1. Same /\ UNCHANGED <<home, script, stageVars, rows, readerVars, outbox, persist, faults,
                          known, got, draft>>
    BY DEF FetchRows, readerVars, Same
<1>2. StageType'
    BY <1>0, <1>1 DEF StageType, stageVars, Statuses
<1>3. InOrder(rows) = rows
    <2>1. \A i \in DOMAIN rows : rows[i].seq \in Nat
        <3>1. rows \in Seq(Rows)
            BY <1>0 DEF PathType
        <3>2. \A r \in Rows : r.seq \in Nat
            BY DEF Rows
        <3> HIDE DEF Rows
        <3>3. \A i \in DOMAIN rows : rows[i] \in Rows
            BY <3>1
        <3> QED
            BY <3>2, <3>3
    <2> QED
        BY <1>0, <2>1, OrderKept DEF PathType
<1>4. view'.status = got /\ view'.rows = rows /\ poll' = "idle"
    BY <1>3 DEF FetchRows
<1>5. PageType'
    <2>1. sse' \in {sse, "off"}
        BY DEF FetchRows, StreamOff
    <2> QED
        BY <1>0, <1>1, <1>4, <2>1, SameSets DEF PageType, PathType, Statuses
<1>6. StreamType'
    <2>1. UNCHANGED <<chan, lagged>> \/ StreamOff
        BY DEF FetchRows
    <2> QED
        BY <1>0, <1>1, <2>1, StreamMoves
<1> QED
    BY <1>0, <1>1, <1>2, <1>5, <1>6, ReaderKept, PathKept, TypePartsNext

LEMMA TypeReads ==
    ASSUME TypeInv, ReadLine
    PROVE  TypeInv'
<1> DEFINE line == script[lines + 1]
           evs == Normalized(line)
<1>0. StageType /\ ReaderType /\ PathType /\ PageType /\ StreamType /\ TypeOK
    BY TypeParts DEF TypeInv
<1>1. lines < Len(script) /\ lines' = lines + 1 /\ script' = script
    BY DEF ReadLine
<1>2. /\ line \in [t : LineTypes, n : 0..Len(script)]
      /\ Len(script) \in Nat /\ lines \in Nat /\ texts \in Nat /\ calls \in Nat
      /\ texts <= lines /\ calls <= lines
    BY <1>0, <1>1, NextLine
<1>3. /\ outbox' \in Seq(Item') /\ produced' \in Seq(Events) /\ texts \in Nat
      /\ texts <= texts' /\ texts' \in Nat /\ Read(evs)
    BY ReadAdds
<1>4. Rows' = Rows /\ Events' = Events /\ Msg \subseteq Msg'
    BY <1>1, <1>3 DEF Rows, Events, Msg, Kinds
<1>5. StageType'
    BY <1>0, <1>1 DEF ReadLine, StageType, stageVars, Statuses
<1>6. ReaderType'
    <2>1. texts' \in 0..lines' /\ calls' \in 0..lines'
        BY <1>1, <1>2 DEF ReadLine
    <2>2. open' \subseteq 1..calls'
        <3>1. OpenAfter(line) \subseteq 1..(IF HasCall(line) THEN calls + 1 ELSE calls)
            BY <1>0, <1>2 DEF OpenAfter, ReaderType
        <3> QED
            BY <3>1 DEF ReadLine
    <2>3. warned' \in BOOLEAN
        BY DEF ReadLine
    <2>4. result' \in {"none", "ok", "err"} /\ agent' = agent
        BY <1>0 DEF ReadLine, ReaderType
    <2>5. seq' = Len(produced') /\ seq' <= 2 * lines'
        <3>1. /\ seq' = seq + Len(evs) /\ produced' = produced \o evs
              /\ evs \in Seq(Events) /\ Len(evs) \in 0..2
            BY <1>3 DEF Read
        <3>2. produced \in Seq(Events) /\ seq = Len(produced) /\ seq <= 2 * lines
            BY <1>0 DEF ReaderType
        <3>3. Len(produced') = Len(produced) + Len(evs)
            BY <3>1, <3>2, ConcatProperties
        <3> HIDE DEF evs
        <3>4. Len(evs) \in Nat /\ Len(evs) <= 2 /\ seq \in Nat
            <4>1. Len(produced) \in Nat
                BY <3>2
            <4>2. \A n \in 0..2 : n \in Nat /\ n <= 2
                OBVIOUS
            <4> QED
                BY <3>1, <3>2, <4>1, <4>2
        <3> QED
            BY <1>1, <1>2, <3>1, <3>2, <3>3, <3>4
    <2>6. lines' \in 0..Len(script') /\ script' \in Scripts /\ agent \in {"none", "running", "closed"}
        BY <1>0, <1>1, <1>2 DEF ReaderType
    <2> QED
        BY <1>3, <1>4, <2>1, <2>2, <2>3, <2>4, <2>5, <2>6 DEF ReaderType
<1>7. PathType'
    BY <1>0, <1>3, <1>4 DEF ReadLine, PathType, Idle
<1>8. PageType'
    BY <1>0, <1>4 DEF ReadLine, PageType, pollVars, streamVars, Statuses
<1>9. StreamType'
    <2>1. chan' = chan /\ lagged' = lagged /\ draft' = draft
        BY DEF ReadLine, streamVars
    <2>2. chan \in Seq(Msg')
        BY <1>0, <1>4, SeqMonotonic DEF StreamType
    <2>3. draft \subseteq 1..(texts' + 1)
        <3>1. 1..(texts + 1) \subseteq 1..(texts' + 1)
            BY <1>3, MoreNumbers
        <3>2. draft \subseteq 1..(texts + 1)
            BY <1>0 DEF StreamType
        <3> QED
            BY <3>1, <3>2
    <2>4. lagged \in BOOLEAN /\ Len(chan) <= Capacity
        BY <1>0 DEF StreamType
    <2> QED
        BY <2>1, <2>2, <2>3, <2>4 DEF StreamType
<1> QED
    BY <1>5, <1>6, <1>7, <1>8, <1>9, TypePartsNext

LEMMA TypeCloses ==
    ASSUME TypeInv, AgentCloses
    PROVE  TypeInv'
<1>0. StageType /\ ReaderType /\ PathType /\ PageType /\ StreamType
    BY TypeParts
<1>1. Same /\ UNCHANGED <<home, script, stageVars, rows, lines, texts, calls, open, warned, seq,
                          produced, persist, pollVars, streamVars, faults>>
    BY DEF AgentCloses, Same
<1>2. StageType'
    BY <1>0, <1>1 DEF StageType, stageVars, Statuses
<1>3. ReaderType'
    BY <1>0, <1>1, SameSets DEF AgentCloses, ReaderType, Same
<1>4. PathType'
    <2>1. outbox \in Seq(Item) /\ EndedItem \in Item
        BY <1>0 DEF PathType, Item
    <2>2. outbox' \in Seq(Item)
        BY <2>1, AppendOf DEF AgentCloses
    <2> QED
        BY <1>0, <1>1, <2>2, SameSets DEF PathType, Idle
<1> QED
    BY <1>0, <1>1, <1>2, <1>3, <1>4, PageKept, StreamKept, TypePartsNext DEF streamVars

(* Taking an item leaves the rest. *)
LEMMA Taken ==
    ASSUME PathType, outbox # <<>>
    PROVE  /\ Head(outbox) \in Item /\ Tail(outbox) \in Seq(Item)
           /\ Head(outbox).t = "event" => Head(outbox).row \in Rows
           /\ Head(outbox).t = "delta" => Head(outbox).n \in 1..(texts + 1)
<1>1. Head(outbox) \in Item /\ Tail(outbox) \in Seq(Item)
    BY TailOf DEF PathType
<1>2. \A x \in Item : /\ x.t = "event" => x.row \in Rows
                      /\ x.t = "delta" => x.n \in 1..(texts + 1)
    BY DEF Item, EndedItem
<1> QED
    BY <1>1, <1>2

LEMMA TypePersister ==
    ASSUME TypeInv, Persister
    PROVE  TypeInv'
<1>0. StageType /\ ReaderType /\ PathType /\ PageType /\ StreamType
    BY TypeParts
<1>1. Same /\ UNCHANGED <<home, script, status, readerVars, pollVars, sse>>
    BY DEF Persister, TakeDelta, TakeEvent, Publish, TakeEnded, Insert, Broadcast, streamVars,
           stageVars, readerVars, Same
<1>2. StageType'
    <2>1. \/ UNCHANGED <<task, outcome, feed>>
          \/ task' = "settle" /\ outcome' \in {"ok", "err"} /\ feed' \in BOOLEAN
        BY DEF Persister, TakeDelta, TakeEvent, Publish, TakeEnded, Insert, stageVars, Return
    <2> QED
        BY <1>0, <1>1, <2>1 DEF StageType, Statuses
<1>3. outbox' \in Seq(Item)
    <2>1. outbox' = outbox \/ (outbox # <<>> /\ outbox' = Tail(outbox))
        BY DEF Persister, TakeDelta, TakeEvent, Publish, TakeEnded, Insert
    <2> QED
        BY <1>0, <2>1, Taken DEF PathType
<1>4. persist' = Idle \/ persist' \in [pc : {"insert", "publish"}, row : Rows]
    <2>1. CASE TakeEvent
        <3>1. Head(outbox).row \in Rows
            BY <1>0, <2>1, Taken DEF TakeEvent
        <3> QED
            BY <2>1, <3>1 DEF TakeEvent
    <2>2. CASE \E ok \in BOOLEAN : Insert(ok)
        <3>1. persist.pc = "insert" /\ persist' = [persist EXCEPT !.pc = "publish"]
            BY <2>2 DEF Insert
        <3> QED
            BY <1>0, <3>1 DEF PathType, Idle
    <2>3. CASE TakeDelta \/ Publish \/ TakeEnded
        <3>1. persist' \in {persist, Idle}
            BY <2>3 DEF TakeDelta, Publish, TakeEnded
        <3>2. persist = Idle \/ persist \in [pc : {"insert", "publish"}, row : Rows]
            BY <1>0 DEF PathType
        <3> QED
            BY <3>1, <3>2
    <2> QED
        BY <2>1, <2>2, <2>3 DEF Persister
<1>5. rows' \in Seq(Rows) /\ faults' \in 0..MaxFaults
    <2>1. CASE \E ok \in BOOLEAN : Insert(ok)
        <3>1. PICK ok \in BOOLEAN : Insert(ok)
            BY <2>1
        <3>2. persist.row \in Rows
            BY <1>0, <3>1 DEF Insert, PathType, Idle
        <3>3. WithRow(persist.row) \in Seq(Rows) /\ rows \in Seq(Rows)
            BY <1>0, <3>2, WithRowType DEF PathType
        <3>4. rows' \in Seq(Rows)
            BY <3>1, <3>3 DEF Insert
        <3>5. faults' \in 0..MaxFaults
            BY <1>0, <3>1, FaultsAssumption DEF Insert, PathType
        <3> QED
            BY <3>4, <3>5
    <2>2. CASE TakeDelta \/ TakeEvent \/ Publish \/ TakeEnded
        <3>1. rows' = rows /\ faults' = faults
            BY <2>2 DEF TakeDelta, TakeEvent, Publish, TakeEnded
        <3> QED
            BY <1>0, <3>1 DEF PathType
    <2> QED
        BY <2>1, <2>2 DEF Persister
<1>6. PathType'
    BY <1>1, <1>3, <1>4, <1>5, SameSets DEF PathType, Idle
<1>7. StreamType'
    <2>1. CASE TakeDelta
        <3> DEFINE m == [t |-> "delta", n |-> Head(outbox).n]
        <3>1. m \in Msg
            BY <1>0, <2>1, Taken DEF TakeDelta, Msg
        <3>2. Broadcast(m) \/ UNCHANGED streamVars
            BY <2>1 DEF TakeDelta
        <3> QED
            BY <1>0, <1>1, <3>1, <3>2, BroadcastType, StreamKept DEF streamVars
    <2>2. CASE Publish
        <3> DEFINE m == [t |-> persist.row.ev.kind, n |-> persist.row.ev.n]
        <3>1. persist.row \in Rows
            BY <1>0, <2>2 DEF Publish, PathType, Idle
        <3>2. m \in Msg
            BY <3>1 DEF Msg, Rows, Events, Kinds
        <3>3. Broadcast(m)
            BY <2>2 DEF Publish
        <3> QED
            BY <1>0, <1>1, <3>2, <3>3, BroadcastType
    <2>3. CASE TakeEvent \/ TakeEnded \/ \E ok \in BOOLEAN : Insert(ok)
        BY <1>0, <1>1, <2>3, StreamKept DEF TakeEvent, TakeEnded, Insert, streamVars
    <2> QED
        BY <2>1, <2>2, <2>3 DEF Persister
<1> QED
    BY <1>0, <1>1, <1>2, <1>6, <1>7, ReaderKept, PageKept, TypePartsNext

LEMMA TypeMessage ==
    ASSUME TypeInv, Message
    PROVE  TypeInv'
<1>0. StageType /\ ReaderType /\ PathType /\ PageType /\ StreamType
    BY TypeParts
<1>1. Same /\ UNCHANGED <<home, script, stageVars, rows, readerVars, outbox, persist, view,
                          known, got, sse, lagged, faults>>
    BY DEF Message, readerVars, Same
<1>2. StageType'
    BY <1>0, <1>1 DEF StageType, stageVars, Statuses
<1>3. PageType'
    <2>1. poll' \in {poll, "wanted"}
        BY DEF Message, Invalidate
    <2> QED
        BY <1>0, <1>1, <2>1, SameSets DEF PageType, Statuses
<1>4. chan # <<>> /\ chan' = Tail(chan) /\ draft' = DraftAfter(Head(chan))
    BY DEF Message
<1>5. chan \in Seq(Msg) /\ Len(chan) <= Capacity /\ Len(chan) \in Nat
    BY <1>0 DEF StreamType
<1>6. Head(chan) \in Msg /\ Tail(chan) \in Seq(Msg) /\ Len(Tail(chan)) = Len(chan) - 1
    BY <1>4, <1>5, TailOf
<1>7. draft' \subseteq 1..(texts + 1)
    <2>1. \A m \in Msg : m.t = "delta" => m.n \in 1..(texts + 1)
        BY DEF Msg, Kinds
    <2>2. draft \subseteq 1..(texts + 1)
        BY <1>0 DEF StreamType
    <2> QED
        BY <1>4, <1>6, <2>1, <2>2 DEF DraftAfter
<1>8. Len(Tail(chan)) <= Capacity
    BY <1>5, <1>6, CapacityAssumption
<1>9. StreamType'
    BY <1>0, <1>1, <1>4, <1>6, <1>7, <1>8, SameSets DEF StreamType, Same
<1> QED
    BY <1>0, <1>1, <1>2, <1>3, <1>9, ReaderKept, PathKept, TypePartsNext

LEMMA TypeStep ==
    ASSUME TypeInv, Increasing(rows), [Next]_vars
    PROVE  TypeInv'
<1>1. CASE UNCHANGED vars
    <2>1. Same
        BY <1>1 DEF vars, readerVars, Same
    <2>2. StageType'
        BY <1>1, TypeParts DEF vars, StageType, stageVars, Statuses
    <2> QED
        BY <1>1, <2>1, <2>2, TypeParts, ReaderKept, PathKept, PageKept, StreamKept, TypePartsNext
        DEF vars, streamVars
<1> QED
    BY <1>1, TypeStage, TypeAbort, TypePage, TypeFetchRows, TypeReads, TypeCloses, TypePersister,
       TypeMessage
    DEF Next, Stage, Fetch

-----------------------------------------------------------------------------
(* The path of an event: what a step does to the outbox, the persister and *)
(* the rows.                                                               *)

Still == UNCHANGED <<rows, persist, outbox, produced>>
Reads == Read(Normalized(script[lines + 1])) /\ UNCHANGED <<rows, persist>>
Closes == outbox' = Append(outbox, EndedItem) /\ UNCHANGED <<rows, persist, produced>>
Passes == outbox # <<>> /\ outbox' = Tail(outbox) /\ UNCHANGED <<rows, persist, produced>>
Takes ==
    /\ outbox # <<>> /\ Head(outbox).t = "event" /\ outbox' = Tail(outbox) /\ feed
    /\ persist = Idle /\ persist' = [pc |-> "insert", row |-> Head(outbox).row]
    /\ UNCHANGED <<rows, produced>>
Writes ==
    /\ persist.pc = "insert" /\ persist'.pc # "insert"
    /\ rows' = WithRow(persist.row)
    /\ outbox' = outbox \/ outbox' = <<>>
    /\ UNCHANGED produced
Drops ==
    /\ persist'.pc # "insert" /\ (outbox' = outbox \/ outbox' = <<>>)
    /\ UNCHANGED <<rows, produced>>

LEMMA Moves ==
    ASSUME TypeInv, [Next]_vars
    PROVE  Still \/ Reads \/ Closes \/ Passes \/ Takes \/ Writes \/ Drops
<1>1. CASE UNCHANGED vars
    BY <1>1 DEF vars, readerVars, Still
<1>2. CASE ReadLine
    BY <1>2, ReadAdds DEF ReadLine, Reads
<1>3. CASE AgentCloses
    BY <1>3 DEF AgentCloses, Closes
<1>4. CASE Stage \/ LeaseExpires \/ AbortSettles \/ RemoteKilled
    BY <1>4
    DEF Stage, StageInsert, StageDispatch, StageSettle, LeaseExpires, AbortSettle, AbortSettles,
        Aborted, Verdict, RemoteKilled, readerVars, Still
<1>5. CASE Abort
    <2>1. CASE home = "local"
        <3>1. outbox' = <<>> /\ persist' = Idle /\ produced' = produced
            BY <1>5, <2>1 DEF Abort
        <3>2. rows' = rows \/ (persist.pc = "insert" /\ rows' = WithRow(persist.row))
            BY <1>5, <2>1 DEF Abort
        <3>3. persist'.pc # "insert"
            BY <3>1 DEF Idle
        <3> QED
            BY <3>1, <3>2, <3>3 DEF Writes, Drops
    <2>2. CASE home # "local"
        BY <1>5, <2>2 DEF Abort, Still
    <2> QED
        BY <2>1, <2>2
<1>6. CASE TakeDelta
    BY <1>6 DEF TakeDelta, readerVars, Passes
<1>7. CASE TakeEvent
    <2>1. CASE feed
        BY <1>7, <2>1 DEF TakeEvent, readerVars, Takes
    <2>2. CASE ~feed
        BY <1>7, <2>2 DEF TakeEvent, readerVars, Passes
    <2> QED
        BY <2>1, <2>2
<1>8. CASE Publish
    <2>1. persist'.pc # "insert"
        BY <1>8 DEF Publish, Idle
    <2> QED
        BY <1>8, <2>1 DEF Publish, readerVars, Drops
<1>9. CASE TakeEnded
    BY <1>9 DEF TakeEnded, readerVars, Passes
<1>10. ASSUME NEW ok \in BOOLEAN, Insert(ok) PROVE Writes \/ Drops
    <2>1. persist.pc = "insert" /\ persist' = [persist EXCEPT !.pc = "publish"]
        BY <1>10 DEF Insert
    <2>2. persist'.pc # "insert"
        BY <2>1, TypeParts DEF PathType, Idle
    <2>3. outbox' = outbox /\ produced' = produced
        BY <1>10 DEF Insert, readerVars
    <2>4. rows' = rows \/ rows' = WithRow(persist.row)
        BY <1>10 DEF Insert
    <2> QED
        BY <2>1, <2>2, <2>3, <2>4 DEF Writes, Drops
<1>11. CASE Mount \/ IntervalElapses \/ FetchStatus \/ FetchRows \/ StreamOpens \/ StreamEnds
            \/ StreamBreaks \/ Message
    BY <1>11
    DEF Mount, IntervalElapses, FetchStatus, FetchRows, StreamOpens, StreamEnds, StreamBreaks,
        StreamCloses, Message, readerVars, Still
<1> QED
    BY <1>1, <1>2, <1>3, <1>4, <1>5, <1>6, <1>7, <1>8, <1>9, <1>10, <1>11
    DEF Next, Stage, Persister, Fetch

(* The view is replaced by what the rows are, or stays.                    *)
LEMMA ViewMoves ==
    ASSUME TypeInv, Increasing(rows), [Next]_vars
    PROVE  \/ view' = view
           \/ view'.status = got /\ view'.rows = rows /\ UNCHANGED <<rows, status, faults>>
<1>1. CASE FetchRows
    <2>1. rows \in Seq(Rows) /\ \A i \in DOMAIN rows : rows[i].seq \in Nat
        <3>1. rows \in Seq(Rows)
            BY TypeParts DEF PathType
        <3>2. \A r \in Rows : r.seq \in Nat
            BY DEF Rows
        <3> HIDE DEF Rows
        <3>3. \A i \in DOMAIN rows : rows[i] \in Rows
            BY <3>1
        <3> QED
            BY <3>1, <3>2, <3>3
    <2>2. InOrder(rows) = rows
        BY <2>1, OrderKept
    <2> QED
        BY <1>1, <2>2 DEF FetchRows, stageVars
<1>2. CASE ~FetchRows
    BY <1>2
    DEF Next, Stage, StageInsert, StageDispatch, StageSettle, LeaseExpires, Abort, AbortSettle,
        AbortSettles, Aborted, Verdict, RemoteKilled, ReadLine, AgentCloses, Persister,
        TakeDelta, TakeEvent, Publish, TakeEnded, Insert, Mount, IntervalElapses, Fetch,
        FetchStatus, StreamOpens, StreamEnds, StreamBreaks, StreamCloses, Message, pollVars,
        vars
<1> QED
    BY <1>1, <1>2

-----------------------------------------------------------------------------
(* Every row is an event the agent produced, wherever it is.               *)

Genuine(row) == row.seq \in 1..Len(produced) /\ row.ev = produced[row.seq]
Origin ==
    /\ \A i \in 1..Len(rows) : Genuine(rows[i])
    /\ persist.pc = "insert" => Genuine(persist.row)
    /\ \A k \in 1..Len(outbox) : outbox[k].t = "event" => Genuine(outbox[k].row)
    /\ \A i \in 1..Len(view.rows) : Genuine(view.rows[i])

(* Rows are in order, and what is under way is behind them, in order.      *)
IsEvent(k) == outbox[k].t = "event"
NumberAt(k) == outbox[k].row.seq
Ordered ==
    /\ \A i, j \in 1..Len(rows) : i < j => rows[i].seq < rows[j].seq
    /\ persist.pc = "insert" => \A i \in 1..Len(rows) : rows[i].seq < persist.row.seq
    /\ \A k \in 1..Len(outbox) : IsEvent(k) =>
          /\ \A i \in 1..Len(rows) : rows[i].seq < NumberAt(k)
          /\ persist.pc = "insert" => persist.row.seq < NumberAt(k)
          /\ \A j \in 1..Len(outbox) : j < k /\ IsEvent(j) => NumberAt(j) < NumberAt(k)

LEMMA Elements ==
    ASSUME PathType
    PROVE  /\ DOMAIN rows = 1..Len(rows) /\ Len(rows) \in Nat /\ Len(outbox) \in Nat
           /\ \A i \in 1..Len(rows) : rows[i] \in Rows /\ rows[i].seq \in Nat
           /\ \A k \in 1..Len(outbox) :
                 IsEvent(k) => outbox[k].row \in Rows /\ NumberAt(k) \in Nat
           /\ persist.pc = "insert" => persist.row \in Rows /\ persist.row.seq \in Nat
<1>1. \A r \in Rows : r.seq \in Nat
    BY DEF Rows
<1>2. rows \in Seq(Rows) /\ outbox \in Seq(Item)
    BY DEF PathType
<1>3. \A x \in Item : x.t = "event" => x.row \in Rows
    BY DEF Item, EndedItem
<1>4. persist.pc = "insert" => persist.row \in Rows
    BY DEF PathType, Idle
<1> HIDE DEF Rows, Item
<1>5. /\ DOMAIN rows = 1..Len(rows) /\ Len(rows) \in Nat /\ Len(outbox) \in Nat
      /\ \A i \in 1..Len(rows) : rows[i] \in Rows
      /\ \A k \in 1..Len(outbox) : outbox[k] \in Item
    BY <1>2
<1> QED
    BY <1>1, <1>3, <1>4, <1>5 DEF IsEvent, NumberAt

(* UNIQUE (session_id, seq) refuses nothing: a row that is written is new, *)
(* and the last.                                                           *)
LEMMA WritesLast ==
    ASSUME PathType, Ordered, persist.pc = "insert"
    PROVE  /\ WithRow(persist.row) = Append(rows, persist.row)
           /\ Len(WithRow(persist.row)) = Len(rows) + 1
           /\ \A i \in 1..Len(rows) : WithRow(persist.row)[i] = rows[i]
           /\ WithRow(persist.row)[Len(rows) + 1] = persist.row
<1>1. /\ DOMAIN rows = 1..Len(rows) /\ persist.row \in Rows /\ persist.row.seq \in Nat
      /\ \A i \in 1..Len(rows) : rows[i].seq \in Nat /\ rows[i].seq < persist.row.seq
    BY Elements DEF Ordered
<1>2. ~ \E i \in DOMAIN rows : rows[i].seq = persist.row.seq
    BY <1>1
<1>3. WithRow(persist.row) = Append(rows, persist.row)
    BY <1>2 DEF WithRow
<1>4. rows \in Seq(Rows)
    BY DEF PathType
<1> HIDE DEF Rows
<1> QED
    BY <1>1, <1>3, <1>4, AppendOf

(* What was produced stays; what is read is produced.                      *)
GenuineNext(row) == row.seq \in 1..Len(produced') /\ row.ev = produced'[row.seq]

LEMMA GenuineStays ==
    ASSUME TypeInv, produced' = produced \/ Reads, NEW row, Genuine(row)
    PROVE  GenuineNext(row)
<1>1. CASE produced' = produced
    BY <1>1 DEF Genuine, GenuineNext
<1>2. CASE Reads
    <2> DEFINE evs == Normalized(script[lines + 1])
    <2>1. evs \in Seq(Events) /\ produced' = produced \o evs /\ produced \in Seq(Events)
        BY <1>2, TypeParts DEF Reads, Read, ReaderType
    <2> HIDE DEF evs
    <2>2. /\ Len(produced') = Len(produced) + Len(evs) /\ Len(produced) \in Nat /\ Len(evs) \in Nat
          /\ \A i \in 1..(Len(produced) + Len(evs)) :
                produced'[i] = IF i <= Len(produced) THEN produced[i] ELSE evs[i - Len(produced)]
        BY <2>1, ConcatProperties, LenProperties
    <2>3. row.seq \in 1..Len(produced) /\ row.ev = produced[row.seq]
        BY DEF Genuine
    <2> QED
        BY <2>2, <2>3 DEF GenuineNext
<1> QED
    BY <1>1, <1>2

LEMMA ReadGenuine ==
    ASSUME TypeInv, Reads, NEW i \in 1..Len(Normalized(script[lines + 1]))
    PROVE  GenuineNext(Numbered(i, Normalized(script[lines + 1])[i]).row)
<1> DEFINE evs == Normalized(script[lines + 1])
           row == Numbered(i, evs[i]).row
<1>1. /\ evs \in Seq(Events) /\ produced' = produced \o evs /\ produced \in Seq(Events)
      /\ seq = Len(produced) /\ i \in 1..Len(evs)
    BY TypeParts DEF Reads, Read, ReaderType
<1>2. row.seq = seq + i /\ row.ev = evs[i]
    BY DEF Numbered
<1> HIDE DEF evs, row
<1>3. /\ Len(produced') = Len(produced) + Len(evs) /\ Len(produced) \in Nat /\ Len(evs) \in Nat
      /\ \A k \in 1..(Len(produced) + Len(evs)) :
            produced'[k] = IF k <= Len(produced) THEN produced[k] ELSE evs[k - Len(produced)]
    BY <1>1, ConcatProperties, LenProperties
<1>4. /\ Len(produced) + i \in 1..(Len(produced) + Len(evs)) /\ ~(Len(produced) + i <= Len(produced))
      /\ (Len(produced) + i) - Len(produced) = i
    BY <1>1, <1>3
<1>5. GenuineNext(row)
    BY <1>1, <1>2, <1>3, <1>4 DEF GenuineNext
<1> QED
    BY <1>5 DEF row, evs

(* Where an item of the new outbox comes from. *)
LEMMA OutboxNext ==
    ASSUME TypeInv, Still \/ Reads \/ Closes \/ Passes \/ Takes \/ Writes \/ Drops,
           NEW k \in 1..Len(outbox'), outbox'[k].t = "event"
    PROVE  \/ \E j \in 1..Len(outbox) : outbox'[k] = outbox[j]
           \/ Reads /\ \E i \in 1..Len(Normalized(script[lines + 1])) :
                  outbox'[k] = Numbered(i, Normalized(script[lines + 1])[i])
<1>0. outbox \in Seq(Item) /\ Len(outbox) \in Nat
    BY TypeParts DEF PathType
<1>1. CASE Reads
    <2> DEFINE evs == Normalized(script[lines + 1])
    <2>1. Read(evs)
        BY <1>1 DEF Reads
    <2>2. k \in Nat /\ k >= 1
        OBVIOUS
    <2> HIDE DEF evs
    <2>3. CASE k <= Len(outbox)
        BY <1>0, <2>1, <2>2, <2>3 DEF Read
    <2>4. CASE k > Len(outbox)
        <3>1. PICK i \in 1..Len(evs) : k = Len(outbox) + i
            BY <2>1, <2>4 DEF Read
        <3> QED
            BY <1>1, <2>1, <3>1 DEF Read, evs
    <2> QED
        BY <1>0, <2>2, <2>3, <2>4
<1>2. CASE Closes
    <2>1. EndedItem \in Item
        BY DEF Item
    <2>2. /\ Len(outbox') = Len(outbox) + 1
          /\ \A i \in 1..Len(outbox) : outbox'[i] = outbox[i]
          /\ outbox'[Len(outbox) + 1] = EndedItem
        BY <1>0, <1>2, <2>1, AppendOf DEF Closes
    <2>3. k # Len(outbox) + 1
        BY <2>2 DEF EndedItem
    <2>4. k \in 1..Len(outbox)
        BY <1>0, <2>2, <2>3
    <2> QED
        BY <2>2, <2>4
<1>3. CASE Passes \/ Takes
    <2>1. outbox # <<>> /\ outbox' = Tail(outbox)
        BY <1>3 DEF Passes, Takes
    <2>2. outbox'[k] = outbox[k + 1] /\ k + 1 \in 1..Len(outbox)
        BY <1>0, <2>1, TailOf
    <2> QED
        BY <2>2
<1>4. CASE Still \/ Writes \/ Drops
    <2>1. outbox' = outbox \/ outbox' = <<>>
        BY <1>4 DEF Still, Writes, Drops
    <2>2. CASE outbox' = <<>>
        BY <2>2
    <2> QED
        BY <2>1, <2>2
<1> QED
    BY <1>1, <1>2, <1>3, <1>4

LEMMA OriginStep ==
    ASSUME TypeInv, Ordered, Origin, [Next]_vars
    PROVE  Origin'
<1>0. /\ Still \/ Reads \/ Closes \/ Passes \/ Takes \/ Writes \/ Drops
      /\ PathType /\ PageType
    BY Moves, TypeParts
<1>1. produced' = produced \/ Reads
    BY <1>0 DEF Still, Closes, Passes, Takes, Writes, Drops
<1>2. ASSUME NEW i \in 1..Len(rows') PROVE GenuineNext(rows'[i])
    <2>1. CASE Writes
        <3>1. /\ Len(rows') = Len(rows) + 1 /\ rows'[Len(rows) + 1] = persist.row
              /\ \A j \in 1..Len(rows) : rows'[j] = rows[j]
              /\ Len(rows) \in Nat /\ Genuine(persist.row)
            BY <1>0, <2>1, WritesLast, Elements DEF Writes, Origin
        <3>2. i \in 1..Len(rows) \/ i = Len(rows) + 1
            BY <3>1
        <3>3. Genuine(rows'[i])
            BY <3>1, <3>2 DEF Origin
        <3> QED
            BY <1>1, <3>3, GenuineStays
    <2>2. CASE ~Writes
        <3>1. rows' = rows
            BY <1>0, <2>2 DEF Still, Reads, Closes, Passes, Takes, Drops
        <3>2. Genuine(rows[i])
            BY <3>1 DEF Origin
        <3> QED
            BY <1>1, <3>1, <3>2, GenuineStays
    <2> QED
        BY <2>1, <2>2
<1>3. persist'.pc = "insert" => GenuineNext(persist'.row)
    <2> SUFFICES ASSUME persist'.pc = "insert" PROVE GenuineNext(persist'.row)
        OBVIOUS
    <2>1. CASE Takes
        <3>1. Head(outbox) = outbox[1] /\ 1 \in 1..Len(outbox)
            BY <1>0, <2>1, TailOf DEF Takes, PathType
        <3>2. persist'.row = outbox[1].row /\ outbox[1].t = "event"
            BY <2>1, <3>1 DEF Takes
        <3>3. Genuine(persist'.row)
            BY <3>1, <3>2 DEF Origin
        <3> QED
            BY <1>1, <3>3, GenuineStays
    <2>2. CASE ~Takes
        <3>1. persist' = persist
            BY <1>0, <2>2 DEF Still, Reads, Closes, Passes, Writes, Drops
        <3>2. Genuine(persist.row)
            BY <3>1 DEF Origin
        <3> QED
            BY <1>1, <3>1, <3>2, GenuineStays
    <2> QED
        BY <2>1, <2>2
<1>4. ASSUME NEW k \in 1..Len(outbox'), outbox'[k].t = "event"
      PROVE  GenuineNext(outbox'[k].row)
    <2>1. CASE \E j \in 1..Len(outbox) : outbox'[k] = outbox[j]
        <3>1. PICK j \in 1..Len(outbox) : outbox'[k] = outbox[j]
            BY <2>1
        <3>2. Genuine(outbox'[k].row)
            BY <1>4, <3>1 DEF Origin
        <3> QED
            BY <1>1, <3>2, GenuineStays
    <2>2. CASE Reads /\ \E i \in 1..Len(Normalized(script[lines + 1])) :
                  outbox'[k] = Numbered(i, Normalized(script[lines + 1])[i])
        BY <2>2, ReadGenuine
    <2> QED
        BY <1>0, <1>4, <2>1, <2>2, OutboxNext
<1>5. ASSUME NEW i \in 1..Len(view'.rows) PROVE GenuineNext(view'.rows[i])
    <2>1. Increasing(rows)
        BY <1>0, Elements DEF Ordered, Increasing
    <2>2. view'.rows = view.rows \/ view'.rows = rows
        BY <2>1, ViewMoves
    <2>3. Genuine(view'.rows[i])
        BY <2>2 DEF Origin
    <2> QED
        BY <1>1, <2>3, GenuineStays
<1> QED
    BY <1>2, <1>3, <1>4, <1>5 DEF Origin, Genuine, GenuineNext

LEMMA OrderStep ==
    ASSUME TypeInv, Origin, Ordered, [Next]_vars
    PROVE  Ordered'
<1>0. /\ Still \/ Reads \/ Closes \/ Passes \/ Takes \/ Writes \/ Drops
      /\ PathType /\ ReaderType
    BY Moves, TypeParts
<1>1. /\ Len(rows) \in Nat /\ Len(outbox) \in Nat /\ outbox \in Seq(Item)
      /\ \A i \in 1..Len(rows) : rows[i].seq \in Nat
      /\ \A k \in 1..Len(outbox) : IsEvent(k) => NumberAt(k) \in Nat
      /\ persist.pc = "insert" => persist.row.seq \in Nat
    BY <1>0, Elements DEF PathType
<1>2. CASE Still
    BY <1>2 DEF Still, Ordered, IsEvent, NumberAt
<1>3. CASE Reads
    <2> DEFINE evs == Normalized(script[lines + 1])
    <2>1. Read(evs) /\ rows' = rows /\ persist' = persist
        BY <1>3 DEF Reads
    <2>2. seq \in Nat /\ seq = Len(produced)
        BY <1>0 DEF ReaderType
    <2> HIDE DEF evs
    <2>3. /\ \A i \in 1..Len(rows) : rows[i].seq <= seq
          /\ persist.pc = "insert" => persist.row.seq <= seq
          /\ \A k \in 1..Len(outbox) : IsEvent(k) => NumberAt(k) <= seq
        BY <2>2 DEF Origin, Genuine, IsEvent, NumberAt
    <2>4. ASSUME NEW k \in 1..Len(outbox'), IsEvent(k)'
          PROVE  \/ k \in 1..Len(outbox) /\ IsEvent(k) /\ NumberAt(k)' = NumberAt(k)
                 \/ \E i \in 1..Len(evs) : k = Len(outbox) + i /\ NumberAt(k)' = seq + i
        <3>1. CASE k <= Len(outbox)
            <4>1. k \in 1..Len(outbox)
                BY <1>1, <3>1
            <4> QED
                BY <2>1, <2>4, <4>1 DEF Read, IsEvent, NumberAt
        <3>2. CASE k > Len(outbox)
            <4>1. outbox'[k].t = "event"
                BY <2>4 DEF IsEvent
            <4>2. PICK i \in 1..Len(evs) : k = Len(outbox) + i
                BY <2>1, <3>2, <4>1 DEF Read
            <4>3. outbox'[k] = Numbered(i, evs[i])
                BY <2>1, <4>2 DEF Read
            <4> QED
                BY <4>2, <4>3 DEF Numbered, NumberAt
        <3> QED
            BY <1>1, <3>1, <3>2
    <2>5. ASSUME NEW k \in 1..Len(outbox'), IsEvent(k)'
          PROVE  /\ \A i \in 1..Len(rows) : rows[i].seq < NumberAt(k)'
                 /\ persist.pc = "insert" => persist.row.seq < NumberAt(k)'
        <3>1. CASE k \in 1..Len(outbox) /\ IsEvent(k) /\ NumberAt(k)' = NumberAt(k)
            BY <3>1 DEF Ordered
        <3>2. CASE \E i \in 1..Len(evs) : k = Len(outbox) + i /\ NumberAt(k)' = seq + i
            BY <1>1, <2>2, <2>3, <3>2
        <3> QED
            BY <2>4, <2>5, <3>1, <3>2
    <2>6. ASSUME NEW k \in 1..Len(outbox'), IsEvent(k)', NEW j \in 1..Len(outbox'), IsEvent(j)',
                 j < k
          PROVE  NumberAt(j)' < NumberAt(k)'
        <3>1. CASE k \in 1..Len(outbox) /\ IsEvent(k) /\ NumberAt(k)' = NumberAt(k)
            <4>1. j \in 1..Len(outbox) /\ IsEvent(j) /\ NumberAt(j)' = NumberAt(j)
                BY <1>1, <2>4, <2>6, <3>1
            <4> QED
                BY <2>6, <3>1, <4>1 DEF Ordered
        <3>2. CASE \E i \in 1..Len(evs) : k = Len(outbox) + i /\ NumberAt(k)' = seq + i
            <4>1. PICK i \in 1..Len(evs) : k = Len(outbox) + i /\ NumberAt(k)' = seq + i
                BY <3>2
            <4>2. CASE j \in 1..Len(outbox) /\ IsEvent(j) /\ NumberAt(j)' = NumberAt(j)
                BY <1>1, <2>2, <2>3, <4>1, <4>2
            <4>3. CASE \E n \in 1..Len(evs) : j = Len(outbox) + n /\ NumberAt(j)' = seq + n
                <5>1. PICK n \in 1..Len(evs) : j = Len(outbox) + n /\ NumberAt(j)' = seq + n
                    BY <4>3
                <5>2. n < i
                    BY <1>1, <2>6, <4>1, <5>1
                <5> QED
                    BY <2>2, <4>1, <5>1, <5>2
            <4> QED
                BY <2>4, <2>6, <4>2, <4>3
        <3> QED
            BY <2>4, <2>6, <3>1, <3>2
    <2> QED
        BY <2>1, <2>5, <2>6 DEF Ordered
<1>4. CASE Closes
    <2>1. EndedItem \in Item
        BY DEF Item
    <2>2. /\ Len(outbox') = Len(outbox) + 1
          /\ \A i \in 1..Len(outbox) : outbox'[i] = outbox[i]
          /\ outbox'[Len(outbox) + 1] = EndedItem
        BY <1>1, <1>4, <2>1, AppendOf DEF Closes
    <2>3. ASSUME NEW k \in 1..Len(outbox'), IsEvent(k)'
          PROVE  k \in 1..Len(outbox) /\ IsEvent(k) /\ NumberAt(k)' = NumberAt(k)
        <3>1. k # Len(outbox) + 1
            BY <2>2, <2>3 DEF EndedItem, IsEvent
        <3>2. k \in 1..Len(outbox)
            BY <1>1, <2>2, <3>1
        <3> QED
            BY <2>2, <2>3, <3>2 DEF IsEvent, NumberAt
    <2>4. rows' = rows /\ persist' = persist
        BY <1>4 DEF Closes
    <2> QED
        BY <2>3, <2>4 DEF Ordered
<1>5. CASE Passes \/ Takes
    <2>1. outbox # <<>> /\ outbox' = Tail(outbox) /\ rows' = rows
        BY <1>5 DEF Passes, Takes
    <2>2. /\ Head(outbox) = outbox[1] /\ 1 \in 1..Len(outbox)
          /\ \A i \in 1..Len(outbox') : outbox'[i] = outbox[i + 1] /\ i + 1 \in 1..Len(outbox)
        BY <1>1, <2>1, TailOf
    <2>3. ASSUME NEW k \in 1..Len(outbox'), IsEvent(k)'
          PROVE  IsEvent(k + 1) /\ NumberAt(k)' = NumberAt(k + 1) /\ k + 1 \in 1..Len(outbox)
        BY <2>2, <2>3 DEF IsEvent, NumberAt
    <2>4. ASSUME NEW k \in 1..Len(outbox'), IsEvent(k)', NEW j \in 1..Len(outbox'), IsEvent(j)',
                 j < k
          PROVE  NumberAt(j)' < NumberAt(k)'
        <3>1. j + 1 < k + 1
            BY <2>4
        <3> QED
            BY <2>3, <2>4, <3>1 DEF Ordered
    <2>5. ASSUME NEW k \in 1..Len(outbox'), IsEvent(k)'
          PROVE  \A i \in 1..Len(rows) : rows[i].seq < NumberAt(k)'
        BY <2>3, <2>5 DEF Ordered
    <2>6. CASE Passes
        <3>1. persist' = persist
            BY <2>6 DEF Passes
        <3>2. ASSUME NEW k \in 1..Len(outbox'), IsEvent(k)', persist.pc = "insert"
              PROVE  persist.row.seq < NumberAt(k)'
            BY <2>3, <3>2 DEF Ordered
        <3> QED
            BY <2>1, <2>4, <2>5, <3>1, <3>2 DEF Ordered
    <2>7. CASE Takes
        <3>1. IsEvent(1) /\ persist'.row.seq = NumberAt(1)
            BY <2>2, <2>7 DEF Takes, IsEvent, NumberAt
        <3>2. \A i \in 1..Len(rows) : rows[i].seq < persist'.row.seq
            BY <2>2, <3>1 DEF Ordered
        <3>3. ASSUME NEW k \in 1..Len(outbox'), IsEvent(k)'
              PROVE  persist'.row.seq < NumberAt(k)'
            <4>1. 1 < k + 1 /\ k + 1 \in 1..Len(outbox) /\ IsEvent(k + 1)
                BY <2>3, <3>3
            <4> QED
                BY <2>2, <2>3, <3>1, <3>3, <4>1 DEF Ordered
        <3> QED
            BY <2>1, <2>4, <2>5, <3>2, <3>3 DEF Ordered
    <2> QED
        BY <1>5, <2>6, <2>7
<1>6. CASE Writes
    <2>1. /\ rows' = WithRow(persist.row) /\ persist.pc = "insert" /\ persist'.pc # "insert"
          /\ outbox' = outbox \/ outbox' = <<>>
        BY <1>6 DEF Writes
    <2>2. /\ Len(rows') = Len(rows) + 1 /\ rows'[Len(rows) + 1] = persist.row
          /\ \A j \in 1..Len(rows) : rows'[j] = rows[j]
        BY <1>0, <2>1, WritesLast
    <2>3. \A i \in 1..Len(rows') : i \in 1..Len(rows) \/ i = Len(rows) + 1
        BY <1>1, <2>2
    <2>4. ASSUME NEW i \in 1..Len(rows'), NEW j \in 1..Len(rows'), i < j
          PROVE  rows'[i].seq < rows'[j].seq
        <3>1. i \in 1..Len(rows)
            BY <1>1, <2>3, <2>4
        <3>2. CASE j \in 1..Len(rows)
            BY <2>2, <2>4, <3>1, <3>2 DEF Ordered
        <3>3. CASE j = Len(rows) + 1
            BY <2>1, <2>2, <3>1, <3>3 DEF Ordered
        <3> QED
            BY <2>3, <3>2, <3>3
    <2>5. CASE outbox' = <<>>
        <3>1. Len(outbox') = 0
            BY <2>5
        <3>2. 1..Len(outbox') = {}
            BY <3>1
        <3> QED
            BY <2>1, <2>4, <3>2 DEF Ordered
    <2>6. CASE outbox' = outbox
        <3>1. ASSUME NEW k \in 1..Len(outbox), IsEvent(k), NEW i \in 1..Len(rows')
              PROVE  rows'[i].seq < NumberAt(k)
            BY <2>1, <2>2, <2>3, <3>1 DEF Ordered
        <3>2. \A k \in 1..Len(outbox) : (IsEvent(k)' <=> IsEvent(k)) /\ NumberAt(k)' = NumberAt(k)
            BY <2>6 DEF IsEvent, NumberAt
        <3> QED
            BY <2>1, <2>4, <2>6, <3>1, <3>2 DEF Ordered
    <2> QED
        BY <2>1, <2>5, <2>6
<1>7. CASE Drops
    <2>1. rows' = rows /\ persist'.pc # "insert" /\ (outbox' = outbox \/ outbox' = <<>>)
        BY <1>7 DEF Drops
    <2>2. CASE outbox' = outbox
        BY <2>1, <2>2 DEF Ordered, IsEvent, NumberAt
    <2>3. CASE outbox' = <<>>
        <3>1. Len(outbox') = 0
            BY <2>3
        <3>2. 1..Len(outbox') = {}
            BY <3>1
        <3> QED
            BY <2>1, <3>2 DEF Ordered
    <2> QED
        BY <2>1, <2>2, <2>3
<1> QED
    BY <1>0, <1>2, <1>3, <1>4, <1>5, <1>6, <1>7

-----------------------------------------------------------------------------
(* Who may still move: what the task's program counter says of the agent,  *)
(* the feed and the path.                                                  *)

Control ==
    /\ task \in {"insert", "prepare"} => agent = "none" /\ feed = FALSE
    /\ agent = "none" => seq = 0 /\ outbox = <<>> /\ persist = Idle
    /\ task = "await" => feed = TRUE
    /\ home = "local" /\ Aborted =>
          agent = "closed" /\ outbox = <<>> /\ persist = Idle

(* The frame that ends a session is the last one. *)
EndsLast ==
    \A k \in 1..Len(outbox) : outbox[k].t = "ended" => k = Len(outbox) /\ agent = "closed"

LEMMA ControlStep ==
    ASSUME TypeInv, Control, [Next]_vars
    PROVE  Control'
<1>1. CASE UNCHANGED vars
    BY <1>1 DEF vars, stageVars, readerVars, Control, Idle, Aborted
<1>2. CASE Stage \/ LeaseExpires \/ AbortSettles \/ RemoteKilled
    BY <1>2
    DEF Stage, StageInsert, StageDispatch, StageSettle, LeaseExpires, Return, AbortSettle,
        AbortSettles, Aborted, Verdict, RemoteKilled, stageVars, readerVars, Control, Idle
<1>3. CASE Abort
    BY <1>3 DEF Abort, Aborted, Control, Idle, Aborted
<1>4. CASE ReadLine
    <2>1. agent = "running" /\ agent' = agent /\ UNCHANGED <<home, stageVars>>
        BY <1>4, TypeParts DEF ReadLine
    <2> QED
        BY <2>1 DEF stageVars, Control, Aborted
<1>5. CASE AgentCloses
    BY <1>5 DEF AgentCloses, stageVars, Control, Aborted
<1>6. CASE Persister
    <2>1. /\ \/ UNCHANGED <<task, feed>>
             \/ task = "await" /\ task' = "settle"
          /\ agent' = agent /\ home' = home /\ seq' = seq
        BY <1>6
        DEF Persister, TakeDelta, TakeEvent, Publish, TakeEnded, Insert, Return, stageVars,
            readerVars
    <2>2. outbox # <<>> \/ persist # Idle
        <3>1. persist.pc \in {"insert", "publish"} => persist # Idle
            BY DEF Idle
        <3> QED
            BY <1>6, <3>1 DEF Persister, TakeDelta, TakeEvent, Publish, TakeEnded, Insert
    <2>3. agent # "none" /\ ~(home = "local" /\ Aborted)
        BY <2>2 DEF Control, Aborted
    <2> QED
        BY <2>1, <2>3 DEF Control, Aborted
<1>7. CASE Mount \/ IntervalElapses \/ FetchStatus \/ FetchRows \/ StreamOpens \/ StreamEnds
           \/ StreamBreaks \/ Message
    <2>1. UNCHANGED <<home, stageVars, readerVars, outbox, persist>>
        BY <1>7
        DEF Mount, IntervalElapses, FetchStatus, FetchRows, StreamOpens, StreamEnds,
            StreamBreaks, StreamCloses, Message
    <2> QED
        BY <2>1 DEF stageVars, readerVars, Control, Idle, Aborted
<1> QED
    BY <1>1, <1>2, <1>3, <1>4, <1>5, <1>6, <1>7 DEF Next, Stage, Fetch

LEMMA Otherwise ==
    ASSUME TypeInv, Control, [Next]_vars, ~ReadLine, ~AgentCloses
    PROVE  /\ outbox' = outbox \/ outbox' = <<>> \/ (outbox # <<>> /\ outbox' = Tail(outbox))
           /\ agent = "closed" => agent' = "closed"
<1>1. CASE UNCHANGED vars
    BY <1>1 DEF vars, readerVars
<1>2. CASE Stage \/ LeaseExpires \/ AbortSettles \/ RemoteKilled
    BY <1>2
    DEF Stage, StageInsert, StageDispatch, StageSettle, LeaseExpires, AbortSettle, AbortSettles,
        Aborted, Verdict, RemoteKilled, readerVars, Control
<1>3. CASE Abort
    BY <1>3 DEF Abort
<1>4. CASE Persister
    BY <1>4 DEF Persister, TakeDelta, TakeEvent, Publish, TakeEnded, Insert, readerVars
<1>5. CASE Mount \/ IntervalElapses \/ FetchStatus \/ FetchRows \/ StreamOpens \/ StreamEnds
           \/ StreamBreaks \/ Message
    BY <1>5
    DEF Mount, IntervalElapses, FetchStatus, FetchRows, StreamOpens, StreamEnds, StreamBreaks,
        StreamCloses, Message, readerVars
<1> QED
    BY <1>1, <1>2, <1>3, <1>4, <1>5 DEF Next, Stage, Fetch

LEMMA EndsLastStep ==
    ASSUME TypeInv, Control, EndsLast, [Next]_vars
    PROVE  EndsLast'
<1>0. outbox \in Seq(Item) /\ Len(outbox) \in Nat
    BY TypeParts DEF PathType
<1>1. CASE ReadLine
    <2> DEFINE evs == Normalized(script[lines + 1])
    <2>1. agent = "running" /\ Read(evs) /\ outbox' \in Seq(Item')
        BY <1>1, ReadAdds DEF ReadLine
    <2> HIDE DEF evs
    <2>2. ASSUME NEW k \in 1..Len(outbox'), outbox'[k].t = "ended" PROVE FALSE
        <3>1. CASE k <= Len(outbox)
            <4>1. k \in 1..Len(outbox)
                BY <1>0, <3>1
            <4> QED
                BY <2>1, <2>2, <4>1 DEF Read, EndsLast
        <3>2. CASE k > Len(outbox)
            <4>1. \/ outbox'[k] = [t |-> "delta", n |-> texts + 1]
                  \/ \E i \in 1..Len(evs) : k = Len(outbox) + i
                BY <2>1, <3>2 DEF Read
            <4>2. ASSUME NEW i \in 1..Len(evs), k = Len(outbox) + i PROVE FALSE
                <5>1. outbox'[k] = Numbered(i, evs[i])
                    BY <2>1, <4>2 DEF Read
                <5> QED
                    BY <2>2, <5>1 DEF Numbered
            <4> QED
                BY <2>2, <4>1, <4>2
        <3> QED
            BY <1>0, <3>1, <3>2
    <2> QED
        BY <2>2 DEF EndsLast
<1>2. CASE AgentCloses
    <2>1. agent = "running" /\ agent' = "closed" /\ outbox' = Append(outbox, EndedItem)
        BY <1>2 DEF AgentCloses
    <2>2. EndedItem \in Item
        BY DEF Item
    <2>3. /\ Len(outbox') = Len(outbox) + 1
          /\ \A i \in 1..Len(outbox) : outbox'[i] = outbox[i]
        BY <1>0, <2>1, <2>2, AppendOf
    <2>4. ASSUME NEW k \in 1..Len(outbox'), outbox'[k].t = "ended" PROVE k = Len(outbox')
        <3>1. k \in 1..Len(outbox) \/ k = Len(outbox) + 1
            BY <1>0, <2>3
        <3> QED
            BY <2>1, <2>3, <2>4, <3>1 DEF EndsLast
    <2> QED
        BY <2>1, <2>4 DEF EndsLast
<1>3. CASE ~ReadLine /\ ~AgentCloses
    <2>0. agent = "closed" => agent' = "closed"
        BY <1>3, Otherwise
    <2>1. CASE outbox' = outbox
        BY <2>0, <2>1 DEF EndsLast
    <2>2. CASE outbox' = <<>>
        <3>1. Len(outbox') = 0
            BY <2>2
        <3>2. 1..Len(outbox') = {}
            BY <3>1
        <3> QED
            BY <3>2 DEF EndsLast
    <2>3. CASE outbox # <<>> /\ outbox' = Tail(outbox)
        <3>1. /\ Len(outbox') = Len(outbox) - 1
              /\ \A i \in 1..Len(outbox') : outbox'[i] = outbox[i + 1] /\ i + 1 \in 1..Len(outbox)
            BY <1>0, <2>3, TailOf
        <3>2. ASSUME NEW k \in 1..Len(outbox'), outbox'[k].t = "ended"
              PROVE  k = Len(outbox') /\ agent = "closed"
            <4>1. k + 1 = Len(outbox) /\ agent = "closed"
                BY <3>1, <3>2 DEF EndsLast
            <4> QED
                BY <1>0, <3>1, <4>1
        <3> QED
            BY <2>0, <3>2 DEF EndsLast
    <2> QED
        BY <1>3, <2>1, <2>2, <2>3, Otherwise
<1> QED
    BY <1>1, <1>2, <1>3

-----------------------------------------------------------------------------
(* As long as no INSERT failed: the rows are the first of the events, and  *)
(* while the feed is there, all others are on their way.                   *)

Base == Len(rows) + (IF persist.pc = "insert" THEN 1 ELSE 0)
Fed == feed = TRUE /\ ~(home = "local" /\ Aborted)
InPlace ==
    faults = 0 =>
        /\ \A i \in 1..Len(rows) : rows[i].seq = i
        /\ persist.pc = "insert" => persist.row.seq = Len(rows) + 1
        /\ \A i \in 1..Len(view.rows) : view.rows[i].seq = i
Gapless ==
    faults = 0 /\ Fed =>
        \A n \in (Base + 1)..seq : \E k \in 1..Len(outbox) : IsEvent(k) /\ NumberAt(k) = n

LEMMA FaultsGrow ==
    ASSUME TypeInv, [Next]_vars
    PROVE  faults' = 0 => faults = 0
<1>1. faults \in Nat
    BY FaultsAssumption, TypeParts DEF PathType
<1>2. faults' \in {faults, faults + 1}
    BY
    DEF Next, Stage, StageInsert, StageDispatch, StageSettle, LeaseExpires, Abort, AbortSettle,
        AbortSettles, Aborted, Verdict, RemoteKilled, ReadLine, AgentCloses, Persister,
        TakeDelta, TakeEvent, Publish, TakeEnded, Insert, Mount, IntervalElapses, Fetch,
        FetchStatus, FetchRows, StreamOpens, StreamEnds, StreamBreaks, StreamCloses, Message,
        vars
<1> QED
    BY <1>1, <1>2

(* The next event to be taken is the one behind the last row. *)
LEMMA HeadIsNext ==
    ASSUME TypeInv, Origin, Ordered, InPlace, Gapless, faults = 0, Fed,
           persist.pc # "insert", 1 \in 1..Len(outbox), IsEvent(1)
    PROVE  NumberAt(1) = Len(rows) + 1
<1>1. /\ Len(rows) \in Nat /\ Len(outbox) \in Nat /\ NumberAt(1) \in Nat
    BY TypeParts, Elements
<1>2. NumberAt(1) \in 1..seq /\ seq \in Nat
    BY TypeParts DEF Origin, Genuine, IsEvent, NumberAt, ReaderType
<1>3. NumberAt(1) >= Len(rows) + 1
    <2>1. CASE Len(rows) = 0
        BY <1>1, <1>2, <2>1
    <2>2. CASE Len(rows) # 0
        <3>1. Len(rows) \in 1..Len(rows)
            BY <1>1, <2>2
        <3>2. rows[Len(rows)].seq = Len(rows) /\ rows[Len(rows)].seq < NumberAt(1)
            BY <3>1 DEF InPlace, Ordered
        <3> QED
            BY <1>1, <3>2
    <2> QED
        BY <2>1, <2>2
<1>4. ASSUME NumberAt(1) > Len(rows) + 1 PROVE FALSE
    <2>1. Base = Len(rows)
        BY <1>1 DEF Base
    <2>2. Len(rows) + 1 \in (Base + 1)..seq
        BY <1>1, <1>2, <1>4, <2>1
    <2>3. PICK k \in 1..Len(outbox) : IsEvent(k) /\ NumberAt(k) = Len(rows) + 1
        BY <2>2 DEF Gapless
    <2>4. k = 1 \/ 1 < k
        OBVIOUS
    <2>5. CASE 1 < k
        <3>1. NumberAt(1) < NumberAt(k)
            BY <2>3, <2>5 DEF Ordered
        <3> QED
            BY <1>1, <1>4, <2>3, <3>1
    <2> QED
        BY <1>1, <1>4, <2>3, <2>4, <2>5
<1> QED
    BY <1>1, <1>3, <1>4

LEMMA InPlaceStep ==
    ASSUME TypeInv, Control, Origin, Ordered, InPlace, Gapless, [Next]_vars
    PROVE  InPlace'
<1>0. /\ Still \/ Reads \/ Closes \/ Passes \/ Takes \/ Writes \/ Drops
      /\ PathType
    BY Moves, TypeParts
<1>1. SUFFICES ASSUME faults' = 0
               PROVE  /\ \A i \in 1..Len(rows') : rows'[i].seq = i
                      /\ persist'.pc = "insert" => persist'.row.seq = Len(rows') + 1
                      /\ \A i \in 1..Len(view'.rows) : view'.rows[i].seq = i
    BY DEF InPlace
<1>2. faults = 0
    BY <1>1, FaultsGrow
<1>3. \A i \in 1..Len(rows') : rows'[i].seq = i
    <2>1. CASE Writes
        <3>1. /\ Len(rows') = Len(rows) + 1 /\ rows'[Len(rows) + 1] = persist.row
              /\ \A j \in 1..Len(rows) : rows'[j] = rows[j]
              /\ Len(rows) \in Nat /\ persist.row.seq = Len(rows) + 1
            BY <1>0, <1>2, <2>1, WritesLast, Elements DEF Writes, InPlace
        <3>2. \A i \in 1..Len(rows') : i \in 1..Len(rows) \/ i = Len(rows) + 1
            BY <3>1
        <3> QED
            BY <1>2, <3>1, <3>2 DEF InPlace
    <2>2. CASE ~Writes
        BY <1>0, <1>2, <2>2 DEF Still, Reads, Closes, Passes, Takes, Drops, InPlace
    <2> QED
        BY <2>1, <2>2
<1>4. persist'.pc = "insert" => persist'.row.seq = Len(rows') + 1
    <2>1. CASE Takes
        <3>1. Head(outbox) = outbox[1] /\ 1 \in 1..Len(outbox)
            BY <1>0, <2>1, TailOf DEF Takes, PathType
        <3>2. IsEvent(1) /\ persist'.row.seq = NumberAt(1) /\ rows' = rows
            BY <2>1, <3>1 DEF Takes, IsEvent, NumberAt
        <3>3. Fed /\ persist.pc # "insert"
            BY <2>1 DEF Takes, Fed, Control, Idle
        <3> QED
            BY <1>2, <3>1, <3>2, <3>3, HeadIsNext
    <2>2. CASE Writes \/ Drops
        BY <2>2 DEF Writes, Drops
    <2>3. CASE Still \/ Reads \/ Closes \/ Passes
        BY <1>2, <2>3 DEF Still, Reads, Closes, Passes, InPlace
    <2> QED
        BY <1>0, <2>1, <2>2, <2>3
<1>5. \A i \in 1..Len(view'.rows) : view'.rows[i].seq = i
    <2>1. Increasing(rows)
        BY <1>0, Elements DEF Ordered, Increasing
    <2>2. view'.rows = view.rows \/ view'.rows = rows
        BY <2>1, ViewMoves
    <2> QED
        BY <1>2, <2>2 DEF InPlace
<1> QED
    BY <1>3, <1>4, <1>5

LEMMA GaplessKept ==
    ASSUME Gapless, UNCHANGED <<outbox, rows, seq>>, Base' = Base,
           Fed' => Fed, faults' = 0 => faults = 0
    PROVE  Gapless'
BY DEF Gapless, IsEvent, NumberAt

LEMMA GaplessTaken ==
    ASSUME TypeInv, Gapless, outbox # <<>>, outbox' = Tail(outbox), seq' = seq,
           Fed' => Fed, faults' = 0 => faults = 0,
           faults = 0 /\ Fed =>
               \A n \in (Base' + 1)..seq :
                   n \in (Base + 1)..seq /\ (IsEvent(1) => NumberAt(1) # n)
    PROVE  Gapless'
<1>1. outbox \in Seq(Item)
    BY TypeParts DEF PathType
<1>2. \A k \in 1..Len(outbox) : k # 1 => k - 1 \in 1..Len(outbox') /\ outbox'[k - 1] = outbox[k]
    BY <1>1, TailOf
<1>3. ASSUME faults = 0, Fed, NEW n \in (Base' + 1)..seq
      PROVE  \E k \in 1..Len(outbox') : IsEvent(k)' /\ NumberAt(k)' = n
    <2>1. PICK k \in 1..Len(outbox) : IsEvent(k) /\ NumberAt(k) = n
        BY <1>3 DEF Gapless
    <2>2. k # 1
        BY <1>3, <2>1
    <2>3. k - 1 \in 1..Len(outbox') /\ outbox'[k - 1].t = "event" /\ outbox'[k - 1].row.seq = n
        BY <1>2, <2>1, <2>2 DEF IsEvent, NumberAt
    <2> QED
        BY <2>3 DEF IsEvent, NumberAt
<1> QED
    BY <1>3 DEF Gapless

LEMMA GaplessStep ==
    ASSUME TypeInv, Control, Origin, Ordered, InPlace, Gapless, [Next]_vars
    PROVE  Gapless'
<1>0. /\ PathType /\ ReaderType /\ outbox \in Seq(Item) /\ seq \in Nat
      /\ Len(rows) \in Nat /\ Len(outbox) \in Nat
    BY TypeParts, Elements DEF PathType, ReaderType
<1>1. faults' = 0 => faults = 0
    BY FaultsGrow
<1>2. CASE UNCHANGED vars
    <2>1. UNCHANGED <<outbox, rows, seq, persist, feed, home, task>>
        BY <1>2 DEF vars, stageVars, readerVars
    <2> QED
        BY <1>1, <2>1, GaplessKept DEF Base, Fed, Aborted
<1>3. CASE StageInsert \/ (\E ok \in BOOLEAN : StageSettle(ok)) \/ AbortSettles \/ RemoteKilled
    <2>1. UNCHANGED <<outbox, rows, seq, persist, feed, home>> /\ (Aborted => Aborted')
        BY <1>3
        DEF StageInsert, StageSettle, AbortSettle, AbortSettles, Aborted, RemoteKilled,
            stageVars, readerVars
    <2> QED
        BY <1>1, <2>1, GaplessKept DEF Base, Fed, Aborted
<1>4. CASE \E ok \in BOOLEAN : StageDispatch(ok)
    <2>1. seq' = 0 /\ rows' = rows /\ persist' = persist
        BY <1>4 DEF StageDispatch, Control
    <2>2. Base' \in Nat
        BY <1>0, <2>1 DEF Base
    <2>3. (Base' + 1)..0 = {}
        BY <2>2, NoNumbers
    <2> QED
        BY <2>1, <2>3 DEF Gapless
<1>5. CASE LeaseExpires
    <2>1. feed' = FALSE
        BY <1>5 DEF LeaseExpires, Return
    <2> QED
        BY <2>1 DEF Gapless, Fed
<1>6. CASE Abort
    <2>1. CASE home = "local"
        <3>1. home' = "local" /\ Aborted'
            BY <1>6, <2>1 DEF Abort, Aborted
        <3> QED
            BY <3>1 DEF Gapless, Fed
    <2>2. CASE home # "local"
        <3>1. UNCHANGED <<outbox, rows, seq, persist, feed, home>>
            BY <1>6, <2>2 DEF Abort
        <3> QED
            BY <1>1, <2>2, <3>1, GaplessKept DEF Base, Fed, Aborted
    <2> QED
        BY <2>1, <2>2
<1>7. CASE ReadLine
    <2> DEFINE evs == Normalized(script[lines + 1])
    <2>1. Read(evs) /\ UNCHANGED <<rows, persist, feed, home, task, faults>>
        BY <1>7, ReadAdds DEF ReadLine, stageVars
    <2> HIDE DEF evs
    <2>2. ASSUME faults = 0, Fed, NEW n \in (Base + 1)..seq'
          PROVE  \E k \in 1..Len(outbox') : IsEvent(k)' /\ NumberAt(k)' = n
        <3>0. Len(evs) \in Nat /\ Len(outbox') >= Len(outbox) + Len(evs) /\ seq' = seq + Len(evs)
              /\ n \in Nat /\ Len(outbox') \in Nat
            <4>1. evs \in Seq(Events) /\ outbox' \in Seq(Item')
                BY <1>7, <2>1, ReadAdds DEF Read
            <4>2. Base \in Nat
                BY <1>0 DEF Base
            <4>3. Len(evs) \in Nat /\ Len(outbox') \in Nat
                BY <4>1
            <4> QED
                BY <1>0, <2>1, <2>2, <4>2, <4>3 DEF Read
        <3>1. CASE n <= seq
            <4>1. n \in (Base + 1)..seq
                BY <1>0, <2>2, <3>0, <3>1
            <4>2. PICK k \in 1..Len(outbox) : IsEvent(k) /\ NumberAt(k) = n
                BY <2>2, <4>1 DEF Gapless
            <4>3. k \in 1..Len(outbox') /\ outbox'[k] = outbox[k]
                BY <1>0, <2>1, <3>0, <4>2 DEF Read
            <4> QED
                BY <4>2, <4>3 DEF IsEvent, NumberAt
        <3>2. CASE n > seq
            <4>1. n - seq \in 1..Len(evs) /\ n = seq + (n - seq)
                BY <1>0, <2>2, <3>0, <3>2
            <4>2. PICK i \in 1..Len(evs) : n = seq + i
                BY <4>1
            <4>3. Len(outbox) + i \in 1..Len(outbox')
                BY <1>0, <3>0
            <4>4. outbox'[Len(outbox) + i] = Numbered(i, evs[i])
                BY <2>1 DEF Read
            <4>5. /\ outbox'[Len(outbox) + i].t = "event"
                  /\ outbox'[Len(outbox) + i].row.seq = n
                BY <4>2, <4>4 DEF Numbered
            <4>6. PICK k \in 1..Len(outbox') :
                      outbox'[k].t = "event" /\ outbox'[k].row.seq = n
                BY <4>3, <4>5
            <4> QED
                BY <4>6 DEF IsEvent, NumberAt
        <3> QED
            BY <1>0, <3>0, <3>1, <3>2
    <2>3. Base' = Base /\ (Fed' => Fed)
        BY <2>1 DEF Base, Fed, Aborted
    <2> QED
        BY <1>1, <2>2, <2>3 DEF Gapless
<1>8. CASE AgentCloses
    <2>1. /\ outbox' = Append(outbox, EndedItem)
          /\ UNCHANGED <<rows, persist, seq, feed, home, task, faults>>
        BY <1>8 DEF AgentCloses, stageVars
    <2>2. EndedItem \in Item
        BY DEF Item
    <2>3. \A i \in 1..Len(outbox) : outbox'[i] = outbox[i] /\ i \in 1..Len(outbox')
        BY <1>0, <2>1, <2>2, AppendOf
    <2>4. Base' = Base /\ (Fed' => Fed)
        BY <2>1 DEF Base, Fed, Aborted
    <2>5. ASSUME faults = 0, Fed, NEW n \in (Base + 1)..seq
          PROVE  \E k \in 1..Len(outbox') : IsEvent(k)' /\ NumberAt(k)' = n
        <3>1. PICK k \in 1..Len(outbox) : IsEvent(k) /\ NumberAt(k) = n
            BY <2>5 DEF Gapless
        <3>2. k \in 1..Len(outbox') /\ IsEvent(k)' /\ NumberAt(k)' = n
            BY <2>3, <3>1 DEF IsEvent, NumberAt
        <3> QED
            BY <3>2
    <2> QED
        BY <1>1, <2>1, <2>4, <2>5 DEF Gapless
<1>9. CASE TakeDelta \/ TakeEnded
    <2>1. /\ outbox # <<>> /\ outbox' = Tail(outbox) /\ Head(outbox).t # "event"
          /\ UNCHANGED <<rows, persist, seq, home>>
        BY <1>9 DEF TakeDelta, TakeEnded, EndedItem, readerVars
    <2>2. (feed' = feed /\ task' = task) \/ feed' = FALSE
        BY <1>9 DEF TakeDelta, TakeEnded, Return, stageVars
    <2>3. ~IsEvent(1)
        BY <1>0, <2>1, TailOf DEF IsEvent
    <2>4. Base' = Base /\ (Fed' => Fed)
        BY <2>1, <2>2 DEF Base, Fed, Aborted
    <2> QED
        BY <1>1, <2>1, <2>3, <2>4, GaplessTaken
<1>10. CASE TakeEvent
    <2>1. CASE feed
        <3>1. /\ outbox # <<>> /\ Head(outbox).t = "event" /\ outbox' = Tail(outbox)
              /\ persist = Idle /\ persist' = [pc |-> "insert", row |-> Head(outbox).row]
              /\ UNCHANGED <<rows, seq, feed, home, task>>
            BY <1>10, <2>1 DEF TakeEvent, readerVars, stageVars
        <3>2. 1 \in 1..Len(outbox) /\ IsEvent(1)
            BY <1>0, <3>1, TailOf DEF IsEvent
        <3>3. Base = Len(rows) /\ Base' = Len(rows) + 1
            BY <1>0, <3>1 DEF Base, Idle
        <3>4. ASSUME faults = 0, Fed PROVE NumberAt(1) = Len(rows) + 1
            BY <3>1, <3>2, <3>4, HeadIsNext DEF Idle
        <3>5. faults = 0 /\ Fed =>
                  \A n \in (Base' + 1)..seq :
                      n \in (Base + 1)..seq /\ (IsEvent(1) => NumberAt(1) # n)
            BY <1>0, <3>3, <3>4
        <3>6. Fed' => Fed
            BY <3>1 DEF Fed, Aborted
        <3> QED
            BY <1>1, <3>1, <3>5, <3>6, GaplessTaken
    <2>2. CASE ~feed
        <3>1. feed' = feed
            BY <1>10 DEF TakeEvent, stageVars
        <3> QED
            BY <2>2, <3>1 DEF Gapless, Fed
    <2> QED
        BY <2>1, <2>2
<1>11. CASE Publish
    <2>1. /\ persist.pc = "publish" /\ persist' = Idle
          /\ UNCHANGED <<outbox, rows, seq, feed, home, task>>
        BY <1>11 DEF Publish, stageVars, readerVars
    <2> QED
        BY <1>1, <2>1, GaplessKept DEF Base, Fed, Idle, Aborted
<1>12. ASSUME NEW ok \in BOOLEAN, Insert(ok) PROVE Gapless'
    <2>1. /\ persist.pc = "insert" /\ persist' = [persist EXCEPT !.pc = "publish"]
          /\ UNCHANGED <<outbox, seq, feed, home, task>>
        BY <1>12 DEF Insert, stageVars, readerVars
    <2>2. persist'.pc = "publish"
        BY <1>0, <2>1 DEF PathType, Idle
    <2>3. CASE ok
        <3>1. rows' = WithRow(persist.row)
            BY <1>12, <2>3 DEF Insert
        <3>2. Len(rows') = Len(rows) + 1
            BY <1>0, <2>1, <3>1, WritesLast
        <3>3. Base' = Base /\ (Fed' => Fed)
            BY <1>0, <2>1, <2>2, <3>2 DEF Base, Fed, Aborted
        <3> QED
            BY <1>1, <2>1, <3>3 DEF Gapless, IsEvent, NumberAt
    <2>4. CASE ~ok
        <3>1. faults' = faults + 1 /\ faults \in Nat
            BY <1>0, <1>12, <2>4, FaultsAssumption DEF Insert, PathType
        <3>2. faults' # 0
            BY <3>1
        <3> QED
            BY <3>2 DEF Gapless
    <2> QED
        BY <2>3, <2>4
<1>13. CASE Mount \/ IntervalElapses \/ FetchStatus \/ FetchRows \/ StreamOpens \/ StreamEnds
           \/ StreamBreaks \/ Message
    <2>1. UNCHANGED <<outbox, rows, seq, persist, feed, home, task>>
        BY <1>13
        DEF Mount, IntervalElapses, FetchStatus, FetchRows, StreamOpens, StreamEnds,
            StreamBreaks, StreamCloses, Message, stageVars, readerVars
    <2> QED
        BY <1>1, <2>1, GaplessKept DEF Base, Fed, Aborted
<1> QED
    BY <1>2, <1>3, <1>4, <1>5, <1>6, <1>7, <1>8, <1>9, <1>10, <1>11, <1>12, <1>13
    DEF Next, Stage, Persister, Fetch

-----------------------------------------------------------------------------
(* A session that ended well has all its rows, and nothing moves any more; *)
(* whoever reads that it has, reads the rows after it.                     *)

Done ==
    outcome = "ok" =>
        /\ agent = "closed" /\ persist = Idle /\ outbox = <<>>
        /\ task \in {"settle", "done", "dropped", "left"}
        /\ faults = 0 => Len(rows) = seq
Seen ==
    /\ status = "completed" => outcome = "ok" /\ task \in {"done", "dropped"}
    /\ got = "completed" => status = "completed"
    /\ view.status = "completed" =>
          status = "completed" /\ (faults = 0 => Len(view.rows) = Len(rows))

(* What moves when a session has ended well: its status, once.             *)
LEMMA DoneFrame ==
    ASSUME TypeInv, Done, outcome = "ok", [Next]_vars
    PROVE  /\ UNCHANGED <<outcome, agent, persist, outbox, rows, seq>>
           /\ task' \in {"settle", "done", "dropped", "left"}
           /\ status = "completed" /\ task \in {"done", "dropped"} => UNCHANGED <<task, status>>
           /\ status' = "completed" => status = "completed" \/ task' \in {"done", "dropped"}
<1>0. /\ agent = "closed" /\ persist = Idle /\ outbox = <<>>
      /\ task \in {"settle", "done", "dropped", "left"}
    BY DEF Done
<1>1. CASE UNCHANGED vars
    BY <1>0, <1>1 DEF vars, stageVars, readerVars
<1>2. ~(StageInsert \/ (\E ok \in BOOLEAN : StageDispatch(ok)) \/ LeaseExpires \/ RemoteKilled
        \/ ReadLine \/ AgentCloses \/ Persister)
    BY <1>0
    DEF StageInsert, StageDispatch, LeaseExpires, RemoteKilled, ReadLine, AgentCloses, Persister,
        TakeDelta, TakeEvent, Publish, TakeEnded, Insert, Idle
<1>3. CASE (\E ok \in BOOLEAN : StageSettle(ok)) \/ AbortSettles
    BY <1>0, <1>3 DEF StageSettle, AbortSettle, AbortSettles, Verdict, readerVars
<1>4. CASE Mount \/ IntervalElapses \/ FetchStatus \/ FetchRows \/ StreamOpens \/ StreamEnds
           \/ StreamBreaks \/ Message
    BY <1>0, <1>4
    DEF Mount, IntervalElapses, FetchStatus, FetchRows, StreamOpens, StreamEnds, StreamBreaks,
        StreamCloses, Message, stageVars, readerVars
<1>5. CASE Abort
    BY <1>0, <1>5 DEF Abort, Verdict, Idle
<1> QED
    BY <1>1, <1>2, <1>3, <1>4, <1>5 DEF Next, Stage, Fetch

(* All rows are there when the end of the session is taken. *)
LEMMA AllThere ==
    ASSUME TypeInv, Control, Origin, Ordered, EndsLast, InPlace, Gapless,
           TakeEnded, task = "await", faults = 0
    PROVE  Len(rows) = seq
<1>1. /\ Len(rows) \in Nat /\ seq \in Nat /\ seq = Len(produced) /\ outbox \in Seq(Item)
    BY TypeParts, Elements DEF ReaderType, PathType
<1>2. outbox # <<>> /\ Head(outbox) = EndedItem /\ persist = Idle
    BY DEF TakeEnded, HandlerFree
<1>3. 1 \in 1..Len(outbox) /\ outbox[1] = EndedItem
    BY <1>1, <1>2, TailOf
<1>4. Len(outbox) = 1
    BY <1>3 DEF EndsLast, EndedItem
<1>5. Fed /\ Base = Len(rows)
    BY <1>1, <1>2 DEF Control, Fed, Base, Idle
<1>6. ASSUME Len(rows) < seq PROVE FALSE
    <2>1. Len(rows) + 1 \in (Base + 1)..seq
        BY <1>1, <1>5, <1>6
    <2>2. PICK k \in 1..Len(outbox) : IsEvent(k)
        BY <1>5, <2>1 DEF Gapless
    <2>3. k = 1
        BY <1>4
    <2> QED
        BY <1>3, <2>2, <2>3 DEF IsEvent, EndedItem
<1>7. ASSUME Len(rows) > seq PROVE FALSE
    <2>1. Len(rows) \in 1..Len(rows)
        BY <1>1, <1>7
    <2>2. rows[Len(rows)].seq = Len(rows) /\ rows[Len(rows)].seq \in 1..seq
        BY <1>1, <2>1 DEF InPlace, Origin, Genuine
    <2> QED
        BY <1>1, <1>7, <2>2
<1> QED
    BY <1>1, <1>6, <1>7

LEMMA DoneStep ==
    ASSUME TypeInv, Control, Origin, Ordered, EndsLast, InPlace, Gapless, Done, [Next]_vars
    PROVE  Done'
<1>1. CASE outcome = "ok"
    BY <1>1, DoneFrame, FaultsGrow DEF Done, Idle
<1>2. CASE outcome # "ok"
    <2>1. SUFFICES ASSUME outcome' = "ok" PROVE Done'
        BY DEF Done
    <2>2. TakeEnded /\ task = "await" /\ task' = "settle"
        BY <1>2, <2>1
        DEF Next, Stage, StageInsert, StageDispatch, StageSettle, LeaseExpires, Abort,
            AbortSettle, AbortSettles, Aborted, Verdict, RemoteKilled, ReadLine, AgentCloses,
            Persister, TakeDelta, TakeEvent, Publish, TakeEnded, Insert, Mount, IntervalElapses,
            Fetch, FetchStatus, FetchRows, StreamOpens, StreamEnds, StreamBreaks, StreamCloses,
            Message, Return, stageVars, vars
    <2>3. /\ outbox # <<>> /\ Head(outbox) = EndedItem /\ outbox' = Tail(outbox)
          /\ persist = Idle /\ persist' = persist /\ agent' = agent /\ rows' = rows /\ seq' = seq
        BY <2>2 DEF TakeEnded, HandlerFree, readerVars
    <2>4. outbox \in Seq(Item)
        BY TypeParts DEF PathType
    <2>5. 1 \in 1..Len(outbox) /\ outbox[1] = EndedItem /\ Len(outbox') = Len(outbox) - 1
          /\ outbox' \in Seq(Item)
        BY <2>3, <2>4, TailOf
    <2>6. Len(outbox) = 1 /\ agent = "closed"
        BY <2>5 DEF EndsLast, EndedItem
    <2>7. outbox' = <<>>
        BY <2>5, <2>6
    <2>8. faults' = 0 => Len(rows) = seq
        BY <2>2, FaultsGrow, AllThere
    <2> QED
        BY <2>2, <2>3, <2>6, <2>7, <2>8 DEF Done, Idle
<1> QED
    BY <1>1, <1>2

LEMMA SeenStep ==
    ASSUME TypeInv, Ordered, Done, Seen, [Next]_vars
    PROVE  Seen'
<1>0. faults' = 0 => faults = 0
    BY FaultsGrow
<1>1. Increasing(rows)
    BY TypeParts, Elements DEF Ordered, Increasing
<1>2. status = "completed" => UNCHANGED <<status, outcome, task, rows>>
    BY DoneFrame DEF Seen
<1>3. status' = "completed" => status = "completed" \/ (outcome = "ok" /\ task' \in {"done", "dropped"})
    BY
    DEF Next, Stage, StageInsert, StageDispatch, StageSettle, LeaseExpires, Abort, AbortSettle,
        AbortSettles, Aborted, Verdict, RemoteKilled, ReadLine, AgentCloses, Persister,
        TakeDelta, TakeEvent, Publish, TakeEnded, Insert, Mount, IntervalElapses, Fetch,
        FetchStatus, FetchRows, StreamOpens, StreamEnds, StreamBreaks, StreamCloses, Message,
        stageVars, vars
<1>4. status' = "completed" => outcome' = "ok" /\ task' \in {"done", "dropped"}
    BY <1>2, <1>3, DoneFrame DEF Seen
<1>5. got' = got \/ got' = status
    BY
    DEF Next, Stage, StageInsert, StageDispatch, StageSettle, LeaseExpires, Abort, AbortSettle,
        AbortSettles, Aborted, Verdict, RemoteKilled, ReadLine, AgentCloses, Persister,
        TakeDelta, TakeEvent, Publish, TakeEnded, Insert, Mount, IntervalElapses, Fetch,
        FetchStatus, FetchRows, StreamOpens, StreamEnds, StreamBreaks, StreamCloses, Message,
        pollVars, vars
<1>6. got' = "completed" => status' = "completed"
    BY <1>2, <1>5 DEF Seen
<1>7. view'.status = "completed" =>
          status' = "completed" /\ (faults' = 0 => Len(view'.rows) = Len(rows'))
    <2>1. CASE view' = view
        BY <1>0, <1>2, <2>1 DEF Seen
    <2>2. CASE view'.status = got /\ view'.rows = rows /\ UNCHANGED <<rows, status, faults>>
        BY <2>2 DEF Seen
    <2> QED
        BY <1>1, <2>1, <2>2, ViewMoves
<1> QED
    BY <1>4, <1>6, <1>7 DEF Seen

-----------------------------------------------------------------------------
(* The inductive invariant, and what follows from it.                      *)

IInv ==
    /\ TypeInv /\ Control /\ Origin /\ Ordered /\ EndsLast /\ InPlace /\ Gapless
    /\ Done /\ Seen

LEMMA InitInv == Init => IInv
<1> SUFFICES ASSUME Init PROVE IInv
    OBVIOUS
<1>1. TypeInv
    BY InitType
<1>2. /\ rows = <<>> /\ outbox = <<>> /\ persist = Idle /\ view = NoView /\ seq = 0
      /\ task = "insert" /\ agent = "none" /\ outcome = "none" /\ status = "none" /\ got = "none"
      /\ feed = FALSE
    BY DEF Init
<1>3. 1..Len(rows) = {} /\ 1..Len(outbox) = {} /\ 1..Len(view.rows) = {} /\ persist.pc = "idle"
      /\ Len(rows) = 0 /\ view.status = "none"
    BY <1>2 DEF NoView, Idle
<1>4. Control
    BY <1>2 DEF Control, Aborted
<1>5. Origin /\ Ordered /\ EndsLast /\ InPlace
    BY <1>3 DEF Origin, Ordered, EndsLast, InPlace
<1>6. Gapless
    BY <1>2 DEF Gapless, Fed
<1>7. Done /\ Seen
    BY <1>2, <1>3 DEF Done, Seen
<1> QED
    BY <1>1, <1>4, <1>5, <1>6, <1>7 DEF IInv

LEMMA StepInv == IInv /\ [Next]_vars => IInv'
<1> SUFFICES ASSUME IInv, [Next]_vars PROVE IInv'
    OBVIOUS
<1>0. TypeInv /\ Control /\ Origin /\ Ordered /\ EndsLast /\ InPlace /\ Gapless /\ Done /\ Seen
    BY DEF IInv
<1>1. Increasing(rows)
    BY <1>0, TypeParts, Elements DEF Ordered, Increasing
<1>2. TypeInv'
    BY <1>0, <1>1, TypeStep
<1>3. Control'
    BY <1>0, ControlStep
<1>4. Origin' /\ Ordered'
    BY <1>0, OriginStep, OrderStep
<1>5. EndsLast'
    BY <1>0, EndsLastStep
<1>6. InPlace' /\ Gapless'
    BY <1>0, InPlaceStep, GaplessStep
<1>7. Done'
    BY <1>0, DoneStep
<1>8. Seen'
    BY <1>0, SeenStep
<1> QED
    BY <1>2, <1>3, <1>4, <1>5, <1>6, <1>7, <1>8 DEF IInv

LEMMA Invariant == Spec => []IInv
<1> QED
    BY InitInv, StepInv, PTL DEF Spec

(* Every variable of the feed stays in its type, for any scripts and any   *)
(* capacity of the channel: the lines bound the events, the events their   *)
(* numbers (agent_events.rs, sessions.rs).                                 *)
THEOREM FeedTypes == Spec => []TypeOK
<1>1. IInv => TypeOK
    BY DEF IInv, TypeInv
<1> QED
    BY <1>1, Invariant, PTL

(* What the page shows is what the agent did, in that order and without a  *)
(* hole as long as no INSERT failed, however the two sinks, the abort, the *)
(* lease and the fetches interleave (sessions.rs, operate.rs).             *)
THEOREM ViewsFaithful == Spec => []ViewFaithful
<1>1. IInv => ViewFaithful
    <2> SUFFICES ASSUME IInv PROVE ViewFaithful
        OBVIOUS
    <2>1. DOMAIN view.rows = 1..Len(view.rows)
        BY TypeParts DEF IInv, PageType
    <2> QED
        BY <2>1 DEF IInv, Origin, InPlace, Genuine, ViewFaithful
<1> QED
    BY <1>1, Invariant, PTL

(* A page that stops fetching because the session has completed has every  *)
(* row there will ever be: the rows are written before the status and read *)
(* after it (operate.rs, SessionFeed.tsx).                                 *)
THEOREM FinalViewsComplete == Spec => []FinalViewComplete
<1>1. IInv => FinalViewComplete
    BY TypeParts DEF IInv, Seen, Done, FinalViewComplete, ReaderType
<1> QED
    BY <1>1, Invariant, PTL

=============================================================================
