---------------------------- MODULE Page_proofs ----------------------------
(***************************************************************************)
(* What the page makes of the rows: it pairs calls and results as the      *)
(* normalizer did, for any script, channel and number of readers, and a    *)
(* draft is superseded by its row except where the stream dropped the      *)
(* message.  The cards are built by recursion over the rows; instead of an *)
(* induction, the proofs take the first row at which a claim fails.        *)
(***************************************************************************)
EXTENDS SessionEvents_proofs, WellFoundedInduction

-----------------------------------------------------------------------------
(* Induction: a set of numbers that has one has a least one.               *)

LEMMA Least ==
    ASSUME NEW S \in SUBSET Nat, S # {}
    PROVE  \E n \in S : \A m \in S : n <= m
<1> DEFINE R == OpToRel(<, Nat)
<1>1. IsWellFoundedOn(R, Nat)
    BY NatLessThanWellFounded
<1>2. PICK n \in S : \A m \in S : <<m, n>> \notin R
    <2> HIDE DEF R
    <2> QED
        BY <1>1, WFMin
<1>3. \A m \in S : ~(m < n)
    BY <1>2 DEF OpToRel
<1> QED
    BY <1>3

-----------------------------------------------------------------------------
(* The cards of a list of rows, row by row.                                *)

ACard == [call : Nat, result : SUBSET Nat]
AnEvent(ev) == ev.n \in Nat /\ ev.tool \in Nat

LEMMA ReplacedType ==
    ASSUME NEW S, NEW q \in Seq(S), NEW i, NEW x \in S
    PROVE  [q EXCEPT ![i] = x] \in Seq(S)
<1>1. q \in [1..Len(q) -> S] /\ Len(q) \in Nat
    OBVIOUS
<1>2. [q EXCEPT ![i] = x] \in [1..Len(q) -> S]
    BY <1>1
<1> QED
    BY <1>1, <1>2, IsASeq

LEMMA PlacedType ==
    ASSUME NEW cards \in Seq(ACard), NEW ev, AnEvent(ev)
    PROVE  Placed(cards, ev) \in Seq(ACard)
<1> DEFINE mine == WaitingFor(cards, ev.n)
           i == CHOOSE i \in mine : TRUE
<1>1. Card(ev.n, {}) \in ACard /\ Card(ev.n, {ev.tool}) \in ACard /\ Card(0, {ev.tool}) \in ACard
    BY DEF Card, ACard, AnEvent
<1> HIDE DEF ACard
<1>2. Append(cards, Card(ev.n, {})) \in Seq(ACard) /\ Append(cards, Card(0, {ev.tool})) \in Seq(ACard)
    BY <1>1
<1>3. [cards EXCEPT ![i] = Card(ev.n, {ev.tool})] \in Seq(ACard)
    BY <1>1, ReplacedType
<1> QED
    BY <1>2, <1>3 DEF Placed

(* What CardsOf computes: one card list per prefix.                        *)
Folded(f, rs) ==
    /\ f \in [0..Len(rs) -> Seq(ACard)]
    /\ f[0] = <<>> /\ \A k \in 1..Len(rs) : f[k] = Placed(f[k - 1], rs[k].ev)

(* There is such a list of lists, made row by row ...                      *)
LEMMA CardsExist ==
    ASSUME NEW rs, Len(rs) \in Nat, \A k \in 1..Len(rs) : AnEvent(rs[k].ev)
    PROVE  \E f : Folded(f, rs)
<1> DEFINE n == Len(rs)
           Runs(m) == {f \in [0..m -> Seq(ACard)] :
                          f[0] = <<>> /\ \A k \in 1..m : f[k] = Placed(f[k - 1], rs[k].ev)}
           Bad == {m \in 0..n : Runs(m) = {}}
<1>1. SUFFICES ASSUME Bad # {} PROVE FALSE
    <2>1. n \in 0..n
        OBVIOUS
    <2>2. \A f \in Runs(n) : Folded(f, rs)
        BY DEF Folded
    <2> HIDE DEF Runs
    <2> QED
        BY <2>1, <2>2
<1>2. PICK m \in Bad : \A j \in Bad : m <= j
    <2>1. Bad \in SUBSET Nat
        OBVIOUS
    <2> HIDE DEF Bad
    <2> QED
        BY <1>1, <2>1, Least
<1>3. m # 0
    <2>1. [i \in 0..0 |-> <<>>] \in Runs(0)
        OBVIOUS
    <2> HIDE DEF Runs
    <2> QED
        BY <2>1
<1>4. m - 1 \in 0..n /\ m \in 1..n /\ ~(m <= m - 1)
    BY <1>3
<1>5. PICK f : f \in Runs(m - 1)
    <2> HIDE DEF Runs
    <2> QED
        BY <1>2, <1>4
<1> DEFINE g == [i \in 0..m |-> IF i = m THEN Placed(f[m - 1], rs[m].ev) ELSE f[i]]
<1>6. g \in [0..m -> Seq(ACard)]
    <2>1. f \in [0..(m - 1) -> Seq(ACard)] /\ f[m - 1] \in Seq(ACard)
        BY <1>4, <1>5
    <2>2. Placed(f[m - 1], rs[m].ev) \in Seq(ACard)
        BY <1>4, <2>1, PlacedType
    <2>3. ASSUME NEW i \in 0..m, i # m PROVE f[i] \in Seq(ACard)
        BY <1>4, <2>1, <2>3
    <2> QED
        BY <2>2, <2>3
<1>7. g[0] = <<>>
    BY <1>4, <1>5
<1>8. ASSUME NEW k \in 1..m PROVE g[k] = Placed(g[k - 1], rs[k].ev)
    <2>1. CASE k = m
        BY <1>4, <2>1
    <2>2. CASE k # m
        BY <1>4, <1>5, <2>2
    <2> QED
        BY <2>1, <2>2
<1>9. g \in Runs(m)
    <2> HIDE DEF g
    <2> QED
        BY <1>6, <1>7, <1>8
<1> HIDE DEF Runs
<1> QED
    BY <1>2, <1>9

(* ... and it is what the recursion means.                                 *)
LEMMA CardsFold ==
    ASSUME NEW rs, Len(rs) \in Nat, \A k \in 1..Len(rs) : AnEvent(rs[k].ev)
    PROVE  \E f : Folded(f, rs) /\ CardsOf(rs) = f[Len(rs)]
<1> DEFINE n == Len(rs)
           Eq(f) == f = [k \in 0..n |-> IF k = 0 THEN <<>> ELSE Placed(f[k - 1], rs[k].ev)]
<1>1. <<>> \in Seq(ACard)
    OBVIOUS
<1>2. PICK f : Folded(f, rs)
    BY CardsExist
<1>3. Eq(f)
    <2>1. ASSUME NEW k \in 0..n
          PROVE  f[k] = IF k = 0 THEN <<>> ELSE Placed(f[k - 1], rs[k].ev)
        BY <1>2 DEF Folded
    <2>2. f \in [0..n -> Seq(ACard)]
        BY <1>2 DEF Folded
    <2> QED
        BY <2>1, <2>2
<1> DEFINE c == CHOOSE h : Eq(h)
<1>4. Eq(c)
    <2> HIDE DEF Eq
    <2> QED
        BY <1>3
<1>5. c \in [0..n -> Seq(ACard)]
    <2> HIDE DEF c
    <2>1. DOMAIN c = 0..n /\ c[0] = <<>> /\ \A k \in 1..n : c[k] = Placed(c[k - 1], rs[k].ev)
        BY <1>4
    <2> DEFINE Bad == {k \in 0..n : c[k] \notin Seq(ACard)}
    <2>2. SUFFICES ASSUME Bad # {} PROVE FALSE
        BY <1>4
    <2>3. PICK k \in Bad : \A j \in Bad : k <= j
        <3>1. Bad \in SUBSET Nat
            OBVIOUS
        <3> HIDE DEF Bad
        <3> QED
            BY <2>2, <3>1, Least
    <2>4. k # 0
        BY <1>1, <2>1, <2>3
    <2>5. k \in 1..n /\ k - 1 \in 0..n /\ ~(k <= k - 1)
        BY <2>4
    <2>6. c[k - 1] \in Seq(ACard)
        BY <2>3, <2>5
    <2>7. c[k] \in Seq(ACard)
        BY <2>1, <2>5, <2>6, PlacedType
    <2> QED
        BY <2>7
<1>6. Folded(c, rs)
    <2> HIDE DEF c
    <2>1. c[0] = <<>> /\ \A k \in 1..n : c[k] = Placed(c[k - 1], rs[k].ev)
        BY <1>4
    <2> QED
        BY <1>5, <2>1 DEF Folded
<1>7. CardsOf(rs) = c[n]
    BY DEF CardsOf
<1> QED
    BY <1>6, <1>7

-----------------------------------------------------------------------------
(* A list of events that pairs its results.  A call is open in the first k *)
(* of them if it was made there and has no result behind it.               *)

IsUse(ev, n) == ev.kind = "use" /\ ev.n = n
IsResult(ev, n) == ev.kind = "result" /\ ev.n = n
OpenIn(es, k, n) ==
    \E j \in 1..k : IsUse(es[j], n) /\ \A i \in (j + 1)..k : ~IsResult(es[i], n)

(* Calls are numbered afresh, and a result names its call if that is open. *)
WellPaired(es) ==
    /\ \A p \in 1..Len(es) : AnEvent(es[p])
    /\ \A p, q \in 1..Len(es) : \A n \in Nat :
          IsUse(es[p], n) /\ IsUse(es[q], n) => p = q
    /\ \A p \in 1..Len(es) : \A n \in Nat : IsResult(es[p], n) =>
          es[p].tool = IF OpenIn(es, p - 1, n) THEN n ELSE 0

LEMMA OpenNext ==
    ASSUME NEW es, NEW k \in Nat, NEW n \in Nat
    PROVE  OpenIn(es, k + 1, n) <=>
              \/ IsUse(es[k + 1], n)
              \/ OpenIn(es, k, n) /\ ~IsResult(es[k + 1], n)
<1>1. ASSUME IsUse(es[k + 1], n) PROVE OpenIn(es, k + 1, n)
    <2>1. k + 1 \in 1..(k + 1) /\ (k + 1 + 1)..(k + 1) = {}
        OBVIOUS
    <2> QED
        BY <1>1, <2>1 DEF OpenIn
<1>2. ASSUME OpenIn(es, k, n), ~IsResult(es[k + 1], n) PROVE OpenIn(es, k + 1, n)
    <2>1. PICK j \in 1..k : IsUse(es[j], n) /\ \A i \in (j + 1)..k : ~IsResult(es[i], n)
        BY <1>2 DEF OpenIn
    <2>2. j \in 1..(k + 1) /\ \A i \in (j + 1)..(k + 1) : i \in (j + 1)..k \/ i = k + 1
        OBVIOUS
    <2> QED
        BY <1>2, <2>1, <2>2 DEF OpenIn
<1>3. ASSUME OpenIn(es, k + 1, n), ~IsUse(es[k + 1], n)
      PROVE  OpenIn(es, k, n) /\ ~IsResult(es[k + 1], n)
    <2>1. PICK j \in 1..(k + 1) :
              IsUse(es[j], n) /\ \A i \in (j + 1)..(k + 1) : ~IsResult(es[i], n)
        BY <1>3 DEF OpenIn
    <2>2. j \in 1..k /\ k + 1 \in (j + 1)..(k + 1) /\ (j + 1)..k \subseteq (j + 1)..(k + 1)
        BY <1>3, <2>1
    <2> QED
        BY <2>1, <2>2 DEF OpenIn
<1> QED
    BY <1>1, <1>2, <1>3

-----------------------------------------------------------------------------
(* Cards that agree with the first k events: results are in the card of    *)
(* their call, and just the open calls have one card without a result.     *)

Agree(cards, es, k) ==
    /\ cards \in Seq(ACard)
    /\ \A i \in 1..Len(cards) : cards[i].result \subseteq {cards[i].call}
    /\ \A n \in Nat : OpenIn(es, k, n) <=> WaitingFor(cards, n) # {}
    /\ \A n \in Nat : \A i, j \in WaitingFor(cards, n) : i = j

LEMMA AgreeNext ==
    ASSUME NEW es, WellPaired(es), NEW k \in Nat, k + 1 \in 1..Len(es),
           NEW cards, Agree(cards, es, k)
    PROVE  Agree(Placed(cards, es[k + 1]), es, k + 1)
<1> DEFINE ev == es[k + 1]
           new == Placed(cards, ev)
           mine == WaitingFor(cards, ev.n)
<1>1. cards \in Seq(ACard) /\ Len(cards) \in Nat /\ DOMAIN cards = 1..Len(cards)
    BY DEF Agree
<1>2. AnEvent(ev) /\ ev.n \in Nat
    BY DEF WellPaired, AnEvent
<1>3. new \in Seq(ACard) /\ Len(new) \in Nat /\ DOMAIN new = 1..Len(new)
    BY <1>1, <1>2, PlacedType
<1>4. CASE ev.kind = "use"
    <2>1. new = Append(cards, Card(ev.n, {}))
        BY <1>4 DEF Placed
    <2>2. Card(ev.n, {}) \in ACard
        BY <1>2 DEF Card, ACard
    <2>3. /\ Len(new) = Len(cards) + 1 /\ new[Len(cards) + 1] = Card(ev.n, {})
          /\ \A i \in 1..Len(cards) : new[i] = cards[i]
        BY <1>1, <2>1, <2>2, AppendOf
    <2>4. ~OpenIn(es, k, ev.n)
        <3>1. \A j \in 1..k : j \in 1..Len(es) /\ j # k + 1
            OBVIOUS
        <3> QED
            BY <1>2, <1>4, <3>1 DEF OpenIn, WellPaired, IsUse
    <2>5. \A n \in Nat : OpenIn(es, k + 1, n) <=> n = ev.n \/ OpenIn(es, k, n)
        BY <1>4, OpenNext DEF IsUse, IsResult
    <2>6. \A n \in Nat : WaitingFor(new, n) =
             WaitingFor(cards, n) \cup (IF n = ev.n THEN {Len(cards) + 1} ELSE {})
        BY <1>1, <1>3, <2>3 DEF WaitingFor, Card
    <2>7. mine = {}
        BY <1>2, <2>4 DEF Agree
    <2>8. \A i \in 1..Len(new) : new[i].result \subseteq {new[i].call}
        BY <1>1, <2>3 DEF Agree, Card
    <2>9. \A n \in Nat : OpenIn(es, k + 1, n) <=> WaitingFor(new, n) # {}
        BY <2>5, <2>6 DEF Agree
    <2>10. \A n \in Nat : \A i, j \in WaitingFor(new, n) : i = j
        BY <2>6, <2>7 DEF Agree
    <2> QED
        BY <1>3, <2>8, <2>9, <2>10 DEF Agree
<1>5. CASE ev.kind = "result" /\ mine # {}
    <2> DEFINE m == CHOOSE i \in mine : TRUE
    <2>1. new = [cards EXCEPT ![m] = Card(ev.n, {ev.tool})]
        BY <1>5 DEF Placed
    <2>2. m \in mine
        BY <1>5
    <2>3. m \in 1..Len(cards) /\ cards[m].call = ev.n /\ mine = {m}
        BY <1>1, <1>2, <2>2 DEF WaitingFor, Agree
    <2> HIDE DEF m
    <2>4. Len(new) = Len(cards) /\ new[m] = Card(ev.n, {ev.tool})
          /\ \A i \in 1..Len(cards) : i # m => new[i] = cards[i]
        BY <1>1, <1>3, <2>1, <2>3
    <2>5. OpenIn(es, k, ev.n)
        BY <1>2, <1>5 DEF Agree
    <2>6. ev.tool = ev.n
        <3>1. (k + 1) - 1 = k
            OBVIOUS
        <3> QED
            BY <1>2, <1>5, <2>5, <3>1 DEF WellPaired, IsResult
    <2>7. \A n \in Nat : OpenIn(es, k + 1, n) <=> n # ev.n /\ OpenIn(es, k, n)
        BY <1>5, OpenNext DEF IsUse, IsResult
    <2>8. \A n \in Nat : WaitingFor(new, n) = IF n = ev.n THEN {} ELSE WaitingFor(cards, n)
        <3> SUFFICES ASSUME NEW n \in Nat, NEW i
                     PROVE  i \in WaitingFor(new, n) <=> n # ev.n /\ i \in WaitingFor(cards, n)
            BY DEF WaitingFor
        <3> HIDE DEF new, ev, mine
        <3>1. new[m].result # {} /\ DOMAIN new = DOMAIN cards
            BY <1>1, <1>3, <2>4 DEF Card
        <3>2. CASE i = m
            BY <2>3, <3>1, <3>2 DEF WaitingFor
        <3>3. CASE i # m
            <4>1. i \in WaitingFor(new, n) <=> i \in WaitingFor(cards, n)
                BY <1>1, <2>4, <3>1, <3>3 DEF WaitingFor
            <4>2. i \notin WaitingFor(cards, ev.n)
                BY <2>3, <3>3 DEF mine
            <4> QED
                BY <4>1, <4>2
        <3> QED
            BY <3>2, <3>3
    <2>9. \A i \in 1..Len(new) : new[i].result \subseteq {new[i].call}
        BY <2>4, <2>6 DEF Agree, Card
    <2>10. \A n \in Nat : OpenIn(es, k + 1, n) <=> WaitingFor(new, n) # {}
        BY <2>7, <2>8 DEF Agree
    <2>11. \A n \in Nat : \A i, j \in WaitingFor(new, n) : i = j
        BY <2>8 DEF Agree
    <2> QED
        BY <1>3, <2>9, <2>10, <2>11 DEF Agree
<1>6. CASE ev.kind = "result" /\ mine = {}
    <2>1. new = Append(cards, Card(0, {ev.tool}))
        BY <1>6 DEF Placed
    <2>2. Card(0, {ev.tool}) \in ACard
        BY <1>2 DEF Card, ACard, AnEvent
    <2>3. /\ Len(new) = Len(cards) + 1 /\ new[Len(cards) + 1] = Card(0, {ev.tool})
          /\ \A i \in 1..Len(cards) : new[i] = cards[i]
        BY <1>1, <2>1, <2>2, AppendOf
    <2>4. ~OpenIn(es, k, ev.n)
        BY <1>2, <1>6 DEF Agree
    <2>5. ev.tool = 0
        <3>1. (k + 1) - 1 = k
            OBVIOUS
        <3> QED
            BY <1>2, <1>6, <2>4, <3>1 DEF WellPaired, IsResult
    <2>6. \A n \in Nat : OpenIn(es, k + 1, n) <=> OpenIn(es, k, n)
        BY <1>6, <2>4, OpenNext DEF IsUse, IsResult
    <2>7. \A n \in Nat : WaitingFor(new, n) = WaitingFor(cards, n)
        <3> SUFFICES ASSUME NEW n \in Nat, NEW i
                     PROVE  i \in WaitingFor(new, n) <=> i \in WaitingFor(cards, n)
            BY DEF WaitingFor
        <3> HIDE DEF new, ev, mine
        <3>1. DOMAIN new = 1..(Len(cards) + 1) /\ new[Len(cards) + 1].result # {}
            BY <1>3, <2>3 DEF Card
        <3>2. CASE i \in 1..Len(cards)
            <4>1. i \in DOMAIN new /\ i \in DOMAIN cards /\ new[i] = cards[i]
                BY <1>1, <2>3, <3>1, <3>2
            <4> QED
                BY <4>1 DEF WaitingFor
        <3>3. CASE i \notin 1..Len(cards)
            <4>1. i \in DOMAIN new => i = Len(cards) + 1
                BY <1>1, <3>1, <3>3
            <4> QED
                BY <1>1, <3>1, <3>3, <4>1 DEF WaitingFor
        <3> QED
            BY <3>2, <3>3
    <2>8. \A i \in 1..Len(new) : new[i].result \subseteq {new[i].call}
        BY <1>1, <2>3, <2>5 DEF Agree, Card
    <2> QED
        BY <1>3, <2>6, <2>7, <2>8 DEF Agree
<1>7. CASE ev.kind \notin {"use", "result"}
    <2>1. new = cards
        BY <1>7 DEF Placed
    <2>2. \A n \in Nat : OpenIn(es, k + 1, n) <=> OpenIn(es, k, n)
        BY <1>7, OpenNext DEF IsUse, IsResult
    <2> QED
        BY <2>1, <2>2 DEF Agree
<1> QED
    BY <1>4, <1>5, <1>6, <1>7

(* So do the cards of rows that are the first of such events: if they did  *)
(* not, there would be a first prefix whose cards do not.                  *)
LEMMA CardsAgree ==
    ASSUME NEW es, WellPaired(es), Len(es) \in Nat,
           NEW rs, Len(rs) \in Nat, Len(rs) <= Len(es),
           \A k \in 1..Len(rs) : rs[k].ev = es[k]
    PROVE  Agree(CardsOf(rs), es, Len(rs))
<1>1. \A k \in 1..Len(rs) : AnEvent(rs[k].ev)
    BY DEF WellPaired
<1>2. PICK f : Folded(f, rs) /\ CardsOf(rs) = f[Len(rs)]
    BY <1>1, CardsFold
<1> DEFINE Bad == {k \in 0..Len(rs) : ~Agree(f[k], es, k)}
<1>3. SUFFICES ASSUME Bad # {} PROVE FALSE
    <2>1. Len(rs) \in 0..Len(rs)
        OBVIOUS
    <2> QED
        BY <1>2, <2>1
<1>4. PICK k \in Bad : \A j \in Bad : k <= j
    <2>1. Bad \in SUBSET Nat
        OBVIOUS
    <2> HIDE DEF Bad
    <2> QED
        BY <1>3, <2>1, Least
<1>5. k # 0
    <2>1. f[0] = <<>>
        BY <1>2 DEF Folded
    <2>2. \A n \in Nat : ~OpenIn(es, 0, n) /\ WaitingFor(<<>>, n) = {}
        BY DEF OpenIn, WaitingFor
    <2>3. Agree(<<>>, es, 0)
        BY <2>2 DEF Agree
    <2> QED
        BY <2>1, <2>3
<1>6. k \in 1..Len(rs) /\ k - 1 \in 0..Len(rs) /\ ~(k <= k - 1) /\ (k - 1) + 1 = k
      /\ k - 1 \in Nat /\ k \in 1..Len(es)
    BY <1>5
<1>7. Agree(f[k - 1], es, k - 1)
    BY <1>4, <1>6
<1>8. Agree(Placed(f[k - 1], es[k]), es, k)
    <2> DEFINE j == k - 1
               cards == f[k - 1]
    <2>1. j \in Nat /\ j + 1 \in 1..Len(es) /\ j + 1 = k /\ Agree(cards, es, j)
        BY <1>6, <1>7
    <2> HIDE DEF j, cards
    <2>2. Agree(Placed(cards, es[j + 1]), es, j + 1)
        BY <2>1, AgreeNext
    <2> QED
        BY <2>1, <2>2 DEF cards
<1>9. f[k] = Placed(f[k - 1], es[k])
    BY <1>2, <1>6 DEF Folded
<1> QED
    BY <1>4, <1>8, <1>9

-----------------------------------------------------------------------------
(* The normalizer pairs its results: pending_tools are the calls open in   *)
(* what was produced.                                                      *)

PairedWith(es, pending, made) ==
    /\ WellPaired(es)
    /\ \A n \in Nat : n \in pending <=> OpenIn(es, Len(es), n)
    /\ \A p \in 1..Len(es) : \A n \in Nat : IsUse(es[p], n) => n <= made

(* One event more: what is open in the events before it stays open there.  *)
LEMMA PrefixOpen ==
    ASSUME NEW S, NEW es \in Seq(S), NEW ev \in S, NEW k \in 0..Len(es), NEW n \in Nat
    PROVE  OpenIn(Append(es, ev), k, n) <=> OpenIn(es, k, n)
<1>1. \A i \in 1..Len(es) : Append(es, ev)[i] = es[i]
    BY AppendOf
<1>2. \A i \in 1..k : i \in 1..Len(es)
    OBVIOUS
<1>3. \A j \in 1..k : \A i \in (j + 1)..k : i \in 1..Len(es)
    OBVIOUS
<1> QED
    BY <1>1, <1>2, <1>3 DEF OpenIn

LEMMA PairedNext ==
    ASSUME NEW S, NEW es \in Seq(S), NEW ev \in S, AnEvent(ev),
           NEW pending, NEW made \in Nat, PairedWith(es, pending, made),
           NEW pending2, NEW made2 \in Nat, made <= made2,
           \A n \in Nat : n \in pending2 <=> IsUse(ev, n) \/ (n \in pending /\ ~IsResult(ev, n)),
           \A n \in Nat : IsUse(ev, n) => n = made + 1 /\ made2 = n,
           \A n \in Nat : IsResult(ev, n) => ev.tool = IF n \in pending THEN n ELSE 0
    PROVE  PairedWith(Append(es, ev), pending2, made2)
<1> DEFINE new == Append(es, ev)
           l == Len(es)
<1>1. /\ l \in Nat /\ Len(new) = l + 1 /\ new[l + 1] = ev
      /\ \A i \in 1..l : new[i] = es[i]
      /\ \A i \in 1..(l + 1) : i \in 1..l \/ i = l + 1
    BY AppendOf
<1>2. \A k \in 0..l : \A n \in Nat : OpenIn(new, k, n) <=> OpenIn(es, k, n)
    BY PrefixOpen
<1>3. \A n \in Nat : OpenIn(new, l, n) <=> n \in pending
    BY <1>1, <1>2 DEF PairedWith
<1>4. \A n \in Nat : OpenIn(new, l + 1, n) <=>
                        IsUse(ev, n) \/ (n \in pending /\ ~IsResult(ev, n))
    BY <1>1, <1>3, OpenNext
<1> HIDE DEF new, l
<1>5. \A p \in 1..Len(new) : AnEvent(new[p])
    BY <1>1 DEF PairedWith, WellPaired, l
<1>6. ASSUME NEW p \in 1..(l + 1), NEW n \in Nat, IsUse(new[p], n)
      PROVE  n <= made2 /\ (p # l + 1 => n <= made)
    <2>1. CASE p \in 1..l
        <3>1. n <= made
            BY <1>1, <1>6, <2>1 DEF PairedWith, l
        <3> QED
            BY <1>1, <2>1, <3>1
    <2>2. CASE p = l + 1
        BY <1>1, <1>6, <2>2
    <2> QED
        BY <1>1, <2>1, <2>2
<1>7. ASSUME NEW p \in 1..(l + 1), NEW q \in 1..(l + 1), NEW n \in Nat,
             IsUse(new[p], n), IsUse(new[q], n)
      PROVE  p = q
    <2>1. CASE p \in 1..l /\ q \in 1..l
        BY <1>1, <1>7, <2>1 DEF PairedWith, WellPaired, l
    <2>2. CASE p = l + 1 \/ q = l + 1
        <3>1. IsUse(ev, n)
            BY <1>1, <1>7, <2>2
        <3>2. ~(n <= made)
            BY <3>1
        <3> QED
            BY <1>6, <1>7, <2>2, <3>2
    <2> QED
        BY <1>1, <2>1, <2>2
<1>8. ASSUME NEW p \in 1..(l + 1), NEW n \in Nat, IsResult(new[p], n)
      PROVE  new[p].tool = IF OpenIn(new, p - 1, n) THEN n ELSE 0
    <2>1. CASE p \in 1..l
        <3>1. p - 1 \in 0..l /\ new[p] = es[p]
            BY <1>1, <2>1
        <3>2. es[p].tool = IF OpenIn(es, p - 1, n) THEN n ELSE 0
            BY <1>8, <2>1, <3>1 DEF PairedWith, WellPaired, l
        <3> QED
            BY <1>2, <3>1, <3>2
    <2>2. CASE p = l + 1
        <3>1. p - 1 = l /\ new[p] = ev
            BY <1>1, <2>2
        <3> QED
            BY <1>3, <1>8, <3>1
    <2> QED
        BY <1>1, <2>1, <2>2
<1>9. WellPaired(new)
    BY <1>1, <1>5, <1>7, <1>8 DEF WellPaired
<1> QED
    BY <1>1, <1>4, <1>6, <1>9 DEF PairedWith, new

LEMMA OneMore ==
    ASSUME NEW S, NEW q \in Seq(S), NEW x \in S
    PROVE  /\ q \o <<x>> = Append(q, x)
           /\ q \o (<<x>> \o <<>>) = Append(q, x) /\ q \o (<<>> \o <<x>>) = Append(q, x)
<1>1. <<x>> \in Seq(S) /\ <<>> \in Seq(S)
    OBVIOUS
<1>2. q \o <<x>> = Append(q, x)
    OBVIOUS
<1>3. <<x>> \o <<>> = <<x>> /\ <<>> \o <<x>> = <<x>>
    BY <1>1, ConcatEmptySeq
<1> QED
    BY <1>2, <1>3

LEMMA TwoMore ==
    ASSUME NEW S, NEW q \in Seq(S), NEW a \in Seq(S), NEW b \in Seq(S), Len(a) = 1, Len(b) = 1
    PROVE  q \o (a \o b) = Append(Append(q, a[1]), b[1])
<1>1. 1 \in 1..Len(a) /\ 1 \in 1..Len(b)
    OBVIOUS
<1>2. a[1] \in S /\ b[1] \in S
    BY <1>1, ElementOfSeq
<1>3. Append(q, a[1]) \in Seq(S)
    BY <1>2, AppendOf
<1>4. \A c \in Seq(S) : Len(c) = 1 /\ c[1] \in S => c = <<c[1]>>
    OBVIOUS
<1>5. a = <<a[1]>> /\ b = <<b[1]>>
    BY <1>2, <1>4
<1>6. \A p \in Seq(S) : Append(p, a[1]) = p \o a /\ Append(p, b[1]) = p \o b
    BY <1>2, <1>5, AppendIsConcat
<1>7. q \o (a \o b) = (q \o a) \o b
    BY ConcatAssociative
<1> QED
    BY <1>3, <1>6, <1>7

Paired == PairedWith(produced, open, calls)

(* One event of the line, then the next if it has two.                     *)
LEMMA PairedRead ==
    ASSUME TypeInv, Paired, ReadLine
    PROVE  Paired'
<1> DEFINE line == script[lines + 1]
<1>0. /\ line.t \in LineTypes /\ line.n \in Nat /\ Len(script) \in Nat
      /\ lines < Len(script) /\ calls \in Nat /\ texts \in Nat
      /\ texts + 1 \in 0..Len(script) /\ calls + 1 \in 0..Len(script)
    <2>1. TypeOK /\ lines < Len(script)
        BY DEF TypeInv, ReadLine
    <2>2. line \in [t : LineTypes, n : 0..Len(script)]
        BY <2>1, NextLine
    <2> QED
        BY <2>1, <2>2, NextLine
<1>1. Normalized(line) \in Seq(Events) /\ produced \in Seq(Events)
    <2>1. TypeOK /\ lines < Len(script)
        BY DEF TypeInv, ReadLine
    <2> QED
        BY <2>1, LineEvents DEF TypeOK
<1>2. /\ produced' = produced \o Normalized(line)
      /\ open' = OpenAfter(line)
      /\ calls' = IF HasCall(line) THEN calls + 1 ELSE calls
    BY DEF ReadLine
<1>3. PairedWith(produced, open, calls)
    BY DEF Paired
<1> SUFFICES PairedWith(produced \o Normalized(line), open', calls')
    BY <1>2 DEF Paired
<1> HIDE DEF line
<1>4. \A ev \in Events : AnEvent(ev)
    BY <1>0 DEF Events, AnEvent
<1> DEFINE text == Event("text", texts + 1, 0)
           use == Event("use", calls + 1, 0)
           warning == Event("warning", 0, 0)
           completed == Event("completed", 0, 0)
<1>5. text \in Events /\ use \in Events /\ warning \in Events /\ completed \in Events
    BY <1>0 DEF Event, Events
<1>6. ASSUME NEW ev \in Events, NEW es \in Seq(Events), ev.kind \notin {"use", "result"},
             NEW pending, NEW made \in Nat, PairedWith(es, pending, made)
      PROVE  PairedWith(Append(es, ev), pending, made)
    <2>1. \A n \in Nat : ~IsUse(ev, n) /\ ~IsResult(ev, n)
        BY <1>6 DEF IsUse, IsResult
    <2> QED
        BY <1>4, <1>6, <2>1, PairedNext
<1>7. ASSUME NEW es \in Seq(Events), PairedWith(es, open, calls)
      PROVE  PairedWith(Append(es, use), open \cup {calls + 1}, calls + 1)
    <2>1. \A n \in Nat : ~IsResult(use, n) /\ (IsUse(use, n) <=> n = calls + 1)
        BY DEF IsUse, IsResult, Event
    <2> DEFINE more == calls + 1
               pending == open \cup {more}
    <2>2. more \in Nat /\ calls <= more /\ \A n \in Nat : IsUse(use, n) => n = more
        BY <1>0, <2>1
    <2>3. \A n \in Nat : n \in pending <=> IsUse(use, n) \/ (n \in open /\ ~IsResult(use, n))
        BY <2>1
    <2>4. \A n \in Nat : IsUse(use, n) => n = calls + 1 /\ more = n
        BY <2>1
    <2>5. \A n \in Nat : IsResult(use, n) => use.tool = IF n \in open THEN n ELSE 0
        BY <2>1
    <2> HIDE DEF more, pending, use
    <2>6. PairedWith(Append(es, use), pending, more)
        BY <1>0, <1>4, <1>5, <1>7, <2>2, <2>3, <2>4, <2>5, PairedNext
    <2> QED
        BY <2>6 DEF more, pending
<1>8. text.kind = "text" /\ warning.kind = "warning" /\ completed.kind = "completed"
    BY DEF Event
<1> HIDE DEF text, use, warning, completed
<1>9. CASE HasText(line) \/ HasCall(line)
    <2>1. Normalized(line) = (IF HasText(line) THEN <<text>> ELSE <<>>)
                                \o (IF HasCall(line) THEN <<use>> ELSE <<>>)
        BY <1>9 DEF Normalized, HasText, HasCall, AssistantEvents, text, use
    <2>2. PairedWith(Append(produced, text), open, calls) /\ Append(produced, text) \in Seq(Events)
        BY <1>0, <1>1, <1>3, <1>5, <1>6, <1>8, AppendOf
    <2>3. CASE HasText(line) /\ HasCall(line)
        <3>1. produced \o Normalized(line) = Append(Append(produced, text), use)
            <4> DEFINE a == <<text>>
                       b == <<use>>
            <4>1. /\ Normalized(line) = a \o b /\ a \in Seq(Events) /\ b \in Seq(Events)
                  /\ Len(a) = 1 /\ Len(b) = 1 /\ a[1] = text /\ b[1] = use
                BY <1>5, <2>1, <2>3
            <4> HIDE DEF a, b
            <4> QED
                BY <1>1, <4>1, TwoMore
        <3> QED
            BY <1>2, <1>7, <2>2, <2>3, <3>1 DEF OpenAfter
    <2>4. CASE HasText(line) /\ ~HasCall(line)
        <3>1. produced \o Normalized(line) = Append(produced, text)
            BY <1>1, <1>5, <2>1, <2>4, OneMore
        <3>2. line.t # "result"
            BY <2>4 DEF HasText
        <3> QED
            BY <1>2, <2>2, <2>4, <3>1, <3>2 DEF OpenAfter
    <2>5. CASE ~HasText(line) /\ HasCall(line)
        <3>1. produced \o Normalized(line) = Append(produced, use)
            BY <1>1, <1>5, <2>1, <2>5, OneMore
        <3> QED
            BY <1>1, <1>2, <1>3, <1>7, <2>5, <3>1 DEF OpenAfter
    <2> QED
        BY <1>9, <2>3, <2>4, <2>5
<1>10. CASE line.t = "result"
    <2> DEFINE ev == Event("result", line.n, IF line.n \in open THEN line.n ELSE 0)
               pending == open \ {line.n}
    <2>1. Normalized(line) = <<ev>> /\ ~HasCall(line)
        BY <1>10 DEF Normalized, HasText, HasCall, UserEvents
    <2>2. \A n \in Nat : ~IsUse(ev, n) /\ (IsResult(ev, n) <=> n = line.n)
        BY DEF IsUse, IsResult, Event
    <2>3. ev.tool = IF line.n \in open THEN line.n ELSE 0
        BY DEF Event
    <2>4. \A n \in Nat : n \in pending <=> IsUse(ev, n) \/ (n \in open /\ ~IsResult(ev, n))
        BY <2>2
    <2>5. ev \in Events
        BY <1>1, <2>1
    <2> HIDE DEF ev, pending
    <2>6. \A n \in Nat : IsUse(ev, n) => n = calls + 1 /\ calls = n
        BY <2>2
    <2>7. PairedWith(Append(produced, ev), pending, calls)
        BY <1>0, <1>1, <1>3, <1>4, <2>2, <2>3, <2>4, <2>5, <2>6, PairedNext
    <2>8. produced \o Normalized(line) = Append(produced, ev)
        BY <1>1, <2>1, <2>5, OneMore
    <2> QED
        BY <1>2, <1>10, <2>1, <2>7, <2>8 DEF OpenAfter, pending
<1>11. CASE line.t \in {"success", "error", "mystery", "delta"}
    <2>1. ~HasText(line) /\ ~HasCall(line) /\ line.t # "result"
        BY <1>11 DEF HasText, HasCall
    <2>2. open' = open /\ calls' = calls
        BY <1>2, <2>1 DEF OpenAfter
    <2>3. Append(produced, completed) \in Seq(Events)
        BY <1>1, <1>5, AppendOf
    <2>4. \/ produced \o Normalized(line) = produced
          \/ produced \o Normalized(line) = Append(produced, completed)
          \/ produced \o Normalized(line) = Append(produced, warning)
          \/ produced \o Normalized(line) = Append(Append(produced, completed), warning)
        <3>1. CASE line.t = "success"
            <4>1. Normalized(line) = <<completed>> \o <<>>
                BY <3>1, <2>1 DEF Normalized, ResultEvents, completed
            <4> QED
                BY <1>1, <1>5, <4>1, OneMore
        <3>2. CASE line.t = "error"
            <4> DEFINE a == <<completed>>
                       b == <<warning>>
            <4>1. /\ Normalized(line) = a \o b /\ a \in Seq(Events) /\ b \in Seq(Events)
                  /\ Len(a) = 1 /\ Len(b) = 1 /\ a[1] = completed /\ b[1] = warning
                BY <1>5, <3>2, <2>1 DEF Normalized, ResultEvents, completed, warning
            <4> HIDE DEF a, b
            <4> QED
                BY <1>1, <4>1, TwoMore
        <3>3. CASE line.t = "mystery"
            <4>1. Normalized(line) = <<>> \/ Normalized(line) = <<warning>>
                BY <3>3, <2>1 DEF Normalized, warning
            <4> QED
                BY <1>1, <1>5, <4>1, OneMore, ConcatEmptySeq
        <3>4. CASE line.t = "delta"
            <4>1. Normalized(line) = <<>>
                BY <3>4, <2>1 DEF Normalized
            <4> QED
                BY <1>1, <4>1, ConcatEmptySeq
        <3> QED
            BY <1>11, <3>1, <3>2, <3>3, <3>4
    <2>5. /\ PairedWith(Append(produced, completed), open, calls)
          /\ PairedWith(Append(produced, warning), open, calls)
        BY <1>0, <1>1, <1>3, <1>5, <1>6, <1>8
    <2>6. PairedWith(Append(Append(produced, completed), warning), open, calls)
        BY <1>0, <1>5, <1>6, <1>8, <2>3, <2>5
    <2> QED
        BY <1>3, <2>2, <2>4, <2>5, <2>6
<1> QED
    BY <1>0, <1>9, <1>10, <1>11 DEF LineTypes, HasText, HasCall

LEMMA PairedInit == Init => Paired
<1> SUFFICES ASSUME Init PROVE Paired
    OBVIOUS
<1>1. produced = <<>> /\ open = {} /\ Len(produced) = 0 /\ 1..0 = {}
    BY DEF Init
<1> QED
    BY <1>1 DEF Paired, PairedWith, WellPaired, OpenIn

LEMMA PairedStep ==
    ASSUME TypeInv, Paired, [Next]_vars
    PROVE  Paired'
<1>1. CASE ReadLine
    BY <1>1, PairedRead
<1>2. CASE ~ReadLine
    <2>1. UNCHANGED <<produced, open, calls>>
        BY <1>2
        DEF Next, Stage, StageInsert, StageDispatch, StageSettle, LeaseExpires, Abort,
            AbortSettle, AbortSettles, Aborted, Verdict, RemoteKilled, AgentCloses, Persister,
            TakeDelta, TakeEvent, Publish, TakeEnded, Insert, Mount, IntervalElapses, Fetch,
            FetchStatus, FetchRows, StreamOpens, StreamEnds, StreamBreaks, StreamCloses,
            Message, readerVars, vars
    <2> QED
        BY <2>1 DEF Paired
<1> QED
    BY <1>1, <1>2

LEMMA PairedAlways == Spec => []Paired
<1>1. IInv /\ Paired /\ [Next]_vars => Paired'
    BY PairedStep DEF IInv
<1> QED
    BY <1>1, PairedInit, Invariant, PTL DEF Spec

(* The dashboard and the normalizer pair results with calls alike: no card *)
(* shows a result of another call than the one it was attributed to, nor   *)
(* one that was left "unknown", whatever the agent wrote and however often *)
(* a call's result came (agent_events.rs, SessionFeed.tsx).                *)
THEOREM PairingsAgree == Spec => []PairingAgrees
<1>1. IInv /\ Paired => PairingAgrees
    <2> SUFFICES ASSUME IInv, Paired, faults = 0
                 PROVE  \A i \in DOMAIN Cards : Cards[i].result \subseteq {Cards[i].call}
        BY DEF PairingAgrees
    <2> DEFINE rs == view.rows
    <2>1. rs \in Seq(Rows) /\ produced \in Seq(Events)
        BY TypeParts DEF IInv, PageType, ReaderType
    <2>2. Len(rs) \in Nat /\ Len(produced) \in Nat
        BY <2>1
    <2>3. \A k \in 1..Len(rs) : k \in 1..Len(produced) /\ rs[k].ev = produced[k]
        BY DEF IInv, Origin, InPlace, Genuine
    <2>4. Len(rs) <= Len(produced)
        BY <2>2, <2>3
    <2>5. WellPaired(produced)
        BY DEF Paired, PairedWith
    <2>6. Agree(CardsOf(rs), produced, Len(rs))
        BY <2>2, <2>3, <2>4, <2>5, CardsAgree
    <2>7. Cards = CardsOf(rs)
        BY DEF Cards
    <2> HIDE DEF rs
    <2>8. DOMAIN Cards = 1..Len(Cards)
        BY <2>6, <2>7 DEF Agree
    <2> QED
        BY <2>6, <2>7, <2>8 DEF Agree
<1> QED
    BY <1>1, Invariant, PairedAlways, PTL

-----------------------------------------------------------------------------
(* Rows and drafts.  A message is drafted from deltas that are ahead of    *)
(* its row wherever both are: in the outbox, in the stream.                *)

IsTextRow(row, n) == row.ev.kind = "text" /\ row.ev.n = n
HasRow(n) == \E i \in 1..Len(rows) : IsTextRow(rows[i], n)

(* Messages are numbered as they are read.                                 *)
Small(row) == row.ev.kind = "text" => row.ev.n <= texts
Written ==
    /\ \A i \in 1..Len(rows) : Small(rows[i])
    /\ persist # Idle => Small(persist.row)
    /\ \A k \in 1..Len(outbox) : IsEvent(k) => Small(outbox[k].row)

(* A delta in the outbox is ahead of its message.                          *)
Behind ==
    \A k \in 1..Len(outbox) : outbox[k].t = "delta" =>
        /\ ~HasRow(outbox[k].n)
        /\ persist # Idle => ~IsTextRow(persist.row, outbox[k].n)
        /\ \A j \in 1..Len(outbox) : j < k /\ IsEvent(j) => ~IsTextRow(outbox[j].row, outbox[k].n)

(* A stream that is not open has nothing, and drafts need one that was.    *)
Shut ==
    /\ sse # "open" => chan = <<>> /\ ~lagged
    /\ poll = "unmounted" \/ sse = "wanted" => draft = {}
    /\ poll = "unmounted" => sse = "off"

(* The page follows the session: the stream is up and has skipped nothing. *)
Follows == sse = "open" /\ ~lagged /\ ~(home = "local" /\ Aborted)

(* What clears the draft of a message that has its row: the message, about *)
(* to be published, or in the stream behind the k-th.                      *)
Sending(n) == persist.pc = "publish" /\ IsTextRow(persist.row, n)
Cleared(k, n) == \E j \in 1..Len(chan) : j > k /\ chan[j].t = "text" /\ chan[j].n = n
Superseded ==
    Follows => \A n \in Nat : HasRow(n) =>
        /\ n \in draft => Sending(n) \/ Cleared(0, n)
        /\ \A k \in 1..Len(chan) :
              chan[k].t = "delta" /\ chan[k].n = n => Sending(n) \/ Cleared(k, n)

(* What the page shows as a row is one.                                    *)
Shown == \A i \in 1..Len(view.rows) : \E j \in 1..Len(rows) : view.rows[i] = rows[j]

LEMMA JoinedElement ==
    ASSUME NEW S, NEW a \in Seq(S), NEW b \in Seq(S), NEW i \in 1..Len(a \o b)
    PROVE  \/ \E j \in 1..Len(a) : (a \o b)[i] = a[j]
           \/ \E j \in 1..Len(b) : (a \o b)[i] = b[j]
<1>1. /\ Len(a \o b) = Len(a) + Len(b) /\ Len(a) \in Nat /\ Len(b) \in Nat
      /\ \A j \in 1..(Len(a) + Len(b)) :
            (a \o b)[j] = IF j <= Len(a) THEN a[j] ELSE b[j - Len(a)]
    BY ConcatProperties, LenProperties
<1>2. CASE i <= Len(a)
    <2>1. i \in 1..Len(a) /\ (a \o b)[i] = a[i]
        BY <1>1, <1>2
    <2> QED
        BY <2>1
<1>3. CASE ~(i <= Len(a))
    <2>1. i - Len(a) \in 1..Len(b) /\ (a \o b)[i] = b[i - Len(a)]
        BY <1>1, <1>3
    <2> QED
        BY <2>1
<1> QED
    BY <1>2, <1>3

LEMMA ReadTexts ==
    ASSUME TypeOK, lines < Len(script), NEW line, line = script[lines + 1],
           NEW i \in 1..Len(Normalized(line)), Normalized(line)[i].kind = "text"
    PROVE  HasText(line) /\ Normalized(line)[i].n = texts + 1
<1>1. CASE HasText(line) \/ HasCall(line)
    <2>0. texts + 1 \in 0..Len(script) /\ calls + 1 \in 0..Len(script)
        BY NextLine
    <2>1. Event("text", texts + 1, 0) \in Events /\ Event("use", calls + 1, 0) \in Events
        BY <2>0 DEF Event, Events
    <2> DEFINE a == IF HasText(line) THEN <<Event("text", texts + 1, 0)>> ELSE <<>>
               b == IF HasCall(line) THEN <<Event("use", calls + 1, 0)>> ELSE <<>>
    <2>2. Normalized(line) = AssistantEvents(line)
        BY <1>1 DEF Normalized, HasText, HasCall
    <2>3. AssistantEvents(line) = a \o b
        BY DEF AssistantEvents
    <2>4. /\ a \in Seq(Events) /\ b \in Seq(Events)
          /\ \A j \in 1..Len(a) : HasText(line) /\ a[j].n = texts + 1
          /\ \A j \in 1..Len(b) : b[j].kind = "use"
        <3> DEFINE t == Event("text", texts + 1, 0)
                   u == Event("use", calls + 1, 0)
        <3>1. t.n = texts + 1 /\ u.kind = "use"
            BY DEF Event
        <3> HIDE DEF t, u
        <3>2. a \in Seq(Events) /\ \A j \in 1..Len(a) : HasText(line) /\ a[j] = t
            <4>1. CASE HasText(line)
                BY <2>1, <4>1 DEF t
            <4>2. CASE ~HasText(line)
                BY <4>2
            <4> QED
                BY <4>1, <4>2
        <3>3. b \in Seq(Events) /\ \A j \in 1..Len(b) : b[j] = u
            <4>1. CASE HasCall(line)
                BY <2>1, <4>1 DEF u
            <4>2. CASE ~HasCall(line)
                BY <4>2
            <4> QED
                BY <4>1, <4>2
        <3> HIDE DEF a, b
        <3> QED
            BY <3>1, <3>2, <3>3
    <2> HIDE DEF a, b
    <2>5. i \in 1..Len(a \o b) /\ (a \o b)[i].kind = "text"
        BY <2>2, <2>3
    <2>6. \/ \E j \in 1..Len(a) : (a \o b)[i] = a[j]
          \/ \E j \in 1..Len(b) : (a \o b)[i] = b[j]
        BY <2>4, <2>5, JoinedElement
    <2>7. HasText(line) /\ (a \o b)[i].n = texts + 1
        BY <2>4, <2>5, <2>6
    <2> QED
        BY <2>2, <2>3, <2>7
<1>2. CASE ~(HasText(line) \/ HasCall(line))
    <2>1. line.t \in LineTypes
        BY NextLine
    <2>2. CASE line.t = "result"
        BY <1>2, <2>2 DEF Normalized, UserEvents, Event
    <2>3. CASE line.t = "success"
        <3>1. Normalized(line) = <<Event("completed", 0, 0)>>
            BY <1>2, <2>3, ConcatEmptySeq DEF Normalized, ResultEvents
        <3> QED
            BY <3>1 DEF Event
    <2>4. CASE line.t = "error"
        <3> DEFINE a == <<Event("completed", 0, 0)>>
                   b == <<Event("warning", 0, 0)>>
                   S == {Event("completed", 0, 0), Event("warning", 0, 0)}
        <3>1. Normalized(line) = a \o b
            BY <1>2, <2>4 DEF Normalized, ResultEvents
        <3>2. /\ a \in Seq(S) /\ b \in Seq(S)
              /\ \A j \in 1..Len(a) : a[j].kind = "completed"
              /\ \A j \in 1..Len(b) : b[j].kind = "warning"
            BY DEF Event
        <3> HIDE DEF a, b, S
        <3>3. i \in 1..Len(a \o b) /\ (a \o b)[i].kind = "text"
            BY <3>1
        <3>4. \/ \E j \in 1..Len(a) : (a \o b)[i] = a[j]
              \/ \E j \in 1..Len(b) : (a \o b)[i] = b[j]
            BY <3>2, <3>3, JoinedElement
        <3> QED
            BY <3>2, <3>3, <3>4
    <2>5. CASE line.t = "mystery"
        BY <1>2, <2>5 DEF Normalized, Event
    <2>6. CASE line.t = "delta"
        BY <1>2, <2>6 DEF Normalized
    <2> QED
        BY <1>2, <2>1, <2>2, <2>3, <2>4, <2>5, <2>6 DEF LineTypes, HasText, HasCall
<1> QED
    BY <1>1, <1>2

(* A row of the new rows is an old one or the one that was written.        *)
LEMMA RowsNext ==
    ASSUME TypeInv, Ordered, [Next]_vars
    PROVE  /\ \A i \in 1..Len(rows) : i \in 1..Len(rows') /\ rows'[i] = rows[i]
           /\ \A i \in 1..Len(rows') :
                 \/ i \in 1..Len(rows) /\ rows'[i] = rows[i]
                 \/ persist.pc = "insert" /\ rows'[i] = persist.row
<1>1. CASE rows' = rows
    BY <1>1
<1>2. CASE Writes
    <2>1. PathType /\ Len(rows) \in Nat
        BY TypeParts, Elements
    <2> QED
        BY <1>2, <2>1, WritesLast DEF Writes
<1>3. rows' = rows \/ Writes
    BY Moves DEF Still, Reads, Closes, Passes, Takes, Drops
<1> QED
    BY <1>1, <1>2, <1>3

LEMMA PersistNext ==
    ASSUME TypeInv, [Next]_vars
    PROVE  /\ \/ persist' = persist
              \/ persist' = Idle
              \/ persist.pc = "insert" /\ persist'.pc = "publish" /\ persist'.row = persist.row
              \/ Takes
           /\ script' = script /\ texts \in Nat /\ texts' \in Nat /\ texts <= texts'
<1>1. \/ persist' = persist
      \/ persist' = Idle
      \/ persist.pc = "insert" /\ persist' = [persist EXCEPT !.pc = "publish"]
      \/ TakeEvent /\ feed
    BY
    DEF Next, Stage, StageInsert, StageDispatch, StageSettle, LeaseExpires, Abort, AbortSettle,
        AbortSettles, Aborted, Verdict, RemoteKilled, ReadLine, AgentCloses, Persister,
        TakeDelta, TakeEvent, Publish, TakeEnded, Insert, Mount, IntervalElapses, Fetch,
        FetchStatus, FetchRows, StreamOpens, StreamEnds, StreamBreaks, StreamCloses, Message,
        vars
<1>2. ASSUME persist.pc = "insert", persist' = [persist EXCEPT !.pc = "publish"]
      PROVE  persist'.pc = "publish" /\ persist'.row = persist.row
    BY <1>2, TypeParts DEF PathType, Idle
<1>3. TakeEvent /\ feed => Takes
    BY DEF TakeEvent, Takes, readerVars
<1>4. CASE ReadLine
    BY <1>1, <1>2, <1>3, <1>4, ReadAdds
<1>5. CASE ~ReadLine
    <2>1. script' = script /\ texts' = texts
        BY <1>5
        DEF Next, Stage, StageInsert, StageDispatch, StageSettle, LeaseExpires, Abort,
            AbortSettle, AbortSettles, Aborted, Verdict, RemoteKilled, AgentCloses, Persister,
            TakeDelta, TakeEvent, Publish, TakeEnded, Insert, Mount, IntervalElapses, Fetch,
            FetchStatus, FetchRows, StreamOpens, StreamEnds, StreamBreaks, StreamCloses,
            Message, readerVars, vars
    <2>2. texts \in Nat
        BY TypeParts DEF ReaderType
    <2> QED
        BY <1>1, <1>2, <1>3, <2>1, <2>2
<1> QED
    BY <1>4, <1>5

(* Reading appends to the outbox; other steps take its head, empty it, or  *)
(* append the end of the session.                                          *)
Kept == \A k \in 1..Len(outbox') : outbox'[k].t # "ended" =>
            k \in 1..Len(outbox) /\ outbox'[k] = outbox[k]
Shifted ==
    /\ 1 \in 1..Len(outbox) /\ Head(outbox) = outbox[1]
    /\ \A k \in 1..Len(outbox') : k + 1 \in 1..Len(outbox) /\ outbox'[k] = outbox[k + 1]

LEMMA OutboxMoves ==
    ASSUME TypeInv, Control, [Next]_vars, ~ReadLine
    PROVE  (Kept /\ ~Takes) \/ Shifted
<1>0. outbox \in Seq(Item) /\ Len(outbox) \in Nat
    BY TypeParts DEF PathType
<1>1. CASE AgentCloses
    <2>1. EndedItem \in Item /\ EndedItem.t = "ended" /\ outbox' = Append(outbox, EndedItem)
        BY <1>1 DEF Item, EndedItem, AgentCloses
    <2> HIDE DEF Item
    <2>2. /\ Len(outbox') = Len(outbox) + 1
          /\ \A i \in 1..Len(outbox) : outbox'[i] = outbox[i]
          /\ outbox'[Len(outbox) + 1] = EndedItem
        BY <1>0, <2>1, AppendOf
    <2>3. Kept
        BY <1>0, <2>1, <2>2 DEF Kept
    <2>4. persist' = persist
        BY <1>1 DEF AgentCloses
    <2> QED
        BY <2>3, <2>4 DEF Takes, Idle
<1>2. CASE ~AgentCloses
    <2>1. outbox' = outbox \/ outbox' = <<>> \/ (outbox # <<>> /\ outbox' = Tail(outbox))
        BY <1>2, Otherwise
    <2>2. ASSUME outbox # <<>>, outbox' = Tail(outbox) PROVE Shifted
        BY <1>0, <2>2, TailOf DEF Shifted
    <2>3. ASSUME outbox' = outbox \/ outbox' = <<>> PROVE Kept
        BY <2>3 DEF Kept
    <2>4. Takes => outbox # <<>> /\ outbox' = Tail(outbox)
        BY DEF Takes
    <2> QED
        BY <2>1, <2>2, <2>3, <2>4
<1> QED
    BY <1>1, <1>2

(* What reading a line appends: events whose messages are new, or a delta  *)
(* of the message to come.                                                 *)
LEMMA ReadNext ==
    ASSUME TypeInv, ReadLine
    PROVE  /\ Len(outbox) \in Nat /\ UNCHANGED <<rows, persist>>
           /\ \A k \in 1..Len(outbox) : outbox'[k] = outbox[k]
           /\ \A k \in 1..Len(outbox') : k > Len(outbox) =>
                 /\ outbox'[k].t = "event" /\ outbox'[k].row.ev.kind = "text" =>
                       outbox'[k].row.ev.n = texts + 1 /\ texts' = texts + 1
                 /\ outbox'[k].t = "delta" =>
                       /\ outbox'[k].n = texts + 1
                       /\ \A j \in 1..Len(outbox') : outbox'[j].t = "event" => j <= Len(outbox)
<1> DEFINE line == script[lines + 1]
           evs == Normalized(line)
           l == Len(outbox)
<1>0. TypeOK /\ lines < Len(script)
    BY DEF TypeInv, ReadLine
<1>1. Read(evs) /\ UNCHANGED <<rows, persist>>
    BY ReadAdds DEF ReadLine
<1>2. l \in Nat
    BY TypeParts DEF PathType
<1>3. line.t = "delta" => Len(evs) = 0
    BY <1>0, LineEvents
<1>4. \A i \in 1..Len(evs) : evs[i].kind = "text" =>
          evs[i].n = texts + 1 /\ texts' = texts + 1
    BY <1>0, ReadTexts DEF ReadLine
<1>5. \A i \in 1..Len(evs) : Numbered(i, evs[i]).t = "event" /\ Numbered(i, evs[i]).row.ev = evs[i]
    BY DEF Numbered
<1>6. /\ \A i \in 1..Len(evs) : outbox'[l + i] = Numbered(i, evs[i])
      /\ \A k \in 1..l : outbox'[k] = outbox[k]
      /\ \A k \in 1..Len(outbox') : k > l =>
            outbox'[k] = [t |-> "delta", n |-> texts + 1] \/ \E i \in 1..Len(evs) : k = l + i
      /\ line.t # "delta" => Len(outbox') = l + Len(evs)
    BY <1>1 DEF Read
<1> HIDE DEF line, evs
<1>7. ASSUME NEW k \in 1..Len(outbox'), k > l, outbox'[k].t = "event",
             outbox'[k].row.ev.kind = "text"
      PROVE  outbox'[k].row.ev.n = texts + 1 /\ texts' = texts + 1
    <2>1. PICK i \in 1..Len(evs) : k = l + i
        BY <1>6, <1>7
    <2> QED
        BY <1>4, <1>5, <1>6, <1>7, <2>1
<1>8. ASSUME NEW k \in 1..Len(outbox'), k > l, outbox'[k].t = "delta"
      PROVE  /\ outbox'[k].n = texts + 1
             /\ \A j \in 1..Len(outbox') : outbox'[j].t = "event" => j <= l
    <2>1. ~ \E i \in 1..Len(evs) : k = l + i
        BY <1>5, <1>6, <1>8
    <2>2. outbox'[k] = [t |-> "delta", n |-> texts + 1]
        BY <1>6, <1>8, <2>1
    <2>3. line.t = "delta"
        <3> SUFFICES ASSUME line.t # "delta" PROVE FALSE
            OBVIOUS
        <3>1. k - l \in 1..Len(evs) /\ k = l + (k - l)
            BY <1>2, <1>6, <1>8
        <3> QED
            BY <2>1, <3>1
    <2>4. ASSUME NEW j \in 1..Len(outbox'), outbox'[j].t = "event", j > l PROVE FALSE
        <3>1. 1..Len(evs) = {}
            BY <1>3, <2>3
        <3>2. outbox'[j] = [t |-> "delta", n |-> texts + 1]
            BY <1>6, <2>4, <3>1
        <3> QED
            BY <2>4, <3>2
    <2> QED
        BY <1>2, <2>2, <2>4
<1> QED
    BY <1>1, <1>2, <1>6, <1>7, <1>8

LEMMA WrittenStep ==
    ASSUME TypeInv, Control, Ordered, Written, [Next]_vars
    PROVE  Written'
<1> DEFINE SmallNext(row) == row.ev.kind = "text" => row.ev.n <= texts'
<1>0. texts \in Nat /\ texts' \in Nat /\ texts <= texts'
    BY PersistNext
<1>1. PathType /\ StageType
    BY TypeParts
<1>2. \A row \in Rows : Small(row) => SmallNext(row)
    <2>1. \A row \in Rows : row.ev.n \in Nat
        BY TypeParts, ScriptsAssumption DEF Rows, Events, ReaderType
    <2> HIDE DEF Rows
    <2> QED
        BY <1>0, <2>1 DEF Small
<1>3. persist # Idle => persist.row \in Rows
    BY <1>1 DEF PathType
<1>4. \A i \in 1..Len(rows) : rows[i] \in Rows
    BY <1>1, Elements
<1>5. \A k \in 1..Len(outbox) : IsEvent(k) => outbox[k].row \in Rows
    BY <1>1, Elements
<1> HIDE DEF SmallNext
<1>6. \A i \in 1..Len(rows') : SmallNext(rows'[i])
    <2>1. persist.pc = "insert" => persist # Idle
        BY DEF Idle
    <2> QED
        BY <1>2, <1>3, <1>4, <2>1, RowsNext DEF Written
<1>7. persist' # Idle => SmallNext(persist'.row)
    <2>1. persist.pc = "insert" => persist # Idle
        BY DEF Idle
    <2>2. ASSUME Takes PROVE SmallNext(persist'.row)
        <3>1. outbox \in Seq(Item) /\ outbox # <<>>
            BY <1>1, <2>2 DEF PathType, Takes
        <3>2. 1 \in 1..Len(outbox) /\ Head(outbox) = outbox[1]
            BY <3>1, TailOf
        <3>3. IsEvent(1) /\ persist'.row = outbox[1].row
            BY <2>2, <3>2 DEF Takes, IsEvent
        <3> QED
            BY <1>2, <1>5, <3>2, <3>3 DEF Written
    <2> QED
        BY <1>2, <1>3, <2>1, <2>2, PersistNext DEF Written
<1>8. \A k \in 1..Len(outbox') : outbox'[k].t = "event" => SmallNext(outbox'[k].row)
    <2>1. CASE ReadLine
        <3>1. ASSUME NEW k \in 1..Len(outbox'), outbox'[k].t = "event"
              PROVE  SmallNext(outbox'[k].row)
            <4>1. CASE k \in 1..Len(outbox)
                BY <1>2, <1>5, <2>1, <3>1, <4>1, ReadNext DEF Written, IsEvent
            <4>2. CASE k > Len(outbox)
                <5>1. outbox'[k].row.ev.kind = "text" => outbox'[k].row.ev.n = texts'
                    BY <2>1, <3>1, <4>2, ReadNext
                <5> QED
                    BY <1>0, <5>1 DEF SmallNext
            <4>3. Len(outbox) \in Nat
                BY <2>1, ReadNext
            <4> QED
                BY <4>1, <4>2, <4>3
        <3> QED
            BY <3>1
    <2>2. CASE ~ReadLine
        BY <1>2, <1>5, <2>2, OutboxMoves DEF Written, IsEvent, Kept, Shifted
    <2> QED
        BY <2>1, <2>2
<1>9. Idle' = Idle
    BY DEF Idle
<1> QED
    BY <1>6, <1>7, <1>8, <1>9 DEF Written, Small, SmallNext, IsEvent

LEMMA BehindStep ==
    ASSUME TypeInv, Control, Ordered, Written, Behind, [Next]_vars
    PROVE  Behind'
<1> SUFFICES ASSUME NEW k \in 1..Len(outbox'), outbox'[k].t = "delta"
             PROVE  /\ \A i \in 1..Len(rows') : ~IsTextRow(rows'[i], outbox'[k].n)
                    /\ persist' # Idle => ~IsTextRow(persist'.row, outbox'[k].n)
                    /\ \A j \in 1..Len(outbox') : j < k /\ outbox'[j].t = "event" =>
                          ~IsTextRow(outbox'[j].row, outbox'[k].n)
    BY DEF Behind, HasRow, IsEvent, Idle, IsTextRow
<1> DEFINE n == outbox'[k].n
<1>0. persist.pc = "insert" => persist # Idle
    BY DEF Idle
<1>1. CASE ReadLine /\ k > Len(outbox)
    <2>1. n = texts + 1 /\ texts \in Nat
        BY <1>1, ReadNext, PersistNext
    <2>2. \A row : Small(row) => ~IsTextRow(row, n)
        BY <2>1 DEF Small, IsTextRow
    <2>3. UNCHANGED <<rows, persist>>
        BY <1>1, ReadNext
    <2>4. \A j \in 1..Len(outbox') : outbox'[j].t = "event" =>
              j \in 1..Len(outbox) /\ outbox'[j] = outbox[j]
        BY <1>1, ReadNext
    <2> HIDE DEF n
    <2>5. /\ \A i \in 1..Len(rows') : ~IsTextRow(rows'[i], n)
          /\ persist' # Idle => ~IsTextRow(persist'.row, n)
        BY <2>2, <2>3 DEF Written
    <2>6. \A j \in 1..Len(outbox') : outbox'[j].t = "event" => ~IsTextRow(outbox'[j].row, n)
        BY <2>2, <2>4 DEF Written, IsEvent
    <2> QED
        BY <2>5, <2>6 DEF n
<1>2. CASE ReadLine /\ ~(k > Len(outbox))
    <2>1. k \in 1..Len(outbox) /\ outbox'[k] = outbox[k]
        BY <1>2, ReadNext
    <2>2. \A j \in 1..Len(outbox') : j < k => j \in 1..Len(outbox) /\ outbox'[j] = outbox[j]
        BY <1>2, <2>1, ReadNext
    <2>3. UNCHANGED <<rows, persist>>
        BY <1>2, ReadNext
    <2> QED
        BY <2>1, <2>2, <2>3 DEF Behind, HasRow, IsEvent
<1>3. CASE ~ReadLine
    <2>1. PICK m \in 1..Len(outbox) :
              /\ outbox[m] = outbox'[k] /\ (Takes => 1 < m /\ Head(outbox) = outbox[1])
              /\ \A j \in 1..Len(outbox') : j < k /\ outbox'[j].t = "event" =>
                    \E p \in 1..Len(outbox) : p < m /\ outbox[p] = outbox'[j]
        <3>1. CASE Kept /\ ~Takes
            BY <3>1 DEF Kept
        <3>2. CASE Shifted
            <4>1. k + 1 \in 1..Len(outbox) /\ outbox'[k] = outbox[k + 1] /\ 1 < k + 1
                BY <3>2 DEF Shifted
            <4>2. \A j \in 1..Len(outbox') : j < k =>
                      j + 1 < k + 1 /\ j + 1 \in 1..Len(outbox) /\ outbox[j + 1] = outbox'[j]
                BY <3>2 DEF Shifted
            <4> QED
                BY <3>2, <4>1, <4>2 DEF Shifted
        <3> QED
            BY <1>3, <3>1, <3>2, OutboxMoves
    <2>2. /\ \A i \in 1..Len(rows) : ~IsTextRow(rows[i], n)
          /\ persist # Idle => ~IsTextRow(persist.row, n)
          /\ \A j \in 1..Len(outbox) : j < m /\ outbox[j].t = "event" => ~IsTextRow(outbox[j].row, n)
        BY <2>1 DEF Behind, HasRow, IsEvent
    <2>3. \A i \in 1..Len(rows') : ~IsTextRow(rows'[i], n)
        BY <1>0, <2>2, RowsNext
    <2>4. persist' # Idle => ~IsTextRow(persist'.row, n)
        <3>1. ASSUME Takes PROVE ~IsTextRow(persist'.row, n)
            <4>1. 1 \in 1..Len(outbox) /\ outbox[1].t = "event" /\ persist'.row = outbox[1].row
                BY <2>1, <3>1 DEF Takes
            <4> QED
                BY <2>1, <2>2, <3>1, <4>1
        <3> QED
            BY <1>0, <2>2, <3>1, PersistNext
    <2>5. \A j \in 1..Len(outbox') : j < k /\ outbox'[j].t = "event" => ~IsTextRow(outbox'[j].row, n)
        BY <2>1, <2>2
    <2> QED
        BY <2>3, <2>4, <2>5
<1> QED
    BY <1>1, <1>2, <1>3

LEMMA ShownStep ==
    ASSUME TypeInv, Ordered, Shown, [Next]_vars
    PROVE  Shown'
<1>1. Increasing(rows)
    BY TypeParts, Elements DEF Ordered, Increasing
<1>2. CASE view' = view
    BY <1>2, RowsNext DEF Shown
<1>3. CASE view'.rows = rows /\ rows' = rows
    BY <1>3 DEF Shown
<1> QED
    BY <1>1, <1>2, <1>3, ViewMoves

LEMMA ShutStep ==
    ASSUME TypeInv, Shut, [Next]_vars
    PROVE  Shut'
<1>1. CASE Mount \/ StreamOpens \/ StreamEnds \/ StreamBreaks \/ Message \/ FetchRows
    BY <1>1
    DEF Mount, StreamOpens, StreamEnds, StreamBreaks, StreamCloses, Message, FetchRows,
        StreamOff, Invalidate, Shut
<1>2. CASE TakeDelta \/ Publish
    BY <1>2 DEF TakeDelta, Publish, Broadcast, pollVars, streamVars, Shut
<1>3. CASE IntervalElapses \/ FetchStatus
    BY <1>3 DEF IntervalElapses, FetchStatus, streamVars, Shut
<1>4. CASE ~(Mount \/ StreamOpens \/ StreamEnds \/ StreamBreaks \/ Message \/ FetchRows
             \/ TakeDelta \/ Publish \/ IntervalElapses \/ FetchStatus)
    <2>1. UNCHANGED <<sse, chan, lagged, draft, poll>>
        BY <1>4
        DEF Next, Stage, StageInsert, StageDispatch, StageSettle, LeaseExpires, Abort,
            AbortSettle, AbortSettles, Aborted, Verdict, RemoteKilled, ReadLine, AgentCloses,
            Persister, TakeEvent, TakeEnded, Insert, Fetch, pollVars, streamVars, vars
    <2> QED
        BY <2>1 DEF Shut
<1> QED
    BY <1>1, <1>2, <1>3, <1>4

(* How a page that follows the session comes to a state in which it does.  *)
Quiet ==
    /\ UNCHANGED <<chan, draft>>
    /\ \A n \in Nat : (HasRow(n)' => HasRow(n) \/ Sending(n)') /\ (Sending(n) => Sending(n)')
Drafts ==
    /\ outbox # <<>> /\ Head(outbox).t = "delta" /\ draft' = draft
    /\ chan' = Append(chan, [t |-> "delta", n |-> Head(outbox).n])
    /\ UNCHANGED <<rows, persist>>
Sends ==
    /\ persist.pc = "publish" /\ draft' = draft
    /\ chan' = Append(chan, [t |-> persist.row.ev.kind, n |-> persist.row.ev.n])
    /\ rows' = rows
Delivers ==
    /\ chan # <<>> /\ chan' = Tail(chan) /\ draft' = DraftAfter(Head(chan))
    /\ UNCHANGED <<rows, persist>>

LEMMA FollowsNext ==
    ASSUME TypeInv, Control, Ordered, Shut, [Next]_vars, Follows'
    PROVE  \/ chan' = <<>> /\ draft' = {}
           \/ Follows /\ (Quiet \/ Drafts \/ Sends \/ Delivers)
<1>0. sse' = "open" /\ ~lagged' /\ ~(home' = "local" /\ Aborted') /\ home' = home
    BY
    DEF Follows, Next, Stage, StageInsert, StageDispatch, StageSettle, LeaseExpires, Abort,
        AbortSettle, AbortSettles, Aborted, Verdict, RemoteKilled, ReadLine, AgentCloses,
        Persister, TakeDelta, TakeEvent, Publish, TakeEnded, Insert, Mount, IntervalElapses,
        Fetch, FetchStatus, FetchRows, StreamOpens, StreamEnds, StreamBreaks, StreamCloses,
        Message, vars
<1>1. CASE sse # "open"
    <2>1. chan = <<>> /\ (sse = "wanted" => draft = {})
        BY <1>1 DEF Shut
    <2>2. StreamOpens /\ sse = "wanted" /\ UNCHANGED <<chan, draft>>
        BY <1>0, <1>1
        DEF Next, Stage, StageInsert, StageDispatch, StageSettle, LeaseExpires, Abort,
            AbortSettle, AbortSettles, Aborted, Verdict, RemoteKilled, ReadLine, AgentCloses,
            Persister, TakeDelta, TakeEvent, Publish, TakeEnded, Insert, Mount, IntervalElapses,
            Fetch, FetchStatus, FetchRows, StreamOpens, StreamEnds, StreamBreaks, StreamCloses,
            StreamOff, Message, Broadcast, streamVars, vars
    <2> QED
        BY <2>1, <2>2
<1>2. CASE sse = "open"
    <2>1. lagged' = lagged \/ lagged' = (lagged \/ (sse = "open" /\ Len(chan) = Capacity))
        BY <1>0
        DEF Next, Stage, StageInsert, StageDispatch, StageSettle, LeaseExpires, Abort,
            AbortSettle, AbortSettles, Aborted, Verdict, RemoteKilled, ReadLine, AgentCloses,
            Persister, TakeDelta, TakeEvent, Publish, TakeEnded, Insert, Mount, IntervalElapses,
            Fetch, FetchStatus, FetchRows, StreamOpens, StreamEnds, StreamBreaks, StreamCloses,
            StreamOff, Message, Broadcast, streamVars, vars
    <2>2. lagged \in BOOLEAN /\ Len(chan) <= Capacity /\ Len(chan) \in Nat /\ Capacity \in Nat
        BY CapacityAssumption, TypeParts DEF StreamType
    <2>3. ~lagged
        BY <1>0, <2>1, <2>2
    <2>4. ~(home = "local" /\ Aborted)
        BY <1>0
        DEF Next, Stage, StageInsert, StageDispatch, StageSettle, LeaseExpires, Abort,
            AbortSettle, AbortSettles, Aborted, Verdict, RemoteKilled, ReadLine, AgentCloses,
            Persister, TakeDelta, TakeEvent, Publish, TakeEnded, Return, Insert, Mount,
            IntervalElapses, Fetch, FetchStatus, FetchRows, StreamOpens, StreamEnds,
            StreamBreaks, StreamCloses, Message, stageVars, vars
    <2>5. Follows
        BY <1>2, <2>3, <2>4 DEF Follows
    <2>6. CASE TakeDelta
        <3>1. CASE feed
            <4>1. Len(chan) # Capacity
                BY <1>0, <1>2, <2>6, <3>1 DEF TakeDelta, Broadcast
            <4>2. Len(chan) < Capacity
                BY <2>2, <4>1
            <4>3. Drafts
                BY <1>2, <2>6, <3>1, <4>2 DEF TakeDelta, Broadcast, Queued, Drafts
            <4> QED
                BY <2>5, <4>3
        <3>2. CASE ~feed
            <4>1. UNCHANGED <<chan, draft, rows, persist>>
                BY <2>6, <3>2 DEF TakeDelta, streamVars
            <4> QED
                BY <2>5, <4>1 DEF Quiet, HasRow, Sending
        <3> QED
            BY <3>1, <3>2
    <2>7. CASE Publish
        <3>1. Len(chan) # Capacity
            BY <1>0, <1>2, <2>7 DEF Publish, Broadcast
        <3>2. Len(chan) < Capacity
            BY <2>2, <3>1
        <3>3. Sends
            BY <1>2, <2>7, <3>2 DEF Publish, Broadcast, Queued, Sends
        <3> QED
            BY <2>5, <3>3
    <2>8. CASE Message
        BY <2>5, <2>8 DEF Message, Delivers
    <2>9. CASE \E ok \in BOOLEAN : Insert(ok)
        <3>1. /\ persist.pc = "insert" /\ persist' = [persist EXCEPT !.pc = "publish"]
              /\ UNCHANGED <<chan, draft>>
            BY <2>9 DEF Insert, streamVars
        <3>2. persist'.pc = "publish" /\ persist'.row = persist.row
            BY <3>1, TypeParts DEF PathType, Idle
        <3>3. ASSUME NEW n \in Nat, HasRow(n)' PROVE HasRow(n) \/ Sending(n)'
            BY <3>2, <3>3, RowsNext DEF HasRow, Sending
        <3>4. \A n \in Nat : ~Sending(n)
            BY <3>1 DEF Sending
        <3> QED
            BY <2>5, <3>1, <3>3, <3>4 DEF Quiet
    <2>10. CASE TakeEvent
        <3>1. UNCHANGED <<chan, draft, rows>> /\ persist.pc # "publish"
            BY <2>10 DEF TakeEvent, streamVars, Idle
        <3> QED
            BY <2>5, <3>1 DEF Quiet, HasRow, Sending
    <2>11. CASE Abort
        <3>1. UNCHANGED <<chan, draft, rows, persist>>
            BY <1>0, <2>11 DEF Abort, Aborted, streamVars
        <3> QED
            BY <2>5, <3>1 DEF Quiet, HasRow, Sending
    <2>12. CASE ~(TakeDelta \/ Publish \/ Message \/ TakeEvent \/ Abort
                  \/ \E ok \in BOOLEAN : Insert(ok))
        <3>1. UNCHANGED <<chan, draft, rows, persist>>
            BY <1>0, <2>12
            DEF Next, Stage, StageInsert, StageDispatch, StageSettle, LeaseExpires, AbortSettle,
                AbortSettles, Aborted, Verdict, RemoteKilled, ReadLine, AgentCloses, Persister,
                TakeEnded, Mount, IntervalElapses, Fetch, FetchStatus, FetchRows, StreamOpens,
                StreamEnds, StreamBreaks, StreamCloses, StreamOff, streamVars, vars
        <3> QED
            BY <2>5, <3>1 DEF Quiet, HasRow, Sending
    <2> QED
        BY <2>6, <2>7, <2>8, <2>9, <2>10, <2>11, <2>12
<1> QED
    BY <1>1, <1>2

LEMMA SupersededStep ==
    ASSUME TypeInv, Control, Ordered, Shut, Behind, Superseded, [Next]_vars
    PROVE  Superseded'
<1> SUFFICES ASSUME Follows', NEW n \in Nat, HasRow(n)'
             PROVE  /\ n \in draft' => Sending(n)' \/ Cleared(0, n)'
                    /\ \A k \in 1..Len(chan') : chan'[k].t = "delta" /\ chan'[k].n = n =>
                          Sending(n)' \/ Cleared(k, n)'
    BY DEF Superseded
<1>0. chan \in Seq(Msg) /\ Len(chan) \in Nat
    BY TypeParts DEF StreamType
<1>1. CASE chan' = <<>> /\ draft' = {}
    BY <1>1
<1>2. CASE Follows /\ Quiet
    <2>1. UNCHANGED <<chan, draft>>
        BY <1>2 DEF Quiet
    <2>2. CASE Sending(n)'
        BY <2>2
    <2>3. CASE ~Sending(n)'
        <3>1. HasRow(n) /\ ~Sending(n)
            BY <1>2, <2>3 DEF Quiet
        <3> QED
            BY <1>2, <2>1, <3>1 DEF Superseded, Cleared
    <2> QED
        BY <2>2, <2>3
<1>3. CASE Follows /\ Drafts
    <2> DEFINE m == [t |-> "delta", n |-> Head(outbox).n]
               l == Len(chan)
    <2>1. /\ chan' = Append(chan, m) /\ UNCHANGED <<draft, rows, persist>>
          /\ 1 \in 1..Len(outbox) /\ Head(outbox) = outbox[1] /\ outbox[1].t = "delta"
        BY <1>3, TypeParts, TailOf DEF Drafts, PathType
    <2>2. HasRow(n) /\ (Sending(n) => Sending(n)')
        BY <2>1 DEF HasRow, Sending
    <2>3. m.n # n
        BY <2>1, <2>2 DEF Behind
    <2>4. /\ Len(chan') = l + 1 /\ chan'[l + 1] = m
          /\ \A i \in 1..l : chan'[i] = chan[i] /\ i \in 1..(l + 1)
        BY <1>0, <2>1, AppendOf
    <2>5. \A k \in Nat : Cleared(k, n) => Cleared(k, n)'
        BY <2>4 DEF Cleared
    <2>6. n \in draft => Sending(n)' \/ Cleared(0, n)'
        BY <1>3, <2>1, <2>2, <2>5 DEF Superseded
    <2>7. ASSUME NEW k \in 1..Len(chan'), chan'[k].t = "delta", chan'[k].n = n
          PROVE  Sending(n)' \/ Cleared(k, n)'
        <3>1. k \in 1..l /\ chan'[k] = chan[k]
            BY <1>0, <2>3, <2>4, <2>7
        <3> QED
            BY <1>3, <2>2, <2>5, <2>7, <3>1 DEF Superseded
    <2> QED
        BY <2>1, <2>6, <2>7
<1>4. CASE Follows /\ Sends
    <2> DEFINE m == [t |-> persist.row.ev.kind, n |-> persist.row.ev.n]
               l == Len(chan)
    <2>1. chan' = Append(chan, m) /\ draft' = draft /\ rows' = rows
        BY <1>4 DEF Sends
    <2>2. HasRow(n)
        BY <2>1 DEF HasRow
    <2>3. /\ Len(chan') = l + 1 /\ chan'[l + 1] = m
          /\ \A i \in 1..l : chan'[i] = chan[i] /\ i \in 1..(l + 1)
        <3>1. m \in Msg
            <4>1. persist.row \in Rows
                BY <1>4, TypeParts DEF Sends, PathType, Idle
            <4> QED
                BY <4>1 DEF Msg, Rows, Events, Kinds
        <3> HIDE DEF m
        <3> QED
            BY <1>0, <2>1, <3>1, AppendOf
    <2>4. \A k \in 0..l : Cleared(k, n) \/ Sending(n) => Cleared(k, n)'
        <3>1. l + 1 \in 1..Len(chan') /\ \A k \in 0..l : l + 1 > k
            BY <1>0, <2>3
        <3>2. Sending(n) => chan'[l + 1].t = "text" /\ chan'[l + 1].n = n
            BY <2>3 DEF Sending, IsTextRow
        <3>3. \A k \in 0..l : Cleared(k, n) => Cleared(k, n)'
            BY <2>3 DEF Cleared
        <3> QED
            BY <3>1, <3>2, <3>3 DEF Cleared
    <2>5. n \in draft => Cleared(0, n)'
        <3>1. 0 \in 0..l
            BY <1>0
        <3> QED
            BY <1>4, <2>2, <2>4, <3>1 DEF Superseded
    <2>6. ASSUME NEW k \in 1..Len(chan'), chan'[k].t = "delta", chan'[k].n = n
          PROVE  Cleared(k, n)'
        <3>1. CASE k \in 1..l
            <4>1. chan'[k] = chan[k] /\ k \in 0..l
                BY <2>3, <3>1
            <4> QED
                BY <1>4, <2>2, <2>4, <2>6, <3>1, <4>1 DEF Superseded
        <3>2. CASE k = l + 1
            <4>1. persist.row.ev.kind # "delta"
                BY <1>4, TypeParts DEF Sends, PathType, Idle, Rows, Events
            <4> QED
                BY <2>3, <2>6, <3>2, <4>1
        <3> QED
            BY <1>0, <2>3, <3>1, <3>2
    <2> QED
        BY <2>1, <2>5, <2>6
<1>5. CASE Follows /\ Delivers
    <2> DEFINE m == Head(chan)
    <2>1. /\ chan # <<>> /\ chan' = Tail(chan) /\ draft' = DraftAfter(m)
          /\ UNCHANGED <<rows, persist>>
        BY <1>5 DEF Delivers
    <2>2. HasRow(n) /\ (Sending(n) => Sending(n)')
        BY <2>1 DEF HasRow, Sending
    <2>3. /\ m = chan[1] /\ 1 \in 1..Len(chan)
          /\ \A k \in 1..Len(chan') : chan'[k] = chan[k + 1] /\ k + 1 \in 1..Len(chan)
          /\ \A j \in 1..Len(chan) : j # 1 => j - 1 \in 1..Len(chan') /\ chan'[j - 1] = chan[j]
        BY <1>0, <2>1, TailOf
    <2>4. ASSUME NEW k \in Nat, Cleared(k + 1, n) PROVE Cleared(k, n)'
        <3>1. PICK j \in 1..Len(chan) : j > k + 1 /\ chan[j].t = "text" /\ chan[j].n = n
            BY <2>4 DEF Cleared
        <3>2. j - 1 \in 1..Len(chan') /\ j - 1 > k /\ chan'[j - 1] = chan[j]
            BY <2>3, <3>1
        <3> QED
            BY <3>1, <3>2 DEF Cleared
    <2>5. ASSUME n \in draft' PROVE Sending(n)' \/ Cleared(0, n)'
        <3>1. m.t # "text"
            BY <2>1, <2>5 DEF DraftAfter
        <3>2. CASE n \in draft
            <4>1. Sending(n) \/ Cleared(0, n)
                BY <1>5, <2>2, <3>2 DEF Superseded
            <4>2. ASSUME Cleared(0, n) PROVE Cleared(1, n)
                <5>1. PICK j \in 1..Len(chan) : chan[j].t = "text" /\ chan[j].n = n
                    BY <4>2 DEF Cleared
                <5>2. j > 1
                    BY <2>3, <3>1, <5>1
                <5> QED
                    BY <5>1, <5>2 DEF Cleared
            <4> QED
                BY <2>2, <2>4, <4>1, <4>2
        <3>3. CASE n \notin draft
            <4>1. m.t = "delta" /\ m.n = n
                BY <2>1, <2>5, <3>3 DEF DraftAfter
            <4>2. Sending(n) \/ Cleared(1, n)
                BY <1>5, <2>2, <2>3, <4>1 DEF Superseded
            <4> QED
                BY <2>2, <2>4, <4>2
        <3> QED
            BY <3>2, <3>3
    <2>6. ASSUME NEW k \in 1..Len(chan'), chan'[k].t = "delta", chan'[k].n = n
          PROVE  Sending(n)' \/ Cleared(k, n)'
        <3>1. k + 1 \in 1..Len(chan) /\ chan'[k] = chan[k + 1]
            BY <2>3
        <3>2. Sending(n) \/ Cleared(k + 1, n)
            BY <1>5, <2>2, <2>6, <3>1 DEF Superseded
        <3> QED
            BY <2>2, <2>4, <3>2
    <2> QED
        BY <2>5, <2>6
<1> QED
    BY <1>1, <1>2, <1>3, <1>4, <1>5, FollowsNext

Drafting == Written /\ Behind /\ Shut /\ Superseded /\ Shown

LEMMA DraftingAlways == Spec => []Drafting
<1>1. Init => Drafting
    <2> SUFFICES ASSUME Init PROVE Drafting
        OBVIOUS
    <2>1. /\ rows = <<>> /\ outbox = <<>> /\ persist = Idle /\ view = NoView /\ sse = "off"
          /\ chan = <<>> /\ lagged = FALSE /\ draft = {}
        BY DEF Init
    <2>2. 1..Len(rows) = {} /\ 1..Len(outbox) = {} /\ 1..Len(view.rows) = {}
        BY <2>1 DEF NoView
    <2> QED
        BY <2>1, <2>2 DEF Drafting, Written, Behind, Shut, Superseded, Shown, Follows
<1>2. IInv /\ Drafting /\ [Next]_vars => Drafting'
    <2> SUFFICES ASSUME IInv, Drafting, [Next]_vars PROVE Drafting'
        OBVIOUS
    <2>1. /\ TypeInv /\ Control /\ Ordered
          /\ Written /\ Behind /\ Shut /\ Superseded /\ Shown
        BY DEF IInv, Drafting
    <2>2. Written' /\ Behind'
        BY <2>1, WrittenStep, BehindStep
    <2>3. Shut' /\ Superseded'
        BY <2>1, ShutStep, SupersededStep
    <2>4. Shown'
        BY <2>1, ShownStep
    <2> QED
        BY <2>2, <2>3, <2>4 DEF Drafting
<1> QED
    BY <1>1, <1>2, Invariant, PTL DEF Spec

(* No message of the session under way is on the page twice, as a row and  *)
(* as a draft, once a stream that has skipped nothing has delivered what   *)
(* it has (SessionFeed.tsx, sessions.rs).                                  *)
THEOREM DraftsSuperseded == Spec => []DraftSuperseded
<1>1. IInv /\ Drafting => DraftSuperseded
    <2> SUFFICES ASSUME IInv, Drafting, task = "await", sse = "open", ~lagged, chan = <<>>,
                        persist = Idle, NEW i \in DOMAIN view.rows,
                        view.rows[i].ev.kind = "text"
                 PROVE  view.rows[i].ev.n \notin draft
        BY DEF DraftSuperseded
    <2> DEFINE n == view.rows[i].ev.n
    <2>1. view.rows \in Seq(Rows) /\ Len(script) \in Nat
        BY TypeParts, ScriptsAssumption DEF IInv, PageType, ReaderType
    <2>2. i \in 1..Len(view.rows)
        BY <2>1
    <2>3. n \in Nat
        <3>1. \A r \in Rows : r.ev.n \in Nat
            BY <2>1 DEF Rows, Events
        <3> HIDE DEF Rows
        <3> QED
            BY <2>1, <2>2, <3>1
    <2>4. HasRow(n)
        BY <2>2 DEF Drafting, Shown, HasRow, IsTextRow
    <2>5. Follows /\ ~Sending(n) /\ ~Cleared(0, n)
        BY DEF Follows, Aborted, Sending, Cleared, Idle
    <2> QED
        BY <2>3, <2>4, <2>5 DEF Drafting, Superseded
<1> QED
    BY <1>1, Invariant, DraftingAlways, PTL

=============================================================================
