------------------------------ MODULE RpcProofs ------------------------------
(***************************************************************************)
(* Failover: no switch of provider loses an event, for every number of     *)
(* providers, every window they serve and every threshold.                 *)
(*                                                                         *)
(* The argument follows a position through the process: the database holds *)
(* everything up to the saved position, the poller starts a request at it, *)
(* at the committed ledger before it, or at the first ledger of a provider *)
(* whose earlier events are given up; and a page takes that up to its own  *)
(* end, because the dedup window drops only what is stored.                *)
(*                                                                         *)
(* RpcClient: the answers to a chunked request are exact, for every number *)
(* of contracts, chunks, workers and attempts.  While a call runs, a chunk *)
(* is answered, in a worker's hands or still to be taken, so that all are  *)
(* answered when the last worker goes; and what is answered adjoins what   *)
(* was answered before.                                                    *)
(***************************************************************************)
EXTENDS Failover, RpcClient, PageProofs

-----------------------------------------------------------------------------
(* Failover: the inductive invariant. *)

\* Every event up to pos is stored, given up, or in extra.
CoveredTo(pos, extra) == 1..pos \subseteq stored \cup gone \cup extra

\* A position and the ledger it is in.
PositionFits(pos, at) == at \in Ledgers /\ pos \in 0..EventsTo(at)

\* The saved row.
SavedInv ==
    saved.at # 0 =>
        /\ PositionFits(saved.pos, saved.at)
        /\ saved.ledger \in Ledgers /\ EventsTo(saved.ledger - 1) <= saved.pos
        /\ CoveredTo(saved.pos, {})

\* The poller's position is the saved one, or the first ledger of a provider.
CursorInv ==
    /\ ByCursor => cursor.at = saved.at /\ cursor.pos = saved.pos
    /\ startLedger # 0 => CoveredTo(EventsTo(startLedger - 1), {})
    /\ pc = "fetch" => ByCursor \/ startLedger # 0
    /\ pc \in {"retryCursor", "retryLedger", "recover"} => ByCursor
    /\ pc = "clear" => startLedger # 0

\* The page in hand.
PageInv ==
    pc \in {"consume", "save"} =>
        /\ PositionFits(page.to, page.at)
        /\ CommittedLedger(page) \in Ledgers
        /\ EventsTo(CommittedLedger(page) - 1) <= page.to
        /\ CoveredTo(page.to, IF pc = "consume" THEN page.fresh ELSE {})

FailoverInv == TypeOK /\ SavedInv /\ CursorInv /\ PageInv /\ RememberedIsStored

-----------------------------------------------------------------------------
(* Ledgers and the events in them. *)

LEMMA LedgersAdjoin ==
    ASSUME NEW a \in Nat, NEW b \in Nat
    PROVE  EventsTo(a) \in Nat /\ (a <= b => EventsTo(a) <= EventsTo(b))
BY FailoverAssumption DEF FailoverAssumption, EventsTo

\* An event lies in its ledger, which is no later than any ledger that ends at or
\* after the event.
LEMMA EventInItsLedger ==
    ASSUME NEW e \in Nat \ {0}
    PROVE  /\ LedgerOf(e) \in Nat \ {0}
           /\ EventsTo(LedgerOf(e) - 1) < e /\ e <= EventsTo(LedgerOf(e))
           /\ \A l \in Nat : e <= EventsTo(l) => LedgerOf(e) <= l
<1> DEFINE d == (e - 1) \div PerLedger
<1>1. PerLedger \in Nat \ {0}
  BY FailoverAssumption DEF FailoverAssumption
<1>2. d \in Nat /\ d * PerLedger < e /\ e <= (d + 1) * PerLedger
  BY <1>1
<1>3. LedgerOf(e) = d + 1
  BY DEF LedgerOf
<1> HIDE DEF d
<1>4. LedgerOf(e) \in Nat \ {0} /\ LedgerOf(e) - 1 = d
  BY <1>2, <1>3
<1>5. EventsTo(LedgerOf(e) - 1) < e /\ e <= EventsTo(LedgerOf(e))
  BY <1>2, <1>3, <1>4 DEF EventsTo
<1>6. ASSUME NEW l \in Nat, e <= EventsTo(l) PROVE LedgerOf(e) <= l
  <2>1. SUFFICES ASSUME l <= d PROVE FALSE
    BY <1>2, <1>3
  <2>2. EventsTo(l) <= EventsTo(d)
    BY <1>2, <2>1, LedgersAdjoin
  <2>3. EventsTo(d) < e /\ EventsTo(l) \in Nat /\ EventsTo(d) \in Nat
    BY <1>2, <1>4, <1>5, LedgersAdjoin
  <2>4. QED
    BY <1>6, <2>2, <2>3
<1>7. QED
  BY <1>4, <1>5, <1>6

-----------------------------------------------------------------------------
(* The dedup window. *)

\* What has become of the window and the page after the first n events.
Passes(window, from, n) ==
    /\ window.ids \in Seq(Event) /\ Len(window.ids) <= Window * PageSize
    /\ window.fresh \subseteq (from + 1)..(from + n)
    /\ Range(window.ids) \subseteq Range(recent) \cup window.fresh
    /\ (from + 1)..(from + n) \subseteq Range(recent) \cup window.fresh

LEMMA AddPasses ==
    ASSUME NEW from \in Nat, NEW n \in Nat, from + n + 1 \in Event, NEW window,
           Passes(window, from, n)
    PROVE  Passes(Add(window, from + n + 1), from, n + 1)
<1> DEFINE id == from + n + 1
           grown == Append(window.ids, id)
<1>1. /\ window.ids \in Seq(Event) /\ Len(window.ids) <= Window * PageSize
      /\ window.fresh \subseteq (from + 1)..(from + n)
      /\ Range(window.ids) \subseteq Range(recent) \cup window.fresh
      /\ (from + 1)..(from + n) \subseteq Range(recent) \cup window.fresh
  BY DEF Passes
<1>2. id \in Event /\ (from + 1)..(from + (n + 1)) = (from + 1)..(from + n) \cup {id}
  OBVIOUS
<1>3. CASE \E i \in DOMAIN window.ids : window.ids[i] = id
  <2>1. Add(window, id) = window
    BY <1>3 DEF Add
  <2>2. id \in Range(window.ids)
    BY <1>3 DEF Range
  <2>3. QED
    BY <1>1, <1>2, <2>1, <2>2 DEF Passes
<1>4. CASE ~\E i \in DOMAIN window.ids : window.ids[i] = id
  <2> DEFINE kept == IF Len(grown) > Window * PageSize THEN Tail(grown) ELSE grown
  <2>1. Add(window, id) = [ids |-> kept, fresh |-> window.fresh \cup {id}]
    BY <1>4 DEF Add
  <2>2. Window * PageSize \in Nat
    BY FailoverAssumption DEF FailoverAssumption
  <2>3. /\ grown \in Seq(Event) /\ Len(grown) = Len(window.ids) + 1 /\ grown # <<>>
        /\ Range(grown) \subseteq Range(window.ids) \cup {id}
    BY <1>1, <1>2 DEF Range
  <2>4. /\ Tail(grown) \in Seq(Event) /\ Len(Tail(grown)) = Len(grown) - 1
        /\ Range(Tail(grown)) \subseteq Range(grown)
    BY <2>3 DEF Range
  <2>5. /\ kept \in Seq(Event) /\ Len(kept) <= Window * PageSize
        /\ Range(kept) \subseteq Range(window.ids) \cup {id}
    <3> HIDE DEF grown
    <3>1. Len(window.ids) \in Nat
      BY <1>1
    <3>2. CASE Len(grown) > Window * PageSize
      BY <1>1, <2>2, <2>3, <2>4, <3>1, <3>2
    <3>3. CASE ~(Len(grown) > Window * PageSize)
      BY <1>1, <2>2, <2>3, <3>1, <3>3
    <3>4. QED
      BY <3>2, <3>3
  <2> HIDE DEF kept, id
  <2>6. QED
    BY <1>1, <1>2, <2>1, <2>5 DEF Passes, id
<1>5. QED
  BY <1>3, <1>4
\* What holds at 0 and from each number to the next holds up to k.
LEMMA StepByStep ==
    ASSUME NEW k \in Nat, NEW S \in SUBSET (0..k), 0 \in S,
           \A n \in 0..k : n \in S /\ n < k => n + 1 \in S
    PROVE  S = 0..k
<1> DEFINE Missing == (0..k) \ S
<1>1. SUFFICES ASSUME Missing # {} PROVE FALSE
  OBVIOUS
<1>2. Missing \in SUBSET Nat
  OBVIOUS
<1>3. Min(Missing) \in Missing /\ \A n \in Missing : Min(Missing) <= n
  <2> HIDE DEF Missing
  <2>1. QED
    BY <1>1, <1>2, MinIsLeast
<1> DEFINE m == Min(Missing)
<1> HIDE DEF m
<1>4. m \in 0..k /\ m \notin S /\ \A n \in (0..k) \ S : m <= n
  BY <1>3 DEF m
<1>5. m # 0 /\ m - 1 \in 0..k /\ m - 1 < k /\ ~(m <= m - 1)
  BY <1>4
<1>6. m - 1 \in S
  BY <1>4, <1>5
<1>7. (m - 1) + 1 = m
  BY <1>4
<1>8. QED
  BY <1>4, <1>5, <1>6, <1>7

\* The window after no event, one, and so on up to k.
IsFold(g, from, k) ==
    g = [n \in 0..k |-> IF n = 0 THEN [ids |-> recent, fresh |-> {}] ELSE Add(g[n - 1], from + n)]

LEMMA FoldExists ==
    ASSUME NEW from \in Nat, NEW k \in Nat
    PROVE  \E g : IsFold(g, from, k)
<1> DEFINE S == {n \in 0..k : \E g : IsFold(g, from, n)}
<1>1. 0 \in S
  <2> DEFINE g == [n \in 0..0 |-> [ids |-> recent, fresh |-> {}]]
  <2>1. IsFold(g, from, 0)
    BY DEF IsFold
  <2>2. QED
    BY <2>1
<1>2. ASSUME NEW n \in 0..k, n \in S, n < k PROVE n + 1 \in S
  <2>1. PICK g : IsFold(g, from, n)
    BY <1>2
  <2> DEFINE h == [i \in 0..(n + 1) |-> IF i = n + 1 THEN Add(g[n], from + (n + 1)) ELSE g[i]]
  <2>2. \A i \in 0..n : g[i] = IF i = 0 THEN [ids |-> recent, fresh |-> {}] ELSE Add(g[i - 1], from + i)
    BY <2>1 DEF IsFold
  <2>3. \A i \in 0..(n + 1) :
           h[i] = IF i = 0 THEN [ids |-> recent, fresh |-> {}] ELSE Add(h[i - 1], from + i)
    <3>1. SUFFICES ASSUME NEW i \in 0..(n + 1)
                   PROVE  h[i] = IF i = 0 THEN [ids |-> recent, fresh |-> {}] ELSE Add(h[i - 1], from + i)
      OBVIOUS
    <3>2. CASE i = n + 1
      <4>1. i # 0 /\ i - 1 = n /\ n \in 0..(n + 1) /\ n # n + 1
        BY <3>2
      <4>2. h[i] = Add(g[n], from + i) /\ h[i - 1] = g[n]
        BY <3>2, <4>1
      <4>3. QED
        BY <4>1, <4>2
    <3>3. CASE i = 0
      BY <2>2, <3>3
    <3>4. CASE i \in 1..n
      <4>1. i \in 0..n /\ i # 0 /\ i - 1 \in 0..(n + 1) /\ i - 1 # n + 1 /\ i # n + 1
        BY <3>4
      <4>2. h[i] = g[i] /\ h[i - 1] = g[i - 1]
        BY <4>1
      <4>3. QED
        BY <2>2, <4>1, <4>2
    <3>5. QED
      BY <3>2, <3>3, <3>4
  <2>4. IsFold(h, from, n + 1)
    <3>1. DOMAIN h = 0..(n + 1) /\ h = [i \in 0..(n + 1) |-> h[i]]
      OBVIOUS
    <3> HIDE DEF h
    <3>2. QED
      BY <2>3, <3>1 DEF IsFold
  <2>5. n + 1 \in 0..k
    BY <1>2
  <2>6. QED
    BY <2>4, <2>5
<1> HIDE DEF S
<1>3. S \in SUBSET (0..k)
  BY DEF S
<1>4. S = 0..k
  BY <1>1, <1>2, <1>3, StepByStep
<1>5. k \in S
  BY <1>4
<1>6. QED
  BY <1>5 DEF S

LEMMA AddAllPasses ==
    ASSUME NEW from \in Nat, NEW to \in Nat, from <= to, (from + 1)..to \subseteq Event,
           recent \in Seq(Event), Len(recent) <= Window * PageSize
    PROVE  Passes(AddAll(from, to), from, to - from)
<1> DEFINE k == to - from
           g == CHOOSE f : IsFold(f, from, k)
           S == {n \in 0..k : Passes(g[n], from, n)}
<1>1. k \in Nat
  OBVIOUS
<1>2. AddAll(from, to) = g[k]
  BY DEF AddAll, IsFold
<1>3. IsFold(g, from, k)
  BY <1>1, FoldExists
<1> HIDE DEF g
<1>4. g[0] = [ids |-> recent, fresh |-> {}] /\ \A n \in 1..k : g[n] = Add(g[n - 1], from + n)
  <2> HIDE DEF k
  <2>1. \A n \in 0..k :
           g[n] = IF n = 0 THEN [ids |-> recent, fresh |-> {}] ELSE Add(g[n - 1], from + n)
    BY <1>3 DEF IsFold
  <2>2. 0 \in 0..k /\ \A n \in 1..k : n \in 0..k /\ n # 0
    BY <1>1
  <2>3. QED
    BY <2>1, <2>2
<1>5. 0 \in S
  <2>1. Range(recent) \subseteq Range(recent) /\ (from + 1)..(from + 0) = {}
    OBVIOUS
  <2>2. QED
    BY <1>1, <1>4, <2>1 DEF Passes
<1>6. ASSUME NEW n \in 0..k, n \in S, n < k PROVE n + 1 \in S
  <2>1. n + 1 \in 1..k /\ n + 1 \in 0..k /\ (n + 1) - 1 = n /\ n \in Nat
    BY <1>1, <1>6
  <2>2. from + (n + 1) = from + n + 1 /\ from + n + 1 \in (from + 1)..to
    BY <1>6
  <2>3. g[n + 1] = Add(g[n], from + n + 1)
    BY <1>4, <2>1, <2>2
  <2>4. Passes(Add(g[n], from + n + 1), from, n + 1)
    BY <1>6, <2>1, <2>2, AddPasses
  <2>5. QED
    BY <2>1, <2>3, <2>4
<1>7. S = 0..k
  <2>1. S \in SUBSET (0..k)
    OBVIOUS
  <2> HIDE DEF S, k
  <2>2. QED
    BY <1>1, <1>5, <1>6, <2>1, StepByStep
<1>8. k \in S
  BY <1>1, <1>7
<1>9. QED
  BY <1>2, <1>8
-----------------------------------------------------------------------------
(* The pool. *)

Pools == [active : Provider, errors : 0..Threshold]

\* Wherever the pool moves, it is at a provider and its count within the threshold.
LEMMA PoolMoves ==
    ASSUME TypeOK, NEW p \in Probed
    PROVE  /\ p \in Pools /\ Primary \in Pools /\ Answered(p) \in Pools
           /\ RequestFailed(p) \in Pools /\ [active |-> NextProvider(p), errors |-> 0] \in Pools
           /\ [p EXCEPT !.errors = Counted(p)] \in Pools
<1>1. N \in Nat \ {0} /\ Threshold \in Nat \ {0}
  BY FailoverAssumption DEF FailoverAssumption
<1>2. Primary \in Pools
  BY <1>1 DEF Primary, Pools, Provider
<1>3. p \in Pools
  BY <1>2 DEF Probed, TypeOK, Pools
<1>4. p.active \in Nat /\ p.errors \in Nat /\ p.errors <= Threshold
  BY <1>1, <1>3 DEF Pools, Provider
<1>5. NextProvider(p) \in Provider
  <2>1. \A a \in Nat : a % N \in 0..(N - 1)
    BY <1>1
  <2>2. QED
    BY <1>4, <2>1 DEF NextProvider, Provider
<1>6. Answered(p) \in Pools
  BY <1>1, <1>3 DEF Answered, Pools
<1>7. RequestFailed(p) \in Pools
  BY <1>1, <1>3, <1>4, <1>5 DEF RequestFailed, Counted, Pools
<1>8. [active |-> NextProvider(p), errors |-> 0] \in Pools
  BY <1>1, <1>5 DEF Pools
<1>9. [p EXCEPT !.errors = Counted(p)] \in Pools
  BY <1>1, <1>3, <1>4 DEF Pools, Counted
<1>10. QED
  BY <1>2, <1>3, <1>6, <1>7, <1>8, <1>9

-----------------------------------------------------------------------------
(* A page. *)

LEMMA ServedFits ==
    ASSUME TypeOK, NEW q \in Provider, NEW from \in Nat, from <= EventsTo(tip[q])
    PROVE  LET s == Served(q, from) IN
           /\ s.to \in Nat /\ from <= s.to /\ s.to <= EventsTo(MaxLedger)
           /\ s.to <= EventsTo(tip[q])
           /\ PositionFits(s.to, s.at)
           /\ s.last \in 0..MaxLedger /\ s.latest \in 0..MaxLedger /\ s.short \in BOOLEAN
           /\ CommittedLedger(s) \in Ledgers /\ EventsTo(CommittedLedger(s) - 1) <= s.to
           /\ s.fresh = AddAll(from, s.to).fresh
           /\ s = [to |-> s.to, short |-> s.short, last |-> s.last, latest |-> s.latest,
                   at |-> s.at, fresh |-> s.fresh]
<1> DEFINE full == from + PageSize <= EventsTo(tip[q])
           to   == IF full THEN from + PageSize ELSE EventsTo(tip[q])
           last == IF to = from THEN 0 ELSE LedgerOf(to)
           at   == IF full THEN LedgerOf(to) ELSE tip[q]
           s    == Served(q, from)
<1>1. s = [to |-> to, short |-> ~full, last |-> last, latest |-> tip[q], at |-> at,
           fresh |-> AddAll(from, to).fresh]
  BY DEF Served
<1>2. /\ PageSize \in Nat \ {0} /\ MaxLedger \in Nat \ {0}
      /\ tip[q] \in Nat \ {0} /\ tip[q] <= MaxLedger
      /\ EventsTo(tip[q]) \in Nat /\ EventsTo(tip[q]) <= EventsTo(MaxLedger)
      /\ EventsTo(MaxLedger) \in Nat
  <2>1. PageSize \in Nat \ {0} /\ MaxLedger \in Nat \ {0}
    BY FailoverAssumption DEF FailoverAssumption
  <2>2. tip[q] \in 1..MaxLedger
    BY DEF TypeOK, Ledgers
  <2>3. QED
    BY <2>1, <2>2, LedgersAdjoin
<1>3. /\ to \in Nat /\ from <= to /\ to <= EventsTo(tip[q])
      /\ full => to # 0 /\ to # from
      /\ ~full => to = EventsTo(tip[q])
  BY <1>2
<1>4. to # 0 => /\ LedgerOf(to) \in Nat \ {0} /\ LedgerOf(to) <= tip[q]
                /\ EventsTo(LedgerOf(to) - 1) < to /\ to <= EventsTo(LedgerOf(to))
  BY <1>2, <1>3, EventInItsLedger
<1> HIDE DEF to, full
<1>5. at \in Ledgers /\ to <= EventsTo(at)
  BY <1>2, <1>3, <1>4 DEF Ledgers
<1>6. PositionFits(to, at)
  <2>1. at \in Nat /\ EventsTo(at) \in Nat
    BY <1>5, LedgersAdjoin DEF Ledgers
  <2>2. QED
    BY <1>3, <1>5, <2>1 DEF PositionFits
<1>7. last \in 0..MaxLedger
  BY <1>2, <1>3, <1>4
<1>8. LET c == IF last # 0 THEN last ELSE tip[q] IN c \in Ledgers /\ EventsTo(c - 1) <= to
  <2>1. CASE to = from
    <3>1. to = EventsTo(tip[q]) /\ last = 0
      BY <1>3, <2>1
    <3>2. EventsTo(tip[q] - 1) <= EventsTo(tip[q])
      BY <1>2, LedgersAdjoin
    <3>3. QED
      BY <1>2, <3>1, <3>2 DEF Ledgers
  <2>2. CASE to # from
    <3>1. to # 0 /\ last = LedgerOf(to)
      BY <1>3, <2>2
    <3>2. EventsTo(LedgerOf(to) - 1) \in Nat
      BY <1>4, <3>1, LedgersAdjoin
    <3>3. QED
      BY <1>2, <1>3, <1>4, <3>1, <3>2 DEF Ledgers
  <2>3. QED
    BY <2>1, <2>2
<1> HIDE DEF last, at
<1>9. /\ s.to = to /\ s.at = at /\ s.last = last /\ s.latest = tip[q] /\ s.short = ~full
      /\ s.fresh = AddAll(from, to).fresh
  BY <1>1
<1>10. full \in BOOLEAN
  BY DEF full
<1>11. s = [to |-> s.to, short |-> s.short, last |-> s.last, latest |-> s.latest, at |-> s.at,
            fresh |-> s.fresh]
  BY <1>1, <1>9
<1> HIDE DEF s
<1>12. CommittedLedger(s) \in Ledgers /\ EventsTo(CommittedLedger(s) - 1) <= s.to
  BY <1>8, <1>9 DEF CommittedLedger
<1>13. s.to \in Nat /\ from <= s.to /\ s.to <= EventsTo(MaxLedger) /\ s.to <= EventsTo(tip[q])
  BY <1>2, <1>3, <1>9
<1>14. QED
  BY <1>2, <1>6, <1>7, <1>9, <1>10, <1>11, <1>12, <1>13 DEF s
LEMMA ReceiveKeepsInv ==
    ASSUME FailoverInv, NEW q \in Provider, NEW from \in Nat, from <= EventsTo(tip[q]),
           CoveredTo(from, {}), pc # "consume", pool' \in Pools, Receive(q, from)
    PROVE  FailoverInv'
<1> DEFINE s == Served(q, from)
           after == AddAll(from, s.to)
<1>1. /\ s.to \in Nat /\ from <= s.to /\ s.to <= EventsTo(MaxLedger)
      /\ PositionFits(s.to, s.at)
      /\ s.last \in 0..MaxLedger /\ s.latest \in 0..MaxLedger /\ s.short \in BOOLEAN
      /\ CommittedLedger(s) \in Ledgers /\ EventsTo(CommittedLedger(s) - 1) <= s.to
      /\ s.fresh = after.fresh
      /\ s = [to |-> s.to, short |-> s.short, last |-> s.last, latest |-> s.latest,
              at |-> s.at, fresh |-> s.fresh]
  BY ServedFits DEF FailoverInv
<1>2. /\ page' = s /\ recent' = after.ids
      /\ pc' = IF s.fresh = {} THEN "save" ELSE "consume"
      /\ UNCHANGED <<dead, tip, oldest, stored, saved, cursor, startLedger, gone, crashes>>
  BY DEF Receive, nodes, db
<1> HIDE DEF s
<1>3. (from + 1)..s.to \subseteq Event
  <2>1. EventsTo(MaxLedger) \in Nat
    BY FailoverAssumption, LedgersAdjoin DEF FailoverAssumption
  <2>2. QED
    BY <1>1, <2>1 DEF Event
<1>4. Passes(after, from, s.to - from)
  BY <1>1, <1>3, AddAllPasses DEF FailoverInv, TypeOK
<1> HIDE DEF after
<1>5. /\ after.ids \in Seq(Event) /\ Len(after.ids) <= Window * PageSize
      /\ after.fresh \subseteq Event
      /\ Range(after.ids) \subseteq Range(recent) \cup after.fresh
      /\ (from + 1)..s.to \subseteq Range(recent) \cup after.fresh
  <2>1. from + (s.to - from) = s.to
    BY <1>1
  <2>2. QED
    BY <1>3, <1>4, <2>1 DEF Passes
<1>6. Range(recent) \subseteq stored
  BY DEF FailoverInv, RememberedIsStored, Range
<1>7. TypeOK'
  <2>1. s.at \in 0..MaxLedger
    BY <1>1 DEF PositionFits, Ledgers
  <2>2. s.to \in 0..EventsTo(MaxLedger)
    <3>1. EventsTo(MaxLedger) \in Nat
      BY FailoverAssumption, LedgersAdjoin DEF FailoverAssumption
    <3>2. QED
      BY <1>1, <3>1
  <2>3. page' \in [to : 0..EventsTo(MaxLedger), at : 0..MaxLedger, last : 0..MaxLedger,
                   latest : 0..MaxLedger, short : BOOLEAN, fresh : SUBSET Event]
    BY <1>1, <1>2, <1>5, <2>1, <2>2
  <2>4. QED
    BY <1>2, <1>5, <2>3 DEF FailoverInv, TypeOK, Pools
<1>8. SavedInv'
  BY <1>2 DEF FailoverInv, SavedInv, CoveredTo
<1>9. CursorInv'
  BY <1>2 DEF FailoverInv, CursorInv, CoveredTo, ByCursor
<1>10. 1..s.to \subseteq stored \cup gone \cup s.fresh
  <2>1. 1..s.to \subseteq 1..from \cup (from + 1)..s.to
    BY <1>1
  <2>2. 1..from \subseteq stored \cup gone
    BY DEF CoveredTo
  <2>3. QED
    BY <1>1, <1>5, <1>6, <2>1, <2>2
<1>11. PageInv'
  <2>1. CoveredTo(page.to, IF pc = "consume" THEN page.fresh ELSE {})'
    BY <1>2, <1>10 DEF CoveredTo
  <2>2. /\ PositionFits(page.to, page.at)' /\ (CommittedLedger(page) \in Ledgers)'
        /\ (EventsTo(CommittedLedger(page) - 1) <= page.to)'
    BY <1>1, <1>2 DEF PositionFits, CommittedLedger
  <2>3. QED
    BY <2>1, <2>2 DEF PageInv
<1>12. RememberedIsStored'
  <2>1. \A i \in DOMAIN after.ids : after.ids[i] \in stored \cup s.fresh
    <3>1. \A i \in DOMAIN after.ids : after.ids[i] \in Range(after.ids)
      BY DEF Range
    <3>2. QED
      BY <1>1, <1>5, <1>6, <3>1
  <2>2. QED
    BY <1>2, <2>1 DEF RememberedIsStored
<1>13. QED
  BY <1>7, <1>8, <1>9, <1>11, <1>12 DEF FailoverInv
-----------------------------------------------------------------------------
(* The steps.  Where a step leaves the database alone, what it must account for *)
(* is where the poller goes next.                                               *)

\* Empty hands.
LEMMA NothingFits ==
    /\ NoPage \in [to : 0..EventsTo(MaxLedger), at : 0..MaxLedger, last : 0..MaxLedger,
                   latest : 0..MaxLedger, short : BOOLEAN, fresh : SUBSET Event]
    /\ NoCursor \in [pos : 0..EventsTo(MaxLedger), at : 0..MaxLedger]
    /\ NoPosition \in [pos : 0..EventsTo(MaxLedger), at : 0..MaxLedger, ledger : 0..MaxLedger]
    /\ <<>> \in Seq(Event) /\ Len(<<>>) = 0 /\ 0 <= Window * PageSize
    /\ NoCursor.at = 0 /\ NoPosition.at = 0 /\ Primary \in Pools
<1>1. /\ N \in Nat \ {0} /\ MaxLedger \in Nat \ {0} /\ Threshold \in Nat \ {0}
      /\ Window * PageSize \in Nat
  BY FailoverAssumption DEF FailoverAssumption
<1>2. EventsTo(MaxLedger) \in Nat
  BY <1>1, LedgersAdjoin
<1>3. 0 \in 0..EventsTo(MaxLedger) /\ 0 \in 0..MaxLedger /\ {} \in SUBSET Event /\ FALSE \in BOOLEAN
  BY <1>1, <1>2
<1>4. NoPage \in [to : 0..EventsTo(MaxLedger), at : 0..MaxLedger, last : 0..MaxLedger,
                 latest : 0..MaxLedger, short : BOOLEAN, fresh : SUBSET Event]
  BY <1>3, Zenon DEF NoPage
<1>5. /\ NoCursor \in [pos : 0..EventsTo(MaxLedger), at : 0..MaxLedger]
      /\ NoPosition \in [pos : 0..EventsTo(MaxLedger), at : 0..MaxLedger, ledger : 0..MaxLedger]
      /\ NoCursor.at = 0 /\ NoPosition.at = 0
  BY <1>3 DEF NoCursor, NoPosition
<1>6. Primary \in Pools
  BY <1>1 DEF Primary, Pools, Provider
<1>7. <<>> \in Seq(Event) /\ Len(<<>>) = 0
  OBVIOUS
<1>8. QED
  BY <1>1, <1>4, <1>5, <1>6, <1>7

LEMMA InitIsFine == FailoverInit => FailoverInv
<1>1. SUFFICES ASSUME FailoverInit PROVE FailoverInv
  OBVIOUS
<1>2. MaxLedger \in Nat \ {0} /\ MaxCrashes \in Nat
  BY FailoverAssumption DEF FailoverAssumption
<1>3. /\ dead \in Outages /\ stored = {} /\ gone = {} /\ recent = <<>> /\ page = NoPage
      /\ cursor = NoCursor /\ saved = NoPosition /\ pool = Primary /\ startLedger = 0
      /\ pc = "resolve" /\ crashes = 0
      /\ tip = [q \in Provider |-> 1] /\ oldest = [q \in Provider |-> 1]
  BY <1>1 DEF FailoverInit
<1>4. tip \in [Provider -> Ledgers] /\ oldest \in [Provider -> Ledgers]
  BY <1>2, <1>3 DEF Ledgers
<1>5. \A q \in Provider : oldest[q] <= tip[q]
  BY <1>3
<1>6. TypeOK
  BY <1>2, <1>3, <1>4, <1>5, NothingFits DEF TypeOK, Pools
<1>7. SavedInv /\ CursorInv /\ PageInv
  BY <1>3, NothingFits DEF SavedInv, CursorInv, PageInv, ByCursor
<1>8. RememberedIsStored
  BY <1>3 DEF RememberedIsStored
<1>9. QED
  BY <1>6, <1>7, <1>8 DEF FailoverInv

\* The database and what was given up stay, no page is taken, and what the poller
\* remembers stays or is forgotten.
LEMMA PollerMovesInv ==
    ASSUME FailoverInv, pc # "consume", pc' \notin {"consume", "save"},
           UNCHANGED <<dead, tip, oldest, stored, saved, gone>>,
           pool' \in Pools, crashes' \in 0..MaxCrashes,
           page' \in {page, NoPage}, recent' \in {recent, <<>>},
           cursor' \in {cursor, NoCursor, [pos |-> saved.pos, at |-> saved.at]},
           startLedger' \in {startLedger, 0},
           pc' \in {"down", "resolve", "fetch", "retryCursor", "retryLedger", "sleep", "recover"},
           pc' = "fetch" => cursor'.at # 0 \/ startLedger' # 0,
           pc' \in {"retryCursor", "retryLedger", "recover"} => cursor'.at # 0
    PROVE  FailoverInv'
<1>1. /\ MaxLedger \in Nat /\ Window * PageSize \in Nat /\ EventsTo(MaxLedger) \in Nat
  <2>1. MaxLedger \in Nat /\ Window \in Nat /\ PageSize \in Nat
    BY FailoverAssumption DEF FailoverAssumption
  <2>2. EventsTo(MaxLedger) \in Nat
    BY <2>1, LedgersAdjoin
  <2>3. QED
    BY <2>1, <2>2
<1>2. TypeOK'
  <2>1. page' \in [to : 0..EventsTo(MaxLedger), at : 0..MaxLedger, last : 0..MaxLedger,
                   latest : 0..MaxLedger, short : BOOLEAN, fresh : SUBSET Event]
    BY NothingFits DEF FailoverInv, TypeOK
  <2>2. recent' \in Seq(Event) /\ Len(recent') <= Window * PageSize
    <3>1. recent \in Seq(Event) /\ Len(recent) <= Window * PageSize
      BY DEF FailoverInv, TypeOK
    <3>2. QED
      BY <3>1, NothingFits
  <2>3. cursor' \in [pos : 0..EventsTo(MaxLedger), at : 0..MaxLedger]
    <3>1. /\ cursor \in [pos : 0..EventsTo(MaxLedger), at : 0..MaxLedger]
          /\ saved.pos \in 0..EventsTo(MaxLedger) /\ saved.at \in 0..MaxLedger
      BY DEF FailoverInv, TypeOK
    <3>2. NoCursor \in [pos : 0..EventsTo(MaxLedger), at : 0..MaxLedger]
      BY <1>1 DEF NoCursor
    <3>3. [pos |-> saved.pos, at |-> saved.at] \in [pos : 0..EventsTo(MaxLedger), at : 0..MaxLedger]
      BY <3>1
    <3>4. QED
      BY <3>1, <3>2, <3>3
  <2>4. startLedger' \in 0..MaxLedger
    <3>1. startLedger \in 0..MaxLedger
      BY DEF FailoverInv, TypeOK
    <3>2. QED
      BY <1>1, <3>1
  <2>5. QED
    BY <2>1, <2>2, <2>3, <2>4 DEF FailoverInv, TypeOK, Pools
<1>3. SavedInv'
  BY DEF FailoverInv, SavedInv, CoveredTo
<1>4. CursorInv'
  BY DEF FailoverInv, CursorInv, CoveredTo, ByCursor, NoCursor
<1>5. PageInv'
  BY DEF PageInv
<1>6. RememberedIsStored'
  BY DEF FailoverInv, RememberedIsStored
<1>7. QED
  BY <1>2, <1>3, <1>4, <1>5, <1>6 DEF FailoverInv

\* Ledgers are numbered from 1.
LEMMA LedgersAreNumbers ==
    ASSUME TypeOK
    PROVE  /\ \A q \in Provider : tip[q] \in Nat \ {0} /\ oldest[q] \in Nat \ {0}
           /\ startLedger \in Nat
<1>1. /\ tip \in [Provider -> Ledgers] /\ oldest \in [Provider -> Ledgers]
      /\ startLedger \in 0..MaxLedger
  BY DEF TypeOK
<1>2. QED
  BY <1>1 DEF Ledgers

\* A request may begin here.
LEMMA StartFits ==
    ASSUME FailoverInv, NEW q \in Provider
    PROVE  /\ ByCursor /\ Holds(q, cursor.at) =>
                /\ cursor.pos \in Nat /\ cursor.pos <= EventsTo(tip[q]) /\ CoveredTo(cursor.pos, {})
           /\ startLedger # 0 /\ Holds(q, startLedger) =>
                /\ EventsTo(startLedger - 1) \in Nat /\ EventsTo(startLedger - 1) <= EventsTo(tip[q])
                /\ CoveredTo(EventsTo(startLedger - 1), {})
           /\ ByCursor /\ Holds(q, saved.ledger) =>
                /\ FromCommitted \in Nat /\ FromCommitted <= EventsTo(tip[q])
                /\ CoveredTo(FromCommitted, {})
<1>1. tip[q] \in Nat /\ oldest[q] \in Nat /\ startLedger \in Nat
  BY LedgersAreNumbers DEF FailoverInv
<1>2. ASSUME NEW l \in Nat \ {0}, Holds(q, l)
      PROVE  /\ EventsTo(l) \in Nat /\ EventsTo(l) <= EventsTo(tip[q])
             /\ EventsTo(l - 1) \in Nat /\ EventsTo(l - 1) <= EventsTo(tip[q])
             /\ EventsTo(tip[q]) \in Nat
  <2>1. l <= tip[q] /\ l - 1 \in Nat /\ l - 1 <= tip[q]
    BY <1>1, <1>2 DEF Holds
  <2>2. QED
    BY <1>1, <2>1, LedgersAdjoin
<1>3. ASSUME ByCursor
      PROVE  /\ saved.at # 0 /\ saved.at \in Nat \ {0} /\ saved.ledger \in Nat \ {0}
             /\ cursor.pos = saved.pos /\ cursor.at = saved.at
             /\ saved.pos \in Nat /\ saved.pos <= EventsTo(saved.at)
             /\ EventsTo(saved.ledger - 1) <= saved.pos /\ CoveredTo(saved.pos, {})
  <2>1. cursor.pos = saved.pos /\ cursor.at = saved.at /\ saved.at # 0
    BY <1>3 DEF FailoverInv, CursorInv, ByCursor
  <2>2. SavedInv
    BY DEF FailoverInv
  <2>3. QED
    BY <2>1, <2>2 DEF SavedInv, PositionFits, Ledgers
<1>4. ASSUME ByCursor, Holds(q, cursor.at)
      PROVE  cursor.pos \in Nat /\ cursor.pos <= EventsTo(tip[q]) /\ CoveredTo(cursor.pos, {})
  <2>1. EventsTo(saved.at) \in Nat /\ EventsTo(saved.at) <= EventsTo(tip[q]) /\ EventsTo(tip[q]) \in Nat
    BY <1>2, <1>3, <1>4
  <2>2. QED
    BY <1>3, <1>4, <2>1
<1>5. ASSUME startLedger # 0, Holds(q, startLedger)
      PROVE  /\ EventsTo(startLedger - 1) \in Nat /\ EventsTo(startLedger - 1) <= EventsTo(tip[q])
             /\ CoveredTo(EventsTo(startLedger - 1), {})
  BY <1>1, <1>2, <1>5 DEF FailoverInv, CursorInv
<1>6. ASSUME ByCursor, Holds(q, saved.ledger)
      PROVE  FromCommitted \in Nat /\ FromCommitted <= EventsTo(tip[q]) /\ CoveredTo(FromCommitted, {})
  <2>1. /\ EventsTo(saved.ledger - 1) \in Nat
        /\ EventsTo(saved.ledger - 1) <= EventsTo(tip[q])
    BY <1>2, <1>3, <1>6
  <2>2. CoveredTo(EventsTo(saved.ledger - 1), {})
    BY <1>3, <1>6, <2>1 DEF CoveredTo
  <2>3. QED
    BY <2>1, <2>2 DEF FromCommitted
<1>7. QED
  BY <1>4, <1>5, <1>6
\* A provider closes a ledger or forgets one: nobody else notices.
LEMMA NodesKeepInv ==
    ASSUME FailoverInv, NEW q \in Provider, Advance(q) \/ Forget(q)
    PROVE  FailoverInv'
<1>1. UNCHANGED <<dead, stored, saved, pool, pc, cursor, startLedger, page, recent, gone, crashes>>
  BY DEF Advance, Forget, nodes, db, poller
<1>2. /\ tip \in [Provider -> Ledgers] /\ oldest \in [Provider -> Ledgers]
      /\ \A r \in Provider : oldest[r] <= tip[r]
  BY DEF FailoverInv, TypeOK
<1>3. MaxLedger \in Nat
  BY FailoverAssumption DEF FailoverAssumption
<1>4. /\ tip' \in [Provider -> Ledgers] /\ oldest' \in [Provider -> Ledgers]
      /\ \A r \in Provider : oldest'[r] <= tip'[r]
  <2>1. CASE Advance(q)
    <3>1. tip' = [tip EXCEPT ![q] = @ + 1] /\ oldest' = oldest /\ tip[q] < MaxLedger
      BY <2>1 DEF Advance
    <3>2. QED
      BY <1>2, <1>3, <3>1 DEF Ledgers
  <2>2. CASE Forget(q)
    <3>1. oldest' = [oldest EXCEPT ![q] = @ + 1] /\ tip' = tip /\ oldest[q] < tip[q]
      BY <2>2 DEF Forget
    <3>2. QED
      BY <1>2, <1>3, <3>1 DEF Ledgers
  <2>3. QED
    BY <2>1, <2>2
<1>5. TypeOK'
  BY <1>1, <1>4 DEF FailoverInv, TypeOK
<1>6. SavedInv' /\ CursorInv' /\ PageInv' /\ RememberedIsStored'
  BY <1>1 DEF FailoverInv, SavedInv, CursorInv, PageInv, RememberedIsStored, CoveredTo, ByCursor,
              PositionFits, CommittedLedger
<1>7. QED
  BY <1>5, <1>6 DEF FailoverInv

\* The first ledger of the provider that answers becomes the start, and what it no
\* longer has is given up.
LEMMA StartKeepsInv ==
    ASSUME FailoverInv, ResolveStart \/ Recover
    PROVE  FailoverInv'
<1>1. PICK p \in Probed :
        /\ pool' = Answered(p) /\ startLedger' = oldest[p.active]
        /\ gone' = gone \cup 1..EventsTo(oldest[p.active] - 1)
  BY DEF ResolveStart, Recover
<1>2. UNCHANGED <<dead, tip, oldest, stored, saved, cursor, page, recent, crashes>>
  BY DEF ResolveStart, Recover, nodes, db
<1>3. TypeOK
  BY DEF FailoverInv
<1>4. p.active \in Provider /\ pool' \in Pools
  BY <1>1, <1>3, PoolMoves DEF Pools
<1>5. oldest[p.active] \in Ledgers /\ MaxLedger \in Nat
  BY <1>3, <1>4, FailoverAssumption DEF TypeOK, FailoverAssumption
<1>6. 1..EventsTo(oldest[p.active] - 1) \subseteq Event
  <2>1. oldest[p.active] - 1 \in Nat /\ oldest[p.active] - 1 <= MaxLedger
    BY <1>5 DEF Ledgers
  <2>2. /\ EventsTo(oldest[p.active] - 1) \in Nat /\ EventsTo(MaxLedger) \in Nat
        /\ EventsTo(oldest[p.active] - 1) <= EventsTo(MaxLedger)
    BY <1>5, <2>1, LedgersAdjoin
  <2>3. QED
    BY <2>2 DEF Event
<1>7. /\ pc \notin {"consume", "save"}
      /\ \/ pc' = "fetch"
         \/ pc' = "clear"
  BY DEF ResolveStart, Recover
<1>8. gone \subseteq gone' /\ startLedger' # 0 /\ startLedger' \in 0..MaxLedger
  BY <1>1, <1>5 DEF Ledgers
<1>9. TypeOK'
  <2>1. gone' \subseteq Event
    BY <1>1, <1>3, <1>6 DEF TypeOK
  <2>2. QED
    BY <1>2, <1>3, <1>4, <1>7, <1>8, <2>1 DEF TypeOK, Pools
<1>10. SavedInv'
  BY <1>2, <1>8 DEF FailoverInv, SavedInv, CoveredTo, PositionFits
<1>11. CursorInv'
  <2>1. CoveredTo(EventsTo(startLedger - 1), {})'
    BY <1>1 DEF CoveredTo
  <2>2. QED
    BY <1>2, <1>7, <1>8, <2>1 DEF FailoverInv, CursorInv, ByCursor
<1>12. PageInv' /\ RememberedIsStored'
  BY <1>2, <1>7 DEF FailoverInv, PageInv, RememberedIsStored
<1>13. QED
  BY <1>9, <1>10, <1>11, <1>12 DEF FailoverInv

LEMMA FetchPageKeepsInv ==
    ASSUME FailoverInv, FetchPage
    PROVE  FailoverInv'
<1>1. pc = "fetch"
  BY DEF FetchPage
<1>2. PICK p \in Probed :
        Holds(p.active, StartAt) /\ pool' = Answered(p) /\ Receive(p.active, StartPos)
  BY DEF FetchPage
<1>3. p.active \in Provider /\ pool' \in Pools
  BY <1>2, PoolMoves DEF FailoverInv, Pools
<1>4. ByCursor \/ startLedger # 0
  BY <1>1 DEF FailoverInv, CursorInv
<1>5. StartPos \in Nat /\ StartPos <= EventsTo(tip[p.active]) /\ CoveredTo(StartPos, {})
  <2>1. CASE ByCursor
    <3>1. StartAt = cursor.at /\ StartPos = cursor.pos
      BY <2>1 DEF StartAt, StartPos
    <3>2. QED
      BY <1>2, <1>3, <2>1, <3>1, StartFits
  <2>2. CASE ~ByCursor
    <3>1. StartAt = startLedger /\ StartPos = EventsTo(startLedger - 1)
      BY <2>2 DEF StartAt, StartPos
    <3>2. QED
      BY <1>2, <1>3, <1>4, <2>2, <3>1, StartFits
  <2>3. QED
    BY <2>1, <2>2
<1>6. QED
  BY <1>1, <1>2, <1>3, <1>5, ReceiveKeepsInv

\* What Throw(), an end of the process and a switch come to.
LEMMA PollerStays ==
    ASSUME FailoverInv, pc \notin {"consume", "save"}, crashes' \in 0..MaxCrashes, pool' \in Pools,
           UNCHANGED <<dead, tip, oldest, stored, saved, gone>>,
           \/ \E refused \in BOOLEAN : Throw(refused)
           \/ Blank /\ pc' = "down"
           \/ /\ ByCursor /\ pc' \in {"retryCursor", "retryLedger"}
              /\ UNCHANGED <<cursor, startLedger, page, recent>>
    PROVE  FailoverInv'
BY PollerMovesInv DEF Throw, Blank, ByCursor

LEMMA RetriesKeepInv ==
    ASSUME FailoverInv, RetryCursor \/ RetryLedger
    PROVE  FailoverInv'
<1>1. pc \in {"retryCursor", "retryLedger"} /\ ByCursor /\ pool' = pool
  BY DEF RetryCursor, RetryLedger, FailoverInv, CursorInv
<1>2. pool \in Pools /\ pool.active \in Provider /\ crashes \in 0..MaxCrashes
  BY DEF FailoverInv, TypeOK, Pools
<1>3. \/ Holds(pool.active, cursor.at) /\ Receive(pool.active, cursor.pos)
      \/ Holds(pool.active, saved.ledger) /\ Receive(pool.active, FromCommitted)
      \/ /\ UNCHANGED <<dead, tip, oldest, stored, saved, gone, crashes>>
         /\ \/ \E refused \in BOOLEAN : Throw(refused)
            \/ pc' = "retryLedger" /\ UNCHANGED <<cursor, startLedger, page, recent>>
  BY DEF RetryCursor, RetryLedger, nodes, db
<1>4. CASE Holds(pool.active, cursor.at) /\ Receive(pool.active, cursor.pos)
  <2>1. cursor.pos \in Nat /\ cursor.pos <= EventsTo(tip[pool.active]) /\ CoveredTo(cursor.pos, {})
    BY <1>1, <1>2, <1>4, StartFits
  <2>2. QED
    BY <1>1, <1>2, <1>4, <2>1, ReceiveKeepsInv
<1>5. CASE Holds(pool.active, saved.ledger) /\ Receive(pool.active, FromCommitted)
  <2>1. /\ FromCommitted \in Nat /\ FromCommitted <= EventsTo(tip[pool.active])
        /\ CoveredTo(FromCommitted, {})
    BY <1>1, <1>2, <1>5, StartFits
  <2>2. QED
    BY <1>1, <1>2, <1>5, <2>1, ReceiveKeepsInv
<1>6. CASE /\ UNCHANGED <<dead, tip, oldest, stored, saved, gone, crashes>>
           /\ \/ \E refused \in BOOLEAN : Throw(refused)
              \/ pc' = "retryLedger" /\ UNCHANGED <<cursor, startLedger, page, recent>>
  BY <1>1, <1>2, <1>6, PollerStays
<1>7. QED
  BY <1>3, <1>4, <1>5, <1>6
\* The steps of the process that take nothing in.
LEMMA QuietStepsKeepInv ==
    ASSUME FailoverInv,
           \/ ResolveSaved \/ ResolveFails \/ FetchErrors \/ Switch \/ SwitchIsFatal
           \/ RecoverFails \/ Wake \/ Restart \/ Crash
    PROVE  FailoverInv'
<1>1. /\ crashes \in 0..MaxCrashes /\ pool \in Pools /\ Primary \in Pools /\ MaxCrashes \in Nat
      /\ pc = "fetch" => ByCursor \/ startLedger # 0
  <2>1. pool \in Probed
    BY DEF Probed
  <2>2. QED
    BY <2>1, PoolMoves, FailoverAssumption DEF FailoverInv, TypeOK, CursorInv, FailoverAssumption
<1>2. CASE ResolveSaved
  <2>1. PICK p \in Probed : pool' = Answered(p) \/ pool' = RequestFailed(p)
    BY <1>2 DEF ResolveSaved
  <2>2. pool' \in Pools
    BY <2>1, PoolMoves DEF FailoverInv
  <2>3. /\ pc = "resolve" /\ pc' = "fetch" /\ cursor' = [pos |-> saved.pos, at |-> saved.at]
        /\ saved.at # 0
        /\ UNCHANGED <<dead, tip, oldest, stored, saved, startLedger, page, recent, gone, crashes>>
    BY <1>2 DEF ResolveSaved, nodes, db
  <2>4. cursor'.at # 0
    BY <2>3
  <2>5. QED
    BY <1>1, <2>2, <2>3, <2>4, PollerMovesInv
<1>3. CASE ResolveFails
  <2>1. PICK p \in Probed : pool' = RequestFailed(p)
    BY <1>3 DEF ResolveFails
  <2>2. pool' \in Pools
    BY <2>1, PoolMoves DEF FailoverInv
  <2>3. /\ pc = "resolve" /\ pc' = "sleep"
        /\ UNCHANGED <<dead, tip, oldest, stored, saved, cursor, startLedger, page, recent, gone, crashes>>
    BY <1>3 DEF ResolveFails, nodes, db
  <2>4. QED
    BY <1>1, <2>2, <2>3, PollerMovesInv
<1>4. CASE FetchErrors
  <2>1. pc = "fetch" /\ UNCHANGED <<dead, tip, oldest, stored, saved, gone, crashes>>
    BY <1>4 DEF FetchErrors, nodes, db
  <2>2. PICK p \in Probed, refused \in BOOLEAN :
           \/ pool' = [p EXCEPT !.errors = Counted(p)] /\ Throw(refused)
           \/ Blank /\ pc' = "down"
    BY <1>4 DEF FetchErrors
  <2>3. pool' \in Pools
    BY <1>1, <2>2, PoolMoves DEF FailoverInv, Blank
  <2>4. QED
    BY <1>1, <2>1, <2>2, <2>3, PollerStays
<1>5. CASE Switch
  <2>1. PICK p \in Probed : pool' = [active |-> NextProvider(p), errors |-> 0]
    BY <1>5 DEF Switch
  <2>2. pool' \in Pools
    BY <2>1, PoolMoves DEF FailoverInv
  <2>3. /\ pc = "fetch" /\ ByCursor /\ pc' = "retryCursor"
        /\ UNCHANGED <<dead, tip, oldest, stored, saved, cursor, startLedger, page, recent, gone, crashes>>
    BY <1>5 DEF Switch, nodes, db
  <2>4. QED
    BY <1>1, <2>2, <2>3, PollerStays
<1>6. CASE SwitchIsFatal \/ RecoverFails
  <2>1. /\ pc \notin {"consume", "save"} /\ Blank /\ pc' = "down"
        /\ UNCHANGED <<dead, tip, oldest, stored, saved, gone, crashes>>
    BY <1>6 DEF SwitchIsFatal, RecoverFails, nodes, db
  <2>2. pool' \in Pools
    BY <1>1, <2>1 DEF Blank
  <2>3. QED
    BY <1>1, <2>1, <2>2, PollerStays
<1>7. CASE Wake \/ Restart
  <2>1. /\ pc \notin {"consume", "save"}
        /\ pc' \in {"fetch", "resolve"} /\ (pc' = "fetch" => ByCursor \/ startLedger # 0)
        /\ UNCHANGED <<dead, tip, oldest, stored, saved, pool, cursor, startLedger, page, recent, gone,
                       crashes>>
    BY <1>7 DEF Wake, Restart, nodes, db
  <2>2. pool' \in Pools /\ (pc' = "fetch" => cursor'.at # 0 \/ startLedger' # 0)
    BY <1>1, <2>1 DEF ByCursor
  <2>3. QED
    BY <1>1, <2>1, <2>2, PollerMovesInv
<1>8. CASE Crash
  <2>1. /\ crashes' \in 0..MaxCrashes /\ pool' \in Pools /\ pc' = "down"
        /\ cursor' = NoCursor /\ startLedger' = 0 /\ page' = NoPage /\ recent' = <<>>
        /\ UNCHANGED <<dead, tip, oldest, stored, saved, gone>>
    BY <1>1, <1>8 DEF Crash, Blank, nodes, db
  <2>2. TypeOK'
    BY <2>1, NothingFits DEF FailoverInv, TypeOK, Pools
  <2>3. SavedInv'
    BY <2>1 DEF FailoverInv, SavedInv, CoveredTo
  <2>4. CursorInv' /\ PageInv' /\ RememberedIsStored'
    BY <2>1, NothingFits DEF CursorInv, PageInv, RememberedIsStored, ByCursor
  <2>5. QED
    BY <2>2, <2>3, <2>4 DEF FailoverInv
<1>9. QED
  BY <1>2, <1>3, <1>4, <1>5, <1>6, <1>7, <1>8

LEMMA ClearKeepsInv ==
    ASSUME FailoverInv, ClearPosition
    PROVE  FailoverInv'
<1>1. /\ pc = "clear" /\ pc' = "fetch" /\ saved' = NoPosition /\ cursor' = NoCursor
      /\ UNCHANGED <<dead, tip, oldest, stored, pool, startLedger, page, recent, gone, crashes>>
  BY DEF ClearPosition, nodes
<1>2. TypeOK'
  BY <1>1, NothingFits DEF FailoverInv, TypeOK
<1>3. SavedInv' /\ CursorInv' /\ PageInv' /\ RememberedIsStored'
  BY <1>1, NothingFits
     DEF FailoverInv, SavedInv, CursorInv, PageInv, RememberedIsStored, CoveredTo, ByCursor
<1>4. QED
  BY <1>2, <1>3 DEF FailoverInv

\* The page is stored before its position is saved.
LEMMA ConsumeKeepsInv ==
    ASSUME FailoverInv, Consume
    PROVE  FailoverInv'
<1>1. /\ pc = "consume" /\ pc' = "save" /\ stored' = stored \cup page.fresh
      /\ UNCHANGED <<dead, tip, oldest, saved, pool, cursor, startLedger, page, recent, gone, crashes>>
  BY DEF Consume, nodes
<1>2. page.fresh \subseteq Event
  BY DEF FailoverInv, TypeOK
<1>3. TypeOK'
  BY <1>1, <1>2 DEF FailoverInv, TypeOK
<1>4. SavedInv' /\ CursorInv'
  BY <1>1 DEF FailoverInv, SavedInv, CursorInv, CoveredTo, ByCursor
<1>5. PageInv'
  BY <1>1 DEF FailoverInv, PageInv, CoveredTo, CommittedLedger
<1>6. RememberedIsStored'
  BY <1>1 DEF FailoverInv, RememberedIsStored
<1>7. QED
  BY <1>3, <1>4, <1>5, <1>6 DEF FailoverInv

LEMMA SavePositionKeepsInv ==
    ASSUME FailoverInv, SavePosition
    PROVE  FailoverInv'
<1>1. /\ pc = "save" /\ pc' \in {"sleep", "fetch"}
      /\ saved' = [pos |-> page.to, at |-> page.at, ledger |-> CommittedLedger(page)]
      /\ cursor' = [pos |-> page.to, at |-> page.at] /\ startLedger' = 0 /\ page' = NoPage
      /\ UNCHANGED <<dead, tip, oldest, stored, pool, recent, gone, crashes>>
  BY DEF SavePosition, nodes
<1>2. /\ PositionFits(page.to, page.at) /\ CommittedLedger(page) \in Ledgers
      /\ EventsTo(CommittedLedger(page) - 1) <= page.to /\ CoveredTo(page.to, {})
  BY <1>1 DEF FailoverInv, PageInv
<1>3. /\ page.to \in 0..EventsTo(MaxLedger) /\ page.at \in 0..MaxLedger /\ page.at # 0
      /\ CommittedLedger(page) \in 0..MaxLedger
  <2>1. page.to \in 0..EventsTo(MaxLedger) /\ page.at \in 0..MaxLedger /\ MaxLedger \in Nat
    BY FailoverAssumption DEF FailoverInv, TypeOK
  <2>2. page.at \in Ledgers /\ CommittedLedger(page) \in Ledgers
    BY <1>2 DEF PositionFits
  <2>3. QED
    BY <2>1, <2>2 DEF Ledgers
<1>4. TypeOK'
  <2>1. /\ saved' \in [pos : 0..EventsTo(MaxLedger), at : 0..MaxLedger, ledger : 0..MaxLedger]
        /\ cursor' \in [pos : 0..EventsTo(MaxLedger), at : 0..MaxLedger]
        /\ startLedger' \in 0..MaxLedger
    BY <1>1, <1>3, FailoverAssumption DEF FailoverAssumption
  <2>2. QED
    BY <1>1, <2>1, NothingFits DEF FailoverInv, TypeOK
<1>5. /\ saved'.pos = page.to /\ saved'.at = page.at /\ saved'.ledger = CommittedLedger(page)
      /\ cursor'.pos = page.to /\ cursor'.at = page.at
  BY <1>1
<1>6. SavedInv'
  BY <1>1, <1>2, <1>5 DEF SavedInv, CoveredTo, PositionFits
<1>7. CursorInv' /\ PageInv' /\ RememberedIsStored'
  BY <1>1, <1>3, <1>5 DEF FailoverInv, CursorInv, PageInv, RememberedIsStored, ByCursor
<1>8. QED
  BY <1>4, <1>6, <1>7 DEF FailoverInv

LEMMA FailoverStep == FailoverInv /\ [FailoverNext]_failoverVars => FailoverInv'
<1>1. SUFFICES ASSUME FailoverInv, [FailoverNext]_failoverVars PROVE FailoverInv'
  OBVIOUS
<1>2. CASE \E q \in Provider : Advance(q) \/ Forget(q)
  BY <1>1, <1>2, NodesKeepInv
<1>3. CASE Process
  <2>1. CASE \/ ResolveSaved \/ ResolveFails \/ FetchErrors \/ Switch \/ SwitchIsFatal
             \/ RecoverFails \/ Wake \/ Restart
    BY <1>1, <2>1, QuietStepsKeepInv
  <2>2. CASE ResolveStart \/ Recover
    BY <1>1, <2>2, StartKeepsInv
  <2>3. CASE FetchPage
    BY <1>1, <2>3, FetchPageKeepsInv
  <2>4. CASE RetryCursor \/ RetryLedger
    BY <1>1, <2>4, RetriesKeepInv
  <2>5. CASE ClearPosition
    BY <1>1, <2>5, ClearKeepsInv
  <2>6. CASE Consume
    BY <1>1, <2>6, ConsumeKeepsInv
  <2>7. CASE SavePosition
    BY <1>1, <2>7, SavePositionKeepsInv
  <2>8. QED
    BY <1>3, <2>1, <2>2, <2>3, <2>4, <2>5, <2>6, <2>7 DEF Process
<1>4. CASE Crash
  BY <1>1, <1>4, QuietStepsKeepInv
<1>5. CASE UNCHANGED failoverVars
  <2>1. UNCHANGED <<dead, tip, oldest, stored, saved, pool, pc, cursor, startLedger, page, recent, gone,
                    crashes>>
    BY <1>5 DEF failoverVars, nodes, db, poller
  <2>2. TypeOK'
    BY <1>1, <2>1 DEF FailoverInv, TypeOK
  <2>3. SavedInv' /\ CursorInv' /\ PageInv' /\ RememberedIsStored'
    BY <1>1, <2>1 DEF FailoverInv, SavedInv, CursorInv, PageInv, RememberedIsStored, CoveredTo,
                      ByCursor, PositionFits, CommittedLedger
  <2>4. QED
    BY <2>2, <2>3 DEF FailoverInv
<1>6. QED
  BY <1>1, <1>2, <1>3, <1>4, <1>5 DEF FailoverNext

-----------------------------------------------------------------------------
(* What failover promises. *)

\* The inductive invariant holds, the shapes of the variables included.
THEOREM PositionsAreCovered == FailoverSpec => []FailoverInv
<1>1. QED
  BY InitIsFine, FailoverStep, PTL DEF FailoverSpec

\* rpc-pool.ts and poller.ts: whichever providers serve, lag, forget or refuse, and
\* wherever the process is killed, every event at or before the saved position is
\* stored or was forgotten by the provider a start began at; the dedup window
\* remembers only what is stored; and the overlap a switch fetches begins at or before
\* the position.
THEOREM SwitchingLosesNothing == FailoverSpec => []FailoverLosesNothing
<1>1. FailoverInv => FailoverLosesNothing
  <2>1. SUFFICES ASSUME FailoverInv PROVE FailoverLosesNothing
    OBVIOUS
  <2>2. SavedInv /\ RememberedIsStored
    BY <2>1 DEF FailoverInv
  <2>3. NoSilentLoss
    BY <2>2 DEF SavedInv, NoSilentLoss, CoveredTo
  <2>4. CommittedLedgerIsSafe
    BY <2>2 DEF SavedInv, CommittedLedgerIsSafe, Ledgers
  <2>5. QED
    BY <2>2, <2>3, <2>4 DEF FailoverLosesNothing
<1>2. QED
  BY <1>1, PositionsAreCovered, PTL

-----------------------------------------------------------------------------
(* Failover implements Delivery, as it is promised of several nodes. *)

\* The provider that has gone farthest is one of them.
LEMMA FarthestIsOne ==
    ASSUME NEW f \in [Provider -> Ledgers]
    PROVE  /\ Farthest(f) \in Ledgers
           /\ \A q \in Provider : f[q] <= Farthest(f)
           /\ \E q \in Provider : Farthest(f) = f[q]
<1> DEFINE S == {f[q] : q \in Provider}
<1>1. MaxLedger \in Nat /\ 0 \in Provider
  BY FailoverAssumption DEF FailoverAssumption, Provider
<1>2. S \in SUBSET Nat /\ S # {} /\ \A x \in S : x <= MaxLedger
  BY <1>1 DEF Ledgers
<1>3. \A q \in Provider : f[q] \in S
  OBVIOUS
<1>4. Farthest(f) = Max(S)
  BY DEF Farthest
<1> HIDE DEF S
<1>5. Max(S) \in S /\ \A x \in S : x <= Max(S)
  BY <1>1, <1>2, MaxIsGreatest
<1>6. \E q \in Provider : Farthest(f) = f[q]
  BY <1>4, <1>5 DEF S
<1>7. QED
  BY <1>3, <1>4, <1>5, <1>6

LEMMA FarthestGrows ==
    ASSUME NEW f \in [Provider -> Ledgers], NEW g \in [Provider -> Ledgers],
           \A q \in Provider : f[q] <= g[q]
    PROVE  Farthest(f) <= Farthest(g)
<1>1. PICK q \in Provider : Farthest(f) = f[q]
  BY FarthestIsOne
<1>2. g[q] <= Farthest(g) /\ Farthest(g) \in Nat /\ f[q] \in Nat /\ g[q] \in Nat
  BY FarthestIsOne DEF Ledgers
<1>3. QED
  BY <1>1, <1>2

\* What the promise speaks of, as numbers.
LEMMA ClosedAndForgotten ==
    ASSUME TypeOK
    PROVE  /\ Farthest(tip) \in Nat /\ EventsTo(Farthest(tip)) \in Nat
           /\ Farthest(oldest) \in Nat \ {0} /\ EventsTo(Farthest(oldest) - 1) \in Nat
           /\ EventsTo(Farthest(oldest) - 1) <= EventsTo(Farthest(tip))
           /\ \A q \in Provider : EventsTo(tip[q]) <= EventsTo(Farthest(tip))
           /\ \A q \in Provider : EventsTo(oldest[q] - 1) <= EventsTo(Farthest(oldest) - 1)
<1>1. /\ tip \in [Provider -> Ledgers] /\ oldest \in [Provider -> Ledgers]
      /\ \A q \in Provider : oldest[q] <= tip[q]
  BY DEF TypeOK
<1>2. /\ Farthest(tip) \in Nat /\ Farthest(oldest) \in Nat \ {0}
      /\ Farthest(oldest) <= Farthest(tip)
      /\ \A q \in Provider : tip[q] <= Farthest(tip) /\ oldest[q] <= Farthest(oldest)
  BY <1>1, FarthestIsOne, FarthestGrows DEF Ledgers
<1>3. /\ Farthest(oldest) - 1 \in Nat /\ Farthest(oldest) - 1 <= Farthest(tip)
  BY <1>2
<1>4. \A q \in Provider : /\ tip[q] \in Nat /\ oldest[q] - 1 \in Nat
                          /\ oldest[q] - 1 <= Farthest(oldest) - 1
  BY <1>1, <1>2 DEF Ledgers
<1>5. QED
  BY <1>2, <1>3, <1>4, LedgersAdjoin

\* What a provider forgets was closed, and the counters of the promise only grow.
LEMMA NodesRefine ==
    ASSUME FailoverInv, FailoverInv', NEW q \in Provider, Advance(q) \/ Forget(q)
    PROVE  Promise!Publish \/ Promise!Expire
<1>1. /\ tip \in [Provider -> Ledgers] /\ oldest \in [Provider -> Ledgers]
      /\ tip' \in [Provider -> Ledgers] /\ oldest' \in [Provider -> Ledgers]
  BY DEF FailoverInv, TypeOK
<1>2. TypeOK /\ TypeOK'
  BY DEF FailoverInv
<1>3. UNCHANGED <<stored, gone, saved>>
  BY DEF Advance, Forget, db
<1>4. CASE Advance(q)
  <2>1. tip' = [tip EXCEPT ![q] = @ + 1] /\ oldest' = oldest
    BY <1>4 DEF Advance
  <2>2. \A r \in Provider : tip[r] <= tip'[r]
    BY <1>1, <2>1 DEF Ledgers
  <2>3. Farthest(tip) <= Farthest(tip') /\ Farthest(tip') \in Nat
    BY <1>1, <2>2, FarthestGrows, FarthestIsOne DEF Ledgers
  <2>4. EventsTo(Farthest(tip')) \in Nat /\ EventsTo(Farthest(tip)) <= EventsTo(Farthest(tip'))
    BY <1>2, <2>3, ClosedAndForgotten, LedgersAdjoin
  <2>5. QED
    BY <1>2, <1>3, <2>1, <2>4, ClosedAndForgotten DEF Promise!Publish
<1>5. CASE Forget(q)
  <2>1. oldest' = [oldest EXCEPT ![q] = @ + 1] /\ tip' = tip
    BY <1>5 DEF Forget
  <2>2. \A r \in Provider : oldest[r] <= oldest'[r] /\ oldest'[r] <= tip[r]
    <3>1. \A r \in Provider : oldest[r] <= oldest'[r]
      BY <1>1, <2>1 DEF Ledgers
    <3>2. \A r \in Provider : oldest'[r] <= tip'[r]
      BY <1>2 DEF TypeOK
    <3>3. QED
      BY <2>1, <3>1, <3>2
  <2>3. /\ Farthest(oldest) <= Farthest(oldest') /\ Farthest(oldest') <= Farthest(tip)
        /\ Farthest(oldest') \in Nat \ {0}
    BY <1>1, <2>2, FarthestGrows, FarthestIsOne DEF Ledgers
  <2>4. /\ EventsTo(Farthest(oldest') - 1) \in Nat
        /\ EventsTo(Farthest(oldest) - 1) <= EventsTo(Farthest(oldest') - 1)
        /\ EventsTo(Farthest(oldest') - 1) <= EventsTo(Farthest(tip))
    <3>1. /\ Farthest(oldest) \in Nat \ {0} /\ Farthest(tip) \in Nat
      BY <1>2, ClosedAndForgotten
    <3>2. /\ Farthest(oldest) - 1 \in Nat /\ Farthest(oldest') - 1 \in Nat
          /\ Farthest(oldest) - 1 <= Farthest(oldest') - 1
          /\ Farthest(oldest') - 1 <= Farthest(tip)
      BY <2>3, <3>1
    <3>3. QED
      BY <3>1, <3>2, LedgersAdjoin
  <2>5. QED
    BY <1>2, <1>3, <2>1, <2>4, ClosedAndForgotten DEF Promise!Expire
<1>6. QED
  BY <1>4, <1>5

\* A start gives up what the provider that answers no longer holds.
LEMMA StartRefines ==
    ASSUME FailoverInv, ResolveStart \/ Recover
    PROVE  Promise!GiveUpSome
<1>1. PICK p \in Probed : gone' = gone \cup 1..EventsTo(oldest[p.active] - 1)
  BY DEF ResolveStart, Recover
<1>2. UNCHANGED <<tip, oldest, stored, saved>>
  BY DEF ResolveStart, Recover, nodes, db
<1>3. TypeOK /\ p.active \in Provider
  BY PoolMoves DEF FailoverInv, Pools
<1>4. EventsTo(oldest[p.active] - 1) \in 0..EventsTo(Farthest(oldest) - 1)
  <2>1. oldest[p.active] - 1 \in Nat
    BY <1>3, LedgersAreNumbers
  <2>2. QED
    BY <1>3, <2>1, ClosedAndForgotten, LedgersAdjoin
<1>5. QED
  BY <1>1, <1>2, <1>4 DEF Promise!GiveUpSome

-----------------------------------------------------------------------------

\* The page in hand is of closed events.
HandInv ==
    pc \in {"consume", "save"} =>
        page.to <= EventsTo(Farthest(tip)) /\ page.fresh \subseteq 1..page.to

\* A request is answered from a place the provider holds, or the poller takes nothing in.
LEMMA RequestsFrom ==
    ASSUME FailoverInv, FetchPage \/ RetryCursor \/ RetryLedger
    PROVE  \/ \E q \in Provider, from \in Nat : from <= EventsTo(tip[q]) /\ Receive(q, from)
           \/ pc' \notin {"consume", "save"} /\ UNCHANGED <<tip, oldest, stored, gone, saved>>
<1>1. CASE FetchPage
  <2>1. PICK p \in Probed : Holds(p.active, StartAt) /\ Receive(p.active, StartPos)
    BY <1>1 DEF FetchPage
  <2>2. p.active \in Provider /\ (ByCursor \/ startLedger # 0)
    BY <1>1, PoolMoves DEF FailoverInv, Pools, FetchPage, CursorInv
  <2>3. StartPos \in Nat /\ StartPos <= EventsTo(tip[p.active])
    <3>1. CASE ByCursor
      BY <2>1, <2>2, <3>1, StartFits DEF StartAt, StartPos
    <3>2. CASE ~ByCursor
      BY <2>1, <2>2, <3>2, StartFits DEF StartAt, StartPos
    <3>3. QED
      BY <3>1, <3>2
  <2>4. QED
    BY <2>1, <2>2, <2>3
<1>2. CASE RetryCursor \/ RetryLedger
  <2>1. pool.active \in Provider /\ ByCursor
    BY <1>2 DEF FailoverInv, TypeOK, CursorInv, RetryCursor, RetryLedger
  <2>2. \/ Holds(pool.active, cursor.at) /\ Receive(pool.active, cursor.pos)
        \/ Holds(pool.active, saved.ledger) /\ Receive(pool.active, FromCommitted)
        \/ pc' \notin {"consume", "save"} /\ UNCHANGED <<tip, oldest, stored, gone, saved>>
    BY <1>2 DEF RetryCursor, RetryLedger, Throw, nodes, db
  <2>3. QED
    BY <2>1, <2>2, StartFits
<1>3. QED
  BY <1>1, <1>2

LEMMA ReceiveKeepsHand ==
    ASSUME FailoverInv, NEW q \in Provider, NEW from \in Nat, from <= EventsTo(tip[q]),
           Receive(q, from)
    PROVE  HandInv' /\ UNCHANGED Promise!vars
<1> DEFINE s == Served(q, from)
           after == AddAll(from, s.to)
<1>1. TypeOK
  BY DEF FailoverInv
<1>2. /\ s.to \in Nat /\ from <= s.to /\ s.to <= EventsTo(MaxLedger) /\ s.to <= EventsTo(tip[q])
      /\ s.fresh = after.fresh
  BY <1>1, ServedFits
<1>3. page' = s /\ UNCHANGED <<tip, oldest, stored, saved, gone>>
  BY DEF Receive, nodes, db
<1> HIDE DEF s
<1>4. (from + 1)..s.to \subseteq Event
  <2>1. EventsTo(MaxLedger) \in Nat
    BY FailoverAssumption, LedgersAdjoin DEF FailoverAssumption
  <2>2. QED
    BY <1>2, <2>1 DEF Event
<1>5. Passes(after, from, s.to - from)
  BY <1>1, <1>2, <1>4, AddAllPasses DEF TypeOK
<1> HIDE DEF after
<1>6. s.fresh \subseteq 1..s.to
  <2>1. from + (s.to - from) = s.to /\ (from + 1)..s.to \subseteq 1..s.to
    BY <1>2
  <2>2. QED
    BY <1>2, <1>5, <2>1 DEF Passes
<1>7. s.to <= EventsTo(Farthest(tip))
  <2>1. tip[q] \in Nat
    BY <1>1, LedgersAreNumbers
  <2>2. EventsTo(tip[q]) \in Nat
    BY <2>1, LedgersAdjoin
  <2>3. QED
    BY <1>1, <1>2, <2>2, ClosedAndForgotten
<1>8. HandInv'
  BY <1>3, <1>6, <1>7 DEF HandInv
<1>9. QED
  BY <1>3, <1>8 DEF Promise!vars

\* Only a page, once it is in hand, has to be of closed events.
LEMMA HandStep ==
    ASSUME FailoverInv, FailoverInv', HandInv, [FailoverNext]_failoverVars
    PROVE  HandInv'
<1>1. CASE \E q \in Provider : Advance(q) \/ Forget(q)
  <2>1. PICK q \in Provider : Advance(q) \/ Forget(q)
    BY <1>1
  <2>2. pc' = pc /\ page' = page
    BY <2>1 DEF Advance, Forget, poller
  <2>3. EventsTo(Farthest(tip)) <= EventsTo(Farthest(tip'))
    <3>1. /\ tip \in [Provider -> Ledgers] /\ tip' \in [Provider -> Ledgers]
          /\ TypeOK /\ TypeOK'
      BY DEF FailoverInv, TypeOK
    <3>2. \A r \in Provider : tip[r] <= tip'[r]
      BY <2>1, <3>1 DEF Advance, Forget, Ledgers
    <3>3. Farthest(tip) <= Farthest(tip') /\ Farthest(tip) \in Nat /\ Farthest(tip') \in Nat
      BY <3>1, <3>2, FarthestGrows, FarthestIsOne DEF Ledgers
    <3>4. QED
      BY <3>3, LedgersAdjoin
  <2>4. /\ EventsTo(Farthest(tip)) \in Nat /\ EventsTo(Farthest(tip')) \in Nat /\ page.to \in Nat
    <3>1. TypeOK /\ TypeOK'
      BY DEF FailoverInv
    <3>2. page.to \in Nat
      BY <3>1, FailoverAssumption, LedgersAdjoin DEF TypeOK, FailoverAssumption
    <3>3. tip \in [Provider -> Ledgers] /\ tip' \in [Provider -> Ledgers]
      BY <3>1 DEF TypeOK
    <3>4. Farthest(tip) \in Nat /\ Farthest(tip') \in Nat
      BY <3>3, FarthestIsOne DEF Ledgers
    <3>5. QED
      BY <3>2, <3>4, LedgersAdjoin
  <2>5. QED
    BY <2>2, <2>3, <2>4 DEF HandInv
<1>2. CASE FetchPage \/ RetryCursor \/ RetryLedger
  BY <1>2, RequestsFrom, ReceiveKeepsHand DEF HandInv
<1>3. CASE Consume
  BY <1>3 DEF Consume, nodes, HandInv
<1>4. CASE pc' \notin {"consume", "save"}
  BY <1>4 DEF HandInv
<1>5. CASE UNCHANGED failoverVars
  BY <1>5 DEF failoverVars, nodes, poller, HandInv
<1>6. ASSUME \/ ResolveSaved \/ ResolveStart \/ ResolveFails \/ FetchErrors \/ Switch
             \/ SwitchIsFatal \/ Recover \/ RecoverFails \/ ClearPosition \/ SavePosition
             \/ Wake \/ Restart \/ Crash
      PROVE  pc' \notin {"consume", "save"}
  BY <1>6 DEF ResolveSaved, ResolveStart, ResolveFails, FetchErrors, Throw, Switch, SwitchIsFatal,
              Recover, RecoverFails, ClearPosition, SavePosition, Wake, Restart, Crash
<1>7. QED
  BY <1>1, <1>2, <1>3, <1>4, <1>5, <1>6 DEF FailoverNext, Process

\* A page is stored, and its position saved once it is.
LEMMA PageRefines ==
    ASSUME FailoverInv, HandInv, Consume \/ SavePosition
    PROVE  Promise!Store \/ Promise!AcknowledgeAny
<1>1. /\ pc \in {"consume", "save"} /\ page.to \in Nat /\ TypeOK
      /\ page.to <= EventsTo(Farthest(tip)) /\ EventsTo(Farthest(tip)) \in Nat
      /\ page.fresh \subseteq 1..page.to
  <2>1. pc \in {"consume", "save"} /\ TypeOK
    BY DEF Consume, SavePosition, FailoverInv
  <2>2. page.to \in Nat
    BY <2>1, FailoverAssumption, LedgersAdjoin DEF TypeOK, FailoverAssumption
  <2>3. QED
    BY <2>1, <2>2, ClosedAndForgotten DEF HandInv
<1>2. CASE Consume
  <2>1. stored' = stored \cup page.fresh /\ UNCHANGED <<tip, oldest, saved, gone>>
    BY <1>2 DEF Consume, nodes
  <2>2. page.fresh \subseteq 1..EventsTo(Farthest(tip))
    BY <1>1
  <2>3. QED
    BY <2>1, <2>2 DEF Promise!Store
<1>3. CASE SavePosition
  <2>1. saved'.pos = page.to /\ UNCHANGED <<tip, oldest, stored, gone>>
    BY <1>3 DEF SavePosition, nodes
  <2>2. pc = "save" /\ CoveredTo(page.to, {})
    BY <1>3 DEF SavePosition, FailoverInv, PageInv
  <2>3. \A e \in 1..page.to : e \in stored \/ e \in gone
    BY <2>2 DEF CoveredTo
  <2>4. page.to \in 0..EventsTo(Farthest(tip))
    BY <1>1
  <2>5. QED
    BY <2>1, <2>3, <2>4 DEF Promise!AcknowledgeAny, Promise!Accounted
<1>4. QED
  BY <1>2, <1>3

\* A refused position is dropped.
LEMMA DropRefines ==
    ASSUME FailoverInv, ClearPosition
    PROVE  Promise!AcknowledgeAny
<1>1. saved'.pos = 0 /\ UNCHANGED <<tip, oldest, stored, gone>>
  BY DEF ClearPosition, nodes, NoPosition
<1>2. 0 \in 0..EventsTo(Farthest(tip)) /\ 1..0 = {}
  BY ClosedAndForgotten DEF FailoverInv
<1>3. QED
  BY <1>1, <1>2 DEF Promise!AcknowledgeAny, Promise!Accounted

\* rpc-pool.ts and poller.ts against ADR-004: for every number of providers, every window
\* each serves and every threshold, whatever they do and wherever the process is killed,
\* the database keeps the promise of Delivery as several nodes can keep it.
THEOREM PoolIsAtLeastOnce == FailoverSpec => DeliversAtLeastOnce
<1>1. FailoverInit => HandInv /\ Promise!Init
  <2>1. SUFFICES ASSUME FailoverInit PROVE HandInv /\ Promise!Init
    OBVIOUS
  <2>2. TypeOK
    BY <2>1, InitIsFine DEF FailoverInv
  <2>3. /\ \A q \in Provider : oldest[q] = 1
        /\ stored = {} /\ gone = {} /\ saved.pos = 0 /\ pc = "resolve"
    BY <2>1 DEF FailoverInit, NoPosition
  <2>4. Farthest(oldest) = 1
    BY <2>2, <2>3, FarthestIsOne DEF TypeOK
  <2>5. EventsTo(Farthest(oldest) - 1) = 0
    BY <2>4, FailoverAssumption DEF EventsTo, FailoverAssumption
  <2>6. EventsTo(Farthest(tip)) \in Nat
    BY <2>2, ClosedAndForgotten
  <2>7. QED
    BY <2>3, <2>5, <2>6 DEF HandInv, Promise!Init
<1>2. FailoverInv /\ FailoverInv' /\ HandInv /\ [FailoverNext]_failoverVars => HandInv'
  BY HandStep
<1>3. FailoverInv /\ FailoverInv' /\ HandInv /\ [FailoverNext]_failoverVars
        => [Promise!NextOfMany]_Promise!vars
  <2>1. SUFFICES ASSUME FailoverInv, FailoverInv', HandInv, [FailoverNext]_failoverVars
                 PROVE  Promise!NextOfMany \/ UNCHANGED Promise!vars
    OBVIOUS
  <2>2. CASE \E q \in Provider : Advance(q) \/ Forget(q)
    BY <2>1, <2>2, NodesRefine DEF Promise!NextOfMany
  <2>3. CASE ResolveStart \/ Recover
    BY <2>1, <2>3, StartRefines DEF Promise!NextOfMany
  <2>4. CASE Consume \/ SavePosition \/ ClearPosition
    BY <2>1, <2>4, PageRefines, DropRefines DEF Promise!NextOfMany
  <2>5. CASE FetchPage \/ RetryCursor \/ RetryLedger
    BY <2>1, <2>5, RequestsFrom, ReceiveKeepsHand DEF Promise!vars
  <2>6. ASSUME \/ ResolveSaved \/ ResolveFails \/ FetchErrors \/ Switch \/ SwitchIsFatal
               \/ RecoverFails \/ Wake \/ Restart \/ Crash \/ UNCHANGED failoverVars
        PROVE  UNCHANGED Promise!vars
    <3>1. UNCHANGED <<tip, oldest, stored, saved, gone>>
      BY <2>6 DEF ResolveSaved, ResolveFails, FetchErrors, Switch, SwitchIsFatal, RecoverFails, Wake,
                  Restart, Crash, failoverVars, nodes, db
    <3>2. QED
      BY <3>1 DEF Promise!vars
  <2>7. QED
    BY <2>1, <2>2, <2>3, <2>4, <2>5, <2>6 DEF FailoverNext, Process
<1>4. QED
  BY <1>1, <1>2, <1>3, PositionsAreCovered, PTL
     DEF FailoverSpec, DeliversAtLeastOnce, Promise!SpecOfMany

-----------------------------------------------------------------------------
(* RpcClient: the inductive invariant. *)

OfChunk(i, e) == Of(e) \in ChunkFilters[i]

Doing == [chunk : Chunks \cup {0}, attempt : Nat, doing : {"ask", "sleep", "gone"}]

RpcTypeOK ==
    /\ emitted \in Nat /\ cursors \in [Chunks -> Nat] /\ calling \in {"idle", "running"}
    /\ nextChunk \in Nat \ {0}
    /\ worker \in [1..PoolSize -> Doing]
    /\ \A w \in 1..PoolSize : worker[w].doing # "gone" => worker[w].chunk \in Chunks
    /\ \A w \in 1..PoolSize : worker[w].doing = "gone" => worker[w] = Gone
    /\ results \in [Chunks -> [events : SUBSET Nat, cursor : Nat]]
    /\ answers \in Seq(Nat)

\* The page of a chunk begins at its cursor and leaves nothing out.
Filled(i) ==
    /\ results[i].cursor \in cursors[i]..emitted
    /\ results[i].events = {e \in (cursors[i] + 1)..results[i].cursor : OfChunk(i, e)}

\* While a call runs, a chunk is answered, in a worker's hands or still to be taken;
\* and a worker goes only when none is left to take.
CallInv ==
    calling = "running" =>
        /\ \A i \in Chunks :
              Filled(i) \/ i >= nextChunk
              \/ \E w \in 1..PoolSize : worker[w].doing # "gone" /\ worker[w].chunk = i
        /\ (\E w \in 1..PoolSize : worker[w].doing = "gone") => nextChunk \notin Chunks

RpcInv ==
    /\ RpcTypeOK /\ CallInv /\ ChunksAreExact
    /\ \A i \in Chunks : cursors[i] <= emitted

-----------------------------------------------------------------------------
(* RpcClient: chunks and pages. *)

\* There is a chunk, a worker for it, and no worker too many.
LEMMA ChunkFacts ==
    /\ \E n \in Nat \ {0} : Chunks = 1..n /\ PoolSize \in 1..n
    /\ PoolSize \in Nat \ {0} /\ 1..PoolSize \subseteq Chunks /\ Chunks \subseteq Nat \ {0}
    /\ \A m \in Nat : m \in Chunks /\ m + 1 \notin Chunks => \A i \in Chunks : i < m + 1
    /\ \A m \in Nat \ {0} : m \notin Chunks => \A i \in Chunks : i < m
<1> DEFINE n == (Contracts + PerFilter - 1) \div PerFilter
<1>1. Contracts \in Nat \ {0} /\ PerFilter \in Nat \ {0} /\ Concurrency \in Nat
  BY RpcClientAssumption DEF RpcClientAssumption
<1>2. n \in Nat \ {0}
  <2>1. \A a, p \in Nat \ {0} : (a + p - 1) \div p \in Nat \ {0}
    OBVIOUS
  <2>2. QED
    BY <1>1, <2>1
<1> HIDE DEF n
<1>3. ChunkFilters = [i \in 1..n |-> {c \in 1..Contracts : (c - 1) \div PerFilter + 1 = i}]
  BY DEF ChunkFilters, n
<1>4. Chunks = 1..n /\ Len(ChunkFilters) = n
  BY <1>2, <1>3 DEF Chunks
<1>5. Min({Concurrency, n}) \in 0..n
  BY <1>1, <1>2, OfTwo
<1>6. Max({1, Min({Concurrency, n})}) \in 1..n
  <2> DEFINE m == Min({Concurrency, n})
  <2> HIDE DEF m
  <2>1. m \in 0..n
    BY <1>5 DEF m
  <2>2. Max({1, m}) = IF 1 <= m THEN m ELSE 1
    BY <1>2, <2>1, OfTwo
  <2>3. QED
    BY <1>2, <2>1, <2>2 DEF m
<1>7. PoolSize \in 1..n
  BY <1>4, <1>6 DEF PoolSize
<1>8. QED
  BY <1>2, <1>4, <1>7

\* No event belongs to two chunks.
LEMMA ChunksDisjoint ==
    ASSUME NEW i \in Chunks, NEW j \in Chunks, NEW e, OfChunk(i, e), OfChunk(j, e)
    PROVE  i = j
<1>1. \A k \in Chunks : ChunkFilters[k] = {c \in 1..Contracts : (c - 1) \div PerFilter + 1 = k}
  BY DEF Chunks, ChunkFilters
<1>2. QED
  BY <1>1 DEF OfChunk

\* A page is filled from its cursor.
LEMMA PageIsFilled ==
    ASSUME NEW i \in Chunks, cursors[i] \in Nat, emitted \in Nat, cursors[i] <= emitted
    PROVE  /\ ChunkPage(i) = [events |-> ChunkPage(i).events, cursor |-> ChunkPage(i).cursor]
           /\ ChunkPage(i).cursor \in cursors[i]..emitted
           /\ ChunkPage(i).events = {e \in (cursors[i] + 1)..ChunkPage(i).cursor : OfChunk(i, e)}
<1> DEFINE events == {e \in (cursors[i] + 1)..emitted : Of(e) \in ChunkFilters[i]}
           before(e) == {d \in events : d < e}
           served == {e \in events : Cardinality(before(e)) < PageLimit}
           end == IF served = {} THEN cursors[i] ELSE Max(served)
           first == {e \in events : e <= end}
<1>1. ChunkPage(i) = [events |-> served, cursor |-> end]
  BY DEF ChunkPage
<1>2. events \in SUBSET Nat /\ served \subseteq events /\ \A e \in events : cursors[i] < e /\ e <= emitted
  OBVIOUS
<1>3. IsFiniteSet(events)
  <2>1. IsFiniteSet((cursors[i] + 1)..emitted)
    BY FS_Interval
  <2>2. QED
    BY <2>1, FS_Subset
<1>4. ASSUME NEW d \in events, NEW e \in served, d <= e PROVE d \in served
  <2>1. before(d) \subseteq before(e)
    BY <1>2, <1>4
  <2>2. IsFiniteSet(before(e)) /\ IsFiniteSet(before(d))
    BY <1>3, FS_Subset
  <2>3. Cardinality(before(d)) <= Cardinality(before(e))
    BY <2>1, <2>2, FS_Subset
  <2>4. Cardinality(before(d)) \in Nat /\ Cardinality(before(e)) \in Nat /\ PageLimit \in Nat
    BY <2>2, FS_CardinalityType, RpcClientAssumption DEF RpcClientAssumption
  <2>5. Cardinality(before(e)) < PageLimit
    BY <1>4
  <2>6. QED
    BY <2>3, <2>4, <2>5
<1> HIDE DEF served, events
<1>5. /\ end \in cursors[i]..emitted
      /\ served = {} => end = cursors[i]
      /\ served # {} => (end \in served /\ \A e \in served : e <= end)
  <2>1. served = {} => end = cursors[i]
    OBVIOUS
  <2>2. ASSUME served # {} PROVE end \in served /\ \A e \in served : e <= end
    <3>1. served \in SUBSET Nat /\ \A e \in served : e <= emitted
      BY <1>2
    <3>2. Max(served) \in served /\ \A e \in served : e <= Max(served)
      BY <2>2, <3>1, MaxIsGreatest
    <3>3. QED
      BY <2>2, <3>2
  <2> HIDE DEF end
  <2>3. end \in cursors[i]..emitted
    <3>1. \A e \in served : e \in Nat /\ cursors[i] <= e /\ e <= emitted
      BY <1>2
    <3>2. QED
      BY <2>1, <2>2, <3>1
  <2>4. QED
    BY <2>1, <2>2, <2>3
<1> HIDE DEF end
<1>6. ASSUME NEW e PROVE e \in served <=> e \in events /\ e <= end
  <2>1. ASSUME e \in served PROVE e \in events /\ e <= end
    BY <1>2, <1>5, <2>1
  <2>2. ASSUME e \in events, e <= end PROVE e \in served
    <3>1. served # {}
      <4>1. SUFFICES ASSUME served = {} PROVE FALSE
        OBVIOUS
      <4>2. end = cursors[i] /\ e \in Nat /\ cursors[i] < e
        BY <1>2, <1>5, <2>2, <4>1
      <4>3. QED
        BY <2>2, <4>2
    <3>2. end \in served
      BY <1>5, <3>1
    <3>3. QED
      BY <1>4, <2>2, <3>2
  <2>3. QED
    BY <2>1, <2>2
<1>7. served = {e \in (cursors[i] + 1)..end : OfChunk(i, e)}
  BY <1>5, <1>6 DEF events, OfChunk
<1>8. QED
  BY <1>1, <1>5, <1>7

\* A merged page goes behind what was answered before.
LEMMA AnswerGoesBehind ==
    ASSUME NEW a \in Seq(Nat), NEW S \in SUBSET Nat, IsFiniteSet(S), NEW b \in Ascending(S),
           NEW all, all = a \o b
    PROVE  /\ all \in Seq(Nat) /\ Range(all) = Range(a) \cup S
           /\ \A j, k \in DOMAIN all : j < k =>
                 \/ j \in DOMAIN a /\ k \in DOMAIN a /\ all[j] = a[j] /\ all[k] = a[k]
                 \/ all[j] \in Range(a) /\ all[k] \in S
                 \/ all[j] \in S /\ all[k] \in S /\ all[j] < all[k]
<1>1. b \in [1..Cardinality(S) -> S] /\ Range(b) = S /\ \A i, j \in DOMAIN b : i < j => b[i] < b[j]
  BY DEF Ascending
<1>2. b \in Seq(Nat)
  BY <1>1, ListIsSeq
<1>3. Behind(Nat, a, b, all)
  BY <1>2, PutBehind
<1>4. \A n \in DOMAIN b : b[n] \in S
  BY <1>1
<1>5. ASSUME NEW j \in DOMAIN all, NEW k \in DOMAIN all, j < k
      PROVE  \/ j \in DOMAIN a /\ k \in DOMAIN a /\ all[j] = a[j] /\ all[k] = a[k]
             \/ all[j] \in Range(a) /\ all[k] \in S
             \/ all[j] \in S /\ all[k] \in S /\ all[j] < all[k]
  <2>1. \/ j \in DOMAIN a /\ k \in DOMAIN a /\ all[j] = a[j] /\ all[k] = a[k]
        \/ all[j] \in Range(a) /\ all[k] \in Range(b)
        \/ \E m, n \in DOMAIN b : m < n /\ all[j] = b[m] /\ all[k] = b[n]
    BY <1>3, <1>5 DEF Behind
  <2>2. CASE \E m, n \in DOMAIN b : m < n /\ all[j] = b[m] /\ all[k] = b[n]
    <3>1. PICK m \in DOMAIN b, n \in DOMAIN b : m < n /\ all[j] = b[m] /\ all[k] = b[n]
      BY <2>2
    <3>2. b[m] \in S /\ b[n] \in S /\ b[m] < b[n]
      BY <1>1, <1>4, <3>1
    <3>3. QED
      BY <3>1, <3>2
  <2>3. QED
    BY <1>1, <2>1, <2>2
<1>6. all \in Seq(Nat) /\ Range(all) = Range(a) \cup S
  BY <1>1, <1>3 DEF Behind
<1>7. QED
  BY <1>5, <1>6

-----------------------------------------------------------------------------
(* RpcClient: the steps. *)

LEMMA RpcInitIsFine == RpcInit => RpcInv
<1>1. SUFFICES ASSUME RpcInit PROVE RpcInv
  OBVIOUS
<1>2. Chunks \subseteq Nat \ {0} /\ PoolSize \in Nat \ {0}
  BY ChunkFacts
<1>3. RpcTypeOK
  BY <1>1, <1>2 DEF RpcInit, RpcTypeOK, Doing, Gone, NoBatch
<1>4. CallInv
  BY <1>1 DEF RpcInit, CallInv
<1>5. ChunksAreExact
  <2>1. answers = <<>> /\ \A i \in Chunks : cursors[i] = 0
    BY <1>1 DEF RpcInit
  <2>2. Range(answers) = {} /\ DOMAIN answers = {} /\ 1..0 = {}
    BY <2>1 DEF Range
  <2>3. QED
    BY <2>1, <2>2 DEF ChunksAreExact
<1>6. \A i \in Chunks : cursors[i] <= emitted
  BY <1>1 DEF RpcInit
<1>7. QED
  BY <1>3, <1>4, <1>5, <1>6 DEF RpcInv

\* Where neither the cursors nor the answers change, nothing is delivered.
LEMMA NothingDelivered ==
    ASSUME RpcInv, UNCHANGED <<cursors, answers>>, emitted' \in Nat, emitted' >= emitted,
           RpcTypeOK', CallInv'
    PROVE  RpcInv'
<1>1. ChunksAreExact'
  BY DEF RpcInv, ChunksAreExact
<1>2. \A i \in Chunks : cursors'[i] <= emitted'
  BY DEF RpcInv, RpcTypeOK
<1>3. QED
  BY <1>1, <1>2 DEF RpcInv

LEMMA CallChunkedKeepsInv == ASSUME RpcInv, CallChunked PROVE RpcInv'
<1>1. /\ PoolSize \in Nat \ {0} /\ 1..PoolSize \subseteq Chunks /\ Chunks \subseteq Nat \ {0}
  BY ChunkFacts
<1>2. /\ calling' = "running" /\ nextChunk' = PoolSize + 1
      /\ worker' = [w \in 1..PoolSize |-> [chunk |-> w, attempt |-> 0, doing |-> "ask"]]
      /\ results' = [i \in Chunks |-> NoBatch]
      /\ UNCHANGED <<emitted, cursors, answers>>
  BY DEF CallChunked
<1>3. RpcTypeOK'
  BY <1>1, <1>2 DEF RpcInv, RpcTypeOK, Doing, NoBatch
<1>4. CallInv'
  <2>1. \A w \in 1..PoolSize : worker'[w].doing = "ask" /\ worker'[w].chunk = w
    BY <1>2
  <2>2. ASSUME NEW i \in Chunks, ~(i >= nextChunk') PROVE i \in 1..PoolSize
    BY <1>1, <1>2, <2>2
  <2>3. QED
    BY <2>1, <2>2 DEF CallInv
<1>5. QED
  BY <1>2, <1>3, <1>4, NothingDelivered DEF RpcInv, RpcTypeOK

LEMMA ChunkAnsweredKeepsInv ==
    ASSUME RpcInv, NEW w \in 1..PoolSize, ChunkAnswered(w) PROVE RpcInv'
<1>0. PICK c : c = worker[w].chunk
  OBVIOUS
<1> DEFINE taken == IF nextChunk \in Chunks THEN [chunk |-> nextChunk, attempt |-> 0, doing |-> "ask"]
                    ELSE Gone
<1>1. /\ calling = "running" /\ worker[w].doing = "ask"
      /\ results' = [results EXCEPT ![c] = ChunkPage(c)]
      /\ worker' = [worker EXCEPT ![w] = taken] /\ nextChunk' = nextChunk + 1
      /\ UNCHANGED <<emitted, cursors, calling, answers>>
  BY <1>0 DEF ChunkAnswered, TakeChunk
<1>2. RpcTypeOK /\ CallInv /\ \A i \in Chunks : cursors[i] <= emitted
  BY DEF RpcInv
<1>3. c \in Chunks /\ cursors[c] \in Nat /\ emitted \in Nat /\ cursors[c] <= emitted
  BY <1>0, <1>1, <1>2 DEF RpcTypeOK
<1>4. /\ ChunkPage(c) = [events |-> ChunkPage(c).events, cursor |-> ChunkPage(c).cursor]
      /\ ChunkPage(c).cursor \in cursors[c]..emitted
      /\ ChunkPage(c).events = {e \in (cursors[c] + 1)..ChunkPage(c).cursor : OfChunk(c, e)}
  BY <1>3, PageIsFilled
<1>5. ChunkPage(c) \in [events : SUBSET Nat, cursor : Nat]
  <2>1. ChunkPage(c).events \in SUBSET Nat /\ ChunkPage(c).cursor \in Nat
    BY <1>3, <1>4
  <2>2. QED
    BY <1>4, <2>1
<1>6. taken \in Doing /\ (taken.doing # "gone" => taken.chunk \in Chunks)
      /\ (taken.doing = "gone" => taken = Gone /\ nextChunk \notin Chunks)
      /\ (nextChunk \in Chunks => taken.doing # "gone" /\ taken.chunk = nextChunk)
  BY DEF Doing, Gone
<1> HIDE DEF taken
<1>7. RpcTypeOK'
  BY <1>1, <1>2, <1>3, <1>5, <1>6 DEF RpcTypeOK
<1>8. CallInv'
  <2>1. Filled(c)'
    <3>1. results'[c] = ChunkPage(c) /\ cursors' = cursors /\ emitted' = emitted
      BY <1>1, <1>2, <1>3 DEF RpcTypeOK
    <3>2. QED
      BY <1>4, <3>1, Zenon DEF Filled
  <2>2. \A i \in Chunks : i # c /\ Filled(i) => Filled(i)'
    BY <1>1, <1>2 DEF Filled, RpcTypeOK
  <2>3. ASSUME NEW i \in Chunks
        PROVE  Filled(i)' \/ i >= nextChunk' \/ \E v \in 1..PoolSize : worker'[v].doing # "gone" /\ worker'[v].chunk = i
    <3>1. CASE i = c
      BY <2>1, <3>1
    <3>2. CASE i # c /\ Filled(i)
      BY <2>2, <3>2
    <3>3. CASE i >= nextChunk
      <4>1. CASE i = nextChunk
        BY <1>1, <1>2, <1>6, <4>1 DEF RpcTypeOK
      <4>2. CASE i # nextChunk
        <5>1. i \in Nat /\ nextChunk \in Nat
          BY <1>2, ChunkFacts DEF RpcTypeOK
        <5>2. QED
          BY <1>1, <3>3, <4>2, <5>1
      <4>3. QED
        BY <4>1, <4>2
    <3>4. CASE i # c /\ \E v \in 1..PoolSize : worker[v].doing # "gone" /\ worker[v].chunk = i
      <4>1. PICK v \in 1..PoolSize : worker[v].doing # "gone" /\ worker[v].chunk = i
        BY <3>4
      <4>2. v # w
        BY <1>0, <3>4, <4>1
      <4>3. worker'[v] = worker[v]
        BY <1>1, <1>2, <4>2 DEF RpcTypeOK
      <4>4. QED
        BY <4>1, <4>3
    <3>5. Filled(i) \/ i >= nextChunk \/ \E v \in 1..PoolSize : worker[v].doing # "gone" /\ worker[v].chunk = i
      BY <1>1, <1>2 DEF CallInv
    <3>6. QED
      BY <3>1, <3>2, <3>3, <3>4, <3>5
  <2>4. ASSUME NEW v \in 1..PoolSize, worker'[v].doing = "gone" PROVE nextChunk' \notin Chunks
    <3>1. nextChunk \notin Chunks
      <4>1. CASE v = w
        BY <1>1, <1>2, <1>6, <2>4, <4>1 DEF RpcTypeOK
      <4>2. CASE v # w
        BY <1>1, <1>2, <2>4, <4>2 DEF RpcTypeOK, CallInv
      <4>3. QED
        BY <4>1, <4>2
    <3>2. nextChunk \in Nat \ {0}
      BY <1>2 DEF RpcTypeOK
    <3>3. \A i \in Chunks : i < nextChunk
      BY <3>1, <3>2, ChunkFacts
    <3>4. QED
      BY <1>1, <3>2, <3>3
  <2>5. QED
    BY <1>1, <2>3, <2>4 DEF CallInv
<1>9. QED
  BY <1>1, <1>3, <1>7, <1>8, NothingDelivered

\* Sleeping and waking change no chunk; an error that is final ends the call.
LEMMA RetriesKeepRpcInv ==
    ASSUME RpcInv, NEW w \in 1..PoolSize,
           WakeUp(w) \/ \E error \in Errors : ChunkFails(w, error)
    PROVE  RpcInv'
<1>1. RpcTypeOK /\ CallInv /\ calling = "running" /\ UNCHANGED <<emitted, cursors, nextChunk, results, answers>>
  BY DEF RpcInv, WakeUp, ChunkFails
<1>2. CASE calling' = "idle"
  <2>1. worker' = [v \in 1..PoolSize |-> Gone]
    BY <1>1, <1>2 DEF WakeUp, ChunkFails
  <2>2. RpcTypeOK'
    BY <1>1, <1>2, <2>1 DEF RpcTypeOK, Doing, Gone
  <2>3. CallInv'
    BY <1>2 DEF CallInv
  <2>4. QED
    BY <1>1, <2>2, <2>3, NothingDelivered DEF RpcTypeOK
<1>3. CASE calling' # "idle"
  <2>1. /\ calling' = calling /\ worker[w].doing # "gone"
        /\ \/ worker' = [worker EXCEPT ![w].doing = "sleep"]
           \/ worker' = [worker EXCEPT ![w] = [chunk |-> @.chunk, attempt |-> @.attempt + 1, doing |-> "ask"]]
    BY <1>3 DEF WakeUp, ChunkFails
  <2>2. worker[w] \in Doing /\ worker[w].chunk \in Chunks
    BY <1>1, <2>1 DEF RpcTypeOK
  <2>3. PICK x : /\ worker' = [worker EXCEPT ![w] = x] /\ x \in Doing
                 /\ x.doing # "gone" /\ x.chunk = worker[w].chunk
    <3>1. CASE worker' = [worker EXCEPT ![w].doing = "sleep"]
      <4> DEFINE x == [worker[w] EXCEPT !.doing = "sleep"]
      <4>1. worker' = [worker EXCEPT ![w] = x] /\ x \in Doing /\ x.doing # "gone" /\ x.chunk = worker[w].chunk
        BY <2>2, <3>1 DEF Doing
      <4>2. QED
        BY <4>1
    <3>2. CASE worker' = [worker EXCEPT ![w] = [chunk |-> @.chunk, attempt |-> @.attempt + 1, doing |-> "ask"]]
      <4> DEFINE x == [chunk |-> worker[w].chunk, attempt |-> worker[w].attempt + 1, doing |-> "ask"]
      <4>1. worker' = [worker EXCEPT ![w] = x] /\ x \in Doing /\ x.doing # "gone" /\ x.chunk = worker[w].chunk
        BY <1>1, <2>2, <3>2 DEF Doing, RpcTypeOK
      <4>2. QED
        BY <4>1
    <3>3. QED
      BY <2>1, <3>1, <3>2
  <2>4. RpcTypeOK'
    BY <1>1, <2>1, <2>2, <2>3 DEF RpcTypeOK
  <2>5. \A v \in 1..PoolSize :
           (worker'[v].doing = "gone" <=> worker[v].doing = "gone") /\ worker'[v].chunk = worker[v].chunk
    BY <1>1, <2>1, <2>3 DEF RpcTypeOK
  <2>6. CallInv'
    BY <1>1, <2>1, <2>5 DEF CallInv, Filled
  <2>7. QED
    BY <1>1, <2>4, <2>6, NothingDelivered DEF RpcTypeOK
<1>4. QED
  BY <1>2, <1>3

LEMMA NetworkMovesKeepsInv == ASSUME RpcInv, NetworkMoves PROVE RpcInv'
<1>1. /\ emitted \in Nat /\ emitted' = emitted + 1
      /\ UNCHANGED <<cursors, calling, nextChunk, worker, results, answers>>
  BY DEF RpcInv, RpcTypeOK, NetworkMoves
<1>2. RpcTypeOK'
  BY <1>1 DEF RpcInv, RpcTypeOK
<1>3. \A i \in Chunks : Filled(i) => Filled(i)'
  BY <1>1 DEF RpcInv, RpcTypeOK, Filled
<1>4. CallInv'
  BY <1>1, <1>3 DEF RpcInv, CallInv
<1>5. QED
  BY <1>1, <1>2, <1>4, NothingDelivered

LEMMA ResolveKeepsInv == ASSUME RpcInv, Resolve PROVE RpcInv'
<1> DEFINE merged == UNION {results[i].events : i \in Chunks}
<1>1. PICK list \in Ascending(merged) : answers' = answers \o list
  BY DEF Resolve
<1>2. /\ calling = "running" /\ calling' = "idle" /\ \A w \in 1..PoolSize : worker[w] = Gone
      /\ cursors' = [i \in Chunks |-> results[i].cursor]
      /\ UNCHANGED <<emitted, nextChunk, worker, results>>
  BY DEF Resolve
<1>3. RpcTypeOK /\ CallInv /\ ChunksAreExact
  BY DEF RpcInv
<1>4. \A i \in Chunks : Filled(i)
  <2>1. PoolSize \in Nat \ {0} /\ \A w \in 1..PoolSize : worker[w].doing = "gone"
    BY <1>2, ChunkFacts DEF Gone
  <2>2. nextChunk \notin Chunks /\ nextChunk \in Nat \ {0}
    BY <1>2, <1>3, <2>1 DEF CallInv, RpcTypeOK
  <2>3. \A i \in Chunks : i < nextChunk /\ i \in Nat
    BY <2>2, ChunkFacts
  <2>4. QED
    BY <1>2, <1>3, <2>1, <2>2, <2>3 DEF CallInv
<1>5. /\ emitted \in Nat /\ answers \in Seq(Nat)
      /\ \A i \in Chunks : cursors[i] \in Nat /\ results[i].cursor \in Nat /\ results[i].events \subseteq Nat
  BY <1>3 DEF RpcTypeOK
<1>6. merged \in SUBSET Nat /\ IsFiniteSet(merged)
  <2>1. \A i \in Chunks : results[i].events \subseteq 0..emitted
    BY <1>4, <1>5 DEF Filled
  <2>2. merged \subseteq 0..emitted
    BY <2>1
  <2>3. IsFiniteSet(0..emitted)
    BY <1>5, FS_Interval
  <2>4. QED
    BY <1>5, <2>2, <2>3, FS_Subset
<1>7. \A e, i \in Nat : i \in Chunks /\ OfChunk(i, e) =>
         (e \in merged <=> cursors[i] < e /\ e <= results[i].cursor)
  <2>1. SUFFICES ASSUME NEW e \in Nat, NEW i \in Chunks, OfChunk(i, e)
                 PROVE  e \in merged <=> cursors[i] < e /\ e <= results[i].cursor
    OBVIOUS
  <2>2. e \in results[i].events <=> cursors[i] < e /\ e <= results[i].cursor
    BY <1>4, <1>5, <2>1 DEF Filled
  <2>3. ASSUME NEW j \in Chunks, e \in results[j].events PROVE j = i
    <3>1. OfChunk(j, e)
      BY <1>4, <2>3 DEF Filled
    <3>2. QED
      BY <2>1, <3>1, ChunksDisjoint
  <2>4. QED
    BY <2>2, <2>3
<1> HIDE DEF merged
<1>8. /\ answers' \in Seq(Nat) /\ Range(answers') = Range(answers) \cup merged
      /\ \A j, k \in DOMAIN answers' : j < k =>
            \/ j \in DOMAIN answers /\ k \in DOMAIN answers /\ answers'[j] = answers[j] /\ answers'[k] = answers[k]
            \/ answers'[j] \in Range(answers) /\ answers'[k] \in merged
            \/ answers'[j] \in merged /\ answers'[k] \in merged /\ answers'[j] < answers'[k]
  BY <1>1, <1>5, <1>6, AnswerGoesBehind
<1>9. RpcTypeOK'
  BY <1>2, <1>3, <1>5, <1>8 DEF RpcTypeOK
<1>10. CallInv' /\ \A i \in Chunks : cursors'[i] <= emitted'
  BY <1>2, <1>4, <1>5 DEF CallInv, Filled
<1>11. ChunksAreExact'
  <2>1. SUFFICES ASSUME NEW i \in Chunks
                 PROVE  /\ {e \in Range(answers') : OfChunk(i, e)} = {e \in 1..cursors'[i] : OfChunk(i, e)}
                        /\ \A j, k \in DOMAIN answers' :
                              j < k /\ OfChunk(i, answers'[j]) /\ OfChunk(i, answers'[k])
                                 => answers'[j] < answers'[k]
    BY DEF ChunksAreExact, OfChunk
  <2>2. /\ {e \in Range(answers) : OfChunk(i, e)} = {e \in 1..cursors[i] : OfChunk(i, e)}
        /\ \A j, k \in DOMAIN answers :
              j < k /\ OfChunk(i, answers[j]) /\ OfChunk(i, answers[k]) => answers[j] < answers[k]
    BY <1>3 DEF ChunksAreExact, OfChunk
  <2>3. /\ i \in Nat /\ cursors[i] \in Nat /\ cursors'[i] = results[i].cursor /\ results[i].cursor \in Nat
        /\ cursors[i] <= results[i].cursor
    BY <1>2, <1>4, <1>5, ChunkFacts DEF Filled
  <2>4. \A e \in Range(answers) : e \in Nat
    BY <1>5 DEF Range
  <2>5. \A e : OfChunk(i, e) => (e \in Range(answers) <=> e \in 1..cursors[i])
    BY <2>2
  <2>6. ASSUME NEW e, OfChunk(i, e) PROVE e \in Range(answers') <=> e \in 1..cursors'[i]
    <3>1. CASE e \in Nat
      <4>1. e \in merged <=> cursors[i] < e /\ e <= results[i].cursor
        BY <1>7, <2>3, <2>6, <3>1
      <4>2. e \in Range(answers') <=> e \in 1..cursors[i] \/ e \in merged
        BY <1>8, <2>5, <2>6
      <4>3. e \in 1..cursors'[i] <=> e \in 1..cursors[i] \/ (cursors[i] < e /\ e <= results[i].cursor)
        BY <2>3, <3>1
      <4>4. QED
        BY <4>1, <4>2, <4>3
    <3>2. CASE e \notin Nat
      <4>1. e \notin Range(answers')
        BY <1>6, <1>8, <2>4, <3>2
      <4>2. e \notin 1..cursors'[i]
        BY <2>3, <3>2
      <4>3. QED
        BY <4>1, <4>2
    <3>3. QED
      BY <3>1, <3>2
  <2>7. ASSUME NEW j \in DOMAIN answers', NEW k \in DOMAIN answers', j < k,
               OfChunk(i, answers'[j]), OfChunk(i, answers'[k])
        PROVE  answers'[j] < answers'[k]
    <3>1. CASE /\ j \in DOMAIN answers /\ k \in DOMAIN answers
               /\ answers'[j] = answers[j] /\ answers'[k] = answers[k]
      BY <2>2, <2>7, <3>1
    <3>2. CASE answers'[j] \in Range(answers) /\ answers'[k] \in merged
      <4>1. answers'[j] \in 1..cursors[i] /\ answers'[k] \in Nat
        BY <1>6, <2>5, <2>7, <3>2
      <4>2. cursors[i] < answers'[k]
        BY <1>7, <2>3, <2>7, <3>2, <4>1
      <4>3. QED
        BY <2>3, <4>1, <4>2
    <3>3. QED
      BY <1>8, <2>7, <3>1, <3>2
  <2>8. QED
    BY <2>6, <2>7
<1>12. QED
  BY <1>9, <1>10, <1>11 DEF RpcInv

LEMMA RpcStep == RpcInv /\ [RpcNext]_rpcVars => RpcInv'
<1>1. SUFFICES ASSUME RpcInv, [RpcNext]_rpcVars PROVE RpcInv'
  OBVIOUS
<1>2. CASE CallChunked
  BY <1>1, <1>2, CallChunkedKeepsInv
<1>3. CASE Resolve
  BY <1>1, <1>3, ResolveKeepsInv
<1>4. CASE NetworkMoves
  BY <1>1, <1>4, NetworkMovesKeepsInv
<1>5. ASSUME NEW w \in 1..PoolSize, Asks(w) \/ WakeUp(w) PROVE RpcInv'
  BY <1>1, <1>5, ChunkAnsweredKeepsInv, RetriesKeepRpcInv DEF Asks
<1>6. CASE UNCHANGED rpcVars
  <2>1. UNCHANGED <<emitted, cursors, calling, nextChunk, worker, results, answers>>
    BY <1>6 DEF rpcVars
  <2>2. RpcTypeOK' /\ CallInv' /\ emitted' \in Nat /\ emitted' >= emitted
    BY <1>1, <2>1 DEF RpcInv, RpcTypeOK, CallInv, Filled
  <2>3. QED
    BY <1>1, <2>1, <2>2, NothingDelivered
<1>7. QED
  BY <1>1, <1>2, <1>3, <1>4, <1>5, <1>6 DEF RpcNext

\* getEventsChunked: whatever the number of contracts, chunks and workers, whichever
\* answers first and whatever is retried or rejected, what the caller got of each chunk
\* is everything up to its cursor, once and in order, and nothing beyond.
THEOREM ChunksAreDelivered == RpcSpec => []ChunksAreExact
<1>1. RpcInv => ChunksAreExact
  BY DEF RpcInv
<1>2. QED
  BY <1>1, RpcInitIsFine, RpcStep, PTL DEF RpcSpec
=============================================================================
