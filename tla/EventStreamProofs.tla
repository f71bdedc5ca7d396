-------------------------- MODULE EventStreamProofs --------------------------
(***************************************************************************)
(* Proofs about EventStream for every number of clients, events and broken *)
(* connections: a stream leaves out nothing up to its position and repeats *)
(* nothing, also after reconnecting, and a slow client costs a page.       *)
(* Proofs about Explorer, which listens to one, for every number of events *)
(* and requests: the list is of the filter that is shown.                  *)
(***************************************************************************)
EXTENDS EventStream, Explorer, PageProofs

-----------------------------------------------------------------------------
(* The inductive invariant. *)

Sorted(list) == \A i, j \in DOMAIN list : i < j => list[i] < list[j]
Seen(c) == got[c] \o wire[c]
Written == inserted \cup {0}
Matching == inserted \cap Wanted

\* What a client has received or will receive is in order and leaves out nothing.
SeenOK(c) ==
    LET seen == Range(Seen(c)) IN
    /\ seen \subseteq inserted /\ Sorted(Seen(c))
    /\ \A x \in seen, e \in Matching : since[c] < e /\ e <= x => e \in seen

StageOK(c) ==
    /\ stage[c] # "open" => drainPc[c] = "idle" /\ wire[c] = <<>> /\ ~opening[c]
    /\ stage[c] \in {"asked", "read"} => got[c] = <<>>
    /\ stage[c] = "read" => lastId[c] = since[c]
    /\ lastId[c] \in Written /\ latest[c] \in Written

\* The position of an open stream is where what was written ends, or further on
\* where nothing matches.
OpenOK(c) ==
    stage[c] = "open" =>
        LET seen == Range(Seen(c)) IN
        /\ \A x \in seen : x <= lastId[c]
        /\ \A e \in Matching : since[c] < e /\ e <= lastId[c] => e \in seen

\* A page holds what comes next; the last one all there is up to latest.
PageOK(c) ==
    drainPc[c] = "write" =>
        LET next == Range(drainPage[c]) IN
        /\ next \subseteq inserted /\ Sorted(drainPage[c])
        /\ \A x \in next : lastId[c] < x
        /\ \A x \in next, e \in Matching : lastId[c] < e /\ e <= x => e \in next
        /\ ~more[c] => \A e \in Matching : lastId[c] < e /\ e <= latest[c] => e \in next

BufferOK(c) ==
    /\ ~blocked[c] \/ drainPc[c] = "write" => Len(wire[c]) < HighWater
    /\ drainPc[c] = "write" => Len(drainPage[c]) <= Batch
    /\ Len(wire[c]) < HighWater + Batch

Good(c) == SeenOK(c) /\ StageOK(c) /\ OpenOK(c) /\ PageOK(c) /\ BufferOK(c)

StreamInv ==
    /\ StreamTypeOK
    /\ toVisit \subseteq OpenStreams /\ pollLatest \in Written
    /\ \A c \in Clients : Good(c)

-----------------------------------------------------------------------------
(* Lists of events. *)

LEMMA Sizes ==
    /\ LastStreamed \in Nat /\ Batch \in Nat \ {0} /\ HighWater \in Nat \ {0} /\ MaxDrops \in Nat
    /\ StreamEvent \subseteq Nat /\ 0 \in 0..LastStreamed /\ StreamEvent \subseteq 0..LastStreamed
    /\ "none" \notin Clients /\ Stops \in BOOLEAN
  BY EventStreamAssumption DEF StreamEvent

LEMMA ListOfEvents ==
    ASSUME NEW list \in Seq(StreamEvent)
    PROVE  /\ DOMAIN list = 1..Len(list) /\ Len(list) \in Nat
           /\ \A i \in DOMAIN list : list[i] \in StreamEvent /\ list[i] \in Nat /\ list[i] \in Range(list)
           /\ \A x \in Range(list) : x \in StreamEvent /\ x \in Nat /\ \E i \in DOMAIN list : list[i] = x
<1>1. DOMAIN list = 1..Len(list) /\ Len(list) \in Nat /\ \A i \in 1..Len(list) : list[i] \in StreamEvent
  OBVIOUS
<1>2. \A e \in StreamEvent : e \in Nat
  BY Sizes
<1>3. QED
  BY <1>1, <1>2 DEF Range

LEMMA NothingListed == Range(<<>>) = {} /\ Sorted(<<>>)
  BY DEF Range, Sorted

\* What a list and the one put after it hold.
LEMMA Joined ==
    ASSUME NEW a \in Seq(StreamEvent), NEW b \in Seq(StreamEvent)
    PROVE  /\ a \o b \in Seq(StreamEvent) /\ Len(a \o b) = Len(a) + Len(b)
           /\ Range(a \o b) = Range(a) \cup Range(b)
           /\ Sorted(a \o b) <=> /\ Sorted(a) /\ Sorted(b)
                                 /\ \A x \in Range(a), y \in Range(b) : x < y
<1> DEFINE ab == a \o b
<1>1. /\ DOMAIN a = 1..Len(a) /\ Len(a) \in Nat /\ DOMAIN b = 1..Len(b) /\ Len(b) \in Nat
      /\ \A i \in DOMAIN a : a[i] \in Nat /\ a[i] \in Range(a)
      /\ \A i \in DOMAIN b : b[i] \in Nat /\ b[i] \in Range(b)
      /\ \A x \in Range(a) : x \in Nat /\ \E i \in DOMAIN a : a[i] = x
      /\ \A x \in Range(b) : x \in Nat /\ \E i \in DOMAIN b : b[i] = x
  BY ListOfEvents
<1>2. /\ ab \in Seq(StreamEvent) /\ Len(ab) = Len(a) + Len(b)
      /\ \A i \in 1..(Len(a) + Len(b)) : ab[i] = IF i <= Len(a) THEN a[i] ELSE b[i - Len(a)]
  BY ConcatProperties
<1> HIDE DEF ab
<1>3. DOMAIN ab = 1..(Len(a) + Len(b))
  BY <1>2
<1>4. \A i \in DOMAIN a : i \in DOMAIN ab /\ ab[i] = a[i]
  BY <1>1, <1>2, <1>3
<1>5. \A i \in DOMAIN b : i + Len(a) \in DOMAIN ab /\ ab[i + Len(a)] = b[i]
  BY <1>1, <1>2, <1>3
<1>6. \A i \in DOMAIN ab : IF i <= Len(a) THEN i \in DOMAIN a /\ ab[i] = a[i]
                                          ELSE i - Len(a) \in DOMAIN b /\ ab[i] = b[i - Len(a)]
  BY <1>1, <1>2, <1>3
<1>7. Range(ab) = Range(a) \cup Range(b)
  <2>1. \A x \in Range(ab) : x \in Range(a) \cup Range(b)
    <3>1. SUFFICES ASSUME NEW i \in DOMAIN ab PROVE ab[i] \in Range(a) \cup Range(b)
      BY DEF Range
    <3>2. QED
      BY <1>1, <1>6
  <2>2. \A x \in Range(a) : x \in Range(ab)
    BY <1>4 DEF Range
  <2>3. \A x \in Range(b) : x \in Range(ab)
    BY <1>5 DEF Range
  <2>4. QED
    BY <2>1, <2>2, <2>3
<1>8. ASSUME Sorted(ab) PROVE Sorted(a) /\ Sorted(b) /\ \A x \in Range(a), y \in Range(b) : x < y
  <2>1. Sorted(a)
    BY <1>4, <1>8 DEF Sorted
  <2>2. Sorted(b)
    <3>1. SUFFICES ASSUME NEW i \in DOMAIN b, NEW j \in DOMAIN b, i < j PROVE b[i] < b[j]
      BY DEF Sorted
    <3>2. i + Len(a) < j + Len(a)
      BY <1>1, <3>1
    <3>3. QED
      BY <1>5, <1>8, <3>2 DEF Sorted
  <2>3. ASSUME NEW i \in DOMAIN a, NEW j \in DOMAIN b PROVE a[i] < b[j]
    <3>1. i < j + Len(a)
      BY <1>1
    <3>2. QED
      BY <1>4, <1>5, <1>8, <3>1 DEF Sorted
  <2>4. QED
    BY <1>1, <2>1, <2>2, <2>3
<1>9. ASSUME Sorted(a), Sorted(b), \A x \in Range(a), y \in Range(b) : x < y PROVE Sorted(ab)
  <2>1. SUFFICES ASSUME NEW i \in DOMAIN ab, NEW j \in DOMAIN ab, i < j PROVE ab[i] < ab[j]
    BY DEF Sorted
  <2>2. CASE j <= Len(a)
    <3>1. i <= Len(a)
      BY <1>1, <1>3, <2>1, <2>2
    <3>2. QED
      BY <1>6, <1>9, <2>1, <2>2, <3>1 DEF Sorted
  <2>3. CASE ~(j <= Len(a)) /\ i <= Len(a)
    BY <1>1, <1>6, <1>9, <2>3
  <2>4. CASE ~(i <= Len(a))
    <3>1. ~(j <= Len(a)) /\ i - Len(a) < j - Len(a)
      BY <1>1, <1>3, <2>1, <2>4
    <3>2. QED
      BY <1>6, <1>9, <2>4, <3>1 DEF Sorted
  <2>5. QED
    BY <2>2, <2>3, <2>4
<1>10. QED
  BY <1>2, <1>7, <1>8, <1>9 DEF ab

\* An event that moves from the wire to what was received changes nothing in between.
LEMMA HeadMoves ==
    ASSUME NEW a \in Seq(StreamEvent), NEW b \in Seq(StreamEvent), b # <<>>
    PROVE  /\ Append(a, Head(b)) \in Seq(StreamEvent)
           /\ Tail(b) \in Seq(StreamEvent) /\ Len(Tail(b)) = Len(b) - 1
           /\ Append(a, Head(b)) \o Tail(b) = a \o b
<1>1. /\ Head(b) \in StreamEvent /\ Tail(b) \in Seq(StreamEvent) /\ Len(Tail(b)) = Len(b) - 1
      /\ b = <<Head(b)>> \o Tail(b)
  BY HeadTailProperties
<1>2. PICK first \in StreamEvent, rest \in Seq(StreamEvent) : first = Head(b) /\ rest = Tail(b)
  BY <1>1
<1>3. <<first>> \in Seq(StreamEvent) /\ Append(a, first) = a \o <<first>> /\ Append(a, first) \in Seq(StreamEvent)
  BY AppendProperties, AppendIsConcat
<1>4. PICK one \in Seq(StreamEvent) : one = <<first>>
  BY <1>3
<1>5. (a \o one) \o rest = a \o (one \o rest)
  BY ConcatAssociative
<1>6. QED
  BY <1>1, <1>2, <1>3, <1>4, <1>5

\* The last event of a list in order is the greatest.
LEMMA LastIsGreatest ==
    ASSUME NEW list \in Seq(StreamEvent), list # <<>>, Sorted(list)
    PROVE  LastOf(list) \in Range(list) /\ \A x \in Range(list) : x <= LastOf(list)
<1> DEFINE n == Len(list)
<1>1. /\ DOMAIN list = 1..n /\ n \in Nat
      /\ \A i \in DOMAIN list : list[i] \in Nat /\ list[i] \in Range(list)
      /\ \A x \in Range(list) : \E i \in DOMAIN list : list[i] = x
  BY ListOfEvents
<1>2. n \in DOMAIN list
  BY <1>1
<1> HIDE DEF n
<1>3. ASSUME NEW i \in DOMAIN list PROVE list[i] <= list[n]
  <2>1. i = n \/ i < n
    BY <1>1
  <2>2. QED
    BY <1>1, <1>2, <2>1 DEF Sorted
<1>4. QED
  BY <1>1, <1>2, <1>3 DEF LastOf, n

-----------------------------------------------------------------------------
(* The beginning, and what a step of one client leaves alone. *)

LEMMA NewestStored ==
    ASSUME StreamTypeOK
    PROVE  /\ Newest \in Written /\ Newest \in 0..LastStreamed
           /\ \A x \in inserted : x <= Newest
<1>1. inserted \in SUBSET Nat /\ \A x \in inserted : x <= LastStreamed
  BY Sizes DEF StreamTypeOK, StreamEvent
<1>2. QED
  BY <1>1, Sizes, NewestIsGreatest DEF Newest, StreamTypeOK, StreamEvent, Written

LEMMA InitStream == StreamInit => StreamInv
<1>1. SUFFICES ASSUME StreamInit PROVE StreamInv
  OBVIOUS
<1>2. StreamTypeOK
  <2>1. <<>> \in Seq(StreamEvent) /\ 0 \in 0..MaxDrops
    BY Sizes
  <2>2. /\ wire \in [Clients -> Seq(StreamEvent)] /\ got \in [Clients -> Seq(StreamEvent)]
        /\ drainPage \in [Clients -> Seq(StreamEvent)]
    BY <1>1, <2>1 DEF StreamInit, Everywhere
  <2>3. /\ stage \in [Clients -> {"away", "asked", "read", "open"}]
        /\ drainPc \in [Clients -> {"idle", "query", "write"}]
        /\ left \in [Clients -> BOOLEAN] /\ opening \in [Clients -> BOOLEAN]
        /\ blocked \in [Clients -> BOOLEAN] /\ more \in [Clients -> BOOLEAN]
    BY <1>1 DEF StreamInit, Everywhere
  <2>4. /\ lastId \in [Clients -> 0..LastStreamed] /\ since \in [Clients -> 0..LastStreamed]
        /\ latest \in [Clients -> 0..LastStreamed]
    BY <1>1, Sizes DEF StreamInit, Everywhere
  <2>5. QED
    BY <1>1, <2>1, <2>2, <2>3, <2>4, Sizes DEF StreamInit, StreamTypeOK
<1>3. toVisit = {} /\ pollLatest \in Written
  BY <1>1 DEF StreamInit, Written
<1>4. ASSUME NEW c \in Clients PROVE Good(c)
  <2>1. /\ stage[c] = "away" /\ ~opening[c] /\ ~blocked[c] /\ drainPc[c] = "idle"
        /\ wire[c] = <<>> /\ got[c] = <<>> /\ lastId[c] = 0 /\ latest[c] = 0
    BY <1>1 DEF StreamInit, Everywhere
  <2>2. Seen(c) = <<>> /\ Len(<<>>) = 0
    BY <2>1 DEF Seen
  <2>3. SeenOK(c)
    BY <2>2, NothingListed DEF SeenOK
  <2>4. StageOK(c) /\ OpenOK(c) /\ PageOK(c)
    BY <2>1 DEF StageOK, OpenOK, PageOK, Written
  <2>5. BufferOK(c)
    BY <2>1, <2>2, Sizes DEF BufferOK
  <2>6. QED
    BY <2>3, <2>4, <2>5 DEF Good
<1>5. QED
  BY <1>2, <1>3, <1>4 DEF StreamInv

LEMMA TypedStream ==
    ASSUME StreamTypeOK, NEW c \in Clients
    PROVE  /\ got[c] \in Seq(StreamEvent) /\ wire[c] \in Seq(StreamEvent) /\ drainPage[c] \in Seq(StreamEvent)
           /\ Seen(c) \in Seq(StreamEvent)
           /\ lastId[c] \in Nat /\ since[c] \in Nat /\ latest[c] \in Nat
           /\ Len(wire[c]) \in Nat /\ Len(drainPage[c]) \in Nat
           /\ inserted \subseteq StreamEvent /\ \A x \in inserted : x \in Nat
<1>1. got[c] \in Seq(StreamEvent) /\ wire[c] \in Seq(StreamEvent) /\ drainPage[c] \in Seq(StreamEvent)
  BY DEF StreamTypeOK
<1>2. lastId[c] \in 0..LastStreamed /\ since[c] \in 0..LastStreamed /\ latest[c] \in 0..LastStreamed
  BY DEF StreamTypeOK
<1>3. lastId[c] \in Nat /\ since[c] \in Nat /\ latest[c] \in Nat
  BY <1>2, Sizes
<1>4. inserted \subseteq StreamEvent /\ \A x \in inserted : x \in Nat
  BY Sizes DEF StreamTypeOK
<1>5. Len(wire[c]) \in Nat /\ Len(drainPage[c]) \in Nat /\ Seen(c) \in Seq(StreamEvent)
  BY <1>1, Joined, ListOfEvents DEF Seen
<1>6. QED
  BY <1>1, <1>3, <1>4, <1>5

\* Nothing of a stream changes.
Untouched(c) ==
    /\ stage'[c] = stage[c] /\ opening'[c] = opening[c] /\ since'[c] = since[c]
    /\ lastId'[c] = lastId[c]
    /\ wire'[c] = wire[c] /\ blocked'[c] = blocked[c] /\ got'[c] = got[c]
    /\ drainPc'[c] = drainPc[c] /\ latest'[c] = latest[c] /\ drainPage'[c] = drainPage[c] /\ more'[c] = more[c]

LEMMA UntouchedIsGood ==
    ASSUME NEW c \in Clients, Good(c), Untouched(c), inserted' = inserted
    PROVE  Good(c)'
<1>1. SeenOK(c)'
  BY DEF Good, SeenOK, Seen, Untouched, Matching
<1>2. StageOK(c)' /\ OpenOK(c)' /\ PageOK(c)'
  BY DEF Good, StageOK, OpenOK, PageOK, Seen, Untouched, Matching, Written
<1>3. BufferOK(c)'
  BY DEF Good, BufferOK, Untouched
<1>4. QED
  BY <1>1, <1>2, <1>3 DEF Good

LEMMA StreamMoves ==
    ASSUME StreamInv, StreamTypeOK', NEW c \in Clients, inserted' = inserted,
           \A d \in Clients : d # c => Untouched(d),
           Good(c)', toVisit' \subseteq OpenStreams', pollLatest' \in Written
    PROVE  StreamInv'
<1>1. \A d \in Clients : Good(d)'
  BY UntouchedIsGood DEF StreamInv
<1>2. QED
  BY <1>1 DEF StreamInv, Written
-----------------------------------------------------------------------------
(* Steps of the indexer and of the clients. *)

\* An inserted event is newer than all that was read, written or asked for.
LEMMA InsertStream == ASSUME StreamInv, NEW e \in StreamEvent, StreamInsert(e) PROVE StreamInv'
<1>1. /\ e > Newest /\ inserted' = inserted \cup {e}
      /\ UNCHANGED <<closed, drops, leaked, stage, left, opening, since, lastId, wire, blocked, got,
                     drainPc, latest, drainPage, more, polling, toVisit, visiting, pollLatest>>
  BY DEF StreamInsert, client, socket, draining, poll
<1>2. StreamTypeOK'
  BY <1>1 DEF StreamInv, StreamTypeOK
<1>3. \A x \in Written : x \in Nat /\ ~(e <= x)
  <2>1. SUFFICES ASSUME NEW x \in Written PROVE x \in Nat /\ ~(e <= x)
    OBVIOUS
  <2>2. Newest \in Nat /\ x \in Nat /\ e \in Nat
    BY NewestStored, Sizes DEF StreamInv, StreamTypeOK, Written
  <2>3. x <= Newest
    BY <2>2, NewestStored DEF StreamInv, Written
  <2>4. QED
    BY <1>1, <2>2, <2>3
<1>4. ASSUME NEW c \in Clients PROVE Good(c)'
  <2>1. SeenOK(c) /\ StageOK(c) /\ OpenOK(c) /\ PageOK(c) /\ BufferOK(c)
    BY DEF StreamInv, Good
  <2>2. Seen(c)' = Seen(c)
    BY <1>1 DEF Seen
  <2>3. lastId[c] \in Written /\ latest[c] \in Written
    BY <2>1 DEF StageOK
  <2>4. Matching' \subseteq Matching \cup {e}
    BY <1>1 DEF Matching
  <2>5. SeenOK(c)'
    <3>1. \A x \in Range(Seen(c)) : ~(e <= x)
      BY <1>3, <2>1 DEF SeenOK, Written
    <3>2. QED
      BY <1>1, <2>1, <2>2, <2>4, <3>1 DEF SeenOK
  <2>6. StageOK(c)' /\ BufferOK(c)'
    BY <1>1, <2>1 DEF StageOK, BufferOK, Written
  <2>7. OpenOK(c)'
    <3>1. ~(e <= lastId[c])
      BY <1>3, <2>3
    <3>2. QED
      BY <1>1, <2>1, <2>2, <2>4, <3>1 DEF OpenOK
  <2>8. PageOK(c)'
    <3>1. ~(e <= latest[c])
      BY <1>3, <2>3
    <3>2. drainPc[c] = "write" => \A x \in Range(drainPage[c]) : ~(e <= x)
      BY <1>3, <2>1 DEF PageOK, Written
    <3>3. QED
      BY <1>1, <2>1, <2>4, <3>1, <3>2 DEF PageOK
  <2>9. QED
    BY <2>5, <2>6, <2>7, <2>8 DEF Good
<1>5. QED
  BY <1>1, <1>2, <1>4 DEF StreamInv, OpenStreams, Written

LEMMA ReceiveStream == ASSUME StreamInv, NEW c \in Clients, ReadSocket(c) PROVE StreamInv'
<1>1. /\ stage[c] = "open" /\ wire[c] # <<>>
      /\ got' = [got EXCEPT ![c] = Append(got[c], Head(wire[c]))]
      /\ wire' = [wire EXCEPT ![c] = Tail(wire[c])]
      /\ blocked' = [blocked EXCEPT ![c] = blocked[c] /\ Len(wire[c]) > 1]
      /\ UNCHANGED <<inserted, closed, drops, leaked, stage, left, opening, since, lastId,
                     drainPc, latest, drainPage, more, polling, toVisit, visiting, pollLatest>>
  BY DEF ReadSocket, client, draining, poll
<1>2. /\ got[c] \in Seq(StreamEvent) /\ wire[c] \in Seq(StreamEvent) /\ Seen(c) \in Seq(StreamEvent)
      /\ Len(wire[c]) \in Nat
  BY TypedStream DEF StreamInv
<1>3. /\ got'[c] = Append(got[c], Head(wire[c])) /\ wire'[c] = Tail(wire[c])
      /\ blocked'[c] = (blocked[c] /\ Len(wire[c]) > 1)
      /\ \A d \in Clients : d # c => Untouched(d)
  BY <1>1 DEF StreamInv, StreamTypeOK, Untouched
<1>4. /\ Append(got[c], Head(wire[c])) \in Seq(StreamEvent) /\ Tail(wire[c]) \in Seq(StreamEvent)
      /\ Len(Tail(wire[c])) = Len(wire[c]) - 1
      /\ Append(got[c], Head(wire[c])) \o Tail(wire[c]) = got[c] \o wire[c]
  BY <1>1, <1>2, HeadMoves
<1>5. StreamTypeOK'
  BY <1>1, <1>4 DEF StreamInv, StreamTypeOK
<1>6. Seen(c)' = Seen(c)
  BY <1>3, <1>4 DEF Seen
<1>7. Good(c)'
  <2>1. SeenOK(c) /\ StageOK(c) /\ OpenOK(c) /\ PageOK(c) /\ BufferOK(c)
    BY DEF StreamInv, Good
  <2>2. SeenOK(c)' /\ OpenOK(c)' /\ PageOK(c)' /\ StageOK(c)'
    BY <1>1, <1>6, <2>1 DEF SeenOK, OpenOK, PageOK, StageOK, Matching, Written
  <2>3. BufferOK(c)'
    <3>1. Len(wire'[c]) = Len(wire[c]) - 1 /\ Len(wire[c]) \in Nat /\ HighWater \in Nat \ {0} /\ Batch \in Nat
      BY <1>2, <1>3, <1>4, Sizes
    <3>2. ~blocked'[c] => ~blocked[c] \/ Len(wire'[c]) = 0
      <4>1. ~blocked'[c] => ~blocked[c] \/ ~(Len(wire[c]) > 1)
        BY <1>3
      <4>2. Len(wire[c]) # 0
        BY <1>1, <1>2
      <4>3. ~(Len(wire[c]) > 1) => Len(wire'[c]) = 0
        <5> DEFINE n == Len(wire[c])
                   m == Len(wire'[c])
        <5>1. n \in Nat /\ n # 0 /\ m = n - 1
          BY <3>1, <4>2
        <5> HIDE DEF n, m
        <5>2. ~(n > 1) => m = 0
          BY <5>1
        <5>3. QED
          BY <5>2 DEF n, m
      <4>4. QED
        BY <4>1, <4>3, Zenon
    <3>3. /\ ~blocked[c] \/ drainPc[c] = "write" => Len(wire[c]) < HighWater
          /\ drainPc[c] = "write" => Len(drainPage[c]) <= Batch
          /\ Len(wire[c]) < HighWater + Batch
          /\ drainPc' = drainPc /\ drainPage' = drainPage
      BY <1>1, <2>1 DEF BufferOK
    <3>4. PICK n \in Nat, m \in Nat : n = Len(wire[c]) /\ m = Len(wire'[c]) /\ m = n - 1
      BY <3>1, <1>1, <1>2, <1>4
    <3>5. ~blocked'[c] \/ drainPc'[c] = "write" => Len(wire'[c]) < HighWater
      <4>1. n < HighWater => m < HighWater
        BY <3>1, <3>4
      <4>2. 0 < HighWater
        BY <3>1
      <4>3. QED
        BY <3>2, <3>3, <3>4, <4>1, <4>2
    <3>6. Len(wire'[c]) < HighWater + Batch
      BY <3>1, <3>3, <3>4
    <3>7. QED
      BY <3>3, <3>5, <3>6 DEF BufferOK
  <2>4. QED
    BY <2>2, <2>3 DEF Good
<1>8. QED
  BY <1>1, <1>3, <1>5, <1>7, StreamMoves DEF StreamInv, OpenStreams

\* A stream that ends keeps what its client received, which begins what it had seen.
LEMMA ForgetStream ==
    ASSUME StreamInv, NEW cs \in SUBSET Clients, LeaveHub(cs), UNCHANGED <<inserted, left, since>>,
           drops' \in 0..MaxDrops, leaked' \in Nat, closed' \in BOOLEAN
    PROVE  StreamInv'
<1>1. /\ opening' = [c \in Clients |-> IF c \in cs THEN FALSE ELSE opening[c]]
      /\ lastId' = [c \in Clients |-> IF c \in cs THEN 0 ELSE lastId[c]]
      /\ wire' = [c \in Clients |-> IF c \in cs THEN <<>> ELSE wire[c]]
      /\ blocked' = [c \in Clients |-> IF c \in cs THEN FALSE ELSE blocked[c]]
      /\ drainPc' = [c \in Clients |-> IF c \in cs THEN "idle" ELSE drainPc[c]]
      /\ latest' = [c \in Clients |-> IF c \in cs THEN 0 ELSE latest[c]]
      /\ drainPage' = [c \in Clients |-> IF c \in cs THEN <<>> ELSE drainPage[c]]
      /\ more' = [c \in Clients |-> IF c \in cs THEN FALSE ELSE more[c]]
      /\ stage' = [c \in Clients |-> IF c \in cs THEN "away" ELSE stage[c]]
      /\ toVisit' = toVisit \ cs /\ visiting' = IF visiting \in cs THEN "none" ELSE visiting
      /\ UNCHANGED <<got, polling, pollLatest>>
  BY DEF LeaveHub
<1>2. StreamTypeOK'
  <2>1. <<>> \in Seq(StreamEvent)
    OBVIOUS
  <2>2. wire' \in [Clients -> Seq(StreamEvent)] /\ drainPage' \in [Clients -> Seq(StreamEvent)]
    BY <1>1, <2>1 DEF StreamInv, StreamTypeOK
  <2>3. /\ stage' \in [Clients -> {"away", "asked", "read", "open"}]
        /\ drainPc' \in [Clients -> {"idle", "query", "write"}]
    BY <1>1 DEF StreamInv, StreamTypeOK
  <2>4. /\ opening' \in [Clients -> BOOLEAN] /\ blocked' \in [Clients -> BOOLEAN]
        /\ more' \in [Clients -> BOOLEAN]
    BY <1>1 DEF StreamInv, StreamTypeOK
  <2>5. lastId' \in [Clients -> 0..LastStreamed] /\ latest' \in [Clients -> 0..LastStreamed]
    BY <1>1, Sizes DEF StreamInv, StreamTypeOK
  <2>6. toVisit' \subseteq Clients /\ visiting' \in Clients \cup {"none"}
    BY <1>1 DEF StreamInv, StreamTypeOK
  <2>7. QED
    BY <1>1, <2>2, <2>3, <2>4, <2>5, <2>6 DEF StreamInv, StreamTypeOK
<1>3. ASSUME NEW c \in Clients \ cs PROVE Good(c)'
  <2>1. Untouched(c)
    BY <1>1 DEF Untouched
  <2>2. QED
    BY <2>1, UntouchedIsGood DEF StreamInv
<1>4. ASSUME NEW c \in cs PROVE Good(c)'
  <2>1. /\ stage'[c] = "away" /\ drainPc'[c] = "idle" /\ wire'[c] = <<>> /\ ~opening'[c] /\ ~blocked'[c]
        /\ lastId'[c] = 0 /\ latest'[c] = 0 /\ got'[c] = got[c]
    BY <1>1
  <2>2. got[c] \in Seq(StreamEvent) /\ wire[c] \in Seq(StreamEvent) /\ \A x \in inserted : x \in Nat
    BY TypedStream DEF StreamInv
  <2>3. Seen(c)' = got[c]
    BY <2>1, <2>2, ConcatEmptySeq DEF Seen
  <2>4. SeenOK(c)'
    <3>1. /\ Range(Seen(c)) = Range(got[c]) \cup Range(wire[c])
          /\ Sorted(Seen(c)) => Sorted(got[c]) /\ \A x \in Range(got[c]), y \in Range(wire[c]) : x < y
      BY <2>2, Joined DEF Seen
    <3>2. SeenOK(c)
      BY DEF StreamInv, Good
    <3>3. ASSUME NEW x \in Range(got[c]), NEW e \in Matching, since[c] < e, e <= x PROVE e \in Range(got[c])
      <4>1. e \in Range(got[c]) \cup Range(wire[c])
        BY <3>1, <3>2, <3>3 DEF SeenOK
      <4>2. x \in Nat /\ e \in Nat
        BY <2>2, <3>1, <3>2 DEF SeenOK, Matching
      <4>3. e \notin Range(wire[c])
        <5>1. SUFFICES ASSUME x < e PROVE FALSE
          BY <3>1, <3>2 DEF SeenOK
        <5>2. QED
          BY <3>3, <4>2, <5>1
      <4>4. QED
        BY <4>1, <4>3
    <3>4. QED
      BY <2>3, <3>1, <3>2, <3>3 DEF SeenOK, Matching
  <2>5. StageOK(c)' /\ OpenOK(c)' /\ PageOK(c)'
    BY <2>1 DEF StageOK, OpenOK, PageOK, Written
  <2>6. BufferOK(c)'
    <3>1. Len(<<>>) = 0
      OBVIOUS
    <3>2. QED
      BY <2>1, <3>1, Sizes DEF BufferOK
  <2>7. QED
    BY <2>4, <2>5, <2>6 DEF Good
<1>5. toVisit' \subseteq OpenStreams'
  BY <1>1 DEF StreamInv, OpenStreams
<1>6. QED
  BY <1>1, <1>2, <1>3, <1>4, <1>5 DEF StreamInv, Written

LEMMA ClientSteps ==
    ASSUME StreamInv, CloseAll \/ \E c \in Clients : Drop(c) \/ DropEarly(c) \/ Ask(c)
    PROVE  StreamInv'
<1>1. CASE CloseAll
  <2>1. /\ LeaveHub(OpenStreams) /\ UNCHANGED <<inserted, left, since>>
        /\ drops' \in 0..MaxDrops /\ leaked' \in Nat /\ closed' \in BOOLEAN
    BY <1>1 DEF CloseAll, StreamInv, StreamTypeOK
  <2>2. OpenStreams \in SUBSET Clients
    BY DEF OpenStreams
  <2>3. QED
    BY <2>1, <2>2, ForgetStream
<1>2. ASSUME NEW c \in Clients, Drop(c) PROVE StreamInv'
  <2>1. /\ drops < MaxDrops /\ drops' = drops + 1 /\ LeaveHub({c}) /\ UNCHANGED <<inserted, left, since>>
        /\ leaked' \in Nat /\ closed' \in BOOLEAN
    BY <1>2 DEF Drop, StreamInv, StreamTypeOK
  <2>2. drops' \in 0..MaxDrops
    BY <2>1, Sizes DEF StreamInv, StreamTypeOK
  <2>3. {c} \in SUBSET Clients
    OBVIOUS
  <2>4. QED
    BY <2>1, <2>2, <2>3, ForgetStream
<1>3. ASSUME NEW c \in Clients, DropEarly(c) PROVE StreamInv'
  <2>1. /\ drops < MaxDrops /\ drops' = drops + 1 /\ left' = [left EXCEPT ![c] = TRUE]
        /\ UNCHANGED <<inserted, closed, leaked, stage, opening, since, lastId, wire, blocked, got,
                       drainPc, latest, drainPage, more, polling, toVisit, visiting, pollLatest>>
    BY <1>3 DEF DropEarly, socket, draining, poll
  <2>2. drops' \in 0..MaxDrops
    BY <2>1, Sizes DEF StreamInv, StreamTypeOK
  <2>3. StreamTypeOK'
    BY <2>1, <2>2 DEF StreamInv, StreamTypeOK
  <2>4. \A d \in Clients : Untouched(d)
    BY <2>1 DEF Untouched
  <2>5. QED
    BY <2>1, <2>3, <2>4, UntouchedIsGood DEF StreamInv, OpenStreams, Written
<1>4. ASSUME NEW c \in Clients, Ask(c) PROVE StreamInv'
  <2>1. /\ stage[c] = "away" /\ got[c] = <<>> /\ stage' = [stage EXCEPT ![c] = "asked"]
        /\ UNCHANGED <<inserted, closed, drops, leaked, left, opening, since, lastId, wire, blocked, got,
                       drainPc, latest, drainPage, more, polling, toVisit, visiting, pollLatest>>
    BY <1>4 DEF Ask, socket, draining, poll
  <2>2. StreamTypeOK'
    BY <2>1 DEF StreamInv, StreamTypeOK
  <2>3. stage'[c] = "asked" /\ \A d \in Clients : d # c => Untouched(d)
    BY <2>1 DEF StreamInv, StreamTypeOK, Untouched
  <2>4. Good(c)'
    <3>1. SeenOK(c) /\ StageOK(c) /\ PageOK(c) /\ BufferOK(c)
      BY DEF StreamInv, Good
    <3>2. SeenOK(c)' /\ OpenOK(c)' /\ PageOK(c)' /\ BufferOK(c)'
      BY <2>1, <2>3, <3>1 DEF SeenOK, Seen, OpenOK, PageOK, BufferOK, Matching
    <3>3. StageOK(c)'
      BY <2>1, <2>3, <3>1 DEF StageOK, Written
    <3>4. QED
      BY <3>2, <3>3 DEF Good
  <2>5. toVisit' \subseteq OpenStreams'
    BY <2>1, <2>3 DEF StreamInv, OpenStreams, StreamTypeOK
  <2>6. QED
    BY <2>1, <2>2, <2>3, <2>4, <2>5, StreamMoves DEF StreamInv
<1>5. QED
  BY <1>1, <1>2, <1>3, <1>4

(* Steps of subscribe(). *)

LEMMA SubscribeSteps ==
    ASSUME StreamInv, NEW c \in Clients, ReadNewest(c) \/ AddSubscriber(c) \/ SubscribeGone(c)
    PROVE  StreamInv'
<1>1. SeenOK(c) /\ StageOK(c) /\ OpenOK(c) /\ PageOK(c) /\ BufferOK(c)
  BY DEF StreamInv, Good
<1>2. CASE ReadNewest(c)
  <2>1. /\ stage[c] = "asked" /\ stage' = [stage EXCEPT ![c] = "read"]
        /\ lastId' = [lastId EXCEPT ![c] = Newest] /\ since' = [since EXCEPT ![c] = Newest]
        /\ UNCHANGED <<inserted, closed, drops, leaked, left, opening, wire, blocked, got,
                       drainPc, latest, drainPage, more, polling, toVisit, visiting, pollLatest>>
    BY <1>2 DEF ReadNewest, socket, draining, poll
  <2>2. Newest \in Written /\ Newest \in 0..LastStreamed
    BY NewestStored DEF StreamInv
  <2>3. StreamTypeOK'
    BY <2>1, <2>2 DEF StreamInv, StreamTypeOK
  <2>4. /\ stage'[c] = "read" /\ lastId'[c] = Newest /\ since'[c] = Newest
        /\ \A d \in Clients : d # c => Untouched(d)
    BY <2>1 DEF StreamInv, StreamTypeOK, Untouched
  <2>5. Good(c)'
    <3>1. got[c] = <<>> /\ wire[c] = <<>> /\ drainPc[c] = "idle"
      BY <1>1, <2>1 DEF StageOK
    <3>2. Seen(c) = <<>> /\ Seen(c)' = <<>>
      BY <2>1, <3>1 DEF Seen
    <3>3. SeenOK(c)'
      BY <3>2, NothingListed DEF SeenOK
    <3>4. OpenOK(c)' /\ PageOK(c)' /\ BufferOK(c)'
      BY <1>1, <2>1, <2>4, <3>1 DEF OpenOK, PageOK, BufferOK
    <3>5. StageOK(c)'
      BY <1>1, <2>1, <2>2, <2>4 DEF StageOK, Written
    <3>6. QED
      BY <3>3, <3>4, <3>5 DEF Good
  <2>6. toVisit' \subseteq OpenStreams'
    BY <2>1, <2>4 DEF StreamInv, OpenStreams, StreamTypeOK
  <2>7. QED
    BY <2>1, <2>3, <2>4, <2>5, <2>6, StreamMoves DEF StreamInv
<1>3. CASE AddSubscriber(c)
  <2>1. /\ stage[c] = "read" /\ stage' = [stage EXCEPT ![c] = "open"]
        /\ opening' = [opening EXCEPT ![c] = TRUE]
        /\ UNCHANGED <<inserted, closed, drops, leaked, left, since, lastId, wire, blocked, got,
                       drainPc, latest, drainPage, more, polling, toVisit, visiting, pollLatest>>
    BY <1>3 DEF AddSubscriber, socket, draining, poll
  <2>2. StreamTypeOK'
    BY <2>1 DEF StreamInv, StreamTypeOK
  <2>3. stage'[c] = "open" /\ \A d \in Clients : d # c => Untouched(d)
    BY <2>1 DEF StreamInv, StreamTypeOK, Untouched
  <2>4. Good(c)'
    <3>1. got[c] = <<>> /\ wire[c] = <<>> /\ drainPc[c] = "idle" /\ lastId[c] = since[c]
      BY <1>1, <2>1 DEF StageOK
    <3>2. Seen(c) = <<>> /\ Seen(c)' = <<>>
      BY <2>1, <3>1 DEF Seen
    <3>3. SeenOK(c)'
      BY <3>2, NothingListed DEF SeenOK
    <3>4. \A e \in inserted : ~(since[c] < e /\ e <= lastId[c])
      BY <3>1, TypedStream DEF StreamInv
    <3>5. OpenOK(c)'
      BY <2>1, <3>2, <3>4, NothingListed DEF OpenOK, Matching
    <3>6. PageOK(c)' /\ BufferOK(c)'
      BY <1>1, <2>1, <3>1 DEF PageOK, BufferOK
    <3>7. StageOK(c)'
      BY <1>1, <2>1, <2>3 DEF StageOK, Written
    <3>8. QED
      BY <3>3, <3>5, <3>6, <3>7 DEF Good
  <2>5. toVisit' \subseteq OpenStreams'
    BY <2>1, <2>3 DEF StreamInv, OpenStreams, StreamTypeOK
  <2>6. QED
    BY <2>1, <2>2, <2>3, <2>4, <2>5, StreamMoves DEF StreamInv
<1>4. CASE SubscribeGone(c)
  <2>1. /\ stage[c] = "read" /\ stage' = [stage EXCEPT ![c] = "away"]
        /\ leaked' = leaked + 1 /\ left' = [left EXCEPT ![c] = FALSE]
        /\ lastId' = [lastId EXCEPT ![c] = 0]
        /\ UNCHANGED <<inserted, closed, drops, opening, since, wire, blocked, got,
                       drainPc, latest, drainPage, more, polling, toVisit, visiting, pollLatest>>
    BY <1>4 DEF SubscribeGone, socket, draining, poll
  <2>2. leaked' \in Nat
    BY <2>1 DEF StreamInv, StreamTypeOK
  <2>3. StreamTypeOK'
    BY <2>1, <2>2, Sizes DEF StreamInv, StreamTypeOK
  <2>4. stage'[c] = "away" /\ lastId'[c] = 0 /\ \A d \in Clients : d # c => Untouched(d)
    BY <2>1 DEF StreamInv, StreamTypeOK, Untouched
  <2>5. Good(c)'
    <3>1. SeenOK(c)' /\ OpenOK(c)' /\ BufferOK(c)'
      BY <1>1, <2>1, <2>4 DEF SeenOK, Seen, OpenOK, BufferOK, Matching
    <3>2. StageOK(c)' /\ PageOK(c)'
      BY <1>1, <2>1, <2>4 DEF StageOK, PageOK, Written
    <3>3. QED
      BY <3>1, <3>2 DEF Good
  <2>6. toVisit' \subseteq OpenStreams'
    BY <2>1, <2>4 DEF StreamInv, OpenStreams, StreamTypeOK
  <2>7. QED
    BY <2>1, <2>3, <2>4, <2>5, <2>6, StreamMoves DEF StreamInv
<1>5. QED
  BY <1>2, <1>3, <1>4

\* A client resumes where what it received ends.
LEMMA ResumeStream == ASSUME StreamInv, NEW c \in Clients, Resume(c) PROVE StreamInv'
<1>1. /\ stage[c] = "away" /\ got[c] # <<>> /\ stage' = [stage EXCEPT ![c] = "open"]
      /\ opening' = [opening EXCEPT ![c] = TRUE]
      /\ lastId' = [lastId EXCEPT ![c] = LastOf(got[c])]
      /\ UNCHANGED <<inserted, closed, drops, leaked, left, since, wire, blocked, got,
                     drainPc, latest, drainPage, more, polling, toVisit, visiting, pollLatest>>
  BY DEF Resume, socket, draining, poll
<1>2. SeenOK(c) /\ StageOK(c) /\ BufferOK(c)
  BY DEF StreamInv, Good
<1>3. wire[c] = <<>> /\ drainPc[c] = "idle" /\ got[c] \in Seq(StreamEvent) /\ inserted \subseteq StreamEvent
  BY <1>1, <1>2, TypedStream DEF StageOK, StreamInv
<1>4. Seen(c) = got[c] /\ Seen(c)' = got[c]
  BY <1>1, <1>3, ConcatEmptySeq DEF Seen
<1>5. Sorted(got[c]) /\ Range(got[c]) \subseteq inserted
  BY <1>2, <1>4 DEF SeenOK
<1>6. /\ LastOf(got[c]) \in Range(got[c]) /\ \A x \in Range(got[c]) : x <= LastOf(got[c])
      /\ LastOf(got[c]) \in inserted /\ LastOf(got[c]) \in 0..LastStreamed
  <2>1. LastOf(got[c]) \in Range(got[c]) /\ \A x \in Range(got[c]) : x <= LastOf(got[c])
    BY <1>1, <1>3, <1>5, LastIsGreatest
  <2>2. QED
    BY <1>3, <1>5, <2>1, Sizes
<1>7. StreamTypeOK'
  BY <1>1, <1>6 DEF StreamInv, StreamTypeOK
<1>8. /\ stage'[c] = "open" /\ lastId'[c] = LastOf(got[c])
      /\ \A d \in Clients : d # c => Untouched(d)
  BY <1>1 DEF StreamInv, StreamTypeOK, Untouched
<1>9. Good(c)'
  <2>1. SeenOK(c)'
    BY <1>1, <1>2, <1>4 DEF SeenOK, Matching
  <2>2. OpenOK(c)'
    BY <1>1, <1>2, <1>4, <1>6, <1>8 DEF OpenOK, SeenOK, Matching
  <2>3. StageOK(c)' /\ PageOK(c)' /\ BufferOK(c)'
    BY <1>1, <1>2, <1>3, <1>6, <1>8 DEF StageOK, PageOK, BufferOK, Written
  <2>4. QED
    BY <2>1, <2>2, <2>3 DEF Good
<1>10. toVisit' \subseteq OpenStreams'
  BY <1>1, <1>8 DEF StreamInv, OpenStreams, StreamTypeOK
<1>11. QED
  BY <1>1, <1>7, <1>8, <1>9, <1>10, StreamMoves DEF StreamInv

(* Steps of drain() and poll(). *)

\* A drain goes on without writing.
LEMMA DrainMoves ==
    ASSUME StreamInv, StreamTypeOK', NEW c \in Clients,
           UNCHANGED <<inserted, stage, since, lastId, wire, blocked, got>>,
           \A d \in Clients : d # c =>
              /\ opening'[d] = opening[d] /\ drainPc'[d] = drainPc[d] /\ latest'[d] = latest[d]
              /\ drainPage'[d] = drainPage[d] /\ more'[d] = more[d],
           opening'[c] => opening[c],
           drainPc'[c] # "idle" => stage[c] = "open",
           latest'[c] \in Written, PageOK(c)',
           drainPc'[c] = "write" => Len(drainPage'[c]) <= Batch /\ ~blocked[c],
           toVisit' \subseteq OpenStreams, pollLatest' \in Written
    PROVE  StreamInv'
<1>1. SeenOK(c) /\ StageOK(c) /\ OpenOK(c) /\ BufferOK(c)
  BY DEF StreamInv, Good
<1>2. SeenOK(c)' /\ OpenOK(c)' /\ BufferOK(c)'
  BY <1>1 DEF SeenOK, OpenOK, BufferOK, Seen, Matching
<1>3. StageOK(c)'
  BY <1>1 DEF StageOK, Written
<1>4. Good(c)'
  BY <1>2, <1>3 DEF Good
<1>5. \A d \in Clients : d # c => Untouched(d)
  BY DEF Untouched
<1>6. toVisit' \subseteq OpenStreams'
  BY DEF OpenStreams
<1>7. QED
  BY <1>4, <1>5, <1>6, StreamMoves

LEMMA DrainBegins ==
    ASSUME StreamInv, NEW c \in Clients, FirstDrain(c) \/ Visit(c)
    PROVE  StreamInv'
<1>1. /\ drainPc \in [Clients -> {"idle", "query", "write"}] /\ latest \in [Clients -> 0..LastStreamed]
      /\ opening \in [Clients -> BOOLEAN]
  BY DEF StreamInv, StreamTypeOK
<1>2. SeenOK(c) /\ StageOK(c) /\ OpenOK(c) /\ PageOK(c) /\ BufferOK(c)
  BY DEF StreamInv, Good
<1>3. CASE FirstDrain(c)
  <2>1. /\ opening[c] /\ opening' = [opening EXCEPT ![c] = FALSE]
        /\ UNCHANGED <<inserted, closed, drops, leaked, stage, left, since, lastId, wire, blocked, got,
                       drainPage, more, polling, toVisit, visiting, pollLatest>>
    BY <1>3 DEF FirstDrain, Drain, draining, socket, poll
  <2>2. \/ drainPc' = [drainPc EXCEPT ![c] = "query"] /\ latest' = [latest EXCEPT ![c] = Newest]
        \/ UNCHANGED <<drainPc, latest>>
    BY <1>3 DEF FirstDrain, Drain, draining
  <2>3. stage[c] = "open"
    BY <1>2, <2>1 DEF StageOK
  <2>4. Newest \in Written /\ Newest \in 0..LastStreamed
    BY NewestStored DEF StreamInv
  <2>5. StreamTypeOK'
    <3>1. drainPc' \in [Clients -> {"idle", "query", "write"}]
      BY <1>1, <2>2
    <3>2. latest' \in [Clients -> 0..LastStreamed]
      BY <1>1, <2>2, <2>4
    <3>3. QED
      BY <2>1, <3>1, <3>2 DEF StreamInv, StreamTypeOK
  <2>6. /\ \A d \in Clients : d # c =>
              /\ opening'[d] = opening[d] /\ drainPc'[d] = drainPc[d] /\ latest'[d] = latest[d]
        /\ ~opening'[c] /\ (drainPc'[c] = "query" \/ drainPc'[c] = drainPc[c])
        /\ latest'[c] \in Written
    BY <1>1, <1>2, <2>1, <2>2, <2>4 DEF StageOK
  <2>7. PageOK(c)' /\ (drainPc'[c] = "write" => drainPc[c] = "write")
    <3>1. CASE drainPc'[c] = "query"
      BY <3>1 DEF PageOK
    <3>2. CASE drainPc' = drainPc /\ latest' = latest
      BY <1>2, <2>1, <3>2 DEF PageOK, Matching
    <3>3. QED
      BY <1>1, <2>2, <3>1, <3>2
  <2>8. Good(c)'
    <3>1. SeenOK(c)' /\ OpenOK(c)' /\ BufferOK(c)'
      BY <1>2, <2>1, <2>7 DEF SeenOK, OpenOK, BufferOK, Seen, Matching
    <3>2. StageOK(c)'
      BY <1>2, <2>1, <2>3, <2>6 DEF StageOK, Written
    <3>3. QED
      BY <2>7, <3>1, <3>2 DEF Good
  <2>9. \A d \in Clients : d # c => Untouched(d)
    BY <2>1, <2>6 DEF Untouched
  <2>10. QED
    BY <2>1, <2>5, <2>8, <2>9, StreamMoves DEF StreamInv, OpenStreams
<1>4. CASE Visit(c)
  <2>1. /\ c \in toVisit /\ visiting = "none" /\ toVisit' = toVisit \ {c}
        /\ UNCHANGED <<inserted, closed, drops, leaked, stage, left, opening, since, lastId,
                       wire, blocked, got, drainPage, more, polling, pollLatest>>
    BY <1>4 DEF Visit, Drain, draining, socket, client
  <2>2. \/ /\ drainPc' = [drainPc EXCEPT ![c] = "query"] /\ latest' = [latest EXCEPT ![c] = pollLatest]
           /\ visiting' = c
        \/ UNCHANGED <<drainPc, latest, visiting>>
    BY <1>4 DEF Visit, Drain, draining
  <2>3. stage[c] = "open" /\ pollLatest \in Written /\ pollLatest \in 0..LastStreamed
    BY <2>1 DEF StreamInv, OpenStreams, StreamTypeOK
  <2>4. StreamTypeOK'
    <3>1. toVisit' \subseteq Clients /\ visiting' \in Clients \cup {"none"}
      BY <2>1, <2>2 DEF StreamInv, StreamTypeOK
    <3>2. drainPc' \in [Clients -> {"idle", "query", "write"}]
      BY <1>1, <2>2
    <3>3. latest' \in [Clients -> 0..LastStreamed]
      BY <1>1, <2>2, <2>3
    <3>4. QED
      BY <2>1, <3>1, <3>2, <3>3 DEF StreamInv, StreamTypeOK
  <2>5. /\ \A d \in Clients : d # c => drainPc'[d] = drainPc[d] /\ latest'[d] = latest[d]
        /\ latest'[c] \in Written
    BY <1>1, <1>2, <2>2, <2>3 DEF StageOK
  <2>6. PageOK(c)' /\ (drainPc'[c] = "write" => drainPc[c] = "write")
    <3>1. CASE drainPc' = [drainPc EXCEPT ![c] = "query"]
      BY <1>1, <3>1 DEF PageOK
    <3>2. CASE drainPc' = drainPc /\ latest' = latest
      BY <1>2, <2>1, <3>2 DEF PageOK, Matching
    <3>3. QED
      BY <2>2, <3>1, <3>2
  <2>7. Good(c)'
    <3>1. SeenOK(c)' /\ OpenOK(c)' /\ BufferOK(c)'
      BY <1>2, <2>1, <2>6 DEF SeenOK, OpenOK, BufferOK, Seen, Matching
    <3>2. StageOK(c)'
      BY <1>2, <2>1, <2>3, <2>5 DEF StageOK, Written
    <3>3. QED
      BY <2>6, <3>1, <3>2 DEF Good
  <2>8. \A d \in Clients : d # c => Untouched(d)
    BY <2>1, <2>5 DEF Untouched
  <2>9. toVisit' \subseteq OpenStreams'
    BY <2>1 DEF StreamInv, OpenStreams
  <2>10. QED
    BY <2>1, <2>4, <2>7, <2>8, <2>9, StreamMoves DEF StreamInv
<1>5. QED
  BY <1>3, <1>4

\* drain() ends without having written, or poll() goes on.
LEMMA DrainEnds ==
    ASSUME StreamInv, NEW c \in Clients, SkipSlow(c) \/ DrainFails(c)
    PROVE  StreamInv'
<1>1. /\ DrainReturns(c)
      /\ UNCHANGED <<inserted, closed, drops, leaked, stage, left, opening, since, lastId,
                     wire, blocked, got>>
  BY DEF SkipSlow, DrainFails, client, socket
<1>2. /\ drainPc' = [drainPc EXCEPT ![c] = "idle"] /\ latest' = [latest EXCEPT ![c] = 0]
      /\ drainPage' = [drainPage EXCEPT ![c] = <<>>] /\ more' = [more EXCEPT ![c] = FALSE]
      /\ visiting' = (IF visiting = c THEN "none" ELSE visiting)
      /\ UNCHANGED <<polling, toVisit, pollLatest>>
  BY <1>1 DEF DrainReturns
<1>3. StreamTypeOK'
  <2>1. <<>> \in Seq(StreamEvent)
    OBVIOUS
  <2>2. /\ drainPc' \in [Clients -> {"idle", "query", "write"}] /\ latest' \in [Clients -> 0..LastStreamed]
        /\ more' \in [Clients -> BOOLEAN] /\ visiting' \in Clients \cup {"none"}
    BY <1>2, Sizes DEF StreamInv, StreamTypeOK
  <2>3. drainPage' \in [Clients -> Seq(StreamEvent)]
    BY <1>2, <2>1 DEF StreamInv, StreamTypeOK
  <2>4. QED
    BY <1>1, <1>2, <2>2, <2>3 DEF StreamInv, StreamTypeOK
<1>4. /\ drainPc'[c] = "idle" /\ latest'[c] = 0
      /\ \A d \in Clients : d # c => /\ opening'[d] = opening[d] /\ drainPc'[d] = drainPc[d] /\ latest'[d] = latest[d]
                                     /\ drainPage'[d] = drainPage[d] /\ more'[d] = more[d]
  BY <1>1, <1>2 DEF StreamInv, StreamTypeOK
<1>5. PageOK(c)'
  BY <1>4 DEF PageOK
<1>6. QED
  BY <1>1, <1>2, <1>3, <1>4, <1>5, DrainMoves DEF StreamInv, Written

LEMMA PollSteps == ASSUME StreamInv, HubPoll \/ PollEnds PROVE StreamInv'
<1>1. /\ UNCHANGED <<inserted, closed, drops, leaked, stage, left, opening, since, lastId,
                     wire, blocked, got, drainPc, latest, drainPage, more, visiting>>
      /\ toVisit' = OpenStreams \/ toVisit' = toVisit
      /\ pollLatest' = Newest \/ pollLatest' = 0
      /\ polling' \in BOOLEAN
  BY DEF HubPoll, PollEnds, client, socket, draining
<1>2. Newest \in Written /\ Newest \in 0..LastStreamed
  BY NewestStored DEF StreamInv
<1>3. OpenStreams \subseteq Clients
  BY DEF OpenStreams
<1>4. StreamTypeOK'
  BY <1>1, <1>2, <1>3, Sizes DEF StreamInv, StreamTypeOK
<1>5. \A d \in Clients : Untouched(d)
  BY <1>1 DEF Untouched
<1>6. \A d \in Clients : Good(d)'
  BY <1>1, <1>5, UntouchedIsGood DEF StreamInv
<1>7. toVisit' \subseteq OpenStreams' /\ pollLatest' \in Written'
  BY <1>1, <1>2 DEF StreamInv, OpenStreams, Written
<1>8. QED
  BY <1>4, <1>6, <1>7 DEF StreamInv

LEMMA QueryStream == ASSUME StreamInv, NEW c \in Clients, DrainQuery(c) PROVE StreamInv'
<1>1. PICK list \in Ascending(Pending(c)) :
        /\ drainPage' = [drainPage EXCEPT ![c] = FirstOf(list, Batch)]
        /\ more' = [more EXCEPT ![c] = Len(list) > Batch]
  BY DEF DrainQuery
<1>2. /\ drainPc[c] = "query" /\ ~blocked[c] /\ drainPc' = [drainPc EXCEPT ![c] = "write"]
      /\ UNCHANGED <<inserted, closed, drops, leaked, stage, left, opening, since, lastId,
                     wire, blocked, got, latest, polling, toVisit, visiting, pollLatest>>
  BY DEF DrainQuery, client, socket, poll
<1> DEFINE next == FirstOf(list, Batch)
           matches == Pending(c)
<1>3. /\ matches \in SUBSET Nat /\ IsFiniteSet(matches) /\ matches \subseteq StreamEvent
      /\ \A e : e \in matches <=> e \in Matching /\ e > lastId[c]
  <2>1. \A e : e \in matches <=> e \in Matching /\ e > lastId[c]
    BY DEF Pending, Matching
  <2>2. matches \subseteq StreamEvent
    BY <2>1 DEF StreamInv, StreamTypeOK, Matching
  <2>3. IsFiniteSet(1..LastStreamed)
    BY FS_Interval, Sizes
  <2>4. matches \in SUBSET Nat
    BY <2>2, Sizes
  <2>5. QED
    BY <2>1, <2>2, <2>3, <2>4, FS_Subset DEF StreamEvent
<1>4. Batch \in Nat \ {0}
  BY Sizes
<1> HIDE DEF next, matches
<1>5. /\ next \in Seq(matches) /\ Len(next) <= Batch /\ Len(list) \in Nat
      /\ \A i, j \in DOMAIN next : i < j => next[i] < next[j]
      /\ \A e \in matches : \A i \in DOMAIN next : e <= next[i] => \E j \in DOMAIN next : next[j] = e
      /\ ~(Len(list) > Batch) => \A e \in matches : \E j \in DOMAIN next : next[j] = e
  BY <1>1, <1>3, <1>4, FirstOfIsFirst DEF next, matches
<1>6. /\ next \in Seq(StreamEvent) /\ Sorted(next)
      /\ \A x \in Range(next) : x \in matches
      /\ \A e \in matches, x \in Range(next) : e <= x => e \in Range(next)
      /\ ~(Len(list) > Batch) => \A e \in matches : e \in Range(next)
  <2>1. next \in Seq(StreamEvent) /\ \A i \in DOMAIN next : next[i] \in matches
    <3>1. matches \subseteq StreamEvent
      BY <1>3
    <3>2. next \in Seq(StreamEvent)
      BY <1>5, <3>1
    <3>3. \A i \in DOMAIN next : next[i] \in matches
      BY <1>5
    <3>4. QED
      BY <3>2, <3>3
  <2>2. QED
    BY <1>5, <2>1 DEF Sorted, Range
<1>7. /\ drainPage' = [drainPage EXCEPT ![c] = next] /\ (Len(list) > Batch) \in BOOLEAN
  BY <1>1 DEF next
<1>8. StreamTypeOK'
  <2>1. drainPage' \in [Clients -> Seq(StreamEvent)]
    BY <1>6, <1>7 DEF StreamInv, StreamTypeOK
  <2>2. more' \in [Clients -> BOOLEAN]
    BY <1>1, <1>7 DEF StreamInv, StreamTypeOK
  <2>3. drainPc' \in [Clients -> {"idle", "query", "write"}]
    BY <1>2 DEF StreamInv, StreamTypeOK
  <2>4. QED
    BY <1>2, <2>1, <2>2, <2>3 DEF StreamInv, StreamTypeOK
<1>9. /\ drainPc'[c] = "write" /\ drainPage'[c] = next /\ more'[c] = (Len(list) > Batch)
      /\ \A d \in Clients : d # c => drainPc'[d] = drainPc[d] /\ drainPage'[d] = drainPage[d] /\ more'[d] = more[d]
  BY <1>1, <1>2, <1>7 DEF StreamInv, StreamTypeOK
<1>10. SeenOK(c) /\ StageOK(c)
  BY DEF StreamInv, Good
<1>11. PageOK(c)'
  <2>1. /\ lastId[c] \in Nat /\ \A x \in inserted : x \in Nat
    BY TypedStream DEF StreamInv
  <2>2. \A e \in Matching : lastId[c] < e => e \in matches
    BY <1>3, <2>1 DEF Matching
  <2>3. \A x \in matches : x \in inserted /\ lastId[c] < x
    BY <1>3, <2>1 DEF Matching
  <2>4. \A x \in Range(next) : x \in inserted /\ lastId[c] < x
    BY <1>6, <2>3
  <2>5. QED
    BY <1>2, <1>6, <1>9, <2>2, <2>4 DEF PageOK, Matching
<1>12. stage[c] = "open" /\ latest'[c] \in Written
  BY <1>2, <1>10 DEF StageOK
<1>13. toVisit' \subseteq OpenStreams /\ pollLatest' \in Written
  BY <1>2 DEF StreamInv
<1>14. QED
  BY <1>2, <1>5, <1>8, <1>9, <1>11, <1>12, <1>13, DrainMoves

\* The page goes onto the wire; the position moves to its end or, after the last one,
\* to what was newest before the query.
LEMMA WriteStream == ASSUME StreamInv, NEW c \in Clients, Write(c) PROVE StreamInv'
<1> DEFINE next == drainPage[c]
           at == IF more[c] THEN Passed(c) ELSE Max({Passed(c), latest[c]})
<1>1. /\ drainPc[c] = "write"
      /\ wire' = [wire EXCEPT ![c] = wire[c] \o next]
      /\ blocked' = [blocked EXCEPT ![c] = blocked[c] \/ Len(wire[c] \o next) >= HighWater]
      /\ lastId' = [lastId EXCEPT ![c] = at]
      /\ UNCHANGED <<inserted, closed, drops, leaked, stage, left, opening, since, got, polling, toVisit, pollLatest>>
  BY DEF Write, Put, client, poll, DrainReturns
<1>2. \/ /\ more[c] /\ drainPc' = [drainPc EXCEPT ![c] = "query"]
         /\ UNCHANGED <<latest, drainPage, more, visiting>>
      \/ /\ drainPc' = [drainPc EXCEPT ![c] = "idle"] /\ latest' = [latest EXCEPT ![c] = 0]
         /\ drainPage' = [drainPage EXCEPT ![c] = <<>>] /\ more' = [more EXCEPT ![c] = FALSE]
         /\ visiting' = (IF visiting = c THEN "none" ELSE visiting)
  BY DEF Write, DrainReturns, poll
<1>3. SeenOK(c) /\ StageOK(c) /\ OpenOK(c) /\ PageOK(c) /\ BufferOK(c) /\ stage[c] = "open"
  BY <1>1 DEF StreamInv, Good, StageOK
<1>4. /\ got[c] \in Seq(StreamEvent) /\ wire[c] \in Seq(StreamEvent) /\ next \in Seq(StreamEvent)
      /\ Seen(c) \in Seq(StreamEvent)
      /\ lastId[c] \in Nat /\ since[c] \in Nat /\ latest[c] \in Nat
      /\ Len(wire[c]) \in Nat /\ Len(next) \in Nat
      /\ inserted \subseteq StreamEvent /\ \A x \in inserted : x \in Nat
  BY TypedStream DEF StreamInv
<1> DEFINE passed == Passed(c)
<1>5. /\ Range(next) \subseteq inserted /\ Sorted(next)
      /\ \A x \in Range(next) : lastId[c] < x
      /\ \A x \in Range(next), e \in Matching : lastId[c] < e /\ e <= x => e \in Range(next)
      /\ ~more[c] => \A e \in Matching : lastId[c] < e /\ e <= latest[c] => e \in Range(next)
  BY <1>1, <1>3 DEF PageOK
<1>6. /\ passed \in Written /\ passed \in Nat /\ lastId[c] <= passed
      /\ passed = lastId[c] \/ passed \in Range(next)
      /\ \A x \in Range(next) : x <= passed
  <2>1. CASE next = <<>>
    BY <1>3, <1>4, <2>1, NothingListed DEF Passed, StageOK
  <2>2. CASE next # <<>>
    <3>1. /\ passed = LastOf(next) /\ passed \in Range(next)
          /\ \A x \in Range(next) : x <= passed
      BY <1>4, <1>5, <2>2, LastIsGreatest DEF Passed
    <3>2. passed \in inserted /\ passed \in Nat /\ lastId[c] < passed
      BY <1>4, <1>5, <3>1
    <3>3. QED
      BY <1>4, <3>1, <3>2 DEF Written
  <2>3. QED
    BY <2>1, <2>2
<1> HIDE DEF passed
<1>7. /\ at = passed \/ (~more[c] /\ at = latest[c])
      /\ at \in Nat /\ passed <= at
  <2>1. /\ Max({passed, latest[c]}) \in {passed, latest[c]}
        /\ \A x \in {passed, latest[c]} : x <= Max({passed, latest[c]})
    <3> DEFINE bound == passed + latest[c]
               both == {passed, latest[c]}
    <3>1. both \in SUBSET Nat /\ both # {} /\ bound \in Nat /\ \A x \in both : x <= bound
      BY <1>4, <1>6
    <3> HIDE DEF both, bound
    <3>2. Max(both) \in both /\ \A x \in both : x <= Max(both)
      BY <3>1, MaxIsGreatest
    <3>3. QED
      BY <3>2 DEF both
  <2>2. QED
    BY <1>4, <1>6, <2>1 DEF passed
<1> HIDE DEF at, next
<1>8. at \in Written /\ at \in 0..LastStreamed /\ lastId[c] <= at
  <2>1. at \in Written
    BY <1>3, <1>6, <1>7 DEF StageOK
  <2>2. at \in 0..LastStreamed
    BY <1>4, <2>1, Sizes DEF Written
  <2>3. QED
    BY <1>4, <1>6, <1>7, <2>1, <2>2
\* Nothing that matches lies between the page and the position.
<1>9. \A e \in Matching : lastId[c] < e /\ e <= at => e \in Range(next)
  <2>1. CASE at = passed
    BY <1>4, <1>5, <1>6, <2>1 DEF Matching
  <2>2. CASE ~more[c] /\ at = latest[c]
    BY <1>5, <2>2
  <2>3. QED
    BY <1>7, <2>1, <2>2
<1>10. /\ wire[c] \o next \in Seq(StreamEvent) /\ Len(wire[c] \o next) = Len(wire[c]) + Len(next)
       /\ Seen(c) \o next = got[c] \o (wire[c] \o next)
       /\ Seen(c) \o next \in Seq(StreamEvent)
       /\ Range(Seen(c) \o next) = Range(Seen(c)) \cup Range(next)
  <2>1. \A s, t, u \in Seq(StreamEvent) : (s \o t) \o u = s \o (t \o u)
    BY ConcatAssociative
  <2>2. (got[c] \o wire[c]) \o next = got[c] \o (wire[c] \o next)
    BY <1>4, <2>1, Zenon
  <2>3. QED
    BY <1>4, <2>2, Joined DEF Seen
<1>11. StreamTypeOK'
  <2>1. wire' \in [Clients -> Seq(StreamEvent)] /\ lastId' \in [Clients -> 0..LastStreamed]
    BY <1>1, <1>8, <1>10 DEF StreamInv, StreamTypeOK
  <2>2. blocked' \in [Clients -> BOOLEAN]
    BY <1>1 DEF StreamInv, StreamTypeOK
  <2>3. drainPage' \in [Clients -> Seq(StreamEvent)]
    <3>1. <<>> \in Seq(StreamEvent)
      OBVIOUS
    <3>2. QED
      BY <1>2, <3>1 DEF StreamInv, StreamTypeOK
  <2>4. drainPc' \in [Clients -> {"idle", "query", "write"}] /\ more' \in [Clients -> BOOLEAN]
    BY <1>2 DEF StreamInv, StreamTypeOK
  <2>5. latest' \in [Clients -> 0..LastStreamed]
    <3>1. latest \in [Clients -> 0..LastStreamed] /\ 0 \in 0..LastStreamed
      BY Sizes DEF StreamInv, StreamTypeOK
    <3>2. latest' = latest \/ latest' = [latest EXCEPT ![c] = 0]
      BY <1>2
    <3>3. QED
      BY <3>1, <3>2
  <2>6. visiting' \in Clients \cup {"none"}
    BY <1>2 DEF StreamInv, StreamTypeOK
  <2>7. QED
    BY <1>1, <2>1, <2>2, <2>3, <2>4, <2>5, <2>6 DEF StreamInv, StreamTypeOK
<1>12. /\ wire'[c] = wire[c] \o next /\ lastId'[c] = at
       /\ blocked'[c] = (blocked[c] \/ Len(wire[c] \o next) >= HighWater)
       /\ drainPc'[c] \in {"idle", "query"} /\ latest'[c] \in Written
  BY <1>1, <1>2, <1>3 DEF StreamInv, StreamTypeOK, StageOK, Written
<1>13. \A d \in Clients : d # c => Untouched(d)
  BY <1>1, <1>2 DEF Untouched, StreamInv, StreamTypeOK
<1>14. Seen(c)' = Seen(c) \o next
  BY <1>1, <1>10, <1>12 DEF Seen
<1> DEFINE seen == Range(Seen(c))
           later == Range(next)
<1>15. /\ seen \subseteq inserted /\ Sorted(Seen(c))
       /\ \A x \in seen : x <= lastId[c]
       /\ \A e \in Matching : since[c] < e /\ e <= lastId[c] => e \in seen
  BY <1>3 DEF SeenOK, OpenOK
<1>16. Range(Seen(c)') = seen \cup later /\ later \subseteq inserted
  BY <1>5, <1>10, <1>14
<1>17. \A x \in seen \cup later : x \in Nat /\ x <= at
  <2>1. \A x \in seen : x \in Nat /\ x <= lastId[c]
    BY <1>4, <1>15
  <2>2. \A x \in later : x \in Nat /\ x <= passed
    BY <1>4, <1>5, <1>6
  <2>3. QED
    BY <1>4, <1>6, <1>7, <1>8, <2>1, <2>2
<1>18. \A e \in Matching : since[c] < e /\ e <= at => e \in seen \cup later
  <2>1. SUFFICES ASSUME NEW e \in Matching, since[c] < e, e <= at PROVE e \in seen \cup later
    OBVIOUS
  <2>2. e <= lastId[c] \/ lastId[c] < e
    BY <1>4 DEF Matching
  <2>3. QED
    BY <1>9, <1>15, <2>1, <2>2
<1>19. SeenOK(c)'
  <2>1. Sorted(Seen(c)')
    <3>1. \A x \in seen, y \in later : x < y
      <4>1. SUFFICES ASSUME NEW x \in seen, NEW y \in later PROVE x < y
        OBVIOUS
      <4>2. x <= lastId[c] /\ lastId[c] < y /\ x \in Nat /\ y \in Nat
        BY <1>5, <1>15, <1>17
      <4>3. QED
        BY <1>4, <4>2
    <3>2. QED
      BY <1>4, <1>5, <1>14, <1>15, <3>1, Joined
  <2>2. \A x \in seen \cup later, e \in Matching : since[c] < e /\ e <= x => e \in seen \cup later
    <3>1. SUFFICES ASSUME NEW x \in seen \cup later, NEW e \in Matching, since[c] < e, e <= x
                   PROVE  e \in seen \cup later
      OBVIOUS
    <3>2. e <= at
      BY <1>4, <1>7, <1>17, <3>1 DEF Matching
    <3>3. QED
      BY <1>18, <3>1, <3>2
  <2>3. QED
    BY <1>1, <1>15, <1>16, <2>1, <2>2 DEF SeenOK, Matching
<1>20. OpenOK(c)'
  BY <1>1, <1>12, <1>16, <1>17, <1>18 DEF OpenOK, Matching
<1>21. StageOK(c)' /\ PageOK(c)'
  BY <1>1, <1>3, <1>8, <1>12 DEF StageOK, PageOK, Written
<1>22. BufferOK(c)'
  <2>1. /\ Len(wire[c]) < HighWater /\ Len(next) <= Batch
        /\ Len(wire'[c]) = Len(wire[c]) + Len(next)
    BY <1>1, <1>3, <1>10, <1>12 DEF BufferOK, next
  <2>2. ~blocked'[c] => ~(Len(wire'[c]) >= HighWater)
    BY <1>12
  <2>3. Len(wire'[c]) < HighWater + Batch /\ Len(wire'[c]) \in Nat
    BY <1>4, <2>1, Sizes
  <2>4. ~(Len(wire'[c]) >= HighWater) => Len(wire'[c]) < HighWater
    BY <2>3, Sizes
  <2>5. QED
    BY <1>12, <2>2, <2>3, <2>4 DEF BufferOK
<1>23. Good(c)'
  BY <1>19, <1>20, <1>21, <1>22 DEF Good
<1>24. toVisit' \subseteq OpenStreams' /\ pollLatest' \in Written
  BY <1>1 DEF StreamInv, OpenStreams
<1>25. QED
  BY <1>1, <1>11, <1>13, <1>23, <1>24, StreamMoves

(* The theorems. *)

LEMMA StreamStep == StreamInv /\ [StreamNext]_streamVars => StreamInv'
<1>1. SUFFICES ASSUME StreamInv, [StreamNext]_streamVars PROVE StreamInv'
  OBVIOUS
<1>2. CASE UNCHANGED streamVars
  <2>1. UNCHANGED <<inserted, closed, drops, leaked, stage, left, opening, since, lastId, wire, blocked, got,
                    drainPc, latest, drainPage, more, polling, toVisit, visiting, pollLatest>>
    BY <1>2 DEF streamVars, client, socket, draining, poll
  <2>2. StreamTypeOK'
    BY <1>1, <2>1 DEF StreamInv, StreamTypeOK
  <2>3. \A c \in Clients : Good(c)'
    BY <1>1, <2>1, UntouchedIsGood DEF Untouched, StreamInv
  <2>4. QED
    BY <1>1, <2>1, <2>2, <2>3 DEF StreamInv, OpenStreams, Written
<1>3. CASE \E e \in StreamEvent : StreamInsert(e)
  BY <1>1, <1>3, InsertStream
<1>4. CASE CloseAll
  BY <1>1, <1>4, ClientSteps
<1>5. CASE HubPoll \/ PollEnds
  BY <1>1, <1>5, PollSteps
<1>6. ASSUME NEW c \in Clients,
             Ask(c) \/ Resume(c) \/ ReadSocket(c) \/ Drop(c) \/ DropEarly(c) \/ Hub(c) \/ DrainFails(c)
      PROVE  StreamInv'
  <2>1. CASE Ask(c) \/ Drop(c) \/ DropEarly(c)
    BY <1>1, <2>1, ClientSteps
  <2>2. CASE Resume(c)
    BY <1>1, <2>2, ResumeStream
  <2>3. CASE ReadSocket(c)
    BY <1>1, <2>3, ReceiveStream
  <2>4. CASE ReadNewest(c) \/ AddSubscriber(c) \/ SubscribeGone(c)
    BY <1>1, <2>4, SubscribeSteps
  <2>5. CASE FirstDrain(c) \/ Visit(c)
    BY <1>1, <2>5, DrainBegins
  <2>6. CASE SkipSlow(c) \/ DrainFails(c)
    BY <1>1, <2>6, DrainEnds
  <2>7. CASE DrainQuery(c)
    BY <1>1, <2>7, QueryStream
  <2>8. CASE Write(c)
    BY <1>1, <2>8, WriteStream
  <2>9. QED
    BY <1>6, <2>1, <2>2, <2>3, <2>4, <2>5, <2>6, <2>7, <2>8 DEF Hub
<1>7. QED
  BY <1>1, <1>2, <1>3, <1>4, <1>5, <1>6 DEF StreamNext

LEMMA StreamAlways == StreamSpec => []StreamInv
  BY InitStream, StreamStep, PTL DEF StreamSpec

\* However often a client comes back, it sees each event once and in order, and no
\* matching event up to the position of its stream is left out: subscribe(), drain()
\* and poll() of stream.ts, whatever interleaves with their awaits.
THEOREM StreamsAreExact == StreamSpec => []StreamIsExact
<1>1. StreamInv => StreamIsExact
  <2>1. SUFFICES ASSUME StreamInv, NEW c \in Clients
                 PROVE  /\ \A i, j \in DOMAIN Seen(c) : i < j => Seen(c)[i] < Seen(c)[j]
                        /\ c \in OpenStreams => \A e \in inserted \cap Wanted :
                               since[c] < e /\ e <= lastId[c] => e \in Range(Seen(c))
    BY DEF StreamIsExact, Seen
  <2>2. SeenOK(c) /\ OpenOK(c)
    BY <2>1 DEF StreamInv, Good
  <2>3. QED
    BY <2>2 DEF SeenOK, OpenOK, Sorted, OpenStreams, Matching
<1>2. QED
  BY StreamAlways, <1>1, PTL

\* A client that does not read costs the server less than a page over the high-water
\* mark: drain() asks the socket before every query.
THEOREM BuffersAreBounded == StreamSpec => []BufferBounded
<1>1. StreamInv => BufferBounded
  BY DEF StreamInv, Good, BufferOK, BufferBounded
<1>2. QED
  BY StreamAlways, <1>1, PTL

-----------------------------------------------------------------------------
(* Explorer: the inductive invariant. *)

Requests == [number : {0, 1, 2}, filter : ListFilters, cursor : Nat, read : BOOLEAN,
             rows : SUBSET Nat, next : Nat]
Streams == [state : {"connecting", "open"}, filter : ListFilters, last : Nat, sent : Seq(Nat)]

ExplorerTyped ==
    /\ indexed \in Nat /\ filter \in ListFilters /\ events \in Seq(Nat) /\ nextCursor \in Nat
    /\ requests \subseteq Requests /\ stream \in Streams /\ {failed, strayed} \subseteq BOOLEAN

\* The newest request is for the filter that is shown, and so is the stream; what is on
\* its way matches what it was asked for.
RequestFits(c) ==
    /\ IsNewest(c) => c.filter = filter /\ ~IsMore(c)
    /\ c.rows \subseteq OfFilter(c.filter, indexed)
StreamFits ==
    /\ stream.filter = filter
    /\ Range(stream.sent) \subseteq OfFilter(filter, indexed)

EachOnce(list) == \A i, j \in DOMAIN list : list[i] = list[j] => i = j

\* Whatever the list holds that does not match will be replaced, or is owned up to.
ExplorerInv ==
    /\ ExplorerTyped /\ EachOnce(events) /\ StreamFits
    /\ \A c \in requests : RequestFits(c)
    /\ Waiting \/ failed \/ strayed \/ Range(events) \subseteq OfFilter(filter, indexed)

-----------------------------------------------------------------------------
(* Explorer: lists. *)

LEMMA ListOfMatching ==
    ASSUME NEW f \in ListFilters, NEW n \in Nat, NEW S, S \subseteq OfFilter(f, n),
           NEW list \in NewestFirst(S)
    PROVE  list \in Seq(Nat) /\ Range(list) = S /\ EachOnce(list)
<1>1. S \subseteq Nat /\ S \subseteq 1..n
  BY DEF OfFilter
<1>2. IsFiniteSet(S)
  <2>1. IsFiniteSet(1..n)
    BY FS_Interval
  <2>2. QED
    BY <1>1, <2>1, FS_Subset
<1>3. /\ list \in [1..Cardinality(S) -> S] /\ Range(list) = S
      /\ \A i, j \in DOMAIN list : i < j => list[i] > list[j]
  BY DEF NewestFirst
<1>4. list \in Seq(Nat) /\ DOMAIN list = 1..Cardinality(S) /\ Cardinality(S) \in Nat
  BY <1>1, <1>2, <1>3, ListIsSeq, FS_CardinalityType
<1>5. ASSUME NEW i \in DOMAIN list, NEW j \in DOMAIN list, list[i] = list[j] PROVE i = j
  <2>1. i \in Nat /\ j \in Nat /\ list[i] \in Nat /\ list[j] \in Nat
    BY <1>4
  <2>2. ~(list[i] > list[j]) /\ ~(list[j] > list[i])
    BY <1>5, <2>1
  <2>3. ~(i < j) /\ ~(j < i)
    BY <1>3, <2>2
  <2>4. QED
    BY <2>1, <2>3
<1>6. QED
  BY <1>3, <1>4, <1>5 DEF EachOnce

\* Rows that are not listed yet may be put behind those that are.
LEMMA EachOnceTogether ==
    ASSUME NEW a \in Seq(Nat), NEW b \in Seq(Nat), EachOnce(a), EachOnce(b),
           Range(a) \cap Range(b) = {}, NEW all, all = a \o b
    PROVE  EachOnce(all) /\ all \in Seq(Nat) /\ Range(all) = Range(a) \cup Range(b)
<1>1. Behind(Nat, a, b, all)
  BY PutBehind
<1>2. ASSUME NEW j \in DOMAIN all, NEW k \in DOMAIN all, j < k PROVE all[j] # all[k]
  <2>1. j \in Nat /\ k \in Nat /\ DOMAIN b \subseteq Nat
    BY <1>1 DEF Behind
  <2>2. CASE j \in DOMAIN a /\ k \in DOMAIN a /\ all[j] = a[j] /\ all[k] = a[k]
    BY <1>2, <2>1, <2>2 DEF EachOnce
  <2>3. CASE all[j] \in Range(a) /\ all[k] \in Range(b)
    BY <2>3
  <2>4. CASE \E m, n \in DOMAIN b : m < n /\ all[j] = b[m] /\ all[k] = b[n]
    BY <2>1, <2>4 DEF EachOnce
  <2>5. QED
    BY <1>1, <1>2, <2>2, <2>3, <2>4 DEF Behind
<1>3. ASSUME NEW j \in DOMAIN all, NEW k \in DOMAIN all, all[j] = all[k] PROVE j = k
  <2>1. j \in Nat /\ k \in Nat
    BY <1>1 DEF Behind
  <2>2. ~(j < k) /\ ~(k < j)
    BY <1>2, <1>3
  <2>3. QED
    BY <2>1, <2>2
<1>4. QED
  BY <1>1, <1>3 DEF EachOnce, Behind

LEMMA OfFilterGrows ==
    ASSUME NEW f, NEW n \in Nat
    PROVE  OfFilter(f, n) \subseteq OfFilter(f, n + 1) /\ OfFilter(f, n) \subseteq Nat
  BY DEF OfFilter

-----------------------------------------------------------------------------
(* Explorer: the steps. *)

LEMMA ExplorerInitIsFine == ExplorerInit => ExplorerInv
<1>1. SUFFICES ASSUME ExplorerInit PROVE ExplorerInv
  OBVIOUS
<1>2. PageRequest(1, 0, NoId) \in Requests /\ Source(0) \in Streams
  BY DEF PageRequest, Requests, Source, Streams, ListFilters, NoId
<1>3. ExplorerTyped
  <2>1. indexed \in Nat /\ filter \in ListFilters /\ nextCursor \in Nat
    BY <1>1 DEF ExplorerInit, ListFilters, NoId
  <2>2. requests \subseteq Requests /\ stream \in Streams
    BY <1>1, <1>2 DEF ExplorerInit
  <2>3. events \in Seq(Nat)
    <3>1. <<>> \in Seq(Nat)
      OBVIOUS
    <3>2. QED
      BY <1>1, <3>1 DEF ExplorerInit
  <2>4. {failed, strayed} \subseteq BOOLEAN
    BY <1>1 DEF ExplorerInit
  <2>5. QED
    BY <2>1, <2>2, <2>3, <2>4 DEF ExplorerTyped
<1>4. StreamFits /\ EachOnce(events)
  BY <1>1 DEF ExplorerInit, StreamFits, Source, Range, EachOnce
<1>5. Waiting /\ \A c \in requests : RequestFits(c)
  BY <1>1 DEF ExplorerInit, Waiting, RequestFits, PageRequest, IsNewest, IsMore
<1>6. QED
  BY <1>3, <1>4, <1>5 DEF ExplorerInv

\* A first page is asked for: older requests for one are superseded.
LEMMA FirstPageAsked ==
    ASSUME ExplorerInv, NEW f \in ListFilters, requests' = Superseded(f, requests),
           filter' = f, indexed' = indexed
    PROVE  requests' \subseteq Requests /\ Waiting' /\ \A c \in requests' : RequestFits(c)'
<1>1. requests \subseteq Requests /\ \A c \in requests : RequestFits(c)
  BY DEF ExplorerInv, ExplorerTyped
<1>2. PageRequest(1, f, NoId) \in Requests
  BY DEF PageRequest, Requests, NoId
<1>3. ASSUME NEW c \in requests'
      PROVE  \/ c = PageRequest(1, f, NoId)
             \/ \E d \in requests : /\ c \in Requests /\ c.number # 1
                                    /\ c.filter = d.filter /\ c.rows = d.rows
  <2>1. CASE c = PageRequest(1, f, NoId)
    BY <2>1
  <2>2. CASE \E d \in requests : c = IF d.number = 1 THEN [d EXCEPT !.number = 2] ELSE d
    <3>1. PICK d \in requests : c = IF d.number = 1 THEN [d EXCEPT !.number = 2] ELSE d
      BY <2>2
    <3>2. d \in Requests
      BY <1>1
    <3>3. /\ c \in Requests /\ c.number # 1
          /\ c.filter = d.filter /\ c.rows = d.rows
      BY <3>1, <3>2 DEF Requests
    <3>4. QED
      BY <3>3
  <2>3. QED
    BY <1>3, <2>1, <2>2 DEF Superseded
<1>4. requests' \subseteq Requests
  BY <1>2, <1>3
<1>5. Waiting'
  <2>1. PageRequest(1, f, NoId) \in requests'
    BY DEF Superseded
  <2>2. PageRequest(1, f, NoId).number = 1
    BY DEF PageRequest
  <2>3. QED
    BY <2>1, <2>2 DEF Waiting, IsNewest
<1>6. ASSUME NEW c \in requests' PROVE RequestFits(c)'
  <2>1. CASE c = PageRequest(1, f, NoId)
    BY <2>1 DEF RequestFits, PageRequest, IsNewest, IsMore
  <2>2. CASE c # PageRequest(1, f, NoId)
    BY <1>1, <1>3, <2>2 DEF RequestFits, IsNewest
  <2>3. QED
    BY <2>1, <2>2
<1>7. QED
  BY <1>4, <1>5, <1>6

\* What the machine is, once a first page has been asked for and the list is as it was.
LEMMA AskedAfresh ==
    ASSUME ExplorerInv, filter' \in ListFilters, requests' = Superseded(filter', requests),
           indexed' = indexed, events' = events, failed' = failed, strayed' = strayed,
           nextCursor' \in Nat, stream' \in Streams, StreamFits'
    PROVE  ExplorerInv'
<1>1. requests' \subseteq Requests /\ Waiting' /\ \A c \in requests' : RequestFits(c)'
  <2>1. PICK f \in ListFilters : f = filter'
    OBVIOUS
  <2>2. QED
    BY <2>1, FirstPageAsked
<1>2. ExplorerTyped'
  BY <1>1 DEF ExplorerInv, ExplorerTyped
<1>3. EachOnce(events)'
  BY DEF ExplorerInv, EachOnce
<1>4. QED
  BY <1>1, <1>2, <1>3 DEF ExplorerInv

LEMMA SetFilterKeeps == ASSUME ExplorerInv, NEW f \in ListFilters, SetFilter(f) PROVE ExplorerInv'
<1>1. Source(f) \in Streams /\ Source(f).filter = f /\ Range(Source(f).sent) = {}
  BY DEF Source, Streams, NoId, Range
<1>2. filter' = f /\ nextCursor' = NoId /\ stream' = Source(f) /\ requests' = Superseded(f, requests)
  BY DEF SetFilter, LoadFirstPage
<1>3. StreamFits'
  BY <1>1, <1>2 DEF StreamFits
<1>4. nextCursor' \in Nat
  BY <1>2 DEF NoId
<1>5. QED
  BY <1>1, <1>2, <1>3, <1>4, AskedAfresh DEF SetFilter

LEMMA StreamOpensKeeps == ASSUME ExplorerInv, StreamOpens PROVE ExplorerInv'
<1>1. ExplorerTyped /\ StreamFits
  BY DEF ExplorerInv
<1> DEFINE missed == {e \in OfFilter(stream.filter, indexed) : stream.last # NoId /\ e > stream.last}
<1>2. PICK list \in Ascending(missed) : stream' = [stream EXCEPT !.state = "open", !.sent = list]
  BY DEF StreamOpens
<1>3. missed \subseteq OfFilter(filter, indexed) /\ missed \subseteq Nat /\ missed \subseteq 1..indexed
  BY <1>1 DEF StreamFits, OfFilter
<1> HIDE DEF missed
<1>4. IsFiniteSet(missed)
  <2>1. IsFiniteSet(1..indexed)
    BY <1>1, FS_Interval DEF ExplorerTyped
  <2>2. QED
    BY <1>3, <2>1, FS_Subset
<1>5. list \in [1..Cardinality(missed) -> missed] /\ Range(list) = missed
  BY DEF Ascending
<1>6. list \in Seq(Nat)
  BY <1>3, <1>4, <1>5, ListIsSeq
<1>7. stream' \in Streams /\ stream'.filter = stream.filter /\ stream'.sent = list
  BY <1>1, <1>2, <1>6 DEF ExplorerTyped, Streams
<1>8. /\ requests' = Superseded(filter, requests) /\ filter' = filter /\ indexed' = indexed
      /\ events' = events /\ nextCursor' = nextCursor /\ failed' = failed /\ strayed' = strayed
  BY DEF StreamOpens, LoadFirstPage, view
<1>9. StreamFits'
  BY <1>1, <1>3, <1>5, <1>7, <1>8 DEF StreamFits
<1>10. QED
  BY <1>1, <1>7, <1>8, <1>9, AskedAfresh DEF ExplorerTyped

LEMMA PollListKeeps == ASSUME ExplorerInv, PollList PROVE ExplorerInv'
<1>1. /\ requests' = Superseded(filter, requests) /\ filter' = filter /\ indexed' = indexed
      /\ events' = events /\ nextCursor' = nextCursor /\ failed' = failed /\ strayed' = strayed
      /\ stream' = stream
  BY DEF PollList, LoadFirstPage, view
<1>2. ExplorerTyped /\ StreamFits
  BY DEF ExplorerInv
<1>3. StreamFits'
  BY <1>1, <1>2 DEF StreamFits
<1>4. QED
  BY <1>1, <1>2, <1>3, AskedAfresh DEF ExplorerTyped

-----------------------------------------------------------------------------
(* Explorer: answers. *)

\* A page holds what its filter is of; a cursor is an id.
LEMMA PageIsOfFilter ==
    ASSUME indexed \in Nat, NEW f \in ListFilters, NEW cursor \in Nat
    PROVE  /\ PageBelow(f, cursor).rows \subseteq OfFilter(f, indexed)
           /\ PageBelow(f, cursor).next \in Nat
<1> DEFINE older == {e \in OfFilter(f, indexed) : cursor = NoId \/ e < cursor}
           rows  == {e \in older : Cardinality({d \in older : d > e}) < ListLimit}
<1>1. older \in SUBSET Nat /\ older \subseteq OfFilter(f, indexed) /\ \A e \in older : e <= indexed
  BY DEF OfFilter
<1>2. rows \subseteq older
  OBVIOUS
<1>3. older # {} => rows # {}
  <2>1. SUFFICES ASSUME older # {} PROVE rows # {}
    OBVIOUS
  <2> DEFINE m == Max(older)
  <2>2. m \in older /\ \A e \in older : e <= m
    <3> HIDE DEF older
    <3>1. QED
      BY <1>1, <2>1, MaxIsGreatest
  <2> HIDE DEF m
  <2>3. {d \in older : d > m} = {}
    BY <1>1, <2>2
  <2>4. Cardinality({d \in older : d > m}) < ListLimit
    BY <2>3, FS_EmptySet, ExplorerAssumption
  <2>5. QED
    BY <2>2, <2>4
<1>4. rows # older => Min(rows) \in Nat
  <2> HIDE DEF rows, older
  <2>1. QED
    BY <1>1, <1>2, <1>3, MinIsLeast
<1>5. PageBelow(f, cursor) = [rows |-> rows, next |-> IF rows # older THEN Min(rows) ELSE NoId]
  BY DEF PageBelow
<1> HIDE DEF rows, older
<1>6. QED
  BY <1>1, <1>2, <1>4, <1>5 DEF NoId

\* A request that is not the newest goes: if one was waited for, it still is.
LEMMA StillWaiting ==
    ASSUME NEW c, ~IsNewest(c), Waiting, requests' = requests \ {c}
    PROVE  Waiting'
  BY DEF Waiting, IsNewest

LEMMA ApiReadsKeeps == ASSUME ExplorerInv, NEW c \in requests, ApiReads(c) PROVE ExplorerInv'
<1>1. ExplorerTyped /\ StreamFits /\ c \in Requests /\ RequestFits(c)
  BY DEF ExplorerInv, ExplorerTyped
<1>2. /\ indexed' = indexed /\ filter' = filter /\ events' = events /\ nextCursor' = nextCursor
      /\ failed' = failed /\ strayed' = strayed /\ stream' = stream
  BY DEF ApiReads, view
<1>3. PICK p : p = PageBelow(c.filter, c.cursor)
  OBVIOUS
<1>4. p.rows \subseteq OfFilter(c.filter, indexed) /\ p.next \in Nat
  BY <1>1, <1>3, PageIsOfFilter DEF ExplorerTyped, Requests
<1>5. PICK d : d = [c EXCEPT !.read = TRUE, !.rows = p.rows, !.next = p.next]
  OBVIOUS
<1>6. requests' = (requests \ {c}) \cup {d}
  BY <1>3, <1>5 DEF ApiReads
<1>7. p.rows \in SUBSET Nat
  BY <1>1, <1>4 DEF OfFilter, ExplorerTyped
<1>8. /\ d \in Requests /\ d.number = c.number /\ d.filter = c.filter
      /\ d.cursor = c.cursor /\ d.rows = p.rows
  BY <1>1, <1>4, <1>5, <1>7 DEF Requests
<1>9. ExplorerTyped'
  BY <1>1, <1>2, <1>6, <1>8 DEF ExplorerTyped
<1>10. ASSUME NEW e \in requests' PROVE RequestFits(e)'
  <2>1. CASE e = d
    BY <1>1, <1>2, <1>4, <1>8, <2>1 DEF RequestFits, IsNewest, IsMore
  <2>2. CASE e \in requests
    BY <1>2, <2>2 DEF ExplorerInv, RequestFits
  <2>3. QED
    BY <1>6, <2>1, <2>2
<1>11. Waiting => Waiting'
  <2>1. SUFFICES ASSUME Waiting PROVE Waiting'
    OBVIOUS
  <2>2. PICK e \in requests : IsNewest(e)
    BY <2>1 DEF Waiting
  <2>3. CASE e = c
    BY <1>6, <1>8, <2>2, <2>3 DEF Waiting, IsNewest
  <2>4. CASE e # c
    BY <1>6, <2>2, <2>4 DEF Waiting
  <2>5. QED
    BY <2>3, <2>4
<1>12. StreamFits' /\ EachOnce(events)'
  BY <1>1, <1>2 DEF ExplorerInv, StreamFits, EachOnce
<1>13. QED
  BY <1>2, <1>9, <1>10, <1>11, <1>12 DEF ExplorerInv

\* What is left of the invariant when requests only go and the list is what it is.
LEMMA OneAnswered ==
    ASSUME ExplorerInv, requests' \subseteq requests, indexed' = indexed, filter' = filter,
           stream' = stream, events' \in Seq(Nat), EachOnce(events)', nextCursor' \in Nat,
           {failed', strayed'} \subseteq BOOLEAN,
           Waiting' \/ failed' \/ strayed' \/ Range(events') \subseteq OfFilter(filter, indexed)
    PROVE  ExplorerInv'
<1>1. ExplorerTyped'
  BY DEF ExplorerInv, ExplorerTyped
<1>2. StreamFits' /\ \A c \in requests' : RequestFits(c)'
  BY DEF ExplorerInv, StreamFits, RequestFits
<1>3. QED
  BY <1>1, <1>2 DEF ExplorerInv

LEMMA ShowKeeps == ASSUME ExplorerInv, NEW c \in requests, Show(c) PROVE ExplorerInv'
<1>1. ExplorerTyped /\ c \in Requests /\ RequestFits(c)
  BY DEF ExplorerInv, ExplorerTyped
<1>2. requests' = requests \ {c} /\ indexed' = indexed /\ filter' = filter /\ stream' = stream
  BY DEF Show
<1>3. CASE IsNewest(c)
  <2>1. events' \in NewestFirst(c.rows) /\ nextCursor' = c.next /\ failed' = FALSE /\ strayed' = FALSE
    BY <1>3 DEF Show
  <2>2. PICK list \in NewestFirst(c.rows) : list = events'
    BY <2>1
  <2>3. filter \in ListFilters /\ indexed \in Nat /\ c.rows \subseteq OfFilter(filter, indexed)
    BY <1>1, <1>3 DEF ExplorerTyped, RequestFits
  <2>4. list \in Seq(Nat) /\ Range(list) = c.rows /\ EachOnce(list)
    BY <2>3, ListOfMatching
  <2>5. EachOnce(events)'
    BY <2>2, <2>4 DEF EachOnce
  <2>6. nextCursor' \in Nat /\ {failed', strayed'} \subseteq BOOLEAN
    BY <1>1, <2>1 DEF Requests
  <2>7. events' \in Seq(Nat) /\ Range(events') \subseteq OfFilter(filter, indexed)
    BY <2>2, <2>3, <2>4
  <2>8. QED
    BY <1>2, <2>5, <2>6, <2>7, OneAnswered
<1>4. CASE ~IsNewest(c)
  <2>1. events' = events /\ nextCursor' = nextCursor /\ failed' = failed /\ strayed' = strayed
    BY <1>4 DEF Show
  <2>2. Waiting => Waiting'
    BY <1>2, <1>4, StillWaiting
  <2>3. EachOnce(events)'
    BY <2>1 DEF ExplorerInv, EachOnce
  <2>4. Waiting' \/ failed' \/ strayed' \/ Range(events') \subseteq OfFilter(filter, indexed)
    BY <2>1, <2>2 DEF ExplorerInv
  <2>5. QED
    BY <1>1, <1>2, <2>1, <2>3, <2>4, OneAnswered DEF ExplorerTyped
<1>5. QED
  BY <1>3, <1>4

LEMMA AppendPageKeeps == ASSUME ExplorerInv, NEW c \in requests, AppendPage(c) PROVE ExplorerInv'
<1>1. ExplorerTyped /\ c \in Requests /\ RequestFits(c) /\ EachOnce(events)
  BY DEF ExplorerInv, ExplorerTyped
<1>2. /\ requests' = requests \ {c} /\ indexed' = indexed /\ filter' = filter /\ stream' = stream
      /\ nextCursor' = c.next /\ failed' = failed /\ strayed' = (strayed \/ c.filter # filter)
  BY DEF AppendPage
<1>3. PICK older \in NewestFirst(c.rows \ Range(events)) : events' = events \o older
  BY DEF AppendPage
<1>4. c.filter \in ListFilters /\ indexed \in Nat /\ c.rows \subseteq OfFilter(c.filter, indexed)
  BY <1>1 DEF ExplorerTyped, RequestFits, Requests
<1>5. older \in Seq(Nat) /\ Range(older) = c.rows \ Range(events) /\ EachOnce(older)
  BY <1>4, ListOfMatching
<1>6. PICK all : all = events \o older
  OBVIOUS
<1>7. EachOnce(all) /\ all \in Seq(Nat) /\ Range(all) = Range(events) \cup Range(older)
  BY <1>1, <1>5, <1>6, EachOnceTogether DEF ExplorerTyped
<1>8. events' = all
  BY <1>3, <1>6
<1>9. EachOnce(events)'
  BY <1>7, <1>8 DEF EachOnce
<1>10. Waiting => Waiting'
  <2>1. ~IsNewest(c)
    BY <1>1 DEF AppendPage, RequestFits
  <2>2. QED
    BY <1>2, <2>1, StillWaiting
<1>11. Waiting' \/ failed' \/ strayed' \/ Range(events') \subseteq OfFilter(filter, indexed)
  <2>1. SUFFICES ASSUME ~Waiting', ~failed', ~strayed' PROVE Range(events') \subseteq OfFilter(filter, indexed)
    OBVIOUS
  <2>2. c.filter = filter /\ ~Waiting /\ ~failed /\ ~strayed
    BY <1>2, <1>10, <2>1
  <2>3. Range(events) \subseteq OfFilter(filter, indexed)
    BY <2>2 DEF ExplorerInv
  <2>4. Range(older) \subseteq OfFilter(filter, indexed)
    BY <1>4, <1>5, <2>2
  <2>5. QED
    BY <1>7, <1>8, <2>3, <2>4
<1>12. /\ events' \in Seq(Nat) /\ nextCursor' \in Nat /\ {failed', strayed'} \subseteq BOOLEAN
       /\ requests' \subseteq requests
  BY <1>1, <1>2, <1>7, <1>8 DEF ExplorerTyped, Requests
<1>13. QED
  BY <1>2, <1>9, <1>11, <1>12, OneAnswered

LEMMA RequestFailsKeeps == ASSUME ExplorerInv, NEW c \in requests, RequestFails(c) PROVE ExplorerInv'
<1>1. ExplorerTyped
  BY DEF ExplorerInv
<1>2. /\ requests' = requests \ {c} /\ indexed' = indexed /\ filter' = filter /\ stream' = stream
      /\ nextCursor' = nextCursor /\ events' = events /\ strayed' = strayed
      /\ failed' = (failed \/ IsNewest(c) \/ IsMore(c))
  BY DEF RequestFails
<1>3. EachOnce(events)'
  BY <1>2 DEF ExplorerInv, EachOnce
<1>4. Waiting /\ ~failed' => Waiting'
  BY <1>2, StillWaiting
<1>5. Waiting' \/ failed' \/ strayed' \/ Range(events') \subseteq OfFilter(filter, indexed)
  BY <1>2, <1>4 DEF ExplorerInv
<1>6. {failed', strayed'} \subseteq BOOLEAN
  BY <1>1, <1>2 DEF ExplorerTyped, IsNewest, IsMore
<1>7. QED
  BY <1>1, <1>2, <1>3, <1>5, <1>6, OneAnswered DEF ExplorerTyped

LEMMA LoadMoreKeeps == ASSUME ExplorerInv, LoadMore PROVE ExplorerInv'
<1>1. ExplorerTyped
  BY DEF ExplorerInv
<1>2. PICK d : d = PageRequest(0, filter, nextCursor)
  OBVIOUS
<1>3. /\ requests' = requests \cup {d} /\ indexed' = indexed /\ filter' = filter /\ stream' = stream
      /\ nextCursor' = nextCursor /\ events' = events /\ strayed' = strayed /\ failed' = failed
  BY <1>2 DEF LoadMore, view
<1>4. d \in Requests /\ d.number = 0 /\ d.rows = {}
  BY <1>1, <1>2 DEF PageRequest, Requests, ExplorerTyped, NoId
<1>5. ExplorerTyped'
  BY <1>1, <1>3, <1>4 DEF ExplorerTyped
<1>6. \A c \in requests' : RequestFits(c)'
  BY <1>3, <1>4 DEF ExplorerInv, RequestFits, IsNewest
<1>7. Waiting => Waiting'
  BY <1>3 DEF Waiting
<1>8. StreamFits' /\ EachOnce(events)'
  BY <1>3 DEF ExplorerInv, StreamFits, EachOnce
<1>9. QED
  BY <1>3, <1>5, <1>6, <1>7, <1>8 DEF ExplorerInv

-----------------------------------------------------------------------------
(* Explorer: the stream. *)

\* What is left of the invariant when only the stream and the list move.
LEMMA StreamMoved ==
    ASSUME ExplorerInv, requests' = requests, filter' = filter, nextCursor' = nextCursor,
           failed' = failed, strayed' = strayed,
           indexed' \in Nat, OfFilter(0, indexed) \subseteq OfFilter(0, indexed'),
           OfFilter(1, indexed) \subseteq OfFilter(1, indexed'),
           stream' \in Streams, StreamFits', events' \in Seq(Nat), EachOnce(events)',
           Range(events') \subseteq Range(events) \cup OfFilter(filter, indexed')
    PROVE  ExplorerInv'
<1>1. ExplorerTyped
  BY DEF ExplorerInv
<1>2. ExplorerTyped'
  BY <1>1 DEF ExplorerTyped
<1>3. \A f \in ListFilters : OfFilter(f, indexed) \subseteq OfFilter(f, indexed')
  BY DEF ListFilters
<1>4. ASSUME NEW c \in requests' PROVE RequestFits(c)'
  <2>1. RequestFits(c) /\ c.filter \in ListFilters
    BY <1>1, <1>4 DEF ExplorerInv, ExplorerTyped, Requests
  <2>2. QED
    BY <1>3, <2>1 DEF RequestFits
<1>5. Waiting' \/ failed' \/ strayed' \/ Range(events') \subseteq OfFilter(filter', indexed')
  <2>1. SUFFICES ASSUME ~Waiting', ~failed', ~strayed' PROVE Range(events') \subseteq OfFilter(filter', indexed')
    OBVIOUS
  <2>2. Range(events) \subseteq OfFilter(filter, indexed)
    BY <2>1 DEF ExplorerInv, Waiting
  <2>3. OfFilter(filter, indexed) \subseteq OfFilter(filter, indexed')
    BY <1>1, <1>3 DEF ExplorerTyped
  <2>4. QED
    BY <2>2, <2>3
<1>6. QED
  BY <1>2, <1>4, <1>5 DEF ExplorerInv

LEMMA MessageKeeps == ASSUME ExplorerInv, Message PROVE ExplorerInv'
<1>1. ExplorerTyped /\ StreamFits /\ EachOnce(events)
  BY DEF ExplorerInv
<1>2. PICK sent : sent = stream.sent
  OBVIOUS
<1>3. PICK e : e = Head(sent)
  OBVIOUS
<1>4. /\ requests' = requests /\ filter' = filter /\ nextCursor' = nextCursor /\ indexed' = indexed
      /\ failed' = failed /\ strayed' = strayed /\ sent # <<>>
      /\ stream' = [stream EXCEPT !.sent = Tail(sent), !.last = e]
      /\ events' = IF e \in Range(events) THEN events ELSE <<e>> \o events
  BY <1>1, <1>2, <1>3 DEF Message, ExplorerTyped, Streams
<1>5. sent \in Seq(Nat) /\ Range(sent) \subseteq OfFilter(filter, indexed)
  BY <1>1, <1>2 DEF ExplorerTyped, Streams, StreamFits
<1>6. e \in Nat /\ e \in Range(sent) /\ Tail(sent) \in Seq(Nat) /\ Range(Tail(sent)) \subseteq Range(sent)
  <2>1. Len(sent) \in Nat /\ Len(sent) # 0 /\ DOMAIN sent = 1..Len(sent)
    BY <1>4, <1>5
  <2>2. e = sent[1] /\ 1 \in DOMAIN sent /\ sent[1] \in Nat
    BY <1>3, <1>4, <1>5, <2>1
  <2>3. Tail(sent) \in Seq(Nat) /\ \A i \in DOMAIN Tail(sent) : i + 1 \in DOMAIN sent /\ Tail(sent)[i] = sent[i + 1]
    BY <1>4, <1>5, <2>1
  <2>4. QED
    BY <2>2, <2>3 DEF Range
<1>7. stream' \in Streams /\ stream'.filter = stream.filter /\ stream'.sent = Tail(sent)
  BY <1>1, <1>4, <1>6 DEF ExplorerTyped, Streams
<1>8. StreamFits'
  BY <1>1, <1>4, <1>5, <1>6, <1>7 DEF StreamFits
<1>9. /\ events' \in Seq(Nat) /\ EachOnce(events)'
      /\ Range(events') \subseteq Range(events) \cup OfFilter(filter, indexed)
  <2>1. CASE e \in Range(events)
    BY <1>1, <1>4, <2>1 DEF ExplorerTyped, EachOnce
  <2>2. CASE e \notin Range(events)
    <3>1. PICK one : one = <<e>>
      OBVIOUS
    <3>2. one \in Seq(Nat) /\ EachOnce(one) /\ Range(one) = {e}
      BY <1>6, <3>1 DEF EachOnce, Range
    <3>3. PICK all : all = one \o events
      OBVIOUS
    <3>4. EachOnce(all) /\ all \in Seq(Nat) /\ Range(all) = Range(one) \cup Range(events)
      <4>1. Range(one) \cap Range(events) = {} /\ events \in Seq(Nat)
        BY <1>1, <2>2, <3>2 DEF ExplorerTyped
      <4>2. QED
        BY <1>1, <3>2, <3>3, <4>1, EachOnceTogether
    <3>5. events' = all
      BY <1>4, <2>2, <3>1, <3>3
    <3>6. EachOnce(events)'
      BY <3>4, <3>5 DEF EachOnce
    <3>7. QED
      BY <1>5, <1>6, <3>2, <3>4, <3>5, <3>6
  <2>3. QED
    BY <2>1, <2>2
<1>10. indexed' \in Nat /\ OfFilter(0, indexed) \subseteq OfFilter(0, indexed') /\ OfFilter(1, indexed) \subseteq OfFilter(1, indexed')
  BY <1>1, <1>4 DEF ExplorerTyped
<1>11. QED
  BY <1>4, <1>7, <1>8, <1>9, <1>10, StreamMoved

LEMMA StreamBreaksKeeps == ASSUME ExplorerInv, StreamBreaks PROVE ExplorerInv'
<1>1. ExplorerTyped /\ StreamFits
  BY DEF ExplorerInv
<1>2. /\ requests' = requests /\ filter' = filter /\ nextCursor' = nextCursor /\ indexed' = indexed
      /\ failed' = failed /\ strayed' = strayed /\ events' = events
      /\ stream' = [stream EXCEPT !.state = "connecting", !.sent = <<>>]
  BY DEF StreamBreaks, view
<1>3. stream' \in Streams /\ stream'.filter = stream.filter /\ stream'.sent = <<>>
  <2>1. <<>> \in Seq(Nat)
    OBVIOUS
  <2>2. QED
    BY <1>1, <1>2, <2>1 DEF ExplorerTyped, Streams
<1>4. StreamFits'
  BY <1>1, <1>2, <1>3 DEF StreamFits, Range
<1>5. events' \in Seq(Nat) /\ EachOnce(events)'
  BY <1>1, <1>2 DEF ExplorerInv, ExplorerTyped, EachOnce
<1>6. QED
  BY <1>1, <1>2, <1>3, <1>4, <1>5, StreamMoved DEF ExplorerTyped

LEMMA EventIndexedKeeps == ASSUME ExplorerInv, EventIndexed PROVE ExplorerInv'
<1>1. ExplorerTyped /\ StreamFits
  BY DEF ExplorerInv
<1>2. /\ requests' = requests /\ filter' = filter /\ nextCursor' = nextCursor
      /\ failed' = failed /\ strayed' = strayed /\ events' = events
      /\ indexed' = indexed + 1 /\ indexed \in Nat
  BY <1>1 DEF EventIndexed, view, ExplorerTyped
<1>3. \A f : OfFilter(f, indexed) \subseteq OfFilter(f, indexed')
  BY <1>2, OfFilterGrows
<1>4. stream' \in Streams /\ StreamFits'
  <2>1. CASE stream' = stream
    BY <1>1, <1>2, <1>3, <2>1 DEF ExplorerTyped, StreamFits
  <2>2. CASE stream' # stream
    <3>1. PICK sent : sent = stream.sent
      OBVIOUS
    <3>2. /\ stream' = [stream EXCEPT !.sent = Append(sent, indexed')]
          /\ indexed' \in OfFilter(stream.filter, indexed')
      BY <1>1, <2>2, <3>1 DEF EventIndexed, ExplorerTyped, Streams
    <3>3. sent \in Seq(Nat) /\ Range(sent) \subseteq OfFilter(filter, indexed)
      BY <1>1, <3>1 DEF ExplorerTyped, Streams, StreamFits
    <3>4. PICK longer : longer = Append(sent, indexed')
      OBVIOUS
    <3>5. /\ longer \in Seq(Nat)
          /\ \A i \in DOMAIN longer : longer[i] = indexed' \/ (i \in DOMAIN sent /\ longer[i] = sent[i])
      <4>1. PICK e \in Nat : e = indexed'
        BY <1>2
      <4>2. /\ Len(sent) \in Nat /\ DOMAIN sent = 1..Len(sent)
            /\ longer \in Seq(Nat) /\ Len(longer) = Len(sent) + 1 /\ DOMAIN longer = 1..Len(longer)
            /\ \A i \in 1..Len(sent) : longer[i] = sent[i]
            /\ longer[Len(sent) + 1] = e
        BY <3>3, <3>4, <4>1, AppendProperties
      <4>3. QED
        BY <4>1, <4>2
    <3>6. Range(longer) \subseteq Range(sent) \cup {indexed'}
      BY <3>5 DEF Range
    <3>7. stream' \in Streams /\ stream'.filter = stream.filter /\ stream'.sent = longer
      BY <1>1, <3>2, <3>4, <3>5 DEF ExplorerTyped, Streams
    <3>8. StreamFits'
      BY <1>1, <1>2, <1>3, <3>2, <3>3, <3>6, <3>7 DEF StreamFits
    <3>9. QED
      BY <3>7, <3>8
  <2>3. QED
    BY <2>1, <2>2
<1>5. events' \in Seq(Nat) /\ EachOnce(events)'
  BY <1>1, <1>2 DEF ExplorerInv, ExplorerTyped, EachOnce
<1>6. indexed' \in Nat
  BY <1>2
<1>7. QED
  BY <1>2, <1>3, <1>4, <1>5, <1>6, StreamMoved

LEMMA ExplorerStep == ExplorerInv /\ [ExplorerNext]_explorerVars => ExplorerInv'
<1>1. SUFFICES ASSUME ExplorerInv, [ExplorerNext]_explorerVars PROVE ExplorerInv'
  OBVIOUS
<1>2. CASE UNCHANGED explorerVars
  BY <1>1, <1>2 DEF explorerVars, view, ExplorerInv, ExplorerTyped, StreamFits, RequestFits, EachOnce, Waiting
<1>3. ASSUME NEW f \in ListFilters, SetFilter(f) PROVE ExplorerInv'
  BY <1>1, <1>3, SetFilterKeeps
<1>4. ASSUME NEW c \in requests, ApiReads(c) PROVE ExplorerInv'
  BY <1>1, <1>4, ApiReadsKeeps
<1>5. ASSUME NEW c \in requests, Show(c) PROVE ExplorerInv'
  BY <1>1, <1>5, ShowKeeps
<1>6. ASSUME NEW c \in requests, AppendPage(c) PROVE ExplorerInv'
  BY <1>1, <1>6, AppendPageKeeps
<1>7. ASSUME NEW c \in requests, RequestFails(c) PROVE ExplorerInv'
  BY <1>1, <1>7, RequestFailsKeeps
<1>8. CASE LoadMore
  BY <1>1, <1>8, LoadMoreKeeps
<1>9. CASE StreamOpens
  BY <1>1, <1>9, StreamOpensKeeps
<1>10. CASE Message
  BY <1>1, <1>10, MessageKeeps
<1>11. CASE StreamBreaks
  BY <1>1, <1>11, StreamBreaksKeeps
<1>12. CASE PollList
  BY <1>1, <1>12, PollListKeeps
<1>13. CASE EventIndexed
  BY <1>1, <1>13, EventIndexedKeeps
<1>14. QED
  BY <1>1, <1>2, <1>3, <1>4, <1>5, <1>6, <1>7, <1>8, <1>9, <1>10, <1>11, <1>12, <1>13 DEF ExplorerNext

-----------------------------------------------------------------------------
\* Whatever order answers, older pages, messages and changes of filter come in, the list
\* of the web explorer (App.tsx 236-397) is of the filter that is shown, each event once,
\* whenever its newest request is answered and no page of an earlier filter was appended.
THEOREM ListIsOfItsFilter == ExplorerSpec => []ListIsOfTheFilter
<1>1. ExplorerInv => ListIsOfTheFilter
  BY DEF ExplorerInv, ListIsOfTheFilter, EachOnce
<1>2. QED
  BY <1>1, ExplorerInitIsFine, ExplorerStep, PTL DEF ExplorerSpec
=============================================================================
