--------------------------- MODULE WebhooksProofs ---------------------------
(***************************************************************************)
(* Proofs about Webhooks for every number of subscriptions, activations of *)
(* pump(), events and attempts: while events are inserted in the order of  *)
(* their ids nothing is skipped; in any case a subscriber gets its events  *)
(* in order and once; and every attempt is paid for and allowed.           *)
(***************************************************************************)
EXTENDS Webhooks, PageProofs

-----------------------------------------------------------------------------
(* The inductive invariant. *)

\* A subscription that is not yet added has not been pumped.
Lifecycle ==
    \A s \in Subs : phase[s] \in {"none", "checked", "read"} =>
        /\ ~busy[s] /\ log[s] = <<>>
        /\ phase[s] = "read" => cursor[s] = since[s]

\* busy keeps a second activation out.
OnePump ==
    \A s \in Subs, k \in Pumps : pc[s][k] # "idle" =>
        busy[s] /\ \A j \in Pumps : pc[s][j] # "idle" => j = k

CursorInv ==
    \A s \in Subs :
        /\ cursor[s] \in inserted \cup {0}
        /\ \A i \in DOMAIN log[s] : log[s][i] <= cursor[s]

Delivering == {"next", "throttle", "post", "backoff"}

\* What is left of a page is in order, lies after the cursor and, if events are
\* inserted in order, leaves out nothing; a pause comes before another attempt.
GoodPage(s, k) ==
    LET list == page[s][k] IN
    /\ \A i \in DOMAIN list : list[i] \in inserted /\ cursor[s] < list[i]
    /\ \A i, j \in DOMAIN list : i < j => list[i] < list[j]
    /\ InOrder => \A i \in DOMAIN list, e \in inserted :
                     cursor[s] < e /\ e <= list[i] => \E j \in DOMAIN list : list[j] = e
    /\ pc[s][k] # "next" => list # <<>>
    /\ pc[s][k] = "backoff" => attempt[s][k] < MaxAttempts
PageInv == \A s \in Subs, k \in Pumps : pc[s][k] \in Delivering => GoodPage(s, k)

WebInv ==
    /\ TypeOK /\ Lifecycle /\ OnePump /\ CursorInv /\ PageInv
    /\ InOrderOnce /\ (InOrder => NothingSkipped)
-----------------------------------------------------------------------------

LEMMA Sizes ==
    /\ MaxEvent \in Nat /\ MaxSubs \in Nat /\ MaxAttempts \in Nat \ {0}
    /\ Batch \in Nat \ {0} /\ Burst \in Nat \ {0}
    /\ Event \subseteq Nat /\ 0 \in 0..MaxEvent /\ Event \subseteq 0..MaxEvent
  BY WebhooksAssumption DEF Event

LEMMA NewestStored ==
    ASSUME TypeOK
    PROVE  /\ Newest \in inserted \cup {0} /\ Newest \in 0..MaxEvent
           /\ \A x \in inserted : x <= Newest
<1>1. inserted \in SUBSET Nat /\ \A x \in inserted : x <= MaxEvent
  BY Sizes DEF TypeOK, Event
<1>2. QED
  BY <1>1, Sizes, NewestIsGreatest DEF Newest, TypeOK, Event

LEMMA InitWeb == Init => WebInv
<1>1. SUFFICES ASSUME Init PROVE WebInv
  OBVIOUS
<1>2. /\ \A s \in Subs : /\ log[s] = <<>> /\ cursor[s] = 0 /\ phase[s] = "none" /\ ~busy[s]
                         /\ \A k \in Pumps : pc[s][k] = "idle"
  BY <1>1 DEF Init
<1>3. TypeOK
  <2>1. <<>> \in Seq(Event) /\ Burst \in 0..Burst /\ 0 \in 0..MaxAttempts
    BY Sizes
  <2>2. page \in [Subs -> [Pumps -> Seq(Event)]] /\ log \in [Subs -> Seq(Event)]
    BY <1>1, <2>1 DEF Init
  <2>3. /\ pc \in [Subs -> [Pumps -> {"idle", "query", "next", "throttle", "post", "backoff"}]]
        /\ more \in [Subs -> [Pumps -> BOOLEAN]] /\ attempt \in [Subs -> [Pumps -> 0..MaxAttempts]]
    BY <1>1, <2>1 DEF Init
  <2>4. QED
    BY <1>1, <2>1, <2>2, <2>3, Sizes DEF Init, TypeOK
<1>4. Lifecycle /\ OnePump /\ CursorInv /\ PageInv
  BY <1>2 DEF Lifecycle, OnePump, CursorInv, PageInv, Delivering
<1>5. InOrderOnce /\ NothingSkipped
  BY <1>2 DEF InOrderOnce, NothingSkipped, Held
<1>6. QED
  BY <1>3, <1>4, <1>5 DEF WebInv

\* Steps that leave the pumps alone.
LEMMA InsertWeb == ASSUME WebInv, NEW e \in Event, Insert(e) PROVE WebInv'
<1>1. /\ e \notin inserted /\ (InOrder => e > Newest) /\ inserted' = inserted \cup {e}
      /\ UNCHANGED <<stopped, tokens, phase, since, cursor, busy, pc, page, more, attempt, log>>
  BY DEF Insert, registry, pumping
<1>2. TypeOK'
  BY <1>1 DEF WebInv, TypeOK
<1>3. Lifecycle' /\ OnePump' /\ CursorInv' /\ InOrderOnce'
  BY <1>1 DEF WebInv, Lifecycle, OnePump, CursorInv, InOrderOnce
<1>4. InOrder => \A x \in inserted : x < e
  <2>1. /\ Newest \in inserted \cup {0} /\ Newest \in 0..MaxEvent
        /\ \A x \in inserted : x <= Newest
    BY NewestStored DEF WebInv
  <2>2. inserted \subseteq Nat /\ e \in Nat
    BY Sizes DEF WebInv, TypeOK
  <2>3. QED
    BY <1>1, <2>1, <2>2, Sizes
<1>5. PageInv'
  <2>1. SUFFICES ASSUME NEW s \in Subs, NEW k \in Pumps, pc[s][k] \in Delivering
                 PROVE  GoodPage(s, k)'
    BY <1>1 DEF PageInv
  <2>2. GoodPage(s, k)
    BY <2>1 DEF WebInv, PageInv
  <2>3. inserted \subseteq Nat /\ e \in Nat /\ cursor[s] \in Nat
    BY Sizes DEF WebInv, TypeOK
  <2>4. InOrder => \A i \in DOMAIN page[s][k] : ~(e <= page[s][k][i])
    <3>1. SUFFICES ASSUME InOrder, NEW i \in DOMAIN page[s][k] PROVE ~(e <= page[s][k][i])
      OBVIOUS
    <3>2. page[s][k][i] \in inserted
      BY <2>2 DEF GoodPage
    <3>3. page[s][k][i] < e /\ page[s][k][i] \in Nat
      BY <1>4, <2>3, <3>1, <3>2
    <3>4. QED
      BY <2>3, <3>3
  <2>5. QED
    BY <1>1, <2>2, <2>4 DEF GoodPage
<1>6. InOrder => NothingSkipped'
  <2>1. SUFFICES ASSUME InOrder, NEW s \in Held, ~stopped, NEW x \in inserted',
                        since[s] < x, x <= cursor[s]
                 PROVE  x \in Handled(s)
    BY <1>1 DEF NothingSkipped, Held, Handled
  <2>2. cursor[s] \in inserted \cup {0} /\ inserted \subseteq Nat /\ e \in Nat \ {0}
    BY Sizes DEF WebInv, TypeOK, CursorInv, Held, Event
  <2>3. x # e
    <3>1. CASE cursor[s] = 0
      BY <2>1, <2>2, <3>1
    <3>2. CASE cursor[s] \in inserted
      <4>1. cursor[s] < e
        BY <1>4, <2>1, <3>2
      <4>2. cursor[s] \in Nat /\ e \in Nat
        BY <2>2, <3>2
      <4>3. ~(e <= cursor[s])
        BY <4>1, <4>2
      <4>4. QED
        BY <2>1, <4>3
    <3>3. QED
      BY <2>2, <3>1, <3>2
  <2>4. QED
    BY <1>1, <2>1, <2>3 DEF WebInv, NothingSkipped
<1>7. QED
  BY <1>2, <1>3, <1>5, <1>6 DEF WebInv

LEMMA AroundPumps ==
    ASSUME WebInv, UNCHANGED <<inserted, busy, pumping, log>>, TypeOK', Lifecycle',
           \A s \in Subs : cursor'[s] = cursor[s] \/ (phase[s] = "checked" /\ cursor'[s] \in inserted \cup {0}),
           stopped => stopped',
           \A s \in Held' : cursor'[s] = since'[s] \/ (s \in Held /\ cursor'[s] = cursor[s] /\ since'[s] = since[s])
    PROVE  WebInv'
<1>1. UNCHANGED <<pc, page, more, attempt>>
  BY DEF pumping
<1>2. \A s \in Subs, k \in Pumps : pc[s][k] # "idle" => cursor'[s] = cursor[s]
  BY DEF WebInv, OnePump, Lifecycle
<1>3. OnePump' /\ InOrderOnce'
  BY <1>1 DEF WebInv, OnePump, InOrderOnce
<1>4. CursorInv'
  <2>1. SUFFICES ASSUME NEW s \in Subs
                 PROVE  cursor'[s] \in inserted \cup {0} /\ \A i \in DOMAIN log[s] : log[s][i] <= cursor'[s]
    BY DEF CursorInv
  <2>2. CASE cursor'[s] = cursor[s]
    BY <2>2 DEF WebInv, CursorInv
  <2>3. CASE phase[s] = "checked" /\ cursor'[s] \in inserted \cup {0}
    BY <2>3 DEF WebInv, Lifecycle
  <2>4. QED
    BY <2>2, <2>3
<1>5. PageInv'
  <2>1. SUFFICES ASSUME NEW s \in Subs, NEW k \in Pumps, pc[s][k] \in Delivering
                 PROVE  GoodPage(s, k)'
    BY <1>1 DEF PageInv
  <2>2. GoodPage(s, k) /\ cursor'[s] = cursor[s]
    BY <1>2, <2>1 DEF WebInv, PageInv, Delivering
  <2>3. QED
    BY <1>1, <2>2 DEF GoodPage
<1>6. InOrder => NothingSkipped'
  <2>1. SUFFICES ASSUME InOrder, NEW s \in Held', ~stopped, NEW e \in inserted,
                        since'[s] < e, e <= cursor'[s]
                 PROVE  e \in Handled(s)
    BY DEF NothingSkipped, Handled
  <2>2. CASE cursor'[s] = since'[s]
    <3>1. e \in Nat /\ cursor'[s] \in Nat
      BY Sizes DEF TypeOK, WebInv, Held
    <3>2. QED
      BY <2>1, <2>2, <3>1
  <2>3. CASE s \in Held /\ cursor'[s] = cursor[s] /\ since'[s] = since[s]
    BY <2>1, <2>3 DEF WebInv, NothingSkipped
  <2>4. QED
    BY <2>2, <2>3
<1>7. QED
  BY <1>3, <1>4, <1>5, <1>6 DEF WebInv

LEMMA AroundWeb ==
    ASSUME WebInv,
           \/ Stop \/ \E b \in Buckets : Refill(b)
           \/ \E s \in Subs : RegisterCheck(s) \/ RegisterRead(s) \/ RegisterAdd(s) \/ RemoveHook(s)
    PROVE  WebInv'
<1>1. CASE Stop
  <2>1. UNCHANGED <<inserted, tokens, phase, since, cursor, busy, pumping, log>> /\ stopped' = TRUE
    BY <1>1 DEF Stop, registry
  <2>2. TypeOK' /\ Lifecycle'
    BY <2>1 DEF WebInv, TypeOK, Lifecycle, pumping
  <2>3. QED
    BY <2>1, <2>2, AroundPumps DEF Held
<1>2. CASE \E b \in Buckets : Refill(b)
  <2>1. PICK b \in Buckets : Refill(b)
    BY <1>2
  <2>2. /\ UNCHANGED <<inserted, stopped, phase, since, cursor, busy, pumping, log>>
        /\ tokens[b] < Burst /\ tokens' = [tokens EXCEPT ![b] = @ + 1]
    BY <2>1 DEF Refill, registry
  <2>3. tokens' \in [Buckets -> 0..Burst]
    <3>1. tokens[b] + 1 \in 0..Burst
      BY <2>2, Sizes DEF WebInv, TypeOK
    <3>2. QED
      BY <2>2, <3>1 DEF WebInv, TypeOK
  <2>4. TypeOK' /\ Lifecycle'
    BY <2>2, <2>3 DEF WebInv, TypeOK, Lifecycle, pumping
  <2>5. QED
    BY <2>2, <2>4, AroundPumps DEF Held
<1>3. ASSUME NEW s \in Subs, RegisterCheck(s) PROVE WebInv'
  <2>1. /\ UNCHANGED <<inserted, stopped, tokens, since, cursor, busy, pumping, log>>
        /\ phase[s] = "none" /\ phase' = [phase EXCEPT ![s] = "checked"]
    BY <1>3 DEF RegisterCheck
  <2>2. TypeOK' /\ Lifecycle'
    BY <2>1 DEF WebInv, TypeOK, Lifecycle, pumping
  <2>3. QED
    BY <2>1, <2>2, AroundPumps DEF Held, WebInv, TypeOK
<1>4. ASSUME NEW s \in Subs, RegisterRead(s) PROVE WebInv'
  <2>1. /\ UNCHANGED <<inserted, stopped, tokens, busy, pumping, log>>
        /\ phase[s] = "checked" /\ phase' = [phase EXCEPT ![s] = "read"]
        /\ since' = [since EXCEPT ![s] = Newest] /\ cursor' = [cursor EXCEPT ![s] = Newest]
    BY <1>4 DEF RegisterRead
  <2>2. Newest \in inserted \cup {0} /\ Newest \in 0..MaxEvent
    BY NewestStored DEF WebInv
  <2>3. TypeOK' /\ Lifecycle'
    BY <2>1, <2>2 DEF WebInv, TypeOK, Lifecycle, pumping
  <2>4. \A t \in Subs : cursor'[t] = cursor[t] \/ (phase[t] = "checked" /\ cursor'[t] \in inserted \cup {0})
    BY <2>1, <2>2 DEF WebInv, TypeOK
  <2>5. \A t \in Held' : t \in Held /\ cursor'[t] = cursor[t] /\ since'[t] = since[t]
    BY <2>1 DEF Held, WebInv, TypeOK
  <2>6. QED
    BY <2>1, <2>3, <2>4, <2>5, AroundPumps
<1>5. ASSUME NEW s \in Subs, RegisterAdd(s) PROVE WebInv'
  <2>1. /\ UNCHANGED <<inserted, stopped, tokens, since, cursor, busy, pumping, log>>
        /\ phase[s] = "read" /\ phase' = [phase EXCEPT ![s] = "registered"]
    BY <1>5 DEF RegisterAdd
  <2>2. TypeOK' /\ Lifecycle'
    BY <2>1 DEF WebInv, TypeOK, Lifecycle, pumping
  <2>3. \A t \in Held' : cursor'[t] = since'[t] \/ t \in Held
    BY <2>1 DEF Held, WebInv, TypeOK, Lifecycle
  <2>4. QED
    BY <2>1, <2>2, <2>3, AroundPumps
<1>6. ASSUME NEW s \in Subs, RemoveHook(s) PROVE WebInv'
  <2>1. /\ UNCHANGED <<inserted, stopped, tokens, since, cursor, busy, pumping, log>>
        /\ phase[s] = "registered" /\ phase' = [phase EXCEPT ![s] = "removed"]
    BY <1>6 DEF RemoveHook
  <2>2. TypeOK' /\ Lifecycle'
    BY <2>1 DEF WebInv, TypeOK, Lifecycle, pumping
  <2>3. \A t \in Held' : t \in Held
    BY <2>1 DEF Held, WebInv, TypeOK
  <2>4. QED
    BY <2>1, <2>2, <2>3, AroundPumps
<1>7. QED
  BY <1>1, <1>2, <1>3, <1>4, <1>5, <1>6

-----------------------------------------------------------------------------
(* Steps of a pump.                                                          *)

\* It goes on without delivering.
LEMMA PumpMoves ==
    ASSUME WebInv, TypeOK', NEW s \in Subs, NEW k \in Pumps,
           UNCHANGED <<inserted, stopped, phase, since, cursor, log>>,
           \A t \in Subs, j \in Pumps : ~(t = s /\ j = k) =>
              pc'[t][j] = pc[t][j] /\ page'[t][j] = page[t][j] /\ attempt'[t][j] = attempt[t][j],
           \A t \in Subs : t # s => busy'[t] = busy[t],
           pc[s][k] # "idle" \/ ~busy[s],
           pc'[s][k] # "idle" => busy'[s],
           busy'[s] => busy[s] \/ phase[s] = "registered",
           pc'[s][k] \in Delivering => GoodPage(s, k)'
    PROVE  WebInv'
<1>1. \A j \in Pumps : pc[s][j] # "idle" => j = k
  BY DEF WebInv, OnePump
<1>2. Lifecycle'
  BY DEF WebInv, Lifecycle
<1>3. OnePump'
  BY <1>1 DEF WebInv, OnePump
<1>4. CursorInv' /\ InOrderOnce'
  BY DEF WebInv, CursorInv, InOrderOnce
<1>5. InOrder => NothingSkipped'
  BY DEF WebInv, NothingSkipped, Held, Handled
<1>6. PageInv'
  <2>1. SUFFICES ASSUME NEW t \in Subs, NEW j \in Pumps, pc'[t][j] \in Delivering, ~(t = s /\ j = k)
                 PROVE  GoodPage(t, j)'
    BY DEF PageInv
  <2>2. pc'[t][j] = pc[t][j] /\ page'[t][j] = page[t][j] /\ attempt'[t][j] = attempt[t][j]
    BY <2>1
  <2>3. GoodPage(t, j)
    BY <2>1, <2>2 DEF WebInv, PageInv
  <2>4. QED
    BY <2>2, <2>3 DEF GoodPage
<1>7. QED
  BY <1>2, <1>3, <1>4, <1>5, <1>6 DEF WebInv

LEMMA TypedPump ==
    ASSUME WebInv, NEW s \in Subs, NEW k \in Pumps
    PROVE  /\ page[s][k] \in Seq(Event) /\ log[s] \in Seq(Event) /\ cursor[s] \in Nat
           /\ DOMAIN page[s][k] = 1..Len(page[s][k]) /\ Len(page[s][k]) \in Nat
           /\ DOMAIN log[s] = 1..Len(log[s]) /\ Len(log[s]) \in Nat
           /\ \A i \in DOMAIN page[s][k] : page[s][k][i] \in Nat
           /\ \A i \in DOMAIN log[s] : log[s][i] \in Nat
<1>1. page[s][k] \in Seq(Event) /\ log[s] \in Seq(Event) /\ cursor[s] \in 0..MaxEvent
  BY DEF WebInv, TypeOK
<1>2. cursor[s] \in Nat
  BY <1>1, Sizes
<1>3. ASSUME NEW list \in Seq(Event)
      PROVE  /\ DOMAIN list = 1..Len(list) /\ Len(list) \in Nat
             /\ \A i \in DOMAIN list : list[i] \in Nat
  <2>1. DOMAIN list = 1..Len(list) /\ Len(list) \in Nat /\ \A i \in 1..Len(list) : list[i] \in Event
    OBVIOUS
  <2>2. \A e \in Event : e \in Nat
    BY Sizes
  <2>3. QED
    BY <2>1, <2>2
<1>4. QED
  BY <1>1, <1>2, <1>3

\* The first event of a page is handled or, if there is no point any more, let go.
LEMMA PumpDelivers ==
    ASSUME WebInv, TypeOK', NEW s \in Subs, NEW k \in Pumps,
           pc[s][k] \in {"throttle", "post", "backoff"}, Delivered(s, k),
           UNCHANGED <<inserted, stopped, phase, since, busy>>,
           Record(s, k) \/ (log' = log /\ Over(s))
    PROVE  WebInv'
<1> DEFINE list == page[s][k]
           first == Head(list)
<1>0. /\ page[s][k] \in Seq(Event) /\ log[s] \in Seq(Event) /\ cursor[s] \in Nat
      /\ DOMAIN list = 1..Len(list) /\ Len(list) \in Nat
      /\ DOMAIN log[s] = 1..Len(log[s]) /\ Len(log[s]) \in Nat
      /\ \A i \in DOMAIN list : list[i] \in Nat
      /\ \A i \in DOMAIN log[s] : log[s][i] \in Nat
  BY TypedPump
<1>1. GoodPage(s, k) /\ list # <<>>
  BY DEF WebInv, PageInv, Delivering, GoodPage
<1>2. /\ cursor' = [cursor EXCEPT ![s] = first]
      /\ page' = [page EXCEPT ![s][k] = Tail(@)]
      /\ pc' = [pc EXCEPT ![s][k] = "next"]
      /\ attempt' = [attempt EXCEPT ![s][k] = 0]
  BY DEF Delivered, Goto
<1>3. /\ cursor'[s] = first /\ page'[s][k] = Tail(list) /\ pc'[s][k] = "next"
      /\ \A t \in Subs : t # s => cursor'[t] = cursor[t]
      /\ \A t \in Subs, j \in Pumps : ~(t = s /\ j = k) =>
            pc'[t][j] = pc[t][j] /\ page'[t][j] = page[t][j] /\ attempt'[t][j] = attempt[t][j]
  <2>1. /\ pc \in [Subs -> [Pumps -> {"idle", "query", "next", "throttle", "post", "backoff"}]]
        /\ attempt \in [Subs -> [Pumps -> 0..MaxAttempts]]
        /\ page \in [Subs -> [Pumps -> Seq(Event)]] /\ cursor \in [Subs -> 0..MaxEvent]
    BY DEF WebInv, TypeOK
  <2>2. page'[s][k] = Tail(list) /\ \A t \in Subs, j \in Pumps : ~(t = s /\ j = k) => page'[t][j] = page[t][j]
    BY <1>2, <2>1
  <2>3. pc'[s][k] = "next" /\ \A t \in Subs, j \in Pumps : ~(t = s /\ j = k) => pc'[t][j] = pc[t][j]
    BY <1>2, <2>1
  <2>4. cursor'[s] = first /\ \A t \in Subs : t # s => cursor'[t] = cursor[t]
    BY <1>2, <2>1
  <2>5. \A t \in Subs, j \in Pumps : ~(t = s /\ j = k) => attempt'[t][j] = attempt[t][j]
    BY <1>2, <2>1
  <2>6. QED
    BY <2>2, <2>3, <2>4, <2>5
<1>4. 1 \in DOMAIN list /\ first = list[1] /\ first \in inserted /\ cursor[s] < first /\ first \in Nat
  <2>1. 1 \in DOMAIN list /\ first = list[1]
    BY <1>0, <1>1
  <2>2. QED
    BY <1>0, <1>1, <2>1 DEF GoodPage
<1> HIDE DEF first, list
<1>5. /\ \A t \in Subs : t # s => log'[t] = log[t]
      /\ log'[s] = log[s] \/ log'[s] = Append(log[s], first)
      /\ ~stopped /\ phase[s] # "removed" => log'[s] = Append(log[s], first)
  BY DEF Record, Over, WebInv, TypeOK, first, list
<1>6. /\ Append(log[s], first) \in Seq(Event \cup {first})
      /\ DOMAIN Append(log[s], first) = 1..(Len(log[s]) + 1)
      /\ \A i \in DOMAIN log[s] : Append(log[s], first)[i] = log[s][i]
      /\ Append(log[s], first)[Len(log[s]) + 1] = first
  BY <1>0
<1>7. Lifecycle' /\ OnePump'
  <2>1. busy[s] /\ \A j \in Pumps : pc[s][j] # "idle" => j = k
    BY DEF WebInv, OnePump
  <2>2. phase[s] \notin {"none", "checked", "read"}
    BY <2>1 DEF WebInv, Lifecycle
  <2>3. Lifecycle'
    BY <1>3, <1>5, <2>2 DEF WebInv, Lifecycle
  <2>4. OnePump'
    BY <1>3, <2>1 DEF WebInv, OnePump
  <2>5. QED
    BY <2>3, <2>4
<1>8. \A i \in DOMAIN log[s] : log[s][i] < first
  <2>1. SUFFICES ASSUME NEW i \in DOMAIN log[s] PROVE log[s][i] < first
    OBVIOUS
  <2>2. log[s][i] <= cursor[s]
    BY DEF WebInv, CursorInv
  <2>3. QED
    BY <1>0, <1>4, <2>2
<1>9. CursorInv'
  <2>1. SUFFICES ASSUME NEW t \in Subs
                 PROVE  cursor'[t] \in inserted \cup {0} /\ \A i \in DOMAIN log'[t] : log'[t][i] <= cursor'[t]
    BY DEF CursorInv
  <2>2. CASE t # s
    BY <1>3, <1>5, <2>2 DEF WebInv, CursorInv
  <2>3. CASE t = s
    <3>1. \A i \in DOMAIN log[s] : log[s][i] <= first
      BY <1>0, <1>4, <1>8
    <3>2. \A i \in DOMAIN Append(log[s], first) : Append(log[s], first)[i] <= first
      BY <1>0, <1>4, <1>6, <3>1
    <3>3. QED
      BY <1>3, <1>4, <1>5, <2>3, <3>1, <3>2
  <2>4. QED
    BY <2>2, <2>3
<1>10. InOrderOnce'
  <2>1. SUFFICES ASSUME NEW t \in Subs, NEW i \in DOMAIN log'[t], NEW j \in DOMAIN log'[t], i < j
                 PROVE  log'[t][i] < log'[t][j]
    BY DEF InOrderOnce
  <2>2. CASE log'[t] = log[t]
    BY <2>1, <2>2 DEF WebInv, InOrderOnce
  <2>3. CASE t = s /\ log'[s] = Append(log[s], first)
    <3>1. i \in 1..(Len(log[s]) + 1) /\ j \in 1..(Len(log[s]) + 1)
      BY <1>6, <2>3
    <3>2. i \in DOMAIN log[s] /\ log'[t][i] = log[s][i]
      BY <1>0, <1>6, <2>1, <2>3, <3>1
    <3>3. CASE j \in DOMAIN log[s]
      BY <1>6, <2>1, <2>3, <3>2, <3>3 DEF WebInv, InOrderOnce
    <3>4. CASE j = Len(log[s]) + 1
      BY <1>6, <1>8, <2>3, <3>2, <3>4
    <3>5. QED
      BY <1>0, <3>1, <3>3, <3>4
  <2>4. QED
    BY <1>5, <2>2, <2>3
<1>11. InOrder => NothingSkipped'
  <2>1. SUFFICES ASSUME InOrder, NEW t \in Held, ~stopped, NEW e \in inserted,
                        since[t] < e, e <= cursor'[t]
                 PROVE  e \in Range(log'[t])
    BY DEF NothingSkipped, Held, Handled
  <2>2. CASE t # s
    BY <1>3, <1>5, <2>1, <2>2 DEF WebInv, NothingSkipped, Handled, Held
  <2>3. CASE t = s
    <3>1. log'[s] = Append(log[s], first)
      BY <1>5, <2>1, <2>3 DEF Held
    <3>2. e \in Nat
      BY Sizes DEF WebInv, TypeOK
    <3>3. CASE e <= cursor[s]
      <4>1. e \in Range(log[s])
        BY <2>1, <2>3, <3>3 DEF WebInv, NothingSkipped, Handled
      <4>2. PICK i \in DOMAIN log[s] : log[s][i] = e
        BY <4>1 DEF Range
      <4>3. i \in DOMAIN log'[s] /\ log'[s][i] = e
        BY <1>0, <1>6, <3>1, <4>2
      <4>4. QED
        BY <2>3, <4>3 DEF Range
    <3>4. CASE cursor[s] < e
      <4>1. e <= list[1]
        BY <1>3, <1>4, <2>1, <2>3
      <4>2. PICK j \in DOMAIN list : list[j] = e
        BY <1>1, <1>4, <2>1, <3>4, <4>1 DEF GoodPage, list
      <4>3. ~(1 < j)
        <5>1. SUFFICES ASSUME 1 < j PROVE FALSE
          OBVIOUS
        <5>2. list[1] < list[j]
          BY <1>1, <1>4, <5>1 DEF GoodPage, list
        <5>3. QED
          BY <1>4, <3>2, <4>1, <4>2, <5>2
      <4>4. j = 1
        BY <1>0, <4>3
      <4>5. e = first /\ Len(log[s]) + 1 \in DOMAIN log'[s]
        BY <1>0, <1>4, <1>6, <3>1, <4>2, <4>4
      <4>6. QED
        BY <1>6, <2>3, <3>1, <4>5 DEF Range
    <3>5. QED
      BY <1>0, <3>2, <3>3, <3>4
  <2>4. QED
    BY <2>2, <2>3
<1>12. PageInv'
  <2>1. SUFFICES ASSUME NEW t \in Subs, NEW j \in Pumps, pc'[t][j] \in Delivering
                 PROVE  GoodPage(t, j)'
    BY DEF PageInv
  <2>2. CASE t = s /\ j = k
    <3> DEFINE rest == Tail(list)
    <3>1. /\ rest \in Seq(Event) /\ DOMAIN rest = 1..(Len(list) - 1) /\ Len(list) # 0
          /\ \A i \in DOMAIN rest : i + 1 \in DOMAIN list /\ rest[i] = list[i + 1]
      BY <1>0, <1>1 DEF list
    <3> HIDE DEF rest
    <3>2. \A i \in DOMAIN rest : rest[i] \in inserted /\ first < rest[i]
      <4>1. SUFFICES ASSUME NEW i \in DOMAIN rest PROVE rest[i] \in inserted /\ first < rest[i]
        OBVIOUS
      <4>2. i + 1 \in DOMAIN list /\ rest[i] = list[i + 1] /\ 1 < i + 1
        BY <1>0, <3>1
      <4>3. QED
        BY <1>1, <1>4, <4>2 DEF GoodPage, list
    <3>3. \A i, m \in DOMAIN rest : i < m => rest[i] < rest[m]
      <4>1. SUFFICES ASSUME NEW i \in DOMAIN rest, NEW m \in DOMAIN rest, i < m PROVE rest[i] < rest[m]
        OBVIOUS
      <4>2. i + 1 < m + 1 /\ i + 1 \in DOMAIN list /\ m + 1 \in DOMAIN list
        BY <1>0, <3>1, <4>1
      <4>3. QED
        BY <1>1, <3>1, <4>2 DEF GoodPage, list
    <3>4. ASSUME InOrder, NEW i \in DOMAIN rest, NEW e \in inserted, first < e, e <= rest[i]
          PROVE  \E m \in DOMAIN rest : rest[m] = e
      <4>1. e \in Nat
        BY Sizes DEF WebInv, TypeOK
      <4>2. cursor[s] < e
        BY <1>0, <1>4, <3>4, <4>1
      <4>3. PICK m \in DOMAIN list : list[m] = e
        BY <1>1, <3>1, <3>4, <4>2 DEF GoodPage, list
      <4>4. m # 1
        BY <1>4, <3>4, <4>1, <4>3
      <4>5. m - 1 \in DOMAIN rest
        BY <1>0, <3>1, <4>4
      <4>6. rest[m - 1] = list[(m - 1) + 1] /\ (m - 1) + 1 = m
        BY <1>0, <3>1, <4>5
      <4>7. QED
        BY <4>3, <4>5, <4>6
    <3>5. page'[t][j] = rest /\ cursor'[t] = first /\ pc'[t][j] = "next" /\ inserted' = inserted
      BY <1>3, <2>2 DEF rest, list
    <3>6. QED
      BY <3>2, <3>3, <3>4, <3>5 DEF GoodPage
  <2>3. CASE ~(t = s /\ j = k)
    <3>1. t # s
      BY <1>3, <2>1, <2>3 DEF WebInv, OnePump, Delivering
    <3>2. /\ pc'[t][j] = pc[t][j] /\ page'[t][j] = page[t][j] /\ cursor'[t] = cursor[t]
          /\ attempt'[t][j] = attempt[t][j]
      BY <1>3, <2>3, <3>1
    <3>3. GoodPage(t, j)
      BY <2>1, <3>2 DEF WebInv, PageInv
    <3>4. QED
      BY <3>2, <3>3 DEF GoodPage
  <2>4. QED
    BY <2>2, <2>3
<1>13. QED
  BY <1>7, <1>9, <1>10, <1>11, <1>12 DEF WebInv

Labels == {"idle", "query", "next", "throttle", "post", "backoff"}

\* What the EXCEPTs of the actions do to a variable of the pumps.
LEMMA SetPump ==
    ASSUME NEW V, NEW f \in [Subs -> [Pumps -> V]], NEW s \in Subs, NEW k \in Pumps, NEW v \in V,
           NEW g, g = [f EXCEPT ![s][k] = v]
    PROVE  /\ g \in [Subs -> [Pumps -> V]] /\ g[s][k] = v
           /\ \A t \in Subs, j \in Pumps : ~(t = s /\ j = k) => g[t][j] = f[t][j]
  OBVIOUS

LEMMA TypesOfPumps ==
    ASSUME TypeOK
    PROVE  /\ pc \in [Subs -> [Pumps -> Labels]] /\ page \in [Subs -> [Pumps -> Seq(Event)]]
           /\ more \in [Subs -> [Pumps -> BOOLEAN]] /\ attempt \in [Subs -> [Pumps -> 0..MaxAttempts]]
  BY DEF TypeOK, Labels

LEMMA GotoLabel ==
    ASSUME WebInv, NEW s \in Subs, NEW k \in Pumps, NEW label \in Labels, Goto(s, k, label)
    PROVE  /\ pc' \in [Subs -> [Pumps -> Labels]] /\ pc'[s][k] = label
           /\ \A t \in Subs, j \in Pumps : ~(t = s /\ j = k) => pc'[t][j] = pc[t][j]
<1>1. pc \in [Subs -> [Pumps -> Labels]] /\ pc' = [pc EXCEPT ![s][k] = label]
  BY TypesOfPumps DEF WebInv, Goto
<1>2. QED
  BY <1>1, SetPump

\* A pump goes on with the page it has.
LEMMA SamePage ==
    ASSUME WebInv, NEW s \in Subs, NEW k \in Pumps, NEW label \in Labels \ {"idle"}, Goto(s, k, label),
           tokens' \in [Buckets -> 0..Burst], attempt' \in [Subs -> [Pumps -> 0..MaxAttempts]],
           UNCHANGED <<inserted, stopped, phase, since, cursor, page, more, log>>,
           \A t \in Subs, j \in Pumps : ~(t = s /\ j = k) => attempt'[t][j] = attempt[t][j],
           \/ /\ busy' = busy /\ pc[s][k] \in Delivering /\ (label # "next" => page[s][k] # <<>>)
              /\ label = "backoff" => attempt'[s][k] < MaxAttempts
           \/ busy' = busy /\ pc[s][k] # "idle" /\ label = "query"
           \/ busy' = [busy EXCEPT ![s] = TRUE] /\ ~busy[s] /\ phase[s] = "registered" /\ label = "query"
    PROVE  WebInv'
<1>1. /\ pc' \in [Subs -> [Pumps -> Labels]] /\ pc'[s][k] = label
      /\ \A t \in Subs, j \in Pumps : ~(t = s /\ j = k) => pc'[t][j] = pc[t][j]
  BY GotoLabel
<1>2. busy \in [Subs -> BOOLEAN] /\ busy' \in [Subs -> BOOLEAN] /\ \A t \in Subs : t # s => busy'[t] = busy[t]
  BY DEF WebInv, TypeOK
<1>3. TypeOK'
  BY <1>1, <1>2 DEF WebInv, TypeOK, Labels
<1>4. pc'[s][k] \in Delivering => GoodPage(s, k)'
  <2>1. SUFFICES ASSUME label \in Delivering PROVE GoodPage(s, k)'
    BY <1>1
  <2>2. /\ pc[s][k] \in Delivering /\ (label # "next" => page[s][k] # <<>>)
        /\ label = "backoff" => attempt'[s][k] < MaxAttempts
    BY <2>1 DEF Delivering
  <2>3. GoodPage(s, k)
    BY <2>2 DEF WebInv, PageInv
  <2>4. QED
    BY <1>1, <2>2, <2>3 DEF GoodPage
<1>5. /\ pc[s][k] # "idle" \/ ~busy[s]
      /\ busy'[s] /\ (busy[s] \/ phase[s] = "registered")
  BY <1>2 DEF WebInv, OnePump, Delivering
<1>6. \A t \in Subs, j \in Pumps : ~(t = s /\ j = k) =>
         pc'[t][j] = pc[t][j] /\ page'[t][j] = page[t][j] /\ attempt'[t][j] = attempt[t][j]
  BY <1>1
<1>7. QED
  BY <1>1, <1>2, <1>3, <1>4, <1>5, <1>6, PumpMoves

LEMMA LeaveWeb ==
    ASSUME WebInv, NEW s \in Subs, NEW k \in Pumps, pc[s][k] # "idle", Leave(s, k),
           UNCHANGED <<inserted, stopped, tokens, registry, cursor, log>>
    PROVE  WebInv'
<1>1. /\ pc' \in [Subs -> [Pumps -> Labels]] /\ pc'[s][k] = "idle"
      /\ \A t \in Subs, j \in Pumps : ~(t = s /\ j = k) => pc'[t][j] = pc[t][j]
  <2>1. "idle" \in Labels /\ Goto(s, k, "idle")
    BY DEF Labels, Leave
  <2>2. QED
    BY <2>1, GotoLabel
<1>2. /\ page' \in [Subs -> [Pumps -> Seq(Event)]]
      /\ \A t \in Subs, j \in Pumps : ~(t = s /\ j = k) => page'[t][j] = page[t][j]
  <2>1. /\ page \in [Subs -> [Pumps -> Seq(Event)]] /\ <<>> \in Seq(Event)
        /\ page' = [page EXCEPT ![s][k] = <<>>]
    BY TypesOfPumps DEF WebInv, Leave
  <2>2. QED
    BY <2>1, SetPump
<1>3. /\ more' \in [Subs -> [Pumps -> BOOLEAN]] /\ attempt' \in [Subs -> [Pumps -> 0..MaxAttempts]]
      /\ \A t \in Subs, j \in Pumps : ~(t = s /\ j = k) => attempt'[t][j] = attempt[t][j]
  <2>1. /\ attempt \in [Subs -> [Pumps -> 0..MaxAttempts]] /\ 0 \in 0..MaxAttempts
        /\ attempt' = [attempt EXCEPT ![s][k] = 0]
    BY Sizes, TypesOfPumps DEF WebInv, Leave
  <2>2. more' \in [Subs -> [Pumps -> BOOLEAN]]
    BY TypesOfPumps DEF WebInv, Leave
  <2>3. /\ attempt' \in [Subs -> [Pumps -> 0..MaxAttempts]]
        /\ \A t \in Subs, j \in Pumps : ~(t = s /\ j = k) => attempt'[t][j] = attempt[t][j]
    BY <2>1, SetPump
  <2>4. QED
    BY <2>2, <2>3
<1>4. busy' \in [Subs -> BOOLEAN] /\ \A t \in Subs : t # s => busy'[t] = busy[t]
  BY DEF WebInv, TypeOK, Leave
<1>5. ~busy'[s] /\ "idle" \notin Delivering
  BY DEF WebInv, TypeOK, Leave, Delivering
<1>6. TypeOK'
  BY <1>1, <1>2, <1>3, <1>4 DEF WebInv, TypeOK, Labels, registry
<1>7. \A t \in Subs, j \in Pumps : ~(t = s /\ j = k) =>
         pc'[t][j] = pc[t][j] /\ page'[t][j] = page[t][j] /\ attempt'[t][j] = attempt[t][j]
  BY <1>1, <1>2, <1>3
<1>8. QED
  BY <1>1, <1>4, <1>5, <1>6, <1>7, PumpMoves DEF registry

LEMMA QueryWeb == ASSUME WebInv, NEW s \in Subs, NEW k \in Pumps, Query(s, k) PROVE WebInv'
<1>1. /\ pc[s][k] = "query" /\ Goto(s, k, "next")
      /\ UNCHANGED <<inserted, stopped, tokens, phase, since, cursor, busy, attempt, log>>
  BY DEF Query, registry
<1>2. PICK list \in Ascending(Pending(s)) :
         /\ page' = [page EXCEPT ![s][k] = FirstOf(list, Batch)]
         /\ more' = [more EXCEPT ![s][k] = Len(list) > Batch]
  BY DEF Query
<1> DEFINE first == FirstOf(list, Batch)
           S == Pending(s)
<1>3. S \in SUBSET inserted /\ S \in SUBSET Nat /\ IsFiniteSet(S) /\ inserted \subseteq Event
  <2>1. IsFiniteSet(1..MaxEvent)
    BY Sizes, FS_Interval
  <2>2. S \subseteq inserted /\ inserted \subseteq Event
    BY DEF Pending, WebInv, TypeOK
  <2>3. QED
    BY <2>1, <2>2, FS_Subset, Sizes DEF Event
<1>4. \A e : e \in S <=> e \in inserted /\ e > cursor[s]
  BY DEF Pending
<1> HIDE DEF first, S
<1>5. /\ first \in Seq(S)
      /\ \A i, j \in DOMAIN first : i < j => first[i] < first[j]
      /\ \A e \in S : \A i \in DOMAIN first : e <= first[i] => \E j \in DOMAIN first : first[j] = e
  BY <1>2, <1>3, FirstOfIsFirst, Sizes DEF first, S
<1>6. /\ pc' \in [Subs -> [Pumps -> Labels]] /\ pc'[s][k] = "next"
      /\ \A t \in Subs, j \in Pumps : ~(t = s /\ j = k) => pc'[t][j] = pc[t][j]
  <2>1. "next" \in Labels
    BY DEF Labels
  <2>2. QED
    BY <1>1, <2>1, GotoLabel
<1>7. /\ page' \in [Subs -> [Pumps -> Seq(Event)]] /\ page'[s][k] = first
      /\ \A t \in Subs, j \in Pumps : ~(t = s /\ j = k) => page'[t][j] = page[t][j]
  <2>1. first \in Seq(Event)
    <3>1. S \subseteq Event
      BY <1>3
    <3>2. QED
      BY <1>5, <3>1
  <2>2. page \in [Subs -> [Pumps -> Seq(Event)]] /\ page' = [page EXCEPT ![s][k] = first]
    BY <1>2, TypesOfPumps DEF WebInv, first
  <2>3. QED
    BY <2>1, <2>2, SetPump
<1>8. more' \in [Subs -> [Pumps -> BOOLEAN]]
  <2>1. more \in [Subs -> [Pumps -> BOOLEAN]] /\ (Len(list) > Batch) \in BOOLEAN
    BY TypesOfPumps DEF WebInv
  <2>2. QED
    BY <1>2, <2>1, SetPump
<1>9. TypeOK'
  BY <1>1, <1>6, <1>7, <1>8 DEF WebInv, TypeOK, Labels
<1>10. GoodPage(s, k)'
  <2>1. \A i \in DOMAIN first : first[i] \in S
    BY <1>5
  <2>2. \A i \in DOMAIN first : first[i] \in inserted /\ cursor[s] < first[i]
    <3>1. \A e \in S : e \in inserted /\ e \in Nat /\ cursor[s] \in Nat /\ e > cursor[s]
      BY <1>3, <1>4, TypedPump
    <3>2. QED
      BY <2>1, <3>1
  <2>3. \A i \in DOMAIN first, e \in inserted :
           cursor[s] < e /\ e <= first[i] => \E j \in DOMAIN first : first[j] = e
    <3>1. \A e \in inserted : cursor[s] < e => e \in S
      BY <1>4
    <3>2. QED
      BY <1>5, <3>1
  <2>4. inserted' = inserted /\ cursor'[s] = cursor[s]
    BY <1>1
  <2>5. QED
    BY <1>5, <1>6, <1>7, <2>2, <2>3, <2>4 DEF GoodPage
<1>11. pc[s][k] # "idle" /\ busy[s]
  BY <1>1 DEF WebInv, OnePump
<1>12. QED
  BY <1>1, <1>6, <1>7, <1>9, <1>10, <1>11, PumpMoves

LEMMA NextEventWeb == ASSUME WebInv, NEW s \in Subs, NEW k \in Pumps, NextEvent(s, k) PROVE WebInv'
<1>1. /\ pc[s][k] = "next" /\ UNCHANGED <<inserted, stopped, tokens, phase, since, cursor, log>>
      /\ UNCHANGED registry
  BY DEF NextEvent, registry
<1>2. tokens' \in [Buckets -> 0..Burst] /\ pc[s][k] \in Delivering /\ pc[s][k] # "idle"
  BY <1>1 DEF WebInv, TypeOK, Delivering
<1>3. CASE page[s][k] # <<>> /\ ~Over(s)
  <2>1. attempt' = [attempt EXCEPT ![s][k] = 1] /\ Goto(s, k, "throttle") /\ UNCHANGED <<busy, page, more>>
    BY <1>3 DEF NextEvent
  <2>2. 1 \in 0..MaxAttempts /\ "throttle" \in Labels \ {"idle"}
    BY Sizes DEF Labels
  <2>3. /\ attempt' \in [Subs -> [Pumps -> 0..MaxAttempts]]
        /\ \A t \in Subs, j \in Pumps : ~(t = s /\ j = k) => attempt'[t][j] = attempt[t][j]
    <3>1. attempt \in [Subs -> [Pumps -> 0..MaxAttempts]]
      BY TypesOfPumps DEF WebInv
    <3>2. QED
      BY <2>1, <2>2, <3>1, SetPump
  <2>4. QED
    BY <1>1, <1>2, <1>3, <2>1, <2>2, <2>3, SamePage
<1>4. CASE ~(page[s][k] # <<>> /\ ~Over(s)) /\ page[s][k] = <<>> /\ more[s][k]
  <2>1. Goto(s, k, "query") /\ UNCHANGED <<busy, page, more, attempt>>
    BY <1>4 DEF NextEvent
  <2>2. "query" \in Labels \ {"idle"} /\ attempt' \in [Subs -> [Pumps -> 0..MaxAttempts]]
    BY <2>1, TypesOfPumps DEF WebInv, Labels
  <2>3. QED
    BY <1>1, <1>2, <2>1, <2>2, SamePage
<1>5. CASE ~(page[s][k] # <<>> /\ ~Over(s)) /\ ~(page[s][k] = <<>> /\ more[s][k])
  <2>1. Leave(s, k)
    BY <1>5 DEF NextEvent
  <2>2. QED
    BY <1>1, <1>2, <2>1, LeaveWeb
<1>6. QED
  BY <1>3, <1>4, <1>5

\* What delivering leaves typed.
LEMMA DeliveredTyped ==
    ASSUME WebInv, NEW s \in Subs, NEW k \in Pumps, pc[s][k] \in {"throttle", "post", "backoff"},
           Delivered(s, k), log' = log \/ Record(s, k),
           UNCHANGED <<inserted, stopped, tokens, registry, busy, more>>
    PROVE  TypeOK'
<1>1. /\ cursor' = [cursor EXCEPT ![s] = Head(page[s][k])]
      /\ page' = [page EXCEPT ![s][k] = Tail(@)]
      /\ attempt' = [attempt EXCEPT ![s][k] = 0]
      /\ Goto(s, k, "next")
  BY DEF Delivered
<1>2. page[s][k] \in Seq(Event) /\ page[s][k] # <<>>
  BY TypedPump DEF WebInv, PageInv, Delivering, GoodPage
<1>3. Head(page[s][k]) \in Event /\ Head(page[s][k]) \in 0..MaxEvent /\ Tail(page[s][k]) \in Seq(Event)
  <2>1. Head(page[s][k]) \in Event /\ Tail(page[s][k]) \in Seq(Event)
    BY <1>2
  <2>2. QED
    BY <2>1, Sizes
<1>4. pc' \in [Subs -> [Pumps -> Labels]]
  <2>1. "next" \in Labels
    BY DEF Labels
  <2>2. QED
    BY <1>1, <2>1, GotoLabel
<1>5. page' \in [Subs -> [Pumps -> Seq(Event)]]
  BY <1>1, <1>3, TypesOfPumps DEF WebInv
<1>6. attempt' \in [Subs -> [Pumps -> 0..MaxAttempts]]
  <2>1. attempt \in [Subs -> [Pumps -> 0..MaxAttempts]] /\ 0 \in 0..MaxAttempts
    BY Sizes, TypesOfPumps DEF WebInv
  <2>2. QED
    BY <1>1, <2>1, SetPump
<1>7. log' \in [Subs -> Seq(Event)]
  <2>1. log \in [Subs -> Seq(Event)] /\ Append(log[s], Head(page[s][k])) \in Seq(Event)
    BY <1>3, TypedPump DEF WebInv, TypeOK
  <2>2. QED
    BY <2>1 DEF Record
<1>8. cursor' \in [Subs -> 0..MaxEvent]
  BY <1>1, <1>3 DEF WebInv, TypeOK
<1>9. QED
  BY <1>4, <1>5, <1>6, <1>7, <1>8 DEF WebInv, TypeOK, Labels, registry

LEMMA AbandonWeb == ASSUME WebInv, NEW s \in Subs, NEW k \in Pumps, Abandon(s, k) PROVE WebInv'
<1>1. /\ pc[s][k] \in {"throttle", "post", "backoff"} /\ Over(s) /\ Delivered(s, k) /\ log' = log
      /\ UNCHANGED <<inserted, stopped, tokens, registry, busy, more>>
  BY DEF Abandon
<1>2. TypeOK'
  BY <1>1, DeliveredTyped
<1>3. QED
  BY <1>1, <1>2, PumpDelivers DEF registry

LEMMA PostWeb ==
    ASSUME WebInv, NEW s \in Subs, NEW k \in Pumps, pc[s][k] = "post", Record(s, k), Delivered(s, k),
           UNCHANGED <<inserted, stopped, tokens, registry, busy, more>>
    PROVE  WebInv'
<1>1. TypeOK'
  BY DeliveredTyped
<1>2. QED
  BY <1>1, PumpDelivers DEF registry

LEMMA PostFailsWeb == ASSUME WebInv, NEW s \in Subs, NEW k \in Pumps, PostFails(s, k) PROVE WebInv'
<1>1. pc[s][k] = "post" /\ UNCHANGED <<inserted, stopped, tokens, registry, phase, since, busy, more>>
  BY DEF PostFails, registry
<1>2. CASE attempt[s][k] < MaxAttempts
  <2>1. Goto(s, k, "backoff") /\ UNCHANGED <<cursor, page, attempt, log>>
    BY <1>2 DEF PostFails
  <2>2. /\ "backoff" \in Labels \ {"idle"} /\ pc[s][k] \in Delivering
        /\ tokens' \in [Buckets -> 0..Burst] /\ attempt' \in [Subs -> [Pumps -> 0..MaxAttempts]]
    BY <1>1, <2>1 DEF Labels, Delivering, WebInv, TypeOK
  <2>3. page[s][k] # <<>> /\ attempt'[s][k] < MaxAttempts
    BY <1>1, <1>2, <2>1, <2>2 DEF WebInv, PageInv, GoodPage
  <2>4. QED
    BY <1>1, <2>1, <2>2, <2>3, SamePage
<1>3. CASE ~(attempt[s][k] < MaxAttempts)
  <2>1. Record(s, k) /\ Delivered(s, k)
    BY <1>3 DEF PostFails
  <2>2. QED
    BY <1>1, <2>1, PostWeb
<1>4. QED
  BY <1>2, <1>3

LEMMA ThrottleWeb == ASSUME WebInv, NEW s \in Subs, NEW k \in Pumps, Throttle(s, k) PROVE WebInv'
<1>1. /\ pc[s][k] = "throttle" /\ Goto(s, k, "post") /\ tokens[s] > 0 /\ tokens["host"] > 0
      /\ tokens' = [tokens EXCEPT ![s] = @ - 1, !["host"] = @ - 1]
      /\ UNCHANGED <<inserted, stopped, phase, since, cursor, busy, page, more, attempt, log>>
  BY DEF Throttle, registry
<1>2. tokens' \in [Buckets -> 0..Burst]
  <2>1. s \in Buckets /\ "host" \in Buckets /\ s # "host" /\ tokens \in [Buckets -> 0..Burst]
    BY WebhooksAssumption DEF WebInv, TypeOK, Buckets
  <2>2. tokens[s] - 1 \in 0..Burst /\ tokens["host"] - 1 \in 0..Burst
    BY <1>1, <2>1, Sizes
  <2>3. QED
    BY <1>1, <2>1, <2>2
<1>3. /\ "post" \in Labels \ {"idle"} /\ pc[s][k] \in Delivering
      /\ attempt' \in [Subs -> [Pumps -> 0..MaxAttempts]]
  BY <1>1 DEF Labels, Delivering, WebInv, TypeOK
<1>4. page[s][k] # <<>>
  BY <1>1, <1>3 DEF WebInv, PageInv, GoodPage
<1>5. QED
  BY <1>1, <1>2, <1>3, <1>4, SamePage

LEMMA RetryWeb ==
    ASSUME WebInv, NEW s \in Subs, NEW k \in Pumps, Retry(s, k) PROVE WebInv'
<1>1. /\ pc[s][k] = "backoff" /\ Goto(s, k, "throttle")
      /\ attempt' = [attempt EXCEPT ![s][k] = @ + 1]
      /\ UNCHANGED <<inserted, stopped, tokens, phase, since, cursor, busy, page, more, log>>
  BY DEF Retry, registry
<1>2. /\ attempt' \in [Subs -> [Pumps -> 0..MaxAttempts]]
      /\ \A t \in Subs, j \in Pumps : ~(t = s /\ j = k) => attempt'[t][j] = attempt[t][j]
  <2>1. attempt \in [Subs -> [Pumps -> 0..MaxAttempts]]
    BY TypesOfPumps DEF WebInv
  <2>2. attempt[s][k] < MaxAttempts
    BY <1>1 DEF WebInv, PageInv, GoodPage, Delivering
  <2>3. attempt[s][k] + 1 \in 0..MaxAttempts
    BY <2>1, <2>2, Sizes
  <2>4. attempt' = [attempt EXCEPT ![s][k] = attempt[s][k] + 1]
    BY <1>1, <2>1
  <2>5. QED
    BY <2>1, <2>3, <2>4, SetPump
<1>3. /\ "throttle" \in Labels \ {"idle"} /\ pc[s][k] \in Delivering
      /\ tokens' \in [Buckets -> 0..Burst]
  BY <1>1 DEF Labels, Delivering, WebInv, TypeOK
<1>4. page[s][k] # <<>>
  BY <1>1, <1>3 DEF WebInv, PageInv, GoodPage
<1>5. QED
  BY <1>1, <1>2, <1>3, <1>4, SamePage

LEMMA PumpWeb == ASSUME WebInv, NEW s \in Subs, NEW k \in Pumps, Pump(s, k) PROVE WebInv'
<1>1. /\ ~busy[s] /\ phase[s] = "registered" /\ Goto(s, k, "query")
      /\ busy' = [busy EXCEPT ![s] = TRUE]
      /\ UNCHANGED <<inserted, stopped, tokens, phase, since, cursor, page, more, attempt, log>>
  BY DEF Pump, registry
<1>2. /\ "query" \in Labels \ {"idle"} /\ tokens' \in [Buckets -> 0..Burst]
      /\ attempt' \in [Subs -> [Pumps -> 0..MaxAttempts]]
  BY <1>1 DEF Labels, WebInv, TypeOK
<1>3. QED
  BY <1>1, <1>2, SamePage

LEMMA StepWeb == ASSUME WebInv, NEW s \in Subs, NEW k \in Pumps, Step(s, k) PROVE WebInv'
<1>1. CASE QueryFails(s, k)
  <2>1. /\ pc[s][k] # "idle" /\ Leave(s, k)
        /\ UNCHANGED <<inserted, stopped, tokens, registry, cursor, log>>
    BY <1>1 DEF QueryFails
  <2>2. QED
    BY <2>1, LeaveWeb
<1>2. CASE PostSettles(s, k)
  BY <1>2, PostWeb DEF PostSettles
<1>3. QED
  BY <1>1, <1>2, QueryWeb, NextEventWeb, AbandonWeb, ThrottleWeb, PostFailsWeb, RetryWeb DEF Step

LEMMA NextWeb == WebInv /\ [Next]_vars => WebInv'
<1>1. SUFFICES ASSUME WebInv, [Next]_vars PROVE WebInv'
  OBVIOUS
<1>2. CASE UNCHANGED vars
  <2>1. /\ UNCHANGED <<inserted, stopped, tokens, phase, since, cursor, busy, pumping, log>>
    BY <1>2 DEF vars, registry
  <2>2. TypeOK' /\ Lifecycle'
    BY <1>1, <2>1 DEF WebInv, TypeOK, Lifecycle, pumping
  <2>3. QED
    BY <1>1, <2>1, <2>2, AroundPumps DEF Held
<1>3. CASE Next
  BY <1>1, <1>3, InsertWeb, AroundWeb, PumpWeb, StepWeb DEF Next
<1>4. QED
  BY <1>1, <1>2, <1>3

LEMMA InvariantWeb == Spec => []WebInv
<1>1. Init => WebInv
  BY InitWeb
<1>2. WebInv /\ [Next]_vars => WebInv'
  BY NextWeb
<1>3. QED
  BY <1>1, <1>2, PTL DEF Spec

\* webhooks.ts 638-662: events reach a subscriber in order and each is settled once,
\* in whatever order the ids were inserted and whoever activates pump().
THEOREM EventsInOrderOnce == Spec => []InOrderOnce
<1>1. WebInv => InOrderOnce
  BY DEF WebInv
<1>2. QED
  BY <1>1, InvariantWeb, PTL

\* webhooks.ts, header: the cursor passes only what was delivered or dead-lettered, if
\* events are inserted in the order of their ids.
THEOREM DeliveriesExact == ASSUME InOrder PROVE Spec => []DeliveriesAreExact
<1>1. WebInv => DeliveriesAreExact
  BY DEF WebInv, DeliveriesAreExact
<1>2. QED
  BY <1>1, InvariantWeb, PTL

\* webhooks.ts 619-636, 673-704: every attempt takes a token from the subscription's
\* bucket and from the host's, and none begins after removal or stop().
THEOREM AttemptsAllowed == Spec => AttemptsAreAllowed
<1>1. ASSUME WebInv, [Next]_vars PROVE AttemptAllowed
  <2>1. SUFFICES ASSUME NEW s \in Subs, NEW k \in Pumps, pc[s][k] # "post", pc'[s][k] = "post"
                 PROVE  tokens'[s] < tokens[s] /\ tokens'["host"] < tokens["host"] /\ ~Over(s)
    BY DEF AttemptAllowed
  <2>2. PICK t \in Subs, j \in Pumps : Pump(t, j) \/ Step(t, j)
    BY <1>1, <2>1 DEF Next, vars, pumping, Insert, Refill, Stop, RegisterCheck, RegisterRead,
       RegisterAdd, RemoveHook
  <2>3. pc \in [Subs -> [Pumps -> Labels]]
    BY <1>1, TypesOfPumps DEF WebInv
  <2>4. Throttle(t, j)
    <3>1. ASSUME NEW label, label # "post", Goto(t, j, label) PROVE FALSE
      BY <2>1, <2>3, <3>1 DEF Goto
    <3>2. \/ Goto(t, j, "query") \/ Goto(t, j, "next") \/ Goto(t, j, "idle") \/ Goto(t, j, "throttle")
          \/ Goto(t, j, "backoff") \/ Throttle(t, j)
      BY <2>2 DEF Pump, Step, Query, QueryFails, Leave, NextEvent, Abandon, Delivered, PostSettles,
         PostFails, Retry
    <3>3. QED
      BY <3>1, <3>2
  <2>5. t = s
    BY <2>1, <2>3, <2>4 DEF Throttle, Goto
  <2>6. s \in Buckets /\ "host" \in Buckets /\ s # "host" /\ tokens \in [Buckets -> 0..Burst]
    BY <1>1, WebhooksAssumption DEF WebInv, TypeOK, Buckets
  <2>7. tokens'[s] = tokens[s] - 1 /\ tokens'["host"] = tokens["host"] - 1
    BY <2>4, <2>5, <2>6 DEF Throttle
  <2>8. tokens[s] \in Nat /\ tokens["host"] \in Nat
    BY <2>6, Sizes
  <2>9. QED
    BY <2>4, <2>5, <2>7, <2>8 DEF Throttle
<1>2. QED
  BY <1>1, InvariantWeb, PTL DEF Spec, AttemptsAreAllowed
=============================================================================
