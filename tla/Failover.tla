----------------------------- MODULE Failover -----------------------------
(***************************************************************************)
(* `lens index` against several RPC providers (LENS_RPC_URLS): the         *)
(* FailoverRpcClient of packages/ingest/src/rpc-pool.ts under the poller   *)
(* of packages/ingest/src/poller.ts.                                       *)
(*                                                                         *)
(* Each provider holds its own window of the same ledgers and may lag      *)
(* behind the others.  Every ledger has PerLedger matching events,         *)
(* numbered in ledger order, so that a page can end inside a ledger and a  *)
(* restart from the committed ledger overlaps.                             *)
(***************************************************************************)
EXTENDS Naturals, Sequences, FiniteSetsExt

CONSTANTS
    N,              \* providers, in the operator's order; 0 is the primary
    Outages,        \* the sets of providers that may be gone for good
    MaxLedger,      \* bound: ledgers the network closes
    PerLedger,      \* matching events in a ledger
    PageSize,       \* --page-size
    Window,         \* RECENT_ID_WINDOW_PAGES
    Threshold,      \* failureThreshold
    MaxCrashes      \* bound: times the process is killed

ASSUME FailoverAssumption ==
    /\ {N, MaxLedger, PerLedger, PageSize, Window, Threshold} \subseteq Nat \ {0}
    /\ MaxCrashes \in Nat

VARIABLES
    dead,                       \* the providers that never answer; with none of them
                                \* gone for good, any request may stay unanswered
    tip, oldest,                \* per provider: its latest and oldest ledger
    stored, saved,              \* the database: events rows, stream_state row
    pool,                       \* FailoverRpcClient: #active and #errors
    pc, cursor, startLedger,    \* the poller
    page, recent,               \* the page in hand, the RecentIds window (oldest first)
    gone, crashes               \* history: events given up, kills so far

nodes  == <<dead, tip, oldest>>
db     == <<stored, saved>>
poller == <<pc, cursor, startLedger, page, recent>>
failoverVars == <<nodes, db, pool, poller, gone, crashes>>

Provider == 0..(N - 1)
Ledgers  == 1..MaxLedger
Live     == Provider \ dead

\* The last event of ledger l, the ledger of event e, the events of ledger l.
EventsTo(l) == l * PerLedger
LedgerOf(e) == (e - 1) \div PerLedger + 1
EventsIn(l) == {e \in 1..(MaxLedger * PerLedger) : LedgerOf(e) = l}
MayFail(q)  == q \in dead \/ dead = {}

NoCursor   == [pos |-> 0, at |-> 0]
NoPosition == [pos |-> 0, at |-> 0, ledger |-> 0]
NoPage     == [to |-> 0, at |-> 0, last |-> 0, latest |-> 0, short |-> FALSE, fresh |-> {}]

\* A new process starts at the primary with no errors counted.
Primary == [active |-> 0, errors |-> 0]

Blank ==
    /\ pool' = Primary
    /\ cursor' = NoCursor /\ startLedger' = 0
    /\ page' = NoPage /\ recent' = <<>>

FailoverInit ==
    /\ dead \in Outages
    /\ tip = [q \in Provider |-> 1] /\ oldest = [q \in Provider |-> 1]
    /\ stored = {} /\ saved = NoPosition
    /\ pool = Primary
    /\ pc = "resolve" /\ cursor = NoCursor /\ startLedger = 0
    /\ page = NoPage /\ recent = <<>>
    /\ gone = {} /\ crashes = 0

-----------------------------------------------------------------------------
(* The providers move independently. *)

Advance(q) ==
    /\ tip[q] < MaxLedger
    /\ tip' = [tip EXCEPT ![q] = @ + 1]
    /\ UNCHANGED <<dead, oldest, db, pool, poller, gone, crashes>>

Forget(q) ==
    /\ oldest[q] < tip[q]
    /\ oldest' = [oldest EXCEPT ![q] = @ + 1]
    /\ UNCHANGED <<dead, tip, db, pool, poller, gone, crashes>>

-----------------------------------------------------------------------------
(* The pool.  Before each call #tryRecoverPrimary probes the primary when a     *)
(* probe is due, and goes back to it when it answers; the clock is not          *)
(* modelled, so a probe may be due at any call.                                 *)

Probed ==
    {pool} \cup (IF pool.active # 0 /\ 0 \notin dead THEN {Primary} ELSE {})

Answered(p) == [p EXCEPT !.errors = 0]
NextProvider(p) == (p.active + 1) % N

\* Variant: health and retention calls count errors but never switch.
NeverSwitches(p) == [p EXCEPT !.errors = IF @ < Threshold THEN @ + 1 ELSE @]

\* #errors++.  Beyond the threshold the count says nothing.
Counted(p) == IF p.errors < Threshold THEN p.errors + 1 ELSE p.errors

\* #request (health and retention) counts the error and moves on at the threshold, if
\* there is another provider; it does not start the count again.
RequestFailed(p) ==
    [active |-> IF Counted(p) >= Threshold THEN NextProvider(p) ELSE p.active,
     errors |-> Counted(p)]

-----------------------------------------------------------------------------
(* What provider q serves from event number `from`: a full page, or a short one *)
(* that ends at its tip.                                                        *)

ByCursor  == cursor.at # 0
Holds(q, l) == l \in oldest[q]..tip[q]

\* RecentIds.add: a repeat is dropped, a new id may push the oldest out.
Add(window, id) ==
    IF \E i \in DOMAIN window.ids : window.ids[i] = id THEN window
    ELSE LET grown == Append(window.ids, id)
         IN  [ids   |-> IF Len(grown) > Window * PageSize THEN Tail(grown) ELSE grown,
              fresh |-> window.fresh \cup {id}]

\* Events from+1..to, in order, through the window.
AddAll(from, to) ==
    LET after[n \in 0..(to - from)] ==
            IF n = 0 THEN [ids |-> recent, fresh |-> {}] ELSE Add(after[n - 1], from + n)
    IN  after[to - from]

Served(q, from) ==
    LET full == from + PageSize <= EventsTo(tip[q])
        to   == IF full THEN from + PageSize ELSE EventsTo(tip[q])
    IN  [to |-> to, short |-> ~full,
         last |-> IF to = from THEN 0 ELSE LedgerOf(to),
         latest |-> tip[q],
         at |-> IF full THEN LedgerOf(to) ELSE tip[q],
         fresh |-> AddAll(from, to).fresh]

Receive(q, from) ==
    /\ page' = Served(q, from)
    /\ recent' = AddAll(from, Served(q, from).to).ids
    /\ pc' = IF page'.fresh = {} THEN "save" ELSE "consume"
    /\ UNCHANGED <<nodes, db, cursor, startLedger, gone, crashes>>

-----------------------------------------------------------------------------
(* #resolveStart, with the retention() calls it makes. *)

\* A saved position wins.  retention() is asked too, only to warn: its failure is
\* swallowed but counts in the pool.
ResolveSaved ==
    /\ pc = "resolve" /\ saved.at # 0
    /\ \E p \in Probed :
          \/ p.active \in Live /\ pool' = Answered(p)
          \/ MayFail(p.active) /\ pool' = RequestFailed(p)
    /\ cursor' = [pos |-> saved.pos, at |-> saved.at]
    /\ pc' = "fetch"
    /\ UNCHANGED <<nodes, db, startLedger, page, recent, gone, crashes>>

ResolveStart ==
    /\ pc = "resolve" /\ saved.at = 0
    /\ \E p \in Probed :
          /\ p.active \in Live
          /\ pool' = Answered(p)
          /\ startLedger' = oldest[p.active]
          /\ gone' = gone \cup 1..EventsTo(oldest[p.active] - 1)
    /\ pc' = "fetch"
    /\ UNCHANGED <<nodes, db, cursor, page, recent, crashes>>

ResolveFails ==
    /\ pc = "resolve" /\ saved.at = 0
    /\ \E p \in Probed : MayFail(p.active) /\ pool' = RequestFailed(p)
    /\ pc' = "sleep"
    /\ UNCHANGED <<nodes, db, cursor, startLedger, page, recent, gone, crashes>>

-----------------------------------------------------------------------------
(* FailoverRpcClient.getEvents: the active provider first.                      *)

StartPos == IF ByCursor THEN cursor.pos ELSE EventsTo(startLedger - 1)
StartAt  == IF ByCursor THEN cursor.at ELSE startLedger

FetchPage ==
    /\ pc = "fetch"
    /\ \E p \in Probed :
          /\ p.active \in Live /\ Holds(p.active, StartAt)
          /\ pool' = Answered(p)
          /\ Receive(p.active, StartPos)

\* What the poller does with an error: a refused cursor starts the recovery, an
\* unanswered request is slept on, anything else is rethrown and ends the process.
Throw(refused) ==
    \/ /\ refused /\ ByCursor
       /\ pc' = "recover" /\ UNCHANGED <<cursor, startLedger, page, recent>>
    \/ /\ ~refused
       /\ pc' = "sleep" /\ UNCHANGED <<cursor, startLedger, page, recent>>

\* A request q does not serve: not answered, or refused for its position.
Unserved(q, l, refused) ==
    IF refused THEN q \in Live /\ ~Holds(q, l) ELSE MayFail(q)

\* With one more error the pool moves on, if there is another provider.
Switches(p) == p.errors + 1 >= Threshold /\ N > 1

\* Below the threshold the error goes to the poller.
FetchErrors ==
    /\ pc = "fetch"
    /\ \E p \in Probed, refused \in BOOLEAN :
          /\ Unserved(p.active, StartAt, refused) /\ ~Switches(p)
          /\ \/ pool' = [p EXCEPT !.errors = Counted(p)] /\ Throw(refused)
             \/ refused /\ ~ByCursor /\ Blank /\ pc' = "down"
    /\ UNCHANGED <<nodes, db, gone, crashes>>

\* At the threshold the pool switches, and with a cursor tries it there.
Switch ==
    /\ pc = "fetch" /\ ByCursor
    /\ \E p \in Probed, refused \in BOOLEAN :
          /\ Unserved(p.active, StartAt, refused) /\ Switches(p)
          /\ pool' = [active |-> NextProvider(p), errors |-> 0]
    /\ pc' = "retryCursor"
    /\ UNCHANGED <<nodes, db, cursor, startLedger, page, recent, gone, crashes>>

\* Without one it throws an Error of its own, which the poller does not take for a
\* retryable one: the process ends.
SwitchIsFatal ==
    /\ pc = "fetch" /\ ~ByCursor
    /\ \E p \in Probed, refused \in BOOLEAN :
          Unserved(p.active, StartAt, refused) /\ Switches(p)
    /\ Blank /\ pc' = "down"
    /\ UNCHANGED <<nodes, db, gone, crashes>>

RetryCursor ==
    /\ pc = "retryCursor"
    /\ \/ /\ pool.active \in Live /\ Holds(pool.active, cursor.at)
          /\ Receive(pool.active, cursor.pos)
       \/ /\ \E refused \in BOOLEAN : Unserved(pool.active, cursor.at, refused)
          /\ pc' = "retryLedger"
          /\ UNCHANGED <<nodes, db, cursor, startLedger, page, recent, gone, crashes>>
    /\ UNCHANGED pool

\* Variant: the overlap starts after the committed ledger.
AfterCommitted == EventsTo(saved.ledger)

\* The committed ledger of the saved row, fetched again from its first event.
FromCommitted == EventsTo(saved.ledger - 1)

RetryLedger ==
    /\ pc = "retryLedger"
    /\ \/ /\ pool.active \in Live /\ Holds(pool.active, saved.ledger)
          /\ Receive(pool.active, FromCommitted)
       \/ /\ \E refused \in BOOLEAN :
                Unserved(pool.active, saved.ledger, refused) /\ Throw(refused)
          /\ UNCHANGED <<nodes, db, gone, crashes>>
    /\ UNCHANGED pool

-----------------------------------------------------------------------------
(* The recovery from a refused position, as in one-provider ingestion; the      *)
(* window it reads may be another provider's than the one that refused.         *)

Recover ==
    /\ pc = "recover"
    /\ \E p \in Probed :
          /\ p.active \in Live
          /\ pool' = Answered(p)
          /\ startLedger' = oldest[p.active]
          /\ gone' = gone \cup 1..EventsTo(oldest[p.active] - 1)
    /\ pc' = "clear"
    /\ UNCHANGED <<nodes, db, cursor, page, recent, crashes>>

RecoverFails ==
    /\ pc = "recover"
    /\ \E p \in Probed : MayFail(p.active)
    /\ Blank /\ pc' = "down"
    /\ UNCHANGED <<nodes, db, gone, crashes>>

ClearPosition ==
    /\ pc = "clear"
    /\ saved' = NoPosition /\ cursor' = NoCursor
    /\ pc' = "fetch"
    /\ UNCHANGED <<nodes, stored, pool, startLedger, page, recent, gone, crashes>>

Consume ==
    /\ pc = "consume"
    /\ stored' = stored \cup page.fresh
    /\ pc' = "save"
    /\ UNCHANGED <<nodes, saved, pool, cursor, startLedger, page, recent, gone, crashes>>

CommittedLedger(p) == IF p.last # 0 THEN p.last ELSE p.latest

SavePosition ==
    /\ pc = "save"
    /\ saved' = [pos |-> page.to, at |-> page.at, ledger |-> CommittedLedger(page)]
    /\ cursor' = [pos |-> page.to, at |-> page.at] /\ startLedger' = 0
    /\ page' = NoPage
    /\ pc' = IF page.short THEN "sleep" ELSE "fetch"
    /\ UNCHANGED <<nodes, stored, pool, recent, gone, crashes>>

Wake ==
    /\ pc = "sleep"
    /\ pc' = IF ByCursor \/ startLedger # 0 THEN "fetch" ELSE "resolve"
    /\ UNCHANGED <<nodes, db, pool, cursor, startLedger, page, recent, gone, crashes>>

Crash ==
    /\ crashes < MaxCrashes /\ pc # "down"
    /\ crashes' = crashes + 1
    /\ Blank /\ pc' = "down"
    /\ UNCHANGED <<nodes, db, gone>>

Restart ==
    /\ pc = "down"
    /\ pc' = "resolve"
    /\ UNCHANGED <<nodes, db, pool, cursor, startLedger, page, recent, gone, crashes>>

-----------------------------------------------------------------------------

Process ==
    \/ ResolveSaved \/ ResolveStart \/ ResolveFails
    \/ FetchPage \/ FetchErrors \/ Switch \/ SwitchIsFatal \/ RetryCursor \/ RetryLedger
    \/ Recover \/ RecoverFails \/ ClearPosition
    \/ Consume \/ SavePosition \/ Wake \/ Restart

FailoverNext ==
    \/ \E q \in Provider : Advance(q) \/ Forget(q)
    \/ Process
    \/ Crash

FailoverSpec == FailoverInit /\ [][FailoverNext]_failoverVars

\* The process and its supervisor keep going.  Nothing is asked of the providers:
\* whether they answer is `dead`.
FairSpec == FailoverSpec /\ WF_failoverVars(Process)

-----------------------------------------------------------------------------
(* What failover promises. *)

Event == 1..EventsTo(MaxLedger)

TypeOK ==
    /\ dead \in Outages
    /\ tip \in [Provider -> Ledgers] /\ oldest \in [Provider -> Ledgers]
    /\ \A q \in Provider : oldest[q] <= tip[q]
    /\ stored \subseteq Event /\ gone \subseteq Event
    /\ saved \in [pos : 0..EventsTo(MaxLedger), at : 0..MaxLedger, ledger : 0..MaxLedger]
    /\ pool \in [active : Provider, errors : 0..Threshold]
    /\ pc \in {"down", "resolve", "fetch", "retryCursor", "retryLedger", "consume", "save",
               "sleep", "recover", "clear"}
    /\ cursor \in [pos : 0..EventsTo(MaxLedger), at : 0..MaxLedger]
    /\ startLedger \in 0..MaxLedger
    /\ page \in [to : 0..EventsTo(MaxLedger), at : 0..MaxLedger, last : 0..MaxLedger,
                latest : 0..MaxLedger, short : BOOLEAN, fresh : SUBSET Event]
    /\ recent \in Seq(Event) /\ Len(recent) <= Window * PageSize
    /\ crashes \in 0..MaxCrashes

\* ingest/README.md: the pool "retries a provider-local cursor before overlapping
\* from the last committed ledger".  Whichever providers served, lagged or refused,
\* no event at or before the saved position is missing unless the provider a restart
\* began at had forgotten it.
NoSilentLoss ==
    saved.at # 0 => \A e \in 1..saved.pos : e \in stored \/ e \in gone

\* RecentIds drops only what was delivered, also when an overlap or a re-index
\* serves ids out of order while the window slides.
RememberedIsStored ==
    \A i \in DOMAIN recent :
        recent[i] \in stored \/ (pc = "consume" /\ recent[i] \in page.fresh)

\* The overlap is one: the committed ledger saved with the cursor begins at or
\* before the cursor, on whichever provider each of them was read.
CommittedLedgerIsSafe ==
    saved.at # 0 => saved.ledger # 0 /\ EventsTo(saved.ledger - 1) <= saved.pos

\* What the three come to: whatever the providers do, the events below the position
\* a restart resumes from are accounted for.
FailoverLosesNothing == NoSilentLoss /\ RememberedIsStored /\ CommittedLedgerIsSafe

\* The promise of Delivery, of several nodes: events are stored at least once, a position
\* is saved only when every event before it is stored or was given up, and what is given
\* up is a prefix that a provider has forgotten, whichever of them serves, lags or refuses.
Farthest(ledger) == Max({ledger[q] : q \in Provider})
Promise == INSTANCE Delivery WITH
        closed <- EventsTo(Farthest(tip)), skipped <- 0,
        forgotten <- EventsTo(Farthest(oldest) - 1), acked <- saved.pos
DeliversAtLeastOnce == Promise!SpecOfMany

\* rpc-pool.ts 59: "failed over to ${this.providerUrl}; retrying".  The request that
\* makes the pool switch does not end the process.
FailoverRetries ==
    [][pc = "fetch" /\ pool = [active |-> 0, errors |-> Threshold - 1] /\ crashes' = crashes
          => pc' # "down"]_failoverVars

\* README: "fails over after repeated errors".  With the primary gone for good, the
\* events of a ledger every answering provider has are in the end stored or given up.
EveryEventSettles ==
    \A l \in Ledgers : (dead # {} /\ \A q \in Live : l <= tip[q]) ~> (EventsIn(l) \subseteq stored \cup gone)
=============================================================================
