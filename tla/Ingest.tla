------------------------------ MODULE Ingest ------------------------------
(***************************************************************************)
(* `lens index` against one RPC provider: the event poller of              *)
(* packages/ingest/src/poller.ts, the RPC client it pages through, the     *)
(* consumer loop of packages/cli/src/indexer.ts and the SQLite file that   *)
(* holds both the events and the resume position.                          *)
(*                                                                         *)
(* The matching contract events of the network are numbered 1, 2, 3, ...   *)
(* in ledger order; upTo[l] is how many of them ledgers 1..l hold.  A page *)
(* is therefore an interval of numbers, and an opaque RPC cursor is the    *)
(* number of events before it together with the ledger it points into,     *)
(* which is what the node compares with its retention window.              *)
(***************************************************************************)
EXTENDS Naturals, FiniteSets

CONSTANTS
    MaxLedger,      \* bound: ledgers the network closes
    MaxPerLedger,   \* bound: matching events in one ledger
    MaxCrashes,     \* bound: times the process is killed
    PageSize,       \* --page-size
    Window,         \* RECENT_ID_WINDOW_PAGES
    StartLedger,    \* --start-ledger, 0 when not given
    EndLedger,      \* PollerOptions.endLedger (lens-ingest), 0 when not given
    Once,           \* --once
    RpcMayFail      \* whether a request to the node may go unanswered

ASSUME IngestAssumption ==
    /\ MaxLedger \in Nat \ {0}
    /\ MaxPerLedger \in Nat
    /\ MaxCrashes \in Nat
    /\ PageSize \in Nat \ {0}
    /\ Window \in Nat \ {0}
    /\ StartLedger \in 0..MaxLedger
    /\ EndLedger \in 0..MaxLedger
    /\ EndLedger # 0 => StartLedger <= EndLedger
    /\ Once \in BOOLEAN /\ RpcMayFail \in BOOLEAN

VARIABLES
    tip, oldest, upTo,          \* the node: latest and oldest ledger, events per ledger
    stored, saved,              \* the database: events rows, stream_state row
    pc, cursor, startLedger,    \* the process: control point, position of the stream
    page, seen,                 \* the page in hand, the RecentIds window
    gone, crashes               \* history: events given up as unrecoverable, kills so far

node    == <<tip, oldest, upTo>>
db      == <<stored, saved>>
process == <<pc, cursor, startLedger, page, seen>>
vars    == <<node, db, process, gone, crashes>>

Ledgers == 1..MaxLedger

\* Event e is in ledger l.
InLedger(e, l) == upTo[l - 1] < e /\ e <= upTo[l]

\* Events the operator asked for: those from --start-ledger on.
Wanted(e) == StartLedger = 0 \/ e > upTo[StartLedger - 1]

\* Events the node no longer holds.
Forgotten == 1..upTo[oldest - 1]

\* No cursor.  For the saved row it is the tombstone clear() writes (cursor '',
\* ledger 0), which load() reads as "no position".
NoCursor   == [pos |-> 0, at |-> 0]
NoPosition == [pos |-> 0, at |-> 0, ledger |-> 0]
NoPage     == [from |-> 0, to |-> 0, at |-> 0, last |-> 0, latest |-> 0, fresh |-> {}]

CaughtUp(p) == p.to - p.from < PageSize

\* Variant: the dedup window outlives the stream it belongs to.
BlankKeepsSeen ==
    /\ cursor' = NoCursor
    /\ startLedger' = 0
    /\ page' = NoPage
    /\ seen' = seen

\* What a process that is not running holds.
Blank ==
    /\ cursor' = NoCursor
    /\ startLedger' = 0
    /\ page' = NoPage
    /\ seen' = {}

Init ==
    /\ tip = 1 /\ oldest = 1
    /\ \E n \in 0..MaxPerLedger : upTo = [l \in 0..MaxLedger |-> IF l = 0 THEN 0 ELSE n]
    /\ stored = {} /\ saved = NoPosition
    /\ pc = "resolve" /\ cursor = NoCursor /\ startLedger = 0
    /\ page = NoPage /\ seen = {}
    /\ gone = {} /\ crashes = 0

-----------------------------------------------------------------------------
(* The network and the node. *)

LedgerCloses ==
    /\ tip < MaxLedger
    /\ tip' = tip + 1
    /\ \E n \in 0..MaxPerLedger :
          upTo' = [l \in 0..MaxLedger |-> IF l > tip THEN upTo[tip] + n ELSE upTo[l]]
    /\ UNCHANGED <<oldest, db, process, gone, crashes>>

NodeForgets ==
    /\ oldest < tip
    /\ oldest' = oldest + 1
    /\ UNCHANGED <<tip, upTo, db, process, gone, crashes>>

-----------------------------------------------------------------------------
(* #resolveStart: a saved position wins; otherwise --start-ledger, or the     *)
(* oldest ledger, clamped into the window retention() reports.  Events below  *)
(* that window are given up.                                                  *)

Clamp(l) == IF l < oldest THEN oldest ELSE IF l > tip THEN tip ELSE l

ResolveSaved ==
    /\ pc = "resolve" /\ saved.at # 0
    /\ cursor' = [pos |-> saved.pos, at |-> saved.at]
    /\ pc' = "fetch"
    /\ UNCHANGED <<node, db, startLedger, page, seen, gone, crashes>>

ResolveStart ==
    /\ pc = "resolve" /\ saved.at = 0
    /\ startLedger' = Clamp(StartLedger)
    /\ gone' = gone \cup Forgotten
    /\ pc' = "fetch"
    /\ UNCHANGED <<node, db, cursor, page, seen, crashes>>

-----------------------------------------------------------------------------
(* One turn of stream(): ask for a page.  Only a request by ledger carries     *)
(* endLedger; one by cursor does not.                                          *)

ByCursor == cursor.at # 0
From     == IF ByCursor THEN cursor.pos ELSE upTo[startLedger - 1]
LastServed ==
    IF ~ByCursor /\ EndLedger # 0 /\ EndLedger < tip THEN EndLedger ELSE tip

\* The node refuses a position outside [oldest, tip], and a range that ends before
\* it starts.
InRange ==
    IF ByCursor THEN cursor.at \in oldest..tip
    ELSE startLedger \in oldest..tip /\ (EndLedger # 0 => startLedger <= EndLedger)

\* RecentIds: the ids last added, up to the capacity.  Ids arrive in ledger
\* order here, so the oldest entries are the smallest.
Capacity == Window * PageSize
Remember(ids) == {e \in ids : Cardinality({x \in ids : x > e}) < Capacity}

\* The page that follows From: full and ending on its last event, or short and
\* ending where the node's scan ended.
PageEnd == IF From + PageSize <= upTo[LastServed] THEN From + PageSize ELSE upTo[LastServed]
LastLedger == IF PageEnd = From THEN {0} ELSE {l \in Ledgers : InLedger(PageEnd, l)}

FetchPage ==
    /\ pc = "fetch" /\ InRange
    /\ LET fresh == ((From + 1)..PageEnd) \ seen
       IN  /\ \E last \in LastLedger :
                 page' = [from |-> From, to |-> PageEnd, last |-> last, latest |-> tip,
                          at |-> IF PageEnd - From < PageSize THEN LastServed ELSE last,
                          fresh |-> fresh]
           /\ seen' = Remember(seen \cup fresh)
           /\ pc' = IF fresh = {} THEN "save" ELSE "consume"
    /\ UNCHANGED <<node, db, cursor, startLedger, gone, crashes>>

\* A RetryExhaustedError, from this request or from the retention() call that has
\* to find a start ledger, is slept on and the turn starts again.  (The call that
\* only warns about a saved position swallows its failure.)
RpcUnavailable ==
    /\ RpcMayFail
    /\ pc = "fetch" \/ (pc = "resolve" /\ saved.at = 0)
    /\ pc' = "sleep"
    /\ UNCHANGED <<node, db, cursor, startLedger, page, seen, gone, crashes>>

\* Variant: any failed request by cursor counts as out of range.
AnyFailureRecovers ==
    /\ pc = "fetch" /\ ByCursor
    /\ pc' = "recover"
    /\ UNCHANGED <<node, db, cursor, startLedger, page, seen, gone, crashes>>

\* The node refuses the cursor: isCursorOutOfRange starts the recovery.
CursorRefused ==
    /\ pc = "fetch" /\ ByCursor /\ ~InRange
    /\ pc' = "recover"
    /\ UNCHANGED <<node, db, cursor, startLedger, page, seen, gone, crashes>>

\* The node refuses a start ledger it has forgotten since: not a cursor, so the
\* error is rethrown and the process exits.
StartRefused ==
    /\ pc = "fetch" /\ ~ByCursor /\ ~InRange
    /\ Blank /\ pc' = "down"
    /\ UNCHANGED <<node, db, gone, crashes>>

\* Variant: the recovery goes on from the latest ledger.
RecoverAtTip ==
    /\ pc = "recover"
    /\ startLedger' = tip
    /\ gone' = gone \cup Forgotten
    /\ pc' = "clear"
    /\ UNCHANGED <<node, db, cursor, page, seen, crashes>>

\* The recovery: read the window, then drop the saved position, then go on from
\* the oldest ledger read.
Recover ==
    /\ pc = "recover"
    /\ startLedger' = oldest
    /\ gone' = gone \cup Forgotten
    /\ pc' = "clear"
    /\ UNCHANGED <<node, db, cursor, page, seen, crashes>>

\* retention() is not guarded inside the catch block: its failure ends the process.
RecoverFails ==
    /\ RpcMayFail
    /\ pc = "recover"
    /\ Blank /\ pc' = "down"
    /\ UNCHANGED <<node, db, gone, crashes>>

\* Variant: the stream keeps the cursor the node has just refused.
ClearKeepsCursor ==
    /\ pc = "clear"
    /\ saved' = NoPosition
    /\ pc' = "fetch"
    /\ UNCHANGED <<node, stored, cursor, startLedger, page, seen, gone, crashes>>

ClearPosition ==
    /\ pc = "clear"
    /\ saved' = NoPosition
    /\ cursor' = NoCursor
    /\ pc' = "fetch"
    /\ UNCHANGED <<node, stored, startLedger, page, seen, gone, crashes>>

-----------------------------------------------------------------------------
(* The consumer's loop body: one insertEvents transaction, then --once may     *)
(* break out, which ends the generator before the position is saved.           *)

\* Variant: a failing insert is logged and the loop goes on.
ConsumeSwallowsFailure ==
    /\ pc = "consume"
    /\ stored' \in {stored, stored \cup page.fresh}
    /\ pc' = IF Once /\ CaughtUp(page) THEN "done" ELSE "save"
    /\ UNCHANGED <<node, saved, cursor, startLedger, page, seen, gone, crashes>>

Consume ==
    /\ pc = "consume"
    /\ stored' = stored \cup page.fresh
    /\ pc' = IF Once /\ CaughtUp(page) THEN "done" ELSE "save"
    /\ UNCHANGED <<node, saved, cursor, startLedger, page, seen, gone, crashes>>

\* Variants: commit the ledger after the tip, or the tip whatever the page held.
LedgerAfterTip(p) == IF p.last # 0 THEN p.last ELSE p.latest + 1
LatestLedger(p)   == p.latest

\* The ledger committed with the cursor: the last event's, or the latest ledger of
\* an empty page.
CommittedLedger(p) == IF p.last # 0 THEN p.last ELSE p.latest

\* Variant: the position is written only when a short page says "caught up".
PositionAtTip(p) ==
    IF CaughtUp(p) THEN [pos |-> p.to, at |-> p.at, ledger |-> CommittedLedger(p)] ELSE saved

Position(p) == [pos |-> p.to, at |-> p.at, ledger |-> CommittedLedger(p)]

\* The consumer asked for more: save the position, then end a bounded run, idle
\* at the tip, or go on.
SavePosition ==
    /\ pc = "save"
    /\ saved' = Position(page)
    /\ cursor' = [pos |-> page.to, at |-> page.at]
    /\ startLedger' = 0
    /\ page' = NoPage
    /\ pc' = IF ~CaughtUp(page) THEN "fetch" ELSE IF EndLedger # 0 THEN "done" ELSE "sleep"
    /\ UNCHANGED <<node, stored, seen, gone, crashes>>

Wake ==
    /\ pc = "sleep"
    /\ pc' = IF ByCursor \/ startLedger # 0 THEN "fetch" ELSE "resolve"
    /\ UNCHANGED <<node, db, cursor, startLedger, page, seen, gone, crashes>>

-----------------------------------------------------------------------------
(* A kill at any point, or an error nothing catches (a failing insert, an RPC  *)
(* error that is not retryable); the supervisor starts the process again.      *)

Crash ==
    /\ crashes < MaxCrashes
    /\ pc \notin {"down", "done"}
    /\ crashes' = crashes + 1
    /\ Blank /\ pc' = "down"
    /\ UNCHANGED <<node, db, gone>>

Restart ==
    /\ pc = "down"
    /\ pc' = "resolve"
    /\ UNCHANGED <<node, db, cursor, startLedger, page, seen, gone, crashes>>

-----------------------------------------------------------------------------

Next ==
    \/ LedgerCloses \/ NodeForgets
    \/ ResolveSaved \/ ResolveStart
    \/ FetchPage \/ RpcUnavailable \/ CursorRefused \/ StartRefused
    \/ Recover \/ RecoverFails \/ ClearPosition
    \/ Consume \/ SavePosition \/ Wake
    \/ Crash \/ Restart

Spec == Init /\ [][Next]_vars

\* The steps the process and its supervisor take for themselves are weakly fair.
\* A request to the node may fail any number of times, but not for ever.
Fairness ==
    /\ WF_vars(ResolveSaved) /\ SF_vars(ResolveStart)
    /\ SF_vars(FetchPage) /\ SF_vars(CursorRefused) /\ SF_vars(StartRefused)
    /\ SF_vars(Recover) /\ WF_vars(ClearPosition)
    /\ WF_vars(Consume) /\ WF_vars(SavePosition) /\ WF_vars(Wake) /\ WF_vars(Restart)

FairSpec == Spec /\ Fairness

-----------------------------------------------------------------------------
(* What the pipeline promises. *)

Event == 1..(MaxLedger * MaxPerLedger)

\* The state stays within the values the code can give it; a process that is not
\* running holds nothing.
TypeOK ==
    /\ tip \in Ledgers /\ oldest \in Ledgers /\ oldest <= tip
    /\ upTo \in [0..MaxLedger -> Nat]
    /\ stored \subseteq Nat
    /\ saved \in [pos : Nat, at : 0..MaxLedger, ledger : 0..MaxLedger]
    /\ pc \in {"down", "resolve", "fetch", "consume", "save", "sleep", "recover", "clear", "done"}
    /\ cursor \in [pos : Nat, at : 0..MaxLedger]
    /\ startLedger \in 0..MaxLedger
    /\ page \in [from : Nat, to : Nat, at : 0..MaxLedger, last : 0..MaxLedger,
                 latest : 0..MaxLedger, fresh : SUBSET Nat]
    /\ seen \subseteq Nat
    /\ gone \subseteq Nat
    /\ crashes \in 0..MaxCrashes

\* poller.ts, class comment: "a crash mid-write replays the last batch rather
\* than losing it".  Every wanted event at or before the saved position is in the
\* database, unless the node had already forgotten it when the stream had to
\* (re)start from a ledger.
NoSilentLoss ==
    saved.at # 0 =>
        \A e \in 1..saved.pos : Wanted(e) => e \in stored \/ e \in gone

\* RecentIds drops an id only because it was delivered before.  An id it remembers
\* is in the database or in the batch the consumer is working on, so dropping a
\* repeat never drops an event.
RememberedIsStored ==
    \A e \in seen : e \in stored \/ (pc = "consume" /\ e \in page.fresh)

\* RECENT_ID_WINDOW_PAGES and ADR-004: what a restart repeats is the batch that was
\* in flight.  No stored event lies more than one page beyond the saved position.
ReplayIsOnePage ==
    saved.at # 0 => \A e \in stored : e <= saved.pos + PageSize

\* The committed ledger saved beside the cursor, which a failover restarts from
\* "with overlap": no event before that ledger is still to be fetched.
CommittedLedgerIsSafe ==
    saved.at # 0 => upTo[saved.ledger - 1] <= saved.pos

\* isCursorOutOfRange is "deliberately narrow, because the recovery path is
\* destructive": the saved position is dropped only once the node has really
\* forgotten the ledger it points into.
ClearedOnlyWhenForgotten ==
    [][(saved.at # 0 /\ saved'.at = 0) => saved.at < oldest]_vars

\* An event that was closed is in the end stored, or given up because the node
\* forgot it first: no interleaving of crashes, failed requests, restarts and
\* pruning wedges the stream.
EveryEventSettles ==
    \A e \in Event :
        (e <= upTo[tip] /\ Wanted(e)) ~> (e \in stored \/ e \in gone)

\* PollerOptions.endLedger: "Last ledger to read, inclusive".
NothingPastEnd ==
    EndLedger # 0 => \A e \in stored : e <= upTo[EndLedger]

-----------------------------------------------------------------------------
(* The indexer implements the delivery promise: its acknowledgement is the     *)
(* saved stream_state row, its store the events table.                         *)

D == INSTANCE Delivery WITH
        closed    <- upTo[tip],
        skipped   <- IF StartLedger = 0 THEN 0 ELSE upTo[StartLedger - 1],
        forgotten <- upTo[oldest - 1],
        acked     <- saved.pos

\* ADR-004: "Advance the cursor only after the consumer accepts the next page."
\* Every step of the pipeline, crashes included, is a step the promise allows.
AtLeastOnce == D!Spec
=============================================================================
