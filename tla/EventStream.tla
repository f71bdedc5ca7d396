---------------------------- MODULE EventStream ----------------------------
(***************************************************************************)
(* Server-sent event streams: EventStreamHub of packages/api/src/stream.ts *)
(* and the clients that reconnect to it with Last-Event-ID.                *)
(*                                                                         *)
(* The hub is one process; what interleaves is what lies between two       *)
(* awaits: opening a stream, the shared poll, the drain of each stream,    *)
(* clients that read, stall and go away, and the indexer's inserts, here   *)
(* in the order of their ids.  All streams carry the same filter.  An      *)
(* event is its id's rank in the store.                                    *)
(***************************************************************************)
EXTENDS Pages

CONSTANTS
    Clients,        \* browsers, each with one stream at a time
    LastStreamed,   \* bound: events in the store
    Wanted,         \* the events the filter of the streams matches
    MaxStreams,     \* maxStreams
    Batch,          \* batchSize
    HighWater,      \* events a socket buffers before write() asks for a drain
    MaxDrops,       \* bound: connections that break
    Stops           \* whether the server may be shut down

ASSUME EventStreamAssumption ==
    /\ {LastStreamed, MaxStreams, Batch, HighWater} \subseteq Nat \ {0}
    /\ MaxDrops \in Nat /\ Stops \in BOOLEAN
    /\ Wanted \subseteq 1..LastStreamed /\ "none" \notin Clients

VARIABLES
    inserted,       \* the events in the store
    closed,         \* closeAll() has run
    drops,          \* connections broken so far
    leaked,         \* subscribers whose client was gone before they were added
    stage,          \* a stream: away, asked, read, open
    left,           \* the client left while subscribe() was waiting
    opening,        \* subscribe() waits for the newest id before its own drain
    lastId,         \* Subscriber.lastId
    wire, blocked,  \* written and not yet received; res.writableNeedDrain
    got,            \* events the client received, in order (history)
    since,          \* the newest event when the client last began without a
                    \* Last-Event-ID (history)
    drainPc,        \* drain() of a stream: idle, query, write; draining is not idle
    latest,         \* drain(): its latest
    drainPage, more, \* drain(): page.events, page.nextCursor
    polling, toVisit, visiting, pollLatest  \* poll(): the flag, its snapshot, its position

client   == <<stage, left, opening, since>>
socket   == <<wire, blocked, got>>
draining == <<drainPc, latest, drainPage, more>>
poll     == <<polling, toVisit, visiting, pollLatest>>
streamVars ==
    <<inserted, closed, drops, leaked, client, lastId, socket, draining, poll>>

StreamEvent == 1..LastStreamed
Newest      == NewestOf(inserted)
OpenStreams == {c \in Clients : stage[c] = "open"}
Size        == Cardinality(OpenStreams) + leaked          \* #subscribers.size

Everywhere(x) == [c \in Clients |-> x]
LastOf(list) == list[Len(list)]

StreamInit ==
    /\ inserted = {} /\ closed = FALSE /\ drops = 0 /\ leaked = 0
    /\ stage = Everywhere("away") /\ left = Everywhere(FALSE) /\ opening = Everywhere(FALSE)
    /\ since = Everywhere(0)
    /\ lastId = Everywhere(0)
    /\ wire = Everywhere(<<>>) /\ blocked = Everywhere(FALSE) /\ got = Everywhere(<<>>)
    /\ drainPc = Everywhere("idle") /\ latest = Everywhere(0)
    /\ drainPage = Everywhere(<<>>) /\ more = Everywhere(FALSE)
    /\ polling = FALSE /\ toVisit = {} /\ visiting = "none" /\ pollLatest = 0

-----------------------------------------------------------------------------
(* The indexer inserts; a client reads what was written, or its connection breaks. *)

StreamInsert(e) ==
    /\ e > Newest
    /\ inserted' = inserted \cup {e}
    /\ UNCHANGED <<closed, drops, leaked, client, lastId, socket, draining, poll>>

ReadSocket(c) ==
    /\ stage[c] = "open" /\ wire[c] # <<>>
    /\ got' = [got EXCEPT ![c] = Append(@, Head(wire[c]))]
    /\ wire' = [wire EXCEPT ![c] = Tail(@)]
    /\ blocked' = [blocked EXCEPT ![c] = @ /\ Len(wire[c]) > 1]
    /\ UNCHANGED <<inserted, closed, drops, leaked, client, lastId, draining, poll>>

\* The subscribers of cs leave the set: their drains come to nothing, and what was on
\* the wire is lost.
LeaveHub(cs) ==
    LET Reset(f, x) == [c \in Clients |-> IF c \in cs THEN x ELSE f[c]] IN
    /\ opening' = Reset(opening, FALSE) /\ lastId' = Reset(lastId, 0)
    /\ wire' = Reset(wire, <<>>) /\ blocked' = Reset(blocked, FALSE)
    /\ drainPc' = Reset(drainPc, "idle") /\ latest' = Reset(latest, 0)
    /\ drainPage' = Reset(drainPage, <<>>) /\ more' = Reset(more, FALSE)
    /\ toVisit' = toVisit \ cs
    /\ visiting' = IF visiting \in cs THEN "none" ELSE visiting
    /\ stage' = Reset(stage, "away")
    /\ UNCHANGED <<got, polling, pollLatest>>

\* The close listener of the response.
Drop(c) ==
    /\ drops < MaxDrops /\ stage[c] = "open"
    /\ drops' = drops + 1
    /\ LeaveHub({c})
    /\ UNCHANGED <<inserted, closed, leaked, left, since>>

\* The connection breaks while subscribe() waits: nobody listens yet.
DropEarly(c) ==
    /\ drops < MaxDrops /\ stage[c] \in {"asked", "read"} /\ ~left[c]
    /\ drops' = drops + 1
    /\ left' = [left EXCEPT ![c] = TRUE]
    /\ UNCHANGED <<inserted, closed, leaked, stage, opening, since, lastId, socket, draining, poll>>

\* closeAll(), from the server's close().
CloseAll ==
    /\ Stops /\ ~closed
    /\ closed' = TRUE /\ leaked' = 0
    /\ LeaveHub(OpenStreams)
    /\ UNCHANGED <<inserted, drops, left, since>>

-----------------------------------------------------------------------------
(* subscribe(): the cap is checked first; without a Last-Event-ID the newest id is *)
(* awaited before the stream is added, and in any case again before its own drain. *)

Ask(c) ==
    /\ stage[c] = "away" /\ got[c] = <<>> /\ ~closed
    /\ Size < MaxStreams
    /\ stage' = [stage EXCEPT ![c] = "asked"]
    /\ UNCHANGED <<inserted, closed, drops, leaked, left, opening, since, lastId, socket, draining,
                   poll>>

ReadNewest(c) ==
    /\ stage[c] = "asked"
    /\ stage' = [stage EXCEPT ![c] = "read"]
    /\ lastId' = [lastId EXCEPT ![c] = Newest]
    /\ since' = [since EXCEPT ![c] = Newest]
    /\ UNCHANGED <<inserted, closed, drops, leaked, left, opening, socket, draining, poll>>

AddSubscriber(c) ==
    /\ stage[c] = "read" /\ ~left[c]
    /\ stage' = [stage EXCEPT ![c] = "open"]
    /\ opening' = [opening EXCEPT ![c] = TRUE]
    /\ UNCHANGED <<inserted, closed, drops, leaked, left, since, lastId, socket, draining, poll>>

\* 'close' has fired already, so the listener attached now is never called.
SubscribeGone(c) ==
    /\ stage[c] = "read" /\ left[c]
    /\ leaked' = leaked + 1
    /\ stage' = [stage EXCEPT ![c] = "away"]
    /\ left' = [left EXCEPT ![c] = FALSE]
    /\ lastId' = [lastId EXCEPT ![c] = 0]
    /\ UNCHANGED <<inserted, closed, drops, opening, since, socket, draining, poll>>

\* With a Last-Event-ID there is nothing to wait for.
Resume(c) ==
    /\ stage[c] = "away" /\ got[c] # <<>> /\ ~closed
    /\ Size < MaxStreams
    /\ stage' = [stage EXCEPT ![c] = "open"]
    /\ opening' = [opening EXCEPT ![c] = TRUE]
    /\ lastId' = [lastId EXCEPT ![c] = LastOf(got[c])]
    /\ UNCHANGED <<inserted, closed, drops, leaked, left, since, socket, draining, poll>>

-----------------------------------------------------------------------------
(* drain(): one at a time for a stream. *)

Drain(c, newest) ==
    /\ drainPc' = [drainPc EXCEPT ![c] = "query"]
    /\ latest' = [latest EXCEPT ![c] = newest]
    /\ UNCHANGED <<drainPage, more>>

\* drain() of c returns, to poll() if that called it.
DrainReturns(c) ==
    /\ drainPc' = [drainPc EXCEPT ![c] = "idle"] /\ latest' = [latest EXCEPT ![c] = 0]
    /\ drainPage' = [drainPage EXCEPT ![c] = <<>>] /\ more' = [more EXCEPT ![c] = FALSE]
    /\ visiting' = IF visiting = c THEN "none" ELSE visiting
    /\ UNCHANGED <<polling, toVisit, pollLatest>>

\* subscribe() goes on to drain what a resuming client is owed.
FirstDrain(c) ==
    /\ opening[c]
    /\ opening' = [opening EXCEPT ![c] = FALSE]
    /\ IF Newest > 0 /\ drainPc[c] = "idle" THEN Drain(c, Newest) ELSE UNCHANGED draining
    /\ UNCHANGED <<inserted, closed, drops, leaked, stage, left, since, lastId, socket, poll>>

\* What queryEvents() finds after the position.
Pending(c) == {e \in inserted \cap Wanted : e > lastId[c]}

\* Variant: a socket that asks for a drain is written to all the same.
QueryRegardless(c) ==
    /\ drainPc[c] = "query"
    /\ \E list \in Ascending(Pending(c)) :
          /\ drainPage' = [drainPage EXCEPT ![c] = FirstOf(list, Batch)]
          /\ more' = [more EXCEPT ![c] = Len(list) > Batch]
    /\ drainPc' = [drainPc EXCEPT ![c] = "write"]
    /\ UNCHANGED <<inserted, closed, drops, leaked, client, lastId, socket, latest, poll>>

DrainQuery(c) ==
    /\ drainPc[c] = "query" /\ ~blocked[c]
    /\ \E list \in Ascending(Pending(c)) :
          /\ drainPage' = [drainPage EXCEPT ![c] = FirstOf(list, Batch)]
          /\ more' = [more EXCEPT ![c] = Len(list) > Batch]
    /\ drainPc' = [drainPc EXCEPT ![c] = "write"]
    /\ UNCHANGED <<inserted, closed, drops, leaked, client, lastId, socket, latest, poll>>

\* A slow client is skipped until its socket drains.
SkipSlow(c) ==
    /\ drainPc[c] = "query" /\ blocked[c]
    /\ DrainReturns(c)
    /\ UNCHANGED <<inserted, closed, drops, leaked, client, lastId, socket>>

Put(c) ==
    /\ wire' = [wire EXCEPT ![c] = @ \o drainPage[c]]
    /\ blocked' = [blocked EXCEPT ![c] = @ \/ Len(wire[c] \o drainPage[c]) >= HighWater]
    /\ UNCHANGED got

Passed(c) == IF drainPage[c] = <<>> THEN lastId[c] ELSE LastOf(drainPage[c])

\* Variant: the jump goes to what is newest now.
WriteJumpsToNewest(c) ==
    /\ drainPc[c] = "write"
    /\ Put(c)
    /\ IF more[c]
       THEN /\ lastId' = [lastId EXCEPT ![c] = Passed(c)]
            /\ drainPc' = [drainPc EXCEPT ![c] = "query"]
            /\ UNCHANGED <<latest, drainPage, more, poll>>
       ELSE lastId' = [lastId EXCEPT ![c] = Newest] /\ DrainReturns(c)
    /\ UNCHANGED <<inserted, closed, drops, leaked, client>>

\* The page is written; after the last one the position jumps to latest, which was
\* read before the query.
Write(c) ==
    /\ drainPc[c] = "write"
    /\ Put(c)
    /\ IF more[c]
       THEN /\ lastId' = [lastId EXCEPT ![c] = Passed(c)]
            /\ drainPc' = [drainPc EXCEPT ![c] = "query"]
            /\ UNCHANGED <<latest, drainPage, more, poll>>
       ELSE /\ lastId' = [lastId EXCEPT ![c] = Max({Passed(c), latest[c]})]
            /\ DrainReturns(c)
    /\ UNCHANGED <<inserted, closed, drops, leaked, client>>

\* The query or annotate() fails: the drain ends, the next poll tries again.
DrainFails(c) ==
    /\ drainPc[c] # "idle"
    /\ DrainReturns(c)
    /\ UNCHANGED <<inserted, closed, drops, leaked, client, lastId, socket>>

-----------------------------------------------------------------------------
(* poll(): the timer runs while there are subscribers; they are visited in turn. *)

HubPoll ==
    /\ ~polling /\ Size > 0 /\ Newest > 0
    /\ polling' = TRUE
    /\ pollLatest' = Newest
    /\ toVisit' = OpenStreams
    /\ UNCHANGED <<inserted, closed, drops, leaked, client, lastId, socket, draining,
                   visiting>>

Visit(c) ==
    /\ c \in toVisit /\ visiting = "none"
    /\ toVisit' = toVisit \ {c}
    /\ IF pollLatest > lastId[c] /\ drainPc[c] = "idle"
       THEN Drain(c, pollLatest) /\ visiting' = c
       ELSE UNCHANGED <<draining, visiting>>
    /\ UNCHANGED <<inserted, closed, drops, leaked, client, lastId, socket, polling, pollLatest>>

\* Variant: poll() returns without clearing the flag.
PollEndsPolling ==
    /\ polling /\ toVisit = {} /\ visiting = "none"
    /\ pollLatest' = 0
    /\ UNCHANGED <<inserted, closed, drops, leaked, client, lastId, socket, draining,
                   polling, toVisit, visiting>>

PollEnds ==
    /\ polling /\ toVisit = {} /\ visiting = "none"
    /\ polling' = FALSE /\ pollLatest' = 0
    /\ UNCHANGED <<inserted, closed, drops, leaked, client, lastId, socket, draining,
                   toVisit, visiting>>

-----------------------------------------------------------------------------

Hub(c) ==
    \/ ReadNewest(c) \/ AddSubscriber(c) \/ SubscribeGone(c) \/ FirstDrain(c)
    \/ DrainQuery(c) \/ SkipSlow(c) \/ Write(c) \/ Visit(c)

StreamNext ==
    \/ \E e \in StreamEvent : StreamInsert(e)
    \/ CloseAll \/ HubPoll \/ PollEnds
    \/ \E c \in Clients :
          \/ Ask(c) \/ Resume(c) \/ ReadSocket(c) \/ Drop(c) \/ DropEarly(c)
          \/ Hub(c) \/ DrainFails(c)

StreamSpec == StreamInit /\ [][StreamNext]_streamVars

\* Timers fire, promises settle, a client with an open stream reads it, and a query
\* succeeds now and then.
StreamFairSpec ==
    /\ StreamSpec
    /\ WF_streamVars(HubPoll) /\ WF_streamVars(PollEnds)
    /\ \A c \in Clients :
          /\ WF_streamVars(ReadSocket(c)) /\ WF_streamVars(Hub(c))
          /\ SF_streamVars(DrainQuery(c)) /\ SF_streamVars(Write(c))

-----------------------------------------------------------------------------
(* What a client of the stream may rely on. *)

StreamTypeOK ==
    /\ inserted \subseteq StreamEvent /\ closed \in BOOLEAN /\ polling \in BOOLEAN
    /\ drops \in 0..MaxDrops /\ leaked \in Nat
    /\ stage \in [Clients -> {"away", "asked", "read", "open"}]
    /\ left \in [Clients -> BOOLEAN] /\ opening \in [Clients -> BOOLEAN]
    /\ blocked \in [Clients -> BOOLEAN] /\ more \in [Clients -> BOOLEAN]
    /\ lastId \in [Clients -> 0..LastStreamed] /\ since \in [Clients -> 0..LastStreamed]
    /\ latest \in [Clients -> 0..LastStreamed]
    /\ drainPc \in [Clients -> {"idle", "query", "write"}]
    /\ wire \in [Clients -> Seq(StreamEvent)] /\ got \in [Clients -> Seq(StreamEvent)]
    /\ drainPage \in [Clients -> Seq(StreamEvent)]
    /\ toVisit \subseteq Clients /\ visiting \in Clients \cup {"none"}
    /\ pollLatest \in 0..LastStreamed

\* stream.ts 155-158: "latest was read before the query ran", so the position may
\* jump there.  No matching event between where the client began and the position of
\* its stream is neither received nor on its way, also after reconnecting; and a client
\* sees ascending ids, each once, because the subscribe's own drain and the poll's
\* never write the same page.
StreamIsExact ==
    \A c \in Clients :
        LET seen == got[c] \o wire[c] IN
        /\ \A i, j \in DOMAIN seen : i < j => seen[i] < seen[j]
        /\ c \in OpenStreams => \A e \in inserted \cap Wanted :
                              since[c] < e /\ e <= lastId[c] => e \in Range(seen)

\* stream.ts 30-32: "nothing is buffered, and a client that cannot keep up is skipped
\* until its socket drains": a page at most goes over the high-water mark.
BufferBounded == \A c \in Clients : Len(wire[c]) < HighWater + Batch

\* Whatever the store refuses and however slow the client reads, every matching event
\* after it began arrives, unless its stream ends first.
EveryEventArrives ==
    \A c \in Clients, e \in Wanted :
        (stage[c] = "open" /\ e \in inserted /\ e > since[c])
            ~> (e \in Range(got[c]) \/ stage[c] # "open")
=============================================================================
