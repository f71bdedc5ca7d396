----------------------------- MODULE Webhooks -----------------------------
(***************************************************************************)
(* Webhook subscriptions of packages/api/src/webhooks.ts: registration,    *)
(* the dispatcher that polls the store for each subscription, deliveries   *)
(* with retries, rate limits and dead letters, removal and shutdown.       *)
(*                                                                         *)
(* One process runs it all, so what interleaves is what lies between two   *)
(* awaits.  Every subscription here matches every event and targets one    *)
(* host.  An event is its id's rank in the store's order.                  *)
(***************************************************************************)
EXTENDS Pages

CONSTANTS
    Subs,           \* subscriptions clients try to register
    Pumps,          \* bound: activations of pump() for one subscription at a time
    MaxEvent,       \* bound: events in the store
    InOrder,        \* whether events are inserted in the order of their ids
    MaxSubs,        \* maxSubscriptionsPerHost (or maxSubscriptions, if smaller)
    MaxAttempts,    \* maxAttempts
    Batch,          \* batchSize
    Burst           \* capacity of the rate limiters

ASSUME WebhooksAssumption ==
    /\ {MaxEvent, MaxSubs, MaxAttempts, Batch, Burst} \subseteq Nat \ {0}
    /\ InOrder \in BOOLEAN /\ "host" \notin Subs

VARIABLES
    inserted,       \* the events in the store
    stopped,        \* WebhookManager.stopped
    tokens,         \* of each subscription's limiter and of the host's
    phase,          \* a subscription: none, checked, read, registered, removed
    since,          \* the newest event when it registered (history)
    cursor, busy,   \* Subscription.cursor and .busy
    pc,             \* a pump: idle, query, next, throttle, post, backoff
    page, more,     \* a pump: the events of its page still to deliver, page.nextCursor
    attempt,        \* a pump: the attempt of deliver() it is at
    log             \* events delivered or dead-lettered, in order (history)

registry == <<phase, since>>
pumping  == <<pc, page, more, attempt>>
vars     == <<inserted, stopped, tokens, registry, cursor, busy, pumping, log>>

Event   == 1..MaxEvent
Buckets == Subs \cup {"host"}
Held    == {s \in Subs : phase[s] = "registered"}
Newest  == NewestOf(inserted)

\* deliver() and pump() give up on a removed subscription or a stopped manager.
Over(s) == stopped \/ phase[s] = "removed"

Init ==
    /\ inserted = {} /\ stopped = FALSE
    /\ tokens = [b \in Buckets |-> Burst]
    /\ phase = [s \in Subs |-> "none"] /\ since = [s \in Subs |-> 0]
    /\ cursor = [s \in Subs |-> 0] /\ busy = [s \in Subs |-> FALSE]
    /\ pc = [s \in Subs |-> [k \in Pumps |-> "idle"]]
    /\ page = [s \in Subs |-> [k \in Pumps |-> <<>>]]
    /\ more = [s \in Subs |-> [k \in Pumps |-> FALSE]]
    /\ attempt = [s \in Subs |-> [k \in Pumps |-> 0]]
    /\ log = [s \in Subs |-> <<>>]

-----------------------------------------------------------------------------
(* The indexer writes, time refills the buckets, the operator stops the server. *)

Insert(e) ==
    /\ e \notin inserted /\ (InOrder => e > Newest)
    /\ inserted' = inserted \cup {e}
    /\ UNCHANGED <<stopped, tokens, registry, cursor, busy, pumping, log>>

Refill(b) ==
    /\ tokens[b] < Burst
    /\ tokens' = [tokens EXCEPT ![b] = @ + 1]
    /\ UNCHANGED <<inserted, stopped, registry, cursor, busy, pumping, log>>

Stop ==
    /\ ~stopped
    /\ stopped' = TRUE
    /\ UNCHANGED <<inserted, tokens, registry, cursor, busy, pumping, log>>

-----------------------------------------------------------------------------
(* register(): the caps are checked, then the newest event is awaited, then the *)
(* subscription is added.                                                       *)

RegisterCheck(s) ==
    /\ phase[s] = "none" /\ ~stopped
    /\ Cardinality(Held) < MaxSubs
    /\ phase' = [phase EXCEPT ![s] = "checked"]
    /\ UNCHANGED <<inserted, stopped, tokens, since, cursor, busy, pumping, log>>

RegisterRead(s) ==
    /\ phase[s] = "checked"
    /\ since' = [since EXCEPT ![s] = Newest]
    /\ cursor' = [cursor EXCEPT ![s] = Newest]
    /\ phase' = [phase EXCEPT ![s] = "read"]
    /\ UNCHANGED <<inserted, stopped, tokens, busy, pumping, log>>

RegisterAdd(s) ==
    /\ phase[s] = "read"
    /\ phase' = [phase EXCEPT ![s] = "registered"]
    /\ UNCHANGED <<inserted, stopped, tokens, since, cursor, busy, pumping, log>>

RemoveHook(s) ==
    /\ phase[s] = "registered"
    /\ phase' = [phase EXCEPT ![s] = "removed"]
    /\ UNCHANGED <<inserted, stopped, tokens, since, cursor, busy, pumping, log>>

-----------------------------------------------------------------------------
(* pump(): one activation k at a time, from the timer or from pollOnce().       *)

Goto(s, k, label) == pc' = [pc EXCEPT ![s][k] = label]

Pump(s, k) ==
    /\ pc[s][k] = "idle" /\ phase[s] = "registered" /\ ~stopped /\ ~busy[s]
    /\ busy' = [busy EXCEPT ![s] = TRUE]
    /\ Goto(s, k, "query")
    /\ UNCHANGED <<inserted, stopped, tokens, registry, cursor, page, more, attempt, log>>

Leave(s, k) ==
    /\ busy' = [busy EXCEPT ![s] = FALSE]
    /\ page' = [page EXCEPT ![s][k] = <<>>]
    /\ more' = [more EXCEPT ![s][k] = FALSE]
    /\ attempt' = [attempt EXCEPT ![s][k] = 0]
    /\ Goto(s, k, "idle")

\* The events after the cursor.
Pending(s) == {e \in inserted : e > cursor[s]}

Query(s, k) ==
    /\ pc[s][k] = "query"
    /\ \E list \in Ascending(Pending(s)) :
          /\ page' = [page EXCEPT ![s][k] = FirstOf(list, Batch)]
          /\ more' = [more EXCEPT ![s][k] = Len(list) > Batch]
    /\ Goto(s, k, "next")
    /\ UNCHANGED <<inserted, stopped, tokens, registry, cursor, busy, attempt, log>>

\* A failing query is logged and ends the activation.
QueryFails(s, k) ==
    /\ pc[s][k] = "query"
    /\ Leave(s, k)
    /\ UNCHANGED <<inserted, stopped, tokens, registry, cursor, log>>

\* The next event of the page, the next page, or the end.
NextEvent(s, k) ==
    /\ pc[s][k] = "next"
    /\ IF page[s][k] # <<>> /\ ~Over(s)
       THEN /\ attempt' = [attempt EXCEPT ![s][k] = 1]
            /\ Goto(s, k, "throttle")
            /\ UNCHANGED <<busy, page, more>>
       ELSE IF page[s][k] = <<>> /\ more[s][k]
       THEN Goto(s, k, "query") /\ UNCHANGED <<busy, page, more, attempt>>
       ELSE Leave(s, k)
    /\ UNCHANGED <<inserted, stopped, tokens, registry, cursor, log>>

\* Back in the loop after deliver(): the cursor moves, whatever it did.
Delivered(s, k) ==
    /\ cursor' = [cursor EXCEPT ![s] = Head(page[s][k])]
    /\ page' = [page EXCEPT ![s][k] = Tail(@)]
    /\ attempt' = [attempt EXCEPT ![s][k] = 0]
    /\ Goto(s, k, "next")

\* deliver() returns early from a wait when there is no point in going on.
Abandon(s, k) ==
    /\ pc[s][k] \in {"throttle", "backoff"} /\ Over(s)
    /\ Delivered(s, k)
    /\ UNCHANGED <<inserted, stopped, tokens, registry, busy, more, log>>

\* Variant: the wait for a token does not look at removed or stopped.
ThrottleRegardless(s, k) ==
    /\ pc[s][k] = "throttle"
    /\ tokens[s] > 0 /\ tokens["host"] > 0
    /\ tokens' = [tokens EXCEPT ![s] = @ - 1, !["host"] = @ - 1]
    /\ Goto(s, k, "post")
    /\ UNCHANGED <<inserted, stopped, registry, cursor, busy, page, more, attempt, log>>

\* throttle(): wait until both buckets have a token and take one from each; the
\* request goes out in the same turn.
Throttle(s, k) ==
    /\ pc[s][k] = "throttle" /\ ~Over(s)
    /\ tokens[s] > 0 /\ tokens["host"] > 0
    /\ tokens' = [tokens EXCEPT ![s] = @ - 1, !["host"] = @ - 1]
    /\ Goto(s, k, "post")
    /\ UNCHANGED <<inserted, stopped, registry, cursor, busy, page, more, attempt, log>>

Record(s, k) == log' = [log EXCEPT ![s] = Append(@, Head(page[s][k]))]

\* A 2xx, or a status no retry changes: delivered, or dead-lettered at once.
PostSettles(s, k) ==
    /\ pc[s][k] = "post"
    /\ Record(s, k)
    /\ Delivered(s, k)
    /\ UNCHANGED <<inserted, stopped, tokens, registry, busy, more>>

\* Variant: the last failed attempt goes unrecorded.
PostFailsSilently(s, k) ==
    /\ pc[s][k] = "post"
    /\ IF attempt[s][k] < MaxAttempts
       THEN Goto(s, k, "backoff") /\ UNCHANGED <<cursor, page, attempt, log>>
       ELSE Delivered(s, k) /\ UNCHANGED log
    /\ UNCHANGED <<inserted, stopped, tokens, registry, busy, more>>

\* A 5xx, 408 or 429, a timeout, a connection error: another attempt after a pause,
\* or after the last one the dead-letter list.
PostFails(s, k) ==
    /\ pc[s][k] = "post"
    /\ IF attempt[s][k] < MaxAttempts
       THEN Goto(s, k, "backoff") /\ UNCHANGED <<cursor, page, attempt, log>>
       ELSE Record(s, k) /\ Delivered(s, k)
    /\ UNCHANGED <<inserted, stopped, tokens, registry, busy, more>>

\* Variant: a retry counts as the first attempt.
RetryForgets(s, k) ==
    /\ pc[s][k] = "backoff" /\ ~Over(s)
    /\ attempt' = [attempt EXCEPT ![s][k] = 1]
    /\ Goto(s, k, "throttle")
    /\ UNCHANGED <<inserted, stopped, tokens, registry, cursor, busy, page, more, log>>

Retry(s, k) ==
    /\ pc[s][k] = "backoff" /\ ~Over(s)
    /\ attempt' = [attempt EXCEPT ![s][k] = @ + 1]
    /\ Goto(s, k, "throttle")
    /\ UNCHANGED <<inserted, stopped, tokens, registry, cursor, busy, page, more, log>>

-----------------------------------------------------------------------------

Step(s, k) ==
    \/ Query(s, k) \/ QueryFails(s, k) \/ NextEvent(s, k)
    \/ Abandon(s, k) \/ Throttle(s, k)
    \/ PostSettles(s, k) \/ PostFails(s, k) \/ Retry(s, k)

Next ==
    \/ \E e \in Event : Insert(e)
    \/ \E b \in Buckets : Refill(b)
    \/ Stop
    \/ \E s \in Subs : \/ RegisterCheck(s) \/ RegisterRead(s) \/ RegisterAdd(s) \/ RemoveHook(s)
                       \/ \E k \in Pumps : Pump(s, k) \/ Step(s, k)

Spec == Init /\ [][Next]_vars

\* Timers fire, requests end by an answer or their timeout, buckets refill, and the
\* store answers a query now and then.
FairSpec ==
    /\ Spec
    /\ \A b \in Buckets : WF_vars(Refill(b))
    /\ \A s \in Subs :
          /\ WF_vars(\E k \in Pumps : Pump(s, k))
          /\ \A k \in Pumps : SF_vars(Query(s, k)) /\ WF_vars(Step(s, k))

-----------------------------------------------------------------------------
(* What a subscriber may rely on. *)

Handled(s) == Range(log[s])

TypeOK ==
    /\ inserted \subseteq Event /\ stopped \in BOOLEAN
    /\ tokens \in [Buckets -> 0..Burst]
    /\ phase \in [Subs -> {"none", "checked", "read", "registered", "removed"}]
    /\ since \in [Subs -> 0..MaxEvent] /\ cursor \in [Subs -> 0..MaxEvent]
    /\ busy \in [Subs -> BOOLEAN]
    /\ pc \in [Subs -> [Pumps -> {"idle", "query", "next", "throttle", "post", "backoff"}]]
    /\ more \in [Subs -> [Pumps -> BOOLEAN]]
    /\ attempt \in [Subs -> [Pumps -> 0..MaxAttempts]]
    /\ page \in [Subs -> [Pumps -> Seq(Event)]] /\ log \in [Subs -> Seq(Event)]

\* webhooks.ts, header: "A cursor only advances once an event is delivered or
\* dead-lettered, so nothing is skipped".  While a subscription is served, every
\* event stored since it registered and not past its cursor has been handled.
NothingSkipped ==
    \A s \in Held : ~stopped =>
        \A e \in inserted : since[s] < e /\ e <= cursor[s] => e \in Handled(s)

\* Events reach a subscriber in order and each is settled once, whatever starts
\* pump() while another activation waits for an answer.
InOrderOnce ==
    \A s \in Subs : \A i, j \in DOMAIN log[s] : i < j => log[s][i] < log[s][j]

DeliveriesAreExact == NothingSkipped /\ InOrderOnce

\* "Deliveries to one subscription and to one host are rate limited no matter how
\* many events or retries are pending", and deleting a webhook or stopping the server
\* stops them: an attempt takes a token from both buckets, and none begins afterwards,
\* also from an activation that was waiting for a token or pausing.
AttemptAllowed ==
    \A s \in Subs, k \in Pumps :
        pc[s][k] # "post" /\ pc'[s][k] = "post" =>
           tokens'[s] < tokens[s] /\ tokens'["host"] < tokens["host"] /\ ~Over(s)
AttemptsAreAllowed == [][AttemptAllowed]_vars

\* Every event stored after registration is in the end delivered or dead-lettered,
\* unless the subscription or the server goes first.
EveryEventHandled ==
    \A s \in Subs, e \in Event :
        (phase[s] = "registered" /\ e \in inserted /\ e > since[s])
            ~> (e \in Handled(s) \/ Over(s))
=============================================================================
