----------------------------- MODULE Delivery -----------------------------
(***************************************************************************)
(* What ADR-004 promises of the indexer, without saying how: events are    *)
(* delivered to the store at least once, and a position is acknowledged    *)
(* only when everything before it has been.  The one excuse is the RPC     *)
(* node's retention: what it has forgotten may be given up.                *)
(***************************************************************************)
EXTENDS Naturals

VARIABLES
    closed,     \* events the network has closed so far: 1..closed
    skipped,    \* the leading ones nobody asked for: 1..skipped
    forgotten,  \* the leading ones the node no longer holds: 1..forgotten
    stored,     \* events in the store
    gone,       \* events given up
    acked       \* events 1..acked are acknowledged; 0 is no position

vars == <<closed, skipped, forgotten, stored, gone, acked>>

Accounted(p) == \A e \in 1..p : e <= skipped \/ e \in stored \/ e \in gone

Init ==
    /\ closed \in Nat /\ skipped \in 0..closed /\ forgotten = 0
    /\ stored = {} /\ gone = {} /\ acked = 0

\* The network closes more events; they extend the unwanted prefix only while
\* nothing wanted has been closed.
Publish ==
    /\ closed' \in Nat /\ closed' >= closed
    /\ skipped' = skipped \/ (skipped = closed /\ skipped' = closed')
    /\ UNCHANGED <<forgotten, stored, gone, acked>>

Expire ==
    /\ forgotten' \in forgotten..closed
    /\ UNCHANGED <<closed, skipped, stored, gone, acked>>

\* Storing is idempotent: events already there may be stored again.
Store ==
    /\ stored \subseteq stored' /\ stored' \subseteq stored \cup 1..closed
    /\ UNCHANGED <<closed, skipped, forgotten, gone, acked>>

GiveUp ==
    /\ gone' = gone \cup 1..forgotten
    /\ UNCHANGED <<closed, skipped, forgotten, stored, acked>>

\* The position moves forward over what is accounted for.
Acknowledge ==
    /\ acked' \in acked..closed /\ Accounted(acked')
    /\ UNCHANGED <<closed, skipped, forgotten, stored, gone>>

\* A position is dropped only when the node has forgotten all that lies before it.
Forfeit ==
    /\ acked <= forgotten
    /\ acked' = 0
    /\ UNCHANGED <<closed, skipped, forgotten, stored, gone>>

Next == Publish \/ Expire \/ Store \/ GiveUp \/ Acknowledge \/ Forfeit

Spec == Init /\ [][Next]_vars

-----------------------------------------------------------------------------
(* The same promise where several nodes serve the events or several indexers    *)
(* save their positions in one place.  `closed` and `forgotten` are then those  *)
(* of the node that has gone farthest.                                          *)

\* The node asked may have forgotten less than another.
GiveUpSome ==
    /\ \E k \in 0..forgotten : gone' = gone \cup 1..k
    /\ UNCHANGED <<closed, skipped, forgotten, stored, acked>>

\* An indexer that is behind takes the position back, to any place that is accounted
\* for; so does a node that is behind and refuses the position.
AcknowledgeAny ==
    /\ acked' \in 0..closed /\ Accounted(acked')
    /\ UNCHANGED <<closed, skipped, forgotten, stored, gone>>

NextOfMany == Publish \/ Expire \/ Store \/ GiveUpSome \/ AcknowledgeAny

SpecOfMany == Init /\ [][NextOfMany]_vars
=============================================================================
