------------------------------ MODULE GraphQL ------------------------------
(***************************************************************************)
(* packages/api/src/graphql.ts: a document is analysed before anything     *)
(* touches the store, and rejected when it is too deep or its estimated    *)
(* cost too high; then its fields resolve concurrently, list items         *)
(* included, and a failure makes the nearest nullable field null.          *)
(*                                                                         *)
(* A document is its operation's selections, fragments and variables       *)
(* expanded: nodes with an id, in document order, and the ids of the nodes *)
(* inside.  It is valid, but a limit is any integer: the analysis caps it  *)
(* from above, and one out of range is refused when its field resolves.    *)
(***************************************************************************)
EXTENDS Integers, Sequences, FiniteSets

CONSTANTS Selection,        \* a node: [key, field, limit, included, kids]
          Documents,        \* each the ids of all its nodes
          MaxDepth, MaxComplexity,
          NoLimit,          \* no limit given, or null
          DefaultLimit,     \* DEFAULT_QUERY_LIMIT
          MaxLimit,         \* MAX_QUERY_LIMIT
          ContractsLimit,   \* what listContracts() returns at most, asked for no limit
          TopicSize         \* what an event is taken to carry in topics

Nodes == DOMAIN Selection
Node == [key : STRING, field : STRING, limit : Int \cup {NoLimit}, included : BOOLEAN,
         kids : SUBSET Nodes]
Inside(same) == UNION {Selection[j].kids : j \in same}
ASSUME GqlAssumption ==
    /\ NoLimit \notin Int /\ Selection \in Seq(Node)
    /\ \A i \in Nodes : \A k \in Selection[i].kids : k > i     \* it opens before what is inside
    /\ \A d \in Documents : d \subseteq Nodes /\ Inside(d) \subseteq d
    /\ {MaxDepth, MaxComplexity, DefaultLimit, MaxLimit, ContractsLimit, TopicSize} \subseteq Nat

VARIABLES doc,
          phase,            \* asked, rejected, running, answered
          running,          \* the fields that are being resolved
          nulled,           \* paths that became null; <<>> is data itself
          touched           \* fields resolved or being resolved (history)
gqlVars == <<doc, phase, running, nulled, touched>>

\* A field of the schema.  size: "limit", "parent" or "topics"; default: a list without limit.
Leaf == [type |-> "scalar", list |-> FALSE, nullable |-> FALSE, paged |-> FALSE, size |-> "one",
         default |-> DefaultLimit]
One(type) == [Leaf EXCEPT !.type = type]
Nullable(type) == [One(type) EXCEPT !.nullable = TRUE]
Paged == [One("EventPage") EXCEPT !.paged = TRUE]
Many(type, size) == [One(type) EXCEPT !.list = TRUE, !.size = size]
Schema ==
    [Query |-> [events |-> Paged, event |-> Nullable("Event"),
                contracts |-> [Many("Contract", "limit") EXCEPT !.default = ContractsLimit]],
     EventPage |-> [events |-> Many("Event", "parent"), total |-> Leaf,
                    nextCursor |-> Nullable("scalar")],
     Event |-> [id |-> Leaf, topics |-> Many("DecodedValue", "topics"), contract |-> Nullable("Contract")],
     DecodedValue |-> [value |-> Nullable("scalar")],
     Contract |-> [contractId |-> Leaf, topics |-> Many("Topic", "limit"), events |-> Paged],
     Topic |-> [topic |-> Leaf]]
Def(type, field) == IF field \in DOMAIN Schema[type] THEN Schema[type][field] ELSE Leaf   \* __typename

\* collectFields: what @skip leaves, merged by response key; the first one's arguments count.
Included(sels) == {i \in sels : Selection[i].included}
Merged(sels, i) == {j \in sels : Selection[j].key = Selection[i].key}
Earliest(same) == CHOOSE i \in same : \A j \in same : i <= j
Outermost(d) == d \ Inside(d)
\* The field that the i-th selection is part of.  A path is made of fields and of list items.
FieldOf(sels, i, type, page, path) ==
    LET same == Merged(sels, i)
        node == Selection[Earliest(same)]
        def == Def(type, node.field)
    IN [path |-> Append(path, <<node.key, 0, def.nullable>>), name |-> node.field, def |-> def,
        limit |-> node.limit, kids |-> Included(Inside(same)), page |-> page]

OwnLimit(f) == IF f.limit = NoLimit THEN DefaultLimit
               ELSE IF f.limit > MaxLimit THEN MaxLimit ELSE f.limit
PageOf(f) == IF f.def.paged THEN OwnLimit(f) ELSE f.page
\* What the store puts in a list: no more than it was asked for.
AtMost(f) ==
    CASE f.def.size = "limit"  -> IF f.limit = NoLimit THEN f.def.default ELSE f.limit
      [] f.def.size = "parent" -> f.page
      [] OTHER -> TopicSize
\* Variant: a page counts as one event.
MultiplierFlat(f) ==
    IF ~f.def.list THEN 1
    ELSE CASE f.def.size = "limit"  -> OwnLimit(f)
           [] f.def.size = "parent" -> 1
           [] OTHER -> TopicSize
\* How many items a field is taken to return, at the page size it sits in.
Multiplier(f) ==
    IF ~f.def.list THEN 1
    ELSE CASE f.def.size = "limit"  -> OwnLimit(f)
           [] f.def.size = "parent" -> f.page
           [] OTHER -> TopicSize

\* analyse: a leaf costs 1; others 1 and what their children cost, times their items.
\* A walk is of the selections of an object, its type and the page size they sit in.
Walk == (SUBSET Nodes) \X (DOMAIN Schema) \X Int
cost[asked \in Walk] ==
    LET sels == asked[1]
        f == FieldOf(sels, Earliest(sels), asked[2], asked[3], <<>>)
    IN IF sels = {} THEN 0
       ELSE 1 + (IF f.def.type = "scalar" THEN 0
                 ELSE Multiplier(f) * cost[<<f.kids, f.def.type, PageOf(f)>>])
              + cost[<<sels \ Merged(sels, Earliest(sels)), asked[2], asked[3]>>]
\* The walks that a walk makes in turn.
walksBelow[asked \in Walk] ==
    LET fields == {FieldOf(asked[1], i, asked[2], asked[3], <<>>) : i \in asked[1]}
        next == {<<f.kids, f.def.type, PageOf(f)>> : f \in {f \in fields : f.def.type # "scalar"}}
    IN next \cup UNION {walksBelow[w] : w \in next}
\* The selections whose fields a walk has added up with the i-th's.
UpTo(sels, i) == {j \in sels : Earliest(Merged(sels, j)) <= Earliest(Merged(sels, i))}
\* The total so far is held against the limit after each field but __typename.
Exceeds(asked) ==
    \E i \in asked[1] : /\ Selection[i].field # "__typename"
                        /\ cost[<<UpTo(asked[1], i), asked[2], asked[3]>>] > MaxComplexity
depth[sels \in SUBSET Nodes] ==
    LET below == {0} \cup {depth[Inside(Merged(Included(sels), i))] : i \in Included(sels)}
    IN IF sels = {} THEN 0 ELSE 1 + CHOOSE d \in below : \A e \in below : e <= d

\* The fields of an object at a path, as executeSelection starts them: __typename is
\* answered on the spot.
Fields(sels, type, page, path) ==
    {f \in {FieldOf(sels, i, type, page, path) : i \in sels} : f.name # "__typename"}

GqlInit == /\ doc \in Documents /\ phase = "asked"
        /\ running = {} /\ nulled = {} /\ touched = {}

FirstWalk(d) == <<Included(Outermost(d)), "Query", DefaultLimit>>
Analyse ==
    /\ phase = "asked"
    /\ IF \/ depth[Outermost(doc)] > MaxDepth
          \/ \E walk \in {FirstWalk(doc)} \cup walksBelow[FirstWalk(doc)] : Exceeds(walk)
       THEN phase' = "rejected" /\ UNCHANGED <<running, touched>>
       ELSE /\ phase' = "running"
            /\ running' = Fields(Included(Outermost(doc)), "Query", DefaultLimit, <<>>)
            /\ touched' = {f.path : f \in running'}
    /\ UNCHANGED <<doc, nulled>>

\* A list, or one object, whose fields start at once.
Item(f, i) == IF f.def.list THEN Append(f.path, <<"item", i, FALSE>>) ELSE f.path
Objects(f, n) == UNION {Fields(f.kids, f.def.type, PageOf(f), Item(f, i)) : i \in 1..n}
FieldResolves(f) ==
    /\ f \in running /\ f.limit \in {NoLimit} \cup 1..MaxLimit   \* boundedLimit, parseEventQuery
    /\ \E n \in IF f.def.list THEN 0..AtMost(f) ELSE {1} :
          LET kids == IF f.def.type = "scalar" THEN {} ELSE Objects(f, n) IN
          running' = (running \ {f}) \cup kids /\ touched' = touched \cup {k.path : k \in kids}
    /\ UNCHANGED <<doc, phase, nulled>>

\* The path itself or the nearest above it that is nullable; data itself is the last resort.
Catcher(path) ==
    LET above == {k \in 0..Len(path) : k = 0 \/ path[k][3]} IN
    SubSeq(path, 1, CHOOSE k \in above : \A j \in above : j <= k)

\* A resolver throws, or returns null: not found, or null where that is not allowed.
FieldFails(f) ==
    /\ f \in running
    /\ running' = running \ {f} /\ nulled' = nulled \cup {Catcher(f.path)}
    /\ UNCHANGED <<doc, phase, touched>>

\* Promise.all does not wait for what is below a null: it goes on behind the answer.
Respond ==
    /\ phase = "running"
    /\ \A f \in running : \E q \in nulled : \E k \in 0..Len(f.path) : q = SubSeq(f.path, 1, k)
    /\ phase' = "answered" /\ UNCHANGED <<doc, running, nulled, touched>>

GqlNext == Analyse \/ Respond \/ \E f \in running : FieldResolves(f) \/ FieldFails(f)
GqlSpec == GqlInit /\ [][GqlNext]_gqlVars

-----------------------------------------------------------------------------
\* analyse() takes a limit below 0 for a number of items, and it lowers the total: the one
\* kind of document whose cost says nothing.
HasLimitBelowZero(d) == \E i \in d : Selection[i].limit # NoLimit /\ Selection[i].limit < 0

\* graphql.ts 860-865: a list costs its children "multiplied by how many items it can
\* return".  In a document without a limit below 0, no answer makes a request resolve more
\* fields than the limit on its cost, whatever its lists hold, those that go on after a
\* failure included.  Of any document that is rejected nothing resolves.
WorkWithinCost ==
    /\ Cardinality(touched) <= MaxComplexity \/ HasLimitBelowZero(doc)
    /\ phase = "rejected" => touched = {}
=============================================================================
