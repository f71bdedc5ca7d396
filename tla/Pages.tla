------------------------------- MODULE Pages -------------------------------
(***************************************************************************)
(* What queryEvents() answers for Webhooks and EventStream: a page of the  *)
(* matching events in ascending order of id, and whether there are more.   *)
(* An event is its id's rank.                                              *)
(***************************************************************************)
EXTENDS Naturals, Sequences, FiniteSets, FiniteSetsExt

\* The one list that has the members of S in ascending order, as a set to choose from.
Ascending(S) ==
    {list \in [1..Cardinality(S) -> S] :
        Range(list) = S /\ \A i, j \in DOMAIN list : i < j => list[i] < list[j]}

FirstOf(list, n) == SubSeq(list, 1, IF Len(list) < n THEN Len(list) ELSE n)

NewestOf(events) == IF events = {} THEN 0 ELSE Max(events)
=============================================================================
