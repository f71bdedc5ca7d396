------------------------------- MODULE Caches -------------------------------
(***************************************************************************)
(* What the API remembers of the store: totals (#countCached of            *)
(* packages/store/src/sqlite-store.ts) and parsed contract specs           *)
(* (SpecCache of packages/store/src/spec.ts), as a GET /events uses them,  *)
(* while the indexer writes and time goes by.                              *)
(*                                                                         *)
(* A datum, a total or the spec of a contract, is the number of times it   *)
(* changed.  A spec is loaded behind a promise, which later requests for   *)
(* it await too; a total is counted in one step.                           *)
(***************************************************************************)
EXTENDS Naturals, FiniteSets

CONSTANTS CachedIds,    \* contracts
          Askers,       \* requests in flight
          Ttl,          \* countCacheTtlMs, ttlMs
          MaxTime,      \* bound of the clock
          MaxChanges    \* bound: changes of a datum

VARIABLES now,
          version,      \* the datum in the store
          until,        \* when each version of a datum was replaced (history)
          count,        \* the cached total: value, at
          entries,      \* contract -> at, and the load whose promise it holds
          loads,        \* <<contract, time>> -> asked, read or done, and the value
          request       \* requests: what they wait for and what they got
cacheVars == <<now, version, until, count, entries, loads, request>>

Data == CachedIds \cup {"total"}
NoEntry == [at |-> MaxTime + 1, load |-> <<>>]
Failed == MaxChanges + 1
AtRest == [at |-> "rest", todo |-> {}, load |-> <<>>, got |-> <<>>]

CacheInit ==
    /\ now = 0
    /\ version = [d \in Data |-> 0] /\ until = [d \in Data |-> [v \in 0..MaxChanges |-> 0]]
    /\ count = [value |-> 0, at |-> MaxTime + 1]
    /\ entries = [c \in CachedIds |-> NoEntry] /\ loads = <<>>
    /\ request = [r \in Askers |-> AtRest]

IsFresh(at) == at <= now /\ now - at < Ttl

\* queryEvents(): the total, from the cache or counted; and the contracts of its page.
Query(r, cs) ==
    /\ request[r].at = "rest"
    /\ LET total == IF IsFresh(count.at) THEN count.value ELSE version["total"] IN
       request' = [request EXCEPT ![r] =
           [at |-> IF cs = {} THEN "rest" ELSE "annotate", todo |-> cs, load |-> <<>>,
            got |-> [d \in {"total"} |-> [value |-> total, asked |-> now]]]]
    /\ count' = IF IsFresh(count.at) THEN count ELSE [value |-> version["total"], at |-> now]
    /\ UNCHANGED <<now, version, until, entries, loads>>

Tell(got, d, value, asked) ==
    [e \in DOMAIN got \cup {d} |-> IF e = d THEN [value |-> value, asked |-> asked] ELSE got[e]]

\* annotate() asks for one contract after the other.  A load, a miss or a failure
\* are remembered alike, from the time the load began.
Get(r, c) ==
    /\ request[r].at = "annotate" /\ c \in request[r].todo
    /\ LET hit == IsFresh(entries[c].at)
           load == IF hit THEN entries[c].load ELSE <<c, now>>
       IN  /\ request' = [request EXCEPT ![r] =
                  [at |-> "await", todo |-> request[r].todo, load |-> load,
                   got |-> Tell(request[r].got, c, Failed, now)]]
           /\ entries' = IF hit THEN entries ELSE [entries EXCEPT ![c] = [at |-> now, load |-> load]]
           /\ loads' = IF hit THEN loads
                       ELSE [l \in DOMAIN loads \cup {load} |->
                                IF l = load THEN [at |-> "asked", value |-> Failed] ELSE loads[l]]
    /\ UNCHANGED <<now, version, until, count>>

Await(r) ==
    /\ request[r].at = "await"
    /\ LET load == request[r].load
           c == load[1]
           rest == request[r].todo \ {c}
       IN  /\ loads[load].at = "done"
           /\ request' = [request EXCEPT ![r] =
                  [at |-> IF rest = {} THEN "rest" ELSE "annotate", todo |-> rest, load |-> <<>>,
                   got |-> Tell(request[r].got, c, loads[load].value, request[r].got[c].asked)]]
    /\ UNCHANGED <<now, version, until, count, entries, loads>>

\* getContractSpec() reads the row, in PostgreSQL some time after it was asked.
ReadSpec(l) ==
    /\ loads[l].at = "asked"
    /\ loads' = [loads EXCEPT ![l] = [at |-> "read", value |-> version[l[1]]]]
    /\ UNCHANGED <<now, version, until, count, entries, request>>

\* Variant: an entry is as old as its answer.
SettleStamped(l) ==
    /\ loads[l].at = "read"
    /\ loads' = [loads EXCEPT ![l].at = "done"]
    /\ entries' = IF entries[l[1]].load = l THEN [entries EXCEPT ![l[1]].at = now] ELSE entries
    /\ UNCHANGED <<now, version, until, count, request>>

\* The answer, parsed; an error, or entries that do not parse, is no typed view.
Settle(l) ==
    /\ loads[l].at = "read"
    /\ \E value \in {loads[l].value, Failed} : loads' = [loads EXCEPT ![l] = [at |-> "done", value |-> value]]
    /\ UNCHANGED <<now, version, until, count, entries, request>>

\* saveContractSpec(), or events inserted or pruned.
Change(d) ==
    /\ version[d] < MaxChanges
    /\ version' = [version EXCEPT ![d] = @ + 1]
    /\ until' = [until EXCEPT ![d][version[d]] = now]
    /\ UNCHANGED <<now, count, entries, loads, request>>

TimePasses == now < MaxTime /\ now' = now + 1 /\ UNCHANGED <<version, until, count, entries, loads, request>>

CacheNext ==
    \/ TimePasses \/ \E d \in Data : Change(d)
    \/ \E r \in Askers : Await(r) \/ (\E cs \in SUBSET CachedIds : Query(r, cs))
                          \/ \E c \in CachedIds : Get(r, c)
    \/ \E l \in DOMAIN loads : ReadSpec(l) \/ Settle(l)
CacheSpec == CacheInit /\ [][CacheNext]_cacheVars

-----------------------------------------------------------------------------
\* spec.ts 232: "Entries expire so a spec the indexer fetches after the API started ... is
\* picked up".  What a request is told, a total or a spec, was in the store less than Ttl
\* before it asked or later, however long a load that others await takes; or its load
\* failed (spec.ts 255-273, sqlite-store.ts 395-412).
AnswersAreRecent ==
    \A r \in Askers : \A d \in DOMAIN request[r].got :
        LET g == request[r].got[d] IN
        g.value = Failed \/ g.value = version[d] \/ until[d][g.value] + Ttl > g.asked
=============================================================================
