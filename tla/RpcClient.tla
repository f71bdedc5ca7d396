----------------------------- MODULE RpcClient -----------------------------
(***************************************************************************)
(* LensRpcClient of packages/ingest/src/rpc-client.ts over withRetry of    *)
(* retry.ts: getEventsChunked, whose workers share one counter of chunks   *)
(* and ask the node at the same time, each request retried on its own.     *)
(* The caller asks page after page, each chunk with its own cursor.        *)
(*                                                                         *)
(* An event is its rank in (ledger, transaction, operation, id).           *)
(***************************************************************************)
EXTENDS Pages

CONSTANTS Contracts,    \* watched contracts, 1..n
          PerFilter,    \* MAX_CONTRACT_IDS_PER_FILTER
          Concurrency,
          Attempts,     \* retry.attempts
          PageLimit,    \* limit
          NetworkEvents \* bound: events of the network; e is of contract Of(e)

ASSUME RpcClientAssumption ==
    /\ {Contracts, PerFilter} \subseteq Nat \ {0}
    /\ {Concurrency, Attempts, PageLimit, NetworkEvents} \subseteq Nat

VARIABLES emitted,      \* the node's newest event
          cursors,      \* the caller's, one per filter
          calling,      \* idle, running
          nextChunk,    \* the next chunk no worker has taken
          worker,       \* the chunk, attempt and doing of each worker
          results,      \* per chunk: the events of its page and the next cursor
          answers       \* history: the answers the caller got, in order
rpcVars == <<emitted, cursors, calling, nextChunk, worker, results, answers>>

Of(e) == ((e - 1) % Contracts) + 1

\* buildFilters: at most PerFilter ids in each, all in one when there are few.
ChunkFilters == [i \in 1..((Contracts + PerFilter - 1) \div PerFilter) |->
               {c \in 1..Contracts : (c - 1) \div PerFilter + 1 = i}]
Chunks == DOMAIN ChunkFilters
PoolSize == Max({1, Min({Concurrency, Len(ChunkFilters)})})
NoBatch == [events |-> {}, cursor |-> 0]
Gone == [chunk |-> 0, attempt |-> 0, doing |-> "gone"]

\* classifyRpcError.  How long withRetry sleeps is left out.
Errors == {"429", "408", "5xx", "4xx", "timeout", "request error", "server error", "transport"}
Retryable(error) == error \notin {"4xx", "request error"}

RpcInit ==
    /\ emitted = 0 /\ cursors = [i \in Chunks |-> 0] /\ calling = "idle" /\ nextChunk = 1
    /\ worker = [w \in 1..PoolSize |-> Gone]
    /\ results = [i \in Chunks |-> NoBatch]
    /\ answers = <<>>

\* A worker takes the next chunk, if any is left: next++ and the test are one step.
TakeChunk(w, i) == worker' = [worker EXCEPT ![w] =
    IF i \in Chunks THEN [chunk |-> i, attempt |-> 0, doing |-> "ask"] ELSE Gone]

\* getEventsChunked: the workers start in turn, before any answer.
CallChunked ==
    /\ calling = "idle" /\ calling' = "running"
    /\ worker' = [w \in 1..PoolSize |-> [chunk |-> w, attempt |-> 0, doing |-> "ask"]]
    /\ nextChunk' = PoolSize + 1
    /\ results' = [i \in Chunks |-> NoBatch]
    /\ UNCHANGED <<emitted, cursors, answers>>

\* getEvents by cursor, or by start ledger for the first page: at most PageLimit
\* events of the filter, and where they end.
ChunkPage(i) ==
    LET events == {e \in (cursors[i] + 1)..emitted : Of(e) \in ChunkFilters[i]}
        served == {e \in events : Cardinality({d \in events : d < e}) < PageLimit}
    IN  [events |-> served,
         cursor |-> IF served = {} THEN cursors[i] ELSE Max(served)]

\* Variant: an answer is put where the next one belongs.
AnsweredOutOfPlace(w) ==
    /\ calling = "running" /\ worker[w].doing = "ask"
    /\ results' = [results EXCEPT ![IF nextChunk \in Chunks THEN nextChunk
                                   ELSE worker[w].chunk] = ChunkPage(worker[w].chunk)]
    /\ TakeChunk(w, nextChunk) /\ nextChunk' = nextChunk + 1
    /\ UNCHANGED <<emitted, cursors, calling, answers>>

ChunkAnswered(w) ==
    /\ calling = "running" /\ worker[w].doing = "ask"
    /\ results' = [results EXCEPT ![worker[w].chunk] = ChunkPage(worker[w].chunk)]
    /\ TakeChunk(w, nextChunk) /\ nextChunk' = nextChunk + 1
    /\ UNCHANGED <<emitted, cursors, calling, answers>>

\* withRetry: the loop sleeps and asks again, but for an error no retry can cure
\* and for the last attempt.  One rejection rejects the whole call; the other
\* workers go on for nothing, into an array that nobody reads.
ChunkFails(w, error) ==
    /\ calling = "running" /\ worker[w].doing = "ask"
    /\ IF Retryable(error) /\ worker[w].attempt < Attempts - 1
       THEN worker' = [worker EXCEPT ![w].doing = "sleep"] /\ UNCHANGED calling
       ELSE calling' = "idle" /\ worker' = [v \in 1..PoolSize |-> Gone]
    /\ UNCHANGED <<emitted, cursors, nextChunk, results, answers>>

WakeUp(w) ==
    /\ calling = "running" /\ worker[w].doing = "sleep"
    /\ worker' = [worker EXCEPT ![w] =
           [chunk |-> @.chunk, attempt |-> @.attempt + 1, doing |-> "ask"]]
    /\ UNCHANGED <<emitted, cursors, calling, nextChunk, results, answers>>

\* All pages, merged and sorted; the caller keeps the cursors.
Resolve ==
    /\ calling = "running" /\ \A w \in 1..PoolSize : worker[w] = Gone
    /\ calling' = "idle"
    /\ \E list \in Ascending(UNION {results[i].events : i \in Chunks}) :
          answers' = answers \o list
    /\ cursors' = [i \in Chunks |-> results[i].cursor]
    /\ UNCHANGED <<emitted, nextChunk, worker, results>>

NetworkMoves ==
    /\ emitted < NetworkEvents /\ emitted' = emitted + 1
    /\ UNCHANGED <<cursors, calling, nextChunk, worker, results, answers>>

Asks(w) == ChunkAnswered(w) \/ \E error \in Errors : ChunkFails(w, error)
RpcNext == CallChunked \/ Resolve \/ NetworkMoves \/ \E w \in 1..PoolSize : Asks(w) \/ WakeUp(w)

RpcSpec == RpcInit /\ [][RpcNext]_rpcVars

-----------------------------------------------------------------------------
\* rpc-client.ts: each chunk "advances its own cursor independently" and the result
\* does not depend on "which chunk finished first".  Up to its cursor, every event
\* of a chunk was delivered, once and in order, and none beyond (154-198).
ChunksAreExact ==
    \A i \in Chunks :
        LET ofChunk(e) == Of(e) \in ChunkFilters[i] IN
        /\ {e \in Range(answers) : ofChunk(e)} = {e \in 1..cursors[i] : ofChunk(e)}
        /\ \A j, k \in DOMAIN answers :
              j < k /\ ofChunk(answers[j]) /\ ofChunk(answers[k]) => answers[j] < answers[k]
=============================================================================
