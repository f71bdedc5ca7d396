---------------------------- MODULE IndexerRun ----------------------------
(***************************************************************************)
(* `lens index` around its poll loop: the order in which runIndexer opens  *)
(* and closes things, the archive backfill, and SpecFetcher, whose lookups *)
(* run off the loop, one at a time, against the store the run closes.      *)
(* The loop itself is Ingest; here a batch is the contracts it mentions.   *)
(* Ledger l of the archive holds event l.                                  *)
(***************************************************************************)
EXTENDS Naturals, Sequences, FiniteSets, FiniteSetsExt, SequencesExt

CONSTANTS Contracts,
          Configured,   \* config.contractIds
          StartLedger,  \* config.startLedger
          LatestLedger, \* the network's newest ledger, and bound of the archive
          CheckpointSize,
          Limit,        \* events of one archive request
          MaxStarts     \* bound: times the process is started again

VARIABLES runPc,      \* runIndexer: down, backfill, skew, loop, finally, closing
          open,       \* the store
          stored,     \* archive events in the store
          specs,      \* contract_specs: unknown, found, none, or stale: an old none
          queue,      \* SpecFetcher: lookups not begun, in order
          attempted,
          stopped,
          lookup,     \* the one in flight: its contract and what it does next
          oldest,     \* retention.oldestLedger of the node
          deployed,   \* contracts that exist on the network
          starts

run     == <<runPc, open>>
fetcher == <<queue, attempted, stopped, lookup>>
world   == <<oldest, deployed>>
runVars == <<run, stored, specs, fetcher, world, starts>>

None == [of |-> "none", at |-> "idle"]
RunGoto(p) == runPc' = p /\ UNCHANGED open

RunInit ==
    /\ runPc = "down" /\ open = FALSE /\ stored = {} /\ starts = 0
    /\ specs = [c \in Contracts |-> "unknown"]
    /\ queue = <<>> /\ attempted = {} /\ stopped = FALSE /\ lookup = None
    /\ oldest \in 1..LatestLedger /\ deployed \in SUBSET Contracts

\* An id already attempted, in this process, is skipped.
Enqueue(S) ==
    /\ queue' = queue \o SetToSeq(S \ attempted)
    /\ attempted' = attempted \cup S
    /\ UNCHANGED <<stopped, lookup>>

StartRun ==
    /\ runPc = "down" /\ starts <= MaxStarts
    /\ runPc' = "backfill" /\ open' = TRUE
    /\ Enqueue(Configured)
    /\ UNCHANGED <<stored, specs, world, starts>>

\* The archive is read a checkpoint at a time, from the one that holds the start
\* ledger while the last ledger of a checkpoint is in the range.
CheckpointEnd(l) == (l \div CheckpointSize) * CheckpointSize + CheckpointSize - 1
Archived(from, to) == {l \in from..to : CheckpointEnd(l) <= to /\ l < from + Limit}

ArchiveEnd == IF StartLedger < oldest THEN Min({oldest - 1, LatestLedger}) ELSE 0

\* One request, and its events in one transaction.
Backfill ==
    /\ runPc = "backfill"
    /\ stored' = stored \cup Archived(StartLedger, ArchiveEnd)
    /\ RunGoto("skew")
    /\ UNCHANGED <<specs, fetcher, world, starts>>

\* The skew check only warns.
CheckSkew == runPc = "skew" /\ RunGoto("loop") /\ UNCHANGED <<stored, specs, fetcher, world, starts>>

\* The metrics port, retention(), the archive, the poller or the store fails; or
\* the loop ends: a signal, maxEvents, or --once at the tip.
Leave ==
    /\ runPc \in {"backfill", "loop"}
    /\ RunGoto("finally") /\ stopped' = TRUE
    /\ UNCHANGED <<stored, specs, queue, attempted, lookup, world, starts>>

HandleBatch(S) ==
    /\ runPc = "loop"
    /\ Enqueue(S)
    /\ UNCHANGED <<run, stored, specs, world, starts>>

\* Variant: the lookup in flight is not waited for.
NotIdle == runPc = "finally" /\ RunGoto("closing") /\ UNCHANGED <<stored, specs, fetcher, world, starts>>

\* await specs.idle()
Idle ==
    /\ runPc = "finally" /\ queue = <<>> /\ lookup = None
    /\ RunGoto("closing")
    /\ UNCHANGED <<stored, specs, fetcher, world, starts>>

\* The metrics server, and, whether or not that fails, the store.
Close ==
    /\ runPc = "closing" /\ open /\ open' = FALSE
    /\ UNCHANGED <<runPc, stored, specs, fetcher, world, starts>>

\* Once nothing is left to do the process exits; or it is killed anywhere.
Exit ==
    /\ runPc # "down" /\ starts < MaxStarts
    /\ runPc' = "down" /\ open' = FALSE /\ starts' = starts + 1
    /\ queue' = <<>> /\ attempted' = {} /\ stopped' = FALSE /\ lookup' = None
    /\ UNCHANGED <<stored, specs, world>>

-----------------------------------------------------------------------------
(* SpecFetcher.#fetchOne, an await at a time. *)

InProcess == runPc # "down"
Doing(at) == InProcess /\ lookup.at = at
Next1(at) == lookup' = [lookup EXCEPT !.at = at]

FetchOne ==
    /\ InProcess /\ lookup = None /\ queue # <<>>
    /\ queue' = Tail(queue)
    /\ lookup' = IF stopped THEN None ELSE [of |-> Head(queue), at |-> "read"]
    /\ UNCHANGED <<run, stored, specs, attempted, stopped, world, starts>>

\* A definite answer, or a recent "none", is kept.
ReadSpec ==
    /\ Doing("read")
    /\ IF specs[lookup.of] \in {"found", "none"} THEN lookup' = None ELSE Next1("instance")
    /\ UNCHANGED <<run, stored, specs, queue, attempted, stopped, world, starts>>

\* getContractInstance: not found, a Stellar asset, or Wasm to get first.
GetInstance ==
    /\ Doing("instance")
    /\ \/ lookup.of \notin deployed /\ Next1("save none")
       \/ lookup.of \in deployed /\ (Next1("save found") \/ Next1("wasm"))
    /\ UNCHANGED <<run, stored, specs, queue, attempted, stopped, world, starts>>

\* Wasm that is gone or has no readable spec is a definite "none".
GetWasm ==
    /\ Doing("wasm")
    /\ Next1("save none") \/ Next1("save found")
    /\ UNCHANGED <<run, stored, specs, queue, attempted, stopped, world, starts>>

SaveSpec ==
    /\ Doing("save none") \/ Doing("save found")
    /\ specs' = [specs EXCEPT ![lookup.of] = IF lookup.at = "save found" THEN "found" ELSE "none"]
    /\ lookup' = None
    /\ UNCHANGED <<run, stored, queue, attempted, stopped, world, starts>>

\* Variant: a failed lookup is not forgotten.
LookupFailsForGood ==
    /\ Doing("instance") \/ Doing("wasm")
    /\ lookup' = None
    /\ UNCHANGED <<run, stored, specs, queue, attempted, stopped, world, starts>>

\* The network or a rate limit: the id may be attempted again.
LookupFails ==
    /\ Doing("instance") \/ Doing("wasm")
    /\ lookup' = None /\ attempted' = attempted \ {lookup.of}
    /\ UNCHANGED <<run, stored, specs, queue, stopped, world, starts>>

\* lens spec fetch and lens spec import, in a process of their own.
SpecCommand(c) ==
    /\ \E answer \in {"none", "found"} : specs' = [specs EXCEPT ![c] = answer]
    /\ UNCHANGED <<run, stored, fetcher, world, starts>>

\* retryNoneAfterMs goes by; a contract is deployed.
Age(c) ==
    /\ specs[c] = "none" /\ specs' = [specs EXCEPT ![c] = "stale"]
    /\ UNCHANGED <<run, stored, fetcher, world, starts>>
Deploy(c) ==
    /\ c \notin deployed /\ deployed' = deployed \cup {c}
    /\ UNCHANGED <<run, stored, specs, fetcher, oldest, starts>>

Step == \/ StartRun \/ Backfill \/ CheckSkew \/ Idle \/ Close
        \/ FetchOne \/ ReadSpec \/ GetInstance \/ GetWasm \/ SaveSpec
RunNext ==
    \/ Step \/ Leave \/ Exit \/ LookupFails
    \/ \E S \in SUBSET Contracts \ {{}} : HandleBatch(S)
    \/ \E c \in Contracts : SpecCommand(c) \/ Age(c) \/ Deploy(c)

\* The process runs on and is started again; a request ends by an answer, an error
\* or its timeout.
Fairness == WF_runVars(Step \/ LookupFails)
RunSpec == RunInit /\ [][RunNext]_runVars /\ Fairness

-----------------------------------------------------------------------------
\* indexer.ts: "one in flight is allowed to finish so it never writes to a closed
\* store".  No lookup reads or saves once the store is closed, wherever stop() finds
\* the queue (indexer.ts 250-261, specs.ts 193-227).
StoreOutlivesLookups == ~open => lookup = None

\* specs.ts: a transient failure is forgotten "so a later batch mentioning this
\* contract tries again".  While the loop runs, no contract stays among the attempted
\* without an answer, wherever it waits in the queue and whatever fails (193-199,
\* 211-227).
SeenContractsSettle ==
    \A c \in Contracts :
        (runPc = "loop" /\ c \in attempted)
            ~> (runPc # "loop" \/ specs[c] # "unknown" \/ c \notin attempted)

\* ingest/README.md: "The CLI backfills the archived range before starting the live
\* RPC tail".  When the loop starts, every ledger between the start ledger and the
\* node's window is stored.
NoArchiveGap == runPc = "loop" => \A l \in StartLedger..(oldest - 1) : l \in stored
=============================================================================
