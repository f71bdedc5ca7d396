----------------------------- MODULE SizePrune -----------------------------
(***************************************************************************)
(* The disk budget of `lens index` (LENS_MAX_DB_SIZE_BYTES): the interval  *)
(* timer of packages/cli/src/indexer.ts and SqliteEventStore.pruneToSize   *)
(* of packages/store/src/sqlite-store.ts, against a SQLite file that keeps *)
(* the pages of deleted rows until VACUUM.                                 *)
(*                                                                         *)
(* A row takes one page.  The driver is synchronous, so inserts of this    *)
(* process run before or after a prune, never inside one; a kill may come  *)
(* between its statements.                                                 *)
(***************************************************************************)
EXTENDS Naturals, FiniteSets, FiniteSetsExt

CONSTANTS
    MaxRow,         \* bound: rows the network has for the indexer
    PerLedger,      \* rows of a ledger
    PageSize,       \* rows in a batch, at most
    ChunkLedgers,   \* chunkLedgers
    Target,         \* maxDbSizeBytes, in pages
    Overhead,       \* pages of an empty database
    MaxCrashes      \* bound: times the process is killed

ASSUME SizePruneAssumption ==
    /\ {MaxRow, PerLedger, PageSize, ChunkLedgers, Target, Overhead} \subseteq Nat \ {0}
    /\ MaxCrashes \in Nat

VARIABLES
    inserted,       \* rows inserted so far: 1..inserted, in ledger order
    rows,           \* those still in the table
    file, wal,      \* pages of the database file and of its write-ahead log
    pc,             \* pruneToSize(): idle, measure, prune, vacuum
    removed,        \* pruneToSize(): its events
    crashes

vars == <<inserted, rows, file, wal, pc, removed, crashes>>

LedgerOf(r) == (r - 1) \div PerLedger + 1
Total       == file + wal
Used        == Overhead + Cardinality(rows)     \* the pages the data needs
Oldest      == LedgerOf(Min(rows))
Larger(a, b) == IF a > b THEN a ELSE b

Init ==
    /\ inserted = 0 /\ rows = {}
    /\ file = Overhead /\ wal = 0
    /\ pc = "idle" /\ removed = 0 /\ crashes = 0

-----------------------------------------------------------------------------

\* A transaction that writes k pages appends up to k frames to the WAL; one that finds
\* the WAL checkpointed by SQLite starts over in the same file, which keeps its size.
WalAfter(k) == Larger(wal, 1)..(wal + k)

\* A batch of k rows: free pages of the file are reused before it grows.
InsertBatch(k) ==
    /\ pc = "idle" /\ inserted + k <= MaxRow
    /\ inserted' = inserted + k
    /\ rows' = rows \cup (inserted + 1)..(inserted + k)
    /\ file' = Larger(file, Used + k) /\ wal' \in WalAfter(k)
    /\ UNCHANGED <<pc, removed, crashes>>

\* The periodic checkpoint truncates the WAL; the file keeps its size.
Checkpoint ==
    /\ pc = "idle" /\ wal # 0
    /\ wal' = 0
    /\ UNCHANGED <<inserted, rows, file, pc, removed, crashes>>

\* The timer; a database within the budget is left alone.
RunSizePrune ==
    /\ pc = "idle" /\ Total > Target
    /\ pc' = "measure"
    /\ UNCHANGED <<inserted, rows, file, wal, removed, crashes>>

\* Variant: an empty table does not end the loop.
MeasureOnly ==
    /\ pc = "measure"
    /\ pc' = IF Total <= Target THEN (IF removed > 0 THEN "vacuum" ELSE "idle") ELSE "prune"
    /\ UNCHANGED <<inserted, rows, file, wal, removed, crashes>>

\* The head of the loop: stop under the target, or with nothing left to give.
Measure ==
    /\ pc = "measure"
    /\ pc' = IF Total <= Target \/ rows = {}
             THEN (IF removed > 0 THEN "vacuum" ELSE "idle") ELSE "prune"
    /\ UNCHANGED <<inserted, rows, file, wal, removed, crashes>>

\* Variant: the chunk is taken from the newest end.
ChunkNewest == {r \in rows : LedgerOf(r) + ChunkLedgers > LedgerOf(Max(rows))}

\* One chunk: everything below the oldest ledger plus chunkLedgers.
Chunk == {r \in rows : LedgerOf(r) < Oldest + ChunkLedgers}

Prune ==
    /\ pc = "prune"
    /\ rows' = rows \ Chunk
    /\ removed' = removed + Cardinality(Chunk)
    /\ wal' \in WalAfter(Cardinality(Chunk))
    /\ pc' = "measure"
    /\ UNCHANGED <<inserted, file, crashes>>

\* Variant: the freed pages stay in the file.
VacuumNothing ==
    /\ pc = "vacuum"
    /\ wal' = 0
    /\ removed' = 0 /\ pc' = "idle"
    /\ UNCHANGED <<inserted, rows, file, crashes>>

\* VACUUM and the checkpoint, one step: the file shrinks to what it holds.
Vacuum ==
    /\ pc = "vacuum"
    /\ file' = Used /\ wal' = 0
    /\ removed' = 0 /\ pc' = "idle"
    /\ UNCHANGED <<inserted, rows, crashes>>

\* A kill between two statements: what is committed stays.
Crash ==
    /\ crashes < MaxCrashes
    /\ crashes' = crashes + 1
    /\ pc' = "idle" /\ removed' = 0
    /\ UNCHANGED <<inserted, rows, file, wal>>

Pruning == Measure \/ Prune \/ Vacuum

Next ==
    \/ \E k \in 1..PageSize : InsertBatch(k)
    \/ Checkpoint \/ RunSizePrune
    \/ Pruning
    \/ Crash

Spec == Init /\ [][Next]_vars

\* The timer fires, and pruneToSize() runs to its end without waiting for anything.
FairSpec == Spec /\ WF_vars(RunSizePrune) /\ WF_vars(Pruning)

-----------------------------------------------------------------------------
(* What the operator is promised. *)

\* sqlite-store.ts: "deletes in chunks (whole ledgers at a time, oldest first)": what a
\* prune takes is older than all it leaves, over any number of chunks, runs and kills.
OldestFirst ==
    [][\A gone \in rows \ rows', left \in rows' : LedgerOf(gone) < LedgerOf(left)]_vars

\* sqlite-store.ts 691-694, "VACUUM runs once at the end": a database that is over its
\* budget and holds events comes to fit it, or the empty database where the budget is
\* smaller, unless another kill comes first.  Each count of kills has its own promise: a
\* prune killed between its chunks and its VACUUM leaves free pages to the next run,
\* which gives them back while it finds events to prune.  With no event left it does
\* not: it returns without VACUUM (722, 743) until an event has been inserted.
BudgetIsMet ==
    \A n \in 0..MaxCrashes :
        Total > Target /\ rows # {} /\ crashes = n
            ~> Total <= Larger(Target, Overhead) \/ crashes > n

\* indexer.ts 75-76: "a store that cannot shrink further does not loop forever": the
\* deletes do not make the file smaller, and yet the loop ends.
PruneEnds == pc # "idle" ~> pc = "idle"

\* store.ts 165-172: the prune "stops as soon as the target is met", the target being the
\* size of the database and its WAL.  The chunk that leaves no event goes only when the
\* data still there does not fit beside the WAL.
StopsWhenMet ==
    [][pc = "prune" /\ rows # {} /\ rows' = {} => Used + wal > Target]_vars
=============================================================================
