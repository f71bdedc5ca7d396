---------------------------- MODULE SqliteStore ----------------------------
(***************************************************************************)
(* SqliteEventStore as several processes see it: one database file that    *)
(* the indexer, the API and one-shot commands open, migrate, write, prune, *)
(* decode again and copy.  node:sqlite is synchronous, so what a method    *)
(* does is atomic in its own process; what it reads before BEGIN may be    *)
(* stale in the transaction, because another process wrote in between.     *)
(*                                                                         *)
(* A migration is its number.  An event is its number, one ledger each.    *)
(* Its row is known by the decoder that wrote the decoded columns: "old",  *)
(* "new", or "error" where decode_error is set.                            *)
(***************************************************************************)
EXTENDS Naturals, FiniteSets, FiniteSetsExt

CONSTANTS Procs,      \* processes
          Upgraded,   \* those that run the newer decoder
          MaxId,      \* events 1..MaxId
          Hard,       \* events only the newer decoder can decode
          Plain,      \* events that mention no address
          BatchSize,  \* lines of one batch of importSnapshot
          MaxDowns,   \* bound: rollbacks
          MaxFaults   \* bound: rows damaged from outside

ASSUME SqliteAssumption == MaxId \in Nat

VARIABLES applied,    \* versions recorded in schema_migrations
          tables,     \* versions whose objects exist, and Triggers
          rows,       \* event id -> decoder of its columns
          addresses,  \* ids with entries in event_addresses
          fts,        \* <<id, decoder>>: entries of events_fts
          bad,        \* ids whose projected columns do not match their JSON
          lost,       \* ids whose raw XDR cannot be read any more
          unindexed,  \* history: ids stored before the address table was made
          unsearched, \* history: ids stored before events_fts was made
          file,       \* the NDJSON snapshot
          fts5,       \* the processes whose SQLite build has FTS5; never changes
          proc,       \* [pc, seen]: where a process is, what it read before BEGIN
          downs, faults

vars == <<applied, tables, rows, addresses, fts, bad, lost, unindexed,
          unsearched, file, fts5, proc, downs, faults>>
schema == <<applied, tables, unindexed, unsearched, downs>>
data   == <<rows, addresses, fts, bad, lost>>

Versions == 1..6
EventsTable == 1
AddressTable == 4
SearchTable == 5
Triggers == 7         \* the triggers of migration 5, which go with either table
Ids == 1..MaxId
Stored == DOMAIN rows
Without(f, S) == [x \in DOMAIN f \ S |-> f[x]]

At(p, pc) == proc[p].pc = pc
Go(p, pc, seen) == proc' = [proc EXCEPT ![p] = [pc |-> pc, seen |-> seen]]

Init ==
    /\ applied = {} /\ tables = {} /\ rows = <<>> /\ addresses = {} /\ fts = {}
    /\ bad = {} /\ lost = {} /\ unindexed = {} /\ unsearched = {} /\ file = <<>>
    /\ proc = [p \in Procs |-> [pc |-> "down", seen |-> {}]]
    /\ fts5 \in SUBSET Procs
    /\ downs = 0 /\ faults = 0

\* decodeEvent() never throws: what it cannot decode is stored with its error.
Decode(p, id) == IF p \in Upgraded THEN "new" ELSE IF id \in Hard THEN "error" ELSE "old"

\* The insert, update and delete triggers of migration 5 run in every process
\* that writes, and need the extension.
Triggered == Triggers \in tables
CanWrite(p) == {EventsTable, AddressTable} \subseteq tables /\ (Triggered => p \in fts5)

Open(p) ==
    /\ At(p, "down")
    /\ LET pending == Versions \ applied
       IN  Go(p, IF pending = {} THEN "up" ELSE "opening", pending)
    /\ UNCHANGED <<schema, data, file, faults>>

\* Variant: the process that loses the race is left as it is.
MigrateOnceOnly(p) ==
    /\ At(p, "opening") /\ proc[p].seen \cap applied = {}
    /\ applied' = applied \cup proc[p].seen /\ tables' = tables \cup proc[p].seen
    /\ Go(p, "up", {})
    /\ UNCHANGED <<data, unindexed, unsearched, downs, file, faults>>

\* The up SQL of these versions runs: CREATE TABLE fails if another process was
\* faster, indexes and triggers need the table of events.
CanRun(run) ==
    /\ run \cap tables = {}
    /\ run \cap {2, 3, SearchTable} # {} => EventsTable \in tables \cup run

\* One transaction for all pending migrations.  If one fails everything rolls back
\* and the constructor throws.
Migrate(p) ==
    /\ At(p, "opening")
    /\ LET pending == proc[p].seen
           run == IF p \in fts5 THEN pending ELSE pending \ {SearchTable}
       IN  IF pending \cap applied = {} /\ CanRun(run)
           THEN /\ applied' = applied \cup pending
                /\ tables' = tables \cup run \cup (IF SearchTable \in run THEN {Triggers} ELSE {})
                /\ unindexed' = IF AddressTable \in run THEN Stored ELSE unindexed
                /\ unsearched' = IF SearchTable \in run THEN Stored ELSE unsearched
                /\ Go(p, "up", {})
           ELSE UNCHANGED schema /\ Go(p, "down", {})
    /\ UNCHANGED <<data, file, downs, faults>>

MigrateDown(p, to) ==
    /\ At(p, "up") /\ downs < MaxDowns
    /\ \E m \in applied : m > to
    /\ Go(p, "rolling back", {m \in applied : m > to})
    /\ downs' = downs + 1
    /\ UNCHANGED <<applied, tables, unindexed, unsearched, data, file, faults>>

\* The triggers and, by ON DELETE CASCADE, the address entries go with the events.
RollBackTables(gone) ==
    /\ tables' = tables \ (gone \cup IF {EventsTable, SearchTable} \cap gone # {} THEN {Triggers} ELSE {})
    /\ rows' = IF EventsTable \in gone THEN <<>> ELSE rows
    /\ addresses' = IF {EventsTable, AddressTable} \cap gone # {} THEN {} ELSE addresses
    /\ fts' = IF SearchTable \in gone THEN {} ELSE fts
    /\ IF EventsTable \in gone THEN bad' = {} /\ lost' = {} ELSE UNCHANGED <<bad, lost>>

\* Variant: the version row of the last migration is left behind.
RollBackKeepsRecord(p) ==
    /\ At(p, "rolling back")
    /\ RollBackTables(proc[p].seen)
    /\ applied' = applied \ (proc[p].seen \ {Max(proc[p].seen)})
    /\ Go(p, "down", {})
    /\ UNCHANGED <<unindexed, unsearched, downs, file, faults>>

\* The down SQL of every version above the target, newest first, in one
\* transaction.  lens migrate --down then closes the store.
RollBack(p) ==
    /\ At(p, "rolling back")
    /\ RollBackTables(proc[p].seen)
    /\ applied' = applied \ proc[p].seen
    /\ Go(p, "down", {})
    /\ UNCHANGED <<unindexed, unsearched, downs, file, faults>>

\* The rows `new` (a function) that INSERT OR IGNORE really adds, the addresses
\* of those and the search entries of the trigger.
AddRows(new) ==
    LET fresh == DOMAIN new \ Stored IN
    /\ rows' = [id \in Stored \cup fresh |-> IF id \in fresh THEN new[id] ELSE rows[id]]
    /\ addresses' = addresses \cup (fresh \ Plain)
    /\ fts' = IF Triggered THEN fts \cup {<<id, new[id]>> : id \in fresh} ELSE fts
    /\ UNCHANGED <<bad, lost>>

InsertDecoded(p, S) ==
    /\ At(p, "up")
    /\ IF CanWrite(p)
       THEN AddRows([id \in S |-> Decode(p, id)]) /\ UNCHANGED proc
       ELSE UNCHANGED data /\ Go(p, "down", {})
    /\ UNCHANGED <<schema, file, faults>>

\* DELETE FROM events: ON DELETE CASCADE and the delete trigger do the rest.
DeleteRows(S) ==
    /\ rows' = Without(rows, S)
    /\ bad' = bad \ S
    /\ lost' = lost \ S
    /\ addresses' = addresses \ S
    /\ fts' = IF Triggered THEN {e \in fts : e[1] \notin S} ELSE fts

PruneBefore(p, ledger) ==
    /\ At(p, "up") /\ CanWrite(p)
    /\ \E id \in Stored : id < ledger
    /\ DeleteRows({id \in Stored : id < ledger})
    /\ unindexed' = unindexed \ (1..(ledger - 1))
    /\ unsearched' = unsearched \ (1..(ledger - 1))
    /\ UNCHANGED <<applied, tables, downs, file, proc, faults>>

\* redecode(): the rows are read before the transaction begins.
Redecode(p, all) ==
    /\ At(p, "up") /\ CanWrite(p)
    /\ LET read == {id \in Stored : all \/ rows[id] = "error"}
       IN  read # {} /\ Go(p, "rewriting", read)
    /\ UNCHANGED <<schema, data, file, faults>>

\* lens verify --repair: one repairRow() for each row checkIntegrity() reported,
\* in turn; the list grows stale while it is worked through.
Verify(p) ==
    /\ At(p, "up") /\ EventsTable \in tables
    /\ bad \cup lost # {}
    /\ Go(p, "repairing", bad \cup lost)
    /\ UNCHANGED <<schema, data, file, faults>>

\* UPDATE, delete the address entries, extract them again.  A row pruned since
\* it was read is not updated and its address entries violate the foreign key;
\* a row without readable XDR throws.  Either way the transaction rolls back.
Rewrites(p, S) == CanWrite(p) /\ S \ Stored \subseteq Plain /\ S \cap lost = {}

\* Variant: the rewritten text is not indexed again.
RewriteRowsStaleText(p, S) ==
    /\ rows' = [id \in Stored |-> IF id \in S THEN Decode(p, id) ELSE rows[id]]
    /\ addresses' = (addresses \ S) \cup ((Stored \cap S) \ Plain)
    /\ bad' = bad \ S /\ UNCHANGED <<lost, fts>>

RewriteRows(p, S) ==
    LET kept == Stored \cap S IN
    /\ rows' = [id \in Stored |-> IF id \in S THEN Decode(p, id) ELSE rows[id]]
    /\ addresses' = (addresses \ S) \cup (kept \ Plain)
    /\ fts' = IF Triggered
              THEN {e \in fts : e[1] \notin S} \cup {<<id, Decode(p, id)>> : id \in kept}
              ELSE fts
    /\ bad' = bad \ S
    /\ UNCHANGED lost

Reindexed(S) ==
    /\ unindexed' = unindexed \ S
    /\ unsearched' = IF Triggered THEN unsearched \ S ELSE unsearched

Rewrite(p) ==
    /\ At(p, "rewriting")
    /\ IF Rewrites(p, proc[p].seen)
       THEN RewriteRows(p, proc[p].seen) /\ Reindexed(proc[p].seen) /\ Go(p, "up", {})
       ELSE UNCHANGED <<data, unindexed, unsearched>> /\ Go(p, "down", {})
    /\ UNCHANGED <<applied, tables, downs, file, faults>>

RepairRow(p) ==
    /\ At(p, "repairing")
    /\ LET id == Min(proc[p].seen)
           rest == proc[p].seen \ {id}
           done == Go(p, IF rest = {} THEN "up" ELSE "repairing", rest)
       IN  \/ /\ id \notin Stored
              /\ done /\ UNCHANGED <<data, unindexed, unsearched>>
           \/ /\ id \in Stored /\ Rewrites(p, {id})
              /\ RewriteRows(p, {id}) /\ Reindexed({id}) /\ done
           \/ /\ id \in Stored /\ ~Rewrites(p, {id})
              /\ Go(p, "down", {}) /\ UNCHANGED <<data, unindexed, unsearched>>
    /\ UNCHANGED <<applied, tables, downs, file, faults>>

RebuildSearchIndex(p) ==
    /\ At(p, "up") /\ p \in fts5 /\ SearchTable \in tables
    /\ fts' = {<<id, rows[id]>> : id \in Stored}
    /\ unsearched' = {}
    /\ UNCHANGED <<applied, tables, unindexed, downs, rows, addresses, bad, lost, file, proc, faults>>

\* VACUUM INTO is one point in time; a row that cannot be read fails the export.
ExportSnapshot(p) ==
    /\ At(p, "up") /\ EventsTable \in tables /\ lost = {} /\ rows # file
    /\ \A q \in Procs : ~At(q, "importing")   \* nobody reads the file being written
    /\ file' = rows
    /\ UNCHANGED <<schema, data, proc, faults>>

ImportSnapshot(p) ==
    /\ At(p, "up") /\ DOMAIN file # {}
    /\ Go(p, "importing", DOMAIN file)
    /\ UNCHANGED <<schema, data, file, faults>>

\* One batch, one transaction; what is stored already stays as it is.
ImportBatch(p) ==
    /\ At(p, "importing")
    /\ LET todo == proc[p].seen
           batch == {id \in todo : Cardinality({i \in todo : i < id}) < BatchSize}
       IN  IF CanWrite(p)
           THEN /\ AddRows([id \in batch |-> file[id]])
                /\ Go(p, IF batch = todo THEN "up" ELSE "importing", todo \ batch)
           ELSE UNCHANGED data /\ Go(p, "down", {})
    /\ UNCHANGED <<schema, file, faults>>

\* A disk fault or a hand edit: the projected columns, or the raw XDR.
Damage(id) ==
    /\ faults < MaxFaults /\ faults' = faults + 1
    /\ \/ bad' = bad \cup {id} /\ UNCHANGED lost
       \/ lost' = lost \cup {id} /\ UNCHANGED bad
    /\ UNCHANGED <<schema, rows, addresses, fts, file, proc>>

\* A kill anywhere: SQLite rolls back the transaction that was open.
Exit(p) ==
    /\ ~At(p, "down") /\ Go(p, "down", {})
    /\ UNCHANGED <<schema, data, file, faults>>

Next ==
  /\ UNCHANGED fts5
  /\ \/ \E p \in Procs :
           \/ Open(p) \/ Migrate(p) \/ RollBack(p) \/ Verify(p) \/ Rewrite(p) \/ RepairRow(p)
           \/ RebuildSearchIndex(p) \/ ExportSnapshot(p) \/ ImportSnapshot(p) \/ ImportBatch(p)
           \/ Exit(p)
           \/ \E to \in Versions \cup {0} : MigrateDown(p, to)
           \/ \E S \in SUBSET Ids \ {{}} : InsertDecoded(p, S)
           \/ \E ledger \in 2..(MaxId + 1) : PruneBefore(p, ledger)
           \/ \E all \in BOOLEAN : Redecode(p, all)
     \/ \E id \in Stored : Damage(id)

\* A process that died is started again; it is not killed in its start for ever.
Spec ==
    /\ Init /\ [][Next]_vars
    /\ \A p \in Procs : WF_vars(Open(p) /\ UNCHANGED fts5) /\ SF_vars(Migrate(p) /\ UNCHANGED fts5)

-----------------------------------------------------------------------------
\* The recorded versions are the ones whose objects exist (but for a skipped migration
\* 5), and a whole prefix of the migrations, whoever loses the start-up race or dies in
\* it (sqlite-store.ts 199-246, 156-197).  A second rollback beside a start can leave a
\* gap, which the next start fills.
SchemaWhole ==
    /\ downs <= 1 => \E v \in 0..6 : applied = 1..v
    /\ tables \subseteq applied \cup {Triggers}
    /\ applied \ tables \subseteq {SearchTable}

\* The address index has entries of exactly the stored events that mention an
\* address, and the search index the current text of exactly the stored events,
\* but for rows older than the index itself, whatever prunes, imports and
\* rewrites come between a read and its transaction (251-302, 644-680, 763-941).
IndexesInStep ==
    /\ addresses \subseteq Stored \ Plain
    /\ AddressTable \in tables => Stored \ (Plain \cup unindexed) \subseteq addresses
    /\ Triggered => /\ {e \in fts : e[1] \notin unsearched}
                           = {<<id, rows[id]>> : id \in Stored \ unsearched}
                    /\ \A e \in fts : e[1] \in Stored /\ e[2] = rows[e[1]]

\* Processes that open one database at the same time all get there: the loser
\* of the race throws, and finds the schema in place when it is started again
\* (199-246; docker-compose.yml and the systemd units restart it).
EveryProcessOpens == \A p \in Procs : <>At(p, "up")
=============================================================================
