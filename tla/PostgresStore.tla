--------------------------- MODULE PostgresStore ---------------------------
(***************************************************************************)
(* PostgresEventStore: methods that run at the same time, in one process   *)
(* or several, over a pool of connections.  Here every statement of a      *)
(* transaction is a step: it waits for the row locks of other transactions *)
(* and its effect is invisible until COMMIT (READ COMMITTED).              *)
(*                                                                         *)
(* A call is a record: kind, pc, the ids still to do, what it has inserted,*)
(* what it has locked (rewritten or deleted), and for an export what it has*)
(* written.  todo of a rewrite or a delete is taken in the order of the    *)
(* scan, which nothing fixes; a batch is inserted in its own order.        *)
(***************************************************************************)
EXTENDS Naturals, FiniteSets, FiniteSetsExt

CONSTANTS Calls,      \* calls of store methods
          PgPoolSize,   \* connections of the pool
          PgMaxId,    \* events 1..PgMaxId, in chronological order
          PgPlain     \* events that mention no address

ASSUME PgAssumption == PgMaxId \in Nat /\ PgPoolSize \in Nat

VARIABLES pgRows,     \* committed rows
          pgAddresses,\* committed entries of event_addresses (by event)
          migrated,   \* how often the pending migrations have been applied
          advisory,   \* holders of pg_advisory_xact_lock
          call

pgVars == <<pgRows, pgAddresses, migrated, advisory, call>>

Free == PgPoolSize - Cardinality({c \in Calls : call[c].pc \notin {"idle", "connect", "done", "failed"}})
Started(kind, todo) == [kind |-> kind, pc |-> "connect", todo |-> todo, new |-> {}, locks |-> {}, out |-> {}]

PgInit ==
    /\ pgRows = {} /\ pgAddresses = {} /\ migrated = 0 /\ advisory = {}
    /\ call = [c \in Calls |-> [Started("none", {}) EXCEPT !.pc = "idle"]]

\* insertDecoded(), or a batch of importSnapshot().
StartInsert(c) ==
    \E S \in SUBSET (1..PgMaxId) \ {{}} : call' = [call EXCEPT ![c] = Started("insert", S)]

\* redecode(), and repairRow() its one row, read through the pool before the
\* transaction.
StartRewrite(c) ==
    \E S \in {pgRows} \cup {{id} : id \in pgRows} :
        S # {} /\ call' = [call EXCEPT ![c] = Started("rewrite", S)]

\* A store is migrated before it is used.  pruneBefore() is one statement.
Start(c) ==
    /\ call[c].pc = "idle"
    /\ IF migrated = 0 THEN call' = [call EXCEPT ![c] = Started("migrate", {})]
       ELSE \/ StartInsert(c) \/ StartRewrite(c)
            \/ \E l \in 2..(PgMaxId + 1) : call' = [call EXCEPT ![c] = Started("delete", 1..(l - 1))]
            \/ call' = [call EXCEPT ![c] = Started("export", {})]
    /\ UNCHANGED <<pgRows, pgAddresses, migrated, advisory>>

Connect(c) ==
    /\ call[c].pc = "connect" /\ Free > 0
    /\ call' = [call EXCEPT ![c].pc = "begin"]
    /\ UNCHANGED <<pgRows, pgAddresses, migrated, advisory>>

\* Variant: a transaction reads through the pool, on another connection, first.
BeginThroughPool(c) ==
    /\ call[c].pc = "begin" /\ Free > 0
    /\ call' = [call EXCEPT ![c].pc = "run"]
    /\ UNCHANGED <<pgRows, pgAddresses, migrated, advisory>>

\* BEGIN.  A migration waits for the advisory lock, and only then reads which
\* versions are applied; an export takes its snapshot; a delete finds its rows.
Begin(c) ==
    /\ call[c].pc = "begin"
    /\ IF call[c].kind = "migrate"
       THEN /\ advisory = {} /\ advisory' = {c}
            /\ call' = [call EXCEPT ![c].pc = "run", ![c].todo = IF migrated = 0 THEN {1} ELSE {}]
       ELSE /\ UNCHANGED advisory
            /\ call' = [call EXCEPT ![c].pc = "run",
                            ![c].todo = CASE call[c].kind = "export" -> pgRows
                                          [] call[c].kind = "delete" -> @ \cap pgRows
                                          [] OTHER -> @]
    /\ UNCHANGED <<pgRows, pgAddresses, migrated>>

\* A transaction that ends releases its locks.
Close(c, pc) == [call EXCEPT ![c].pc = pc, ![c].todo = {}, ![c].new = {}, ![c].locks = {}]

Running(c, kind) == call[c].pc = "run" /\ call[c].kind = kind /\ call[c].todo # {}
LockedBy(d, id) == id \in call[d].new \cup call[d].locks
Blocked(c, id) == \E d \in Calls \ {c} : LockedBy(d, id)

\* Variant: the rows of a batch in no particular order.
NextRowsAny(c) == call[c].todo
\* A page of the RPC node, and a snapshot, is in order of ids.
NextRows(c) == IF call[c].kind = "insert" THEN {Min(call[c].todo)} ELSE call[c].todo

\* INSERT ... ON CONFLICT DO NOTHING waits for an uncommitted insert of the same
\* id (or its delete), and skips a row that is there.
InsertRow(c) ==
    /\ Running(c, "insert")
    /\ \E id \in NextRows(c) :
          /\ ~Blocked(c, id)
          /\ call' = [call EXCEPT ![c].todo = @ \ {id}, ![c].new = IF id \in pgRows THEN @ ELSE @ \cup {id}]
    /\ UNCHANGED <<pgRows, pgAddresses, migrated, advisory>>

\* UPDATE one row, then its address entries.  If the row is gone the update finds
\* nothing and the first address entry violates the foreign key.
RewriteRow(c) ==
    /\ Running(c, "rewrite")
    /\ \E id \in NextRows(c) :
          /\ ~Blocked(c, id)
          /\ call' = IF id \in pgRows
                     THEN [call EXCEPT ![c].todo = @ \ {id}, ![c].locks = @ \cup {id}]
                     ELSE IF id \in PgPlain THEN [call EXCEPT ![c].todo = @ \ {id}]
                     ELSE Close(c, "failed")
    /\ UNCHANGED <<pgRows, pgAddresses, migrated, advisory>>

DeleteRow(c) ==
    /\ Running(c, "delete")
    /\ \E id \in NextRows(c) :
          /\ ~Blocked(c, id)
          /\ call' = [call EXCEPT ![c].todo = @ \ {id},
                                  ![c].locks = IF id \in pgRows THEN @ \cup {id} ELSE @]
    /\ UNCHANGED <<pgRows, pgAddresses, migrated, advisory>>

\* exportSnapshot() reads on in id order, in batches (of one row here), from the
\* snapshot of its transaction.
ExportRow(c) ==
    /\ Running(c, "export")
    /\ LET id == Min(call[c].todo)
       IN  call' = [call EXCEPT ![c].todo = @ \ {id}, ![c].out = @ \cup {id}]
    /\ UNCHANGED <<pgRows, pgAddresses, migrated, advisory>>

\* Variant: deleting a row leaves its address entries (no ON DELETE CASCADE).
CommitLeavesEntries(c) ==
    /\ call[c].pc = "run"
    /\ call[c].todo = {} \/ call[c].kind = "migrate"
    /\ LET put == call[c].new \cup (IF call[c].kind = "rewrite" THEN call[c].locks ELSE {})
       IN  /\ pgRows' = (pgRows \cup call[c].new) \ (IF call[c].kind = "delete" THEN call[c].locks ELSE {})
           /\ pgAddresses' = pgAddresses \cup (put \ PgPlain)
    /\ migrated' = IF call[c].kind = "migrate" /\ call[c].todo # {} THEN migrated + 1 ELSE migrated
    /\ advisory' = advisory \ {c}
    /\ call' = Close(c, "done")

\* COMMIT and release.
Commit(c) ==
    /\ call[c].pc = "run"
    /\ call[c].todo = {} \/ call[c].kind = "migrate"
    /\ LET gone == IF call[c].kind = "delete" THEN call[c].locks ELSE {}
           put == call[c].new \cup (IF call[c].kind = "rewrite" THEN call[c].locks ELSE {})
       IN  /\ pgRows' = (pgRows \cup call[c].new) \ gone
           /\ pgAddresses' = (pgAddresses \cup (put \ PgPlain)) \ gone
    /\ migrated' = IF call[c].kind = "migrate" /\ call[c].todo # {} THEN migrated + 1 ELSE migrated
    /\ advisory' = advisory \ {c}
    /\ call' = Close(c, "done")

\* ROLLBACK and release: an error of a statement, a lost connection, or the
\* server's choice of a victim when transactions wait for each other.
Rollback(c) ==
    /\ call[c].pc \in {"begin", "run"}
    /\ call' = Close(c, "failed")
    /\ advisory' = advisory \ {c}
    /\ UNCHANGED <<pgRows, pgAddresses, migrated>>

\* c cannot take its next step before d ends.
WaitsFor(c, d) ==
    /\ c # d /\ call[c].pc = "run" /\ call[c].todo # {} /\ call[c].kind \in {"insert", "rewrite", "delete"}
    /\ \A id \in NextRows(c) : Blocked(c, id)
    /\ \E id \in NextRows(c) : LockedBy(d, id)
Deadlocked(c) == \E d \in Calls : WaitsFor(c, d) /\ WaitsFor(d, c)

\* A call that ended is forgotten; its method may be called again.
Return(c) ==
    /\ call[c].pc \in {"done", "failed"}
    /\ call' = [call EXCEPT ![c] = [Started("none", {}) EXCEPT !.pc = "idle"]]
    /\ UNCHANGED <<pgRows, pgAddresses, migrated, advisory>>

PgStep(c) == Begin(c) \/ InsertRow(c) \/ RewriteRow(c) \/ DeleteRow(c) \/ ExportRow(c) \/ Commit(c)
PgNext ==
    \E c \in Calls : Start(c) \/ Connect(c) \/ PgStep(c) \/ Rollback(c) \/ Return(c)

\* The pool and the server's locks both queue: who waits comes to its turn.
PgFairness ==
    \A c \in Calls : /\ SF_pgVars(Connect(c)) /\ SF_pgVars(PgStep(c)) /\ WF_pgVars(Return(c))
                     /\ WF_pgVars(Deadlocked(c) /\ Rollback(c))

PgSpec == PgInit /\ [][PgNext]_pgVars /\ PgFairness

-----------------------------------------------------------------------------
\* Two indexers, or an indexer and an import, that insert the same events never
\* wait for each other in a circle, because both insert in order of ids
\* (postgres-store.ts 285-302, 840-860).
InsertersDoNotDeadlock ==
    \A c, d \in Calls : call[c].kind = "insert" /\ call[d].kind = "insert"
                            => ~(WaitsFor(c, d) /\ WaitsFor(d, c))

\* Entries of the address index are of stored events, and every committed event
\* that mentions one has them, whatever prune commits between the read of a
\* redecode and its transaction (172-187, 679-747).
PgAddressesInStep == pgAddresses = pgRows \ PgPlain

\* Every call ends: no call waits for a connection another holds for ever, or for
\* a lock in a circle that the server does not break (172-187).
CallsEnd == \A c \in Calls : []<>(call[c].pc = "idle")
=============================================================================
