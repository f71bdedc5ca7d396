---------------------------- MODULE StoreProofs ----------------------------
(***************************************************************************)
(* Proofs about the two stores.  SqliteStore, for every number of          *)
(* processes, events, kills, rollbacks and damaged rows: the recorded      *)
(* versions and the objects agree and form a prefix through any race of    *)
(* starts with one rollback, and the address and search indexes follow the *)
(* rows.  PostgresStore, for every number of calls, connections and        *)
(* events: the address index follows the rows whatever runs beside what,   *)
(* transactions that insert never wait for each other in a circle of any   *)
(* length, and migrations are applied once however many processes start.   *)
(***************************************************************************)
EXTENDS SqliteStore, PostgresStore, PageProofs

-----------------------------------------------------------------------------
(* SqliteStore: the inductive invariant. *)

PCs == {"down", "opening", "up", "rolling back", "rewriting", "repairing", "importing"}

IsAFunctionOf(f, S) == f = [x \in DOMAIN f |-> f[x]] /\ DOMAIN f \subseteq S

TypeOK ==
    /\ applied \in SUBSET Versions /\ tables \in SUBSET (Versions \cup {Triggers})
    /\ IsAFunctionOf(rows, Ids) /\ IsAFunctionOf(file, Ids)
    /\ bad \in SUBSET Ids /\ lost \in SUBSET Ids
    /\ \A e \in fts : e = <<e[1], e[2]>>
    /\ proc \in [Procs -> [pc : PCs, seen : SUBSET Nat]]
    /\ \A p \in Procs : At(p, "opening") => proc[p].seen \subseteq Versions
    /\ \A p \in Procs : At(p, "importing") => proc[p].seen \subseteq Ids
    /\ downs \in Nat

\* Before the first rollback a process that opens the database has read nothing or
\* everything.
NoRollbackYet ==
    downs = 0 =>
        /\ applied \in {{}, Versions}
        /\ \A p \in Procs : ~At(p, "rolling back") /\ (At(p, "opening") => proc[p].seen = Versions)

\* After it, one that has read a prefix has not read more than is there.
OneRollback ==
    downs = 1 =>
        /\ \E v \in 0..6 :
              /\ applied = 1..v
              /\ \A p \in Procs : At(p, "opening") => \E w \in 0..v : proc[p].seen = (w + 1)..6
        /\ \A p \in Procs : At(p, "rolling back") =>
              /\ applied = Versions
              /\ \E to \in 0..6 : proc[p].seen = (to + 1)..6
              /\ \A q \in Procs : At(q, "opening") => proc[q].seen = Versions
              /\ \A q \in Procs : At(q, "rolling back") => q = p

ObjectsInv ==
    /\ tables \subseteq applied \cup {Triggers}
    /\ applied \ tables \subseteq {SearchTable}
    /\ Triggered => SearchTable \in tables
    /\ SearchTable \notin tables => fts = {}

SqInv == TypeOK /\ NoRollbackYet /\ OneRollback /\ ObjectsInv /\ IndexesInStep
-----------------------------------------------------------------------------
(* Operators on rows.                                                         *)

LEMMA EmptyRows == DOMAIN <<>> = {} /\ IsAFunctionOf(<<>>, Ids)
  BY DEF IsAFunctionOf

LEMMA InitSq == Init => SqInv
<1>1. SUFFICES ASSUME Init PROVE SqInv
  OBVIOUS
<1>2. TypeOK
  BY <1>1, EmptyRows DEF Init, TypeOK, PCs, At
<1>3. NoRollbackYet /\ OneRollback /\ ObjectsInv
  <2>1. OneRollback
    <3>1. downs # 1
      BY <1>1 DEF Init
    <3>2. QED
      BY <3>1 DEF OneRollback
  <2>2. NoRollbackYet
    BY <1>1 DEF Init, NoRollbackYet, At
  <2>3. ObjectsInv
    BY <1>1 DEF Init, ObjectsInv, Triggered, Triggers, SearchTable
  <2>4. QED
    BY <2>1, <2>2, <2>3
<1>4. IndexesInStep
  BY <1>1, EmptyRows DEF Init, IndexesInStep, Stored, Triggered, AddressTable
<1>5. QED
  BY <1>2, <1>3, <1>4 DEF SqInv
\* What a step of p does to proc.
LEMMA GoType ==
    ASSUME TypeOK, NEW p \in Procs, NEW pc \in PCs, NEW seen \in SUBSET Nat, Go(p, pc, seen)
    PROVE  /\ proc' \in [Procs -> [pc : PCs, seen : SUBSET Nat]]
           /\ proc'[p].pc = pc /\ proc'[p].seen = seen
           /\ \A q \in Procs \ {p} : proc'[q] = proc[q]
  BY DEF TypeOK, Go

\* A step that changes no version, no table and starts neither a migration nor a
\* rollback leaves what the races rest on.
LEMMA SchemaKept ==
    ASSUME SqInv, UNCHANGED <<applied, tables, downs>>,
           \A q \in Procs : \/ proc'[q] = proc[q]
                            \/ proc'[q].pc \notin {"opening", "rolling back"}
    PROVE  NoRollbackYet' /\ OneRollback'
<1>1. \A q \in Procs : /\ At(q, "opening")' => At(q, "opening") /\ proc'[q] = proc[q]
                       /\ At(q, "rolling back")' => At(q, "rolling back") /\ proc'[q] = proc[q]
  BY DEF At
<1>2. NoRollbackYet'
  BY <1>1 DEF SqInv, NoRollbackYet
<1>3. OneRollback'
  <2>1. SUFFICES ASSUME downs = 1 PROVE OneRollback'
    BY DEF OneRollback
  <2>2. PICK v \in 0..6 :
           /\ applied = 1..v
           /\ \A p \in Procs : At(p, "opening") => \E w \in 0..v : proc[p].seen = (w + 1)..6
    BY <2>1 DEF SqInv, OneRollback
  <2>3. \A p \in Procs : At(p, "opening")' => \E w \in 0..v : proc'[p].seen = (w + 1)..6
    BY <1>1, <2>2
  <2>4. ASSUME NEW p \in Procs, At(p, "rolling back")'
        PROVE  /\ applied' = Versions
               /\ \E to \in 0..6 : proc'[p].seen = (to + 1)..6
               /\ \A q \in Procs : At(q, "opening")' => proc'[q].seen = Versions
               /\ \A q \in Procs : At(q, "rolling back")' => q = p
    <3>1. /\ applied = Versions
          /\ \E to \in 0..6 : proc[p].seen = (to + 1)..6
          /\ \A q \in Procs : At(q, "opening") => proc[q].seen = Versions
          /\ \A q \in Procs : At(q, "rolling back") => q = p
      BY <1>1, <2>1, <2>4 DEF SqInv, OneRollback
    <3>2. proc'[p] = proc[p] /\ applied' = applied
      BY <1>1, <2>4
    <3>3. QED
      BY <1>1, <3>1, <3>2
  <2>5. applied' = 1..v
    BY <2>2
  <2>6. QED
    BY <2>3, <2>4, <2>5 DEF OneRollback
<1>4. QED
  BY <1>2, <1>3

\* Where a step may take a process without touching the races.
Moved(p) ==
    \/ proc' = proc
    \/ \E pc \in PCs \ {"opening", "rolling back"}, seen \in SUBSET Nat :
          Go(p, pc, seen) /\ (pc = "importing" => seen \subseteq Ids)

LEMMA Moves ==
    ASSUME NEW p \in Procs, NEW pc \in PCs \ {"opening", "rolling back"}, NEW seen \in SUBSET Nat,
           Go(p, pc, seen), pc = "importing" => seen \subseteq Ids
    PROVE  Moved(p)
  BY DEF Moved

\* A step that changes rows and indexes but no version and no table.
LEMMA DataStep ==
    ASSUME SqInv, NEW p \in Procs, Moved(p), UNCHANGED <<applied, tables, downs>>,
           IsAFunctionOf(rows', Ids), IsAFunctionOf(file', Ids),
           bad' \in SUBSET Ids, lost' \in SUBSET Ids,
           \A e \in fts' : e = <<e[1], e[2]>>,
           SearchTable \notin tables => fts' = {},
           IndexesInStep'
    PROVE  SqInv'
<1>1. /\ proc' \in [Procs -> [pc : PCs, seen : SUBSET Nat]]
      /\ \A q \in Procs : \/ proc'[q] = proc[q]
                          \/ /\ proc'[q].pc \notin {"opening", "rolling back"}
                             /\ proc'[q].pc = "importing" => proc'[q].seen \subseteq Ids
  <2>1. CASE proc' = proc
    BY <2>1 DEF SqInv, TypeOK
  <2>2. CASE \E pc \in PCs \ {"opening", "rolling back"}, seen \in SUBSET Nat :
                Go(p, pc, seen) /\ (pc = "importing" => seen \subseteq Ids)
    <3>1. PICK pc \in PCs \ {"opening", "rolling back"}, seen \in SUBSET Nat :
                Go(p, pc, seen) /\ (pc = "importing" => seen \subseteq Ids)
      BY <2>2
    <3>2. /\ proc' \in [Procs -> [pc : PCs, seen : SUBSET Nat]]
          /\ proc'[p].pc = pc /\ proc'[p].seen = seen
          /\ \A q \in Procs \ {p} : proc'[q] = proc[q]
      BY <3>1, GoType DEF SqInv
    <3>3. QED
      BY <3>1, <3>2
  <2>3. QED
    BY <2>1, <2>2 DEF Moved
<1>2. NoRollbackYet' /\ OneRollback'
  BY <1>1, SchemaKept
<1>3. TypeOK'
  BY <1>1 DEF SqInv, TypeOK, At
<1>4. ObjectsInv'
  BY DEF SqInv, ObjectsInv, Triggered
<1>5. QED
  BY <1>2, <1>3, <1>4 DEF SqInv

LEMMA QuietStep ==
    ASSUME SqInv, NEW p \in Procs, Moved(p),
           UNCHANGED <<applied, tables, downs, unindexed, unsearched, rows, addresses, fts>>,
           IsAFunctionOf(file', Ids), bad' \in SUBSET Ids, lost' \in SUBSET Ids
    PROVE  SqInv'
<1>1. IndexesInStep'
  BY DEF SqInv, IndexesInStep, Stored, Triggered
<1>2. IsAFunctionOf(rows', Ids) /\ \A e \in fts' : e = <<e[1], e[2]>>
  BY DEF SqInv, TypeOK
<1>3. SearchTable \notin tables => fts' = {}
  BY DEF SqInv, ObjectsInv
<1>4. QED
  BY <1>1, <1>2, <1>3, DataStep

\* A process goes down, whatever became of the transaction it had open.
LEMMA GoesDown ==
    ASSUME SqInv, NEW p \in Procs, UNCHANGED <<schema, data, file>>, Go(p, "down", {})
    PROVE  SqInv'
<1>1. Moved(p)
  <2>1. "down" \in PCs \ {"opening", "rolling back"} /\ {} \in SUBSET Nat /\ "down" # "importing"
    BY DEF PCs
  <2>2. QED
    BY <2>1, Moves
<1>2. IsAFunctionOf(file', Ids) /\ bad' \in SUBSET Ids /\ lost' \in SUBSET Ids
  BY DEF data, SqInv, TypeOK
<1>3. QED
  BY <1>1, <1>2, QuietStep DEF schema, data

LEMMA QuietActions ==
    ASSUME SqInv, NEW p \in Procs,
           \/ \E all \in BOOLEAN : Redecode(p, all)
           \/ Verify(p) \/ ImportSnapshot(p) \/ ExportSnapshot(p) \/ Exit(p)
    PROVE  SqInv'
<1>0. /\ IsAFunctionOf(file, Ids) /\ bad \in SUBSET Ids /\ lost \in SUBSET Ids
      /\ IsAFunctionOf(rows, Ids) /\ Stored \subseteq Ids /\ DOMAIN file \subseteq Ids
      /\ Ids \subseteq Nat
  BY SqliteAssumption DEF SqInv, TypeOK, IsAFunctionOf, Stored, Ids
<1>1. CASE \E all \in BOOLEAN : Redecode(p, all)
  <2>1. PICK all \in BOOLEAN : Redecode(p, all)
    BY <1>1
  <2>2. /\ {id \in Stored : all \/ rows[id] = "error"} \in SUBSET Nat
        /\ "rewriting" \in PCs \ {"opening", "rolling back"} /\ "rewriting" # "importing"
    BY <1>0 DEF PCs
  <2>3. Moved(p)
    BY <2>1, <2>2, Moves DEF Redecode
  <2>4. QED
    BY <1>0, <2>1, <2>3, QuietStep DEF Redecode, schema, data
<1>2. CASE Verify(p)
  <2>1. Moved(p)
    BY <1>0, <1>2 DEF Verify, Moved, PCs
  <2>2. QED
    BY <1>0, <1>2, <2>1, QuietStep DEF Verify, schema, data
<1>3. CASE ImportSnapshot(p)
  <2>1. Moved(p)
    BY <1>0, <1>3 DEF ImportSnapshot, Moved, PCs
  <2>2. QED
    BY <1>0, <1>3, <2>1, QuietStep DEF ImportSnapshot, schema, data
<1>4. CASE ExportSnapshot(p)
  BY <1>0, <1>4, QuietStep DEF ExportSnapshot, Moved, schema, data
<1>5. CASE Exit(p)
  BY <1>5, GoesDown DEF Exit
<1>6. QED
  BY <1>1, <1>2, <1>3, <1>4, <1>5

-----------------------------------------------------------------------------
(* Starts and rollbacks: what they do to versions and objects.               *)

LEMMA OpenSq == ASSUME SqInv, NEW p \in Procs, Open(p) PROVE SqInv'
<1> DEFINE pending == Versions \ applied
           pc == IF pending = {} THEN "up" ELSE "opening"
<1>1. At(p, "down") /\ Go(p, pc, pending) /\ UNCHANGED <<schema, data, file, faults>>
  BY DEF Open
<1>2. pc \in PCs /\ pending \in SUBSET Nat /\ pending \subseteq Versions /\ pc # "rolling back"
      /\ pc # "importing" /\ (pc = "opening" => pending # {})
  BY DEF PCs, Versions
<1> HIDE DEF pending, pc
<1>3. /\ proc' \in [Procs -> [pc : PCs, seen : SUBSET Nat]]
      /\ proc'[p].pc = pc /\ proc'[p].seen = pending
      /\ \A q \in Procs \ {p} : proc'[q] = proc[q]
  BY <1>1, <1>2, GoType DEF SqInv
<1>4. TypeOK'
  BY <1>1, <1>2, <1>3 DEF SqInv, TypeOK, At, schema, data
<1>5. NoRollbackYet'
  <2>1. SUFFICES ASSUME downs = 0 PROVE NoRollbackYet'
    BY <1>1 DEF schema, NoRollbackYet
  <2>2. applied \in {{}, Versions}
    BY <2>1 DEF SqInv, NoRollbackYet
  <2>3. pc = "opening" => pending = Versions
    BY <1>2, <2>2 DEF pending
  <2>4. QED
    BY <1>1, <1>2, <1>3, <2>1, <2>3 DEF SqInv, NoRollbackYet, At, schema
<1>6. OneRollback'
  <2>1. SUFFICES ASSUME downs = 1 PROVE OneRollback'
    BY <1>1 DEF schema, OneRollback
  <2>2. PICK v \in 0..6 :
           /\ applied = 1..v
           /\ \A q \in Procs : At(q, "opening") => \E w \in 0..v : proc[q].seen = (w + 1)..6
    BY <2>1 DEF SqInv, OneRollback
  <2>3. pending = (v + 1)..6
    BY <2>2 DEF pending, Versions
  <2>4. \A q \in Procs : At(q, "opening")' => \E w \in 0..v : proc'[q].seen = (w + 1)..6
    BY <1>3, <2>2, <2>3 DEF At
  <2>5. ASSUME NEW r \in Procs, At(r, "rolling back")'
        PROVE  /\ applied' = Versions
               /\ \E to \in 0..6 : proc'[r].seen = (to + 1)..6
               /\ \A q \in Procs : At(q, "opening")' => proc'[q].seen = Versions
               /\ \A q \in Procs : At(q, "rolling back")' => q = r
    <3>1. r # p /\ proc'[r] = proc[r]
      BY <1>2, <1>3, <2>5 DEF At
    <3>2. /\ applied = Versions
          /\ \E to \in 0..6 : proc[r].seen = (to + 1)..6
          /\ \A q \in Procs : At(q, "opening") => proc[q].seen = Versions
          /\ \A q \in Procs : At(q, "rolling back") => q = r
      BY <2>1, <2>5, <3>1 DEF SqInv, OneRollback, At
    <3>3. pending = {}
      BY <3>2 DEF pending
    <3>4. ~At(p, "opening")' /\ ~At(p, "rolling back")'
      BY <1>2, <1>3, <3>3 DEF At
    <3>5. QED
      BY <1>1, <1>3, <3>1, <3>2, <3>4 DEF At, schema
  <2>6. QED
    BY <1>1, <2>2, <2>4, <2>5 DEF OneRollback, schema
<1>7. ObjectsInv' /\ IndexesInStep'
  BY <1>1 DEF SqInv, ObjectsInv, IndexesInStep, Triggered, Stored, schema, data
<1>8. QED
  BY <1>4, <1>5, <1>6, <1>7 DEF SqInv

LEMMA MigrateSq == ASSUME SqInv, NEW p \in Procs, Migrate(p) PROVE SqInv'
<1> DEFINE pending == proc[p].seen
           run == IF p \in fts5 THEN pending ELSE pending \ {SearchTable}
           made == IF SearchTable \in run THEN {Triggers} ELSE {}
<1>0. At(p, "opening") /\ pending \subseteq Versions /\ UNCHANGED <<data, file, downs, faults>>
  BY DEF Migrate, SqInv, TypeOK
<1>1. CASE ~(pending \cap applied = {} /\ CanRun(run))
  <2>1. UNCHANGED schema /\ Go(p, "down", {})
    BY <1>1 DEF Migrate
  <2>2. QED
    BY <1>0, <2>1, GoesDown
<1>2. CASE pending \cap applied = {} /\ CanRun(run)
  <2>1. /\ applied' = applied \cup pending
        /\ tables' = tables \cup run \cup made
        /\ unindexed' = IF AddressTable \in run THEN Stored ELSE unindexed
        /\ unsearched' = IF SearchTable \in run THEN Stored ELSE unsearched
        /\ Go(p, "up", {})
    BY <1>2 DEF Migrate
  <2>2. run \subseteq pending /\ pending \ run \subseteq {SearchTable} /\ run \cap tables = {}
        /\ made \subseteq {Triggers} /\ (Triggers \in made => SearchTable \in run)
    BY <1>2 DEF CanRun
  <2> HIDE DEF made, run
  <2>3. /\ proc' \in [Procs -> [pc : PCs, seen : SUBSET Nat]]
        /\ proc'[p].pc = "up" /\ proc'[p].seen = {}
        /\ \A q \in Procs \ {p} : proc'[q] = proc[q]
    <3>1. "up" \in PCs /\ {} \in SUBSET Nat
      BY DEF PCs
    <3>2. QED
      BY <2>1, <3>1, GoType DEF SqInv
  <2>4. \A q \in Procs : /\ At(q, "opening")' => At(q, "opening") /\ proc'[q] = proc[q]
                         /\ At(q, "rolling back")' => At(q, "rolling back") /\ proc'[q] = proc[q]
                         /\ At(q, "importing")' => At(q, "importing") /\ proc'[q] = proc[q]
    BY <2>3 DEF At
  <2>5. TypeOK'
    <3>1. applied' \in SUBSET Versions /\ tables' \in SUBSET (Versions \cup {Triggers})
      BY <1>0, <2>1, <2>2 DEF SqInv, TypeOK
    <3>2. QED
      BY <1>0, <2>3, <2>4, <3>1 DEF SqInv, TypeOK, data
  <2>6. NoRollbackYet'
    BY <1>0, <2>1, <2>4 DEF SqInv, NoRollbackYet
  <2>7. OneRollback'
    <3>1. SUFFICES ASSUME downs = 1 PROVE OneRollback'
      BY <1>0 DEF OneRollback
    <3>2. PICK v \in 0..6 :
             /\ applied = 1..v
             /\ \A q \in Procs : At(q, "opening") => \E w \in 0..v : proc[q].seen = (w + 1)..6
      BY <3>1 DEF SqInv, OneRollback
    <3>3. PICK w \in 0..v : pending = (w + 1)..6
      BY <1>0, <3>2
    <3>4. w = v
      <4>1. SUFFICES ASSUME w < v PROVE FALSE
        BY <3>3
      <4>2. w + 1 \in pending \cap applied
        BY <3>2, <3>3, <4>1
      <4>3. QED
        BY <1>2, <4>2
    <3>5. applied' = 1..6
      BY <2>1, <3>2, <3>3, <3>4
    <3>6. \A q \in Procs : At(q, "opening")' => \E u \in 0..6 : proc'[q].seen = (u + 1)..6
      <4>1. 0..v \subseteq 0..6
        OBVIOUS
      <4>2. QED
        BY <2>4, <3>2, <4>1
    <3>7. ASSUME NEW r \in Procs, At(r, "rolling back")' PROVE FALSE
      <4>1. At(r, "rolling back")
        BY <2>4, <3>7
      <4>2. applied = Versions /\ pending = Versions
        BY <1>0, <3>1, <4>1 DEF SqInv, OneRollback
      <4>3. 1 \in pending \cap applied
        BY <4>2 DEF Versions
      <4>4. QED
        BY <1>2, <4>3
    <3>8. 6 \in 0..6
      OBVIOUS
    <3>9. QED
      BY <3>5, <3>6, <3>7, <3>8 DEF OneRollback
  <2>8. ObjectsInv'
    <3>1. tables' \subseteq applied' \cup {Triggers} /\ applied' \ tables' \subseteq {SearchTable}
      BY <2>1, <2>2 DEF SqInv, ObjectsInv
    <3>2. Triggers # SearchTable /\ Triggers \notin run
      BY <1>0, <2>2 DEF Triggers, SearchTable, Versions
    <3>3. (Triggered => SearchTable \in tables)'
      BY <2>1, <2>2, <3>2 DEF SqInv, ObjectsInv, Triggered
    <3>4. (SearchTable \notin tables => fts = {})'
      BY <1>0, <2>1 DEF SqInv, ObjectsInv, data
    <3>5. QED
      BY <3>1, <3>3, <3>4 DEF ObjectsInv
  <2>9. IndexesInStep'
    <3>1. rows' = rows /\ addresses' = addresses /\ fts' = fts /\ Stored' = Stored
      BY <1>0 DEF data, Stored
    <3>2. (addresses \subseteq Stored \ Plain)'
      BY <3>1 DEF SqInv, IndexesInStep
    <3>3. (AddressTable \in tables => Stored \ (Plain \cup unindexed) \subseteq addresses)'
      <4>1. AddressTable # Triggers
        BY DEF AddressTable, Triggers
      <4>2. QED
        BY <2>1, <2>2, <3>1, <4>1 DEF SqInv, IndexesInStep
    <3>4. CASE SearchTable \in run
      <4>1. SearchTable \notin tables
        BY <2>2, <3>4
      <4>2. fts' = {} /\ unsearched' = Stored
        BY <2>1, <3>1, <3>4, <4>1 DEF SqInv, ObjectsInv
      <4>3. Stored' \ unsearched' = {}
        BY <3>1, <4>2
      <4>4. QED
        BY <3>2, <3>3, <4>2, <4>3 DEF IndexesInStep
    <3>5. CASE SearchTable \notin run
      <4>1. unsearched' = unsearched /\ Triggered' = Triggered
        <5>1. Triggers \notin run
          BY <1>0, <2>2 DEF Triggers, Versions
        <5>2. QED
          BY <2>1, <2>2, <3>5, <5>1 DEF Triggered
      <4>2. QED
        BY <3>1, <3>2, <3>3, <4>1 DEF SqInv, IndexesInStep
    <3>6. QED
      BY <3>4, <3>5
  <2>10. QED
    BY <2>5, <2>6, <2>7, <2>8, <2>9 DEF SqInv
<1>3. QED
  BY <1>1, <1>2

LEMMA MigrateDownSq ==
    ASSUME SqInv, NEW p \in Procs, NEW to \in Versions \cup {0}, MigrateDown(p, to)
    PROVE  SqInv'
<1> DEFINE gone == {m \in applied : m > to}
<1>1. /\ At(p, "up") /\ gone # {} /\ Go(p, "rolling back", gone) /\ downs' = downs + 1
      /\ UNCHANGED <<applied, tables, unindexed, unsearched, data, file, faults>>
  BY DEF MigrateDown
<1>2. "rolling back" \in PCs /\ gone \in SUBSET Nat /\ gone \subseteq applied
  <2>1. applied \subseteq Versions /\ Versions \subseteq Nat
    BY DEF SqInv, TypeOK, Versions
  <2>2. QED
    BY <2>1 DEF PCs
<1>g. applied = Versions => gone = (to + 1)..6 /\ to \in 0..6
  BY DEF Versions
<1> HIDE DEF gone
<1>3. /\ proc' \in [Procs -> [pc : PCs, seen : SUBSET Nat]]
      /\ proc'[p].pc = "rolling back" /\ proc'[p].seen = gone
      /\ \A q \in Procs \ {p} : proc'[q] = proc[q]
  BY <1>1, <1>2, GoType DEF SqInv
<1>4. downs \in Nat
  BY DEF SqInv, TypeOK
<1>d. downs' = downs + 1 /\ downs' \in Nat /\ downs' # 0 /\ (downs' = 1 => downs = 0)
  <2>1. downs' = downs + 1
    BY <1>1
  <2>2. QED
    BY <1>4, <2>1
<1>u. UNCHANGED <<applied, tables, unindexed, unsearched, rows, addresses, fts, bad, lost, file>>
  BY <1>1 DEF data
<1>5. TypeOK'
  <2>1. \A q \in Procs : /\ At(q, "opening")' => At(q, "opening") /\ proc'[q] = proc[q]
                         /\ At(q, "importing")' => At(q, "importing") /\ proc'[q] = proc[q]
    BY <1>3 DEF At
  <2>2. QED
    BY <1>u, <1>d, <1>3, <2>1 DEF SqInv, TypeOK
<1>6. NoRollbackYet'
  BY <1>d DEF NoRollbackYet
<1>7. OneRollback'
  <2>1. SUFFICES ASSUME downs = 0 PROVE OneRollback'
    BY <1>d DEF OneRollback
  <2>2. applied = Versions
    BY <1>1, <1>2, <2>1 DEF SqInv, NoRollbackYet
  <2>3. gone = (to + 1)..6 /\ to \in 0..6
    BY <1>g, <2>2
  <2>4. \A q \in Procs : At(q, "opening")' => proc'[q].seen = Versions
    BY <1>3, <2>1 DEF SqInv, NoRollbackYet, At
  <2>5. \A q \in Procs : At(q, "rolling back")' => q = p
    BY <1>3, <2>1 DEF SqInv, NoRollbackYet, At
  <2>6. applied' = 1..6 /\ 0 \in 0..6 /\ 0 + 1 = 1 /\ 6 \in 0..6
    BY <1>u, <2>2 DEF Versions
  <2>7. QED
    BY <1>3, <2>3, <2>4, <2>5, <2>6 DEF OneRollback, Versions
<1>8. ObjectsInv' /\ IndexesInStep'
  BY <1>1 DEF SqInv, ObjectsInv, IndexesInStep, Triggered, Stored, data
<1>9. QED
  BY <1>5, <1>6, <1>7, <1>8 DEF SqInv

LEMMA RollBackSq == ASSUME SqInv, NEW p \in Procs, RollBack(p) PROVE SqInv'
<1> DEFINE gone == proc[p].seen
           with == IF {EventsTable, SearchTable} \cap gone # {} THEN {Triggers} ELSE {}
<1>1. /\ At(p, "rolling back") /\ applied' = applied \ gone /\ Go(p, "down", {})
      /\ UNCHANGED <<unindexed, unsearched, downs, file, faults>>
      /\ tables' = tables \ (gone \cup with)
      /\ rows' = IF EventsTable \in gone THEN <<>> ELSE rows
      /\ addresses' = IF {EventsTable, AddressTable} \cap gone # {} THEN {} ELSE addresses
      /\ fts' = IF SearchTable \in gone THEN {} ELSE fts
      /\ IF EventsTable \in gone THEN bad' = {} /\ lost' = {} ELSE UNCHANGED <<bad, lost>>
  BY DEF RollBack, RollBackTables
<1>g. gone = proc[p].seen
  OBVIOUS
<1>2. /\ with \subseteq {Triggers}
      /\ EventsTable \in gone \/ SearchTable \in gone => Triggers \in with
  OBVIOUS
<1> HIDE DEF with, gone
<1>3. /\ proc' \in [Procs -> [pc : PCs, seen : SUBSET Nat]]
      /\ proc'[p].pc = "down" /\ proc'[p].seen = {}
      /\ \A q \in Procs \ {p} : proc'[q] = proc[q]
  <2>1. "down" \in PCs /\ {} \in SUBSET Nat
    BY DEF PCs
  <2>2. QED
    BY <1>1, <2>1, GoType DEF SqInv
<1>4. \A q \in Procs : /\ At(q, "opening")' => At(q, "opening") /\ proc'[q] = proc[q]
                       /\ At(q, "rolling back")' => q # p /\ At(q, "rolling back") /\ proc'[q] = proc[q]
                       /\ At(q, "importing")' => At(q, "importing") /\ proc'[q] = proc[q]
  BY <1>3 DEF At
<1>5. TypeOK'
  <2>1. IsAFunctionOf(rows', Ids)
    BY <1>1, EmptyRows DEF SqInv, TypeOK
  <2>2. \A e \in fts' : e = <<e[1], e[2]>>
    BY <1>1 DEF SqInv, TypeOK
  <2>3. QED
    BY <1>1, <1>3, <1>4, <2>1, <2>2 DEF SqInv, TypeOK
<1>6. NoRollbackYet'
  BY <1>1 DEF SqInv, NoRollbackYet
<1>7. OneRollback'
  <2>1. SUFFICES ASSUME downs = 1 PROVE OneRollback'
    BY <1>1 DEF OneRollback
  <2>2. /\ applied = Versions
        /\ \E to \in 0..6 : gone = (to + 1)..6
        /\ \A q \in Procs : At(q, "opening") => proc[q].seen = Versions
        /\ \A q \in Procs : At(q, "rolling back") => q = p
    BY <1>g, <1>1, <2>1 DEF SqInv, OneRollback
  <2>3. PICK to \in 0..6 : gone = (to + 1)..6
    BY <2>2
  <2>4. applied' = 1..to
    <3>1. (1..6) \ ((to + 1)..6) = 1..to
      OBVIOUS
    <3>2. QED
      BY <1>1, <2>2, <2>3, <3>1 DEF Versions
  <2>5. \A q \in Procs : At(q, "opening")' => proc'[q].seen = (0 + 1)..6
    <3>1. 0 + 1 = 1
      OBVIOUS
    <3>2. QED
      BY <1>4, <2>2, <3>1 DEF Versions
  <2>6. \A q \in Procs : ~At(q, "rolling back")'
    BY <1>4, <2>2
  <2>7. 0 \in 0..to
    OBVIOUS
  <2>8. QED
    BY <2>4, <2>5, <2>6, <2>7 DEF OneRollback
<1>8. ObjectsInv'
  <2>1. Triggers \notin applied
    BY DEF SqInv, TypeOK, Triggers, Versions
  <2>2. tables' \subseteq applied' \cup {Triggers} /\ applied' \ tables' \subseteq {SearchTable}
    BY <1>1, <1>2, <2>1 DEF SqInv, ObjectsInv
  <2>3. (Triggered => SearchTable \in tables)'
    BY <1>1, <1>2 DEF SqInv, ObjectsInv, Triggered, SearchTable, Triggers
  <2>4. (SearchTable \notin tables => fts = {})'
    <3>1. SearchTable \notin with
      BY <1>2 DEF SearchTable, Triggers
    <3>2. CASE SearchTable \in gone
      BY <1>1, <3>2
    <3>3. CASE SearchTable \notin gone
      BY <1>1, <3>1, <3>3 DEF SqInv, ObjectsInv
    <3>4. QED
      BY <3>2, <3>3
  <2>5. QED
    BY <2>2, <2>3, <2>4 DEF ObjectsInv
<1>9. IndexesInStep'
  <2>1. CASE EventsTable \in gone
    <3>1. rows' = <<>> /\ addresses' = {} /\ Triggers \notin tables'
      BY <1>1, <1>2, <2>1
    <3>2. Stored' = {}
      BY <3>1, EmptyRows DEF Stored
    <3>3. QED
      BY <3>1, <3>2 DEF IndexesInStep, Triggered
  <2>2. CASE EventsTable \notin gone
    <3>1. rows' = rows /\ Stored' = Stored
      BY <1>1, <2>2 DEF Stored
    <3>2. (addresses \subseteq Stored \ Plain)'
      BY <1>1, <3>1 DEF SqInv, IndexesInStep
    <3>3. (AddressTable \in tables => Stored \ (Plain \cup unindexed) \subseteq addresses)'
      BY <1>1, <2>2, <3>1 DEF SqInv, IndexesInStep
    <3>4. Triggered' => Triggered /\ fts' = fts
      BY <1>1, <1>2 DEF Triggered
    <3>5. rows' = rows /\ unsearched' = unsearched
      BY <1>1, <3>1
    <3>6. Triggered' => (/\ {e \in fts : e[1] \notin unsearched}
                               = {<<id, rows[id]>> : id \in Stored \ unsearched}
                         /\ \A e \in fts : e[1] \in Stored /\ e[2] = rows[e[1]])'
      <4> SUFFICES ASSUME Triggered'
                   PROVE  (/\ {e \in fts : e[1] \notin unsearched}
                               = {<<id, rows[id]>> : id \in Stored \ unsearched}
                           /\ \A e \in fts : e[1] \in Stored /\ e[2] = rows[e[1]])'
        OBVIOUS
      <4>1. /\ {e \in fts : e[1] \notin unsearched} = {<<id, rows[id]>> : id \in Stored \ unsearched}
            /\ \A e \in fts : e[1] \in Stored /\ e[2] = rows[e[1]]
        BY <3>4 DEF SqInv, IndexesInStep
      <4>2. QED
        BY <3>1, <3>4, <3>5, <4>1, Zenon
    <3>7. QED
      BY <3>2, <3>3, <3>6 DEF IndexesInStep
  <2>3. QED
    BY <2>1, <2>2
<1>10. QED
  BY <1>5, <1>6, <1>7, <1>8, <1>9 DEF SqInv

-----------------------------------------------------------------------------
(* Rows and the two indexes.                                                 *)

LEMMA AddRowsStep ==
    ASSUME SqInv, NEW p \in Procs, Moved(p), NEW new, DOMAIN new \subseteq Ids,
           AddRows(new), UNCHANGED <<schema, file>>
    PROVE  SqInv'
<1> DEFINE fresh == DOMAIN new \ Stored
<1>1. /\ rows' = [id \in Stored \cup fresh |-> IF id \in fresh THEN new[id] ELSE rows[id]]
      /\ addresses' = addresses \cup (fresh \ Plain)
      /\ fts' = IF Triggered THEN fts \cup {<<id, new[id]>> : id \in fresh} ELSE fts
      /\ UNCHANGED <<bad, lost, tables, applied, downs, unindexed, unsearched, file>>
  BY DEF AddRows, schema
<1>2. fresh \subseteq Ids /\ fresh \cap Stored = {} /\ Stored \subseteq Ids
  BY DEF SqInv, TypeOK, IsAFunctionOf, Stored
<1> HIDE DEF fresh
<1>3. /\ Stored' = Stored \cup fresh
      /\ \A id \in Stored : rows'[id] = rows[id]
      /\ \A id \in fresh : rows'[id] = new[id]
  BY <1>1, <1>2 DEF Stored
<1>4. IsAFunctionOf(rows', Ids)
  BY <1>1, <1>2 DEF IsAFunctionOf
<1>5. \A e \in fts' : e = <<e[1], e[2]>>
  BY <1>1 DEF SqInv, TypeOK
<1>6. SearchTable \notin tables => fts' = {}
  BY <1>1 DEF SqInv, ObjectsInv
<1>7. IndexesInStep'
  <2>1. (addresses \subseteq Stored \ Plain)'
    BY <1>1, <1>3 DEF SqInv, IndexesInStep
  <2>2. (AddressTable \in tables => Stored \ (Plain \cup unindexed) \subseteq addresses)'
    BY <1>1, <1>3 DEF SqInv, IndexesInStep
  <2>3. ASSUME Triggered'
        PROVE  /\ {e \in fts : e[1] \notin unsearched}' = {<<id, rows[id]>> : id \in Stored \ unsearched}'
               /\ (\A e \in fts : e[1] \in Stored /\ e[2] = rows[e[1]])'
    <3>1. Triggered
      BY <1>1, <2>3 DEF Triggered
    <3>2. fts' = fts \cup {<<id, rows'[id]>> : id \in fresh}
      BY <1>1, <1>3, <3>1
    <3>3. /\ {e \in fts : e[1] \notin unsearched} = {<<id, rows[id]>> : id \in Stored \ unsearched}
          /\ \A e \in fts : e[1] \in Stored /\ e[2] = rows[e[1]]
      BY <3>1 DEF SqInv, IndexesInStep
    <3>4. \A e \in fts' : e[1] \in Stored' /\ e[2] = rows'[e[1]]
      BY <1>3, <3>2, <3>3
    <3>5. \A id \in Stored' \ unsearched' : <<id, rows'[id]>> \in fts'
      <4>1. SUFFICES ASSUME NEW id \in Stored' \ unsearched' PROVE <<id, rows'[id]>> \in fts'
        OBVIOUS
      <4>2. CASE id \in Stored
        BY <1>1, <1>3, <3>2, <3>3, <4>2
      <4>3. CASE id \in fresh
        BY <3>2, <4>3
      <4>4. QED
        BY <1>3, <4>2, <4>3
    <3>6. QED
      BY <1>5, <3>4, <3>5
  <2>4. QED
    BY <2>1, <2>2, <2>3 DEF IndexesInStep
<1>8. bad' \in SUBSET Ids /\ lost' \in SUBSET Ids /\ IsAFunctionOf(file', Ids)
  BY <1>1 DEF SqInv, TypeOK
<1>9. UNCHANGED <<applied, tables, downs>>
  BY <1>1
<1>10. QED
  BY <1>4, <1>5, <1>6, <1>7, <1>8, <1>9, DataStep

LEMMA InsertDecodedSq ==
    ASSUME SqInv, NEW p \in Procs, NEW S \in SUBSET Ids, InsertDecoded(p, S)
    PROVE  SqInv'
<1>1. CASE CanWrite(p)
  <2> DEFINE new == [id \in S |-> Decode(p, id)]
  <2>1. AddRows(new) /\ UNCHANGED <<schema, file>> /\ proc' = proc
    BY <1>1 DEF InsertDecoded
  <2>2. DOMAIN new \subseteq Ids
    OBVIOUS
  <2> HIDE DEF new
  <2>3. QED
    BY <2>1, <2>2, AddRowsStep DEF Moved
<1>2. CASE ~CanWrite(p)
  <2>1. UNCHANGED <<schema, data, file>> /\ Go(p, "down", {})
    BY <1>2 DEF InsertDecoded
  <2>2. QED
    BY <2>1, GoesDown
<1>3. QED
  BY <1>1, <1>2

LEMMA ImportBatchSq == ASSUME SqInv, NEW p \in Procs, ImportBatch(p) PROVE SqInv'
<1> DEFINE todo == proc[p].seen
           batch == {id \in todo : Cardinality({i \in todo : i < id}) < BatchSize}
           new == [id \in batch |-> file[id]]
           pc == IF batch = todo THEN "up" ELSE "importing"
<1>0. todo \subseteq Ids /\ Ids \subseteq Nat
  BY SqliteAssumption DEF ImportBatch, SqInv, TypeOK, Ids
<1>1. CASE CanWrite(p)
  <2>1. AddRows(new) /\ Go(p, pc, todo \ batch) /\ UNCHANGED <<schema, file>>
    BY <1>1 DEF ImportBatch
  <2>2. /\ DOMAIN new \subseteq Ids /\ pc \in PCs \ {"opening", "rolling back"}
        /\ todo \ batch \subseteq Ids /\ todo \ batch \in SUBSET Nat
    BY <1>0 DEF PCs
  <2> HIDE DEF new, pc, batch
  <2>3. Moved(p)
    BY <2>1, <2>2, Moves
  <2>4. QED
    BY <2>1, <2>2, <2>3, AddRowsStep
<1>2. CASE ~CanWrite(p)
  <2>1. UNCHANGED <<schema, data, file>> /\ Go(p, "down", {})
    BY <1>2 DEF ImportBatch
  <2>2. QED
    BY <2>1, GoesDown
<1>3. QED
  BY <1>1, <1>2

LEMMA PruneBeforeSq ==
    ASSUME SqInv, NEW p \in Procs, NEW ledger \in 2..(MaxId + 1), PruneBefore(p, ledger)
    PROVE  SqInv'
<1> DEFINE S == {id \in Stored : id < ledger}
<1>1. /\ rows' = [id \in Stored \ S |-> rows[id]]
      /\ bad' = bad \ S /\ lost' = lost \ S /\ addresses' = addresses \ S
      /\ fts' = IF Triggered THEN {e \in fts : e[1] \notin S} ELSE fts
      /\ unindexed' = unindexed \ (1..(ledger - 1))
      /\ unsearched' = unsearched \ (1..(ledger - 1))
      /\ UNCHANGED <<applied, tables, downs, file, proc, faults>>
  BY DEF PruneBefore, DeleteRows, Without, Stored
<1>2. Stored \subseteq Ids
  BY DEF SqInv, TypeOK, IsAFunctionOf, Stored
<1>3. \A id \in Stored : id \in 1..(ledger - 1) <=> id \in S
  BY <1>2, SqliteAssumption DEF Ids
<1> HIDE DEF S
<1>4. /\ Stored' = Stored \ S
      /\ \A id \in Stored' : rows'[id] = rows[id]
      /\ Stored' \ unindexed' = Stored' \ unindexed
      /\ Stored' \ unsearched' = Stored' \ unsearched
  <2>1. Stored' = Stored \ S
    BY <1>1 DEF Stored
  <2>2. QED
    BY <1>1, <1>3, <2>1
<1>5. IsAFunctionOf(rows', Ids)
  BY <1>1, <1>2 DEF IsAFunctionOf
<1>6. \A e \in fts' : e = <<e[1], e[2]>>
  BY <1>1 DEF SqInv, TypeOK
<1>7. SearchTable \notin tables => fts' = {}
  BY <1>1 DEF SqInv, ObjectsInv
<1>8. IndexesInStep'
  <2>1. (addresses \subseteq Stored \ Plain)'
    BY <1>1, <1>4 DEF SqInv, IndexesInStep
  <2>2. (AddressTable \in tables => Stored \ (Plain \cup unindexed) \subseteq addresses)'
    BY <1>1, <1>4 DEF SqInv, IndexesInStep
  <2>3. ASSUME Triggered'
        PROVE  /\ {e \in fts : e[1] \notin unsearched}' = {<<id, rows[id]>> : id \in Stored \ unsearched}'
               /\ (\A e \in fts : e[1] \in Stored /\ e[2] = rows[e[1]])'
    <3>1. Triggered /\ fts' = {e \in fts : e[1] \notin S}
      BY <1>1, <2>3 DEF Triggered
    <3>2. /\ {e \in fts : e[1] \notin unsearched} = {<<id, rows[id]>> : id \in Stored \ unsearched}
          /\ \A e \in fts : e[1] \in Stored /\ e[2] = rows[e[1]]
      BY <3>1 DEF SqInv, IndexesInStep
    <3>3. \A e \in fts' : e[1] \in Stored' /\ e[2] = rows'[e[1]]
      BY <1>4, <3>1, <3>2
    <3>4. \A id \in Stored' \ unsearched' : <<id, rows'[id]>> \in fts'
      <4>1. SUFFICES ASSUME NEW id \in Stored' \ unsearched' PROVE <<id, rows'[id]>> \in fts'
        OBVIOUS
      <4>2. id \in Stored \ unsearched /\ id \notin S /\ rows'[id] = rows[id]
        BY <1>4
      <4>3. QED
        BY <3>1, <3>2, <4>2
    <3>5. QED
      BY <1>6, <3>3, <3>4
  <2>4. QED
    BY <2>1, <2>2, <2>3 DEF IndexesInStep
<1>9. bad' \in SUBSET Ids /\ lost' \in SUBSET Ids /\ IsAFunctionOf(file', Ids)
  BY <1>1 DEF SqInv, TypeOK
<1>10. UNCHANGED <<applied, tables, downs>> /\ Moved(p)
  BY <1>1 DEF Moved
<1>11. QED
  BY <1>5, <1>6, <1>7, <1>8, <1>9, <1>10, DataStep

LEMMA RewriteRowsStep ==
    ASSUME SqInv, NEW p \in Procs, Moved(p), NEW S, RewriteRows(p, S), Reindexed(S),
           UNCHANGED <<applied, tables, downs, file>>
    PROVE  SqInv'
<1> DEFINE kept == Stored \cap S
<1>1. /\ rows' = [id \in Stored |-> IF id \in S THEN Decode(p, id) ELSE rows[id]]
      /\ addresses' = (addresses \ S) \cup (kept \ Plain)
      /\ fts' = IF Triggered
                THEN {e \in fts : e[1] \notin S} \cup {<<id, Decode(p, id)>> : id \in kept}
                ELSE fts
      /\ bad' = bad \ S /\ lost' = lost
      /\ unindexed' = unindexed \ S
      /\ unsearched' = IF Triggered THEN unsearched \ S ELSE unsearched
  BY DEF RewriteRows, Reindexed
<1>2. Stored \subseteq Ids /\ (\A id \in kept : id \in S /\ id \in Stored)
      /\ (\A id \in Stored : id \in S => id \in kept)
  BY DEF SqInv, TypeOK, IsAFunctionOf, Stored
<1> HIDE DEF kept
<1>3. /\ Stored' = Stored
      /\ \A id \in Stored : rows'[id] = IF id \in S THEN Decode(p, id) ELSE rows[id]
  BY <1>1 DEF Stored
<1>4. IsAFunctionOf(rows', Ids)
  BY <1>1, <1>2 DEF IsAFunctionOf
<1>5. \A e \in fts' : e = <<e[1], e[2]>>
  BY <1>1 DEF SqInv, TypeOK
<1>6. SearchTable \notin tables => fts' = {}
  BY <1>1 DEF SqInv, ObjectsInv
<1>7. IndexesInStep'
  <2>1. (addresses \subseteq Stored \ Plain)'
    BY <1>1, <1>2, <1>3 DEF SqInv, IndexesInStep
  <2>2. (AddressTable \in tables => Stored \ (Plain \cup unindexed) \subseteq addresses)'
    BY <1>1, <1>2, <1>3 DEF SqInv, IndexesInStep
  <2>3. ASSUME Triggered'
        PROVE  /\ {e \in fts : e[1] \notin unsearched}' = {<<id, rows[id]>> : id \in Stored \ unsearched}'
               /\ (\A e \in fts : e[1] \in Stored /\ e[2] = rows[e[1]])'
    <3>1. /\ Triggered
          /\ fts' = {e \in fts : e[1] \notin S} \cup {<<id, Decode(p, id)>> : id \in kept}
          /\ unsearched' = unsearched \ S
      BY <1>1, <2>3 DEF Triggered
    <3>2. /\ {e \in fts : e[1] \notin unsearched} = {<<id, rows[id]>> : id \in Stored \ unsearched}
          /\ \A e \in fts : e[1] \in Stored /\ e[2] = rows[e[1]]
      BY <3>1 DEF SqInv, IndexesInStep
    <3>3. \A e \in fts' : e[1] \in Stored' /\ e[2] = rows'[e[1]]
      <4>1. SUFFICES ASSUME NEW e \in fts' PROVE e[1] \in Stored /\ e[2] = rows'[e[1]]
        BY <1>3
      <4>2. CASE e \in fts /\ e[1] \notin S
        BY <1>3, <3>2, <4>2
      <4>3. CASE \E id \in kept : e = <<id, Decode(p, id)>>
        BY <1>2, <1>3, <4>3
      <4>4. QED
        BY <3>1, <4>2, <4>3
    <3>4. \A id \in Stored' \ unsearched' : <<id, rows'[id]>> \in fts'
      <4>1. SUFFICES ASSUME NEW id \in Stored' \ unsearched' PROVE <<id, rows'[id]>> \in fts'
        OBVIOUS
      <4>2. CASE id \in S
        BY <1>2, <1>3, <3>1, <4>2
      <4>3. CASE id \notin S
        <5>1. id \in Stored \ unsearched /\ rows'[id] = rows[id]
          BY <1>3, <3>1, <4>3
        <5>2. QED
          BY <3>1, <3>2, <4>3, <5>1
      <4>4. QED
        BY <4>2, <4>3
    <3>5. QED
      BY <1>5, <3>3, <3>4
  <2>4. QED
    BY <2>1, <2>2, <2>3 DEF IndexesInStep
<1>8. bad' \in SUBSET Ids /\ lost' \in SUBSET Ids /\ IsAFunctionOf(file', Ids)
  BY <1>1 DEF SqInv, TypeOK
<1>9. QED
  BY <1>4, <1>5, <1>6, <1>7, <1>8, DataStep

LEMMA RewriteSq == ASSUME SqInv, NEW p \in Procs, Rewrite(p) PROVE SqInv'
<1> DEFINE S == proc[p].seen
<1>1. CASE Rewrites(p, S)
  <2>1. /\ RewriteRows(p, S) /\ Reindexed(S) /\ Go(p, "up", {})
        /\ UNCHANGED <<applied, tables, downs, file>>
    BY <1>1 DEF Rewrite
  <2>2. "up" \in PCs \ {"opening", "rolling back"} /\ {} \in SUBSET Nat /\ "up" # "importing"
    BY DEF PCs
  <2>3. Moved(p)
    BY <2>1, <2>2, Moves
  <2>4. QED
    BY <2>1, <2>3, RewriteRowsStep
<1>2. CASE ~Rewrites(p, S)
  <2>1. UNCHANGED <<schema, data, file>> /\ Go(p, "down", {})
    BY <1>2 DEF Rewrite, schema
  <2>2. QED
    BY <2>1, GoesDown
<1>3. QED
  BY <1>1, <1>2

LEMMA RepairRowSq == ASSUME SqInv, NEW p \in Procs, RepairRow(p) PROVE SqInv'
<1> DEFINE id == Min(proc[p].seen)
           rest == proc[p].seen \ {id}
           pc == IF rest = {} THEN "up" ELSE "repairing"
<1>0. UNCHANGED <<applied, tables, downs, file, faults>>
  BY DEF RepairRow
<1>1. pc \in PCs \ {"opening", "rolling back"} /\ pc # "importing" /\ rest \in SUBSET Nat
  BY DEF PCs, SqInv, TypeOK
<1>2. \/ Go(p, pc, rest) /\ UNCHANGED <<data, unindexed, unsearched>>
      \/ RewriteRows(p, {id}) /\ Reindexed({id}) /\ Go(p, pc, rest)
      \/ Go(p, "down", {}) /\ UNCHANGED <<data, unindexed, unsearched>>
  BY DEF RepairRow
<1> HIDE DEF id, rest, pc
<1>3. CASE Go(p, pc, rest) /\ UNCHANGED <<data, unindexed, unsearched>>
  <2>1. Moved(p)
    BY <1>1, <1>3, Moves
  <2>2. IsAFunctionOf(file', Ids) /\ bad' \in SUBSET Ids /\ lost' \in SUBSET Ids
    BY <1>0, <1>3 DEF data, SqInv, TypeOK
  <2>3. QED
    BY <1>0, <1>3, <2>1, <2>2, QuietStep DEF data
<1>4. CASE RewriteRows(p, {id}) /\ Reindexed({id}) /\ Go(p, pc, rest)
  <2>1. Moved(p)
    BY <1>1, <1>4, Moves
  <2>2. QED
    BY <1>0, <1>4, <2>1, RewriteRowsStep
<1>5. CASE Go(p, "down", {}) /\ UNCHANGED <<data, unindexed, unsearched>>
  BY <1>0, <1>5, GoesDown DEF schema
<1>6. QED
  BY <1>2, <1>3, <1>4, <1>5

LEMMA RebuildSearchIndexSq == ASSUME SqInv, NEW p \in Procs, RebuildSearchIndex(p) PROVE SqInv'
<1>1. /\ SearchTable \in tables /\ fts' = {<<id, rows[id]>> : id \in Stored} /\ unsearched' = {}
      /\ UNCHANGED <<applied, tables, unindexed, downs, rows, addresses, bad, lost, file, proc>>
  BY DEF RebuildSearchIndex
<1>2. Stored' = Stored
  BY <1>1 DEF Stored
<1>3. \A e \in fts' : e = <<e[1], e[2]>>
  BY <1>1
<1>4. IndexesInStep'
  <2>1. /\ (addresses \subseteq Stored \ Plain)'
        /\ (AddressTable \in tables => Stored \ (Plain \cup unindexed) \subseteq addresses)'
    BY <1>1, <1>2 DEF SqInv, IndexesInStep
  <2>2. {e \in fts : e[1] \notin unsearched}' = {<<id, rows[id]>> : id \in Stored \ unsearched}'
    BY <1>1, <1>2
  <2>3. (\A e \in fts : e[1] \in Stored /\ e[2] = rows[e[1]])'
    BY <1>1, <1>2
  <2>4. QED
    BY <2>1, <2>2, <2>3 DEF IndexesInStep
<1>5. /\ IsAFunctionOf(rows', Ids) /\ IsAFunctionOf(file', Ids)
      /\ bad' \in SUBSET Ids /\ lost' \in SUBSET Ids
  BY <1>1 DEF SqInv, TypeOK
<1>6. Moved(p) /\ UNCHANGED <<applied, tables, downs>> /\ (SearchTable \notin tables => fts' = {})
  BY <1>1 DEF Moved
<1>7. QED
  BY <1>3, <1>4, <1>5, <1>6, DataStep

-----------------------------------------------------------------------------

LEMMA NextSq == SqInv /\ [Next]_vars => SqInv'
<1>1. SUFFICES ASSUME SqInv, [Next]_vars PROVE SqInv'
  OBVIOUS
<1>2. CASE UNCHANGED vars
  <2>1. UNCHANGED <<applied, tables, rows, addresses, fts, bad, lost, unindexed, unsearched, file, proc, downs>>
    BY <1>2 DEF vars
  <2>2. TypeOK' /\ NoRollbackYet' /\ OneRollback'
    BY <1>1, <2>1, SchemaKept DEF SqInv, TypeOK, At
  <2>3. ObjectsInv' /\ IndexesInStep'
    BY <1>1, <2>1 DEF SqInv, ObjectsInv, IndexesInStep, Stored, Triggered
  <2>4. QED
    BY <2>2, <2>3 DEF SqInv
<1>3. ASSUME NEW p \in Procs,
             \/ Open(p) \/ Migrate(p) \/ RollBack(p) \/ Verify(p) \/ Rewrite(p) \/ RepairRow(p)
             \/ RebuildSearchIndex(p) \/ ExportSnapshot(p) \/ ImportSnapshot(p) \/ ImportBatch(p)
             \/ Exit(p)
      PROVE  SqInv'
  BY <1>1, <1>3, OpenSq, MigrateSq, RollBackSq, QuietActions, RewriteSq, RepairRowSq,
     RebuildSearchIndexSq, ImportBatchSq
<1>4. ASSUME NEW p \in Procs,
             \/ \E to \in Versions \cup {0} : MigrateDown(p, to)
             \/ \E S \in SUBSET Ids \ {{}} : InsertDecoded(p, S)
             \/ \E ledger \in 2..(MaxId + 1) : PruneBefore(p, ledger)
             \/ \E all \in BOOLEAN : Redecode(p, all)
      PROVE  SqInv'
  BY <1>1, <1>4, MigrateDownSq, InsertDecodedSq, PruneBeforeSq, QuietActions
<1>5. ASSUME NEW id \in Stored, Damage(id) PROVE SqInv'
  <2>1. \A e \in fts : e = <<e[1], e[2]>>
    BY <1>1 DEF SqInv, TypeOK
  <2>2. UNCHANGED <<schema, rows, addresses, fts, file, proc>>
    BY <1>5 DEF Damage
  <2>3. bad' \in SUBSET Ids /\ lost' \in SUBSET Ids
    BY <1>1, <1>5 DEF Damage, SqInv, TypeOK, IsAFunctionOf, Stored
  <2>4. TypeOK' /\ NoRollbackYet' /\ OneRollback'
    BY <1>1, <2>2, <2>3, SchemaKept DEF SqInv, TypeOK, At, schema
  <2>5. ObjectsInv' /\ IndexesInStep'
    BY <1>1, <2>2 DEF SqInv, ObjectsInv, IndexesInStep, Stored, Triggered, schema
  <2>6. QED
    BY <2>4, <2>5 DEF SqInv
<1>6. QED
  BY <1>1, <1>2, <1>3, <1>4, <1>5 DEF Next

LEMMA InvariantSq == Spec => []SqInv
<1>1. Init => SqInv
  BY InitSq
<1>2. SqInv /\ [Next]_vars => SqInv'
  BY NextSq
<1>3. QED
  BY <1>1, <1>2, PTL DEF Spec

\* Whoever loses the race to migrate a database, dies in it or rolls back beside
\* it (sqlite-store.ts 199-246, 156-197), the recorded versions are those whose
\* objects exist, and up to the first rollback and through it a whole prefix.
THEOREM SchemaIsWhole == Spec => []SchemaWhole
<1>1. SqInv => SchemaWhole
  <2>1. SUFFICES ASSUME SqInv PROVE SchemaWhole
    OBVIOUS
  <2>2. ASSUME downs <= 1 PROVE \E v \in 0..6 : applied = 1..v
    <3>1. downs = 0 \/ downs = 1
      BY <2>1, <2>2 DEF SqInv, TypeOK
    <3>2. CASE downs = 0
      <4>1. applied = 1..0 \/ applied = 1..6
        <5>1. 1..0 = {}
          OBVIOUS
        <5>2. QED
          BY <2>1, <3>2, <5>1 DEF SqInv, NoRollbackYet, Versions
      <4>2. 0 \in 0..6 /\ 6 \in 0..6
        OBVIOUS
      <4>3. QED
        BY <4>1, <4>2
    <3>3. CASE downs = 1
      BY <2>1, <3>3 DEF SqInv, OneRollback
    <3>4. QED
      BY <3>1, <3>2, <3>3
  <2>3. QED
    BY <2>1, <2>2 DEF SqInv, ObjectsInv, SchemaWhole
<1>2. QED
  BY <1>1, InvariantSq, PTL

\* The address index and the search index follow the rows, whatever prunes,
\* imports, rewrites, kills and rollbacks come between what a process reads and
\* its transaction (sqlite-store.ts 251-302, 644-680, 763-941).
THEOREM IndexesFollowRows == Spec => []IndexesInStep
<1>1. SqInv => IndexesInStep
  BY DEF SqInv
<1>2. QED
  BY <1>1, InvariantSq, PTL

-----------------------------------------------------------------------------
(* PostgresStore: the inductive invariant. *)

Kinds == {"none", "migrate", "insert", "rewrite", "delete", "export"}
PgPCs == {"idle", "connect", "begin", "run", "done", "failed"}

Call == [kind : Kinds, pc : PgPCs, todo : SUBSET Nat,
         new : SUBSET Nat, locks : SUBSET Nat, out : SUBSET Nat]

PgTypeOK ==
    /\ pgRows \in SUBSET Nat /\ pgAddresses \in SUBSET Nat
    /\ migrated \in Nat /\ advisory \in SUBSET Calls
    /\ call \in [Calls -> Call]

\* What a transaction has written is kept from the others until it ends.
Holds(c) == call[c].new \cup call[c].locks
LocksInv ==
    /\ \A c \in Calls : call[c].pc # "run" => Holds(c) = {}
    /\ \A c, d \in Calls : c # d => Holds(c) \cap Holds(d) = {}
    /\ \A c \in Calls : call[c].kind # "insert" => call[c].new = {}
    /\ \A c \in Calls : call[c].kind = "rewrite" => call[c].locks \subseteq pgRows

\* An insert works through its batch from the smallest id up.
OrderInv ==
    \A c \in Calls : call[c].kind = "insert" =>
        /\ call[c].locks = {}
        /\ \A x \in call[c].new, y \in call[c].todo : x < y

\* A migration that found something to do holds the advisory lock, and nobody has
\* migrated since it looked.
MigrationInv ==
    /\ \A c \in Calls : call[c].kind = "migrate" /\ call[c].pc = "run" =>
          /\ advisory = {c}
          /\ call[c].todo # {} => migrated = 0
    /\ migrated <= 1

PgInv == PgTypeOK /\ LocksInv /\ OrderInv /\ MigrationInv /\ PgAddressesInStep

-----------------------------------------------------------------------------

LEMMA InitPg == PgInit => PgInv
<1>1. SUFFICES ASSUME PgInit PROVE PgInv
  OBVIOUS
<1>2. \A c \in Calls : call[c] = [kind |-> "none", pc |-> "idle", todo |-> {}, new |-> {}, locks |-> {}, out |-> {}]
  BY <1>1 DEF PgInit, Started
<1>3. PgTypeOK
  BY <1>1 DEF PgInit, Started, PgTypeOK, Call, Kinds, PgPCs
<1>4. LocksInv /\ OrderInv /\ MigrationInv /\ PgAddressesInStep
  BY <1>1, <1>2 DEF PgInit, LocksInv, Holds, OrderInv, MigrationInv, PgAddressesInStep
<1>5. QED
  BY <1>3, <1>4 DEF PgInv

\* A step that writes no row and after which the call holds none: it does not run a
\* migration then, or it has just taken the lock and looked at the version.
LEMMA PgQuietStep ==
    ASSUME PgInv, NEW c \in Calls, NEW r \in Call,
           call' = [call EXCEPT ![c] = r],
           UNCHANGED <<pgRows, pgAddresses, migrated>>,
           r.new = {} /\ r.locks = {},
           \/ ~(r.kind = "migrate" /\ r.pc = "run") /\ advisory' \in {advisory, advisory \ {c}}
           \/ advisory = {} /\ advisory' = {c} /\ (r.todo # {} => migrated = 0)
    PROVE  PgInv'
<1>1. /\ call' \in [Calls -> Call] /\ call'[c] = r
      /\ \A d \in Calls \ {c} : call'[d] = call[d]
  BY DEF PgInv, PgTypeOK
<1>2. PgTypeOK'
  BY <1>1 DEF PgInv, PgTypeOK
<1>3. LocksInv'
  <2>1. \A d \in Calls : d # c => Holds(d)' = Holds(d) /\ Holds(c)' = {}
    BY <1>1 DEF Holds
  <2>2. QED
    BY <1>1, <2>1 DEF PgInv, LocksInv, Holds
<1>4. OrderInv'
  BY <1>1 DEF PgInv, OrderInv
<1>5. MigrationInv'
  BY <1>1 DEF PgInv, MigrationInv
<1>6. QED
  BY <1>2, <1>3, <1>4, <1>5 DEF PgInv, PgAddressesInStep
LEMMA StartPg == ASSUME PgInv, NEW c \in Calls, Start(c) PROVE PgInv'
<1>1. call[c].pc = "idle" /\ UNCHANGED <<pgRows, pgAddresses, migrated, advisory>>
  BY DEF Start
<1>2. call[c].new = {} /\ call[c].locks = {}
  BY <1>1 DEF PgInv, LocksInv, Holds
<1>3. \A kind \in Kinds, todo \in SUBSET Nat :
         /\ Started(kind, todo) \in Call
         /\ Started(kind, todo).new = {} /\ Started(kind, todo).locks = {}
         /\ Started(kind, todo).pc # "run"
  BY DEF Started, Call, PgPCs
<1>4. PICK kind \in Kinds, todo \in SUBSET Nat : call' = [call EXCEPT ![c] = Started(kind, todo)]
  <2>1. CASE call' = [call EXCEPT ![c] = Started("migrate", {})]
    BY <2>1 DEF Kinds
  <2>2. CASE StartInsert(c)
    <3>1. PICK S \in SUBSET (1..PgMaxId) \ {{}} : call' = [call EXCEPT ![c] = Started("insert", S)]
      BY <2>2 DEF StartInsert
    <3>2. S \in SUBSET Nat
      BY PgAssumption
    <3>3. QED
      BY <3>1, <3>2 DEF Kinds
  <2>3. CASE StartRewrite(c)
    <3>1. PICK S \in {pgRows} \cup {{id} : id \in pgRows} : call' = [call EXCEPT ![c] = Started("rewrite", S)]
      BY <2>3 DEF StartRewrite
    <3>2. S \in SUBSET Nat
      BY <3>1 DEF PgInv, PgTypeOK
    <3>3. QED
      BY <3>1, <3>2 DEF Kinds
  <2>4. CASE \E l \in 2..(PgMaxId + 1) : call' = [call EXCEPT ![c] = Started("delete", 1..(l - 1))]
    <3>1. PICK l \in 2..(PgMaxId + 1) : call' = [call EXCEPT ![c] = Started("delete", 1..(l - 1))]
      BY <2>4
    <3>2. 1..(l - 1) \in SUBSET Nat
      BY PgAssumption
    <3>3. QED
      BY <3>1, <3>2 DEF Kinds
  <2>5. CASE call' = [call EXCEPT ![c] = Started("export", {})]
    BY <2>5 DEF Kinds
  <2>6. QED
    BY <2>1, <2>2, <2>3, <2>4, <2>5 DEF Start
<1>5. QED
  BY <1>1, <1>2, <1>3, <1>4, PgQuietStep

LEMMA ConnectPg == ASSUME PgInv, NEW c \in Calls, Connect(c) PROVE PgInv'
<1> DEFINE r == [call[c] EXCEPT !.pc = "begin"]
<1>1. call[c].pc = "connect" /\ UNCHANGED <<pgRows, pgAddresses, migrated, advisory>>
      /\ call' = [call EXCEPT ![c] = r]
  BY DEF Connect
<1>2. call[c] \in Call
  BY DEF PgInv, PgTypeOK
<1>3. call[c].new = {} /\ call[c].locks = {}
  BY <1>1 DEF PgInv, LocksInv, Holds
<1>4. r \in Call /\ r.new = {} /\ r.locks = {} /\ r.pc = "begin"
  BY <1>2, <1>3 DEF Call, PgPCs
<1> HIDE DEF r
<1>5. QED
  BY <1>1, <1>3, <1>4, PgQuietStep

LEMMA BeginPg == ASSUME PgInv, NEW c \in Calls, Begin(c) PROVE PgInv'
<1>1. call[c].pc = "begin" /\ UNCHANGED <<pgRows, pgAddresses, migrated>>
  BY DEF Begin
<1>2. call[c] \in Call /\ pgRows \in SUBSET Nat
  BY DEF PgInv, PgTypeOK
<1>3. call[c].new = {} /\ call[c].locks = {}
  BY <1>1 DEF PgInv, LocksInv, Holds
<1>4. CASE call[c].kind = "migrate"
  <2> DEFINE r == [call[c] EXCEPT !.pc = "run", !.todo = IF migrated = 0 THEN {1} ELSE {}]
  <2>1. advisory = {} /\ advisory' = {c} /\ call' = [call EXCEPT ![c] = r]
    BY <1>4 DEF Begin
  <2>2. (IF migrated = 0 THEN {1} ELSE {}) \in SUBSET Nat
    OBVIOUS
  <2>3. r \in Call /\ r.new = {} /\ r.locks = {} /\ r.pc = "run" /\ (r.todo # {} => migrated = 0)
    BY <1>2, <1>3, <2>2 DEF Call, PgPCs
  <2> HIDE DEF r
  <2>4. QED
    BY <1>1, <1>3, <2>1, <2>3, PgQuietStep
<1>5. CASE call[c].kind # "migrate"
  <2> DEFINE todo == CASE call[c].kind = "export" -> pgRows
                       [] call[c].kind = "delete" -> call[c].todo \cap pgRows
                       [] OTHER -> call[c].todo
             r == [call[c] EXCEPT !.pc = "run", !.todo = todo]
  <2>1. advisory' = advisory /\ call' = [call EXCEPT ![c] = r]
    BY <1>5 DEF Begin
  <2>2. todo \in SUBSET Nat
    BY <1>2 DEF Call
  <2> HIDE DEF todo
  <2>3. r \in Call /\ r.new = {} /\ r.locks = {} /\ r.kind # "migrate"
    BY <1>2, <1>3, <1>5, <2>2 DEF Call, PgPCs
  <2> HIDE DEF r
  <2>4. QED
    BY <1>1, <1>3, <2>1, <2>3, PgQuietStep
<1>6. QED
  BY <1>4, <1>5
\* A statement on one row that no other transaction holds.
LEMMA RowStep ==
    ASSUME PgInv, NEW c \in Calls, NEW id \in Nat, ~Blocked(c, id), NEW r \in Call,
           UNCHANGED <<pgRows, pgAddresses, migrated, advisory>>,
           call' = [call EXCEPT ![c] = r],
           call[c].pc = "run" /\ r.pc = "run",
           r.kind = call[c].kind /\ r.kind # "migrate",
           r.todo = call[c].todo \ {id},
           r.new \subseteq call[c].new \cup {id} /\ r.locks \subseteq call[c].locks \cup {id},
           r.kind # "insert" => r.new = {},
           r.kind = "rewrite" => r.locks \subseteq pgRows,
           r.kind = "insert" => r.locks = {} /\ \A y \in r.todo : id < y
    PROVE  PgInv'
<1>1. /\ call' \in [Calls -> Call] /\ call'[c] = r
      /\ \A d \in Calls \ {c} : call'[d] = call[d] /\ id \notin Holds(d)
  BY DEF PgInv, PgTypeOK, Blocked, LockedBy, Holds
<1>2. PgTypeOK'
  BY <1>1 DEF PgInv, PgTypeOK
<1>3. LocksInv'
  <2>1. \A d \in Calls : d # c => Holds(d)' = Holds(d) /\ Holds(c)' \cap Holds(d)' = {}
    BY <1>1 DEF PgInv, LocksInv, Holds
  <2>2. QED
    BY <1>1, <2>1 DEF PgInv, LocksInv, Holds
<1>4. OrderInv'
  <2>1. call[c] \in Call
    BY DEF PgInv, PgTypeOK
  <2>2. r.kind = "insert" => \A x \in r.new, y \in r.todo : x < y
    BY <2>1 DEF PgInv, OrderInv, Call
  <2>3. QED
    BY <1>1, <2>2 DEF PgInv, OrderInv
<1>5. MigrationInv'
  BY <1>1 DEF PgInv, MigrationInv
<1>6. QED
  BY <1>2, <1>3, <1>4, <1>5 DEF PgInv, PgAddressesInStep

LEMMA InsertRowPg == ASSUME PgInv, NEW c \in Calls, InsertRow(c) PROVE PgInv'
<1> DEFINE id == Min(call[c].todo)
           r == [call[c] EXCEPT !.todo = @ \ {id}, !.new = IF id \in pgRows THEN @ ELSE @ \cup {id}]
<1>1. call[c].pc = "run" /\ call[c].kind = "insert" /\ call[c].todo # {}
      /\ UNCHANGED <<pgRows, pgAddresses, migrated, advisory>>
  BY DEF InsertRow, Running
<1>2. NextRows(c) = {id}
  BY <1>1 DEF NextRows
<1>3. ~Blocked(c, id) /\ call' = [call EXCEPT ![c] = r]
  BY <1>2 DEF InsertRow
<1>4. call[c] \in Call /\ call[c].todo \in SUBSET Nat /\ call[c].new \in SUBSET Nat
  BY DEF PgInv, PgTypeOK, Call
<1>5. id \in call[c].todo /\ \A y \in call[c].todo \ {id} : id < y
  <2>1. id \in call[c].todo /\ \A y \in call[c].todo : id <= y
    BY <1>1, <1>4, MinIsLeast
  <2>2. QED
    BY <1>4, <2>1
<1> HIDE DEF id
<1>6. /\ r \in Call /\ r.pc = "run" /\ r.kind = "insert" /\ r.locks = {}
      /\ r.todo = call[c].todo \ {id} /\ r.new \subseteq call[c].new \cup {id}
  BY <1>1, <1>4, <1>5 DEF Call, PgInv, OrderInv
<1> HIDE DEF r
<1>7. r.kind = "insert" => r.locks = {} /\ \A y \in r.todo : id < y
  BY <1>5, <1>6
<1>8. id \in Nat /\ r.locks \subseteq call[c].locks \cup {id}
  BY <1>4, <1>5, <1>6
<1>9. QED
  BY <1>1, <1>3, <1>6, <1>7, <1>8, RowStep

LEMMA RewriteRowPg == ASSUME PgInv, NEW c \in Calls, RewriteRow(c) PROVE PgInv'
<1>1. call[c].pc = "run" /\ call[c].kind = "rewrite"
      /\ UNCHANGED <<pgRows, pgAddresses, migrated, advisory>>
  BY DEF RewriteRow, Running
<1>2. PICK id \in call[c].todo :
         /\ ~Blocked(c, id)
         /\ call' = IF id \in pgRows
                    THEN [call EXCEPT ![c].todo = @ \ {id}, ![c].locks = @ \cup {id}]
                    ELSE IF id \in PgPlain THEN [call EXCEPT ![c].todo = @ \ {id}]
                    ELSE Close(c, "failed")
  <2>1. NextRows(c) = call[c].todo
    BY <1>1 DEF NextRows
  <2>2. QED
    BY <2>1 DEF RewriteRow
<1>3. call[c] \in Call /\ id \in Nat /\ call[c].locks \in SUBSET Nat /\ call[c].todo \in SUBSET Nat
  BY DEF PgInv, PgTypeOK, Call
<1>4. call[c].locks \subseteq pgRows /\ call[c].new = {}
  BY <1>1 DEF PgInv, LocksInv
<1>5. CASE id \in pgRows
  <2> DEFINE r == [call[c] EXCEPT !.todo = @ \ {id}, !.locks = @ \cup {id}]
  <2>1. call' = [call EXCEPT ![c] = r]
    BY <1>2, <1>5
  <2>2. /\ r \in Call /\ r.pc = "run" /\ r.kind = "rewrite" /\ r.todo = call[c].todo \ {id}
        /\ r.new = {} /\ r.locks = call[c].locks \cup {id}
    BY <1>1, <1>3, <1>4 DEF Call
  <2> HIDE DEF r
  <2>3. /\ r.new \subseteq call[c].new \cup {id} /\ r.locks \subseteq call[c].locks \cup {id}
        /\ r.locks \subseteq pgRows
    BY <1>4, <1>5, <2>2
  <2>4. QED
    BY <1>1, <1>2, <1>3, <2>1, <2>2, <2>3, RowStep
<1>6. CASE id \notin pgRows /\ id \in PgPlain
  <2> DEFINE r == [call[c] EXCEPT !.todo = @ \ {id}]
  <2>1. call' = [call EXCEPT ![c] = r]
    BY <1>2, <1>6
  <2>2. /\ r \in Call /\ r.pc = "run" /\ r.kind = "rewrite" /\ r.todo = call[c].todo \ {id}
        /\ r.new = {} /\ r.locks = call[c].locks
    BY <1>1, <1>3, <1>4 DEF Call
  <2> HIDE DEF r
  <2>3. /\ r.new \subseteq call[c].new \cup {id} /\ r.locks \subseteq call[c].locks \cup {id}
        /\ r.locks \subseteq pgRows
    BY <1>4, <2>2
  <2>4. QED
    BY <1>1, <1>2, <1>3, <2>1, <2>2, <2>3, RowStep
<1>7. CASE id \notin pgRows /\ id \notin PgPlain
  <2> DEFINE r == [call[c] EXCEPT !.pc = "failed", !.todo = {}, !.new = {}, !.locks = {}]
  <2>1. call' = [call EXCEPT ![c] = r]
    BY <1>2, <1>7 DEF Close
  <2>2. r \in Call /\ r.pc = "failed" /\ r.new = {} /\ r.locks = {}
    BY <1>3 DEF Call, PgPCs
  <2> HIDE DEF r
  <2>3. QED
    BY <1>1, <2>1, <2>2, PgQuietStep
<1>8. QED
  BY <1>5, <1>6, <1>7

LEMMA DeleteRowPg == ASSUME PgInv, NEW c \in Calls, DeleteRow(c) PROVE PgInv'
<1>1. call[c].pc = "run" /\ call[c].kind = "delete"
      /\ UNCHANGED <<pgRows, pgAddresses, migrated, advisory>>
  BY DEF DeleteRow, Running
<1>2. call[c] \in Call /\ call[c].todo \in SUBSET Nat /\ call[c].locks \in SUBSET Nat
  BY DEF PgInv, PgTypeOK, Call
<1>3. PICK id \in call[c].todo :
         /\ ~Blocked(c, id)
         /\ call' = [call EXCEPT ![c] = [call[c] EXCEPT !.todo = @ \ {id},
                                                       !.locks = IF id \in pgRows THEN @ \cup {id} ELSE @]]
  <2>1. NextRows(c) = call[c].todo
    BY <1>1 DEF NextRows
  <2>2. call \in [Calls -> Call]
    BY DEF PgInv, PgTypeOK
  <2>3. QED
    BY <2>1, <2>2 DEF DeleteRow
<1> DEFINE r == [call[c] EXCEPT !.todo = @ \ {id}, !.locks = IF id \in pgRows THEN @ \cup {id} ELSE @]
<1>4. call' = [call EXCEPT ![c] = r]
  BY <1>3
<1>5. /\ r \in Call /\ r.pc = "run" /\ r.kind = "delete" /\ r.todo = call[c].todo \ {id}
      /\ r.new = call[c].new /\ r.locks \subseteq call[c].locks \cup {id}
  BY <1>1, <1>2 DEF Call
<1> HIDE DEF r
<1>6. call[c].new = {} /\ id \in Nat
  BY <1>1, <1>2 DEF PgInv, LocksInv
<1>7. QED
  BY <1>1, <1>3, <1>4, <1>5, <1>6, RowStep

LEMMA ExportRowPg == ASSUME PgInv, NEW c \in Calls, ExportRow(c) PROVE PgInv'
<1> DEFINE id == Min(call[c].todo)
           r == [call[c] EXCEPT !.todo = @ \ {id}, !.out = @ \cup {id}]
<1>1. /\ call[c].pc = "run" /\ call[c].kind = "export" /\ call[c].todo # {}
      /\ call' = [call EXCEPT ![c] = r]
      /\ UNCHANGED <<pgRows, pgAddresses, migrated, advisory>>
  BY DEF ExportRow, Running
<1>2. call[c] \in Call /\ call[c].todo \in SUBSET Nat /\ call[c].out \in SUBSET Nat
  BY DEF PgInv, PgTypeOK, Call
<1>3. id \in Nat
  BY <1>1, <1>2, MinIsLeast
<1> HIDE DEF id
<1>4. /\ r \in Call /\ r.pc = "run" /\ r.kind = "export"
      /\ r.new = call[c].new /\ r.locks = call[c].locks
  BY <1>1, <1>2, <1>3 DEF Call
<1> HIDE DEF r
<1>5. /\ call' \in [Calls -> Call] /\ call'[c] = r
      /\ \A d \in Calls \ {c} : call'[d] = call[d]
  BY <1>1, <1>4 DEF PgInv, PgTypeOK
<1>6. PgTypeOK'
  BY <1>1, <1>5 DEF PgInv, PgTypeOK
<1>7. \A d \in Calls : Holds(d)' = Holds(d)
  BY <1>4, <1>5 DEF Holds
<1>8. LocksInv'
  BY <1>1, <1>4, <1>5, <1>7 DEF PgInv, LocksInv
<1>9. OrderInv' /\ MigrationInv'
  BY <1>1, <1>4, <1>5 DEF PgInv, OrderInv, MigrationInv
<1>10. QED
  BY <1>1, <1>6, <1>8, <1>9 DEF PgInv, PgAddressesInStep

\* What is committed is in the index; what is deleted goes from both, and what others
\* hold stays.
LEMMA CommitPg == ASSUME PgInv, NEW c \in Calls, Commit(c) PROVE PgInv'
<1> DEFINE r == [call[c] EXCEPT !.pc = "done", !.todo = {}, !.new = {}, !.locks = {}]
           gone == IF call[c].kind = "delete" THEN call[c].locks ELSE {}
           put == call[c].new \cup (IF call[c].kind = "rewrite" THEN call[c].locks ELSE {})
<1>1. /\ call[c].pc = "run"
      /\ call[c].todo = {} \/ call[c].kind = "migrate"
      /\ pgRows' = (pgRows \cup call[c].new) \ gone
      /\ pgAddresses' = (pgAddresses \cup (put \ PgPlain)) \ gone
      /\ migrated' = IF call[c].kind = "migrate" /\ call[c].todo # {} THEN migrated + 1 ELSE migrated
      /\ advisory' = advisory \ {c}
      /\ call' = [call EXCEPT ![c] = r]
  BY DEF Commit, Close
<1>2. call[c] \in Call /\ call[c].new \in SUBSET Nat /\ call[c].locks \in SUBSET Nat
  BY DEF PgInv, PgTypeOK, Call
<1>3. r \in Call /\ r.pc = "done" /\ r.kind = call[c].kind /\ r.todo = {} /\ r.new = {} /\ r.locks = {}
  BY <1>2 DEF Call, PgPCs
<1> HIDE DEF r
<1>4. /\ call' \in [Calls -> Call] /\ call'[c] = r
      /\ \A d \in Calls \ {c} : call'[d] = call[d]
  BY <1>1, <1>3 DEF PgInv, PgTypeOK
<1>5. /\ Holds(c)' = {}
      /\ \A d \in Calls \ {c} : Holds(d)' = Holds(d) /\ Holds(d) \cap gone = {}
  <2>1. \A d \in Calls \ {c} : Holds(d) \cap Holds(c) = {}
    BY DEF PgInv, LocksInv
  <2>2. gone \subseteq Holds(c)
    BY DEF Holds
  <2>3. QED
    BY <1>3, <1>4, <2>1, <2>2 DEF Holds
<1>6. PgTypeOK'
  <2>1. pgRows \in SUBSET Nat /\ pgAddresses \in SUBSET Nat /\ migrated \in Nat /\ advisory \in SUBSET Calls
    BY DEF PgInv, PgTypeOK
  <2>2. pgRows' \in SUBSET Nat /\ pgAddresses' \in SUBSET Nat
    BY <1>1, <1>2, <2>1
  <2>3. migrated' \in Nat /\ advisory' \in SUBSET Calls
    BY <1>1, <2>1
  <2>4. QED
    BY <1>4, <2>2, <2>3 DEF PgTypeOK
<1>7. LocksInv'
  <2>1. \A d \in Calls \ {c} : call[d].kind = "rewrite" => call[d].locks \subseteq pgRows'
    BY <1>1, <1>5 DEF PgInv, LocksInv, Holds
  <2>2. QED
    BY <1>3, <1>4, <1>5, <2>1 DEF PgInv, LocksInv
<1>8. OrderInv'
  BY <1>3, <1>4 DEF PgInv, OrderInv
<1>9. MigrationInv'
  <2>1. \A d \in Calls \ {c} : call[d].kind = "migrate" /\ call[d].pc = "run" =>
           advisory' = {d} /\ migrated' = migrated
    BY <1>1 DEF PgInv, MigrationInv
  <2>2. migrated' <= 1
    BY <1>1 DEF PgInv, MigrationInv, PgTypeOK
  <2>3. QED
    BY <1>3, <1>4, <2>1, <2>2 DEF PgInv, MigrationInv
<1>10. PgAddressesInStep'
  <2>1. pgAddresses = pgRows \ PgPlain
    BY DEF PgInv, PgAddressesInStep
  <2>2. call[c].kind = "rewrite" => call[c].locks \subseteq pgRows
    BY DEF PgInv, LocksInv
  <2>3. QED
    BY <1>1, <2>1, <2>2 DEF PgAddressesInStep
<1>11. QED
  BY <1>6, <1>7, <1>8, <1>9, <1>10 DEF PgInv

LEMMA RollbackPg == ASSUME PgInv, NEW c \in Calls, Rollback(c) PROVE PgInv'
<1> DEFINE r == [call[c] EXCEPT !.pc = "failed", !.todo = {}, !.new = {}, !.locks = {}]
<1>1. /\ call' = [call EXCEPT ![c] = r] /\ advisory' = advisory \ {c}
      /\ UNCHANGED <<pgRows, pgAddresses, migrated>>
  BY DEF Rollback, Close
<1>2. call[c] \in Call
  BY DEF PgInv, PgTypeOK
<1>3. r \in Call /\ r.pc = "failed" /\ r.new = {} /\ r.locks = {}
  BY <1>2 DEF Call, PgPCs
<1> HIDE DEF r
<1>4. QED
  BY <1>1, <1>3, PgQuietStep

LEMMA ReturnPg == ASSUME PgInv, NEW c \in Calls, Return(c) PROVE PgInv'
<1> DEFINE r == [Started("none", {}) EXCEPT !.pc = "idle"]
<1>1. /\ call' = [call EXCEPT ![c] = r]
      /\ UNCHANGED <<pgRows, pgAddresses, migrated, advisory>>
  BY DEF Return
<1>2. r = [kind |-> "none", pc |-> "idle", todo |-> {}, new |-> {}, locks |-> {}, out |-> {}]
  BY DEF Started
<1>3. r \in Call /\ r.pc = "idle" /\ r.new = {} /\ r.locks = {}
  BY <1>2 DEF Call, PgPCs, Kinds
<1> HIDE DEF r
<1>4. QED
  BY <1>1, <1>3, PgQuietStep

LEMMA NextPg == PgInv /\ [PgNext]_pgVars => PgInv'
<1>1. SUFFICES ASSUME PgInv, [PgNext]_pgVars PROVE PgInv'
  OBVIOUS
<1>2. CASE UNCHANGED pgVars
  BY <1>1, <1>2 DEF pgVars, PgInv, PgTypeOK, LocksInv, Holds, OrderInv, MigrationInv, PgAddressesInStep
<1>3. CASE PgNext
  BY <1>1, <1>3, StartPg, ConnectPg, BeginPg, InsertRowPg, RewriteRowPg, DeleteRowPg, ExportRowPg,
     CommitPg, RollbackPg, ReturnPg DEF PgNext, PgStep
<1>4. QED
  BY <1>1, <1>2, <1>3

LEMMA InvariantPg == PgSpec => []PgInv
  BY InitPg, NextPg, PTL DEF PgSpec

-----------------------------------------------------------------------------
\* The address index holds exactly the committed events that mention an address, however
\* inserts, redecodes, repairs, prunes and lost connections interleave.
THEOREM AddressesInStep == PgSpec => []PgAddressesInStep
<1>1. PgInv => PgAddressesInStep
  BY DEF PgInv
<1>2. QED
  BY <1>1, InvariantPg, PTL

\* The id an insert waits for is smaller than the one its holder waits for.
LEMMA WaitingDescends ==
    ASSUME PgInv, NEW c \in Calls, NEW d \in Calls,
           call[c].kind = "insert", call[d].kind = "insert",
           WaitsFor(c, d), call[d].todo # {}
    PROVE  Min(call[c].todo) < Min(call[d].todo)
<1>1. call[d].todo \in SUBSET Nat
  BY DEF PgInv, PgTypeOK, Call
<1>2. NextRows(c) = {Min(call[c].todo)}
  BY DEF NextRows
<1>3. Min(call[c].todo) \in call[d].new
  BY <1>2 DEF WaitsFor, LockedBy, PgInv, OrderInv
<1>4. Min(call[d].todo) \in call[d].todo
  BY <1>1, MinIsLeast
<1>5. QED
  BY <1>3, <1>4 DEF PgInv, OrderInv

\* Two batches that are inserted at once never wait for each other, whatever events
\* they have in common: no insert of the indexer is a deadlock victim of another.
THEOREM NoDeadlock == PgSpec => []InsertersDoNotDeadlock
<1>1. ASSUME PgInv, NEW c \in Calls, NEW d \in Calls,
             call[c].kind = "insert", call[d].kind = "insert",
             WaitsFor(c, d), WaitsFor(d, c)
      PROVE  FALSE
  <2>1. call[c].todo # {} /\ call[d].todo # {}
    BY <1>1 DEF WaitsFor
  <2>2. Min(call[c].todo) < Min(call[d].todo) /\ Min(call[d].todo) < Min(call[c].todo)
    BY <1>1, <2>1, WaitingDescends
  <2>3. Min(call[c].todo) \in Nat /\ Min(call[d].todo) \in Nat
    BY <1>1, <2>1, MinIsLeast DEF PgInv, PgTypeOK, Call
  <2>4. QED
    BY <2>2, <2>3
<1>2. PgInv => InsertersDoNotDeadlock
  BY <1>1 DEF InsertersDoNotDeadlock
<1>3. QED
  BY <1>2, InvariantPg, PTL

MigratedOnce == migrated <= 1

\* However many processes start at once, one applies the pending migrations: the others
\* wait for the lock and then find nothing to do (postgres-store.ts 189-240).
THEOREM MigrationsApplyOnce == PgSpec => []MigratedOnce
<1>1. PgInv => MigratedOnce
  BY DEF PgInv, MigrationInv, MigratedOnce
<1>2. QED
  BY <1>1, InvariantPg, PTL
=============================================================================
