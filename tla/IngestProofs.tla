--------------------------- MODULE IngestProofs ---------------------------
(***************************************************************************)
(* Proofs about Ingest for every ledger and event count, page size, window *)
(* and option: the state stays well formed, no wanted event before the     *)
(* saved position is silently lost, the dedup window never hides an event  *)
(* that was not stored, and the saved position is dropped only when the    *)
(* node has forgotten it.                                                  *)
(***************************************************************************)
EXTENDS Ingest, TLAPS

-----------------------------------------------------------------------------
(* The inductive invariant. *)

\* The node's counters: upTo never decreases with the ledger and is flat past the
\* tip.
NodeInv ==
    /\ \A l, m \in 0..MaxLedger : l <= m => upTo[l] <= upTo[m]
    /\ \A l \in 0..MaxLedger : tip <= l => upTo[l] = upTo[tip]

\* All wanted events up to p are in the database or were given up.
Covered(p) == \A e \in 1..p : Wanted(e) => e \in stored \/ e \in gone

\* A cursor that is set points at most at the tip and covers what is before it.
SoundCursor(c) == c.at # 0 => c.at <= tip /\ c.pos <= upTo[c.at] /\ Covered(c.pos)

PositionInv ==
    /\ SoundCursor(saved)
    /\ cursor.at # 0 => cursor.pos = saved.pos /\ cursor.at = saved.at
    /\ startLedger # 0 => startLedger <= tip /\ Covered(upTo[startLedger - 1])

ControlInv ==
    /\ pc = "fetch" => cursor.at # 0 \/ startLedger # 0
    /\ pc \in {"recover", "clear"} => cursor.at # 0 /\ cursor.at < oldest
    /\ pc = "clear" => startLedger # 0

\* A page in hand starts where everything is covered, and what it holds beyond the
\* fresh events was stored before.
PageInv ==
    pc \in {"consume", "save"} =>
        /\ page.at # 0 /\ page.at <= tip /\ page.to <= upTo[page.at]
        /\ Covered(page.from)
        /\ page.fresh \subseteq (page.from + 1)..page.to
        /\ \A e \in (page.from + 1)..page.to :
              e \in stored \/ (pc = "consume" /\ e \in page.fresh)

IInv ==
    /\ TypeOK
    /\ NodeInv
    /\ PositionInv
    /\ ControlInv
    /\ PageInv
    /\ RememberedIsStored

-----------------------------------------------------------------------------

\* Coverage survives every step that keeps the ledgers and only adds to the
\* database and to what was given up.
LEMMA CoveredKept ==
    ASSUME NEW p, Covered(p), upTo' = upTo,
           stored \subseteq stored', gone \subseteq gone'
    PROVE  Covered(p)'
BY DEF Covered, Wanted

\* What a closing ledger does to the counters.
LEMMA CountersClose ==
    ASSUME TypeOK, NodeInv, LedgerCloses
    PROVE  /\ upTo' \in [0..MaxLedger -> Nat]
           /\ \A l \in 0..tip : upTo'[l] = upTo[l]
           /\ \A l \in 0..MaxLedger : tip < l => upTo'[l] = upTo'[tip + 1]
           /\ upTo[tip] <= upTo'[tip + 1]
           /\ \A l \in 0..MaxLedger : upTo[l] <= upTo'[l]
           /\ \A l \in 0..MaxLedger : upTo[l] <= upTo[tip]
<1>1. PICK n \in 0..MaxPerLedger :
          upTo' = [l \in 0..MaxLedger |-> IF l > tip THEN upTo[tip] + n ELSE upTo[l]]
  BY DEF LedgerCloses
<1>2. tip \in 0..MaxLedger /\ tip + 1 \in 0..MaxLedger /\ MaxLedger \in Nat /\ n \in Nat
  BY IngestAssumption DEF TypeOK, LedgerCloses, Ledgers
<1>3. \A l \in 0..MaxLedger : upTo[l] \in Nat
  BY DEF TypeOK
<1>4. \A l \in 0..MaxLedger : upTo'[l] = IF l > tip THEN upTo[tip] + n ELSE upTo[l]
  BY <1>1
<1>5. \A l \in 0..MaxLedger : upTo[l] <= upTo[tip]
  <2>1. SUFFICES ASSUME NEW l \in 0..MaxLedger PROVE upTo[l] <= upTo[tip]
    OBVIOUS
  <2>2. CASE l <= tip
    BY <2>2, <1>2 DEF NodeInv
  <2>3. CASE tip <= l
    BY <2>3, <1>2, <1>3 DEF NodeInv
  <2>4. QED
    BY <2>2, <2>3, <1>2
<1>6. upTo' \in [0..MaxLedger -> Nat]
  BY <1>1, <1>2, <1>3
<1>7. \A l \in 0..tip : upTo'[l] = upTo[l]
  BY <1>2, <1>4
<1>8. /\ \A l \in 0..MaxLedger : tip < l => upTo'[l] = upTo'[tip + 1]
      /\ upTo[tip] <= upTo'[tip + 1]
  BY <1>2, <1>3, <1>4
<1>9. \A l \in 0..MaxLedger : upTo[l] <= upTo'[l]
  BY <1>2, <1>3, <1>4, <1>5
<1>10. QED
  BY <1>5, <1>6, <1>7, <1>8, <1>9

\* It survives a ledger closing: the new events lie past p, and an event that was
\* unwanted stays so.
LEMMA CoveredClose ==
    ASSUME TypeOK, NodeInv, LedgerCloses, NEW p \in Nat, Covered(p)
    PROVE  Covered(p)'
<1>1. SUFFICES ASSUME NEW e \in 1..p, Wanted(e)'
               PROVE  e \in stored \/ e \in gone
  BY DEF Covered, LedgerCloses, db
<1>a. e \in Nat
  OBVIOUS
<1>2. Wanted(e)
  <2>1. CASE StartLedger = 0
    BY <2>1 DEF Wanted
  <2>2. CASE StartLedger # 0
    <3>1. StartLedger - 1 \in 0..MaxLedger
      BY <2>2, IngestAssumption
    <3>2. upTo[StartLedger - 1] <= upTo'[StartLedger - 1] /\ e > upTo'[StartLedger - 1]
      BY <1>1, <2>2, <3>1, CountersClose DEF Wanted
    <3>3. upTo' \in [0..MaxLedger -> Nat] /\ upTo \in [0..MaxLedger -> Nat]
      BY CountersClose DEF TypeOK
    <3>4. upTo[StartLedger - 1] \in Nat /\ upTo'[StartLedger - 1] \in Nat
      BY <3>1, <3>3
    <3>5. QED
      BY <1>a, <3>2, <3>4 DEF Wanted
  <2>3. QED
    BY <2>1, <2>2
<1>3. QED
  BY <1>1, <1>2 DEF Covered

LEMMA InitInv == Init => IInv
<1>1. SUFFICES ASSUME Init PROVE IInv
  OBVIOUS
<1>2. TypeOK
  BY <1>1, IngestAssumption DEF Init, TypeOK, Ledgers, NoPosition, NoCursor, NoPage
<1>3. NodeInv
  BY <1>1, IngestAssumption DEF Init, NodeInv
<1>4. PositionInv /\ ControlInv /\ PageInv /\ RememberedIsStored
  BY <1>1 DEF Init, PositionInv, SoundCursor, ControlInv, PageInv, RememberedIsStored, NoPosition, NoCursor
<1>5. QED
  BY <1>2, <1>3, <1>4 DEF IInv

LEMMA LedgerClosesInv == IInv /\ LedgerCloses => IInv'
<1>1. SUFFICES ASSUME IInv, LedgerCloses PROVE IInv'
  OBVIOUS
<1>2. /\ TypeOK /\ NodeInv /\ tip' = tip + 1 /\ tip < MaxLedger
      /\ UNCHANGED <<oldest, stored, saved, pc, cursor, startLedger, page, seen, gone, crashes>>
  BY <1>1 DEF IInv, LedgerCloses, db, process
<1>3. MaxLedger \in Nat /\ tip \in 1..MaxLedger /\ oldest \in 1..MaxLedger /\ oldest <= tip
  BY <1>2, IngestAssumption DEF TypeOK, Ledgers
<1>4. /\ upTo' \in [0..MaxLedger -> Nat]
      /\ \A l \in 0..tip : upTo'[l] = upTo[l]
      /\ \A l \in 0..MaxLedger : tip < l => upTo'[l] = upTo'[tip + 1]
      /\ upTo[tip] <= upTo'[tip + 1]
  BY <1>1, <1>2, CountersClose
<1>5. TypeOK'
  <2>1. tip' \in Ledgers /\ oldest' \in Ledgers /\ oldest' <= tip'
    BY <1>2, <1>3 DEF Ledgers
  <2>2. QED
    BY <1>2, <1>4, <2>1 DEF TypeOK
<1>6. NodeInv'
  <2>1. SUFFICES ASSUME NEW l \in 0..MaxLedger, NEW m \in 0..MaxLedger
                 PROVE  (l <= m => upTo'[l] <= upTo'[m]) /\ (tip + 1 <= l => upTo'[l] = upTo'[tip + 1])
    BY <1>2 DEF NodeInv
  <2>2. \A k \in 0..MaxLedger : upTo[k] \in Nat /\ upTo'[k] \in Nat
    BY <1>2, <1>4 DEF TypeOK
  <2>3. l <= tip => upTo'[l] <= upTo'[tip + 1]
    <3>1. l <= tip => upTo[l] <= upTo[tip]
      BY <1>2, <1>3 DEF NodeInv
    <3>2. QED
      BY <1>3, <1>4, <2>2, <3>1, <1>2
  <2>4. l <= m /\ m <= tip => upTo'[l] <= upTo'[m]
    BY <1>2, <1>3, <1>4 DEF NodeInv
  <2>5. QED
    BY <1>2, <1>3, <1>4, <2>2, <2>3, <2>4
<1>7. \A p \in Nat : Covered(p) => Covered(p)'
  BY <1>1, <1>2, CoveredClose
<1>8. PositionInv'
  <2>1. SoundCursor(saved)'
    <3>1. SUFFICES ASSUME saved.at # 0
                   PROVE  saved.at <= tip + 1 /\ saved.pos <= upTo'[saved.at] /\ Covered(saved.pos)'
      BY <1>2 DEF SoundCursor
    <3>2. saved.at <= tip /\ saved.pos <= upTo[saved.at] /\ Covered(saved.pos)
      BY <3>1, <1>1 DEF IInv, PositionInv, SoundCursor
    <3>3. saved.at \in 0..MaxLedger /\ saved.pos \in Nat
      BY <1>2 DEF TypeOK
    <3>4. upTo'[saved.at] = upTo[saved.at]
      BY <3>2, <3>3, <1>3, <1>4
    <3>5. Covered(saved.pos)'
      BY <3>2, <3>3, <1>2, <1>7 DEF Covered
    <3>6. QED
      BY <3>2, <3>3, <3>4, <3>5, <1>3
  <2>2. (cursor.at # 0 => cursor.pos = saved.pos /\ cursor.at = saved.at)'
    BY <1>1, <1>2 DEF IInv, PositionInv
  <2>3. (startLedger # 0 => startLedger <= tip /\ Covered(upTo[startLedger - 1]))'
    <3>1. SUFFICES ASSUME startLedger # 0
                   PROVE  startLedger <= tip + 1 /\ Covered(upTo[startLedger - 1])'
      BY <1>2
    <3>2. startLedger \in 1..tip /\ Covered(upTo[startLedger - 1])
      BY <3>1, <1>1, <1>2 DEF IInv, TypeOK, PositionInv
    <3>3. startLedger - 1 \in 0..tip /\ startLedger - 1 \in 0..MaxLedger
      BY <3>2, <1>3
    <3>4. upTo'[startLedger - 1] = upTo[startLedger - 1] /\ upTo[startLedger - 1] \in Nat
      BY <3>3, <1>2, <1>4 DEF TypeOK
    <3>5. Covered(upTo[startLedger - 1])'
      BY <3>2, <3>4, <1>2, <1>7 DEF Covered
    <3>6. QED
      BY <3>2, <3>5, <1>3
  <2>4. QED
    BY <2>1, <2>2, <2>3 DEF PositionInv
<1>9. ControlInv'
  BY <1>1, <1>2 DEF IInv, ControlInv
<1>10. PageInv'
  <2>1. SUFFICES ASSUME pc \in {"consume", "save"}
                 PROVE  /\ page.at # 0 /\ page.at <= tip + 1 /\ page.to <= upTo'[page.at]
                        /\ Covered(page.from)'
                        /\ page.fresh \subseteq (page.from + 1)..page.to
                        /\ \A e \in (page.from + 1)..page.to :
                              e \in stored \/ (pc = "consume" /\ e \in page.fresh)
    BY <1>2 DEF PageInv
  <2>2. page.at \in 0..MaxLedger /\ page.from \in Nat
    BY <1>2 DEF TypeOK
  <2>3. QED
    BY <1>1, <1>2, <1>3, <1>4, <1>7, <2>1, <2>2 DEF IInv, PageInv
<1>11. RememberedIsStored'
  BY <1>1, <1>2 DEF IInv, RememberedIsStored
<1>12. QED
  BY <1>5, <1>6, <1>8, <1>9, <1>10, <1>11 DEF IInv

LEMMA NodeForgetsInv == IInv /\ NodeForgets => IInv'
<1>1. SUFFICES ASSUME IInv, NodeForgets PROVE IInv'
  OBVIOUS
<1>2. /\ oldest < tip /\ oldest' = oldest + 1
      /\ UNCHANGED <<tip, upTo, stored, saved, pc, cursor, startLedger, page, seen, gone, crashes>>
  BY <1>1 DEF NodeForgets, db, process
<1>3. \A p : Covered(p) => Covered(p)'
  BY <1>2, CoveredKept
<1>4. TypeOK'
  <2>1. oldest' \in Ledgers /\ oldest' <= tip
    BY <1>1, <1>2, IngestAssumption DEF IInv, TypeOK, Ledgers
  <2>2. QED
    BY <1>1, <1>2, <2>1 DEF IInv, TypeOK
<1>5. NodeInv' /\ RememberedIsStored'
  BY <1>1, <1>2 DEF IInv, NodeInv, RememberedIsStored
<1>6. PositionInv'
  BY <1>1, <1>2 DEF IInv, PositionInv, SoundCursor, Covered, Wanted
<1>7. ControlInv'
  BY <1>1, <1>2, IngestAssumption DEF IInv, ControlInv, TypeOK, Ledgers
<1>8. PageInv'
  BY <1>1, <1>2 DEF IInv, PageInv, Covered, Wanted
<1>9. QED
  BY <1>4, <1>5, <1>6, <1>7, <1>8 DEF IInv

\* A step that stops the process keeps only what the database holds.
LEMMA StopInv ==
    ASSUME IInv, Blank, pc' = "down", UNCHANGED <<node, db, gone>>, crashes' \in 0..MaxCrashes
    PROVE  IInv'
<1>1. /\ UNCHANGED <<tip, oldest, upTo, stored, saved, gone>>
      /\ cursor' = NoCursor /\ startLedger' = 0 /\ page' = NoPage /\ seen' = {}
  BY DEF node, db, Blank
<1>2. TypeOK'
  <2>1. /\ NoCursor \in [pos : Nat, at : 0..MaxLedger]
        /\ NoPage \in [from : Nat, to : Nat, at : 0..MaxLedger, last : 0..MaxLedger,
                       latest : 0..MaxLedger, fresh : SUBSET Nat]
        /\ 0 \in 0..MaxLedger
    BY IngestAssumption DEF NoCursor, NoPage
  <2>2. QED
    BY <1>1, <2>1 DEF IInv, TypeOK
<1>3. NodeInv' /\ RememberedIsStored' /\ ControlInv' /\ PageInv'
  BY <1>1 DEF IInv, NodeInv, RememberedIsStored, ControlInv, PageInv
<1>4. PositionInv'
  BY <1>1 DEF IInv, PositionInv, SoundCursor, Covered, Wanted, NoCursor
<1>5. QED
  BY <1>2, <1>3, <1>4 DEF IInv

\* A step that only moves the control point.
LEMMA MoveInv ==
    ASSUME IInv, pc' \in {"resolve", "fetch", "sleep", "recover"}, pc # "consume",
           UNCHANGED <<node, db, cursor, startLedger, page, seen, gone, crashes>>,
           pc' = "fetch" => cursor.at # 0 \/ startLedger # 0,
           pc' = "recover" => cursor.at # 0 /\ cursor.at < oldest
    PROVE  IInv'
<1>1. UNCHANGED <<tip, oldest, upTo, stored, saved>>
  BY DEF node, db
<1>2. TypeOK' /\ NodeInv'
  BY <1>1 DEF IInv, TypeOK, NodeInv
<1>3. PositionInv'
  BY <1>1 DEF IInv, PositionInv, SoundCursor, Covered, Wanted
<1>4. ControlInv' /\ PageInv' /\ RememberedIsStored'
  BY <1>1 DEF IInv, ControlInv, PageInv, RememberedIsStored
<1>5. QED
  BY <1>2, <1>3, <1>4 DEF IInv

LEMMA ControlStepsInv ==
    IInv /\ (RpcUnavailable \/ CursorRefused \/ Wake \/ Restart) => IInv'
<1>1. SUFFICES ASSUME IInv, RpcUnavailable \/ CursorRefused \/ Wake \/ Restart PROVE IInv'
  OBVIOUS
<1>2. CASE RpcUnavailable
  BY <1>1, <1>2, MoveInv DEF RpcUnavailable
<1>3. CASE CursorRefused
  <2>1. cursor.at # 0 /\ cursor.at < oldest
    BY <1>1, <1>3, IngestAssumption
       DEF CursorRefused, ByCursor, InRange, IInv, PositionInv, SoundCursor, TypeOK, Ledgers
  <2>2. QED
    BY <1>1, <1>3, <2>1, MoveInv DEF CursorRefused
<1>4. CASE Wake
  BY <1>1, <1>4, MoveInv DEF Wake, ByCursor
<1>5. CASE Restart
  BY <1>1, <1>5, MoveInv DEF Restart
<1>6. QED
  BY <1>1, <1>2, <1>3, <1>4, <1>5

LEMMA StopStepsInv == IInv /\ (StartRefused \/ RecoverFails \/ Crash) => IInv'
<1>1. SUFFICES ASSUME IInv, StartRefused \/ RecoverFails \/ Crash PROVE IInv'
  OBVIOUS
<1>2. crashes \in 0..MaxCrashes
  BY <1>1 DEF IInv, TypeOK
<1>3. CASE StartRefused
  BY <1>1, <1>2, <1>3, StopInv DEF StartRefused
<1>4. CASE RecoverFails
  BY <1>1, <1>2, <1>4, StopInv DEF RecoverFails
<1>5. CASE Crash
  <2>1. crashes' \in 0..MaxCrashes
    BY <1>2, <1>5, IngestAssumption DEF Crash
  <2>2. QED
    BY <1>1, <1>5, <2>1, StopInv DEF Crash
<1>6. QED
  BY <1>1, <1>3, <1>4, <1>5

LEMMA ResolveSavedInv == IInv /\ ResolveSaved => IInv'
<1>1. SUFFICES ASSUME IInv, ResolveSaved PROVE IInv'
  OBVIOUS
<1>2. /\ saved.at # 0 /\ cursor' = [pos |-> saved.pos, at |-> saved.at]
      /\ pc = "resolve" /\ pc' = "fetch"
      /\ UNCHANGED <<tip, oldest, upTo, stored, saved, startLedger, page, seen, gone, crashes>>
  BY <1>1 DEF ResolveSaved, node, db
<1>3. TypeOK' /\ NodeInv'
  BY <1>1, <1>2 DEF IInv, TypeOK, NodeInv
<1>4. PositionInv'
  BY <1>1, <1>2 DEF IInv, PositionInv, SoundCursor, Covered, Wanted
<1>5. ControlInv' /\ PageInv' /\ RememberedIsStored'
  BY <1>1, <1>2 DEF IInv, ControlInv, PageInv, RememberedIsStored
<1>6. QED
  BY <1>3, <1>4, <1>5 DEF IInv

\* A start ledger clamped into the node's window leaves out only events nobody
\* wanted and events the node has forgotten.
LEMMA ClampCovers ==
    ASSUME TypeOK, NodeInv
    PROVE  /\ Clamp(StartLedger) \in 1..tip
           /\ \A e \in 1..upTo[Clamp(StartLedger) - 1] : Wanted(e) => e \in Forgotten
<1>1. /\ MaxLedger \in Nat /\ tip \in 1..MaxLedger /\ oldest \in 1..tip
      /\ StartLedger \in 0..MaxLedger
  BY IngestAssumption DEF TypeOK, Ledgers
<1>2. Clamp(StartLedger) \in 1..tip
  BY <1>1 DEF Clamp
<1>3. \A l \in 0..MaxLedger : upTo[l] \in Nat
  BY DEF TypeOK
<1>4. SUFFICES ASSUME NEW e \in 1..upTo[Clamp(StartLedger) - 1], Wanted(e)
               PROVE  e \in Forgotten
  BY <1>2
<1>5. CASE StartLedger < oldest
  BY <1>4, <1>5 DEF Clamp, Forgotten
<1>6. CASE ~(StartLedger < oldest)
  <2>1. /\ StartLedger - 1 \in 0..MaxLedger /\ Clamp(StartLedger) - 1 \in 0..MaxLedger
        /\ Clamp(StartLedger) - 1 <= StartLedger - 1
    BY <1>1, <1>6 DEF Clamp
  <2>2. upTo[Clamp(StartLedger) - 1] <= upTo[StartLedger - 1]
    BY <2>1 DEF NodeInv
  <2>3. e > upTo[StartLedger - 1]
    BY <1>1, <1>4, <1>6 DEF Wanted
  <2>4. upTo[Clamp(StartLedger) - 1] \in Nat /\ upTo[StartLedger - 1] \in Nat
    BY <1>3, <2>1
  <2>5. QED
    BY <1>4, <2>2, <2>3, <2>4
<1>7. QED
  BY <1>5, <1>6

LEMMA ResolveStartInv == IInv /\ ResolveStart => IInv'
<1>1. SUFFICES ASSUME IInv, ResolveStart PROVE IInv'
  OBVIOUS
<1>2. /\ saved.at = 0 /\ startLedger' = Clamp(StartLedger) /\ gone' = gone \cup Forgotten
      /\ pc = "resolve" /\ pc' = "fetch"
      /\ UNCHANGED <<tip, oldest, upTo, stored, saved, cursor, page, seen, crashes>>
  BY <1>1 DEF ResolveStart, node, db
<1>3. /\ startLedger' \in 1..tip
      /\ \A e \in 1..upTo[startLedger' - 1] : Wanted(e) => e \in Forgotten
  BY <1>1, <1>2, ClampCovers DEF IInv
<1>4. TypeOK' /\ NodeInv'
  <2>1. startLedger' \in 0..MaxLedger
    BY <1>1, <1>3, IngestAssumption DEF IInv, TypeOK, Ledgers
  <2>2. Forgotten \subseteq Nat
    BY DEF Forgotten
  <2>3. QED
    BY <1>1, <1>2, <2>1, <2>2 DEF IInv, TypeOK, NodeInv
<1>5. PositionInv'
  <2>1. cursor.at = 0
    BY <1>1, <1>2 DEF IInv, PositionInv
  <2>2. QED
    BY <1>1, <1>2, <1>3, <2>1 DEF IInv, PositionInv, SoundCursor, Covered, Wanted
<1>6. ControlInv' /\ PageInv' /\ RememberedIsStored'
  BY <1>1, <1>2, <1>3 DEF IInv, ControlInv, PageInv, RememberedIsStored
<1>7. QED
  BY <1>4, <1>5, <1>6 DEF IInv

LEMMA RecoverInv == IInv /\ Recover => IInv'
<1>1. SUFFICES ASSUME IInv, Recover PROVE IInv'
  OBVIOUS
<1>2. /\ startLedger' = oldest /\ gone' = gone \cup Forgotten
      /\ pc = "recover" /\ pc' = "clear"
      /\ UNCHANGED <<tip, oldest, upTo, stored, saved, cursor, page, seen, crashes>>
  BY <1>1 DEF Recover, node, db
<1>3. oldest \in 1..tip /\ oldest \in 0..MaxLedger /\ Forgotten \subseteq Nat
  BY <1>1, IngestAssumption DEF IInv, TypeOK, Ledgers, Forgotten
<1>4. TypeOK' /\ NodeInv'
  BY <1>1, <1>2, <1>3 DEF IInv, TypeOK, NodeInv
<1>5. PositionInv'
  BY <1>1, <1>2, <1>3 DEF IInv, PositionInv, SoundCursor, Covered, Wanted, Forgotten
<1>6. ControlInv' /\ PageInv' /\ RememberedIsStored'
  BY <1>1, <1>2, <1>3 DEF IInv, ControlInv, PageInv, RememberedIsStored
<1>7. QED
  BY <1>4, <1>5, <1>6 DEF IInv

LEMMA ClearPositionInv == IInv /\ ClearPosition => IInv'
<1>1. SUFFICES ASSUME IInv, ClearPosition PROVE IInv'
  OBVIOUS
<1>2. /\ saved' = NoPosition /\ cursor' = NoCursor
      /\ pc = "clear" /\ pc' = "fetch"
      /\ UNCHANGED <<tip, oldest, upTo, stored, startLedger, page, seen, gone, crashes>>
  BY <1>1 DEF ClearPosition, node
<1>3. TypeOK' /\ NodeInv'
  <2>1. /\ NoPosition \in [pos : Nat, at : 0..MaxLedger, ledger : 0..MaxLedger]
        /\ NoCursor \in [pos : Nat, at : 0..MaxLedger]
    BY IngestAssumption DEF NoPosition, NoCursor
  <2>2. QED
    BY <1>1, <1>2, <2>1 DEF IInv, TypeOK, NodeInv
<1>4. PositionInv'
  BY <1>1, <1>2 DEF IInv, PositionInv, SoundCursor, Covered, Wanted, NoPosition, NoCursor
<1>5. ControlInv' /\ PageInv' /\ RememberedIsStored'
  BY <1>1, <1>2 DEF IInv, ControlInv, PageInv, RememberedIsStored
<1>6. QED
  BY <1>3, <1>4, <1>5 DEF IInv

LEMMA ConsumeInv == IInv /\ Consume => IInv'
<1>1. SUFFICES ASSUME IInv, Consume PROVE IInv'
  OBVIOUS
<1>2. /\ stored' = stored \cup page.fresh
      /\ pc = "consume" /\ pc' \in {"done", "save"}
      /\ UNCHANGED <<tip, oldest, upTo, saved, cursor, startLedger, page, seen, gone, crashes>>
  BY <1>1 DEF Consume, node
<1>3. TypeOK' /\ NodeInv'
  BY <1>1, <1>2 DEF IInv, TypeOK, NodeInv
<1>4. PositionInv'
  BY <1>1, <1>2 DEF IInv, PositionInv, SoundCursor, Covered, Wanted
<1>5. PageInv'
  BY <1>1, <1>2 DEF IInv, PageInv, Covered, Wanted
<1>6. ControlInv' /\ RememberedIsStored'
  BY <1>1, <1>2 DEF IInv, ControlInv, RememberedIsStored
<1>7. QED
  BY <1>3, <1>4, <1>5, <1>6 DEF IInv

LEMMA SavePositionInv == IInv /\ SavePosition => IInv'
<1>1. SUFFICES ASSUME IInv, SavePosition PROVE IInv'
  OBVIOUS
<1>2. /\ saved' = [pos |-> page.to, at |-> page.at,
                   ledger |-> IF page.last # 0 THEN page.last ELSE page.latest]
      /\ cursor' = [pos |-> page.to, at |-> page.at] /\ startLedger' = 0 /\ page' = NoPage
      /\ pc = "save" /\ pc' \in {"fetch", "done", "sleep"}
      /\ UNCHANGED <<tip, oldest, upTo, stored, seen, gone, crashes>>
  BY <1>1 DEF SavePosition, Position, CommittedLedger, node
<1>3. page.to \in Nat /\ page.from \in Nat /\ page.at \in 0..MaxLedger
  BY <1>1 DEF IInv, TypeOK
<1>4. TypeOK' /\ NodeInv'
  <2>1. NoPage \in [from : Nat, to : Nat, at : 0..MaxLedger, last : 0..MaxLedger,
                     latest : 0..MaxLedger, fresh : SUBSET Nat] /\ 0 \in 0..MaxLedger
    BY IngestAssumption DEF NoPage
  <2>2. QED
    BY <1>1, <1>2, <2>1 DEF IInv, TypeOK, NodeInv
<1>5. page.at # 0 /\ page.at <= tip /\ page.to <= upTo[page.at] /\ Covered(page.to)
  <2>1. SUFFICES ASSUME NEW e \in 1..page.to, Wanted(e) PROVE e \in stored \/ e \in gone
    BY <1>1, <1>2 DEF IInv, PageInv, Covered
  <2>2. CASE e <= page.from
    BY <1>1, <1>2, <1>3, <2>1, <2>2 DEF IInv, PageInv, Covered
  <2>3. CASE ~(e <= page.from)
    BY <1>1, <1>2, <1>3, <2>1, <2>3 DEF IInv, PageInv
  <2>4. QED
    BY <2>2, <2>3
<1>6. PositionInv'
  BY <1>2, <1>5 DEF PositionInv, SoundCursor, Covered, Wanted
<1>7. ControlInv' /\ PageInv' /\ RememberedIsStored'
  BY <1>1, <1>2, <1>5 DEF IInv, ControlInv, PageInv, RememberedIsStored
<1>8. QED
  BY <1>4, <1>6, <1>7 DEF IInv

\* What a page holds: it starts where everything is covered, ends on an event of
\* the ledgers the node served, and its cursor points at or past its last event.
LEMMA PageBounds ==
    ASSUME IInv, pc = "fetch", InRange
    PROVE  /\ From \in Nat /\ PageEnd \in Nat /\ Covered(From)
           /\ LastServed \in 1..tip /\ From <= PageEnd /\ PageEnd <= upTo[LastServed]
           /\ PageEnd - From < PageSize => PageEnd = upTo[LastServed]
<1>1. /\ MaxLedger \in Nat /\ tip \in 1..MaxLedger /\ oldest \in 1..tip
      /\ PageSize \in Nat \ {0} /\ EndLedger \in 0..MaxLedger
  BY IngestAssumption DEF IInv, TypeOK, Ledgers
<1>2. \A l \in 0..MaxLedger : upTo[l] \in Nat
  BY DEF IInv, TypeOK
<1>3. From \in Nat /\ Covered(From) /\ LastServed \in 1..tip /\ From <= upTo[LastServed]
  <2>1. CASE ByCursor
    <3>1. /\ cursor.pos = saved.pos /\ cursor.at = saved.at /\ saved.at # 0
          /\ cursor.pos \in Nat /\ cursor.at \in 0..MaxLedger
      BY <2>1 DEF IInv, PositionInv, ByCursor, TypeOK
    <3>2. cursor.at <= tip /\ cursor.pos <= upTo[cursor.at] /\ Covered(cursor.pos)
      BY <3>1 DEF IInv, PositionInv, SoundCursor
    <3>3. upTo[cursor.at] <= upTo[tip]
      BY <1>1, <3>1, <3>2 DEF IInv, NodeInv
    <3>4. cursor.pos <= upTo[tip]
      BY <1>1, <1>2, <3>1, <3>2, <3>3
    <3>5. QED
      BY <1>1, <2>1, <3>1, <3>2, <3>4 DEF From, LastServed
  <2>2. CASE ~ByCursor
    <3>1. /\ startLedger \in 1..tip /\ Covered(upTo[startLedger - 1])
          /\ EndLedger # 0 => startLedger <= EndLedger
      BY <1>1, <2>2 DEF IInv, ControlInv, PositionInv, ByCursor, InRange
    <3>2. LastServed \in 1..tip /\ startLedger - 1 <= LastServed
      BY <1>1, <2>2, <3>1 DEF LastServed
    <3>3. startLedger - 1 \in 0..MaxLedger /\ LastServed \in 0..MaxLedger
      BY <1>1, <3>1, <3>2
    <3>4. upTo[startLedger - 1] <= upTo[LastServed]
      BY <3>2, <3>3 DEF IInv, NodeInv
    <3>5. QED
      BY <1>2, <2>2, <3>1, <3>2, <3>3, <3>4 DEF From
  <2>3. QED
    BY <2>1, <2>2
<1>4. upTo[LastServed] \in Nat
  BY <1>1, <1>2, <1>3
<1>5. QED
  BY <1>1, <1>3, <1>4 DEF PageEnd

LEMMA FetchPageInv == IInv /\ FetchPage => IInv'
<1>1. SUFFICES ASSUME IInv, FetchPage PROVE IInv'
  OBVIOUS
<1>2. /\ pc = "fetch" /\ InRange
      /\ UNCHANGED <<tip, oldest, upTo, stored, saved, cursor, startLedger, gone, crashes>>
  BY <1>1 DEF FetchPage, node, db
<1> DEFINE fresh == ((From + 1)..PageEnd) \ seen
<1>3. PICK last \in LastLedger :
          page' = [from |-> From, to |-> PageEnd, last |-> last, latest |-> tip,
                   at |-> IF PageEnd - From < PageSize THEN LastServed ELSE last,
                   fresh |-> fresh]
  BY <1>1 DEF FetchPage
<1>4. seen' = Remember(seen \cup fresh) /\ pc' = IF fresh = {} THEN "save" ELSE "consume"
  BY <1>1 DEF FetchPage
<1>5. /\ From \in Nat /\ PageEnd \in Nat /\ Covered(From)
      /\ LastServed \in 1..tip /\ From <= PageEnd /\ PageEnd <= upTo[LastServed]
      /\ PageEnd - From < PageSize => PageEnd = upTo[LastServed]
  BY <1>1, <1>2, PageBounds
<1>6. /\ MaxLedger \in Nat /\ tip \in 1..MaxLedger /\ PageSize \in Nat \ {0}
  BY <1>1, IngestAssumption DEF IInv, TypeOK, Ledgers
<1>7. fresh \subseteq Nat /\ seen' \subseteq seen \cup fresh /\ seen \subseteq stored
  <2>1. seen \subseteq stored
    BY <1>1, <1>2 DEF IInv, RememberedIsStored
  <2>2. fresh \subseteq Nat
    BY <1>5
  <2>3. seen' \subseteq seen \cup fresh
    BY <1>4 DEF Remember
  <2>4. QED
    BY <2>1, <2>2, <2>3
<1>8. /\ last \in 0..MaxLedger
      /\ PageEnd # From => last \in 1..tip /\ PageEnd <= upTo[last]
  <2>1. CASE PageEnd = From
    BY <1>6, <2>1 DEF LastLedger
  <2>2. CASE PageEnd # From
    <3>1. last \in 1..MaxLedger /\ upTo[last - 1] < PageEnd /\ PageEnd <= upTo[last]
      BY <2>2 DEF LastLedger, Ledgers, InLedger
    <3>2. last <= tip
      <4>1. SUFFICES ASSUME tip <= last - 1 PROVE FALSE
        BY <1>6, <3>1
      <4>2. last - 1 \in 0..MaxLedger /\ LastServed \in 0..MaxLedger /\ LastServed <= last - 1
        BY <1>5, <1>6, <3>1, <4>1
      <4>3. upTo[LastServed] <= upTo[last - 1]
        BY <1>1, <4>2 DEF IInv, NodeInv
      <4>4. upTo[LastServed] \in Nat /\ upTo[last - 1] \in Nat
        BY <1>1, <4>2 DEF IInv, TypeOK
      <4>5. QED
        BY <1>5, <3>1, <4>3, <4>4
    <3>3. QED
      BY <1>6, <3>1, <3>2
  <2>3. QED
    BY <2>1, <2>2
<1>9. page'.at \in 1..tip /\ PageEnd <= upTo[page'.at]
  <2>1. CASE PageEnd - From < PageSize
    BY <1>3, <1>5, <2>1
  <2>2. CASE ~(PageEnd - From < PageSize)
    BY <1>3, <1>5, <1>6, <1>8, <2>2
  <2>3. QED
    BY <2>1, <2>2
<1>10. TypeOK' /\ NodeInv'
  <2>1. page' \in [from : Nat, to : Nat, at : 0..MaxLedger, last : 0..MaxLedger,
                   latest : 0..MaxLedger, fresh : SUBSET Nat]
    BY <1>3, <1>5, <1>6, <1>7, <1>8
  <2>2. seen' \subseteq Nat
    BY <1>1, <1>7 DEF IInv, TypeOK
  <2>3. QED
    BY <1>1, <1>2, <1>4, <2>1, <2>2 DEF IInv, TypeOK, NodeInv
<1>11. PositionInv'
  BY <1>1, <1>2 DEF IInv, PositionInv, SoundCursor, Covered, Wanted
<1>12. PageInv'
  <2>1. page'.from = From /\ page'.to = PageEnd /\ page'.fresh = fresh
    BY <1>3
  <2>2. Covered(page.from)'
    BY <1>2, <1>5, <2>1 DEF Covered, Wanted
  <2>3. \A e \in (From + 1)..PageEnd : e \in stored \/ (pc' = "consume" /\ e \in fresh)
    BY <1>4, <1>7
  <2>4. page'.at # 0 /\ page'.at <= tip /\ PageEnd <= upTo[page'.at]
    BY <1>6, <1>9
  <2>5. QED
    BY <1>2, <2>1, <2>2, <2>3, <2>4 DEF PageInv
<1>13. RememberedIsStored'
  <2>1. \A e \in seen' : e \in stored \/ (pc' = "consume" /\ e \in fresh)
    BY <1>4, <1>7
  <2>2. QED
    BY <1>2, <1>3, <2>1 DEF RememberedIsStored
<1>14. ControlInv'
  BY <1>4 DEF ControlInv
<1>15. QED
  BY <1>10, <1>11, <1>12, <1>13, <1>14 DEF IInv

-----------------------------------------------------------------------------

LEMMA StepInv == IInv /\ [Next]_vars => IInv'
<1>1. SUFFICES ASSUME IInv, [Next]_vars PROVE IInv'
  OBVIOUS
<1>2. CASE LedgerCloses \/ NodeForgets
  BY <1>1, <1>2, LedgerClosesInv, NodeForgetsInv
<1>3. CASE ResolveSaved \/ ResolveStart
  BY <1>1, <1>3, ResolveSavedInv, ResolveStartInv
<1>4. CASE FetchPage
  BY <1>1, <1>4, FetchPageInv
<1>5. CASE RpcUnavailable \/ CursorRefused \/ Wake \/ Restart
  BY <1>1, <1>5, ControlStepsInv
<1>6. CASE StartRefused \/ RecoverFails \/ Crash
  BY <1>1, <1>6, StopStepsInv
<1>7. CASE Recover \/ ClearPosition
  BY <1>1, <1>7, RecoverInv, ClearPositionInv
<1>8. CASE Consume \/ SavePosition
  BY <1>1, <1>8, ConsumeInv, SavePositionInv
<1>9. CASE UNCHANGED vars
  <2>1. UNCHANGED <<tip, oldest, upTo, stored, saved, pc, cursor, startLedger, page, seen, gone, crashes>>
    BY <1>9 DEF vars, node, db, process
  <2>2. TypeOK' /\ NodeInv' /\ RememberedIsStored'
    BY <1>1, <2>1 DEF IInv, TypeOK, NodeInv, RememberedIsStored
  <2>3. PositionInv' /\ ControlInv' /\ PageInv'
    BY <1>1, <2>1 DEF IInv, PositionInv, ControlInv, PageInv, SoundCursor, Covered, Wanted
  <2>4. QED
    BY <2>2, <2>3 DEF IInv
<1>10. QED
  BY <1>1, <1>2, <1>3, <1>4, <1>5, <1>6, <1>7, <1>8, <1>9 DEF Next

LEMMA Invariance == Spec => []IInv
<1>1. QED
  BY InitInv, StepInv, PTL DEF Spec

\* The types of the poller's, the node's and the database's state hold for every
\* value of the constants.
THEOREM TypeCorrect == Spec => []TypeOK
<1>1. IInv => TypeOK
  BY DEF IInv
<1>2. QED
  BY <1>1, Invariance, PTL

\* poller.ts promises that a crash "replays the last batch rather than losing it":
\* no wanted event at or before the saved position is ever missing unless the node
\* had forgotten it.
THEOREM NothingLost == Spec => []NoSilentLoss
<1>1. IInv => NoSilentLoss
  BY DEF IInv, PositionInv, SoundCursor, Covered, NoSilentLoss
<1>2. QED
  BY <1>1, Invariance, PTL

\* RecentIds never drops an event of a page that was not delivered before, whatever
\* the window's capacity.
THEOREM DedupIsSound == Spec => []RememberedIsStored
<1>1. IInv => RememberedIsStored
  BY DEF IInv
<1>2. QED
  BY <1>1, Invariance, PTL

\* The destructive recovery of isCursorOutOfRange drops the saved position only when
\* the node no longer holds the ledger it points into.
THEOREM PositionIsKept == Spec => ClearedOnlyWhenForgotten
<1>1. IInv /\ [Next]_vars => [(saved.at # 0 /\ saved'.at = 0) => saved.at < oldest]_vars
  <2>1. SUFFICES ASSUME IInv, [Next]_vars, saved.at # 0, saved'.at = 0
                 PROVE  saved.at < oldest
    OBVIOUS
  <2>2. CASE ClearPosition
    BY <2>1, <2>2 DEF IInv, ControlInv, PositionInv, ClearPosition
  <2>3. CASE SavePosition
    BY <2>1, <2>3 DEF IInv, PageInv, SavePosition, Position
  <2>4. CASE UNCHANGED saved
    BY <2>1, <2>4
  <2>5. QED
    BY <2>1, <2>2, <2>3, <2>4
       DEF Next, vars, db, LedgerCloses, NodeForgets, ResolveSaved, ResolveStart, FetchPage,
           RpcUnavailable, CursorRefused, StartRefused, Recover, RecoverFails, Consume,
           Wake, Crash, Restart
<1>2. QED
  BY <1>1, Invariance, PTL DEF Spec, ClearedOnlyWhenForgotten

-----------------------------------------------------------------------------
(* How far the database runs ahead of the saved position, and which ledger     *)
(* is committed with it.                                                       *)

Within(n) == \A e \in stored : e <= n + PageSize

\* Where a process without a saved position would start now.
StartNow == Clamp(StartLedger)

\* No stored event lies more than a page beyond the place a restart begins: the saved
\* position, or the start ledger the next process would resolve.
PaceInv ==
    /\ saved.at # 0 => Within(saved.pos)
    /\ saved.at = 0 => Within(upTo[StartNow - 1])
    /\ startLedger # 0 =>
          /\ startLedger <= StartNow
          /\ saved.at = 0 => Within(upTo[startLedger - 1])
          /\ saved.at # 0 => pc = "clear" /\ saved.at < startLedger
    /\ pc \in {"consume", "save"} =>
          /\ ByCursor \/ startLedger # 0
          /\ page.from = From /\ page.from <= page.to /\ page.to <= page.from + PageSize

\* What the page in hand would commit is as safe as what is committed.
CommitInv ==
    /\ saved.at # 0 => saved.ledger \in 1..tip /\ upTo[saved.ledger - 1] <= saved.pos
    /\ pc \in {"consume", "save"} =>
          CommittedLedger(page) \in 1..tip /\ upTo[CommittedLedger(page) - 1] <= page.to

-----------------------------------------------------------------------------

\* The counters, as numbers.
LEMMA Counters ==
    ASSUME IInv
    PROVE  /\ MaxLedger \in Nat /\ tip \in 1..MaxLedger /\ oldest \in 1..tip
           /\ StartLedger \in 0..MaxLedger /\ PageSize \in Nat /\ PageSize # 0
           /\ \A l \in 0..MaxLedger : upTo[l] \in Nat
           /\ \A l, m \in 0..MaxLedger : l <= m => upTo[l] <= upTo[m]
           /\ StartNow \in oldest..tip /\ StartNow \in Nat /\ StartNow <= MaxLedger
<1>1. /\ MaxLedger \in Nat /\ tip \in 1..MaxLedger /\ oldest \in 1..tip
      /\ StartLedger \in 0..MaxLedger /\ PageSize \in Nat /\ PageSize # 0
  BY IngestAssumption DEF IInv, TypeOK, Ledgers
<1>2. \A l \in 0..MaxLedger : upTo[l] \in Nat
  BY DEF IInv, TypeOK
<1>3. StartNow \in oldest..tip
  BY <1>1 DEF Clamp, StartNow
<1>4. StartNow \in Nat /\ StartNow <= MaxLedger
  BY <1>1, <1>3
<1>5. QED
  BY <1>1, <1>2, <1>3, <1>4 DEF IInv, NodeInv

LEMMA WithinMore ==
    ASSUME TypeOK, PageSize \in Nat, NEW m \in Nat, NEW n \in Nat, m <= n, Within(m)
    PROVE  Within(n)
<1>1. SUFFICES ASSUME NEW e \in stored PROVE e <= n + PageSize
  BY DEF Within
<1>2. e \in Nat /\ e <= m + PageSize
  BY DEF TypeOK, Within
<1>3. QED
  BY <1>2

LEMMA InitPace == Init => PaceInv /\ CommitInv
BY DEF Init, PaceInv, CommitInv, Within, NoPosition

\* While the process and the database rest, the start ledger a restart resolves only
\* moves up.
LEMMA NodePace == IInv /\ IInv' /\ PaceInv /\ (LedgerCloses \/ NodeForgets) => PaceInv'
<1>1. SUFFICES ASSUME IInv, IInv', PaceInv, LedgerCloses \/ NodeForgets PROVE PaceInv'
  OBVIOUS
<1>2. /\ UNCHANGED <<stored, saved, pc, cursor, startLedger, page>>
      /\ oldest <= oldest' /\ tip <= tip'
      /\ \A l \in 0..tip : upTo'[l] = upTo[l]
      /\ \A l \in 0..MaxLedger : upTo'[l] \in Nat
      /\ \A l, m \in 0..MaxLedger : l <= m => upTo'[l] <= upTo'[m]
  <2>1. UNCHANGED <<stored, saved, pc, cursor, startLedger, page>> /\ oldest <= oldest' /\ tip <= tip'
    BY <1>1, Counters DEF LedgerCloses, NodeForgets, db, process
  <2>2. \A l \in 0..tip : upTo'[l] = upTo[l]
    BY <1>1, CountersClose DEF IInv, NodeForgets
  <2>3. (\A l \in 0..MaxLedger : upTo'[l] \in Nat) /\ (\A l, m \in 0..MaxLedger : l <= m => upTo'[l] <= upTo'[m])
    BY <1>1 DEF IInv, TypeOK, NodeInv
  <2>4. QED
    BY <2>1, <2>2, <2>3
<1>3. /\ StartNow \in oldest..tip /\ StartNow <= StartNow' /\ StartNow' \in 1..MaxLedger
  <2>1. tip' \in 1..MaxLedger /\ oldest' \in 1..tip'
    BY <1>1 DEF IInv, TypeOK, Ledgers
  <2>2. QED
    BY <1>1, <1>2, <2>1, Counters DEF Clamp, StartNow
<1>4. ASSUME NEW l \in 1..tip, Within(upTo[l - 1]) PROVE Within(upTo[l - 1])'
  BY <1>2, <1>4, Counters, <1>1 DEF Within
<1>5. saved.at = 0 => Within(upTo[StartNow - 1])'
  <2>1. SUFFICES ASSUME saved.at = 0 PROVE Within(upTo[StartNow - 1])'
    OBVIOUS
  <2>2. Within(upTo[StartNow - 1])
    BY <1>1, <2>1 DEF PaceInv
  <2>3. /\ StartNow \in Nat /\ 1 <= StartNow /\ StartNow <= tip /\ tip <= MaxLedger /\ MaxLedger \in Nat
        /\ StartNow' \in Nat /\ 1 <= StartNow' /\ StartNow' <= MaxLedger /\ tip \in Nat
    BY <1>1, <1>3, Counters
  <2>4. /\ StartNow - 1 \in 0..tip /\ StartNow - 1 \in 0..MaxLedger /\ StartNow' - 1 \in 0..MaxLedger
        /\ StartNow - 1 <= StartNow' - 1
    <3>1. \A a, b, t, m \in Nat : 1 <= a /\ a <= b /\ a <= t /\ t <= m /\ b <= m =>
              a - 1 \in 0..t /\ a - 1 \in 0..m /\ b - 1 \in 0..m /\ a - 1 <= b - 1
      OBVIOUS
    <3>2. StartNow <= StartNow'
      BY <1>3
    <3>3. QED
      BY <2>3, <3>1, <3>2, Zenon
  <2>5. upTo[StartNow - 1] <= upTo'[StartNow' - 1] /\ upTo[StartNow - 1] \in Nat /\ upTo'[StartNow' - 1] \in Nat
    BY <1>2, <2>4
  <2>6. PageSize \in Nat /\ stored' = stored /\ TypeOK
    BY <1>1, <1>2, Counters DEF IInv
  <2>7. \A e \in stored : e \in Nat /\ e <= upTo[StartNow - 1] + PageSize
    BY <2>2, <2>6 DEF Within, TypeOK
  <2>8. \A e \in stored' : e <= upTo'[StartNow' - 1] + PageSize
    BY <2>5, <2>6, <2>7
  <2>9. QED
    BY <2>8 DEF Within
<1>6. startLedger # 0 => startLedger \in 1..tip /\ startLedger - 1 \in 0..tip
  <2>1. startLedger \in Nat
    BY <1>1, Counters DEF IInv, TypeOK
  <2>2. QED
    BY <1>1, <2>1, Counters DEF IInv, PositionInv
<1>7. ASSUME startLedger # 0
      PROVE  /\ startLedger <= StartNow' /\ (saved.at # 0 => pc = "clear" /\ saved.at < startLedger)
             /\ saved.at = 0 => Within(upTo[startLedger - 1])'
  <2>1. /\ startLedger <= StartNow /\ (saved.at # 0 => pc = "clear" /\ saved.at < startLedger)
        /\ saved.at = 0 => Within(upTo[startLedger - 1])
    BY <1>1, <1>7 DEF PaceInv
  <2>2. startLedger <= StartNow'
    <3>1. startLedger \in Nat /\ StartNow \in Nat /\ StartNow' \in Nat
      BY <1>1, <1>3, <1>6, <1>7, Counters
    <3>2. QED
      BY <1>3, <2>1, <3>1
  <2>3. saved.at = 0 => Within(upTo[startLedger - 1])'
    BY <1>2, <1>6, <1>7, <2>1 DEF Within
  <2>4. QED
    BY <2>1, <2>2, <2>3
<1>8. ByCursor \/ startLedger # 0 => From' = From
  BY <1>2, <1>6 DEF From, ByCursor
<1>9. (saved.at # 0 => Within(saved.pos))'
  BY <1>1, <1>2 DEF PaceInv, Within
<1>10. (startLedger # 0 =>
          /\ startLedger <= StartNow
          /\ saved.at = 0 => Within(upTo[startLedger - 1])
          /\ saved.at # 0 => pc = "clear" /\ saved.at < startLedger)'
  BY <1>2, <1>7
<1>11. (pc \in {"consume", "save"} =>
          /\ ByCursor \/ startLedger # 0
          /\ page.from = From /\ page.from <= page.to /\ page.to <= page.from + PageSize)'
  BY <1>1, <1>2, <1>8 DEF PaceInv, ByCursor
<1>12. (saved.at = 0 => Within(upTo[StartNow - 1]))'
  BY <1>2, <1>5
<1>13. QED
  BY <1>9, <1>10, <1>11, <1>12 DEF PaceInv

\* A process that stops leaves the database and forgets the rest.
LEMMA StopPace == PaceInv /\ Blank /\ pc' = "down" /\ UNCHANGED <<node, db>> => PaceInv'
BY DEF Blank, node, db, PaceInv, Within, StartNow, Clamp

\* The process goes on from what is saved, or from where it was.
LEMMA MovePace ==
    ASSUME IInv, PaceInv, pc # "clear", pc' \notin {"clear", "consume", "save"},
           UNCHANGED <<node, db, startLedger>>
    PROVE  PaceInv'
BY DEF node, db, PaceInv, Within, StartNow, Clamp

LEMMA ResolveStartPace == IInv /\ PaceInv /\ ResolveStart => PaceInv'
<1>1. SUFFICES ASSUME IInv, PaceInv, ResolveStart PROVE PaceInv'
  OBVIOUS
<1>2. /\ saved.at = 0 /\ startLedger' = StartNow /\ pc' = "fetch"
      /\ UNCHANGED <<tip, oldest, upTo, stored, saved>>
  BY <1>1 DEF ResolveStart, node, db, StartNow
<1>3. StartNow' = StartNow /\ StartNow \in Nat
  BY <1>1, <1>2, Counters DEF StartNow, Clamp
<1>4. QED
  BY <1>1, <1>2, <1>3 DEF PaceInv, Within

\* The oldest ledger is no later than where a new process would start, and later than
\* the position about to be dropped.
LEMMA RecoverPace == IInv /\ PaceInv /\ Recover => PaceInv'
<1>1. SUFFICES ASSUME IInv, PaceInv, Recover PROVE PaceInv'
  OBVIOUS
<1>2. /\ startLedger' = oldest /\ pc' = "clear" /\ pc = "recover"
      /\ UNCHANGED <<tip, oldest, upTo, stored, saved, cursor>>
  BY <1>1 DEF Recover, node, db
<1>3. StartNow' = StartNow /\ oldest <= StartNow
  BY <1>1, <1>2, Counters DEF StartNow, Clamp
<1>4. saved.at # 0 /\ saved.at < oldest
  BY <1>1, <1>2 DEF IInv, ControlInv, PositionInv
<1>5. QED
  BY <1>1, <1>2, <1>3, <1>4 DEF PaceInv, Within

LEMMA ClearPace == IInv /\ PaceInv /\ ClearPosition => PaceInv'
<1>1. SUFFICES ASSUME IInv, PaceInv, ClearPosition PROVE PaceInv'
  OBVIOUS
<1>2. /\ saved'.at = 0 /\ cursor'.at = 0 /\ pc' = "fetch" /\ pc = "clear"
      /\ UNCHANGED <<tip, oldest, upTo, stored, startLedger>>
  BY <1>1 DEF ClearPosition, node, NoPosition, NoCursor
<1>3. /\ startLedger # 0 /\ saved.at # 0 /\ saved.pos <= upTo[saved.at]
      /\ startLedger <= StartNow /\ saved.at < startLedger /\ Within(saved.pos)
  BY <1>1, <1>2 DEF IInv, ControlInv, PositionInv, SoundCursor, PaceInv
<1>4. /\ saved.at \in 0..MaxLedger /\ saved.pos \in Nat /\ startLedger \in 0..MaxLedger
      /\ StartNow \in Nat /\ StartNow <= MaxLedger /\ MaxLedger \in Nat
  BY <1>1, Counters DEF IInv, TypeOK
<1>5. /\ saved.at \in 0..MaxLedger /\ startLedger - 1 \in 0..MaxLedger /\ StartNow - 1 \in 0..MaxLedger
      /\ saved.at <= startLedger - 1 /\ startLedger - 1 <= StartNow - 1
  BY <1>3, <1>4
<1>6. /\ upTo[saved.at] \in Nat /\ upTo[startLedger - 1] \in Nat /\ upTo[StartNow - 1] \in Nat
      /\ upTo[saved.at] <= upTo[startLedger - 1] /\ upTo[startLedger - 1] <= upTo[StartNow - 1]
  BY <1>1, <1>5, Counters
<1>7. saved.pos <= upTo[startLedger - 1] /\ saved.pos <= upTo[StartNow - 1]
  BY <1>3, <1>4, <1>6
<1>8. Within(upTo[startLedger - 1]) /\ Within(upTo[StartNow - 1])
  BY <1>1, <1>3, <1>4, <1>6, <1>7, WithinMore, Counters DEF IInv
<1>9. StartNow' = StartNow
  BY <1>2 DEF StartNow, Clamp
<1>10. QED
  BY <1>2, <1>3, <1>8, <1>9 DEF PaceInv, Within

LEMMA FetchPace == IInv /\ PaceInv /\ FetchPage => PaceInv'
<1>1. SUFFICES ASSUME IInv, PaceInv, FetchPage PROVE PaceInv'
  OBVIOUS
<1>2. /\ pc = "fetch" /\ InRange /\ page'.from = From /\ page'.to = PageEnd /\ pc' # "clear"
      /\ UNCHANGED <<tip, oldest, upTo, stored, saved, cursor, startLedger>>
  BY <1>1 DEF FetchPage, node, db
<1>3. From \in Nat /\ PageEnd \in Nat /\ From <= PageEnd /\ LastServed \in 1..tip
  BY <1>1, <1>2, PageBounds
<1>4. PageEnd <= From + PageSize
  <2>1. PageSize \in Nat /\ upTo[LastServed] \in Nat
    BY <1>1, <1>3, Counters
  <2>2. QED
    BY <1>3, <2>1 DEF PageEnd
<1>5. ByCursor \/ startLedger # 0
  BY <1>1, <1>2 DEF IInv, ControlInv, ByCursor
<1>6. From' = From /\ StartNow' = StartNow
  BY <1>2 DEF From, ByCursor, StartNow, Clamp
<1>7. QED
  BY <1>1, <1>2, <1>3, <1>4, <1>5, <1>6 DEF PaceInv, Within, ByCursor

\* What the consumer stores is of a page that begins at the saved position, or at the
\* start ledger when there is none.
LEMMA ConsumePace == IInv /\ PaceInv /\ Consume => PaceInv'
<1>1. SUFFICES ASSUME IInv, PaceInv, Consume PROVE PaceInv'
  OBVIOUS
<1>2. /\ pc = "consume" /\ stored' = stored \cup page.fresh /\ pc' \in {"done", "save"}
      /\ UNCHANGED <<tip, oldest, upTo, saved, cursor, startLedger, page>>
  BY <1>1 DEF Consume, node
<1>3. /\ ByCursor \/ startLedger # 0
      /\ page.from = From /\ page.from <= page.to /\ page.to <= page.from + PageSize
      /\ page.fresh \subseteq (page.from + 1)..page.to
      /\ page.from \in Nat /\ page.to \in Nat /\ PageSize \in Nat
  BY <1>1, <1>2, Counters DEF PaceInv, IInv, PageInv, TypeOK
<1>4. Within(From) => Within(From)'
  <2>1. From' = From
    BY <1>2 DEF From, ByCursor
  <2>2. \A e \in page.fresh : e <= From + PageSize
    BY <1>3
  <2>3. QED
    BY <1>2, <2>1, <2>2 DEF Within
<1>5. From' = From /\ StartNow' = StartNow
  BY <1>2 DEF From, ByCursor, StartNow, Clamp
<1>6. CASE ByCursor
  <2>1. saved.at # 0 /\ From = saved.pos /\ startLedger = 0
    BY <1>1, <1>2, <1>6 DEF IInv, PositionInv, ByCursor, From, PaceInv
  <2>2. Within(saved.pos)'
    BY <1>1, <1>2, <1>4, <1>5, <2>1 DEF PaceInv, Within
  <2>3. QED
    BY <1>2, <1>3, <1>5, <2>1, <2>2 DEF PaceInv, ByCursor
<1>7. CASE ~ByCursor
  <2>1. startLedger # 0 /\ saved.at = 0 /\ From = upTo[startLedger - 1] /\ startLedger <= StartNow
    BY <1>1, <1>2, <1>3, <1>7 DEF PaceInv, From
  <2>2. Within(upTo[startLedger - 1])'
    BY <1>1, <1>2, <1>4, <1>5, <2>1 DEF PaceInv, Within
  <2>3. /\ StartNow \in Nat /\ StartNow <= MaxLedger /\ MaxLedger \in Nat
        /\ startLedger \in 0..MaxLedger
    BY <1>1, Counters DEF IInv, TypeOK
  <2>4. /\ startLedger - 1 \in 0..MaxLedger /\ StartNow - 1 \in 0..MaxLedger
        /\ startLedger - 1 <= StartNow - 1
    BY <2>1, <2>3
  <2>5. /\ upTo[startLedger - 1] \in Nat /\ upTo[StartNow - 1] \in Nat
        /\ upTo[startLedger - 1] <= upTo[StartNow - 1]
    BY <1>1, <2>4, Counters
  <2>6. stored' \subseteq Nat
    BY <1>1, <1>2, <1>3 DEF IInv, TypeOK
  <2>7. Within(upTo[StartNow - 1])'
    BY <1>2, <1>3, <1>5, <2>2, <2>5, <2>6 DEF Within
  <2>8. QED
    BY <1>2, <1>3, <1>5, <2>1, <2>2, <2>7 DEF PaceInv, ByCursor
<1>8. QED
  BY <1>6, <1>7

LEMMA SavePace == IInv /\ PaceInv /\ SavePosition => PaceInv'
<1>1. SUFFICES ASSUME IInv, PaceInv, SavePosition PROVE PaceInv'
  OBVIOUS
<1>2. /\ pc = "save" /\ saved'.pos = page.to /\ saved'.at = page.at /\ startLedger' = 0
      /\ pc' \in {"fetch", "done", "sleep"} /\ stored' = stored
  BY <1>1 DEF SavePosition, Position
<1>3. /\ page.from = From /\ page.from <= page.to /\ page.at # 0
      /\ page.from \in Nat /\ page.to \in Nat /\ PageSize \in Nat
      /\ ByCursor \/ startLedger # 0
  BY <1>1, <1>2, Counters DEF PaceInv, IInv, PageInv, TypeOK
<1>4. Within(From)
  BY <1>1, <1>2, <1>3 DEF IInv, PositionInv, ByCursor, From, PaceInv
<1>5. Within(page.to)
  BY <1>1, <1>3, <1>4, WithinMore DEF IInv
<1>6. QED
  BY <1>2, <1>3, <1>5 DEF PaceInv, Within

LEMMA StepPace == IInv /\ IInv' /\ PaceInv /\ [Next]_vars => PaceInv'
<1>1. SUFFICES ASSUME IInv, IInv', PaceInv, [Next]_vars PROVE PaceInv'
  OBVIOUS
<1>2. CASE LedgerCloses \/ NodeForgets
  BY <1>1, <1>2, NodePace
<1>3. CASE RpcUnavailable \/ CursorRefused \/ Wake \/ Restart \/ ResolveSaved
  <2>1. UNCHANGED <<node, db, startLedger>> /\ pc # "clear" /\ pc' \notin {"clear", "consume", "save"}
    BY <1>3 DEF RpcUnavailable, CursorRefused, Wake, Restart, ResolveSaved
  <2>2. QED
    BY <1>1, <2>1, MovePace
<1>4. CASE StartRefused \/ RecoverFails \/ Crash
  BY <1>1, <1>4, StopPace DEF StartRefused, RecoverFails, Crash
<1>5. CASE ResolveStart \/ Recover \/ ClearPosition
  BY <1>1, <1>5, ResolveStartPace, RecoverPace, ClearPace
<1>6. CASE FetchPage \/ Consume \/ SavePosition
  BY <1>1, <1>6, FetchPace, ConsumePace, SavePace
<1>7. CASE UNCHANGED vars
  BY <1>1, <1>7 DEF vars, node, db, process, PaceInv, Within, StartNow, Clamp, From, ByCursor
<1>8. QED
  BY <1>1, <1>2, <1>3, <1>4, <1>5, <1>6, <1>7 DEF Next

-----------------------------------------------------------------------------
\* RECENT_ID_WINDOW_PAGES and ADR-004: whenever the process is killed, what the next
\* one stores again is at most one page: nothing stored lies further than that beyond
\* the saved position, through every recovery and change of the start ledger.
THEOREM ReplayIsBounded == Spec => []ReplayIsOnePage
<1>1. PaceInv => ReplayIsOnePage
  BY DEF PaceInv, Within, ReplayIsOnePage
<1>2. QED
  BY <1>1, InitPace, StepPace, Invariance, PTL DEF Spec

-----------------------------------------------------------------------------

LEMMA InitCommit == Init => CommitInv
BY InitPace

\* A page without events says that the node served its latest ledger, so that nothing
\* before that ledger is left; one with events was cut at its last event's ledger.
LEMMA FetchCommit ==
    ASSUME EndLedger = 0, IInv, FetchPage
    PROVE  CommittedLedger(page') \in 1..tip /\ upTo[CommittedLedger(page') - 1] <= page'.to
<1>1. pc = "fetch" /\ InRange
  BY DEF FetchPage
<1>2. PICK last \in LastLedger :
          page'.last = last /\ page'.latest = tip /\ page'.from = From /\ page'.to = PageEnd
  BY DEF FetchPage
<1>3. /\ From \in Nat /\ PageEnd \in Nat /\ From <= PageEnd /\ PageEnd <= upTo[LastServed]
      /\ PageEnd - From < PageSize => PageEnd = upTo[LastServed]
  BY <1>1, PageBounds
<1>4. LastServed = tip
  BY DEF LastServed
<1>5. /\ MaxLedger \in Nat /\ tip \in 1..MaxLedger /\ tip - 1 \in 0..MaxLedger /\ tip \in 0..MaxLedger
      /\ PageSize \in Nat /\ PageSize # 0
      /\ \A l \in 0..MaxLedger : upTo[l] \in Nat
      /\ \A l, m \in 0..MaxLedger : l <= m => upTo[l] <= upTo[m]
  BY Counters
<1>6. CASE PageEnd = From
  <2>1. last = 0
    BY <1>6 DEF LastLedger
  <2>2. PageEnd = upTo[tip] /\ upTo[tip - 1] <= upTo[tip]
    BY <1>3, <1>4, <1>5, <1>6
  <2>3. QED
    BY <1>2, <1>5, <2>1, <2>2 DEF CommittedLedger
<1>7. CASE PageEnd # From
  <2>1. last \in 1..MaxLedger /\ upTo[last - 1] < PageEnd
    BY <1>7 DEF LastLedger, Ledgers, InLedger
  <2>2. last - 1 \in 0..MaxLedger /\ upTo[last - 1] \in Nat /\ upTo[tip] \in Nat
    BY <1>5, <2>1
  <2>3. last <= tip
    <3>1. SUFFICES ASSUME tip <= last - 1 PROVE FALSE
      BY <1>5, <2>1
    <3>2. upTo[tip] <= upTo[last - 1]
      BY <1>5, <2>2, <3>1
    <3>3. QED
      BY <1>3, <1>4, <2>1, <2>2, <3>2
  <2>4. QED
    BY <1>2, <1>3, <1>5, <2>1, <2>2, <2>3 DEF CommittedLedger
<1>8. QED
  BY <1>6, <1>7

LEMMA StepCommit == ASSUME EndLedger = 0, IInv, CommitInv, [Next]_vars PROVE CommitInv'
<1>1. /\ tip \in Nat /\ tip \in 1..MaxLedger /\ MaxLedger \in Nat
      /\ \A l \in 0..MaxLedger : upTo[l] \in Nat
  BY Counters
<1>2. CASE LedgerCloses \/ NodeForgets
  <2>1. /\ UNCHANGED <<saved, pc, page>> /\ tip' \in Nat /\ tip <= tip'
        /\ \A l \in 1..tip : l \in 1..tip' /\ upTo'[l - 1] = upTo[l - 1]
    <3>1. UNCHANGED <<saved, pc, page>> /\ tip' \in Nat /\ tip <= tip'
      BY <1>1, <1>2 DEF LedgerCloses, NodeForgets, db, process
    <3>2. \A l \in 0..tip : upTo'[l] = upTo[l]
      BY <1>2, CountersClose DEF IInv, NodeForgets
    <3>3. \A l \in 1..tip : l \in 1..tip' /\ l - 1 \in 0..tip
      BY <1>1, <3>1
    <3>4. QED
      BY <3>1, <3>2, <3>3
  <2>2. CommittedLedger(page') = CommittedLedger(page)
    BY <2>1
  <2>3. QED
    BY <2>1, <2>2 DEF CommitInv, CommittedLedger
<1>3. CASE FetchPage
  <2>1. /\ CommittedLedger(page') \in 1..tip /\ upTo[CommittedLedger(page') - 1] <= page'.to
        /\ UNCHANGED <<tip, upTo, saved>>
    BY <1>3, FetchCommit DEF FetchPage, node, db
  <2>2. QED
    BY <2>1 DEF CommitInv, CommittedLedger
<1>4. CASE Consume
  BY <1>4 DEF CommitInv, CommittedLedger, Consume, node
<1>5. CASE SavePosition
  BY <1>5 DEF CommitInv, SavePosition, Position, CommittedLedger, node
<1>6. CASE ClearPosition
  BY <1>6 DEF CommitInv, ClearPosition, NoPosition, node
<1>7. CASE UNCHANGED vars
  BY <1>7 DEF CommitInv, vars, node, db, process, CommittedLedger
<1>8. CASE \/ ResolveSaved \/ ResolveStart \/ RpcUnavailable \/ CursorRefused \/ StartRefused
           \/ Recover \/ RecoverFails \/ Wake \/ Crash \/ Restart
  <2>1. UNCHANGED <<tip, upTo, saved>> /\ pc' \notin {"consume", "save"}
    BY <1>8 DEF ResolveSaved, ResolveStart, RpcUnavailable, CursorRefused, StartRefused, Recover,
                RecoverFails, Wake, Crash, Restart, node, db
  <2>2. QED
    BY <2>1 DEF CommitInv
<1>9. QED
  BY <1>2, <1>3, <1>4, <1>5, <1>6, <1>7, <1>8 DEF Next

\* The ledger saved beside the cursor, from which a failover or an archive replay
\* starts over, has nothing before it that is still to be fetched.  `lens index` never
\* bounds its stream; a bounded one commits the node's latest ledger with its last,
\* empty page, and its position is not resumed from.
THEOREM CommittedLedgerStands == ASSUME EndLedger = 0 PROVE Spec => []CommittedLedgerIsSafe
<1>1. CommitInv => CommittedLedgerIsSafe
  BY DEF CommitInv, CommittedLedgerIsSafe
<1>2. Init => CommitInv
  BY InitCommit
<1>3. IInv /\ CommitInv /\ [Next]_vars => CommitInv'
  BY StepCommit
<1>4. QED
  BY <1>1, <1>2, <1>3, Invariance, PTL DEF Spec

-----------------------------------------------------------------------------
(* The indexer implements Delivery. *)

LEMMA InitRefines == Init => D!Init
<1>1. SUFFICES ASSUME Init PROVE D!Init
  OBVIOUS
<1>2. PICK n \in 0..MaxPerLedger : upTo = [l \in 0..MaxLedger |-> IF l = 0 THEN 0 ELSE n]
  BY <1>1 DEF Init
<1>3. /\ tip = 1 /\ oldest = 1 /\ stored = {} /\ gone = {} /\ saved.pos = 0 /\ n \in Nat
      /\ MaxLedger \in Nat \ {0} /\ StartLedger \in 0..MaxLedger
  BY <1>1, IngestAssumption DEF Init, NoPosition
<1>4. upTo[1] = n /\ upTo[oldest - 1] = 0
  BY <1>2, <1>3
<1>5. StartLedger # 0 => upTo[StartLedger - 1] \in 0..n
  BY <1>2, <1>3
<1>6. QED
  BY <1>3, <1>4, <1>5 DEF D!Init

LEMMA CloseRefines == IInv /\ LedgerCloses => D!Publish
<1>1. SUFFICES ASSUME IInv, LedgerCloses PROVE D!Publish
  OBVIOUS
<1>2. /\ tip' = tip + 1 /\ UNCHANGED <<oldest, stored, gone, saved>>
      /\ tip \in 1..(MaxLedger - 1) /\ oldest \in 1..tip /\ MaxLedger \in Nat
      /\ StartLedger \in 0..MaxLedger
  BY <1>1, IngestAssumption DEF LedgerCloses, db, IInv, TypeOK, Ledgers
<1>3. /\ upTo' \in [0..MaxLedger -> Nat] /\ upTo \in [0..MaxLedger -> Nat]
      /\ \A l \in 0..tip : upTo'[l] = upTo[l]
      /\ \A l \in 0..MaxLedger : tip < l => upTo'[l] = upTo'[tip + 1]
      /\ upTo[tip] <= upTo'[tip + 1]
  BY <1>1, CountersClose DEF IInv, TypeOK
<1>4. upTo'[tip'] \in Nat /\ upTo'[tip'] >= upTo[tip] /\ upTo'[oldest' - 1] = upTo[oldest - 1]
  BY <1>2, <1>3
<1>5. CASE StartLedger = 0 \/ StartLedger - 1 <= tip
  BY <1>2, <1>3, <1>4, <1>5 DEF D!Publish
<1>6. CASE StartLedger # 0 /\ tip < StartLedger - 1
  <2>1. StartLedger - 1 \in 0..MaxLedger
    BY <1>2, <1>6
  <2>2. upTo[StartLedger - 1] = upTo[tip] /\ upTo'[StartLedger - 1] = upTo'[tip']
    BY <1>1, <1>2, <1>3, <1>6, <2>1 DEF IInv, NodeInv
  <2>3. QED
    BY <1>2, <1>4, <1>6, <2>2 DEF D!Publish
<1>7. QED
  BY <1>2, <1>5, <1>6

LEMMA ForgetRefines == IInv /\ NodeForgets => D!Expire
<1>1. SUFFICES ASSUME IInv, NodeForgets PROVE D!Expire
  OBVIOUS
<1>2. /\ oldest < tip /\ oldest' = oldest + 1
      /\ UNCHANGED <<tip, upTo, stored, gone, saved>>
      /\ oldest - 1 \in 0..MaxLedger /\ oldest \in 0..MaxLedger /\ tip \in 0..MaxLedger
      /\ oldest' - 1 = oldest
  BY <1>1, IngestAssumption DEF NodeForgets, db, IInv, TypeOK, Ledgers
<1>3. upTo[oldest - 1] <= upTo[oldest] /\ upTo[oldest] <= upTo[tip]
  BY <1>1, <1>2 DEF IInv, NodeInv
<1>4. upTo[oldest - 1] \in Nat /\ upTo[oldest] \in Nat /\ upTo[tip] \in Nat
  BY <1>1, <1>2 DEF IInv, TypeOK
<1>5. upTo'[oldest' - 1] \in upTo[oldest - 1]..upTo[tip]
  BY <1>2, <1>3, <1>4
<1>6. QED
  BY <1>2, <1>5 DEF D!Expire

\* The page in hand ends at an event that was closed.
LEMMA PageClosed ==
    ASSUME IInv, pc \in {"consume", "save"}
    PROVE  /\ page.from \in Nat /\ page.to \in Nat /\ upTo[tip] \in Nat
           /\ page.to <= upTo[tip]
           /\ page.fresh \subseteq (page.from + 1)..page.to
<1>1. /\ page.at # 0 /\ page.at <= tip /\ page.to <= upTo[page.at]
      /\ page.fresh \subseteq (page.from + 1)..page.to
  BY DEF IInv, PageInv
<1>2. /\ page.from \in Nat /\ page.to \in Nat /\ page.at \in 0..MaxLedger
      /\ tip \in 1..MaxLedger
      /\ upTo \in [0..MaxLedger -> Nat]
  BY DEF IInv, TypeOK, Ledgers
<1>3. tip \in 0..MaxLedger
  BY <1>2, IngestAssumption
<1>4. upTo[page.at] <= upTo[tip]
  BY <1>1, <1>2, <1>3 DEF IInv, NodeInv
<1>5. upTo[page.at] \in Nat /\ upTo[tip] \in Nat
  BY <1>2, <1>3
<1>6. QED
  BY <1>1, <1>2, <1>4, <1>5

LEMMA ConsumeRefines == IInv /\ Consume => D!Store
<1>1. SUFFICES ASSUME IInv, Consume PROVE D!Store
  OBVIOUS
<1>2. stored' = stored \cup page.fresh /\ UNCHANGED <<tip, oldest, upTo, saved, gone>>
  BY <1>1 DEF Consume, node
<1>3. page.fresh \subseteq 1..upTo[tip]
  <2>1. pc \in {"consume", "save"}
    BY <1>1 DEF Consume
  <2>2. QED
    BY <1>1, <2>1, PageClosed
<1>4. QED
  BY <1>2, <1>3 DEF D!Store

\* A row without a place to read from is no row.
Placed == saved.at = 0 => saved.pos = 0

LEMMA StepPlaced == IInv /\ Placed /\ [Next]_vars => Placed'
<1>1. SUFFICES ASSUME IInv, Placed, [Next]_vars PROVE Placed'
  OBVIOUS
<1>2. CASE ClearPosition
  BY <1>2 DEF ClearPosition, NoPosition, Placed
<1>3. CASE SavePosition
  BY <1>1, <1>3 DEF IInv, PageInv, SavePosition, Position, Placed
<1>4. CASE UNCHANGED saved
  BY <1>1, <1>4 DEF Placed
<1>5. QED
  BY <1>1, <1>2, <1>3, <1>4
     DEF Next, vars, db, LedgerCloses, NodeForgets, ResolveSaved, ResolveStart, FetchPage,
         RpcUnavailable, CursorRefused, StartRefused, Recover, RecoverFails, Consume,
         Wake, Crash, Restart

\* The position moves forward: a page begins at it, or there is none.
LEMMA SaveRefines == IInv /\ PaceInv /\ Placed /\ SavePosition => D!Acknowledge
<1>1. SUFFICES ASSUME IInv, PaceInv, Placed, SavePosition PROVE D!Acknowledge
  OBVIOUS
<1>2. saved'.pos = page.to /\ saved'.at = page.at /\ UNCHANGED <<tip, oldest, upTo, stored, gone>>
  BY <1>1 DEF SavePosition, Position, CommittedLedger, node
<1>3. pc \in {"consume", "save"} /\ page.at # 0
  BY <1>1 DEF SavePosition, IInv, PageInv
<1>4. saved'.pos \in saved.pos..upTo[tip]
  <2>1. page.to \in Nat /\ page.to <= upTo[tip] /\ page.from \in Nat /\ upTo[tip] \in Nat
    BY <1>1, <1>3, PageClosed
  <2>2. page.from = From /\ page.from <= page.to /\ (ByCursor \/ startLedger # 0)
    BY <1>1, <1>3 DEF PaceInv
  <2>3. saved.pos <= page.from /\ saved.pos \in Nat
    <3>1. pc = "save" /\ saved.pos \in Nat /\ (saved.at = 0 => saved.pos = 0)
      BY <1>1 DEF SavePosition, IInv, TypeOK, Placed
    <3>2. CASE ByCursor
      BY <1>1, <2>2, <3>1, <3>2 DEF ByCursor, From, IInv, PositionInv
    <3>3. CASE ~ByCursor
      <4>1. saved.at = 0
        BY <1>1, <2>2, <3>1, <3>3 DEF PaceInv
      <4>2. QED
        BY <2>1, <2>2, <3>1, <4>1
    <3>4. QED
      BY <3>2, <3>3
  <2>4. QED
    BY <1>2, <2>1, <2>2, <2>3
<1>5. Covered(saved.pos)'
  BY <1>1, <1>2, <1>3, SavePositionInv DEF IInv, PositionInv, SoundCursor
<1>6. \A e \in 1..saved'.pos :
          \/ e <= (IF StartLedger = 0 THEN 0 ELSE upTo[StartLedger - 1])
          \/ e \in stored \/ e \in gone
  <2>1. SUFFICES ASSUME NEW e \in 1..saved'.pos, e \notin stored, e \notin gone
                 PROVE  e <= (IF StartLedger = 0 THEN 0 ELSE upTo[StartLedger - 1])
    OBVIOUS
  <2>2. ~Wanted(e)
    BY <1>2, <1>5, <2>1 DEF Covered, Wanted
  <2>3. StartLedger # 0 => StartLedger - 1 \in 0..MaxLedger
    BY IngestAssumption
  <2>4. upTo \in [0..MaxLedger -> Nat]
    BY <1>1 DEF IInv, TypeOK
  <2>5. StartLedger # 0 => upTo[StartLedger - 1] \in Nat
    BY <2>3, <2>4
  <2>6. QED
    BY <2>2, <2>5 DEF Wanted
<1>7. QED
  BY <1>2, <1>4, <1>6 DEF D!Acknowledge, D!Accounted

LEMMA ClearRefines == IInv /\ ClearPosition => D!Forfeit
<1>1. SUFFICES ASSUME IInv, ClearPosition PROVE D!Forfeit
  OBVIOUS
<1>2. /\ saved'.pos = 0 /\ UNCHANGED <<tip, oldest, upTo, stored, gone>>
      /\ saved.at # 0 /\ saved.at < oldest /\ saved.pos <= upTo[saved.at]
  BY <1>1 DEF ClearPosition, node, NoPosition, IInv, ControlInv, PositionInv, SoundCursor
<1>3. /\ saved.at \in 0..MaxLedger /\ oldest - 1 \in 0..MaxLedger /\ saved.at <= oldest - 1
      /\ saved.pos \in Nat
  BY <1>1, <1>2, IngestAssumption DEF IInv, TypeOK, Ledgers
<1>4. upTo[saved.at] <= upTo[oldest - 1]
  BY <1>1, <1>3 DEF IInv, NodeInv
<1>5. upTo[saved.at] \in Nat /\ upTo[oldest - 1] \in Nat
  BY <1>1, <1>3 DEF IInv, TypeOK
<1>6. saved.pos <= upTo[oldest - 1]
  BY <1>2, <1>3, <1>4, <1>5
<1>7. QED
  BY <1>2, <1>6 DEF D!Forfeit

\* Resolving a start ledger and recovering give up what the node has forgotten.
LEMMA GiveUpRefines == ResolveStart \/ Recover => D!GiveUp
BY DEF ResolveStart, Recover, node, db, Forgotten, D!GiveUp

LEMMA StutterRefines ==
    \/ ResolveSaved \/ FetchPage \/ RpcUnavailable \/ CursorRefused \/ StartRefused
    \/ RecoverFails \/ Wake \/ Crash \/ Restart \/ UNCHANGED vars
    => UNCHANGED D!vars
<1>1. UNCHANGED <<tip, oldest, upTo, stored, saved, gone>> => UNCHANGED D!vars
  BY DEF D!vars
<1>2. QED
  BY <1>1 DEF ResolveSaved, FetchPage, RpcUnavailable, CursorRefused, StartRefused,
              RecoverFails, Wake, Crash, Restart, vars, node, db

\* Every behaviour of the indexer, with its crashes, failed requests and recoveries,
\* is a behaviour of the at-least-once promise of ADR-004.
THEOREM Refinement == Spec => AtLeastOnce
<1>1. Init => D!Init /\ Placed
  BY InitRefines DEF Init, NoPosition, Placed
<1>2. IInv /\ PaceInv /\ Placed /\ [Next]_vars => [D!Next]_D!vars
  <2>1. SUFFICES ASSUME IInv, PaceInv, Placed, [Next]_vars PROVE D!Next \/ UNCHANGED D!vars
    OBVIOUS
  <2>2. CASE LedgerCloses \/ NodeForgets
    BY <2>1, <2>2, CloseRefines, ForgetRefines DEF D!Next
  <2>3. CASE ResolveStart \/ Recover
    BY <2>3, GiveUpRefines DEF D!Next
  <2>4. CASE Consume \/ SavePosition \/ ClearPosition
    BY <2>1, <2>4, ConsumeRefines, SaveRefines, ClearRefines DEF D!Next
  <2>5. CASE ~(LedgerCloses \/ NodeForgets \/ ResolveStart \/ Recover
               \/ Consume \/ SavePosition \/ ClearPosition)
    BY <2>1, <2>5, StutterRefines DEF Next
  <2>6. QED
    BY <2>2, <2>3, <2>4, <2>5
<1>3. QED
  BY <1>1, <1>2, InitPace, StepPace, StepPlaced, Invariance, PTL DEF Spec, AtLeastOnce, D!Spec
=============================================================================
