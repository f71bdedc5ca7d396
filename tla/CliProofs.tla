----------------------------- MODULE CliProofs -----------------------------
(***************************************************************************)
(* Proofs about the ingesting commands.  IngestCli, for every number of    *)
(* processes that share a cursor directory, of events and of kills: the    *)
(* file never holds a position whose events are not on standard output,    *)
(* and the two keep the promise of Delivery.                               *)
(* IndexerRun, for every set of contracts and wherever the run fails: no   *)
(* spec lookup is left when the store closes.  SizePrune, for every budget *)
(* and size of ledgers and chunks: a prune takes the oldest.               *)
(* CliCommand, for every command line and table: the exit code says what   *)
(* became of the command.                                                  *)
(***************************************************************************)
EXTENDS IngestCli, IndexerRun, SizePrune, CliCommand, PageProofs

-----------------------------------------------------------------------------
(* The inductive invariant. *)

Bounds == LastEvent \in Nat /\ CliPageSize \in Nat

SomeOptions == [resume : BOOLEAN, once : BOOLEAN, end : Nat, most : Nat]
Process == [pc : {"down", "poll", "emit", "write", "rename"}, opts : SomeOptions,
            at : 0..LastEvent, to : 0..LastEvent, last : BOOLEAN, emitted : Nat, signalled : BOOLEAN]

Typed ==
    /\ published \in 0..LastEvent /\ cursorFile \in 0..LastEvent
    /\ process \in [CliProcs -> Process]

OnOutput(n, out) == 1..n \subseteq out

\* What a process has read is on standard output, what it is about to save too; one
\* with --max-events goes on only while some are left.
Steady(k, out) ==
    /\ OnOutput(k.at, out)
    /\ k.pc = "emit" => k.at <= k.to
    /\ k.pc \in {"write", "rename"} => OnOutput(k.to, out)
    /\ k.opts.most # 0 => k.opts.resume /\ k.emitted < k.opts.most

CliInv == Typed /\ OnOutput(cursorFile, written) /\ \A p \in CliProcs : Steady(process[p], written)

-----------------------------------------------------------------------------

LEMMA DownIsSteady == ASSUME Bounds, NEW out PROVE Down \in Process /\ Steady(Down, out)
<1>1. 0 \in 0..LastEvent /\ 1..0 = {}
  BY DEF Bounds
<1>2. QED
  BY <1>1 DEF Down, Process, SomeOptions, Steady, OnOutput

LEMMA InitCli == ASSUME Bounds, CliInit PROVE CliInv
<1>1. 0 \in 0..LastEvent /\ 1..0 = {}
  BY DEF Bounds
<1>2. QED
  BY <1>1, DownIsSteady DEF CliInit, CliInv, Typed, OnOutput, Absent

\* A step of one process, which only adds to the output.
LEMMA ProcessMoves ==
    ASSUME CliInv, NEW p \in CliProcs, NEW k \in Process, process' = [process EXCEPT ![p] = k],
           published' = published, written \subseteq written', cursorFile' \in 0..LastEvent,
           OnOutput(cursorFile', written'), Steady(k, written')
    PROVE  CliInv'
<1>1. process' \in [CliProcs -> Process] /\ process'[p] = k /\ \A q \in CliProcs : q # p => process'[q] = process[q]
  BY DEF CliInv, Typed
<1>2. ASSUME NEW q \in CliProcs, q # p PROVE Steady(process'[q], written')
  BY <1>1, <1>2 DEF CliInv, Steady, OnOutput
<1>3. QED
  BY <1>1, <1>2 DEF CliInv, Typed

\* The same, when the file is left alone.
LEMMA FileStays ==
    ASSUME CliInv, UNCHANGED cursorFile, written \subseteq written'
    PROVE  cursorFile' \in 0..LastEvent /\ OnOutput(cursorFile', written')
BY DEF CliInv, Typed, OnOutput

(* The steps of a process. *)

LEMMA OptionsAreSome ==
    ASSUME NEW o \in Options PROVE o \in SomeOptions /\ (o.most # 0 => o.resume /\ 0 < o.most)
<1>1. o.resume \in BOOLEAN /\ o.once \in BOOLEAN /\ o.end \in {0, 1} /\ o.most \in {0, 1}
  BY DEF Options
<1>2. o.end \in Nat /\ o.most \in Nat
  BY <1>1
<1>3. o = [resume |-> o.resume, once |-> o.once, end |-> o.end, most |-> o.most]
  BY DEF Options
<1>4. o.most # 0 => o.resume
  BY DEF Options
<1>5. o \in SomeOptions
  BY <1>1, <1>2, <1>3, Zenon DEF SomeOptions
<1>6. QED
  BY <1>2, <1>4, <1>5

LEMMA StartUpCli == ASSUME Bounds, CliInv, NEW p \in CliProcs, NEW o \in Options, StartUp(p, o) PROVE CliInv'
<1> DEFINE at == Loaded(o)
           k == [Down EXCEPT !.pc = "poll", !.opts = o, !.at = at]
<1>1. process' = [process EXCEPT ![p] = k] /\ UNCHANGED <<published, cursorFile, written>>
  BY DEF StartUp
<1>2. at \in 0..LastEvent /\ OnOutput(at, written)
  <2>1. 0 \in 0..LastEvent /\ 1..0 = {}
    BY DEF Bounds
  <2>2. QED
    BY <2>1 DEF Loaded, CliInv, Typed, OnOutput
<1> HIDE DEF at
<1>3. Down \in Process /\ Down.emitted = 0
  BY DownIsSteady DEF Down
<1>4. k \in Process /\ k.pc = "poll" /\ k.opts = o /\ k.at = at /\ k.emitted = 0
  BY <1>2, <1>3, OptionsAreSome DEF Process
<1> HIDE DEF k
<1>5. Steady(k, written')
  BY <1>1, <1>2, <1>4, OptionsAreSome DEF Steady, OnOutput
<1>6. published' = published /\ written \subseteq written' /\ UNCHANGED cursorFile
  BY <1>1
<1>7. cursorFile' \in 0..LastEvent /\ OnOutput(cursorFile', written')
  BY <1>6, FileStays
<1>8. QED
  BY <1>1, <1>4, <1>5, <1>6, <1>7, ProcessMoves

\* A process ends, whatever it was doing.
LEMMA EndsCli ==
    ASSUME Bounds, CliInv, NEW p \in CliProcs, process' = [process EXCEPT ![p] = Down],
           UNCHANGED <<published, cursorFile>>, written \subseteq written'
    PROVE  CliInv'
<1>1. Down \in Process /\ Steady(Down, written') /\ OnOutput(cursorFile', written') /\ cursorFile' \in 0..LastEvent
  BY DownIsSteady, FileStays
<1>2. QED
  BY <1>1, ProcessMoves

LEMMA PollCli == ASSUME Bounds, CliInv, NEW p \in CliProcs, Poll(p) PROVE CliInv'
<1> DEFINE from == process[p].at
           end == IF from = 0 /\ process[p].opts.end # 0 THEN process[p].opts.end ELSE LastEvent
           to == Max({from, Min({published, from + CliPageSize, end})})
           k == [process[p] EXCEPT !.pc = "emit", !.to = to, !.last = to < from + CliPageSize]
<1>1. UNCHANGED <<published, cursorFile, written>>
  BY DEF Poll
<1>2. CASE process[p].signalled
  BY <1>1, <1>2, EndsCli DEF Poll
<1>3. CASE ~process[p].signalled
  <2>1. process' = [process EXCEPT ![p] = k]
    BY <1>3 DEF Poll
  <2>2. /\ process[p] \in Process /\ from \in Nat /\ from <= LastEvent
        /\ published \in Nat /\ published <= LastEvent /\ end \in Nat
    BY DEF CliInv, Typed, Process, SomeOptions, Bounds
  <2> HIDE DEF end
  <2>3. to \in Nat /\ from <= to /\ to <= LastEvent
    <3> DEFINE some == {published, from + CliPageSize, end}
               least == Min(some)
    <3>1. some \in SUBSET Nat /\ some # {}
      BY <2>2 DEF Bounds
    <3>2. published \in some
      OBVIOUS
    <3> HIDE DEF some
    <3>3. least \in some /\ \A x \in some : least <= x
      BY <3>1, MinIsLeast
    <3>4. least \in Nat /\ least <= published
      BY <3>1, <3>2, <3>3
    <3> HIDE DEF least
    <3>5. Max({from, least}) = (IF from <= least THEN least ELSE from)
      BY <2>2, <3>4, OfTwo
    <3>6. QED
      BY <2>2, <3>4, <3>5 DEF Bounds, least, some
  <2> HIDE DEF to
  <2>4. to \in 0..LastEvent /\ (to < from + CliPageSize) \in BOOLEAN
    BY <2>3 DEF Bounds
  <2>5. /\ k \in Process /\ k.pc = "emit" /\ k.to = to /\ k.at = from
        /\ k.opts = process[p].opts /\ k.emitted = process[p].emitted
    BY <2>2, <2>4 DEF Process
  <2> HIDE DEF k
  <2>6. Steady(k, written')
    <3>1. Steady(process[p], written)
      BY DEF CliInv
    <3>2. QED
      BY <1>1, <2>3, <2>5, <3>1 DEF Steady, OnOutput
  <2>7. published' = published /\ written \subseteq written' /\ UNCHANGED cursorFile
    BY <1>1
  <2>8. cursorFile' \in 0..LastEvent /\ OnOutput(cursorFile', written')
    BY <2>7, FileStays
  <2>9. QED
    BY <2>1, <2>5, <2>6, <2>7, <2>8, ProcessMoves
<1>4. QED
  BY <1>2, <1>3

\* The output has the events after `at` now; only a whole page is saved.
LEMMA EmitCli == ASSUME Bounds, CliInv, NEW p \in CliProcs, Emit(p) PROVE CliInv'
<1> DEFINE o == process[p].opts
           at == process[p].at
           to == process[p].to
           emitted == process[p].emitted
           upto == IF o.most # 0 THEN Min({to, at + o.most - emitted}) ELSE to
           done == \/ o.most # 0 /\ upto - at + emitted = o.most
                   \/ process[p].last /\ (o.end # 0 \/ o.once)
           count == IF o.most # 0 THEN emitted + upto - at ELSE 0
           w == [process[p] EXCEPT !.pc = "write", !.emitted = count]
           s == [process[p] EXCEPT !.pc = "poll", !.at = to, !.to = 0, !.last = FALSE]
<1>1. /\ written' = written \cup ((at + 1)..upto) /\ UNCHANGED <<published, cursorFile>>
      /\ \/ done /\ upto > at /\ process' = [process EXCEPT ![p] = Down]
         \/ ~(done /\ upto > at) /\ process' = [process EXCEPT ![p] = Down]
         \/ ~(done /\ upto > at) /\ process' = [process EXCEPT ![p] = s]
         \/ ~(done /\ upto > at) /\ process' = [process EXCEPT ![p] = w]
  BY DEF Emit, Saved
<1>2. /\ process[p] \in Process /\ Steady(process[p], written) /\ process[p].pc = "emit"
  BY DEF CliInv, Typed, Emit, CliAt
<1>3. /\ at \in Nat /\ to \in Nat /\ at <= to /\ to <= LastEvent /\ emitted \in Nat /\ o.most \in Nat
      /\ o.most # 0 => o.resume /\ emitted < o.most
  BY <1>2 DEF Process, SomeOptions, Steady, Bounds
<1>4. published' = published /\ written \subseteq written' /\ UNCHANGED cursorFile
  BY <1>1
<1>5. cursorFile' \in 0..LastEvent /\ OnOutput(cursorFile', written')
  BY <1>4, FileStays
<1>6. CASE process' = [process EXCEPT ![p] = Down]
  BY <1>4, <1>6, EndsCli
<1>7. ASSUME ~(done /\ upto > at)
      PROVE  upto = to /\ (o.most # 0 => count \in Nat /\ count < o.most)
  <2>1. CASE o.most # 0
    <3> DEFINE rest == at + o.most - emitted
    <3>1. rest \in Nat /\ at < rest
      BY <1>3, <2>1
    <3>2. upto = (IF to <= rest THEN to ELSE rest)
      BY <1>3, <2>1, <3>1, OfTwo
    <3> HIDE DEF upto
    <3>3. ~(upto - at + emitted = o.most /\ upto > at)
      BY <1>7, <2>1
    <3>4. QED
      BY <1>3, <2>1, <3>1, <3>2, <3>3
  <2>2. CASE o.most = 0
    BY <2>2
  <2>3. QED
    BY <1>3, <2>1, <2>2
<1>8. ASSUME upto = to PROVE OnOutput(to, written')
  <2> HIDE DEF upto
  <2>1. 1..at \subseteq written
    BY <1>2 DEF Steady, OnOutput
  <2>2. 1..to \subseteq (1..at) \cup ((at + 1)..to)
    BY <1>3
  <2>3. QED
    BY <1>1, <1>8, <2>1, <2>2 DEF OnOutput
<1>9. CASE ~(done /\ upto > at) /\ process' = [process EXCEPT ![p] = s]
  <2>1. OnOutput(to, written')
    BY <1>7, <1>8, <1>9
  <2>2. 0 \in 0..LastEvent /\ to \in 0..LastEvent
    BY <1>3 DEF Bounds
  <2> HIDE DEF to
  <2>3. /\ s \in Process /\ s.pc = "poll" /\ s.at = to
        /\ s.opts = process[p].opts /\ s.emitted = process[p].emitted
    BY <1>2, <2>2 DEF Process
  <2> HIDE DEF s
  <2>4. Steady(s, written')
    BY <1>3, <2>1, <2>3 DEF Steady
  <2>5. QED
    BY <1>4, <1>5, <1>9, <2>3, <2>4, ProcessMoves
<1>10. CASE ~(done /\ upto > at) /\ process' = [process EXCEPT ![p] = w]
  <2>1. OnOutput(to, written') /\ (o.most # 0 => count < o.most)
    BY <1>7, <1>8, <1>10
  <2>2. count \in Nat
    BY <1>7, <1>10
  <2>3. OnOutput(at, written')
    BY <1>2, <1>4 DEF Steady, OnOutput
  <2> HIDE DEF count
  <2>4. /\ w \in Process /\ w.pc = "write" /\ w.at = at /\ w.to = to /\ w.opts = o /\ w.emitted = count
    BY <1>2, <2>2 DEF Process
  <2> HIDE DEF w
  <2>5. Steady(w, written')
    BY <1>3, <2>1, <2>3, <2>4 DEF Steady
  <2>6. QED
    BY <1>4, <1>5, <1>10, <2>4, <2>5, ProcessMoves
<1>11. QED
  BY <1>1, <1>6, <1>9, <1>10

\* What is being saved is no older than what the process has read: it is on standard
\* output at "emit", and stays there.
LEMMA RenameCli == ASSUME Bounds, CliInv, NEW p \in CliProcs, Rename(p) PROVE CliInv'
<1> DEFINE to == process[p].to
           s == [process[p] EXCEPT !.pc = "poll", !.at = to, !.to = 0, !.last = FALSE]
<1>1. process' = [process EXCEPT ![p] = s] /\ published' = published /\ cursorFile' = to /\ written' = written
  BY DEF Rename, Saved
<1>2. process[p] \in Process /\ Steady(process[p], written) /\ process[p].pc = "rename"
  BY DEF CliInv, Typed, Rename, CliAt
<1>3. to \in 0..LastEvent /\ 0 \in 0..LastEvent /\ OnOutput(to, written')
  BY <1>1, <1>2 DEF Process, Steady, Bounds
<1> HIDE DEF to
<1>4. /\ s \in Process /\ s.pc = "poll" /\ s.at = to
      /\ s.opts = process[p].opts /\ s.emitted = process[p].emitted
  BY <1>2, <1>3 DEF Process
<1> HIDE DEF s
<1>5. Steady(s, written')
  BY <1>2, <1>3, <1>4 DEF Steady
<1>6. QED
  BY <1>1, <1>3, <1>4, <1>5, ProcessMoves

LEMMA WriteTempCli == ASSUME Bounds, CliInv, NEW p \in CliProcs, WriteTemp(p) PROVE CliInv'
<1> DEFINE k == [process[p] EXCEPT !.pc = "rename"]
<1>1. process' = [process EXCEPT ![p] = k] /\ published' = published /\ cursorFile' = cursorFile /\ written' = written
  BY DEF WriteTemp, Goto
<1>2. process[p] \in Process /\ Steady(process[p], written) /\ process[p].pc = "write"
  BY DEF CliInv, Typed, WriteTemp, CliAt
<1>3. /\ k \in Process /\ k.pc = "rename" /\ k.at = process[p].at /\ k.to = process[p].to
      /\ k.opts = process[p].opts /\ k.emitted = process[p].emitted
  BY <1>2 DEF Process
<1> HIDE DEF k
<1>4. Steady(k, written')
  BY <1>1, <1>2, <1>3 DEF Steady
<1>5. cursorFile' \in 0..LastEvent /\ OnOutput(cursorFile', written') /\ written \subseteq written'
  BY <1>1, FileStays
<1>6. QED
  BY <1>1, <1>3, <1>4, <1>5, ProcessMoves

LEMMA SignalCli == ASSUME Bounds, CliInv, NEW p \in CliProcs, Signal(p) PROVE CliInv'
<1> DEFINE k == [process[p] EXCEPT !.signalled = TRUE]
<1>1. process' = [process EXCEPT ![p] = k] /\ published' = published /\ cursorFile' = cursorFile /\ written' = written
  BY DEF Signal
<1>2. process[p] \in Process /\ Steady(process[p], written)
  BY DEF CliInv, Typed
<1>3. /\ k \in Process /\ k.pc = process[p].pc /\ k.at = process[p].at /\ k.to = process[p].to
      /\ k.opts = process[p].opts /\ k.emitted = process[p].emitted
  BY <1>2 DEF Process
<1> HIDE DEF k
<1>4. Steady(k, written')
  BY <1>1, <1>2, <1>3 DEF Steady
<1>5. cursorFile' \in 0..LastEvent /\ OnOutput(cursorFile', written') /\ written \subseteq written'
  BY <1>1, FileStays
<1>6. QED
  BY <1>1, <1>3, <1>4, <1>5, ProcessMoves

LEMMA StepCli == ASSUME Bounds, CliInv, CliNext PROVE CliInv'
<1>1. ASSUME Publish PROVE CliInv'
  BY <1>1 DEF Publish, Bounds, CliInv, Typed
<1>2. ASSUME NEW p \in CliProcs, Kill(p) PROVE CliInv'
  BY <1>2, EndsCli DEF Kill
<1>3. QED
  BY <1>1, <1>2, StartUpCli, PollCli, EmitCli, WriteTempCli, RenameCli, SignalCli DEF CliNext, Proceed

LEMMA CliInvariant == ASSUME Bounds PROVE CliSpec => []CliInv
<1>1. CliInit => CliInv
  BY InitCli
<1>2. CliInv /\ [CliNext]_cliVars => CliInv'
  <2>1. ASSUME CliInv, UNCHANGED cliVars PROVE CliInv'
    BY <2>1 DEF cliVars, CliInv, Typed
  <2>2. QED
    BY <2>1, StepCli
<1>3. QED
  BY <1>1, <1>2, PTL DEF CliSpec

-----------------------------------------------------------------------------
\* cursor.ts 89-125, bin.ts 365-381: the cursor file is never torn, and everything up
\* to the position it holds is on standard output, for any number of processes that
\* share it and are killed wherever they are.
THEOREM ResumeFromGoodCursor == ASSUME LastEvent \in Nat, CliPageSize \in Nat PROVE CliSpec => []ResumeIsSafe
<1>1. Bounds
  BY DEF Bounds
<1>2. CliInv => ResumeIsSafe
  BY <1>1 DEF Bounds, CliInv, Typed, OnOutput, ResumeIsSafe, Torn
<1>3. QED
  BY <1>1, <1>2, CliInvariant, PTL

-----------------------------------------------------------------------------
(* IngestCli implements Delivery. *)

\* Nobody is ahead of the node.
Known(k, upper) == k.at <= upper /\ k.to <= upper
KnownInv ==
    /\ cursorFile <= published /\ written \subseteq 1..published
    /\ \A p \in CliProcs : Known(process[p], published)

LEMMA InitKnown == CliInit => KnownInv
BY DEF CliInit, KnownInv, Known, Down, Absent

\* A step of one process that stays behind the node.
LEMMA KnownMoves ==
    ASSUME CliInv, KnownInv, NEW p \in CliProcs, NEW k, process' = [process EXCEPT ![p] = k],
           published' = published, written' \subseteq 1..published, cursorFile' <= published,
           Known(k, published)
    PROVE  KnownInv'
<1>1. process'[p] = k /\ \A q \in CliProcs : q # p => process'[q] = process[q]
  BY DEF CliInv, Typed
<1>2. \A q \in CliProcs : Known(process'[q], published)
  BY <1>1 DEF KnownInv
<1>3. QED
  BY <1>2 DEF KnownInv

LEMMA DownIsKnown == ASSUME NEW upper \in Nat PROVE Known(Down, upper)
BY DEF Known, Down

LEMMA EmitWrites ==
    ASSUME Bounds, CliInv, KnownInv, NEW p \in CliProcs, Emit(p)
    PROVE  KnownInv' /\ written \subseteq written'
<1> DEFINE o == process[p].opts
           at == process[p].at
           to == process[p].to
           emitted == process[p].emitted
           upto == IF o.most # 0 THEN Min({to, at + o.most - emitted}) ELSE to
           count == IF o.most # 0 THEN emitted + upto - at ELSE 0
           w == [process[p] EXCEPT !.pc = "write", !.emitted = count]
           s == [process[p] EXCEPT !.pc = "poll", !.at = to, !.to = 0, !.last = FALSE]
<1>1. /\ written' = written \cup ((at + 1)..upto) /\ UNCHANGED <<published, cursorFile>>
      /\ process' \in {[process EXCEPT ![p] = Down], [process EXCEPT ![p] = s], [process EXCEPT ![p] = w]}
  BY DEF Emit, Saved
<1>2. process[p] \in Process /\ Steady(process[p], written) /\ Known(process[p], published)
  BY DEF CliInv, Typed, KnownInv
<1>3. /\ at \in Nat /\ to \in Nat /\ emitted \in Nat /\ o.most \in Nat /\ at <= published /\ to <= published
      /\ o.most # 0 => emitted < o.most
  BY <1>2 DEF Process, SomeOptions, Steady, Bounds, Known
<1>4. published \in Nat /\ cursorFile <= published /\ written \subseteq 1..published
  BY DEF CliInv, Typed, KnownInv, Bounds
<1>5. upto \in Nat /\ upto <= published
  <2>1. CASE o.most # 0
    <3> DEFINE rest == at + o.most - emitted
    <3>1. rest \in Nat
      BY <1>3, <2>1
    <3>2. upto = (IF to <= rest THEN to ELSE rest)
      BY <1>3, <2>1, <3>1, OfTwo
    <3> HIDE DEF upto, rest
    <3>3. QED
      BY <1>3, <1>4, <3>1, <3>2
  <2>2. CASE o.most = 0
    BY <1>3, <2>2
  <2>3. QED
    BY <2>1, <2>2
<1> HIDE DEF upto
<1>6. written' \subseteq 1..published /\ written \subseteq written'
  BY <1>1, <1>3, <1>4, <1>5
<1>7. Known(Down, published)
  BY <1>4, DownIsKnown
<1>8. s.at = to /\ s.to = 0 /\ w.at = at /\ w.to = to
  BY <1>2 DEF Process
<1> HIDE DEF s, w
<1>9. Known(s, published) /\ Known(w, published)
  BY <1>3, <1>4, <1>8 DEF Known
<1>10. cursorFile' <= published /\ published' = published
  BY <1>1, <1>4
<1>11. QED
  BY <1>1, <1>6, <1>7, <1>9, <1>10, KnownMoves

LEMMA PollKnown == ASSUME Bounds, CliInv, KnownInv, NEW p \in CliProcs, Poll(p) PROVE KnownInv'
<1> DEFINE from == process[p].at
           end == IF from = 0 /\ process[p].opts.end # 0 THEN process[p].opts.end ELSE LastEvent
           some == {published, from + CliPageSize, end}
           least == Min(some)
           to == Max({from, least})
           k == [process[p] EXCEPT !.pc = "emit", !.to = to, !.last = to < from + CliPageSize]
<1>1. /\ UNCHANGED <<published, cursorFile, written>>
      /\ process' \in {[process EXCEPT ![p] = Down], [process EXCEPT ![p] = k]}
  BY DEF Poll
<1>2. /\ process[p] \in Process /\ from \in Nat /\ from <= published /\ end \in Nat
      /\ published \in Nat /\ cursorFile <= published /\ written \subseteq 1..published
  BY DEF CliInv, Typed, KnownInv, Known, Process, SomeOptions, Bounds
<1> HIDE DEF end
<1>3. some \in SUBSET Nat /\ published \in some
  BY <1>2 DEF Bounds
<1> HIDE DEF some
<1>4. least \in Nat /\ least <= published
  <2>1. least \in some /\ \A x \in some : least <= x
    BY <1>3, MinIsLeast
  <2>2. QED
    BY <1>3, <2>1
<1> HIDE DEF least
<1>5. to = (IF from <= least THEN least ELSE from)
  BY <1>2, <1>4, OfTwo
<1> HIDE DEF to
<1>6. to \in Nat /\ to <= published
  BY <1>2, <1>4, <1>5
<1>7. k.at = from /\ k.to = to
  BY <1>2 DEF Process
<1> HIDE DEF k
<1>8. Known(k, published) /\ Known(Down, published)
  BY <1>2, <1>6, <1>7, DownIsKnown DEF Known
<1>9. published' = published /\ written' \subseteq 1..published /\ cursorFile' <= published
  BY <1>1, <1>2
<1>10. QED
  BY <1>1, <1>8, <1>9, KnownMoves

LEMMA RestKnown ==
    ASSUME Bounds, CliInv, KnownInv, NEW p \in CliProcs,
           \/ WriteTemp(p) \/ Rename(p) \/ Signal(p) \/ Kill(p)
           \/ \E o \in Options : StartUp(p, o)
    PROVE  KnownInv'
<1>1. /\ process[p] \in Process /\ Known(process[p], published) /\ process \in [CliProcs -> Process]
      /\ published \in Nat /\ cursorFile \in Nat /\ cursorFile <= published /\ written \subseteq 1..published
  BY DEF CliInv, Typed, KnownInv, Bounds
<1>2. PICK k : process' = [process EXCEPT ![p] = k] /\ Known(k, published)
  <2>1. CASE WriteTemp(p)
    <3> DEFINE k == [process[p] EXCEPT !.pc = "rename"]
    <3>1. k.at = process[p].at /\ k.to = process[p].to /\ process' = [process EXCEPT ![p] = k]
      BY <1>1, <2>1 DEF WriteTemp, Goto, Process
    <3> HIDE DEF k
    <3>2. Known(k, published)
      BY <1>1, <3>1 DEF Known
    <3>3. QED
      BY <3>1, <3>2
  <2>2. CASE Rename(p)
    <3> DEFINE k == [process[p] EXCEPT !.pc = "poll", !.at = process[p].to, !.to = 0, !.last = FALSE]
    <3>1. k.at = process[p].to /\ k.to = 0 /\ process' = [process EXCEPT ![p] = k]
      BY <1>1, <2>2 DEF Rename, Saved, Process
    <3> HIDE DEF k
    <3>2. Known(k, published)
      BY <1>1, <3>1 DEF Known
    <3>3. QED
      BY <3>1, <3>2
  <2>3. CASE Signal(p)
    <3> DEFINE k == [process[p] EXCEPT !.signalled = TRUE]
    <3>1. k.at = process[p].at /\ k.to = process[p].to /\ process' = [process EXCEPT ![p] = k]
      BY <1>1, <2>3 DEF Signal, Process
    <3> HIDE DEF k
    <3>2. Known(k, published)
      BY <1>1, <3>1 DEF Known
    <3>3. QED
      BY <3>1, <3>2
  <2>4. CASE Kill(p)
    BY <1>1, <2>4, DownIsKnown DEF Kill
  <2>5. CASE \E o \in Options : StartUp(p, o)
    <3>1. PICK o \in Options : StartUp(p, o)
      BY <2>5
    <3> DEFINE at == Loaded(o)
               k == [Down EXCEPT !.pc = "poll", !.opts = o, !.at = at]
    <3>2. at <= published
      BY <1>1 DEF Loaded
    <3> HIDE DEF at
    <3>3. k.at = at /\ k.to = 0
      BY DEF Down
    <3>4. process' = [process EXCEPT ![p] = k]
      BY <3>1 DEF StartUp, at
    <3> HIDE DEF k
    <3>5. Known(k, published)
      BY <1>1, <3>2, <3>3 DEF Known
    <3>6. QED
      BY <3>4, <3>5
  <2>6. QED
    BY <2>1, <2>2, <2>3, <2>4, <2>5
<1>3. published' = published /\ written' = written /\ cursorFile' \in {cursorFile, process[p].to}
  BY DEF WriteTemp, Rename, Signal, Kill, StartUp
<1>4. written' \subseteq 1..published /\ cursorFile' <= published
  BY <1>1, <1>3 DEF Known
<1>5. QED
  BY <1>2, <1>3, <1>4, KnownMoves

LEMMA PublishKnown == ASSUME Bounds, CliInv, KnownInv, Publish PROVE KnownInv' /\ D!Publish
<1>1. /\ published' = published + 1 /\ UNCHANGED <<cursorFile, written, process>>
      /\ published \in Nat /\ cursorFile \in Nat /\ cursorFile <= published /\ written \subseteq 1..published
  BY DEF Publish, CliInv, Typed, KnownInv, Bounds
<1>2. \A p \in CliProcs : process[p].at \in Nat /\ process[p].to \in Nat /\ Known(process[p], published)
  BY DEF CliInv, Typed, KnownInv, Process, Bounds
<1>3. \A p \in CliProcs : Known(process'[p], published')
  BY <1>1, <1>2 DEF Known
<1>4. cursorFile' <= published' /\ written' \subseteq 1..published'
  BY <1>1
<1>5. D!Publish
  BY <1>1 DEF D!Publish
<1>6. QED
  BY <1>3, <1>4, <1>5 DEF KnownInv

LEMMA StepKnown == ASSUME Bounds, CliInv, KnownInv, CliNext PROVE KnownInv'
BY PublishKnown, PollKnown, EmitWrites, RestKnown DEF CliNext, Proceed

\* The node publishes, a page is written, a position is saved; nothing else shows.
LEMMA StepDelivers ==
    ASSUME Bounds, CliInv, KnownInv, CliNext, CliInv', KnownInv'
    PROVE  D!NextOfMany \/ UNCHANGED D!vars
<1>1. CASE Publish
  BY <1>1, PublishKnown DEF D!NextOfMany
<1>2. ASSUME NEW p \in CliProcs, Emit(p) PROVE D!NextOfMany
  <2>1. published' = published /\ cursorFile' = cursorFile
    BY <1>2 DEF Emit
  <2>2. written \subseteq written' /\ written' \subseteq 1..published
    BY <1>2, <2>1, EmitWrites DEF KnownInv
  <2>3. D!Store
    BY <2>1, <2>2 DEF D!Store
  <2>4. QED
    BY <2>3 DEF D!NextOfMany
<1>3. ASSUME NEW p \in CliProcs, Rename(p) PROVE D!NextOfMany
  <2>1. published' = published /\ written' = written
    BY <1>3 DEF Rename
  <2>2. cursorFile' \in 0..published
    BY <2>1 DEF CliInv, Typed, KnownInv, Bounds
  <2>3. 1..cursorFile' \subseteq written
    BY <2>1 DEF CliInv, OnOutput
  <2>4. D!Accounted(cursorFile')
    BY <2>3 DEF D!Accounted
  <2>5. D!AcknowledgeAny
    BY <2>1, <2>2, <2>4 DEF D!AcknowledgeAny
  <2>6. QED
    BY <2>5 DEF D!NextOfMany
<1>4. ASSUME NEW p \in CliProcs,
             \/ Poll(p) \/ WriteTemp(p) \/ Signal(p) \/ Kill(p)
             \/ \E o \in Options : StartUp(p, o)
      PROVE  UNCHANGED D!vars
  BY <1>4 DEF Poll, WriteTemp, Signal, Kill, StartUp, D!vars
<1>5. QED
  BY <1>1, <1>2, <1>3, <1>4 DEF CliNext, Proceed

\* bin.ts 340-390, cursor.ts 89-125: the file and standard output keep the promise of
\* Delivery, for any number of processes, kills and options: a position is saved only
\* when everything before it is written.
THEOREM OutputIsAtLeastOnce ==
    ASSUME LastEvent \in Nat, CliPageSize \in Nat PROVE CliSpec => WritesAtLeastOnce
<1>1. Bounds
  BY DEF Bounds
<1>2. CliInit => KnownInv /\ D!Init
  <2>1. 0..0 = {0} /\ 0 \in Nat
    OBVIOUS
  <2>2. CliInit => D!Init
    BY <2>1 DEF CliInit, Absent, D!Init
  <2>3. QED
    BY <2>2, InitKnown
<1>3. CliInv /\ CliInv' /\ KnownInv /\ [CliNext]_cliVars => KnownInv'
  <2>1. ASSUME KnownInv, UNCHANGED cliVars PROVE KnownInv'
    BY <2>1 DEF cliVars, KnownInv
  <2>2. QED
    BY <1>1, <2>1, StepKnown
<1>4. CliInv /\ CliInv' /\ KnownInv /\ KnownInv' /\ [CliNext]_cliVars => [D!NextOfMany]_D!vars
  <2>1. ASSUME UNCHANGED cliVars PROVE UNCHANGED D!vars
    BY <2>1 DEF cliVars, D!vars
  <2>2. QED
    BY <1>1, <2>1, StepDelivers
<1>5. CliSpec => []CliInv
  BY <1>1, CliInvariant
<1>6. QED
  BY <1>2, <1>3, <1>4, <1>5, PTL DEF CliSpec, WritesAtLeastOnce, D!SpecOfMany

-----------------------------------------------------------------------------
(* IndexerRun: the store is open while lookups can be queued or in flight,   *)
(* and none is once the run has waited for them.                             *)

Settled == queue = <<>> /\ lookup = None
LookupsInv ==
    /\ ~open => runPc \in {"down", "closing"}
    /\ runPc \in {"down", "closing"} => Settled

\* A lookup that is at one of its awaits is in flight, before the run has closed.
LEMMA InFlight ==
    ASSUME LookupsInv, NEW at, Doing(at), at # "idle"
    PROVE  runPc \notin {"down", "closing"}
BY DEF LookupsInv, Settled, Doing, None

LEMMA LookupSteps ==
    ASSUME LookupsInv,
           FetchOne \/ ReadSpec \/ GetInstance \/ GetWasm \/ SaveSpec \/ LookupFails
    PROVE  LookupsInv'
<1>1. runPc \notin {"down", "closing"} /\ UNCHANGED <<runPc, open>>
  <2>1. CASE FetchOne
    BY <2>1 DEF FetchOne, LookupsInv, Settled, run
  <2>2. CASE ReadSpec
    <3>1. runPc \notin {"down", "closing"}
      BY <2>2, InFlight DEF ReadSpec
    <3>2. QED
      BY <2>2, <3>1 DEF ReadSpec, run
  <2>3. CASE GetInstance
    <3>1. runPc \notin {"down", "closing"}
      BY <2>3, InFlight DEF GetInstance
    <3>2. QED
      BY <2>3, <3>1 DEF GetInstance, run
  <2>4. CASE GetWasm \/ LookupFails
    <3>1. runPc \notin {"down", "closing"}
      BY <2>4, InFlight DEF GetWasm, LookupFails
    <3>2. QED
      BY <2>4, <3>1 DEF GetWasm, LookupFails, run
  <2>5. CASE SaveSpec
    <3>1. runPc \notin {"down", "closing"}
      BY <2>5, InFlight DEF SaveSpec
    <3>2. QED
      BY <2>5, <3>1 DEF SaveSpec, run
  <2>6. QED
    BY <2>1, <2>2, <2>3, <2>4, <2>5
<1>2. QED
  BY <1>1 DEF LookupsInv

LEMMA RunSteps ==
    ASSUME LookupsInv, StartRun \/ Backfill \/ CheckSkew \/ Leave \/ Idle \/ Close \/ Exit
    PROVE  LookupsInv'
<1>1. CASE StartRun
  BY <1>1 DEF StartRun, LookupsInv
<1>2. CASE Backfill \/ CheckSkew \/ Leave
  BY <1>2 DEF Backfill, CheckSkew, Leave, RunGoto, LookupsInv
<1>3. CASE Idle
  BY <1>3 DEF Idle, RunGoto, LookupsInv, Settled, fetcher
<1>4. CASE Close \/ Exit
  BY <1>4 DEF Close, Exit, LookupsInv, Settled, fetcher
<1>5. QED
  BY <1>1, <1>2, <1>3, <1>4

LEMMA LookupsStep == ASSUME LookupsInv, [RunNext]_runVars PROVE LookupsInv'
<1>1. CASE Step \/ Leave \/ Exit \/ LookupFails
  BY <1>1, RunSteps, LookupSteps DEF Step
<1>2. CASE \E S \in SUBSET Contracts \ {{}} : HandleBatch(S)
  BY <1>2 DEF HandleBatch, LookupsInv, run
<1>3. CASE \E c \in Contracts : SpecCommand(c) \/ Age(c) \/ Deploy(c)
  BY <1>3 DEF SpecCommand, Age, Deploy, LookupsInv, Settled, run, fetcher
<1>4. CASE UNCHANGED runVars
  BY <1>4 DEF runVars, run, fetcher, LookupsInv, Settled
<1>5. QED
  BY <1>1, <1>2, <1>3, <1>4 DEF RunNext

\* runIndexer stops SpecFetcher and waits until it is idle before it closes the store:
\* whichever step fails first, no lookup reads or saves a spec on a closed store.
THEOREM LookupsEndFirst == RunSpec => []StoreOutlivesLookups
<1>1. RunInit => LookupsInv
  BY DEF RunInit, LookupsInv, Settled
<1>2. LookupsInv /\ [RunNext]_runVars => LookupsInv'
  BY LookupsStep
<1>3. LookupsInv => StoreOutlivesLookups
  BY DEF LookupsInv, Settled, StoreOutlivesLookups
<1>4. QED
  BY <1>1, <1>2, <1>3, PTL DEF RunSpec

-----------------------------------------------------------------------------
(* SizePrune: which events a prune takes.                                    *)

\* The rows are among those inserted, numbered in ledger order.
PruneInv == inserted \in Nat /\ rows \subseteq 1..inserted

LEMMA PruneConstants == PerLedger \in Nat /\ PerLedger > 0 /\ ChunkLedgers \in Nat
BY SizePruneAssumption

LEMMA PruneInvariant == Spec => []PruneInv
<1>1. Init => PruneInv
  BY DEF Init, PruneInv
<1>2. ASSUME PruneInv, [Next]_vars PROVE PruneInv'
  <2>1. CASE \E k \in 1..PageSize : InsertBatch(k)
    <3>1. PICK k \in 1..PageSize : InsertBatch(k)
      BY <2>1
    <3>2. k \in Nat /\ inserted \in Nat
      BY <1>2, SizePruneAssumption DEF PruneInv
    <3>3. QED
      BY <1>2, <3>1, <3>2 DEF InsertBatch, PruneInv
  <2>2. CASE Prune
    BY <1>2, <2>2 DEF Prune, PruneInv
  <2>3. CASE ~(\E k \in 1..PageSize : InsertBatch(k)) /\ ~Prune
    BY <1>2, <2>3 DEF Next, Checkpoint, RunSizePrune, Pruning, Measure, Vacuum, Crash, vars, PruneInv
  <2>4. QED
    BY <2>1, <2>2, <2>3
<1>3. QED
  BY <1>1, <1>2, PTL DEF Spec

\* pruneToSize() deletes whole ledgers from the oldest: whatever was inserted, pruned or
\* cut short before, an event that is left is of a later ledger than one that goes.
THEOREM PruneTakesTheOldest == Spec => OldestFirst
<1>1. ASSUME PruneInv, Next, NEW gone \in rows \ rows', NEW left \in rows'
      PROVE  LedgerOf(gone) < LedgerOf(left)
  <2>1. CASE Prune
    <3>1. gone \in Chunk /\ left \in rows \ Chunk
      BY <1>1, <2>1 DEF Prune
    <3>2. gone \in Nat /\ left \in Nat /\ rows \in SUBSET Nat /\ rows # {}
      BY <1>1, <3>1 DEF PruneInv
    <3>3. Min(rows) \in Nat
      BY <3>2, MinIsLeast
    <3>4. LedgerOf(gone) \in Int /\ LedgerOf(left) \in Int /\ Oldest \in Int
      BY <3>2, <3>3, PruneConstants DEF LedgerOf, Oldest
    <3>5. LedgerOf(gone) < Oldest + ChunkLedgers /\ ~(LedgerOf(left) < Oldest + ChunkLedgers)
      BY <3>1 DEF Chunk
    <3>6. QED
      BY <3>4, <3>5, PruneConstants
  <2>2. CASE ~Prune
    BY <1>1, <2>2 DEF Next, InsertBatch, Checkpoint, RunSizePrune, Pruning, Measure, Vacuum, Crash
  <2>3. QED
    BY <2>1, <2>2
<1>2. PruneInv /\ [Next]_vars => [\A gone \in rows \ rows', left \in rows' : LedgerOf(gone) < LedgerOf(left)]_vars
  BY <1>1
<1>3. QED
  BY <1>2, PruneInvariant, PTL DEF Spec, OldestFirst

-----------------------------------------------------------------------------
(* CliCommand: what the exit code can be while steps are left.               *)

Left == Range(todo)
Named == StepNames \cup NamedIds

\* A problem was found, and repairing it was neither begun nor planned.
Unrepaired == badRows # {} /\ "repairRow" \notin did \cup Left

SpecCommands == {"list", "record", "fetch"}

\* Which steps come up in which command.  The arguments of `spec` are looked at when
\* nothing but the store was opened.
Planned ==
    /\ todo \in Seq(Named)
    /\ "checkIntegrity" \in Left => line.command = "verify" /\ code = 0 /\ "repairRow" \notin did \cup Left
    /\ "readWasm" \in Left => line.command = "record"
    /\ "repairRow" \in did \cup Left => line.command = "verify"
    /\ Left \cap NamedIds # {} => line.command = "fetch"
    /\ \A i \in DOMAIN todo : todo[i] = "arguments" =>
          /\ line.command \in SpecCommands
          /\ did \subseteq {"open"} /\ (i = 1 \/ (i = 2 /\ todo[1] = "open"))

\* The code is 1 once something failed or is wrong, and 2 when `spec` has opened the store
\* at most.
Honest ==
    /\ code = 0 => failures = {} /\ ("fail" \notin statuses \/ line.command = "doctor")
                   /\ (badRows = {} \/ "repairRow" \in did \cup Left)
                   /\ ("arguments" \in Left \/ Range(line.ids) \subseteq did \cup Left)
    /\ code = 1 => failures # {} \/ Unrepaired
    /\ code = 2 => did \subseteq (IF line.command \in SpecCommands THEN {"open"} ELSE {})

CmdInv ==
    /\ line.command \in DOMAIN Steps \cup Spoken \cup {"doctor"}
    /\ line.command # "fetch" => line.ids = <<>>
    /\ line.ids \in Seq(NamedIds)
    /\ cmdPc \in {"start", "run", "close", "exited"} /\ code \in {0, 1, 2}
    /\ cmdPc = "start" => /\ todo = <<>> /\ did = {} /\ failures = {} /\ badRows = {}
                          /\ dbOpen = FALSE /\ code = 0 /\ statuses = {}
    /\ line.command # "doctor" => statuses = {}
    /\ cmdPc = "run" /\ line.command = "doctor" =>
          todo = <<>> /\ failures = {} /\ badRows = {} /\ code = 0 /\ (dbOpen => "fail" \in statuses)
    /\ cmdPc = "run" => code # 2
    /\ cmdPc = "close" => todo = <<>> /\ line.command # "doctor" /\ code # 0
    /\ cmdPc \in {"run", "close"} => Planned /\ Honest
    /\ ExitIsHonest

\* The steps that are left, without the one that is next.
LEMMA NextStep ==
    ASSUME NEW S, NEW q \in Seq(S), q # <<>>
    PROVE  /\ Head(q) = q[1] /\ Head(q) \in S /\ Tail(q) \in Seq(S) /\ 1 \in DOMAIN q
           /\ Range(q) = {Head(q)} \cup Range(Tail(q))
           /\ \A i \in DOMAIN Tail(q) : i \in Nat \ {0} /\ i + 1 \in DOMAIN q /\ Tail(q)[i] = q[i + 1]
<1>1. /\ Len(q) \in Nat /\ Len(q) > 0 /\ DOMAIN q = 1..Len(q) /\ DOMAIN Tail(q) = 1..(Len(q) - 1)
      /\ \A i \in 1..(Len(q) - 1) : Tail(q)[i] = q[i + 1]
      /\ Head(q) = q[1] /\ Head(q) \in S /\ Tail(q) \in Seq(S)
  OBVIOUS
<1>2. ASSUME NEW i \in DOMAIN q PROVE q[i] \in {Head(q)} \cup Range(Tail(q))
  <2>1. CASE i = 1
    BY <1>1, <2>1
  <2>2. CASE i # 1
    <3>1. i - 1 \in DOMAIN Tail(q) /\ Tail(q)[i - 1] = q[i]
      BY <1>1, <2>2
    <3>2. QED
      BY <3>1 DEF Range
  <2>3. QED
    BY <2>1, <2>2
<1>3. \A i \in DOMAIN Tail(q) : i \in Nat \ {0} /\ i + 1 \in DOMAIN q
  BY <1>1
<1>4. QED
  BY <1>1, <1>2, <1>3 DEF Range

\* No contract has the name of a step.
LEMMA NamesDiffer ==
    /\ \A c \in NamedIds : c \notin {"open", "arguments", "checkIntegrity", "readWasm", "repairRow"}
    /\ {"open", "arguments", "checkIntegrity", "readWasm", "repairRow"} \subseteq StepNames
<1>1. {"verify", "record"} \subseteq DOMAIN Steps
  BY DEF Steps
<1>2. {"open", "arguments", "checkIntegrity", "readWasm", "repairRow"} \subseteq StepNames
  <2>1. /\ Steps["verify"] = <<"open", "checkIntegrity">>
        /\ Steps["record"] = <<"open", "arguments", "readWasm", "saveContractSpec">>
    BY DEF Steps
  <2>2. {"open", "checkIntegrity"} \subseteq Range(Steps["verify"])
    <3> DEFINE q == Steps["verify"]
    <3>1. 1 \in DOMAIN q /\ 2 \in DOMAIN q /\ q[1] = "open" /\ q[2] = "checkIntegrity"
      BY <2>1
    <3> HIDE DEF q
    <3>2. QED
      BY <3>1 DEF Range, q
  <2>3. {"arguments", "readWasm"} \subseteq Range(Steps["record"])
    <3> DEFINE q == Steps["record"]
    <3>1. 2 \in DOMAIN q /\ 3 \in DOMAIN q /\ q[2] = "arguments" /\ q[3] = "readWasm"
      BY <2>1
    <3> HIDE DEF q
    <3>2. QED
      BY <3>1 DEF Range, q
  <2>4. Range(Steps["verify"]) \subseteq StepNames /\ Range(Steps["record"]) \subseteq StepNames
    BY <1>1, Zenon DEF StepNames
  <2>5. "repairRow" \in StepNames
    BY DEF StepNames
  <2>6. QED
    BY <2>2, <2>3, <2>4, <2>5
<1>3. QED
  BY <1>2, CommandAssumption

\* What the steps of a command are, as far as its exit code goes.
LEMMA StepsOf ==
    ASSUME NEW cmd \in DOMAIN Steps, NEW q, q = Steps[cmd] \/ (cmd = "seed" /\ q = SubSeq(Steps["seed"], 1, 3))
    PROVE  /\ q \in Seq(Named) /\ Range(q) \cap NamedIds = {}
           /\ "repairRow" \notin Range(q)
           /\ "checkIntegrity" \in Range(q) => cmd = "verify"
           /\ "readWasm" \in Range(q) => cmd = "record"
           /\ cmd = "fetch" => "arguments" \in Range(q)
           /\ \A i \in DOMAIN q : q[i] = "arguments" => i = 2 /\ q[1] = "open" /\ cmd \in SpecCommands
<1> DEFINE Fine(s, c) ==
        /\ s \in Seq(StepNames)
        /\ \A i \in DOMAIN s : /\ s[i] # "repairRow"
                               /\ s[i] = "checkIntegrity" => c = "verify"
                               /\ s[i] = "readWasm" => c = "record"
                               /\ s[i] = "arguments" => i = 2 /\ s[1] = "open" /\ c \in SpecCommands
        /\ c = "fetch" => 2 \in DOMAIN s /\ s[2] = "arguments"
<1>1. \A i \in DOMAIN q : q[i] \in StepNames
  <2>1. CASE q = Steps[cmd]
    <3>1. Range(q) \subseteq StepNames
      BY <2>1, Zenon DEF StepNames
    <3>2. QED
      BY <3>1 DEF Range
  <2>2. CASE cmd = "seed" /\ q = SubSeq(Steps["seed"], 1, 3)
    <3>1. Steps["seed"] = <<"readFixture", "open", "insertEvents", "readSpecs", "saveContractSpec">>
      BY DEF Steps
    <3>2. \A i \in DOMAIN q : i \in DOMAIN Steps["seed"] /\ q[i] = Steps["seed"][i]
      BY <2>2, <3>1
    <3>3. Range(Steps["seed"]) \subseteq StepNames
      BY <2>2, Zenon DEF StepNames
    <3>4. QED
      BY <3>2, <3>3 DEF Range
  <2>3. QED
    BY <2>1, <2>2
<1>2. Fine(q, cmd)
  <2>1. cmd \in {"index", "seed", "stats", "prune", "redecode", "verify", "migrate", "export",
                "import", "list", "record", "fetch"}
    BY DEF Steps
  <2>2. CASE cmd = "index" /\ q = Steps["index"]
    <3>1. q = <<"runIndexer">>
      BY <2>2 DEF Steps
    <3>2. QED
      BY <2>2, <3>1, <1>1
  <2>3. CASE cmd = "seed" /\ q = Steps["seed"]
    <3>1. q = <<"readFixture", "open", "insertEvents", "readSpecs", "saveContractSpec">>
      BY <2>3 DEF Steps
    <3>2. QED
      BY <2>3, <3>1, <1>1
  <2>4. CASE cmd = "stats" /\ q = Steps["stats"]
    <3>1. q = <<"open", "getStats">>
      BY <2>4 DEF Steps
    <3>2. QED
      BY <2>4, <3>1, <1>1
  <2>5. CASE cmd = "prune" /\ q = Steps["prune"]
    <3>1. q = <<"open", "getStats", "pruneBefore", "getStats">>
      BY <2>5 DEF Steps
    <3>2. QED
      BY <2>5, <3>1, <1>1
  <2>6. CASE cmd = "redecode" /\ q = Steps["redecode"]
    <3>1. q = <<"open", "redecode">>
      BY <2>6 DEF Steps
    <3>2. QED
      BY <2>6, <3>1, <1>1
  <2>7. CASE cmd = "verify" /\ q = Steps["verify"]
    <3>1. q = <<"open", "checkIntegrity">>
      BY <2>7 DEF Steps
    <3>2. QED
      BY <2>7, <3>1, <1>1
  <2>8. CASE cmd = "migrate" /\ q = Steps["migrate"]
    <3>1. q = <<"open", "migrateDown">>
      BY <2>8 DEF Steps
    <3>2. QED
      BY <2>8, <3>1, <1>1
  <2>9. CASE cmd = "export" /\ q = Steps["export"]
    <3>1. q = <<"open", "exportSnapshot">>
      BY <2>9 DEF Steps
    <3>2. QED
      BY <2>9, <3>1, <1>1
  <2>10. CASE cmd = "import" /\ q = Steps["import"]
    <3>1. q = <<"open", "importSnapshot">>
      BY <2>10 DEF Steps
    <3>2. QED
      BY <2>10, <3>1, <1>1
  <2>11. CASE cmd = "list" /\ q = Steps["list"]
    <3>1. q = <<"open", "arguments", "listContractSpecs">>
      BY <2>11 DEF Steps
    <3>2. QED
      BY <2>11, <3>1, <1>1 DEF SpecCommands
  <2>12. CASE cmd = "record" /\ q = Steps["record"]
    <3>1. q = <<"open", "arguments", "readWasm", "saveContractSpec">>
      BY <2>12 DEF Steps
    <3>2. QED
      BY <2>12, <3>1, <1>1 DEF SpecCommands
  <2>13. CASE cmd = "fetch" /\ q = Steps["fetch"]
    <3>1. q = <<"open", "arguments">>
      BY <2>13 DEF Steps
    <3>2. QED
      BY <2>13, <3>1, <1>1 DEF SpecCommands
  <2>14. CASE cmd = "seed" /\ q # Steps["seed"]
    <3>1. Steps["seed"] = <<"readFixture", "open", "insertEvents", "readSpecs", "saveContractSpec">>
      BY DEF Steps
    <3>2. q = <<"readFixture", "open", "insertEvents">>
      BY <2>14, <3>1
    <3>3. QED
      BY <2>14, <3>2, <1>1
  <2>15. QED
    BY <2>1, <2>2, <2>3, <2>4, <2>5, <2>6, <2>7, <2>8, <2>9, <2>10, <2>11, <2>12, <2>13, <2>14
<1> HIDE DEF Fine
<1>3. q \in Seq(Named)
  BY <1>2 DEF Fine, Named
<1>4. /\ \A x \in Range(q) : \E i \in DOMAIN q : x = q[i]
      /\ \A i \in DOMAIN q : q[i] \in Range(q)
  BY DEF Range
<1>5. /\ \A i \in DOMAIN q : q[i] # "repairRow"
      /\ \A i \in DOMAIN q : q[i] = "checkIntegrity" => cmd = "verify"
      /\ \A i \in DOMAIN q : q[i] = "readWasm" => cmd = "record"
      /\ \A i \in DOMAIN q : q[i] = "arguments" => i = 2 /\ q[1] = "open" /\ cmd \in SpecCommands
      /\ cmd = "fetch" => 2 \in DOMAIN q /\ q[2] = "arguments"
  BY <1>2, Zenon DEF Fine
<1>6. Range(q) \cap NamedIds = {}
  BY <1>1, <1>4, CommandAssumption
<1>7. QED
  BY <1>3, <1>4, <1>5, <1>6, Zenon

\* Nothing is left of no steps.
LEMMA NothingLeft == Range(<<>>) = {} /\ <<>> \in Seq(Named)
BY DEF Range

LEMMA BeginKeeps == ASSUME CmdInv, BeginCommand PROVE CmdInv'
<1>1. /\ cmdPc = "start" /\ ~RefusedLine /\ line.command \notin Spoken /\ cmdPc' = "run"
      /\ UNCHANGED <<line, did, failures, badRows, dbOpen, code, checks, statuses>>
      /\ did = {} /\ failures = {} /\ badRows = {} /\ dbOpen = FALSE /\ code = 0 /\ statuses = {}
  BY DEF BeginCommand, CmdInv
<1>2. /\ todo' \in Seq(Named) /\ Left' \cap NamedIds = {}
      /\ "repairRow" \notin Left'
      /\ "checkIntegrity" \in Left' => line.command = "verify"
      /\ "readWasm" \in Left' => line.command = "record"
      /\ line.command = "fetch" => "arguments" \in Left'
      /\ \A i \in DOMAIN todo' : todo'[i] = "arguments" =>
            i = 2 /\ todo'[1] = "open" /\ line.command \in SpecCommands
      /\ line.command = "doctor" => todo' = <<>>
  <2>1. CASE line.command = "doctor"
    BY <2>1, NothingLeft DEF BeginCommand, Left
  <2>2. CASE line.command # "doctor"
    <3>1. line.command \in DOMAIN Steps
      BY <1>1, <2>2 DEF Line, CmdInv
    <3>2. \/ todo' = Steps[line.command]
          \/ line.command = "seed" /\ todo' = SubSeq(Steps["seed"], 1, 3)
      BY <2>2 DEF BeginCommand
    <3>3. QED
      BY <2>2, <3>1, <3>2, StepsOf DEF Left
  <2>3. QED
    BY <2>1, <2>2
<1>3. Range(line.ids) = {} \/ line.command = "fetch"
  BY NothingLeft DEF CmdInv
<1>4. Planned'
  BY <1>1, <1>2 DEF Planned
<1>5. Honest'
  BY <1>1, <1>2, <1>3 DEF Honest
<1>6. QED
  BY <1>1, <1>2, <1>4, <1>5 DEF CmdInv, ExitIsHonest

\* The next step goes from those that are left to those that are done, or to neither.
LEMMA OneStep ==
    ASSUME CmdInv, AtStep, todo' = Tail(todo), line' = line,
           did' = did \/ did' = did \cup {Head(todo)},
           code' = code \/ "checkIntegrity" \notin Left
    PROVE  /\ Left = {Head(todo)} \cup Left'
           /\ Planned'
<1>1. Planned /\ todo \in Seq(Named) /\ todo # <<>>
  BY DEF CmdInv, AtStep, Planned
<1>2. /\ Head(todo) = todo[1] /\ 1 \in DOMAIN todo /\ todo' \in Seq(Named)
      /\ Range(todo) = {Head(todo)} \cup Range(todo')
      /\ \A i \in DOMAIN todo' : i \in Nat \ {0} /\ i + 1 \in DOMAIN todo /\ todo'[i] = todo[i + 1]
  BY <1>1, NextStep
<1>3. Left = {Head(todo)} \cup Left'
  BY <1>2 DEF Left
<1>4. ASSUME NEW i \in DOMAIN todo', todo'[i] = "arguments"
      PROVE  did' \subseteq {"open"} /\ i = 1 /\ line'.command \in SpecCommands
  <2>1. i \in Nat \ {0} /\ i + 1 \in DOMAIN todo /\ todo[i + 1] = "arguments"
    BY <1>2, <1>4
  <2>2. /\ did \subseteq {"open"} /\ (i + 1 = 1 \/ (i + 1 = 2 /\ todo[1] = "open"))
        /\ line.command \in SpecCommands
    BY <1>1, <2>1 DEF Planned
  <2>3. i = 1 /\ todo[1] = "open"
    BY <2>1, <2>2
  <2>4. QED
    BY <1>2, <2>2, <2>3
<1>5. did' \cup Left' \subseteq did \cup Left
  BY <1>3
<1>6. "checkIntegrity" \in Left' => line'.command = "verify" /\ code' = 0 /\ "repairRow" \notin did' \cup Left'
  BY <1>1, <1>3, <1>5 DEF Planned
<1>7. "readWasm" \in Left' => line'.command = "record"
  BY <1>1, <1>3 DEF Planned
<1>8. "repairRow" \in did' \cup Left' => line'.command = "verify"
  BY <1>1, <1>5 DEF Planned
<1>9. Left' \cap NamedIds # {} => line'.command = "fetch"
  BY <1>1, <1>3 DEF Planned
<1>10. QED
  BY <1>2, <1>3, <1>4, <1>6, <1>7, <1>8, <1>9 DEF Planned

\* Whoever is at a step is not in `doctor`, and its code is 0 or 1.
LEMMA AtSome ==
    ASSUME CmdInv, AtStep
    PROVE  line.command # "doctor" /\ code \in {0, 1} /\ statuses = {} /\ Planned /\ Honest
BY DEF CmdInv, AtStep

LEMMA SucceedKeeps == ASSUME CmdInv, Succeed PROVE CmdInv'
<1>1. /\ AtStep /\ Head(todo) # "arguments" /\ todo' = Tail(todo) /\ did' = did \cup {Head(todo)}
      /\ UNCHANGED <<line, cmdPc, failures, badRows, code, checks, statuses>>
  BY DEF Succeed, Done
<1>2. Left = {Head(todo)} \cup Left' /\ Planned'
  BY <1>1, OneStep
<1>3. Honest'
  <2>1. did' \cup Left' = did \cup Left
    BY <1>1, <1>2
  <2>2. "arguments" \in Left => "arguments" \in Left'
    BY <1>1, <1>2
  <2>3. QED
    BY <1>1, <2>1, <2>2, AtSome DEF Honest, Unrepaired
<1>4. QED
  BY <1>1, <1>2, <1>3, AtSome DEF CmdInv, AtStep, ExitIsHonest

LEMMA FetchKeeps == ASSUME CmdInv, Fetch PROVE CmdInv'
<1>1. /\ AtStep /\ Head(todo) \in NamedIds /\ todo' = Tail(todo) /\ did' = did \cup {Head(todo)}
      /\ UNCHANGED <<line, cmdPc, failures, badRows, dbOpen, code, checks, statuses>>
  BY DEF Fetch, Done, Is
<1>2. Left = {Head(todo)} \cup Left' /\ Planned'
  BY <1>1, OneStep
<1>3. Honest'
  <2>1. did' \cup Left' = did \cup Left
    BY <1>1, <1>2
  <2>2. "arguments" \in Left => "arguments" \in Left'
    BY <1>1, <1>2, NamesDiffer
  <2>3. QED
    BY <1>1, <2>1, <2>2, AtSome DEF Honest, Unrepaired
<1>4. QED
  BY <1>1, <1>2, <1>3, AtSome DEF CmdInv, AtStep, ExitIsHonest

LEMMA FetchFailsKeeps == ASSUME CmdInv, FetchFails PROVE CmdInv'
<1>1. /\ AtStep /\ Head(todo) \in NamedIds /\ todo' = Tail(todo) /\ code' = 1 /\ failures' # {}
      /\ UNCHANGED <<line, cmdPc, did, badRows, dbOpen, checks, statuses>>
  BY DEF FetchFails, Is
<1>2. "checkIntegrity" \notin Left
  <2>1. Planned /\ todo \in Seq(Named) /\ todo # <<>>
    BY <1>1 DEF CmdInv, AtStep, Planned
  <2>2. Head(todo) \in Left
    BY <2>1, NextStep DEF Left
  <2>3. QED
    BY <1>1, <2>1, <2>2 DEF Planned
<1>3. Left = {Head(todo)} \cup Left' /\ Planned'
  BY <1>1, <1>2, OneStep
<1>4. Honest'
  BY <1>1 DEF Honest
<1>5. QED
  BY <1>1, <1>3, <1>4, AtSome DEF CmdInv, AtStep, ExitIsHonest

\* A file without a spec is a problem that nothing repairs.
LEMMA ReadWasmKeeps == ASSUME CmdInv, ReadWasm PROVE CmdInv'
<1>1. /\ AtStep /\ Head(todo) = "readWasm" /\ todo' = Tail(todo) /\ did' = did \cup {Head(todo)}
      /\ (code' = code /\ badRows' = badRows) \/ (code' = 1 /\ badRows' = {"none"})
      /\ UNCHANGED <<line, cmdPc, failures, dbOpen, checks, statuses>>
  BY DEF ReadWasm, Is, Done
<1>2. Planned /\ todo \in Seq(Named) /\ todo # <<>>
  BY <1>1 DEF CmdInv, AtStep, Planned
<1>3. line.command = "record"
  <2>1. Head(todo) \in Left
    BY <1>2, NextStep DEF Left
  <2>2. QED
    BY <1>1, <1>2, <2>1 DEF Planned
<1>4. "checkIntegrity" \notin Left /\ "repairRow" \notin did \cup Left
  BY <1>2, <1>3 DEF Planned
<1>5. Left = {Head(todo)} \cup Left' /\ Planned'
  BY <1>1, <1>4, OneStep
<1>6. did' \cup Left' = did \cup Left /\ ("arguments" \in Left => "arguments" \in Left')
  BY <1>1, <1>5
<1>7. Honest'
  <2>1. CASE code' = code /\ badRows' = badRows
    BY <1>1, <1>6, <2>1, AtSome DEF Honest, Unrepaired
  <2>2. CASE code' = 1 /\ badRows' = {"none"}
    BY <1>4, <1>6, <2>2 DEF Honest, Unrepaired
  <2>3. QED
    BY <1>1, <2>1, <2>2
<1>8. QED
  BY <1>1, <1>5, <1>7, AtSome DEF CmdInv, AtStep, ExitIsHonest

\* The problems that are found are all to be repaired, or the code is 1.
LEMMA VerifyKeeps == ASSUME CmdInv, VerifyRows PROVE CmdInv'
<1> DEFINE n == Cardinality(badRows')
           repairs == [r \in 1..n |-> "repairRow"]
<1>1. /\ AtStep /\ Head(todo) = "checkIntegrity" /\ did' = did \cup {"checkIntegrity"}
      /\ badRows' \in SUBSET Rows /\ todo' = (IF line.flag THEN repairs ELSE <<>>)
      /\ code' = (IF badRows' # {} /\ ~line.flag THEN 1 ELSE 0)
      /\ UNCHANGED <<line, cmdPc, failures, dbOpen, checks, statuses>>
  BY DEF VerifyRows, Is, Done
<1>2. Planned /\ todo \in Seq(Named) /\ todo # <<>>
  BY <1>1 DEF CmdInv, AtStep, Planned
<1>3. "checkIntegrity" \in Left
  BY <1>1, <1>2, NextStep DEF Left
<1>4. line.command = "verify" /\ code = 0 /\ "repairRow" \notin did
  BY <1>2, <1>3 DEF Planned
<1>5. /\ n \in Nat /\ (badRows' # {} => n # 0)
  <2>1. IsFiniteSet(badRows')
    BY <1>1, CommandAssumption, FS_Subset
  <2>2. QED
    BY <2>1, FS_CardinalityType, FS_EmptySet
<1>6. repairs \in Seq({"repairRow"}) /\ DOMAIN repairs = 1..n
  BY <1>5
<1>7. /\ todo' \in Seq(Named) /\ Left' \subseteq {"repairRow"}
      /\ badRows' # {} /\ line.flag => "repairRow" \in Left'
      /\ ~line.flag => Left' = {}
      /\ \A i \in DOMAIN todo' : todo'[i] = "repairRow"
  <2>1. CASE ~line.flag
    BY <1>1, <2>1, NothingLeft DEF Left
  <2>2. CASE line.flag
    <3>1. todo' = repairs /\ repairs \in Seq(Named) /\ \A i \in 1..n : repairs[i] = "repairRow"
      BY <1>1, <1>6, <2>2, NamesDiffer DEF Named
    <3> HIDE DEF repairs, n
    <3>2. badRows' # {} => 1 \in DOMAIN todo'
      BY <1>5, <1>6, <3>1
    <3>3. QED
      BY <1>6, <2>2, <3>1, <3>2 DEF Left, Range
  <2>3. QED
    BY <2>1, <2>2
<1> HIDE DEF n, repairs
<1>8. Planned'
  BY <1>1, <1>4, <1>7, NamesDiffer DEF Planned
<1>9. Range(line.ids) = {}
  BY <1>4, NothingLeft DEF CmdInv
<1>10. Honest'
  BY <1>1, <1>4, <1>7, <1>9, AtSome DEF Honest, Unrepaired
<1>11. QED
  BY <1>1, <1>8, <1>10, AtSome DEF CmdInv, AtStep, ExitIsHonest

\* `spec` looks at its arguments when it has opened the store and done nothing else.
LEMMA ArgumentsKeep == ASSUME CmdInv, SpecArguments PROVE CmdInv'
<1>1. /\ AtStep /\ Head(todo) = "arguments"
      /\ UNCHANGED <<line, did, badRows, dbOpen, checks, statuses>>
  BY DEF SpecArguments, Is
<1>2. Planned /\ todo \in Seq(Named) /\ todo # <<>>
  BY <1>1 DEF CmdInv, AtStep, Planned
<1>3. 1 \in DOMAIN todo /\ todo[1] = "arguments" /\ "arguments" \in Left
  BY <1>1, <1>2, NextStep DEF Left
<1>4. did \subseteq {"open"} /\ line.command \in SpecCommands
  BY <1>2, <1>3 DEF Planned
<1> DEFINE Accepted == line.complete /\ UNCHANGED <<cmdPc, code, failures>>
                       /\ todo' = IF line.command = "fetch" THEN line.ids ELSE Tail(todo)
<1>5. CASE Accepted /\ line.command = "fetch"
  <2>1. todo' = line.ids /\ UNCHANGED <<cmdPc, code, failures>>
    BY <1>5
  <2>2. line.ids \in Seq(NamedIds)
    BY DEF CmdInv
  <2>3. todo' \in Seq(Named) /\ Left' = Range(line.ids) /\ Left' \subseteq NamedIds
        /\ \A i \in DOMAIN todo' : todo'[i] \in NamedIds
    BY <2>1, <2>2 DEF Named, Left, Range
  <2>4. Planned'
    BY <1>1, <1>4, <1>5, <2>1, <2>3, NamesDiffer DEF Planned
  <2>5. "repairRow" \notin did \cup Left
    BY <1>2, <1>5 DEF Planned
  <2>6. "repairRow" \notin did' \cup Left'
    BY <1>1, <1>4, <2>3, NamesDiffer
  <2>7. Honest'
    BY <1>1, <2>1, <2>3, <2>5, <2>6, AtSome DEF Honest, Unrepaired
  <2>8. QED
    BY <1>1, <2>1, <2>4, <2>7, AtSome DEF CmdInv, AtStep, ExitIsHonest
<1>6. CASE Accepted /\ line.command # "fetch"
  <2>1. todo' = Tail(todo) /\ UNCHANGED <<cmdPc, code, failures>>
    BY <1>6
  <2>2. Left = {Head(todo)} \cup Left' /\ Planned'
    BY <1>1, <2>1, OneStep
  <2>3. "repairRow" \in did \cup Left <=> "repairRow" \in did' \cup Left'
    BY <1>1, <2>2
  <2>4. Range(line.ids) = {}
    BY <1>6, NothingLeft DEF CmdInv
  <2>5. Honest'
    BY <1>1, <2>1, <2>3, <2>4, AtSome DEF Honest, Unrepaired
  <2>6. QED
    BY <1>1, <2>1, <2>2, <2>5, AtSome DEF CmdInv, AtStep, ExitIsHonest
<1>7. CASE ~Accepted
  <2>1. /\ todo' = <<>> /\ cmdPc' = "close"
        /\ code' = 2 \/ (code' = 1 /\ failures' # {})
    BY <1>7 DEF SpecArguments
  <2>2. Left' = {} /\ todo' \in Seq(Named) /\ DOMAIN todo' = {}
    BY <2>1, NothingLeft DEF Left
  <2>3. Planned'
    BY <1>1, <1>2, <2>2 DEF Planned
  <2>4. Honest'
    BY <1>1, <1>4, <2>1 DEF Honest
  <2>5. QED
    BY <1>1, <2>1, <2>3, <2>4, AtSome DEF CmdInv, AtStep, ExitIsHonest
<1>8. QED
  BY <1>5, <1>6, <1>7

LEMMA ThrowsKeeps == ASSUME CmdInv, StepThrows PROVE CmdInv'
<1>1. /\ AtStep /\ failures' # {} /\ code' = 1 /\ todo' = <<>> /\ cmdPc' \in {"close", "exited"}
      /\ UNCHANGED <<line, did, badRows, dbOpen, checks, statuses>>
  BY DEF StepThrows
<1>2. Left' = {} /\ todo' \in Seq(Named) /\ DOMAIN todo' = {}
  BY <1>1, NothingLeft DEF Left
<1>3. Planned /\ line.command # "doctor" /\ statuses = {}
  BY <1>1, AtSome
<1>4. Planned'
  BY <1>1, <1>2, <1>3 DEF Planned
<1>5. Honest' /\ ExitIsHonest'
  BY <1>1 DEF Honest, ExitIsHonest
<1>6. QED
  BY <1>1, <1>3, <1>4, <1>5 DEF CmdInv, AtStep

LEMMA SpeakKeeps == ASSUME CmdInv, Speak \/ ContractsFile PROVE CmdInv'
<1>1. /\ cmdPc = "start" /\ did = {} /\ todo = <<>> /\ badRows = {} /\ statuses = {} /\ ~dbOpen
      /\ UNCHANGED <<line, did, todo, badRows, dbOpen, statuses>> /\ cmdPc' = "exited"
  BY DEF Speak, ContractsFile, CmdInv
<1>2. CASE Speak
  <2>1. failures' = {} /\ code' \in {0, 2}
    BY <1>2 DEF Speak, CmdInv
  <2>2. code' = 0 => line.ids = <<>>
    BY <1>2 DEF Speak, Spoken, CmdInv
  <2>3. ExitIsHonest'
    BY <1>1, <2>1, <2>2, NothingLeft DEF ExitIsHonest
  <2>4. QED
    BY <1>1, <2>1, <2>3 DEF CmdInv
<1>3. CASE ContractsFile
  <2>1. failures' # {} /\ code' \in {1, 2}
    BY <1>3 DEF ContractsFile
  <2>2. ExitIsHonest'
    BY <1>1, <2>1 DEF ExitIsHonest
  <2>3. QED
    BY <1>1, <2>1, <2>2 DEF CmdInv
<1>4. QED
  BY <1>2, <1>3

LEMMA CheckKeeps == ASSUME CmdInv, NEW c, Check(c) PROVE CmdInv'
<1>1. /\ cmdPc = "run" /\ line.command = "doctor" /\ todo = <<>> /\ failures = {} /\ badRows = {} /\ code = 0
      /\ Planned /\ Honest /\ (dbOpen => "fail" \in statuses)
      /\ UNCHANGED <<line, cmdPc, todo, did, failures, badRows, code>>
  BY DEF Check, CmdInv
<1>2. dbOpen' => "fail" \in statuses'
  <2>1. PICK status \in {"pass", "warn", "fail"} :
            /\ statuses' = statuses \cup {status}
            /\ dbOpen' \in IF c = "Database" /\ status = "fail" THEN BOOLEAN ELSE {dbOpen}
    BY DEF Check
  <2>2. CASE status = "fail"
    BY <2>1, <2>2
  <2>3. CASE status # "fail"
    BY <1>1, <2>1, <2>3
  <2>4. QED
    BY <2>2, <2>3
<1>3. Planned'
  BY <1>1 DEF Planned, Left
<1>4. Honest'
  BY <1>1 DEF Honest, Unrepaired, Left
<1>5. QED
  BY <1>1, <1>2, <1>3, <1>4 DEF CmdInv, ExitIsHonest

LEMMA ReportKeeps == ASSUME CmdInv, FormatReport PROVE CmdInv'
<1>1. /\ cmdPc = "run" /\ line.command = "doctor" /\ todo = <<>> /\ failures = {} /\ badRows = {}
      /\ (dbOpen => "fail" \in statuses) /\ line.ids = <<>>
      /\ cmdPc' = "exited" /\ code' = (IF "fail" \in statuses THEN 1 ELSE 0)
      /\ UNCHANGED <<line, todo, did, failures, badRows, dbOpen, statuses>>
  BY DEF FormatReport, CmdInv
<1>2. ExitIsHonest'
  BY <1>1, NothingLeft DEF ExitIsHonest
<1>3. QED
  BY <1>1, <1>2 DEF CmdInv

\* With no step left, what is neither failed nor found is done.
LEMMA CloseKeeps == ASSUME CmdInv, CloseAtEnd PROVE CmdInv'
<1>1. /\ todo = <<>> /\ line.command # "doctor" /\ statuses = {} /\ Honest
      /\ cmdPc' = "exited" /\ UNCHANGED <<line, todo, did, badRows, checks, statuses>>
      /\ code \in {0, 1, 2}
  BY DEF CloseAtEnd, CmdInv
<1>2. Left = {}
  BY <1>1, NothingLeft DEF Left
<1>3. CASE dbOpen' = FALSE /\ UNCHANGED <<code, failures>>
  <2>1. ExitIsHonest'
    BY <1>1, <1>2, <1>3 DEF Honest, Unrepaired, ExitIsHonest, SpecCommands
  <2>2. QED
    BY <1>1, <1>3, <2>1 DEF CmdInv
<1>4. CASE code' = 1 /\ failures' = failures \cup {"close"}
  <2>1. ExitIsHonest'
    BY <1>4 DEF ExitIsHonest
  <2>2. QED
    BY <1>1, <1>4, <2>1 DEF CmdInv
<1>5. QED
  BY <1>3, <1>4 DEF CloseAtEnd

\* main() and runDoctor() end with a code that says what became of the command, for every
\* list of contracts and every table, whatever step of it fails.
THEOREM ExitCodesAreHonest == CmdSpec => []ExitIsHonest
<1>1. CmdInit => CmdInv
  <2>1. ASSUME NEW l \in Line PROVE l.ids \in Seq(NamedIds)
    <3>1. CASE l.ids = <<>>
      BY <3>1
    <3>2. CASE \E c \in NamedIds : l.ids = <<c>>
      BY <3>2
    <3>3. CASE \E c, d \in NamedIds : l.ids = <<c, d>>
      BY <3>3
    <3>4. QED
      BY <3>1, <3>2, <3>3 DEF Line
  <2>2. QED
    BY <2>1 DEF CmdInit, CmdInv, Line, ExitIsHonest
<1>2. ASSUME CmdInv, [CmdNext]_cmdVars PROVE CmdInv'
  <2>1. CASE UNCHANGED cmdVars
    BY <1>2, <2>1 DEF cmdVars, CmdInv, Planned, Honest, Unrepaired, Left, ExitIsHonest
  <2>2. CASE CmdNext
    BY <1>2, <2>2, SpeakKeeps, BeginKeeps, SucceedKeeps, VerifyKeeps, ArgumentsKeep, ReadWasmKeeps,
       FetchKeeps, FetchFailsKeeps, ThrowsKeeps, ReportKeeps, CloseKeeps, CheckKeeps DEF CmdNext
  <2>3. QED
    BY <1>2, <2>1, <2>2
<1>3. CmdInv => ExitIsHonest
  BY DEF CmdInv
<1>4. QED
  BY <1>1, <1>2, <1>3, PTL DEF CmdSpec
=============================================================================
