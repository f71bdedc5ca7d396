----------------------------- MODULE IngestCli -----------------------------
(***************************************************************************)
(* soroban-lens-ingest (packages/ingest/src/bin.ts): the poller of Ingest, *)
(* here a page at a time, with NDJSON on standard output as its consumer   *)
(* and FileCursorStore (cursor.ts) as its memory.  Several processes may   *)
(* share one cursor directory; any of them may be killed at any point.     *)
(* Every event is of a ledger of its own; event 1 is the first to read.    *)
(***************************************************************************)
EXTENDS Naturals, FiniteSets, FiniteSetsExt

CONSTANTS CliProcs,
          LastEvent,    \* bound: events the network has
          CliPageSize,  \* events of a page
          MaxKills      \* bound: processes killed or that exit at a second signal

VARIABLES published,    \* the node's newest event
          cursorFile,   \* the cursor file: absent, torn, or the position it holds
          written,      \* events on standard output, of all processes
          process,      \* the processes
          kills
cliVars == <<published, cursorFile, written, process, kills>>

Absent == 0
Torn == LastEvent + 1

\* The options that matter: --no-resume, --once, --end-ledger, --max-events (0: none).
Options == [resume : BOOLEAN, once : {FALSE}, end : {0, 1}, most : {0}]
           \cup [resume : {TRUE}, once : BOOLEAN, end : {0}, most : {0, 1}]

\* Exit code 2: a bounded range cannot resume from a stored cursor.
Refused(o) == o.end # 0 /\ o.resume

Down == [pc |-> "down", opts |-> [resume |-> TRUE, once |-> FALSE, end |-> 0, most |-> 0],
         at |-> 0, to |-> 0, last |-> FALSE, emitted |-> 0, signalled |-> FALSE]
CliAt(p, pc) == process[p].pc = pc
Goto(p, pc) == process' = [process EXCEPT ![p].pc = pc]

CliInit ==
    /\ published = 0 /\ cursorFile = Absent /\ written = {} /\ kills = 0
    /\ process = [p \in CliProcs |-> Down]

\* A file that does not parse ends the process.  (The clean-up of FileCursorStore looks
\* for `<key>.cursor.json.<pid>.tmp`, but save() names its file
\* `<key>.cursor.json.<pid>.<time>.<random>.tmp`: none match, and the temporary file of
\* a killed process stays.)
Loads(o) == o.resume => cursorFile # Torn
Loaded(o) == IF o.resume THEN cursorFile ELSE 0

StartUp(p, o) ==
    /\ CliAt(p, "down") /\ ~Refused(o)
    /\ Loads(o)
    /\ process' = [process EXCEPT ![p] = [Down EXCEPT !.pc = "poll", !.opts = o,
                                               !.at = Loaded(o)]]
    /\ UNCHANGED <<published, cursorFile, written, kills>>

\* Variant: the loop does not look at the signal.
PollOn(p) ==
    /\ CliAt(p, "poll")
    /\ LET to == Min({published, process[p].at + CliPageSize})
       IN  process' = [process EXCEPT ![p].pc = "emit", ![p].to = to, ![p].last = to < process[p].at + CliPageSize]
    /\ UNCHANGED <<published, cursorFile, written, kills>>

\* The loop of the poller ends, and main() exits with 0, when the signal is aborted: at
\* once between polls, after the sleep when it comes during one.  endLedger bounds only
\* the request by ledger, the first one of a process without a cursor.
Poll(p) ==
    /\ CliAt(p, "poll")
    /\ IF process[p].signalled THEN process' = [process EXCEPT ![p] = Down]
       ELSE LET from == process[p].at
                end == IF from = 0 /\ process[p].opts.end # 0 THEN process[p].opts.end ELSE LastEvent
                to == Max({from, Min({published, from + CliPageSize, end})})
            IN  process' = [process EXCEPT ![p].pc = "emit", ![p].to = to, ![p].last = to < from + CliPageSize]
    /\ UNCHANGED <<published, cursorFile, written, kills>>

\* MemoryCursorStore or a file.  Position 0, saved or not, is the start.
SaveOrPoll(p) ==
    IF process[p].opts.resume /\ process[p].to # 0 THEN "write"
    ELSE IF process[p].last /\ process[p].opts.end # 0 THEN "down" ELSE "poll"
Saved(p) == [process EXCEPT ![p].pc = "poll", ![p].at = process[p].to, ![p].to = 0, ![p].last = FALSE]

\* The page is on standard output.  With --max-events, --once or --end-ledger the
\* loop body may return, and then the poller never comes to save the page.  An
\* empty page is not delivered, so that the loop body does not run.
Emit(p) ==
    /\ CliAt(p, "emit")
    /\ LET o == process[p].opts
           at == process[p].at
           upto == IF o.most # 0 THEN Min({process[p].to, at + o.most - process[p].emitted}) ELSE process[p].to
           done == \/ o.most # 0 /\ upto - at + process[p].emitted = o.most
                   \/ process[p].last /\ (o.end # 0 \/ o.once)
       IN  /\ written' = written \cup ((at + 1)..upto)
           /\ process' = IF done /\ upto > at THEN [process EXCEPT ![p] = Down]
                      ELSE IF SaveOrPoll(p) = "down" THEN [process EXCEPT ![p] = Down]
                      ELSE IF SaveOrPoll(p) = "poll" THEN Saved(p)
                      ELSE [process EXCEPT ![p].pc = "write", ![p].emitted = IF o.most # 0 THEN process[p].emitted + upto - at ELSE 0]
    /\ UNCHANGED <<published, cursorFile, kills>>

\* Variant: the file is written in place.
WriteInPlace(p) ==
    /\ CliAt(p, "write") /\ Goto(p, "rename") /\ cursorFile' = Torn
    /\ UNCHANGED <<published, written, kills>>

\* A temporary file, or part of one, which is all that a kill leaves behind.
WriteTemp(p) ==
    /\ CliAt(p, "write") /\ Goto(p, "rename")
    /\ UNCHANGED <<published, cursorFile, written, kills>>

Rename(p) ==
    /\ CliAt(p, "rename") /\ cursorFile' = process[p].to
    /\ process' = Saved(p)
    /\ UNCHANGED <<published, written, kills>>

Signal(p) ==
    /\ ~CliAt(p, "down") /\ ~process[p].signalled
    /\ process' = [process EXCEPT ![p].signalled = TRUE]
    /\ UNCHANGED <<published, cursorFile, written, kills>>

\* process.exit(1) at the second signal, a crash, or a kill.
Kill(p) ==
    /\ ~CliAt(p, "down") /\ kills < MaxKills /\ kills' = kills + 1
    /\ process' = [process EXCEPT ![p] = Down]
    /\ UNCHANGED <<published, cursorFile, written>>

Publish == /\ published < LastEvent /\ published' = published + 1
           /\ UNCHANGED <<cursorFile, written, process, kills>>

Proceed(p) == Poll(p) \/ Emit(p) \/ WriteTemp(p) \/ Rename(p)
CliNext == Publish \/ \E p \in CliProcs : Proceed(p) \/ Signal(p) \/ Kill(p)
                                    \/ \E o \in Options : StartUp(p, o)
CliSpec == CliInit /\ [][CliNext]_cliVars /\ \A p \in CliProcs : WF_cliVars(Proceed(p))

-----------------------------------------------------------------------------
\* cursor.ts: "a process killed mid-write resumes from the previous good cursor
\* rather than from a truncated file".  Whenever a process dies, the file is whole
\* and every event up to its position is on standard output, also when processes
\* share the directory and overwrite each other's position (cursor.ts 89-125,
\* bin.ts 365-381).
ResumeIsSafe == cursorFile # Torn /\ 1..cursorFile \subseteq written

\* The same promise as the indexer's, of the file and of standard output: an event is
\* written at least once, and a position is saved only when all before it are written.
\* The processes share the file, so that it may go back.  Nothing is skipped, forgotten
\* or given up.
D == INSTANCE Delivery WITH
        closed <- published, skipped <- 0, forgotten <- 0, stored <- written, gone <- {},
        acked <- cursorFile
WritesAtLeastOnce == D!SpecOfMany

\* bin.ts: the first signal lets the process finish its batch and then ends it,
\* wherever the poll loop or the save is (312-323, 365-389).
SignalEndsRun == \A p \in CliProcs : process[p].signalled ~> CliAt(p, "down")
=============================================================================
