----------------------------- MODULE CliCommand -----------------------------
(***************************************************************************)
(* One run of `lens` (main in packages/cli/src/bin.ts, runDoctor in        *)
(* packages/cli/src/doctor.ts): what a command does to the store, step by  *)
(* step, and the exit code it ends with when any of the steps may fail.    *)
(*                                                                         *)
(* What a step does inside the store is SqliteStore's matter; `index` is   *)
(* IndexerRun's.                                                           *)
(***************************************************************************)
EXTENDS Naturals, Sequences, FiniteSets, Functions

CONSTANTS NamedIds,     \* the contracts of a command line
          Rows          \* the rows of the store

VARIABLES line,         \* the command line
          cmdPc,        \* start, run, close or exited
          todo,         \* the steps that are left
          did,          \* the steps that are done
          failures,     \* steps that failed, contracts included
          badRows,      \* verify: rows with problems
          dbOpen, code,
          checks,       \* doctor: the checks that are still to answer
          statuses      \* ... and what the others said
cmdVars == <<line, cmdPc, todo, did, failures, badRows, dbOpen, code, checks, statuses>>

Steps ==
    [index    |-> <<"runIndexer">>,
     seed     |-> <<"readFixture", "open", "insertEvents", "readSpecs", "saveContractSpec">>,
     stats    |-> <<"open", "getStats">>,
     prune    |-> <<"open", "getStats", "pruneBefore", "getStats">>,
     redecode |-> <<"open", "redecode">>,
     verify   |-> <<"open", "checkIntegrity">>,
     migrate  |-> <<"open", "migrateDown">>,
     export   |-> <<"open", "exportSnapshot">>,
     import   |-> <<"open", "importSnapshot">>,
     list     |-> <<"open", "arguments", "listContractSpecs">>,
     record   |-> <<"open", "arguments", "readWasm", "saveContractSpec">>,   \* spec import
     fetch    |-> <<"open", "arguments">>]                                   \* spec fetch
StepNames == {"repairRow"} \cup (UNION {Range(Steps[c]) : c \in DOMAIN Steps})
ASSUME CommandAssumption == IsFiniteSet(Rows) /\ NamedIds \cap StepNames = {}

Spoken == {"help", "completion", "unknown"}
Checks == {"Node", "Data", "Disk", "Database", "Rpc", "Skew", "Archive", "Contracts", "Headers"}

\* A command line: `complete`, it has the arguments its command insists on; `flag`,
\* --fixture of seed and --repair of verify; its contracts, for fetch in their order.
Line == [command : DOMAIN Steps \cup Spoken \cup {"doctor"}, complete : BOOLEAN, flag : BOOLEAN,
         ids : {<<>>} \cup {<<c>> : c \in NamedIds}
                      \cup {<<c, d>> : c \in NamedIds, d \in NamedIds}]

CmdInit ==
    /\ line \in {l \in Line : /\ IsInjective(l.ids)
                              /\ IF l.command = "fetch" THEN l.complete <=> l.ids # <<>> ELSE l.ids = <<>>
                              /\ l.command \notin {"seed", "verify"} => ~l.flag
                              /\ l.command \in {"index", "seed", "stats", "redecode", "verify", "doctor"} => l.complete}
    /\ cmdPc = "start" /\ todo = <<>> /\ did = {} /\ failures = {} /\ badRows = {}
    /\ dbOpen = FALSE /\ code = 0
    /\ checks = Checks /\ statuses = {}

RefusedLine ==
    \/ line.command = "unknown"
    \/ line.command \in {"prune", "migrate", "export", "import"} /\ ~line.complete

\* What takes no store, and arguments that are refused before it is opened.
Speak ==
    /\ cmdPc = "start" /\ (RefusedLine \/ line.command \in Spoken)
    /\ cmdPc' = "exited" /\ code' = IF RefusedLine THEN 2 ELSE 0
    /\ UNCHANGED <<line, todo, did, failures, badRows, dbOpen, checks, statuses>>

\* --contracts-file: a line that is no contract id is 2, a file that cannot be read fatal.
ContractsFile ==
    /\ cmdPc = "start" /\ line.command # "help"
    /\ cmdPc' = "exited" /\ failures' = {"contracts-file"} /\ code' \in {1, 2}
    /\ UNCHANGED <<line, todo, did, badRows, dbOpen, checks, statuses>>

BeginCommand ==
    /\ cmdPc = "start" /\ ~RefusedLine /\ line.command \notin Spoken
    /\ cmdPc' = "run"
    /\ todo' = IF line.command = "doctor" THEN <<>>
               ELSE IF line.command = "seed" /\ line.flag THEN SubSeq(Steps["seed"], 1, 3)
               ELSE Steps[line.command]
    /\ UNCHANGED <<line, did, failures, badRows, dbOpen, code, checks, statuses>>

AtStep == cmdPc = "run" /\ todo # <<>>
Is(step) == AtStep /\ Head(todo) = step
Done(step) == did' = did \cup {step}

\* A step that has only to succeed.
Succeed ==
    /\ AtStep /\ Head(todo) \notin {"arguments", "checkIntegrity", "readWasm"} \cup NamedIds
    /\ Done(Head(todo)) /\ todo' = Tail(todo) /\ dbOpen' = (dbOpen \/ Head(todo) = "open")
    /\ UNCHANGED <<line, cmdPc, failures, badRows, code, checks, statuses>>

\* verify: every row that does not recompute is named, and repaired or left.
VerifyRows ==
    /\ Is("checkIntegrity") /\ Done("checkIntegrity")
    /\ badRows' \in SUBSET Rows
    /\ todo' = IF line.flag THEN [r \in 1..Cardinality(badRows') |-> "repairRow"] ELSE <<>>
    /\ code' = IF badRows' # {} /\ ~line.flag THEN 1 ELSE 0
    /\ UNCHANGED <<line, cmdPc, failures, dbOpen, checks, statuses>>

\* spec: arguments are looked at after the store is opened.  An id that is none throws,
\* before `spec import` counts its arguments.
SpecArguments ==
    /\ Is("arguments")
    /\ \/ /\ line.complete
          /\ todo' = IF line.command = "fetch" THEN line.ids ELSE Tail(todo)
          /\ UNCHANGED <<cmdPc, code, failures>>
       \/ /\ ~line.complete
          /\ cmdPc' = "close" /\ code' = 2 /\ todo' = <<>> /\ UNCHANGED failures
       \/ /\ line.command = "record" \/ line.ids # <<>>
          /\ failures' = failures \cup {"arguments"}
          /\ cmdPc' = "close" /\ code' = 1 /\ todo' = <<>>
    /\ UNCHANGED <<line, did, badRows, dbOpen, checks, statuses>>

\* spec import: a file without a spec is saved as such.
ReadWasm ==
    /\ Is("readWasm") /\ Done("readWasm") /\ todo' = Tail(todo)
    /\ \/ code' = code /\ UNCHANGED badRows
       \/ code' = 1 /\ badRows' = {"none"}
    /\ UNCHANGED <<line, cmdPc, failures, dbOpen, checks, statuses>>

\* spec fetch: a lookup, and its save.  One that fails is counted, and the next tried.
Fetch ==
    /\ \E c \in NamedIds : Is(c) /\ Done(c)
    /\ todo' = Tail(todo)
    /\ UNCHANGED <<line, cmdPc, failures, badRows, dbOpen, code, checks, statuses>>

\* Variant: a lookup that failed is only printed.
FetchFailsQuietly ==
    /\ \E c \in NamedIds : Is(c) /\ failures' = failures \cup {c}
    /\ todo' = Tail(todo)
    /\ UNCHANGED <<line, cmdPc, did, badRows, dbOpen, code, checks, statuses>>

FetchFails ==
    /\ \E c \in NamedIds : Is(c) /\ failures' = failures \cup {c}
    /\ todo' = Tail(todo) /\ code' = 1
    /\ UNCHANGED <<line, cmdPc, did, badRows, dbOpen, checks, statuses>>

\* Any other step that throws ends the command: migrate reports it, main for the rest.
StepThrows ==
    /\ AtStep /\ Head(todo) \notin {"arguments"} \cup NamedIds
    /\ failures' = failures \cup {Head(todo)}
    /\ cmdPc' = (IF dbOpen THEN "close" ELSE "exited") /\ code' = 1 /\ todo' = <<>>
    /\ UNCHANGED <<line, did, badRows, dbOpen, checks, statuses>>

\* The checks that warn, and those that never fail.
Warns == [may |-> {"Disk", "Skew", "Archive", "Contracts"}, only |-> {"Skew", "Headers"}]

\* doctor: its checks run together and none of them throws.  The database is opened,
\* probed, asked for its statistics and closed; when that last question fails it stays open.
Check(c) ==
    /\ cmdPc = "run" /\ line.command = "doctor" /\ c \in checks /\ checks' = checks \ {c}
    /\ \E status \in {"pass", "warn", "fail"} :
          /\ status = "warn" => c \in Warns.may
          /\ status = "fail" => c \notin Warns.only
          /\ statuses' = statuses \cup {status}
          /\ dbOpen' \in IF c = "Database" /\ status = "fail" THEN BOOLEAN ELSE {dbOpen}
    /\ UNCHANGED <<line, cmdPc, todo, did, failures, badRows, code>>

FormatReport ==
    /\ cmdPc = "run" /\ line.command = "doctor" /\ checks = {}
    /\ cmdPc' = "exited" /\ code' = IF "fail" \in statuses THEN 1 ELSE 0
    /\ UNCHANGED <<line, todo, did, failures, badRows, dbOpen, checks, statuses>>

\* finally: the store is closed; a close that throws takes the place of what was returned.
CloseAtEnd ==
    /\ \/ cmdPc = "run" /\ todo = <<>> /\ line.command # "doctor"
       \/ cmdPc = "close"
    /\ \/ dbOpen' = FALSE /\ UNCHANGED <<code, failures>>
       \/ dbOpen /\ dbOpen' = dbOpen /\ code' = 1 /\ failures' = failures \cup {"close"}
    /\ cmdPc' = "exited"
    /\ UNCHANGED <<line, todo, did, badRows, checks, statuses>>

CmdNext ==
    \/ Speak \/ ContractsFile \/ BeginCommand \/ Succeed \/ VerifyRows \/ SpecArguments \/ ReadWasm
    \/ Fetch \/ FetchFails \/ StepThrows \/ FormatReport \/ CloseAtEnd \/ \E c \in Checks : Check(c)
CmdSpec == CmdInit /\ [][CmdNext]_cmdVars

-----------------------------------------------------------------------------
\* A script may go by the exit code of `lens` (bin.ts 81-519): 0 when the command did all
\* it was asked for, found no problem it left, and closed the store; 1 when something failed
\* or is wrong, never otherwise; 2 when it was refused and no step of it was done, but that
\* `spec` had opened the store: that creates and migrates the database, and no more.
ExitIsHonest ==
    cmdPc = "exited" =>
        LET wrong == failures # {} \/ "fail" \in statuses
                     \/ (badRows # {} /\ "repairRow" \notin did)
        IN  /\ code = 0 => ~wrong /\ ~dbOpen /\ Range(line.ids) \subseteq did
            /\ code = 1 => wrong
            /\ code = 2 => did \subseteq (IF line.command \in {"list", "record", "fetch"} THEN {"open"} ELSE {})
=============================================================================
