----------------------------- MODULE MCProgress -----------------------------
(***************************************************************************)
(* Liveness, on small instances: a behaviour is one of SizePrune,          *)
(* IndexerRun, IngestCli, Failover with a dead primary, PostgresStore,     *)
(* SqliteStore, ApiServer or Webhooks, as `which` says, and the variables  *)
(* of the others keep an initial value of theirs.  The fairness of each    *)
(* module is restated for the behaviours in which it runs.                 *)
(***************************************************************************)
EXTENDS SizePrune, IndexerRun

VARIABLES which,
          c1, c2, c3, c4, c5,
          f1, f2, f3, f4, f5, f6, f7, f8, f9, f10, f11, f12, f13,
          p1, p2, p3, p4, p5, a1, a2, a3, a4, a5,
          s1, s2, s3, s4, s5, s6, s7, s8, s9, s10, s11, s12, s13, s14,
          w1, w2, w3, w4, w5, w6, w7, w8, w9, w10, w11, w12

C == INSTANCE IngestCli WITH
        CliProcs <- {"p"}, LastEvent <- 2, CliPageSize <- 1, MaxKills <- 1,
        published <- c1, cursorFile <- c2, written <- c3, process <- c4, kills <- c5
F == INSTANCE Failover WITH
        N <- 2, Outages <- {{0}}, MaxLedger <- 2, PerLedger <- 2, PageSize <- 1, Window <- 2,
        Threshold <- 2, MaxCrashes <- 1,
        dead <- f1, tip <- f2, oldest <- f3, stored <- f4, saved <- f5, pool <- f6, pc <- f7,
        cursor <- f8, startLedger <- f9, page <- f10, recent <- f11, gone <- f12, crashes <- f13
P == INSTANCE PostgresStore WITH
        Calls <- {"a", "b"}, PgPoolSize <- 2, PgMaxId <- 2, PgPlain <- {1},
        pgRows <- p1, pgAddresses <- p2, migrated <- p3, advisory <- p4, call <- p5
S == INSTANCE SqliteStore WITH
        Procs <- {"p", "q"}, Upgraded <- {"p"}, MaxId <- 1, Hard <- {}, Plain <- {}, BatchSize <- 1,
        MaxDowns <- 1, MaxFaults <- 0,
        applied <- s1, tables <- s2, rows <- s3, addresses <- s4, fts <- s5, bad <- s6, lost <- s7,
        unindexed <- s8, unsearched <- s9, file <- s10, fts5 <- s11, proc <- s12, downs <- s13,
        faults <- s14
A == INSTANCE ApiServer WITH
        Conns <- {"c"}, MaxEvent <- 1,
        newest <- a1, server <- a2, storeOpen <- a3, conn <- a4, cache <- a5
W == INSTANCE Webhooks WITH
        Subs <- {"a"}, Pumps <- {1, 2}, MaxEvent <- 2, InOrder <- TRUE, MaxSubs <- 1,
        MaxAttempts <- 2, Batch <- 1, Burst <- 1,
        inserted <- w1, stopped <- w2, tokens <- w3, phase <- w4, since <- w5, cursor <- w6,
        busy <- w7, pc <- w8, page <- w9, more <- w10, attempt <- w11, log <- w12

cVars == <<c1, c2, c3, c4, c5>>
fVars == <<f1, f2, f3, f4, f5, f6, f7, f8, f9, f10, f11, f12, f13>>
pVars == <<p1, p2, p3, p4, p5>>
aVars == <<a1, a2, a3, a4, a5>>
sVars == <<s1, s2, s3, s4, s5, s6, s7, s8, s9, s10, s11, s12, s13, s14>>
wVars == <<w1, w2, w3, w4, w5, w6, w7, w8, w9, w10, w11, w12>>

Runs(machine) == which = machine

MCInit ==
    /\ which \in {"prune", "indexer", "cli", "failover", "postgres", "sqlite", "api",
                 "webhooks"}
    /\ Init /\ RunInit /\ C!CliInit /\ F!FailoverInit /\ P!PgInit /\ S!Init /\ A!ApiInit /\ W!Init
    /\ ~Runs("indexer") => oldest = 1 /\ deployed = {}
    /\ ~Runs("sqlite") => s11 = {}
MCNext ==
    /\ UNCHANGED which
    /\ \/ Runs("prune") /\ Next /\ UNCHANGED <<runVars, cVars, fVars, pVars, sVars, aVars, wVars>>
       \/ Runs("indexer") /\ RunNext /\ UNCHANGED <<vars, cVars, fVars, pVars, sVars, aVars, wVars>>
       \/ Runs("cli") /\ C!CliNext /\ UNCHANGED <<vars, runVars, fVars, pVars, sVars, aVars, wVars>>
       \/ Runs("failover") /\ F!FailoverNext /\ UNCHANGED <<vars, runVars, cVars, pVars, sVars, aVars, wVars>>
       \/ Runs("postgres") /\ P!PgNext /\ UNCHANGED <<vars, runVars, cVars, fVars, sVars, aVars, wVars>>
       \/ Runs("sqlite") /\ S!Next /\ UNCHANGED <<vars, runVars, cVars, fVars, pVars, aVars, wVars>>
       \/ Runs("api") /\ A!ApiNext /\ UNCHANGED <<vars, runVars, cVars, fVars, pVars, sVars, wVars>>
       \/ Runs("webhooks") /\ W!Next /\ UNCHANGED <<vars, runVars, cVars, fVars, pVars, sVars, aVars>>

MCFairness ==
    /\ WF_vars(Runs("prune") /\ RunSizePrune) /\ WF_vars(Runs("prune") /\ Pruning)
    /\ WF_runVars(Runs("indexer") /\ (Step \/ LookupFails))
    /\ WF_cVars(Runs("cli") /\ C!Proceed("p"))
    /\ WF_fVars(Runs("failover") /\ F!Process)
    /\ \A c \in {"a", "b"} :
          /\ SF_pVars(Runs("postgres") /\ P!Connect(c)) /\ SF_pVars(Runs("postgres") /\ P!PgStep(c))
          /\ WF_pVars(Runs("postgres") /\ P!Return(c))
          /\ WF_pVars(Runs("postgres") /\ P!Deadlocked(c) /\ P!Rollback(c))
    /\ \A p \in {"p", "q"} :
          /\ WF_sVars(Runs("sqlite") /\ S!Open(p) /\ UNCHANGED s11)
          /\ SF_sVars(Runs("sqlite") /\ S!Migrate(p) /\ UNCHANGED s11)
    /\ WF_aVars(Runs("api") /\ A!Deadline) /\ WF_aVars(Runs("api") /\ A!CloseServer)
    /\ WF_aVars(Runs("api") /\ A!CloseStore)
    /\ \A b \in {"a", "host"} : WF_wVars(Runs("webhooks") /\ W!Refill(b))
    /\ WF_wVars(Runs("webhooks") /\ (W!Pump("a", 1) \/ W!Pump("a", 2)))
    /\ \A k \in {1, 2} : /\ WF_wVars(Runs("webhooks") /\ W!Step("a", k))
                         /\ SF_wVars(Runs("webhooks") /\ W!Query("a", k))
MCSpec ==
    /\ MCInit /\ MCFairness
    /\ [][MCNext]_<<which, vars, runVars, cVars, fVars, pVars, sVars, aVars, wVars>>

-----------------------------------------------------------------------------
(* What must end or come, each where its machine runs.  The modules say what   *)
(* the properties mean.                                                        *)

\* SizePrune: a prune ends.
SizePruneEnds == Runs("prune") => PruneEnds

\* SizePrune: a database over its budget comes to fit it.
BudgetMetInTheEnd == Runs("prune") => BudgetIsMet

\* IndexerRun: an attempted contract gets its answer or may be attempted again.
LookupsSettle == Runs("indexer") => SeenContractsSettle

\* IngestCli: the first signal ends the process.
SignalEndsRun == Runs("cli") => C!SignalEndsRun

\* Failover: with the primary dead every event is stored or given up.
EveryEventSettles == Runs("failover") => F!EveryEventSettles

\* PostgresStore: every call ends.
CallsEnd == Runs("postgres") => P!CallsEnd

\* SqliteStore: every process gets the database open.
EveryProcessOpens == Runs("sqlite") => S!EveryProcessOpens

\* ApiServer: a shutdown ends.
ShutdownEnds == Runs("api") => A!ShutdownEnds

\* Webhooks: every event is delivered or dead-lettered in the end.
EveryEventHandled == Runs("webhooks") => W!EveryEventHandled
=============================================================================
