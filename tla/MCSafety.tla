------------------------------ MODULE MCSafety ------------------------------
(***************************************************************************)
(* The larger instances, for safety: a behaviour is one of SqliteStore,    *)
(* PostgresStore, ApiServer, IngestCli, RateLimit, Caches, CliCommand,     *)
(* EventStream, Failover, RpcClient, Readers, GraphQL or Explorer, as      *)
(* `which` says; the other machines stay in their initial state.           *)
(***************************************************************************)
EXTENDS SqliteStore, PostgresStore, ApiServer, IngestCli, RateLimit, Caches, CliCommand,
        EventStream, Failover, RpcClient, Readers, GraphQL, Explorer, MCInputs

\* Documents for GraphQL: pages in pages, lists in lists, repeated and skipped fields,
\* limits of 0, below 0 and above the maximum.  A selection may be part of several.
Field(field, limit, kids) ==
    [key |-> field, field |-> field, limit |-> limit, included |-> TRUE, kids |-> kids]
Scalar(field) == Field(field, NoLimit, {})
LimitOf(n) == IF n = 0 THEN NoLimit ELSE n
SomeSelections ==
    [i \in 1..6 |-> Field("contracts", (i + 1) \div 2, {16 + (i % 2), 26})]
    \o <<Field("contracts", 1, {10}), Field("contracts", 3, {27}), Field("contracts", 1, {11})>>  \* 7 to 9
    \o <<Field("topics", 2, {28}), Field("topics", 3, {28}),                                      \* 10, 11
         [Field("events", 1, {22, 25}) EXCEPT !.key = "more"],                                    \* 12
         Field("event", NoLimit, {14, 24}), Field("contract", NoLimit, {26})>>                    \* 13, 14
    \o [i \in 1..4 |-> Field("events", LimitOf(i - 1), {21, 25})]                                \* 15 to 18
    \o [i \in 1..2 |-> Field("events", i, {22})]                                                 \* 19, 20
    \o <<Field("events", NoLimit, {24}), Field("events", NoLimit, {23}), Field("topics", NoLimit, {29}),
         Scalar("id"), Scalar("total"), Scalar("contractId"),                                     \* 24 to 26
         [Scalar("contractId") EXCEPT !.included = FALSE], Scalar("topic"), Scalar("value")>>
    \o <<Field("contracts", -1, {36}), Field("contracts", 0, {32}), Field("events", -1, {37}),    \* 30 to 32
         Field("contracts", 9, {36})>>                                                            \* 33
    \o <<[Scalar("__typename") EXCEPT !.key = "kind"], Scalar("__typename"),                      \* 34, 35
         Scalar("contractId"), Scalar("total")>>                                                  \* 36, 37
InDocument(outermost) ==
    LET two(s) == s \cup Inside(s) IN two(two(two(outermost)))
SomeDocuments ==
    {InDocument(d) : d \in {{i, 13} : i \in 15..18} \cup {{i} : i \in 1..6}
                          \cup {{7, 8}, {8, 9}, {19}, {20}, {12, 19}}
                          \cup {{13, 30}, {19, 31}, {33}, {4, 34, 35}}}

VARIABLE which

Runs(machine) == which = machine
nodeVars   == <<failoverVars, rpcVars>>
storeVars  == <<vars, pgVars>>
frontVars  == <<apiVars, limiterVars, cacheVars, streamVars>>
toolVars   == <<cliVars, cmdVars, nodeVars>>
readerVars == <<readersVars, gqlVars, explorerVars>>

MCInit ==
    /\ which \in {"sqlite", "postgres", "api", "cli", "limiter", "caches", "command", "stream",
                  "failover", "rpc", "readers", "graphql", "explorer"}
    \* Of the machines that do not run, one initial state will do.
    /\ doc \in IF Runs("graphql") THEN Documents ELSE {InDocument({19})}
    /\ indexed \in IF Runs("explorer") THEN 0..1 ELSE {0}
    /\ line \in {l \in Line : Runs("command") \/ (l.command = "help" /\ l.complete)}
    /\ Init /\ PgInit /\ ApiInit /\ CliInit /\ LimiterInit /\ CacheInit /\ CmdInit
    /\ StreamInit /\ FailoverInit /\ RpcInit /\ ReadersInit /\ GqlInit /\ ExplorerInit
    /\ ~Runs("readers") => table = EventIds
    /\ fts5 \in IF Runs("sqlite") THEN {Procs, Upgraded} ELSE {{}}   \* bound: two of the four cases
Store ==
    \/ Runs("sqlite") /\ Next /\ UNCHANGED pgVars
    \/ Runs("postgres") /\ PgNext /\ UNCHANGED vars
Front ==
    \/ Runs("api") /\ ApiNext /\ UNCHANGED <<limiterVars, cacheVars, streamVars>>
    \/ Runs("limiter") /\ LimiterNext /\ UNCHANGED <<apiVars, cacheVars, streamVars>>
    \/ Runs("caches") /\ CacheNext /\ UNCHANGED <<apiVars, limiterVars, streamVars>>
    \/ Runs("stream") /\ StreamNext /\ UNCHANGED <<apiVars, limiterVars, cacheVars>>
Tool ==
    \/ Runs("cli") /\ CliNext /\ UNCHANGED <<cmdVars, nodeVars>>
    \/ Runs("command") /\ CmdNext /\ UNCHANGED <<cliVars, nodeVars>>
    \/ Runs("failover") /\ FailoverNext /\ UNCHANGED <<cliVars, cmdVars, rpcVars>>
    \/ Runs("rpc") /\ RpcNext /\ UNCHANGED <<cliVars, cmdVars, failoverVars>>
Reader ==
    \/ Runs("readers") /\ ReadersNext /\ UNCHANGED <<gqlVars, explorerVars>>
    \/ Runs("graphql") /\ GqlNext /\ UNCHANGED <<readersVars, explorerVars>>
    \/ Runs("explorer") /\ ExplorerNext /\ UNCHANGED <<readersVars, gqlVars>>
MCNext ==
    /\ UNCHANGED which
    /\ \/ Store /\ UNCHANGED <<frontVars, toolVars, readerVars>>
       \/ Front /\ UNCHANGED <<storeVars, toolVars, readerVars>>
       \/ Tool /\ UNCHANGED <<storeVars, frontVars, readerVars>>
       \/ Reader /\ UNCHANGED <<storeVars, frontVars, toolVars>>
MCSpec == MCInit /\ [][MCNext]_<<which, storeVars, frontVars, toolVars, readerVars>>
=============================================================================
