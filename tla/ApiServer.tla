----------------------------- MODULE ApiServer -----------------------------
(***************************************************************************)
(* The HTTP server of packages/api/src/server.ts: handle(), an await at a  *)
(* time, on several connections; entity tags and the client's cache; and   *)
(* the shutdown of api/src/bin.ts, against requests in flight, open event  *)
(* streams, clients that hang up and kept-alive connections.               *)
(*                                                                         *)
(* Events are indexed in the order of their ids: what a list shows is its  *)
(* newest event.  (The API README says what pruning and re-decoding do to  *)
(* tags.)                                                                  *)
(***************************************************************************)
EXTENDS Naturals, FiniteSets

CONSTANTS Conns,        \* connections, one client each
          MaxEvent      \* bound: events indexed

VARIABLES newest,       \* getLatestEventId()
          server,       \* listening, draining, closed, exiting, exited
          storeOpen,
          conn,         \* the connections
          cache         \* per client: the list it has, and its tag
apiVars == <<newest, server, storeOpen, conn, cache>>

\* What handle() asks of a route: who may call it, and when.
Routes == [list   |-> [public |-> FALSE, exempt |-> FALSE, etag |-> TRUE],
           csv    |-> [public |-> FALSE, exempt |-> FALSE, etag |-> TRUE],
           stream |-> [public |-> FALSE, exempt |-> FALSE, etag |-> FALSE],
           post   |-> [public |-> FALSE, exempt |-> FALSE, etag |-> FALSE],
           health |-> [public |-> TRUE,  exempt |-> TRUE,  etag |-> FALSE]]

NoTag == MaxEvent + 1
NoList == [tag |-> NoTag, page |-> 0]
Fresh == [state |-> "none",     \* none, idle, busy: what the client sees of it
          at |-> "rest",        \* where handle() is, whether or not the client is there
          route |-> "health", status |-> 0, list |-> NoList, close |-> FALSE]

ApiInit ==
    /\ newest = 0 /\ server = "listening" /\ storeOpen = TRUE
    /\ conn = [c \in Conns |-> Fresh] /\ cache = [c \in Conns |-> NoList]

Error == 500     \* any answer of 400 and above
ApiAt(c, at) == conn[c].at = at
ApiGo(c, at) == conn' = [conn EXCEPT ![c].at = at]
Answer(c, status) == conn' = [conn EXCEPT ![c].at = "reply", ![c].status = status]
Draining == server = "draining"
World == <<newest, server, storeOpen, cache>>

\* 404, 405, 401 and 429; a public route needs no key and takes no token.
Refusable(route) == ~Routes[route].public

\* A new connection while the server listens; a kept one as long as it is open.
\* What is refused is answered at once and needs no store.
Request(c, route) ==
    /\ ApiAt(c, "rest")
    /\ conn[c].state = "idle" \/ (conn[c].state = "none" /\ server = "listening")
    /\ \E refused \in {FALSE, Refusable(route)} :
          conn' = [conn EXCEPT ![c] =
              [state |-> "busy", route |-> route, list |-> NoList, close |-> Draining,
               at |-> IF refused THEN "reply"
                      ELSE IF Routes[route].exempt THEN "handler" ELSE "schema",
               status |-> IF refused THEN Error ELSE 0]]
    /\ UNCHANGED World

\* The connection stays open unless the server was draining when the request came.
Rest(c) == [conn[c] EXCEPT !.at = "rest", !.list = NoList, !.status = 0, !.route = "health",
                           !.state = IF @ = "busy" /\ ~conn[c].close THEN "idle" ELSE "none"]

\* The catch of handle(), where every call of a closed store ends too: an error answer,
\* or, once a body has begun, a response that is destroyed.
Throws(c) == IF ApiAt(c, "download") THEN conn' = [conn EXCEPT ![c] = [Rest(c) EXCEPT !.state = "none"]]
             ELSE Answer(c, Error)

\* 503 while a migration is pending.
CheckSchema(c) ==
    /\ ApiAt(c, "schema")
    /\ \/ Throws(c)
       \/ storeOpen /\ ApiGo(c, IF Routes[conn[c].route].etag THEN "tag" ELSE "handler")
    /\ UNCHANGED World

\* The tag: the newest id (with the path, the filter and the representation, which a
\* client does not change here), or none for an empty store.
EntityTag == newest
\* If-None-Match; a client sends the tag of the list it has, and keeps no download.
Matches(c, etag) == conn[c].route = "list" /\ cache[c].tag = etag

\* 304 without the query, or on to the handler with the tag.
ReadTag(c) ==
    /\ ApiAt(c, "tag")
    /\ IF ~storeOpen THEN Throws(c)
       ELSE conn' = [conn EXCEPT ![c].list.tag = EntityTag,
                                 ![c].at = IF Matches(c, EntityTag) THEN "reply" ELSE "handler",
                                 ![c].status = IF Matches(c, EntityTag) THEN 304 ELSE @]
    /\ UNCHANGED World

\* The handlers that answer what the store says: a page of events, statistics, health.
ReadStore(c) ==
    /\ conn[c].route \in {"list", "health"}
    /\ IF ~storeOpen THEN Throws(c)
       ELSE LET page == IF conn[c].route = "list" THEN newest ELSE 0 IN
            conn' = [conn EXCEPT ![c] = [conn[c] EXCEPT !.at = "reply", !.status = 200,
                                             !.list = [tag |-> conn[c].list.tag, page |-> page]]]

\* GraphQL or webhooks are off, or webhooks want another token: nothing is read.
Disabled(c) == conn[c].route = "post" /\ Throws(c)

\* Those that go on: a download that runs until its last page; a stream that waits for
\* the newest id; a body, which may be refused or never end.
GoOn(c) ==
    \/ conn[c].route = "csv" /\ ApiGo(c, "download")
    \/ conn[c].route = "stream" /\ ApiGo(c, "subscribe")
    \/ conn[c].route = "post" /\ ApiGo(c, "body")

RunHandler(c) == ApiAt(c, "handler") /\ (ReadStore(c) \/ Disabled(c) \/ GoOn(c)) /\ UNCHANGED World

ReadBody(c) ==
    /\ ApiAt(c, "body") /\ conn[c].state = "busy"
    /\ Throws(c) \/ (storeOpen /\ Answer(c, 200))
    /\ UNCHANGED World

\* subscribe() adds the stream when the store has answered, whatever happened since.
Subscribe(c) ==
    /\ ApiAt(c, "subscribe")
    /\ IF storeOpen THEN ApiGo(c, "stream") ELSE Throws(c)
    /\ UNCHANGED World

\* The last page of a download; a failure on the way destroys the response.
Download(c) ==
    /\ ApiAt(c, "download")
    /\ IF storeOpen THEN conn' = [conn EXCEPT ![c] = Rest(c)] ELSE Throws(c)
    /\ UNCHANGED World

\* Variant: send() computes the tag.
ReplyTaggedNow(c) ==
    /\ ApiAt(c, "reply")
    /\ conn' = [conn EXCEPT ![c] = Rest(c)]
    /\ cache' = IF conn[c].state = "busy" /\ conn[c].route = "list" /\ conn[c].status = 200
                THEN [cache EXCEPT ![c] = [conn[c].list EXCEPT !.tag = newest]] ELSE cache
    /\ UNCHANGED <<newest, server, storeOpen>>

\* send(): a client that is there caches a tagged list, or keeps its own.
Reply(c) ==
    /\ ApiAt(c, "reply")
    /\ conn' = [conn EXCEPT ![c] = Rest(c)]
    /\ cache' = IF conn[c].state = "busy" /\ conn[c].route = "list" /\ conn[c].status = 200
                THEN [cache EXCEPT ![c] = conn[c].list] ELSE cache
    /\ UNCHANGED <<newest, server, storeOpen>>

\* The client hangs up; handle() goes on, a stream or a body it was reading ends.
HangUp(c) ==
    /\ conn[c].state # "none"
    /\ conn' = [conn EXCEPT ![c].state = "none",
                            ![c].at = IF @ \in {"stream", "body"} THEN "rest" ELSE @]
    /\ UNCHANGED World
\* keepAliveTimeout
IdleTimeout(c) == conn[c].state = "idle" /\ HangUp(c)

\* SIGTERM: closeAll() ends the streams that are open, close() stops listening and
\* closeIdleConnections() drops the idle connections.
Shutdown ==
    /\ server = "listening" /\ server' = "draining"
    /\ conn' = [c \in Conns |-> IF ApiAt(c, "stream") THEN Rest(c)
                                ELSE IF conn[c].state = "idle" THEN [conn[c] EXCEPT !.state = "none"]
                                ELSE conn[c]]
    /\ UNCHANGED <<newest, storeOpen, cache>>

\* Variant: it spares the connections that serve a request.
DeadlineForIdle ==
    /\ Draining /\ \E c \in Conns : conn[c].state = "idle"
    /\ conn' = [c \in Conns |-> IF conn[c].state = "idle" THEN [conn[c] EXCEPT !.state = "none"]
                                ELSE conn[c]]
    /\ UNCHANGED <<newest, server, storeOpen, cache>>

\* The timer: connections that are left are destroyed.
Deadline ==
    /\ Draining /\ \E c \in Conns : conn[c].state # "none"
    /\ conn' = [c \in Conns |-> [conn[c] EXCEPT !.state = "none",
                                     !.at = IF @ \in {"stream", "body"} THEN "rest" ELSE @]]
    /\ UNCHANGED <<newest, server, storeOpen, cache>>

\* Variant: closing does not wait for the connections.
CloseAtOnce ==
    /\ Draining /\ server' = "closed"
    /\ UNCHANGED <<newest, storeOpen, conn, cache>>

\* The close event, once no connection is left; it stops the webhooks.
CloseServer ==
    /\ Draining /\ \A c \in Conns : conn[c].state = "none"
    /\ server' = "closed"
    /\ UNCHANGED <<newest, storeOpen, conn, cache>>

CloseStore == /\ server = "closed" /\ storeOpen' = FALSE /\ server' = "exiting"
              /\ UNCHANGED <<newest, conn, cache>>

\* The process exits, whatever still runs.
ApiExit == /\ server = "exiting" /\ server' = "exited"
        /\ conn' = [c \in Conns |-> Fresh]
        /\ UNCHANGED <<newest, storeOpen, cache>>

Insert == newest < MaxEvent /\ newest' = newest + 1
          /\ UNCHANGED <<server, storeOpen, conn, cache>>

Handle(c) == \/ CheckSchema(c) \/ ReadTag(c) \/ RunHandler(c) \/ ReadBody(c) \/ Subscribe(c)
             \/ Download(c) \/ Reply(c) \/ IdleTimeout(c)
ApiNext == \/ \E c \in Conns : Handle(c) \/ HangUp(c) \/ \E route \in DOMAIN Routes : Request(c, route)
        \/ Insert
        \/ Shutdown \/ Deadline \/ CloseServer \/ CloseStore \/ ApiExit

\* The shutdown goes on by itself, its timer included; nothing is asked of a client
\* or a request.
ApiSpec == ApiInit /\ [][ApiNext]_apiVars /\ WF_apiVars(Deadline) /\ WF_apiVars(CloseServer) /\ WF_apiVars(CloseStore)

-----------------------------------------------------------------------------
\* server.ts: "a poll that finds nothing new is answered from the validator alone".
\* A client that is told so has every event there was when its tag was compared,
\* though the tag and the page are read in two steps (730-753, 888-909).
NotModifiedIsCurrent ==
    \A c \in Conns : ApiAt(c, "reply") /\ conn[c].status = 304 => cache[c].page >= conn[c].list.tag

\* bin.ts: "a request being served never has the database closed out from under it".
\* No client that is still there meets a closed store (server.ts 681-711).
StoreOutlivesRequests == ~storeOpen => \A c \in Conns : conn[c].state # "busy"

\* Shutdown "cannot hang forever": not on a download, a body that never ends, a kept
\* connection that goes on asking, nor a stream that was being opened when closeAll()
\* ran (server.ts 681-711, stream.ts 80-117).
ShutdownEnds == Draining ~> ~storeOpen
=============================================================================
