----------------------------- MODULE ApiProofs -----------------------------
(***************************************************************************)
(* Proofs about the API server.  ApiServer, for every number of            *)
(* connections and of events: no client that is still there meets a closed *)
(* store, and a client that is answered 304 has what the tag stands for.   *)
(* RateLimit, for every capacity, rate and set of clients: dropping a      *)
(* bucket that is full again changes no answer.  Caches, for every TTL and *)
(* set of requests: what is remembered is recent enough to be told.        *)
(* Readers, for every table, filter and limit: pages turn without gaps,    *)
(* and an export lists what was there all along.  GraphQL, for every       *)
(* document without a limit below 0: its cost bounds the work it makes.    *)
(***************************************************************************)
EXTENDS ApiServer, RateLimit, Caches, Readers, GraphQL, PageProofs

-----------------------------------------------------------------------------
(* The inductive invariant. *)

Points == {"rest", "reply", "handler", "schema", "tag", "download", "subscribe", "body", "stream"}
Lists == [tag : Nat, page : Nat]
Connection == [state : {"none", "idle", "busy"}, at : Points,
               route : {"list", "csv", "stream", "post", "health"},
               status : Nat, list : Lists, close : BOOLEAN]

Typed ==
    /\ newest \in 0..MaxEvent /\ storeOpen \in BOOLEAN
    /\ server \in {"listening", "draining", "closed", "exiting", "exited"}
    /\ conn \in [Conns -> Connection] /\ cache \in [Conns -> Lists]

\* The database is closed after the server, and the server after its connections.
Served == server \in {"listening", "draining"}
ShutdownInOrder ==
    /\ ~storeOpen => ~Served
    /\ ~Served => \A c \in Conns : conn[c].state = "none"

\* A tag on its way to a client is no newer than the page that goes with it will be;
\* what a client has cached shows all its tag stands for.
TagInOrder(c) ==
    /\ ApiAt(c, "body") => conn[c].route = "post"
    /\ ApiAt(c, "handler") /\ conn[c].route = "list" => conn[c].list.tag <= newest
    /\ ApiAt(c, "reply") /\ conn[c].route = "list" /\ conn[c].status = 200 =>
          conn[c].list.tag <= conn[c].list.page
    /\ ApiAt(c, "reply") /\ conn[c].status = 304 => conn[c].list.tag <= cache[c].page
    /\ cache[c].tag # NoTag => cache[c].tag <= cache[c].page

ApiInv == Typed /\ ShutdownInOrder /\ \A c \in Conns : TagInOrder(c)

-----------------------------------------------------------------------------

LEMMA InitApi == ASSUME MaxEvent \in Nat, ApiInit PROVE ApiInv
<1>1. Fresh \in Connection
  BY DEF Fresh, Connection, Points, Lists, NoList, NoTag
<1>2. Typed
  BY <1>1 DEF ApiInit, Typed, Lists, NoList, NoTag
<1>3. ASSUME NEW c \in Conns PROVE TagInOrder(c)
  BY DEF ApiInit, Fresh, TagInOrder, ApiAt, NoList, NoTag
<1>4. QED
  BY <1>2, <1>3 DEF ApiInit, ApiInv, ShutdownInOrder, Served

\* A step of one connection; its client may not come back once the server is closed.
LEMMA ConnectionMoves ==
    ASSUME ApiInv, NEW c \in Conns, UNCHANGED <<newest, server, storeOpen>>,
           NEW r \in Connection, conn' = [conn EXCEPT ![c] = r],
           r.state = "none" \/ conn[c].state # "none" \/ server = "listening",
           cache' \in [Conns -> Lists], \A d \in Conns : d # c => cache'[d] = cache[d],
           TagInOrder(c)'
    PROVE  ApiInv'
<1>1. conn' \in [Conns -> Connection] /\ conn'[c] = r /\ \A d \in Conns : d # c => conn'[d] = conn[d]
  BY DEF ApiInv, Typed
<1>2. Typed'
  BY <1>1 DEF ApiInv, Typed
<1>3. ASSUME NEW d \in Conns, d # c PROVE TagInOrder(d)'
  BY <1>1, <1>3 DEF ApiInv, TagInOrder, ApiAt
<1>4. ShutdownInOrder'
  <2>1. Served' = Served
    BY DEF Served
  <2>2. ~Served => r.state = "none"
    BY DEF ApiInv, ShutdownInOrder, Served
  <2>3. QED
    BY <1>1, <2>1, <2>2 DEF ApiInv, ShutdownInOrder
<1>5. QED
  BY <1>2, <1>3, <1>4 DEF ApiInv

LEMMA RequestApi ==
    ASSUME MaxEvent \in Nat, ApiInv, NEW c \in Conns, NEW route \in DOMAIN Routes, Request(c, route)
    PROVE  ApiInv'
<1>1. PICK refused \in {FALSE, Refusable(route)} :
          conn' = [conn EXCEPT ![c] =
              [state |-> "busy", route |-> route, list |-> NoList, close |-> Draining,
               at |-> IF refused THEN "reply"
                      ELSE IF Routes[route].exempt THEN "handler" ELSE "schema",
               status |-> IF refused THEN Error ELSE 0]]
  BY DEF Request
<1> DEFINE point == IF refused THEN "reply" ELSE IF Routes[route].exempt THEN "handler" ELSE "schema"
           status == IF refused THEN Error ELSE 0
           r == [state |-> "busy", route |-> route, list |-> NoList, close |-> Draining,
                 at |-> point, status |-> status]
<1>2. conn' = [conn EXCEPT ![c] = r]
  BY <1>1
<1>3. /\ route \in {"list", "csv", "stream", "post", "health"}
      /\ point \in {"reply", "handler", "schema"} /\ (point = "handler" => route = "health")
  BY DEF Routes
<1>4. status \in Nat /\ status \in {0, 500}
  BY DEF Error
<1> HIDE DEF point, status
<1>5. /\ point \in Points /\ NoList \in Lists /\ Draining \in BOOLEAN
  BY <1>3 DEF Points, NoList, NoTag, Lists, Draining
<1>6. /\ r \in Connection
      /\ r.state = "busy" /\ r.at = point /\ r.route = route /\ r.status \in {0, 500}
  BY <1>3, <1>4, <1>5 DEF Connection
<1> HIDE DEF r
<1>7. conn'[c] = r
  BY <1>2 DEF ApiInv, Typed
<1>8. UNCHANGED <<newest, server, storeOpen, cache>> /\ (conn[c].state # "none" \/ server = "listening")
  BY DEF Request, World
<1>9. TagInOrder(c)'
  BY <1>3, <1>6, <1>7, <1>8 DEF ApiInv, TagInOrder, ApiAt
<1>10. cache' \in [Conns -> Lists] /\ \A d \in Conns : d # c => cache'[d] = cache[d]
  BY <1>8 DEF ApiInv, Typed
<1>11. QED
  <2>1. r.state = "none" \/ conn[c].state # "none" \/ server = "listening"
    BY <1>8
  <2>2. UNCHANGED <<newest, server, storeOpen>>
    BY <1>8
  <2>3. QED
    BY <1>2, <1>6, <1>9, <1>10, <2>1, <2>2, ConnectionMoves

-----------------------------------------------------------------------------
(* Steps of handle(). *)

LEMMA RestOf ==
    ASSUME MaxEvent \in Nat, ApiInv, NEW c \in Conns
    PROVE  /\ Rest(c) \in Connection /\ Rest(c).at = "rest"
           /\ conn[c].state = "none" => Rest(c).state = "none"
           /\ [Rest(c) EXCEPT !.state = "none"] \in Connection
           /\ [Rest(c) EXCEPT !.state = "none"].at = "rest"
           /\ [Rest(c) EXCEPT !.state = "none"].state = "none"
<1> DEFINE state == IF conn[c].state = "busy" /\ ~conn[c].close THEN "idle" ELSE "none"
<1>1. Rest(c) = [conn[c] EXCEPT !.at = "rest", !.list = NoList, !.status = 0, !.route = "health",
                                !.state = state]
  BY DEF Rest
<1>2. state \in {"none", "idle", "busy"} /\ (conn[c].state = "none" => state = "none")
  OBVIOUS
<1> HIDE DEF state
<1>3. NoList \in Lists /\ conn[c] \in Connection
  BY DEF ApiInv, Typed, Lists, NoList, NoTag
<1>4. Rest(c) \in Connection /\ Rest(c).at = "rest" /\ Rest(c).state = state
  <2>1. ASSUME NEW k \in Connection
        PROVE  [k EXCEPT !.at = "rest", !.list = NoList, !.status = 0, !.route = "health",
                         !.state = state] \in Connection
    BY <1>2, <1>3 DEF Connection, Points
  <2>2. Rest(c).at = "rest" /\ Rest(c).state = state
    BY <1>1, <1>3 DEF Connection
  <2>3. QED
    BY <1>1, <1>3, <2>1, <2>2
<1>5. QED
  BY <1>2, <1>4 DEF Connection, Points

\* It goes on without an answer.
LEMMA GoOnApi ==
    ASSUME ApiInv, NEW c \in Conns, NEW point \in Points, ApiGo(c, point), UNCHANGED World,
           point \notin {"reply", "body"} \/ (point = "body" /\ conn[c].route = "post"),
           point # "handler" \/ conn[c].route # "list"
    PROVE  ApiInv'
<1> DEFINE r == [conn[c] EXCEPT !.at = point]
<1>1. conn[c] \in Connection /\ conn' = [conn EXCEPT ![c] = r]
  BY DEF ApiInv, Typed, ApiGo
<1>2. r \in Connection /\ r.at = point /\ r.state = conn[c].state /\ r.route = conn[c].route
  BY <1>1 DEF Connection
<1> HIDE DEF r
<1>3. conn'[c] = r
  BY <1>1 DEF ApiInv, Typed
<1>4. TagInOrder(c)'
  BY <1>2, <1>3 DEF ApiInv, TagInOrder, ApiAt, World
<1>5. QED
  BY <1>1, <1>2, <1>4, ConnectionMoves DEF ApiInv, Typed, World

LEMMA AnswerApi ==
    ASSUME ApiInv, NEW c \in Conns, NEW s \in Nat, Answer(c, s), UNCHANGED World,
           s # 304, s = 200 => conn[c].route # "list"
    PROVE  ApiInv'
<1> DEFINE r == [conn[c] EXCEPT !.at = "reply", !.status = s]
<1>0. conn \in [Conns -> Connection] /\ conn[c] \in Connection
  BY DEF ApiInv, Typed
<1>1. conn' = [conn EXCEPT ![c] = r]
  BY <1>0 DEF Answer
<1>2. /\ r \in Connection /\ r.at = "reply" /\ r.status = s
      /\ r.state = conn[c].state /\ r.route = conn[c].route
  BY <1>0 DEF Connection, Points
<1> HIDE DEF r
<1>3. conn'[c] = r
  BY <1>1 DEF ApiInv, Typed
<1>4. TagInOrder(c)'
  BY <1>2, <1>3 DEF ApiInv, TagInOrder, ApiAt, World
<1>5. QED
  BY <1>1, <1>2, <1>4, ConnectionMoves DEF ApiInv, Typed, World

LEMMA RestApi ==
    ASSUME ApiInv, NEW c \in Conns, NEW r \in Connection, conn' = [conn EXCEPT ![c] = r], r.at = "rest",
           r.state = "none" \/ conn[c].state # "none", UNCHANGED World
    PROVE  ApiInv'
<1>1. conn'[c] = r
  BY DEF ApiInv, Typed
<1>2. TagInOrder(c)'
  BY <1>1 DEF ApiInv, TagInOrder, ApiAt, World
<1>3. QED
  BY <1>2, ConnectionMoves DEF ApiInv, Typed, World

LEMMA ThrowsApi == ASSUME MaxEvent \in Nat, ApiInv, NEW c \in Conns, Throws(c), UNCHANGED World PROVE ApiInv'
<1>1. CASE ApiAt(c, "download")
  <2> DEFINE r == [Rest(c) EXCEPT !.state = "none"]
  <2>1. conn' = [conn EXCEPT ![c] = r]
    BY <1>1 DEF Throws
  <2>2. r \in Connection /\ r.at = "rest" /\ r.state = "none"
    BY RestOf
  <2> HIDE DEF r
  <2>3. QED
    BY <2>1, <2>2, RestApi
<1>2. CASE Answer(c, Error)
  BY <1>2, AnswerApi DEF Error
<1>3. QED
  BY <1>1, <1>2 DEF Throws

LEMMA HandlerSteps ==
    ASSUME MaxEvent \in Nat, ApiInv, NEW c \in Conns,
           CheckSchema(c) \/ ReadBody(c) \/ Subscribe(c) \/ Download(c)
    PROVE  ApiInv'
<1>1. CASE CheckSchema(c)
  <2>1. CASE Throws(c)
    BY <1>1, <2>1, ThrowsApi DEF CheckSchema
  <2>2. CASE ApiGo(c, IF Routes[conn[c].route].etag THEN "tag" ELSE "handler")
    <3>1. conn[c].route = "list" => Routes[conn[c].route].etag
      BY DEF Routes
    <3>2. CASE ApiGo(c, "tag")
      BY <1>1, <3>2, GoOnApi DEF CheckSchema, Points
    <3>3. CASE ApiGo(c, "handler") /\ conn[c].route # "list"
      BY <1>1, <3>3, GoOnApi DEF CheckSchema, Points
    <3>4. QED
      BY <2>2, <3>1, <3>2, <3>3
  <2>3. QED
    BY <1>1, <2>1, <2>2 DEF CheckSchema
<1>2. CASE ReadBody(c)
  <2>1. CASE Throws(c)
    BY <1>2, <2>1, ThrowsApi DEF ReadBody
  <2>2. CASE Answer(c, 200)
    <3>1. conn[c].route = "post"
      BY <1>2 DEF ApiInv, TagInOrder, ReadBody
    <3>2. QED
      BY <1>2, <2>2, <3>1, AnswerApi DEF ReadBody
  <2>3. QED
    BY <1>2, <2>1, <2>2 DEF ReadBody
<1>3. CASE Subscribe(c)
  BY <1>3, GoOnApi, ThrowsApi DEF Subscribe, Points
<1>4. CASE Download(c)
  <2>1. CASE conn' = [conn EXCEPT ![c] = Rest(c)]
    BY <1>4, <2>1, RestOf, RestApi DEF Download
  <2>2. QED
    BY <1>4, <2>1, ThrowsApi DEF Download
<1>5. QED
  BY <1>1, <1>2, <1>3, <1>4

LEMMA ReadTagApi == ASSUME MaxEvent \in Nat, ApiInv, NEW c \in Conns, ReadTag(c) PROVE ApiInv'
<1>1. CASE ~storeOpen
  BY <1>1, ThrowsApi DEF ReadTag
<1>2. CASE storeOpen
  <2> DEFINE matches == Matches(c, newest)
             point == IF matches THEN "reply" ELSE "handler"
             status == IF matches THEN 304 ELSE conn[c].status
             r == [conn[c] EXCEPT !.list.tag = newest, !.at = point, !.status = status]
  <2>1. conn[c] \in Connection /\ conn[c].list \in Lists /\ newest \in Nat /\ newest # NoTag
        /\ cache[c] \in Lists
    BY DEF ApiInv, Typed, Connection, NoTag
  <2>2. conn' = [conn EXCEPT ![c] = r]
    BY <1>2 DEF ReadTag, EntityTag
  <2>3. /\ matches => point = "reply" /\ status = 304 /\ cache[c].tag = newest
        /\ ~matches => point = "handler"
        /\ point \in {"reply", "handler"}
    BY DEF Matches
  <2>4. status \in Nat
    BY <2>1 DEF Connection
  <2> HIDE DEF matches, point, status
  <2>5. /\ r \in Connection /\ r.at = point /\ r.status = status /\ r.list.tag = newest
        /\ r.state = conn[c].state
    BY <2>1, <2>3, <2>4 DEF Connection, Points, Lists
  <2> HIDE DEF r
  <2>6. conn'[c] = r /\ UNCHANGED <<newest, server, storeOpen, cache>>
    BY <2>2 DEF ApiInv, Typed, ReadTag, World
  <2>7. matches => newest <= cache[c].page
    BY <2>1, <2>3 DEF ApiInv, TagInOrder
  <2>8. TagInOrder(c)'
    BY <2>1, <2>3, <2>5, <2>6, <2>7 DEF ApiInv, TagInOrder, ApiAt
  <2>9. QED
    BY <2>2, <2>5, <2>6, <2>8, ConnectionMoves DEF ApiInv, Typed
<1>3. QED
  BY <1>1, <1>2 DEF ApiInv, Typed

LEMMA ReadStoreApi ==
    ASSUME MaxEvent \in Nat, ApiInv, NEW c \in Conns, ApiAt(c, "handler"), ReadStore(c), UNCHANGED World
    PROVE  ApiInv'
<1>1. CASE ~storeOpen
  BY <1>1, ThrowsApi DEF ReadStore
<1>2. CASE storeOpen
  <2> DEFINE held == IF conn[c].route = "list" THEN newest ELSE 0
             list == [tag |-> conn[c].list.tag, page |-> held]
             r == [conn[c] EXCEPT !.at = "reply", !.status = 200, !.list = list]
  <2>1. conn[c] \in Connection /\ conn[c].list \in Lists /\ newest \in Nat
    BY DEF ApiInv, Typed, Connection
  <2>2. conn' = [conn EXCEPT ![c] = r]
    BY <1>2, Zenon DEF ReadStore
  <2>3. held \in Nat /\ (conn[c].route = "list" => held = newest)
    BY <2>1
  <2> HIDE DEF held
  <2>4. list \in Lists /\ list.tag = conn[c].list.tag /\ list.page = held
    BY <2>1, <2>3 DEF Lists
  <2> HIDE DEF list
  <2>5. /\ r \in Connection /\ r.at = "reply" /\ r.status = 200 /\ r.route = conn[c].route
        /\ r.list.tag = conn[c].list.tag /\ r.list.page = held /\ r.state = conn[c].state
    <3>1. "reply" \in Points /\ 200 \in Nat
      BY DEF Points
    <3>2. QED
      BY <2>1, <2>4, <3>1 DEF Connection
  <2> HIDE DEF r
  <2>6. conn'[c] = r /\ UNCHANGED <<newest, server, storeOpen, cache>>
    BY <2>2 DEF ApiInv, Typed, World
  <2>7. TagInOrder(c)'
    BY <2>3, <2>5, <2>6 DEF ApiInv, TagInOrder, ApiAt
  <2>8. r \in Connection /\ (r.state = "none" \/ conn[c].state # "none")
    BY <2>5
  <2>9. cache' \in [Conns -> Lists] /\ \A d \in Conns : d # c => cache'[d] = cache[d]
    BY <2>6 DEF ApiInv, Typed
  <2>10. QED
    BY <2>2, <2>6, <2>7, <2>8, <2>9, ConnectionMoves
<1>3. QED
  BY <1>1, <1>2 DEF ApiInv, Typed

LEMMA RunHandlerApi ==
    ASSUME MaxEvent \in Nat, ApiInv, NEW c \in Conns, RunHandler(c)
    PROVE  ApiInv'
<1>1. CASE ReadStore(c)
  BY <1>1, ReadStoreApi DEF RunHandler
<1>2. CASE Disabled(c)
  BY <1>2, ThrowsApi DEF RunHandler, Disabled
<1>3. CASE ApiGo(c, "download") \/ ApiGo(c, "subscribe")
  BY <1>3, GoOnApi DEF RunHandler, Points
<1>4. CASE conn[c].route = "post" /\ ApiGo(c, "body")
  BY <1>4, GoOnApi DEF RunHandler, Points
<1>5. QED
  BY <1>1, <1>2, <1>3, <1>4 DEF RunHandler, GoOn

\* send(): the client caches the page with the tag read before it.
LEMMA ReplyApi == ASSUME MaxEvent \in Nat, ApiInv, NEW c \in Conns, Reply(c) PROVE ApiInv'
<1>1. /\ conn' = [conn EXCEPT ![c] = Rest(c)] /\ UNCHANGED <<newest, server, storeOpen>>
      /\ \/ /\ conn[c].route = "list" /\ conn[c].status = 200
            /\ cache' = [cache EXCEPT ![c] = conn[c].list]
         \/ cache' = cache
  BY DEF Reply
<1>2. ApiAt(c, "reply") /\ TagInOrder(c)
  BY DEF Reply, ApiInv
<1>3. conn \in [Conns -> Connection] /\ cache \in [Conns -> Lists] /\ conn[c].list \in Lists
  BY DEF ApiInv, Typed, Connection
<1>4. Rest(c) \in Connection /\ Rest(c).at = "rest" /\ (conn[c].state = "none" => Rest(c).state = "none")
  BY RestOf
<1>5. cache' \in [Conns -> Lists] /\ \A d \in Conns : d # c => cache'[d] = cache[d]
  BY <1>1, <1>3
<1>6. cache'[c].tag # NoTag => cache'[c].tag <= cache'[c].page
  <2>1. CASE conn[c].route = "list" /\ conn[c].status = 200 /\ cache' = [cache EXCEPT ![c] = conn[c].list]
    BY <1>2, <1>3, <2>1 DEF TagInOrder
  <2>2. CASE cache' = cache
    BY <1>2, <2>2 DEF TagInOrder
  <2>3. QED
    BY <1>1, <2>1, <2>2
<1>7. conn'[c] = Rest(c) /\ NoTag' = NoTag
  BY <1>1, <1>3 DEF NoTag
<1>8. TagInOrder(c)'
  BY <1>4, <1>6, <1>7 DEF TagInOrder, ApiAt
<1>9. QED
  BY <1>1, <1>4, <1>5, <1>8, ConnectionMoves

\* The connection is gone, and with it a stream or a body.
Severed(k, l) ==
    /\ l \in Connection /\ l.state = "none" /\ l.route = k.route /\ l.status = k.status /\ l.list = k.list
    /\ l.at = k.at \/ l.at = "rest"

LEMMA SeveredIsInOrder ==
    ASSUME ApiInv, NEW c \in Conns, UNCHANGED <<newest, cache>>, Severed(conn[c], conn'[c])
    PROVE  TagInOrder(c)'
  BY DEF ApiInv, TagInOrder, ApiAt, Severed, NoTag

LEMMA HangUpApi == ASSUME ApiInv, NEW c \in Conns, HangUp(c) PROVE ApiInv'
<1> DEFINE point == IF conn[c].at \in {"stream", "body"} THEN "rest" ELSE conn[c].at
           r == [conn[c] EXCEPT !.state = "none", !.at = point]
<1>1. conn \in [Conns -> Connection] /\ conn[c] \in Connection
  BY DEF ApiInv, Typed
<1>2. conn' = [conn EXCEPT ![c] = r] /\ UNCHANGED <<newest, server, storeOpen, cache>>
  BY DEF HangUp, World
<1>3. point \in Points /\ (point = conn[c].at \/ point = "rest")
  BY <1>1 DEF Connection, Points
<1> HIDE DEF point
<1>4. Severed(conn[c], r)
  BY <1>1, <1>3 DEF Connection, Severed
<1> HIDE DEF r
<1>5. conn'[c] = r
  BY <1>1, <1>2
<1>6. TagInOrder(c)'
  BY <1>2, <1>4, <1>5, SeveredIsInOrder
<1>7. r \in Connection /\ r.state = "none"
  BY <1>4 DEF Severed
<1>8. cache' \in [Conns -> Lists] /\ \A d \in Conns : d # c => cache'[d] = cache[d]
  BY <1>2 DEF ApiInv, Typed
<1>9. QED
  BY <1>2, <1>6, <1>7, <1>8, ConnectionMoves

-----------------------------------------------------------------------------
(* Steps of the indexer and of the shutdown. *)

LEMMA InsertApi == ASSUME MaxEvent \in Nat, ApiInv, Insert PROVE ApiInv'
<1>1. newest < MaxEvent /\ newest' = newest + 1 /\ UNCHANGED <<server, storeOpen, conn, cache>>
  BY DEF Insert
<1>2. newest \in Nat /\ newest' \in 0..MaxEvent
  BY <1>1 DEF ApiInv, Typed
<1>3. Typed'
  BY <1>1, <1>2 DEF ApiInv, Typed
<1>4. ASSUME NEW c \in Conns PROVE TagInOrder(c)'
  <2>1. conn[c].list.tag \in Nat
    BY DEF ApiInv, Typed, Connection, Lists
  <2>2. conn[c].list.tag <= newest => conn[c].list.tag <= newest'
    BY <1>1, <1>2, <2>1
  <2>3. QED
    BY <1>1, <2>2 DEF ApiInv, TagInOrder, ApiAt, NoTag
<1>5. QED
  BY <1>1, <1>3, <1>4 DEF ApiInv, ShutdownInOrder, Served

\* Every connection at once: it is left as it is, or severed.
LEMMA AllMove ==
    ASSUME ApiInv, UNCHANGED <<newest, storeOpen, cache>>, conn' \in [Conns -> Connection],
           server' \in {"listening", "draining"}, Served,
           \A c \in Conns : conn'[c] = conn[c] \/ Severed(conn[c], conn'[c]) \/ conn'[c].at = "rest"
    PROVE  ApiInv'
<1>1. Typed'
  BY DEF ApiInv, Typed
<1>2. ASSUME NEW c \in Conns PROVE TagInOrder(c)'
  <2>1. CASE conn'[c] = conn[c] \/ conn'[c].at = "rest"
    BY <2>1 DEF ApiInv, TagInOrder, ApiAt, NoTag
  <2>2. QED
    BY <2>1, SeveredIsInOrder
<1>3. ShutdownInOrder'
  BY DEF ApiInv, ShutdownInOrder, Served
<1>4. QED
  BY <1>1, <1>2, <1>3 DEF ApiInv

LEMMA ShutdownApi == ASSUME MaxEvent \in Nat, ApiInv, Shutdown PROVE ApiInv'
<1>1. /\ server = "listening" /\ server' = "draining" /\ UNCHANGED <<newest, storeOpen, cache>>
      /\ conn' = [c \in Conns |-> IF ApiAt(c, "stream") THEN Rest(c)
                                  ELSE IF conn[c].state = "idle" THEN [conn[c] EXCEPT !.state = "none"]
                                  ELSE conn[c]]
  BY DEF Shutdown
<1>2. ASSUME NEW c \in Conns
      PROVE  /\ conn'[c] \in Connection
             /\ conn'[c] = conn[c] \/ Severed(conn[c], conn'[c]) \/ conn'[c].at = "rest"
  <2>1. conn[c] \in Connection
    BY DEF ApiInv, Typed
  <2>2. CASE conn'[c] = Rest(c)
    BY <2>2, RestOf
  <2>3. CASE conn'[c] = [conn[c] EXCEPT !.state = "none"]
    BY <2>1, <2>3 DEF Severed, Connection
  <2>4. QED
    BY <1>1, <2>1, <2>2, <2>3
<1>3. conn' \in [Conns -> Connection]
  BY <1>1, <1>2
<1>4. QED
  BY <1>1, <1>2, <1>3, AllMove DEF Served

LEMMA DeadlineApi == ASSUME ApiInv, Deadline PROVE ApiInv'
<1>1. /\ server = "draining" /\ UNCHANGED <<newest, server, storeOpen, cache>>
      /\ conn' = [c \in Conns |-> [conn[c] EXCEPT !.state = "none",
                     !.at = IF conn[c].at \in {"stream", "body"} THEN "rest" ELSE conn[c].at]]
  BY DEF Deadline, Draining
<1>2. ASSUME NEW c \in Conns PROVE Severed(conn[c], conn'[c])
  <2> DEFINE point == IF conn[c].at \in {"stream", "body"} THEN "rest" ELSE conn[c].at
  <2>1. conn[c] \in Connection
    BY DEF ApiInv, Typed
  <2>2. point \in Points /\ (point = conn[c].at \/ point = "rest")
    BY <2>1 DEF Connection, Points
  <2>3. conn'[c] = [conn[c] EXCEPT !.state = "none", !.at = point]
    BY <1>1
  <2> HIDE DEF point
  <2>4. QED
    BY <2>1, <2>2, <2>3 DEF Severed, Connection
<1>3. conn' \in [Conns -> Connection]
  BY <1>1, <1>2 DEF Severed
<1>4. QED
  BY <1>1, <1>2, <1>3, AllMove DEF Served

\* The server closes after its connections, the store after the server.
LEMMA CloseApi ==
    ASSUME MaxEvent \in Nat, ApiInv, CloseServer \/ CloseStore \/ ApiExit
    PROVE  ApiInv'
<1>1. CASE CloseServer \/ CloseStore
  <2>1. UNCHANGED <<newest, conn, cache>> /\ server' \in {"closed", "exiting"} /\ storeOpen' \in BOOLEAN
    BY <1>1 DEF CloseServer, CloseStore, ApiInv, Typed
  <2>2. \A c \in Conns : conn[c].state = "none"
    BY <1>1 DEF CloseServer, CloseStore, ApiInv, ShutdownInOrder, Served
  <2>3. \A c \in Conns : TagInOrder(c)'
    BY <2>1 DEF ApiInv, TagInOrder, ApiAt, NoTag
  <2>4. Typed'
    BY <2>1 DEF ApiInv, Typed
  <2>5. QED
    BY <2>1, <2>2, <2>3, <2>4 DEF ApiInv, ShutdownInOrder, Served
<1>2. CASE ApiExit
  <2>1. /\ server' = "exited" /\ UNCHANGED <<newest, storeOpen, cache>>
        /\ conn' = [c \in Conns |-> Fresh]
    BY <1>2 DEF ApiExit
  <2>2. Fresh \in Connection /\ Fresh.state = "none" /\ Fresh.at = "rest"
    BY DEF Fresh, Connection, Points, Lists, NoList, NoTag
  <2>3. \A c \in Conns : conn'[c] = Fresh
    BY <2>1
  <2>4. Typed'
    BY <2>1, <2>2 DEF ApiInv, Typed
  <2>5. \A c \in Conns : TagInOrder(c)'
    BY <2>1, <2>2, <2>3 DEF ApiInv, TagInOrder, ApiAt, NoTag
  <2>6. ShutdownInOrder'
    BY <2>1, <2>2, <2>3 DEF ShutdownInOrder, Served
  <2>7. QED
    BY <2>4, <2>5, <2>6 DEF ApiInv
<1>3. QED
  BY <1>1, <1>2

-----------------------------------------------------------------------------
(* The theorems. *)

LEMMA ApiStep == ASSUME MaxEvent \in Nat, ApiInv, [ApiNext]_apiVars PROVE ApiInv'
<1>1. CASE UNCHANGED apiVars
  <2>1. UNCHANGED <<newest, server, storeOpen, conn, cache>>
    BY <1>1 DEF apiVars
  <2>2. \A c \in Conns : TagInOrder(c)'
    BY <2>1 DEF ApiInv, TagInOrder, ApiAt, NoTag
  <2>3. QED
    BY <2>1, <2>2 DEF ApiInv, Typed, ShutdownInOrder, Served
<1>2. ASSUME NEW c \in Conns, Handle(c) PROVE ApiInv'
  <2>1. CASE CheckSchema(c) \/ ReadBody(c) \/ Subscribe(c) \/ Download(c)
    BY <2>1, HandlerSteps
  <2>2. CASE ReadTag(c)
    BY <2>2, ReadTagApi
  <2>3. CASE RunHandler(c)
    BY <2>3, RunHandlerApi
  <2>4. CASE Reply(c)
    BY <2>4, ReplyApi
  <2>5. CASE IdleTimeout(c)
    BY <2>5, HangUpApi DEF IdleTimeout
  <2>6. QED
    BY <1>2, <2>1, <2>2, <2>3, <2>4, <2>5 DEF Handle
<1>3. ASSUME NEW c \in Conns, NEW route \in DOMAIN Routes, Request(c, route) PROVE ApiInv'
  BY <1>3, RequestApi
<1>4. ASSUME NEW c \in Conns, HangUp(c) PROVE ApiInv'
  BY <1>4, HangUpApi
<1>5. CASE Insert \/ Shutdown \/ Deadline
  BY <1>5, InsertApi, ShutdownApi, DeadlineApi
<1>6. CASE CloseServer \/ CloseStore \/ ApiExit
  BY <1>6, CloseApi
<1>7. QED
  BY <1>1, <1>2, <1>3, <1>4, <1>5, <1>6 DEF ApiNext

LEMMA ApiAlways == ASSUME MaxEvent \in Nat PROVE ApiSpec => []ApiInv
<1>1. ApiInit => ApiInv
  BY InitApi
<1>2. ApiInv /\ [ApiNext]_apiVars => ApiInv'
  BY ApiStep
<1>3. QED
  BY <1>1, <1>2, PTL DEF ApiSpec

\* close() of bin.ts waits for the server's close event before it closes the store,
\* and that event for every connection: requests, streams and downloads that are in
\* flight at SIGTERM never meet a closed database while their client is there.
THEOREM StoreIsClosedLast == ASSUME MaxEvent \in Nat PROVE ApiSpec => []StoreOutlivesRequests
<1>1. ApiInv => StoreOutlivesRequests
  BY DEF ApiInv, ShutdownInOrder, StoreOutlivesRequests
<1>2. QED
  BY <1>1, ApiAlways, PTL

\* The validator of server.ts is read before the page it is sent with, so that a page
\* may be newer than its tag and never older: a 304 hides no event.
THEOREM ValidatorIsHonest == ASSUME MaxEvent \in Nat PROVE ApiSpec => []NotModifiedIsCurrent
<1>1. ApiInv => NotModifiedIsCurrent
  <2>1. SUFFICES ASSUME ApiInv, NEW c \in Conns, ApiAt(c, "reply"), conn[c].status = 304
                 PROVE  cache[c].page >= conn[c].list.tag
    BY DEF NotModifiedIsCurrent
  <2>2. conn[c].list.tag <= cache[c].page
    BY <2>1 DEF ApiInv, TagInOrder
  <2>3. conn[c].list.tag \in Nat /\ cache[c].page \in Nat
    BY <2>1 DEF ApiInv, Typed, Connection, Lists
  <2>4. QED
    BY <2>2, <2>3
<1>2. QED
  BY <1>1, ApiAlways, PTL

-----------------------------------------------------------------------------
(* RateLimit: a bucket that is kept is the ideal one, and one that was       *)
(* dropped, or never made, stands for an ideal one that is full again.       *)

Bucket == [tokens : 0..Top, age : 0..Top]
Tracks(b, i) == IF b = None THEN Refilled(i) = Top ELSE b = i

LimiterInv ==
    /\ ideal \in [Keys -> Bucket] /\ buckets \in [Keys -> Bucket \cup {None}]
    /\ \A k \in Keys : Tracks(buckets[k], ideal[k])

\* What Refilled() and Spent() make of a bucket: the refill stops at capacity, and a
\* bucket that was used is one of the map.
LEMMA BucketFacts ==
    ASSUME Top \in Nat, Unit \in Nat, NEW b \in Bucket
    PROVE  /\ Refilled(b) = (IF Top <= b.tokens + b.age THEN Top ELSE b.tokens + b.age)
           /\ Refilled(b) \in 0..Top /\ b # None
           /\ Spent(b) \in Bucket
<1>1. /\ b.tokens \in 0..Top /\ b.age \in 0..Top
      /\ b.tokens \in Nat /\ b.age \in Nat /\ b.tokens + b.age \in Nat
  BY DEF Bucket
<1>2. Refilled(b) = (IF Top <= b.tokens + b.age THEN Top ELSE b.tokens + b.age)
  BY <1>1, OfTwo DEF Refilled
<1>3. Refilled(b) \in 0..Top
  BY <1>1, <1>2
<1>4. b # None
  BY <1>1 DEF None
<1> DEFINE left == IF Allowed(b) THEN Refilled(b) - Unit ELSE Refilled(b)
<1>5. left \in 0..Top
  BY <1>3 DEF Allowed
<1>6. Spent(b) = [tokens |-> left, age |-> 0]
  BY DEF Spent
<1>7. QED
  BY <1>2, <1>3, <1>4, <1>5, <1>6 DEF Bucket

LEMMA AgedTracks ==
    ASSUME Top \in Nat, Unit \in Nat, NEW b \in Bucket \cup {None}, NEW i \in Bucket, Tracks(b, i)
    PROVE  Aged(i) \in Bucket /\ Aged(b) \in Bucket \cup {None} /\ Tracks(Aged(b), Aged(i))
<1>1. i # None /\ i.tokens \in 0..Top /\ i.age \in 0..Top
  BY BucketFacts DEF Bucket
<1>2. Aged(i) \in Bucket /\ Aged(i).tokens = i.tokens /\ Aged(i).age >= i.age
  BY <1>1 DEF Aged, Bucket
<1>3. CASE b = None
  <2>1. Aged(b) = None
    BY <1>3 DEF Aged
  <2>2. Top <= i.tokens + i.age
    BY <1>1, <1>3, BucketFacts DEF Tracks
  <2>3. Aged(i).age \in 0..Top
    BY <1>2 DEF Bucket
  <2>4. Top <= Aged(i).tokens + Aged(i).age
    BY <1>1, <1>2, <2>2, <2>3
  <2>5. Refilled(Aged(i)) = Top
    BY <1>2, <2>4, BucketFacts
  <2>6. QED
    BY <1>2, <2>1, <2>5 DEF Tracks
<1>4. CASE b # None
  <2>1. b = i
    BY <1>4 DEF Tracks
  <2>2. Aged(b) = Aged(i) /\ Aged(i) # None
    BY <1>2, <2>1, BucketFacts
  <2>3. QED
    BY <1>2, <2>2 DEF Tracks
<1>5. QED
  BY <1>3, <1>4

LEMMA SpentTracks ==
    ASSUME Top \in Nat, Unit \in Nat, NEW b \in Bucket \cup {None}, NEW i \in Bucket, Tracks(b, i)
    PROVE  LET f == IF b = None THEN Full ELSE b
           IN  Refilled(f) = Refilled(i) /\ Spent(f) = Spent(i) /\ Spent(i) \in Bucket
<1> DEFINE f == IF b = None THEN Full ELSE b
<1>1. Full \in Bucket /\ Refilled(Full) = Top
  <2>1. Full \in Bucket /\ Full.tokens = Top /\ Full.age = 0
    BY DEF Full, Bucket
  <2>2. QED
    BY <2>1, BucketFacts
<1>2. Refilled(f) = Refilled(i)
  BY <1>1 DEF Tracks
<1> HIDE DEF f
<1>3. Spent(f) = Spent(i)
  BY <1>2 DEF Spent, Allowed
<1>4. QED
  BY <1>2, <1>3, BucketFacts DEF f

LEMMA SweptTracks ==
    ASSUME Top \in Nat, Unit \in Nat, NEW b \in Bucket \cup {None}, NEW i \in Bucket, Tracks(b, i)
    PROVE  LET s == IF Kept(b) THEN b ELSE None IN s \in Bucket \cup {None} /\ Tracks(s, i)
<1>1. CASE Kept(b) \/ b = None
  BY <1>1
<1>2. CASE ~Kept(b) /\ b # None
  <2>1. b = i /\ Refilled(b) \in 0..Top /\ ~(Refilled(b) < Top)
    BY <1>2, BucketFacts DEF Kept, Tracks
  <2>2. Refilled(i) = Top
    BY <2>1
  <2>3. QED
    BY <1>2, <2>2 DEF Tracks
<1>3. QED
  BY <1>1, <1>2

LEMMA TakeLimiter ==
    ASSUME Top \in Nat, Unit \in Nat, LimiterInv, NEW k, Take(k)
    PROVE  LimiterInv'
<1> DEFINE map == IF calls' = 0 THEN Sweep ELSE buckets
<1>1. /\ map \in [Keys -> Bucket \cup {None}]
      /\ \A j \in Keys : Tracks(map[j], ideal[j])
  BY SweptTracks DEF LimiterInv, Sweep
<1>2. /\ buckets' = [map EXCEPT ![k] = Spent(BucketOf(map, k))]
      /\ ideal' = [ideal EXCEPT ![k] = Spent(ideal[k])]
  BY DEF Take
<1> HIDE DEF map
<1>3. k \in Keys => /\ Spent(BucketOf(map, k)) = Spent(ideal[k]) /\ Spent(ideal[k]) \in Bucket
                    /\ Spent(ideal[k]) # None
  BY <1>1, SpentTracks, BucketFacts DEF BucketOf, LimiterInv
<1>4. ideal' \in [Keys -> Bucket] /\ buckets' \in [Keys -> Bucket \cup {None}]
  BY <1>1, <1>2, <1>3 DEF LimiterInv
<1>5. ASSUME NEW j \in Keys PROVE Tracks(buckets'[j], ideal'[j])
  BY <1>1, <1>2, <1>3 DEF LimiterInv, Tracks
<1>6. QED
  BY <1>4, <1>5 DEF LimiterInv, Tracks, Refilled

LEMMA LimiterStep ==
    ASSUME Top \in Nat, Unit \in Nat, LimiterInv, [LimiterNext]_limiterVars
    PROVE  LimiterInv'
<1>1. CASE Tick
  <2>1. ASSUME NEW k \in Keys
        PROVE  /\ Aged(ideal[k]) \in Bucket /\ Aged(buckets[k]) \in Bucket \cup {None}
               /\ Tracks(Aged(buckets[k]), Aged(ideal[k]))
    BY AgedTracks DEF LimiterInv
  <2>2. QED
    BY <1>1, <2>1 DEF Tick, LimiterInv, Tracks, Refilled
<1>2. CASE UNCHANGED limiterVars
  BY <1>2 DEF limiterVars, LimiterInv, Tracks, Refilled
<1>3. CASE \E r \in Requests : Take(ClientKey(r))
  BY <1>3, TakeLimiter
<1>4. QED
  BY <1>1, <1>2, <1>3 DEF LimiterNext

\* A bucket that has refilled to capacity is dropped from the map of TokenBucketLimiter
\* and made again full when its client comes back: every decision is that of a bucket
\* that was never dropped.
THEOREM SweepChangesNothing ==
    ASSUME Capacity \in Nat, Unit \in Nat PROVE LimiterSpec => []SweepIsInvisible
<1>1. Top \in Nat
  BY DEF Top
<1>2. LimiterInit => LimiterInv
  <2>1. Full \in Bucket /\ Full.tokens = Top /\ Full.age = 0
    BY <1>1 DEF Full, Bucket
  <2>2. Refilled(Full) = Top
    BY <1>1, <2>1, BucketFacts
  <2>3. QED
    BY <2>1, <2>2 DEF LimiterInit, LimiterInv, Tracks
<1>3. LimiterInv /\ [LimiterNext]_limiterVars => LimiterInv'
  BY <1>1, LimiterStep
<1>4. LimiterInv => SweepIsInvisible
  BY <1>1, SpentTracks DEF LimiterInv, SweepIsInvisible, BucketOf
<1>5. QED
  BY <1>2, <1>3, <1>4, PTL DEF LimiterSpec

-----------------------------------------------------------------------------
(* Caches: everything remembered, loaded or told was in the store since some *)
(* time, which is less than a TTL before it is told.                         *)

\* Value v of datum d was in the store at time t or later.
Since(d, v, t) == v \in 0..version[d] /\ (v = version[d] \/ until[d][v] >= t)
Told(d, v, t) == v = Failed \/ Since(d, v, t)

Recorded ==
    /\ now \in 0..MaxTime
    /\ version \in [Data -> 0..MaxChanges] /\ until \in [Data -> [0..MaxChanges -> Nat]]
Counted ==
    count.at = MaxTime + 1 \/ (count.at \in 0..now /\ Since("total", count.value, count.at))
Remembered ==
    \A c \in CachedIds : entries[c].at = MaxTime + 1 \/
        /\ entries[c].at \in 0..now /\ entries[c].load = <<c, entries[c].at>>
        /\ entries[c].load \in DOMAIN loads
Loaded ==
    \A l \in DOMAIN loads :
        l \in CachedIds \X (0..now) /\ Told(l[1], loads[l].value, l[2])
Answered(r) ==
    /\ \A d \in DOMAIN request[r].got :
          LET g == request[r].got[d] IN
          d \in Data /\ g.asked \in 0..now /\ Told(d, g.value, g.asked + 1 - Ttl)
    /\ request[r].at = "await" =>
          /\ request[r].load \in DOMAIN loads
          /\ request[r].load[1] \in DOMAIN request[r].got
          /\ request[r].got[request[r].load[1]].asked + 1 - Ttl <= request[r].load[2]
Tables == entries = [c \in CachedIds |-> entries[c]] /\ request = [r \in Askers |-> request[r]]
CacheInv == Recorded /\ Counted /\ Remembered /\ Loaded /\ Tables /\ \A r \in Askers : Answered(r)

CacheBounds == Ttl \in Nat \ {0} /\ MaxTime \in Nat /\ MaxChanges \in Nat

\* A value that is replaced was in the store until now.
LEMMA ChangeKeeps ==
    ASSUME CacheBounds, Recorded, NEW e \in Data, Change(e)
    PROVE  /\ Recorded'
           /\ \A d \in Data, t \in Int : \A v : t <= now /\ Told(d, v, t) => Told(d, v, t)'
<1>1. /\ version[e] < MaxChanges /\ now' = now
      /\ version' = [version EXCEPT ![e] = version[e] + 1]
      /\ until' = [until EXCEPT ![e] = [until[e] EXCEPT ![version[e]] = now]]
  BY DEF Change
<1>2. /\ now \in Nat /\ version[e] \in 0..MaxChanges /\ until[e] \in [0..MaxChanges -> Nat]
      /\ MaxChanges \in Nat
  BY DEF Recorded, CacheBounds
<1>3. Recorded'
  <2>1. version[e] + 1 \in 0..MaxChanges /\ [until[e] EXCEPT ![version[e]] = now] \in [0..MaxChanges -> Nat]
    BY <1>1, <1>2
  <2>2. QED
    BY <1>1, <2>1 DEF Recorded
<1>4. ASSUME NEW d \in Data, NEW v, NEW t \in Int, t <= now, Since(d, v, t) PROVE Since(d, v, t)'
  <2>1. CASE d # e
    BY <1>1, <1>4, <2>1 DEF Since, Recorded
  <2>2. CASE d = e
    <3>1. version'[e] = version[e] + 1 /\ v \in 0..version[e] /\ (v = version[e] \/ until[e][v] >= t)
      BY <1>1, <1>4, <2>2 DEF Since, Recorded
    <3>2. until'[e] = [until[e] EXCEPT ![version[e]] = now]
      BY <1>1 DEF Recorded
    <3>3. v \in 0..MaxChanges
      BY <1>2, <3>1
    <3>4. until'[e][v] = (IF v = version[e] THEN now ELSE until[e][v])
      BY <1>2, <3>2, <3>3
    <3>5. v \in 0..version'[e] /\ until'[e][v] >= t
      BY <1>2, <1>4, <3>1, <3>4
    <3>6. QED
      BY <2>2, <3>5 DEF Since
  <2>3. QED
    BY <2>1, <2>2
<1>5. QED
  BY <1>3, <1>4 DEF Told, Failed

\* Nothing else replaces what is in the store, or goes back in time.
LEMMA StoreKeeps ==
    ASSUME UNCHANGED <<version, until>>, NEW d, NEW v, NEW t
    PROVE  (Since(d, v, t) => Since(d, v, t)') /\ (Told(d, v, t) => Told(d, v, t)')
BY DEF Since, Told, Failed

LEMMA TimePassesKeeps == ASSUME CacheBounds, CacheInv, TimePasses PROVE CacheInv'
<1>1. /\ now < MaxTime /\ now' = now + 1 /\ now \in 0..MaxTime /\ MaxTime \in Nat
      /\ UNCHANGED <<version, until, count, entries, loads, request>>
  BY DEF TimePasses, CacheInv, Recorded, CacheBounds
<1>2. now' \in 0..MaxTime /\ \A t \in 0..now : t \in 0..now'
  BY <1>1
<1>3. QED
  BY <1>1, <1>2 DEF CacheInv, Recorded, Counted, Remembered, Loaded, Tables, Answered, Since, Told, Failed

LEMMA ReplacedKeeps == ASSUME CacheBounds, CacheInv, NEW e \in Data, Change(e) PROVE CacheInv'
<1>1. UNCHANGED <<now, count, entries, loads, request>> /\ now \in Nat /\ Ttl \in Nat \ {0}
  BY DEF Change, CacheInv, Recorded, CacheBounds
<1>2. /\ Recorded'
      /\ \A d \in Data, t \in Int : \A v : t <= now /\ Told(d, v, t) => Told(d, v, t)'
  BY ChangeKeeps DEF CacheInv
<1>3. Counted' /\ Remembered'
  <2>1. ASSUME count.at \in 0..now, Since("total", count.value, count.at)
        PROVE  Since("total", count.value, count.at)'
    <3>1. count.value # Failed
      <4>1. version["total"] \in 0..MaxChanges /\ MaxChanges \in Nat
        BY DEF CacheInv, Recorded, CacheBounds, Data
      <4>2. QED
        BY <2>1, <4>1 DEF Since, Failed
    <3>2. Told("total", count.value, count.at)'
      BY <1>1, <1>2, <2>1 DEF Told, Data
    <3>3. QED
      BY <1>1, <3>1, <3>2 DEF Told, Failed
  <2>2. Counted'
    <3>1. CASE count.at = MaxTime + 1
      BY <1>1, <3>1 DEF Counted
    <3>2. CASE count.at # MaxTime + 1
      <4>1. count.at \in 0..now /\ Since("total", count.value, count.at)'
        BY <2>1, <3>2 DEF CacheInv, Counted
      <4>2. QED
        BY <1>1, <4>1 DEF Counted, Since
    <3>3. QED
      BY <3>1, <3>2
  <2>3. QED
    BY <1>1, <2>2 DEF CacheInv, Remembered
<1>4. Loaded'
  <2>1. ASSUME NEW l \in DOMAIN loads PROVE l \in CachedIds \X (0..now) /\ Told(l[1], loads[l].value, l[2])'
    <3>1. l \in CachedIds \X (0..now) /\ Told(l[1], loads[l].value, l[2])
      BY DEF CacheInv, Loaded
    <3>2. l[1] \in Data /\ l[2] \in Int /\ l[2] <= now
      BY <1>1, <3>1 DEF Data
    <3>3. QED
      BY <1>1, <1>2, <3>1, <3>2
  <2>2. QED
    BY <1>1, <2>1 DEF Loaded
<1>5. ASSUME NEW r \in Askers PROVE Answered(r)'
  <2>1. ASSUME NEW d \in DOMAIN request[r].got
        PROVE  Told(d, request[r].got[d].value, request[r].got[d].asked + 1 - Ttl)'
    <3> DEFINE t == request[r].got[d].asked + 1 - Ttl
    <3>1. d \in Data /\ request[r].got[d].asked \in 0..now /\ Told(d, request[r].got[d].value, t)
      BY DEF CacheInv, Answered
    <3>2. t \in Int /\ t <= now
      BY <1>1, <3>1
    <3> HIDE DEF t
    <3>3. Told(d, request[r].got[d].value, t)' /\ t' = t
      BY <1>1, <1>2, <3>1, <3>2 DEF t
    <3>4. QED
      BY <3>3 DEF t
  <2>2. QED
    BY <1>1, <2>1 DEF CacheInv, Answered
<1>6. QED
  BY <1>1, <1>2, <1>3, <1>4, <1>5 DEF CacheInv, Tables

\* The store, the clock and the answers of a load stay: what is remembered of a total or
\* of a request may change.
LEMMA QueryKeeps ==
    ASSUME CacheBounds, CacheInv, NEW r \in Askers, NEW cs \in SUBSET CachedIds, Query(r, cs)
    PROVE  CacheInv'
<1> DEFINE total == IF IsFresh(count.at) THEN count.value ELSE version["total"]
           got == [d \in {"total"} |-> [value |-> total, asked |-> now]]
           k == [at |-> IF cs = {} THEN "rest" ELSE "annotate", todo |-> cs, load |-> <<>>, got |-> got]
<1>1. /\ request' = [request EXCEPT ![r] = k]
      /\ count' = IF IsFresh(count.at) THEN count ELSE [value |-> version["total"], at |-> now]
      /\ UNCHANGED <<now, version, until, entries, loads>>
  BY DEF Query
<1>2. now \in 0..MaxTime /\ MaxTime \in Nat /\ Ttl \in Nat \ {0} /\ version["total"] \in 0..MaxChanges
  BY DEF CacheInv, Recorded, CacheBounds, Data
<1>3. Since("total", version["total"], now)
  BY <1>2 DEF Since, CacheBounds
<1>4. IsFresh(count.at) => /\ count.at \in 0..now /\ Since("total", count.value, count.at)
                           /\ now + 1 - Ttl <= count.at
  BY <1>2 DEF CacheInv, Counted, IsFresh
<1>5. Counted'
  <2>1. CASE IsFresh(count.at)
    BY <1>1, <2>1, StoreKeeps DEF CacheInv, Counted
  <2>2. CASE ~IsFresh(count.at)
    <3>1. count'.at = now /\ count'.value = version["total"]
      BY <1>1, <2>2
    <3>2. QED
      BY <1>1, <1>2, <1>3, <3>1 DEF Counted, Since
  <2>3. QED
    BY <2>1, <2>2
<1>6. Told("total", total, now + 1 - Ttl)
  <2>1. until["total"] \in [0..MaxChanges -> Nat]
    BY DEF CacheInv, Recorded, Data
  <2>3. CASE IsFresh(count.at)
    <3>1. count.value \in 0..MaxChanges
      BY <1>2, <1>4, <2>3 DEF Since, CacheBounds
    <3>2. until["total"][count.value] \in Nat
      BY <2>1, <3>1
    <3>3. QED
      BY <1>2, <1>4, <2>3, <3>2 DEF Since, Told
  <2>4. CASE ~IsFresh(count.at)
    BY <1>2, <1>3, <2>4 DEF Since, Told
  <2>5. QED
    BY <2>3, <2>4
<1>7. PICK told : told = total
  OBVIOUS
<1> HIDE DEF total
<1>8. /\ k.at # "await" /\ k.got = got
      /\ \A d \in DOMAIN got : d = "total" /\ got[d].value = told /\ got[d].asked = now
  BY <1>7
<1> HIDE DEF got, k
<1>9. request'[r] = k /\ \A x \in Askers \ {r} : request'[x] = request[x]
  BY <1>1 DEF CacheInv, Tables
<1>10. ASSUME NEW x \in Askers PROVE Answered(x)'
  <2>1. CASE x = r
    <3>1. Told("total", told, now + 1 - Ttl)'
      BY <1>1, <1>6, <1>7, StoreKeeps
    <3>2. request'[x].at # "await" /\ request'[x].got = got
      BY <1>8, <1>9, <2>1
    <3>3. QED
      BY <1>1, <1>2, <1>8, <3>1, <3>2 DEF Answered, Data
  <2>2. CASE x # r
    BY <1>1, <1>9, <2>2, StoreKeeps DEF CacheInv, Answered
  <2>3. QED
    BY <2>1, <2>2
<1>11. Recorded' /\ Remembered' /\ Loaded'
  BY <1>1, StoreKeeps DEF CacheInv, Recorded, Remembered, Loaded
<1>12. Tables'
  BY <1>1 DEF CacheInv, Tables
<1>13. QED
  BY <1>5, <1>10, <1>11, <1>12 DEF CacheInv

\* An answer of a load is what the store had when the row was read, or none.
LEMMA LoadKeeps ==
    ASSUME CacheBounds, CacheInv, NEW l \in DOMAIN loads, NEW point, NEW value,
           loads' = [loads EXCEPT ![l] = [at |-> point, value |-> value]],
           Told(l[1], value, l[2]),
           UNCHANGED <<now, version, until, count, entries, request>>
    PROVE  CacheInv'
<1>1. DOMAIN loads' = DOMAIN loads /\ \A m \in DOMAIN loads : loads'[m] = (IF m = l THEN [at |-> point, value |-> value] ELSE loads[m])
  OBVIOUS
<1>2. ASSUME NEW m \in DOMAIN loads PROVE m \in CachedIds \X (0..now) /\ Told(m[1], loads'[m].value, m[2])
  <2>1. CASE m = l
    BY <1>1, <2>1 DEF CacheInv, Loaded
  <2>2. CASE m # l
    BY <1>1, <2>2 DEF CacheInv, Loaded
  <2>3. QED
    BY <2>1, <2>2
<1>3. Loaded'
  BY <1>1, <1>2 DEF Loaded, Told, Since, Failed
<1>4. Recorded' /\ Counted' /\ Remembered' /\ Tables'
  BY <1>1, StoreKeeps DEF CacheInv, Recorded, Counted, Remembered, Tables
<1>5. ASSUME NEW r \in Askers PROVE Answered(r)'
  BY <1>1, StoreKeeps DEF CacheInv, Answered
<1>6. QED
  BY <1>3, <1>4, <1>5 DEF CacheInv

LEMMA ReadKeeps == ASSUME CacheBounds, CacheInv, NEW l \in DOMAIN loads, ReadSpec(l) PROVE CacheInv'
<1>1. l \in CachedIds \X (0..now) /\ now \in Nat
  BY DEF CacheInv, Loaded, Recorded
<1>2. version[l[1]] \in 0..MaxChanges /\ MaxChanges \in Nat
  BY <1>1 DEF CacheInv, Recorded, Data, CacheBounds
<1>3. Told(l[1], version[l[1]], l[2])
  BY <1>2 DEF Told, Since
<1>4. QED
  BY <1>3, LoadKeeps DEF ReadSpec

LEMMA SettleKeeps == ASSUME CacheBounds, CacheInv, NEW l \in DOMAIN loads, Settle(l) PROVE CacheInv'
<1>1. PICK value \in {loads[l].value, Failed} : loads' = [loads EXCEPT ![l] = [at |-> "done", value |-> value]]
  BY DEF Settle
<1>2. Told(l[1], value, l[2])
  BY <1>1 DEF CacheInv, Loaded, Told
<1>3. QED
  BY <1>1, <1>2, LoadKeeps DEF Settle

\* The contract waited for is told as of the load, which is no older than the TTL allows.
LEMMA AwaitKeeps == ASSUME CacheBounds, CacheInv, NEW r \in Askers, Await(r) PROVE CacheInv'
<1> DEFINE load == request[r].load
           c == load[1]
           rest == request[r].todo \ {c}
           asked == request[r].got[c].asked
           got == Tell(request[r].got, c, loads[load].value, asked)
           k == [at |-> IF rest = {} THEN "rest" ELSE "annotate", todo |-> rest, load |-> <<>>, got |-> got]
<1>1. /\ request' = [request EXCEPT ![r] = k] /\ request[r].at = "await"
      /\ UNCHANGED <<now, version, until, count, entries, loads>>
  BY DEF Await
<1>2. /\ load \in DOMAIN loads /\ c \in DOMAIN request[r].got /\ asked + 1 - Ttl <= load[2]
      /\ asked \in 0..now /\ now \in Nat /\ Ttl \in Nat
  BY <1>1 DEF CacheInv, Answered, Recorded, CacheBounds
<1>3. c \in CachedIds /\ load[2] \in Nat /\ Told(c, loads[load].value, load[2])
  BY <1>2 DEF CacheInv, Loaded
<1>4. PICK told : told = loads[load].value
  OBVIOUS
<1>5. Told(c, told, asked + 1 - Ttl)
  <2>1. CASE told = Failed
    BY <2>1 DEF Told
  <2>2. CASE told # Failed
    <3>1. told \in 0..version[c] /\ (told = version[c] \/ until[c][told] >= load[2])
      BY <1>3, <1>4, <2>2 DEF Told, Since
    <3>2. version[c] \in 0..MaxChanges /\ until[c] \in [0..MaxChanges -> Nat] /\ MaxChanges \in Nat
      BY <1>3 DEF CacheInv, Recorded, Data, CacheBounds
    <3>3. until[c][told] \in Nat
      <4> HIDE DEF c
      <4>1. told \in 0..MaxChanges
        BY <3>1, <3>2
      <4>2. QED
        BY <3>2, <4>1
    <3>4. told = version[c] \/ until[c][told] >= asked + 1 - Ttl
      BY <1>2, <1>3, <3>1, <3>3
    <3>5. QED
      BY <3>1, <3>4 DEF Told, Since
  <2>3. QED
    BY <2>1, <2>2
<1>6. /\ DOMAIN got = DOMAIN request[r].got \cup {c} /\ got[c].value = told /\ got[c].asked = asked
      /\ \A e \in DOMAIN request[r].got \ {c} : got[e] = request[r].got[e]
  <2> HIDE DEF asked, c, load
  <2>1. got = Tell(request[r].got, c, told, asked)
    BY <1>4 DEF load
  <2> HIDE DEF got
  <2>2. QED
    BY <2>1 DEF Tell
<1>7. k.at # "await" /\ k.got = got
  OBVIOUS
<1> HIDE DEF k, got, asked, c, load
<1>8. request'[r] = k /\ \A x \in Askers \ {r} : request'[x] = request[x]
  BY <1>1 DEF CacheInv, Tables
<1>9. ASSUME NEW d \in DOMAIN got
      PROVE  d \in Data /\ got[d].asked \in 0..now /\ Told(d, got[d].value, got[d].asked + 1 - Ttl)
  <2>1. CASE d = c
    BY <1>2, <1>3, <1>5, <1>6, <2>1 DEF Data
  <2>2. CASE d # c
    <3>1. d \in DOMAIN request[r].got /\ got[d] = request[r].got[d]
      BY <1>6, <2>2
    <3>2. QED
      BY <3>1 DEF CacheInv, Answered
  <2>3. QED
    BY <2>1, <2>2
<1>10. Answered(r)'
  <2>1. request'[r].at # "await" /\ request'[r].got = got
    BY <1>7, <1>8
  <2>2. QED
    BY <1>1, <1>9, <2>1, StoreKeeps DEF Answered, Told, Since, Failed
<1>11. ASSUME NEW x \in Askers \ {r} PROVE Answered(x)'
  BY <1>1, <1>8, StoreKeeps DEF CacheInv, Answered
<1>12. Recorded' /\ Counted' /\ Remembered' /\ Loaded' /\ Tables'
  BY <1>1, StoreKeeps DEF CacheInv, Recorded, Counted, Remembered, Loaded, Tables
<1>13. QED
  BY <1>10, <1>11, <1>12 DEF CacheInv

\* A load that is waited for is new, or its entry is fresh.
LEMMA GetKeeps ==
    ASSUME CacheBounds, CacheInv, NEW r \in Askers, NEW c \in CachedIds, Get(r, c)
    PROVE  CacheInv'
<1> DEFINE hit == IsFresh(entries[c].at)
           load == IF hit THEN entries[c].load ELSE <<c, now>>
           got == Tell(request[r].got, c, Failed, now)
           k == [at |-> "await", todo |-> request[r].todo, load |-> load, got |-> got]
           asked == [at |-> "asked", value |-> Failed]
<1>1. /\ request' = [request EXCEPT ![r] = k]
      /\ entries' = IF hit THEN entries ELSE [entries EXCEPT ![c] = [at |-> now, load |-> load]]
      /\ loads' = IF hit THEN loads
                  ELSE [l \in DOMAIN loads \cup {load} |-> IF l = load THEN asked ELSE loads[l]]
      /\ UNCHANGED <<now, version, until, count>>
  BY DEF Get
<1>2. now \in 0..MaxTime /\ now \in Nat /\ MaxTime \in Nat /\ Ttl \in Nat \ {0}
  BY DEF CacheInv, Recorded, CacheBounds
<1>3. /\ load \in CachedIds \X (0..now) /\ load[1] = c /\ now + 1 - Ttl <= load[2]
      /\ hit => load \in DOMAIN loads
  <2>1. CASE hit
    <3>1. /\ entries[c].at \in 0..now /\ now - entries[c].at < Ttl
          /\ entries[c].load = <<c, entries[c].at>> /\ entries[c].load \in DOMAIN loads
      BY <1>2, <2>1 DEF CacheInv, Remembered, IsFresh
    <3>2. load = <<c, entries[c].at>> /\ load \in DOMAIN loads
      BY <2>1, <3>1
    <3>3. QED
      BY <1>2, <3>1, <3>2
  <2>2. CASE ~hit
    <3>1. load = <<c, now>>
      BY <2>2
    <3>2. QED
      BY <1>2, <2>2, <3>1
  <2>3. QED
    BY <2>1, <2>2
<1>4. /\ k.at = "await" /\ k.got = got /\ k.load = load /\ asked.value = Failed
      /\ DOMAIN got = DOMAIN request[r].got \cup {c} /\ got[c].value = Failed /\ got[c].asked = now
      /\ \A e \in DOMAIN request[r].got \ {c} : got[e] = request[r].got[e]
  BY DEF Tell
<1>5. ~hit => load = <<c, now>>
  OBVIOUS
<1> HIDE DEF k, got, load, asked
<1>6. /\ DOMAIN loads' = DOMAIN loads \cup {load}
      /\ \A l \in DOMAIN loads : loads'[l] = loads[l] \/ (l = load /\ loads'[l] = asked)
      /\ loads'[load] = loads[load] \/ loads'[load] = asked
      /\ load \notin DOMAIN loads => loads'[load] = asked
  BY <1>1, <1>3
<1>7. Loaded'
  <2>1. ASSUME NEW l \in DOMAIN loads'
        PROVE  l \in CachedIds \X (0..now) /\ Told(l[1], loads'[l].value, l[2])
    <3>1. CASE loads'[l] = asked
      BY <1>3, <1>4, <1>6, <2>1, <3>1 DEF Told, CacheInv, Loaded
    <3>2. CASE loads'[l] # asked
      <4>1. l \in DOMAIN loads /\ loads'[l] = loads[l]
        BY <1>6, <2>1, <3>2
      <4>2. QED
        BY <4>1 DEF CacheInv, Loaded
    <3>3. QED
      BY <3>1, <3>2
  <2>2. QED
    BY <1>1, <2>1 DEF Loaded, Told, Since, Failed
<1>8. Remembered'
  <2>1. ASSUME NEW d \in CachedIds
        PROVE  \/ entries'[d] = entries[d]
               \/ d = c /\ entries'[d].at = now /\ entries'[d].load = <<c, now>> /\ load = <<c, now>>
    BY <1>1, <1>5 DEF CacheInv, Tables
  <2>2. QED
    BY <1>1, <1>2, <1>6, <2>1 DEF CacheInv, Remembered
<1>9. request'[r] = k /\ \A x \in Askers \ {r} : request'[x] = request[x]
  BY <1>1 DEF CacheInv, Tables
<1>10. Answered(r)'
  <2>1. ASSUME NEW d \in DOMAIN got
        PROVE  d \in Data /\ got[d].asked \in 0..now /\ Told(d, got[d].value, got[d].asked + 1 - Ttl)
    <3>1. CASE d = c
      BY <1>2, <1>4, <3>1 DEF Data, Told
    <3>2. CASE d # c
      <4>1. d \in DOMAIN request[r].got /\ got[d] = request[r].got[d]
        BY <1>4, <2>1, <3>2
      <4>2. QED
        BY <4>1 DEF CacheInv, Answered
    <3>3. QED
      BY <3>1, <3>2
  <2>2. /\ load \in DOMAIN loads' /\ load[1] \in DOMAIN got
        /\ got[load[1]].asked + 1 - Ttl <= load[2]
    BY <1>3, <1>4, <1>6
  <2>3. request'[r].got = got /\ request'[r].load = load
    BY <1>4, <1>9
  <2>4. QED
    BY <1>1, <2>1, <2>2, <2>3 DEF Answered, Told, Since, Failed
<1>11. ASSUME NEW x \in Askers \ {r} PROVE Answered(x)'
  <2>1. Answered(x) /\ request'[x] = request[x]
    BY <1>9 DEF CacheInv
  <2>2. QED
    BY <1>1, <1>6, <2>1, StoreKeeps DEF Answered
<1>12. Recorded' /\ Counted' /\ Tables'
  BY <1>1, StoreKeeps DEF CacheInv, Recorded, Counted, Tables
<1>13. QED
  BY <1>7, <1>8, <1>10, <1>11, <1>12 DEF CacheInv

LEMMA CacheInvariant == ASSUME CacheBounds PROVE CacheSpec => []CacheInv
<1>1. CacheInit => CacheInv
  BY DEF CacheBounds, CacheInit, CacheInv, Recorded, Counted, Remembered, Loaded, Tables, Answered,
         Data, NoEntry, AtRest
<1>2. ASSUME CacheInv, [CacheNext]_cacheVars PROVE CacheInv'
  <2>1. CASE UNCHANGED cacheVars
    BY <1>2, <2>1, StoreKeeps
       DEF cacheVars, CacheInv, Recorded, Counted, Remembered, Loaded, Tables, Answered
  <2>2. CASE CacheNext
    BY <1>2, <2>2, TimePassesKeeps, ReplacedKeeps, QueryKeeps, GetKeeps, AwaitKeeps, ReadKeeps,
       SettleKeeps DEF CacheNext
  <2>3. QED
    BY <1>2, <2>1, <2>2
<1>3. QED
  BY <1>1, <1>2, PTL DEF CacheSpec

\* SpecCache stamps an entry when its load begins, and #countCached when it counts: no
\* request is told a total or a spec that was replaced a TTL or more before it asked,
\* however long the load took that it waited for.  (With a TTL of 0 nothing is cached.)
THEOREM CachesAreRecent ==
    ASSUME Ttl \in Nat \ {0}, MaxTime \in Nat, MaxChanges \in Nat
    PROVE  CacheSpec => []AnswersAreRecent
<1>1. CacheBounds
  BY DEF CacheBounds
<1>2. ASSUME CacheInv PROVE AnswersAreRecent
  <2>1. ASSUME NEW r \in Askers, NEW d \in DOMAIN request[r].got
        PROVE  LET g == request[r].got[d] IN
               g.value = Failed \/ g.value = version[d] \/ until[d][g.value] + Ttl > g.asked
    <3> DEFINE v == request[r].got[d].value
               asked == request[r].got[d].asked
    <3>1. d \in Data /\ asked \in 0..now /\ now \in Nat /\ Told(d, v, asked + 1 - Ttl)
      BY <1>2 DEF CacheInv, Answered, Recorded
    <3>2. CASE v \in 0..version[d] /\ until[d][v] >= asked + 1 - Ttl
      <4> HIDE DEF v, asked
      <4>1. v \in 0..MaxChanges
        <5>1. version[d] \in 0..MaxChanges
          BY <1>2, <3>1 DEF CacheInv, Recorded
        <5>2. QED
          BY <1>1, <3>2, <5>1 DEF CacheBounds
      <4>2. until[d][v] \in Nat
        <5>1. until[d] \in [0..MaxChanges -> Nat]
          BY <1>2, <3>1 DEF CacheInv, Recorded
        <5>2. QED
          BY <4>1, <5>1
      <4>3. until[d][v] + Ttl > asked
        BY <1>1, <3>1, <3>2, <4>2 DEF CacheBounds
      <4>4. QED
        BY <4>3 DEF v, asked
    <3>3. QED
      BY <3>1, <3>2 DEF Told, Since
  <2>2. QED
    BY <2>1 DEF AnswersAreRecent
<1>3. QED
  BY <1>1, <1>2, CacheInvariant, PTL

-----------------------------------------------------------------------------
(* Readers: the inductive invariants. *)

Queries == [filter : Filters \cup {<<>>}, order : {"asc", "desc"},
            direction : {"forward", "backward"}, cursor : EventIds \cup {NullCursor}]

ReadersTyped ==
    /\ table \subseteq EventIds /\ lasting \subseteq steady /\ steady \subseteq table
    /\ query \in Queries /\ at \in {"rest", "scan", "probe"}
    /\ reader \in {"none", "pages", "sizing", "writing", "done"}
    /\ (reader \in {"none", "done"} => at = "rest") /\ (reader = "none" => shown = {})
    /\ shown \subseteq EventIds /\ cameFrom \subseteq EventIds /\ hasMore \in BOOLEAN
    /\ next \in EventIds \cup {NullCursor} /\ prev \in EventIds \cup {NullCursor}
    /\ listed \in Seq(EventIds)

\* A client goes on from the end of its page.
CursorIsEnd(from) ==
    from # {} => query.cursor = IF Backward(query) THEN Foremost(query, from) ELSE Hindmost(query, from)

\* A page lies beyond the cursor, and what was there and is not on it lies beyond it.
PageInHand ==
    /\ \A id \in shown : Ahead(query, id)
    /\ \A id \in Matching(query, steady) : Ahead(query, id) /\ id \notin shown =>
          hasMore /\ shown # {} /\ \A p \in shown : ScanBefore(query, p, id)

\* The cursors are the ends of the page, and where there is none there is nothing.
CursorsInHand ==
    /\ next # NullCursor => shown # {} /\ next = Last
    /\ prev # NullCursor => shown # {} /\ prev = First
    /\ shown # {} => \A id \in Matching(query, steady) :
          /\ prev = NullCursor => ~Before(query, id, First)
          /\ next = NullCursor => ~Before(query, Last, id)

ReadersInv ==
    /\ ReadersTyped
    /\ reader = "pages" /\ at = "scan"  => CursorIsEnd(shown)
    /\ reader = "pages" /\ at = "probe" => CursorIsEnd(cameFrom)
    /\ at # "scan" /\ reader \notin {"none", "done"} => PageInHand
    /\ at = "rest" /\ reader \notin {"none", "done"} => CursorsInHand

\* What an export has written is what was there all along, up to its cursor.
WrittenInv ==
    /\ \A x \in Range(listed) : ~Ahead(query, x)
    /\ \A id \in Matching(query, lasting) : Ahead(query, id) \/ id \in Range(listed)

ExportInv ==
    /\ ReadersInv /\ ExportListsEachEventOnce
    /\ reader \in {"none", "pages", "sizing"} => listed = <<>>
    /\ reader \in {"sizing", "writing"} => ~Backward(query)
    /\ reader = "writing" => WrittenInv

-----------------------------------------------------------------------------
(* Readers: orders, ends and pages. *)

LEMMA IdsAreRanks ==
    /\ EventIds = 1..Len(EventRow) /\ Len(EventRow) \in Nat
    /\ EventIds \subseteq Nat \ {0} /\ NullCursor \notin EventIds
    /\ \A S : S \subseteq EventIds => S \in SUBSET Nat /\ IsFiniteSet(S)
<1>1. EventIds = 1..Len(EventRow) /\ Len(EventRow) \in Nat
  BY ReadersAssumption DEF ReadersAssumption, EventIds
<1>2. IsFiniteSet(EventIds)
  BY <1>1, FS_Interval
<1>3. QED
  BY <1>1, <1>2, FS_Subset DEF NullCursor

LEMMA OrderIsTotal ==
    ASSUME NEW q \in Queries, NEW a \in Nat, NEW b \in Nat, NEW c \in Nat
    PROVE  /\ ~Before(q, a, a) /\ (Before(q, a, b) => ~Before(q, b, a))
           /\ Before(q, a, b) /\ Before(q, b, c) => Before(q, a, c)
           /\ a = b \/ Before(q, a, b) \/ Before(q, b, a)
  BY DEF Before

LEMMA ScanIsTotal ==
    ASSUME NEW q \in Queries, NEW a \in Nat, NEW b \in Nat, NEW c \in Nat
    PROVE  /\ ~ScanBefore(q, a, a) /\ (ScanBefore(q, a, b) => ~ScanBefore(q, b, a))
           /\ ScanBefore(q, a, b) /\ ScanBefore(q, b, c) => ScanBefore(q, a, c)
           /\ a = b \/ ScanBefore(q, a, b) \/ ScanBefore(q, b, a)
  BY OrderIsTotal DEF ScanBefore

\* A page has a first and a last row.
LEMMA EndsExist ==
    ASSUME NEW q \in Queries, NEW S \in SUBSET EventIds, S # {}
    PROVE  /\ Foremost(q, S) \in S /\ \A b \in S : b = Foremost(q, S) \/ Before(q, Foremost(q, S), b)
           /\ Hindmost(q, S) \in S /\ \A b \in S : b = Hindmost(q, S) \/ Before(q, b, Hindmost(q, S))
<1>1. PICK n \in Nat : EventIds = 1..n
  BY IdsAreRanks
<1>2. S \in SUBSET Nat /\ \A x \in S : x <= n
  BY <1>1
<1>3. Min(S) \in S /\ \A x \in S : Min(S) <= x
  BY <1>2, MinIsLeast
<1>4. Max(S) \in S /\ \A x \in S : x <= Max(S)
  BY <1>1, <1>2, MaxIsGreatest
<1>5. PICK low \in S, high \in S : \A b \in S : low <= b /\ b <= high
  BY <1>3, <1>4
<1>6. /\ \E a \in S : \A b \in S \ {a} : Before(q, a, b)
      /\ \E a \in S : \A b \in S \ {a} : Before(q, b, a)
  <2>1. \A b \in S : (b # low => low < b) /\ (b # high => b < high)
    BY <1>2, <1>5
  <2>2. CASE q.order = "asc"
    <3>1. \A b \in S : (b # low => Before(q, low, b)) /\ (b # high => Before(q, b, high))
      BY <2>1, <2>2 DEF Before
    <3>2. QED
      BY <3>1
  <2>3. CASE q.order # "asc"
    <3>1. \A b \in S : (b # low => Before(q, b, low)) /\ (b # high => Before(q, high, b))
      BY <2>1, <2>3 DEF Before
    <3>2. QED
      BY <3>1
  <2>4. QED
    BY <2>2, <2>3
<1>7. Foremost(q, S) \in S /\ \A b \in S \ {Foremost(q, S)} : Before(q, Foremost(q, S), b)
  BY <1>6 DEF Foremost
<1>8. Hindmost(q, S) \in S /\ \A b \in S \ {Hindmost(q, S)} : Before(q, b, Hindmost(q, S))
  BY <1>6 DEF Hindmost
<1>9. QED
  BY <1>7, <1>8

\* LIMIT: a page of some rows is some of them, and what it leaves out are more rows
\* than it may hold, and lies behind it.
LEMMA NearestIsFirst ==
    ASSUME NEW q \in Queries, NEW S \in SUBSET EventIds
    PROVE  LET N == Nearest(q, S, Limit) IN
           /\ N \subseteq S /\ (S # {} => N # {})
           /\ \A a \in S \ N : Cardinality(S) > Limit /\ \A p \in N : ScanBefore(q, p, a)
<1> DEFINE N == Nearest(q, S, Limit)
           pre(a) == {b \in S : ScanBefore(q, b, a)}
<1>1. N = {a \in S : Cardinality(pre(a)) < Limit}
  BY DEF Nearest
<1>2. /\ Limit \in Nat \ {0} /\ S \in SUBSET Nat /\ IsFiniteSet(S)
      /\ \A a : pre(a) \subseteq S /\ IsFiniteSet(pre(a)) /\ Cardinality(pre(a)) \in Nat
  BY IdsAreRanks, ReadersAssumption, FS_Subset, FS_CardinalityType DEF ReadersAssumption
<1> HIDE DEF N
<1>3. S # {} => N # {}
  <2>1. SUFFICES ASSUME S # {} PROVE N # {}
    OBVIOUS
  <2>2. PICK a \in S : \A b \in S : b = a \/ ScanBefore(q, a, b)
    BY <2>1, EndsExist DEF ScanBefore
  <2>3. pre(a) = {}
    BY <1>2, <2>2, ScanIsTotal
  <2>4. Cardinality(pre(a)) = 0
    BY <2>3, FS_EmptySet
  <2>5. QED
    BY <1>1, <1>2, <2>4
<1>4. ASSUME NEW a \in S, a \notin N PROVE Cardinality(S) > Limit /\ \A p \in N : ScanBefore(q, p, a)
  <2>1. Cardinality(pre(a)) >= Limit
    BY <1>1, <1>2, <1>4
  <2>2. Cardinality(S) > Limit
    <3>1. a \notin pre(a)
      BY <1>2, ScanIsTotal
    <3>2. pre(a) \subseteq S \ {a}
      BY <3>1
    <3>3. Cardinality(pre(a)) <= Cardinality(S \ {a}) /\ IsFiniteSet(S \ {a})
      BY <1>2, <3>2, FS_Subset
    <3>4. Cardinality(S \ {a}) = Cardinality(S) - 1
      BY <1>2, <1>4, FS_RemoveElement
    <3>5. Cardinality(S) \in Nat /\ Cardinality(S \ {a}) \in Nat
      BY <1>2, <3>3, FS_CardinalityType
    <3>6. QED
      BY <1>2, <2>1, <3>3, <3>4, <3>5
  <2>3. ASSUME NEW p \in N PROVE ScanBefore(q, p, a)
    <3>1. p \in S /\ Cardinality(pre(p)) < Limit /\ p # a
      BY <1>1, <1>4
    <3>2. SUFFICES ASSUME ScanBefore(q, a, p) PROVE FALSE
      BY <1>2, <3>1, ScanIsTotal
    <3>3. pre(a) \subseteq pre(p)
      BY <1>2, <3>1, <3>2, ScanIsTotal
    <3>4. Cardinality(pre(a)) <= Cardinality(pre(p))
      BY <1>2, <3>3, FS_Subset
    <3>5. QED
      BY <1>2, <2>1, <3>1, <3>4
  <2>4. QED
    BY <2>2, <2>3
<1>5. N \subseteq S
  BY <1>1
<1>6. QED
  BY <1>3, <1>4, <1>5 DEF N
\* What comes later in the scan than something beyond the cursor is beyond it too.
LEMMA AheadGoesOn ==
    ASSUME NEW q \in Queries, NEW a \in EventIds, NEW b \in EventIds,
           Ahead(q, a), ScanBefore(q, a, b)
    PROVE  Ahead(q, b)
<1>1. a \in Nat /\ b \in Nat /\ q.cursor \in Nat
  BY IdsAreRanks DEF Queries, NullCursor
<1>2. QED
  BY <1>1, ScanIsTotal DEF Ahead

\* The order of a query is that of the next page's.
LEMMA OrderStays ==
    ASSUME NEW q, NEW r, q.order = r.order
    PROVE  /\ \A a, b : Before(q, a, b) <=> Before(r, a, b)
           /\ \A S : Foremost(q, S) = Foremost(r, S) /\ Hindmost(q, S) = Hindmost(r, S)
<1> DEFINE prec(o, a, b) == IF o = "asc" THEN a < b ELSE b < a
           low(o, S)  == CHOOSE a \in S : \A b \in S \ {a} : prec(o, a, b)
           high(o, S) == CHOOSE a \in S : \A b \in S \ {a} : prec(o, b, a)
<1>1. \A a, b : Before(q, a, b) <=> Before(r, a, b)
  BY DEF Before
<1>2. \A S : Foremost(q, S) = low(q.order, S) /\ Hindmost(q, S) = high(q.order, S)
  BY DEF Foremost, Hindmost, Before
<1>3. \A S : Foremost(r, S) = low(r.order, S) /\ Hindmost(r, S) = high(r.order, S)
  BY DEF Foremost, Hindmost, Before
<1> HIDE DEF low, high
<1>4. QED
  BY <1>1, <1>2, <1>3

-----------------------------------------------------------------------------
(* Readers: the steps. *)

LEMMA ReadersInitIsFine == ReadersInit => ReadersInv /\ ExportInv
<1>1. SUFFICES ASSUME ReadersInit PROVE ReadersInv /\ ExportInv
  OBVIOUS
<1>2. ReadersTyped
  <2>1. query \in Queries
    BY <1>1 DEF ReadersInit, Queries
  <2>2. table \subseteq EventIds /\ listed \in Seq(EventIds)
    BY <1>1 DEF ReadersInit
  <2>3. QED
    BY <1>1, <2>1, <2>2 DEF ReadersInit, ReadersTyped
<1>3. reader = "none" /\ listed = <<>> /\ at = "rest"
  BY <1>1 DEF ReadersInit
<1>4. ExportListsEachEventOnce
  BY <1>3 DEF ExportListsEachEventOnce
<1>5. QED
  BY <1>2, <1>3, <1>4 DEF ReadersInv, ExportInv

LEMMA RowsChangeKeepsInv ==
    ASSUME ReadersInv, NEW S \in SUBSET EventIds, RowsChange(S)
    PROVE  ReadersInv' /\ (ExportInv => ExportInv')
<1>1. /\ table' = S /\ steady' = steady \cap S /\ lasting' = lasting \cap S /\ reader # "done"
      /\ UNCHANGED <<query, at, reader, shown, hasMore, next, prev, cameFrom, listed>>
  BY DEF RowsChange, paging
<1>2. ReadersTyped'
  BY <1>1 DEF ReadersInv, ReadersTyped
<1>3. ReadersInv'
  BY <1>1, <1>2 DEF ReadersInv, CursorIsEnd, PageInHand, CursorsInHand, Matching, First, Last
<1>4. ExportInv => ExportInv'
  BY <1>1, <1>3 DEF ExportInv, ExportListsEachEventOnce, WrittenInv, Matching
<1>5. QED
  BY <1>3, <1>4

LEMMA StartKeepsReadersInv ==
    ASSUME ReadersInv, NEW f \in Filters, NEW order \in {"asc", "desc"},
           NEW c \in {"pages", "sizing"}, NEW direction \in {"forward", "backward"},
           StartReading(f, order, c, direction)
    PROVE  ReadersInv' /\ (ExportInv /\ (c = "sizing" => direction = "forward") => ExportInv')
<1>1. /\ reader = "none" /\ reader' = c /\ at' = "scan"
      /\ query' = [filter |-> f, order |-> order, direction |-> direction, cursor |-> NullCursor]
      /\ UNCHANGED <<table, shown, hasMore, next, prev, cameFrom, listed, steady, lasting>>
  BY DEF StartReading
<1>2. query' \in Queries /\ (Backward(query') <=> direction = "backward")
  BY <1>1 DEF Queries, Backward
<1>3. ReadersTyped' /\ shown' = {}
  BY <1>1, <1>2 DEF ReadersInv, ReadersTyped
<1>4. ReadersInv'
  BY <1>1, <1>3 DEF ReadersInv, CursorIsEnd
<1>5. ASSUME ExportInv, c = "sizing" => direction = "forward" PROVE ExportInv'
  <2>1. listed' = <<>>
    BY <1>1, <1>5 DEF ExportInv
  <2>2. ExportListsEachEventOnce'
    BY <1>1, <2>1 DEF ExportListsEachEventOnce
  <2>3. QED
    BY <1>1, <1>2, <1>4, <1>5, <2>1, <2>2 DEF ExportInv
<1>6. QED
  BY <1>4, <1>5

LEMMA ScanKeepsInv ==
    ASSUME ReadersInv, Scan
    PROVE  ReadersInv' /\ (ExportInv => ExportInv')
<1> DEFINE found == {id \in Matching(query, table) : Ahead(query, id)}
<1>1. /\ at = "scan" /\ at' = "probe" /\ cameFrom' = shown /\ steady' = table
      /\ shown' = Nearest(query, found, Limit) /\ hasMore' = (Cardinality(found) > Limit)
      /\ lasting' = (IF reader \in {"sizing", "writing"} /\ query.cursor = NullCursor THEN table ELSE lasting)
      /\ UNCHANGED <<table, query, reader, next, prev, listed>>
  BY DEF Scan
<1>2. ReadersTyped /\ found \in SUBSET EventIds /\ query \in Queries
  BY DEF ReadersInv, ReadersTyped, Matching
<1>3. /\ shown' \subseteq found /\ (found # {} => shown' # {})
      /\ \A a \in found \ shown' : hasMore' /\ \A p \in shown' : ScanBefore(query, p, a)
  <2> HIDE DEF found
  <2>1. QED
    BY <1>1, <1>2, NearestIsFirst
<1>4. hasMore' \in BOOLEAN
  BY <1>1
<1>5. ReadersTyped'
  BY <1>1, <1>2, <1>3, <1>4 DEF ReadersTyped
<1>6. PageInHand'
  BY <1>1, <1>3 DEF PageInHand, Matching
<1>7. reader' = "pages" => CursorIsEnd(cameFrom)'
  BY <1>1 DEF ReadersInv, CursorIsEnd
<1>8. ReadersInv'
  BY <1>1, <1>5, <1>6, <1>7 DEF ReadersInv
<1>9. ExportInv => ExportInv'
  <2>1. SUFFICES ASSUME ExportInv PROVE ExportInv'
    OBVIOUS
  <2>2. reader # "done"
    BY <1>1, <1>2 DEF ReadersTyped
  <2>3. ExportListsEachEventOnce'
    BY <1>1, <2>1, <2>2 DEF ExportInv, ExportListsEachEventOnce
  <2>4. reader = "writing" => WrittenInv'
    <3>1. CASE query.cursor = NullCursor
      BY <1>1, <2>1, <3>1 DEF ExportInv, WrittenInv, Ahead
    <3>2. CASE query.cursor # NullCursor
      BY <1>1, <2>1, <3>2 DEF ExportInv, WrittenInv
    <3>3. QED
      BY <3>1, <3>2
  <2>5. QED
    BY <1>1, <1>8, <2>1, <2>3, <2>4 DEF ExportInv
<1>10. QED
  BY <1>8, <1>9

LEMMA ProbeKeepsInv ==
    ASSUME ReadersInv, Probe
    PROVE  ReadersInv' /\ (ExportInv => ExportInv')
<1>1. /\ at = "probe" /\ at' = "rest" /\ next' = NextCursor /\ prev' = PrevCursor
      /\ UNCHANGED <<table, query, reader, shown, hasMore, cameFrom, steady, listed, lasting>>
  BY DEF Probe
<1>2. ReadersTyped /\ PageInHand /\ query \in Queries /\ shown \in SUBSET EventIds
  BY <1>1 DEF ReadersInv, ReadersTyped
<1>3. shown # {} =>
         /\ First \in shown /\ \A b \in shown : b = First \/ Before(query, First, b)
         /\ Last \in shown /\ \A b \in shown : b = Last \/ Before(query, b, Last)
  BY <1>2, EndsExist DEF First, Last
<1>4. First' = First /\ Last' = Last
  BY <1>1 DEF First, Last
<1>5. /\ next' # NullCursor => shown # {} /\ next' = Last
      /\ prev' # NullCursor => shown # {} /\ prev' = First
  BY <1>1 DEF NextCursor, PrevCursor
<1>6. ReadersTyped'
  BY <1>1, <1>2, <1>3, <1>5 DEF ReadersTyped
<1>7. ASSUME shown # {}, NEW id \in Matching(query, steady)
      PROVE  /\ prev' = NullCursor => ~Before(query, id, First)
             /\ next' = NullCursor => ~Before(query, Last, id)
  <2>1. id \in EventIds /\ id \in Nat /\ First \in EventIds /\ Last \in EventIds
        /\ First \in Nat /\ Last \in Nat /\ id \in Matching(query, table)
    BY <1>2, <1>3, <1>7, IdsAreRanks DEF Matching, ReadersTyped
  <2>2. First # NullCursor /\ Last # NullCursor
    BY <2>1, IdsAreRanks
  <2>3. ASSUME prev' = NullCursor, Before(query, id, First) PROVE FALSE
    <3>1. ~(IF Backward(query) THEN hasMore ELSE RowsBefore(First) # {})
      BY <1>1, <1>7, <2>2, <2>3 DEF PrevCursor
    <3>2. CASE Backward(query)
      <4>1. ScanBefore(query, First, id) /\ Ahead(query, First)
        BY <1>2, <1>3, <1>7, <2>3, <3>2 DEF ScanBefore, PageInHand
      <4>2. Ahead(query, id)
        BY <1>2, <2>1, <4>1, AheadGoesOn
      <4>3. id \notin shown
        BY <1>2, <1>3, <1>7, <2>1, <2>3, OrderIsTotal
      <4>4. QED
        BY <1>2, <1>7, <3>1, <3>2, <4>2, <4>3 DEF PageInHand
    <3>3. CASE ~Backward(query)
      BY <2>1, <2>3, <3>1, <3>3 DEF RowsBefore
    <3>4. QED
      BY <3>2, <3>3
  <2>4. ASSUME next' = NullCursor, Before(query, Last, id) PROVE FALSE
    <3>1. ~(IF Backward(query) THEN RowsAfter(Last) # {} ELSE hasMore)
      BY <1>1, <1>7, <2>2, <2>4 DEF NextCursor
    <3>2. CASE ~Backward(query)
      <4>1. ScanBefore(query, Last, id) /\ Ahead(query, Last)
        BY <1>2, <1>3, <1>7, <2>4, <3>2 DEF ScanBefore, PageInHand
      <4>2. Ahead(query, id)
        BY <1>2, <2>1, <4>1, AheadGoesOn
      <4>3. id \notin shown
        BY <1>2, <1>3, <1>7, <2>1, <2>4, OrderIsTotal
      <4>4. QED
        BY <1>2, <1>7, <3>1, <3>2, <4>2, <4>3 DEF PageInHand
    <3>3. CASE Backward(query)
      BY <2>1, <2>4, <3>1, <3>3 DEF RowsAfter
    <3>4. QED
      BY <3>2, <3>3
  <2>5. QED
    BY <2>3, <2>4
<1>8. CursorsInHand' /\ PageInHand'
  BY <1>1, <1>2, <1>4, <1>5, <1>7 DEF CursorsInHand, PageInHand
<1>9. ReadersInv'
  BY <1>1, <1>6, <1>8 DEF ReadersInv
<1>10. ExportInv => ExportInv'
  BY <1>1, <1>9 DEF ExportInv, ExportListsEachEventOnce, WrittenInv
<1>11. QED
  BY <1>9, <1>10
LEMMA FollowKeepsInv ==
    ASSUME ReadersInv, NEW d \in {"forward", "backward"}, Follow(d)
    PROVE  ReadersInv' /\ (ExportInv => ExportInv')
<1>1. PICK cursor : cursor = IF d = "forward" THEN next ELSE prev
  OBVIOUS
<1>2. /\ at = "rest" /\ reader = "pages" /\ cursor # NullCursor /\ at' = "scan"
      /\ query' = [query EXCEPT !.direction = d, !.cursor = cursor]
      /\ UNCHANGED <<table, reader, shown, hasMore, next, prev, cameFrom, steady, listed, lasting>>
  BY <1>1 DEF Follow, AskPage
<1>3. ReadersTyped /\ CursorsInHand /\ query \in Queries
  BY <1>2 DEF ReadersInv, ReadersTyped
<1>4. /\ query' \in Queries /\ query'.order = query.order /\ query'.cursor = cursor
      /\ Backward(query') <=> d = "backward"
  BY <1>1, <1>2, <1>3 DEF Queries, Backward, ReadersTyped
<1>5. ReadersTyped'
  BY <1>2, <1>3, <1>4 DEF ReadersTyped
<1>6. CursorIsEnd(shown)'
  <2>1. cursor = IF Backward(query') THEN First ELSE Last
    BY <1>1, <1>2, <1>3, <1>4 DEF CursorsInHand
  <2>2. First = Foremost(query', shown) /\ Last = Hindmost(query', shown)
    BY <1>4, OrderStays DEF First, Last
  <2>3. QED
    BY <1>2, <1>4, <2>1, <2>2 DEF CursorIsEnd
<1>7. ReadersInv'
  BY <1>2, <1>5, <1>6 DEF ReadersInv
<1>8. ExportInv => ExportInv'
  BY <1>2, <1>7 DEF ExportInv, ExportListsEachEventOnce
<1>9. QED
  BY <1>7, <1>8

\* eachEventPage: the next page of the walk, or its end.
LEMMA ExportMoves ==
    ASSUME ReadersInv, ExportPage
    PROVE  /\ at = "rest" /\ reader \in {"sizing", "writing"}
           /\ query' \in Queries /\ query'.order = query.order /\ query'.filter = query.filter
           /\ query'.direction = query.direction
           /\ \/ at' = "scan" /\ next # NullCursor /\ query'.cursor = next /\ reader' = reader
              \/ at' = "scan" /\ next = NullCursor /\ query'.cursor = NullCursor
                 /\ reader = "sizing" /\ reader' = "writing"
              \/ at' = "rest" /\ next = NullCursor /\ query' = query
                 /\ reader = "writing" /\ reader' = "done"
           /\ shown' = {}
           /\ UNCHANGED <<table, hasMore, next, prev, cameFrom, steady, lasting>>
<1>1. query \in Queries /\ next \in EventIds \cup {NullCursor}
  BY DEF ReadersInv, ReadersTyped
<1>2. \A c \in EventIds \cup {NullCursor} :
         LET r == [query EXCEPT !.direction = query.direction, !.cursor = c] IN
         /\ r \in Queries /\ r.order = query.order /\ r.filter = query.filter
         /\ r.direction = query.direction /\ r.cursor = c
  BY <1>1 DEF Queries
<1>3. CASE next # NullCursor
  BY <1>1, <1>2, <1>3 DEF ExportPage, AskPage
<1>4. CASE next = NullCursor /\ reader = "sizing"
  BY <1>1, <1>2, <1>4 DEF ExportPage, AskPage
<1>5. CASE next = NullCursor /\ reader # "sizing"
  BY <1>1, <1>5 DEF ExportPage
<1>6. QED
  BY <1>3, <1>4, <1>5

\* Its rows go behind those that were written.
LEMMA ExportWrites ==
    ASSUME ReadersInv, ExportPage, reader = "writing"
    PROVE  /\ listed' \in Seq(EventIds) /\ Range(listed') = Range(listed) \cup shown
           /\ \A j, k \in DOMAIN listed' : j < k =>
                 \/ j \in DOMAIN listed /\ k \in DOMAIN listed
                    /\ listed'[j] = listed[j] /\ listed'[k] = listed[k]
                 \/ listed'[j] \in Range(listed) /\ listed'[k] \in shown
                 \/ Before(query, listed'[j], listed'[k])
<1>1. shown \subseteq EventIds /\ IsFiniteSet(shown) /\ listed \in Seq(EventIds)
  BY IdsAreRanks DEF ReadersInv, ReadersTyped
<1>2. PICK list \in InQueryOrder(query, shown) : listed' = listed \o list
  BY DEF ExportPage
<1>3. /\ list \in [1..Cardinality(shown) -> shown] /\ Range(list) = shown
      /\ \A i, j \in DOMAIN list : i < j => Before(query, list[i], list[j])
  BY DEF InQueryOrder
<1>4. list \in Seq(EventIds)
  BY <1>1, <1>3, ListIsSeq
<1>5. Behind(EventIds, listed, list, listed')
  BY <1>1, <1>2, <1>4, PutBehind
<1>6. QED
  BY <1>3, <1>5 DEF Behind

LEMMA ExportPageKeepsInv ==
    ASSUME ReadersInv, ExportPage
    PROVE  ReadersInv' /\ (ExportInv => ExportInv')
<1>1. /\ at = "rest" /\ reader \in {"sizing", "writing"} /\ ReadersTyped /\ PageInHand /\ CursorsInHand
      /\ query \in Queries /\ shown \in SUBSET EventIds /\ listed \in Seq(EventIds)
  BY ExportMoves DEF ReadersInv, ReadersTyped
<1>2. reader = "sizing" => listed' = listed
  BY DEF ExportPage
<1>3. listed' \in Seq(EventIds)
  BY <1>1, <1>2, ExportWrites
<1>4. ReadersTyped'
  BY <1>1, <1>3, ExportMoves DEF ReadersTyped
<1>5. ReadersInv'
  BY <1>1, <1>4, ExportMoves DEF ReadersInv
<1>6. ASSUME ExportInv PROVE ExportInv'
  <2>1. ~Backward(query) /\ ~Backward(query')
    BY <1>1, <1>6, ExportMoves DEF ExportInv, Backward
  <2>2. \A a, b : Before(query', a, b) <=> Before(query, a, b)
    BY ExportMoves, OrderStays
  <2>3. CASE reader = "sizing"
    <3>1. listed' = <<>>
      BY <1>2, <1>6, <2>3 DEF ExportInv
    <3>2. ExportListsEachEventOnce' /\ Range(listed') = {}
      BY <2>3, <3>1, ExportMoves DEF ExportListsEachEventOnce, Range
    <3>3. reader' = "writing" => WrittenInv'
      BY <2>3, <3>2, ExportMoves DEF WrittenInv, Ahead
    <3>4. QED
      BY <1>5, <2>1, <2>3, <3>1, <3>2, <3>3, ExportMoves DEF ExportInv
  <2>4. CASE reader = "writing"
    <3>1. WrittenInv /\ ExportListsEachEventOnce
      BY <1>6, <2>4 DEF ExportInv
    <3>2. \A x \in Range(listed) \cup shown : x \in EventIds /\ x \in Nat
      <4>1. \A i \in DOMAIN listed : listed[i] \in EventIds
        BY <1>1
      <4>2. \A x \in Range(listed) : x \in EventIds
        BY <4>1 DEF Range
      <4>3. \A x \in EventIds : x \in Nat
        BY IdsAreRanks
      <4>4. QED
        BY <1>1, <4>2, <4>3
    <3>3. query.cursor \in Nat
      BY <1>1, IdsAreRanks DEF Queries, NullCursor
    <3>4. ASSUME NEW x \in Range(listed), NEW p \in shown PROVE Before(query, x, p)
      <4>1. ~Ahead(query, x) /\ Ahead(query, p)
        BY <1>1, <3>1 DEF WrittenInv, PageInHand
      <4>2. ~Before(query, query.cursor, x) /\ Before(query, query.cursor, p)
        BY <2>1, <4>1 DEF Ahead, ScanBefore
      <4>3. QED
        BY <1>1, <3>2, <3>3, <4>2, OrderIsTotal
    <3>5. \A j, k \in DOMAIN listed' : j < k => Before(query', listed'[j], listed'[k])
      BY <2>2, <2>4, <3>1, <3>4, ExportWrites DEF ExportListsEachEventOnce
    <3>6. ASSUME NEW id \in Matching(query, lasting)
          PROVE  id \in Range(listed) \cup shown \/ (hasMore /\ shown # {} /\ Before(query, Last, id))
      <4>1. id \in Matching(query, steady)
        BY <1>1 DEF Matching, ReadersTyped
      <4>2. CASE Ahead(query, id) /\ id \notin shown
        <5>1. hasMore /\ shown # {} /\ \A p \in shown : Before(query, p, id)
          BY <1>1, <2>1, <4>1, <4>2 DEF PageInHand, ScanBefore
        <5>2. Last \in shown
          BY <1>1, <5>1, EndsExist DEF Last
        <5>3. QED
          BY <5>1, <5>2
      <4>3. QED
        BY <3>1, <4>2 DEF WrittenInv
    <3>7. CASE next # NullCursor
      <4>1. /\ at' = "scan" /\ query'.cursor = next /\ reader' = "writing"
            /\ next = Last /\ shown # {} /\ query'.filter = query.filter /\ lasting' = lasting
        BY <1>1, <2>4, <3>7, ExportMoves DEF CursorsInHand
      <4>2. Last \in shown /\ \A b \in shown : b = Last \/ Before(query, b, Last)
        BY <1>1, <4>1, EndsExist DEF Last
      <4>3. \A x : Ahead(query', x) <=> Before(query, Last, x)
        BY <2>1, <2>2, <3>7, <4>1 DEF Ahead, ScanBefore
      <4>4. ASSUME NEW x \in Range(listed) \cup shown PROVE ~Before(query, Last, x)
        <5>1. x = Last \/ Before(query, x, Last)
          BY <3>4, <4>2
        <5>2. x \in Nat /\ Last \in Nat
          BY <3>2, <4>2
        <5>3. QED
          BY <1>1, <5>1, <5>2, OrderIsTotal
      <4>5. WrittenInv'
        <5>1. Range(listed') = Range(listed) \cup shown
          BY <2>4, ExportWrites
        <5>2. Matching(query', lasting') = Matching(query, lasting)
          BY <4>1 DEF Matching
        <5>3. QED
          BY <3>6, <4>3, <4>4, <5>1, <5>2 DEF WrittenInv
      <4>6. ExportListsEachEventOnce'
        BY <3>5, <4>1 DEF ExportListsEachEventOnce
      <4>7. QED
        BY <1>5, <2>1, <4>1, <4>5, <4>6 DEF ExportInv
    <3>8. CASE next = NullCursor
      <4>1. reader' = "done" /\ query' = query /\ lasting' = lasting
        BY <2>4, <3>8, ExportMoves
      <4>2. ASSUME NEW id \in Matching(query, lasting) PROVE id \in Range(listed')
        <5>1. id \in Matching(query, steady)
          BY <1>1, <4>2 DEF Matching, ReadersTyped
        <5>2. id \in Range(listed) \cup shown
          BY <1>1, <3>6, <3>8, <5>1 DEF CursorsInHand
        <5>3. QED
          BY <2>4, <5>2, ExportWrites
      <4>3. ExportListsEachEventOnce'
        BY <3>5, <4>1, <4>2 DEF ExportListsEachEventOnce
      <4>4. QED
        BY <1>5, <4>1, <4>3 DEF ExportInv
    <3>9. QED
      BY <3>7, <3>8
  <2>5. QED
    BY <1>1, <2>3, <2>4
<1>7. QED
  BY <1>5, <1>6

LEMMA ReadersStep == ReadersInv /\ [ReadersNext]_readersVars => ReadersInv'
<1>1. SUFFICES ASSUME ReadersInv, [ReadersNext]_readersVars PROVE ReadersInv'
  OBVIOUS
<1>2. ASSUME NEW f \in Filters, NEW order \in {"asc", "desc"},
             StartReading(f, order, "pages", "forward")
             \/ \E d \in ExportDirections : StartReading(f, order, "sizing", d)
      PROVE  ReadersInv'
  BY <1>1, <1>2, StartKeepsReadersInv, ReadersAssumption DEF ReadersAssumption
<1>3. CASE Scan \/ Probe \/ ExportPage
  BY <1>1, <1>3, ScanKeepsInv, ProbeKeepsInv, ExportPageKeepsInv
<1>4. ASSUME NEW d \in {"forward", "backward"}, Follow(d) PROVE ReadersInv'
  BY <1>1, <1>4, FollowKeepsInv
<1>5. CASE Prune \/ \E id \in EventIds : RowInserted(id)
  <2>1. table \subseteq EventIds
    BY <1>1 DEF ReadersInv, ReadersTyped
  <2>2. PICK S \in SUBSET EventIds : RowsChange(S)
    BY <1>5, <2>1 DEF Prune, RowInserted
  <2>3. QED
    BY <1>1, <2>2, RowsChangeKeepsInv
<1>6. CASE UNCHANGED readersVars
  BY <1>1, <1>6 DEF readersVars, paging, ReadersInv, ReadersTyped, CursorIsEnd, PageInHand,
     CursorsInHand, First, Last
<1>7. QED
  BY <1>1, <1>2, <1>3, <1>4, <1>5, <1>6 DEF ReadersNext

LEMMA ExportStep ==
    ASSUME ExportDirections = {"forward"}, ExportInv, [ReadersNext]_readersVars
    PROVE  ExportInv'
<1>1. ReadersInv
  BY DEF ExportInv
<1>2. ASSUME NEW f \in Filters, NEW order \in {"asc", "desc"},
             StartReading(f, order, "pages", "forward")
             \/ \E d \in ExportDirections : StartReading(f, order, "sizing", d)
      PROVE  ExportInv'
  BY <1>1, <1>2, StartKeepsReadersInv
<1>3. CASE Scan \/ Probe \/ ExportPage
  BY <1>1, <1>3, ScanKeepsInv, ProbeKeepsInv, ExportPageKeepsInv
<1>4. ASSUME NEW d \in {"forward", "backward"}, Follow(d) PROVE ExportInv'
  BY <1>1, <1>4, FollowKeepsInv
<1>5. CASE Prune \/ \E id \in EventIds : RowInserted(id)
  <2>1. table \subseteq EventIds
    BY <1>1 DEF ReadersInv, ReadersTyped
  <2>2. PICK S \in SUBSET EventIds : RowsChange(S)
    BY <1>5, <2>1 DEF Prune, RowInserted
  <2>3. QED
    BY <1>1, <2>2, RowsChangeKeepsInv
<1>6. CASE UNCHANGED readersVars
  <2>1. ReadersInv'
    BY <1>1, ReadersStep
  <2>2. QED
    BY <1>6, <2>1 DEF readersVars, paging, ExportInv, ExportListsEachEventOnce, WrittenInv
<1>7. QED
  BY <1>2, <1>3, <1>4, <1>5, <1>6 DEF ReadersNext

\* queryEvents: for every table, filter and size of page, and whatever is inserted and
\* pruned between two requests or two statements of one, the pages a client turns adjoin,
\* and a missing cursor is the end.
THEOREM PagesTurnWithoutGaps == ReadersSpec => []PagesAdjoin
<1>1. ReadersInv => PagesAdjoin
  <2>1. SUFFICES ASSUME ReadersInv, reader = "pages", shown # {} PROVE PagesAdjoin
    BY DEF PagesAdjoin
  <2>2. ReadersTyped /\ query \in Queries /\ shown \in SUBSET EventIds /\ cameFrom \in SUBSET EventIds
    BY <2>1 DEF ReadersInv, ReadersTyped
  <2>3. CASE at = "rest"
    BY <2>1, <2>3 DEF ReadersInv, CursorsInHand, PagesAdjoin
  <2>4. CASE at = "probe" /\ cameFrom # {}
    <3>1. PageInHand /\ CursorIsEnd(cameFrom)
      BY <2>1, <2>4 DEF ReadersInv
    <3>2. PICK c : c = query.cursor
      OBVIOUS
    <3>3. /\ c = IF Backward(query) THEN Foremost(query, cameFrom) ELSE Hindmost(query, cameFrom)
          /\ c \in cameFrom
          /\ \A x \in cameFrom : x = c \/ ScanBefore(query, x, c)
      BY <2>2, <2>4, <3>1, <3>2, EndsExist DEF CursorIsEnd, ScanBefore
    <3>4. c # NullCursor /\ c \in Nat /\ \A x \in EventIds : x \in Nat
      BY <2>2, <3>3, IdsAreRanks
    <3>5. \A p \in shown : ScanBefore(query, c, p)
      BY <3>1, <3>2, <3>4 DEF PageInHand, Ahead
    <3>6. shown \cap cameFrom = {}
      BY <2>2, <3>3, <3>4, <3>5, ScanIsTotal
    <3>7. ASSUME NEW id \in Matching(query, steady), id \notin shown, NEW p \in shown,
                 ScanBefore(query, c, id), ScanBefore(query, id, p)
          PROVE  FALSE
      <4>1. Ahead(query, id)
        BY <3>2, <3>7 DEF Ahead
      <4>2. ScanBefore(query, p, id)
        BY <3>1, <3>7, <4>1 DEF PageInHand
      <4>3. id \in Nat /\ p \in Nat
        BY <2>2, <3>4, <3>7 DEF Matching, ReadersTyped
      <4>4. QED
        BY <2>2, <3>7, <4>2, <4>3, ScanIsTotal
    <3>8. First \in shown /\ Last \in shown
      BY <2>1, <2>2, EndsExist DEF First, Last
    <3>9. QED
      BY <2>1, <2>4, <3>3, <3>6, <3>7, <3>8 DEF PagesAdjoin, ScanBefore
  <2>5. QED
    BY <2>3, <2>4 DEF PagesAdjoin
<1>2. QED
  BY <1>1, ReadersInitIsFine, ReadersStep, PTL DEF ReadersSpec

\* csvExport: for every table, filter and size of page, a forward export lists every row
\* that was there all along, once and in order, whatever comes and goes meanwhile.
THEOREM ExportsAreWhole ==
    ASSUME ExportDirections = {"forward"}
    PROVE  ReadersSpec => []ExportListsEachEventOnce
<1>1. ExportInv => ExportListsEachEventOnce
  BY DEF ExportInv
<1>2. ExportInv /\ [ReadersNext]_readersVars => ExportInv'
  BY ExportStep
<1>3. QED
  BY <1>1, <1>2, ReadersInitIsFine, PTL DEF ReadersSpec

-----------------------------------------------------------------------------
(* GraphQL: the cost of a document. *)

Types == {"Query", "EventPage", "Event", "DecodedValue", "Contract", "Topic"}
FieldDef == [type : Types \cup {"scalar"}, list : BOOLEAN, nullable : BOOLEAN, paged : BOOLEAN,
             size : {"one", "limit", "parent", "topics"}, default : Nat]
\* What a list without a limit returns is what it is taken to return: listContracts() may
\* return more, unless it is given a limit.
LimitsGiven ==
    \/ ContractsLimit <= DefaultLimit
    \/ \A i \in Nodes : Selection[i].field = "contracts" => Selection[i].limit # NoLimit
\* The cost is a number for the nodes of every document, and a natural number for those of
\* a document without a limit below 0: what is said of the nodes A and the numbers Num
\* below is said of both.
Safe(A, Num) ==
    /\ A \in SUBSET Nodes /\ Inside(A) \subseteq A
    /\ \A i \in A : Selection[i].limit \in Num \cup {NoLimit}
IsField(f, A, Num) ==
    /\ f.def \in FieldDef /\ f.limit \in Num \cup {NoLimit} /\ f.kids \in SUBSET A /\ f.page \in Num
    /\ LimitsGiven /\ f.limit = NoLimit => f.def.default <= DefaultLimit

LEMMA NodeFacts ==
    ASSUME NEW i \in Nodes
    PROVE  /\ Selection[i].field \in STRING /\ Selection[i].limit \in Int \cup {NoLimit}
           /\ Selection[i].kids \in SUBSET Nodes /\ \A k \in Selection[i].kids : k > i
           /\ Nodes \subseteq Nat /\ i \in 1..Len(Selection)
<1>1. Selection \in Seq(Node) /\ \A k \in Selection[i].kids : k > i
  BY GqlAssumption
<1>2. Nodes = 1..Len(Selection) /\ Len(Selection) \in Nat
  BY <1>1 DEF Nodes
<1>3. Selection[i] \in Node
  BY <1>1, <1>2
<1>4. QED
  BY <1>1, <1>2, <1>3 DEF Node

LEMMA Bounds == /\ DefaultLimit \in Nat /\ ContractsLimit \in Nat /\ TopicSize \in Nat
                /\ MaxComplexity \in Nat /\ MaxLimit \in Nat
  BY GqlAssumption

LEMMA AllAreSafe == Safe(Nodes, Int)
  BY NodeFacts DEF Safe, Inside

LEMMA NumbersAreClosed ==
    ASSUME NEW Num \in {Nat, Int}, NEW a \in Num, NEW b \in Num
    PROVE  a \in Int /\ a + b \in Num /\ a * b \in Num
<1>1. CASE Num = Nat
  BY <1>1
<1>2. CASE Num = Int
  BY <1>2
<1>3. QED
  BY <1>1, <1>2

\* Every definition of the schema is one, and only contracts has a default of its own.
FieldDefs(field) ==
    {d \in FieldDef : \/ d.default = DefaultLimit
                      \/ field = "contracts" /\ d.default = ContractsLimit}
LEMMA SchemaFacts ==
    ASSUME NEW type \in Types, NEW field
    PROVE  Def(type, field) \in FieldDefs(field)
<1>1. /\ Leaf \in FieldDefs("other") /\ Paged \in FieldDefs("other")
      /\ Nullable("Event") \in FieldDefs("other") /\ Nullable("Contract") \in FieldDefs("other")
      /\ Nullable("scalar") \in FieldDefs("other")
      /\ Many("Event", "parent") \in FieldDefs("other") /\ Many("DecodedValue", "topics") \in FieldDefs("other")
      /\ Many("Topic", "limit") \in FieldDefs("other")
      /\ [Many("Contract", "limit") EXCEPT !.default = ContractsLimit] \in FieldDefs("contracts")
  <2>1. /\ Leaf \in FieldDef /\ Paged \in FieldDef
        /\ Nullable("Event") \in FieldDef /\ Nullable("Contract") \in FieldDef
        /\ Nullable("scalar") \in FieldDef
        /\ Many("Event", "parent") \in FieldDef /\ Many("DecodedValue", "topics") \in FieldDef
        /\ Many("Topic", "limit") \in FieldDef
        /\ [Many("Contract", "limit") EXCEPT !.default = ContractsLimit] \in FieldDef
    BY Bounds DEF Leaf, Paged, One, Nullable, Many, FieldDef, Types
  <2>2. /\ Leaf.default = DefaultLimit /\ Paged.default = DefaultLimit
        /\ Nullable("Event").default = DefaultLimit /\ Nullable("Contract").default = DefaultLimit
        /\ Nullable("scalar").default = DefaultLimit
        /\ Many("Event", "parent").default = DefaultLimit
        /\ Many("DecodedValue", "topics").default = DefaultLimit
        /\ Many("Topic", "limit").default = DefaultLimit
        /\ [Many("Contract", "limit") EXCEPT !.default = ContractsLimit].default = ContractsLimit
    BY DEF Leaf, Paged, One, Nullable, Many
  <2>3. \A g : \A d \in FieldDef : d.default = DefaultLimit => d \in FieldDefs(g)
    BY DEF FieldDefs
  <2>4. \A d \in FieldDef : d.default = ContractsLimit => d \in FieldDefs("contracts")
    BY DEF FieldDefs
  <2>5. QED
    BY <2>1, <2>2, <2>3, <2>4
<1>9. \A g : \A d \in FieldDefs("other") : d \in FieldDefs(g)
  BY DEF FieldDefs
<1> DEFINE all == [Many("Contract", "limit") EXCEPT !.default = ContractsLimit]
<1> HIDE DEF all
<1>2. CASE type = "Query"
  <2>1. Schema[type] = [events |-> Paged, event |-> Nullable("Event"), contracts |-> all]
    BY <1>2 DEF Schema, all
  <2>2. DOMAIN Schema[type] = {"events", "event", "contracts"}
    BY <2>1
  <2>3. ASSUME NEW g \in {"events", "event", "contracts"} PROVE Schema[type][g] \in FieldDefs(g)
    <3>1. CASE g = "events"
      BY <1>1, <1>9, <2>1, <3>1
    <3>2. CASE g = "event"
      BY <1>1, <1>9, <2>1, <3>2
    <3>3. CASE g = "contracts"
      BY <1>1, <1>9, <2>1, <3>3 DEF all
    <3>4. QED
      BY <3>1, <3>2, <3>3
  <2>4. QED
    BY <1>1, <1>9, <2>2, <2>3 DEF Def
<1>3. CASE type = "EventPage"
  <2>1. Schema[type] = [events |-> Many("Event", "parent"), total |-> Leaf, nextCursor |-> Nullable("scalar")]
    BY <1>3 DEF Schema
  <2>2. DOMAIN Schema[type] = {"events", "total", "nextCursor"}
    BY <2>1
  <2>3. ASSUME NEW g \in {"events", "total", "nextCursor"} PROVE Schema[type][g] \in FieldDefs(g)
    <3>1. CASE g = "events"
      BY <1>1, <1>9, <2>1, <3>1
    <3>2. CASE g = "total"
      BY <1>1, <1>9, <2>1, <3>2
    <3>3. CASE g = "nextCursor"
      BY <1>1, <1>9, <2>1, <3>3
    <3>4. QED
      BY <3>1, <3>2, <3>3
  <2>4. QED
    BY <1>1, <1>9, <2>2, <2>3 DEF Def
<1>4. CASE type = "Event"
  <2>1. Schema[type] = [id |-> Leaf, topics |-> Many("DecodedValue", "topics"), contract |-> Nullable("Contract")]
    BY <1>4 DEF Schema
  <2>2. DOMAIN Schema[type] = {"id", "topics", "contract"}
    BY <2>1
  <2>3. ASSUME NEW g \in {"id", "topics", "contract"} PROVE Schema[type][g] \in FieldDefs(g)
    <3>1. CASE g = "id"
      BY <1>1, <1>9, <2>1, <3>1
    <3>2. CASE g = "topics"
      BY <1>1, <1>9, <2>1, <3>2
    <3>3. CASE g = "contract"
      BY <1>1, <1>9, <2>1, <3>3
    <3>4. QED
      BY <3>1, <3>2, <3>3
  <2>4. QED
    BY <1>1, <1>9, <2>2, <2>3 DEF Def
<1>5. CASE type = "DecodedValue"
  <2>1. Schema[type] = [value |-> Nullable("scalar")]
    BY <1>5 DEF Schema
  <2>2. QED
    BY <1>1, <1>9, <2>1 DEF Def, Types
<1>6. CASE type = "Contract"
  <2>1. Schema[type] = [contractId |-> Leaf, topics |-> Many("Topic", "limit"), events |-> Paged]
    BY <1>6 DEF Schema
  <2>2. DOMAIN Schema[type] = {"contractId", "topics", "events"}
    BY <2>1
  <2>3. ASSUME NEW g \in {"contractId", "topics", "events"} PROVE Schema[type][g] \in FieldDefs(g)
    <3>1. CASE g = "contractId"
      BY <1>1, <1>9, <2>1, <3>1
    <3>2. CASE g = "topics"
      BY <1>1, <1>9, <2>1, <3>2
    <3>3. CASE g = "events"
      BY <1>1, <1>9, <2>1, <3>3
    <3>4. QED
      BY <3>1, <3>2, <3>3
  <2>4. QED
    BY <1>1, <1>9, <2>2, <2>3 DEF Def
<1>7. CASE type = "Topic"
  <2>1. Schema[type] = [topic |-> Leaf]
    BY <1>7 DEF Schema
  <2>2. QED
    BY <1>1, <1>9, <2>1 DEF Def, Types
<1>8. QED
  BY <1>2, <1>3, <1>4, <1>5, <1>6, <1>7 DEF Types

LEMMA EarliestIsLeast ==
    ASSUME NEW S \in SUBSET Nat, S # {}
    PROVE  Earliest(S) \in S /\ \A x \in S : Earliest(S) <= x
<1>1. Earliest(S) = Min(S)
  BY DEF Earliest, Min
<1>2. QED
  BY <1>1, MinIsLeast

LEMMA FieldOfIsField ==
    ASSUME NEW Num \in {Nat, Int}, NEW A, Safe(A, Num),
           NEW sels \in SUBSET A, NEW i \in sels, NEW type \in Types, NEW page \in Num, NEW path
    PROVE  /\ IsField(FieldOf(sels, i, type, page, path), A, Num)
           /\ Earliest(Merged(sels, i)) \in Merged(sels, i)
<1>1. i \in Merged(sels, i) /\ Merged(sels, i) \in SUBSET A /\ A \in SUBSET Nodes /\ Nodes \subseteq Nat
  BY NodeFacts DEF Merged, Safe
<1>2. Earliest(Merged(sels, i)) \in Merged(sels, i)
  BY <1>1, EarliestIsLeast
<1> DEFINE same == Merged(sels, i)
           node == Selection[Earliest(same)]
<1>3. node.limit \in Num \cup {NoLimit}
  BY <1>1, <1>2 DEF Safe
<1>4. Def(type, node.field) \in FieldDefs(node.field)
  BY SchemaFacts
<1>5. Included(Inside(same)) \in SUBSET A
  BY <1>1 DEF Included, Inside, Safe
<1>6. ASSUME LimitsGiven, node.limit = NoLimit PROVE Def(type, node.field).default <= DefaultLimit
  <2>1. node.field = "contracts" => ContractsLimit <= DefaultLimit
    BY <1>1, <1>2, <1>6 DEF LimitsGiven
  <2> HIDE DEF node
  <2>2. QED
    BY <1>4, <2>1, Bounds DEF FieldDefs
<1>7. QED
  BY <1>2, <1>3, <1>4, <1>5, <1>6 DEF FieldOf, IsField, FieldDefs

LEMMA SizesAreNumbers ==
    ASSUME NEW Num \in {Nat, Int}, NEW A, NEW f, IsField(f, A, Num)
    PROVE  OwnLimit(f) \in Num /\ PageOf(f) \in Num /\ Multiplier(f) \in Num
<1>1. Nat \subseteq Num /\ f.page \in Num /\ f.limit \in Num \cup {NoLimit}
  BY DEF IsField
<1>2. OwnLimit(f) \in Num
  BY <1>1, Bounds DEF OwnLimit
<1>3. PageOf(f) \in Num
  BY <1>1, <1>2 DEF PageOf
<1>4. Multiplier(f) \in Num
  BY <1>1, <1>2, Bounds DEF Multiplier
<1>5. QED
  BY <1>2, <1>3, <1>4

\* What holds of 0, and of a number with the one before it, holds of them all.
LEMMA ByInduction ==
    ASSUME NEW S \in SUBSET Nat, 0 \in S, \A n \in S : n + 1 \in S
    PROVE  S = Nat
<1> DEFINE rest == Nat \ S
<1>1. SUFFICES ASSUME rest # {} PROVE FALSE
  OBVIOUS
<1> DEFINE least == Min(rest)
<1>2. least \in rest /\ \A x \in rest : least <= x
  <2>1. rest \in SUBSET Nat
    OBVIOUS
  <2> HIDE DEF rest
  <2>2. QED
    BY <1>1, <2>1, MinIsLeast
<1> HIDE DEF least
<1>3. least \in Nat /\ least # 0
  BY <1>2
<1>4. least - 1 \in S
  BY <1>2, <1>3
<1>5. QED
  BY <1>2, <1>3, <1>4

\* The last n selections.
Low(n) == {j \in Nodes : j + n > Len(Selection)}

\* What a field holds, and what is left beside it, begins after it.
LEMMA GoesDown ==
    ASSUME NEW Num \in {Nat, Int}, NEW A, Safe(A, Num), NEW n \in Nat,
           NEW sels \in SUBSET A, sels \in SUBSET Low(n + 1), sels # {},
           NEW type \in Types, NEW page \in Num, NEW path
    PROVE  LET f == FieldOf(sels, Earliest(sels), type, page, path)
           IN  /\ Earliest(sels) \in sels /\ IsField(f, A, Num)
               /\ f.kids \in SUBSET Low(n)
               /\ sels \ Merged(sels, Earliest(sels)) \in SUBSET Low(n)
<1>1. sels \in SUBSET Nodes /\ sels \in SUBSET Nat /\ Len(Selection) \in Nat
  BY NodeFacts, GqlAssumption DEF Low
<1> DEFINE i == Earliest(sels)
           f == FieldOf(sels, i, type, page, path)
<1>2. i \in sels /\ \A j \in sels : i <= j
  BY <1>1, EarliestIsLeast
<1>3. IsField(f, A, Num)
  BY <1>2, FieldOfIsField
<1>4. i \in Nat /\ i + n + 1 > Len(Selection)
  <2> HIDE DEF i
  <2>1. i \in Low(n + 1) /\ i \in Nat
    BY <1>1, <1>2
  <2>2. QED
    BY <1>1, <2>1 DEF Low
<1>5. ASSUME NEW k \in f.kids PROVE k \in Low(n)
  <2>1. PICK j \in Merged(sels, i) : k \in Selection[j].kids
    BY <1>5 DEF FieldOf, Included, Inside
  <2>2. j \in Nodes /\ j \in Nat /\ i <= j
    BY <1>1, <1>2 DEF Merged
  <2>3. k \in Nodes /\ k \in Nat /\ k > j
    BY <2>1, <2>2, NodeFacts
  <2> HIDE DEF i, f
  <2>4. QED
    BY <1>1, <1>4, <2>2, <2>3 DEF Low
<1>6. ASSUME NEW k \in sels \ Merged(sels, i) PROVE k \in Low(n)
  <2>1. k \in sels /\ k # i
    BY <1>2 DEF Merged
  <2>2. k \in Nat /\ k > i
    BY <1>1, <1>2, <1>4, <2>1
  <2> HIDE DEF i
  <2>3. QED
    BY <1>1, <1>4, <2>1, <2>2 DEF Low
<1>7. QED
  BY <1>1, <1>2, <1>3, <1>5, <1>6

Asked(A, Num) == (SUBSET A) \X Types \X Num
\* What the definition of `cost` says of the cost of x, where the costs of what it is
\* made of are g's.
Unfolded(g, asked) ==
    LET sels == asked[1]
        f == FieldOf(sels, Earliest(sels), asked[2], asked[3], <<>>)
    IN IF sels = {} THEN 0
       ELSE 1 + (IF f.def.type = "scalar" THEN 0
                 ELSE Multiplier(f) * g[<<f.kids, f.def.type, PageOf(f)>>])
              + g[<<sels \ Merged(sels, Earliest(sels)), asked[2], asked[3]>>]

LEMMA TypesOfSchema == DOMAIN Schema = Types
  BY DEF Schema, Types

LEMMA CostIsChosen == cost = CHOOSE g : g = [asked \in Asked(Nodes, Int) |-> Unfolded(g, asked)]
<1>1. Walk = Asked(Nodes, Int)
  BY TypesOfSchema DEF Walk, Asked
<1>2. cost = CHOOSE g : g = [asked \in Walk |-> Unfolded(g, asked)]
  BY DEF cost, Unfolded
<1>3. QED
  BY <1>1, <1>2, Zenon

\* The cost of x rests on costs of what begins after it.
LEMMA RestsBelow ==
    ASSUME NEW Num \in {Nat, Int}, NEW A, Safe(A, Num), NEW n \in Nat,
           NEW x \in Asked(A, Num), x[1] \in SUBSET Low(n + 1), NEW g, NEW h,
           \A y \in Asked(A, Num) : y[1] \in SUBSET Low(n) => g[y] = h[y] /\ g[y] \in Num
    PROVE  Unfolded(g, x) = Unfolded(h, x) /\ Unfolded(g, x) \in Num
<1>0. Nat \subseteq Num
  OBVIOUS
<1>1. CASE x[1] = {}
  BY <1>0, <1>1 DEF Unfolded
<1>2. CASE x[1] # {}
  <2> DEFINE f == FieldOf(x[1], Earliest(x[1]), x[2], x[3], <<>>)
             y == <<f.kids, f.def.type, PageOf(f)>>
             z == <<x[1] \ Merged(x[1], Earliest(x[1])), x[2], x[3]>>
             below == IF f.def.type = "scalar" THEN 0 ELSE Multiplier(f) * g[y]
  <2>1. x[1] \in SUBSET A /\ x[2] \in Types /\ x[3] \in Num
    BY DEF Asked
  <2>2. /\ IsField(f, A, Num) /\ f.kids \in SUBSET Low(n)
        /\ x[1] \ Merged(x[1], Earliest(x[1])) \in SUBSET Low(n)
    <3>1. \A S \in SUBSET A, t \in Types, p \in Num : S \in SUBSET Low(n + 1) /\ S # {} =>
            LET e == FieldOf(S, Earliest(S), t, p, <<>>)
            IN  /\ IsField(e, A, Num) /\ e.kids \in SUBSET Low(n)
                /\ S \ Merged(S, Earliest(S)) \in SUBSET Low(n)
      BY GoesDown
    <3> HIDE DEF y, z, below
    <3>2. QED
      BY <1>2, <2>1, <3>1
  <2>3. g[z] = h[z] /\ g[z] \in Num
    <3>1. z \in Asked(A, Num) /\ z[1] \in SUBSET Low(n)
      BY <2>1, <2>2 DEF Asked
    <3> HIDE DEF z
    <3>2. QED
      BY <3>1
  <2>4. ASSUME f.def.type # "scalar" PROVE g[y] = h[y] /\ g[y] \in Num
    <3> HIDE DEF f
    <3>1. f.def.type \in Types /\ PageOf(f) \in Num /\ f.kids \in SUBSET A
      BY <2>2, <2>4, SizesAreNumbers DEF IsField, FieldDef
    <3>2. y \in Asked(A, Num) /\ y[1] = f.kids
      BY <3>1 DEF Asked
    <3> HIDE DEF y
    <3>3. QED
      BY <2>2, <3>2
  <2>5. Multiplier(f) \in Num
    BY <2>2, SizesAreNumbers
  <2>6. Unfolded(g, x) = 1 + below + g[z]
    BY <1>2 DEF Unfolded
  <2>7. Unfolded(h, x) = 1 + (IF f.def.type = "scalar" THEN 0 ELSE Multiplier(f) * h[y]) + h[z]
    BY <1>2 DEF Unfolded
  <2> HIDE DEF f, y, z
  <2>8. below \in Num
    BY <1>0, <2>4, <2>5, NumbersAreClosed
  <2>9. Unfolded(h, x) = 1 + below + g[z]
    BY <2>3, <2>4, <2>7
  <2> HIDE DEF below
  <2>10. 1 + below + g[z] \in Num
    <3>1. 1 + below \in Num
      BY <1>0, <2>8, NumbersAreClosed
    <3>2. QED
      BY <2>3, <3>1, NumbersAreClosed
  <2>11. QED
    BY <2>6, <2>9, <2>10
<1>3. QED
  BY <1>1, <1>2

LEMMA AllAreLow == \A S \in SUBSET Nodes : S \in SUBSET Low(Len(Selection))
<1>1. Len(Selection) \in Nat /\ Nodes \subseteq Nat /\ \A i \in Nodes : i \in 1..Len(Selection)
  BY GqlAssumption, NodeFacts
<1>2. \A i \in Nodes : i \in Low(Len(Selection))
  BY <1>1 DEF Low
<1>3. QED
  BY <1>2

\* The definition of `cost` has a solution, as it goes down the document.
LEMMA CostExists ==
    \E g \in [Asked(Nodes, Int) -> Int] : g = [x \in Asked(Nodes, Int) |-> Unfolded(g, x)]
<1> DEFINE Solves(g, n) == \A x \in Asked(Nodes, Int) : x[1] \in SUBSET Low(n) => g[x] = Unfolded(g, x)
           S == {n \in Nat : \E g \in [Asked(Nodes, Int) -> Int] : Solves(g, n)}
<1>0. Low(0) = {}
  BY NodeFacts, GqlAssumption DEF Low
<1>1. 0 \in S
  <2> DEFINE g == [x \in Asked(Nodes, Int) |-> 0]
  <2>1. Solves(g, 0)
    BY <1>0 DEF Unfolded
  <2>2. g \in [Asked(Nodes, Int) -> Int]
    OBVIOUS
  <2> HIDE DEF g, Solves
  <2>3. QED
    BY <2>1, <2>2
<1>2. ASSUME NEW n \in S PROVE n + 1 \in S
  <2>1. n \in Nat
    OBVIOUS
  <2>2. PICK g \in [Asked(Nodes, Int) -> Int] : Solves(g, n)
    BY <1>2
  <2> DEFINE h == [x \in Asked(Nodes, Int) |-> IF x[1] \in SUBSET Low(n + 1) THEN Unfolded(g, x) ELSE 0]
  <2>3. ASSUME NEW x \in Asked(Nodes, Int), x[1] \in SUBSET Low(n + 1), NEW k
        PROVE  Unfolded(g, x) \in Int
    BY <2>1, <2>2, <2>3, RestsBelow, AllAreSafe
  <2>4. h \in [Asked(Nodes, Int) -> Int]
    BY <2>3
  <2>5. ASSUME NEW y \in Asked(Nodes, Int), y[1] \in SUBSET Low(n) PROVE g[y] = h[y] /\ g[y] \in Int
    <3>1. Low(n) \subseteq Low(n + 1)
      BY <2>1, NodeFacts, GqlAssumption DEF Low
    <3>2. QED
      BY <2>2, <2>5, <3>1
  <2>6. ASSUME NEW x \in Asked(Nodes, Int), x[1] \in SUBSET Low(n + 1) PROVE h[x] = Unfolded(h, x)
    <3>1. h[x] = Unfolded(g, x)
      BY <2>6
    <3> HIDE DEF h, S, Solves
    <3>2. \A y \in Asked(Nodes, Int) : y[1] \in SUBSET Low(n) => g[y] = h[y] /\ g[y] \in Int
      BY <2>5
    <3>3. Unfolded(g, x) = Unfolded(h, x)
      BY <2>1, <2>6, <3>2, RestsBelow, AllAreSafe
    <3>4. QED
      BY <3>1, <3>3
  <2> HIDE DEF h
  <2>7. Solves(h, n + 1)
    BY <2>6
  <2> HIDE DEF Solves
  <2>8. QED
    BY <2>1, <2>4, <2>7
<1>3. Len(Selection) \in S
  <2>1. S \in SUBSET Nat
    OBVIOUS
  <2> HIDE DEF S
  <2>2. S = Nat
    BY <1>1, <1>2, <2>1, ByInduction
  <2>3. QED
    BY <2>2, GqlAssumption
<1>4. PICK g \in [Asked(Nodes, Int) -> Int] : Solves(g, Len(Selection))
  BY <1>3
<1>5. \A x \in Asked(Nodes, Int) : g[x] = Unfolded(g, x)
  BY <1>4, AllAreLow DEF Asked
<1>6. g = [x \in Asked(Nodes, Int) |-> Unfolded(g, x)]
  BY <1>5
<1>7. QED
  BY <1>6

\* The cost is what its definition says.
LEMMA CostUnfolds == \A x \in Asked(Nodes, Int) : cost[x] = Unfolded(cost, x)
<1>1. cost = [x \in Asked(Nodes, Int) |-> Unfolded(cost, x)]
  <2> DEFINE Fix(g) == g = [x \in Asked(Nodes, Int) |-> Unfolded(g, x)]
  <2>1. \E g : Fix(g)
    BY CostExists
  <2>2. cost = CHOOSE g : Fix(g)
    BY CostIsChosen
  <2> HIDE DEF Fix
  <2>3. Fix(cost)
    BY <2>1, <2>2, Zenon
  <2>4. QED
    BY <2>3 DEF Fix
<1>2. QED
  BY <1>1, Zenon

\* In a document without a limit below 0 it is a natural number.
LEMMA CostIsNatural ==
    ASSUME NEW A, Safe(A, Nat), NEW x \in Asked(A, Nat)
    PROVE  cost[x] \in Nat
<1> DEFINE S == {n \in Nat : \A y \in Asked(A, Nat) : y[1] \in SUBSET Low(n) => cost[y] \in Nat}
<1>1. \A y \in Asked(A, Nat) : y[1] \in SUBSET Nodes /\ cost[y] = Unfolded(cost, y)
  BY CostUnfolds DEF Asked, Safe
<1>2. 0 \in S
  <2>1. Low(0) = {}
    BY NodeFacts, GqlAssumption DEF Low
  <2>2. ASSUME NEW y \in Asked(A, Nat), y[1] \in SUBSET Low(0) PROVE cost[y] \in Nat
    <3>1. y[1] = {}
      BY <2>1, <2>2
    <3>2. Unfolded(cost, y) = 0
      BY <3>1 DEF Unfolded
    <3>3. QED
      BY <1>1, <3>2
  <2>3. QED
    BY <2>2
<1>3. ASSUME NEW n \in S PROVE n + 1 \in S
  <2>1. n \in Nat /\ \A y \in Asked(A, Nat) : y[1] \in SUBSET Low(n) => cost[y] \in Nat
    OBVIOUS
  <2>2. ASSUME NEW y \in Asked(A, Nat), y[1] \in SUBSET Low(n + 1) PROVE cost[y] \in Nat
    <3>1. Unfolded(cost, y) \in Nat
      BY <2>1, <2>2, RestsBelow
    <3>2. QED
      BY <1>1, <3>1
  <2>3. QED
    BY <2>1, <2>2
<1>4. S = Nat
  <2>1. S \in SUBSET Nat
    OBVIOUS
  <2> HIDE DEF S
  <2>2. QED
    BY <1>2, <1>3, <2>1, ByInduction
<1>5. QED
  BY <1>1, <1>4, AllAreLow, GqlAssumption

-----------------------------------------------------------------------------
(* GraphQL: a field that is being resolved holds as many fields in reserve as its price  *)
(* allows for, and pays with them for those that its answer starts.                      *)

Price(f) == 1 + (IF f.def.type = "scalar" THEN 0
                 ELSE Multiplier(f) * cost[<<f.kids, f.def.type, PageOf(f)>>])
Spare(F) == UNION {{f} \X (1..(Price(f) - 1)) : f \in F}
\* The fields F of the nodes A, with what they hold in reserve, are n at most.
Within(A, F, n) ==
    /\ IsFiniteSet(F) /\ IsFiniteSet(Spare(F)) /\ \A f \in F : IsField(f, A, Nat)
    /\ n \in Nat /\ Cardinality(F) + Cardinality(Spare(F)) <= n

LEMMA PriceIsNatural ==
    ASSUME NEW A, Safe(A, Nat), NEW f, IsField(f, A, Nat)
    PROVE  Price(f) \in Nat \ {0}
<1>1. CASE f.def.type = "scalar"
  BY <1>1 DEF Price
<1>2. CASE f.def.type # "scalar"
  <2> DEFINE x == <<f.kids, f.def.type, PageOf(f)>>
  <2>1. PageOf(f) \in Nat /\ Multiplier(f) \in Nat
    BY SizesAreNumbers
  <2>2. x \in Asked(A, Nat)
    BY <1>2, <2>1 DEF Asked, IsField, FieldDef
  <2>3. Price(f) = 1 + Multiplier(f) * cost[x]
    BY <1>2 DEF Price
  <2> HIDE DEF x
  <2>4. cost[x] \in Nat
    BY <2>2, CostIsNatural
  <2>5. QED
    BY <2>1, <2>3, <2>4
<1>3. QED
  BY <1>1, <1>2

LEMMA NoneWithin == \A A : Within(A, {}, 0)
<1>1. Spare({}) = {}
  BY DEF Spare
<1>2. QED
  BY <1>1, FS_EmptySet DEF Within

LEMMA OneWithin ==
    ASSUME NEW A, Safe(A, Nat), NEW f, IsField(f, A, Nat)
    PROVE  Within(A, {f}, Price(f)) /\ Cardinality(Spare({f})) = Price(f) - 1
<1>1. Price(f) \in Nat /\ Price(f) # 0
  BY PriceIsNatural
<1> DEFINE units == 1..(Price(f) - 1)
<1>2. IsFiniteSet(units) /\ Cardinality(units) = Price(f) - 1
  <2>1. 1 \in Int /\ Price(f) - 1 \in Int
    BY <1>1
  <2>2. IsFiniteSet(units) /\ Cardinality(units) = IF 1 > Price(f) - 1 THEN 0 ELSE Price(f) - 1 - 1 + 1
    BY <2>1, FS_Interval
  <2> HIDE DEF units
  <2>3. QED
    BY <1>1, <2>2
<1>3. IsFiniteSet({f}) /\ Cardinality({f}) = 1
  BY FS_Singleton
<1>4. Spare({f}) = {f} \X units
  BY DEF Spare
<1> HIDE DEF units
<1>5. IsFiniteSet({f} \X units) /\ Cardinality({f} \X units) = Price(f) - 1
  BY <1>1, <1>2, <1>3, FS_Product
<1>6. Cardinality(Spare({f})) = Price(f) - 1 /\ IsFiniteSet(Spare({f}))
  BY <1>4, <1>5
<1>7. Cardinality({f}) + Cardinality(Spare({f})) <= Price(f)
  BY <1>1, <1>3, <1>6
<1>8. QED
  BY <1>1, <1>3, <1>6, <1>7 DEF Within

LEMMA SpareIsUnion ==
    ASSUME NEW F, NEW G
    PROVE  /\ Spare(F \cup G) = Spare(F) \cup Spare(G)
           /\ F \cap G = {} => Spare(F) \cap Spare(G) = {}
  BY DEF Spare

LEMMA UnionIsSmaller ==
    ASSUME NEW A, IsFiniteSet(A), NEW B, IsFiniteSet(B)
    PROVE  /\ IsFiniteSet(A \cup B)
           /\ Cardinality(A) \in Nat /\ Cardinality(B) \in Nat /\ Cardinality(A \cup B) \in Nat
           /\ Cardinality(A \cup B) <= Cardinality(A) + Cardinality(B)
           /\ A \cap B = {} => Cardinality(A \cup B) = Cardinality(A) + Cardinality(B)
<1>1. IsFiniteSet(A \cap B) /\ IsFiniteSet(A \cup B)
  BY FS_Intersection, FS_Union
<1>2. Cardinality(A \cup B) = Cardinality(A) + Cardinality(B) - Cardinality(A \cap B)
  BY FS_Union
<1>3. Cardinality(A) \in Nat /\ Cardinality(B) \in Nat /\ Cardinality(A \cap B) \in Nat
      /\ Cardinality(A \cup B) \in Nat
  BY <1>1, FS_CardinalityType
<1>4. A \cap B = {} => Cardinality(A \cap B) = 0
  BY FS_EmptySet
<1>5. QED
  BY <1>1, <1>2, <1>3, <1>4

\* Together they are no more than each with its reserve.
LEMMA UnionWithin ==
    ASSUME NEW A, NEW F, NEW m, Within(A, F, m), NEW G, NEW n, Within(A, G, n)
    PROVE  Within(A, F \cup G, m + n)
<1>1. Spare(F \cup G) = Spare(F) \cup Spare(G)
  BY SpareIsUnion
<1> DEFINE S == Spare(F)
           T == Spare(G)
<1>2. IsFiniteSet(F) /\ IsFiniteSet(G) /\ IsFiniteSet(S) /\ IsFiniteSet(T) /\ m \in Nat /\ n \in Nat
      /\ Cardinality(F) + Cardinality(S) <= m /\ Cardinality(G) + Cardinality(T) <= n
  BY DEF Within
<1> HIDE DEF S, T
<1>3. /\ IsFiniteSet(F \cup G)
      /\ Cardinality(F) \in Nat /\ Cardinality(G) \in Nat /\ Cardinality(F \cup G) \in Nat
      /\ Cardinality(F \cup G) <= Cardinality(F) + Cardinality(G)
  BY <1>2, UnionIsSmaller
<1>4. /\ IsFiniteSet(S \cup T)
      /\ Cardinality(S) \in Nat /\ Cardinality(T) \in Nat /\ Cardinality(S \cup T) \in Nat
      /\ Cardinality(S \cup T) <= Cardinality(S) + Cardinality(T)
  BY <1>2, UnionIsSmaller
<1>5. Cardinality(F \cup G) + Cardinality(S \cup T) <= m + n
  BY <1>2, <1>3, <1>4
<1>6. \A f \in F \cup G : IsField(f, A, Nat)
  BY DEF Within
<1>7. Spare(F \cup G) = S \cup T
  BY <1>1 DEF S, T
<1>8. IsFiniteSet(Spare(F \cup G)) /\ Cardinality(F \cup G) + Cardinality(Spare(F \cup G)) <= m + n
  BY <1>4, <1>5, <1>7
<1>9. m + n \in Nat
  BY <1>2
<1>10. QED
  BY <1>3, <1>6, <1>8, <1>9 DEF Within

LEMMA MoreWithin ==
    ASSUME NEW A, NEW F, NEW m, Within(A, F, m), NEW n \in Nat, m <= n
    PROVE  Within(A, F, n)
<1>1. Cardinality(F) \in Nat /\ Cardinality(Spare(F)) \in Nat
  BY FS_CardinalityType DEF Within
<1>2. QED
  BY <1>1 DEF Within

\* The fields of an object are, with their reserves, what its cost allows for.
LEMMA FirstAndRest ==
    ASSUME NEW sels, NEW i \in sels, NEW type, NEW page, NEW path
    PROVE  LET f == FieldOf(sels, i, type, page, path) IN
           Fields(sels, type, page, path)
              = (IF f.name = "__typename" THEN {} ELSE {f})
                \cup Fields(sels \ Merged(sels, i), type, page, path)
<1> DEFINE rest == sels \ Merged(sels, i)
           f == FieldOf(sels, i, type, page, path)
<1>2. ASSUME NEW j \in Merged(sels, i)
      PROVE  FieldOf(sels, j, type, page, path) = FieldOf(sels, i, type, page, path)
  <2>1. Merged(sels, j) = Merged(sels, i)
    BY <1>2 DEF Merged
  <2>2. QED
    BY <2>1 DEF FieldOf
<1>3. ASSUME NEW j \in rest
      PROVE  j \in sels /\ FieldOf(rest, j, type, page, path) = FieldOf(sels, j, type, page, path)
  <2>1. Merged(rest, j) = Merged(sels, j)
    BY <1>3 DEF Merged
  <2>2. QED
    BY <1>3, <2>1 DEF FieldOf
<1>4. sels = Merged(sels, i) \cup rest
  BY DEF Merged
<1>5. i \in Merged(sels, i)
  BY DEF Merged
<1> HIDE DEF rest
<1>6. {FieldOf(sels, j, type, page, path) : j \in sels}
         = {FieldOf(sels, i, type, page, path)} \cup {FieldOf(rest, j, type, page, path) : j \in rest}
  BY <1>2, <1>3, <1>4, <1>5
<1> DEFINE all == {FieldOf(sels, j, type, page, path) : j \in sels}
           others == {FieldOf(rest, j, type, page, path) : j \in rest}
<1>7. /\ Fields(sels, type, page, path) = {g \in all : g.name # "__typename"}
      /\ Fields(rest, type, page, path) = {g \in others : g.name # "__typename"}
  BY DEF Fields
<1> HIDE DEF all, others
<1>8. all = {f} \cup others
  BY <1>6 DEF all, others
<1> HIDE DEF f
<1>9. QED
  BY <1>7, <1>8 DEF f, rest

LEMMA PriceOfFirst ==
    ASSUME NEW sels \in SUBSET Nodes, sels # {}, NEW type \in Types, NEW page \in Int, NEW path
    PROVE  cost[<<sels, type, page>>]
              = Price(FieldOf(sels, Earliest(sels), type, page, path))
                + cost[<<sels \ Merged(sels, Earliest(sels)), type, page>>]
<1> DEFINE x == <<sels, type, page>>
           f == FieldOf(sels, Earliest(sels), type, page, path)
           e == FieldOf(sels, Earliest(sels), type, page, <<>>)
<1>1. x \in Asked(Nodes, Int)
  BY DEF Asked
<1>2. cost[x] = Unfolded(cost, x)
  BY <1>1, CostUnfolds
<1>3. Unfolded(cost, x) = Price(e) + cost[<<sels \ Merged(sels, Earliest(sels)), type, page>>]
  BY DEF Unfolded, Price
<1>4. f.def = e.def /\ f.limit = e.limit /\ f.kids = e.kids /\ f.page = e.page
  BY DEF FieldOf
<1> HIDE DEF e, f
<1>5. Price(f) = Price(e)
  BY <1>4 DEF Price, PageOf, OwnLimit, Multiplier
<1>6. QED
  BY <1>2, <1>3, <1>5 DEF f

LEMMA FieldsWithin ==
    ASSUME NEW A, Safe(A, Nat), NEW sels \in SUBSET A, NEW type \in Types, NEW page \in Nat, NEW path
    PROVE  Within(A, Fields(sels, type, page, path), cost[<<sels, type, page>>])
<1> DEFINE Holds(s) == Within(A, Fields(s, type, page, path), cost[<<s, type, page>>])
           S == {n \in Nat : \A s \in SUBSET A : s \in SUBSET Low(n) => Holds(s)}
<1>0. A \in SUBSET Nodes /\ \A s \in SUBSET A : cost[<<s, type, page>>] \in Nat
  <2>1. \A s \in SUBSET A : <<s, type, page>> \in Asked(A, Nat)
    BY DEF Asked
  <2>2. QED
    BY <2>1, CostIsNatural DEF Safe
<1>1. Holds({})
  <2>1. Fields({}, type, page, path) = {}
    BY DEF Fields
  <2>2. <<{}, type, page>> \in Asked(Nodes, Int)
    BY DEF Asked
  <2>3. cost[<<{}, type, page>>] = 0
    BY <2>2, CostUnfolds DEF Unfolded
  <2>4. QED
    BY <2>1, <2>3, NoneWithin
<1>2. 0 \in S
  <2>1. Low(0) = {}
    BY NodeFacts, GqlAssumption DEF Low
  <2> HIDE DEF Holds
  <2>2. QED
    BY <1>1, <2>1
<1>3. ASSUME NEW n \in S PROVE n + 1 \in S
  <2>0. n \in Nat
    OBVIOUS
  <2>1. ASSUME NEW s \in SUBSET A, s \in SUBSET Low(n + 1), s # {} PROVE Holds(s)
    <3> DEFINE f == FieldOf(s, Earliest(s), type, page, path)
               rest == s \ Merged(s, Earliest(s))
               first == IF f.name = "__typename" THEN {} ELSE {f}
    <3>1. IsField(f, A, Nat) /\ Earliest(s) \in s /\ rest \in SUBSET Low(n) /\ rest \in SUBSET A
      BY <2>0, <2>1, GoesDown
    <3>2. Fields(s, type, page, path) = first \cup Fields(rest, type, page, path)
      BY <3>1, FirstAndRest
    <3>3. cost[<<s, type, page>>] = Price(f) + cost[<<rest, type, page>>]
      BY <1>0, <2>1, PriceOfFirst
    <3>4. Holds(rest)
      BY <1>3, <3>1
    <3> HIDE DEF f, rest
    <3>5. Within(A, first, Price(f))
      <4>1. Price(f) \in Nat
        BY <3>1, PriceIsNatural
      <4>2. Within(A, {f}, Price(f)) /\ Within(A, {}, Price(f))
        BY <3>1, <4>1, OneWithin, NoneWithin, MoreWithin
      <4>3. QED
        BY <4>2
    <3> HIDE DEF first
    <3>6. Within(A, first \cup Fields(rest, type, page, path), Price(f) + cost[<<rest, type, page>>])
      BY <3>4, <3>5, UnionWithin
    <3>7. QED
      BY <3>2, <3>3, <3>6
  <2> HIDE DEF Holds
  <2>2. QED
    BY <1>1, <2>0, <2>1
<1>4. S = Nat
  <2>1. S \in SUBSET Nat
    OBVIOUS
  <2> HIDE DEF S
  <2>2. QED
    BY <1>2, <1>3, <2>1, ByInduction
<1> HIDE DEF Holds
<1>5. Holds(sels)
  BY <1>0, <1>4, AllAreLow, GqlAssumption
<1>6. QED
  BY <1>5 DEF Holds

\* n items hold n times what one of them may.
LEMMA ObjectsWithin ==
    ASSUME NEW A, Safe(A, Nat), NEW f, IsField(f, A, Nat), f.def.type # "scalar", NEW n \in Nat
    PROVE  Within(A, Objects(f, n), n * cost[<<f.kids, f.def.type, PageOf(f)>>])
<1> DEFINE c == cost[<<f.kids, f.def.type, PageOf(f)>>]
           each(i) == Fields(f.kids, f.def.type, PageOf(f), Item(f, i))
           S == {k \in Nat : Within(A, Objects(f, k), k * c)}
<1>1. f.kids \in SUBSET A /\ f.def.type \in Types /\ PageOf(f) \in Nat
  BY SizesAreNumbers DEF IsField, FieldDef
<1>2. \A i : Within(A, each(i), c)
  BY <1>1, FieldsWithin
<1>3. c \in Nat
  BY <1>2 DEF Within
<1>4. Objects(f, 0) = {}
  BY DEF Objects
<1>5. \A k \in Nat : Objects(f, k + 1) = Objects(f, k) \cup each(k + 1)
  <2>1. ASSUME NEW k \in Nat PROVE 1..(k + 1) = (1..k) \cup {k + 1}
    OBVIOUS
  <2>2. \A k : Objects(f, k) = UNION {each(i) : i \in 1..k}
    BY DEF Objects
  <2> HIDE DEF each
  <2>3. QED
    BY <2>1, <2>2
<1> HIDE DEF c, each
<1>6. 0 \in S
  <2>1. 0 * c = 0
    BY <1>3
  <2>2. QED
    BY <1>4, <2>1, NoneWithin
<1>7. ASSUME NEW k \in S PROVE k + 1 \in S
  <2>1. k \in Nat /\ Within(A, Objects(f, k), k * c)
    OBVIOUS
  <2>2. Within(A, Objects(f, k) \cup each(k + 1), k * c + c)
    BY <1>2, <2>1, UnionWithin
  <2>3. (k + 1) * c = k * c + c
    BY <1>3, <2>1
  <2>4. Objects(f, k + 1) = Objects(f, k) \cup each(k + 1)
    BY <1>5, <2>1
  <2>5. Within(A, Objects(f, k + 1), (k + 1) * c)
    BY <2>2, <2>3, <2>4
  <2>6. QED
    BY <2>1, <2>5
<1>8. S = Nat
  <2>1. S \in SUBSET Nat
    OBVIOUS
  <2> HIDE DEF S
  <2>2. QED
    BY <1>6, <1>7, <2>1, ByInduction
<1>9. QED
  BY <1>8 DEF c

LEMMA Monotone == ASSUME NEW c \in Nat, NEW a \in Nat, NEW b \in Nat, a <= b PROVE a * c <= b * c /\ b * c \in Nat
  OBVIOUS

\* Whatever it is answered, a field starts no more than it has in reserve.
LEMMA AnswerWithin ==
    ASSUME LimitsGiven, NEW A, Safe(A, Nat), NEW f, IsField(f, A, Nat), f.def.type # "scalar",
           f.limit \in {NoLimit} \cup 1..MaxLimit,
           NEW n \in IF f.def.list THEN 0..AtMost(f) ELSE {1}
    PROVE  Within(A, Objects(f, n), Price(f) - 1)
<1> DEFINE c == cost[<<f.kids, f.def.type, PageOf(f)>>]
<1>1. Multiplier(f) \in Nat /\ PageOf(f) \in Nat
  BY SizesAreNumbers
<1>2. n \in Nat /\ n <= Multiplier(f)
  <2>1. CASE ~f.def.list
    <3>1. n = 1
      BY <2>1
    <3>2. Multiplier(f) = 1
      BY <2>1 DEF Multiplier
    <3>3. QED
      BY <3>1, <3>2
  <2>2. CASE f.def.list
    <3>1. AtMost(f) \in Nat /\ AtMost(f) <= Multiplier(f)
      <4>1. CASE f.def.size = "limit" /\ f.limit = NoLimit
        BY <2>2, <4>1, Bounds DEF IsField, FieldDef, AtMost, Multiplier, OwnLimit
      <4>2. CASE f.def.size = "limit" /\ f.limit # NoLimit
        BY <2>2, <4>2, Bounds DEF IsField, FieldDef, AtMost, Multiplier, OwnLimit
      <4>3. CASE f.def.size # "limit"
        BY <2>2, <4>3, Bounds DEF IsField, FieldDef, AtMost, Multiplier
      <4>4. QED
        BY <4>1, <4>2, <4>3
    <3>2. n \in Nat /\ n <= AtMost(f)
      BY <2>2, <3>1
    <3>3. QED
      BY <1>1, <3>1, <3>2
  <2>3. QED
    BY <2>1, <2>2
<1>3. Within(A, Objects(f, n), n * c)
  BY <1>2, ObjectsWithin
<1>4. c \in Nat
  <2>1. <<f.kids, f.def.type, PageOf(f)>> \in Asked(A, Nat)
    BY <1>1 DEF IsField, FieldDef, Asked
  <2>2. QED
    BY <2>1, CostIsNatural
<1>5. Price(f) - 1 = Multiplier(f) * c
  <2> DEFINE m == Multiplier(f) * c
  <2>1. m \in Nat
    BY <1>1, <1>4
  <2>2. Price(f) = 1 + m
    BY DEF Price
  <2> HIDE DEF m
  <2>3. Price(f) - 1 = m
    BY <2>1, <2>2
  <2>4. QED
    BY <2>3 DEF m
<1> HIDE DEF c
<1>6. n * c <= Multiplier(f) * c /\ Multiplier(f) * c \in Nat
  BY <1>1, <1>2, <1>4, Monotone
<1>7. QED
  BY <1>3, <1>5, <1>6, MoreWithin

\* The fields up to one that a walk adds up in its turn are the fields of the selections
\* up to it, and the last of them but __typename is held against the limit with them all.
LEMMA LastIsHeld ==
    ASSUME NEW A, Safe(A, Nat), NEW sels \in SUBSET A, NEW type \in Types, NEW page \in Nat, NEW path,
           ~Exceeds(<<sels, type, page>>)
    PROVE  Within(A, Fields(sels, type, page, path), MaxComplexity)
<1> DEFINE Leader(i) == Earliest(Merged(sels, i))
           held == {i \in sels : Leader(i) = i /\ Selection[i].field # "__typename"}
           F == Fields(sels, type, page, path)
<1>1. sels \in SUBSET Nat /\ Len(Selection) \in Nat /\ \A i \in sels : i <= Len(Selection)
  BY NodeFacts, GqlAssumption DEF Safe
<1>2. ASSUME NEW i \in sels
      PROVE  /\ Leader(i) \in sels /\ Leader(i) \in Merged(sels, i)
             /\ Merged(sels, Leader(i)) = Merged(sels, i) /\ Leader(Leader(i)) = Leader(i)
  <2>1. Leader(i) \in Merged(sels, i)
    BY <1>2, FieldOfIsField
  <2>2. Merged(sels, Leader(i)) = Merged(sels, i)
    BY <2>1 DEF Merged
  <2>3. QED
    BY <2>1, <2>2 DEF Merged
<1>3. ASSUME NEW i \in sels, FieldOf(sels, i, type, page, path).name # "__typename"
      PROVE  Leader(i) \in held
  <2>1. FieldOf(sels, i, type, page, path).name = Selection[Leader(i)].field
    BY DEF FieldOf
  <2>2. QED
    BY <1>2, <1>3, <2>1
<1>4. CASE held = {}
  <2>1. F = {}
    BY <1>3, <1>4 DEF Fields
  <2>2. QED
    BY <2>1, NoneWithin, MoreWithin, Bounds
<1>5. CASE held # {}
  <2> DEFINE last == Max(held)
             upTo == UpTo(sels, last)
  <2>1. last \in held /\ \A i \in held : i <= last
    <3>1. held \in SUBSET Nat /\ \A i \in held : i <= Len(Selection)
      BY <1>1
    <3> HIDE DEF held
    <3>2. QED
      BY <1>1, <1>5, <3>1, MaxIsGreatest
  <2> HIDE DEF last
  <2>2. upTo = {j \in sels : Leader(j) <= last}
    BY <2>1 DEF UpTo
  <2>3. ASSUME NEW j \in upTo
        PROVE  j \in sels /\ FieldOf(upTo, j, type, page, path) = FieldOf(sels, j, type, page, path)
    <3>1. \A k \in Merged(sels, j) : k \in sels /\ Merged(sels, k) = Merged(sels, j)
      BY <2>2 DEF Merged
    <3>2. \A k \in Merged(sels, j) : k \in upTo
      BY <2>2, <3>1
    <3> HIDE DEF upTo
    <3>3. Merged(upTo, j) = Merged(sels, j)
      BY <2>2, <3>2 DEF Merged
    <3>4. QED
      BY <2>2, <3>3 DEF FieldOf
  <2>4. ASSUME NEW j \in sels, FieldOf(sels, j, type, page, path).name # "__typename"
        PROVE  j \in upTo
    BY <1>3, <2>1, <2>2, <2>4
  <2> HIDE DEF upTo
  <2>5. F = Fields(upTo, type, page, path)
    <3> DEFINE all == {FieldOf(sels, i, type, page, path) : i \in sels}
               some == {FieldOf(upTo, i, type, page, path) : i \in upTo}
    <3>1. some \subseteq all
      BY <2>3
    <3>2. ASSUME NEW f \in all, f.name # "__typename" PROVE f \in some
      <4>1. PICK i \in sels : f = FieldOf(sels, i, type, page, path)
        OBVIOUS
      <4>2. QED
        BY <2>3, <2>4, <3>2, <4>1
    <3>3. /\ F = {f \in all : f.name # "__typename"}
          /\ Fields(upTo, type, page, path) = {f \in some : f.name # "__typename"}
      BY DEF Fields
    <3> HIDE DEF all, some, F
    <3>4. QED
      BY <3>1, <3>2, <3>3
  <2>6. ~(cost[<<upTo, type, page>>] > MaxComplexity)
    BY <2>1 DEF Exceeds, upTo
  <2>7. upTo \in SUBSET A
    BY <2>2
  <2>8. Within(A, F, cost[<<upTo, type, page>>])
    BY <2>5, <2>7, FieldsWithin
  <2> HIDE DEF F
  <2>9. cost[<<upTo, type, page>>] \in Nat
    BY <2>8 DEF Within
  <2>10. QED
    BY <2>6, <2>8, <2>9, MoreWithin, Bounds DEF F
<1>6. QED
  BY <1>4, <1>5

\* A document without a limit below 0 resolves no more than it holds in reserve.
Affordable ==
    /\ \A f \in running : IsField(f, doc, Nat)
    /\ IsFiniteSet(touched) /\ IsFiniteSet(Spare(running))
    /\ Cardinality(touched) + Cardinality(Spare(running)) <= MaxComplexity
GqlInv ==
    /\ doc \in Documents
    /\ phase \in {"asked", "rejected"} => running = {} /\ touched = {}
    /\ ~HasLimitBelowZero(doc) => Affordable

LEMMA InitGql == ASSUME GqlInit PROVE GqlInv
<1>1. running = {} /\ touched = {} /\ doc \in Documents
  BY DEF GqlInit
<1>2. Spare(running) = {}
  BY <1>1 DEF Spare
<1>3. /\ IsFiniteSet(touched) /\ IsFiniteSet(Spare(running))
      /\ Cardinality(touched) = 0 /\ Cardinality(Spare(running)) = 0
  BY <1>1, <1>2, FS_EmptySet
<1>4. QED
  BY <1>1, <1>3, Bounds DEF GqlInv, Affordable

LEMMA DocumentIsSafe ==
    ASSUME NEW d \in Documents, ~HasLimitBelowZero(d)
    PROVE  Safe(d, Nat)
<1>1. d \in SUBSET Nodes /\ Inside(d) \subseteq d
  BY GqlAssumption
<1>2. ASSUME NEW i \in d PROVE Selection[i].limit \in Nat \cup {NoLimit}
  <2>1. Selection[i].limit \in Int \cup {NoLimit}
    BY <1>1, NodeFacts
  <2>2. Selection[i].limit = NoLimit \/ ~(Selection[i].limit < 0)
    BY DEF HasLimitBelowZero
  <2>3. QED
    BY <2>1, <2>2
<1>3. QED
  BY <1>1, <1>2 DEF Safe

\* Fields are no fewer than their paths.
LEMMA PathsAreFewer ==
    ASSUME NEW F, IsFiniteSet(F)
    PROVE  LET paths == {f.path : f \in F} IN IsFiniteSet(paths) /\ Cardinality(paths) <= Cardinality(F)
<1> DEFINE paths == {f.path : f \in F}
           map == [f \in F |-> f.path]
<1>1. map \in Surjection(F, paths)
  BY DEF Surjection
<1> HIDE DEF map, paths
<1>2. QED
  BY <1>1, FS_Surjection DEF paths

LEMMA AnalyseKeeps == ASSUME GqlInv, Analyse PROVE GqlInv'
<1> DEFINE walk == FirstWalk(doc)
           accepted == ~(\/ depth[Outermost(doc)] > MaxDepth
                         \/ \E w \in {walk} \cup walksBelow[walk] : Exceeds(w))
<1>1. doc' = doc /\ doc \in Documents
  BY DEF Analyse, GqlInv
<1>2. CASE ~accepted
  <2>1. running' = running /\ touched' = touched /\ running = {} /\ touched = {}
    BY <1>2 DEF Analyse, GqlInv
  <2>2. HasLimitBelowZero(doc)' = HasLimitBelowZero(doc)
    BY <1>1 DEF HasLimitBelowZero
  <2>3. Spare(running)' = Spare(running)
    BY <2>1 DEF Spare
  <2>4. Affordable => Affordable'
    BY <2>1, <2>3 DEF Affordable
  <2>5. QED
    BY <1>1, <2>1, <2>2, <2>4 DEF GqlInv
<1>3. CASE accepted
  <2>1. PICK first : first = Fields(Included(Outermost(doc)), "Query", DefaultLimit, <<>>)
    OBVIOUS
  <2>2. PICK paths : paths = {f.path : f \in first}
    OBVIOUS
  <2>3. running' = first /\ touched' = paths /\ phase' = "running"
    BY <1>3, <2>1, <2>2 DEF Analyse
  <2>4. ~Exceeds(walk)
    BY <1>3
  <2>5. ASSUME ~HasLimitBelowZero(doc) PROVE Affordable'
    <3>1. Safe(doc, Nat)
      BY <1>1, <2>5, DocumentIsSafe
    <3>2. Included(Outermost(doc)) \in SUBSET doc /\ "Query" \in Types
      BY DEF Included, Outermost, Types
    <3>3. Within(doc, first, MaxComplexity)
      BY <2>1, <2>4, <3>1, <3>2, LastIsHeld, Bounds DEF FirstWalk
    <3>4. IsFiniteSet(paths) /\ Cardinality(paths) <= Cardinality(first)
      BY <2>2, <3>3, PathsAreFewer DEF Within
    <3>5. Cardinality(paths) \in Nat /\ Cardinality(first) \in Nat /\ Cardinality(Spare(first)) \in Nat
      BY <3>3, <3>4, FS_CardinalityType DEF Within
    <3>6. Cardinality(paths) + Cardinality(Spare(first)) <= MaxComplexity
      BY <3>3, <3>4, <3>5, Bounds DEF Within
    <3>7. Spare(running)' = Spare(first)
      BY <2>3 DEF Spare, Price, Multiplier, PageOf, OwnLimit
    <3>8. QED
      BY <1>1, <2>3, <3>3, <3>4, <3>6, <3>7 DEF Affordable, Within
  <2>6. HasLimitBelowZero(doc)' = HasLimitBelowZero(doc)
    BY <1>1 DEF HasLimitBelowZero
  <2>7. QED
    BY <1>1, <2>3, <2>5, <2>6 DEF GqlInv
<1>4. QED
  BY <1>2, <1>3

\* A field that is done gives back its reserve.
LEMMA LessSpare ==
    ASSUME NEW A, Safe(A, Nat), NEW F, IsFiniteSet(Spare(F)), NEW f \in F, IsField(f, A, Nat)
    PROVE  /\ IsFiniteSet(Spare(F \ {f})) /\ Cardinality(Spare(F \ {f})) \in Nat
           /\ Cardinality(Spare(F)) = Cardinality(Spare(F \ {f})) + (Price(f) - 1)
           /\ Price(f) - 1 \in Nat
<1> DEFINE rest == F \ {f}
<1>1. F = rest \cup {f} /\ rest \cap {f} = {}
  OBVIOUS
<1> HIDE DEF rest
<1>2. Spare(F) = Spare(rest) \cup Spare({f}) /\ Spare(rest) \cap Spare({f}) = {}
  BY <1>1, SpareIsUnion
<1>3. IsFiniteSet(Spare(rest))
  BY <1>2, FS_Subset
<1>4. IsFiniteSet(Spare({f})) /\ Cardinality(Spare({f})) = Price(f) - 1
  BY OneWithin DEF Within
<1>5. /\ Cardinality(Spare(rest)) \in Nat /\ Cardinality(Spare({f})) \in Nat
      /\ Cardinality(Spare(rest) \cup Spare({f})) = Cardinality(Spare(rest)) + Cardinality(Spare({f}))
  BY <1>2, <1>3, <1>4, UnionIsSmaller
<1>6. QED
  BY <1>2, <1>3, <1>4, <1>5 DEF rest

LEMMA ResolvesKeeps ==
    ASSUME LimitsGiven, Affordable, Safe(doc, Nat), NEW f \in running, FieldResolves(f)
    PROVE  Affordable'
<1>1. PICK kids : /\ \E n \in IF f.def.list THEN 0..AtMost(f) ELSE {1} :
                        kids = IF f.def.type = "scalar" THEN {} ELSE Objects(f, n)
                  /\ running' = (running \ {f}) \cup kids
                  /\ touched' = touched \cup {k.path : k \in kids}
                  /\ f.limit \in {NoLimit} \cup 1..MaxLimit /\ doc' = doc
  BY DEF FieldResolves
<1>2. PICK paths : paths = {k.path : k \in kids}
  OBVIOUS
<1>3. PICK rest : rest = running \ {f}
  OBVIOUS
<1>4. /\ IsField(f, doc, Nat) /\ IsFiniteSet(touched) /\ IsFiniteSet(Spare(running))
      /\ \A g \in running : IsField(g, doc, Nat)
      /\ Cardinality(touched) + Cardinality(Spare(running)) <= MaxComplexity
  BY DEF Affordable
<1>5. /\ IsFiniteSet(Spare(rest)) /\ Cardinality(Spare(rest)) \in Nat
      /\ Cardinality(Spare(running)) = Cardinality(Spare(rest)) + (Price(f) - 1)
      /\ Price(f) - 1 \in Nat
  BY <1>3, <1>4, LessSpare
<1>6. Within(doc, kids, Price(f) - 1)
  <2>1. CASE f.def.type = "scalar"
    <3>1. kids = {}
      BY <1>1, <2>1
    <3>2. QED
      BY <1>5, <3>1, NoneWithin, MoreWithin
  <2>2. CASE f.def.type # "scalar"
    <3>1. PICK n \in IF f.def.list THEN 0..AtMost(f) ELSE {1} : kids = Objects(f, n)
      BY <1>1, <2>2
    <3>2. QED
      BY <1>1, <1>4, <2>2, <3>1, AnswerWithin
  <2>3. QED
    BY <2>1, <2>2
<1>7. IsFiniteSet(paths) /\ Cardinality(paths) <= Cardinality(kids)
  BY <1>2, <1>6, PathsAreFewer DEF Within
<1>8. /\ IsFiniteSet(touched \cup paths)
      /\ Cardinality(touched) \in Nat /\ Cardinality(paths) \in Nat
      /\ Cardinality(touched \cup paths) \in Nat
      /\ Cardinality(touched \cup paths) <= Cardinality(touched) + Cardinality(paths)
  BY <1>4, <1>7, UnionIsSmaller
<1>9. /\ IsFiniteSet(Spare(rest) \cup Spare(kids)) /\ Cardinality(Spare(kids)) \in Nat
      /\ Cardinality(Spare(rest) \cup Spare(kids)) \in Nat
      /\ Cardinality(Spare(rest) \cup Spare(kids)) <= Cardinality(Spare(rest)) + Cardinality(Spare(kids))
  BY <1>5, <1>6, UnionIsSmaller DEF Within
<1>10. Cardinality(kids) \in Nat /\ Cardinality(kids) + Cardinality(Spare(kids)) <= Price(f) - 1
  BY <1>6, FS_CardinalityType DEF Within
<1>11. Cardinality(touched \cup paths) + Cardinality(Spare(rest) \cup Spare(kids)) <= MaxComplexity
  BY <1>4, <1>5, <1>7, <1>8, <1>9, <1>10, Bounds
<1>12. running' = rest \cup kids /\ touched' = touched \cup paths /\ doc' = doc
  BY <1>1, <1>2, <1>3
<1>13. Spare(running)' = Spare(rest) \cup Spare(kids)
  <2>1. Spare(running)' = Spare(rest \cup kids)
    BY <1>12 DEF Spare, Price, Multiplier, PageOf, OwnLimit
  <2>2. QED
    BY <2>1, SpareIsUnion
<1>14. \A g \in rest \cup kids : IsField(g, doc, Nat)
  BY <1>3, <1>4, <1>6 DEF Within
<1>15. QED
  BY <1>4, <1>8, <1>9, <1>11, <1>12, <1>13, <1>14 DEF Affordable

LEMMA FailsKeeps ==
    ASSUME Affordable, Safe(doc, Nat), NEW f \in running, FieldFails(f)
    PROVE  Affordable'
<1>1. PICK rest : rest = running \ {f}
  OBVIOUS
<1>2. running' = rest /\ touched' = touched /\ doc' = doc
  BY <1>1 DEF FieldFails
<1>3. /\ IsFiniteSet(Spare(rest)) /\ Cardinality(Spare(rest)) \in Nat
      /\ Cardinality(Spare(running)) = Cardinality(Spare(rest)) + (Price(f) - 1)
      /\ Price(f) - 1 \in Nat
  BY <1>1, LessSpare DEF Affordable
<1>4. Cardinality(touched) + Cardinality(Spare(rest)) <= MaxComplexity
  <2>1. Cardinality(touched) \in Nat /\ Cardinality(touched) + Cardinality(Spare(running)) <= MaxComplexity
    BY FS_CardinalityType DEF Affordable
  <2>2. QED
    BY <1>3, <2>1, Bounds
<1>5. Spare(running)' = Spare(rest)
  BY <1>2 DEF Spare, Price, Multiplier, PageOf, OwnLimit
<1>6. QED
  BY <1>1, <1>2, <1>3, <1>4, <1>5 DEF Affordable

LEMMA GqlStep == ASSUME LimitsGiven, GqlInv, [GqlNext]_gqlVars PROVE GqlInv'
<1>1. CASE Analyse
  BY <1>1, AnalyseKeeps
<1>2. CASE Respond \/ UNCHANGED gqlVars
  <2>1. UNCHANGED <<doc, running, touched>> /\ (phase' = phase \/ phase' = "answered")
    BY <1>2 DEF Respond, gqlVars
  <2>2. Spare(running)' = Spare(running) /\ HasLimitBelowZero(doc)' = HasLimitBelowZero(doc)
    BY <2>1 DEF Spare, Price, Multiplier, PageOf, OwnLimit, HasLimitBelowZero
  <2>3. Affordable => Affordable'
    BY <2>1, <2>2 DEF Affordable
  <2>4. QED
    BY <2>1, <2>2, <2>3 DEF GqlInv
<1>3. ASSUME NEW f \in running, FieldResolves(f) \/ FieldFails(f) PROVE GqlInv'
  <2>1. doc' = doc /\ phase' = phase /\ doc \in Documents /\ phase \notin {"asked", "rejected"}
    BY <1>3 DEF FieldResolves, FieldFails, GqlInv
  <2>2. HasLimitBelowZero(doc)' = HasLimitBelowZero(doc)
    BY <2>1 DEF HasLimitBelowZero
  <2>3. ASSUME ~HasLimitBelowZero(doc) PROVE Affordable'
    <3>1. Safe(doc, Nat) /\ Affordable
      BY <2>1, <2>3, DocumentIsSafe DEF GqlInv
    <3>2. QED
      BY <1>3, <3>1, ResolvesKeeps, FailsKeeps
  <2>4. QED
    BY <2>1, <2>2, <2>3 DEF GqlInv
<1>4. QED
  BY <1>1, <1>2, <1>3 DEF GqlNext

\* graphql.ts 860-865: of a document in which no limit is below 0 no more fields resolve
\* than the limit on its cost, and none of a document that is rejected.
THEOREM CostBoundsWork == ASSUME LimitsGiven PROVE GqlSpec => []WorkWithinCost
<1>1. GqlInv => WorkWithinCost
  <2>1. ASSUME GqlInv, ~HasLimitBelowZero(doc) PROVE Cardinality(touched) <= MaxComplexity
    <3>1. Affordable
      BY <2>1 DEF GqlInv
    <3>2. Cardinality(touched) \in Nat /\ Cardinality(Spare(running)) \in Nat
      BY <3>1, FS_CardinalityType DEF Affordable
    <3>3. QED
      BY <3>1, <3>2, Bounds DEF Affordable
  <2>2. QED
    BY <2>1 DEF GqlInv, WorkWithinCost
<1>2. QED
  BY <1>1, InitGql, GqlStep, PTL DEF GqlSpec
=============================================================================
