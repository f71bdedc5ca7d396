------------------------------ MODULE Explorer ------------------------------
(***************************************************************************)
(* The web explorer's event list (apps/web/src/App.tsx and hooks.ts): the  *)
(* first page of a filter, older pages on demand, the event stream with    *)
(* polling while it is not open, and changes of filter, against answers    *)
(* that come late, in any order or not at all.                             *)
(*                                                                         *)
(* An event is its id; half of them match filter 0, half filter 1.  A list *)
(* begins with the newest.  A filter is what the debounced input holds.    *)
(***************************************************************************)
EXTENDS Pages

CONSTANTS LastIndexed,  \* bound: events indexed
          ListLimit,    \* PAGE_SIZE
          MaxRequests,  \* bound: requests in flight
          MaxRetypes,   \* bound: changes of filter
          MaxBreaks,    \* bound: times the stream breaks
          LoadsMore     \* whether the reader asks for older pages

ASSUME ExplorerAssumption == ListLimit \in Nat \ {0}

VARIABLES indexed,      \* events indexed: 1..indexed
          filter, events, nextCursor, failed,   \* the list: failed when the error is shown
          requests,     \* in flight
          stream,       \* the EventSource: state, url, id of the last message, messages
          retypes, breaks,
          strayed       \* a page of an earlier filter was appended (history)
view == <<filter, events, nextCursor, failed>>
explorerVars == <<indexed, view, requests, stream, retypes, breaks, strayed>>

NoId == 0
ListFilters == {0, 1}
OfFilter(f, n) == {e \in 1..n : e % 2 = f}
\* The one list of S that begins with the newest, as a set to choose from.
NewestFirst(S) ==
    {list \in [1..Cardinality(S) -> S] :
        Range(list) = S /\ \A i, j \in DOMAIN list : i < j => list[i] > list[j]}
PageBelow(f, cursor) ==
    LET older == {e \in OfFilter(f, indexed) : cursor = NoId \/ e < cursor}
        rows  == {e \in older : Cardinality({d \in older : d > e}) < ListLimit}
    IN  [rows |-> rows, next |-> IF rows # older THEN Min(rows) ELSE NoId]

PageRequest(n, f, cursor) ==
    [number |-> n, filter |-> f, cursor |-> cursor, read |-> FALSE, rows |-> {}, next |-> NoId]
Source(f) == [state |-> "connecting", filter |-> f, last |-> NoId, sent |-> <<>>]
\* requestId: 1 is the newest first-page request, 2 an older one, 0 an older page's.
Superseded(f, cs) == {IF c.number = 1 THEN [c EXCEPT !.number = 2] ELSE c : c \in cs}
                    \cup {PageRequest(1, f, NoId)}
IsNewest(c) == c.number = 1
IsMore(c) == c.cursor # NoId
LoadFirstPage(f) == requests' = Superseded(f, requests)

ExplorerInit ==
    /\ indexed \in 0..1 /\ filter = 0 /\ events = <<>> /\ nextCursor = NoId /\ failed = FALSE
    /\ requests = {PageRequest(1, 0, NoId)} /\ stream = Source(0)
    /\ retypes = 0 /\ breaks = 0 /\ strayed = FALSE

\* update() and popstate: the reader types, picks a network, or goes back.  The effects
\* run: the cursor goes, a first page is asked for, the stream is closed and reopened.
SetFilter(f) ==
    /\ f # filter /\ retypes < MaxRetypes /\ retypes' = retypes + 1
    /\ filter' = f /\ nextCursor' = NoId /\ stream' = Source(f)
    /\ Cardinality(requests) < MaxRequests /\ LoadFirstPage(f)
    /\ UNCHANGED <<indexed, events, failed, breaks, strayed>>

\* The API reads a page for a request.
ApiReads(c) ==
    /\ c \in requests /\ ~c.read
    /\ LET p == PageBelow(c.filter, c.cursor) IN
       requests' = (requests \ {c}) \cup {[c EXCEPT !.read = TRUE, !.rows = p.rows, !.next = p.next]}
    /\ UNCHANGED <<indexed, view, stream, retypes, breaks, strayed>>

\* Variant: any answer is shown.
ShowAny(c) ==
    /\ c \in requests /\ c.read /\ ~IsMore(c)
    /\ requests' = requests \ {c}
    /\ events' \in NewestFirst(c.rows) /\ nextCursor' = c.next /\ failed' = FALSE
    /\ strayed' = FALSE
    /\ UNCHANGED <<indexed, filter, stream, retypes, breaks>>

\* loadFirstPage: only the newest request's answer is shown.
Show(c) ==
    /\ c \in requests /\ c.read /\ ~IsMore(c)
    /\ requests' = requests \ {c}
    /\ IF IsNewest(c)
       THEN events' \in NewestFirst(c.rows) /\ nextCursor' = c.next /\ failed' = FALSE /\ strayed' = FALSE
       ELSE UNCHANGED <<events, nextCursor, failed, strayed>>
    /\ UNCHANGED <<indexed, filter, stream, retypes, breaks>>

LoadMore ==
    /\ LoadsMore /\ nextCursor # NoId /\ ~\E c \in requests : IsMore(c)
    /\ Cardinality(requests) < MaxRequests
    /\ requests' = requests \cup {PageRequest(0, filter, nextCursor)}
    /\ UNCHANGED <<indexed, view, stream, retypes, breaks, strayed>>

\* An older page is appended to what is there when it comes, whatever the filter is
\* then, but for the rows that are listed already.
AppendPage(c) ==
    /\ c \in requests /\ c.read /\ IsMore(c)
    /\ requests' = requests \ {c}
    /\ \E older \in NewestFirst(c.rows \ Range(events)) : events' = events \o older
    /\ nextCursor' = c.next /\ strayed' = (strayed \/ c.filter # filter)
    /\ UNCHANGED <<indexed, filter, failed, stream, retypes, breaks>>

\* No answer, or an error: shown unless a newer first page was asked for.
RequestFails(c) ==
    /\ c \in requests
    /\ requests' = requests \ {c} /\ failed' = (failed \/ IsNewest(c) \/ IsMore(c))
    /\ UNCHANGED <<indexed, filter, events, nextCursor, stream, retypes, breaks, strayed>>

\* The stream opens, where it left off or at the present; onOpen catches up.
StreamOpens ==
    /\ stream.state = "connecting" /\ Cardinality(requests) < MaxRequests
    /\ LET missed == {e \in OfFilter(stream.filter, indexed) : stream.last # NoId /\ e > stream.last} IN
       \E list \in Ascending(missed) :
          stream' = [stream EXCEPT !.state = "open", !.sent = list]
    /\ LoadFirstPage(filter)
    /\ UNCHANGED <<indexed, view, retypes, breaks, strayed>>

Message ==
    /\ stream.state = "open" /\ stream.sent # <<>>
    /\ LET e == Head(stream.sent) IN
       /\ stream' = [stream EXCEPT !.sent = Tail(@), !.last = e]
       /\ events' = IF e \in Range(events) THEN events ELSE <<e>> \o events
    /\ UNCHANGED <<indexed, filter, nextCursor, failed, requests, retypes, breaks, strayed>>

\* The stream breaks; the browser retries, and polling runs meanwhile.
StreamBreaks ==
    /\ stream.state = "open" /\ breaks < MaxBreaks /\ breaks' = breaks + 1
    /\ stream' = [stream EXCEPT !.state = "connecting", !.sent = <<>>]
    /\ UNCHANGED <<indexed, view, requests, retypes, strayed>>
PollList ==
    /\ stream.state = "connecting" /\ Cardinality(requests) < MaxRequests /\ LoadFirstPage(filter)
    /\ UNCHANGED <<indexed, view, stream, retypes, breaks, strayed>>

EventIndexed ==
    /\ indexed < LastIndexed /\ indexed' = indexed + 1
    /\ stream' = IF stream.state = "open" /\ indexed' \in OfFilter(stream.filter, indexed')
                 THEN [stream EXCEPT !.sent = Append(@, indexed')] ELSE stream
    /\ UNCHANGED <<view, requests, retypes, breaks, strayed>>

ExplorerNext ==
    \/ \E f \in ListFilters : SetFilter(f)
    \/ \E c \in requests : ApiReads(c) \/ Show(c) \/ AppendPage(c) \/ RequestFails(c)
    \/ LoadMore \/ StreamOpens \/ Message \/ StreamBreaks \/ PollList \/ EventIndexed
ExplorerSpec == ExplorerInit /\ [][ExplorerNext]_explorerVars

-----------------------------------------------------------------------------
Waiting == \E c \in requests : IsNewest(c)

\* App.tsx 245: "Guards against a slow earlier response overwriting a newer one."  Once
\* the newest request is answered, what is listed matches the filter, each row
\* once, whatever older requests, older pages and the stream bring; save where a page
\* asked for under an earlier filter was appended (loadMore has no guard, 333-351).
ListIsOfTheFilter ==
    ~Waiting /\ ~failed /\ ~strayed =>
        /\ Range(events) \subseteq OfFilter(filter, indexed)
        /\ \A i, j \in DOMAIN events : events[i] = events[j] => i = j

\* App.tsx 397: "A stream only carries events from now on, so catch up on connect."  With
\* the stream open and nothing under way, the newest events are listed.
StreamCatchesUp ==
    stream.state = "open" /\ stream.sent = <<>> /\ requests = {} /\ ~failed =>
        PageBelow(filter, NoId).rows \subseteq Range(events)
=============================================================================
