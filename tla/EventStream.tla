----------------------------- MODULE EventStream ----------------------------
(***************************************************************************)
(* The dashboard's view of the events of the bridge (internal/admin and    *)
(* table events of internal/store): goroutines emit events, housekeeping   *)
(* deletes old ones, an SSE connection follows them by id (handleSSE), and *)
(* a reader turns the pages of the list (handleEvents).                    *)
(*                                                                         *)
(* A row is its id and the time when its transaction began (created_at).   *)
(* The id is drawn from a sequence by the INSERT, and the row is visible   *)
(* when it commits: events of different goroutines become visible in any   *)
(* order.                                                                  *)
(***************************************************************************)
EXTENDS Integers, FiniteSets, Sequences, Functions

CONSTANTS
    Emitters,    \* goroutines that emit events
    MaxEvents,   \* bound: events
    Limit,       \* events per read of the stream (100)
    PageSize,    \* events per page (20)
    KeepRecent,  \* watcher.event_keep_recent, at least 100
    MaxFaults    \* bound: failed inserts, lost connections and reloads

ASSUME EventAssumption ==
    /\ MaxEvents \in Nat /\ MaxFaults \in Nat /\ KeepRecent \in Nat
    /\ Limit \in Nat \ {0} /\ PageSize \in Nat \ {0}

VARIABLES
    clock,      \* transactions that have begun
    lastId,     \* the sequence of events.id
    events,     \* table events: the rows that are visible
    emitter,    \* per goroutine: where its EmitEvent is
    overtaken,  \* history: ids that became visible after a greater one
    reader,     \* "stream" or "list": readers do not affect each other; never changes
    stream,     \* handleSSE: lastEventID, and what is written but not yet received
    page,       \* the browser: the ids it has received
    pager,      \* the reader of the list (since: rows added since the count,
                \* gone: the greatest id deleted meanwhile, both history)
    faults

vars == <<clock, lastId, events, emitter, overtaken, reader, stream, page, pager, faults>>

Ids(rows) == {r.id : r \in rows}

MaxOr0(S) == IF S = {} THEN 0 ELSE CHOOSE m \in S : \A n \in S : n <= m

\* ORDER BY id DESC (ASC), as a sequence of rows; id is the primary key.
Descending(rows) ==
    [n \in 1..Cardinality(Ids(rows)) |->
        CHOOSE r \in rows : Cardinality({i \in Ids(rows) : i >= r.id}) = n]
Ascending(rows) ==
    [n \in 1..Cardinality(Ids(rows)) |->
        CHOOSE r \in rows : Cardinality({i \in Ids(rows) : i <= r.id}) = n]

Take(seq, n) == SubSeq(seq, 1, IF n < Len(seq) THEN n ELSE Len(seq))

Idle    == [at |-> "idle", id |-> 0, created |-> 0]
NoPager == [at |-> "count", number |-> 1, total |-> 0, start |-> {}, seen |-> {}, since |-> 0, gone |-> 0]

Init ==
    /\ clock = 0 /\ lastId = 0
    /\ events = {}
    /\ emitter = [e \in Emitters |-> Idle]
    /\ overtaken = {}
    /\ reader \in {"stream", "list"}
    /\ stream = [lastEventID |-> 0, wire |-> <<>>]
    /\ page = {}
    /\ pager = NoPager
    /\ faults = 0

-----------------------------------------------------------------------------
(* EmitEvent: one INSERT, in a transaction of its own.                     *)

Begin(e) ==
    /\ emitter[e].at = "idle" /\ clock < MaxEvents
    /\ clock' = clock + 1
    /\ emitter' = [emitter EXCEPT ![e] = [at |-> "insert", id |-> 0, created |-> clock + 1]]
    /\ UNCHANGED <<lastId, events, overtaken, stream, page, pager, faults, reader>>

Insert(e) ==
    /\ emitter[e].at = "insert"
    /\ lastId' = lastId + 1
    /\ emitter' = [emitter EXCEPT ![e].at = "commit", ![e].id = lastId + 1]
    /\ UNCHANGED <<clock, events, overtaken, stream, page, pager, faults, reader>>

Commit(e) ==
    LET row == [id |-> emitter[e].id, created |-> emitter[e].created]
    IN  /\ emitter[e].at = "commit"
        /\ events' = events \cup {row}
        /\ overtaken' = overtaken \cup {i \in {row.id} : \E j \in Ids(events) \cup page \cup Range(stream.wire) : j > i}
        /\ emitter' = [emitter EXCEPT ![e] = Idle]
        /\ pager' = [pager EXCEPT !.since = IF pager.at = "select" THEN @ + 1 ELSE @]
        /\ UNCHANGED <<clock, lastId, stream, page, faults, reader>>

\* The callers ignore the error: the event is lost, its id is not used again.
EmitFails(e) ==
    /\ faults < MaxFaults
    /\ emitter[e].at # "idle"
    /\ faults' = faults + 1
    /\ emitter' = [emitter EXCEPT ![e] = Idle]
    /\ UNCHANGED <<clock, lastId, events, overtaken, stream, page, pager, reader>>

\* PruneOldEvents, with the rows that began before the cutoff.
PruneOldEvents(cutoff) ==
    LET recent == Range(Take(Descending(events), KeepRecent))
        old    == {r \in events \ recent : r.created < cutoff}
    IN  /\ old # {}
        /\ events' = events \ old
        /\ pager' = [pager EXCEPT !.gone = IF pager = NoPager THEN 0 ELSE MaxOr0({@} \cup Ids(old))]
        /\ UNCHANGED <<clock, lastId, emitter, overtaken, stream, page, faults, reader>>

-----------------------------------------------------------------------------
(* handleSSE.                                                              *)

\* Wrong: the most recent events, as the comment of EventsSince has it.
EventsSinceRecent(sinceID) ==
    Ascending(Range(Take(Descending({r \in events : r.id > sinceID}), Limit)))

EventsSince(sinceID) == Take(Ascending({r \in events : r.id > sinceID}), Limit)

\* A tick: the events are written to the connection.
PollEvents ==
    LET new == EventsSince(stream.lastEventID)
    IN  /\ reader = "stream" /\ new # <<>>
        /\ stream' = [lastEventID |-> new[Len(new)].id,
                      wire |-> stream.wire \o [i \in 1..Len(new) |-> new[i].id]]
        /\ UNCHANGED <<clock, lastId, events, emitter, overtaken, page, pager, faults, reader>>

Receive ==
    /\ stream.wire # <<>>
    /\ page' = page \cup {stream.wire[1]}
    /\ stream' = [stream EXCEPT !.wire = Tail(@)]
    /\ UNCHANGED <<clock, lastId, events, emitter, overtaken, pager, faults, reader>>

\* Wrong: goes on after what was written, which the browser may not have got.
ReconnectWritten(reload) ==
    /\ reader = "stream" /\ faults < MaxFaults
    /\ faults' = faults + 1
    /\ page' = IF reload THEN {} ELSE page
    /\ stream' = [lastEventID |-> IF reload THEN 0 ELSE stream.lastEventID, wire |-> <<>>]
    /\ UNCHANGED <<clock, lastId, events, emitter, overtaken, pager, reader>>

\* The connection is lost with what is on its way.  The browser connects again
\* and sends the last id it has received as Last-Event-ID; a page that is loaded
\* again has none, and starts from the oldest event.
Reconnect(reload) ==
    /\ reader = "stream" /\ faults < MaxFaults
    /\ faults' = faults + 1
    /\ page' = IF reload THEN {} ELSE page
    /\ stream' = [lastEventID |-> MaxOr0(page'), wire |-> <<>>]
    /\ UNCHANGED <<clock, lastId, events, emitter, overtaken, pager, reader>>

-----------------------------------------------------------------------------
(* The list, page by page, from the first to the last.                     *)

\* LIMIT pageSize OFFSET (page - 1) * pageSize
Paginated(rows, number) ==
    LET offset == (number - 1) * PageSize
    IN  Range(SubSeq(Descending(rows), offset + 1,
                     IF offset + PageSize < Cardinality(rows) THEN offset + PageSize ELSE Cardinality(rows)))

totalPages(total) == (total + PageSize - 1) \div PageSize

\* A request for a page: the number of rows, then the rows of the page.
CountEvents ==
    /\ reader = "list" /\ pager.at = "count"
    /\ pager' = [pager EXCEPT !.at = "select", !.total = Cardinality(events), !.since = 0,
                              !.start = IF pager.number = 1 THEN Ids(events) ELSE @]
    /\ UNCHANGED <<clock, lastId, events, emitter, overtaken, stream, page, faults, reader>>

\* Wrong: the last page is one page early when it is not full.
PaginatedEventsFloor ==
    /\ pager.at = "select"
    /\ pager' = [pager EXCEPT !.seen = @ \cup Ids(Paginated(events, pager.number)),
                              !.at = IF pager.number < pager.total \div PageSize THEN "count" ELSE "end",
                              !.number = @ + 1]
    /\ UNCHANGED <<clock, lastId, events, emitter, overtaken, stream, page, faults, reader>>

\* There is a button for the next page when the count says there is one.
PaginatedEvents ==
    /\ pager.at = "select"
    /\ pager' = [pager EXCEPT !.seen = @ \cup Ids(Paginated(events, pager.number)),
                              !.at = IF pager.number < totalPages(pager.total) THEN "count" ELSE "end",
                              !.number = @ + 1]
    /\ UNCHANGED <<clock, lastId, events, emitter, overtaken, stream, page, faults, reader>>

-----------------------------------------------------------------------------
Next ==
    \/ \E e \in Emitters : Begin(e) \/ Insert(e) \/ Commit(e) \/ EmitFails(e)
    \/ \E cutoff \in 1..(clock + 1) : PruneOldEvents(cutoff)
    \/ PollEvents \/ Receive
    \/ \E reload \in BOOLEAN : Reconnect(reload)
    \/ CountEvents \/ PaginatedEvents

Spec == Init /\ [][Next]_vars

\* Inserts return, the ticker of the stream fires, and the network delivers.
Fairness ==
    /\ \A e \in Emitters : WF_vars(Insert(e) \/ Commit(e))
    /\ WF_vars(PollEvents) /\ WF_vars(Receive)

FairSpec == Spec /\ Fairness

-----------------------------------------------------------------------------
(* Properties.                                                             *)

\* Type correctness of the table and of its readers; id is its primary key.
TypeOK ==
    /\ clock \in 0..MaxEvents /\ lastId \in Nat
    /\ \A r \in events : r.id \in 1..lastId /\ r.created \in 1..clock
    /\ \A r, q \in events : r.id = q.id => r = q
    /\ stream \in [lastEventID : 0..lastId, wire : Seq(1..lastId)]
    /\ page \subseteq 1..lastId
    /\ DOMAIN pager = DOMAIN NoPager /\ pager.at \in {"count", "select", "end"}
    /\ emitter \in [Emitters -> [at : {"idle", "insert", "commit"}, id : 0..lastId, created : 0..clock]]

\* The stream never repeats an event to a page and never goes back, also over a
\* lost connection; and it leaves none behind, except one that became visible
\* after a greater id: neither the limit of a read, nor the deletion of old
\* events, nor a lost connection makes it pass over an event.
StreamComplete ==
    /\ TypeOK
    /\ \A i \in 1..Len(stream.wire) :
          /\ stream.wire[i] > MaxOr0(page)
          /\ \A j \in 1..(i - 1) : stream.wire[j] < stream.wire[i]
    /\ \A r \in events :
          r.id <= stream.lastEventID => r.id \in page \cup Range(stream.wire) \cup overtaken

\* The ids that the browser has received or that are on their way to it.
Sent == page \cup Range(stream.wire)

\* The stream stands at the last id that was sent, and an id that was drawn and is
\* not visible yet is nobody else's.
StreamInv ==
    /\ StreamComplete
    /\ \A i \in Sent : i <= stream.lastEventID
    /\ stream.lastEventID # 0 => stream.lastEventID \in Sent
    /\ \A e \in Emitters : emitter[e].at # "idle" => emitter[e].created > 0
    /\ \A e \in Emitters : emitter[e].at = "commit" =>
          /\ emitter[e].id > 0
          /\ emitter[e].id \notin Ids(events) \cup Sent
          /\ \A f \in Emitters \ {e} : emitter[f].at = "commit" => emitter[f].id # emitter[e].id

\* Every event that does not become visible late reaches the page, unless
\* housekeeping deletes it first.
EventuallyShown ==
    \A id \in 1..MaxEvents :
        (reader = "stream" /\ id \in Ids(events) \ overtaken) ~> (id \in page \/ id \notin Ids(events))

\* The rows before a row of the list.
Above(id) == {i \in Ids(events) : i > id}

\* What the reader of the list has missed so far.
Unseen == {id \in pager.start \cap Ids(events) : id \notin pager.seen /\ id > pager.gone}

\* A reader who turns the pages to the last one has seen the events that were
\* there when he began, although the rows move from page to page meanwhile.  He
\* misses at most as many as were added between the count and the rows of the
\* last page, and those that moved up because a newer one was deleted, which takes
\* two transactions that drew their ids in the other order than they began.
PagesComplete == pager.at = "end" => Cardinality(Unseen) <= pager.since

\* A row that the reader has not seen stands behind the pages he has turned: rows
\* only move down, but for the ones that moved up past a deleted row.  Between
\* the count and the rows of a page the list outgrows the count only by the rows
\* that were added since, and an id that is not visible yet was not there when he
\* began.
PagesInv ==
    /\ StreamInv
    /\ pager.number \in Nat \ {0} /\ pager.total \in Nat /\ pager.since \in Nat
    /\ pager.gone \in 0..lastId /\ pager.start \subseteq 1..lastId
    /\ \A e \in Emitters : emitter[e].at = "commit" => emitter[e].id \notin pager.start
    /\ pager.at # "end" => \A id \in Unseen : Cardinality(Above(id)) >= (pager.number - 1) * PageSize
    /\ pager.at = "select" => Cardinality(Ids(events)) <= pager.total + pager.since
    /\ PagesComplete
=============================================================================
