--------------------------- MODULE LegacySubscribe ---------------------------
(***************************************************************************)
(* A server stream of the older kind: SubscribeGroupMessages and           *)
(* SubscribeWelcomeMessages (pkg/mls/api/v1/service.go).  The stream       *)
(* registers with the dispatcher, one goroutine per filter pages the       *)
(* history in, and only then the live channel is drained; a high-water     *)
(* mark per topic, under streamLock, is what removes duplicates.           *)
(*                                                                         *)
(* stream.Send may take its time: it is called with the lock held, and it  *)
(* returns when the client reads, or with an error when the client has     *)
(* left.  Nothing else ends it, the shutdown of the service included.      *)
(*                                                                         *)
(* The table is the one of the stream's kind on the read replica, its rows *)
(* visible in id order (see MessageLog); the poller hands every row to the *)
(* dispatcher, which closes a full channel.                                *)
(***************************************************************************)
EXTENDS Integers, Sequences, FiniteSets

CONSTANTS
  Topics,
  Requests,      \* the requests a client may make: each a set of filters
  PageSize,      \* maxPageSize of the read store
  Backlog,       \* the capacity of the subscription's channel
  Faults,        \* what may go wrong: a subset of FaultKinds
  MaxFaults,     \* bound of the model: how many of them meet in one stream
  MaxRows,       \* bound of the model: rows of the table
  MaxUnknown     \* bound of the model: welcomes of a message_type this node does not know;
                 \* below PageSize, since a page of nothing else ends the history early

FaultKinds == {"query", "cancel", "shutdown", "cutover", "stall"}
Filter == [topic: Topics, cursor: Nat]

ASSUME LegacyAssumption ==
  /\ Faults \subseteq FaultKinds
  /\ Requests \subseteq SUBSET Filter /\ \A r \in Requests : IsFiniteSet(r)
  /\ PageSize \in Nat \ {0} /\ Backlog \in Nat \ {0}
  /\ MaxFaults \in Nat /\ MaxRows \in Nat /\ MaxUnknown \in Nat

VARIABLES
  kind,               \* the table and the call: "group" or "welcome"
  table, polled,      \* the visible rows; the poller's currentID
  pc,                 \* "idle", "history", "live", "sending" (in a Send of the live loop)
                      \* or "ended"
  request,            \* the filters of the stream
  messagesCh, registered, \* its channel, and whether the dispatcher still has it
  fetch,              \* per filter: where its fetchHistorical is, its cursor and page
  errors,             \* len(errChan)
  highWaterMarks,
  cancelled, shutdown, cutover, \* stream.Context, s.ctx, the migration cutover
  reading,            \* whether the client reads what it is sent
  code,               \* the status the call returned
  sent                \* ghost: per topic, the ids handed to stream.Send, in order

envVars == <<kind, table, polled>>
dispatcherVars == <<messagesCh, registered>>
faultVars == <<cancelled, shutdown, cutover, reading>>
vars == <<envVars, pc, request, dispatcherVars, fetch, errors, highWaterMarks, faultVars,
          code, sent>>

Codes == {"none", "ok", "failed", "unavailable", "aborted"}
Fetch == [pc: {"query", "send", "sending", "done", "stopped"}, cursor: Nat, page: SUBSET Nat,
          more: BOOLEAN]

\* The state is well formed and the channel within its capacity.
TypeOK ==
  /\ kind \in {"group", "welcome"}
  /\ table \in Seq([topic: Topics, known: BOOLEAN]) /\ polled \in 0..Len(table)
  /\ pc \in {"idle", "history", "live", "sending", "ended"}
  /\ request \subseteq Filter /\ fetch \in [request -> Fetch]
  /\ messagesCh \in Seq(1..Len(table)) /\ Len(messagesCh) <= Backlog
  /\ registered \in BOOLEAN
  /\ errors \in 0..Cardinality(request)
  /\ highWaterMarks \in [Topics -> Nat]
  /\ cancelled \in BOOLEAN /\ shutdown \in BOOLEAN /\ cutover \in BOOLEAN /\ reading \in BOOLEAN
  /\ code \in Codes /\ sent \in [Topics -> Seq(Nat)]

Init ==
  /\ kind \in {"group", "welcome"}
  /\ table = <<>> /\ polled = 0
  /\ pc = "idle" /\ request = {} /\ fetch = [f \in {} |-> 0] /\ errors = 0
  /\ messagesCh = <<>> /\ registered = FALSE
  /\ highWaterMarks = [t \in Topics |-> 0]
  /\ cancelled = FALSE /\ shutdown = FALSE /\ cutover = FALSE /\ reading = TRUE
  /\ code = "none" /\ sent = [t \in Topics |-> <<>>]

-----------------------------------------------------------------------------
(* The table, the poller and the dispatcher.                               *)

Publish(t, known) ==
  /\ pc # "ended" /\ Len(table) < MaxRows
  /\ known \/ (/\ kind = "welcome"
              /\ Cardinality({i \in 1..Len(table) : ~table[i].known}) < MaxUnknown)
  /\ table' = Append(table, [topic |-> t, known |-> known])
  /\ UNCHANGED <<kind, polled, pc, request, dispatcherVars, fetch, errors, highWaterMarks,
                 faultVars, code, sent>>

\* Mutant of Registered: the subscription starts when the history is in.
RegisteredLate == registered /\ pc \in {"live", "sending"}

Registered == registered

Full == Len(messagesCh) >= Backlog

\* The poller takes the next row; HandleEnvelope offers it to the stream, whose channel is
\* closed when it is full.  An envelope is the id of its row.
Poll ==
  /\ pc # "ended" /\ polled < Len(table)
  /\ polled' = polled + 1
  /\ IF /\ Registered /\ table[polled + 1].known
        /\ \E f \in request : f.topic = table[polled + 1].topic
     THEN IF Full
          THEN registered' = FALSE /\ UNCHANGED messagesCh
          ELSE messagesCh' = Append(messagesCh, polled + 1) /\ UNCHANGED registered
     ELSE UNCHANGED dispatcherVars
  /\ UNCHANGED <<kind, table, pc, request, fetch, errors, highWaterMarks, faultVars, code, sent>>

-----------------------------------------------------------------------------
(* sendToStream.                                                           *)

\* The messages above the mark of their topic.
Fresh(t, ids) == {i \in ids : i > highWaterMarks[t]}

Ascending(ids) ==
  [n \in 1..Cardinality(ids) |-> CHOOSE i \in ids : Cardinality({j \in ids : j <= i}) = n]

\* The mark goes ahead of each Send.  A page is handed over as a whole: what of it is not
\* sent yet when its Send blocks or fails is behind the lock, or the stream is about to end.
SendToStream(t, ids) ==
  LET out == Ascending(Fresh(t, ids))
  IN  /\ sent' = [sent EXCEPT ![t] = @ \o out]
      /\ highWaterMarks' = [highWaterMarks EXCEPT ![t] =
                              IF out = <<>> THEN @ ELSE out[Len(out)]]

-----------------------------------------------------------------------------
(* The request and the history.                                            *)

\* A call on a node that has cut over is refused; so is a welcome subscription without
\* filters.
Refused(r) == cutover \/ (kind = "welcome" /\ r = {})

Refuse(r) ==
  /\ pc = "idle" /\ Refused(r)
  /\ pc' = "ended" /\ code' = IF cutover THEN "unavailable" ELSE "failed"
  /\ UNCHANGED <<envVars, request, dispatcherVars, fetch, errors, highWaterMarks, faultVars, sent>>

\* The stream registers, then starts a goroutine per filter.  A client's cursor is an id
\* that was visible to it.
Open(r) ==
  /\ pc = "idle" /\ ~Refused(r)
  /\ \A f \in r : f.cursor <= Len(table)
  /\ pc' = "history" /\ request' = r /\ registered' = TRUE
  /\ fetch' = [f \in r |-> [pc |-> "query", cursor |-> f.cursor, page |-> {}, more |-> TRUE]]
  /\ UNCHANGED <<envVars, messagesCh, errors, highWaterMarks, faultVars, code, sent>>

\* The rows of a page: the first PageSize rows of the topic above the cursor.
RawPage(t, cursor) ==
  LET rows == {i \in (cursor + 1)..Len(table) : table[i].topic = t}
  IN  {i \in rows : Cardinality({j \in rows : j <= i}) <= PageSize}

Interrupted == cancelled \/ shutdown \/ errors > 0

\* Mutant of Paged: a page that is exactly full is taken for the last one.
PagedOverfull(raw) == Cardinality(raw) > PageSize

\* The response carries a cursor when the page is full.
Paged(raw) == Cardinality(raw) >= PageSize

\* QueryGroupMessagesV1 / QueryWelcomeMessagesV1.  A response without messages ends the
\* fetch whatever its cursor says.
QueryPage(f) ==
  /\ pc = "history" /\ fetch[f].pc = "query" /\ ~Interrupted
  /\ LET raw == RawPage(f.topic, fetch[f].cursor)
         known == {i \in raw : table[i].known}
     IN  fetch' = [fetch EXCEPT ![f] =
           IF known = {} THEN [@ EXCEPT !.pc = "done"]
           ELSE [pc |-> "send", page |-> known, more |-> Paged(raw),
                 cursor |-> CHOOSE i \in raw : \A j \in raw : j <= i]]
  /\ UNCHANGED <<envVars, pc, request, dispatcherVars, errors, highWaterMarks, faultVars,
                 code, sent>>

\* What has gone wrong so far: a bound of the model.
Met == Cardinality({n \in 1..5 : <<errors > 0, cancelled, shutdown, cutover, ~reading>>[n]})

QueryFails(f) ==
  /\ "query" \in Faults /\ Met < MaxFaults
  /\ pc = "history" /\ fetch[f].pc = "query" /\ ~Interrupted
  /\ fetch' = [fetch EXCEPT ![f].pc = "stopped"] /\ errors' = errors + 1
  /\ UNCHANGED <<envVars, pc, request, dispatcherVars, highWaterMarks, faultVars, code, sent>>

\* The context is done, the service shuts down or another fetch failed.
StopFetch(f) ==
  /\ pc = "history" /\ fetch[f].pc = "query" /\ Interrupted
  /\ fetch' = [fetch EXCEPT ![f].pc = "stopped"]
  /\ UNCHANGED <<envVars, pc, request, dispatcherVars, errors, highWaterMarks, faultVars,
                 code, sent>>

\* A response with a cursor is followed by the next query.
AfterPage(f) == IF fetch[f].more THEN "query" ELSE "done"

\* The page goes out under streamLock, which another fetch may hold; a page with nothing
\* fresh needs no Send.
SendPage(f) ==
  /\ pc = "history" /\ fetch[f].pc = "send"
  /\ \A g \in request : fetch[g].pc # "sending"
  /\ SendToStream(f.topic, fetch[f].page)
  /\ fetch' = [fetch EXCEPT ![f].pc = IF Fresh(f.topic, fetch[f].page) # {} THEN "sending"
                                      ELSE AfterPage(f),
                            ![f].page = {}]
  /\ UNCHANGED <<envVars, pc, request, dispatcherVars, errors, faultVars, code>>

\* The last Send of the page returns ...
PageSent(f) ==
  /\ pc = "history" /\ fetch[f].pc = "sending"
  /\ fetch' = [fetch EXCEPT ![f].pc = AfterPage(f)]
  /\ UNCHANGED <<envVars, pc, request, dispatcherVars, errors, highWaterMarks, faultVars,
                 code, sent>>

\* ... or one fails, since the client has left.
PageFails(f) ==
  /\ pc = "history" /\ fetch[f].pc = "sending" /\ cancelled
  /\ fetch' = [fetch EXCEPT ![f].pc = "stopped"] /\ errors' = errors + 1
  /\ UNCHANGED <<envVars, pc, request, dispatcherVars, highWaterMarks, faultVars, code, sent>>

\* Mutant of Finished: a fetch that gives up does not call wg.Done.
FinishedByDone(f) == fetch[f].pc = "done"

Finished(f) == fetch[f].pc \in {"done", "stopped"}

\* wg.Wait.
HistoryFetched ==
  /\ pc = "history" /\ \A f \in request : Finished(f)
  /\ pc' = "live"
  /\ UNCHANGED <<envVars, request, dispatcherVars, fetch, errors, highWaterMarks, faultVars,
                 code, sent>>

-----------------------------------------------------------------------------
(* The live loop: select picks among the cases that are ready.             *)

\* The call returns; deferred, the subscription leaves the dispatcher.
Return(c) ==
  /\ pc' = "ended" /\ code' = c /\ registered' = FALSE
  /\ UNCHANGED <<envVars, request, messagesCh, fetch, errors, highWaterMarks, faultVars, sent>>

ReturnError == pc = "live" /\ errors > 0 /\ Return("failed")
ReturnCancelled == pc = "live" /\ cancelled /\ Return("ok")
ReturnShutdown == pc = "live" /\ shutdown /\ Return("unavailable")
ReturnCutover == pc = "live" /\ cutover /\ Return("unavailable")

\* The channel is closed and drained.
ReturnTooSlow ==
  /\ pc = "live" /\ ~registered /\ messagesCh = <<>>
  /\ Return(IF kind = "group" THEN "aborted" ELSE "ok")

\* A message is taken from the channel and, if it is fresh, sent.
Deliver ==
  /\ pc = "live" /\ messagesCh # <<>>
  /\ LET i == Head(messagesCh)
         t == table[i].topic
     IN  /\ SendToStream(t, {i})
         /\ pc' = IF Fresh(t, {i}) # {} THEN "sending" ELSE "live"
  /\ messagesCh' = Tail(messagesCh)
  /\ UNCHANGED <<envVars, request, registered, fetch, errors, faultVars, code>>

\* Its Send returns, or fails since the client has left.
Delivered ==
  /\ pc = "sending" /\ pc' = "live"
  /\ UNCHANGED <<envVars, request, dispatcherVars, fetch, errors, highWaterMarks, faultVars,
                 code, sent>>

DeliverFails == pc = "sending" /\ cancelled /\ Return("failed")

-----------------------------------------------------------------------------
(* The client, the operator and the migration.                             *)

Cancel ==
  /\ "cancel" \in Faults /\ Met < MaxFaults /\ pc \in {"history", "live", "sending"}
  /\ cancelled' = TRUE
  /\ UNCHANGED <<envVars, pc, request, dispatcherVars, fetch, errors, highWaterMarks,
                 shutdown, cutover, reading, code, sent>>

Shutdown ==
  /\ "shutdown" \in Faults /\ Met < MaxFaults /\ pc \in {"history", "live", "sending"}
  /\ shutdown' = TRUE
  /\ UNCHANGED <<envVars, pc, request, dispatcherVars, fetch, errors, highWaterMarks,
                 cancelled, cutover, reading, code, sent>>

Cutover ==
  /\ "cutover" \in Faults /\ Met < MaxFaults /\ pc # "ended" /\ cutover' = TRUE
  /\ UNCHANGED <<envVars, pc, request, dispatcherVars, fetch, errors, highWaterMarks,
                 cancelled, shutdown, reading, code, sent>>

\* The client stops reading, for good: a Send may still find room in the flow-control window.
StopReading ==
  /\ "stall" \in Faults /\ Met < MaxFaults /\ pc \in {"history", "live", "sending"}
  /\ reading' = FALSE
  /\ UNCHANGED <<envVars, pc, request, dispatcherVars, fetch, errors, highWaterMarks,
                 cancelled, shutdown, cutover, code, sent>>

Ended == pc = "ended" /\ UNCHANGED vars

Fetcher(f) ==
  QueryPage(f) \/ QueryFails(f) \/ StopFetch(f) \/ SendPage(f) \/ PageSent(f) \/ PageFails(f)

Handler ==
  \/ HistoryFetched \/ ReturnError \/ ReturnCancelled \/ ReturnShutdown \/ ReturnCutover
  \/ ReturnTooSlow \/ Deliver

SendEnds == Delivered \/ DeliverFails

Next ==
  \/ \E t \in Topics, known \in BOOLEAN : Publish(t, known)
  \/ Poll
  \/ \E r \in Requests : Refuse(r) \/ Open(r)
  \/ \E f \in request : Fetcher(f)
  \/ Handler \/ SendEnds
  \/ Cancel \/ Shutdown \/ Cutover \/ StopReading \/ Ended

Spec == Init /\ [][Next]_vars

\* The poller's ticker fires, the goroutines run, and the handler takes a ready case.  A Send
\* returns to a client that reads, and fails for one that has left; nothing is promised of it
\* for a client that stays and does not read.
SendReturns == reading \/ cancelled

FairSpec ==
  /\ Spec /\ WF_vars(Poll) /\ WF_vars(Handler) /\ WF_vars(SendReturns /\ SendEnds)
  /\ WF_vars(\E f \in request : QueryPage(f) \/ StopFetch(f) \/ SendPage(f))
  /\ WF_vars(SendReturns /\ \E f \in request : PageSent(f) \/ PageFails(f))

-----------------------------------------------------------------------------
(* Properties.                                                             *)

Deliverable(f, upTo) ==
  {i \in (f.cursor + 1)..upTo : table[i].topic = f.topic /\ table[i].known}

\* The only filter of its topic: two filters of one topic share a mark.
Alone(f) == \A g \in request : g.topic = f.topic => g = f

Was(i, s) == \E n \in 1..Len(s) : s[n] = i

\* A filter whose history was fetched to the end has lost nothing the poller passed: every
\* message above its cursor was sent or waits in the channel.
NoGap ==
  pc \in {"live", "sending"} /\ registered =>
    \A f \in request : Alone(f) /\ fetch[f].pc = "done" =>
      \A i \in Deliverable(f, polled) : Was(i, sent[f.topic]) \/ Was(i, messagesCh)

\* A topic's messages arrive in ascending order and none twice, although history fetches and
\* live channel overlap and filters may name a topic twice; and even to a client that is cut
\* off as too slow nothing is sent over a gap: what it has of a topic is all there is up to
\* the last message sent.
SentIsPrefix ==
  /\ \A t \in Topics : \A m, n \in 1..Len(sent[t]) : m < n => sent[t][m] < sent[t][n]
  /\ \A f \in request : Alone(f) /\ fetch[f].pc = "done" =>
       \A i \in Deliverable(f, highWaterMarks[f.topic]) : Was(i, sent[f.topic])

\* While the client reads, every message above a filter's cursor arrives, or the stream ends:
\* the table of the model stops growing, and the stream has then sent all of it.  (A page of
\* nothing but welcomes of an unknown type would end the history early: MaxUnknown is below
\* PageSize.)
AllArrive ==
  []<>(\/ pc \in {"idle", "ended"} \/ ~reading
       \/ /\ pc # "sending" /\ \A f \in request : fetch[f].pc # "sending"
          /\ \A f \in request : Alone(f) =>
               \A i \in Deliverable(f, Len(table)) : Was(i, sent[f.topic]))

\* A client that leaves and a service that stops get their stream ended: the first whether or
\* not the client ever read, the second unless the client stays and does not read, which
\* holds the stream in Send.
StreamReturns ==
  (pc # "idle" /\ (cancelled \/ shutdown)) ~> (pc = "ended" \/ ~SendReturns)
=============================================================================
