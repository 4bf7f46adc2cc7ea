------------------------------ MODULE MessageV1 ------------------------------
(***************************************************************************)
(* The v1 message service: Subscribe, Subscribe2 and SubscribeAll over the *)
(* dispatcher, which the broadcast loop feeds with what the relay brings,  *)
(* and Query over the message table, called page after page by a client.   *)
(*                                                                         *)
(* HandleEnvelope, Subscribe and Unsubscribe of the dispatcher each hold   *)
(* its mutex throughout, so each is one step.                              *)
(*                                                                         *)
(* stream.Send returns when the client reads or has left; a client that    *)
(* stays and does not read holds its handler there.                        *)
(*                                                                         *)
(* Its specification has names of its own (V1Init, V1Next, ...): the       *)
(* proofs extend this module together with StoreJobs.                      *)
(***************************************************************************)
EXTENDS MessageStore

CONSTANTS
  Streams, Clients,
  Kind,          \* of a stream: "subscribe" or "subscribe2"
  Stalling,      \* the streams whose clients may stop reading
  Requests,      \* Requests[s]: the sets of topics its client asks for, one after another
  Topics,
  XmtpTopics,    \* the topics of isValidSubscribeAllTopic
  Wildcard,
  Backlog,       \* the capacity of a subscription's channel
  MaxEnvelopes,  \* bound of the envelopes of the relay
  Query,         \* of a client: what it queries
  MaxRows,       \* maxRowsPerQuery
  Preferences,   \* the topics of user preferences, ...
  MaxPreferenceRows, \* ... and the limit of a query for one of them
  V1Scenarios      \* the streams and clients there are, and the rows of the table

Wanted == SUBSET (Topics \cup {Wildcard})
ASSUME MessageV1Assumption ==
  /\ Kind \in [Streams -> {"subscribe", "subscribe2"}]
  /\ Stalling \subseteq Streams
  /\ \A s \in Streams : Requests[s] \in Seq(Wanted) /\ Requests[s] # <<>>
  /\ XmtpTopics \subseteq Topics /\ Wildcard \notin Topics
  /\ Backlog \in Nat \ {0} /\ MaxEnvelopes \in Nat /\ MaxRows \in Nat /\ MaxPreferenceRows \in Nat
  /\ \A c \in V1Scenarios :
       /\ c.streams \subseteq Streams /\ c.clients \subseteq Clients /\ c.rows \subseteq MessageRows
       /\ IsFiniteSet(c.rows) /\ KeysDiffer(c.rows)
  /\ \A c \in Clients : Query[c].limit \in Nat

VARIABLES
  relayed,       \* the topics of the envelopes the broadcast loop has handled, in order
  handler,       \* where the handler of a stream is
  reader,        \* and the goroutine of Subscribe2 that receives
  received,      \* the number of requests it has received
  request,       \* the topics of the stream's subscription
  registered,    \* whether that subscription is in the dispatcher's map
  open,          \* and its channel is not closed
  ch,            \* the envelopes in the channel, by their place in relayed
  sent,          \* those given to stream.Send since the subscription
  since, until,  \* ghost: the part of relayed it was registered for
  cancelled,     \* whether the stream's context is done
  serviceClosed, \* and the service's
  reading,       \* whether the stream's client reads what it is sent
  query,         \* where a client is: its state, cursor, limit and the pages it has
  kept           \* ghost: the rows that have matched since its first page

subVars == <<request, registered, open, ch, sent, since, until>>
streamVars == <<relayed, handler, reader, received, subVars, cancelled, reading, serviceClosed>>
queryVars == <<message, query, kept>>
v1Vars == <<streamVars, queryVars>>

\* Every structure has its shape.
V1TypeOK ==
  /\ relayed \in Seq(Topics)
  /\ handler \in [Streams -> {"absent", "begin", "running", "sending", "resubscribing", "returned"}]
  /\ reader \in [Streams -> {"receiving", "offering", "gone"}]
  /\ received \in [Streams -> Nat] /\ request \in [Streams -> Wanted]
  /\ registered \in [Streams -> BOOLEAN] /\ open \in [Streams -> BOOLEAN]
  /\ ch \in [Streams -> Seq(Nat)] /\ sent \in [Streams -> Seq(Nat)]
  /\ since \in [Streams -> Nat] /\ until \in [Streams -> Nat]
  /\ cancelled \in [Streams -> BOOLEAN] /\ reading \in [Streams -> BOOLEAN]
  /\ serviceClosed \in BOOLEAN
  /\ message \subseteq MessageRows /\ \A c \in Clients : kept[c] \subseteq MessageRows

V1Init ==
  \E scenario \in V1Scenarios :
    /\ relayed = <<>>
    /\ handler = [s \in Streams |-> IF s \in scenario.streams THEN "begin" ELSE "absent"]
    /\ reader = [s \in Streams |-> IF Kind[s] = "subscribe2" THEN "receiving" ELSE "gone"]
    /\ received = [s \in Streams |-> 0] /\ request = [s \in Streams |-> {}]
    /\ registered = [s \in Streams |-> FALSE] /\ open = [s \in Streams |-> TRUE]
    /\ ch = [s \in Streams |-> <<>>] /\ sent = [s \in Streams |-> <<>>]
    /\ since = [s \in Streams |-> 0] /\ until = [s \in Streams |-> 0]
    /\ cancelled = [s \in Streams |-> FALSE] /\ reading = [s \in Streams |-> TRUE]
    /\ serviceClosed = FALSE
    /\ message = scenario.rows
    /\ query = [c \in Clients |->
         [state |-> IF c \in scenario.clients THEN "begin" ELSE "absent",
          cursor |-> NoCursor, limit |-> Query[c].limit, got |-> <<>>]]
    /\ kept = [c \in Clients |-> {}]

\* There is a stream: what happens when there is none is of no consequence.
Streaming == \E s \in Streams : handler[s] \notin {"absent", "returned"}

-----------------------------------------------------------------------------
(* The dispatcher.                                                         *)

\* A wildcard subscription gets the topics of XMTP only.
Matches(topics, topic) ==
  IF Wildcard \in topics THEN topic \in XmtpTopics ELSE topic \in topics

\* The broadcast loop hands an envelope of the relay to the dispatcher, which closes and
\* deletes a subscription whose channel is full.
HandleEnvelope(topic) ==
  LET to == {s \in Streams : registered[s] /\ Matches(request[s], topic)}
      full == {s \in to : Len(ch[s]) >= Backlog}
  IN
  /\ Streaming /\ Len(relayed) < MaxEnvelopes
  /\ relayed' = Append(relayed, topic)
  /\ ch' = [s \in Streams |-> IF s \in to \ full THEN Append(ch[s], Len(relayed) + 1) ELSE ch[s]]
  /\ open' = [s \in Streams |-> open[s] /\ s \notin full]
  /\ registered' = [s \in Streams |-> registered[s] /\ s \notin full]
  /\ until' = [s \in Streams |-> IF s \in full THEN Len(relayed) ELSE until[s]]
  /\ UNCHANGED <<handler, reader, received, request, sent, since, cancelled, reading,
                 serviceClosed, queryVars>>

\* dispatcher.Subscribe: a new subscription with a new channel is the stream's.
Subscribe(s, topics) ==
  /\ request' = [request EXCEPT ![s] = topics]
  /\ registered' = [registered EXCEPT ![s] = TRUE] /\ open' = [open EXCEPT ![s] = TRUE]
  /\ ch' = [ch EXCEPT ![s] = <<>>] /\ sent' = [sent EXCEPT ![s] = <<>>]
  /\ since' = [since EXCEPT ![s] = Len(relayed)]
  /\ UNCHANGED until

\* Unsubscribe: the channel is left as it is.
Unsubscribe(s) ==
  /\ registered' = [registered EXCEPT ![s] = FALSE]
  /\ until' = [until EXCEPT ![s] = IF registered[s] THEN Len(relayed) ELSE @]
  /\ UNCHANGED <<request, open, ch, sent, since>>

-----------------------------------------------------------------------------
(* Subscribe and SubscribeAll, and what Subscribe2 does like them.         *)

handlerTo(s, pc) == handler' = [handler EXCEPT ![s] = pc]

\* Subscribe subscribes at once, to what it was asked for or, as SubscribeAll, to the
\* wildcard; Subscribe2 starts its reader and has no subscription yet.
Begin(s) ==
  /\ handler[s] = "begin" /\ handlerTo(s, "running")
  /\ IF Kind[s] = "subscribe" THEN Subscribe(s, Requests[s][1]) ELSE UNCHANGED subVars
  /\ UNCHANGED <<relayed, reader, received, cancelled, reading, serviceClosed, queryVars>>

\* An envelope is taken from the channel, closed or not, and given to Send ...
Deliver(s) ==
  /\ handler[s] = "running" /\ ch[s] # <<>> /\ handlerTo(s, "sending")
  /\ ch' = [ch EXCEPT ![s] = Tail(@)] /\ sent' = [sent EXCEPT ![s] = Append(@, Head(ch[s]))]
  /\ UNCHANGED <<relayed, reader, received, request, registered, open, since, until,
                 cancelled, reading, serviceClosed, queryVars>>

\* ... which returns; an error is only logged.
SendReturns(s) ==
  /\ handler[s] = "sending" /\ handlerTo(s, "running")
  /\ UNCHANGED <<relayed, reader, received, subVars, cancelled, reading, serviceClosed, queryVars>>

\* The channel is closed and empty: the client was too slow.
ChannelClosed(s) ==
  /\ handler[s] = "running" /\ ch[s] = <<>> /\ ~open[s]
  /\ handlerTo(s, "returned") /\ Unsubscribe(s)
  /\ UNCHANGED <<relayed, reader, received, cancelled, reading, serviceClosed, queryVars>>

\* Mutant of Done: only the stream's own context is looked at.
DoneStream(s) ==
  /\ handler[s] = "running" /\ cancelled[s]
  /\ handlerTo(s, "returned") /\ Unsubscribe(s)
  /\ UNCHANGED <<relayed, reader, received, cancelled, reading, serviceClosed, queryVars>>

\* The context of the stream or of the service is done.
Done(s) ==
  /\ handler[s] = "running" /\ (cancelled[s] \/ serviceClosed)
  /\ handlerTo(s, "returned") /\ Unsubscribe(s)
  /\ UNCHANGED <<relayed, reader, received, cancelled, reading, serviceClosed, queryVars>>

-----------------------------------------------------------------------------
(* Subscribe2.                                                             *)

\* The reader receives a request, and waits to hand it over on the unbuffered channel.
Receive(s) ==
  /\ handler[s] # "begin" /\ handler[s] # "absent"
  /\ reader[s] = "receiving" /\ received[s] < Len(Requests[s])
  /\ reader' = [reader EXCEPT ![s] = "offering"]
  /\ received' = [received EXCEPT ![s] = @ + 1]
  /\ UNCHANGED <<relayed, handler, subVars, cancelled, reading, serviceClosed, queryVars>>

\* A context is done, or Recv fails because the client has closed its side: from then on the
\* handler reads nil from the closed channel, again and again, and goes on.
ReaderEnds(s) ==
  /\ handler[s] # "begin" /\ handler[s] # "absent" /\ reader[s] = "receiving"
  /\ reader' = [reader EXCEPT ![s] = "gone"]
  /\ UNCHANGED <<relayed, handler, received, subVars, cancelled, reading, serviceClosed, queryVars>>

\* The handler takes the request, and unsubscribes first ...
TakeRequest(s) ==
  /\ handler[s] = "running" /\ reader[s] = "offering"
  /\ handlerTo(s, "resubscribing") /\ Unsubscribe(s)
  /\ reader' = [reader EXCEPT ![s] = "receiving"]
  /\ UNCHANGED <<relayed, received, cancelled, reading, serviceClosed, queryVars>>

\* Mutant of Resubscribe: the envelopes of the old channel are kept for the new one.
ResubscribeKeeps(s) ==
  /\ handler[s] = "resubscribing" /\ handlerTo(s, "running")
  /\ request' = [request EXCEPT ![s] = Requests[s][received[s]]]
  /\ registered' = [registered EXCEPT ![s] = TRUE] /\ open' = [open EXCEPT ![s] = TRUE]
  /\ sent' = [sent EXCEPT ![s] = <<>>] /\ since' = [since EXCEPT ![s] = Len(relayed)]
  /\ UNCHANGED <<relayed, reader, received, ch, until, cancelled, reading, serviceClosed, queryVars>>

\* ... then subscribes anew and reads from the new subscription's channel.
Resubscribe(s) ==
  /\ handler[s] = "resubscribing" /\ handlerTo(s, "running")
  /\ Subscribe(s, Requests[s][received[s]])
  /\ UNCHANGED <<relayed, reader, received, cancelled, reading, serviceClosed, queryVars>>

\* The client goes away.
Cancel(s) ==
  /\ handler[s] \notin {"absent", "returned"} /\ ~cancelled[s]
  /\ cancelled' = [cancelled EXCEPT ![s] = TRUE]
  /\ UNCHANGED <<relayed, handler, reader, received, subVars, reading, serviceClosed, queryVars>>

\* The client stops reading, for good: a Send may still find room in the flow-control window.
StopReading(s) ==
  /\ s \in Stalling /\ handler[s] \notin {"absent", "returned"} /\ reading[s]
  /\ reading' = [reading EXCEPT ![s] = FALSE]
  /\ UNCHANGED <<relayed, handler, reader, received, subVars, cancelled, serviceClosed, queryVars>>

\* The service's Close.
Close ==
  /\ Streaming /\ ~serviceClosed /\ serviceClosed' = TRUE
  /\ UNCHANGED <<relayed, handler, reader, received, subVars, cancelled, reading, queryVars>>

-----------------------------------------------------------------------------
(* Query.                                                                  *)

getMaxRows(topics) == IF \E t \in Preferences : topics = {t} THEN MaxPreferenceRows ELSE MaxRows

\* A query without topics, or for too many rows, is refused.
Refused(c) == Query[c].topics = {} \/ query[c].limit > getMaxRows(Query[c].topics)

\* A client's query, the first or from the cursor of the page before.
QueryPage(c) ==
  /\ query[c].state \in {"begin", "paging"}
  /\ \/ /\ Refused(c) /\ query' = [query EXCEPT ![c].state = "refused"]
     \/ /\ ~Refused(c)
        /\ \E page \in Pages(Query[c], query[c].cursor, query[c].limit) :
           \E cursor \in NextCursors(Query[c], page, query[c].limit) :
             query' = [query EXCEPT ![c] =
               [state |-> IF cursor = NoCursor THEN "complete" ELSE "paging",
                cursor |-> cursor, limit |-> NextLimit(@.limit), got |-> Append(@.got, page)]]
  /\ kept' = [kept EXCEPT ![c] = IF query[c].state = "begin" THEN Matching(Query[c]) ELSE @]
  /\ UNCHANGED <<streamVars, message>>

Querying == \E c \in Clients : query[c].state \in {"begin", "paging"}

InsertMessage(row) ==
  /\ Querying /\ message' = Inserted(row)
  /\ UNCHANGED <<streamVars, query, kept>>

\* A turn of the cleaner's loop.
Clean(S) ==
  /\ Querying /\ message' = message \ S
  /\ kept' = [c \in Clients |-> kept[c] \ S]
  /\ UNCHANGED <<streamVars, query>>

-----------------------------------------------------------------------------
StreamStep(s) ==
  \/ Begin(s) \/ Deliver(s) \/ SendReturns(s) \/ ChannelClosed(s) \/ Done(s)
  \/ Receive(s) \/ ReaderEnds(s) \/ TakeRequest(s) \/ Resubscribe(s)
  \/ Cancel(s) \/ StopReading(s)

\* Every stream has returned, and every client has its rows.
V1Ended ==
  /\ ~Streaming /\ ~Querying
  /\ UNCHANGED v1Vars

V1Next ==
  \/ \E s \in Streams : StreamStep(s)
  \/ \E topic \in Topics : HandleEnvelope(topic)
  \/ Close
  \/ \E c \in Clients : QueryPage(c)
  \/ \E row \in MessageRows : InsertMessage(row)
  \/ \E S \in Cleanable : Clean(S)
  \/ V1Ended

V1Spec == V1Init /\ [][V1Next]_v1Vars

\* Whether a Send is sure to return: the client reads, or has left.
Reached(s) == reading[s] \/ cancelled[s]

\* A handler runs, its Send returns to a client that reads or has left, and its select, which
\* picks among the ready cases at random, takes that of a context which is done if it meets it
\* again and again.
V1Fairness ==
  \A s \in Streams :
    /\ WF_v1Vars(Begin(s) \/ Deliver(s) \/ ChannelClosed(s) \/ Resubscribe(s))
    /\ WF_v1Vars(Reached(s) /\ SendReturns(s))
    /\ SF_v1Vars(Done(s))

V1FairSpec == V1Spec /\ V1Fairness

-----------------------------------------------------------------------------
(* Properties.                                                             *)

\* What a stream has sent and has still in its channel is every envelope on the topics of its
\* request, once and in order, from its subscription to the overflow or to its end, and
\* nothing an earlier request asked for.  Nothing is sent on a closed channel, nor is one
\* closed twice, which would end the process: a subscription in the map has an open one.
PrefixDelivered ==
  \A s \in Streams :
    LET end == IF registered[s] THEN Len(relayed) ELSE until[s]
        wanted == {n \in (since[s] + 1)..end : Matches(request[s], relayed[n])}
        given == sent[s] \o ch[s]
    IN  /\ registered[s] => open[s]
        /\ ToSet(given) = wanted
        /\ \A m, n \in 1..Len(given) : m < n => given[m] < given[n]

\* A stream whose client has gone, or whose service closes, returns and leaves nothing in the
\* dispatcher's map, and so does a Subscribe stream that was cut off as too slow; the last two
\* unless the client stays and does not read, which holds the handler in Send.
StreamsReturn ==
  \A s \in Streams :
    (handler[s] # "absent" /\ (cancelled[s] \/ serviceClosed \/ (~open[s] /\ Kind[s] = "subscribe")))
      ~> ((handler[s] = "returned" /\ ~registered[s]) \/ ~Reached(s))

\* The pages of a query have no row twice, in the order of the query, and those of a
\* completed one each row that matched all along, if none of their rows has time 0.
PagesComplete ==
  \A c \in Clients :
    LET got == query[c].got
        rows == UNION ToSet(got)
    IN
    (\A r \in rows : r.time # 0) =>
      /\ query[c].state = "complete" => kept[c] \subseteq rows
      /\ \A m, n \in 1..Len(got) : m < n => \A r \in got[m], s \in got[n] : InOrder(Query[c], r, s)
=============================================================================
