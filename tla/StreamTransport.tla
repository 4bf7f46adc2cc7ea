--------------------------- MODULE StreamTransport ---------------------------
(***************************************************************************)
(* The transport side of a Subscribe stream (pkg/mls/api/v1/subscribe.go): *)
(* the writer's send and flush, the sender goroutine behind the outbound   *)
(* queue, the reader goroutine and its request channel, and the Ping/Pong  *)
(* probe.  What the frames carry is the subject of Subscribe; here a batch *)
(* is "work", "ping" or "pong".                                            *)
(*                                                                         *)
(* Time is counted in ticks.  Timers are ages that stop at the interval or *)
(* the deadline they are compared with.  A nonce is "current" while it is  *)
(* the one of the newest Ping, and "old" afterwards.                       *)
(*                                                                         *)
(* Its specification has names of its own (TransportInit, TransportNext,   *)
(* ...): the proofs extend this module together with CatchUpLane.          *)
(***************************************************************************)
EXTENDS Integers, Sequences

CONSTANTS
  QueueDepth,     \* sendQueueDepth
  RequestBuffer,  \* the capacity of requestChannel
  PingInterval,   \* subscribePingInterval
  PongDeadline,   \* subscribePongDeadline
  Sends           \* the requests the client may send

Batches == {"work", "ping", "pong"}
Nonces == {"current", "old"}
Pong(n) == [type |-> "pong", nonce |-> n]
Requests == {[type |-> "mutate"], [type |-> "ping"], Pong("current"), Pong("old")}
NoBatch == "none"

ASSUME TransportAssumption ==
  /\ QueueDepth \in Nat \ {0} /\ RequestBuffer \in Nat \ {0}
  /\ PingInterval \in Nat \ {0} /\ PongDeadline \in Nat \ {0}
  /\ Sends \subseteq Requests

VARIABLES
  writer,       \* where the writer is: "select", "send" (in send) or "flush" (in flush)
  sending,      \* the batch it is handing over
  then,         \* what it does once send returned: "select", "probe" or "flush"
  waiting,      \* age of its sendTimer or of flush's timer
  result,       \* what the handler returned, "none" while it runs
  outbound,     \* the queue to the sender
  closed,       \* outbound is closed
  inHand,       \* the batch the sender is in stream.Send with
  sender,       \* "running", "done" (drained a closed queue) or "failed"
  sendErr,      \* an error waits in sendErrCh
  requests,     \* requestChannel
  reader,       \* "open", "eof" or "broken" (channel closed), "nil" (dormant)
  cancelled,    \* ctx is done
  halfClosed, wave, \* a half-close was seen; a catch-up wave is in flight
  awaitingPong, pingAge, idle,  \* idle is the age of lastActivity
  tickIn, tickReady,            \* the ticker
  reading,      \* the client still reads
  clientNonce   \* the newest Ping the client has read is the newest one sent, or not

senderVars == <<outbound, inHand, sender>>
clientVars == <<requests, reader, cancelled, reading, clientNonce>>
probeVars == <<awaitingPong, pingAge, idle, tickIn, tickReady>>
writerVars == <<writer, sending, then, waiting, result>>
streamVars == <<halfClosed, wave>>
transportVars == <<senderVars, closed, sendErr, clientVars, probeVars, writerVars, streamVars>>

\* The state is well formed: the outbound queue and the request channel stay within their
\* capacities and every timer within the deadline it is compared with.
TransportTypeOK ==
  /\ writer \in {"select", "send", "flush"} /\ sending \in Batches \cup {NoBatch}
  /\ then \in {"select", "probe", "flush"} /\ waiting \in 0..PongDeadline
  /\ result \in {"none", "ok", "gone", "reaped", "stalled", "error"}
  /\ outbound \in Seq(Batches) /\ Len(outbound) <= QueueDepth
  /\ inHand \in Batches \cup {NoBatch} /\ sender \in {"running", "done", "failed"}
  /\ requests \in Seq(Requests) /\ Len(requests) <= RequestBuffer
  /\ reader \in {"open", "eof", "broken", "nil"}
  /\ pingAge \in 0..PongDeadline /\ idle \in 0..PingInterval /\ tickIn \in 1..PingInterval
  /\ clientNonce \in Nonces
  /\ closed \in BOOLEAN /\ sendErr \in BOOLEAN /\ cancelled \in BOOLEAN /\ reading \in BOOLEAN
  /\ halfClosed \in BOOLEAN /\ wave \in BOOLEAN
  /\ awaitingPong \in BOOLEAN /\ tickReady \in BOOLEAN

\* The Started frame is in the queue, the producers run, nothing was read yet.
TransportInit ==
  /\ writer = "select" /\ sending = NoBatch /\ then = "select" /\ waiting = 0
  /\ result = "none"
  /\ outbound = <<"work">> /\ closed = FALSE /\ inHand = NoBatch /\ sender = "running"
  /\ sendErr = FALSE
  /\ requests = <<>> /\ reader = "open" /\ cancelled = FALSE
  /\ halfClosed = FALSE /\ wave = FALSE
  /\ awaitingPong = FALSE /\ pingAge = 0 /\ idle = 0
  /\ tickIn = PingInterval /\ tickReady = FALSE
  /\ reading = TRUE /\ clientNonce = "old"

-----------------------------------------------------------------------------
(* The sender goroutine and the client, until the handler returns.         *)

SenderTakes ==
  /\ result = "none" /\ sender = "running" /\ inHand = NoBatch /\ outbound # <<>>
  /\ inHand' = Head(outbound) /\ outbound' = Tail(outbound)
  /\ UNCHANGED <<sender, closed, sendErr, clientVars, probeVars, writerVars, streamVars>>

\* stream.Send returns: the client had room.  It has then read the Ping, if it was one.
SendReturns ==
  /\ result = "none" /\ sender = "running" /\ inHand # NoBatch /\ reading /\ ~cancelled
  /\ clientNonce' = IF inHand = "ping" THEN "current" ELSE clientNonce
  /\ inHand' = NoBatch
  /\ UNCHANGED <<outbound, sender, closed, sendErr, requests, reader, cancelled, reading,
                 probeVars, writerVars, streamVars>>

\* stream.Send fails: the error is left in sendErrCh and the sender is gone.
SendFails ==
  /\ result = "none" /\ sender = "running" /\ inHand # NoBatch
  /\ sendErr' = TRUE /\ sender' = "failed" /\ inHand' = NoBatch
  /\ UNCHANGED <<outbound, closed, clientVars, probeVars, writerVars, streamVars>>

\* The queue is closed and drained.
SenderExits ==
  /\ result = "none" /\ sender = "running" /\ inHand = NoBatch /\ outbound = <<>> /\ closed
  /\ sender' = "done"
  /\ UNCHANGED <<outbound, inHand, closed, sendErr, clientVars, probeVars, writerVars,
                 streamVars>>

\* The reader forwards a request.  A client echoes only a nonce it has read.
ClientSends(r) ==
  /\ result = "none" /\ reader = "open" /\ ~cancelled /\ Len(requests) < RequestBuffer
  /\ r = Pong("current") => clientNonce = "current"
  /\ requests' = Append(requests, r)
  /\ UNCHANGED <<senderVars, closed, sendErr, reader, cancelled, reading, clientNonce, probeVars,
                 writerVars, streamVars>>

\* Recv returns an error: a half-close (or a cancellation), or a broken transport.
ReaderEnds(how) ==
  /\ result = "none" /\ reader = "open"
  /\ reader' = how
  /\ UNCHANGED <<senderVars, closed, sendErr, requests, cancelled, reading, clientNonce,
                 probeVars, writerVars, streamVars>>

ClientStopsReading ==
  /\ result = "none" /\ reading /\ reading' = FALSE
  /\ UNCHANGED <<senderVars, closed, sendErr, requests, reader, cancelled, clientNonce,
                 probeVars, writerVars, streamVars>>

Cancel ==
  /\ result = "none" /\ ~cancelled /\ cancelled' = TRUE
  /\ UNCHANGED <<senderVars, closed, sendErr, requests, reader, reading, clientNonce, probeVars,
                 writerVars, streamVars>>

-----------------------------------------------------------------------------
(* The writer: one case of its select at a time.                           *)

Selecting == result = "none" /\ writer = "select"
InSend == result = "none" /\ writer = "send"
InFlush == result = "none" /\ writer = "flush"

\* A return closes the outbound queue (deferred closeOutbound).
Return(r) == result' = r /\ closed' = TRUE /\ UNCHANGED <<writer, sending, then, waiting>>

\* The writer calls send.
StartSend(batch, next) ==
  /\ writer' = "send" /\ sending' = batch /\ then' = next /\ waiting' = 0
  /\ UNCHANGED <<result, closed>>

\* The writer calls flush, which closes the queue.
StartFlush ==
  /\ writer' = "flush" /\ sending' = NoBatch /\ then' = "select" /\ waiting' = 0
  /\ closed' = TRUE /\ UNCHANGED result

\* ctx.Done or an error on sendErrCh, at the select.
SelectEnds ==
  /\ Selecting
  /\ \/ cancelled /\ Return("gone") /\ UNCHANGED sendErr
     \/ sendErr /\ Return("error") /\ sendErr' = FALSE
  /\ UNCHANGED <<senderVars, clientVars, probeVars, streamVars>>

TakeRequest ==
  /\ Selecting /\ reader # "nil" /\ requests # <<>>
  /\ requests' = Tail(requests)
  /\ UNCHANGED <<reader, cancelled, reading, clientNonce>>

\* A Mutate starts a wave, is answered at once, or is refused (as is an unknown version).
HandleMutate ==
  /\ TakeRequest /\ Head(requests).type = "mutate"
  /\ \/ wave' = TRUE /\ UNCHANGED <<writerVars, closed>>
     \/ StartSend("work", "select") /\ UNCHANGED wave
     \/ Return("error") /\ UNCHANGED wave
  /\ UNCHANGED <<senderVars, sendErr, probeVars, halfClosed>>

HandlePing ==
  /\ TakeRequest /\ Head(requests).type = "ping"
  /\ StartSend("pong", "select")
  /\ UNCHANGED <<senderVars, sendErr, probeVars, streamVars>>

\* Only the outstanding nonce clears the deadline.
Clears(pong) == pong.nonce = "current"

\* Mutant of IdleAfterRequest: inbound frames count as activity.
IdleAfterRequestReset == 0

\* An inbound frame does not touch lastActivity.
IdleAfterRequest == idle

HandlePong ==
  /\ TakeRequest /\ Head(requests).type = "pong"
  /\ awaitingPong' = (awaitingPong /\ ~Clears(Head(requests)))
  /\ idle' = IdleAfterRequest
  /\ UNCHANGED <<senderVars, closed, sendErr, pingAge, tickIn, tickReady, writerVars, streamVars>>

\* requestChannel is closed and drained: a broken transport fails the RPC; after a
\* half-close the waves in flight finish first, and the peer is not probed any more.
RequestsClosed ==
  /\ Selecting /\ requests = <<>> /\ reader \in {"eof", "broken"}
  /\ reader' = "nil"
  /\ \/ reader = "broken" /\ Return("error") /\ UNCHANGED <<halfClosed, awaitingPong>>
     \/ reader = "eof" /\ ~wave /\ StartFlush /\ UNCHANGED <<halfClosed, awaitingPong>>
     \/ /\ reader = "eof" /\ wave
        /\ halfClosed' = TRUE /\ awaitingPong' = FALSE
        /\ UNCHANGED <<writerVars, closed>>
  /\ UNCHANGED <<senderVars, sendErr, requests, cancelled, reading, clientNonce, pingAge,
                 idle, tickIn, tickReady, wave>>

\* A live envelope or a catch-up page is sent.  That either may also end the stream is the
\* subject of Subscribe.
Work ==
  /\ Selecting
  /\ StartSend("work", "select")
  /\ UNCHANGED <<senderVars, sendErr, clientVars, probeVars, streamVars>>

\* The last wave in flight completes: its terminal frames are sent, and a half-closed
\* stream flushes and returns.
WaveEnds ==
  /\ Selecting /\ wave
  /\ wave' = FALSE
  /\ StartSend("work", IF halfClosed THEN "flush" ELSE "select")
  /\ UNCHANGED <<senderVars, sendErr, clientVars, probeVars, halfClosed>>

\* Every nonce known so far is older than the one about to be sent.
Aged(rs) ==
  [i \in 1..Len(rs) |-> IF rs[i].type = "pong" THEN Pong("old") ELSE rs[i]]

\* The ticker: reap a peer that did not answer in time, probe an idle stream.
Tick ==
  /\ Selecting /\ tickReady
  /\ tickReady' = FALSE
  /\ IF ~halfClosed /\ awaitingPong /\ pingAge >= PongDeadline
     THEN Return("reaped") /\ UNCHANGED <<requests, clientNonce>>
     ELSE IF ~halfClosed /\ ~awaitingPong /\ idle >= PingInterval
     THEN /\ StartSend("ping", "probe")
          /\ requests' = Aged(requests) /\ clientNonce' = "old"
     ELSE UNCHANGED <<writerVars, closed, requests, clientNonce>>
  /\ UNCHANGED <<senderVars, sendErr, reader, cancelled, reading, awaitingPong, pingAge, idle,
                 tickIn, streamVars>>

\* send returned nil: a Ping is now awaited, a last wave is flushed.
AfterSend ==
  /\ IF then = "flush" THEN StartFlush
     ELSE /\ writer' = "select" /\ sending' = NoBatch /\ then' = "select" /\ waiting' = 0
          /\ UNCHANGED <<result, closed>>
  /\ awaitingPong' = (awaitingPong \/ then = "probe")
  /\ pingAge' = IF then = "probe" THEN 0 ELSE pingAge
  /\ UNCHANGED <<tickIn, tickReady>>

Room == Len(outbound) < QueueDepth

SendTimedOut == waiting >= PongDeadline

\* The sender accepts the batch.
SendAccepted ==
  /\ InSend /\ Room
  /\ outbound' = Append(outbound, sending)
  /\ idle' = 0
  /\ AfterSend
  /\ UNCHANGED <<inHand, sender, sendErr, clientVars, streamVars>>

\* send sees ctx.Done and returns nil without the batch.
SendGivesUp ==
  /\ InSend /\ cancelled
  /\ AfterSend
  /\ UNCHANGED <<idle, senderVars, sendErr, clientVars, streamVars>>

\* An error on sendErrCh, or the send stalled.
SendEnds ==
  /\ InSend
  /\ \/ sendErr /\ Return("error") /\ sendErr' = FALSE
     \/ SendTimedOut /\ Return("stalled") /\ UNCHANGED sendErr
  /\ UNCHANGED <<senderVars, clientVars, probeVars, streamVars>>

\* Mutant of Drained: the sender's end is taken for success.
DrainedAlways == "ok"

\* The sender finished, perhaps early on an error.
Drained == IF sendErr THEN "error" ELSE "ok"

\* Mutant of FlushTimedOut: flush has no deadline.
FlushTimedOutNever == FALSE

\* The drain did not finish in time.
FlushTimedOut == waiting >= PongDeadline

FlushReturns ==
  /\ InFlush
  /\ \/ sender # "running" /\ Return(Drained)
     \/ cancelled /\ Return("gone")
     \/ FlushTimedOut /\ Return("error")
  /\ UNCHANGED <<senderVars, sendErr, clientVars, probeVars, streamVars>>

\* s.ctx.Done: the node shuts down.  select and send watch it, flush does not.
ServerStops ==
  /\ Selecting \/ InSend
  /\ Return("error")
  /\ UNCHANGED <<senderVars, sendErr, clientVars, probeVars, streamVars>>

-----------------------------------------------------------------------------

Older(age, limit) == IF age < limit THEN age + 1 ELSE limit

TimePasses ==
  /\ result = "none"
  /\ waiting' = IF writer = "select" THEN waiting ELSE Older(waiting, PongDeadline)
  /\ pingAge' = IF awaitingPong THEN Older(pingAge, PongDeadline) ELSE pingAge
  /\ idle' = Older(idle, PingInterval)
  /\ tickIn' = IF tickIn = 1 THEN PingInterval ELSE tickIn - 1
  /\ tickReady' = (tickReady \/ tickIn = 1)
  /\ UNCHANGED <<senderVars, closed, sendErr, clientVars, awaitingPong, writer, sending, then,
                 result, streamVars>>

\* The handler has returned.
Returned == result # "none" /\ UNCHANGED transportVars

TransportNext ==
  \/ SenderTakes \/ SendReturns \/ SendFails \/ SenderExits
  \/ \E r \in Sends : ClientSends(r)
  \/ \E how \in {"eof", "broken"} : ReaderEnds(how)
  \/ ClientStopsReading \/ Cancel
  \/ SelectEnds \/ HandleMutate \/ HandlePing \/ HandlePong \/ RequestsClosed \/ Work \/ WaveEnds
  \/ Tick
  \/ SendAccepted \/ SendGivesUp \/ SendEnds \/ FlushReturns
  \/ ServerStops \/ TimePasses \/ Returned

TransportSpec == TransportInit /\ [][TransportNext]_transportVars

\* Time passes, goroutines that can move do, and select picks at random among the cases
\* that are ready, so none that is ready again and again is passed over for ever.  Waves
\* complete (WavesComplete of Subscribe).  Nothing is assumed of the client.
TransportFairness ==
  /\ WF_transportVars(TimePasses)
  /\ WF_transportVars(SenderTakes \/ SenderExits)
  /\ WF_transportVars(SendAccepted \/ SendGivesUp \/ SendEnds \/ FlushReturns)
  /\ SF_transportVars(Tick) /\ SF_transportVars(WaveEnds) /\ SF_transportVars(RequestsClosed)
  /\ SF_transportVars(HandleMutate \/ HandlePing \/ HandlePong)

TransportFairSpec == TransportSpec /\ TransportFairness

-----------------------------------------------------------------------------
(* Properties.                                                             *)

\* A half-closed stream that returns OK has delivered every frame (unless the client
\* itself cancelled): none is left in the queue, in the sender's hand, or was lost to an
\* error the writer did not see.
OkMeansDelivered ==
  result = "ok" /\ ~cancelled =>
    sender = "done" /\ outbound = <<>> /\ inHand = NoBatch

\* A client that stops reading loses its stream, whatever it keeps sending.
NonReaderReaped == ~reading ~> result # "none"

\* A half-close ends the stream: the waves drain, and flush is bounded.
HalfCloseEnds == reader \in {"eof", "nil"} ~> result # "none"
=============================================================================
