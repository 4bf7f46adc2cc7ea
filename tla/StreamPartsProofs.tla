-------------------------- MODULE StreamPartsProofs --------------------------
(***************************************************************************)
(* Proofs about the two parts a Subscribe stream has beside its writer.    *)
(*                                                                         *)
(* The catch-up lane (CatchUpLane), for any scans, sizes and limits: it is *)
(* well typed, its scans stay within their slots, and its load and         *)
(* compare-and-swap steps implement the atomic budget of CatchUpBudget.    *)
(*                                                                         *)
(* The transport (StreamTransport), for any depths, buffers, intervals and *)
(* requests: a stream that returns OK has delivered what it sent, and      *)
(* every queue and timer stays within its bound.                           *)
(***************************************************************************)
EXTENDS CatchUpLane, StreamTransport, FiniteSetTheorems, TLAPS

\* Strengthening of TypeOK: a fetcher with a turn has its size, the writer frees the size
\* of a batch.
Sized ==
  /\ \A f \in Fetchers : pc[f] \in {"load", "swap", "parked", "hand"} => size[f] \in Sizes
  /\ left # <<>> => taken \in Sizes

\* A fetcher about to swap loaded a count its turn fits.
Justified == \A f \in Fetchers : pc[f] = "swap" => Fits(cur[f], size[f])

LaneInv == TypeOK /\ Sized /\ Justified

LEMMA LaneInit == Init => LaneInv
<1> SUFFICES ASSUME Init PROVE LaneInv
  OBVIOUS
<1>1. TypeOK
  <2>1. freed \in BOOLEAN /\ alive \in BOOLEAN
    BY DEF Init
  <2> QED
    BY <2>1, LaneAssumption DEF Init, TypeOK, Places
<1>2. Sized /\ Justified
  BY DEF Init, Sized, Justified
<1> QED
  BY <1>1, <1>2 DEF LaneInv

LEMMA SizeIsInt == \A n \in Sizes \cup {0} : n \in Int
  BY LaneAssumption

LEMMA LaneStep == LaneInv /\ [Next]_vars => LaneInv'
<1> SUFFICES ASSUME LaneInv, [Next]_vars PROVE LaneInv'
  OBVIOUS
<1> USE LaneAssumption DEF LaneInv, TypeOK, Places
<1>1. ASSUME NEW f \in Fetchers, AcquireScanSlot(f) PROVE LaneInv'
  BY <1>1 DEF AcquireScanSlot, At, Sized, Justified, Fits, takeVars
<1>2. ASSUME NEW f \in Fetchers, NEW n \in Sizes, Query(f, n) PROVE LaneInv'
  BY <1>2 DEF Query, At, Sized, Justified, Fits, takeVars
<1>3. ASSUME NEW f \in Fetchers, QueueEmpty(f) PROVE LaneInv'
  BY <1>3 DEF QueueEmpty, At, Sized, Justified, Fits, takeVars
<1>4. ASSUME NEW f \in Fetchers, Load(f) PROVE LaneInv'
  BY <1>4 DEF Load, At, Sized, Justified, Fits, takeVars
<1>5. ASSUME NEW f \in Fetchers, Swap(f) PROVE LaneInv'
  <2>1. cur[f] \in Int /\ size[f] \in Int
    <3>1. cur[f] \in Int /\ size[f] \in Sizes \cup {0}
      OBVIOUS
    <3> QED
      BY <3>1, SizeIsInt
  <2>2. catchUpBytes' = cur[f] + size[f] \/ catchUpBytes' = catchUpBytes
    BY <1>5 DEF Swap
  <2>3. catchUpBytes' \in Int
    BY <2>1, <2>2
  <2>4. pc' = [pc EXCEPT ![f] = "hand"] \/ pc' = [pc EXCEPT ![f] = "load"]
    BY <1>5 DEF Swap, At
  <2>5. UNCHANGED <<turns, size, cur, freed, catchUpCh, taken, left, alive>>
    BY <1>5 DEF Swap, takeVars
  <2>6. TypeOK'
    BY <2>3, <2>4, <2>5
  <2>7. pc[f] = "swap"
    BY <1>5 DEF Swap, At
  <2>8. Sized' /\ Justified'
    BY <2>4, <2>5, <2>7 DEF Sized, Justified, Fits
  <2> QED
    BY <2>6, <2>8
<1>6. ASSUME NEW f \in Fetchers, Wake(f) PROVE LaneInv'
  <2>1. freed' \in BOOLEAN
    BY <1>6 DEF Wake
  <2> QED
    BY <1>6, <2>1 DEF Wake, At, Sized, Justified, Fits, takeVars
<1>7. ASSUME NEW f \in Fetchers, Hand(f) PROVE LaneInv'
  <2>1. \E n \in Sizes \cup {0} : catchUpCh' = Append(catchUpCh, n)
    BY <1>7 DEF Hand, BatchRoom
  <2>2. catchUpCh' \in Seq(Sizes \cup {0}) /\ Len(catchUpCh') <= ChannelBuffer
    BY <1>7, <2>1 DEF Hand, BatchRoom
  <2>3. pc' = [pc EXCEPT ![f] = "query"] \/ pc' = [pc EXCEPT ![f] = "gone"]
    BY <1>7 DEF Hand, At
  <2> QED
    BY <1>7, <2>2, <2>3 DEF Hand, Sized, Justified, Fits, takeVars
<1>8. ASSUME Take PROVE LaneInv'
  <2>0. Head(catchUpCh) \in Sizes \cup {0} /\ FreeSteps \in Seq({"subtract", "wake"})
    BY <1>8 DEF Take, FreeSteps
  <2>1. catchUpCh' \in Seq(Sizes \cup {0}) /\ Len(catchUpCh') <= ChannelBuffer
    BY <1>8 DEF Take
  <2>2. taken' \in Sizes \cup {0} /\ left' \in Seq({"subtract", "wake"})
    BY <1>8, <2>0 DEF Take
  <2>3. left' # <<>> => taken' \in Sizes
    BY <1>8, <2>0 DEF Take
  <2> QED
    BY <1>8, <2>1, <2>2, <2>3 DEF Take, fetchVars, Sized, Justified, Fits
<1>9. ASSUME Subtract PROVE LaneInv'
  BY <1>9 DEF Subtract, fetchVars, Sized, Justified, Fits
<1>10. ASSUME Signal PROVE LaneInv'
  <2>1. freed' \in BOOLEAN
    BY <1>10 DEF Signal
  <2> QED
    BY <1>10, <2>1 DEF Signal, fetchVars, Sized, Justified, Fits
<1>11. ASSUME StreamEnds PROVE LaneInv'
  <2>1. alive' \in BOOLEAN
    BY <1>11 DEF StreamEnds
  <2> QED
    BY <1>11, <2>1 DEF StreamEnds, fetchVars, takeVars, Sized, Justified, Fits
<1>12. ASSUME UNCHANGED vars PROVE LaneInv'
  BY <1>12 DEF vars, fetchVars, takeVars, Sized, Justified, Fits
<1> QED
  BY <1>1, <1>2, <1>3, <1>4, <1>5, <1>6, <1>7, <1>8, <1>9, <1>10, <1>11, <1>12
  DEF Next, FetchStep, WriterStep

LEMMA LaneInvariant == Spec => []LaneInv
  BY LaneInit, LaneStep, PTL DEF Spec

\* The type invariant of the lane (subscribe.go:553-637), for any scans and limits.
THEOREM LaneTypeCorrect == Spec => []TypeOK
  BY LaneInvariant, PTL DEF LaneInv

-----------------------------------------------------------------------------
(* The budget.                                                             *)

LEMMA StepImplements == LaneInv /\ [Next]_vars => [Lane!Next]_catchUpBytes
<1> SUFFICES ASSUME LaneInv, [Next]_vars PROVE [Lane!Next]_catchUpBytes
  OBVIOUS
<1> USE DEF Lane!Next, Lane!Reserve, Lane!Free
<1>1. ASSUME NEW f \in Fetchers, Swap(f) PROVE [Lane!Next]_catchUpBytes
  <2>1. CASE Unchanged(f)
    <3>1. size[f] \in Sizes /\ Fits(cur[f], size[f]) /\ cur[f] = catchUpBytes
      BY <1>1, <2>1 DEF Swap, At, LaneInv, Sized, Justified, Unchanged
    <3> QED
      BY <1>1, <2>1, <3>1 DEF Swap, Fits
  <2>2. CASE ~Unchanged(f)
    BY <1>1, <2>2 DEF Swap
  <2> QED
    BY <2>1, <2>2
<1>2. ASSUME Subtract PROVE [Lane!Next]_catchUpBytes
  <2>1. taken \in Sizes
    BY <1>2 DEF Subtract, LaneInv, Sized
  <2> QED
    BY <1>2, <2>1 DEF Subtract
<1>3. ASSUME NEW f \in Fetchers, FetchStep(f), ~Swap(f) PROVE [Lane!Next]_catchUpBytes
  BY <1>3 DEF FetchStep, AcquireScanSlot, Query, QueueEmpty, Load, Wake, Hand
<1>4. ASSUME Take \/ Signal \/ StreamEnds \/ UNCHANGED vars PROVE [Lane!Next]_catchUpBytes
  BY <1>4 DEF Take, Signal, StreamEnds, vars
<1> QED
  BY <1>1, <1>2, <1>3, <1>4 DEF Next, FetchStep, WriterStep

\* The load, compare-and-swap, park and wake of reserveCatchUpBytes and the two steps of
\* freeCatchUpBytes implement a budget that admits a turn atomically: no interleaving of
\* fetchers and writer lets two turns share an over-budget lane's admission.
THEOREM BudgetImplemented == Spec => ImplementsBudget
<1>1. Init => Lane!Init
  BY DEF Init, Lane!Init
<1> QED
  BY <1>1, LaneInvariant, StepImplements, PTL DEF Spec, ImplementsBudget, Lane!Spec

-----------------------------------------------------------------------------
(* The scan slots.                                                         *)

SlotsInv == IsFiniteSet(Holding) /\ Cardinality(Holding) <= MaxScans

LEMMA HoldingShrinks ==
  ASSUME SlotsInv, Holding' \subseteq Holding PROVE SlotsInv'
<1>1. IsFiniteSet(Holding') /\ Cardinality(Holding') <= Cardinality(Holding)
  BY FS_Subset DEF SlotsInv
<1>2. Cardinality(Holding) \in Nat /\ Cardinality(Holding') \in Nat
  BY <1>1, FS_CardinalityType DEF SlotsInv
<1> QED
  BY <1>1, <1>2, LaneAssumption DEF SlotsInv

LEMMA SlotsInit == Init => SlotsInv
<1> SUFFICES ASSUME Init PROVE SlotsInv
  OBVIOUS
<1>1. Holding = {}
  BY DEF Init, Holding
<1> QED
  BY <1>1, FS_EmptySet, LaneAssumption DEF SlotsInv

LEMMA SlotsStep == TypeOK /\ SlotsInv /\ [Next]_vars => SlotsInv'
<1> SUFFICES ASSUME TypeOK, SlotsInv, [Next]_vars PROVE SlotsInv'
  OBVIOUS
<1> USE DEF TypeOK
<1>1. ASSUME NEW f \in Fetchers, AcquireScanSlot(f) PROVE SlotsInv'
  <2>1. Holding' \subseteq Holding \cup {f}
    BY <1>1 DEF AcquireScanSlot, At, Holding
  <2>2. /\ IsFiniteSet(Holding \cup {f})
        /\ Cardinality(Holding \cup {f}) <= Cardinality(Holding) + 1
    <3>1. /\ IsFiniteSet(Holding \cup {f})
          /\ Cardinality(Holding \cup {f}) = IF f \in Holding THEN Cardinality(Holding)
                                             ELSE Cardinality(Holding) + 1
      BY FS_AddElement DEF SlotsInv
    <3> QED
      BY <3>1, FS_CardinalityType DEF SlotsInv
  <2>3. IsFiniteSet(Holding') /\ Cardinality(Holding') <= Cardinality(Holding \cup {f})
    BY <2>1, <2>2, FS_Subset
  <2>4. /\ Cardinality(Holding) \in Nat /\ Cardinality(Holding') \in Nat
        /\ Cardinality(Holding \cup {f}) \in Nat
    BY <2>2, <2>3, FS_CardinalityType DEF SlotsInv
  <2> QED
    BY <1>1, <2>2, <2>3, <2>4, LaneAssumption DEF AcquireScanSlot, SlotsInv
<1>2. ASSUME NEW f \in Fetchers, FetchStep(f), ~AcquireScanSlot(f) PROVE SlotsInv'
  <2>1. Holding' \subseteq Holding
    BY <1>2 DEF FetchStep, Query, QueueEmpty, Load, Swap, Wake, Hand, At, Holding
  <2> QED
    BY <2>1, HoldingShrinks
<1>3. ASSUME WriterStep \/ StreamEnds \/ UNCHANGED vars PROVE SlotsInv'
  <2>1. Holding' \subseteq Holding
    BY <1>3 DEF WriterStep, Take, Subtract, Signal, StreamEnds, vars, fetchVars, Holding
  <2> QED
    BY <2>1, HoldingShrinks
<1> QED
  BY <1>1, <1>2, <1>3 DEF Next

\* At most catchUpMaxConcurrentScans scans hold rows they have not handed over, whatever
\* their number.
THEOREM SlotsAreBounded == Spec => []SlotsBounded
<1>1. SlotsInv => SlotsBounded
  <2> SUFFICES ASSUME SlotsInv PROVE SlotsBounded
    OBVIOUS
  <2> DEFINE Busy == {f \in Fetchers : pc[f] \in {"load", "swap", "parked", "hand"}}
  <2>1. Busy \subseteq Holding
    BY DEF Holding
  <2>2. IsFiniteSet(Busy) /\ Cardinality(Busy) <= Cardinality(Holding)
    BY <2>1, FS_Subset DEF SlotsInv
  <2>3. Cardinality(Holding) \in Nat /\ Cardinality(Busy) \in Nat
    BY <2>2, FS_CardinalityType DEF SlotsInv
  <2> QED
    BY <2>2, <2>3, LaneAssumption DEF SlotsInv, SlotsBounded
<1> QED
  BY <1>1, SlotsInit, SlotsStep, LaneTypeCorrect, PTL DEF Spec

-----------------------------------------------------------------------------
(* The transport.  Its invariant is about the end of a stream: the queue   *)
(* is closed only by a flush or a return, the sender leaves it only when   *)
(* it is empty, and a failed sender leaves its error for the writer.       *)

\* The flags of the state.
Flags ==
  /\ closed \in BOOLEAN /\ sendErr \in BOOLEAN /\ cancelled \in BOOLEAN /\ reading \in BOOLEAN
  /\ halfClosed \in BOOLEAN /\ wave \in BOOLEAN
  /\ awaitingPong \in BOOLEAN /\ tickReady \in BOOLEAN

\* Its queues, timers and places.
Shape ==
  /\ writer \in {"select", "send", "flush"} /\ sending \in Batches \cup {NoBatch}
  /\ then \in {"select", "probe", "flush"} /\ waiting \in 0..PongDeadline
  /\ result \in {"none", "ok", "gone", "reaped", "stalled", "error"}
  /\ outbound \in Seq(Batches) /\ Len(outbound) <= QueueDepth
  /\ inHand \in Batches \cup {NoBatch} /\ sender \in {"running", "done", "failed"}
  /\ requests \in Seq(Requests) /\ Len(requests) <= RequestBuffer
  /\ reader \in {"open", "eof", "broken", "nil"}
  /\ pingAge \in 0..PongDeadline /\ idle \in 0..PingInterval /\ tickIn \in 1..PingInterval
  /\ clientNonce \in Nonces

\* Flags and shape are the type of the state.
LEMMA TypeParts == TransportTypeOK <=> Shape /\ Flags
  BY DEF TransportTypeOK, Shape, Flags

\* The queue is closed by a flush or a return, after either of which no send begins.
ClosedAtEnd == closed => result # "none" \/ writer = "flush"

\* The sender leaves a closed queue only when it is empty.
DoneIsDrained == sender = "done" => closed /\ outbound = <<>> /\ inHand = NoBatch

\* The error of a sender that failed waits for the writer as long as the handler runs.
FailureIsSeen == sender = "failed" /\ result = "none" => sendErr

\* OK is returned only by a flush that saw the sender drain the queue.
OkIsFlushed == result = "ok" => sender = "done"

\* A writer in send has a batch in hand.
SendsABatch == writer = "send" => sending # NoBatch

DrainInv == ClosedAtEnd /\ DoneIsDrained /\ FailureIsSeen /\ OkIsFlushed /\ SendsABatch
TransportInv == TransportTypeOK /\ DrainInv

\* Requests keep their number and shape when their nonces age.
LEMMA AgedRequests ==
  ASSUME NEW rs \in Seq(Requests) PROVE Aged(rs) \in Seq(Requests) /\ Len(Aged(rs)) = Len(rs)
<1>1. Pong("old") \in Requests
  BY DEF Requests
<1>2. \A i \in 1..Len(rs) : rs[i] \in Requests
  OBVIOUS
<1> QED
  BY <1>1, <1>2 DEF Aged

\* At first the producers run and nothing is closed.
LEMMA TransportInvInit == TransportInit => TransportInv
<1> SUFFICES ASSUME TransportInit PROVE TransportInv
  OBVIOUS
<1>1. TransportTypeOK
  <2>1. Shape
    BY TransportAssumption DEF TransportInit, Shape, Batches, NoBatch, Nonces
  <2>2. Flags
    BY DEF TransportInit, Flags
  <2> QED
    BY <2>1, <2>2, TypeParts
<1>2. DrainInv
  BY DEF TransportInit, DrainInv, ClosedAtEnd, DoneIsDrained, FailureIsSeen, OkIsFlushed,
         SendsABatch, NoBatch
<1> QED
  BY <1>1, <1>2 DEF TransportInv

\* Each step keeps the shape of the state; a send or a flush begins its timer, a queue that
\* has room gets one more.
LEMMA ShapeStep == ASSUME Shape, DrainInv, [TransportNext]_transportVars PROVE Shape'
<1> USE TransportAssumption DEF senderVars, clientVars, probeVars, writerVars, streamVars
<1>1. CASE SenderTakes
  BY <1>1 DEF Shape, NoBatch, SenderTakes
<1>2. CASE SendReturns
  BY <1>2 DEF Shape, NoBatch, SendReturns, Nonces
<1>3. CASE SendFails
  BY <1>3 DEF Shape, NoBatch, SendFails
<1>4. CASE SenderExits
  BY <1>4 DEF Shape, NoBatch, SenderExits
<1>5. CASE ClientStopsReading
  BY <1>5 DEF Shape, NoBatch, ClientStopsReading
<1>6. CASE Cancel
  BY <1>6 DEF Shape, NoBatch, Cancel
<1>7. CASE SelectEnds
  BY <1>7 DEF Shape, NoBatch, SelectEnds, Selecting, Return
<1>8. CASE HandleMutate
  BY <1>8 DEF Shape, NoBatch, HandleMutate, TakeRequest, Selecting, Return, StartSend, Batches
<1>9. CASE HandlePing
  BY <1>9 DEF Shape, NoBatch, HandlePing, TakeRequest, Selecting, StartSend, Batches
<1>10. CASE HandlePong
  BY <1>10 DEF Shape, NoBatch, HandlePong, TakeRequest, Selecting, IdleAfterRequest
<1>11. CASE RequestsClosed
  BY <1>11 DEF Shape, NoBatch, RequestsClosed, Selecting, Return, StartFlush
<1>12. CASE Work
  BY <1>12 DEF Shape, NoBatch, Work, Selecting, StartSend, Batches
<1>13. CASE WaveEnds
  BY <1>13 DEF Shape, NoBatch, WaveEnds, Selecting, StartSend, Batches
<1>14. CASE Tick
  BY <1>14, AgedRequests DEF Shape, NoBatch, Tick, Selecting, Return, StartSend, Batches, Nonces
<1>15. CASE SendAccepted
  <2>1. sending \in Batches
    BY <1>15 DEF SendAccepted, InSend, DrainInv, SendsABatch, Shape
  <2>2. outbound' \in Seq(Batches) /\ Len(outbound') <= QueueDepth
    BY <1>15, <2>1 DEF SendAccepted, Room, Shape
  <2>3. pingAge' \in 0..PongDeadline
    BY <1>15 DEF SendAccepted, AfterSend, Shape
  <2> QED
    BY <1>15, <2>2, <2>3 DEF SendAccepted, AfterSend, StartFlush, InSend, Shape
<1>16. CASE SendGivesUp
  BY <1>16 DEF Shape, NoBatch, SendGivesUp, AfterSend, StartFlush, InSend
<1>17. CASE SendEnds
  BY <1>17 DEF Shape, NoBatch, SendEnds, InSend, Return
<1>18. CASE FlushReturns
  BY <1>18 DEF Shape, NoBatch, FlushReturns, InFlush, Return, Drained
<1>19. CASE ServerStops
  BY <1>19 DEF Shape, NoBatch, ServerStops, Selecting, InSend, Return
<1>20. CASE TimePasses
  BY <1>20 DEF Shape, NoBatch, TimePasses, Older
<1>21. ASSUME NEW r \in Sends, ClientSends(r) PROVE Shape'
  BY <1>21 DEF Shape, NoBatch, ClientSends
<1>22. ASSUME NEW how \in {"eof", "broken"}, ReaderEnds(how) PROVE Shape'
  BY <1>22 DEF Shape, NoBatch, ReaderEnds
<1>23. CASE UNCHANGED transportVars
  BY <1>23 DEF Shape, NoBatch, transportVars
<1> QED
  BY <1>1, <1>2, <1>3, <1>4, <1>5, <1>6, <1>7, <1>8, <1>9, <1>10, <1>11, <1>12, <1>13,
     <1>14, <1>15, <1>16, <1>17, <1>18, <1>19, <1>20, <1>21, <1>22, <1>23
  DEF TransportNext, Returned

\* Each step leaves flags flags.
LEMMA FlagsStep == ASSUME Flags, [TransportNext]_transportVars PROVE Flags'
<1> USE DEF senderVars, clientVars, probeVars, writerVars, streamVars
<1>1. CASE SenderTakes
  BY <1>1, Zenon DEF Flags, SenderTakes
<1>2. CASE SendReturns
  BY <1>2, Zenon DEF Flags, SendReturns, Nonces
<1>3. CASE SendFails
  BY <1>3, Zenon DEF Flags, SendFails
<1>4. CASE SenderExits
  BY <1>4, Zenon DEF Flags, SenderExits
<1>5. CASE ClientStopsReading
  BY <1>5, Zenon DEF Flags, ClientStopsReading
<1>6. CASE Cancel
  BY <1>6, Zenon DEF Flags, Cancel
<1>7. CASE SelectEnds
  BY <1>7, Zenon DEF Flags, SelectEnds, Selecting, Return
<1>8. CASE HandleMutate
  BY <1>8, Zenon DEF Flags, HandleMutate, TakeRequest, Selecting, Return, StartSend, Batches
<1>9. CASE HandlePing
  BY <1>9, Zenon DEF Flags, HandlePing, TakeRequest, Selecting, StartSend, Batches
<1>10. CASE HandlePong
  BY <1>10, Zenon DEF Flags, HandlePong, TakeRequest, Selecting, IdleAfterRequest
<1>11. CASE RequestsClosed
  BY <1>11, Zenon DEF Flags, RequestsClosed, Selecting, Return, StartFlush
<1>12. CASE Work
  BY <1>12, Zenon DEF Flags, Work, Selecting, StartSend, Batches
<1>13. CASE WaveEnds
  BY <1>13, Zenon DEF Flags, WaveEnds, Selecting, StartSend, Batches
<1>14. CASE Tick
  BY <1>14, Zenon DEF Flags, Tick, Selecting, Return, StartSend, Batches, Nonces
<1>15. CASE SendAccepted
  BY <1>15, Zenon DEF Flags, SendAccepted, AfterSend, StartFlush, InSend, Room, Batches
<1>16. CASE SendGivesUp
  BY <1>16, Zenon DEF Flags, SendGivesUp, AfterSend, StartFlush, InSend
<1>17. CASE SendEnds
  BY <1>17, Zenon DEF Flags, SendEnds, InSend, Return
<1>18. CASE FlushReturns
  BY <1>18, Zenon DEF Flags, FlushReturns, InFlush, Return, Drained
<1>19. CASE ServerStops
  BY <1>19, Zenon DEF Flags, ServerStops, Selecting, InSend, Return
<1>20. CASE TimePasses
  BY <1>20, Zenon DEF Flags, TimePasses, Older
<1>21. ASSUME NEW r \in Sends, ClientSends(r) PROVE Flags'
  BY <1>21, Zenon DEF Flags, ClientSends
<1>22. ASSUME NEW how \in {"eof", "broken"}, ReaderEnds(how) PROVE Flags'
  BY <1>22, Zenon DEF Flags, ReaderEnds
<1>23. CASE UNCHANGED transportVars
  BY <1>23, Zenon DEF Flags, transportVars
<1> QED
  BY <1>1, <1>2, <1>3, <1>4, <1>5, <1>6, <1>7, <1>8, <1>9, <1>10, <1>11, <1>12, <1>13,
     <1>14, <1>15, <1>16, <1>17, <1>18, <1>19, <1>20, <1>21, <1>22, <1>23
  DEF TransportNext, Returned

\* Each step keeps the books of the queue: what closes it, what the sender leaves behind, and
\* who gets to know of its failure.
LEMMA DrainStep == ASSUME Shape, DrainInv, [TransportNext]_transportVars PROVE DrainInv'
<1> USE DEF senderVars, clientVars, probeVars, writerVars, streamVars,
            DrainInv, ClosedAtEnd, DoneIsDrained, FailureIsSeen, OkIsFlushed,
         SendsABatch
<1>1. CASE SenderTakes
  BY <1>1 DEF Shape, NoBatch, SenderTakes
<1>2. CASE SendReturns
  BY <1>2 DEF Shape, NoBatch, SendReturns, Nonces
<1>3. CASE SendFails
  BY <1>3 DEF Shape, NoBatch, SendFails
<1>4. CASE SenderExits
  BY <1>4 DEF Shape, NoBatch, SenderExits
<1>5. CASE ClientStopsReading
  BY <1>5 DEF Shape, NoBatch, ClientStopsReading
<1>6. CASE Cancel
  BY <1>6 DEF Shape, NoBatch, Cancel
<1>7. CASE SelectEnds
  BY <1>7 DEF Shape, NoBatch, SelectEnds, Selecting, Return
<1>8. CASE HandleMutate
  BY <1>8 DEF Shape, NoBatch, HandleMutate, TakeRequest, Selecting, Return, StartSend, Batches
<1>9. CASE HandlePing
  BY <1>9 DEF Shape, NoBatch, HandlePing, TakeRequest, Selecting, StartSend, Batches
<1>10. CASE HandlePong
  BY <1>10 DEF Shape, NoBatch, HandlePong, TakeRequest, Selecting, IdleAfterRequest
<1>11. CASE RequestsClosed
  BY <1>11 DEF Shape, NoBatch, RequestsClosed, Selecting, Return, StartFlush
<1>12. CASE Work
  BY <1>12 DEF Shape, NoBatch, Work, Selecting, StartSend, Batches
<1>13. CASE WaveEnds
  BY <1>13 DEF Shape, NoBatch, WaveEnds, Selecting, StartSend, Batches
<1>14. CASE Tick
  BY <1>14 DEF Shape, NoBatch, Tick, Selecting, Return, StartSend, Batches, Nonces
<1>15. CASE SendAccepted
  BY <1>15 DEF Shape, NoBatch, SendAccepted, AfterSend, StartFlush, InSend, Room, Batches
<1>16. CASE SendGivesUp
  BY <1>16 DEF Shape, NoBatch, SendGivesUp, AfterSend, StartFlush, InSend
<1>17. CASE SendEnds
  BY <1>17 DEF Shape, NoBatch, SendEnds, InSend, Return
<1>18. CASE FlushReturns
  BY <1>18 DEF Shape, NoBatch, FlushReturns, InFlush, Return, Drained
<1>19. CASE ServerStops
  BY <1>19 DEF Shape, NoBatch, ServerStops, Selecting, InSend, Return
<1>20. CASE TimePasses
  BY <1>20 DEF Shape, NoBatch, TimePasses, Older
<1>21. ASSUME NEW r \in Sends, ClientSends(r) PROVE DrainInv'
  BY <1>21 DEF ClientSends
<1>22. ASSUME NEW how \in {"eof", "broken"}, ReaderEnds(how) PROVE DrainInv'
  BY <1>22 DEF ReaderEnds
<1>23. CASE UNCHANGED transportVars
  BY <1>23 DEF transportVars
<1> QED
  BY <1>1, <1>2, <1>3, <1>4, <1>5, <1>6, <1>7, <1>8, <1>9, <1>10, <1>11, <1>12, <1>13,
     <1>14, <1>15, <1>16, <1>17, <1>18, <1>19, <1>20, <1>21, <1>22, <1>23
  DEF TransportNext, Returned

\* The invariant holds throughout.
LEMMA TransportAlways == TransportSpec => []TransportInv
<1>1. TransportInv /\ [TransportNext]_transportVars => TransportInv'
  <2> SUFFICES ASSUME TransportInv, [TransportNext]_transportVars PROVE TransportInv'
    OBVIOUS
  <2>1. Shape /\ Flags /\ DrainInv
    BY TypeParts DEF TransportInv
  <2>2. Shape' /\ Flags' /\ DrainInv'
    BY <2>1, ShapeStep, FlagsStep, DrainStep
  <2>3. TransportTypeOK'
    BY <2>2 DEF TransportTypeOK, Shape, Flags
  <2> QED
    BY <2>2, <2>3 DEF TransportInv
<1> QED
  BY <1>1, TransportInvInit, PTL DEF TransportSpec

\* A stream that returns OK has nothing left in its queue or in the sender's hand, and its
\* sender did not fail: closeOutbound, the drain and the last look at sendErrCh in flush leave
\* no interleaving in which a frame is lost without an error (subscribe.go:243-297).
THEOREM OkStreamsDelivered == TransportSpec => []OkMeansDelivered
<1>1. TransportInv => OkMeansDelivered
  BY DEF TransportInv, DrainInv, OkIsFlushed, DoneIsDrained, OkMeansDelivered
<1> QED
  BY <1>1, TransportAlways, PTL

\* The outbound queue and the request channel stay within their capacities, and no timer runs
\* past the deadline it is compared with.
THEOREM TransportTypeCorrect == TransportSpec => []TransportTypeOK
<1>1. TransportInv => TransportTypeOK
  BY DEF TransportInv
<1> QED
  BY <1>1, TransportAlways, PTL
==============================================================================
