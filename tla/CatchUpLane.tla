----------------------------- MODULE CatchUpLane -----------------------------
(***************************************************************************)
(* The catch-up lane of a Subscribe stream, at the grain of its atomic     *)
(* operations (pkg/mls/api/v1/subscribe.go): the fetchers that share the   *)
(* scan slots, the byte budget they reserve from with a load and a         *)
(* compare-and-swap, the one-slot channel that wakes a parked fetcher, and *)
(* the writer that frees a batch's bytes when it takes the batch.          *)
(*                                                                         *)
(* A turn's size is positive: publishing refuses welcomes without data,    *)
(* and a group message without data does not parse as an MLS message.      *)
(* (freeCatchUpBytes(0) wakes nobody, so the lane depends on it.)          *)
(***************************************************************************)
EXTENDS Integers, Sequences, FiniteSets

CONSTANTS
  Fetchers,       \* the scans with rows to replay
  Sizes,          \* the bytes a turn may have
  Budget,         \* catchUpMaxPendingBytes
  MaxScans,       \* catchUpMaxConcurrentScans
  ChannelBuffer,  \* catchUpChannelBuffer
  Turns           \* bound of the model: turns per scan

ASSUME LaneAssumption ==
  /\ IsFiniteSet(Fetchers) /\ Sizes \subseteq Nat \ {0} /\ Budget \in Nat \ {0}
  /\ MaxScans \in Nat \ {0} /\ ChannelBuffer \in Nat \ {0} /\ Turns \in Nat

VARIABLES
  pc,           \* where each fetcher is
  turns,        \* the turns it has left
  size, cur,    \* its turn's bytes; the catchUpBytes it loaded
  catchUpBytes,
  freed,        \* catchUpBytesFreed holds a wakeup
  catchUpCh,    \* the bytes of the batches handed over; 0 is a done marker
  taken, left,  \* the writer: bytes of the batch it took, steps of freeCatchUpBytes left
  alive         \* the stream's context

fetchVars == <<pc, turns, size, cur>>
takeVars == <<taken, left>>
vars == <<fetchVars, catchUpBytes, freed, catchUpCh, takeVars, alive>>

Places == {"slot", "query", "load", "swap", "parked", "hand", "done", "gone"}

\* The state is well formed and the channel within its capacity.
TypeOK ==
  /\ pc \in [Fetchers -> Places] /\ turns \in [Fetchers -> 0..Turns]
  /\ size \in [Fetchers -> Sizes \cup {0}] /\ cur \in [Fetchers -> Int]
  /\ catchUpBytes \in Int /\ freed \in BOOLEAN
  /\ catchUpCh \in Seq(Sizes \cup {0}) /\ Len(catchUpCh) <= ChannelBuffer
  /\ taken \in Sizes \cup {0} /\ left \in Seq({"subtract", "wake"})
  /\ alive \in BOOLEAN

Init ==
  /\ pc = [f \in Fetchers |-> "slot"] /\ turns = [f \in Fetchers |-> Turns]
  /\ size = [f \in Fetchers |-> 0] /\ cur = [f \in Fetchers |-> 0]
  /\ catchUpBytes = 0 /\ freed = FALSE /\ catchUpCh = <<>>
  /\ taken = 0 /\ left = <<>> /\ alive = TRUE

At(f, from, to) == alive /\ pc[f] = from /\ pc' = [pc EXCEPT ![f] = to]

-----------------------------------------------------------------------------
(* The fetchers.                                                           *)

\* Mutant of Holding: a slot is held only while a turn is handed over.
HoldingInTurn == {f \in Fetchers : pc[f] = "hand"}

\* The fetchers that hold a slot.
Holding == {f \in Fetchers : pc[f] \notin {"slot", "gone"}}

\* acquireScanSlot.
AcquireScanSlot(f) ==
  /\ At(f, "slot", "query") /\ Cardinality(Holding) < MaxScans
  /\ UNCHANGED <<turns, size, cur, catchUpBytes, freed, catchUpCh, takeVars, alive>>

\* A turn's query returns rows of n bytes.
Query(f, n) ==
  /\ At(f, "query", "load") /\ turns[f] > 0
  /\ turns' = [turns EXCEPT ![f] = @ - 1] /\ size' = [size EXCEPT ![f] = n]
  /\ UNCHANGED <<cur, catchUpBytes, freed, catchUpCh, takeVars, alive>>

\* The queue of the scan is empty; the turns of a scan may end at any time.
QueueEmpty(f) ==
  /\ At(f, "query", "done")
  /\ UNCHANGED <<turns, size, cur, catchUpBytes, freed, catchUpCh, takeVars, alive>>

\* Mutant of Fits: the turn's own bytes are not counted.
FitsOneMore(c, n) == c <= Budget

Fits(c, n) == c = 0 \/ c + n <= Budget

\* reserveCatchUpBytes: load the count; without room, park.
Load(f) ==
  /\ cur' = [cur EXCEPT ![f] = catchUpBytes]
  /\ At(f, "load", IF Fits(catchUpBytes, size[f]) THEN "swap" ELSE "parked")
  /\ UNCHANGED <<turns, size, catchUpBytes, freed, catchUpCh, takeVars, alive>>

\* The comparison of CompareAndSwap.
Unchanged(f) == catchUpBytes = cur[f]

\* With the loaded count still current the reservation is made; otherwise load again.
Swap(f) ==
  /\ IF Unchanged(f)
     THEN At(f, "swap", "hand") /\ catchUpBytes' = cur[f] + size[f]
     ELSE At(f, "swap", "load") /\ UNCHANGED catchUpBytes
  /\ UNCHANGED <<turns, size, cur, freed, catchUpCh, takeVars, alive>>

\* One parked fetcher takes the wakeup and checks the budget again.
Wake(f) ==
  /\ At(f, "parked", "load") /\ freed /\ freed' = FALSE
  /\ UNCHANGED <<turns, size, cur, catchUpBytes, catchUpCh, takeVars, alive>>

BatchRoom == Len(catchUpCh) < ChannelBuffer

\* The batch, or in the end the done marker, goes into the channel; after the marker the
\* slot is released.
Hand(f) ==
  /\ BatchRoom
  /\ \/ At(f, "hand", "query") /\ catchUpCh' = Append(catchUpCh, size[f])
     \/ At(f, "done", "gone") /\ catchUpCh' = Append(catchUpCh, 0)
  /\ UNCHANGED <<turns, size, cur, catchUpBytes, freed, takeVars, alive>>

-----------------------------------------------------------------------------
(* The writer.                                                             *)

\* Mutant of FreeSteps: the wakeup is sent before the bytes are given back.
FreeStepsSwapped == <<"wake", "subtract">>

\* freeCatchUpBytes gives the bytes back, then wakes.
FreeSteps == <<"subtract", "wake">>

Take ==
  /\ alive /\ left = <<>> /\ catchUpCh # <<>>
  /\ taken' = Head(catchUpCh) /\ catchUpCh' = Tail(catchUpCh)
  /\ left' = IF Head(catchUpCh) = 0 THEN <<>> ELSE FreeSteps
  /\ UNCHANGED <<fetchVars, catchUpBytes, freed, alive>>

Subtract ==
  /\ alive /\ left # <<>> /\ Head(left) = "subtract"
  /\ catchUpBytes' = catchUpBytes - taken /\ left' = Tail(left)
  /\ UNCHANGED <<fetchVars, freed, catchUpCh, taken, alive>>

\* The wakeup is kept when nobody waits, and dropped when one is there already.
Signal ==
  /\ alive /\ left # <<>> /\ Head(left) = "wake"
  /\ freed' = TRUE /\ left' = Tail(left)
  /\ UNCHANGED <<fetchVars, catchUpBytes, catchUpCh, taken, alive>>

\* The stream's context ends (a failed query ends it too), and with it every wait.
StreamEnds ==
  /\ alive' = FALSE
  /\ UNCHANGED <<fetchVars, catchUpBytes, freed, catchUpCh, takeVars>>

-----------------------------------------------------------------------------

FetchStep(f) ==
  \/ AcquireScanSlot(f) \/ (\E n \in Sizes : Query(f, n)) \/ QueueEmpty(f)
  \/ Load(f) \/ Swap(f) \/ Wake(f) \/ Hand(f)

WriterStep == Take \/ Subtract \/ Signal

Next == (\E f \in Fetchers : FetchStep(f)) \/ WriterStep \/ StreamEnds

Spec == Init /\ [][Next]_vars

\* Every goroutine that can move does.
FairSpec == Spec /\ WF_vars(WriterStep) /\ \A f \in Fetchers : WF_vars(FetchStep(f))

-----------------------------------------------------------------------------
(* Properties.                                                             *)

Lane == INSTANCE CatchUpBudget WITH bytes <- catchUpBytes

\* The load, compare-and-swap, park and wake steps implement the budget: seen from outside
\* a turn is admitted in one step, and only into an empty lane or within the budget.
ImplementsBudget == Lane!Spec

\* No wakeup is lost: every scan hands over its turns and its done marker, or the stream
\* ends.
ScansFinish == <>(~alive \/ \A f \in Fetchers : pc[f] = "gone")

\* No more scans than there are slots have fetched rows they have not handed over, so the
\* memory outside the budget is bounded too.
SlotsBounded ==
  Cardinality({f \in Fetchers : pc[f] \in {"load", "swap", "parked", "hand"}}) <= MaxScans
=============================================================================
