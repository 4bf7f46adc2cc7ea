---------------------------- MODULE SubscribeProofs ----------------------------
(***************************************************************************)
(* What the writer of a Subscribe stream guarantees, for every value of    *)
(* its constants, in three parts.                                          *)
(*                                                                         *)
(* Types, and the reality of the rows that move through the stream: TypeOK *)
(* is not inductive by itself: that a high-water mark stays a natural      *)
(* needs the ids of a frame to be bounded, and they are because every      *)
(* envelope on its way to the client is a row of a table (RealRows).       *)
(*                                                                         *)
(* The live lane, the gate and the answers: the dispatcher's channel holds *)
(* ascending ids per kind, all above the ids already taken from it         *)
(* (ChannelOrder, PendingPassed, LivePassed), so the live lane is ordered  *)
(* and a held envelope is new to the pending buffer; a wave owns exactly   *)
(* the topics that point to it (OwnedExact), so a gate never outlives its  *)
(* wave; and the waves emptied by a Mutate are those it answers early.     *)
(*                                                                         *)
(* Delivery: a live topic's client holds exactly the rows from its cursor  *)
(* to its mark (DeliveredExactly), misses none once its gate is open       *)
(* (NothingLost), and CatchupComplete is never premature for a live topic. *)
(* The argument follows every row that a live topic still owes its client: *)
(* it is in the dispatcher's channel, in the pending buffer, in a catch-up *)
(* batch, or ahead of a scan that has not reached it, and a batch or a     *)
(* scan never leaves a gap behind (Owed).  A wave completes when its last  *)
(* done marker arrives, and then nothing of it is under way (BookInv).     *)
(***************************************************************************)
EXTENDS Subscribe, FiniteSetTheorems, WellFoundedInduction, TLAPS

-----------------------------------------------------------------------------
(* Least and greatest elements.                                            *)

Below == {p \in Nat \X Nat : p[1] < p[2]}

\* The order of the naturals is well founded.
LEMMA BelowWellFounded == IsWellFoundedOn(Below, Nat)
<1>1. OpToRel(<, Nat) = Below
  BY DEF OpToRel, Below
<1>. QED
  BY <1>1, NatLessThanWellFounded, Zenon

\* A nonempty set of naturals has a least element.
LEMMA LeastOfNat ==
  ASSUME NEW S, S \subseteq Nat, S # {}
  PROVE  Least(S) \in S /\ \A j \in S : Least(S) <= j
<1>1. PICK x \in S : \A y \in S : ~(<<y, x>> \in Below)
  BY BelowWellFounded, WFMin
<1>2. ASSUME NEW y \in S, y < x
      PROVE  FALSE
  <2>1. <<y, x>> \in Nat \X Nat
    OBVIOUS
  <2>2. <<y, x>> \in Below
    BY <2>1, <1>2 DEF Below
  <2>. QED
    BY <2>2, <1>1
<1>3. \A y \in S : x <= y
  BY <1>2
<1>. QED
  BY <1>3 DEF Least

\* A nonempty set of naturals below a bound has a greatest element.
LEMMA GreatestOfBounded ==
  ASSUME NEW S, S \subseteq Nat, S # {}, NEW n \in Nat, \A i \in S : i <= n
  PROVE  Greatest(S) \in S /\ \A j \in S : j <= Greatest(S)
<1> DEFINE U == {n - i : i \in S}
<1>1. U \subseteq Nat /\ U # {}
  <2>1. ASSUME NEW u \in U PROVE u \in Nat
    <3>1. PICK i \in S : u = n - i
      BY <2>1
    <3>. QED
      BY <3>1
  <2>2. PICK i \in S : TRUE
    OBVIOUS
  <2>3. n - i \in U
    OBVIOUS
  <2>. QED
    BY <2>1, <2>3
<1>2. Least(U) \in U /\ \A j \in U : Least(U) <= j
  BY <1>1, LeastOfNat
<1>3. PICK g \in S : Least(U) = n - g
  BY <1>2
<1>4. \A j \in S : j <= g
  <2>1. TAKE j \in S
  <2>2. n - j \in U
    OBVIOUS
  <2>3. n - g <= n - j
    BY <1>2, <1>3, <2>2
  <2>. QED
    BY <2>3
<1>. QED
  BY <1>4 DEF Greatest

-----------------------------------------------------------------------------
(* Finite sets of envelopes.                                               *)

\* Every topic has a kind.
LEMMA KindType == \A t : Kind(t) \in Kinds
BY DEF Kind, Kinds

\* Table lengths are naturals.
LEMMA LatestType ==
  ASSUME TypeLog, NEW k \in Kinds
  PROVE  Latest(k) \in Nat
BY DEF TypeLog, Latest

\* A set of real envelopes is finite, and so are the sets its rows make.
LEMMA RealIsFinite ==
  ASSUME TypeLog, NEW S, S \subseteq Envelope, \A e \in S : Real(e)
  PROVE  IsFiniteSet(S) /\ Cardinality(S) \in Nat
<1> DEFINE n == Latest("group") + Latest("welcome")
           f == [p \in Topics \X (0..n) |-> [topic |-> p[1], id |-> p[2]]]
           T == {f[p] : p \in Topics \X (0..n)}
<1>1. n \in Nat /\ Latest("group") \in Nat /\ Latest("welcome") \in Nat
  BY LatestType DEF Kinds
<1>2. IsFiniteSet(Topics \X (0..n))
  <2>1. IsFiniteSet(0..n)
    BY <1>1, FS_Interval
  <2>. QED
    BY <2>1, TopicsAssumption, FS_Product
<1>3. f \in Surjection(Topics \X (0..n), T)
  BY DEF Surjection
<1>4. IsFiniteSet(T)
  BY <1>2, <1>3, FS_Surjection
<1>5. S \subseteq T
  <2>1. SUFFICES ASSUME NEW e \in S PROVE e \in T
    OBVIOUS
  <2>2. e \in Envelope /\ e.topic \in Topics /\ e.id \in Nat
    BY DEF Envelope
  <2>3. e.id <= n
    <3>1. Real(e)
      OBVIOUS
    <3>2. e.id <= Latest(Kind(e.topic))
      BY <3>1, KindType, LatestType DEF Real
    <3>. QED
      BY <3>2, <2>2, <1>1 DEF Kind
  <2>4. <<e.topic, e.id>> \in Topics \X (0..n)
    BY <2>2, <2>3, <1>1
  <2>5. f[<<e.topic, e.id>>] = e
    BY <2>2, <2>4 DEF Envelope
  <2>. QED
    BY <2>4, <2>5
<1>6. IsFiniteSet(S)
  BY <1>4, <1>5, FS_Subset
<1>. QED
  BY <1>6, FS_CardinalityType

-----------------------------------------------------------------------------
(* Type correctness.                                                       *)

Inv == TypeOK /\ RealRows


\* Each part of the invariant depends on its own variables only.
LEMMA TypeFrames ==
  /\ TypeLog /\ UNCHANGED logVars => TypeLog'
  /\ TypeDispatcher /\ UNCHANGED dispatcherVars => TypeDispatcher'
  /\ TypeSent /\ UNCHANGED sentVars => TypeSent'
  /\ TypeGate /\ UNCHANGED <<gateVars, adding>> => TypeGate'
  /\ TypeWaves /\ UNCHANGED waveVars => TypeWaves'
  /\ TypeStatus /\ UNCHANGED <<halfClosed, status>> => TypeStatus'
  /\ TypeFetch /\ UNCHANGED fetchVars => TypeFetch'
  /\ TypeAnswers /\ UNCHANGED answerVars => TypeAnswers'
  /\ TypeFollow /\ UNCHANGED followVars => TypeFollow'
<1>1. TypeLog /\ UNCHANGED logVars => TypeLog'
  BY DEF TypeLog, logVars
<1>2. TypeDispatcher /\ UNCHANGED dispatcherVars => TypeDispatcher'
  BY DEF TypeDispatcher, dispatcherVars
<1>3. TypeSent /\ UNCHANGED sentVars => TypeSent'
  BY DEF TypeSent, sentVars
<1>4. TypeGate /\ UNCHANGED <<gateVars, adding>> => TypeGate'
  BY DEF TypeGate, gateVars
<1>5. TypeWaves /\ UNCHANGED waveVars => TypeWaves'
  BY DEF TypeWaves, waveVars
<1>6. TypeStatus /\ UNCHANGED <<halfClosed, status>> => TypeStatus'
  BY DEF TypeStatus
<1>7. TypeFetch /\ UNCHANGED fetchVars => TypeFetch'
  BY DEF TypeFetch, fetchVars
<1>8. TypeAnswers /\ UNCHANGED answerVars => TypeAnswers'
  BY DEF TypeAnswers, answerVars
<1>9. TypeFollow /\ UNCHANGED followVars => TypeFollow'
  BY DEF TypeFollow, followVars
<1>. QED
  BY <1>1, <1>2, <1>3, <1>4, <1>5, <1>6, <1>7, <1>8, <1>9

\* The parts of RealRows depend on the tables and on their own variables only.
LEMMA RealFrames ==
  ASSUME UNCHANGED table
  PROVE  /\ \A e : Real(e) => Real(e)'
         /\ \A k : Latest(k)' = Latest(k)
         /\ RealTables => RealTables'
         /\ RealChannel /\ UNCHANGED messagesCh => RealChannel'
         /\ RealPending /\ UNCHANGED pending => RealPending'
         /\ RealBatches /\ UNCHANGED catchUpCh => RealBatches'
         /\ RealScans /\ UNCHANGED scans => RealScans'
         /\ RealPolled /\ UNCHANGED polled => RealPolled'
<1>1. \A e : Real(e) => Real(e)'
  BY DEF Real, Latest
<1>2. \A k : Latest(k)' = Latest(k)
  BY DEF Latest
<1>3. RealTables => RealTables'
  BY DEF RealTables, Latest
<1>4. RealChannel /\ UNCHANGED messagesCh => RealChannel'
  BY DEF RealChannel, Real, Latest
<1>5. RealPending /\ UNCHANGED pending => RealPending'
  BY DEF RealPending, Real, Latest
<1>6. RealBatches /\ UNCHANGED catchUpCh => RealBatches'
  BY DEF RealBatches, Real, Latest
<1>7. RealScans /\ UNCHANGED scans => RealScans'
  BY DEF RealScans, Latest
<1>8. RealPolled /\ UNCHANGED polled => RealPolled'
  BY DEF RealPolled, Latest
<1>. QED
  BY <1>1, <1>2, <1>3, <1>4, <1>5, <1>6, <1>7, <1>8

\* A return leaves the dispatcher and the status well formed.
LEMMA ReturnTypes ==
  ASSUME NEW s \in {"ok", "ended"}, Return(s), TypeStatus, TypeDispatcher
  PROVE  /\ UNCHANGED halfClosed => TypeStatus'
         /\ UNCHANGED <<subTopics, messagesCh>> => TypeDispatcher'
BY DEF Return, TypeStatus, TypeDispatcher

\* Taking the head of the envelope channel.
LEMMA ChannelTail ==
  ASSUME TypeDispatcher, messagesCh # <<>>
  PROVE  /\ Head(messagesCh) \in Envelope
         /\ Tail(messagesCh) \in Seq(Envelope)
         /\ Len(Tail(messagesCh)) <= Backlog
         /\ \A n \in 1..Len(Tail(messagesCh)) :
              /\ n + 1 \in 1..Len(messagesCh)
              /\ Tail(messagesCh)[n] = messagesCh[n + 1]
         /\ 1 \in 1..Len(messagesCh) /\ Head(messagesCh) = messagesCh[1]
BY BoundsAssumption DEF TypeDispatcher

\* Taking the head of the catch-up channel.
LEMMA BatchTail ==
  ASSUME TypeFetch, catchUpCh # <<>>
  PROVE  /\ Head(catchUpCh) \in CatchUpBatch
         /\ Tail(catchUpCh) \in Seq(CatchUpBatch)
         /\ Len(Tail(catchUpCh)) <= ChannelBuffer
         /\ \A n \in 1..Len(Tail(catchUpCh)) :
              /\ n + 1 \in 1..Len(catchUpCh)
              /\ Tail(catchUpCh)[n] = catchUpCh[n + 1]
         /\ 1 \in 1..Len(catchUpCh) /\ Head(catchUpCh) = catchUpCh[1]
BY BoundsAssumption DEF TypeFetch

\* The parts of the invariant are what its proofs cite.
LEMMA InvParts ==
  Inv <=> /\ TypeLog /\ TypeDispatcher /\ TypeSent /\ TypeGate /\ TypeWaves
          /\ TypeStatus /\ TypeFetch /\ TypeAnswers /\ TypeFollow
          /\ RealTables /\ RealChannel /\ RealPending /\ RealBatches /\ RealScans /\ RealPolled
BY DEF Inv, TypeOK, RealRows

\* The same, after a step.
LEMMA InvPartsNext ==
  Inv' <=> /\ TypeLog' /\ TypeDispatcher' /\ TypeSent' /\ TypeGate' /\ TypeWaves'
           /\ TypeStatus' /\ TypeFetch' /\ TypeAnswers' /\ TypeFollow'
           /\ RealTables' /\ RealChannel' /\ RealPending' /\ RealBatches' /\ RealScans'
           /\ RealPolled'
BY DEF Inv, TypeOK, RealRows

\* What is sent leaves the marks naturals: the ids of a topic have a greatest one, for
\* they are rows of a table.
LEMMA SendTypes ==
  ASSUME TypeLog, TypeSent, NEW floors \in [Topics -> Nat], NEW msgs \in SUBSET Envelope,
         \A e \in msgs : Real(e), NEW live, SendMessages(floors, msgs, live)
  PROVE  TypeSent'
<1> DEFINE new(t) == IdsOf(Deduped(floors, msgs), t)
<1>1. \A t \in Topics : new(t) \subseteq Nat /\ \A i \in new(t) : i <= Latest(Kind(t))
  <2>1. SUFFICES ASSUME NEW t \in Topics, NEW i \in new(t)
                 PROVE  i \in Nat /\ i <= Latest(Kind(t))
    OBVIOUS
  <2>2. PICK m \in msgs : m.topic = t /\ i = m.id
    BY DEF IdsOf, Deduped
  <2>3. m \in Envelope /\ Real(m)
    OBVIOUS
  <2>. QED
    BY <2>2, <2>3, KindType, LatestType DEF Real, Envelope
<1>2. ASSUME NEW t \in Topics, new(t) # {}
      PROVE  Greatest(new(t)) \in Nat
  <2>1. Latest(Kind(t)) \in Nat
    BY KindType, LatestType
  <2>2. Greatest(new(t)) \in new(t)
    <3> HIDE DEF new
    <3>. QED
      BY <1>1, <1>2, <2>1, GreatestOfBounded
  <2>. QED
    BY <1>1, <2>2
<1>3. hwm' \in [Topics -> Nat]
  <2>1. hwm' = [t \in Topics |-> IF new(t) = {} THEN floors[t] ELSE Greatest(new(t))]
    BY DEF SendMessages
  <2> HIDE DEF new
  <2>. QED
    BY <1>2, <2>1
<1>4. got' \in [Topics -> SUBSET Nat]
  <2>1. got' = [t \in Topics |-> IF Followed(t) THEN got[t] \cup new(t) ELSE got[t]]
    BY DEF SendMessages
  <2> HIDE DEF new
  <2>. QED
    BY <1>1, <2>1 DEF TypeSent
<1>5. misordered' \in BOOLEAN
  BY DEF SendMessages, TypeSent
<1>6. lastLive' \in [Topics -> Nat]
  <2>1. lastLive' = [t \in Topics |->
                       IF live /\ new(t) # {} THEN Greatest(new(t)) ELSE lastLive[t]]
    BY DEF SendMessages
  <2> HIDE DEF new
  <2>. QED
    BY <1>2, <2>1 DEF TypeSent
<1>. QED
  BY <1>3, <1>4, <1>5, <1>6 DEF TypeSent

-----------------------------------------------------------------------------
(* Every step keeps the invariant, action by action.                       *)

\* A new stream, with empty tables, satisfies the invariant.
LEMMA InitInv == Init => Inv
<1>1. SUFFICES ASSUME Init PROVE Inv
  OBVIOUS
<1>2. TypeLog /\ TypeSent /\ TypeGate /\ TypeFollow /\ TypeAnswers
  <2>1. TypeLog /\ TypeGate
    BY <1>1 DEF Init, TypeLog, TypeGate
  <2>2. TypeSent
    BY <1>1 DEF Init, TypeSent
  <2>3. TypeAnswers
    BY <1>1 DEF Init, TypeAnswers
  <2>4. TypeFollow
    BY <1>1 DEF Init, TypeFollow, NotFollowed
  <2>. QED
    BY <2>1, <2>2, <2>3, <2>4
<1>3. TypeDispatcher /\ TypeStatus /\ TypeFetch
  <2>1. TypeDispatcher
    BY <1>1, BoundsAssumption DEF Init, TypeDispatcher
  <2>2. TypeStatus
    BY <1>1 DEF Init, TypeStatus
  <2>3. TypeFetch
    BY <1>1, BoundsAssumption DEF Init, TypeFetch
  <2>. QED
    BY <2>1, <2>2, <2>3
<1>5. TypeWaves
  BY <1>1 DEF Init, TypeWaves
<1>4. RealTables /\ RealChannel /\ RealPending /\ RealBatches /\ RealScans /\ RealPolled
  BY <1>1 DEF Init, RealTables, RealChannel, RealPending, RealBatches, RealScans, RealPolled,
              Latest
<1>. QED
  BY <1>2, <1>3, <1>4, <1>5, InvParts

\* A table that grows keeps its rows.
LEMMA RowsStay ==
  ASSUME TypeLog, NEW t \in Topics, NEW r \in Row,
         table' = [table EXCEPT ![Kind(t)] = Append(@, r)]
  PROVE  /\ table' \in [Kinds -> Seq(Row)]
         /\ \A k \in Kinds : Latest(k) \in Nat /\ Latest(k)' \in Nat /\ Latest(k) <= Latest(k)'
         /\ \A k \in Kinds : \A i \in 1..Latest(k) : table[k][i] = table'[k][i]
         /\ \A k \in Kinds : \A i \in 1..Latest(k)' :
              i \in 1..Latest(k) \/ (k = Kind(t) /\ table'[k][i] = r)
         /\ \A e \in Envelope : Real(e) => Real(e)'
<1>1. Kind(t) \in Kinds /\ table[Kind(t)] \in Seq(Row)
  BY KindType DEF TypeLog
<1>2. table' \in [Kinds -> Seq(Row)]
  BY <1>1 DEF TypeLog
<1>3. \A k \in Kinds : Latest(k) \in Nat /\ Latest(k)' \in Nat /\ Latest(k) <= Latest(k)'
  BY <1>1, <1>2 DEF TypeLog, Latest
<1>4. \A k \in Kinds : \A i \in 1..Latest(k) : table[k][i] = table'[k][i]
  BY <1>1 DEF TypeLog, Latest
<1>5. \A k \in Kinds : \A i \in 1..Latest(k)' :
        i \in 1..Latest(k) \/ (k = Kind(t) /\ table'[k][i] = r)
  BY <1>1 DEF TypeLog, Latest
<1>6. ASSUME NEW e \in Envelope, Real(e) PROVE Real(e)'
  <2>1. e.id \in 1..Latest(Kind(e.topic)) /\ Kind(e.topic) \in Kinds
    BY <1>6, KindType DEF Real
  <2>2. e.id \in 1..Latest(Kind(e.topic))'
    BY <2>1, <1>3
  <2>3. table[Kind(e.topic)][e.id] = table'[Kind(e.topic)][e.id]
    BY <2>1, <1>4
  <2>. QED
    BY <1>6, <2>2, <2>3 DEF Real
<1>. QED
  BY <1>2, <1>3, <1>4, <1>5, <1>6

\* Publish: a table grows at its end, so what was a row stays one.
LEMMA PublishInv == ASSUME Inv, NEW t \in Topics, NEW known \in BOOLEAN, Publish(t, known)
                    PROVE  Inv'
<1> DEFINE r == [topic |-> t, known |-> known]
<1>1. r \in Row /\ r.topic = t
  BY DEF Row
<1>2. table' = [table EXCEPT ![Kind(t)] = Append(@, r)]
  BY DEF Publish
<1>3. TypeLog /\ RealTables /\ RealChannel /\ RealPending /\ RealBatches /\ RealScans
      /\ RealPolled /\ TypeDispatcher /\ TypeGate /\ TypeFetch
  BY InvParts
<1> HIDE DEF r
<1>4. /\ table' \in [Kinds -> Seq(Row)]
      /\ \A k \in Kinds : Latest(k) \in Nat /\ Latest(k)' \in Nat /\ Latest(k) <= Latest(k)'
      /\ \A k \in Kinds : \A i \in 1..Latest(k) : table[k][i] = table'[k][i]
      /\ \A k \in Kinds : \A i \in 1..Latest(k)' :
           i \in 1..Latest(k) \/ (k = Kind(t) /\ table'[k][i] = r)
      /\ \A e \in Envelope : Real(e) => Real(e)'
  BY <1>1, <1>2, <1>3, RowsStay
<1>5. TypeLog'
  BY <1>3, <1>4 DEF TypeLog, Publish
<1>6. RealTables'
  BY <1>1, <1>3, <1>4 DEF RealTables
<1>7. RealChannel'
  <2>1. messagesCh' = messagesCh
    BY DEF Publish, dispatcherVars
  <2>. QED
    BY <2>1, <1>3, <1>4 DEF RealChannel, Real, TypeDispatcher
<1>8. RealPending'
  <2>1. pending' = pending
    BY DEF Publish, gateVars
  <2>. QED
    BY <2>1, <1>3, <1>4 DEF RealPending, Real, TypeGate
<1>9. RealBatches'
  <2>1. catchUpCh' = catchUpCh
    BY DEF Publish, fetchVars
  <2>2. \A n \in 1..Len(catchUpCh) : catchUpCh[n] \in CatchUpBatch
    BY <1>3 DEF TypeFetch
  <2>3. \A n \in 1..Len(catchUpCh) : catchUpCh[n].msgs \subseteq Envelope
    BY <2>2 DEF CatchUpBatch
  <2>. QED
    BY <2>1, <2>3, <1>3, <1>4 DEF RealBatches, Real
<1>10. RealScans'
  <2>1. scans' = scans
    BY DEF Publish, fetchVars
  <2>. QED
    BY <2>1, <1>3, <1>4 DEF RealScans, TypeFetch, Scan
<1>11. RealPolled'
  <2>1. polled' = polled
    BY DEF Publish
  <2>. QED
    BY <2>1, <1>3, <1>4 DEF RealPolled, TypeLog
<1>. QED
  BY <1>5, <1>6, <1>7, <1>8, <1>9, <1>10, <1>11, InvParts, InvPartsNext, TypeFrames DEF Publish

\* Poll: the envelope handed to the dispatcher is the row the poller stands at.
LEMMA PollInv == ASSUME Inv, NEW k \in Kinds, Poll(k) PROVE Inv'
<1>1. TypeLog /\ RealTables /\ RealPolled /\ RealChannel /\ TypeDispatcher
  BY InvParts
<1> DEFINE i == polled[k] + 1
           row == table[k][i]
           e == [topic |-> row.topic, id |-> i]
<1>2. i \in 1..Latest(k) /\ Latest(k) \in Nat /\ row \in Row
  BY <1>1 DEF Poll, TypeLog, Latest
<1>3. TypeLog' /\ RealPolled'
  BY <1>1, <1>2 DEF Poll, TypeLog, RealPolled, Latest
<1>4. TypeDispatcher' /\ RealChannel'
  <2>1. UNCHANGED table
    BY DEF Poll
  <2>2. CASE UNCHANGED dispatcherVars
    BY <2>1, <2>2, <1>1, TypeFrames, RealFrames DEF dispatcherVars
  <2>3. CASE row.known /\ ~UNCHANGED dispatcherVars
    <3>1. PICK x \in Envelope : x = e
      <4>1. row.topic \in Topics /\ i \in Nat
        BY <1>2 DEF Row
      <4>2. e \in Envelope
        BY <4>1 DEF Envelope
      <4>. QED
        BY <4>2
    <3>2. HandleEnvelope(x)
      BY <2>3, <3>1 DEF Poll
    <3>3. Real(x)
      <4>1. x.topic = row.topic /\ x.id = i
        BY <3>1
      <4>2. Kind(row.topic) = k
        BY <1>1, <1>2 DEF RealTables
      <4>. QED
        BY <4>1, <4>2, <1>2, <2>3 DEF Real
    <3>4. Real(x)'
      BY <3>3, <2>1, RealFrames
    <3>5. CASE messagesCh' = Append(messagesCh, x) /\ Len(messagesCh) < Backlog
               /\ UNCHANGED <<subTopics, registered>>
      <4>1. TypeDispatcher'
        BY <3>1, <3>5, <1>1, BoundsAssumption DEF TypeDispatcher
      <4>2. \A n \in 1..Len(messagesCh)' :
              \/ n \in 1..Len(messagesCh) /\ messagesCh'[n] = messagesCh[n]
              \/ messagesCh'[n] = x
        BY <3>1, <3>5, <1>1 DEF TypeDispatcher
      <4>. QED
        BY <4>1, <4>2, <3>4, <2>1, <1>1 DEF RealChannel, Real, Latest
    <3>6. CASE registered' = FALSE /\ UNCHANGED <<subTopics, messagesCh>>
      <4>1. RealChannel'
        BY <3>6, <2>1, <1>1, RealFrames
      <4>. QED
        BY <4>1, <3>6, <1>1 DEF TypeDispatcher
    <3>. QED
      BY <3>2, <3>5, <3>6, <2>3 DEF HandleEnvelope
  <2>. QED
    BY <2>2, <2>3 DEF Poll
<1>. QED
  BY <1>3, <1>4, InvParts, InvPartsNext, TypeFrames, RealFrames DEF Poll, gateVars, fetchVars

\* StreamEnds: a return changes only the status and the registration.
LEMMA StreamEndsInv == ASSUME Inv, StreamEnds PROVE Inv'
<1>1. TypeStatus' /\ TypeDispatcher'
  BY InvParts, ReturnTypes DEF StreamEnds
<1>. QED
  BY <1>1, InvParts, InvPartsNext, TypeFrames, RealFrames DEF StreamEnds, logVars, gateVars, fetchVars

\* SubAdd: the dispatcher's topic set gains a topic.
LEMMA SubAddInv == ASSUME Inv, NEW t \in Topics, SubAdd(t) PROVE Inv'
<1>1. TypeDispatcher' /\ TypeGate'
  BY InvParts DEF SubAdd, TypeDispatcher, TypeGate, gateVars
<1>. QED
  BY <1>1, InvParts, InvPartsNext, TypeFrames, RealFrames DEF SubAdd, logVars, gateVars, fetchVars

\* HalfClose: the stream returns or remembers it.
LEMMA HalfCloseInv == ASSUME Inv, HalfClose PROVE Inv'
<1>1. TypeDispatcher' /\ TypeStatus'
  <2>1. TypeDispatcher /\ TypeStatus /\ UNCHANGED <<subTopics, messagesCh>>
    BY InvParts DEF HalfClose
  <2>2. CASE Return("ok") /\ UNCHANGED halfClosed
    BY <2>1, <2>2, ReturnTypes
  <2>3. CASE halfClosed' = TRUE /\ UNCHANGED <<status, registered>>
    BY <2>1, <2>3 DEF TypeDispatcher, TypeStatus
  <2>. QED
    BY <2>2, <2>3 DEF HalfClose
<1>. QED
  BY <1>1, InvParts, InvPartsNext, TypeFrames, RealFrames DEF HalfClose, logVars, gateVars, fetchVars

\* ConsumerTooSlow: a return.
LEMMA ConsumerTooSlowInv == ASSUME Inv, ConsumerTooSlow PROVE Inv'
<1>1. TypeStatus' /\ TypeDispatcher'
  BY InvParts, ReturnTypes DEF ConsumerTooSlow
<1>. QED
  BY <1>1, InvParts, InvPartsNext, TypeFrames, RealFrames
     DEF ConsumerTooSlow, logVars, gateVars, fetchVars

\* The channel without its head holds rows as before.
LEMMA ChannelTailReal ==
  ASSUME Inv, messagesCh # <<>>, UNCHANGED table, messagesCh' = Tail(messagesCh)
  PROVE  RealChannel'
<1>1. TypeDispatcher /\ RealChannel
  BY InvParts
<1>2. \A n \in 1..Len(messagesCh)' :
        n + 1 \in 1..Len(messagesCh) /\ messagesCh'[n] = messagesCh[n + 1]
  BY <1>1, ChannelTail
<1>. QED
  BY <1>1, <1>2 DEF RealChannel, Real, Latest

\* HoldEnvelope: the head of the channel moves to the pending buffer.
LEMMA HoldEnvelopeInv == ASSUME Inv, HoldEnvelope PROVE Inv'
<1>1. TypeDispatcher /\ TypeGate /\ TypeStatus /\ RealChannel /\ RealPending
      /\ messagesCh # <<>> /\ UNCHANGED table
  BY InvParts DEF HoldEnvelope, logVars
<1>2. PICK x \in Envelope : x = Head(messagesCh) /\ Real(x)
  BY <1>1, ChannelTail DEF RealChannel
<1>3. TypeGate'
  BY <1>1, <1>2 DEF HoldEnvelope, TypeGate
<1>4. RealPending'
  BY <1>1, <1>2, RealFrames DEF HoldEnvelope, RealPending, Real, Latest
<1>5. RealChannel'
  BY <1>1, ChannelTailReal DEF HoldEnvelope
<1>6. TypeDispatcher' /\ TypeStatus'
  <2>1. messagesCh' \in Seq(Envelope) /\ Len(messagesCh') <= Backlog
    BY <1>1, ChannelTail DEF HoldEnvelope
  <2>2. subTopics' = subTopics /\ halfClosed' = halfClosed
    BY DEF HoldEnvelope
  <2>3. CASE Return("ended")
    <3>1. status' = "ended" /\ registered' = FALSE
      BY <2>3 DEF Return
    <3>2. TypeStatus'
      BY <3>1, <2>2, <1>1 DEF TypeStatus
    <3>. QED
      BY <3>1, <3>2, <2>1, <2>2, <1>1 DEF TypeDispatcher
  <2>4. CASE UNCHANGED <<status, registered>>
    <3>1. TypeStatus'
      BY <2>4, <2>2, <1>1 DEF TypeStatus
    <3>. QED
      BY <3>1, <2>4, <2>1, <2>2, <1>1 DEF TypeDispatcher
  <2>. QED
    BY <2>3, <2>4 DEF HoldEnvelope
<1>. QED
  BY <1>1, <1>3, <1>4, <1>5, <1>6, InvParts, InvPartsNext, TypeFrames, RealFrames
     DEF HoldEnvelope, logVars, fetchVars

\* SendLive: the head of the channel is sent.
LEMMA SendLiveInv == ASSUME Inv, SendLive PROVE Inv'
<1>1. TypeDispatcher /\ TypeLog /\ TypeSent /\ RealChannel /\ messagesCh # <<>>
      /\ UNCHANGED table
  BY InvParts DEF SendLive, logVars
<1>2. Head(messagesCh) \in Envelope /\ Real(Head(messagesCh))
  BY <1>1, ChannelTail DEF RealChannel
<1>3. TypeSent'
  <2>1. hwm \in [Topics -> Nat]
    BY <1>1 DEF TypeSent
  <2>2. {Head(messagesCh)} \in SUBSET Envelope /\ \A e \in {Head(messagesCh)} : Real(e)
    BY <1>2
  <2>3. SendMessages(hwm, {Head(messagesCh)}, TRUE)
    BY DEF SendLive
  <2>. QED
    BY <1>1, <2>1, <2>2, <2>3, SendTypes
<1>4. RealChannel'
  BY <1>1, ChannelTailReal DEF SendLive
<1>5. TypeDispatcher'
  BY <1>1, ChannelTail DEF SendLive, TypeDispatcher
<1>. QED
  BY <1>1, <1>3, <1>4, <1>5, InvParts, InvPartsNext, TypeFrames, RealFrames
     DEF SendLive, logVars, gateVars, fetchVars

\* ScanProbe: the ceiling is the table's newest row.
LEMMA ScanProbeInv == ASSUME Inv, NEW s \in scans, ScanProbe(s) PROVE Inv'
<1>1. TypeLog /\ TypeFetch /\ RealScans
  BY InvParts
<1>2. PICK r : /\ r = [s EXCEPT !.pc = IF Unpruned(s.queue, Latest(s.kind)) = {}
                                       THEN "turn" ELSE "park",
                                !.ceiling = Latest(s.kind),
                                !.queue = Unpruned(s.queue, Latest(s.kind))]
               /\ scans' = (scans \ {s}) \cup {r}
  BY DEF ScanProbe
<1>3. s \in Scan /\ Latest(s.kind) \in Nat
  BY <1>1, LatestType DEF TypeFetch, Scan
<1>4. r \in Scan /\ r.ceiling = Latest(s.kind) /\ r.kind = s.kind /\ r.queue \subseteq s.queue
  BY <1>2, <1>3 DEF Scan, Unpruned
<1>5. TypeFetch'
  BY <1>1, <1>2, <1>4 DEF ScanProbe, TypeFetch
<1>6. RealScans'
  <2>1. UNCHANGED table
    BY DEF ScanProbe, logVars
  <2>2. \A q \in r.queue : Kind(q.topic) = r.kind
    BY <1>1, <1>4 DEF RealScans
  <2>3. r.ceiling <= Latest(r.kind)
    BY <1>3, <1>4
  <2>. QED
    BY <2>1, <2>2, <2>3, <1>1, <1>2 DEF RealScans, Latest
<1>. QED
  BY <1>5, <1>6, InvParts, InvPartsNext, TypeFrames, RealFrames
     DEF ScanProbe, logVars, gateVars, dispatcherVars

\* AcquireScanSlot: either ceiling is within the table.
LEMMA AcquireScanSlotInv == ASSUME Inv, NEW s \in scans, AcquireScanSlot(s) PROVE Inv'
<1>1. TypeLog /\ TypeFetch /\ RealScans
  BY InvParts
<1>2. s \in Scan /\ Latest(s.kind) \in Nat /\ s.ceiling <= Latest(s.kind)
  BY <1>1, LatestType DEF TypeFetch, Scan, RealScans
<1>3. PICK c \in {s.ceiling, Latest(s.kind)} :
        scans' = (scans \ {s}) \cup {[s EXCEPT !.pc = "turn", !.slot = TRUE, !.ceiling = c]}
  BY DEF AcquireScanSlot
<1>4. PICK r : /\ r = [s EXCEPT !.pc = "turn", !.slot = TRUE, !.ceiling = c]
               /\ scans' = (scans \ {s}) \cup {r}
  BY <1>3
<1>5. r \in Scan /\ r.ceiling <= Latest(s.kind) /\ r.kind = s.kind /\ r.queue = s.queue
  <2>1. c \in Nat /\ c <= Latest(s.kind)
    BY <1>2 DEF Scan
  <2>2. r \in Scan
    BY <2>1, <1>2, <1>4 DEF Scan
  <2>. QED
    BY <2>1, <1>2, <1>4 DEF Scan
<1>6. TypeFetch'
  BY <1>1, <1>4, <1>5 DEF AcquireScanSlot, TypeFetch
<1>7. RealScans'
  BY <1>1, <1>4, <1>5 DEF AcquireScanSlot, RealScans, Latest, logVars
<1>. QED
  BY <1>6, <1>7, InvParts, InvPartsNext, TypeFrames, RealFrames
     DEF AcquireScanSlot, logVars, gateVars, dispatcherVars

\* What a turn reads are rows of the table, finitely many.
LEMMA TurnReal ==
  ASSUME Inv, NEW s \in scans, NEW batch \in SUBSET s.queue
  PROVE  LET msgs == UNION {PageMessages(s.kind, q, s.ceiling) : q \in batch}
         IN  /\ msgs \in SUBSET Envelope
             /\ \A e \in msgs : Real(e)
             /\ Cardinality(msgs) \in Nat
<1> DEFINE msgs == UNION {PageMessages(s.kind, q, s.ceiling) : q \in batch}
<1>1. TypeLog /\ TypeFetch /\ RealScans
  BY InvParts
<1>2. s \in Scan /\ Latest(s.kind) \in Nat /\ s.ceiling <= Latest(s.kind)
  BY <1>1, LatestType DEF TypeFetch, Scan, RealScans
<1>3. ASSUME NEW e \in msgs PROVE e \in Envelope /\ Real(e)
  <2>1. PICK q \in batch : e \in PageMessages(s.kind, q, s.ceiling)
    OBVIOUS
  <2>2. q \in Catchup /\ Kind(q.topic) = s.kind
    BY <1>1, <1>2 DEF RealScans, Scan
  <2>3. PICK i \in Page(s.kind, q, s.ceiling) :
          table[s.kind][i].known /\ e = [topic |-> q.topic, id |-> i]
    BY <2>1 DEF PageMessages
  <2>4. i \in (q.cursor + 1)..s.ceiling /\ table[s.kind][i].topic = q.topic
    BY DEF Page, RawRows
  <2>5. i \in 1..Latest(s.kind)
    BY <2>2, <2>4, <1>2 DEF Catchup, Scan
  <2>6. q.topic \in Topics /\ i \in Nat
    BY <2>2, <2>5 DEF Catchup
  <2>7. e \in Envelope /\ e.topic = q.topic /\ e.id = i
    BY <2>3, <2>6 DEF Envelope
  <2>. QED
    BY <2>2, <2>3, <2>4, <2>5, <2>7 DEF Real
<1>4. msgs \in SUBSET Envelope /\ \A e \in msgs : Real(e)
  BY <1>3
<1> HIDE DEF msgs
<1>5. Cardinality(msgs) \in Nat
  BY <1>1, <1>4, RealIsFinite
<1>. QED
  BY <1>4, <1>5 DEF msgs

\* A topic that rotates keeps its place in the queue with a cursor that is a row id.
LEMMA RotatedType ==
  ASSUME NEW k, NEW batch \in SUBSET Catchup, NEW ceiling \in Nat
  PROVE  /\ Rotated(k, batch, ceiling) \in SUBSET Catchup
         /\ \A r \in Rotated(k, batch, ceiling) : \E q \in batch : r.topic = q.topic
<1>1. SUFFICES ASSUME NEW r \in Rotated(k, batch, ceiling)
               PROVE  r \in Catchup /\ \E q \in batch : r.topic = q.topic
  OBVIOUS
<1>2. PICK q \in batch : /\ Cardinality(Page(k, q, ceiling)) >= PageLimit
                         /\ r = [q EXCEPT !.cursor = Greatest(Page(k, q, ceiling))]
  BY DEF Rotated
<1>3. q \in Catchup /\ q.cursor \in Nat
  BY DEF Catchup
<1>4. Page(k, q, ceiling) # {}
  BY <1>2, FS_EmptySet, BoundsAssumption
<1>5. Page(k, q, ceiling) \subseteq Nat /\ \A i \in Page(k, q, ceiling) : i <= ceiling
  BY <1>3 DEF Page, RawRows
<1>6. Greatest(Page(k, q, ceiling)) \in Nat
  BY <1>4, <1>5, GreatestOfBounded
<1>. QED
  BY <1>2, <1>3, <1>6 DEF Catchup

\* Handing a batch of rows over leaves a channel of such batches.
LEMMA AppendBatch ==
  ASSUME Inv, NEW b \in CatchUpBatch, \A e \in b.msgs : Real(e), UNCHANGED table,
         Len(catchUpCh) < ChannelBuffer, catchUpCh' = Append(catchUpCh, b)
  PROVE  /\ catchUpCh' \in Seq(CatchUpBatch) /\ Len(catchUpCh') <= ChannelBuffer
         /\ RealBatches'
<1>1. TypeFetch /\ RealBatches
  BY InvParts
<1>2. catchUpCh' \in Seq(CatchUpBatch) /\ Len(catchUpCh') <= ChannelBuffer
  BY <1>1, BoundsAssumption DEF TypeFetch
<1>3. \A n \in 1..Len(catchUpCh)' :
        \/ n \in 1..Len(catchUpCh) /\ catchUpCh'[n] = catchUpCh[n]
        \/ catchUpCh'[n] = b
  BY <1>1 DEF TypeFetch
<1>. QED
  BY <1>1, <1>2, <1>3 DEF RealBatches, Real, Latest

\* ScanTurn: a page of rows enters the catch-up channel.
LEMMA ScanTurnInv ==
  ASSUME Inv, NEW s \in scans, NEW batch \in SUBSET s.queue, ScanTurn(s, batch)
  PROVE  Inv'
<1> DEFINE msgs == UNION {PageMessages(s.kind, q, s.ceiling) : q \in batch}
<1>1. TypeFetch /\ RealScans /\ RealBatches /\ UNCHANGED table
  BY InvParts DEF ScanTurn, logVars
<1>2. /\ msgs \in SUBSET Envelope
      /\ \A e \in msgs : Real(e)
      /\ Cardinality(msgs) \in Nat
  BY TurnReal
<1>3. s \in Scan /\ s.ceiling <= Latest(s.kind) /\ s.queue \in SUBSET Catchup
      /\ s.wave \in Nat /\ s.ceiling \in Nat
  BY <1>1 DEF TypeFetch, RealScans, Scan
<1>4. PICK r : /\ r = [s EXCEPT !.queue = (s.queue \ batch) \cup Rotated(s.kind, batch, s.ceiling)]
               /\ scans' = (scans \ {s}) \cup {r}
  BY DEF ScanTurn
<1>5. /\ Rotated(s.kind, batch, s.ceiling) \in SUBSET Catchup
      /\ \A x \in Rotated(s.kind, batch, s.ceiling) : \E q \in batch : x.topic = q.topic
  BY <1>3, RotatedType
<1>6. r \in Scan /\ r.kind = s.kind /\ r.ceiling = s.ceiling
      /\ r.queue = (s.queue \ batch) \cup Rotated(s.kind, batch, s.ceiling)
  BY <1>3, <1>4, <1>5 DEF Scan
<1>7. RealScans'
  <2>1. \A q \in r.queue : Kind(q.topic) = r.kind
    BY <1>1, <1>5, <1>6 DEF RealScans
  <2>. QED
    BY <2>1, <1>1, <1>3, <1>4, <1>6 DEF RealScans, Latest
<1>8. TypeFetch' /\ RealBatches'
  <2>1. scans' \subseteq Scan
    BY <1>1, <1>4, <1>6 DEF TypeFetch
  <2>2. CASE msgs = {}
    <3>1. UNCHANGED <<catchUpCh, catchUpBytes>>
      BY <2>2 DEF ScanTurn
    <3>. QED
      BY <3>1, <2>1, <1>1, RealFrames DEF TypeFetch
  <2>3. CASE msgs # {}
    <3>1. PICK b : b = [wave |-> s.wave, msgs |-> msgs, done |-> FALSE, err |-> FALSE]
      OBVIOUS
    <3>2. b \in CatchUpBatch /\ b.msgs = msgs
      BY <3>1, <1>2, <1>3 DEF CatchUpBatch
    <3>3. /\ Len(catchUpCh) < ChannelBuffer /\ catchUpCh' = Append(catchUpCh, b)
          /\ catchUpBytes' = catchUpBytes + Cardinality(msgs)
      BY <2>3, <3>1 DEF ScanTurn
    <3> HIDE DEF msgs
    <3>4. /\ catchUpCh' \in Seq(CatchUpBatch) /\ Len(catchUpCh') <= ChannelBuffer
          /\ RealBatches'
      BY <3>2, <3>3, <1>1, <1>2, AppendBatch
    <3>5. catchUpBytes' \in Int
      BY <3>3, <1>1, <1>2 DEF TypeFetch
    <3>. QED
      BY <3>4, <3>5, <2>1 DEF TypeFetch
  <2>. QED
    BY <2>2, <2>3
<1>. QED
  BY <1>1, <1>7, <1>8, InvParts, InvPartsNext, TypeFrames, RealFrames
     DEF ScanTurn, logVars, gateVars, dispatcherVars

\* ScanDone: the done marker carries no row.
LEMMA ScanDoneInv == ASSUME Inv, NEW s \in scans, ScanDone(s) PROVE Inv'
<1>1. TypeFetch /\ RealScans /\ UNCHANGED table
  BY InvParts DEF ScanDone, logVars
<1>2. PICK b : b = [wave |-> s.wave, msgs |-> {}, done |-> TRUE, err |-> FALSE]
  OBVIOUS
<1>3. b \in CatchUpBatch /\ b.msgs = {}
  BY <1>1, <1>2 DEF CatchUpBatch, TypeFetch, Scan
<1>4. /\ catchUpCh' \in Seq(CatchUpBatch) /\ Len(catchUpCh') <= ChannelBuffer
      /\ RealBatches'
  BY <1>1, <1>2, <1>3, AppendBatch DEF ScanDone
<1>5. TypeFetch' /\ RealScans'
  BY <1>1, <1>4 DEF ScanDone, TypeFetch, RealScans, Latest
<1>. QED
  BY <1>1, <1>4, <1>5, InvParts, InvPartsNext, TypeFrames, RealFrames
     DEF ScanDone, logVars, gateVars, dispatcherVars

\* ScanFails: the error carries no row.
LEMMA ScanFailsInv == ASSUME Inv, NEW s \in scans, ScanFails(s) PROVE Inv'
<1>1. TypeFetch /\ RealScans /\ UNCHANGED table
  BY InvParts DEF ScanFails, logVars
<1>2. PICK b : b = [wave |-> 0, msgs |-> {}, done |-> FALSE, err |-> TRUE]
  OBVIOUS
<1>3. b \in CatchUpBatch /\ b.msgs = {}
  BY <1>2 DEF CatchUpBatch
<1>4. /\ catchUpCh' \in Seq(CatchUpBatch) /\ Len(catchUpCh') <= ChannelBuffer
      /\ RealBatches'
  BY <1>1, <1>2, <1>3, AppendBatch DEF ScanFails
<1>5. TypeFetch' /\ RealScans'
  BY <1>1, <1>4 DEF ScanFails, TypeFetch, RealScans, Latest
<1>. QED
  BY <1>1, <1>4, <1>5, InvParts, InvPartsNext, TypeFrames, RealFrames
     DEF ScanFails, logVars, gateVars, dispatcherVars

\* Taking a batch: it holds finitely many rows, and so do the ones behind it.
LEMMA TakeBatchTypes ==
  ASSUME Inv, TakeBatch, UNCHANGED table
  PROVE  /\ Taken \in CatchUpBatch /\ Taken.msgs \in SUBSET Envelope
         /\ \A e \in Taken.msgs : Real(e)
         /\ IsFiniteSet(Taken.msgs) /\ Cardinality(Taken.msgs) \in Nat
         /\ UNCHANGED catchUpBytes \/ FreeBytes => TypeFetch'
         /\ RealBatches' /\ RealScans'
<1>1. TypeLog /\ TypeFetch /\ RealBatches /\ RealScans /\ catchUpCh # <<>>
      /\ catchUpCh' = Tail(catchUpCh) /\ UNCHANGED scans
  BY InvParts DEF TakeBatch
<1>2. Taken \in CatchUpBatch /\ Taken = catchUpCh[1] /\ 1 \in 1..Len(catchUpCh)
  BY <1>1, BatchTail DEF Taken
<1>3. Taken.msgs \in SUBSET Envelope /\ \A e \in Taken.msgs : Real(e)
  BY <1>1, <1>2 DEF CatchUpBatch, RealBatches
<1>4. IsFiniteSet(Taken.msgs) /\ Cardinality(Taken.msgs) \in Nat
  BY <1>1, <1>3, RealIsFinite
<1>5. UNCHANGED catchUpBytes \/ FreeBytes => TypeFetch'
  BY <1>1, <1>4, BatchTail DEF TypeFetch, FreeBytes
<1>6. RealBatches' /\ RealScans'
  <2>1. \A n \in 1..Len(catchUpCh)' :
          n + 1 \in 1..Len(catchUpCh) /\ catchUpCh'[n] = catchUpCh[n + 1]
    BY <1>1, BatchTail
  <2>. QED
    BY <2>1, <1>1, RealFrames DEF RealBatches, Real, Latest
<1>. QED
  BY <1>2, <1>3, <1>4, <1>5, <1>6

\* FailBatch: a return.
LEMMA FailBatchInv == ASSUME Inv, FailBatch PROVE Inv'
<1>1. TakeBatch /\ UNCHANGED table /\ UNCHANGED catchUpBytes
  BY DEF FailBatch, logVars
<1>2. TypeFetch' /\ RealBatches' /\ RealScans'
  BY <1>1, TakeBatchTypes
<1>3. TypeStatus' /\ TypeDispatcher'
  BY InvParts, ReturnTypes DEF FailBatch
<1>. QED
  BY <1>1, <1>2, <1>3, InvParts, InvPartsNext, TypeFrames, RealFrames
     DEF FailBatch, logVars, gateVars

\* DropStraggler: the batch disappears.
LEMMA DropStragglerInv == ASSUME Inv, DropStraggler PROVE Inv'
<1>1. TakeBatch /\ UNCHANGED table /\ FreeBytes
  BY DEF DropStraggler, logVars
<1>2. TypeFetch' /\ RealBatches' /\ RealScans'
  BY <1>1, TakeBatchTypes
<1>. QED
  BY <1>1, <1>2, InvParts, InvPartsNext, TypeFrames, RealFrames
     DEF DropStraggler, logVars, gateVars, dispatcherVars

\* ReplayBatch: the wanted rows of the batch are sent.
LEMMA ReplayBatchInv == ASSUME Inv, ReplayBatch PROVE Inv'
<1> DEFINE msgs == {m \in Taken.msgs : Wanted(Taken.wave, m.topic)}
<1>1. TakeBatch /\ UNCHANGED table /\ FreeBytes /\ SendMessages(hwm, msgs, FALSE)
  BY DEF ReplayBatch, logVars
<1>2. TypeFetch' /\ RealBatches' /\ RealScans'
  BY <1>1, TakeBatchTypes
<1>3. msgs \in SUBSET Envelope /\ \A e \in msgs : Real(e)
  BY <1>1, TakeBatchTypes
<1>4. TypeSent'
  <2>1. TypeLog /\ TypeSent /\ hwm \in [Topics -> Nat]
    BY InvParts DEF TypeSent
  <2> HIDE DEF msgs
  <2>. QED
    BY <2>1, <1>1, <1>3, SendTypes
<1>. QED
  BY <1>1, <1>2, <1>4, InvParts, InvPartsNext, TypeFrames, RealFrames
     DEF ReplayBatch, logVars, gateVars, dispatcherVars

\* ScanDrained: the wave waits for one scan less.
LEMMA ScanDrainedInv == ASSUME Inv, ScanDrained PROVE Inv'
<1>1. TakeBatch /\ UNCHANGED table /\ FreeBytes
  BY DEF ScanDrained, logVars
<1>2. TypeFetch' /\ RealBatches' /\ RealScans'
  BY <1>1, TakeBatchTypes
<1>3. TypeWaves'
  <2>1. TypeWaves
    BY InvParts
  <2>2. PICK w : w = Taken.wave
    OBVIOUS
  <2>3. w \in DOMAIN waves /\ waves[w] \in WaveState
    BY <2>1, <2>2 DEF ScanDrained, TypeWaves
  <2>4. PICK v : v = [waves[w] EXCEPT !.scansLeft = waves[w].scansLeft - 1]
    OBVIOUS
  <2>5. v \in WaveState
    BY <2>3, <2>4 DEF WaveState
  <2>6. waves' = [waves EXCEPT ![w] = v]
    BY <2>2, <2>4 DEF ScanDrained
  <2>7. UNCHANGED <<topicWave, nextWave>>
    BY DEF ScanDrained
  <2>. QED
    BY <2>1, <2>3, <2>5, <2>6, <2>7 DEF TypeWaves
<1>. QED
  BY <1>1, <1>2, <1>3, InvParts, InvPartsNext, TypeFrames, RealFrames
     DEF ScanDrained, logVars, gateVars, dispatcherVars

\* CompleteWave: the gated buffer is sent and the wave deleted.
LEMMA CompleteWaveInv == ASSUME Inv, CompleteWave PROVE Inv'
<1> DEFINE w == Taken.wave
           T == Settled(w)
           fold == {e \in pending : e.topic \in T \cap catchingUp}
           floors == [t \in Topics |-> IF t \in T \ catchingUp THEN 0 ELSE hwm[t]]
           i == waves[w].mutateID
<1>1. TakeBatch /\ UNCHANGED table /\ FreeBytes /\ SendMessages(floors, fold, FoldIsLive)
  BY DEF CompleteWave, logVars
<1>2. TypeFetch' /\ RealBatches' /\ RealScans'
  BY <1>1, TakeBatchTypes
<1>3. TypeLog /\ TypeSent /\ TypeGate /\ TypeWaves /\ TypeAnswers /\ TypeStatus
      /\ TypeDispatcher /\ RealPending
  BY InvParts
<1>4. fold \in SUBSET Envelope /\ (\A e \in fold : Real(e)) /\ floors \in [Topics -> Nat]
  BY <1>3 DEF TypeSent, TypeGate, RealPending
<1>5. TypeSent'
  <2> HIDE DEF fold, floors
  <2>. QED
    BY <1>1, <1>3, <1>4, SendTypes
<1>6. TypeGate' /\ RealPending'
  <2>1. Cardinality(fold) \in Nat
    <3> HIDE DEF fold
    <3>. QED
      BY <1>3, <1>4, RealIsFinite
  <2>2. /\ catchingUp' = catchingUp \ T
        /\ pending' = pending \ fold
        /\ pendingBytes' = pendingBytes - Cardinality(fold)
        /\ UNCHANGED <<subscribed, adding>>
    BY DEF CompleteWave
  <2> HIDE DEF fold, T
  <2>3. TypeGate'
    BY <2>1, <2>2, <1>3 DEF TypeGate
  <2>. QED
    BY <2>2, <2>3, <1>1, <1>3 DEF RealPending, Real, Latest
<1>7. TypeWaves'
  <2>1. /\ topicWave' = [t \in Topics |-> IF t \in T THEN NoWave ELSE topicWave[t]]
        /\ waves' = [v \in DOMAIN waves \ {w} |-> waves[v]]
        /\ UNCHANGED nextWave
    BY DEF CompleteWave
  <2> HIDE DEF w, T
  <2>. QED
    BY <2>1, <1>3 DEF TypeWaves
<1>8. TypeAnswers'
  <2>1. acked' = [acked EXCEPT ![i] = @ + 1] /\ UNCHANGED <<mutates, asked>>
    BY DEF CompleteWave
  <2> HIDE DEF i
  <2>2. acked \in [MutateIds -> Nat]
    BY <1>3 DEF TypeAnswers
  <2>3. acked' = [j \in MutateIds |-> IF j = i THEN acked[j] + 1 ELSE acked[j]]
    BY <2>1, <2>2
  <2>4. acked' \in [MutateIds -> Nat]
    BY <2>2, <2>3
  <2>. QED
    BY <2>1, <2>4, <1>3 DEF TypeAnswers
<1>9. TypeStatus' /\ TypeDispatcher'
  <2>1. UNCHANGED <<halfClosed, subTopics, messagesCh>>
    BY DEF CompleteWave
  <2>2. CASE Return("ok")
    BY <2>1, <2>2, <1>3, ReturnTypes
  <2>3. CASE UNCHANGED <<status, registered>>
    BY <2>1, <2>3, <1>3, TypeFrames DEF dispatcherVars
  <2>. QED
    BY <2>2, <2>3 DEF CompleteWave
<1>. QED
  BY <1>1, <1>2, <1>5, <1>6, <1>7, <1>8, <1>9, InvParts, InvPartsNext, TypeFrames, RealFrames
     DEF CompleteWave, logVars

-----------------------------------------------------------------------------
(* Mutates.                                                                *)

\* The cursor of a topic a Mutate adds is one the client sent.
LEMMA CursorType ==
  ASSUME NEW m \in Mutates, NEW t \in AddTopics(m)
  PROVE  Cursor(m, t) \in Nat
<1> DEFINE C == {a.cursor : a \in {b \in m.adds : b.topic = t}}
<1>1. m \in MutateFrame
  BY MutatesAssumption
<1>2. \A a \in m.adds : a.cursor \in Nat
  BY <1>1 DEF MutateFrame
<1>3. C \subseteq Nat
  BY <1>2
<1>4. C # {}
  BY DEF AddTopics
<1> HIDE DEF C
<1>5. Least(C) \in Nat
  BY <1>3, <1>4, LeastOfNat
<1>. QED
  BY <1>5 DEF Cursor, C

\* What a Mutate drops and adds are topics, finitely many.
LEMMA MutateTopics ==
  ASSUME NEW m \in Mutates, ~Malformed(m), BadTopic \notin m.removes
  PROVE  /\ m.id \in MutateIds /\ m.id \in Nat
         /\ AddTopics(m) \subseteq Topics /\ m.removes \subseteq Topics
         /\ Resets(m) \subseteq Topics /\ Fresh(m) \subseteq AddTopics(m)
         /\ IsFiniteSet(Fresh(m)) /\ Cardinality(Fresh(m)) \in Nat
<1>1. m \in MutateFrame /\ MutateIds \subseteq Nat
  BY MutatesAssumption
<1>2. m.id \in MutateIds /\ m.removes \subseteq Topics
  BY <1>1 DEF MutateFrame
<1>3. AddTopics(m) \subseteq Topics
  <2>1. \A a \in m.adds : a.topic \in Topics \cup {BadTopic}
    BY <1>1 DEF MutateFrame
  <2>2. BadTopic \notin AddTopics(m)
    BY DEF Malformed
  <2>. QED
    BY <2>1, <2>2 DEF AddTopics
<1>4. Resets(m) \subseteq AddTopics(m) /\ Fresh(m) \subseteq AddTopics(m)
  BY DEF Resets, Fresh
<1>5. IsFiniteSet(Fresh(m)) /\ Cardinality(Fresh(m)) \in Nat
  BY <1>3, <1>4, TopicsAssumption, FS_Subset, FS_CardinalityType
<1>. QED
  BY <1>1, <1>2, <1>3, <1>4, <1>5

\* A set of waves in flight is finite.
LEMMA WavesFinite ==
  ASSUME TypeWaves, NEW W \in SUBSET DOMAIN waves
  PROVE  IsFiniteSet(W) /\ Cardinality(W) \in Nat
<1>1. IsFiniteSet(0..(nextWave - 1))
  <2>1. 0 \in Int /\ nextWave - 1 \in Int
    BY DEF TypeWaves
  <2>. QED
    BY <2>1, FS_Interval
<1>2. W \subseteq 0..(nextWave - 1)
  BY DEF TypeWaves
<1>. QED
  BY <1>1, <1>2, FS_Subset, FS_CardinalityType

\* The waves left by dropping topics are waves.
LEMMA KeptWavesType ==
  ASSUME TypeWaves, NEW D \in SUBSET Topics
  PROVE  /\ DOMAIN KeptWaves(D) \subseteq DOMAIN waves
         /\ KeptWaves(D) \in [DOMAIN KeptWaves(D) -> WaveState]
         /\ \A i : EarlyAnswers(D, i) \in Nat
<1>1. \A w : Cardinality(Lost(w, D)) \in Nat
  <2>1. \A w : Lost(w, D) \subseteq Topics
    BY DEF Lost
  <2>. QED
    BY <2>1, TopicsAssumption, FS_Subset, FS_CardinalityType
<1>2. DOMAIN KeptWaves(D) = DOMAIN waves \ Emptied(D)
  BY DEF KeptWaves
<1>3. ASSUME NEW w \in DOMAIN KeptWaves(D) PROVE KeptWaves(D)[w] \in WaveState
  <2>1. waves[w] \in WaveState
    BY <1>2 DEF TypeWaves
  <2>2. KeptWaves(D)[w] = [waves[w] EXCEPT !.owned = waves[w].owned - Cardinality(Lost(w, D))]
    BY <1>2 DEF KeptWaves
  <2>. QED
    BY <2>1, <2>2, <1>1 DEF WaveState
<1>4. ASSUME NEW i PROVE EarlyAnswers(D, i) \in Nat
  <2>1. {w \in Emptied(D) : waves[w].mutateID = i} \in SUBSET DOMAIN waves
    BY DEF Emptied
  <2>. QED
    BY <2>1, WavesFinite DEF EarlyAnswers
<1>5. KeptWaves(D) \in [DOMAIN KeptWaves(D) -> WaveState]
  BY <1>3 DEF KeptWaves
<1>. QED
  BY <1>2, <1>4, <1>5

\* RefuseMutate: a return, after the answers of the waves already emptied.
LEMMA RefuseMutateInv == ASSUME Inv, NEW m \in Mutates, RefuseMutate(m) PROVE Inv'
<1>1. TypeWaves /\ TypeAnswers /\ TypeStatus /\ TypeDispatcher
  BY InvParts
<1>2. PICK D \in SUBSET Topics :
        acked' = [i \in MutateIds |-> acked[i] + EarlyAnswers(D, i)]
  BY DEF RefuseMutate
<1>3. \A i : EarlyAnswers(D, i) \in Nat
  BY <1>1, KeptWavesType
<1>4. TypeAnswers'
  BY <1>1, <1>2, <1>3 DEF RefuseMutate, TypeAnswers
<1>5. TypeStatus' /\ TypeDispatcher'
  BY <1>1, ReturnTypes DEF RefuseMutate
<1>. QED
  BY <1>4, <1>5, InvParts, InvPartsNext, TypeFrames, RealFrames
     DEF RefuseMutate, logVars, gateVars, fetchVars

\* The scans a Mutate starts are scans of its topics.
LEMMA NewScansType ==
  ASSUME TypeWaves, NEW m \in Mutates, NEW A \in SUBSET Topics, A \subseteq AddTopics(m)
  PROVE  /\ NewScans(m, A) \subseteq Scan
         /\ \A s \in NewScans(m, A) :
              s.ceiling = 0 /\ \A q \in s.queue : Kind(q.topic) = s.kind
<1>1. SUFFICES ASSUME NEW s \in NewScans(m, A)
               PROVE  s \in Scan /\ s.ceiling = 0 /\ \A q \in s.queue : Kind(q.topic) = s.kind
  OBVIOUS
<1>2. PICK k \in {Kind(t) : t \in A} :
        s = [wave |-> nextWave, kind |-> k, pc |-> "probe", slot |-> FALSE, ceiling |-> 0,
             queue |-> {[topic |-> t, cursor |-> Cursor(m, t)] : t \in {u \in A : Kind(u) = k}}]
  BY DEF NewScans
<1>3. k \in Kinds /\ nextWave \in Nat
  BY KindType DEF TypeWaves
<1>4. s.kind = k /\ s.ceiling = 0
      /\ s.queue = {[topic |-> t, cursor |-> Cursor(m, t)] : t \in {u \in A : Kind(u) = k}}
  BY <1>2
<1>5. ASSUME NEW q \in s.queue PROVE q \in Catchup /\ Kind(q.topic) = k
  <2>1. PICK t \in A : Kind(t) = k /\ q = [topic |-> t, cursor |-> Cursor(m, t)]
    BY <1>4
  <2>2. t \in Topics /\ Cursor(m, t) \in Nat
    BY CursorType
  <2>. QED
    BY <2>1, <2>2 DEF Catchup
<1>6. s.queue \in SUBSET Catchup
  BY <1>5
<1>7. s \in Scan
  BY <1>2, <1>3, <1>4, <1>6 DEF Scan
<1>. QED
  BY <1>4, <1>5, <1>7

\* The wave a Mutate starts.
LEMMA NewWaveType ==
  ASSUME NEW m \in Mutates, NEW A \in SUBSET Topics
  PROVE  NewWave(m, A) \in WaveState
<1>1. m.id \in Nat
  BY MutatesAssumption DEF MutateFrame
<1>2. Cardinality(A) \in Int
  BY TopicsAssumption, FS_Subset, FS_CardinalityType
<1>3. Cardinality({Kind(t) : t \in A}) \in Int
  <2>1. {Kind(t) : t \in A} \subseteq Kinds
    BY KindType
  <2>2. IsFiniteSet(Kinds)
    <3>1. Kinds = {"group"} \cup {"welcome"}
      BY DEF Kinds
    <3>. QED
      BY <3>1, FS_Singleton, FS_Union
  <2>. QED
    BY <2>1, <2>2, FS_Subset, FS_CardinalityType
<1>. QED
  BY <1>1, <1>2, <1>3 DEF NewWave, WaveState

\* Mutate: the books of the removed, reset and added topics.
LEMMA MutateInv == ASSUME Inv, NEW m \in Mutates, Mutate(m) PROVE Inv'
<1> DEFINE D == m.removes \cup Resets(m)
           A == Fresh(m)
           gated == IF m.historyOnly THEN {} ELSE A
<1>1. TypeLog /\ TypeDispatcher /\ TypeSent /\ TypeGate /\ TypeWaves /\ TypeFetch
      /\ TypeAnswers /\ TypeFollow /\ RealPending /\ RealScans /\ UNCHANGED table
  BY InvParts DEF Mutate, logVars
<1>2. ~Malformed(m) /\ BadTopic \notin m.removes
  BY DEF Mutate
<1>3. A \in SUBSET Topics /\ D \in SUBSET Topics /\ A \subseteq AddTopics(m)
      /\ m.id \in MutateIds /\ gated \in SUBSET Topics
  BY <1>2, MutateTopics
<1>4. \A t \in A : Cursor(m, t) \in Nat
  BY <1>3, CursorType
<1>5. TypeDispatcher'
  BY <1>1 DEF Mutate, TypeDispatcher
<1>6. TypeSent'
  <2>1. /\ hwm' = [t \in Topics |-> IF t \in A THEN Cursor(m, t)
                                    ELSE IF t \in D THEN 0 ELSE hwm[t]]
        /\ got' = [t \in Topics |-> IF t \in A \cup D THEN {} ELSE got[t]]
        /\ UNCHANGED <<misordered, lastLive>>
    BY DEF Mutate
  <2> HIDE DEF A, D
  <2>. QED
    BY <2>1, <1>1, <1>4 DEF TypeSent
<1>7. TypeGate' /\ RealPending'
  <2>1. Discarded(D) \subseteq pending
    BY DEF Discarded
  <2>2. Cardinality(Discarded(D)) \in Nat
    BY <2>1, <1>1, RealIsFinite DEF TypeGate, RealPending
  <2>3. /\ adding' = gated
        /\ subscribed' = (subscribed \ D) \cup gated
        /\ catchingUp' = (catchingUp \ D) \cup gated
        /\ pending' = pending \ Discarded(D)
        /\ pendingBytes' = pendingBytes - Cardinality(Discarded(D))
    BY DEF Mutate
  <2> HIDE DEF gated, D
  <2>4. TypeGate'
    BY <2>2, <2>3, <1>1, <1>3 DEF TypeGate
  <2>. QED
    BY <2>3, <2>4, <1>1 DEF RealPending, Real, Latest
<1>8. TypeWaves'
  <2>1. /\ DOMAIN KeptWaves(D) \subseteq DOMAIN waves
        /\ KeptWaves(D) \in [DOMAIN KeptWaves(D) -> WaveState]
    BY <1>1, <1>3, KeptWavesType
  <2>2. topicWave' = [t \in Topics |-> IF t \in A THEN nextWave
                                       ELSE IF t \in D THEN NoWave ELSE topicWave[t]]
    BY DEF Mutate
  <2>3. CASE A = {}
    <3>1. waves' = KeptWaves(D) /\ UNCHANGED nextWave
      BY <2>3 DEF Mutate
    <3> HIDE DEF A, D
    <3>. QED
      BY <3>1, <2>1, <2>2, <1>1 DEF TypeWaves
  <2>4. CASE A # {}
    <3>1. waves' = [w \in DOMAIN KeptWaves(D) \cup {nextWave} |->
                      IF w = nextWave THEN NewWave(m, A) ELSE KeptWaves(D)[w]]
          /\ nextWave' = nextWave + 1
      BY <2>4 DEF Mutate
    <3>2. NewWave(m, A) \in WaveState
      BY <1>3, NewWaveType
    <3> HIDE DEF A, D
    <3>3. nextWave' \in Nat /\ DOMAIN waves' \subseteq 0..(nextWave' - 1)
      BY <3>1, <2>1, <1>1 DEF TypeWaves
    <3>4. waves' \in [DOMAIN waves' -> WaveState]
      BY <3>1, <3>2, <2>1
    <3>5. topicWave' \in [Topics -> Nat \cup {NoWave}]
      BY <2>2, <1>1 DEF TypeWaves
    <3>. QED
      BY <3>3, <3>4, <3>5 DEF TypeWaves
  <2>. QED
    BY <2>3, <2>4
<1>9. TypeFetch' /\ RealScans'
  <2>1. CASE A = {}
    <3>1. UNCHANGED scans /\ UNCHANGED <<catchUpCh, catchUpBytes>>
      BY <2>1 DEF Mutate
    <3>. QED
      BY <3>1, <1>1, RealFrames DEF TypeFetch
  <2>2. CASE A # {}
    <3>1. scans' = scans \cup NewScans(m, A) /\ UNCHANGED <<catchUpCh, catchUpBytes>>
      BY <2>2 DEF Mutate
    <3>2. /\ NewScans(m, A) \subseteq Scan
          /\ \A s \in NewScans(m, A) :
               s.ceiling = 0 /\ \A q \in s.queue : Kind(q.topic) = s.kind
      BY <1>1, <1>3, NewScansType
    <3>3. \A s \in NewScans(m, A) : s.ceiling <= Latest(s.kind)
      BY <1>1, <3>2, LatestType DEF Scan
    <3> HIDE DEF A
    <3>4. TypeFetch'
      BY <3>1, <3>2, <1>1 DEF TypeFetch
    <3>. QED
      BY <3>1, <3>2, <3>3, <3>4, <1>1 DEF RealScans, Latest
  <2>. QED
    BY <2>1, <2>2
<1>10. TypeAnswers'
  <2>1. \A i : EarlyAnswers(D, i) \in Nat
    BY <1>1, <1>3, KeptWavesType
  <2>2. /\ asked' = [asked EXCEPT ![m.id] = @ + 1]
        /\ acked' = [i \in MutateIds |-> acked[i] + EarlyAnswers(D, i)
                                         + IF A = {} /\ i = m.id THEN 1 ELSE 0]
        /\ mutates' = mutates + 1
    BY DEF Mutate
  <2> HIDE DEF A, D
  <2>. QED
    BY <2>1, <2>2, <1>1, <1>3 DEF TypeAnswers
<1>11. TypeFollow'
  <2>1. /\ start' = [t \in Topics |-> IF t \in A THEN Cursor(m, t)
                                      ELSE IF t \in D THEN NotFollowed ELSE start[t]]
        /\ due' = [t \in Topics |-> IF t \in A THEN Latest(Kind(t)) ELSE due[t]]
    BY DEF Mutate
  <2>2. \A t \in Topics : Latest(Kind(t)) \in Nat
    BY <1>1, KindType, LatestType
  <2> HIDE DEF A, D
  <2>. QED
    BY <2>1, <2>2, <1>1, <1>4 DEF TypeFollow
<1>12. TypeLog' /\ TypeStatus'
  BY InvParts, TypeFrames DEF Mutate
<1>. QED
  BY <1>1, <1>5, <1>6, <1>7, <1>8, <1>9, <1>10, <1>11, <1>12, InvParts, InvPartsNext, RealFrames
     DEF Mutate, logVars

-----------------------------------------------------------------------------
(* The theorems.                                                           *)

\* A step that changes nothing keeps the invariant.
LEMMA StutterInv == ASSUME Inv, UNCHANGED vars PROVE Inv'
BY InvParts, InvPartsNext, TypeFrames, RealFrames
   DEF vars, logVars, dispatcherVars, gateVars, fetchVars

\* Every step of the stream, its fetchers, the poller or a publisher keeps the invariant.
LEMMA NextInv == Inv /\ [Next]_vars => Inv'
<1>1. SUFFICES ASSUME Inv, [Next]_vars PROVE Inv'
  OBVIOUS
<1>2. CASE UNCHANGED vars
  BY <1>1, <1>2, StutterInv
<1>3. CASE Next
  BY <1>1, <1>3, PublishInv, PollInv, StreamEndsInv, RefuseMutateInv, MutateInv, SubAddInv,
     HalfCloseInv, HoldEnvelopeInv, SendLiveInv, ConsumerTooSlowInv, ScanProbeInv,
     AcquireScanSlotInv, ScanTurnInv, ScanDoneInv, ScanFailsInv, FailBatchInv,
     DropStragglerInv, ReplayBatchInv, ScanDrainedInv, CompleteWaveInv, StutterInv
     DEF Next, StreamStep, Returned
<1>. QED
  BY <1>1, <1>2, <1>3

\* The inductive invariant holds throughout.
THEOREM InvHolds == Spec => []Inv
BY InitInv, NextInv, PTL DEF Spec

\* The stream is type correct: its channels stay within their capacity, its marks are ids
\* and its waves have numbers given out (TypeOK), whatever clients, poller and fetchers do.
THEOREM TypeCorrect == Spec => []TypeOK
<1>1. Inv => TypeOK
  BY DEF Inv
<1>. QED
  BY <1>1, InvHolds, PTL

\* Whatever waits in the stream's channel, its pending buffer or its catch-up channel is a
\* row of the tables that a client may be sent (RealRows).
THEOREM RowsAreReal == Spec => []RealRows
<1>1. Inv => RealRows
  BY DEF Inv
<1>. QED
  BY <1>1, InvHolds, PTL

-----------------------------------------------------------------------------
(* The live lane.                                                          *)

\* Every envelope of a kind still in the channel is newer than id, and so is every row
\* the poller has not reached.
Passed(k, id) ==
  /\ id <= polled[k]
  /\ \A n \in 1..Len(messagesCh) : Kind(messagesCh[n].topic) = k => id < messagesCh[n].id

ChannelOrder ==
  /\ \A n \in 1..Len(messagesCh) : messagesCh[n].id <= polled[Kind(messagesCh[n].topic)]
  /\ \A i, j \in 1..Len(messagesCh) :
       i < j /\ Kind(messagesCh[i].topic) = Kind(messagesCh[j].topic) =>
         messagesCh[i].id < messagesCh[j].id
PendingPassed == \A e \in pending : Passed(Kind(e.topic), e.id)
LivePassed == \A t \in Topics : Passed(Kind(t), lastLive[t])

LaneInv == ChannelOrder /\ PendingPassed /\ LivePassed

\* The ways a step moves the lane: not at all, by its head being taken, or by the poller.
Still == UNCHANGED <<polled, messagesCh>>
HeadTaken == UNCHANGED polled /\ messagesCh # <<>> /\ messagesCh' = Tail(messagesCh)
Polled ==
  \E k \in Kinds :
    /\ polled' = [polled EXCEPT ![k] = @ + 1]
    /\ \/ UNCHANGED messagesCh
       \/ \E x \in Envelope : /\ Kind(x.topic) = k /\ x.id = polled[k] + 1
                              /\ messagesCh' = Append(messagesCh, x)

\* Poll is such a move: the row handed over is the next one of its kind.
LEMMA PollMoves == ASSUME Inv, NEW k \in Kinds, Poll(k) PROVE Polled
<1>1. TypeLog /\ RealTables /\ RealPolled
  BY InvParts
<1> DEFINE i == polled[k] + 1
           row == table[k][i]
           e == [topic |-> row.topic, id |-> i]
<1>2. i \in 1..Latest(k) /\ row \in Row
  BY <1>1 DEF Poll, TypeLog, Latest
<1>3. row.topic \in Topics /\ i \in Nat
  BY <1>2 DEF Row
<1>4. e \in Envelope /\ e.topic = row.topic /\ e.id = i
  BY <1>3 DEF Envelope
<1>5. Kind(row.topic) = k
  BY <1>1, <1>2 DEF RealTables
<1>6. UNCHANGED messagesCh \/ messagesCh' = Append(messagesCh, e)
  BY DEF Poll, HandleEnvelope, dispatcherVars
<1>7. polled' = [polled EXCEPT ![k] = @ + 1]
  BY DEF Poll
<1>8. CASE UNCHANGED messagesCh
  BY <1>7, <1>8 DEF Polled
<1>9. CASE messagesCh' = Append(messagesCh, e)
  <2> HIDE DEF e
  <2>. QED
    BY <1>4, <1>5, <1>7, <1>9 DEF Polled
<1>. QED
  BY <1>6, <1>8, <1>9

\* Every step moves the lane in one of these ways.
LEMMA LaneMoves == ASSUME Inv, [Next]_vars PROVE Still \/ HeadTaken \/ Polled
<1>1. CASE HoldEnvelope \/ SendLive
  BY <1>1 DEF HoldEnvelope, SendLive, HeadTaken, logVars
<1>2. CASE \E k \in Kinds : Poll(k)
  BY <1>2, PollMoves
<1>3. CASE UNCHANGED vars
  BY <1>3 DEF vars, logVars, dispatcherVars, Still
<1>4. CASE Next /\ ~(HoldEnvelope \/ SendLive \/ \E k \in Kinds : Poll(k))
  BY <1>4 DEF Next, StreamStep, Returned, vars, Publish, StreamEnds, RefuseMutate, Mutate, SubAdd, HalfClose,
     ConsumerTooSlow, ScanProbe, AcquireScanSlot, ScanTurn, ScanDone, ScanFails, FailBatch,
     DropStraggler, ReplayBatch, ScanDrained, CompleteWave, logVars, dispatcherVars, Still
<1>. QED
  BY <1>1, <1>2, <1>3, <1>4

\* What has been passed stays passed.
LEMMA PassedStays ==
  ASSUME Inv, Still \/ HeadTaken \/ Polled, NEW k \in Kinds, NEW id \in Nat, Passed(k, id)
  PROVE  Passed(k, id)'
<1>1. TypeLog /\ TypeDispatcher
  BY InvParts
<1>2. CASE Still
  BY <1>2 DEF Still, Passed
<1>3. CASE HeadTaken
  <2>1. \A n \in 1..Len(messagesCh)' :
          n + 1 \in 1..Len(messagesCh) /\ messagesCh'[n] = messagesCh[n + 1]
    BY <1>1, <1>3, ChannelTail DEF HeadTaken
  <2>. QED
    BY <2>1, <1>3 DEF HeadTaken, Passed
<1>4. CASE Polled
  <2>1. PICK p \in Kinds :
          /\ polled' = [polled EXCEPT ![p] = @ + 1]
          /\ \/ UNCHANGED messagesCh
             \/ \E x \in Envelope : /\ Kind(x.topic) = p /\ x.id = polled[p] + 1
                                    /\ messagesCh' = Append(messagesCh, x)
    BY <1>4 DEF Polled
  <2>2. id <= polled'[k]
    BY <2>1, <1>1 DEF Passed, TypeLog
  <2>3. CASE UNCHANGED messagesCh
    BY <2>2, <2>3 DEF Passed
  <2>4. CASE ~UNCHANGED messagesCh
    <3>1. PICK x \in Envelope : /\ Kind(x.topic) = p /\ x.id = polled[p] + 1
                                /\ messagesCh' = Append(messagesCh, x)
      BY <2>1, <2>4
    <3>2. \A n \in 1..Len(messagesCh)' :
            \/ n \in 1..Len(messagesCh) /\ messagesCh'[n] = messagesCh[n]
            \/ messagesCh'[n] = x
      BY <3>1, <1>1 DEF TypeDispatcher
    <3>3. Kind(x.topic) = k => id < x.id
      BY <3>1, <1>1 DEF Passed, TypeLog
    <3>. QED
      BY <2>2, <3>2, <3>3 DEF Passed
  <2>. QED
    BY <2>3, <2>4
<1>. QED
  BY <1>2, <1>3, <1>4

\* The channel stays ordered.
LEMMA ChannelOrderStays ==
  ASSUME Inv, ChannelOrder, Still \/ HeadTaken \/ Polled
  PROVE  ChannelOrder'
<1>1. TypeLog /\ TypeDispatcher /\ BoundsAssumption
  BY InvParts, BoundsAssumption
<1>2. CASE Still
  BY <1>2 DEF Still, ChannelOrder
<1>3. CASE HeadTaken
  <2>1. \A n \in 1..Len(messagesCh)' :
          n \in Int /\ n + 1 \in 1..Len(messagesCh) /\ messagesCh'[n] = messagesCh[n + 1]
    BY <1>1, <1>3, ChannelTail DEF HeadTaken
  <2>2. \A i, j \in Int : i < j => i + 1 < j + 1
    OBVIOUS
  <2>. QED
    BY <2>1, <2>2, <1>3 DEF HeadTaken, ChannelOrder
<1>4. CASE Polled
  <2>1. PICK p \in Kinds :
          /\ polled' = [polled EXCEPT ![p] = @ + 1]
          /\ \/ UNCHANGED messagesCh
             \/ \E x \in Envelope : /\ Kind(x.topic) = p /\ x.id = polled[p] + 1
                                    /\ messagesCh' = Append(messagesCh, x)
    BY <1>4 DEF Polled
  <2>2. \A k \in Kinds : polled[k] \in Nat /\ polled'[k] \in Nat /\ polled[k] <= polled'[k]
    BY <2>1, <1>1 DEF TypeLog
  <2>3. \A n \in 1..Len(messagesCh) :
          messagesCh[n] \in Envelope /\ messagesCh[n].id \in Nat
          /\ Kind(messagesCh[n].topic) \in Kinds
    <3>1. \A n \in 1..Len(messagesCh) : messagesCh[n] \in Envelope
      BY <1>1 DEF TypeDispatcher
    <3>. QED
      BY <3>1, KindType DEF Envelope
  <2>4. \A n \in 1..Len(messagesCh) : messagesCh[n].id <= polled'[Kind(messagesCh[n].topic)]
    BY <2>2, <2>3 DEF ChannelOrder
  <2>5. CASE UNCHANGED messagesCh
    BY <2>4, <2>5 DEF ChannelOrder
  <2>6. CASE ~UNCHANGED messagesCh
    <3>1. PICK x \in Envelope : /\ Kind(x.topic) = p /\ x.id = polled[p] + 1
                                /\ messagesCh' = Append(messagesCh, x)
      BY <2>1, <2>6
    <3>2. /\ Len(messagesCh)' = Len(messagesCh) + 1 /\ Len(messagesCh) \in Nat
          /\ \A n \in 1..Len(messagesCh) : messagesCh'[n] = messagesCh[n]
          /\ messagesCh'[Len(messagesCh) + 1] = x
      BY <3>1, <1>1 DEF TypeDispatcher
    <3>3. x.id <= polled'[Kind(x.topic)]
      BY <3>1, <2>1, <1>1 DEF TypeLog
    <3>4. \A n \in 1..Len(messagesCh) : Kind(messagesCh[n].topic) = p => messagesCh[n].id < x.id
      BY <3>1, <2>2, <2>3 DEF ChannelOrder
    <3>5. \A n \in 1..Len(messagesCh)' : n \in 1..Len(messagesCh) \/ n = Len(messagesCh) + 1
      BY <3>2
    <3>6. \A n \in 1..Len(messagesCh)' : messagesCh'[n].id <= polled'[Kind(messagesCh'[n].topic)]
      BY <3>2, <3>3, <3>5, <2>4
    <3>7. ASSUME NEW i \in 1..Len(messagesCh)', NEW j \in 1..Len(messagesCh)', i < j,
                 Kind(messagesCh'[i].topic) = Kind(messagesCh'[j].topic)
          PROVE  messagesCh'[i].id < messagesCh'[j].id
      <4>1. i \in 1..Len(messagesCh)
        BY <3>2, <3>7
      <4>2. CASE j \in 1..Len(messagesCh)
        BY <4>1, <4>2, <3>2, <3>7 DEF ChannelOrder
      <4>3. CASE j = Len(messagesCh) + 1
        BY <4>1, <4>3, <3>1, <3>2, <3>4, <3>7
      <4>. QED
        BY <4>2, <4>3, <3>5
    <3>. QED
      BY <3>6, <3>7 DEF ChannelOrder
  <2>. QED
    BY <2>5, <2>6
<1>. QED
  BY <1>2, <1>3, <1>4

\* What SendMessages does to the live lane: nothing for a replay, and for one live
\* envelope it moves at most the mark of its topic, to its id.
LEMMA SentLive ==
  ASSUME TypeSent, NEW floors, NEW msgs, NEW live, SendMessages(floors, msgs, live)
  PROVE  /\ ~live => UNCHANGED lastLive
         /\ \A x \in Envelope : msgs = {x} =>
              \A t \in Topics : lastLive'[t] # lastLive[t] => t = x.topic /\ lastLive'[t] = x.id
<1> DEFINE new(t) == IdsOf(Deduped(floors, msgs), t)
<1>1. lastLive' = [t \in Topics |->
                     IF live /\ new(t) # {} THEN Greatest(new(t)) ELSE lastLive[t]]
  BY DEF SendMessages
<1>2. ~live => UNCHANGED lastLive
  BY <1>1 DEF TypeSent
<1>3. ASSUME NEW x \in Envelope, msgs = {x}, NEW t \in Topics, lastLive'[t] # lastLive[t]
      PROVE  t = x.topic /\ lastLive'[t] = x.id
  <2>1. new(t) # {} /\ lastLive'[t] = Greatest(new(t))
    BY <1>1, <1>3
  <2>2. \A i \in new(t) : i = x.id /\ x.topic = t
    BY <1>3 DEF IdsOf, Deduped
  <2>3. new(t) = {x.id} /\ x.topic = t
    BY <2>1, <2>2
  <2>4. Greatest({x.id}) = x.id
    BY DEF Greatest, Envelope
  <2>. QED
    BY <2>1, <2>3, <2>4
<1>. QED
  BY <1>2, <1>3

\* A step sends live only from the head of the channel.
LEMMA LiveSteps ==
  ASSUME Inv, [Next]_vars
  PROVE  \/ UNCHANGED lastLive
         \/ \E x \in Envelope :
              /\ messagesCh # <<>> /\ x = Head(messagesCh) /\ HeadTaken
              /\ \A t \in Topics :
                   lastLive'[t] # lastLive[t] => t = x.topic /\ lastLive'[t] = x.id
<1>1. TypeSent /\ TypeDispatcher
  BY InvParts
<1>2. CASE SendLive
  <2>1. PICK x \in Envelope : x = Head(messagesCh)
    BY <1>1, <1>2, ChannelTail DEF SendLive
  <2>2. SendMessages(hwm, {x}, TRUE) /\ messagesCh # <<>> /\ HeadTaken
    BY <1>2, <2>1 DEF SendLive, HeadTaken, logVars
  <2>. QED
    BY <1>1, <2>1, <2>2, SentLive
<1>3. CASE ReplayBatch
  BY <1>1, <1>3, SentLive DEF ReplayBatch
<1>4. CASE CompleteWave
  <2>1. SendMessages([t \in Topics |-> IF t \in Settled(Taken.wave) \ catchingUp
                                       THEN 0 ELSE hwm[t]],
                     {e \in pending : e.topic \in Settled(Taken.wave) \cap catchingUp}, FALSE)
    BY <1>4 DEF CompleteWave, FoldIsLive
  <2>. QED
    BY <1>1, <2>1, SentLive
<1>5. CASE UNCHANGED vars
  BY <1>5 DEF vars, sentVars
<1>6. CASE Next /\ ~SendLive /\ ~ReplayBatch /\ ~CompleteWave
  BY <1>6 DEF Next, StreamStep, Returned, vars, Publish, Poll, StreamEnds, RefuseMutate, Mutate, SubAdd,
     HalfClose, HoldEnvelope, ConsumerTooSlow, ScanProbe, AcquireScanSlot, ScanTurn, ScanDone,
     ScanFails, FailBatch, DropStraggler, ScanDrained, sentVars
<1>. QED
  BY <1>2, <1>3, <1>4, <1>5, <1>6

\* The head of the channel is newer than everything passed, and passed once it is taken.
LEMMA HeadPassed ==
  ASSUME Inv, ChannelOrder, HeadTaken, NEW x \in Envelope, x = Head(messagesCh)
  PROVE  /\ Passed(Kind(x.topic), x.id)'
         /\ \A id \in Nat : Passed(Kind(x.topic), id) => id < x.id
<1>1. TypeLog /\ TypeDispatcher /\ messagesCh # <<>>
  BY InvParts DEF HeadTaken
<1>2. x = messagesCh[1] /\ 1 \in 1..Len(messagesCh)
  BY <1>1, ChannelTail
<1>3. \A n \in 1..Len(messagesCh)' :
        /\ n \in Int /\ n + 1 \in 1..Len(messagesCh) /\ 1 < n + 1
        /\ messagesCh'[n] = messagesCh[n + 1]
  BY <1>1, ChannelTail DEF HeadTaken
<1>4. Passed(Kind(x.topic), x.id)'
  BY <1>2, <1>3 DEF Passed, ChannelOrder, HeadTaken
<1>5. \A id \in Nat : Passed(Kind(x.topic), id) => id < x.id
  BY <1>2 DEF Passed
<1>. QED
  BY <1>4, <1>5

\* A step adds to the pending buffer only the head of the channel.
LEMMA PendingSteps ==
  ASSUME Inv, [Next]_vars
  PROVE  \/ pending' \subseteq pending
         \/ \E x \in Envelope : /\ messagesCh # <<>> /\ x = Head(messagesCh) /\ HeadTaken
                                /\ pending' = pending \cup {x} /\ pendingBytes' = pendingBytes + 1
                                /\ x.topic \in catchingUp /\ HoldEnvelope
<1>1. CASE HoldEnvelope
  <2>1. PICK x \in Envelope : x = Head(messagesCh)
    BY <1>1, InvParts, ChannelTail DEF HoldEnvelope
  <2>. QED
    BY <1>1, <2>1 DEF HoldEnvelope, HeadTaken, Gated, logVars
<1>2. CASE UNCHANGED vars
  BY <1>2 DEF vars, gateVars
<1>3. CASE \E m \in Mutates : Mutate(m)
  BY <1>3 DEF Mutate
<1>4. CASE CompleteWave
  BY <1>4 DEF CompleteWave
<1>5. CASE Next /\ ~HoldEnvelope /\ ~CompleteWave /\ ~\E m \in Mutates : Mutate(m)
  BY <1>5 DEF Next, StreamStep, Returned, vars, Publish, Poll, StreamEnds, RefuseMutate, SubAdd, HalfClose,
     SendLive, ConsumerTooSlow, ScanProbe, AcquireScanSlot, ScanTurn, ScanDone, ScanFails,
     FailBatch, DropStraggler, ReplayBatch, ScanDrained, gateVars
<1>. QED
  BY <1>1, <1>2, <1>3, <1>4, <1>5

\* The lane invariant holds initially.
LEMMA InitLane == Init => LaneInv
<1>1. SUFFICES ASSUME Init PROVE LaneInv
  OBVIOUS
<1>2. ChannelOrder /\ PendingPassed
  BY <1>1 DEF Init, ChannelOrder, PendingPassed
<1>3. LivePassed
  BY <1>1, KindType DEF Init, LivePassed, Passed
<1>. QED
  BY <1>2, <1>3 DEF LaneInv

\* Every step keeps the lane invariant.
LEMMA NextLane == ASSUME Inv, LaneInv, [Next]_vars PROVE LaneInv'
<1>1. Still \/ HeadTaken \/ Polled
  BY LaneMoves
<1>2. ChannelOrder /\ ChannelOrder'
  BY <1>1, ChannelOrderStays DEF LaneInv
<1>3. \A k \in Kinds : \A id \in Nat : Passed(k, id) => Passed(k, id)'
  BY <1>1, PassedStays
<1>4. TypeGate /\ TypeSent
  BY InvParts
<1>5. PendingPassed'
  <2>1. \A e \in pending : Passed(Kind(e.topic), e.id)'
    BY <1>3, <1>4, KindType DEF LaneInv, PendingPassed, TypeGate, Envelope
  <2>2. CASE pending' \subseteq pending
    BY <2>1, <2>2 DEF PendingPassed, Passed
  <2>3. CASE ~(pending' \subseteq pending)
    <3>1. PICK x \in Envelope : x = Head(messagesCh) /\ HeadTaken /\ pending' = pending \cup {x}
      BY <2>3, PendingSteps
    <3>2. Passed(Kind(x.topic), x.id)'
      BY <3>1, <1>2, HeadPassed
    <3>. QED
      BY <2>1, <3>1, <3>2 DEF PendingPassed, Passed
  <2>. QED
    BY <2>2, <2>3
<1>6. LivePassed'
  <2>1. \A t \in Topics : Passed(Kind(t), lastLive[t]) /\ lastLive[t] \in Nat
    BY <1>4 DEF LaneInv, LivePassed, TypeSent
  <2>2. ASSUME NEW t \in Topics, NEW l \in Nat, l = lastLive[t] PROVE Passed(Kind(t), l)'
    BY <2>1, <2>2, <1>3, KindType
  <2>3. CASE UNCHANGED lastLive
    BY <2>1, <2>2, <2>3 DEF LivePassed, Passed
  <2>4. CASE ~UNCHANGED lastLive
    <3>1. PICK x \in Envelope :
            /\ x = Head(messagesCh) /\ HeadTaken
            /\ \A t \in Topics :
                 lastLive'[t] # lastLive[t] => t = x.topic /\ lastLive'[t] = x.id
      BY <2>4, LiveSteps
    <3>2. Passed(Kind(x.topic), x.id)'
      BY <3>1, <1>2, HeadPassed
    <3>3. ASSUME NEW t \in Topics PROVE Passed(Kind(t), lastLive[t])'
      <4>1. CASE lastLive'[t] = lastLive[t]
        BY <4>1, <2>1, <2>2 DEF Passed
      <4>2. CASE lastLive'[t] # lastLive[t]
        BY <4>2, <3>1, <3>2 DEF Passed
      <4>. QED
        BY <4>1, <4>2
    <3>. QED
      BY <3>3 DEF LivePassed
  <2>. QED
    BY <2>3, <2>4
<1>. QED
  BY <1>2, <1>5, <1>6 DEF LaneInv

\* The lane invariant holds throughout.
THEOREM LaneHolds == Spec => [](Inv /\ LaneInv)
<1>1. Init => Inv /\ LaneInv
  BY InitInv, InitLane
<1>2. (Inv /\ LaneInv) /\ [Next]_vars => (Inv /\ LaneInv)'
  BY NextInv, NextLane
<1>. QED
  BY <1>1, <1>2, PTL DEF Spec

\* The live lane is totally ordered per kind (LiveLaneOrdered): an id goes out with
\* mutate_id 0 only above every id of its kind that went out so before it.
THEOREM LiveLaneIsOrdered == Spec => LiveLaneOrdered
<1>1. ASSUME Inv, LaneInv, [Next]_vars, NEW t \in Topics, NEW u \in Topics,
             Kind(t) = Kind(u), lastLive'[t] # lastLive[t]
      PROVE  lastLive'[t] > lastLive[u]
  <2>1. PICK x \in Envelope :
          /\ x = Head(messagesCh) /\ HeadTaken
          /\ \A v \in Topics : lastLive'[v] # lastLive[v] => v = x.topic /\ lastLive'[v] = x.id
    BY <1>1, LiveSteps
  <2>2. t = x.topic /\ lastLive'[t] = x.id
    BY <1>1, <2>1
  <2>3. lastLive[u] \in Nat /\ Passed(Kind(u), lastLive[u]) /\ ChannelOrder
    BY <1>1, InvParts DEF LaneInv, LivePassed, TypeSent
  <2>4. lastLive[u] < x.id
    BY <1>1, <2>1, <2>2, <2>3, HeadPassed
  <2>. QED
    BY <2>2, <2>3, <2>4 DEF Envelope
<1>2. (Inv /\ LaneInv) /\ [Next]_vars =>
        [\A t, u \in Topics : Kind(t) = Kind(u) /\ lastLive'[t] # lastLive[t] =>
           lastLive'[t] > lastLive[u]]_vars
  BY <1>1
<1>. QED
  BY <1>2, LaneHolds, PTL DEF Spec, LiveLaneOrdered

-----------------------------------------------------------------------------
(* The gate.                                                               *)

\* The topics that point to a wave.
Points(w) == {t \in Topics : topicWave[t] = w}

OwnedExact ==
  \A w \in DOMAIN waves : /\ waves[w].owned = Cardinality(Points(w))
                          /\ Points(w) \subseteq waves[w].topics
OwnersInFlight == \A t \in Topics : topicWave[t] # NoWave => topicWave[t] \in DOMAIN waves
GatedInWave == catchingUp = {t \in subscribed : topicWave[t] # NoWave}
HeldIfGated == \A e \in pending : e.topic \in catchingUp
HeldCount == pendingBytes = Cardinality(pending)

GateInv == OwnedExact /\ OwnersInFlight /\ GatedInWave /\ HeldIfGated /\ HeldCount

\* The gate invariant depends on the writer's books only.
LEMMA GateFrame == GateInv /\ UNCHANGED <<gateVars, waveVars>> => GateInv'
BY DEF GateInv, OwnedExact, Points, OwnersInFlight, GatedInWave, HeldIfGated, HeldCount,
       gateVars, waveVars

\* Sets of topics are finite.
LEMMA TopicsFinite ==
  \A S : S \subseteq Topics => IsFiniteSet(S) /\ Cardinality(S) \in Nat
BY TopicsAssumption, FS_Subset, FS_CardinalityType

\* The pending buffer is finite.
LEMMA PendingFinite ==
  ASSUME Inv, NEW S \in SUBSET pending
  PROVE  IsFiniteSet(S) /\ Cardinality(S) \in Nat
BY InvParts, RealIsFinite DEF TypeGate, RealPending

\* HoldEnvelope: the envelope is of a gated topic, and new to the buffer.
LEMMA HoldEnvelopeGate == ASSUME Inv, LaneInv, GateInv, HoldEnvelope PROVE GateInv'
<1>1. PICK x \in Envelope : x = Head(messagesCh)
  BY InvParts, ChannelTail DEF HoldEnvelope
<1>2. /\ pending' = pending \cup {x} /\ pendingBytes' = pendingBytes + 1 /\ x.topic \in catchingUp
      /\ UNCHANGED <<catchingUp, subscribed, waveVars>> /\ HeadTaken
  BY <1>1 DEF HoldEnvelope, HeadTaken, Gated, logVars
<1>3. x \notin pending
  <2>1. SUFFICES ASSUME x \in pending PROVE FALSE
    OBVIOUS
  <2>2. Passed(Kind(x.topic), x.id) /\ x.id \in Nat
    BY <2>1 DEF LaneInv, PendingPassed, Envelope
  <2>3. x.id < x.id
    BY <2>2, <1>1, <1>2, HeadPassed DEF LaneInv
  <2>. QED
    BY <2>2, <2>3
<1>4. HeldCount'
  BY <1>2, <1>3, PendingFinite, FS_AddElement DEF GateInv, HeldCount
<1>5. HeldIfGated'
  BY <1>2 DEF GateInv, HeldIfGated
<1>6. OwnedExact' /\ OwnersInFlight' /\ GatedInWave'
  BY <1>2 DEF GateInv, OwnedExact, Points, OwnersInFlight, GatedInWave, waveVars
<1>. QED
  BY <1>4, <1>5, <1>6 DEF GateInv

\* ScanDrained: only the scan count of a wave changes.
LEMMA ScanDrainedGate == ASSUME Inv, GateInv, ScanDrained PROVE GateInv'
<1>1. TypeWaves
  BY InvParts
<1>2. PICK w : w = Taken.wave
  OBVIOUS
<1>3. w \in DOMAIN waves /\ waves[w] \in WaveState
  BY <1>1, <1>2 DEF ScanDrained, TypeWaves
<1>4. PICK v : v = [waves[w] EXCEPT !.scansLeft = waves[w].scansLeft - 1]
  OBVIOUS
<1>5. v.owned = waves[w].owned /\ v.topics = waves[w].topics
  BY <1>3, <1>4 DEF WaveState
<1>6. waves' = [waves EXCEPT ![w] = v]
  BY <1>2, <1>4 DEF ScanDrained
<1>7. UNCHANGED <<topicWave, gateVars>>
  BY DEF ScanDrained
<1>8. DOMAIN waves' = DOMAIN waves
      /\ \A u \in DOMAIN waves : /\ waves'[u].owned = waves[u].owned
                                 /\ waves'[u].topics = waves[u].topics
  BY <1>1, <1>3, <1>5, <1>6 DEF TypeWaves
<1>9. OwnedExact' /\ OwnersInFlight'
  BY <1>7, <1>8 DEF GateInv, OwnedExact, Points, OwnersInFlight
<1>. QED
  BY <1>7, <1>9 DEF GateInv, GatedInWave, HeldIfGated, HeldCount, gateVars

\* CompleteWave: every topic that points to the wave is one of its topics, so all leave it.
LEMMA CompleteWaveGate == ASSUME Inv, GateInv, CompleteWave PROVE GateInv'
<1> DEFINE w == Taken.wave
           T == Settled(w)
           fold == {e \in pending : e.topic \in T \cap catchingUp}
<1>1. /\ w \in DOMAIN waves
      /\ topicWave' = [t \in Topics |-> IF t \in T THEN NoWave ELSE topicWave[t]]
      /\ catchingUp' = catchingUp \ T
      /\ pending' = pending \ fold
      /\ pendingBytes' = pendingBytes - Cardinality(fold)
      /\ waves' = [v \in DOMAIN waves \ {w} |-> waves[v]]
      /\ UNCHANGED subscribed
  BY DEF CompleteWave
<1>2. TypeWaves /\ TypeGate
  BY InvParts
<1>3. T = Points(w)
  BY <1>1, <1>2 DEF GateInv, OwnedExact, Points, Settled, TypeWaves, WaveState
<1>4. w \in Nat /\ topicWave \in [Topics -> Nat \cup {NoWave}] /\ w # NoWave
  BY <1>1, <1>2 DEF TypeWaves, NoWave
<1>5. HeldCount'
  <2>1. fold = pending \cap fold /\ fold \in SUBSET pending
    OBVIOUS
  <2> HIDE DEF fold
  <2>2. Cardinality(pending \ fold) = Cardinality(pending) - Cardinality(fold)
    BY <2>1, PendingFinite, FS_Difference
  <2>. QED
    BY <2>2, <1>1 DEF GateInv, HeldCount
<1>6. HeldIfGated'
  BY <1>1 DEF GateInv, HeldIfGated
<1> HIDE DEF w, fold
<1>7. \A v \in DOMAIN waves \ {w} : Points(v)' = Points(v)
  BY <1>1, <1>2, <1>3, <1>4 DEF Points, TypeWaves, NoWave
<1>8. OwnedExact'
  BY <1>1, <1>7 DEF GateInv, OwnedExact
<1>9. OwnersInFlight'
  BY <1>1, <1>3, <1>4 DEF GateInv, OwnersInFlight, Points
<1>10. GatedInWave'
  BY <1>1, <1>2, <1>3 DEF GateInv, GatedInWave, TypeGate
<1>. QED
  BY <1>5, <1>6, <1>8, <1>9, <1>10 DEF GateInv

\* The waves a Mutate keeps own what still points to them, and a wave it deletes owns
\* nothing any more.
LEMMA DropExact ==
  ASSUME TypeWaves, OwnedExact, NEW D \in SUBSET Topics, NEW w \in DOMAIN waves
  PROVE  /\ w \notin Emptied(D) => KeptWaves(D)[w].owned = Cardinality(Points(w) \ D)
         /\ w \notin Emptied(D) => KeptWaves(D)[w].topics = waves[w].topics
         /\ w \in Emptied(D) => Points(w) \ D = {}
<1>1. Lost(w, D) = Points(w) \cap D
  BY DEF Lost, Points
<1>2. IsFiniteSet(Points(w)) /\ IsFiniteSet(Points(w) \ D)
      /\ Cardinality(Points(w)) \in Nat /\ Cardinality(Points(w) \ D) \in Nat
  BY TopicsFinite DEF Points
<1>3. Cardinality(Points(w) \ D) = Cardinality(Points(w)) - Cardinality(Points(w) \cap D)
  BY <1>2, FS_Difference
<1>4. waves[w] \in WaveState /\ waves[w].owned = Cardinality(Points(w))
  BY DEF TypeWaves, OwnedExact
<1>5. ASSUME w \notin Emptied(D)
      PROVE  /\ KeptWaves(D)[w].owned = Cardinality(Points(w) \ D)
             /\ KeptWaves(D)[w].topics = waves[w].topics
  <2>1. KeptWaves(D)[w] = [waves[w] EXCEPT !.owned = waves[w].owned - Cardinality(Lost(w, D))]
    BY <1>5 DEF KeptWaves
  <2>. QED
    BY <2>1, <1>1, <1>3, <1>4 DEF WaveState
<1>6. ASSUME w \in Emptied(D) PROVE Points(w) \ D = {}
  <2>1. Cardinality(Points(w)) - Cardinality(Points(w) \cap D) <= 0
    BY <1>6, <1>1, <1>4 DEF Emptied
  <2>2. Cardinality(Points(w) \ D) = 0
    BY <2>1, <1>2, <1>3
  <2>. QED
    BY <2>2, <1>2, FS_EmptySet
<1>. QED
  BY <1>5, <1>6

\* Mutate: a topic enters its wave only from outside every wave (Conflicting refuses the
\* others), so no wave loses a topic but by a drop.
LEMMA MutateGate == ASSUME Inv, GateInv, NEW m \in Mutates, Mutate(m) PROVE GateInv'
<1> DEFINE D == m.removes \cup Resets(m)
           A == Fresh(m)
           gated == IF m.historyOnly THEN {} ELSE A
<1>1. TypeWaves /\ TypeGate
  BY InvParts
<1>2. ~Malformed(m) /\ BadTopic \notin m.removes /\ ~Conflicting(m)
  BY DEF Mutate
<1>3. A \in SUBSET Topics /\ D \in SUBSET Topics /\ A \subseteq AddTopics(m)
  BY <1>2, MutateTopics
<1>4. /\ subscribed' = (subscribed \ D) \cup gated
      /\ catchingUp' = (catchingUp \ D) \cup gated
      /\ pending' = pending \ Discarded(D)
      /\ pendingBytes' = pendingBytes - Cardinality(Discarded(D))
      /\ topicWave' = [t \in Topics |-> IF t \in A THEN nextWave
                                        ELSE IF t \in D THEN NoWave ELSE topicWave[t]]
      /\ waves' = IF A = {} THEN KeptWaves(D)
                  ELSE [w \in DOMAIN KeptWaves(D) \cup {nextWave} |->
                          IF w = nextWave THEN NewWave(m, A) ELSE KeptWaves(D)[w]]
  BY DEF Mutate
<1>5. \A t \in A \ D : topicWave[t] = NoWave
  <2>1. ASSUME NEW t \in A \ D PROVE topicWave[t] = NoWave
    <3>1. t \in AddTopics(m) \ m.removes /\ t \notin Active
      BY <2>1, <1>3 DEF Fresh
    <3>. QED
      BY <3>1, <1>2 DEF Conflicting
  <2>. QED
    BY <2>1
<1>6. m.historyOnly => A \cap (subscribed \ D) = {}
  <2>1. ASSUME m.historyOnly, NEW t \in A, t \in subscribed, t \notin D PROVE FALSE
    <3>1. t \in AddTopics(m) \ m.removes /\ t \in Active
      BY <2>1, <1>3 DEF Active
    <3>. QED
      BY <3>1, <2>1, <1>2 DEF Conflicting
  <2>. QED
    BY <2>1
<1>7. HeldCount'
  <2>1. Discarded(D) = pending \cap Discarded(D) /\ Discarded(D) \in SUBSET pending
    BY DEF Discarded
  <2>2. Cardinality(pending \ Discarded(D)) = Cardinality(pending) - Cardinality(Discarded(D))
    BY <2>1, PendingFinite, FS_Difference
  <2>. QED
    BY <2>2, <1>4 DEF GateInv, HeldCount
<1>8. HeldIfGated'
  BY <1>4 DEF GateInv, HeldIfGated, Discarded
<1> HIDE DEF A, D
<1>9. nextWave \in Nat /\ nextWave # NoWave /\ nextWave \notin DOMAIN waves /\ NoWave \notin DOMAIN waves
      /\ topicWave \in [Topics -> Nat \cup {NoWave}]
  BY <1>1 DEF TypeWaves, NoWave
<1>10. GatedInWave'
  <2>1. CASE m.historyOnly
    <3>1. gated = {}
      BY <2>1
    <3>. QED
      BY <3>1, <2>1, <1>1, <1>3, <1>4, <1>6, <1>9 DEF GateInv, GatedInWave, TypeGate
  <2>2. CASE ~m.historyOnly
    <3>1. gated = A
      BY <2>2
    <3>. QED
      BY <3>1, <1>1, <1>3, <1>4, <1>9 DEF GateInv, GatedInWave, TypeGate
  <2>. QED
    BY <2>1, <2>2
<1>11. DOMAIN KeptWaves(D) = DOMAIN waves \ Emptied(D)
  BY DEF KeptWaves
<1>12. \A w \in DOMAIN waves : Points(w)' = Points(w) \ D
  BY <1>4, <1>5, <1>9 DEF Points
<1> PICK n : n = nextWave
  OBVIOUS
<1>13. /\ \A w \in DOMAIN waves' : w \in DOMAIN KeptWaves(D) \/ (w = n /\ A # {})
       /\ DOMAIN KeptWaves(D) \subseteq DOMAIN waves'
       /\ A # {} => n \in DOMAIN waves'
       /\ \A w \in DOMAIN KeptWaves(D) : waves'[w] = KeptWaves(D)[w]
       /\ A # {} => waves'[n] = NewWave(m, A)
  <2>1. CASE A = {}
    BY <2>1, <1>4
  <2>2. CASE A # {}
    <3>1. n \notin DOMAIN KeptWaves(D)
      BY <1>9, <1>11
    <3>2. waves' = [w \in DOMAIN KeptWaves(D) \cup {n} |->
                      IF w = n THEN NewWave(m, A) ELSE KeptWaves(D)[w]]
      BY <2>2, <1>4
    <3>. QED
      BY <3>1, <3>2, <2>2
  <2>. QED
    BY <2>1, <2>2
<1>14. Points(n)' = A
  <2>1. \A t \in Topics : topicWave[t] # n
    BY <1>9 DEF GateInv, OwnersInFlight
  <2>. QED
    BY <2>1, <1>3, <1>4, <1>9 DEF Points
<1>15. OwnedExact'
  <2>1. ASSUME NEW w \in DOMAIN waves'
        PROVE  waves'[w].owned = Cardinality(Points(w)') /\ Points(w)' \subseteq waves'[w].topics
    <3>1. CASE w \in DOMAIN KeptWaves(D)
      <4>1. waves'[w] = KeptWaves(D)[w] /\ w \in DOMAIN waves /\ w \notin Emptied(D)
        BY <3>1, <1>11, <1>13
      <4>2. waves'[w].owned = Cardinality(Points(w) \ D) /\ waves'[w].topics = waves[w].topics
        BY <4>1, <1>1, <1>3, DropExact DEF GateInv
      <4>3. Points(w)' = Points(w) \ D /\ Points(w) \subseteq waves[w].topics
        BY <4>1, <1>12 DEF GateInv, OwnedExact
      <4>. QED
        BY <4>2, <4>3
    <3>2. CASE w \notin DOMAIN KeptWaves(D)
      <4>1. w = n /\ waves'[w] = NewWave(m, A)
        BY <3>2, <2>1, <1>13
      <4>2. waves'[w].owned = Cardinality(A) /\ waves'[w].topics = A
        BY <4>1 DEF NewWave
      <4>. QED
        BY <4>1, <4>2, <1>14
    <3>. QED
      BY <3>1, <3>2
  <2>. QED
    BY <2>1 DEF OwnedExact, Points
<1>16. OwnersInFlight'
  <2>1. ASSUME NEW t \in Topics, topicWave'[t] # NoWave PROVE topicWave'[t] \in DOMAIN waves'
    <3>1. CASE t \in A
      BY <3>1, <1>4, <1>13
    <3>2. CASE t \notin A
      <4>1. t \notin D /\ topicWave'[t] = topicWave[t]
        BY <3>2, <2>1, <1>4
      <4>2. topicWave[t] \in DOMAIN waves /\ t \in Points(topicWave[t]) \ D
        BY <4>1, <2>1 DEF GateInv, OwnersInFlight, Points
      <4>3. topicWave[t] \notin Emptied(D)
        BY <4>2, <1>1, <1>3, DropExact DEF GateInv
      <4>. QED
        BY <4>1, <4>2, <4>3, <1>11, <1>13
    <3>. QED
      BY <3>1, <3>2
  <2>. QED
    BY <2>1 DEF OwnersInFlight
<1>. QED
  BY <1>7, <1>8, <1>10, <1>15, <1>16 DEF GateInv

\* The gate invariant holds initially.
LEMMA InitGate == Init => GateInv
<1>1. SUFFICES ASSUME Init PROVE GateInv
  OBVIOUS
<1>2. HeldCount
  BY <1>1, FS_EmptySet DEF Init, HeldCount
<1>. QED
  BY <1>1, <1>2 DEF Init, GateInv, OwnedExact, OwnersInFlight, GatedInWave, HeldIfGated

\* Every step keeps it.
LEMMA NextGate == ASSUME Inv, LaneInv, GateInv, [Next]_vars PROVE GateInv'
<1>1. CASE HoldEnvelope
  BY <1>1, HoldEnvelopeGate
<1>2. CASE ScanDrained
  BY <1>2, ScanDrainedGate
<1>3. CASE CompleteWave
  BY <1>3, CompleteWaveGate
<1>4. CASE \E m \in Mutates : Mutate(m)
  BY <1>4, MutateGate
<1>5. CASE UNCHANGED vars
  BY <1>5, GateFrame DEF vars
<1>6. CASE Next /\ ~HoldEnvelope /\ ~ScanDrained /\ ~CompleteWave
           /\ ~\E m \in Mutates : Mutate(m)
  <2>1. UNCHANGED <<gateVars, waveVars>>
    BY <1>6 DEF Next, StreamStep, Returned, vars, Publish, Poll, StreamEnds, RefuseMutate, SubAdd, HalfClose,
       SendLive, ConsumerTooSlow, ScanProbe, AcquireScanSlot, ScanTurn, ScanDone, ScanFails,
       FailBatch, DropStraggler, ReplayBatch
  <2>. QED
    BY <2>1, GateFrame
<1>. QED
  BY <1>1, <1>2, <1>3, <1>4, <1>5, <1>6

\* The gate invariant holds throughout.
THEOREM GateHolds == Spec => [](Inv /\ LaneInv /\ GateInv)
<1>1. Init => Inv /\ LaneInv /\ GateInv
  BY InitInv, InitLane, InitGate
<1>2. (Inv /\ LaneInv /\ GateInv) /\ [Next]_vars => (Inv /\ LaneInv /\ GateInv)'
  BY NextInv, NextLane, NextGate
<1>. QED
  BY <1>1, <1>2, PTL DEF Spec

\* No gate is left closed with nobody to open it (GatesHaveOwners): a gated topic is live
\* and belongs to a wave in flight, and only its envelopes are held, each counted once.
THEOREM GatesAreOwned == Spec => []GatesHaveOwners
<1>1. GateInv => GatesHaveOwners
  BY DEF GateInv, OwnersInFlight, GatedInWave, HeldIfGated, HeldCount, GatesHaveOwners
<1>. QED
  BY <1>1, GateHolds, PTL

-----------------------------------------------------------------------------
(* The answers.                                                            *)

\* The waves in flight that will answer a mutate_id.
Owing(i) == {w \in DOMAIN waves : waves[w].mutateID = i}

\* A step that changes neither the waves nor the answers, and does not return OK.
LEMMA AnswerFrame ==
  AnsweredOnce /\ UNCHANGED <<waves, asked, acked>> /\ (UNCHANGED status \/ status' = "ended")
    => AnsweredOnce'
BY DEF AnsweredOnce

\* HalfClose: the stream returns OK only with no wave in flight.
LEMMA HalfCloseAnswers == ASSUME AnsweredOnce, HalfClose PROVE AnsweredOnce'
<1>1. status = "open" /\ UNCHANGED <<waves, asked, acked>>
  BY DEF HalfClose, Selecting, waveVars, answerVars
<1>2. CASE UNCHANGED status
  BY <1>1, <1>2, AnswerFrame
<1>3. CASE status' = "ok" /\ DOMAIN waves = {}
  BY <1>1, <1>3 DEF AnsweredOnce
<1>. QED
  BY <1>2, <1>3 DEF HalfClose, Return

\* ScanDrained: the waves keep their mutate_ids.
LEMMA ScanDrainedAnswers == ASSUME Inv, AnsweredOnce, ScanDrained PROVE AnsweredOnce'
<1>1. TypeWaves
  BY InvParts
<1>2. PICK w : w = Taken.wave
  OBVIOUS
<1>3. w \in DOMAIN waves /\ waves[w] \in WaveState
  BY <1>1, <1>2 DEF ScanDrained, TypeWaves
<1>4. PICK v : v = [waves[w] EXCEPT !.scansLeft = waves[w].scansLeft - 1]
  OBVIOUS
<1>5. v.mutateID = waves[w].mutateID
  BY <1>3, <1>4 DEF WaveState
<1>6. waves' = [waves EXCEPT ![w] = v]
  BY <1>2, <1>4 DEF ScanDrained
<1>7. DOMAIN waves' = DOMAIN waves
      /\ \A u \in DOMAIN waves : waves'[u].mutateID = waves[u].mutateID
  BY <1>1, <1>3, <1>5, <1>6 DEF TypeWaves
<1>8. \A i : {u \in DOMAIN waves' : waves'[u].mutateID = i} = Owing(i)
  BY <1>7 DEF Owing
<1>. QED
  BY <1>7, <1>8 DEF AnsweredOnce, Owing, ScanDrained, answerVars

\* CompleteWave: the wave is answered as it is deleted.
LEMMA CompleteWaveAnswers == ASSUME Inv, AnsweredOnce, CompleteWave PROVE AnsweredOnce'
<1> DEFINE w == Taken.wave
<1>1. /\ w \in DOMAIN waves /\ status = "open"
      /\ waves' = [v \in DOMAIN waves \ {w} |-> waves[v]]
      /\ acked' = [acked EXCEPT ![waves[w].mutateID] = @ + 1]
      /\ UNCHANGED asked
      /\ status' = "ok" => LastWave(w)
  BY DEF CompleteWave, TakeBatch, Selecting, Return
<1>2. TypeWaves /\ TypeAnswers
  BY InvParts
<1> HIDE DEF w
<1>3. ASSUME NEW i \in MutateIds
      PROVE  asked'[i] = acked'[i] + Cardinality({v \in DOMAIN waves' : waves'[v].mutateID = i})
  <2> DEFINE now == {v \in DOMAIN waves' : waves'[v].mutateID = i}
  <2>1. now = Owing(i) \ {w}
    BY <1>1 DEF Owing
  <2>2. Owing(i) \in SUBSET DOMAIN waves
    BY DEF Owing
  <2>3. IsFiniteSet(Owing(i)) /\ Cardinality(Owing(i)) \in Nat
    BY <2>2, <1>2, WavesFinite
  <2>4. Cardinality(Owing(i) \ {w}) =
          IF w \in Owing(i) THEN Cardinality(Owing(i)) - 1 ELSE Cardinality(Owing(i))
    BY <2>3, FS_RemoveElement
  <2>5. asked'[i] = acked[i] + Cardinality(Owing(i)) /\ acked[i] \in Nat
    BY <1>1, <1>2 DEF AnsweredOnce, Owing, TypeAnswers
  <2>6. CASE waves[w].mutateID = i
    <3>1. w \in Owing(i)
      BY <2>6, <1>1 DEF Owing
    <3>2. acked'[i] = acked[i] + 1
      BY <2>6, <1>1, <1>2 DEF TypeAnswers
    <3> HIDE DEF now
    <3>3. asked'[i] = acked'[i] + Cardinality(now)
      BY <3>1, <3>2, <2>1, <2>3, <2>4, <2>5
    <3>. QED
      BY <3>3 DEF now
  <2>7. CASE waves[w].mutateID # i
    <3>1. w \notin Owing(i)
      BY <2>7 DEF Owing
    <3>2. acked'[i] = acked[i]
      BY <2>7, <1>1, <1>2 DEF TypeAnswers
    <3> HIDE DEF now
    <3>3. asked'[i] = acked'[i] + Cardinality(now)
      BY <3>1, <3>2, <2>1, <2>3, <2>4, <2>5
    <3>. QED
      BY <3>3 DEF now
  <2>. QED
    BY <2>6, <2>7
<1>4. status' = "ok" => DOMAIN waves' = {}
  BY <1>1 DEF LastWave
<1>. QED
  BY <1>3, <1>4 DEF AnsweredOnce

\* Mutate: the waves it deletes are answered early, and the new wave, or the immediate
\* answer, is the Mutate's own.
LEMMA MutateAnswers == ASSUME Inv, GateInv, AnsweredOnce, NEW m \in Mutates, Mutate(m)
                       PROVE  AnsweredOnce'
<1> DEFINE D == m.removes \cup Resets(m)
           A == Fresh(m)
<1>1. TypeWaves /\ TypeAnswers
  BY InvParts
<1>2. ~Malformed(m) /\ BadTopic \notin m.removes
  BY DEF Mutate
<1>3. D \in SUBSET Topics /\ m.id \in MutateIds
  BY <1>2, MutateTopics
<1>4. /\ status = "open" /\ UNCHANGED status
      /\ waves' = IF A = {} THEN KeptWaves(D)
                  ELSE [w \in DOMAIN KeptWaves(D) \cup {nextWave} |->
                          IF w = nextWave THEN NewWave(m, A) ELSE KeptWaves(D)[w]]
      /\ asked' = [asked EXCEPT ![m.id] = @ + 1]
      /\ acked' = [i \in MutateIds |-> acked[i] + EarlyAnswers(D, i)
                                       + IF A = {} /\ i = m.id THEN 1 ELSE 0]
  BY DEF Mutate, Selecting
<1> HIDE DEF D, A
<1>5. DOMAIN KeptWaves(D) = DOMAIN waves \ Emptied(D)
      /\ nextWave \notin DOMAIN waves
  BY <1>1 DEF KeptWaves, TypeWaves
<1>6. \A w \in DOMAIN waves \ Emptied(D) : KeptWaves(D)[w].mutateID = waves[w].mutateID
  <2>1. ASSUME NEW w \in DOMAIN waves \ Emptied(D)
        PROVE  KeptWaves(D)[w].mutateID = waves[w].mutateID
    <3>1. KeptWaves(D)[w] = [waves[w] EXCEPT !.owned = waves[w].owned - Cardinality(Lost(w, D))]
      BY DEF KeptWaves
    <3>2. waves[w] \in WaveState
      BY <1>1 DEF TypeWaves
    <3>. QED
      BY <3>1, <3>2 DEF WaveState
  <2>. QED
    BY <2>1
<1>7. ASSUME NEW i \in MutateIds
      PROVE  asked'[i] = acked'[i] + Cardinality({v \in DOMAIN waves' : waves'[v].mutateID = i})
  <2> DEFINE kept == Owing(i) \ Emptied(D)
             now == {v \in DOMAIN waves' : waves'[v].mutateID = i}
  <2>1. Owing(i) \in SUBSET DOMAIN waves /\ kept \in SUBSET DOMAIN waves
    BY DEF Owing
  <2>2. IsFiniteSet(Owing(i)) /\ Cardinality(Owing(i)) \in Nat
        /\ IsFiniteSet(kept) /\ Cardinality(kept) \in Nat
    BY <2>1, <1>1, WavesFinite
  <2>3. Owing(i) \cap Emptied(D) = {w \in Emptied(D) : waves[w].mutateID = i}
    BY DEF Owing, Emptied
  <2>4. Cardinality(kept) = Cardinality(Owing(i)) - EarlyAnswers(D, i)
        /\ EarlyAnswers(D, i) \in Nat
    BY <2>2, <2>3, <1>1, <1>3, FS_Difference, KeptWavesType DEF EarlyAnswers
  <2>5. asked[i] = acked[i] + Cardinality(Owing(i)) /\ acked[i] \in Nat /\ asked[i] \in Nat
    BY <1>1, <1>4 DEF AnsweredOnce, Owing, TypeAnswers
  <2>6. asked'[i] = asked[i] + IF i = m.id THEN 1 ELSE 0
    BY <1>1, <1>3, <1>4 DEF TypeAnswers
  <2>7. acked'[i] = acked[i] + EarlyAnswers(D, i) + IF A = {} /\ i = m.id THEN 1 ELSE 0
    BY <1>4
  <2>8. CASE A = {}
    <3>1. now = kept
      BY <2>8, <1>4, <1>5, <1>6 DEF Owing
    <3> HIDE DEF now, kept
    <3>2. asked'[i] = acked'[i] + Cardinality(now)
      BY <3>1, <2>2, <2>4, <2>5, <2>6, <2>7, <2>8
    <3>. QED
      BY <3>2 DEF now
  <2>9. CASE A # {}
    <3>1. NewWave(m, A).mutateID = m.id
      BY DEF NewWave
    <3>2. now = IF i = m.id THEN kept \cup {nextWave} ELSE kept
      BY <3>1, <2>9, <1>4, <1>5, <1>6 DEF Owing
    <3>3. nextWave \notin kept
      BY <2>1, <1>5
    <3> HIDE DEF now, kept
    <3>4. CASE i = m.id
      <4>1. now = kept \cup {nextWave}
        BY <3>2, <3>4
      <4>2. Cardinality(now) = Cardinality(kept) + 1
        BY <4>1, <3>3, <2>2, FS_AddElement
      <4>3. asked'[i] = acked'[i] + Cardinality(now)
        BY <4>2, <3>4, <2>2, <2>4, <2>5, <2>6, <2>7, <2>9
      <4>. QED
        BY <4>3 DEF now
    <3>5. CASE i # m.id
      <4>1. asked'[i] = acked'[i] + Cardinality(now)
        BY <3>2, <3>5, <2>2, <2>4, <2>5, <2>6, <2>7
      <4>. QED
        BY <4>1 DEF now
    <3>. QED
      BY <3>4, <3>5
  <2>. QED
    BY <2>8, <2>9
<1>. QED
  BY <1>4, <1>7 DEF AnsweredOnce

\* Nothing is asked or answered on a new stream.
LEMMA InitAnswers == Init => AnsweredOnce
<1>1. SUFFICES ASSUME Init PROVE AnsweredOnce
  OBVIOUS
<1>2. \A i : {w \in DOMAIN waves : waves[w].mutateID = i} = {}
  BY <1>1 DEF Init
<1>. QED
  BY <1>1, <1>2, FS_EmptySet DEF Init, AnsweredOnce

\* Every step keeps the account of the answers.
LEMMA NextAnswers == ASSUME Inv, GateInv, AnsweredOnce, [Next]_vars PROVE AnsweredOnce'
<1>1. CASE HalfClose
  BY <1>1, HalfCloseAnswers
<1>2. CASE ScanDrained
  BY <1>2, ScanDrainedAnswers
<1>3. CASE CompleteWave
  BY <1>3, CompleteWaveAnswers
<1>4. CASE \E m \in Mutates : Mutate(m)
  BY <1>4, MutateAnswers
<1>5. CASE \E m \in Mutates : RefuseMutate(m)
  BY <1>5 DEF RefuseMutate, Return, AnsweredOnce
<1>6. CASE UNCHANGED vars
  BY <1>6, AnswerFrame DEF vars, waveVars, answerVars
<1>7. CASE Next /\ ~HalfClose /\ ~ScanDrained /\ ~CompleteWave
           /\ ~(\E m \in Mutates : Mutate(m)) /\ ~(\E m \in Mutates : RefuseMutate(m))
  <2>1. UNCHANGED <<waves, asked, acked>> /\ (UNCHANGED status \/ status' = "ended")
    BY <1>7 DEF Next, StreamStep, Returned, vars, Publish, Poll, StreamEnds, SubAdd, HoldEnvelope,
       SendLive, ConsumerTooSlow, ScanProbe, AcquireScanSlot, ScanTurn, ScanDone, ScanFails,
       FailBatch, DropStraggler, ReplayBatch, Return, waveVars, answerVars
  <2>. QED
    BY <2>1, AnswerFrame
<1>. QED
  BY <1>1, <1>2, <1>3, <1>4, <1>5, <1>6, <1>7

\* Every Mutate accepted is answered by exactly one CatchupComplete echoing its mutate_id,
\* or its wave is in flight, and a stream that returns OK owes none (AnsweredOnce).
THEOREM MutatesAreAnswered == Spec => []AnsweredOnce
<1>1. Init => Inv /\ LaneInv /\ GateInv /\ AnsweredOnce
  BY InitInv, InitLane, InitGate, InitAnswers
<1>2. (Inv /\ LaneInv /\ GateInv /\ AnsweredOnce) /\ [Next]_vars
        => (Inv /\ LaneInv /\ GateInv /\ AnsweredOnce)'
  BY NextInv, NextLane, NextGate, NextAnswers
<1>. QED
  BY <1>1, <1>2, PTL DEF Spec

-----------------------------------------------------------------------------
(* The books of a wave.                                                    *)

\* The scans of a wave that run, the done markers of its scans in the channel, and how many
\* there are of both.
ScansOf(w) == {s \in scans : s.wave = w}
DonesOf(w) == {n \in 1..Len(catchUpCh) : catchUpCh[n].wave = w /\ catchUpCh[n].done}
Running(w) == Cardinality(ScansOf(w)) + Cardinality(DonesOf(w))

\* A scan of the wave failed: the wave waits for a done marker that will never come, until
\* the error ends the stream.
Abandoned(w) == w \in DOMAIN waves /\ Running(w) < waves[w].scansLeft
Failed == \E n \in 1..Len(catchUpCh) : catchUpCh[n].err

OneScanPerKind ==
  /\ IsFiniteSet(scans)
  /\ \A s, r \in scans : s.wave = r.wave /\ s.kind = r.kind => s = r
Numbered ==
  /\ \A s \in scans : s.wave < nextWave
  /\ \A n \in 1..Len(catchUpCh) :
       \/ catchUpCh[n].err /\ ~catchUpCh[n].done /\ catchUpCh[n].msgs = {}
       \/ /\ ~catchUpCh[n].err /\ catchUpCh[n].wave < nextWave
          /\ catchUpCh[n].done => catchUpCh[n].msgs = {}
ScansCounted ==
  \A w \in DOMAIN waves :
    /\ waves[w].owned > 0 /\ waves[w].scansLeft > 0
    /\ Running(w) <= waves[w].scansLeft
    /\ status = "open" => Failed \/ Running(w) = waves[w].scansLeft
\* Behind position n of the channel there is more to come for the wave.
MoreToCome(w, n) == ScansOf(w) # {} \/ (\E m \in DonesOf(w) : m > n) \/ Abandoned(w)
BatchesFollowed ==
  \A n \in 1..Len(catchUpCh), w \in DOMAIN waves :
    ~catchUpCh[n].err /\ ~catchUpCh[n].done /\ catchUpCh[n].wave = w => MoreToCome(w, n)

BookInv == OneScanPerKind /\ Numbered /\ ScansCounted /\ BatchesFollowed

-----------------------------------------------------------------------------
(* Where the rows a live topic still owes its client are.                  *)

\* The rows above a topic's mark.
Missing(t) == Deliverable(t, hwm[t], Latest(Kind(t)))

InChannel(t, i) == \E n \in 1..Len(messagesCh) : messagesCh[n] = [topic |-> t, id |-> i]
Held(t, i) == [topic |-> t, id |-> i] \in pending
InBatch(t, i, n) ==
  catchUpCh[n].wave = topicWave[t] /\ [topic |-> t, id |-> i] \in catchUpCh[n].msgs
Replayed(t, i) == \E n \in 1..Len(catchUpCh) : InBatch(t, i, n)
Scannable(t, i) ==
  \E s \in scans : \E q \in s.queue :
    /\ s.wave = topicWave[t] /\ q.topic = t /\ q.cursor < i
    /\ s.pc = "probe" \/ i <= s.ceiling

\* The catch-up will bring the row, or the stream is about to end.
Fetching(t, i) == Replayed(t, i) \/ Scannable(t, i) \/ Abandoned(topicWave[t])

\* The live lane is past the row: the poller, or an envelope of the topic it handed over.
Reached(t, i) ==
  \/ registered /\ i <= polled[Kind(t)]
  \/ \E n \in 1..Len(messagesCh) : messagesCh[n].topic = t /\ i <= messagesCh[n].id
  \/ \E e \in pending : e.topic = t /\ i <= e.id

\* The client has the rows from its cursor to the mark.
ExactFor(t) ==
  /\ got[t] = Deliverable(t, start[t], hwm[t])
  /\ start[t] \in Nat /\ start[t] <= hwm[t]
  /\ hwm[t] = start[t] \/ hwm[t] <= Latest(Kind(t))

\* No gap before a batch, none before a scan's cursor.
BatchesContiguous(t) ==
  \A n \in 1..Len(catchUpCh) : \A e \in catchUpCh[n].msgs :
    e.topic = t /\ catchUpCh[n].wave = topicWave[t] =>
      \A i \in Missing(t) : i <= e.id => \E m \in 1..n : InBatch(t, i, m)
ScansContiguous(t) ==
  \A s \in scans : \A q \in s.queue :
    q.topic = t /\ s.wave = topicWave[t] =>
      /\ q.cursor <= hwm[t] \/ q.cursor <= Latest(Kind(t))
      /\ \A i \in Missing(t) : i <= q.cursor => Replayed(t, i)

\* Nothing the live lane is past is nowhere, nothing the wave promised is left out.
LiveCovered(t) ==
  \A i \in Missing(t) : Reached(t, i) => InChannel(t, i) \/ Held(t, i) \/ Fetching(t, i)
DueCovered(t) ==
  /\ due[t] <= Latest(Kind(t))
  /\ \A i \in Missing(t) : i <= due[t] => Fetching(t, i)

Owed(t) ==
  ExactFor(t) /\ BatchesContiguous(t) /\ ScansContiguous(t) /\ LiveCovered(t) /\ DueCovered(t)

Registering ==
  /\ subscribed \subseteq subTopics \cup adding
  /\ \A t \in adding :
       /\ topicWave[t] = nextWave - 1
       /\ \E s \in scans : \E q \in s.queue :
            s.wave = nextWave - 1 /\ s.pc = "probe" /\ q.topic = t /\ q.cursor <= hwm[t]
Ordered == ~misordered /\ \A t \in Topics : Followed(t) => \A j \in got[t] : j <= hwm[t]

DeliveryInv == (\A t \in subscribed : Owed(t)) /\ Registering /\ Ordered

-----------------------------------------------------------------------------
(* Counting scans and done markers.                                        *)

\* Sets in bijection have as many elements.
LEMMA BijectionCounts ==
  ASSUME NEW S, NEW T, IsFiniteSet(S), NEW f \in [S -> T],
         \A a, b \in S : f[a] = f[b] => a = b, \A y \in T : \E x \in S : f[x] = y
  PROVE  IsFiniteSet(T) /\ Cardinality(T) = Cardinality(S)
<1>1. f \in Bijection(S, T)
  BY DEF Bijection, Injection, Surjection, IsInjective
<1>2. ExistsBijection(S, T)
  BY <1>1 DEF ExistsBijection
<1>. QED
  BY <1>2, FS_Bijection

\* The counts are of finite sets.
LEMMA CountTypes ==
  ASSUME TypeFetch, OneScanPerKind
  PROVE  \A w : /\ IsFiniteSet(ScansOf(w)) /\ Cardinality(ScansOf(w)) \in Nat
                /\ IsFiniteSet(DonesOf(w)) /\ Cardinality(DonesOf(w)) \in Nat
                /\ Running(w) \in Nat
<1> TAKE w
<1>1. IsFiniteSet(ScansOf(w)) /\ Cardinality(ScansOf(w)) \in Nat
  <2>1. ScansOf(w) \subseteq scans
    BY DEF ScansOf
  <2>. QED
    BY <2>1, FS_Subset, FS_CardinalityType DEF OneScanPerKind
<1>2. IsFiniteSet(DonesOf(w)) /\ Cardinality(DonesOf(w)) \in Nat
  <2>1. DonesOf(w) \subseteq 1..Len(catchUpCh) /\ Len(catchUpCh) \in Int
    BY DEF DonesOf, TypeFetch
  <2>2. IsFiniteSet(1..Len(catchUpCh))
    BY <2>1, FS_Interval
  <2>. QED
    BY <2>1, <2>2, FS_Subset, FS_CardinalityType
<1>. QED
  BY <1>1, <1>2 DEF Running

\* A scan that moves on is counted as before.
LEMMA ScanMoved ==
  ASSUME OneScanPerKind, NEW s \in scans, NEW r, r.wave = s.wave, r.kind = s.kind,
         scans' = (scans \ {s}) \cup {r}
  PROVE  /\ OneScanPerKind'
         /\ \A w : /\ Cardinality(ScansOf(w)') = Cardinality(ScansOf(w))
                   /\ ScansOf(w) # {} => ScansOf(w)' # {}
<1>1. r \notin scans \ {s}
  BY DEF OneScanPerKind
<1>2. IsFiniteSet(scans) /\ IsFiniteSet(scans \ {s})
  BY FS_Subset DEF OneScanPerKind
<1>3. OneScanPerKind'
  <2>1. IsFiniteSet(scans')
    BY <1>2, FS_AddElement
  <2>. QED
    BY <2>1 DEF OneScanPerKind
<1>4. ASSUME NEW w
      PROVE  /\ Cardinality(ScansOf(w)') = Cardinality(ScansOf(w))
             /\ ScansOf(w) # {} => ScansOf(w)' # {}
  <2>1. CASE w # s.wave
    BY <2>1 DEF ScansOf
  <2>2. CASE w = s.wave
    <3> DEFINE S == ScansOf(w)
    <3>1. ScansOf(w)' = (S \ {s}) \cup {r} /\ r \notin S \ {s} /\ s \in S /\ S \subseteq scans
      BY <2>2, <1>1 DEF ScansOf
    <3> HIDE DEF S
    <3>2. IsFiniteSet(S) /\ IsFiniteSet(S \ {s})
      BY <3>1, <1>2, FS_Subset
    <3>3. Cardinality(S \ {s}) = Cardinality(S) - 1 /\ Cardinality(S) \in Nat
      BY <3>1, <3>2, FS_RemoveElement, FS_CardinalityType
    <3>4. Cardinality((S \ {s}) \cup {r}) = Cardinality(S \ {s}) + 1
      BY <3>1, <3>2, FS_AddElement
    <3>5. Cardinality(ScansOf(w)') = Cardinality(S)
      BY <3>1, <3>3, <3>4
    <3>. QED
      BY <3>1, <3>5 DEF S
  <2>. QED
    BY <2>1, <2>2
<1>. QED
  BY <1>3, <1>4

\* A scan that ends is counted no more.
LEMMA ScanGone ==
  ASSUME OneScanPerKind, NEW s \in scans, scans' = scans \ {s}
  PROVE  /\ OneScanPerKind'
         /\ \A w : Cardinality(ScansOf(w)') =
                     Cardinality(ScansOf(w)) - IF w = s.wave THEN 1 ELSE 0
         /\ \A w : w # s.wave => ScansOf(w)' = ScansOf(w)
<1>1. IsFiniteSet(scans) /\ IsFiniteSet(scans \ {s})
  BY FS_Subset DEF OneScanPerKind
<1>2. OneScanPerKind'
  BY <1>1 DEF OneScanPerKind
<1>3. \A w : w # s.wave => ScansOf(w)' = ScansOf(w)
  BY DEF ScansOf
<1>4. ASSUME NEW w
      PROVE  Cardinality(ScansOf(w)') = Cardinality(ScansOf(w)) - IF w = s.wave THEN 1 ELSE 0
  <2> DEFINE S == ScansOf(w)
  <2>1. S \subseteq scans
    BY DEF ScansOf
  <2>2. IsFiniteSet(S) /\ Cardinality(S) \in Nat
    BY <2>1, <1>1, FS_Subset, FS_CardinalityType
  <2>3. CASE w # s.wave
    BY <2>2, <2>3, <1>3
  <2>4. CASE w = s.wave
    <3>1. ScansOf(w)' = S \ {s} /\ s \in S
      BY <2>4 DEF ScansOf
    <3> HIDE DEF S
    <3>2. Cardinality(S \ {s}) = Cardinality(S) - 1
      BY <3>1, <2>2, FS_RemoveElement
    <3>. QED
      BY <3>1, <3>2, <2>4 DEF S
  <2>. QED
    BY <2>3, <2>4
<1>. QED
  BY <1>2, <1>3, <1>4

\* Handing a batch over.
LEMMA BatchAppended ==
  ASSUME TypeFetch, NEW b, catchUpCh' = Append(catchUpCh, b)
  PROVE  /\ Len(catchUpCh) \in Nat /\ Len(catchUpCh)' = Len(catchUpCh) + 1
         /\ \A n \in 1..Len(catchUpCh) : n \in 1..Len(catchUpCh)' /\ catchUpCh'[n] = catchUpCh[n]
         /\ Len(catchUpCh) + 1 \in 1..Len(catchUpCh)' /\ catchUpCh'[Len(catchUpCh) + 1] = b
         /\ \A n \in 1..Len(catchUpCh)' : n \in 1..Len(catchUpCh) \/ n = Len(catchUpCh) + 1
BY DEF TypeFetch

\* Its done marker is counted.
LEMMA DoneAppended ==
  ASSUME TypeFetch, NEW b, catchUpCh' = Append(catchUpCh, b)
  PROVE  \A w : /\ DonesOf(w) \subseteq DonesOf(w)'
                /\ b.wave = w /\ b.done => Len(catchUpCh) + 1 \in DonesOf(w)'
                /\ Cardinality(DonesOf(w)') =
                     Cardinality(DonesOf(w)) + IF b.wave = w /\ b.done THEN 1 ELSE 0
<1> TAKE w
<1> DEFINE N == Len(catchUpCh)
           S == DonesOf(w)
<1>1. /\ N \in Nat /\ Len(catchUpCh)' = N + 1
      /\ \A n \in 1..N : n \in 1..Len(catchUpCh)' /\ catchUpCh'[n] = catchUpCh[n]
      /\ N + 1 \in 1..Len(catchUpCh)' /\ catchUpCh'[N + 1] = b
      /\ \A n \in 1..Len(catchUpCh)' : n \in 1..N \/ n = N + 1
  BY BatchAppended
<1>2. IsFiniteSet(S) /\ Cardinality(S) \in Nat /\ N + 1 \notin S
  <2>1. S \subseteq 1..N
    BY DEF DonesOf
  <2>2. IsFiniteSet(1..N)
    BY <1>1, FS_Interval
  <2>. QED
    BY <2>1, <2>2, <1>1, FS_Subset, FS_CardinalityType
<1>3. S \subseteq DonesOf(w)'
  BY <1>1 DEF DonesOf
<1>4. CASE b.wave = w /\ b.done
  <2>1. DonesOf(w)' = S \cup {N + 1}
    BY <1>1, <1>4 DEF DonesOf
  <2> HIDE DEF S, N
  <2>2. Cardinality(S \cup {N + 1}) = Cardinality(S) + 1
    BY <1>2, FS_AddElement
  <2>. QED
    BY <2>1, <2>2, <1>3, <1>4 DEF S, N
<1>5. CASE ~(b.wave = w /\ b.done)
  <2>1. DonesOf(w)' = S
    BY <1>1, <1>5 DEF DonesOf
  <2>. QED
    BY <2>1, <1>2, <1>5
<1>. QED
  BY <1>4, <1>5

\* Taking the head of the catch-up channel: the markers behind it move up by one.
LEMMA HeadDropped ==
  ASSUME TypeFetch, catchUpCh # <<>>, catchUpCh' = Tail(catchUpCh)
  PROVE  /\ \A n \in 1..Len(catchUpCh)' :
              n + 1 \in 1..Len(catchUpCh) /\ catchUpCh'[n] = catchUpCh[n + 1]
         /\ \A n \in 1..Len(catchUpCh) :
              n # 1 => n - 1 \in 1..Len(catchUpCh)' /\ catchUpCh'[n - 1] = catchUpCh[n]
         /\ \A w : \A n \in DonesOf(w) : n # 1 => n - 1 \in DonesOf(w)'
         /\ \A w : Cardinality(DonesOf(w)') =
                     Cardinality(DonesOf(w)) - IF 1 \in DonesOf(w) THEN 1 ELSE 0
<1>1. \A n \in 1..Len(catchUpCh)' :
        n + 1 \in 1..Len(catchUpCh) /\ catchUpCh'[n] = catchUpCh[n + 1]
  BY BatchTail
<1>2. Len(catchUpCh) \in Nat /\ Len(catchUpCh)' = Len(catchUpCh) - 1
  BY DEF TypeFetch
<1>3. \A n \in 1..Len(catchUpCh) :
        n # 1 => n - 1 \in 1..Len(catchUpCh)' /\ catchUpCh'[n - 1] = catchUpCh[n]
  BY <1>1, <1>2
<1>4. \A w : \A n \in DonesOf(w) : n # 1 => n - 1 \in DonesOf(w)'
  BY <1>3 DEF DonesOf
<1>5. ASSUME NEW w
      PROVE  Cardinality(DonesOf(w)') =
               Cardinality(DonesOf(w)) - IF 1 \in DonesOf(w) THEN 1 ELSE 0
  <2> DEFINE S == DonesOf(w)
             R == S \ {1}
             f == [n \in R |-> n - 1]
  <2>1. IsFiniteSet(S) /\ Cardinality(S) \in Nat
    <3>1. S \subseteq 1..Len(catchUpCh)
      BY DEF DonesOf
    <3>2. IsFiniteSet(1..Len(catchUpCh))
      BY <1>2, FS_Interval
    <3>. QED
      BY <3>1, <3>2, FS_Subset, FS_CardinalityType
  <2>2. \A n \in R : n \in Int /\ n - 1 \in DonesOf(w)'
    BY <1>4 DEF DonesOf
  <2>3. \A n \in DonesOf(w)' : n \in Int /\ n + 1 \in R /\ (n + 1) - 1 = n
    BY <1>1, <1>2 DEF DonesOf
  <2>4. IsFiniteSet(R)
    BY <2>1, FS_Subset
  <2>5. f \in [R -> DonesOf(w)'] /\ (\A a, b \in R : f[a] = f[b] => a = b)
        /\ \A n \in DonesOf(w)' : \E m \in R : f[m] = n
    <3> HIDE DEF R
    <3>. QED
      BY <2>2, <2>3
  <2>6. Cardinality(DonesOf(w)') = Cardinality(R)
    <3> HIDE DEF R, f
    <3>. QED
      BY <2>4, <2>5, BijectionCounts
  <2> HIDE DEF S
  <2>7. Cardinality(S \ {1}) = IF 1 \in S THEN Cardinality(S) - 1 ELSE Cardinality(S)
    BY <2>1, FS_RemoveElement
  <2>. QED
    BY <2>1, <2>6, <2>7 DEF S
<1>. QED
  BY <1>1, <1>3, <1>4, <1>5

-----------------------------------------------------------------------------
(* Every step keeps the books.                                             *)

\* A step that touches neither the waves nor what fetches for them.
LEMMA BookFrame ==
  ASSUME BookInv, UNCHANGED <<scans, catchUpCh, waves, nextWave>>,
         status' = "open" => status = "open"
  PROVE  BookInv' /\ \A w : Abandoned(w)' <=> Abandoned(w)
<1>1. \A w : ScansOf(w)' = ScansOf(w) /\ DonesOf(w)' = DonesOf(w) /\ Running(w)' = Running(w)
  BY DEF ScansOf, DonesOf, Running
<1>2. \A w : Abandoned(w)' <=> Abandoned(w)
  BY <1>1 DEF Abandoned
<1>3. Failed' <=> Failed
  BY DEF Failed
<1>4. OneScanPerKind' /\ Numbered'
  BY DEF BookInv, OneScanPerKind, Numbered
<1>5. ScansCounted'
  BY <1>1, <1>3 DEF BookInv, ScansCounted
<1>6. BatchesFollowed'
  BY <1>1, <1>2 DEF BookInv, BatchesFollowed, MoreToCome
<1>. QED
  BY <1>2, <1>4, <1>5, <1>6 DEF BookInv

\* The counts of the waves, when none of them changes.
LEMMA CountsStill ==
  ASSUME ScansCounted, UNCHANGED waves, \A w : Running(w)' = Running(w),
         Failed => Failed', status' = "open" => status = "open"
  PROVE  ScansCounted' /\ \A w : Abandoned(w)' <=> Abandoned(w)
BY DEF ScansCounted, Abandoned

\* A scan that moves on, with or without a batch handed over.
LEMMA MovedBooks ==
  ASSUME Inv, BookInv, NEW s \in scans, NEW r, r.wave = s.wave, r.kind = s.kind,
         scans' = (scans \ {s}) \cup {r}, UNCHANGED <<waves, nextWave, status>>,
         \/ UNCHANGED catchUpCh
         \/ \E b : /\ b.wave = s.wave /\ ~b.done /\ ~b.err
                   /\ catchUpCh' = Append(catchUpCh, b)
  PROVE  BookInv' /\ \A w : Abandoned(w)' <=> Abandoned(w)
<1>1. TypeFetch /\ TypeWaves /\ OneScanPerKind /\ Numbered /\ ScansCounted /\ BatchesFollowed
  BY InvParts DEF BookInv
<1>2. /\ OneScanPerKind'
      /\ \A w : /\ Cardinality(ScansOf(w)') = Cardinality(ScansOf(w))
                /\ ScansOf(w) # {} => ScansOf(w)' # {}
  BY <1>1, ScanMoved
<1>3. s.wave < nextWave
  BY <1>1 DEF Numbered
<1>4. CASE UNCHANGED catchUpCh
  <2>1. \A w : DonesOf(w)' = DonesOf(w)
    BY <1>4 DEF DonesOf
  <2>2. \A w : Running(w)' = Running(w)
    BY <2>1, <1>2 DEF Running
  <2>3. Failed => Failed'
    BY <1>4 DEF Failed
  <2>4. ScansCounted' /\ \A w : Abandoned(w)' <=> Abandoned(w)
    BY <2>2, <2>3, <1>1, CountsStill
  <2>5. Numbered'
    BY <1>1, <1>3, <1>4 DEF Numbered
  <2>6. \A w : \A n : MoreToCome(w, n) => MoreToCome(w, n)'
    BY <2>1, <2>4, <1>2 DEF MoreToCome
  <2>7. BatchesFollowed'
    BY <2>6, <1>1, <1>4 DEF BatchesFollowed
  <2>. QED
    BY <2>4, <2>5, <2>7, <1>2 DEF BookInv
<1>5. CASE ~UNCHANGED catchUpCh
  <2>1. PICK b : /\ b.wave = s.wave /\ ~b.done /\ ~b.err
                 /\ catchUpCh' = Append(catchUpCh, b)
    BY <1>5
  <2>2. /\ \A n \in 1..Len(catchUpCh) : n \in 1..Len(catchUpCh)' /\ catchUpCh'[n] = catchUpCh[n]
        /\ catchUpCh'[Len(catchUpCh) + 1] = b
        /\ \A n \in 1..Len(catchUpCh)' : n \in 1..Len(catchUpCh) \/ n = Len(catchUpCh) + 1
    BY <2>1, <1>1, BatchAppended
  <2>3. \A w : DonesOf(w) \subseteq DonesOf(w)'
               /\ Cardinality(DonesOf(w)') = Cardinality(DonesOf(w))
    BY <2>1, <1>1, DoneAppended, CountTypes
  <2>4. \A w : Running(w)' = Running(w)
    BY <2>3, <1>2 DEF Running
  <2>5. Failed => Failed'
    BY <2>2 DEF Failed
  <2>6. ScansCounted' /\ \A w : Abandoned(w)' <=> Abandoned(w)
    BY <2>4, <2>5, <1>1, CountsStill
  <2>7. Numbered'
    BY <2>1, <2>2, <1>1, <1>3 DEF Numbered
  <2>8. BatchesFollowed'
    <3>1. \E x \in scans' : x.wave = s.wave
      OBVIOUS
    <3>3. ASSUME NEW n \in 1..Len(catchUpCh)', NEW w \in DOMAIN waves', ~catchUpCh'[n].err,
                 ~catchUpCh'[n].done, catchUpCh'[n].wave = w
          PROVE  MoreToCome(w, n)'
      <4>1. CASE n = Len(catchUpCh) + 1
        <5>1. w = s.wave
          BY <4>1, <3>3, <2>1, <2>2
        <5>. QED
          BY <5>1, <3>1 DEF MoreToCome, ScansOf
      <4>2. CASE n \in 1..Len(catchUpCh)
        <5>1. MoreToCome(w, n)
          BY <4>2, <3>3, <2>2, <1>1 DEF BatchesFollowed
        <5>. QED
          BY <5>1, <2>3, <2>6, <1>2 DEF MoreToCome
      <4>. QED
        BY <4>1, <4>2, <2>2
    <3>. QED
      BY <3>3 DEF BatchesFollowed
  <2>. QED
    BY <2>6, <2>7, <2>8, <1>2 DEF BookInv
<1>. QED
  BY <1>4, <1>5

\* ScanDone: a running scan becomes a done marker behind its batches.
LEMMA ScanDoneBooks ==
  ASSUME Inv, BookInv, NEW s \in scans, ScanDone(s)
  PROVE  BookInv' /\ \A w : Abandoned(w)' <=> Abandoned(w)
<1>1. TypeFetch /\ OneScanPerKind /\ Numbered /\ ScansCounted /\ BatchesFollowed
  BY InvParts DEF BookInv
<1>2. PICK b : b = [wave |-> s.wave, msgs |-> {}, done |-> TRUE, err |-> FALSE]
  OBVIOUS
<1>3. /\ catchUpCh' = Append(catchUpCh, b) /\ scans' = scans \ {s}
      /\ UNCHANGED <<waves, nextWave, status>>
  BY <1>2 DEF ScanDone, waveVars
<1>4. b.wave = s.wave /\ b.msgs = {} /\ b.done /\ ~b.err
  BY <1>2
<1>5. /\ OneScanPerKind'
      /\ \A w : Cardinality(ScansOf(w)') =
                  Cardinality(ScansOf(w)) - IF w = s.wave THEN 1 ELSE 0
      /\ \A w : w # s.wave => ScansOf(w)' = ScansOf(w)
  BY <1>1, <1>3, ScanGone
<1>6. /\ Len(catchUpCh) \in Nat
      /\ \A n \in 1..Len(catchUpCh) : n \in 1..Len(catchUpCh)' /\ catchUpCh'[n] = catchUpCh[n]
      /\ catchUpCh'[Len(catchUpCh) + 1] = b
      /\ \A n \in 1..Len(catchUpCh)' : n \in 1..Len(catchUpCh) \/ n = Len(catchUpCh) + 1
  BY <1>1, <1>3, BatchAppended
<1>7. \A w : /\ DonesOf(w) \subseteq DonesOf(w)'
             /\ b.wave = w /\ b.done => Len(catchUpCh) + 1 \in DonesOf(w)'
             /\ Cardinality(DonesOf(w)') =
                  Cardinality(DonesOf(w)) + IF b.wave = w /\ b.done THEN 1 ELSE 0
  BY <1>1, <1>3, DoneAppended
<1>8. \A w : Running(w)' = Running(w)
  <2>1. TAKE w
  <2>2. Cardinality(ScansOf(w)) \in Nat /\ Cardinality(DonesOf(w)) \in Nat
    BY <1>1, CountTypes
  <2>3. Cardinality(ScansOf(w)') = Cardinality(ScansOf(w)) - IF w = s.wave THEN 1 ELSE 0
    BY <1>5
  <2>4. Cardinality(DonesOf(w)') = Cardinality(DonesOf(w)) + IF w = s.wave THEN 1 ELSE 0
    BY <1>4, <1>7
  <2>5. Cardinality(ScansOf(w)') + Cardinality(DonesOf(w)') = Running(w)
    BY <2>2, <2>3, <2>4 DEF Running
  <2>. QED
    BY <2>5 DEF Running
<1>9. Failed => Failed'
  BY <1>6 DEF Failed
<1>10. ScansCounted' /\ \A w : Abandoned(w)' <=> Abandoned(w)
  BY <1>1, <1>3, <1>8, <1>9, CountsStill
<1>11. Numbered'
  BY <1>1, <1>3, <1>4, <1>6 DEF Numbered
<1>12. BatchesFollowed'
  <2>1. ASSUME NEW n \in 1..Len(catchUpCh)', NEW w \in DOMAIN waves', ~catchUpCh'[n].err,
               ~catchUpCh'[n].done, catchUpCh'[n].wave = w
        PROVE  MoreToCome(w, n)'
    <3>1. n \in 1..Len(catchUpCh)
      BY <2>1, <1>4, <1>6
    <3>2. MoreToCome(w, n)
      BY <3>1, <2>1, <1>1, <1>3, <1>6 DEF BatchesFollowed
    <3>3. CASE w = s.wave
      <4>1. Len(catchUpCh) + 1 \in DonesOf(w)' /\ Len(catchUpCh) + 1 > n
        BY <3>1, <3>3, <1>4, <1>6, <1>7
      <4>. QED
        BY <4>1 DEF MoreToCome
    <3>4. CASE w # s.wave
      BY <3>2, <3>4, <1>5, <1>7, <1>10 DEF MoreToCome
    <3>. QED
      BY <3>3, <3>4
  <2>. QED
    BY <2>1 DEF BatchesFollowed
<1>. QED
  BY <1>5, <1>10, <1>11, <1>12 DEF BookInv

\* ScanFails: the wave of the scan, if it is in flight, is abandoned.
LEMMA ScanFailsBooks ==
  ASSUME Inv, BookInv, NEW s \in scans, ScanFails(s)
  PROVE  /\ BookInv' /\ \A w : Abandoned(w) => Abandoned(w)'
         /\ \A w \in DOMAIN waves : w = s.wave => Abandoned(w)'
<1>1. TypeFetch /\ TypeWaves /\ OneScanPerKind /\ Numbered /\ ScansCounted /\ BatchesFollowed
  BY InvParts DEF BookInv
<1>2. PICK b : b = [wave |-> 0, msgs |-> {}, done |-> FALSE, err |-> TRUE]
  OBVIOUS
<1>3. /\ catchUpCh' = Append(catchUpCh, b) /\ scans' = scans \ {s}
      /\ UNCHANGED <<waves, nextWave, status>>
  BY <1>2 DEF ScanFails, waveVars
<1>4. b.msgs = {} /\ ~b.done /\ b.err
  BY <1>2
<1>5. /\ OneScanPerKind'
      /\ \A w : Cardinality(ScansOf(w)') =
                  Cardinality(ScansOf(w)) - IF w = s.wave THEN 1 ELSE 0
      /\ \A w : w # s.wave => ScansOf(w)' = ScansOf(w)
  BY <1>1, <1>3, ScanGone
<1>6. /\ \A n \in 1..Len(catchUpCh) : n \in 1..Len(catchUpCh)' /\ catchUpCh'[n] = catchUpCh[n]
      /\ Len(catchUpCh) + 1 \in 1..Len(catchUpCh)' /\ catchUpCh'[Len(catchUpCh) + 1] = b
      /\ \A n \in 1..Len(catchUpCh)' : n \in 1..Len(catchUpCh) \/ n = Len(catchUpCh) + 1
  BY <1>1, <1>3, BatchAppended
<1>7. \A w : /\ DonesOf(w) \subseteq DonesOf(w)'
             /\ Cardinality(DonesOf(w)') = Cardinality(DonesOf(w))
  BY <1>1, <1>3, <1>4, DoneAppended, CountTypes
<1>8. \A w : Running(w)' = Running(w) - IF w = s.wave THEN 1 ELSE 0
  <2>1. TAKE w
  <2>2. Cardinality(ScansOf(w)) \in Nat /\ Cardinality(DonesOf(w)) \in Nat
    BY <1>1, CountTypes
  <2>3. Cardinality(ScansOf(w)') + Cardinality(DonesOf(w)') =
          Running(w) - IF w = s.wave THEN 1 ELSE 0
    BY <2>2, <1>5, <1>7 DEF Running
  <2>. QED
    BY <2>3 DEF Running
<1>9. \A w \in DOMAIN waves : Running(w) \in Nat /\ waves[w].scansLeft \in Int
  BY <1>1, CountTypes DEF TypeWaves, WaveState
<1>10. Failed'
  BY <1>4, <1>6 DEF Failed
<1>11. ScansCounted'
  BY <1>1, <1>3, <1>8, <1>9, <1>10 DEF ScansCounted
<1>12. \A w : Abandoned(w) => Abandoned(w)'
  BY <1>3, <1>8, <1>9 DEF Abandoned
<1>13. \A w \in DOMAIN waves : w = s.wave => Abandoned(w)'
  BY <1>1, <1>3, <1>8, <1>9 DEF Abandoned, ScansCounted
<1>14. Numbered'
  BY <1>1, <1>3, <1>4, <1>6 DEF Numbered
<1>15. BatchesFollowed'
  <2>1. ASSUME NEW n \in 1..Len(catchUpCh)', NEW w \in DOMAIN waves', ~catchUpCh'[n].err,
               ~catchUpCh'[n].done, catchUpCh'[n].wave = w
        PROVE  MoreToCome(w, n)'
    <3>1. n \in 1..Len(catchUpCh)
      BY <2>1, <1>4, <1>6
    <3>2. MoreToCome(w, n) /\ w \in DOMAIN waves
      BY <3>1, <2>1, <1>1, <1>3, <1>6 DEF BatchesFollowed
    <3>. QED
      BY <3>2, <1>5, <1>7, <1>12, <1>13 DEF MoreToCome
  <2>. QED
    BY <2>1 DEF BatchesFollowed
<1>. QED
  BY <1>5, <1>11, <1>12, <1>13, <1>14, <1>15 DEF BookInv

\* The writer takes a batch: a done marker is one scan less to wait for, for a wave that is
\* still in flight.
LEMMA TakenBooks ==
  ASSUME Inv, BookInv, TakeBatch, UNCHANGED nextWave, DOMAIN waves' \subseteq DOMAIN waves,
         \A w \in DOMAIN waves' :
           /\ waves'[w].owned = waves[w].owned
           /\ waves'[w].scansLeft = waves[w].scansLeft - IF 1 \in DonesOf(w) THEN 1 ELSE 0
           /\ waves'[w].scansLeft > 0,
         status' = "open" => status = "open" /\ ~Taken.err
  PROVE  BookInv' /\ \A w \in DOMAIN waves' : Abandoned(w) => Abandoned(w)'
<1>1. TypeFetch /\ TypeWaves /\ OneScanPerKind /\ Numbered /\ ScansCounted /\ BatchesFollowed
  BY InvParts DEF BookInv
<1>2. catchUpCh # <<>> /\ catchUpCh' = Tail(catchUpCh) /\ UNCHANGED scans
  BY DEF TakeBatch
<1>3. /\ \A n \in 1..Len(catchUpCh)' :
           n + 1 \in 1..Len(catchUpCh) /\ catchUpCh'[n] = catchUpCh[n + 1]
      /\ \A n \in 1..Len(catchUpCh) :
           n # 1 => n - 1 \in 1..Len(catchUpCh)' /\ catchUpCh'[n - 1] = catchUpCh[n]
      /\ \A w : \A n \in DonesOf(w) : n # 1 => n - 1 \in DonesOf(w)'
      /\ \A w : Cardinality(DonesOf(w)') =
                  Cardinality(DonesOf(w)) - IF 1 \in DonesOf(w) THEN 1 ELSE 0
  BY <1>1, <1>2, HeadDropped
<1>4. \A w : ScansOf(w)' = ScansOf(w)
  BY <1>2 DEF ScansOf
<1>5. \A w : Running(w)' = Running(w) - IF 1 \in DonesOf(w) THEN 1 ELSE 0
  <2>1. TAKE w
  <2>2. Cardinality(ScansOf(w)) \in Nat /\ Cardinality(DonesOf(w)) \in Nat
    BY <1>1, CountTypes
  <2>3. Cardinality(ScansOf(w)') + Cardinality(DonesOf(w)') =
          Running(w) - IF 1 \in DonesOf(w) THEN 1 ELSE 0
    BY <2>2, <1>3, <1>4 DEF Running
  <2>. QED
    BY <2>3 DEF Running
<1>6. \A w \in DOMAIN waves : Running(w) \in Nat /\ waves[w].scansLeft \in Int
  BY <1>1, CountTypes DEF TypeWaves, WaveState
<1>7. status' = "open" /\ Failed => Failed'
  <2>1. Taken = catchUpCh[1]
    BY <1>1, <1>2, BatchTail DEF Taken
  <2>. QED
    BY <2>1, <1>3 DEF Failed
<1>8. ScansCounted'
  BY <1>1, <1>5, <1>6, <1>7 DEF ScansCounted
<1>9. \A w \in DOMAIN waves' : Abandoned(w) => Abandoned(w)'
  BY <1>5, <1>6 DEF Abandoned
<1>10. OneScanPerKind'
  BY <1>1, <1>2 DEF OneScanPerKind
<1>11. Numbered'
  BY <1>1, <1>2, <1>3 DEF Numbered
<1>12. BatchesFollowed'
  <2>1. ASSUME NEW n \in 1..Len(catchUpCh)', NEW w \in DOMAIN waves', ~catchUpCh'[n].err,
               ~catchUpCh'[n].done, catchUpCh'[n].wave = w
        PROVE  MoreToCome(w, n)'
    <3>1. MoreToCome(w, n + 1)
      BY <2>1, <1>1, <1>3 DEF BatchesFollowed
    <3>2. ASSUME NEW m \in DonesOf(w), m > n + 1 PROVE m - 1 \in DonesOf(w)' /\ m - 1 > n
      BY <3>2, <1>3 DEF DonesOf
    <3>. QED
      BY <3>1, <3>2, <1>4, <1>9 DEF MoreToCome
  <2>. QED
    BY <2>1 DEF BatchesFollowed
<1>. QED
  BY <1>8, <1>9, <1>10, <1>11, <1>12 DEF BookInv

\* Whether the batch taken is a done marker of a wave.
LEMMA TakenDone ==
  ASSUME Inv, TakeBatch
  PROVE  /\ Taken = catchUpCh[1] /\ 1 \in 1..Len(catchUpCh)
         /\ \A w : 1 \in DonesOf(w) <=> Taken.wave = w /\ Taken.done
<1>1. Taken = catchUpCh[1] /\ 1 \in 1..Len(catchUpCh)
  BY InvParts, BatchTail DEF Taken, TakeBatch
<1>. QED
  BY <1>1 DEF DonesOf

\* FailBatch, DropStraggler and ReplayBatch take no done marker of a wave in flight.
LEMMA TakenFrameBooks ==
  ASSUME Inv, BookInv, FailBatch \/ DropStraggler \/ ReplayBatch
  PROVE  BookInv' /\ \A w \in DOMAIN waves' : Abandoned(w) => Abandoned(w)'
<1>1. TakeBatch /\ UNCHANGED <<waves, nextWave>>
  BY DEF FailBatch, DropStraggler, ReplayBatch, waveVars
<1>2. /\ Taken = catchUpCh[1] /\ 1 \in 1..Len(catchUpCh)
      /\ \A w : 1 \in DonesOf(w) <=> Taken.wave = w /\ Taken.done
  BY <1>1, TakenDone
<1>3. status' = "open" => status = "open" /\ ~Taken.err
  BY DEF FailBatch, DropStraggler, ReplayBatch, Return
<1>4. Numbered /\ ScansCounted /\ TypeWaves
  BY InvParts DEF BookInv
<1>5. Taken.err => ~Taken.done
  BY <1>2, <1>4 DEF Numbered
<1>6. \A w \in DOMAIN waves : 1 \notin DonesOf(w)
  BY <1>2, <1>5 DEF FailBatch, DropStraggler, ReplayBatch
<1>7. \A w \in DOMAIN waves :
        waves[w].scansLeft > 0
        /\ waves[w].scansLeft = waves[w].scansLeft - IF 1 \in DonesOf(w) THEN 1 ELSE 0
  BY <1>4, <1>6 DEF ScansCounted, TypeWaves, WaveState
<1>. QED
  BY <1>1, <1>3, <1>7, TakenBooks

\* ScanDrained: the wave waits for one scan less.
LEMMA ScanDrainedBooks ==
  ASSUME Inv, BookInv, ScanDrained
  PROVE  /\ BookInv' /\ DOMAIN waves' = DOMAIN waves
         /\ \A w \in DOMAIN waves' : Abandoned(w) => Abandoned(w)'
<1>1. TakeBatch /\ UNCHANGED <<nextWave, status>> /\ ~Taken.err /\ Taken.done
  BY DEF ScanDrained
<1>2. \A w : 1 \in DonesOf(w) <=> Taken.wave = w
  BY <1>1, TakenDone
<1>3. TypeWaves
  BY InvParts
<1>4. PICK w : w = Taken.wave
  OBVIOUS
<1>5. w \in DOMAIN waves /\ waves[w] \in WaveState /\ waves[w].scansLeft > 1
  BY <1>3, <1>4 DEF ScanDrained, TypeWaves
<1>6. PICK v : v = [waves[w] EXCEPT !.scansLeft = waves[w].scansLeft - 1]
  OBVIOUS
<1>7. v.owned = waves[w].owned /\ v.scansLeft = waves[w].scansLeft - 1 /\ v.scansLeft > 0
  BY <1>5, <1>6 DEF WaveState
<1>8. waves' = [waves EXCEPT ![w] = v]
  BY <1>4, <1>6 DEF ScanDrained
<1>9. DOMAIN waves' = DOMAIN waves /\ waves'[w] = v
      /\ \A u \in DOMAIN waves : u # w => waves'[u] = waves[u]
  BY <1>3, <1>5, <1>8 DEF TypeWaves
<1>10. \A u \in DOMAIN waves : waves[u].scansLeft \in Int /\ waves[u].scansLeft > 0
  BY <1>3 DEF BookInv, ScansCounted, TypeWaves, WaveState
<1>11. \A u \in DOMAIN waves' :
        /\ waves'[u].owned = waves[u].owned
        /\ waves'[u].scansLeft = waves[u].scansLeft - IF 1 \in DonesOf(u) THEN 1 ELSE 0
        /\ waves'[u].scansLeft > 0
  BY <1>2, <1>4, <1>7, <1>9, <1>10
<1>. QED
  BY <1>1, <1>9, <1>11, TakenBooks

\* CompleteWave: the other waves wait for what they waited for.
LEMMA CompleteWaveBooks ==
  ASSUME Inv, BookInv, CompleteWave
  PROVE  BookInv' /\ \A w \in DOMAIN waves' : Abandoned(w) => Abandoned(w)'
<1>1. /\ TakeBatch /\ UNCHANGED nextWave /\ ~Taken.err
      /\ waves' = [v \in DOMAIN waves \ {Taken.wave} |-> waves[v]]
      /\ status = "open"
  BY DEF CompleteWave, TakeBatch, Selecting
<1>2. \A w : 1 \in DonesOf(w) => Taken.wave = w
  BY <1>1, TakenDone
<1>3. TypeWaves /\ ScansCounted
  BY InvParts DEF BookInv
<1>4. \A u \in DOMAIN waves :
        waves[u].scansLeft \in Int /\ waves[u].scansLeft > 0
  BY <1>3 DEF ScansCounted, TypeWaves, WaveState
<1>5. \A u \in DOMAIN waves' :
        /\ waves'[u].owned = waves[u].owned
        /\ waves'[u].scansLeft = waves[u].scansLeft - IF 1 \in DonesOf(u) THEN 1 ELSE 0
        /\ waves'[u].scansLeft > 0
  BY <1>1, <1>2, <1>4
<1>6. DOMAIN waves' \subseteq DOMAIN waves
  BY <1>1
<1>. QED
  BY <1>1, <1>5, <1>6, TakenBooks

-----------------------------------------------------------------------------
(* The books of a new wave.                                                *)

\* What a Mutate does, with the topics it drops and those it adds named.
MutateStep(m, D, A, gated) ==
  /\ D = m.removes \cup Resets(m) /\ A = Fresh(m)
  /\ gated = IF m.historyOnly THEN {} ELSE A
  /\ D \in SUBSET Topics /\ A \in SUBSET Topics /\ A \subseteq AddTopics(m)
  /\ adding = {} /\ status = "open"
  /\ subTopics' = subTopics \ D
  /\ adding' = gated
  /\ subscribed' = (subscribed \ D) \cup gated
  /\ pending' = pending \ Discarded(D)
  /\ hwm' = [t \in Topics |-> IF t \in A THEN Cursor(m, t) ELSE IF t \in D THEN 0 ELSE hwm[t]]
  /\ topicWave' = [t \in Topics |-> IF t \in A THEN nextWave
                                    ELSE IF t \in D THEN NoWave ELSE topicWave[t]]
  /\ start' = [t \in Topics |-> IF t \in A THEN Cursor(m, t)
                                ELSE IF t \in D THEN NotFollowed ELSE start[t]]
  /\ due' = [t \in Topics |-> IF t \in A THEN Latest(Kind(t)) ELSE due[t]]
  /\ got' = [t \in Topics |-> IF t \in A \cup D THEN {} ELSE got[t]]
  /\ UNCHANGED <<table, polled, messagesCh, registered, misordered, status, catchUpCh>>
  /\ scans \subseteq scans'
  /\ \A s \in scans' : s \in scans \/ (A # {} /\ s \in NewScans(m, A))
  /\ A # {} => NewScans(m, A) \subseteq scans'
  /\ nextWave' = IF A = {} THEN nextWave ELSE nextWave + 1
  /\ waves' = IF A = {} THEN KeptWaves(D)
              ELSE [w \in DOMAIN KeptWaves(D) \cup {nextWave} |->
                      IF w = nextWave THEN NewWave(m, A) ELSE KeptWaves(D)[w]]

\* Every accepted Mutate is such a step.
LEMMA MutateSteps ==
  ASSUME NEW m \in Mutates, Mutate(m)
  PROVE  \E D, A, gated : MutateStep(m, D, A, gated)
<1> DEFINE D == m.removes \cup Resets(m)
           A == Fresh(m)
           gated == IF m.historyOnly THEN {} ELSE A
<1>1. D \in SUBSET Topics /\ A \in SUBSET Topics /\ A \subseteq AddTopics(m)
  BY MutateTopics DEF Mutate
<1>2. /\ scans \subseteq scans'
      /\ \A s \in scans' : s \in scans \/ (A # {} /\ s \in NewScans(m, A))
      /\ A # {} => NewScans(m, A) \subseteq scans'
      /\ nextWave' = IF A = {} THEN nextWave ELSE nextWave + 1
  <2>1. CASE A = {}
    BY <2>1 DEF Mutate
  <2>2. CASE A # {}
    BY <2>2 DEF Mutate
  <2>. QED
    BY <2>1, <2>2
<1>3. waves' = IF A = {} THEN KeptWaves(D)
               ELSE [w \in DOMAIN KeptWaves(D) \cup {nextWave} |->
                       IF w = nextWave THEN NewWave(m, A) ELSE KeptWaves(D)[w]]
  BY DEF Mutate
<1>4. /\ adding = {} /\ status = "open"
      /\ subTopics' = subTopics \ D
      /\ adding' = gated
      /\ subscribed' = (subscribed \ D) \cup gated
      /\ pending' = pending \ Discarded(D)
      /\ hwm' = [t \in Topics |-> IF t \in A THEN Cursor(m, t)
                                  ELSE IF t \in D THEN 0 ELSE hwm[t]]
      /\ topicWave' = [t \in Topics |-> IF t \in A THEN nextWave
                                        ELSE IF t \in D THEN NoWave ELSE topicWave[t]]
      /\ start' = [t \in Topics |-> IF t \in A THEN Cursor(m, t)
                                    ELSE IF t \in D THEN NotFollowed ELSE start[t]]
      /\ due' = [t \in Topics |-> IF t \in A THEN Latest(Kind(t)) ELSE due[t]]
      /\ got' = [t \in Topics |-> IF t \in A \cup D THEN {} ELSE got[t]]
      /\ UNCHANGED <<table, polled, messagesCh, registered, misordered, status, catchUpCh>>
  BY DEF Mutate, Selecting, logVars
<1>5. MutateStep(m, D, A, gated)
  BY <1>1, <1>2, <1>3, <1>4 DEF MutateStep
<1>. QED
  BY <1>5

\* One scan per kind of the topics a Mutate adds.
LEMMA NewScansCount ==
  ASSUME NEW m \in Mutates, NEW A \in SUBSET Topics
  PROVE  /\ IsFiniteSet(NewScans(m, A))
         /\ Cardinality(NewScans(m, A)) = Cardinality({Kind(t) : t \in A})
         /\ \A s \in NewScans(m, A) : s.wave = nextWave
         /\ \A s, r \in NewScans(m, A) : s.kind = r.kind => s = r
         /\ A # {} => Cardinality({Kind(t) : t \in A}) \in Nat \ {0}
<1> DEFINE K == {Kind(t) : t \in A}
           f == [k \in K |->
                   [wave |-> nextWave, kind |-> k, pc |-> "probe", slot |-> FALSE,
                    ceiling |-> 0,
                    queue |-> {[topic |-> t, cursor |-> Cursor(m, t)] :
                                 t \in {u \in A : Kind(u) = k}}]]
<1>1. IsFiniteSet(K)
  <2>1. K \subseteq Kinds
    BY KindType
  <2>2. Kinds = {"group"} \cup {"welcome"}
    BY DEF Kinds
  <2>3. IsFiniteSet(Kinds)
    BY <2>2, FS_Singleton, FS_Union
  <2>. QED
    BY <2>1, <2>3, FS_Subset
<1>2. NewScans(m, A) = {f[k] : k \in K}
  BY DEF NewScans
<1>3. \A k \in K : f[k].kind = k /\ f[k].wave = nextWave
  OBVIOUS
<1>4. A # {} => K # {}
  OBVIOUS
<1>5. f \in [K -> NewScans(m, A)]
  BY <1>2
<1> HIDE DEF K, f
<1>6. \A a, b \in K : f[a] = f[b] => a = b
  BY <1>3
<1>7. \A s \in NewScans(m, A) : \E k \in K : f[k] = s
  BY <1>2
<1>8. IsFiniteSet(NewScans(m, A)) /\ Cardinality(NewScans(m, A)) = Cardinality(K)
  BY <1>1, <1>5, <1>6, <1>7, BijectionCounts
<1>9. \A s \in NewScans(m, A) : s.wave = nextWave
  BY <1>3, <1>7
<1>10. \A s, r \in NewScans(m, A) : s.kind = r.kind => s = r
  BY <1>3, <1>7
<1>11. A # {} => Cardinality(K) \in Nat \ {0}
  BY <1>1, <1>4, FS_CardinalityType, FS_EmptySet
<1>. QED
  BY <1>8, <1>9, <1>10, <1>11 DEF K

\* A wave that dropping topics leaves in flight owns a topic and waits for the same scans.
LEMMA KeptFacts ==
  ASSUME TypeWaves, ScansCounted, NEW D \in SUBSET Topics, NEW w \in DOMAIN waves \ Emptied(D)
  PROVE  KeptWaves(D)[w].scansLeft = waves[w].scansLeft /\ KeptWaves(D)[w].owned > 0
<1>1. waves[w] \in WaveState /\ waves[w].owned > 0
  BY DEF TypeWaves, ScansCounted
<1>2. KeptWaves(D)[w] = [waves[w] EXCEPT !.owned = waves[w].owned - Cardinality(Lost(w, D))]
  BY DEF KeptWaves
<1>3. Cardinality(Lost(w, D)) \in Nat
  BY TopicsFinite DEF Lost
<1>4. waves[w].owned - Cardinality(Lost(w, D)) > 0
  <2>1. CASE Lost(w, D) = {}
    <3>1. Cardinality(Lost(w, D)) = 0
      BY <2>1, FS_EmptySet
    <3>. QED
      BY <3>1, <1>1 DEF WaveState
  <2>2. CASE Lost(w, D) # {}
    BY <2>2, <1>1, <1>3 DEF Emptied, WaveState
  <2>. QED
    BY <2>1, <2>2
<1>. QED
  BY <1>1, <1>2, <1>4 DEF WaveState

\* Mutate: the new wave waits for the scans it starts, the others for what they waited for.
LEMMA MutateBooks ==
  ASSUME Inv, BookInv, NEW m \in Mutates, NEW D, NEW A, NEW gated, MutateStep(m, D, A, gated)
  PROVE  /\ BookInv'
         /\ \A w \in DOMAIN waves' : Abandoned(w) => Abandoned(w)'
         /\ \A w : w # nextWave => ScansOf(w)' = ScansOf(w)
         /\ DOMAIN waves' = (DOMAIN waves \ Emptied(D)) \cup IF A = {} THEN {} ELSE {nextWave}
<1>1. TypeFetch /\ TypeWaves /\ OneScanPerKind /\ Numbered /\ ScansCounted /\ BatchesFollowed
  BY InvParts DEF BookInv
<1>2. /\ D \in SUBSET Topics /\ A \in SUBSET Topics
      /\ scans \subseteq scans'
      /\ \A s \in scans' : s \in scans \/ (A # {} /\ s \in NewScans(m, A))
      /\ A # {} => NewScans(m, A) \subseteq scans'
      /\ nextWave' = IF A = {} THEN nextWave ELSE nextWave + 1
      /\ waves' = IF A = {} THEN KeptWaves(D)
                  ELSE [w \in DOMAIN KeptWaves(D) \cup {nextWave} |->
                          IF w = nextWave THEN NewWave(m, A) ELSE KeptWaves(D)[w]]
      /\ UNCHANGED <<status, catchUpCh>>
  BY DEF MutateStep
<1>3. /\ IsFiniteSet(NewScans(m, A))
      /\ Cardinality(NewScans(m, A)) = Cardinality({Kind(t) : t \in A})
      /\ \A s \in NewScans(m, A) : s.wave = nextWave
      /\ \A s, r \in NewScans(m, A) : s.kind = r.kind => s = r
      /\ A # {} => Cardinality({Kind(t) : t \in A}) \in Nat \ {0}
  BY <1>2, NewScansCount
<1>4. nextWave \in Nat /\ nextWave \notin DOMAIN waves /\ \A s \in scans : s.wave # nextWave
      /\ nextWave' \in Nat /\ nextWave <= nextWave'
  BY <1>1, <1>2 DEF TypeWaves, Numbered
<1>5. OneScanPerKind'
  <2>1. CASE A = {}
    BY <2>1, <1>1, <1>2 DEF OneScanPerKind
  <2>2. CASE A # {}
    <3>1. scans' = scans \cup NewScans(m, A)
      BY <2>2, <1>2
    <3>2. IsFiniteSet(scans')
      BY <3>1, <1>1, <1>3, FS_Union DEF OneScanPerKind
    <3>. QED
      BY <3>1, <3>2, <1>1, <1>3, <1>4 DEF OneScanPerKind
  <2>. QED
    BY <2>1, <2>2
<1>6. \A w : w # nextWave => ScansOf(w)' = ScansOf(w)
  BY <1>2, <1>3 DEF ScansOf
<1>7. \A w : DonesOf(w)' = DonesOf(w)
  BY <1>2 DEF DonesOf
<1>8. \A w : w # nextWave => Running(w)' = Running(w)
  BY <1>6, <1>7 DEF Running
<1>9. DOMAIN waves' = (DOMAIN waves \ Emptied(D)) \cup IF A = {} THEN {} ELSE {nextWave}
  BY <1>2 DEF KeptWaves
<1>10. \A w \in DOMAIN waves \ Emptied(D) :
         waves'[w].scansLeft = waves[w].scansLeft /\ waves'[w].owned > 0
  <2>1. \A w \in DOMAIN waves \ Emptied(D) : waves'[w] = KeptWaves(D)[w]
    BY <1>2, <1>4 DEF KeptWaves
  <2>. QED
    BY <2>1, <1>1, <1>2, KeptFacts
<1>11. \A w \in DOMAIN waves' : Abandoned(w) => Abandoned(w)'
  BY <1>4, <1>8, <1>9, <1>10 DEF Abandoned
<1>12. Numbered'
  <2>1. \A s \in scans' : s.wave < nextWave'
    <3>1. \A s \in scans : s.wave \in Nat /\ s.wave < nextWave
      BY <1>1 DEF TypeFetch, Scan, Numbered
    <3>. QED
      BY <3>1, <1>2, <1>3, <1>4
  <2>2. \A n \in 1..Len(catchUpCh) : catchUpCh[n].wave \in Nat
    <3>1. \A n \in 1..Len(catchUpCh) : catchUpCh[n] \in CatchUpBatch
      BY <1>1 DEF TypeFetch
    <3>. QED
      BY <3>1 DEF CatchUpBatch
  <2>. QED
    BY <2>1, <2>2, <1>1, <1>2, <1>4 DEF Numbered
<1>13. ASSUME A # {}
       PROVE  /\ waves'[nextWave].owned > 0
              /\ waves'[nextWave].scansLeft = Cardinality({Kind(t) : t \in A})
              /\ \A w : w = nextWave => Running(w)' = Cardinality({Kind(t) : t \in A})
  <2>1. waves'[nextWave] = NewWave(m, A)
    BY <1>2, <1>13
  <2>2. Cardinality(A) > 0
    BY <1>2, <1>13, TopicsFinite, FS_EmptySet
  <2>3. ASSUME NEW w, w = nextWave PROVE Running(w)' = Cardinality({Kind(t) : t \in A})
    <3>1. ScansOf(w)' = NewScans(m, A)
      BY <2>3, <1>2, <1>3, <1>4, <1>13 DEF ScansOf
    <3>2. DonesOf(w)' = {}
      <4>1. DonesOf(w) = {}
        BY <2>3, <1>1, <1>4 DEF DonesOf, Numbered
      <4>. QED
        BY <4>1, <1>7
    <3>3. Cardinality(DonesOf(w)') = 0
      BY <3>2, FS_EmptySet
    <3>4. Cardinality(ScansOf(w)') + Cardinality(DonesOf(w)') = Cardinality({Kind(t) : t \in A})
      BY <3>1, <3>3, <1>3, <1>13
    <3>. QED
      BY <3>4 DEF Running
  <2>. QED
    BY <2>1, <2>2, <2>3 DEF NewWave
<1>14. Failed' <=> Failed
  BY <1>2 DEF Failed
<1>15. ScansCounted'
  <2>1. ASSUME NEW w \in DOMAIN waves'
        PROVE  /\ waves'[w].owned > 0 /\ waves'[w].scansLeft > 0
               /\ Running(w)' <= waves'[w].scansLeft
               /\ status' = "open" => Failed' \/ Running(w)' = waves'[w].scansLeft
    <3>1. CASE w = nextWave
      <4>1. A # {}
        BY <2>1, <3>1, <1>4, <1>9
      <4>. QED
        BY <3>1, <4>1, <1>3, <1>13
    <3>2. CASE w # nextWave
      <4>1. w \in DOMAIN waves \ Emptied(D)
        BY <2>1, <3>2, <1>9
      <4>. QED
        BY <3>2, <4>1, <1>1, <1>2, <1>8, <1>10, <1>14 DEF ScansCounted
    <3>. QED
      BY <3>1, <3>2
  <2>. QED
    BY <2>1 DEF ScansCounted
<1>16. BatchesFollowed'
  <2>1. ASSUME NEW n \in 1..Len(catchUpCh)', NEW w \in DOMAIN waves', ~catchUpCh'[n].err,
               ~catchUpCh'[n].done, catchUpCh'[n].wave = w
        PROVE  MoreToCome(w, n)'
    <3>1. w # nextWave
      BY <2>1, <1>1, <1>2, <1>4 DEF Numbered
    <3>2. MoreToCome(w, n)
      BY <3>1, <2>1, <1>1, <1>2, <1>9 DEF BatchesFollowed
    <3>. QED
      BY <3>1, <3>2, <2>1, <1>6, <1>7, <1>11 DEF MoreToCome
  <2>. QED
    BY <2>1 DEF BatchesFollowed
<1>. QED
  BY <1>5, <1>6, <1>9, <1>11, <1>12, <1>15, <1>16 DEF BookInv

-----------------------------------------------------------------------------
(* The fetchers' steps, with the moved scan named.                         *)

\* ScanProbe: the ceiling is the newest row, and no topic below it is pruned.
LEMMA ProbeMove ==
  ASSUME Inv, NEW s \in scans, ScanProbe(s)
  PROVE  \E r \in Scan :
           /\ r.wave = s.wave /\ r.kind = s.kind /\ scans' = (scans \ {s}) \cup {r}
           /\ r.ceiling = Latest(s.kind) /\ r.queue = Unpruned(s.queue, Latest(s.kind))
<1>1. TypeLog /\ TypeFetch
  BY InvParts
<1>2. s \in Scan /\ Latest(s.kind) \in Nat
  BY <1>1, LatestType DEF TypeFetch, Scan
<1>3. PICK r : /\ r = [s EXCEPT !.pc = IF Unpruned(s.queue, Latest(s.kind)) = {}
                                       THEN "turn" ELSE "park",
                                !.ceiling = Latest(s.kind),
                                !.queue = Unpruned(s.queue, Latest(s.kind))]
               /\ scans' = (scans \ {s}) \cup {r}
  BY DEF ScanProbe
<1>4. r \in Scan /\ r.wave = s.wave /\ r.kind = s.kind /\ r.ceiling = Latest(s.kind)
      /\ r.queue = Unpruned(s.queue, Latest(s.kind))
  BY <1>2, <1>3 DEF Scan, Unpruned
<1>. QED
  BY <1>3, <1>4

\* AcquireScanSlot: the ceiling does not fall.
LEMMA AcquireMove ==
  ASSUME Inv, NEW s \in scans, AcquireScanSlot(s)
  PROVE  \E r \in Scan :
           /\ r.wave = s.wave /\ r.kind = s.kind /\ scans' = (scans \ {s}) \cup {r}
           /\ s.ceiling <= r.ceiling /\ r.queue = s.queue
<1>1. TypeLog /\ TypeFetch /\ RealScans
  BY InvParts
<1>2. s \in Scan /\ Latest(s.kind) \in Nat /\ s.ceiling <= Latest(s.kind) /\ s.ceiling \in Nat
  BY <1>1, LatestType DEF TypeFetch, Scan, RealScans
<1>3. PICK c \in {s.ceiling, Latest(s.kind)} :
        scans' = (scans \ {s}) \cup {[s EXCEPT !.pc = "turn", !.slot = TRUE, !.ceiling = c]}
  BY DEF AcquireScanSlot
<1>4. PICK r : /\ r = [s EXCEPT !.pc = "turn", !.slot = TRUE, !.ceiling = c]
               /\ scans' = (scans \ {s}) \cup {r}
  BY <1>3
<1>5. c \in Nat /\ s.ceiling <= c
  BY <1>2
<1>6. r \in Scan /\ r.wave = s.wave /\ r.kind = s.kind /\ r.ceiling = c /\ r.queue = s.queue
  BY <1>2, <1>4, <1>5 DEF Scan
<1>. QED
  BY <1>4, <1>5, <1>6

\* ScanTurn: the batch's topics leave the queue or rotate.
LEMMA TurnMove ==
  ASSUME Inv, NEW s \in scans, NEW batch \in SUBSET s.queue, ScanTurn(s, batch)
  PROVE  \E r \in Scan :
           /\ r.wave = s.wave /\ r.kind = s.kind /\ scans' = (scans \ {s}) \cup {r}
           /\ r.pc = s.pc /\ r.ceiling = s.ceiling
           /\ r.queue = (s.queue \ batch) \cup Rotated(s.kind, batch, s.ceiling)
<1>1. TypeFetch
  BY InvParts
<1>2. s \in Scan /\ batch \in SUBSET Catchup /\ s.ceiling \in Nat
  BY <1>1 DEF TypeFetch, Scan
<1>3. PICK r : /\ r = [s EXCEPT !.queue = (s.queue \ batch) \cup Rotated(s.kind, batch, s.ceiling)]
               /\ scans' = (scans \ {s}) \cup {r}
  BY DEF ScanTurn
<1>4. Rotated(s.kind, batch, s.ceiling) \in SUBSET Catchup
  BY <1>2, RotatedType
<1>5. /\ r \in Scan /\ r.wave = s.wave /\ r.kind = s.kind
      /\ r.pc = s.pc /\ r.ceiling = s.ceiling
      /\ r.queue = (s.queue \ batch) \cup Rotated(s.kind, batch, s.ceiling)
  BY <1>2, <1>3, <1>4 DEF Scan
<1>. QED
  BY <1>3, <1>5

\* The batch a turn hands over, unless it is empty.
LEMMA TurnBatch ==
  ASSUME Inv, NEW s \in scans, NEW batch \in SUBSET s.queue, ScanTurn(s, batch)
  PROVE  LET msgs == UNION {PageMessages(s.kind, q, s.ceiling) : q \in batch}
         IN  \/ msgs = {} /\ UNCHANGED catchUpCh
             \/ \E b : /\ b.wave = s.wave /\ b.msgs = msgs /\ ~b.done /\ ~b.err
                       /\ catchUpCh' = Append(catchUpCh, b)
<1> DEFINE msgs == UNION {PageMessages(s.kind, q, s.ceiling) : q \in batch}
<1>1. CASE msgs = {}
  BY <1>1 DEF ScanTurn
<1>2. CASE msgs # {}
  <2>1. PICK b : b = [wave |-> s.wave, msgs |-> msgs, done |-> FALSE, err |-> FALSE]
    OBVIOUS
  <2>2. b.wave = s.wave /\ b.msgs = msgs /\ ~b.done /\ ~b.err
    BY <2>1
  <2>3. catchUpCh' = Append(catchUpCh, b)
    BY <1>2, <2>1 DEF ScanTurn
  <2>. QED
    BY <2>2, <2>3
<1>. QED
  BY <1>1, <1>2

\* ScanProbe, AcquireScanSlot and ScanTurn move a scan on.
LEMMA ScanMoveBooks ==
  ASSUME Inv, BookInv, NEW s \in scans,
         \/ ScanProbe(s) \/ AcquireScanSlot(s) \/ \E batch \in SUBSET s.queue : ScanTurn(s, batch)
  PROVE  BookInv' /\ \A w : Abandoned(w)' <=> Abandoned(w)
<1>1. UNCHANGED <<waves, nextWave, status>>
  BY DEF ScanProbe, AcquireScanSlot, ScanTurn, waveVars
<1>2. \E r : r.wave = s.wave /\ r.kind = s.kind /\ scans' = (scans \ {s}) \cup {r}
  BY ProbeMove, AcquireMove, TurnMove
<1>3. \/ UNCHANGED catchUpCh
      \/ \E b : /\ b.wave = s.wave /\ ~b.done /\ ~b.err
                /\ catchUpCh' = Append(catchUpCh, b)
  <2>1. CASE ScanProbe(s) \/ AcquireScanSlot(s)
    BY <2>1 DEF ScanProbe, AcquireScanSlot
  <2>2. ASSUME NEW batch \in SUBSET s.queue, ScanTurn(s, batch)
        PROVE  \/ UNCHANGED catchUpCh
               \/ \E b : /\ b.wave = s.wave /\ ~b.done /\ ~b.err
                         /\ catchUpCh' = Append(catchUpCh, b)
    BY <2>2, TurnBatch
  <2>. QED
    BY <2>1, <2>2
<1>. QED
  BY <1>1, <1>2, <1>3, MovedBooks

\* A new stream has no wave.
LEMMA InitBooks == Init => BookInv
<1>1. SUFFICES ASSUME Init PROVE BookInv
  OBVIOUS
<1>2. scans = {} /\ catchUpCh = <<>> /\ DOMAIN waves = {} /\ Len(catchUpCh) = 0
  BY <1>1 DEF Init
<1>3. OneScanPerKind
  BY <1>2, FS_EmptySet DEF OneScanPerKind
<1>. QED
  BY <1>2, <1>3 DEF BookInv, Numbered, ScansCounted, BatchesFollowed

\* Every step keeps the books.
LEMMA NextBooks == ASSUME Inv, BookInv, [Next]_vars PROVE BookInv'
<1>1. ASSUME NEW s \in scans,
             \/ ScanProbe(s) \/ AcquireScanSlot(s)
             \/ \E batch \in SUBSET s.queue : ScanTurn(s, batch)
      PROVE  BookInv'
  BY <1>1, ScanMoveBooks
<1>2. ASSUME NEW s \in scans, ScanDone(s) \/ ScanFails(s) PROVE BookInv'
  BY <1>2, ScanDoneBooks, ScanFailsBooks
<1>3. CASE FailBatch \/ DropStraggler \/ ReplayBatch \/ ScanDrained \/ CompleteWave
  BY <1>3, TakenFrameBooks, ScanDrainedBooks, CompleteWaveBooks
<1>4. CASE \E m \in Mutates : Mutate(m)
  BY <1>4, MutateSteps, MutateBooks
<1>5. CASE \/ UNCHANGED vars \/ StreamEnds \/ HalfClose \/ HoldEnvelope \/ SendLive
           \/ ConsumerTooSlow \/ Returned
           \/ (\E t \in Topics, known \in BOOLEAN : Publish(t, known))
           \/ (\E k \in Kinds : Poll(k)) \/ (\E t \in Topics : SubAdd(t))
           \/ (\E m \in Mutates : RefuseMutate(m))
  <2>1. UNCHANGED <<scans, catchUpCh, waves, nextWave>> /\ (status' = "open" => status = "open")
    BY <1>5 DEF vars, Returned, Publish, Poll, StreamEnds, SubAdd, HalfClose, HoldEnvelope,
       SendLive, ConsumerTooSlow, RefuseMutate, Return, Selecting, waveVars, fetchVars
  <2>. QED
    BY <2>1, BookFrame
<1>. QED
  BY <1>1, <1>2, <1>3, <1>4, <1>5 DEF Next, StreamStep

\* The books of a wave are exact (WaveBooks): it owns the topics that point to it, at least
\* one, and waits for as many scans as run or have their done marker in the channel.
THEOREM WaveBooksAreExact == Spec => []WaveBooks
<1>1. Init => Inv /\ LaneInv /\ GateInv /\ BookInv
  BY InitInv, InitLane, InitGate, InitBooks
<1>2. (Inv /\ LaneInv /\ GateInv /\ BookInv) /\ [Next]_vars
        => (Inv /\ LaneInv /\ GateInv /\ BookInv)'
  BY NextInv, NextLane, NextGate, NextBooks
<1>3. Inv /\ GateInv /\ BookInv => WaveBooks
  BY DEF GateInv, OwnedExact, Points, BookInv, ScansCounted, Failed, Running, ScansOf, DonesOf,
         WaveBooks
<1>. QED
  BY <1>1, <1>2, <1>3, PTL DEF Spec

-----------------------------------------------------------------------------
(* What a send does to a topic, and what a page of a scan holds.           *)

\* The rows of a topic in a set of envelopes that its floor lets through.
NewIds(floors, msgs, t) ==
  {i \in Nat : [topic |-> t, id |-> i] \in msgs /\ i > floors[t]}

\* SendMessages, topic by topic: the mark ends at the newest id that went out.
LEMMA SendEffect ==
  ASSUME TypeLog, TypeSent, NEW floors \in [Topics -> Nat], NEW msgs \in SUBSET Envelope,
         \A e \in msgs : Real(e), NEW live, SendMessages(floors, msgs, live), NEW t \in Topics
  PROVE  /\ IdsOf(Deduped(floors, msgs), t) = NewIds(floors, msgs, t)
         /\ got'[t] = IF Followed(t) THEN got[t] \cup NewIds(floors, msgs, t) ELSE got[t]
         /\ NewIds(floors, msgs, t) = {} => hwm'[t] = floors[t]
         /\ NewIds(floors, msgs, t) # {} =>
              /\ hwm'[t] \in NewIds(floors, msgs, t)
              /\ \A j \in NewIds(floors, msgs, t) : j <= hwm'[t]
         /\ hwm'[t] \in Nat /\ floors[t] <= hwm'[t]
<1>1. \A e \in msgs : e = [topic |-> e.topic, id |-> e.id] /\ e.id \in Nat
  BY DEF Envelope
<1>2. ASSUME NEW i PROVE i \in IdsOf(Deduped(floors, msgs), t) <=> i \in NewIds(floors, msgs, t)
  <2>1. ASSUME i \in IdsOf(Deduped(floors, msgs), t) PROVE i \in NewIds(floors, msgs, t)
    <3>1. PICK e \in msgs : e.topic = t /\ e.id > floors[e.topic] /\ i = e.id
      BY <2>1 DEF IdsOf, Deduped
    <3>. QED
      BY <3>1, <1>1 DEF NewIds
  <2>2. ASSUME i \in NewIds(floors, msgs, t) PROVE i \in IdsOf(Deduped(floors, msgs), t)
    <3>1. PICK e : e = [topic |-> t, id |-> i]
      OBVIOUS
    <3>2. e \in msgs /\ e.topic = t /\ e.id = i /\ e.id > floors[e.topic]
      BY <2>2, <3>1 DEF NewIds
    <3>. QED
      BY <3>2 DEF IdsOf, Deduped
  <2>. QED
    BY <2>1, <2>2
<1>3. IdsOf(Deduped(floors, msgs), t) = NewIds(floors, msgs, t)
  BY <1>2
<1>4. /\ got'[t] = IF Followed(t) THEN got[t] \cup NewIds(floors, msgs, t) ELSE got[t]
      /\ hwm'[t] = IF NewIds(floors, msgs, t) = {} THEN floors[t]
                   ELSE Greatest(NewIds(floors, msgs, t))
  BY <1>3 DEF SendMessages
<1>5. Latest(Kind(t)) \in Nat
  BY KindType, LatestType
<1>6. NewIds(floors, msgs, t) \subseteq Nat
      /\ \A i \in NewIds(floors, msgs, t) : i <= Latest(Kind(t))
  <2>1. ASSUME NEW i \in NewIds(floors, msgs, t) PROVE i <= Latest(Kind(t))
    <3>1. Real([topic |-> t, id |-> i])
      BY DEF NewIds
    <3>. QED
      BY <3>1, <1>5 DEF Real
  <2>. QED
    BY <2>1 DEF NewIds
<1>7. NewIds(floors, msgs, t) # {} =>
        /\ Greatest(NewIds(floors, msgs, t)) \in NewIds(floors, msgs, t)
        /\ \A j \in NewIds(floors, msgs, t) : j <= Greatest(NewIds(floors, msgs, t))
  BY <1>5, <1>6, GreatestOfBounded
<1>8. \A i \in NewIds(floors, msgs, t) : i > floors[t] /\ i \in Nat
  BY DEF NewIds
<1>9. floors[t] \in Nat
  OBVIOUS
<1>. QED
  BY <1>3, <1>4, <1>7, <1>8, <1>9

\* A send that leaves no gap behind keeps the client exact, and what it sent is no longer
\* missing.
LEMMA SendExact ==
  ASSUME Inv, NEW floors \in [Topics -> Nat], NEW msgs \in SUBSET Envelope,
         \A e \in msgs : Real(e), NEW live, SendMessages(floors, msgs, live),
         NEW t \in Topics, Followed(t), floors[t] = hwm[t], ExactFor(t),
         UNCHANGED <<table, start>>,
         \A e \in msgs : e.topic = t =>
           \A i \in Missing(t) : i <= e.id => [topic |-> t, id |-> i] \in msgs
  PROVE  /\ ExactFor(t)'
         /\ hwm[t] \in Nat /\ hwm'[t] \in Nat /\ hwm[t] <= hwm'[t]
         /\ Missing(t)' \subseteq Missing(t)
         /\ \A i \in Missing(t)' : [topic |-> t, id |-> i] \notin msgs
<1> DEFINE new == NewIds(floors, msgs, t)
<1>1. TypeLog /\ TypeSent /\ hwm[t] \in Nat /\ Latest(Kind(t)) \in Nat
  BY InvParts, KindType, LatestType DEF TypeSent
<1>2. /\ got'[t] = got[t] \cup new
      /\ new = {} => hwm'[t] = hwm[t]
      /\ new # {} => hwm'[t] \in new /\ \A j \in new : j <= hwm'[t]
      /\ hwm'[t] \in Nat /\ hwm[t] <= hwm'[t]
  BY <1>1, SendEffect
<1>3. ASSUME NEW i \in new
      PROVE  i \in Missing(t) /\ i <= hwm'[t]
  <2>1. PICK e : e = [topic |-> t, id |-> i]
    OBVIOUS
  <2>2. e \in msgs /\ e.topic = t /\ e.id = i /\ i > hwm[t] /\ i \in Nat
    BY <2>1, <1>3 DEF NewIds
  <2>3. i \in 1..Latest(Kind(t)) /\ table[Kind(t)][i].topic = t /\ table[Kind(t)][i].known
    BY <2>2 DEF Real
  <2>4. i \in Missing(t)
    BY <2>2, <2>3, <1>1 DEF Missing, Deliverable
  <2>. QED
    BY <2>4, <1>2, <1>3
<1>4. ASSUME NEW i \in Missing(t), i <= hwm'[t]
      PROVE  i \in new
  <2>1. i \in Nat /\ i > hwm[t]
    BY <1>1 DEF Missing, Deliverable
  <2>2. new # {}
    BY <2>1, <1>1, <1>2, <1>4
  <2>3. PICK e : e = [topic |-> t, id |-> hwm'[t]]
    OBVIOUS
  <2>4. e \in msgs /\ e.topic = t /\ e.id = hwm'[t]
    BY <2>2, <2>3, <1>2 DEF NewIds
  <2>. QED
    BY <2>1, <2>4, <1>4 DEF NewIds
<1>5. Latest(Kind(t))' = Latest(Kind(t))
  BY DEF Latest
<1>6. Missing(t)' = {i \in Missing(t) : i > hwm'[t]}
  BY <1>1, <1>2, <1>5 DEF Missing, Deliverable
<1> HIDE DEF new
<1>7. new = {i \in Missing(t) : i <= hwm'[t]}
  BY <1>3, <1>4
<1>8. ExactFor(t)'
  <2>1. /\ got[t] = Deliverable(t, start[t], hwm[t])
        /\ start[t] \in Nat /\ start[t] <= hwm[t]
    BY DEF ExactFor
  <2>2. Deliverable(t, start[t], hwm'[t]) =
          Deliverable(t, start[t], hwm[t]) \cup {i \in Missing(t) : i <= hwm'[t]}
    BY <2>1, <1>1, <1>2 DEF Missing, Deliverable
  <2>3. got'[t] = Deliverable(t, start[t], hwm'[t])
    BY <2>1, <2>2, <1>2, <1>7
  <2>4. Deliverable(t, start[t], hwm[t])' = Deliverable(t, start[t], hwm'[t])
    BY <1>5 DEF Deliverable
  <2>5. hwm'[t] = start[t] \/ hwm'[t] <= Latest(Kind(t))
    BY <1>1, <1>2, <1>3, <1>5 DEF ExactFor, Missing, Deliverable
  <2>. QED
    BY <2>1, <2>3, <2>4, <2>5, <1>1, <1>2, <1>5 DEF ExactFor
<1>9. ASSUME NEW i \in Missing(t)', [topic |-> t, id |-> i] \in msgs PROVE FALSE
  <2>1. i \in Missing(t) /\ i > hwm'[t] /\ i \in Nat /\ i > hwm[t]
    BY <1>1, <1>6, <1>9 DEF Missing, Deliverable
  <2>2. i \in new
    BY <2>1, <1>9 DEF new, NewIds
  <2>. QED
    BY <2>1, <2>2, <1>2, <1>7
<1>. QED
  BY <1>1, <1>2, <1>6, <1>8, <1>9

\* A send above the marks it starts from keeps each topic's ids ascending.
LEMMA SendOrdered ==
  ASSUME Inv, Ordered, NEW floors \in [Topics -> Nat], NEW msgs \in SUBSET Envelope,
         \A e \in msgs : Real(e), NEW live, SendMessages(floors, msgs, live),
         \A t \in Topics : floors[t] = hwm[t] \/ \A e \in msgs : e.topic # t,
         \A t \in Topics : Followed(t)' => Followed(t) /\ floors[t] = hwm[t]
  PROVE  Ordered'
<1>1. TypeLog /\ TypeSent
  BY InvParts
<1>2. ASSUME NEW t \in Topics
      PROVE  /\ IdsOf(Deduped(floors, msgs), t) = NewIds(floors, msgs, t)
             /\ got'[t] = IF Followed(t) THEN got[t] \cup NewIds(floors, msgs, t) ELSE got[t]
             /\ \A j \in NewIds(floors, msgs, t) : j <= hwm'[t]
             /\ hwm'[t] \in Nat /\ floors[t] <= hwm'[t]
  BY <1>1, SendEffect
<1>3. ASSUME NEW t \in Topics, Followed(t), NEW i \in NewIds(floors, msgs, t), NEW j \in got[t]
      PROVE  ~(i <= j)
  <2>1. PICK e : e = [topic |-> t, id |-> i]
    OBVIOUS
  <2>2. e \in msgs /\ e.topic = t /\ i \in Nat /\ i > floors[t]
    BY <2>1, <1>3 DEF NewIds
  <2>3. floors[t] = hwm[t]
    BY <2>2
  <2>4. j <= hwm[t] /\ j \in Nat /\ hwm[t] \in Nat
    BY <1>1, <1>3 DEF Ordered, TypeSent
  <2>. QED
    BY <2>2, <2>3, <2>4
<1>4. ~misordered'
  <2>1. misordered' = (misordered \/ \E t \in Topics : Followed(t) /\
                         \E i \in IdsOf(Deduped(floors, msgs), t), j \in got[t] : i <= j)
    BY DEF SendMessages
  <2>. QED
    BY <2>1, <1>2, <1>3 DEF Ordered
<1>5. ASSUME NEW t \in Topics, Followed(t)', NEW j \in got'[t] PROVE j <= hwm'[t]
  <2>1. Followed(t) /\ floors[t] = hwm[t]
    BY <1>5
  <2>2. CASE j \in got[t]
    <3>1. j \in Nat /\ hwm[t] \in Nat /\ j <= hwm[t]
      BY <2>1, <2>2, <1>1 DEF Ordered, TypeSent
    <3>2. hwm'[t] \in Nat /\ hwm[t] <= hwm'[t]
      BY <2>1, <1>2
    <3>. QED
      BY <3>1, <3>2
  <2>3. CASE j \in NewIds(floors, msgs, t)
    BY <2>3, <1>2
  <2>. QED
    BY <2>1, <2>2, <2>3, <1>2, <1>5
<1>. QED
  BY <1>4, <1>5 DEF Ordered

\* The elements of a set of numbers with at most L elements up to them, itself included.
First(raw, L) == {j \in raw : Cardinality({l \in raw : l <= j}) <= L}

\* They are its first L elements.
LEMMA FirstElements ==
  ASSUME NEW raw, raw \subseteq Nat, IsFiniteSet(raw), NEW L \in Nat
  PROVE  /\ First(raw, L) \subseteq raw
         /\ \A i \in raw, j \in First(raw, L) : i <= j => i \in First(raw, L)
         /\ \A i \in raw : i \notin First(raw, L) => Cardinality(First(raw, L)) >= L
<1> PICK page : page = First(raw, L)
  OBVIOUS
<1>0. page = {j \in raw : Cardinality({l \in raw : l <= j}) <= L}
  BY DEF First
<1>1. \A j \in raw : /\ IsFiniteSet({l \in raw : l <= j})
                     /\ Cardinality({l \in raw : l <= j}) \in Nat
  <2>1. \A j \in raw : {l \in raw : l <= j} \subseteq raw
    OBVIOUS
  <2>. QED
    BY <2>1, FS_Subset, FS_CardinalityType
<1>2. ASSUME NEW a \in raw, NEW b \in page, a <= b PROVE a \in page
  <2>1. b \in raw /\ Cardinality({l \in raw : l <= b}) <= L
    BY <1>0
  <2>2. PICK U, V : U = {l \in raw : l <= a} /\ V = {l \in raw : l <= b}
    OBVIOUS
  <2>3. U \subseteq V
    <3>1. ASSUME NEW l \in U PROVE l \in V
      <4>1. l \in raw /\ l <= a /\ l \in Nat /\ a \in Nat /\ b \in Nat
        BY <2>1, <2>2
      <4>2. l <= b
        BY <4>1, <1>2
      <4>. QED
        BY <4>1, <4>2, <2>2
    <3>. QED
      BY <3>1
  <2>4. IsFiniteSet(V) /\ Cardinality(U) \in Nat /\ Cardinality(V) \in Nat
    BY <2>1, <2>2, <1>1
  <2>5. Cardinality(U) <= Cardinality(V) /\ Cardinality(V) <= L
    BY <2>1, <2>2, <2>3, <2>4, FS_Subset
  <2>6. Cardinality(U) <= L
    BY <2>4, <2>5
  <2>. QED
    BY <2>2, <2>6, <1>0
<1>3. ASSUME NEW i \in raw, i \notin page PROVE Cardinality(page) >= L
  <2>1. IsFiniteSet(page) /\ Cardinality(page) \in Nat /\ page \subseteq raw
    <3>1. page \subseteq raw
      BY <1>0
    <3>. QED
      BY <3>1, FS_Subset, FS_CardinalityType
  <2>2. PICK m \in raw \ page : \A j \in raw \ page : m <= j
    <3>1. raw \ page \subseteq Nat /\ raw \ page # {}
      BY <1>3
    <3>. QED
      BY <3>1, LeastOfNat
  <2>3. {l \in raw : l <= m} \subseteq page \cup {m}
    <3>1. ASSUME NEW l \in raw, l <= m, l \notin page PROVE l = m
      <4>1. m <= l /\ l \in Nat /\ m \in Nat
        BY <2>2, <3>1
      <4>. QED
        BY <4>1, <3>1
    <3>. QED
      BY <3>1
  <2>4. IsFiniteSet(page \cup {m}) /\ Cardinality(page \cup {m}) = Cardinality(page) + 1
    BY <2>1, <2>2, FS_AddElement
  <2>5. PICK U : U = {l \in raw : l <= m}
    OBVIOUS
  <2>6. Cardinality(U) <= Cardinality(page \cup {m}) /\ Cardinality(U) \in Nat
    BY <2>2, <2>3, <2>4, <2>5, <1>1, FS_Subset
  <2>7. ~(Cardinality(U) <= L)
    BY <2>2, <2>5, <1>0
  <2>. QED
    BY <2>1, <2>4, <2>6, <2>7
<1>. QED
  BY <1>0, <1>2, <1>3

\* A page is the first rows of the topic: nothing is skipped, and a row that did not fit is
\* behind a full page.
LEMMA PageIsPrefix ==
  ASSUME NEW k, NEW q \in Catchup, NEW ceiling \in Nat, NEW i \in RawRows(k, q, ceiling)
  PROVE  /\ i \in Nat
         /\ Page(k, q, ceiling) \subseteq RawRows(k, q, ceiling)
         /\ \A j \in Page(k, q, ceiling) : i <= j => i \in Page(k, q, ceiling)
         /\ i \notin Page(k, q, ceiling) => Cardinality(Page(k, q, ceiling)) >= PageLimit
<1>1. RawRows(k, q, ceiling) \subseteq 1..ceiling
  BY DEF RawRows, Catchup
<1>2. IsFiniteSet(1..ceiling)
  BY FS_Interval
<1>3. IsFiniteSet(RawRows(k, q, ceiling)) /\ RawRows(k, q, ceiling) \subseteq Nat
  BY <1>1, <1>2, FS_Subset
<1>4. Page(k, q, ceiling) = First(RawRows(k, q, ceiling), PageLimit)
  BY DEF Page, First
<1>5. PageLimit \in Nat
  BY BoundsAssumption
<1>. QED
  BY <1>3, <1>4, <1>5, FirstElements

-----------------------------------------------------------------------------
(* How what is owed moves.                                                 *)

\* A missing row is a known row of the topic above its mark.
LEMMA MissingFacts ==
  ASSUME Inv, NEW t \in Topics
  PROVE  /\ hwm[t] \in Nat /\ Kind(t) \in Kinds /\ Latest(Kind(t)) \in Nat
         /\ \A i \in Missing(t) :
              /\ i \in 1..Latest(Kind(t)) /\ i \in Nat /\ hwm[t] < i
              /\ table[Kind(t)][i].topic = t /\ table[Kind(t)][i].known
<1>1. hwm[t] \in Nat /\ Kind(t) \in Kinds /\ Latest(Kind(t)) \in Nat
  BY InvParts, KindType, LatestType DEF TypeSent
<1>. QED
  BY <1>1 DEF Missing, Deliverable

\* With the same rows, cursor, mark and answers nothing else is owed.
LEMMA SameData ==
  ASSUME UNCHANGED table, NEW t, hwm'[t] = hwm[t]
  PROVE  /\ Missing(t)' = Missing(t) /\ Latest(Kind(t))' = Latest(Kind(t))
         /\ (got'[t] = got[t] /\ start'[t] = start[t] /\ ExactFor(t)) => ExactFor(t)'
<1>1. Latest(Kind(t))' = Latest(Kind(t))
  BY DEF Latest
<1>2. Missing(t)' = Missing(t)
  BY <1>1 DEF Missing, Deliverable
<1>3. ASSUME got'[t] = got[t], start'[t] = start[t], ExactFor(t) PROVE ExactFor(t)'
  <2>1. Deliverable(t, start[t], hwm[t])' = Deliverable(t, start[t], hwm[t])
    BY <1>1, <1>3 DEF Deliverable
  <2>. QED
    BY <2>1, <1>1, <1>3 DEF ExactFor
<1>. QED
  BY <1>1, <1>2, <1>3

\* Outside a wave no catch-up brings anything.
LEMMA OutsideWave ==
  ASSUME TypeFetch, TypeWaves, NEW t, topicWave[t] = NoWave
  PROVE  /\ \A i : ~Fetching(t, i)
         /\ BatchesContiguous(t) /\ ScansContiguous(t)
<1>1. \A s \in scans : s.wave # NoWave
  BY DEF TypeFetch, Scan, NoWave
<1>2. \A n \in 1..Len(catchUpCh) : catchUpCh[n].wave # NoWave
  <2>1. \A n \in 1..Len(catchUpCh) : catchUpCh[n] \in CatchUpBatch
    BY DEF TypeFetch
  <2>. QED
    BY <2>1 DEF CatchUpBatch, NoWave
<1>3. NoWave \notin DOMAIN waves
  BY DEF TypeWaves, NoWave
<1>4. \A i : ~Fetching(t, i)
  BY <1>1, <1>2, <1>3 DEF Fetching, Replayed, InBatch, Scannable, Abandoned
<1>. QED
  BY <1>1, <1>2, <1>4 DEF BatchesContiguous, ScansContiguous

\* The same, after a step.
LEMMA OutsideWaveNext ==
  ASSUME TypeFetch', TypeWaves', NEW t, topicWave'[t] = NoWave
  PROVE  /\ \A i : ~Fetching(t, i)'
         /\ BatchesContiguous(t)' /\ ScansContiguous(t)'
<1>1. \A s \in scans' : s.wave # NoWave
  BY DEF TypeFetch, Scan, NoWave
<1>2. \A n \in 1..Len(catchUpCh)' : catchUpCh'[n].wave # NoWave
  <2>1. \A n \in 1..Len(catchUpCh)' : catchUpCh'[n] \in CatchUpBatch
    BY DEF TypeFetch
  <2>. QED
    BY <2>1 DEF CatchUpBatch, NoWave
<1>3. NoWave \notin DOMAIN waves'
  BY DEF TypeWaves, NoWave
<1>4. \A i : ~Fetching(t, i)'
  BY <1>1, <1>2, <1>3 DEF Fetching, Replayed, InBatch, Scannable, Abandoned
<1>. QED
  BY <1>1, <1>2, <1>4 DEF BatchesContiguous, ScansContiguous

\* A missing row stays covered when the lane gets no further and nothing that holds the row
\* lets go of it.
LEMMA CoverCarries ==
  ASSUME NEW t, Owed(t), UNCHANGED <<table, due>>, Missing(t)' \subseteq Missing(t),
         \A i \in Missing(t)' : Reached(t, i)' => Reached(t, i),
         \A i \in Missing(t)' : InChannel(t, i) \/ Held(t, i) => InChannel(t, i)' \/ Held(t, i)',
         \A i \in Missing(t)' : Fetching(t, i) => Fetching(t, i)'
  PROVE  LiveCovered(t)' /\ DueCovered(t)'
<1>1. LiveCovered(t)'
  BY DEF Owed, LiveCovered
<1>2. Latest(Kind(t))' = Latest(Kind(t))
  BY DEF Latest
<1>3. DueCovered(t)'
  BY <1>2 DEF Owed, DueCovered
<1>. QED
  BY <1>1, <1>3

\* Nothing of the catch-up moves.
LEMMA FetchStill ==
  ASSUME NEW t, UNCHANGED <<table, hwm, topicWave, scans, catchUpCh, waves>>,
         BatchesContiguous(t), ScansContiguous(t)
  PROVE  /\ BatchesContiguous(t)' /\ ScansContiguous(t)'
         /\ \A i : Fetching(t, i) => Fetching(t, i)'
<1>1. Missing(t)' = Missing(t) /\ Latest(Kind(t))' = Latest(Kind(t))
  BY SameData
<1>2. \A i : (Replayed(t, i)' <=> Replayed(t, i)) /\ \A n : InBatch(t, i, n)' <=> InBatch(t, i, n)
  BY DEF Replayed, InBatch
<1>3. \A i : Scannable(t, i)' <=> Scannable(t, i)
  BY DEF Scannable
<1>4. \A w : Abandoned(w) => Abandoned(w)'
  BY DEF Abandoned, Running, ScansOf, DonesOf
<1>5. \A i : Fetching(t, i) => Fetching(t, i)'
  BY <1>2, <1>3, <1>4 DEF Fetching
<1>6. BatchesContiguous(t)'
  BY <1>1, <1>2 DEF BatchesContiguous
<1>7. ScansContiguous(t)'
  BY <1>1, <1>2 DEF ScansContiguous
<1>. QED
  BY <1>5, <1>6, <1>7

\* Neither lane moves: at most the stream ends or a topic is registered.
LEMMA OwedStill ==
  ASSUME NEW t, Owed(t),
         UNCHANGED <<table, hwm, got, start, due, topicWave, scans, catchUpCh, waves, polled,
                     messagesCh, pending>>,
         registered' => registered
  PROVE  Owed(t)'
<1>1. Missing(t)' = Missing(t) /\ ExactFor(t)'
  BY SameData DEF Owed
<1>2. /\ BatchesContiguous(t)' /\ ScansContiguous(t)'
      /\ \A i : Fetching(t, i) => Fetching(t, i)'
  BY FetchStill DEF Owed
<1>3. \A i : Reached(t, i)' => Reached(t, i)
  BY DEF Reached
<1>4. \A i : InChannel(t, i) \/ Held(t, i) => InChannel(t, i)' \/ Held(t, i)'
  BY DEF InChannel, Held
<1>5. LiveCovered(t)' /\ DueCovered(t)'
  BY <1>1, <1>2, <1>3, <1>4, CoverCarries
<1>. QED
  BY <1>1, <1>2, <1>5 DEF Owed

\* HoldEnvelope: the envelope moves from the channel to the buffer.
LEMMA HoldOwed == ASSUME Inv, NEW t \in Topics, Owed(t), HoldEnvelope PROVE Owed(t)'
<1>1. /\ UNCHANGED <<table, hwm, got, start, due, topicWave, scans, catchUpCh, waves, polled>>
      /\ registered' => registered
      /\ messagesCh # <<>> /\ messagesCh' = Tail(messagesCh)
      /\ pending' = pending \cup {Head(messagesCh)}
  BY DEF HoldEnvelope, Return, logVars, sentVars, waveVars, fetchVars, followVars
<1>2. Missing(t)' = Missing(t) /\ ExactFor(t)'
  BY <1>1, SameData DEF Owed
<1>3. /\ BatchesContiguous(t)' /\ ScansContiguous(t)'
      /\ \A i : Fetching(t, i) => Fetching(t, i)'
  BY <1>1, FetchStill DEF Owed
<1>4. TypeDispatcher
  BY InvParts
<1>5. /\ Head(messagesCh) = messagesCh[1] /\ 1 \in 1..Len(messagesCh)
      /\ \A n \in 1..Len(messagesCh)' :
           n + 1 \in 1..Len(messagesCh) /\ messagesCh'[n] = messagesCh[n + 1]
      /\ \A n \in 1..Len(messagesCh) :
           n # 1 => n - 1 \in 1..Len(messagesCh)' /\ messagesCh'[n - 1] = messagesCh[n]
  BY <1>1, <1>4 DEF TypeDispatcher
<1>6. \A i : Reached(t, i)' => Reached(t, i)
  BY <1>1, <1>5 DEF Reached
<1>7. \A i : InChannel(t, i) \/ Held(t, i) => InChannel(t, i)' \/ Held(t, i)'
  BY <1>1, <1>5 DEF InChannel, Held
<1>8. LiveCovered(t)' /\ DueCovered(t)'
  BY <1>1, <1>2, <1>3, <1>6, <1>7, CoverCarries
<1>. QED
  BY <1>2, <1>3, <1>8 DEF Owed

\* Publish: the new row is newer than everything the stream has seen.
LEMMA PublishOwed ==
  ASSUME Inv, NEW t \in Topics, Owed(t), NEW u \in Topics, NEW known \in BOOLEAN,
         Publish(u, known)
  PROVE  Owed(t)'
<1> PICK r : r = [topic |-> u, known |-> known]
  OBVIOUS
<1>1. /\ UNCHANGED <<hwm, got, start, due, topicWave, scans, catchUpCh, waves, polled,
                     messagesCh, registered, pending>>
      /\ r \in Row /\ table' = [table EXCEPT ![Kind(u)] = Append(@, r)]
  BY DEF Publish, Row, dispatcherVars, sentVars, gateVars, waveVars, fetchVars, followVars
<1>2. TypeLog /\ TypeSent /\ RealPolled /\ RealChannel /\ RealPending /\ RealBatches
      /\ TypeFollow /\ TypeGate /\ TypeDispatcher /\ TypeFetch
  BY InvParts
<1> PICK k, N : k = Kind(t) /\ N = Latest(k)
  OBVIOUS
<1>3. /\ k \in Kinds /\ N \in Nat /\ Latest(k)' \in Nat /\ N <= Latest(k)'
      /\ \A i \in 1..N : table'[k][i] = table[k][i]
  BY <1>1, <1>2, KindType, RowsStay
<1>4. hwm[t] \in Nat /\ start[t] \in Nat /\ due[t] \in Nat /\ polled[k] \in Nat
  BY <1>2, <1>3 DEF TypeSent, TypeFollow, TypeLog, Owed, ExactFor
<1>5. ASSUME NEW i \in Missing(t)'
      PROVE  i \in Nat /\ (i <= N => i \in Missing(t)) /\ hwm[t] < i
  <2>1. /\ i \in 1..Latest(k)' /\ table'[k][i].topic = t /\ table'[k][i].known
        /\ hwm[t] < i
    BY <1>1, <1>5 DEF Missing, Deliverable
  <2>2. i <= N => i \in 1..N
    BY <2>1, <1>3
  <2>. QED
    BY <2>1, <2>2, <1>3 DEF Missing, Deliverable
<1>6. ExactFor(t)'
  <2>1. Deliverable(t, start[t], hwm[t])' = Deliverable(t, start[t], hwm[t])
    <3>1. hwm[t] = start[t] \/ hwm[t] <= N
      BY DEF Owed, ExactFor
    <3>2. ASSUME NEW i
          PROVE  i \in 1..Latest(k)' /\ start[t] < i /\ i <= hwm[t]
                   <=> i \in 1..N /\ start[t] < i /\ i <= hwm[t]
      BY <3>1, <1>3, <1>4
    <3>3. ASSUME NEW i
          PROVE  i \in Deliverable(t, start[t], hwm[t])'
                   <=> i \in Deliverable(t, start[t], hwm[t])
      BY <3>2, <1>1, <1>3 DEF Deliverable
    <3>. QED
      BY <3>3
  <2>. QED
    BY <2>1, <1>1, <1>3, <1>4 DEF Owed, ExactFor
<1>7. \A i : /\ Replayed(t, i)' <=> Replayed(t, i)
             /\ \A n : InBatch(t, i, n)' <=> InBatch(t, i, n)
             /\ Fetching(t, i)' <=> Fetching(t, i)
             /\ InChannel(t, i)' <=> InChannel(t, i)
             /\ Held(t, i)' <=> Held(t, i)
             /\ Reached(t, i)' <=> Reached(t, i)
  BY <1>1 DEF Replayed, InBatch, Fetching, Scannable, Abandoned, Running, ScansOf, DonesOf,
              InChannel, Held, Reached
<1>8. BatchesContiguous(t)'
  <2>1. ASSUME NEW n \in 1..Len(catchUpCh), NEW e \in catchUpCh[n].msgs, e.topic = t
        PROVE  e.id <= N /\ e.id \in Nat
    BY <2>1, <1>2, <1>3 DEF RealBatches, Real
  <2>. QED
    BY <2>1, <1>1, <1>3, <1>5, <1>7 DEF Owed, BatchesContiguous
<1>9. ScansContiguous(t)'
  <2>1. ASSUME NEW s \in scans, NEW q \in s.queue, q.topic = t, s.wave = topicWave[t]
        PROVE  /\ q.cursor <= hwm[t] \/ q.cursor <= Latest(k)'
               /\ \A i \in Missing(t)' : i <= q.cursor => Replayed(t, i)
    <3>1. q.cursor \in Nat
      BY <1>2 DEF TypeFetch, Scan, Catchup
    <3>2. /\ q.cursor <= hwm[t] \/ q.cursor <= N
          /\ \A i \in Missing(t) : i <= q.cursor => Replayed(t, i)
      BY <2>1 DEF Owed, ScansContiguous
    <3>. QED
      BY <3>1, <3>2, <1>3, <1>4, <1>5
  <2>. QED
    BY <2>1, <1>1, <1>7 DEF ScansContiguous
<1>10. LiveCovered(t)'
  <2>1. ASSUME NEW i \in Missing(t)', Reached(t, i) PROVE i <= N
    <3>1. CASE registered /\ i <= polled[k]
      BY <3>1, <1>2, <1>3, <1>4, <1>5 DEF RealPolled
    <3>2. ASSUME NEW n \in 1..Len(messagesCh), messagesCh[n].topic = t, i <= messagesCh[n].id
          PROVE  i <= N
      <4>1. messagesCh[n].id \in 1..N
        BY <3>2, <1>2 DEF RealChannel, Real
      <4>. QED
        BY <4>1, <3>2, <1>3, <1>5
    <3>3. ASSUME NEW e \in pending, e.topic = t, i <= e.id PROVE i <= N
      <4>1. e.id \in 1..N
        BY <3>3, <1>2 DEF RealPending, Real
      <4>. QED
        BY <4>1, <3>3, <1>3, <1>5
    <3>. QED
      BY <3>1, <3>2, <3>3, <2>1 DEF Reached
  <2>. QED
    BY <2>1, <1>5, <1>7 DEF Owed, LiveCovered
<1>11. DueCovered(t)'
  BY <1>1, <1>3, <1>4, <1>5, <1>7 DEF Owed, DueCovered
<1>. QED
  BY <1>6, <1>8, <1>9, <1>10, <1>11 DEF Owed

\* Poll: a row of a registered topic goes into the channel; a topic still being registered
\* has a scan that has not read its ceiling.
LEMMA PollOwed ==
  ASSUME Inv, Registering, NEW t \in subscribed, t \in Topics, Owed(t), NEW k \in Kinds, Poll(k)
  PROVE  Owed(t)'
<1>1. /\ UNCHANGED <<table, hwm, got, start, due, topicWave, scans, catchUpCh, waves, pending>>
      /\ polled' = [polled EXCEPT ![k] = @ + 1]
  BY DEF Poll, sentVars, gateVars, waveVars, fetchVars, followVars
<1>2. Missing(t)' = Missing(t) /\ ExactFor(t)'
  BY <1>1, SameData DEF Owed
<1>3. /\ BatchesContiguous(t)' /\ ScansContiguous(t)'
      /\ \A i : Fetching(t, i) => Fetching(t, i)'
  BY <1>1, FetchStill DEF Owed
<1>4. TypeDispatcher /\ TypeLog /\ polled[k] \in Nat
  BY InvParts DEF TypeLog
<1> PICK p, e : p = polled[k] + 1 /\ e = [topic |-> table[k][p].topic, id |-> p]
  OBVIOUS
<1>5. /\ registered' => registered
      /\ \/ UNCHANGED messagesCh
         \/ messagesCh' = Append(messagesCh, e) /\ registered /\ table[k][p].known
      /\ table[k][p].known /\ table[k][p].topic \in subTopics /\ registered'
           => messagesCh' = Append(messagesCh, e)
  BY DEF Poll, HandleEnvelope, dispatcherVars
<1>6. /\ messagesCh' = Append(messagesCh, e) =>
           /\ Len(messagesCh) + 1 \in 1..Len(messagesCh)' /\ messagesCh'[Len(messagesCh) + 1] = e
           /\ \A n \in 1..Len(messagesCh)' : n \in 1..Len(messagesCh) \/ messagesCh'[n] = e
      /\ \A n \in 1..Len(messagesCh) :
           n \in 1..Len(messagesCh)' /\ messagesCh'[n] = messagesCh[n]
  BY <1>4, <1>5 DEF TypeDispatcher
<1>7. \A i : InChannel(t, i) => InChannel(t, i)'
  BY <1>6 DEF InChannel
<1>8. \A i : Held(t, i) => Held(t, i)'
  BY <1>1 DEF Held
<1>9. ASSUME NEW i \in Missing(t), Reached(t, i)', ~Reached(t, i)
      PROVE  Kind(t) = k /\ i = p /\ registered
  <2>1. i \in Nat /\ Kind(t) \in Kinds
    BY <1>9, MissingFacts
  <2>2. CASE registered' /\ i <= polled'[Kind(t)]
    <3>1. registered /\ ~(i <= polled[Kind(t)])
      BY <2>2, <1>5, <1>9 DEF Reached
    <3>. QED
      BY <2>1, <2>2, <3>1, <1>1, <1>4 DEF TypeLog
  <2>3. ASSUME NEW n \in 1..Len(messagesCh)', messagesCh'[n].topic = t, i <= messagesCh'[n].id
        PROVE  Kind(t) = k /\ i = p /\ registered
    <3>1. messagesCh' = Append(messagesCh, e) /\ messagesCh'[n] = e
      BY <2>3, <1>5, <1>6, <1>9 DEF Reached
    <3>2. e.topic = t /\ i <= p /\ registered /\ table[k][p].topic = t
      BY <2>3, <3>1, <1>4, <1>5 DEF TypeDispatcher
    <3>3. Kind(t) = k
      BY <3>2, <1>4, InvParts DEF RealTables, Poll, Latest, TypeLog
    <3>4. ~(i <= polled[k])
      BY <3>2, <3>3, <1>9 DEF Reached
    <3>. QED
      BY <3>2, <3>3, <3>4, <2>1, <1>4
  <2>4. ASSUME NEW x \in pending', x.topic = t, i <= x.id PROVE FALSE
    BY <2>4, <1>1, <1>9 DEF Reached
  <2>. QED
    BY <2>2, <2>3, <2>4, <1>9 DEF Reached
<1>10. ASSUME NEW i \in Missing(t), Kind(t) = k, i = p, Reached(t, i)', ~Reached(t, i)
       PROVE  InChannel(t, i)' \/ Fetching(t, i)'
  <2>1. hwm[t] \in Nat /\ i \in Nat /\ hwm[t] < i /\ table[k][p].topic = t /\ table[k][p].known
    BY <1>10, MissingFacts
  <2>2. CASE messagesCh' = Append(messagesCh, e)
    BY <2>1, <2>2, <1>6, <1>10 DEF InChannel
  <2>3. CASE t \in adding
    <3>1. PICK s \in scans : \E q \in s.queue :
            s.wave = topicWave[t] /\ s.pc = "probe" /\ q.topic = t /\ q.cursor <= hwm[t]
      BY <2>3 DEF Registering
    <3>2. PICK q \in s.queue :
            s.wave = topicWave[t] /\ s.pc = "probe" /\ q.topic = t /\ q.cursor <= hwm[t]
      BY <3>1
    <3>3. q.cursor \in Nat
      BY InvParts DEF TypeFetch, Scan, Catchup
    <3>4. q.cursor < i
      BY <3>2, <3>3, <2>1
    <3>5. Scannable(t, i)
      BY <3>2, <3>4 DEF Scannable
    <3>. QED
      BY <3>5, <1>3 DEF Fetching
  <2>4. CASE t \notin adding /\ messagesCh' # Append(messagesCh, e)
    <3>1. t \in subTopics
      BY <2>4 DEF Registering
    <3>2. ~registered' /\ UNCHANGED messagesCh
      BY <3>1, <2>1, <2>4, <1>5
    <3>. QED
      BY <3>2, <1>1, <1>10 DEF Reached
  <2>. QED
    BY <2>2, <2>3, <2>4
<1>11. LiveCovered(t)'
  BY <1>2, <1>3, <1>7, <1>8, <1>9, <1>10 DEF Owed, LiveCovered
<1>12. DueCovered(t)'
  <2>1. Latest(Kind(t))' = Latest(Kind(t))
    BY <1>1 DEF Latest
  <2>. QED
    BY <2>1, <1>1, <1>2, <1>3 DEF Owed, DueCovered
<1>. QED
  BY <1>2, <1>3, <1>11, <1>12 DEF Owed

\* SendLive: the head is the only row of its topic that is missing up to its id.
LEMMA SendLiveOwed ==
  ASSUME Inv, LaneInv, GateInv, NEW t \in subscribed, t \in Topics, Owed(t), SendLive
  PROVE  Owed(t)'
<1>1. /\ UNCHANGED <<table, start, due, topicWave, scans, catchUpCh, waves, pending, polled,
                     registered>>
      /\ messagesCh # <<>> /\ messagesCh' = Tail(messagesCh)
      /\ SendMessages(hwm, {Head(messagesCh)}, TRUE) /\ Head(messagesCh).topic \notin catchingUp
  BY DEF SendLive, Gated, logVars, gateVars, waveVars, fetchVars, followVars
<1>2. TypeDispatcher /\ TypeFetch /\ TypeWaves /\ TypeSent /\ RealChannel /\ ChannelOrder
      /\ GatedInWave /\ HeldIfGated
  BY InvParts DEF LaneInv, GateInv
<1>3. /\ Head(messagesCh) = messagesCh[1] /\ 1 \in 1..Len(messagesCh)
      /\ \A n \in 1..Len(messagesCh)' :
           n + 1 \in 1..Len(messagesCh) /\ messagesCh'[n] = messagesCh[n + 1]
      /\ \A n \in 1..Len(messagesCh) :
           n # 1 => n - 1 \in 1..Len(messagesCh)' /\ messagesCh'[n - 1] = messagesCh[n]
  BY <1>1, <1>2 DEF TypeDispatcher
<1>4. PICK x \in Envelope : x = Head(messagesCh) /\ Real(x)
  BY <1>1, <1>2, <1>3, ChannelTail DEF RealChannel
<1>5. {x} \in SUBSET Envelope /\ (\A e \in {x} : Real(e)) /\ hwm \in [Topics -> Nat]
      /\ SendMessages(hwm, {x}, TRUE)
  BY <1>1, <1>2, <1>4 DEF TypeSent
<1>6. \A e \in {x} : e.topic = t =>
        \A i \in Missing(t) : i <= e.id => [topic |-> t, id |-> i] \in {x}
  <2>1. SUFFICES ASSUME x.topic = t, NEW i \in Missing(t), i <= x.id
                 PROVE  [topic |-> t, id |-> i] = x
    OBVIOUS
  <2>2. topicWave[t] = NoWave /\ t \notin catchingUp
    BY <2>1, <1>1, <1>2, <1>4 DEF GatedInWave
  <2>3. ~Held(t, i) /\ ~Fetching(t, i)
    <3>1. ~Fetching(t, i)
      BY <2>2, <1>2, OutsideWave
    <3>2. ASSUME Held(t, i) PROVE FALSE
      <4>1. PICK e \in pending : e = [topic |-> t, id |-> i]
        BY <3>2 DEF Held
      <4>. QED
        BY <4>1, <2>2, <1>2 DEF HeldIfGated
    <3>. QED
      BY <3>1, <3>2
  <2>4. Reached(t, i)
    BY <2>1, <1>3, <1>4 DEF Reached
  <2>5. PICK n \in 1..Len(messagesCh) : messagesCh[n] = [topic |-> t, id |-> i]
    BY <2>3, <2>4 DEF Owed, LiveCovered, InChannel
  <2>6. CASE n = 1
    BY <2>5, <2>6, <1>3, <1>4
  <2>7. CASE n # 1
    <3>1. messagesCh[n].topic = t /\ messagesCh[n].id = i
      BY <2>5
    <3>2. x.id < i
      BY <2>1, <2>7, <3>1, <1>2, <1>3, <1>4 DEF ChannelOrder
    <3>3. i \in Nat /\ x.id \in Nat
      BY <1>4, MissingFacts DEF Envelope
    <3>. QED
      BY <3>2, <3>3, <2>1
  <2>. QED
    BY <2>6, <2>7
<1>7. /\ ExactFor(t)' /\ hwm[t] \in Nat /\ hwm'[t] \in Nat /\ hwm[t] <= hwm'[t]
      /\ Missing(t)' \subseteq Missing(t)
      /\ \A i \in Missing(t)' : [topic |-> t, id |-> i] \notin {x}
  <2>1. Followed(t) /\ ExactFor(t)
    BY DEF Followed, Owed
  <2>. QED
    BY <2>1, <1>1, <1>5, <1>6, SendExact
<1>8. \A i : Fetching(t, i)' <=> Fetching(t, i)
  BY <1>1 DEF Fetching, Replayed, InBatch, Scannable, Abandoned, Running, ScansOf, DonesOf
<1>9. BatchesContiguous(t)' /\ ScansContiguous(t)'
  <2>1. CASE topicWave[t] = NoWave
    <3>1. TypeFetch' /\ TypeWaves'
      BY <1>1, <1>2, TypeFrames DEF SendLive
    <3>. QED
      BY <2>1, <3>1, <1>1, OutsideWaveNext
  <2>2. CASE topicWave[t] # NoWave
    <3>1. t \in catchingUp
      BY <2>2, <1>2 DEF GatedInWave
    <3>2. x.topic # t
      BY <3>1, <1>1, <1>4
    <3>3. NewIds(hwm, {x}, t) = {}
      <4>1. \A i : [topic |-> t, id |-> i] # x
        BY <3>2
      <4>. QED
        BY <4>1 DEF NewIds
    <3>4. hwm'[t] = hwm[t]
      BY <3>3, <1>5, InvParts, SendEffect
    <3>5. Missing(t)' = Missing(t) /\ Latest(Kind(t))' = Latest(Kind(t))
      BY <3>4, <1>1, SameData
    <3>6. \A i : /\ Replayed(t, i)' <=> Replayed(t, i)
                 /\ \A n : InBatch(t, i, n)' <=> InBatch(t, i, n)
      BY <1>1 DEF Replayed, InBatch
    <3>7. BatchesContiguous(t)'
      BY <3>5, <3>6, <1>1 DEF Owed, BatchesContiguous
    <3>8. ScansContiguous(t)'
      BY <3>4, <3>5, <3>6, <1>1 DEF Owed, ScansContiguous
    <3>. QED
      BY <3>7, <3>8
  <2>. QED
    BY <2>1, <2>2
<1>10. \A i : Reached(t, i)' => Reached(t, i)
  BY <1>1, <1>3 DEF Reached
<1>11. \A i \in Missing(t)' : InChannel(t, i) \/ Held(t, i) => InChannel(t, i)' \/ Held(t, i)'
  <2>1. ASSUME NEW i \in Missing(t)', InChannel(t, i) PROVE InChannel(t, i)'
    <3>1. PICK n \in 1..Len(messagesCh) : messagesCh[n] = [topic |-> t, id |-> i]
      BY <2>1 DEF InChannel
    <3>2. n # 1
      BY <3>1, <1>3, <1>4, <1>7
    <3>. QED
      BY <3>1, <3>2, <1>3 DEF InChannel
  <2>. QED
    BY <2>1, <1>1 DEF Held
<1>12. LiveCovered(t)' /\ DueCovered(t)'
  BY <1>1, <1>7, <1>8, <1>10, <1>11, CoverCarries
<1>. QED
  BY <1>7, <1>9, <1>12 DEF Owed

\* A fetcher moves: scan s gives way to the scans of R of its wave and at most one batch is
\* appended.  What the scan would have brought is in the batch or still ahead of R, and
\* neither the batch nor a cursor of R leaves a gap.
LEMMA FetchOwed ==
  ASSUME Inv, NEW t \in Topics, Owed(t), NEW s \in scans, NEW R,
         scans' = (scans \ {s}) \cup R, \A r \in R : r.wave = s.wave,
         UNCHANGED <<table, hwm, got, start, due, topicWave, polled, messagesCh, pending,
                     registered>>,
         \/ UNCHANGED catchUpCh
         \/ \E b : /\ catchUpCh' = Append(catchUpCh, b)
                   /\ \A e \in b.msgs : e.topic = t /\ b.wave = topicWave[t] =>
                        \A i \in Missing(t) : i <= e.id => Replayed(t, i)',
         \A w : Abandoned(w) => Abandoned(w)',
         s.wave = topicWave[t] => \A q \in s.queue : \A i \in Missing(t) :
           /\ q.topic = t /\ q.cursor < i
           /\ s.pc = "probe" \/ i <= s.ceiling
           => Fetching(t, i)',
         s.wave = topicWave[t] => \A r \in R : \A q \in r.queue : q.topic = t =>
           /\ q.cursor <= hwm[t] \/ q.cursor <= Latest(Kind(t))
           /\ \A i \in Missing(t) : i <= q.cursor => Replayed(t, i)'
  PROVE  Owed(t)'
<1>1. Missing(t)' = Missing(t) /\ ExactFor(t)' /\ Latest(Kind(t))' = Latest(Kind(t))
  BY SameData DEF Owed
<1>2. TypeFetch /\ Len(catchUpCh) \in Nat
  BY InvParts DEF TypeFetch
<1>3. /\ \A n \in 1..Len(catchUpCh) :
           n \in 1..Len(catchUpCh)' /\ catchUpCh'[n] = catchUpCh[n]
      /\ \A n \in 1..Len(catchUpCh)' : n \in Nat
      /\ \A n \in 1..Len(catchUpCh)' : n \in 1..Len(catchUpCh) \/
           /\ \A m \in 1..Len(catchUpCh)' : m \in 1..n
           /\ \A e \in catchUpCh'[n].msgs : e.topic = t /\ catchUpCh'[n].wave = topicWave[t] =>
                \A i \in Missing(t) : i <= e.id => Replayed(t, i)'
  <2>1. CASE UNCHANGED catchUpCh
    BY <2>1, <1>2
  <2>2. CASE ~UNCHANGED catchUpCh
    <3>1. PICK b : /\ catchUpCh' = Append(catchUpCh, b)
                   /\ \A e \in b.msgs : e.topic = t /\ b.wave = topicWave[t] =>
                        \A i \in Missing(t) : i <= e.id => Replayed(t, i)'
      BY <2>2
    <3>2. /\ Len(catchUpCh)' = Len(catchUpCh) + 1
          /\ \A n \in 1..Len(catchUpCh) :
               n \in 1..Len(catchUpCh)' /\ catchUpCh'[n] = catchUpCh[n]
          /\ catchUpCh'[Len(catchUpCh) + 1] = b
          /\ \A n \in 1..Len(catchUpCh)' : n \in 1..Len(catchUpCh) \/ n = Len(catchUpCh) + 1
      BY <3>1, <1>2, BatchAppended
    <3>. QED
      BY <3>1, <3>2, <1>2
  <2>. QED
    BY <2>1, <2>2
<1>4. \A i : \A n \in 1..Len(catchUpCh) : InBatch(t, i, n) => InBatch(t, i, n)'
  BY <1>3 DEF InBatch
<1>5. \A i : Replayed(t, i) => Replayed(t, i)'
  BY <1>3, <1>4 DEF Replayed
<1>6. ASSUME NEW i \in Missing(t), Fetching(t, i) PROVE Fetching(t, i)'
  <2>1. CASE Replayed(t, i) \/ Abandoned(topicWave[t])
    BY <2>1, <1>5 DEF Fetching
  <2>2. CASE Scannable(t, i)
    <3>1. PICK r \in scans : \E q \in r.queue :
            /\ r.wave = topicWave[t] /\ q.topic = t /\ q.cursor < i
            /\ r.pc = "probe" \/ i <= r.ceiling
      BY <2>2 DEF Scannable
    <3>2. CASE r = s
      BY <3>1, <3>2
    <3>3. CASE r # s
      <4>1. r \in scans'
        BY <3>3
      <4>2. Scannable(t, i)'
        BY <3>1, <4>1 DEF Scannable
      <4>. QED
        BY <4>2 DEF Fetching
    <3>. QED
      BY <3>2, <3>3
  <2>. QED
    BY <2>1, <2>2, <1>6 DEF Fetching
<1>7. BatchesContiguous(t)'
  <2>1. ASSUME NEW n \in 1..Len(catchUpCh)', NEW e \in catchUpCh'[n].msgs, e.topic = t,
               catchUpCh'[n].wave = topicWave[t], NEW i \in Missing(t), i <= e.id
        PROVE  \E m \in 1..n : InBatch(t, i, m)'
    <3>1. CASE n \in 1..Len(catchUpCh)
      <4>1. PICK m \in 1..n : InBatch(t, i, m)
        BY <2>1, <3>1, <1>3 DEF Owed, BatchesContiguous
      <4>2. m \in 1..Len(catchUpCh)
        BY <3>1, <1>2
      <4>. QED
        BY <4>1, <4>2, <1>4
    <3>2. CASE n \notin 1..Len(catchUpCh)
      BY <2>1, <3>2, <1>3 DEF Replayed
    <3>. QED
      BY <3>1, <3>2
  <2>. QED
    BY <2>1, <1>1 DEF BatchesContiguous
<1>8. ScansContiguous(t)'
  <2>1. ASSUME NEW r \in scans', NEW q \in r.queue, q.topic = t, r.wave = topicWave[t]
        PROVE  /\ q.cursor <= hwm[t] \/ q.cursor <= Latest(Kind(t))
               /\ \A i \in Missing(t) : i <= q.cursor => Replayed(t, i)'
    <3>1. CASE r \in scans
      BY <2>1, <3>1, <1>5 DEF Owed, ScansContiguous
    <3>2. CASE r \in R
      BY <2>1, <3>2
    <3>. QED
      BY <3>1, <3>2
  <2>. QED
    BY <2>1, <1>1 DEF ScansContiguous
<1>9. \A i : Reached(t, i)' => Reached(t, i)
  BY DEF Reached
<1>10. \A i : InChannel(t, i) \/ Held(t, i) => InChannel(t, i)' \/ Held(t, i)'
  BY DEF InChannel, Held
<1>11. LiveCovered(t)' /\ DueCovered(t)'
  BY <1>1, <1>6, <1>9, <1>10, CoverCarries
<1>. QED
  BY <1>1, <1>7, <1>8, <1>11 DEF Owed

\* The types and the gap-freeness of the queue entries of a scan.
LEMMA QueueFacts ==
  ASSUME Inv, NEW t \in Topics, Owed(t), NEW s \in scans, s.wave = topicWave[t],
         NEW q \in s.queue
  PROVE  /\ s.kind \in Kinds /\ s.ceiling \in Nat /\ s.ceiling <= Latest(s.kind)
         /\ q \in Catchup /\ q.cursor \in Nat
         /\ q.topic = t => /\ s.kind = Kind(t)
                           /\ q.cursor <= hwm[t] \/ q.cursor <= Latest(Kind(t))
                           /\ \A i \in Missing(t) : i <= q.cursor => Replayed(t, i)
<1>1. TypeFetch /\ RealScans
  BY InvParts
<1>2. s \in Scan
  BY <1>1 DEF TypeFetch
<1>3. /\ s.kind \in Kinds /\ s.ceiling \in Nat /\ s.ceiling <= Latest(s.kind)
      /\ q \in Catchup /\ q.cursor \in Nat /\ Kind(q.topic) = s.kind
  BY <1>1, <1>2 DEF Scan, RealScans, Catchup
<1>. QED
  BY <1>3 DEF Owed, ScansContiguous

\* ScanProbe and AcquireScanSlot keep every queue entry with rows below the ceiling.
LEMMA ProbeOwed ==
  ASSUME Inv, BookInv, NEW t \in Topics, Owed(t), NEW s \in scans,
         ScanProbe(s) \/ AcquireScanSlot(s)
  PROVE  Owed(t)'
<1>1. UNCHANGED <<table, hwm, got, start, due, topicWave, polled, messagesCh, pending,
                  registered, catchUpCh>>
  BY DEF ScanProbe, AcquireScanSlot, logVars, dispatcherVars, sentVars, gateVars, waveVars,
         followVars
<1>2. \A w : Abandoned(w) => Abandoned(w)'
  BY ScanMoveBooks
<1>3. PICK r : /\ r.wave = s.wave /\ scans' = (scans \ {s}) \cup {r}
               /\ r.queue \subseteq s.queue
               /\ \A q \in s.queue : q.cursor < Latest(s.kind) \/ s.pc # "probe" => q \in r.queue
               /\ s.pc = "probe" => r.ceiling = Latest(s.kind)
               /\ s.pc # "probe" => s.ceiling <= r.ceiling /\ r.ceiling \in Nat
  <2>1. CASE ScanProbe(s)
    BY <2>1, ProbeMove DEF ScanProbe, Unpruned
  <2>2. CASE AcquireScanSlot(s)
    <3>1. s.pc # "probe"
      BY <2>2 DEF AcquireScanSlot
    <3>. QED
      BY <2>2, <3>1, AcquireMove DEF Scan
  <2>. QED
    BY <2>1, <2>2
<1>4. \A i : Replayed(t, i)' <=> Replayed(t, i)
  BY <1>1 DEF Replayed, InBatch
<1>5. ASSUME s.wave = topicWave[t], NEW q \in s.queue, NEW i \in Missing(t), q.topic = t,
             q.cursor < i, s.pc = "probe" \/ i <= s.ceiling
      PROVE  Fetching(t, i)'
  <2>1. /\ s.kind = Kind(t) /\ s.ceiling \in Nat /\ q.cursor \in Nat
        /\ i \in Nat /\ i <= Latest(s.kind) /\ Latest(s.kind) \in Nat
    BY <1>5, QueueFacts, MissingFacts
  <2>2. q \in r.queue
    BY <2>1, <1>3, <1>5
  <2>3. i <= r.ceiling
    BY <2>1, <1>3, <1>5
  <2>4. r \in scans'
    BY <1>3
  <2>5. Scannable(t, i)'
    BY <2>2, <2>3, <2>4, <1>1, <1>3, <1>5 DEF Scannable
  <2>. QED
    BY <2>5 DEF Fetching
<1>6. ASSUME s.wave = topicWave[t], NEW q \in r.queue, q.topic = t
      PROVE  /\ q.cursor <= hwm[t] \/ q.cursor <= Latest(Kind(t))
             /\ \A i \in Missing(t) : i <= q.cursor => Replayed(t, i)'
  <2>1. q \in s.queue
    BY <1>3, <1>6
  <2>. QED
    BY <2>1, <1>4, <1>6, QueueFacts
<1> PICK R : R = {r}
  OBVIOUS
<1>. QED
  BY <1>1, <1>2, <1>3, <1>5, <1>6, FetchOwed

\* ScanTurn: the page holds the rows up to its last one, the cursor of a topic that rotates.
LEMMA TurnOwed ==
  ASSUME Inv, BookInv, NEW t \in Topics, Owed(t), NEW s \in scans,
         NEW batch \in SUBSET s.queue, ScanTurn(s, batch)
  PROVE  Owed(t)'
<1>1. /\ UNCHANGED <<table, hwm, got, start, due, topicWave, polled, messagesCh, pending,
                     registered>>
      /\ s.pc # "probe"
  BY DEF ScanTurn, logVars, dispatcherVars, sentVars, gateVars, waveVars, followVars
<1>2. \A w : Abandoned(w) => Abandoned(w)'
  BY ScanMoveBooks
<1>3. PICK r \in Scan :
        /\ r.wave = s.wave /\ r.kind = s.kind /\ scans' = (scans \ {s}) \cup {r}
        /\ r.pc = s.pc /\ r.ceiling = s.ceiling
        /\ r.queue = (s.queue \ batch) \cup Rotated(s.kind, batch, s.ceiling)
  BY TurnMove
<1>4. PICK msgs : msgs = UNION {PageMessages(s.kind, q, s.ceiling) : q \in batch}
  OBVIOUS
<1>5. \/ msgs = {} /\ UNCHANGED catchUpCh
      \/ \E b : /\ b.wave = s.wave /\ b.msgs = msgs /\ ~b.done /\ ~b.err
                /\ catchUpCh' = Append(catchUpCh, b)
  BY <1>4, TurnBatch
<1>6. TypeFetch
  BY InvParts
\* A row of the page, or older and still missing, is replayed.
<1>7. \A i : Replayed(t, i) => Replayed(t, i)'
  <2>1. CASE UNCHANGED catchUpCh
    BY <2>1, <1>1 DEF Replayed, InBatch
  <2>2. ASSUME NEW b, catchUpCh' = Append(catchUpCh, b)
        PROVE  \A i : Replayed(t, i) => Replayed(t, i)'
    <3>1. \A n \in 1..Len(catchUpCh) :
            n \in 1..Len(catchUpCh)' /\ catchUpCh'[n] = catchUpCh[n]
      BY <2>2, <1>6, BatchAppended
    <3>. QED
      BY <3>1, <1>1 DEF Replayed, InBatch
  <2>. QED
    BY <2>1, <2>2, <1>5
<1>8. ASSUME s.wave = topicWave[t], NEW i, [topic |-> t, id |-> i] \in msgs
      PROVE  Replayed(t, i)'
  <2>1. PICK b : /\ b.wave = s.wave /\ b.msgs = msgs /\ catchUpCh' = Append(catchUpCh, b)
    BY <1>5, <1>8
  <2>2. Len(catchUpCh) + 1 \in 1..Len(catchUpCh)' /\ catchUpCh'[Len(catchUpCh) + 1] = b
    BY <2>1, <1>6, BatchAppended
  <2>. QED
    BY <2>1, <2>2, <1>1, <1>8 DEF Replayed, InBatch
<1>9. ASSUME s.wave = topicWave[t], NEW q \in batch, q.topic = t, NEW i \in Missing(t),
             q.cursor < i, i <= s.ceiling
      PROVE  /\ i \in RawRows(s.kind, q, s.ceiling)
             /\ i \in Page(s.kind, q, s.ceiling) => Replayed(t, i)'
  <2>1. s.kind = Kind(t) /\ s.ceiling \in Nat /\ q.cursor \in Nat
    BY <1>9, QueueFacts
  <2>2. i \in Nat /\ table[s.kind][i].topic = t /\ table[s.kind][i].known
    BY <2>1, <1>9, MissingFacts
  <2>3. i \in RawRows(s.kind, q, s.ceiling)
    BY <2>1, <2>2, <1>9 DEF RawRows
  <2>4. ASSUME i \in Page(s.kind, q, s.ceiling) PROVE [topic |-> t, id |-> i] \in msgs
    <3>1. [topic |-> t, id |-> i] \in PageMessages(s.kind, q, s.ceiling)
      BY <2>2, <2>4, <1>9 DEF PageMessages
    <3>. QED
      BY <3>1, <1>4
  <2>. QED
    BY <2>3, <2>4, <1>8, <1>9
<1>10. ASSUME s.wave = topicWave[t], NEW q \in batch, q.topic = t,
              NEW j \in Page(s.kind, q, s.ceiling), NEW i \in Missing(t), i <= j
       PROVE  Replayed(t, i)'
  <2>1. /\ s.ceiling \in Nat /\ q \in Catchup /\ q.cursor \in Nat /\ i \in Nat
        /\ \A l \in Missing(t) : l <= q.cursor => Replayed(t, l)
    BY <1>10, QueueFacts, MissingFacts
  <2>2. j \in Nat /\ j <= s.ceiling
    BY <2>1, <1>10 DEF Page, RawRows
  <2>3. CASE i <= q.cursor
    BY <2>1, <2>3, <1>7
  <2>4. CASE ~(i <= q.cursor)
    <3>1. /\ i \in RawRows(s.kind, q, s.ceiling)
          /\ i \in Page(s.kind, q, s.ceiling) => Replayed(t, i)'
      BY <2>1, <2>2, <2>4, <1>9, <1>10
    <3>. QED
      BY <3>1, <2>1, <1>10, PageIsPrefix
  <2>. QED
    BY <2>3, <2>4
<1>11. ASSUME NEW q \in batch, Cardinality(Page(s.kind, q, s.ceiling)) >= PageLimit
       PROVE  /\ Greatest(Page(s.kind, q, s.ceiling)) \in Page(s.kind, q, s.ceiling)
              /\ Greatest(Page(s.kind, q, s.ceiling)) \in Nat
              /\ Greatest(Page(s.kind, q, s.ceiling)) <= s.ceiling
  <2>1. s \in Scan
    BY <1>6 DEF TypeFetch
  <2>2. s.ceiling \in Nat /\ q.cursor \in Nat
    BY <2>1 DEF Scan, Catchup
  <2>3. Page(s.kind, q, s.ceiling) \subseteq Nat
        /\ \A i \in Page(s.kind, q, s.ceiling) : i <= s.ceiling
    BY <2>2 DEF Page, RawRows
  <2>4. Page(s.kind, q, s.ceiling) # {}
    BY <1>11, FS_EmptySet, BoundsAssumption
  <2>5. Greatest(Page(s.kind, q, s.ceiling)) \in Page(s.kind, q, s.ceiling)
    BY <2>2, <2>3, <2>4, GreatestOfBounded
  <2>. QED
    BY <2>3, <2>5
<1>12. ASSUME s.wave = topicWave[t], NEW q \in s.queue, NEW i \in Missing(t), q.topic = t,
              q.cursor < i, s.pc = "probe" \/ i <= s.ceiling
       PROVE  Fetching(t, i)'
  <2>1. i <= s.ceiling /\ r \in scans'
    BY <1>1, <1>3, <1>12
  <2>2. CASE q \notin batch
    <3>1. q \in r.queue
      BY <2>2, <1>3
    <3>2. Scannable(t, i)'
      BY <2>1, <3>1, <1>1, <1>3, <1>12 DEF Scannable
    <3>. QED
      BY <3>2 DEF Fetching
  <2>3. CASE q \in batch
    <3>1. /\ i \in RawRows(s.kind, q, s.ceiling)
          /\ i \in Page(s.kind, q, s.ceiling) => Replayed(t, i)'
      BY <2>1, <2>3, <1>9, <1>12
    <3>2. CASE i \in Page(s.kind, q, s.ceiling)
      BY <3>1, <3>2 DEF Fetching
    <3>3. CASE i \notin Page(s.kind, q, s.ceiling)
      <4>1. q \in Catchup /\ s.ceiling \in Nat
        BY <1>12, QueueFacts
      <4>2. /\ i \in Nat /\ Cardinality(Page(s.kind, q, s.ceiling)) >= PageLimit
            /\ \A j \in Page(s.kind, q, s.ceiling) : ~(i <= j)
        BY <3>1, <3>3, <4>1, PageIsPrefix
      <4>3. PICK g : g = Greatest(Page(s.kind, q, s.ceiling))
        OBVIOUS
      <4>4. g \in Page(s.kind, q, s.ceiling) /\ g \in Nat
        BY <2>3, <4>2, <4>3, <1>11
      <4>5. g < i
        BY <4>2, <4>4
      <4>6. PICK p : p = [q EXCEPT !.cursor = g]
        OBVIOUS
      <4>7. p.cursor = g /\ p.topic = t
        BY <4>1, <4>6, <1>12 DEF Catchup
      <4>8. p \in Rotated(s.kind, batch, s.ceiling)
        BY <2>3, <4>2, <4>3, <4>6 DEF Rotated
      <4>9. p \in r.queue
        BY <4>8, <1>3
      <4>10. Scannable(t, i)'
        BY <2>1, <4>5, <4>7, <4>9, <1>1, <1>3, <1>12 DEF Scannable
      <4>. QED
        BY <4>10 DEF Fetching
    <3>. QED
      BY <3>2, <3>3
  <2>. QED
    BY <2>2, <2>3
<1>13. ASSUME s.wave = topicWave[t], NEW p \in r.queue, p.topic = t
       PROVE  /\ p.cursor <= hwm[t] \/ p.cursor <= Latest(Kind(t))
              /\ \A i \in Missing(t) : i <= p.cursor => Replayed(t, i)'
  <2>1. CASE p \in s.queue
    BY <2>1, <1>7, <1>13, QueueFacts
  <2>2. CASE p \in Rotated(s.kind, batch, s.ceiling)
    <3>1. PICK q \in batch : /\ Cardinality(Page(s.kind, q, s.ceiling)) >= PageLimit
                             /\ p = [q EXCEPT !.cursor = Greatest(Page(s.kind, q, s.ceiling))]
      BY <2>2 DEF Rotated
    <3>2. PICK g : g = Greatest(Page(s.kind, q, s.ceiling))
      OBVIOUS
    <3>3. g \in Page(s.kind, q, s.ceiling) /\ g \in Nat /\ g <= s.ceiling
      BY <3>1, <3>2, <1>11
    <3>4. q \in Catchup /\ s.ceiling \in Nat /\ s.ceiling <= Latest(s.kind) /\ s.kind \in Kinds
      BY <1>13, QueueFacts
    <3>5. p.cursor = g /\ q.topic = t
      BY <3>1, <3>2, <3>4, <1>13 DEF Catchup
    <3>6. s.kind = Kind(t) /\ Latest(Kind(t)) \in Nat
      BY <3>5, <1>13, QueueFacts, MissingFacts
    <3>7. p.cursor <= Latest(Kind(t))
      BY <3>3, <3>4, <3>5, <3>6
    <3>. QED
      BY <3>3, <3>5, <3>7, <1>10, <1>13
  <2>. QED
    BY <2>1, <2>2, <1>3, <1>13
<1>14. ASSUME s.wave = topicWave[t], NEW e \in msgs, e.topic = t, NEW i \in Missing(t), i <= e.id
       PROVE  Replayed(t, i)'
  <2>1. PICK q \in batch : e \in PageMessages(s.kind, q, s.ceiling)
    BY <1>4, <1>14
  <2>2. PICK j \in Page(s.kind, q, s.ceiling) : e = [topic |-> q.topic, id |-> j]
    BY <2>1 DEF PageMessages
  <2>. QED
    BY <2>2, <1>10, <1>14
<1>15. \/ UNCHANGED catchUpCh
       \/ \E b : /\ catchUpCh' = Append(catchUpCh, b)
                 /\ \A e \in b.msgs : e.topic = t /\ b.wave = topicWave[t] =>
                      \A i \in Missing(t) : i <= e.id => Replayed(t, i)'
  BY <1>5, <1>14
<1> PICK R : R = {r}
  OBVIOUS
<1>16. scans' = (scans \ {s}) \cup R /\ \A x \in R : x.wave = s.wave
  BY <1>3
<1>17. s.wave = topicWave[t] => \A q \in s.queue : \A i \in Missing(t) :
         /\ q.topic = t /\ q.cursor < i
         /\ s.pc = "probe" \/ i <= s.ceiling
         => Fetching(t, i)'
  BY <1>12
<1>18. s.wave = topicWave[t] => \A x \in R : \A q \in x.queue : q.topic = t =>
         /\ q.cursor <= hwm[t] \/ q.cursor <= Latest(Kind(t))
         /\ \A i \in Missing(t) : i <= q.cursor => Replayed(t, i)'
  BY <1>13
<1>. QED
  BY <1>1, <1>2, <1>15, <1>16, <1>17, <1>18, FetchOwed

\* ScanDone: the scan has nothing left.  ScanFails: its wave is abandoned.
LEMMA ScanGoneOwed ==
  ASSUME Inv, GateInv, BookInv, NEW t \in Topics, Owed(t), NEW s \in scans,
         ScanDone(s) \/ ScanFails(s)
  PROVE  Owed(t)'
<1>1. /\ UNCHANGED <<table, hwm, got, start, due, topicWave, polled, messagesCh, pending,
                     registered>>
      /\ scans' = scans \ {s}
  BY DEF ScanDone, ScanFails, logVars, dispatcherVars, sentVars, gateVars, waveVars, followVars
<1>2. \A w : Abandoned(w) => Abandoned(w)'
  BY ScanDoneBooks, ScanFailsBooks
<1>3. \E b : catchUpCh' = Append(catchUpCh, b) /\ b.msgs = {}
  <2>1. PICK b, c : /\ b = [wave |-> s.wave, msgs |-> {}, done |-> TRUE, err |-> FALSE]
                    /\ c = [wave |-> 0, msgs |-> {}, done |-> FALSE, err |-> TRUE]
    OBVIOUS
  <2>2. b.msgs = {} /\ c.msgs = {}
    BY <2>1
  <2>3. catchUpCh' = Append(catchUpCh, b) \/ catchUpCh' = Append(catchUpCh, c)
    BY <2>1 DEF ScanDone, ScanFails
  <2>. QED
    BY <2>2, <2>3
<1>4. ASSUME s.wave = topicWave[t], NEW q \in s.queue, NEW i \in Missing(t)
      PROVE  Fetching(t, i)'
  <2>1. ScanFails(s)
    BY <1>4 DEF ScanDone
  <2>2. topicWave[t] # NoWave
    BY <1>4, InvParts DEF TypeFetch, Scan, NoWave
  <2>3. topicWave[t] \in DOMAIN waves
    BY <2>2 DEF GateInv, OwnersInFlight
  <2>4. PICK w : w = topicWave[t]
    OBVIOUS
  <2>5. Abandoned(w)'
    BY <2>1, <2>3, <2>4, <1>4, ScanFailsBooks
  <2>6. \A v : v = w => Abandoned(v)'
    BY <2>5
  <2>7. topicWave'[t] = w
    BY <2>4, <1>1
  <2>. QED
    BY <2>6, <2>7 DEF Fetching, Abandoned, Running, ScansOf, DonesOf
<1> PICK R : R = {}
  OBVIOUS
<1>5. scans' = (scans \ {s}) \cup R /\ \A r \in R : FALSE
  BY <1>1
<1>. QED
  BY <1>1, <1>2, <1>3, <1>4, <1>5, FetchOwed

-----------------------------------------------------------------------------
(* The writer takes a batch.                                               *)

\* With nothing missing left in the head of the channel, taking it loses nothing.
LEMMA HeadOwed ==
  ASSUME Inv, NEW t \in Topics, Owed(t), TakeBatch,
         UNCHANGED <<table, start, due, polled, messagesCh>>, registered' => registered,
         topicWave'[t] = topicWave[t], pending' \subseteq pending,
         \A i : Held(t, i) => Held(t, i)',
         ExactFor(t)', hwm'[t] \in Nat, hwm[t] <= hwm'[t], Missing(t)' \subseteq Missing(t),
         \A i \in Missing(t)' : ~InBatch(t, i, 1),
         \A w : w = topicWave[t] /\ Abandoned(w) => Abandoned(w)'
  PROVE  Owed(t)'
<1>1. TypeFetch /\ catchUpCh # <<>> /\ catchUpCh' = Tail(catchUpCh) /\ UNCHANGED scans
  BY InvParts DEF TakeBatch
<1>2. /\ \A n \in 1..Len(catchUpCh)' :
           n + 1 \in 1..Len(catchUpCh) /\ catchUpCh'[n] = catchUpCh[n + 1]
      /\ \A n \in 1..Len(catchUpCh) :
           n # 1 => n - 1 \in 1..Len(catchUpCh)' /\ catchUpCh'[n - 1] = catchUpCh[n]
  BY <1>1, HeadDropped
<1>3. \A i \in Missing(t)', n \in 1..Len(catchUpCh) :
        InBatch(t, i, n) => /\ n # 1 /\ n - 1 \in 1..Len(catchUpCh)'
                            /\ InBatch(t, i, n - 1)'
  BY <1>2 DEF InBatch
<1>4. \A i \in Missing(t)' : Replayed(t, i) => Replayed(t, i)'
  BY <1>3 DEF Replayed
<1>5. \A i : Scannable(t, i) => Scannable(t, i)'
  BY <1>1 DEF Scannable
<1>6. Abandoned(topicWave[t]) => Abandoned(topicWave[t])'
  <2>1. PICK w : w = topicWave[t] /\ w = topicWave'[t]
    OBVIOUS
  <2>. QED
    BY <2>1 DEF Abandoned, Running, ScansOf, DonesOf
<1>7. \A i \in Missing(t)' : Fetching(t, i) => Fetching(t, i)'
  BY <1>4, <1>5, <1>6 DEF Fetching
<1>8. BatchesContiguous(t)'
  <2>1. ASSUME NEW n \in 1..Len(catchUpCh)', NEW e \in catchUpCh'[n].msgs, e.topic = t,
               catchUpCh'[n].wave = topicWave[t], NEW i \in Missing(t)', i <= e.id
        PROVE  \E m \in 1..n : InBatch(t, i, m)'
    <3>1. PICK m \in 1..(n + 1) : InBatch(t, i, m)
      BY <2>1, <1>2 DEF Owed, BatchesContiguous
    <3>2. m \in 1..Len(catchUpCh)
      BY <1>2, <2>1
    <3>3. m # 1 /\ InBatch(t, i, m - 1)'
      BY <3>1, <3>2, <1>3
    <3>4. m - 1 \in 1..n
      BY <3>3, <2>1
    <3>. QED
      BY <3>3, <3>4
  <2>. QED
    BY <2>1 DEF BatchesContiguous
<1>9. ScansContiguous(t)'
  <2>1. Latest(Kind(t))' = Latest(Kind(t)) /\ hwm[t] \in Nat
    BY MissingFacts DEF Latest
  <2>2. ASSUME NEW s \in scans, NEW q \in s.queue, q.topic = t, s.wave = topicWave[t]
        PROVE  /\ q.cursor <= hwm'[t] \/ q.cursor <= Latest(Kind(t))
               /\ \A i \in Missing(t)' : i <= q.cursor => Replayed(t, i)'
    <3>1. /\ q.cursor \in Nat
          /\ q.cursor <= hwm[t] \/ q.cursor <= Latest(Kind(t))
          /\ \A i \in Missing(t) : i <= q.cursor => Replayed(t, i)
      BY <2>2, QueueFacts
    <3>2. q.cursor <= hwm'[t] \/ q.cursor <= Latest(Kind(t))
      BY <3>1, <2>1
    <3>. QED
      BY <3>1, <3>2, <1>4
  <2>. QED
    BY <2>1, <2>2, <1>1 DEF ScansContiguous
<1>10. \A i : Reached(t, i)' => Reached(t, i)
  BY DEF Reached
<1>11. \A i : InChannel(t, i) \/ Held(t, i) => InChannel(t, i)' \/ Held(t, i)'
  BY DEF InChannel
<1>12. LiveCovered(t)' /\ DueCovered(t)'
  BY <1>7, <1>10, <1>11, CoverCarries
<1>. QED
  BY <1>8, <1>9, <1>12 DEF Owed

\* FailBatch, DropStraggler, ScanDrained: the batch taken holds nothing the topic wants.
LEMMA DroppedOwed ==
  ASSUME Inv, GateInv, BookInv, NEW t \in Topics, Owed(t),
         FailBatch \/ DropStraggler \/ ScanDrained
  PROVE  Owed(t)'
<1>1. /\ TakeBatch
      /\ registered' => registered
      /\ UNCHANGED <<table, start, due, polled, messagesCh, topicWave, pending, hwm, got>>
  <2>1. TakeBatch
    BY DEF FailBatch, DropStraggler, ScanDrained
  <2>2. registered' => registered
    BY DEF FailBatch, DropStraggler, ScanDrained, Return, dispatcherVars
  <2>3. UNCHANGED <<table, start, due, polled, messagesCh, topicWave, pending, hwm, got>>
    BY DEF FailBatch, DropStraggler, ScanDrained, logVars, dispatcherVars, sentVars, gateVars,
           waveVars, followVars
  <2>. QED
    BY <2>1, <2>2, <2>3
<1>2. Taken = catchUpCh[1] /\ 1 \in 1..Len(catchUpCh)
  BY <1>1, TakenDone
<1>3. Missing(t)' = Missing(t) /\ ExactFor(t)' /\ hwm[t] \in Nat
  BY <1>1, SameData, MissingFacts DEF Owed
<1>4. \A i : ~InBatch(t, i, 1)
  <2>1. CASE FailBatch \/ ScanDrained
    <3>1. Taken.msgs = {}
      BY <2>1, <1>2 DEF FailBatch, ScanDrained, BookInv, Numbered
    <3>. QED
      BY <3>1, <1>2 DEF InBatch
  <2>2. CASE DropStraggler
    <3>1. Taken.wave \notin DOMAIN waves
      BY <2>2 DEF DropStraggler
    <3>2. Taken.wave # NoWave
      <4>1. Taken \in CatchUpBatch
        BY <1>1, TakeBatchTypes
      <4>. QED
        BY <4>1 DEF CatchUpBatch, NoWave
    <3>3. Taken.wave # topicWave[t]
      BY <3>1, <3>2 DEF GateInv, OwnersInFlight
    <3>. QED
      BY <3>3, <1>2 DEF InBatch
  <2>. QED
    BY <2>1, <2>2
<1>5. \A w : Abandoned(w) => Abandoned(w)'
  <2>1. DOMAIN waves' = DOMAIN waves
    <3>1. CASE FailBatch \/ DropStraggler
      BY <3>1 DEF FailBatch, DropStraggler, waveVars
    <3>. QED
      BY <3>1, ScanDrainedBooks
  <2>2. \A w \in DOMAIN waves' : Abandoned(w) => Abandoned(w)'
    BY TakenFrameBooks, ScanDrainedBooks
  <2>. QED
    BY <2>1, <2>2 DEF Abandoned
<1>6. hwm'[t] \in Nat /\ hwm[t] <= hwm'[t] /\ topicWave'[t] = topicWave[t]
  BY <1>1, <1>3
<1>7. \A i : Held(t, i) => Held(t, i)'
  BY <1>1 DEF Held
<1>. QED
  BY <1>1, <1>3, <1>4, <1>5, <1>6, <1>7, HeadOwed

\* ReplayBatch: the head leaves no gap, so the client stays exact.
LEMMA ReplayOwed ==
  ASSUME Inv, GateInv, BookInv, NEW t \in subscribed, t \in Topics, Owed(t), ReplayBatch
  PROVE  Owed(t)'
<1>1. /\ TakeBatch /\ UNCHANGED <<table, start, due, polled, messagesCh, registered, topicWave,
                                  pending, waves>>
      /\ SendMessages(hwm, {m \in Taken.msgs : Wanted(Taken.wave, m.topic)}, FALSE)
  BY DEF ReplayBatch, logVars, dispatcherVars, gateVars, waveVars, followVars
<1>2. Taken = catchUpCh[1] /\ 1 \in 1..Len(catchUpCh)
  BY <1>1, TakenDone
<1>3. PICK msgs : msgs = {m \in Taken.msgs : Wanted(Taken.wave, m.topic)}
  OBVIOUS
<1>4. msgs \in SUBSET Envelope /\ (\A e \in msgs : Real(e)) /\ hwm \in [Topics -> Nat]
      /\ SendMessages(hwm, msgs, FALSE)
  BY <1>1, <1>3, InvParts, TakeBatchTypes DEF TypeSent
<1>5. \A i : InBatch(t, i, 1) <=> [topic |-> t, id |-> i] \in msgs
  BY <1>2, <1>3 DEF InBatch, Wanted
<1>6. \A e \in msgs : e.topic = t =>
        \A i \in Missing(t) : i <= e.id => [topic |-> t, id |-> i] \in msgs
  <2>1. ASSUME NEW e \in msgs, e.topic = t, NEW i \in Missing(t), i <= e.id
        PROVE  InBatch(t, i, 1)
    <3>1. e \in catchUpCh[1].msgs /\ catchUpCh[1].wave = topicWave[t]
      BY <2>1, <1>2, <1>3 DEF Wanted
    <3>2. PICK m \in 1..1 : InBatch(t, i, m)
      BY <2>1, <3>1, <1>2 DEF Owed, BatchesContiguous
    <3>. QED
      BY <3>2
  <2>. QED
    BY <2>1, <1>5
<1>7. /\ ExactFor(t)' /\ hwm[t] \in Nat /\ hwm'[t] \in Nat /\ hwm[t] <= hwm'[t]
      /\ Missing(t)' \subseteq Missing(t)
      /\ \A i \in Missing(t)' : [topic |-> t, id |-> i] \notin msgs
  <2>1. Followed(t) /\ ExactFor(t)
    BY DEF Followed, Owed
  <2>. QED
    BY <2>1, <1>1, <1>4, <1>6, SendExact
<1>8. \A w : Abandoned(w) => Abandoned(w)'
  <2>1. \A w \in DOMAIN waves' : Abandoned(w) => Abandoned(w)'
    BY TakenFrameBooks
  <2>. QED
    BY <2>1, <1>1 DEF Abandoned
<1>9. \A i : Held(t, i) => Held(t, i)'
  BY <1>1 DEF Held
<1>10. topicWave'[t] = topicWave[t] /\ pending' \subseteq pending
       /\ \A i \in Missing(t)' : ~InBatch(t, i, 1)
  BY <1>1, <1>5, <1>7
<1>. QED
  BY <1>1, <1>7, <1>8, <1>9, <1>10, HeadOwed

\* CompleteWave takes the wave's last done marker: no scan, no batch of it is left.
LEMMA Drained ==
  ASSUME Inv, BookInv, CompleteWave, NEW t \in Topics, topicWave[t] = Taken.wave
  PROVE  \A i : ~Fetching(t, i)
<1> PICK w : w = Taken.wave
  OBVIOUS
<1>1. TakeBatch /\ Taken.done /\ w \in DOMAIN waves /\ waves[w].scansLeft <= 1
  BY DEF CompleteWave
<1>2. TypeFetch /\ TypeWaves /\ OneScanPerKind /\ Numbered /\ ScansCounted /\ BatchesFollowed
  BY InvParts DEF BookInv
<1>3. 1 \in DonesOf(w)
  BY <1>1, TakenDone
<1>4. /\ IsFiniteSet(ScansOf(w)) /\ Cardinality(ScansOf(w)) \in Nat
      /\ IsFiniteSet(DonesOf(w)) /\ Cardinality(DonesOf(w)) \in Nat
  BY <1>2, CountTypes
<1>5. waves[w].scansLeft \in Int /\ waves[w].scansLeft > 0
  BY <1>1, <1>2 DEF ScansCounted, TypeWaves, WaveState
<1>6. Cardinality(ScansOf(w)) + Cardinality(DonesOf(w)) <= 1
  BY <1>1, <1>2, <1>4, <1>5 DEF ScansCounted, Running
<1>7. Cardinality(DonesOf(w)) # 0
  BY <1>3, <1>4, FS_EmptySet
<1>8. Cardinality(ScansOf(w)) = 0 /\ Cardinality(DonesOf(w)) = 1
  BY <1>4, <1>6, <1>7
<1>9. ScansOf(w) = {}
  BY <1>4, <1>8, FS_EmptySet
<1>10. DonesOf(w) = {1}
  <2>1. PICK d : DonesOf(w) = {d}
    BY <1>4, <1>8, FS_Singleton
  <2>. QED
    BY <2>1, <1>3
<1>11. ~Abandoned(w)
  BY <1>1, <1>5, <1>8 DEF Abandoned, Running
<1>12. ASSUME NEW i, Replayed(t, i) PROVE FALSE
  <2>1. PICK n \in 1..Len(catchUpCh) :
          catchUpCh[n].wave = w /\ [topic |-> t, id |-> i] \in catchUpCh[n].msgs
    BY <1>12 DEF Replayed, InBatch
  <2>2. ~catchUpCh[n].err /\ ~catchUpCh[n].done
    BY <2>1, <1>2 DEF Numbered
  <2>3. MoreToCome(w, n)
    BY <2>1, <2>2, <1>1, <1>2 DEF BatchesFollowed
  <2>. QED
    BY <2>3, <1>9, <1>10, <1>11 DEF MoreToCome
<1>13. \A i : ~Scannable(t, i)
  BY <1>9 DEF Scannable, ScansOf
<1>. QED
  BY <1>11, <1>12, <1>13 DEF Fetching

\* CompleteWave: for a topic of the wave the buffer holds what the live lane is past and the
\* catch-up did not bring; the other topics do not notice.
LEMMA CompleteOwed ==
  ASSUME Inv, LaneInv, GateInv, BookInv, NEW t \in subscribed, t \in Topics, Owed(t),
         CompleteWave, Inv'
  PROVE  Owed(t)'
<1> PICK w, T, fold, floors :
      /\ w = Taken.wave /\ T = Settled(w)
      /\ fold = {e \in pending : e.topic \in T \cap catchingUp}
      /\ floors = [u \in Topics |-> IF u \in T \ catchingUp THEN 0 ELSE hwm[u]]
  OBVIOUS
<1>1. TakeBatch /\ ~Taken.err /\ w \in DOMAIN waves /\ Taken.done
  BY DEF CompleteWave
<1>2. SendMessages(floors, fold, FALSE)
  BY DEF CompleteWave, FoldIsLive
<1>3. /\ topicWave' = [u \in Topics |-> IF u \in T THEN NoWave ELSE topicWave[u]]
      /\ pending' = pending \ fold
      /\ waves' = [v \in DOMAIN waves \ {w} |-> waves[v]]
  BY DEF CompleteWave
<1>4. UNCHANGED <<table, polled, messagesCh, start, due>> /\ (registered' => registered)
  BY DEF CompleteWave, Return, logVars, followVars
<1>5. TypeSent /\ TypeGate /\ TypeFetch /\ TypeWaves /\ RealPending /\ GatedInWave /\ HeldIfGated
      /\ OwnedExact /\ OwnersInFlight /\ PendingPassed
  BY InvParts DEF GateInv, LaneInv
<1>6. t \in T <=> topicWave[t] = w
  BY <1>1, <1>5 DEF Settled, OwnedExact, Points
<1>7. topicWave[t] # NoWave => t \in catchingUp
  BY <1>5 DEF GatedInWave
<1>8. NoWave \notin DOMAIN waves
  BY <1>5 DEF TypeWaves, NoWave
<1>9. floors[t] = hwm[t] /\ floors \in [Topics -> Nat]
  BY <1>1, <1>5, <1>6, <1>7, <1>8 DEF TypeSent
<1>10. fold \in SUBSET Envelope /\ \A e \in fold : Real(e)
  BY <1>5 DEF TypeGate, RealPending
<1>11. \A e \in fold : e.topic = t =>
         \A i \in Missing(t) : i <= e.id => [topic |-> t, id |-> i] \in fold
  <2>1. SUFFICES ASSUME NEW e \in fold, e.topic = t, NEW i \in Missing(t), i <= e.id
                 PROVE  [topic |-> t, id |-> i] \in fold
    OBVIOUS
  <2>2. e \in pending /\ t \in T /\ t \in catchingUp
    BY <2>1
  <2>3. ~Fetching(t, i)
    BY <2>2, <1>6, Drained
  <2>4. Reached(t, i)
    BY <2>1, <2>2 DEF Reached
  <2>5. ASSUME InChannel(t, i) PROVE FALSE
    <3>1. PICK n \in 1..Len(messagesCh) : messagesCh[n] = [topic |-> t, id |-> i]
      BY <2>5 DEF InChannel
    <3>2. messagesCh[n].topic = t /\ messagesCh[n].id = i
      BY <3>1
    <3>3. e.id < i
      BY <2>1, <2>2, <3>2, <1>5 DEF PendingPassed, Passed
    <3>4. e.id \in Nat /\ i \in Nat
      BY <2>2, <1>5, MissingFacts DEF TypeGate, Envelope
    <3>. QED
      BY <3>3, <3>4, <2>1
  <2>6. Held(t, i)
    BY <2>3, <2>4, <2>5 DEF Owed, LiveCovered
  <2>. QED
    BY <2>2, <2>6 DEF Held
<1>12. /\ ExactFor(t)' /\ hwm[t] \in Nat /\ hwm'[t] \in Nat /\ hwm[t] <= hwm'[t]
       /\ Missing(t)' \subseteq Missing(t)
       /\ \A i \in Missing(t)' : [topic |-> t, id |-> i] \notin fold
  <2>1. Followed(t) /\ ExactFor(t)
    BY DEF Followed, Owed
  <2>2. UNCHANGED <<table, start>>
    BY <1>4
  <2>. QED
    BY <2>1, <2>2, <1>2, <1>9, <1>10, <1>11, SendExact
<1>13. CASE topicWave[t] = w
  <2>1. topicWave'[t] = NoWave
    BY <1>3, <1>6, <1>13
  <2>2. BatchesContiguous(t)' /\ ScansContiguous(t)'
    <3>1. TypeFetch' /\ TypeWaves'
      BY InvPartsNext
    <3>. QED
      BY <2>1, <3>1, OutsideWaveNext
  <2>3. \A i : ~Fetching(t, i)
    BY <1>13, Drained
  <2>4. \A i : Reached(t, i)' => Reached(t, i)
    BY <1>3, <1>4 DEF Reached
  <2>5. \A i \in Missing(t)' : InChannel(t, i) \/ Held(t, i) => InChannel(t, i)' \/ Held(t, i)'
    BY <1>3, <1>4, <1>12 DEF InChannel, Held
  <2>6. LiveCovered(t)' /\ DueCovered(t)'
    BY <2>3, <2>4, <2>5, <1>4, <1>12, CoverCarries
  <2>. QED
    BY <2>2, <2>6, <1>12 DEF Owed
<1>14. CASE topicWave[t] # w
  <2>1. topicWave'[t] = topicWave[t]
    BY <1>3, <1>6, <1>14
  <2>2. \A i : Held(t, i) => Held(t, i)'
    BY <1>3, <1>6, <1>14 DEF Held
  <2>3. \A i : ~InBatch(t, i, 1)
    BY <1>1, <1>14, TakenDone DEF InBatch
  <2>4. \A v : v = topicWave[t] /\ Abandoned(v) => Abandoned(v)'
    <3>1. \A v \in DOMAIN waves' : Abandoned(v) => Abandoned(v)'
      BY CompleteWaveBooks
    <3>2. \A v : v = topicWave[t] /\ Abandoned(v) => v \in DOMAIN waves'
      BY <1>3, <1>14 DEF Abandoned
    <3>. QED
      BY <3>1, <3>2
  <2>5. UNCHANGED <<table, start, due, polled, messagesCh>> /\ pending' \subseteq pending
        /\ \A i \in Missing(t)' : ~InBatch(t, i, 1)
    BY <2>3, <1>3, <1>4
  <2>. QED
    BY <2>1, <2>2, <2>4, <2>5, <1>1, <1>4, <1>12, HeadOwed
<1>. QED
  BY <1>13, <1>14

-----------------------------------------------------------------------------
(* A Mutate, topic by topic.                                               *)

\* A live topic that the Mutate neither drops nor adds keeps what it is owed.
LEMMA MutateKeeps ==
  ASSUME Inv, GateInv, BookInv, NEW m \in Mutates, NEW D, NEW A, NEW gated,
         MutateStep(m, D, A, gated), GateInv',
         NEW t \in subscribed, t \in Topics, t \notin D, t \notin A, Owed(t)
  PROVE  Owed(t)'
<1>1. /\ UNCHANGED <<table, polled, messagesCh, registered, catchUpCh>>
      /\ hwm'[t] = hwm[t] /\ got'[t] = got[t] /\ start'[t] = start[t] /\ due'[t] = due[t]
      /\ topicWave'[t] = topicWave[t] /\ pending' = pending \ Discarded(D)
  BY DEF MutateStep
<1>2. TypeWaves /\ nextWave \in Nat /\ OwnersInFlight
  BY InvParts DEF TypeWaves, GateInv
<1> PICK w : w = topicWave[t]
  OBVIOUS
<1>3. w # nextWave
  BY <1>2 DEF TypeWaves, OwnersInFlight, NoWave
<1>4. ScansOf(w)' = ScansOf(w)
  BY <1>3, MutateBooks
<1>5. \A s : s \in scans' /\ s.wave = w <=> s \in scans /\ s.wave = w
  BY <1>4 DEF ScansOf
<1>6. Abandoned(w) => Abandoned(w)'
  <2>1. ASSUME Abandoned(w) PROVE w \in DOMAIN waves'
    <3>1. w \in DOMAIN waves /\ w # NoWave
      BY <2>1, <1>2 DEF Abandoned, TypeWaves, NoWave
    <3>. QED
      BY <3>1, <1>1 DEF GateInv, OwnersInFlight
  <2>. QED
    BY <2>1, MutateBooks
<1>7. Missing(t)' = Missing(t) /\ ExactFor(t)' /\ Latest(Kind(t))' = Latest(Kind(t))
  BY <1>1, SameData DEF Owed
<1>8. \A i : /\ Replayed(t, i)' <=> Replayed(t, i)
             /\ \A n : InBatch(t, i, n)' <=> InBatch(t, i, n)
  BY <1>1 DEF Replayed, InBatch
<1>9. \A i : Scannable(t, i) => Scannable(t, i)'
  BY <1>1, <1>5 DEF Scannable
<1>10. Abandoned(topicWave[t]) => Abandoned(topicWave[t])'
  <2>1. w = topicWave'[t]
    BY <1>1
  <2>. QED
    BY <2>1, <1>6 DEF Abandoned, Running, ScansOf, DonesOf
<1>11. \A i : Fetching(t, i) => Fetching(t, i)'
  BY <1>8, <1>9, <1>10 DEF Fetching
<1>12. BatchesContiguous(t)'
  BY <1>1, <1>7, <1>8 DEF Owed, BatchesContiguous
<1>13. ScansContiguous(t)'
  <2>1. ASSUME NEW s \in scans', NEW q \in s.queue, q.topic = t, s.wave = topicWave'[t]
        PROVE  /\ q.cursor <= hwm'[t] \/ q.cursor <= Latest(Kind(t))'
               /\ \A i \in Missing(t)' : i <= q.cursor => Replayed(t, i)'
    <3>1. s \in scans /\ s.wave = topicWave[t]
      BY <2>1, <1>1, <1>5
    <3>. QED
      BY <2>1, <3>1, <1>1, <1>7, <1>8 DEF Owed, ScansContiguous
  <2>. QED
    BY <2>1 DEF ScansContiguous
<1>14. \A i : Reached(t, i)' => Reached(t, i)
  BY <1>1 DEF Reached
<1>15. \A i : InChannel(t, i) \/ Held(t, i) => InChannel(t, i)' \/ Held(t, i)'
  <2>1. \A i : Held(t, i) => Held(t, i)'
    <3>1. \A i : [topic |-> t, id |-> i] \notin Discarded(D)
      BY DEF Discarded
    <3>. QED
      BY <3>1, <1>1 DEF Held
  <2>. QED
    BY <2>1, <1>1 DEF InChannel
<1>16. LiveCovered(t)'
  BY <1>7, <1>11, <1>14, <1>15 DEF Owed, LiveCovered
<1>17. DueCovered(t)'
  BY <1>1, <1>7, <1>11 DEF Owed, DueCovered
<1>. QED
  BY <1>7, <1>12, <1>13, <1>16, <1>17 DEF Owed

\* The scan that a Mutate starts for a topic it adds.
LEMMA NewScanOf ==
  ASSUME NEW m \in Mutates, NEW D, NEW A, NEW gated, MutateStep(m, D, A, gated), NEW t \in A
  PROVE  /\ \E s \in scans' : \E q \in s.queue :
              s.wave = nextWave /\ s.pc = "probe" /\ q.topic = t /\ q.cursor = Cursor(m, t)
         /\ \A s \in NewScans(m, A) : \A q \in s.queue : q.topic = t => q.cursor = Cursor(m, t)
<1>1. NewScans(m, A) \subseteq scans'
  BY DEF MutateStep
<1>2. PICK s : s = [wave |-> nextWave, kind |-> Kind(t), pc |-> "probe", slot |-> FALSE,
                    ceiling |-> 0,
                    queue |-> {[topic |-> u, cursor |-> Cursor(m, u)] :
                                 u \in {v \in A : Kind(v) = Kind(t)}}]
  OBVIOUS
<1>3. s \in NewScans(m, A)
  BY <1>2 DEF NewScans
<1>4. PICK q : q = [topic |-> t, cursor |-> Cursor(m, t)]
  OBVIOUS
<1>5. s.wave = nextWave /\ s.pc = "probe" /\ q \in s.queue /\ q.topic = t
      /\ q.cursor = Cursor(m, t)
  BY <1>2, <1>4
<1>6. ASSUME NEW r \in NewScans(m, A), NEW p \in r.queue, p.topic = t
      PROVE  p.cursor = Cursor(m, t)
  <2>1. PICK k \in {Kind(u) : u \in A} :
          r.queue = {[topic |-> u, cursor |-> Cursor(m, u)] : u \in {v \in A : Kind(v) = k}}
    BY <1>6 DEF NewScans
  <2>2. PICK u \in A : p = [topic |-> u, cursor |-> Cursor(m, u)]
    BY <1>6, <2>1
  <2>. QED
    BY <2>2, <1>6
<1>. QED
  BY <1>1, <1>3, <1>5, <1>6

\* A topic made live by the Mutate is owed everything above its cursor, and its scan has not
\* started.
LEMMA MutateAddsOwed ==
  ASSUME Inv, GateInv, BookInv, NEW m \in Mutates, NEW D, NEW A, NEW gated,
         MutateStep(m, D, A, gated), NEW t \in A, Inv'
  PROVE  Owed(t)'
<1>1. /\ t \in Topics /\ UNCHANGED <<table, catchUpCh>>
      /\ hwm'[t] = Cursor(m, t) /\ got'[t] = {} /\ start'[t] = Cursor(m, t)
      /\ due'[t] = Latest(Kind(t)) /\ topicWave'[t] = nextWave
      /\ \A s \in scans' : s \in scans \/ s \in NewScans(m, A)
  BY DEF MutateStep
<1>2. Cursor(m, t) \in Nat
  <2>1. hwm'[t] \in Nat
    BY <1>1, InvPartsNext DEF TypeSent
  <2>. QED
    BY <2>1, <1>1
<1>3. Latest(Kind(t)) \in Nat /\ Latest(Kind(t))' = Latest(Kind(t))
  BY <1>1, MissingFacts DEF Latest
<1>4. \A i \in Missing(t)' : i \in Nat /\ Cursor(m, t) < i
  BY <1>1, <1>3 DEF Missing, Deliverable
<1>5. ExactFor(t)'
  <2>1. Deliverable(t, start[t], hwm[t])' = {}
    BY <1>1, <1>2, <1>3 DEF Deliverable
  <2>. QED
    BY <2>1, <1>1, <1>2 DEF ExactFor
<1>6. Numbered /\ nextWave \in Nat
  BY InvParts DEF BookInv, TypeWaves
<1>7. BatchesContiguous(t)'
  <2>1. \A n \in 1..Len(catchUpCh) : catchUpCh[n].wave = nextWave => catchUpCh[n].msgs = {}
    BY <1>6 DEF Numbered
  <2>. QED
    BY <2>1, <1>1 DEF BatchesContiguous
<1>8. ScansContiguous(t)'
  <2>1. ASSUME NEW s \in scans', NEW q \in s.queue, q.topic = t, s.wave = topicWave'[t]
        PROVE  q.cursor = Cursor(m, t)
    <3>1. s \in NewScans(m, A)
      BY <2>1, <1>1, <1>6 DEF Numbered
    <3>. QED
      BY <2>1, <3>1, NewScanOf
  <2>. QED
    BY <2>1, <1>1, <1>2, <1>4 DEF ScansContiguous
<1>9. \A i \in Missing(t)' : Fetching(t, i)'
  <2>1. ASSUME NEW i \in Missing(t)' PROVE Scannable(t, i)'
    <3>1. PICK s \in scans' : \E q \in s.queue :
            s.wave = nextWave /\ s.pc = "probe" /\ q.topic = t /\ q.cursor = Cursor(m, t)
      BY NewScanOf
    <3>. QED
      BY <3>1, <1>1, <1>4 DEF Scannable
  <2>. QED
    BY <2>1 DEF Fetching
<1>10. LiveCovered(t)'
  BY <1>9 DEF LiveCovered
<1>11. DueCovered(t)'
  BY <1>1, <1>3, <1>9 DEF DueCovered
<1>. QED
  BY <1>5, <1>7, <1>8, <1>10, <1>11 DEF Owed

\* Mutate: a live topic was live before and is neither dropped nor added, or it is added.
LEMMA MutateDelivery ==
  ASSUME Inv, LaneInv, GateInv, BookInv, DeliveryInv, NEW m \in Mutates, Mutate(m), Inv', GateInv'
  PROVE  DeliveryInv'
<1>1. PICK D, A, gated : MutateStep(m, D, A, gated)
  BY MutateSteps
<1>2. /\ D = m.removes \cup Resets(m) /\ A = Fresh(m) /\ gated \subseteq A
      /\ D \in SUBSET Topics /\ A \in SUBSET Topics
      /\ adding = {} /\ adding' = gated /\ subTopics' = subTopics \ D
      /\ subscribed' = (subscribed \ D) \cup gated
      /\ nextWave' = IF A = {} THEN nextWave ELSE nextWave + 1
  BY <1>1 DEF MutateStep
<1>3. TypeGate /\ nextWave \in Nat /\ hwm' \in [Topics -> Nat]
  BY InvParts, InvPartsNext DEF TypeWaves, TypeSent
<1>4. A \cap (subscribed \ D) = {}
  BY <1>2 DEF Fresh, Active
<1>5. \A t \in subscribed' : Owed(t)'
  <2>1. ASSUME NEW t \in subscribed' PROVE Owed(t)'
    <3>1. CASE t \in gated
      BY <3>1, <1>1, <1>2, MutateAddsOwed
    <3>2. CASE t \in subscribed \ D
      <4>1. t \in Topics /\ t \notin A /\ Owed(t)
        BY <3>2, <1>3, <1>4 DEF TypeGate, DeliveryInv
      <4>. QED
        BY <3>2, <4>1, <1>1, MutateKeeps
    <3>. QED
      BY <2>1, <3>1, <3>2, <1>2
  <2>. QED
    BY <2>1
<1>6. Registering'
  <2>1. subscribed' \subseteq subTopics' \cup adding'
    BY <1>2 DEF DeliveryInv, Registering
  <2>2. ASSUME NEW t \in adding'
        PROVE  /\ topicWave'[t] = nextWave' - 1
               /\ \E s \in scans' : \E q \in s.queue :
                    /\ s.wave = nextWave' - 1 /\ s.pc = "probe" /\ q.topic = t
                    /\ q.cursor <= hwm'[t]
    <3>1. t \in A /\ nextWave' = nextWave + 1 /\ t \in Topics
      BY <2>2, <1>2
    <3>2. topicWave'[t] = nextWave /\ hwm'[t] = Cursor(m, t)
      BY <3>1, <1>1 DEF MutateStep
    <3>3. nextWave' - 1 = nextWave /\ Cursor(m, t) \in Nat /\ Cursor(m, t) <= Cursor(m, t)
      BY <3>1, <3>2, <1>3
    <3>4. PICK s \in scans' : \E q \in s.queue :
            s.wave = nextWave /\ s.pc = "probe" /\ q.topic = t /\ q.cursor = Cursor(m, t)
      BY <3>1, <1>1, NewScanOf
    <3>. QED
      BY <3>2, <3>3, <3>4
  <2>. QED
    BY <2>1, <2>2 DEF Registering
<1>7. Ordered'
  <2>1. UNCHANGED misordered
    BY <1>1 DEF MutateStep
  <2>2. ASSUME NEW t \in Topics, Followed(t)', NEW j \in got'[t] PROVE j <= hwm'[t]
    <3>1. /\ t \notin A /\ t \notin D /\ hwm'[t] = hwm[t] /\ got'[t] = got[t]
          /\ topicWave'[t] = topicWave[t]
      BY <2>2, <1>1 DEF MutateStep
    <3>2. Followed(t)
      BY <2>2, <3>1, <1>2 DEF Followed
    <3>. QED
      BY <2>2, <3>1, <3>2 DEF DeliveryInv, Ordered
  <2>. QED
    BY <2>1, <2>2 DEF DeliveryInv, Ordered
<1>. QED
  BY <1>5, <1>6, <1>7 DEF DeliveryInv

-----------------------------------------------------------------------------
(* The invariant, action by action.                                        *)

\* The registration of a Mutate's topics and the order of what was sent depend on these.
LEMMA RestStill ==
  ASSUME Registering, Ordered, UNCHANGED <<subscribed, topicWave, hwm, got, misordered>>
  PROVE  /\ UNCHANGED <<subTopics, adding, nextWave, scans>> => Registering'
         /\ Ordered'
BY DEF Registering, Ordered, Followed

\* Between two events of the writer no registration is under way.
LEMMA RegisteringIdle ==
  ASSUME Registering, adding = {}, UNCHANGED <<subscribed, subTopics, adding>>
  PROVE  Registering'
BY DEF Registering

\* The scans of a wave wait until its topics are registered.
LEMMA RegisteringScans ==
  ASSUME Registering, NEW s \in scans, scans \ {s} \subseteq scans',
         UNCHANGED <<subscribed, subTopics, adding, topicWave, nextWave, hwm>>,
         s.pc = "probe" => Spawned(s)
  PROVE  Registering'
<1>1. ASSUME NEW t \in adding
      PROVE  \E r \in scans' : \E q \in r.queue :
               r.wave = nextWave - 1 /\ r.pc = "probe" /\ q.topic = t /\ q.cursor <= hwm[t]
  <2>1. PICK r \in scans : \E q \in r.queue :
          r.wave = nextWave - 1 /\ r.pc = "probe" /\ q.topic = t /\ q.cursor <= hwm[t]
    BY <1>1 DEF Registering
  <2>2. r # s
    BY <2>1, <1>1 DEF Spawned
  <2>. QED
    BY <2>1, <2>2
<1>. QED
  BY <1>1 DEF Registering

\* What ends the stream or registers a topic delivers nothing.
LEMMA FrameDelivery ==
  ASSUME Inv, DeliveryInv,
         \/ UNCHANGED vars \/ StreamEnds \/ HalfClose \/ ConsumerTooSlow \/ Returned
         \/ (\E t \in Topics : SubAdd(t)) \/ (\E m \in Mutates : RefuseMutate(m))
  PROVE  DeliveryInv'
<1>1. /\ UNCHANGED <<table, hwm, got, start, due, topicWave, scans, catchUpCh, waves, polled,
                     messagesCh, pending, subscribed, misordered, nextWave>>
      /\ registered' => registered
  BY DEF vars, Returned, StreamEnds, HalfClose, ConsumerTooSlow, SubAdd, RefuseMutate, Return,
         logVars, dispatcherVars, sentVars, gateVars, waveVars, fetchVars, followVars
<1>2. \A t \in subscribed' : Owed(t)'
  BY <1>1, OwedStill DEF DeliveryInv
<1>3. Registering'
  <2>1. CASE \E t \in Topics : SubAdd(t)
    <3>1. PICK t \in adding : adding' = adding \ {t} /\ subTopics' = subTopics \cup {t}
      BY <2>1 DEF SubAdd
    <3>. QED
      BY <3>1, <1>1 DEF DeliveryInv, Registering
  <2>2. CASE UNCHANGED <<subTopics, adding>>
    BY <2>2, <1>1, RestStill DEF DeliveryInv
  <2>3. \/ \E t \in Topics : SubAdd(t)
        \/ UNCHANGED <<subTopics, adding>>
    BY DEF vars, Returned, StreamEnds, HalfClose, ConsumerTooSlow, RefuseMutate, dispatcherVars
  <2>. QED
    BY <2>1, <2>2, <2>3
<1>. QED
  BY <1>1, <1>2, <1>3, RestStill DEF DeliveryInv

\* The tables, the poller and a held envelope send nothing.
LEMMA LaneDelivery ==
  ASSUME Inv, DeliveryInv,
         \/ \E t \in Topics, known \in BOOLEAN : Publish(t, known)
         \/ \E k \in Kinds : Poll(k)
         \/ HoldEnvelope
  PROVE  DeliveryInv'
<1>1. UNCHANGED <<hwm, got, topicWave, scans, subscribed, misordered, nextWave, adding,
                  subTopics>>
  BY DEF Publish, Poll, HandleEnvelope, HoldEnvelope, dispatcherVars, sentVars, gateVars,
         waveVars, fetchVars
<1>2. subscribed \subseteq Topics /\ Registering
  BY InvParts DEF TypeGate, DeliveryInv
<1>3. \A t \in subscribed : Owed(t)'
  BY <1>2, PublishOwed, PollOwed, HoldOwed DEF DeliveryInv
<1>. QED
  BY <1>1, <1>3, RestStill DEF DeliveryInv

\* The fetchers.
LEMMA FetchDelivery ==
  ASSUME Inv, GateInv, BookInv, DeliveryInv, NEW s \in scans,
         \/ ScanProbe(s) \/ AcquireScanSlot(s)
         \/ \E batch \in SUBSET s.queue : ScanTurn(s, batch)
         \/ ScanDone(s) \/ ScanFails(s)
  PROVE  DeliveryInv'
<1>1. /\ UNCHANGED <<hwm, got, topicWave, subscribed, misordered, nextWave, adding, subTopics>>
      /\ scans \ {s} \subseteq scans'
      /\ s.pc = "probe" => Spawned(s)
  BY DEF ScanProbe, AcquireScanSlot, ScanTurn, ScanDone, ScanFails, dispatcherVars, sentVars,
         gateVars, waveVars
<1>2. subscribed \subseteq Topics
  BY InvParts DEF TypeGate
<1>3. \A t \in subscribed : Owed(t)'
  BY <1>2, ProbeOwed, TurnOwed, ScanGoneOwed DEF DeliveryInv
<1>4. Registering'
  BY <1>1, RegisteringScans DEF DeliveryInv
<1>. QED
  BY <1>1, <1>3, <1>4, RestStill DEF DeliveryInv

\* The batches that are dropped.
LEMMA DropDelivery ==
  ASSUME Inv, GateInv, BookInv, DeliveryInv, FailBatch \/ DropStraggler \/ ScanDrained
  PROVE  DeliveryInv'
<1>1. /\ UNCHANGED <<hwm, got, topicWave, subscribed, misordered, adding, subTopics>>
      /\ adding = {}
  BY DEF FailBatch, DropStraggler, ScanDrained, TakeBatch, Selecting, dispatcherVars, sentVars,
         gateVars, waveVars
<1>2. subscribed \subseteq Topics
  BY InvParts DEF TypeGate
<1>3. \A t \in subscribed : Owed(t)'
  BY <1>2, DroppedOwed DEF DeliveryInv
<1>4. Registering'
  BY <1>1, RegisteringIdle DEF DeliveryInv
<1>. QED
  BY <1>1, <1>3, <1>4, RestStill DEF DeliveryInv

\* A live envelope or a batch goes out above the marks.
LEMMA SendDelivery ==
  ASSUME Inv, LaneInv, GateInv, BookInv, DeliveryInv, SendLive \/ ReplayBatch
  PROVE  DeliveryInv'
<1>1. UNCHANGED <<topicWave, subscribed, adding, subTopics>> /\ adding = {}
  BY DEF SendLive, ReplayBatch, TakeBatch, Selecting, dispatcherVars, gateVars, waveVars
<1>2. subscribed \subseteq Topics /\ hwm \in [Topics -> Nat]
  BY InvParts DEF TypeGate, TypeSent
<1>3. \A t \in subscribed : Owed(t)'
  BY <1>2, SendLiveOwed, ReplayOwed DEF DeliveryInv
<1>4. Registering'
  BY <1>1, RegisteringIdle DEF DeliveryInv
<1>5. \E msgs \in SUBSET Envelope, live \in BOOLEAN :
        (\A e \in msgs : Real(e)) /\ SendMessages(hwm, msgs, live)
  <2>1. CASE SendLive
    <3>1. TypeDispatcher /\ RealChannel /\ messagesCh # <<>>
          /\ SendMessages(hwm, {Head(messagesCh)}, TRUE)
      BY <2>1, InvParts DEF SendLive
    <3>2. PICK x \in Envelope : x = Head(messagesCh) /\ Real(x)
      BY <3>1, ChannelTail DEF RealChannel
    <3>3. {x} \in SUBSET Envelope /\ (\A e \in {x} : Real(e)) /\ SendMessages(hwm, {x}, TRUE)
      BY <3>1, <3>2
    <3>. QED
      BY <3>3
  <2>2. CASE ReplayBatch
    <3>1. PICK msgs : msgs = {m \in Taken.msgs : Wanted(Taken.wave, m.topic)}
      OBVIOUS
    <3>2. TakeBatch /\ UNCHANGED table /\ SendMessages(hwm, msgs, FALSE)
      BY <2>2, <3>1 DEF ReplayBatch, logVars
    <3>3. msgs \in SUBSET Envelope /\ \A e \in msgs : Real(e)
      BY <3>1, <3>2, TakeBatchTypes
    <3>. QED
      BY <3>2, <3>3
  <2>. QED
    BY <2>1, <2>2
<1>6. \A t \in Topics : Followed(t)' => Followed(t)
  BY <1>1 DEF Followed
<1>7. Ordered'
  BY <1>2, <1>5, <1>6, SendOrdered DEF DeliveryInv
<1>. QED
  BY <1>1, <1>3, <1>4, <1>7 DEF DeliveryInv

\* CompleteWave: a history_only topic, whose floor is dropped, is not followed any more.
LEMMA CompleteDelivery ==
  ASSUME Inv, LaneInv, GateInv, BookInv, DeliveryInv, CompleteWave, Inv'
  PROVE  DeliveryInv'
<1>1. UNCHANGED <<subscribed, adding, subTopics>> /\ adding = {}
  BY DEF CompleteWave, TakeBatch, Selecting
<1>2. TypeGate /\ TypeSent /\ TypeWaves /\ RealPending /\ GatedInWave
  BY InvParts DEF GateInv
<1>3. \A t \in subscribed : Owed(t)'
  BY <1>2, CompleteOwed DEF DeliveryInv, TypeGate
<1>4. Registering'
  BY <1>1, RegisteringIdle DEF DeliveryInv
<1> PICK w, T, fold, floors :
      /\ w = Taken.wave /\ T = Settled(w)
      /\ fold = {e \in pending : e.topic \in T \cap catchingUp}
      /\ floors = [u \in Topics |-> IF u \in T \ catchingUp THEN 0 ELSE hwm[u]]
  OBVIOUS
<1>5. SendMessages(floors, fold, FALSE) /\ w \in DOMAIN waves
  BY DEF CompleteWave, FoldIsLive
<1>6. topicWave' = [u \in Topics |-> IF u \in T THEN NoWave ELSE topicWave[u]]
  BY DEF CompleteWave
<1>7. fold \in SUBSET Envelope /\ (\A e \in fold : Real(e)) /\ floors \in [Topics -> Nat]
  BY <1>2 DEF TypeGate, TypeSent, RealPending
<1>8. \A t \in Topics : floors[t] = hwm[t] \/ \A e \in fold : e.topic # t
  OBVIOUS
<1>9. ASSUME NEW t \in Topics, Followed(t)' PROVE Followed(t) /\ floors[t] = hwm[t]
  <2>1. CASE t \in T
    <3>1. t \in subscribed
      BY <2>1, <1>1, <1>6, <1>9 DEF Followed
    <3>2. topicWave[t] # NoWave
      BY <2>1, <1>2, <1>5 DEF Settled, TypeWaves, NoWave
    <3>. QED
      BY <3>1, <3>2, <1>2 DEF GatedInWave, Followed
  <2>2. CASE t \notin T
    BY <2>2, <1>1, <1>6, <1>9 DEF Followed
  <2>. QED
    BY <2>1, <2>2
<1>10. Ordered'
  BY <1>5, <1>7, <1>8, <1>9, SendOrdered DEF DeliveryInv
<1>. QED
  BY <1>1, <1>3, <1>4, <1>10 DEF DeliveryInv

\* A new stream owes nothing.
LEMMA InitDelivery == Init => DeliveryInv
BY DEF Init, DeliveryInv, Registering, Ordered

\* Every step keeps the invariant.
LEMMA NextDelivery ==
  ASSUME Inv, LaneInv, GateInv, BookInv, DeliveryInv, [Next]_vars PROVE DeliveryInv'
<1>1. Inv' /\ GateInv'
  BY NextInv, NextGate
<1>2. ASSUME NEW s \in scans,
             \/ ScanProbe(s) \/ AcquireScanSlot(s)
             \/ \E batch \in SUBSET s.queue : ScanTurn(s, batch)
             \/ ScanDone(s) \/ ScanFails(s)
      PROVE  DeliveryInv'
  BY <1>2, FetchDelivery
<1>3. CASE FailBatch \/ DropStraggler \/ ScanDrained
  BY <1>3, DropDelivery
<1>4. CASE SendLive \/ ReplayBatch
  BY <1>4, SendDelivery
<1>5. CASE CompleteWave
  BY <1>1, <1>5, CompleteDelivery
<1>6. CASE \E m \in Mutates : Mutate(m)
  BY <1>1, <1>6, MutateDelivery
<1>7. CASE \/ \E t \in Topics, known \in BOOLEAN : Publish(t, known)
           \/ \E k \in Kinds : Poll(k)
           \/ HoldEnvelope
  BY <1>7, LaneDelivery
<1>8. CASE \/ UNCHANGED vars \/ StreamEnds \/ HalfClose \/ ConsumerTooSlow \/ Returned
           \/ (\E t \in Topics : SubAdd(t)) \/ (\E m \in Mutates : RefuseMutate(m))
  BY <1>8, FrameDelivery
<1>. QED
  BY <1>2, <1>3, <1>4, <1>5, <1>6, <1>7, <1>8 DEF Next, StreamStep

\* The four invariants together.
FullInv == Inv /\ LaneInv /\ GateInv /\ BookInv /\ DeliveryInv

\* They hold in every reachable state, and a live topic is owed exactly what the lanes hold.
THEOREM DeliveryHolds == Spec => []FullInv
<1>1. Init => FullInv
  BY InitInv, InitLane, InitGate, InitBooks, InitDelivery DEF FullInv
<1>2. FullInv /\ [Next]_vars => FullInv'
  BY NextInv, NextLane, NextGate, NextBooks, NextDelivery DEF FullInv
<1>. QED
  BY <1>1, <1>2, PTL DEF Spec

\* What a live topic's client holds is exactly the rows from its cursor to its high-water
\* mark, each sent once and in ascending order (DeliveredExactly): the dedup of
\* buildGroupFrames and buildWelcomeFrames never skips a row and never repeats one, whatever
\* scan, fold and live lane contributed.
THEOREM ClientsHoldTheirPrefix == Spec => []DeliveredExactly
<1>1. FullInv => DeliveredExactly
  BY DEF FullInv, DeliveryInv, Owed, ExactFor, Ordered, DeliveredExactly
<1>. QED
  BY <1>1, DeliveryHolds, PTL

\* Once its gate is open a live topic has missed nothing the poller passed (NothingLost).
THEOREM NothingIsLost == Spec => []NothingLost
<1>1. ASSUME FullInv, registered, NEW t \in subscribed \ catchingUp,
             NEW i \in Deliverable(t, start[t], polled[Kind(t)])
      PROVE  i \in got[t] \/ InChannel(t, i)
  <2>1. /\ t \in Topics /\ topicWave[t] = NoWave /\ t \notin catchingUp
        /\ TypeFetch /\ TypeWaves /\ TypeLog
    BY <1>1, InvParts DEF FullInv, GateInv, GatedInWave, TypeGate
  <2>2. Owed(t) /\ Inv
    BY <1>1 DEF FullInv, DeliveryInv
  <2>3. hwm[t] \in Nat /\ Latest(Kind(t)) \in Nat
    BY <2>1, <2>2, MissingFacts
  <2>4. CASE i <= hwm[t]
    BY <2>2, <2>4, <1>1 DEF Owed, ExactFor, Deliverable
  <2>5. CASE ~(i <= hwm[t])
    <3>1. i \in Missing(t)
      BY <2>3, <2>5, <1>1 DEF Missing, Deliverable
    <3>2. Reached(t, i)
      BY <1>1 DEF Reached, Deliverable
    <3>3. ~Fetching(t, i)
      BY <2>1, OutsideWave
    <3>4. ASSUME Held(t, i) PROVE FALSE
      <4>1. PICK e \in pending : e = [topic |-> t, id |-> i]
        BY <3>4 DEF Held
      <4>. QED
        BY <4>1, <2>1, <1>1 DEF FullInv, GateInv, HeldIfGated
    <3>. QED
      BY <3>1, <3>2, <3>3, <3>4, <2>2 DEF Owed, LiveCovered
  <2>. QED
    BY <2>4, <2>5
<1>2. FullInv => NothingLost
  BY <1>1 DEF NothingLost, InChannel
<1>. QED
  BY <1>2, DeliveryHolds, PTL

\* A live topic outside every wave has been sent each row that was visible when the Mutate
\* that added it was consumed.
LiveCatchupIsComplete ==
  \A t \in subscribed : topicWave[t] = NoWave => Deliverable(t, start[t], due[t]) \subseteq got[t]

\* CatchupComplete is never misleading for a live topic: what CatchupIsComplete says, for the
\* topics a stream follows live.
THEOREM CatchupOfLiveTopicsIsComplete == Spec => []LiveCatchupIsComplete
<1>1. ASSUME FullInv, NEW t \in subscribed, topicWave[t] = NoWave,
             NEW i \in Deliverable(t, start[t], due[t])
      PROVE  i \in got[t]
  <2>1. t \in Topics /\ TypeFetch /\ TypeWaves /\ Owed(t) /\ Inv
    BY <1>1, InvParts DEF FullInv, DeliveryInv, TypeGate
  <2>2. hwm[t] \in Nat /\ Latest(Kind(t)) \in Nat
    BY <2>1, MissingFacts
  <2>3. ~Fetching(t, i)
    BY <2>1, <1>1, OutsideWave
  <2>4. i <= hwm[t]
    <3>1. SUFFICES ASSUME ~(i <= hwm[t]) PROVE FALSE
      OBVIOUS
    <3>2. i \in Missing(t) /\ i <= due[t]
      BY <2>2, <3>1, <1>1 DEF Missing, Deliverable
    <3>. QED
      BY <3>2, <2>1, <2>3 DEF Owed, DueCovered
  <2>. QED
    BY <2>1, <2>4, <1>1 DEF Owed, ExactFor, Deliverable
<1>2. FullInv => LiveCatchupIsComplete
  BY <1>1 DEF LiveCatchupIsComplete
<1>. QED
  BY <1>2, DeliveryHolds, PTL

\* The seam, for the topics a stream follows live: no live frame for a topic of a wave before
\* the wave's CatchupComplete (Seam; a history_only wave has no gate).
LiveSeam ==
  [][\A t \in subscribed : topicWave[t] # NoWave => lastLive'[t] = lastLive[t]]_vars

\* The gate is closed for as long as the topic is in its wave, and a gated envelope is never
\* sent live.
THEOREM SeamOfLiveTopics == Spec => LiveSeam
<1>1. ASSUME FullInv, [Next]_vars, NEW t \in subscribed, topicWave[t] # NoWave
      PROVE  lastLive'[t] = lastLive[t]
  <2>1. t \in catchingUp /\ t \in Topics /\ Inv
    BY <1>1, InvParts DEF FullInv, GateInv, GatedInWave, TypeGate
  <2>2. CASE SendLive
    <3>1. TypeSent /\ TypeDispatcher
      BY <2>1, InvParts
    <3>2. PICK x \in Envelope : x = Head(messagesCh)
      BY <2>2, <3>1, ChannelTail DEF SendLive
    <3>3. SendMessages(hwm, {x}, TRUE) /\ x.topic \notin catchingUp
      BY <2>2, <3>2 DEF SendLive, Gated
    <3>. QED
      BY <2>1, <3>1, <3>3, SentLive
  <2>3. CASE ReplayBatch
    BY <2>1, <2>3, InvParts, SentLive DEF ReplayBatch
  <2>4. CASE CompleteWave
    <3>1. \E floors, fold : SendMessages(floors, fold, FALSE)
      BY <2>4 DEF CompleteWave, FoldIsLive
    <3>. QED
      BY <2>1, <3>1, InvParts, SentLive
  <2>5. CASE ~(SendLive \/ ReplayBatch \/ CompleteWave)
    BY <2>5, <1>1 DEF Next, StreamStep, Returned, vars, Publish, Poll, StreamEnds, RefuseMutate,
       Mutate, SubAdd, HalfClose, HoldEnvelope, ConsumerTooSlow, ScanProbe, AcquireScanSlot,
       ScanTurn, ScanDone, ScanFails, FailBatch, DropStraggler, ScanDrained, sentVars
  <2>. QED
    BY <2>2, <2>3, <2>4, <2>5
<1>2. FullInv /\ [Next]_vars =>
        [\A t \in subscribed : topicWave[t] # NoWave => lastLive'[t] = lastLive[t]]_vars
  BY <1>1
<1>. QED
  BY <1>2, DeliveryHolds, PTL DEF Spec, LiveSeam

=============================================================================
