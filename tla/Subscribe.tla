------------------------------ MODULE Subscribe ------------------------------
(***************************************************************************)
(* One XIP-83 Subscribe stream of the MLS API (pkg/mls/api/v1/subscribe.go) *)
(* with the parts of the node it runs against:                             *)
(*                                                                         *)
(*   - the message tables of the read replica, one per topic kind, and the *)
(*     poller that walks each of them (pkg/mls/api/v1/worker.go);          *)
(*   - the dispatcher's entry for the stream: its topic set and its        *)
(*     bounded envelope channel (pkg/subscriptions);                       *)
(*   - the single writer, which owns the floors, the catch-up gate, the    *)
(*     pending buffer and the wave bookkeeping;                            *)
(*   - the catch-up fetchers, one goroutine per wave and kind.             *)
(*                                                                         *)
(* A row's id is its position in its table: rows become visible in id      *)
(* order, the assumption written at subscribe.go:653 (module MessageLog is *)
(* about whether the inserts establish it).  Every payload has size 1.     *)
(* Frames are abstracted to the ids they carry, their lane (replay or      *)
(* live) and the CatchupComplete answers.                                  *)
(***************************************************************************)
EXTENDS Integers, Sequences, FiniteSets

CONSTANTS
  Topics,           \* canonical topics (buildMLSTopic)
  WelcomeTopics,    \* the topics of kind welcome; the others are groups
  BadTopic,         \* a wire topic that splitTopic refuses
  Mutates,          \* the Mutate frames a client may send
  MutateIds,        \* the mutate_id values in Mutates
  UnknownRows,      \* whether tables may hold welcomes of an unknown message_type
  MaxRows,          \* bound of the model: per kind, the rows of its table
  MaxMutates,       \* bound of the model: Mutate frames per stream
  Backlog,          \* subscribeBacklog
  MaxPendingBytes,  \* maxPendingBytes
  MaxMutateAdds,    \* maxMutateAdds
  PageLimit,        \* catchUpTopicPageLimit
  BatchTopics,      \* catchUpBatchTopics
  ChannelBuffer,    \* catchUpChannelBuffer
  MaxScans,         \* catchUpMaxConcurrentScans
  MaxCatchUpBytes   \* catchUpMaxPendingBytes

Kinds == {"group", "welcome"}

Kind(t) == IF t \in WelcomeTopics THEN "welcome" ELSE "group"

\* What a client puts in a Mutate.  Adds repeat a topic with several cursors at will.
MutateFrame ==
  [id: MutateIds,
   adds: SUBSET [topic: Topics \cup {BadTopic}, cursor: Nat],
   removes: SUBSET (Topics \cup {BadTopic}),
   historyOnly: BOOLEAN]

ASSUME TopicsAssumption ==
  /\ IsFiniteSet(Topics)
  /\ WelcomeTopics \subseteq Topics
  /\ BadTopic \notin Topics

ASSUME MutatesAssumption ==
  /\ MutateIds \subseteq Nat
  /\ Mutates \subseteq MutateFrame
  /\ \A m \in Mutates : IsFiniteSet(m.adds)

ASSUME BoundsAssumption ==
  /\ MaxRows \in [Kinds -> Nat] /\ MaxMutates \in Nat /\ MaxMutateAdds \in Nat
  /\ MaxPendingBytes \in Nat /\ MaxCatchUpBytes \in Nat \ {0}
  /\ Backlog \in Nat \ {0} /\ PageLimit \in Nat \ {0} /\ BatchTopics \in Nat \ {0}
  /\ ChannelBuffer \in Nat \ {0} /\ MaxScans \in Nat \ {0}
  /\ UnknownRows \in BOOLEAN

\* A wave number no wave has: a topic outside every wave.
NoWave == -1

\* The ghost start of a topic the stream does not follow.
NotFollowed == -1

VARIABLES
  table,        \* per kind, the visible rows in id order
  polled,       \* per kind, the poller's currentID
  subTopics,    \* the dispatcher entry's topic set
  messagesCh,   \* the dispatcher entry's channel
  registered,   \* the entry is in the dispatcher's map (its channel is open)
  hwm,          \* highWaterMarks; 0 is an absent key, as a Go map reads it
  catchingUp,   \* the gated topics
  pending,      \* envelopes held back by the gate
  pendingBytes, \* running count of their bytes
  subscribed,   \* the topics live on this stream
  waves,        \* wave number -> waveState, for the waves in flight
  topicWave,    \* topic -> its wave in flight, or NoWave
  nextWave,
  adding,       \* topics of the Mutate being handled still to be given to sub.Add
  halfClosed,
  status,       \* "open", "ok" (returned nil after a half-close), "ended" (any other return)
  scans,        \* the catch-up goroutines that run
  catchUpCh,    \* the channel from the fetchers to the writer
  catchUpBytes, \* bytes reserved by batches the writer has not taken
  mutates,      \* Mutate frames consumed
  asked,        \* ghost: per mutate_id, the Mutates accepted
  acked,        \* ghost: per mutate_id, the CatchupCompletes sent
  start,        \* ghost: the cursor the client last followed a topic from
  due,          \* ghost: the newest row visible when it did
  got,          \* ghost: the ids sent for the topic since
  misordered,   \* ghost: an id was sent at or below an id sent before it
  lastLive      \* ghost: per topic, the last id sent in the live lane

logVars == <<table, polled>>
dispatcherVars == <<subTopics, messagesCh, registered>>
gateVars == <<catchingUp, pending, pendingBytes, subscribed>>
waveVars == <<waves, topicWave, nextWave>>
fetchVars == <<scans, catchUpCh, catchUpBytes>>
answerVars == <<mutates, asked, acked>>
followVars == <<start, due>>
sentVars == <<hwm, got, misordered, lastLive>>
vars == <<logVars, dispatcherVars, sentVars, gateVars, waveVars, adding, halfClosed, status,
          fetchVars, answerVars, followVars>>

-----------------------------------------------------------------------------
(* Data.                                                                   *)

Row == [topic: Topics, known: BOOLEAN]
Envelope == [topic: Topics, id: Nat]
WaveState == [mutateID: Nat, scansLeft: Int, owned: Int, topics: SUBSET Topics]
Catchup == [topic: Topics, cursor: Nat]
Scan == [wave: Nat, kind: Kinds, pc: {"probe", "park", "turn"}, slot: BOOLEAN,
         ceiling: Nat, queue: SUBSET Catchup]
CatchUpBatch == [wave: Nat, msgs: SUBSET Envelope, done: BOOLEAN, err: BOOLEAN]

TypeLog ==
  /\ table \in [Kinds -> Seq(Row)]
  /\ polled \in [Kinds -> Nat]
TypeDispatcher ==
  /\ subTopics \subseteq Topics
  /\ messagesCh \in Seq(Envelope) /\ Len(messagesCh) <= Backlog
  /\ registered \in BOOLEAN
TypeSent ==
  /\ hwm \in [Topics -> Nat]
  /\ got \in [Topics -> SUBSET Nat]
  /\ misordered \in BOOLEAN
  /\ lastLive \in [Topics -> Nat]
TypeGate ==
  /\ catchingUp \subseteq Topics
  /\ pending \subseteq Envelope
  /\ pendingBytes \in Int
  /\ subscribed \subseteq Topics
  /\ adding \subseteq Topics
TypeWaves ==
  /\ nextWave \in Nat
  /\ DOMAIN waves \subseteq 0..(nextWave - 1)
  /\ waves \in [DOMAIN waves -> WaveState]
  /\ topicWave \in [Topics -> Nat \cup {NoWave}]
TypeStatus ==
  /\ halfClosed \in BOOLEAN
  /\ status \in {"open", "ok", "ended"}
TypeFetch ==
  /\ scans \subseteq Scan
  /\ catchUpCh \in Seq(CatchUpBatch) /\ Len(catchUpCh) <= ChannelBuffer
  /\ catchUpBytes \in Int
TypeAnswers ==
  /\ mutates \in Nat
  /\ asked \in [MutateIds -> Nat]
  /\ acked \in [MutateIds -> Nat]
TypeFollow ==
  /\ start \in [Topics -> Nat \cup {NotFollowed}]
  /\ due \in [Topics -> Nat]

\* The state is well formed; the two channels never exceed their capacity, and the waves
\* in flight have numbers already given out.
TypeOK ==
  /\ TypeLog /\ TypeDispatcher /\ TypeSent /\ TypeGate /\ TypeWaves
  /\ TypeStatus /\ TypeFetch /\ TypeAnswers /\ TypeFollow

Latest(k) == Len(table[k])

Greatest(S) == CHOOSE i \in S : \A j \in S : j <= i
Least(S) == CHOOSE i \in S : \A j \in S : i <= j

Init ==
  /\ table = [k \in Kinds |-> <<>>]
  /\ polled = [k \in Kinds |-> 0]
  /\ subTopics = {}
  /\ messagesCh = <<>>
  /\ registered = TRUE
  /\ hwm = [t \in Topics |-> 0]
  /\ catchingUp = {}
  /\ pending = {}
  /\ pendingBytes = 0
  /\ subscribed = {}
  /\ waves = [w \in {} |-> 0]
  /\ topicWave = [t \in Topics |-> NoWave]
  /\ nextWave = 0
  /\ adding = {}
  /\ halfClosed = FALSE
  /\ status = "open"
  /\ scans = {}
  /\ catchUpCh = <<>>
  /\ catchUpBytes = 0
  /\ mutates = 0
  /\ asked = [i \in MutateIds |-> 0]
  /\ acked = [i \in MutateIds |-> 0]
  /\ start = [t \in Topics |-> NotFollowed]
  /\ due = [t \in Topics |-> 0]
  /\ got = [t \in Topics |-> {}]
  /\ misordered = FALSE
  /\ lastLive = [t \in Topics |-> 0]

-----------------------------------------------------------------------------
(* The message tables, the poller and the dispatcher.                      *)

\* A row becomes visible on the replica.  Only a welcome can have a message_type this
\* node does not know (a newer node wrote it).
Publish(t, known) ==
  /\ status = "open"
  /\ Latest(Kind(t)) < MaxRows[Kind(t)]
  /\ known \/ (UnknownRows /\ t \in WelcomeTopics)
  /\ table' = [table EXCEPT ![Kind(t)] = Append(@, [topic |-> t, known |-> known])]
  /\ UNCHANGED <<polled, dispatcherVars, sentVars, gateVars, waveVars, adding, halfClosed,
                 status, fetchVars, answerVars, followVars>>

\* HandleEnvelope, as this stream's entry sees it: a full channel is closed and the entry
\* deleted.  A closed channel still hands out what it buffered.
HandleEnvelope(e) ==
  IF ~registered \/ e.topic \notin subTopics
  THEN UNCHANGED dispatcherVars
  ELSE /\ UNCHANGED subTopics
       /\ IF Len(messagesCh) < Backlog
          THEN messagesCh' = Append(messagesCh, e) /\ UNCHANGED registered
          ELSE registered' = FALSE /\ UNCHANGED messagesCh

\* The poller takes the next row of a table and hands it to the dispatcher; a welcome of
\* an unknown type is skipped, and the cursor moves past it.
Poll(k) ==
  /\ status = "open"
  /\ polled[k] < Latest(k)
  /\ polled' = [polled EXCEPT ![k] = @ + 1]
  /\ LET row == table[k][polled[k] + 1]
     IN  IF row.known
         THEN HandleEnvelope([topic |-> row.topic, id |-> polled[k] + 1])
         ELSE UNCHANGED dispatcherVars
  /\ UNCHANGED <<table, sentVars, gateVars, waveVars, adding, halfClosed, status, fetchVars,
                 answerVars, followVars>>

-----------------------------------------------------------------------------
(* Sending.                                                                *)

\* The stream reports on a topic while it is live or in a wave.
Followed(t) == t \in subscribed \/ topicWave[t] # NoWave

\* The high-water dedup of buildGroupFrames and buildWelcomeFrames.
Deduped(floors, msgs) == {m \in msgs : m.id > floors[m.topic]}

IdsOf(msgs, t) == {m.id : m \in {e \in msgs : e.topic = t}}

\* buildGroupFrames / buildWelcomeFrames followed by send: the survivors of the dedup go
\* out in ascending id order and each topic's mark ends at its last id.
SendMessages(floors, msgs, live) ==
  LET sent == Deduped(floors, msgs)
      new(t) == IdsOf(sent, t)
  IN  /\ hwm' = [t \in Topics |-> IF new(t) = {} THEN floors[t] ELSE Greatest(new(t))]
      /\ got' = [t \in Topics |-> IF Followed(t) THEN got[t] \cup new(t) ELSE got[t]]
      /\ misordered' = (misordered \/ \E t \in Topics :
                          Followed(t) /\ \E i \in new(t), j \in got[t] : i <= j)
      /\ lastLive' = [t \in Topics |->
                        IF live /\ new(t) # {} THEN Greatest(new(t)) ELSE lastLive[t]]

\* The writer returns: deferred, sub.Unsubscribe deletes the dispatcher's entry.
Return(s) == status' = s /\ registered' = FALSE

\* The writer is at its select, between two events.
Selecting == status = "open" /\ adding = {}

\* ctx.Done, s.ctx.Done, an error on sendErrCh, a send stalled past the pong deadline, a
\* transport failure on Recv, a request of an unknown version, or a missed Pong.
StreamEnds ==
  /\ Selecting
  /\ Return("ended")
  /\ UNCHANGED <<logVars, subTopics, messagesCh, sentVars, gateVars, waveVars, adding,
                 halfClosed, fetchVars, answerVars, followVars>>

-----------------------------------------------------------------------------
(* Mutate.                                                                 *)

Active == subscribed \cup catchingUp

AddTopics(m) == {a.topic : a \in m.adds}

\* Duplicate adds of a topic collapse, the lowest cursor winning.
Cursor(m, t) == Least({a.cursor : a \in {b \in m.adds : b.topic = t}})

\* What is refused before the frame changes any state.
Malformed(m) ==
  \/ m.adds # {} /\ m.id = 0
  \/ Cardinality(m.adds) > MaxMutateAdds
  \/ m.id # 0 /\ \E w \in DOMAIN waves : waves[w].mutateID = m.id
  \/ BadTopic \in AddTopics(m)

\* An add over an in-flight history_only catch-up, or a history_only add over a live
\* topic; removes of the same frame come first and lift either.
Conflicting(m) ==
  \E t \in AddTopics(m) \ m.removes :
     \/ topicWave[t] # NoWave /\ t \notin Active
     \/ m.historyOnly /\ t \in Active

\* Live topics re-added below their mark: dropped and replayed.
Resets(m) ==
  {t \in (AddTopics(m) \ m.removes) \cap Active : Cursor(m, t) < hwm[t]}

\* The adds that catch up; the others are no-ops.
Fresh(m) == Resets(m) \cup (AddTopics(m) \ (Active \ m.removes))

\* dropTopic for every topic of D: the topics a wave loses, and the waves left owning none.
Lost(w, D) == {t \in D : topicWave[t] = w}
Emptied(D) ==
  {w \in DOMAIN waves : Lost(w, D) # {} /\ waves[w].owned - Cardinality(Lost(w, D)) <= 0}
\* Mutant of KeptWaves: a wave keeps the count of the topics it lost.
KeptWavesUncounted(D) == [w \in DOMAIN waves \ Emptied(D) |-> waves[w]]
KeptWaves(D) ==
  [w \in DOMAIN waves \ Emptied(D) |->
     [waves[w] EXCEPT !.owned = @ - Cardinality(Lost(w, D))]]

\* Mutant of Discarded: a dropped topic leaves its buffer behind.
DiscardedNone(D) == {}

\* The pending envelopes dropTopic discards.
Discarded(D) == {e \in pending : e.topic \in D \cap catchingUp}

\* Mutant of EarlyAnswers: a wave emptied by a remove is deleted without an answer.
EarlyAnswersForgotten(D, i) == 0

\* The CatchupCompletes that dropping D sends with a mutate_id.
EarlyAnswers(D, i) == Cardinality({w \in Emptied(D) : waves[w].mutateID = i})

\* A Mutate refused: before any effect, on a bad remove, or on a conflicting add.  The
\* drops already made have sent their CatchupCompletes.
RefuseMutate(m) ==
  /\ Selecting /\ ~halfClosed
  /\ mutates < MaxMutates
  /\ mutates' = mutates + 1
  /\ \E D \in SUBSET Topics :
       /\ \/ Malformed(m) /\ D = {}
          \/ /\ ~Malformed(m) /\ BadTopic \in m.removes
             /\ D \subseteq m.removes
          \/ /\ ~Malformed(m) /\ BadTopic \notin m.removes /\ Conflicting(m)
             /\ m.removes \subseteq D /\ D \subseteq m.removes \cup Resets(m)
       /\ acked' = [i \in MutateIds |-> acked[i] + EarlyAnswers(D, i)]
  /\ Return("ended")
  /\ UNCHANGED <<logVars, subTopics, messagesCh, sentVars, gateVars, waveVars, adding,
                 halfClosed, fetchVars, asked, followVars>>

\* The scans a wave starts: one goroutine per kind it adds.
NewScans(m, A) ==
  {[wave |-> nextWave, kind |-> k, pc |-> "probe", slot |-> FALSE, ceiling |-> 0,
    queue |-> {[topic |-> t, cursor |-> Cursor(m, t)] : t \in {u \in A : Kind(u) = k}}] :
     k \in {Kind(t) : t \in A}}

NewWave(m, A) ==
  [mutateID |-> m.id, scansLeft |-> Cardinality({Kind(t) : t \in A}),
   owned |-> Cardinality(A), topics |-> A]

\* A Mutate accepted: removes and resets are dropped, then the fresh adds take their
\* cursor as floor and, unless history_only, are gated and made live; sub.Add of each
\* follows (SubAdd), then the wave's scans start.  A Mutate with no fresh add is answered
\* at once.
Mutate(m) ==
  /\ Selecting /\ ~halfClosed
  /\ mutates < MaxMutates
  /\ ~Malformed(m) /\ BadTopic \notin m.removes /\ ~Conflicting(m)
  /\ mutates' = mutates + 1
  /\ LET D == m.removes \cup Resets(m)
         A == Fresh(m)
         gated == IF m.historyOnly THEN {} ELSE A
     IN  /\ subTopics' = subTopics \ D
         /\ adding' = gated
         /\ subscribed' = (subscribed \ D) \cup gated
         /\ catchingUp' = (catchingUp \ D) \cup gated
         /\ pending' = pending \ Discarded(D)
         /\ pendingBytes' = pendingBytes - Cardinality(Discarded(D))
         /\ hwm' = [t \in Topics |-> IF t \in A THEN Cursor(m, t)
                                     ELSE IF t \in D THEN 0 ELSE hwm[t]]
         /\ topicWave' = [t \in Topics |-> IF t \in A THEN nextWave
                                           ELSE IF t \in D THEN NoWave ELSE topicWave[t]]
         /\ IF A = {}
            THEN waves' = KeptWaves(D) /\ UNCHANGED <<nextWave, scans>>
            ELSE /\ waves' = [w \in DOMAIN KeptWaves(D) \cup {nextWave} |->
                                IF w = nextWave THEN NewWave(m, A) ELSE KeptWaves(D)[w]]
                 /\ nextWave' = nextWave + 1
                 /\ scans' = scans \cup NewScans(m, A)
         /\ asked' = [asked EXCEPT ![m.id] = @ + 1]
         /\ acked' = [i \in MutateIds |-> acked[i] + EarlyAnswers(D, i)
                                          + IF A = {} /\ i = m.id THEN 1 ELSE 0]
         /\ start' = [t \in Topics |-> IF t \in A THEN Cursor(m, t)
                                       ELSE IF t \in D THEN NotFollowed ELSE start[t]]
         /\ due' = [t \in Topics |-> IF t \in A THEN Latest(Kind(t)) ELSE due[t]]
         /\ got' = [t \in Topics |-> IF t \in A \cup D THEN {} ELSE got[t]]
  /\ UNCHANGED <<logVars, messagesCh, registered, misordered, lastLive, halfClosed, status,
                 catchUpCh, catchUpBytes>>

\* sub.Add of one topic, under the dispatcher's mutex: the poller runs between two of them.
SubAdd(t) ==
  /\ status = "open"
  /\ t \in adding
  /\ adding' = adding \ {t}
  /\ subTopics' = subTopics \cup {t}
  /\ UNCHANGED <<logVars, messagesCh, registered, sentVars, gateVars, waveVars, halfClosed,
                 status, fetchVars, answerVars, followVars>>

\* The client closes its sending side.
HalfClose ==
  /\ Selecting /\ ~halfClosed
  /\ IF DOMAIN waves = {}
     THEN Return("ok") /\ UNCHANGED halfClosed
     ELSE halfClosed' = TRUE /\ UNCHANGED <<status, registered>>
  /\ UNCHANGED <<logVars, subTopics, messagesCh, sentVars, gateVars, waveVars, adding,
                 fetchVars, answerVars, followVars>>

-----------------------------------------------------------------------------
(* The live lane.                                                          *)

\* Mutant of Gated: live envelopes pass during catch-up.
GatedNever(t) == FALSE

\* Catch-up in progress: live envelopes wait.
Gated(t) == t \in catchingUp

\* An envelope of a gated topic is buffered; past the cap the stream is dropped.
HoldEnvelope ==
  /\ Selecting /\ messagesCh # <<>>
  /\ Gated(Head(messagesCh).topic)
  /\ messagesCh' = Tail(messagesCh)
  /\ pending' = pending \cup {Head(messagesCh)}
  /\ pendingBytes' = pendingBytes + 1
  /\ IF pendingBytes + 1 > MaxPendingBytes
     THEN Return("ended")
     ELSE UNCHANGED <<status, registered>>
  /\ UNCHANGED <<logVars, subTopics, sentVars, catchingUp, subscribed, waveVars, adding,
                 halfClosed, fetchVars, answerVars, followVars>>

\* Any other envelope goes out in the live lane (mutate_id 0).
SendLive ==
  /\ Selecting /\ messagesCh # <<>>
  /\ ~Gated(Head(messagesCh).topic)
  /\ messagesCh' = Tail(messagesCh)
  /\ SendMessages(hwm, {Head(messagesCh)}, TRUE)
  /\ UNCHANGED <<logVars, subTopics, registered, gateVars, waveVars, adding, halfClosed,
                 status, fetchVars, answerVars, followVars>>

\* The channel is closed and drained: "consumer too slow".
ConsumerTooSlow ==
  /\ Selecting /\ messagesCh = <<>> /\ ~registered
  /\ Return("ended")
  /\ UNCHANGED <<logVars, subTopics, messagesCh, sentVars, gateVars, waveVars, adding,
                 halfClosed, fetchVars, answerVars, followVars>>

-----------------------------------------------------------------------------
(* The catch-up fetchers: catchUpGroups and catchUpWelcomes.               *)

\* Mutant of Spawned: the scans start before the topics are registered.
SpawnedEarly(s) == TRUE

\* A wave's goroutines start after the sub.Add of every topic it gates.
Spawned(s) == s.wave = nextWave - 1 => adding = {}

\* Topics already at the ceiling are pruned without a query.
Unpruned(queue, ceiling) == {q \in queue : q.cursor < ceiling}

\* The first ceiling snapshot, taken without a slot.
ScanProbe(s) ==
  /\ status = "open" /\ s.pc = "probe" /\ Spawned(s)
  /\ LET queue == Unpruned(s.queue, Latest(s.kind))
     IN  scans' = (scans \ {s}) \cup
                    {[s EXCEPT !.pc = IF queue = {} THEN "turn" ELSE "park",
                               !.ceiling = Latest(s.kind), !.queue = queue]}
  /\ UNCHANGED <<logVars, dispatcherVars, sentVars, gateVars, waveVars, adding, halfClosed,
                 status, catchUpCh, catchUpBytes, answerVars, followVars>>

\* A scan with rows to replay gets a slot and refreshes its ceiling; a refresh that fails
\* leaves the first one.
AcquireScanSlot(s) ==
  /\ status = "open" /\ s.pc = "park"
  /\ Cardinality({r \in scans : r.slot}) < MaxScans
  /\ \E c \in {s.ceiling, Latest(s.kind)} :
       scans' = (scans \ {s}) \cup {[s EXCEPT !.pc = "turn", !.slot = TRUE, !.ceiling = c]}
  /\ UNCHANGED <<logVars, dispatcherVars, sentVars, gateVars, waveVars, adding, halfClosed,
                 status, catchUpCh, catchUpBytes, answerVars, followVars>>

\* QueryGroupMessagesWaveScan / QueryWelcomeMessagesWaveScan: the first PageLimit rows of
\* a topic above its cursor, up to the ceiling.  The page counts the rows of an unknown
\* type; the messages do not.
RawRows(k, q, ceiling) == {i \in (q.cursor + 1)..ceiling : table[k][i].topic = q.topic}
Page(k, q, ceiling) ==
  LET raw == RawRows(k, q, ceiling)
  IN  {i \in raw : Cardinality({j \in raw : j <= i}) <= PageLimit}
\* Mutant of PageMessages: a row of an unknown type is sent too.
PageMessagesUnparsed(k, q, ceiling) ==
  {[topic |-> q.topic, id |-> i] : i \in Page(k, q, ceiling)}
PageMessages(k, q, ceiling) ==
  {[topic |-> q.topic, id |-> i] : i \in {j \in Page(k, q, ceiling) : table[k][j].known}}

\* Mutant of Rotated: the page is judged by its parsed messages.
RotatedByMessages(k, batch, ceiling) ==
  {[q EXCEPT !.cursor = Greatest(Page(k, q, ceiling))] :
     q \in {r \in batch : Cardinality(PageMessages(k, r, ceiling)) >= PageLimit}}

\* A topic that filled its page may have more rows: it rotates with its cursor at the last
\* row of the page; any other topic retires.
Rotated(k, batch, ceiling) ==
  {[q EXCEPT !.cursor = Greatest(Page(k, q, ceiling))] :
     q \in {r \in batch : Cardinality(Page(k, r, ceiling)) >= PageLimit}}

\* Mutant of MayReserve: an empty lane admits no over-budget turn.
MayReserveWithinBudget(n) == catchUpBytes + n <= MaxCatchUpBytes

\* Room in the byte budget: an empty lane admits any turn.
MayReserve(n) == catchUpBytes = 0 \/ catchUpBytes + n <= MaxCatchUpBytes

\* One turn: query a batch of topics, reserve its bytes and hand it over.  Rows at or
\* below the ceiling never change, so the query and the handover are one step.  The
\* batches are taken in any order, the code's rotation among them.
ScanTurn(s, batch) ==
  /\ status = "open" /\ s.pc = "turn"
  /\ s.queue # {} /\ batch \subseteq s.queue
  /\ Cardinality(batch) = IF Cardinality(s.queue) < BatchTopics
                          THEN Cardinality(s.queue) ELSE BatchTopics
  /\ LET msgs == UNION {PageMessages(s.kind, q, s.ceiling) : q \in batch}
     IN  IF msgs = {}
         THEN UNCHANGED <<catchUpCh, catchUpBytes>>
         ELSE /\ MayReserve(Cardinality(msgs))
              /\ Len(catchUpCh) < ChannelBuffer
              /\ catchUpBytes' = catchUpBytes + Cardinality(msgs)
              /\ catchUpCh' = Append(catchUpCh, [wave |-> s.wave, msgs |-> msgs,
                                                 done |-> FALSE, err |-> FALSE])
  /\ scans' = (scans \ {s}) \cup
                {[s EXCEPT !.queue = (@ \ batch) \cup Rotated(s.kind, batch, s.ceiling)]}
  /\ UNCHANGED <<logVars, dispatcherVars, sentVars, gateVars, waveVars, adding, halfClosed,
                 status, answerVars, followVars>>

\* The queue is empty: the done marker is handed over, then the slot is released.
ScanDone(s) ==
  /\ status = "open" /\ s.pc = "turn" /\ s.queue = {}
  /\ Len(catchUpCh) < ChannelBuffer
  /\ catchUpCh' = Append(catchUpCh, [wave |-> s.wave, msgs |-> {}, done |-> TRUE,
                                     err |-> FALSE])
  /\ scans' = scans \ {s}
  /\ UNCHANGED <<logVars, dispatcherVars, sentVars, gateVars, waveVars, adding, halfClosed,
                 status, catchUpBytes, answerVars, followVars>>

\* A query fails: the error is handed over and the scan gives up.
ScanFails(s) ==
  /\ status = "open"
  /\ \/ s.pc = "probe" /\ Spawned(s)
     \/ s.pc = "turn" /\ s.queue # {}
  /\ Len(catchUpCh) < ChannelBuffer
  /\ catchUpCh' = Append(catchUpCh, [wave |-> 0, msgs |-> {}, done |-> FALSE, err |-> TRUE])
  /\ scans' = scans \ {s}
  /\ UNCHANGED <<logVars, dispatcherVars, sentVars, gateVars, waveVars, adding, halfClosed,
                 status, catchUpBytes, answerVars, followVars>>

-----------------------------------------------------------------------------
(* The replay lane: the writer takes a batch.                              *)

TakeBatch ==
  /\ Selecting /\ catchUpCh # <<>>
  /\ catchUpCh' = Tail(catchUpCh)
  /\ UNCHANGED scans

Taken == Head(catchUpCh)

FailBatch ==
  /\ TakeBatch /\ Taken.err
  /\ Return("ended")
  /\ UNCHANGED <<logVars, subTopics, messagesCh, sentVars, gateVars, waveVars, adding,
                 halfClosed, catchUpBytes, answerVars, followVars>>

\* Every other batch frees its bytes, whatever becomes of it.
FreeBytes == catchUpBytes' = catchUpBytes - Cardinality(Taken.msgs)

\* The wave completed early: its stragglers are dropped.
DropStraggler ==
  /\ TakeBatch /\ ~Taken.err /\ Taken.wave \notin DOMAIN waves
  /\ FreeBytes
  /\ UNCHANGED <<logVars, dispatcherVars, sentVars, gateVars, waveVars, adding, halfClosed,
                 status, answerVars, followVars>>

\* Mutant of Wanted: any wave of the topic will do.
WantedAnyWave(w, t) == topicWave[t] # NoWave

\* The batch's wave still owns the topic: it was neither removed nor reset since.
Wanted(w, t) == topicWave[t] = w

ReplayBatch ==
  /\ TakeBatch /\ ~Taken.err /\ Taken.wave \in DOMAIN waves /\ ~Taken.done
  /\ FreeBytes
  /\ SendMessages(hwm, {m \in Taken.msgs : Wanted(Taken.wave, m.topic)}, FALSE)
  /\ UNCHANGED <<logVars, dispatcherVars, gateVars, waveVars, adding, halfClosed, status,
                 answerVars, followVars>>

\* A scan of the wave ended, another still runs.
ScanDrained ==
  /\ TakeBatch /\ ~Taken.err /\ Taken.wave \in DOMAIN waves /\ Taken.done
  /\ FreeBytes
  /\ waves[Taken.wave].scansLeft > 1
  /\ waves' = [waves EXCEPT ![Taken.wave].scansLeft = @ - 1]
  /\ UNCHANGED <<logVars, dispatcherVars, sentVars, gateVars, topicWave, nextWave, adding,
                 halfClosed, status, answerVars, followVars>>

\* The topics completeWave settles: the wave's topics it still owns.
Settled(w) == {t \in waves[w].topics : topicWave[t] = w}

\* Mutant of LastWave: asked before the wave is deleted.
LastWaveEarly(w) == DOMAIN waves = {}

\* Nothing is in flight once wave w is gone.
LastWave(w) == DOMAIN waves = {w}

\* Mutant of FoldIsLive: the folded buffer goes out with mutate_id 0.
FoldWithLiveTag == TRUE

\* The lane in which completeWave sends the buffer it folds in: the wave's own.
FoldIsLive == FALSE

\* The wave's last scan ended, completeWave: fold the gated buffer in, in the wave's lane,
\* answer with CatchupComplete and open the gates.  A history_only topic loses its floor.
\* A half-closed stream returns with its last wave.
CompleteWave ==
  /\ TakeBatch /\ ~Taken.err /\ Taken.wave \in DOMAIN waves /\ Taken.done
  /\ FreeBytes
  /\ waves[Taken.wave].scansLeft <= 1
  /\ LET w == Taken.wave
         T == Settled(w)
         fold == {e \in pending : e.topic \in T \cap catchingUp}
         floors == [t \in Topics |-> IF t \in T \ catchingUp THEN 0 ELSE hwm[t]]
         i == waves[w].mutateID
     IN  /\ SendMessages(floors, fold, FoldIsLive)
         /\ topicWave' = [t \in Topics |-> IF t \in T THEN NoWave ELSE topicWave[t]]
         /\ catchingUp' = catchingUp \ T
         /\ pending' = pending \ fold
         /\ pendingBytes' = pendingBytes - Cardinality(fold)
         /\ waves' = [v \in DOMAIN waves \ {w} |-> waves[v]]
         /\ acked' = [acked EXCEPT ![i] = @ + 1]
         /\ IF halfClosed /\ LastWave(w)
            THEN Return("ok")
            ELSE UNCHANGED <<status, registered>>
  /\ UNCHANGED <<logVars, subTopics, messagesCh, subscribed, nextWave, adding, halfClosed,
                 mutates, asked, followVars>>

-----------------------------------------------------------------------------

\* After its return a stream takes no step.
Returned == status # "open" /\ UNCHANGED vars

\* What the node does by itself, and how the client or its connection ends the stream.
StreamStep ==
  \/ \E t \in Topics, known \in BOOLEAN : Publish(t, known)
  \/ \E k \in Kinds : Poll(k)
  \/ StreamEnds
  \/ \E t \in Topics : SubAdd(t)
  \/ HalfClose
  \/ HoldEnvelope
  \/ SendLive
  \/ ConsumerTooSlow
  \/ \E s \in scans : ScanProbe(s)
  \/ \E s \in scans : AcquireScanSlot(s)
  \/ \E s \in scans : \E batch \in SUBSET s.queue : ScanTurn(s, batch)
  \/ \E s \in scans : ScanDone(s)
  \/ \E s \in scans : ScanFails(s)
  \/ FailBatch
  \/ DropStraggler
  \/ ReplayBatch
  \/ ScanDrained
  \/ CompleteWave
  \/ Returned

Next ==
  \/ \E m \in Mutates : RefuseMutate(m)
  \/ \E m \in Mutates : Mutate(m)
  \/ StreamStep

Spec == Init /\ [][Next]_vars

\* The Go scheduler runs every goroutine that can move and select picks at random among
\* its ready cases: the handler of a Mutate finishes, the fetchers move, the writer takes
\* the batches handed to it.  Nothing makes a client publish, mutate, half-close or leave.
FetchStep ==
  \E s \in scans : \/ ScanProbe(s) \/ AcquireScanSlot(s) \/ ScanDone(s)
                  \/ \E batch \in SUBSET s.queue : ScanTurn(s, batch)
BatchStep == FailBatch \/ DropStraggler \/ ReplayBatch \/ ScanDrained \/ CompleteWave

Fairness ==
  /\ WF_vars(\E t \in Topics : SubAdd(t))
  /\ WF_vars(FetchStep)
  /\ WF_vars(BatchStep)

FairSpec == Spec /\ Fairness

-----------------------------------------------------------------------------
(* Properties.                                                             *)

\* The rows of a topic a client can be sent, between a cursor and an id.
Deliverable(t, above, upTo) ==
  {i \in 1..Latest(Kind(t)) : /\ table[Kind(t)][i].topic = t /\ table[Kind(t)][i].known
                             /\ above < i /\ i <= upTo}

\* What moves through the stream is real: an envelope in the channel, in the pending
\* buffer or in a catch-up batch is a deliverable row of its topic, a scan looks no
\* further than its table and only at topics of its kind, the poller is not ahead.
Real(e) ==
  LET k == Kind(e.topic)
  IN  /\ e.id \in 1..Latest(k)
      /\ table[k][e.id].topic = e.topic /\ table[k][e.id].known
RealChannel == \A n \in 1..Len(messagesCh) : Real(messagesCh[n])
RealPending == \A e \in pending : Real(e)
RealBatches == \A n \in 1..Len(catchUpCh) : \A e \in catchUpCh[n].msgs : Real(e)
RealScans ==
  \A s \in scans : s.ceiling <= Latest(s.kind) /\ \A q \in s.queue : Kind(q.topic) = s.kind
RealPolled == \A k \in Kinds : polled[k] <= Latest(k)
RealTables == \A k \in Kinds : \A i \in 1..Latest(k) : Kind(table[k][i].topic) = k
RealRows == RealTables /\ RealChannel /\ RealPending /\ RealBatches /\ RealScans /\ RealPolled

\* What a live topic's client holds is exactly the rows from its cursor to its high-water
\* mark, each sent once and in ascending order, whatever scan, buffered fold and live
\* lane contributed to it and however often it was removed, reset or re-added.
DeliveredExactly ==
  /\ \A t \in subscribed : got[t] = Deliverable(t, start[t], hwm[t])
  /\ ~misordered

\* Once its gate is open a live topic has missed nothing the poller passed: every row
\* from the cursor to the poller's position was sent or waits in the stream's channel
\* (until the dispatcher closes the channel and with it the stream).
NothingLost ==
  registered => \A t \in subscribed \ catchingUp :
    \A i \in Deliverable(t, start[t], polled[Kind(t)]) :
      i \in got[t] \/ \E n \in 1..Len(messagesCh) : messagesCh[n] = [topic |-> t, id |-> i]

\* A topic that left its wave by completion has been sent every row that was visible when
\* the Mutate that added it was consumed: CatchupComplete is never misleading.
CatchupIsComplete ==
  \A t \in Topics :
    start[t] # NotFollowed /\ topicWave[t] = NoWave =>
      Deliverable(t, start[t], due[t]) \subseteq got[t]

\* Every Mutate accepted is answered by exactly one CatchupComplete echoing its mutate_id,
\* or its wave is in flight; a stream that returns OK owes none.
AnsweredOnce ==
  /\ status # "ended" =>
       \A i \in MutateIds :
         asked[i] = acked[i] + Cardinality({w \in DOMAIN waves : waves[w].mutateID = i})
  /\ status = "ok" => DOMAIN waves = {}

\* The books of a wave: it owns the topics that point to it, at least one, and waits for
\* as many scans as run or have their done marker in the channel, at least one (unless a
\* scan failed, and its error is about to end the stream).
WaveBooks ==
  status = "open" =>
    \A w \in DOMAIN waves :
      /\ waves[w].owned = Cardinality({t \in Topics : topicWave[t] = w})
      /\ waves[w].owned > 0
      /\ \/ \E n \in 1..Len(catchUpCh) : catchUpCh[n].err
         \/ /\ waves[w].scansLeft =
                   Cardinality({s \in scans : s.wave = w})
                   + Cardinality({n \in 1..Len(catchUpCh) :
                                    catchUpCh[n].wave = w /\ catchUpCh[n].done})
            /\ waves[w].scansLeft > 0

\* No gate is left closed with nobody to open it: a gated topic is live and belongs to a
\* wave in flight, envelopes are held only for gated topics, and their byte count is exact.
GatesHaveOwners ==
  /\ \A t \in Topics : topicWave[t] # NoWave => topicWave[t] \in DOMAIN waves
  /\ catchingUp = {t \in subscribed : topicWave[t] # NoWave}
  /\ \A e \in pending : e.topic \in catchingUp
  /\ pendingBytes = Cardinality(pending)

\* The live lane is totally ordered per kind.
LiveLaneOrdered ==
  [][\A t, u \in Topics : Kind(t) = Kind(u) /\ lastLive'[t] # lastLive[t] =>
        lastLive'[t] > lastLive[u]]_vars

\* The seam: no live frame for a topic of a wave before the wave's CatchupComplete.
Seam ==
  [][\A t \in Topics : topicWave[t] # NoWave /\ topicWave'[t] = topicWave[t] =>
        lastLive'[t] = lastLive[t]]_vars

\* Every wave completes or the stream ends.
WavesComplete ==
  \A w \in 0..(MaxMutates - 1) : w \in DOMAIN waves ~> w \notin DOMAIN waves \/ status # "open"

\* A half-closed stream returns.
HalfClosedReturns == halfClosed ~> status # "open"
=============================================================================
