------------------------ MODULE LegacySubscribeProofs ------------------------
(***************************************************************************)
(* Proofs about LegacySubscribe, for any topics, requests, page size and   *)
(* channel capacity: the history fetches and the live channel, joined by   *)
(* nothing but a high-water mark per topic, leave no gap and repeat        *)
(* nothing.                                                                *)
(*                                                                         *)
(* A page of nothing but welcomes of an unknown type ends a fetch early    *)
(* (a response without messages is taken for the end).  What is said of    *)
(* completeness is therefore said under PagesShow, that there are fewer of *)
(* them than a page holds.                                                 *)
(***************************************************************************)
EXTENDS LegacySubscribe, FiniteSetTheorems, WellFoundedInduction, TLAPS

-----------------------------------------------------------------------------
(* Sets of ids.                                                            *)

Below == {p \in Nat \X Nat : p[1] < p[2]}

\* A nonempty set of ids has a least one.
LEMMA LeastId ==
  ASSUME NEW S, S \subseteq Nat, S # {}
  PROVE  \E x \in S : \A y \in S : x <= y
<1>1. OpToRel(<, Nat) = Below
  BY DEF OpToRel, Below
<1>2. IsWellFoundedOn(Below, Nat)
  BY <1>1, NatLessThanWellFounded, Zenon
<1>3. PICK x \in S : \A y \in S : ~(<<y, x>> \in Below)
  BY <1>2, WFMin
<1>4. ASSUME NEW y \in S PROVE x <= y
  <2>1. <<y, x>> \in Nat \X Nat
    OBVIOUS
  <2> QED
    BY <1>3, <2>1 DEF Below
<1> QED
  BY <1>4

\* The last id of a set.
Top(S) == CHOOSE i \in S : \A j \in S : j <= i

\* A nonempty set of ids below a bound has a last one.
LEMMA TopIsLast ==
  ASSUME NEW n \in Nat, NEW S, \A i \in S : i \in Nat /\ i <= n, S # {}
  PROVE  Top(S) \in S /\ \A j \in S : j <= Top(S)
<1>1. PICK U : U = {n - i : i \in S}
  OBVIOUS
<1>2. \A u \in U : \E i \in S : u = n - i
  BY <1>1
<1>3. \A i \in S : n - i \in U
  BY <1>1
<1>4. U \subseteq Nat /\ U # {}
  BY <1>2, <1>3
<1>5. PICK x \in U : \A y \in U : x <= y
  BY <1>4, LeastId
<1>6. PICK g \in S : x = n - g
  BY <1>2
<1>7. \A j \in S : j <= g
  BY <1>3, <1>5, <1>6
<1> QED
  BY <1>7 DEF Top

\* The ids of S up to i: their number is i's place in the order.
Upto(S, i) == {j \in S : j <= i}

\* An id's place grows with the id.
LEMMA PlaceGrows ==
  ASSUME NEW S, IsFiniteSet(S), \A k \in S : k \in Nat, NEW i \in Nat, NEW j \in Nat, i <= j
  PROVE  /\ IsFiniteSet(Upto(S, i)) /\ IsFiniteSet(Upto(S, j))
         /\ Cardinality(Upto(S, i)) \in Nat /\ Cardinality(Upto(S, j)) \in Nat
         /\ Cardinality(Upto(S, i)) <= Cardinality(Upto(S, j))
         /\ Cardinality(Upto(S, j)) <= Cardinality(S)
         /\ j \in S /\ i < j => Cardinality(Upto(S, i)) < Cardinality(Upto(S, j))
<1>1. IsFiniteSet(S) /\ Cardinality(S) \in Nat
  BY FS_CardinalityType
<1>2. Upto(S, i) \subseteq Upto(S, j) /\ Upto(S, j) \subseteq S
  BY DEF Upto
<1>3. IsFiniteSet(Upto(S, j)) /\ Cardinality(Upto(S, j)) <= Cardinality(S)
  BY <1>1, <1>2, FS_Subset
<1>4. /\ IsFiniteSet(Upto(S, i)) /\ Cardinality(Upto(S, i)) <= Cardinality(Upto(S, j))
      /\ Cardinality(Upto(S, j)) = Cardinality(Upto(S, i)) => Upto(S, j) = Upto(S, i)
  BY <1>2, <1>3, FS_Subset
<1>5. Cardinality(Upto(S, i)) \in Nat /\ Cardinality(Upto(S, j)) \in Nat
  BY <1>3, <1>4, FS_CardinalityType
<1>6. ASSUME j \in S, i < j PROVE Upto(S, i) # Upto(S, j)
  <2>1. j \in Upto(S, j) /\ j \notin Upto(S, i)
    BY <1>6 DEF Upto
  <2> QED
    BY <2>1
<1> QED
  BY <1>1, <1>3, <1>4, <1>5, <1>6

\* Every place is some id's: an id that skipped one would have a predecessor that came as far.
LEMMA EveryPlaceTaken ==
  ASSUME NEW b \in Nat, NEW S, IsFiniteSet(S), \A i \in S : i \in Nat /\ i <= b,
         NEW n \in 1..Cardinality(S)
  PROVE  \E i \in S : Cardinality(Upto(S, i)) = n
<1>1. Cardinality(S) \in Nat
  BY FS_CardinalityType
<1>2. PICK U : U = {i \in S : Cardinality(Upto(S, i)) >= n}
  OBVIOUS
<1>3. S # {}
  BY <1>1, FS_EmptySet
<1>4. Top(S) \in U
  <2>1. Top(S) \in S /\ \A j \in S : j <= Top(S)
    BY <1>3, TopIsLast
  <2>2. Upto(S, Top(S)) = S
    BY <2>1 DEF Upto
  <2> QED
    BY <1>1, <1>2, <2>1, <2>2
<1>5. U \subseteq Nat /\ U # {}
  BY <1>2, <1>4
<1>6. PICK x \in U : \A y \in U : x <= y
  BY <1>5, LeastId
<1>7. x \in S /\ x \in Nat /\ Cardinality(Upto(S, x)) >= n
  BY <1>2
<1>8. IsFiniteSet(Upto(S, x)) /\ Cardinality(Upto(S, x)) \in Nat
  BY <1>7, PlaceGrows
<1>9. PICK T : T = Upto(S, x) \ {x}
  OBVIOUS
<1>10. IsFiniteSet(T) /\ Cardinality(T) = Cardinality(Upto(S, x)) - 1
  <2>1. x \in Upto(S, x)
    BY <1>7 DEF Upto
  <2> QED
    BY <1>8, <1>9, <2>1, FS_RemoveElement
<1>11. ASSUME Cardinality(Upto(S, x)) # n PROVE FALSE
  <2>1. Cardinality(T) >= n /\ T # {}
    BY <1>1, <1>7, <1>8, <1>10, <1>11, FS_EmptySet
  <2>2. \A j \in T : j \in S /\ j < x /\ j \in Nat /\ j <= b
    BY <1>7, <1>9 DEF Upto
  <2>3. Top(T) \in T /\ \A j \in T : j <= Top(T)
    BY <2>1, <2>2, TopIsLast
  <2>4. PICK y : y = Top(T)
    OBVIOUS
  <2>5. y \in S /\ y < x /\ y \in Nat
    BY <1>7, <2>2, <2>3, <2>4
  <2>6. Upto(S, y) = T
    <3>1. ASSUME NEW i \in Upto(S, y) PROVE i \in T
      <4>1. i \in S /\ i \in Nat /\ i <= y
        BY DEF Upto
      <4>2. i < x
        BY <1>7, <2>5, <4>1
      <4> QED
        BY <1>7, <1>9, <4>1, <4>2 DEF Upto
    <3>2. ASSUME NEW i \in T PROVE i \in Upto(S, y)
      BY <2>2, <2>3, <2>4 DEF Upto
    <3> QED
      BY <3>1, <3>2
  <2>7. y \in U
    BY <1>2, <2>1, <2>5, <2>6
  <2> QED
    BY <1>6, <1>7, <2>5, <2>7
<1> QED
  BY <1>7, <1>11

\* Ascending lists a set of ids, each once, in order.
LEMMA AscendingLists ==
  ASSUME NEW b \in Nat, NEW S, IsFiniteSet(S), \A i \in S : i \in Nat /\ i <= b
  PROVE  /\ Ascending(S) \in Seq(Nat) /\ Len(Ascending(S)) = Cardinality(S)
         /\ Cardinality(S) \in Nat /\ (Cardinality(S) = 0 <=> S = {})
         /\ \A n \in 1..Cardinality(S) : Ascending(S)[n] \in S
         /\ \A i \in S : \E n \in 1..Cardinality(S) : Ascending(S)[n] = i
         /\ \A m, n \in 1..Cardinality(S) : m < n => Ascending(S)[m] < Ascending(S)[n]
<1>0. Cardinality(S) \in Nat /\ (Cardinality(S) = 0 <=> S = {})
  BY FS_CardinalityType, FS_EmptySet
<1>1. Ascending(S) = [n \in 1..Cardinality(S) |-> CHOOSE i \in S : Cardinality(Upto(S, i)) = n]
  BY DEF Ascending, Upto
<1>2. ASSUME NEW n \in 1..Cardinality(S)
      PROVE  Ascending(S)[n] \in S /\ Cardinality(Upto(S, Ascending(S)[n])) = n
  <2>1. PICK i \in S : Cardinality(Upto(S, i)) = n
    BY EveryPlaceTaken
  <2> QED
    BY <1>1, <2>1
<1>3. Ascending(S) \in [1..Cardinality(S) -> Nat]
  BY <1>1, <1>2
<1>4. Ascending(S) \in Seq(Nat) /\ Len(Ascending(S)) = Cardinality(S)
  BY <1>0, <1>3
<1>5. ASSUME NEW m \in 1..Cardinality(S), NEW n \in 1..Cardinality(S), m < n
      PROVE  Ascending(S)[m] < Ascending(S)[n]
  <2>1. Ascending(S)[m] \in Nat /\ Ascending(S)[n] \in Nat
    BY <1>2
  <2>2. ASSUME Ascending(S)[n] <= Ascending(S)[m] PROVE FALSE
    <3>1. Cardinality(Upto(S, Ascending(S)[n])) <= Cardinality(Upto(S, Ascending(S)[m]))
      BY <2>1, <2>2, PlaceGrows
    <3> QED
      BY <1>0, <1>2, <1>5, <3>1
  <2> QED
    BY <2>1, <2>2
<1>6. ASSUME NEW i \in S PROVE \E n \in 1..Cardinality(S) : Ascending(S)[n] = i
  <2>1. PICK n : n = Cardinality(Upto(S, i))
    OBVIOUS
  <2>2. i \in Nat /\ IsFiniteSet(Upto(S, i)) /\ n \in Nat /\ n <= Cardinality(S)
    BY <2>1, PlaceGrows
  <2>3. n # 0
    <3>1. i \in Upto(S, i)
      BY <2>2 DEF Upto
    <3> QED
      BY <2>1, <2>2, <3>1, FS_EmptySet
  <2>4. n \in 1..Cardinality(S)
    BY <1>0, <2>2, <2>3
  <2>5. PICK o : o = Ascending(S)[n]
    OBVIOUS
  <2>6. o \in S /\ o \in Nat /\ Cardinality(Upto(S, o)) = n
    BY <1>2, <2>4, <2>5
  <2>7. ASSUME o < i PROVE Cardinality(Upto(S, o)) < Cardinality(Upto(S, i))
    <3>1. o <= i
      BY <2>2, <2>6, <2>7
    <3> QED
      BY <2>2, <2>6, <2>7, <3>1, PlaceGrows
  <2>8. ASSUME i < o PROVE Cardinality(Upto(S, i)) < Cardinality(Upto(S, o))
    <3>1. i <= o
      BY <2>2, <2>6, <2>8
    <3> QED
      BY <2>2, <2>6, <2>8, <3>1, PlaceGrows
  <2>9. o = i
    BY <2>1, <2>2, <2>6, <2>7, <2>8
  <2> QED
    BY <2>4, <2>5, <2>9
<1> QED
  BY <1>0, <1>2, <1>4, <1>5, <1>6

\* The first n ids of a set.
FirstIds(S, n) == {i \in S : Cardinality(Upto(S, i)) <= n}

\* A page holds what comes before anything it holds, and one that is not full holds all.
LEMMA PageIsClosed ==
  ASSUME NEW b \in Nat, NEW S, IsFiniteSet(S), \A i \in S : i \in Nat /\ i <= b,
         NEW n \in Nat, NEW P, P = FirstIds(S, n)
  PROVE  /\ P \subseteq S /\ IsFiniteSet(P) /\ Cardinality(P) \in Nat
         /\ \A p \in P, o \in S : o <= p => o \in P
         /\ Cardinality(P) < n => P = S
<1>1. P \subseteq S /\ IsFiniteSet(P) /\ Cardinality(P) \in Nat
  <2>1. P \subseteq S
    BY DEF FirstIds
  <2> QED
    BY <2>1, FS_Subset, FS_CardinalityType
<1>2. ASSUME NEW p \in P, NEW o \in S, o <= p PROVE o \in P
  <2>1. p \in S /\ p \in Nat /\ o \in Nat /\ Cardinality(Upto(S, p)) <= n
    BY DEF FirstIds
  <2>2. /\ Cardinality(Upto(S, o)) \in Nat /\ Cardinality(Upto(S, p)) \in Nat
        /\ Cardinality(Upto(S, o)) <= Cardinality(Upto(S, p))
    BY <1>2, <2>1, PlaceGrows
  <2>3. Cardinality(Upto(S, o)) <= n
    BY <2>1, <2>2
  <2> QED
    BY <2>3 DEF FirstIds
<1>3. ASSUME Cardinality(P) < n, P # S PROVE FALSE
  <2>1. PICK D : D = S \ P
    OBVIOUS
  <2>2. D \subseteq Nat /\ D # {}
    BY <1>1, <1>3, <2>1
  <2>3. PICK x \in D : \A y \in D : x <= y
    BY <2>2, LeastId
  <2>4. x \in S /\ x \notin P /\ x \in Nat
    BY <2>1, <2>2
  <2>5. IsFiniteSet(Upto(S, x)) /\ Cardinality(Upto(S, x)) \in Nat
    BY <2>4, PlaceGrows
  <2>6. Cardinality(Upto(S, x)) > n
    BY <2>4, <2>5 DEF FirstIds
  <2>7. Upto(S, x) = P \cup {x}
    <3>1. ASSUME NEW i \in Upto(S, x) PROVE i \in P \cup {x}
      <4>1. i \in S /\ i \in Nat /\ i <= x
        BY DEF Upto
      <4>2. i \notin D \/ i = x
        BY <2>3, <2>4, <4>1
      <4> QED
        BY <2>1, <4>1, <4>2
    <3>2. ASSUME NEW i \in P \cup {x} PROVE i \in Upto(S, x)
      <4>1. i \in S /\ i \in Nat
        BY <1>1, <2>4
      <4>2. i <= x
        BY <1>2, <2>4, <4>1
      <4> QED
        BY <4>1, <4>2 DEF Upto
    <3> QED
      BY <3>1, <3>2
  <2>8. Cardinality(P \cup {x}) = Cardinality(P) + 1
    BY <1>1, <2>4, FS_AddElement
  <2> QED
    BY <1>1, <1>3, <2>6, <2>7, <2>8
<1> QED
  BY <1>1, <1>2, <1>3

-----------------------------------------------------------------------------
(* The inductive invariant.                                                *)

\* Flags of the state, and the rest of its type.
Flags ==
  /\ registered \in BOOLEAN /\ cancelled \in BOOLEAN /\ shutdown \in BOOLEAN
  /\ cutover \in BOOLEAN /\ reading \in BOOLEAN

Shape ==
  /\ kind \in {"group", "welcome"}
  /\ table \in Seq([topic: Topics, known: BOOLEAN]) /\ polled \in 0..Len(table)
  /\ pc \in {"idle", "history", "live", "sending", "ended"}
  /\ request \subseteq Filter /\ fetch \in [request -> Fetch]
  /\ messagesCh \in Seq(1..Len(table)) /\ Len(messagesCh) <= Backlog
  /\ highWaterMarks \in [Topics -> Nat]
  /\ code \in Codes /\ sent \in [Topics -> Seq(Nat)]

\* Each error is that of a fetch that stopped.
Stopped == {f \in request : fetch[f].pc = "stopped"}
ErrorsCounted == IsFiniteSet(request) /\ errors \in Nat /\ errors <= Cardinality(Stopped)

\* Before the stream opens nothing of it is there.
IdleIsEmpty ==
  pc = "idle" => request = {} /\ messagesCh = <<>> /\ \A t \in Topics : highWaterMarks[t] = 0

\* The channel holds ids the poller passed, in their order.
ChannelAscends ==
  /\ \A n \in 1..Len(messagesCh) : messagesCh[n] <= polled
  /\ \A m, n \in 1..Len(messagesCh) : m < n => messagesCh[m] < messagesCh[n]

\* What was sent of a topic ascends to its mark.
MarksLead ==
  \A t \in Topics :
    /\ highWaterMarks[t] <= Len(table)
    /\ \A n \in 1..Len(sent[t]) : sent[t][n] <= highWaterMarks[t]
    /\ \A m, n \in 1..Len(sent[t]) : m < n => sent[t][m] < sent[t][n]

\* A fetch has a page of rows up to its cursor, to send, and ends with the history.
PagesInHand ==
  \A f \in request :
    /\ fetch[f].cursor <= Len(table)
    /\ \A i \in fetch[f].page : i \in 1..Len(table) /\ i <= fetch[f].cursor
    /\ fetch[f].pc # "send" => fetch[f].page = {}
    /\ pc # "history" => fetch[f].pc \in {"done", "stopped"}

\* There are fewer rows of an unknown type than a page holds.
PagesShow == MaxUnknown < PageSize

\* The only filter of its topic, in such a table.
Watched(f) == PagesShow /\ Alone(f)

\* Row i is one that filter f is owed.
Due(f, i) == i > f.cursor /\ table[i].topic = f.topic /\ table[i].known

\* While the history comes in, the mark of a topic is behind the page of its only filter.
NotAhead(f) ==
  pc = "history" =>
    /\ highWaterMarks[f.topic] <= fetch[f].cursor
    /\ \A i \in fetch[f].page : highWaterMarks[f.topic] < i

\* Everything up to the cursor of a fetch was sent or is in its page.
ReadSoFar(f) ==
  fetch[f].pc # "stopped" =>
    \A i \in 1..Len(table) : i <= fetch[f].cursor /\ Due(f, i) =>
      Was(i, sent[f.topic]) \/ i \in fetch[f].page

\* The fetch has read the table to its end.
Settled(f) == fetch[f].pc = "done" \/ (fetch[f].pc \in {"send", "sending"} /\ ~fetch[f].more)

\* The row came after the channel was closed: it is above all that was or will be sent.
Missed(f, i) ==
  /\ ~registered
  /\ i > highWaterMarks[f.topic] /\ i > fetch[f].cursor
  /\ \A n \in 1..Len(messagesCh) : messagesCh[n] < i

\* After that, what the poller passed was sent, is in the page or in the channel, or came
\* after the channel was closed.
Located(f, i) ==
  Was(i, sent[f.topic]) \/ i \in fetch[f].page \/ Was(i, messagesCh) \/ Missed(f, i)
Gapless(f) ==
  Settled(f) => \A i \in 1..Len(table) : i <= polled /\ Due(f, i) => Located(f, i)

\* What was sent is all there is up to the mark.
PrefixSent(f) ==
  fetch[f].pc = "done" =>
    \A i \in 1..Len(table) : i <= highWaterMarks[f.topic] /\ Due(f, i) => Was(i, sent[f.topic])

FilterInv(f) == NotAhead(f) /\ ReadSoFar(f) /\ Gapless(f) /\ PrefixSent(f)
FiltersInv == \A f \in request : Watched(f) => FilterInv(f)

\* The rows of an unknown type.
Unknown == {i \in 1..Len(table) : ~table[i].known}
FewUnknown == IsFiniteSet(Unknown) /\ Cardinality(Unknown) <= MaxUnknown

StreamInv ==
  /\ Shape /\ Flags /\ ErrorsCounted
  /\ IdleIsEmpty /\ ChannelAscends /\ MarksLead /\ PagesInHand /\ FewUnknown

-----------------------------------------------------------------------------
(* sendToStream and the pages of a query.                                  *)

\* Something a list held it holds when it has grown.
LEMMA WasGrows ==
  ASSUME NEW S, NEW s \in Seq(S), NEW u \in Seq(S), NEW i, Was(i, s) \/ Was(i, u)
  PROVE  Was(i, s \o u)
<1>1. ASSUME NEW n \in 1..Len(s), s[n] = i PROVE Was(i, s \o u)
  <2>1. n \in 1..Len(s \o u) /\ (s \o u)[n] = i
    BY <1>1
  <2> QED
    BY <2>1 DEF Was
<1>2. ASSUME NEW n \in 1..Len(u), u[n] = i PROVE Was(i, s \o u)
  <2>1. Len(s) + n \in 1..Len(s \o u) /\ (s \o u)[Len(s) + n] = i
    BY <1>2
  <2> QED
    BY <2>1 DEF Was
<1> QED
  BY <1>1, <1>2 DEF Was

\* sendToStream sends the fresh messages of a page in order and moves the mark to the last of
\* them; what was sent before stays, and the mark never falls (service.go:441-462).
LEMMA Sending ==
  ASSUME Shape, MarksLead, NEW t \in Topics, NEW ids, IsFiniteSet(ids),
         \A i \in ids : i \in 1..Len(table), SendToStream(t, ids), UNCHANGED table
  PROVE  /\ sent' \in [Topics -> Seq(Nat)] /\ highWaterMarks' \in [Topics -> Nat]
         /\ \A o \in Topics : o # t => sent'[o] = sent[o] /\ highWaterMarks'[o] = highWaterMarks[o]
         /\ highWaterMarks[t] <= highWaterMarks'[t]
         /\ highWaterMarks'[t] = highWaterMarks[t] \/ highWaterMarks'[t] \in ids
         /\ \A i \in ids : i <= highWaterMarks'[t]
         /\ \A i : Was(i, sent[t]) => Was(i, sent'[t])
         /\ \A i \in ids : i > highWaterMarks[t] => Was(i, sent'[t])
         /\ MarksLead'
<1> DEFINE new == Fresh(t, ids)
           out == Ascending(new)
           mark == highWaterMarks[t]
<1>1. mark \in Nat /\ mark <= Len(table) /\ Len(table) \in Nat /\ sent[t] \in Seq(Nat)
  BY DEF Shape, MarksLead
<1>2. /\ IsFiniteSet(new) /\ new \subseteq ids
      /\ \A i \in new : i \in Nat /\ i <= Len(table) /\ i > mark
      /\ \A i \in ids : i > mark => i \in new
  <2>1. new \subseteq ids
    BY DEF Fresh
  <2>2. IsFiniteSet(new)
    BY <2>1, FS_Subset
  <2> QED
    BY <2>1, <2>2, <1>1 DEF Fresh
<1>3. /\ out \in Seq(Nat) /\ Len(out) = Cardinality(new)
      /\ Cardinality(new) \in Nat /\ (Cardinality(new) = 0 <=> new = {})
      /\ \A n \in 1..Cardinality(new) : out[n] \in new
      /\ \A i \in new : \E n \in 1..Cardinality(new) : out[n] = i
      /\ \A m, n \in 1..Cardinality(new) : m < n => out[m] < out[n]
  <2> HIDE DEF new
  <2> QED
    BY <1>1, <1>2, AscendingLists
<1>4. /\ sent' = [sent EXCEPT ![t] = sent[t] \o out]
      /\ highWaterMarks' = [highWaterMarks EXCEPT ![t] = IF out = <<>> THEN mark ELSE out[Len(out)]]
  BY DEF SendToStream, Shape
<1> HIDE DEF new, out
<1>5. /\ sent'[t] = sent[t] \o out
      /\ \A o \in Topics : o # t => sent'[o] = sent[o] /\ highWaterMarks'[o] = highWaterMarks[o]
      /\ sent' \in [Topics -> Seq(Nat)]
  <2>1. sent[t] \o out \in Seq(Nat)
    BY <1>1, <1>3
  <2> QED
    BY <1>4, <2>1 DEF Shape
<1>6. highWaterMarks'[t] = IF out = <<>> THEN mark ELSE out[Len(out)]
  BY <1>4 DEF Shape
<1>7. /\ highWaterMarks'[t] \in Nat /\ mark <= highWaterMarks'[t] /\ highWaterMarks'[t] <= Len(table)
      /\ highWaterMarks'[t] = mark \/ highWaterMarks'[t] \in ids
      /\ \A n \in 1..Len(out) : out[n] <= highWaterMarks'[t] /\ out[n] > mark /\ out[n] \in Nat
  <2>1. CASE out = <<>>
    BY <1>1, <1>6, <2>1
  <2>2. CASE out # <<>>
    <3>1. Len(out) \in 1..Len(out) /\ highWaterMarks'[t] = out[Len(out)]
      BY <1>3, <1>6, <2>2
    <3>2. \A n \in 1..Len(out) : out[n] \in new /\ out[n] \in Nat /\ out[n] > mark
      BY <1>2, <1>3
    <3>3. \A n \in 1..Len(out) : out[n] <= out[Len(out)]
      BY <1>3, <3>1, <3>2
    <3> QED
      BY <1>1, <1>2, <3>1, <3>2, <3>3
  <2> QED
    BY <2>1, <2>2
<1>8. highWaterMarks' \in [Topics -> Nat]
  BY <1>4, <1>6, <1>7 DEF Shape
<1>9. \A i \in ids : i > mark => \E n \in 1..Len(out) : out[n] = i
  BY <1>2, <1>3
<1>10. \A i \in ids : i <= highWaterMarks'[t]
  <2> SUFFICES ASSUME NEW i \in ids PROVE i <= highWaterMarks'[t]
    OBVIOUS
  <2>1. i \in Nat
    BY <1>1
  <2>2. CASE i > mark
    BY <1>7, <1>9, <2>2
  <2> QED
    BY <1>1, <1>7, <2>1, <2>2
<1>11. \A i : Was(i, sent[t]) => Was(i, sent'[t])
  BY <1>1, <1>3, <1>5, WasGrows
<1>12. \A i \in ids : i > mark => Was(i, sent'[t])
  <2> SUFFICES ASSUME NEW i \in ids, i > mark PROVE Was(i, sent'[t])
    OBVIOUS
  <2>1. Was(i, out)
    BY <1>9 DEF Was
  <2> QED
    BY <1>1, <1>3, <1>5, <2>1, WasGrows
<1>13. MarksLead'
  <2> SUFFICES ASSUME NEW o \in Topics
               PROVE  /\ highWaterMarks'[o] <= Len(table)
                      /\ \A n \in 1..Len(sent'[o]) : sent'[o][n] <= highWaterMarks'[o]
                      /\ \A m, n \in 1..Len(sent'[o]) : m < n => sent'[o][m] < sent'[o][n]
    BY DEF MarksLead
  <2>1. CASE o # t
    BY <1>5, <2>1 DEF MarksLead
  <2>2. CASE o = t
    <3> DEFINE s == sent[t]
    <3>1. /\ \A n \in 1..Len(s) : s[n] <= mark /\ s[n] \in Nat
          /\ \A m, n \in 1..Len(s) : m < n => s[m] < s[n]
      BY <1>1 DEF MarksLead
    <3>2. \A n \in 1..Len(s \o out) :
             \/ n \in 1..Len(s) /\ (s \o out)[n] = s[n]
             \/ n - Len(s) \in 1..Len(out) /\ (s \o out)[n] = out[n - Len(s)]
      BY <1>1, <1>3
    <3>3. \A n \in 1..Len(s \o out) : (s \o out)[n] <= highWaterMarks'[t]
      BY <1>1, <1>7, <3>1, <3>2
    <3>4. ASSUME NEW m \in 1..Len(s \o out), NEW n \in 1..Len(s \o out), m < n
          PROVE  (s \o out)[m] < (s \o out)[n]
      <4>0. Len(s) \in Nat /\ m \in Nat /\ n \in Nat
        BY <1>1, <1>3
      <4>1. CASE n \in 1..Len(s)
        <5>1. m \in 1..Len(s)
          BY <3>4, <4>0, <4>1
        <5> QED
          BY <1>1, <1>3, <3>1, <3>4, <4>1, <5>1
      <4>2. CASE n \notin 1..Len(s) /\ m \in 1..Len(s)
        <5>1. (s \o out)[m] = s[m] /\ s[m] \in Nat /\ s[m] <= mark
          BY <1>1, <1>3, <3>1, <4>2
        <5>2. PICK k \in 1..Len(out) : (s \o out)[n] = out[k]
          BY <3>2, <4>2
        <5>3. out[k] \in Nat /\ out[k] > mark
          BY <1>7
        <5> HIDE DEF s, mark
        <5> QED
          BY <1>1, <5>1, <5>2, <5>3
      <4>3. CASE n \notin 1..Len(s) /\ m \notin 1..Len(s)
        <5>1. m - Len(s) \in 1..Len(out) /\ n - Len(s) \in 1..Len(out) /\ m - Len(s) < n - Len(s)
          BY <3>2, <3>4, <4>0, <4>3
        <5>2. (s \o out)[m] = out[m - Len(s)] /\ (s \o out)[n] = out[n - Len(s)]
          BY <3>2, <4>3
        <5> QED
          BY <1>3, <5>1, <5>2
      <4> QED
        BY <4>1, <4>2, <4>3
    <3> QED
      BY <1>5, <1>7, <2>2, <3>3, <3>4
  <2> QED
    BY <2>1, <2>2
<1> QED
  BY <1>5, <1>7, <1>8, <1>10, <1>11, <1>12, <1>13

\* The rows of a topic above a cursor.
RowsAfter(t, cursor) == {i \in 1..Len(table) : i > cursor /\ table[i].topic = t}

\* A page: rows of the topic above the cursor, all of them up to the last of the page.  A page
\* that is not full reaches the end of the table, and so does one that shows nothing.
LEMMA PageOfQuery ==
  ASSUME Shape, NEW t \in Topics, NEW cursor \in Nat, NEW raw, raw = RawPage(t, cursor)
  PROVE  /\ raw \subseteq RowsAfter(t, cursor) /\ IsFiniteSet(raw) /\ Cardinality(raw) \in Nat
         /\ ~Paged(raw) => raw = RowsAfter(t, cursor)
         /\ \A p \in raw, o \in RowsAfter(t, cursor) : o <= p => o \in raw
         /\ raw # {} => Top(raw) \in raw /\ \A j \in raw : j <= Top(raw)
         /\ PagesShow /\ FewUnknown /\ (\A i \in raw : ~table[i].known) => raw = RowsAfter(t, cursor)
<1> DEFINE rows == RowsAfter(t, cursor)
<1>1. Len(table) \in Nat /\ PageSize \in Nat
  BY LegacyAssumption DEF Shape
<1>2. rows = {i \in (cursor + 1)..Len(table) : table[i].topic = t}
  BY <1>1 DEF RowsAfter
<1>3. raw = FirstIds(rows, PageSize)
  BY <1>2 DEF RawPage, FirstIds, Upto
<1>4. IsFiniteSet(rows) /\ \A i \in rows : i \in Nat /\ i <= Len(table)
  <2>1. rows \subseteq 1..Len(table)
    BY DEF RowsAfter
  <2>2. IsFiniteSet(1..Len(table))
    BY <1>1, FS_Interval
  <2>3. IsFiniteSet(rows)
    BY <2>1, <2>2, FS_Subset
  <2> QED
    BY <1>1, <2>1, <2>3
<1> HIDE DEF rows
<1>5. /\ raw \subseteq rows /\ IsFiniteSet(raw) /\ Cardinality(raw) \in Nat
      /\ \A p \in raw, o \in rows : o <= p => o \in raw
      /\ Cardinality(raw) < PageSize => raw = rows
  BY <1>1, <1>3, <1>4, PageIsClosed
<1>6. ~Paged(raw) => raw = rows
  BY <1>1, <1>5 DEF Paged
<1>7. raw # {} => Top(raw) \in raw /\ \A j \in raw : j <= Top(raw)
  BY <1>1, <1>4, <1>5, TopIsLast
<1>8. ASSUME PagesShow, FewUnknown, \A i \in raw : ~table[i].known PROVE raw = rows
  <2>1. raw \subseteq Unknown
    <3>1. \A i \in raw : i \in 1..Len(table)
      BY <1>1, <1>5 DEF rows, RowsAfter
    <3> QED
      BY <1>8, <3>1 DEF Unknown
  <2>2. Cardinality(raw) <= Cardinality(Unknown) /\ Cardinality(Unknown) \in Nat
    BY <1>8, <2>1, FS_Subset, FS_CardinalityType DEF FewUnknown
  <2>3. Cardinality(raw) < PageSize
    BY <1>1, <1>5, <1>8, <2>2, LegacyAssumption DEF FewUnknown, PagesShow
  <2> QED
    BY <1>5, <2>3
<1> QED
  BY <1>5, <1>6, <1>7, <1>8 DEF rows

-----------------------------------------------------------------------------
(* The type and the books of the stream.                                   *)

\* At first there is no stream.
LEMMA StreamInit == Init => StreamInv /\ FiltersInv
<1> SUFFICES ASSUME Init PROVE StreamInv /\ FiltersInv
  OBVIOUS
<1>1. request = {} /\ fetch \in [request -> Fetch]
  <2>1. request = {} /\ fetch = [f \in {} |-> 0]
    BY DEF Init
  <2> QED
    BY <2>1
<1>2. Shape
  BY <1>1, LegacyAssumption DEF Init, Shape, Codes
<1>3. Flags
  BY DEF Init, Flags
<1>4. ErrorsCounted
  <2>1. Stopped = {}
    BY <1>1 DEF Stopped
  <2> QED
    BY <1>1, <2>1, FS_EmptySet DEF Init, ErrorsCounted
<1>5. IdleIsEmpty /\ ChannelAscends /\ MarksLead
  BY DEF Init, IdleIsEmpty, ChannelAscends, MarksLead
<1>6. PagesInHand /\ FiltersInv
  BY <1>1 DEF PagesInHand, FiltersInv
<1>7. FewUnknown
  <2>1. Unknown = {}
    BY DEF Init, Unknown
  <2> QED
    BY <2>1, FS_EmptySet, LegacyAssumption DEF FewUnknown
<1> QED
  BY <1>2, <1>3, <1>4, <1>5, <1>6, <1>7 DEF StreamInv

\* What the rest of the stream works on.
coreVars == <<kind, table, polled, request, messagesCh, fetch, highWaterMarks, sent>>

\* Flags, codes and where the handler is: a step that touches nothing else, and at most closes
\* the channel, keeps the invariant.
LEMMA HandlerKeeps ==
  ASSUME StreamInv, FiltersInv, UNCHANGED <<coreVars, errors>>,
         registered' = registered \/ registered' = FALSE,
         pc' = pc \/ pc' \in {"live", "sending", "ended"}, Flags', code' \in Codes,
         pc' # pc => \A f \in request : fetch[f].pc \in {"done", "stopped"}
  PROVE  StreamInv' /\ FiltersInv'
<1> USE DEF coreVars
<1>1. Shape'
  BY DEF StreamInv, Shape
<1>2. ErrorsCounted'
  <2>1. Stopped' = Stopped
    BY DEF Stopped
  <2> QED
    BY <2>1 DEF StreamInv, ErrorsCounted
<1>3. IdleIsEmpty' /\ ChannelAscends' /\ MarksLead' /\ PagesInHand'
  BY DEF StreamInv, IdleIsEmpty, ChannelAscends, MarksLead, PagesInHand
<1>4. FewUnknown'
  <2>1. Unknown' = Unknown
    BY DEF Unknown
  <2> QED
    BY <2>1 DEF StreamInv, FewUnknown
<1>5. ASSUME NEW f \in request, Watched(f)' PROVE FilterInv(f)'
  <2>1. Watched(f)
    BY <1>5 DEF Watched, Alone
  <2>2. NotAhead(f) /\ ReadSoFar(f) /\ Gapless(f) /\ PrefixSent(f)
    BY <2>1 DEF FiltersInv, FilterInv
  <2>3. NotAhead(f)'
    BY <2>2 DEF NotAhead
  <2>4. ReadSoFar(f)' /\ PrefixSent(f)'
    BY <2>2 DEF ReadSoFar, PrefixSent, Due, Was
  <2>5. \A i : Missed(f, i) => Missed(f, i)'
    BY DEF Missed
  <2>6. \A i : Located(f, i) => Located(f, i)'
    BY <2>5 DEF Located, Was
  <2>7. Gapless(f)'
    BY <2>2, <2>6 DEF Gapless, Settled, Due
  <2> QED
    BY <2>3, <2>4, <2>7 DEF FilterInv
<1> QED
  BY <1>1, <1>2, <1>3, <1>4, <1>5 DEF StreamInv, FiltersInv

\* An entry of a list.
LEMMA SeqMember ==
  ASSUME NEW S, NEW s \in Seq(S), NEW n \in 1..Len(s)
  PROVE  s[n] \in S
  OBVIOUS

\* A list of rows of the table is one of a longer table.
LEMMA SeqWidens ==
  ASSUME NEW S, NEW T, S \subseteq T, NEW s \in Seq(S)
  PROVE  s \in Seq(T)
  OBVIOUS

\* A row is appended: it is above every cursor, mark and page.
LEMMA PublishKeeps ==
  ASSUME StreamInv, FiltersInv, NEW t \in Topics, NEW known \in BOOLEAN, Publish(t, known)
  PROVE  StreamInv' /\ FiltersInv'
<1>0. UNCHANGED <<kind, polled, pc, request, messagesCh, registered, fetch, errors, highWaterMarks,
                  cancelled, shutdown, cutover, reading, code, sent>>
  BY DEF Publish, dispatcherVars, faultVars
<1>1. PICK row : row = [topic |-> t, known |-> known]
  OBVIOUS
<1>2. row \in [topic: Topics, known: BOOLEAN]
  BY <1>1
<1>3. /\ table \in Seq([topic: Topics, known: BOOLEAN]) /\ table' = Append(table, row)
      /\ Len(table) \in Nat
  BY <1>1 DEF Publish, StreamInv, Shape
<1>4. /\ table' \in Seq([topic: Topics, known: BOOLEAN]) /\ Len(table') = Len(table) + 1
      /\ \A i \in 1..Len(table) : table'[i] = table[i]
      /\ table'[Len(table) + 1] = row
  BY <1>2, <1>3
<1>5. Shape'
  <2>1. polled' \in 0..Len(table')
    BY <1>0, <1>3, <1>4 DEF StreamInv, Shape
  <2>2. messagesCh' \in Seq(1..Len(table'))
    <3>1. 1..Len(table) \subseteq 1..Len(table')
      BY <1>3, <1>4
    <3> QED
      BY <1>0, <3>1, SeqWidens DEF StreamInv, Shape
  <2> QED
    BY <1>0, <1>4, <2>1, <2>2 DEF StreamInv, Shape
<1>6. Flags'
  BY <1>0 DEF StreamInv, Flags
<1>7. ErrorsCounted'
  <2>1. Stopped' = Stopped
    BY <1>0 DEF Stopped
  <2> QED
    BY <1>0, <2>1 DEF StreamInv, ErrorsCounted
<1>8. IdleIsEmpty' /\ ChannelAscends'
  BY <1>0 DEF StreamInv, IdleIsEmpty, ChannelAscends
<1>9. MarksLead'
  <2> SUFFICES ASSUME NEW o \in Topics
               PROVE  /\ highWaterMarks[o] <= Len(table')
                      /\ \A n \in 1..Len(sent[o]) : sent[o][n] <= highWaterMarks[o]
                      /\ \A m, n \in 1..Len(sent[o]) : m < n => sent[o][m] < sent[o][n]
    BY <1>0 DEF MarksLead
  <2>1. highWaterMarks[o] \in Nat /\ highWaterMarks[o] <= Len(table)
    BY DEF StreamInv, Shape, MarksLead
  <2>2. highWaterMarks[o] <= Len(table')
    BY <1>3, <1>4, <2>1
  <2> QED
    BY <2>2 DEF StreamInv, MarksLead
<1>10. PagesInHand'
  <2> SUFFICES ASSUME NEW f \in request
               PROVE  /\ fetch[f].cursor <= Len(table')
                      /\ \A i \in fetch[f].page : i \in 1..Len(table') /\ i <= fetch[f].cursor
                      /\ fetch[f].pc # "send" => fetch[f].page = {}
                      /\ pc # "history" => fetch[f].pc \in {"done", "stopped"}
    BY <1>0 DEF PagesInHand
  <2>1. fetch[f].cursor \in Nat
    BY DEF StreamInv, Shape, Fetch
  <2> QED
    BY <1>3, <1>4, <2>1 DEF StreamInv, PagesInHand
<1>11. FewUnknown'
  <2>1. CASE known
    <3>1. Unknown' = Unknown
      BY <1>1, <1>3, <1>4, <2>1 DEF Unknown
    <3> QED
      BY <3>1 DEF StreamInv, FewUnknown
  <2>2. CASE ~known
    <3>1. Unknown' = Unknown \cup {Len(table) + 1}
      BY <1>1, <1>3, <1>4, <2>2 DEF Unknown
    <3>2. Len(table) + 1 \notin Unknown
      BY <1>3 DEF Unknown
    <3>3. Cardinality(Unknown) < MaxUnknown
      BY <2>2 DEF Publish, Unknown
    <3>4. /\ IsFiniteSet(Unknown \cup {Len(table) + 1})
          /\ Cardinality(Unknown \cup {Len(table) + 1}) = Cardinality(Unknown) + 1
      BY <3>2, FS_AddElement DEF StreamInv, FewUnknown
    <3>5. Cardinality(Unknown) \in Nat
      BY FS_CardinalityType DEF StreamInv, FewUnknown
    <3> QED
      BY <3>1, <3>3, <3>4, <3>5, LegacyAssumption DEF FewUnknown
  <2> QED
    BY <2>1, <2>2
<1>12. ASSUME NEW f \in request, Watched(f)' PROVE FilterInv(f)'
  <2>1. Watched(f)
    BY <1>0, <1>12 DEF Watched, Alone
  <2>2. NotAhead(f) /\ ReadSoFar(f) /\ Gapless(f) /\ PrefixSent(f)
    BY <2>1 DEF FiltersInv, FilterInv
  <2>3. /\ fetch[f].cursor <= Len(table) /\ fetch[f].cursor \in Nat
        /\ highWaterMarks[f.topic] <= Len(table) /\ highWaterMarks[f.topic] \in Nat
        /\ polled <= Len(table) /\ polled \in Nat
    BY <1>3 DEF StreamInv, Shape, Fetch, Filter, PagesInHand, MarksLead
  <2>4. \A i \in 1..Len(table) : Due(f, i)' <=> Due(f, i)
    BY <1>4 DEF Due
  <2>5. \A i \in 1..Len(table') : i \in 1..Len(table) \/ i = Len(table) + 1
    BY <1>3, <1>4
  <2>6. NotAhead(f)'
    BY <1>0, <2>2 DEF NotAhead
  <2>7. ReadSoFar(f)'
    BY <1>0, <1>3, <2>2, <2>3, <2>4, <2>5 DEF ReadSoFar
  <2>8. PrefixSent(f)'
    BY <1>0, <1>3, <2>2, <2>3, <2>4, <2>5 DEF PrefixSent
  <2>9. \A i : Located(f, i) => Located(f, i)'
    BY <1>0 DEF Located, Missed, Was
  <2>10. Gapless(f)'
    BY <1>0, <1>3, <2>2, <2>3, <2>4, <2>5, <2>9 DEF Gapless, Settled
  <2> QED
    BY <2>6, <2>7, <2>8, <2>10 DEF FilterInv
<1> QED
  BY <1>0, <1>5, <1>6, <1>7, <1>8, <1>9, <1>10, <1>11, <1>12 DEF StreamInv, FiltersInv

\* The poller's row goes to the channel in its order.  A channel that is full is closed, and the
\* row is above all that is in it.
LEMMA PollKeeps ==
  ASSUME StreamInv, FiltersInv, Poll
  PROVE  StreamInv' /\ FiltersInv'
<1>a. PICK row : row = polled + 1
  OBVIOUS
<1>0. UNCHANGED <<kind, table, pc, request, fetch, errors, highWaterMarks, cancelled, shutdown,
                  cutover, reading, code, sent>>
  BY DEF Poll, faultVars
<1>1. /\ polled \in Nat /\ Len(table) \in Nat /\ row <= Len(table) /\ row \in 1..Len(table)
      /\ polled' = row /\ messagesCh \in Seq(1..Len(table)) /\ Len(messagesCh) \in Nat
  BY <1>a DEF Poll, StreamInv, Shape
<1>2. \/ /\ messagesCh' = messagesCh
         /\ \/ registered' = FALSE
            \/ registered' = registered /\ \A f \in request : ~(table[row].known /\ f.topic = table[row].topic)
      \/ /\ registered /\ registered' = registered /\ Len(messagesCh) < Backlog
         /\ messagesCh' = Append(messagesCh, row)
  <2>1. registered = FALSE \/ registered = TRUE
    BY DEF StreamInv, Flags
  <2> QED
    BY <1>a, <1>1, <2>1, LegacyAssumption DEF Poll, Registered, Full, dispatcherVars
<1>3. registered' \in BOOLEAN
  BY <1>2 DEF StreamInv, Flags
<1>4. /\ messagesCh' \in Seq(1..Len(table)) /\ Len(messagesCh') <= Backlog
      /\ \A i : Was(i, messagesCh) => Was(i, messagesCh')
  <2>1. CASE messagesCh' = messagesCh
    BY <2>1, <1>1 DEF StreamInv, Shape
  <2>2. CASE messagesCh' = Append(messagesCh, row) /\ Len(messagesCh) < Backlog
    <3>1. messagesCh' \in Seq(1..Len(table)) /\ Len(messagesCh') = Len(messagesCh) + 1
      BY <1>1, <2>2
    <3>2. \A n \in 1..Len(messagesCh) : messagesCh'[n] = messagesCh[n]
      BY <1>1, <2>2
    <3>3. \A i : Was(i, messagesCh) => Was(i, messagesCh')
      <4> SUFFICES ASSUME NEW i, NEW n \in 1..Len(messagesCh), messagesCh[n] = i
                   PROVE  Was(i, messagesCh')
        BY DEF Was
      <4>1. n \in 1..Len(messagesCh') /\ messagesCh'[n] = i
        BY <1>1, <3>1, <3>2
      <4> QED
        BY <4>1 DEF Was
    <3>4. Len(messagesCh') <= Backlog
      BY <1>1, <2>2, <3>1, LegacyAssumption
    <3> QED
      BY <3>1, <3>3, <3>4
  <2> QED
    BY <1>2, <2>1, <2>2
<1>5. Shape'
  BY <1>0, <1>1, <1>4 DEF StreamInv, Shape
<1>6. Flags'
  BY <1>0, <1>3 DEF StreamInv, Flags
<1>7. ErrorsCounted' /\ FewUnknown'
  <2>1. Stopped' = Stopped /\ Unknown' = Unknown
    BY <1>0 DEF Stopped, Unknown
  <2> QED
    BY <1>0, <2>1 DEF StreamInv, ErrorsCounted, FewUnknown
<1>8. IdleIsEmpty' /\ MarksLead' /\ PagesInHand'
  <2>1. IdleIsEmpty'
    <3>1. pc = "idle" => messagesCh' = messagesCh
      <4> SUFFICES ASSUME pc = "idle" PROVE messagesCh' = messagesCh
        OBVIOUS
      <4>1. request = {}
        BY DEF StreamInv, IdleIsEmpty
      <4> QED
        BY <4>1 DEF Poll, dispatcherVars
    <3> QED
      BY <1>0, <3>1 DEF StreamInv, IdleIsEmpty
  <2> QED
    BY <1>0, <2>1 DEF StreamInv, MarksLead, PagesInHand
<1>9. ChannelAscends'
  <2>1. /\ \A n \in 1..Len(messagesCh) : messagesCh[n] <= polled /\ messagesCh[n] \in Nat
        /\ \A m, n \in 1..Len(messagesCh) : m < n => messagesCh[m] < messagesCh[n]
    BY <1>1 DEF StreamInv, ChannelAscends
  <2>2. CASE messagesCh' = messagesCh
    BY <1>a, <1>1, <2>1, <2>2 DEF ChannelAscends
  <2>3. CASE messagesCh' = Append(messagesCh, row)
    <3>1. /\ Len(messagesCh') = Len(messagesCh) + 1 /\ messagesCh'[Len(messagesCh) + 1] = row
          /\ \A n \in 1..Len(messagesCh) : messagesCh'[n] = messagesCh[n]
      BY <1>1, <2>3
    <3>2. \A n \in 1..Len(messagesCh') : n \in 1..Len(messagesCh) \/ n = Len(messagesCh) + 1
      BY <1>1, <3>1
    <3>3. \A n \in 1..Len(messagesCh) : messagesCh[n] < row
      BY <1>a, <1>1, <2>1
    <3>4. \A n \in 1..Len(messagesCh') : messagesCh'[n] <= polled'
      <4> SUFFICES ASSUME NEW n \in 1..Len(messagesCh') PROVE messagesCh'[n] <= row
        BY <1>1
      <4>1. row \in Nat
        BY <1>1
      <4>2. CASE n \in 1..Len(messagesCh)
        BY <2>1, <3>1, <3>3, <4>1, <4>2
      <4> QED
        BY <3>1, <3>2, <4>1, <4>2
    <3>5. ASSUME NEW m \in 1..Len(messagesCh'), NEW n \in 1..Len(messagesCh'), m < n
          PROVE  messagesCh'[m] < messagesCh'[n]
      <4>1. m \in 1..Len(messagesCh)
        BY <1>1, <3>1, <3>5
      <4> QED
        BY <2>1, <3>1, <3>2, <3>3, <3>5, <4>1
    <3> QED
      BY <3>4, <3>5 DEF ChannelAscends
  <2> QED
    BY <1>2, <2>2, <2>3
<1>10. ASSUME NEW f \in request, Watched(f)' PROVE FilterInv(f)'
  <2>1. Watched(f)
    BY <1>0, <1>10 DEF Watched, Alone
  <2>2. NotAhead(f) /\ ReadSoFar(f) /\ Gapless(f) /\ PrefixSent(f)
    BY <2>1 DEF FiltersInv, FilterInv
  <2>3. NotAhead(f)' /\ ReadSoFar(f)' /\ PrefixSent(f)'
    BY <1>0, <2>2 DEF NotAhead, ReadSoFar, PrefixSent, Due
  <2>4. \A i : Located(f, i) => Located(f, i)'
    <3>1. \A i : Was(i, messagesCh) => Was(i, messagesCh)'
      BY <1>4 DEF Was
    <3>2. \A i : Missed(f, i) => Missed(f, i)'
      BY <1>0, <1>2 DEF Missed
    <3> QED
      BY <1>0, <3>1, <3>2 DEF Located, Was
  <2>5. ASSUME Settled(f), Due(f, row) PROVE Located(f, row)'
    <3>1. CASE messagesCh' = Append(messagesCh, row)
      <4>1. Was(row, messagesCh')
        <5>1. Len(messagesCh) + 1 \in 1..Len(messagesCh') /\ messagesCh'[Len(messagesCh) + 1] = row
          BY <1>1, <3>1
        <5> QED
          BY <5>1 DEF Was
      <4> QED
        BY <1>a, <1>1, <4>1 DEF Located, Was
    <3>2. CASE messagesCh' = messagesCh /\ registered' = FALSE
      <4>1. fetch[f].cursor \in Nat /\ highWaterMarks[f.topic] \in Nat
        BY DEF StreamInv, Shape, Fetch, Filter
      <4>2. CASE row <= fetch[f].cursor
        <5>1. Was(row, sent[f.topic]) \/ row \in fetch[f].page
          BY <1>1, <2>2, <2>5, <4>2 DEF ReadSoFar, Settled
        <5> QED
          BY <1>a, <1>0, <1>1, <5>1 DEF Located, Was
      <4>3. CASE row <= highWaterMarks[f.topic] /\ ~(row <= fetch[f].cursor)
        <5>1. fetch[f].pc = "done"
          <6>1. CASE fetch[f].pc \in {"send", "sending"}
            BY <1>1, <2>2, <4>1, <4>3, <6>1 DEF NotAhead, StreamInv, PagesInHand
          <6> QED
            BY <2>5, <6>1 DEF Settled
        <5>2. Was(row, sent[f.topic])
          BY <1>1, <2>2, <2>5, <4>3, <5>1 DEF PrefixSent
        <5> QED
          BY <1>a, <1>0, <1>1, <5>2 DEF Located, Was
      <4>4. CASE row > highWaterMarks[f.topic] /\ row > fetch[f].cursor
        <5>1. \A n \in 1..Len(messagesCh) : messagesCh[n] < row
          BY <1>a, <1>1 DEF StreamInv, ChannelAscends
        <5>2. Missed(f, row)'
          BY <1>a, <1>0, <1>1, <3>2, <4>4, <5>1 DEF Missed
        <5> QED
          BY <5>2 DEF Located
      <4> QED
        BY <1>1, <4>1, <4>2, <4>3, <4>4
    <3>3. ~(registered' = registered /\ \A g \in request : ~(table[row].known /\ g.topic = table[row].topic))
      BY <2>5 DEF Due
    <3> QED
      BY <1>a, <1>2, <3>1, <3>2, <3>3
  <2>6. Gapless(f)'
    <3> SUFFICES ASSUME Settled(f)', NEW i \in 1..Len(table), i <= row, Due(f, i) PROVE Located(f, i)'
      BY <1>0, <1>1 DEF Gapless, Due
    <3>1. Settled(f)
      BY <1>0 DEF Settled
    <3>2. i <= polled \/ i = row
      BY <1>a, <1>1
    <3> QED
      BY <2>2, <2>4, <2>5, <3>1, <3>2 DEF Gapless
  <2> QED
    BY <2>3, <2>6 DEF FilterInv
<1> QED
  BY <1>0, <1>5, <1>6, <1>7, <1>8, <1>9, <1>10 DEF StreamInv, FiltersInv

\* A stream opens: nothing was sent, the channel is empty, the fetches are at their cursors.
LEMMA OpenKeeps ==
  ASSUME StreamInv, FiltersInv, NEW r \in Requests, Open(r)
  PROVE  StreamInv' /\ FiltersInv'
<1>0. /\ UNCHANGED <<kind, table, polled, messagesCh, errors, highWaterMarks, cancelled, shutdown,
                     cutover, reading, code, sent>>
      /\ pc = "idle" /\ pc' = "history" /\ request' = r /\ registered' = TRUE
      /\ \A f \in r : f.cursor <= Len(table)
  BY DEF Open, envVars, faultVars
<1>1. r \subseteq Filter /\ IsFiniteSet(r)
  BY LegacyAssumption
<1>2. fetch' = [f \in r |-> [pc |-> "query", cursor |-> f.cursor, page |-> {}, more |-> TRUE]]
  BY DEF Open
<1>3. fetch' \in [r -> Fetch]
  <2>1. \A f \in r : [pc |-> "query", cursor |-> f.cursor, page |-> {}, more |-> TRUE] \in Fetch
    BY <1>1 DEF Filter, Fetch
  <2> QED
    BY <1>2, <2>1
<1>4. \A f \in r : fetch'[f].pc = "query" /\ fetch'[f].cursor = f.cursor /\ fetch'[f].page = {}
  BY <1>2
<1>5. request = {} /\ messagesCh = <<>> /\ \A t \in Topics : highWaterMarks[t] = 0
  BY <1>0 DEF StreamInv, IdleIsEmpty
<1>6. Shape'
  BY <1>0, <1>1, <1>3 DEF StreamInv, Shape
<1>7. Flags'
  BY <1>0 DEF StreamInv, Flags
<1>8. ErrorsCounted'
  <2>1. errors = 0
    <3>1. Stopped = {}
      BY <1>5 DEF Stopped
    <3> QED
      BY <3>1, FS_EmptySet DEF StreamInv, ErrorsCounted
  <2>2. IsFiniteSet(Stopped') /\ Cardinality(Stopped') \in Nat
    <3>1. Stopped' \subseteq r
      BY <1>0 DEF Stopped
    <3> QED
      BY <1>1, <3>1, FS_Subset, FS_CardinalityType
  <2> QED
    BY <1>0, <1>1, <2>1, <2>2 DEF ErrorsCounted
<1>9. IdleIsEmpty' /\ ChannelAscends' /\ MarksLead'
  BY <1>0 DEF StreamInv, IdleIsEmpty, ChannelAscends, MarksLead
<1>10. PagesInHand'
  BY <1>0, <1>4 DEF PagesInHand
<1>11. FewUnknown'
  <2>1. Unknown' = Unknown
    BY <1>0 DEF Unknown
  <2> QED
    BY <2>1 DEF StreamInv, FewUnknown
<1>12. ASSUME NEW f \in r PROVE FilterInv(f)'
  <2>1. f.topic \in Topics /\ f.cursor \in Nat
    BY <1>1 DEF Filter
  <2>2. NotAhead(f)'
    BY <1>0, <1>4, <1>5, <2>1 DEF NotAhead
  <2>3. ReadSoFar(f)'
    BY <1>0, <1>4, <2>1 DEF ReadSoFar, Due
  <2>4. Gapless(f)' /\ PrefixSent(f)'
    BY <1>4 DEF Gapless, Settled, PrefixSent
  <2> QED
    BY <2>2, <2>3, <2>4 DEF FilterInv
<1> QED
  BY <1>0, <1>6, <1>7, <1>8, <1>9, <1>10, <1>11, <1>12 DEF StreamInv, FiltersInv

\* A step of one fetch does not concern the filter of another topic.
LEMMA OthersKeep ==
  ASSUME StreamInv, FiltersInv, NEW f \in request, Watched(f),
         UNCHANGED <<table, polled, pc, messagesCh, registered>>,
         fetch'[f] = fetch[f], sent'[f.topic] = sent[f.topic],
         highWaterMarks'[f.topic] = highWaterMarks[f.topic]
  PROVE  FilterInv(f)'
<1>1. NotAhead(f) /\ ReadSoFar(f) /\ Gapless(f) /\ PrefixSent(f)
  BY DEF FiltersInv, FilterInv
<1>2. NotAhead(f)'
  BY <1>1 DEF NotAhead
<1>3. \A i : Was(i, sent[f.topic])' <=> Was(i, sent[f.topic])
  BY DEF Was
<1>4. \A i : Due(f, i)' <=> Due(f, i)
  BY DEF Due
<1>5. ReadSoFar(f)' /\ PrefixSent(f)'
  BY <1>1, <1>3, <1>4 DEF ReadSoFar, PrefixSent
<1>6. \A i : Located(f, i) => Located(f, i)'
  BY <1>3 DEF Located, Missed, Was
<1>7. Gapless(f)'
  BY <1>1, <1>4, <1>6 DEF Gapless, Settled
<1> QED
  BY <1>2, <1>5, <1>7 DEF FilterInv

\* What a step of a fetch leaves alone besides.
LEMMA FetchKeeps ==
  ASSUME StreamInv, UNCHANGED <<kind, table, polled, pc, request, messagesCh, registered, cancelled,
                                shutdown, cutover, reading, code>>,
         fetch' \in [request -> Fetch], sent' \in [Topics -> Seq(Nat)],
         highWaterMarks' \in [Topics -> Nat], pc = "history", MarksLead', PagesInHand',
         ErrorsCounted'
  PROVE  StreamInv'
<1>1. Shape'
  BY DEF StreamInv, Shape
<1>2. Flags'
  BY DEF StreamInv, Flags
<1>3. IdleIsEmpty' /\ ChannelAscends'
  BY DEF StreamInv, IdleIsEmpty, ChannelAscends
<1>4. FewUnknown'
  <2>1. Unknown' = Unknown
    BY DEF Unknown
  <2> QED
    BY <2>1 DEF StreamInv, FewUnknown
<1> QED
  BY <1>1, <1>2, <1>3, <1>4 DEF StreamInv

\* A page is read.  The table cannot end behind one that is full, and what has no messages of
\* a known type ends the fetch (service.go:466-511, 660-717).
LEMMA QueryKeeps ==
  ASSUME StreamInv, FiltersInv, NEW f \in request, QueryPage(f)
  PROVE  StreamInv' /\ FiltersInv'
<1> DEFINE t == f.topic
           c == fetch[f].cursor
<1>0. /\ UNCHANGED <<kind, table, polled, pc, request, messagesCh, registered, errors,
                     highWaterMarks, cancelled, shutdown, cutover, reading, code, sent>>
      /\ pc = "history" /\ fetch[f].pc = "query"
  BY DEF QueryPage, envVars, dispatcherVars, faultVars
<1>1. /\ t \in Topics /\ c \in Nat /\ c <= Len(table) /\ Len(table) \in Nat
      /\ fetch[f] \in Fetch /\ f.cursor \in Nat /\ fetch[f].page = {}
      /\ polled \in Nat /\ polled <= Len(table)
  BY <1>0 DEF StreamInv, Shape, Filter, Fetch, PagesInHand
<1>2. PICK raw : raw = RawPage(t, c)
  OBVIOUS
<1>3. PICK known : known = {i \in raw : table[i].known}
  OBVIOUS
<1>4. fetch' = [fetch EXCEPT ![f] =
         IF known = {} THEN [fetch[f] EXCEPT !.pc = "done"]
         ELSE [pc |-> "send", page |-> known, more |-> Paged(raw), cursor |-> Top(raw)]]
  BY <1>2, <1>3 DEF QueryPage, Top
<1>5. /\ raw \subseteq RowsAfter(t, c) /\ IsFiniteSet(raw) /\ Cardinality(raw) \in Nat
      /\ ~Paged(raw) => raw = RowsAfter(t, c)
      /\ \A p \in raw, o \in RowsAfter(t, c) : o <= p => o \in raw
      /\ raw # {} => Top(raw) \in raw /\ \A j \in raw : j <= Top(raw)
      /\ PagesShow /\ (\A i \in raw : ~table[i].known) => raw = RowsAfter(t, c)
  <2> HIDE DEF t, c
  <2> QED
    BY <1>1, <1>2, PageOfQuery DEF StreamInv
<1>6. \A i \in raw : i \in 1..Len(table) /\ i > c /\ i \in Nat
  BY <1>1, <1>5 DEF RowsAfter
<1>7. \A g \in request : g # f => fetch'[g] = fetch[g]
  BY <1>4 DEF StreamInv, Shape
<1>8. ASSUME NEW g \in request, g # f, Watched(g) PROVE FilterInv(g)'
  BY <1>0, <1>7, <1>8, OthersKeep
<1>9. MarksLead'
  BY <1>0 DEF StreamInv, MarksLead
<1>10. ASSUME fetch' \in [request -> Fetch], PagesInHand', fetch'[f].pc # "stopped"
       PROVE  StreamInv'
  <2>1. Stopped' = Stopped
    BY <1>0, <1>7, <1>10 DEF Stopped
  <2>2. ErrorsCounted'
    BY <1>0, <2>1 DEF StreamInv, ErrorsCounted
  <2>3. sent' \in [Topics -> Seq(Nat)] /\ highWaterMarks' \in [Topics -> Nat]
    BY <1>0 DEF StreamInv, Shape
  <2> QED
    BY <1>0, <1>9, <1>10, <2>2, <2>3, FetchKeeps
<1>11. CASE known = {}
  <2>1. fetch' = [fetch EXCEPT ![f] = [fetch[f] EXCEPT !.pc = "done"]]
    BY <1>4, <1>11
  <2>2. [fetch[f] EXCEPT !.pc = "done"] \in Fetch
    BY <1>1 DEF Fetch
  <2>3. /\ fetch' \in [request -> Fetch] /\ fetch'[f] = [fetch[f] EXCEPT !.pc = "done"]
    BY <2>1, <2>2 DEF StreamInv, Shape
  <2>4. fetch'[f].pc = "done" /\ fetch'[f].cursor = c /\ fetch'[f].page = {}
    BY <1>1, <2>3 DEF Fetch
  <2>5. PagesInHand'
    BY <1>0, <1>1, <1>7, <2>4 DEF StreamInv, PagesInHand
  <2>6. \A i \in raw : ~table[i].known
    BY <1>3, <1>11
  <2>7. ASSUME Watched(f) PROVE FilterInv(f)'
    <3>0. raw = RowsAfter(t, c)
      BY <1>5, <2>6, <2>7 DEF Watched
    <3>1. NotAhead(f) /\ ReadSoFar(f)
      BY <2>7 DEF FiltersInv, FilterInv
    <3>2. highWaterMarks[t] <= c /\ highWaterMarks[t] \in Nat
      BY <1>0, <1>1, <3>1 DEF NotAhead, StreamInv, Shape
    <3>3. ASSUME NEW i \in 1..Len(table), Due(f, i) PROVE Was(i, sent[t])
      <4>1. i <= c
        <5> SUFFICES ASSUME i > c PROVE FALSE
          BY <1>1
        <5>1. i \in RowsAfter(t, c)
          BY <3>3 DEF RowsAfter, Due
        <5> QED
          BY <2>6, <3>0, <3>3, <5>1 DEF Due
      <4> QED
        BY <1>0, <1>1, <3>1, <3>3, <4>1 DEF ReadSoFar
    <3>4. \A i \in 1..Len(table) : Due(f, i)' => Was(i, sent[t])'
      BY <1>0, <3>3 DEF Due, Was
    <3>5. NotAhead(f)'
      BY <1>0, <2>4, <3>2 DEF NotAhead
    <3>6. ReadSoFar(f)' /\ PrefixSent(f)'
      BY <1>0, <3>4 DEF ReadSoFar, PrefixSent
    <3>7. Gapless(f)'
      BY <1>0, <3>4 DEF Gapless, Located
    <3> QED
      BY <3>5, <3>6, <3>7 DEF FilterInv
  <2>8. StreamInv'
    BY <1>10, <2>3, <2>4, <2>5
  <2> QED
    BY <1>0, <1>8, <2>7, <2>8 DEF FiltersInv, Watched, Alone
<1>12. CASE known # {}
  <2>1. fetch' = [fetch EXCEPT ![f] =
           [pc |-> "send", page |-> known, more |-> Paged(raw), cursor |-> Top(raw)]]
    BY <1>4, <1>12
  <2>2. /\ Top(raw) \in raw /\ Top(raw) \in 1..Len(table) /\ Top(raw) \in Nat /\ Top(raw) > c
        /\ \A j \in raw : j <= Top(raw)
    BY <1>3, <1>5, <1>6, <1>12
  <2>3. [pc |-> "send", page |-> known, more |-> Paged(raw), cursor |-> Top(raw)] \in Fetch
    <3>1. Paged(raw) \in BOOLEAN
      BY DEF Paged
    <3>2. known \in SUBSET Nat
      BY <1>3, <1>6
    <3> QED
      BY <2>2, <3>1, <3>2 DEF Fetch
  <2>4. /\ fetch' \in [request -> Fetch]
        /\ fetch'[f] = [pc |-> "send", page |-> known, more |-> Paged(raw), cursor |-> Top(raw)]
    BY <2>1, <2>3 DEF StreamInv, Shape
  <2>5. /\ fetch'[f].pc = "send" /\ fetch'[f].cursor = Top(raw) /\ fetch'[f].page = known
        /\ fetch'[f].more <=> Paged(raw)
    BY <2>4
  <2>6. PagesInHand'
    BY <1>0, <1>1, <1>3, <1>6, <1>7, <2>2, <2>5 DEF StreamInv, PagesInHand
  <2>7. ASSUME Watched(f) PROVE FilterInv(f)'
    <3>1. NotAhead(f) /\ ReadSoFar(f)
      BY <2>7 DEF FiltersInv, FilterInv
    <3>2. highWaterMarks[t] <= c /\ highWaterMarks[t] \in Nat
      BY <1>0, <1>1, <3>1 DEF NotAhead, StreamInv, Shape
    <3>3. NotAhead(f)'
      <4>1. \A i \in known : highWaterMarks[t] < i
        BY <1>1, <1>3, <1>6, <3>2
      <4> QED
        BY <1>0, <1>1, <2>2, <2>5, <3>2, <4>1 DEF NotAhead
    <3>4. ASSUME NEW i \in 1..Len(table), Due(f, i), i \in raw \/ i <= c
          PROVE  Was(i, sent[t]) \/ i \in known
      <4>1. CASE i <= c
        BY <1>0, <1>1, <3>1, <3>4, <4>1 DEF ReadSoFar
      <4>2. CASE i \in raw
        BY <1>3, <3>4, <4>2 DEF Due
      <4> QED
        BY <3>4, <4>1, <4>2
    <3>5. ASSUME NEW i \in 1..Len(table), Due(f, i), i <= Top(raw) \/ raw = RowsAfter(t, c)
          PROVE  i \in raw \/ i <= c
      <4> SUFFICES ASSUME i > c PROVE i \in raw
        BY <1>1
      <4>1. i \in RowsAfter(t, c)
        BY <3>5 DEF RowsAfter, Due
      <4> QED
        BY <1>5, <2>2, <3>5, <4>1
    <3>6. \A i : Due(f, i)' => Due(f, i)
      BY <1>0 DEF Due
    <3>7. ReadSoFar(f)'
      <4> SUFFICES ASSUME NEW i \in 1..Len(table), i <= Top(raw), Due(f, i)
                   PROVE  Was(i, sent[t]) \/ i \in known
        BY <1>0, <2>5, <3>6 DEF ReadSoFar, Was
      <4> QED
        BY <3>4, <3>5
    <3>8. Gapless(f)'
      <4> SUFFICES ASSUME Settled(f)', NEW i \in 1..Len(table), Due(f, i) PROVE Located(f, i)'
        BY <1>0, <3>6 DEF Gapless
      <4>1. raw = RowsAfter(t, c)
        BY <1>5, <2>5 DEF Settled
      <4>2. Was(i, sent[t]) \/ i \in known
        BY <3>4, <3>5, <4>1
      <4> QED
        BY <1>0, <2>5, <4>2 DEF Located, Was
    <3>9. PrefixSent(f)'
      BY <2>5 DEF PrefixSent
    <3> QED
      BY <3>3, <3>7, <3>8, <3>9 DEF FilterInv
  <2>8. StreamInv'
    BY <1>10, <2>4, <2>5, <2>6
  <2> QED
    BY <1>0, <1>8, <2>7, <2>8 DEF FiltersInv, Watched, Alone
<1> QED
  BY <1>11, <1>12

\* A fetch stops, with or without an error: nothing more is said of its filter.
LEMMA StopKeeps ==
  ASSUME StreamInv, FiltersInv, NEW f \in request, pc = "history",
         UNCHANGED <<kind, table, polled, pc, request, messagesCh, registered, cancelled,
                     shutdown, cutover, reading, code, highWaterMarks, sent>>,
         fetch[f].pc # "stopped", errors' = errors \/ errors' = errors + 1,
         fetch' = [fetch EXCEPT ![f] = [fetch[f] EXCEPT !.pc = "stopped", !.page = {}]]
  PROVE  StreamInv' /\ FiltersInv'
<1>1. fetch[f] \in Fetch
  BY DEF StreamInv, Shape
<1>2. [fetch[f] EXCEPT !.pc = "stopped", !.page = {}] \in Fetch
  BY <1>1 DEF Fetch
<1>3. /\ fetch' \in [request -> Fetch] /\ \A g \in request : g # f => fetch'[g] = fetch[g]
      /\ fetch'[f] = [fetch[f] EXCEPT !.pc = "stopped", !.page = {}]
  BY <1>2 DEF StreamInv, Shape
<1>4. fetch'[f].pc = "stopped" /\ fetch'[f].page = {} /\ fetch'[f].cursor = fetch[f].cursor
  BY <1>1, <1>3 DEF Fetch
<1>5. MarksLead'
  BY DEF StreamInv, MarksLead
<1>6. PagesInHand'
  BY <1>3, <1>4 DEF StreamInv, PagesInHand
<1>7. ErrorsCounted'
  <2>1. Stopped' = Stopped \cup {f}
    BY <1>3, <1>4 DEF Stopped
  <2>2. f \notin Stopped
    BY DEF Stopped
  <2>3. IsFiniteSet(Stopped)
    <3>1. Stopped \subseteq request
      BY DEF Stopped
    <3> QED
      BY <3>1, FS_Subset DEF StreamInv, ErrorsCounted
  <2>4. Cardinality(Stopped \cup {f}) = Cardinality(Stopped) + 1 /\ Cardinality(Stopped) \in Nat
    BY <2>2, <2>3, FS_AddElement, FS_CardinalityType
  <2> QED
    BY <2>1, <2>4 DEF StreamInv, ErrorsCounted
<1>8. StreamInv'
  <2>1. sent' \in [Topics -> Seq(Nat)] /\ highWaterMarks' \in [Topics -> Nat]
    BY DEF StreamInv, Shape
  <2> QED
    BY <1>3, <1>5, <1>6, <1>7, <2>1, FetchKeeps
<1>9. ASSUME NEW g \in request, Watched(g) PROVE FilterInv(g)'
  <2>1. CASE g # f
    BY <1>3, <1>9, <2>1, OthersKeep
  <2>2. CASE g = f
    <3>1. NotAhead(f)
      BY <1>9, <2>2 DEF FiltersInv, FilterInv
    <3>2. NotAhead(f)'
      BY <1>4, <3>1 DEF NotAhead
    <3>3. ReadSoFar(f)' /\ Gapless(f)' /\ PrefixSent(f)'
      BY <1>4 DEF ReadSoFar, Gapless, Settled, PrefixSent
    <3> QED
      BY <2>2, <3>2, <3>3 DEF FilterInv
  <2> QED
    BY <2>1, <2>2
<1> QED
  BY <1>8, <1>9 DEF FiltersInv, Watched, Alone

\* A query or a send that fails, or a fetch that is interrupted.
LEMMA QueryStopKeeps ==
  ASSUME StreamInv, FiltersInv, NEW f \in request, QueryFails(f) \/ StopFetch(f) \/ PageFails(f)
  PROVE  StreamInv' /\ FiltersInv'
<1>1. /\ UNCHANGED <<kind, table, polled, pc, request, messagesCh, registered, cancelled,
                     shutdown, cutover, reading, code, highWaterMarks, sent>>
      /\ pc = "history" /\ fetch[f].pc \in {"query", "sending"}
      /\ fetch' = [fetch EXCEPT ![f].pc = "stopped"]
      /\ errors' = errors \/ errors' = errors + 1
  BY DEF QueryFails, StopFetch, PageFails, envVars, dispatcherVars, faultVars
<1>2. fetch[f].page = {} /\ fetch[f] \in Fetch
  BY <1>1 DEF StreamInv, PagesInHand, Shape
<1>3. [fetch[f] EXCEPT !.pc = "stopped"] = [fetch[f] EXCEPT !.pc = "stopped", !.page = {}]
  BY <1>2 DEF Fetch
<1>4. fetch' = [fetch EXCEPT ![f] = [fetch[f] EXCEPT !.pc = "stopped", !.page = {}]]
  BY <1>1, <1>3
<1> QED
  BY <1>1, <1>4, StopKeeps

\* A page goes out: for the only filter of its topic all of it is above the mark, and then
\* everything up to the cursor was sent.
LEMMA SendPageKeeps ==
  ASSUME StreamInv, FiltersInv, NEW f \in request, SendPage(f)
  PROVE  StreamInv' /\ FiltersInv'
<1> DEFINE t == f.topic
           c == fetch[f].cursor
           P == fetch[f].page
<1>0. /\ UNCHANGED <<kind, table, polled, pc, request, messagesCh, registered, cancelled,
                     shutdown, cutover, reading, code>>
      /\ pc = "history" /\ fetch[f].pc = "send"
  BY DEF SendPage, envVars, dispatcherVars, faultVars
<1>1. /\ t \in Topics /\ c \in Nat /\ c <= Len(table) /\ Len(table) \in Nat
      /\ fetch[f] \in Fetch /\ f.cursor \in Nat
      /\ polled \in Nat /\ polled <= Len(table) /\ highWaterMarks[t] \in Nat
  BY <1>0 DEF StreamInv, Shape, Filter, Fetch, PagesInHand
<1>2. /\ \A i \in P : i \in 1..Len(table) /\ i <= c /\ i \in Nat
      /\ IsFiniteSet(P)
  <2>1. \A i \in P : i \in 1..Len(table) /\ i <= c
    BY DEF StreamInv, PagesInHand
  <2>2. IsFiniteSet(1..Len(table))
    BY <1>1, FS_Interval
  <2>3. IsFiniteSet(P)
    <3>1. P \subseteq 1..Len(table)
      BY <2>1
    <3> QED
      BY <2>2, <3>1, FS_Subset
  <2> QED
    BY <1>1, <2>1, <2>3
<1> DEFINE next == IF Fresh(t, P) # {} THEN "sending" ELSE AfterPage(f)
           new == [fetch[f] EXCEPT !.pc = next, !.page = {}]
<1>3. SendToStream(t, P) /\ errors' = errors
  BY DEF SendPage
<1>4. fetch' = [fetch EXCEPT ![f].pc = next, ![f].page = {}]
  BY DEF SendPage
<1>5. /\ new \in Fetch /\ new.pc = next /\ new.page = {} /\ new.cursor = c
      /\ new.more = fetch[f].more /\ next \in {"sending", "query", "done"}
      /\ next = "done" => ~fetch[f].more
  BY <1>1 DEF Fetch, AfterPage
<1>6. fetch' = [fetch EXCEPT ![f] = new]
  BY <1>1, <1>4 DEF StreamInv, Shape, Fetch
<1> HIDE DEF new, next
<1>7. /\ fetch' \in [request -> Fetch] /\ fetch'[f] = new
      /\ \A g \in request : g # f => fetch'[g] = fetch[g]
  BY <1>5, <1>6 DEF StreamInv, Shape
<1>8. /\ sent' \in [Topics -> Seq(Nat)] /\ highWaterMarks' \in [Topics -> Nat]
      /\ \A o \in Topics : o # t => sent'[o] = sent[o] /\ highWaterMarks'[o] = highWaterMarks[o]
      /\ highWaterMarks[t] <= highWaterMarks'[t]
      /\ highWaterMarks'[t] = highWaterMarks[t] \/ highWaterMarks'[t] \in P
      /\ \A i : Was(i, sent[t]) => Was(i, sent'[t])
      /\ \A i \in P : i > highWaterMarks[t] => Was(i, sent'[t])
      /\ MarksLead'
  <2> HIDE DEF t, c, P
  <2> QED
    BY <1>0, <1>1, <1>2, <1>3, Sending DEF StreamInv
<1>9. StreamInv'
  <2>1. Stopped' = Stopped
    BY <1>0, <1>5, <1>7 DEF Stopped
  <2>2. ErrorsCounted'
    BY <1>0, <1>3, <2>1 DEF StreamInv, ErrorsCounted
  <2>3. PagesInHand'
    BY <1>0, <1>1, <1>5, <1>7 DEF StreamInv, PagesInHand
  <2> QED
    BY <1>0, <1>7, <1>8, <2>2, <2>3, FetchKeeps
<1>10. ASSUME NEW g \in request, g # f, Watched(g) PROVE FilterInv(g)'
  <2>1. g.topic # t /\ g.topic \in Topics
    BY <1>10 DEF Watched, Alone, StreamInv, Shape, Filter
  <2> QED
    BY <1>0, <1>7, <1>8, <1>10, <2>1, OthersKeep
<1>11. ASSUME Watched(f) PROVE FilterInv(f)'
  <2>1. NotAhead(f) /\ ReadSoFar(f) /\ Gapless(f)
    BY <1>11 DEF FiltersInv, FilterInv
  <2>2. highWaterMarks[t] <= c /\ \A i \in P : highWaterMarks[t] < i
    BY <1>0, <2>1 DEF NotAhead
  <2>3. highWaterMarks'[t] <= c /\ highWaterMarks'[t] \in Nat
    BY <1>1, <1>2, <1>8, <2>2
  <2>4. \A i \in P : Was(i, sent'[t])
    BY <1>1, <1>2, <1>8, <2>2
  <2>5. \A i : Due(f, i)' <=> Due(f, i)
    BY <1>0 DEF Due
  <2>6. \A i \in 1..Len(table) : i <= c /\ Due(f, i) => Was(i, sent'[t])
    BY <1>0, <1>8, <2>1, <2>4 DEF ReadSoFar
  <2>7. NotAhead(f)'
    BY <1>5, <1>7, <2>3 DEF NotAhead
  <2>8. ReadSoFar(f)'
    BY <1>0, <1>5, <1>7, <2>5, <2>6 DEF ReadSoFar, Was
  <2>9. PrefixSent(f)'
    <3> SUFFICES ASSUME NEW i \in 1..Len(table), i <= highWaterMarks'[t], Due(f, i)
                 PROVE  Was(i, sent'[t])
      BY <1>0, <2>5 DEF PrefixSent, Was
    <3>1. i <= c
      BY <1>1, <2>3
    <3> QED
      BY <2>6, <3>1
  <2>10. Gapless(f)'
    <3> SUFFICES ASSUME Settled(f)', NEW i \in 1..Len(table), i <= polled, Due(f, i)
                 PROVE  Located(f, i)'
      BY <1>0, <2>5 DEF Gapless
    <3>1. Settled(f)
      BY <1>0, <1>5, <1>7 DEF Settled
    <3>2. Located(f, i)
      BY <2>1, <3>1 DEF Gapless
    <3>3. CASE Missed(f, i)
      <4>1. i > c /\ ~registered /\ \A n \in 1..Len(messagesCh) : messagesCh[n] < i
        BY <3>3 DEF Missed
      <4>2. i > highWaterMarks'[t]
        BY <1>1, <2>3, <4>1
      <4>3. Missed(f, i)'
        BY <1>0, <1>5, <1>7, <4>1, <4>2 DEF Missed
      <4> QED
        BY <4>3 DEF Located
    <3>4. CASE Was(i, messagesCh)
      BY <1>0, <3>4 DEF Located, Was
    <3>5. CASE Was(i, sent[t]) \/ i \in P
      <4>1. Was(i, sent'[t])
        BY <1>8, <2>4, <3>5
      <4> QED
        BY <4>1 DEF Located, Was
    <3> QED
      BY <3>2, <3>3, <3>4, <3>5 DEF Located
  <2> QED
    BY <2>7, <2>8, <2>9, <2>10 DEF FilterInv
<1> QED
  BY <1>0, <1>9, <1>10, <1>11 DEF FiltersInv, Watched, Alone

\* The Send of a page returns: the page was counted when it was handed over.
LEMMA PageSentKeeps ==
  ASSUME StreamInv, FiltersInv, NEW f \in request, PageSent(f)
  PROVE  StreamInv' /\ FiltersInv'
<1> DEFINE new == [fetch[f] EXCEPT !.pc = AfterPage(f)]
<1>0. /\ UNCHANGED <<kind, table, polled, pc, request, messagesCh, registered, cancelled,
                     shutdown, cutover, reading, code, errors, highWaterMarks, sent>>
      /\ pc = "history" /\ fetch[f].pc = "sending"
  BY DEF PageSent, envVars, dispatcherVars, faultVars
<1>1. /\ fetch[f] \in Fetch /\ fetch[f].page = {} /\ fetch[f].cursor \in Nat
      /\ f.topic \in Topics /\ highWaterMarks[f.topic] \in Nat /\ Len(table) \in Nat
  BY <1>0 DEF StreamInv, Shape, Filter, Fetch, PagesInHand
<1>2. /\ new \in Fetch /\ new.pc \in {"query", "done"}
      /\ new.pc = "done" => ~fetch[f].more
      /\ new.page = {} /\ new.cursor = fetch[f].cursor
  BY <1>1 DEF Fetch, AfterPage
<1>3. fetch' = [fetch EXCEPT ![f] = new]
  BY DEF PageSent
<1> HIDE DEF new
<1>4. /\ fetch' \in [request -> Fetch] /\ fetch'[f] = new
      /\ \A g \in request : g # f => fetch'[g] = fetch[g]
  BY <1>2, <1>3 DEF StreamInv, Shape
<1>5. StreamInv'
  <2>1. Stopped' = Stopped
    BY <1>0, <1>2, <1>4 DEF Stopped
  <2>2. ErrorsCounted' /\ MarksLead'
    BY <1>0, <2>1 DEF StreamInv, ErrorsCounted, MarksLead
  <2>3. PagesInHand'
    BY <1>0, <1>1, <1>2, <1>4 DEF StreamInv, PagesInHand
  <2>4. sent' \in [Topics -> Seq(Nat)] /\ highWaterMarks' \in [Topics -> Nat]
    BY <1>0 DEF StreamInv, Shape
  <2> QED
    BY <1>0, <1>4, <2>2, <2>3, <2>4, FetchKeeps
<1>6. ASSUME NEW g \in request, g # f, Watched(g) PROVE FilterInv(g)'
  BY <1>0, <1>4, <1>6, OthersKeep
<1>7. ASSUME Watched(f) PROVE FilterInv(f)'
  <2>1. NotAhead(f) /\ ReadSoFar(f) /\ Gapless(f)
    BY <1>7 DEF FiltersInv, FilterInv
  <2>2. \A i : (Due(f, i)' <=> Due(f, i)) /\ (Was(i, sent[f.topic])' <=> Was(i, sent[f.topic]))
    BY <1>0 DEF Due, Was
  <2>3. NotAhead(f)'
    BY <1>0, <1>2, <1>4, <2>1 DEF NotAhead
  <2>4. ReadSoFar(f)'
    BY <1>0, <1>1, <1>2, <1>4, <2>1, <2>2 DEF ReadSoFar
  <2>5. PrefixSent(f)'
    <3> SUFFICES ASSUME NEW i \in 1..Len(table), i <= highWaterMarks[f.topic], Due(f, i)
                 PROVE  Was(i, sent[f.topic])
      BY <1>0, <2>2 DEF PrefixSent
    <3>1. i <= fetch[f].cursor
      BY <1>0, <1>1, <2>1 DEF NotAhead
    <3> QED
      BY <1>0, <1>1, <2>1, <3>1 DEF ReadSoFar
  <2>6. \A i : Located(f, i) => Located(f, i)'
    BY <1>0, <1>1, <1>2, <1>4, <2>2 DEF Located, Missed, Was
  <2>7. Settled(f)' => Settled(f)
    BY <1>0, <1>2, <1>4 DEF Settled
  <2>8. Gapless(f)'
    BY <1>0, <2>1, <2>2, <2>6, <2>7 DEF Gapless
  <2> QED
    BY <2>3, <2>4, <2>5, <2>8 DEF FilterInv
<1> QED
  BY <1>0, <1>5, <1>6, <1>7 DEF FiltersInv, Watched, Alone

\* The live loop takes the first of the channel: everything below it that is owed was sent, and
\* if it is not above the mark so was it.
LEMMA DeliverKeeps ==
  ASSUME StreamInv, FiltersInv, Deliver
  PROVE  StreamInv' /\ FiltersInv'
<1>0. /\ UNCHANGED <<kind, table, polled, request, registered, fetch, errors, cancelled,
                     shutdown, cutover, reading, code>>
      /\ pc = "live" /\ pc' \in {"live", "sending"} /\ messagesCh # <<>>
  BY DEF Deliver, envVars, faultVars
<1>1. PICK k : k = Head(messagesCh)
  OBVIOUS
<1>2. PICK t : t = table[k].topic
  OBVIOUS
<1>3. /\ messagesCh \in Seq(1..Len(table)) /\ Len(messagesCh) <= Backlog
      /\ Len(table) \in Nat /\ polled \in Nat /\ polled <= Len(table)
  BY DEF StreamInv, Shape
<1>4. /\ messagesCh' = Tail(messagesCh) /\ messagesCh' \in Seq(1..Len(table))
      /\ Len(messagesCh') = Len(messagesCh) - 1 /\ Len(messagesCh) \in Nat \ {0}
      /\ \A n \in 1..Len(messagesCh') : messagesCh'[n] = messagesCh[n + 1] /\ n + 1 \in 1..Len(messagesCh)
  BY <1>0, <1>3 DEF Deliver
<1>5. k = messagesCh[1] /\ k \in 1..Len(table) /\ k \in Nat /\ 1 \in 1..Len(messagesCh) /\ k <= polled
  BY <1>0, <1>1, <1>3 DEF StreamInv, ChannelAscends
<1>6. t \in Topics
  <2>1. table[k] \in [topic: Topics, known: BOOLEAN]
    <3>1. table \in Seq([topic: Topics, known: BOOLEAN])
      BY DEF StreamInv, Shape
    <3> QED
      BY <1>5, <3>1, SeqMember
  <2> QED
    BY <1>2, <2>1
<1>7. /\ sent' \in [Topics -> Seq(Nat)] /\ highWaterMarks' \in [Topics -> Nat]
      /\ \A o \in Topics : o # t => sent'[o] = sent[o] /\ highWaterMarks'[o] = highWaterMarks[o]
      /\ highWaterMarks[t] <= highWaterMarks'[t]
      /\ highWaterMarks'[t] = highWaterMarks[t] \/ highWaterMarks'[t] = k
      /\ k <= highWaterMarks'[t]
      /\ \A i : Was(i, sent[t]) => Was(i, sent'[t])
      /\ k > highWaterMarks[t] => Was(k, sent'[t])
      /\ MarksLead'
  <2>1. SendToStream(t, {k})
    BY <1>1, <1>2 DEF Deliver
  <2>2. IsFiniteSet({k}) /\ \A i \in {k} : i \in 1..Len(table)
    BY <1>5, FS_Singleton
  <2> QED
    BY <1>0, <1>6, <2>1, <2>2, Sending DEF StreamInv
<1>8. highWaterMarks[t] \in Nat /\ highWaterMarks'[t] \in Nat
  BY <1>6, <1>7 DEF StreamInv, Shape
<1>9. Shape'
  <2>1. Len(messagesCh') <= Backlog
    BY <1>3, <1>4, LegacyAssumption
  <2> QED
    BY <1>0, <1>4, <1>7, <2>1 DEF StreamInv, Shape
<1>10. Flags'
  BY <1>0 DEF StreamInv, Flags
<1>11. ErrorsCounted' /\ FewUnknown'
  <2>1. Stopped' = Stopped /\ Unknown' = Unknown
    BY <1>0 DEF Stopped, Unknown
  <2> QED
    BY <1>0, <2>1 DEF StreamInv, ErrorsCounted, FewUnknown
<1>12. IdleIsEmpty' /\ PagesInHand'
  BY <1>0 DEF StreamInv, IdleIsEmpty, PagesInHand
<1>13. ChannelAscends'
  <2>1. /\ \A n \in 1..Len(messagesCh) : messagesCh[n] <= polled
        /\ \A m, n \in 1..Len(messagesCh) : m < n => messagesCh[m] < messagesCh[n]
    BY DEF StreamInv, ChannelAscends
  <2>2. \A n \in 1..Len(messagesCh') : messagesCh'[n] <= polled
    BY <1>4, <2>1
  <2>3. ASSUME NEW m \in 1..Len(messagesCh'), NEW n \in 1..Len(messagesCh'), m < n
        PROVE  messagesCh'[m] < messagesCh'[n]
    <3>1. m + 1 < n + 1 /\ m + 1 \in 1..Len(messagesCh) /\ n + 1 \in 1..Len(messagesCh)
      BY <1>4, <2>3
    <3> QED
      BY <1>4, <2>1, <3>1
  <2> QED
    BY <1>0, <2>2, <2>3 DEF ChannelAscends
<1>14. ASSUME NEW i, Was(i, messagesCh) PROVE i = k \/ (Was(i, messagesCh') /\ i \in Nat /\ k < i)
  <2>1. PICK n \in 1..Len(messagesCh) : messagesCh[n] = i
    BY <1>14 DEF Was
  <2>2. CASE n = 1
    BY <1>5, <2>1, <2>2
  <2>3. CASE n # 1
    <3>1. n - 1 \in 1..Len(messagesCh') /\ 1 < n
      BY <1>4, <2>1, <2>3
    <3>2. messagesCh'[n - 1] = i
      BY <1>4, <2>1, <3>1
    <3>3. k < i
      BY <1>5, <2>1, <3>1 DEF StreamInv, ChannelAscends
    <3>4. i \in Nat
      BY <1>3, <2>1
    <3> QED
      BY <3>1, <3>2, <3>3, <3>4 DEF Was
  <2> QED
    BY <2>2, <2>3
<1>15. \A n \in 1..Len(messagesCh') : \E m \in 1..Len(messagesCh) : messagesCh'[n] = messagesCh[m]
  BY <1>4
<1>16. ASSUME NEW f \in request, Watched(f) PROVE FilterInv(f)'
  <2>1. NotAhead(f) /\ ReadSoFar(f) /\ Gapless(f) /\ PrefixSent(f)
    BY <1>16 DEF FiltersInv, FilterInv
  <2>2. NotAhead(f)'
    BY <1>0 DEF NotAhead
  <2>3. f.topic \in Topics /\ f.cursor \in Nat
    BY DEF StreamInv, Shape, Filter
  <2>4. \A i : Due(f, i)' <=> Due(f, i)
    BY <1>0 DEF Due
  <2>5. \A i : Was(i, sent[f.topic]) => Was(i, sent[f.topic])'
    <3>1. \A i : Was(i, sent[f.topic]) => Was(i, sent'[f.topic])
      BY <1>7, <2>3
    <3> QED
      BY <1>0, <3>1 DEF Was
  <2>6. ReadSoFar(f)'
    BY <1>0, <2>1, <2>4, <2>5 DEF ReadSoFar
  <2>7. ASSUME Due(f, k), fetch[f].pc = "done" PROVE Was(k, sent[f.topic])' /\ f.topic = t
    <3>1. f.topic = t
      BY <1>2, <2>7 DEF Due
    <3>2. CASE k > highWaterMarks[t]
      BY <1>7, <3>1, <3>2 DEF Was
    <3>3. CASE k <= highWaterMarks[t]
      BY <1>5, <2>1, <2>5, <2>7, <3>1, <3>3 DEF PrefixSent
    <3> QED
      BY <1>5, <1>8, <3>1, <3>2, <3>3
  <2>8. fetch[f].pc \notin {"send", "sending"}
    BY <1>0 DEF StreamInv, PagesInHand
  <2>9. ASSUME Settled(f), NEW i \in 1..Len(table), i <= polled, Due(f, i) PROVE Located(f, i)'
    <3>1. Located(f, i) /\ fetch[f].pc = "done"
      BY <2>1, <2>8, <2>9 DEF Gapless, Settled
    <3>2. CASE Was(i, sent[f.topic])
      BY <2>5, <3>2 DEF Located
    <3>3. CASE i \in fetch[f].page
      BY <1>0, <3>3 DEF Located
    <3>4. CASE Was(i, messagesCh)
      <4>1. CASE i = k
        BY <2>7, <2>9, <3>1, <4>1 DEF Located
      <4>2. CASE Was(i, messagesCh')
        BY <4>2 DEF Located, Was
      <4> QED
        BY <1>14, <3>4, <4>1, <4>2
    <3>5. CASE Missed(f, i)
      <4>1. /\ ~registered /\ i > highWaterMarks[f.topic] /\ i > fetch[f].cursor
            /\ \A n \in 1..Len(messagesCh) : messagesCh[n] < i
        BY <3>5 DEF Missed
      <4>2. k < i
        BY <1>5, <4>1
      <4>3. i > highWaterMarks'[f.topic]
        BY <1>7, <2>3, <4>1, <4>2
      <4>4. Missed(f, i)'
        BY <1>0, <1>15, <4>1, <4>3 DEF Missed
      <4> QED
        BY <4>4 DEF Located
    <3> QED
      BY <3>1, <3>2, <3>3, <3>4, <3>5 DEF Located
  <2>10. Gapless(f)'
    BY <1>0, <2>4, <2>9 DEF Gapless, Settled
  <2>11. PrefixSent(f)'
    <3> SUFFICES ASSUME fetch[f].pc = "done", NEW i \in 1..Len(table),
                        i <= highWaterMarks'[f.topic], Due(f, i)
                 PROVE  Was(i, sent[f.topic])'
      BY <1>0, <2>4 DEF PrefixSent
    <3>1. CASE highWaterMarks'[f.topic] = highWaterMarks[f.topic]
      BY <2>1, <2>5, <3>1 DEF PrefixSent
    <3>2. CASE f.topic = t /\ highWaterMarks'[t] = k
      <4>1. i <= k /\ i <= polled /\ i \in Nat
        BY <1>3, <1>5, <3>2
      <4>2. Located(f, i)
        BY <2>1, <4>1 DEF Gapless, Settled
      <4>3. CASE Was(i, sent[f.topic])
        BY <2>5, <4>3
      <4>4. CASE i \in fetch[f].page
        BY <2>8, <4>4 DEF StreamInv, PagesInHand
      <4>5. CASE Was(i, messagesCh)
        <5>1. i = k
          BY <1>5, <1>14, <4>1, <4>5
        <5> QED
          BY <2>7, <5>1
      <4>6. CASE Missed(f, i)
        <5>1. k < i
          BY <1>5, <4>6 DEF Missed
        <5> QED
          BY <1>5, <4>1, <5>1
      <4> QED
        BY <4>2, <4>3, <4>4, <4>5, <4>6 DEF Located
    <3> QED
      BY <1>7, <2>3, <3>1, <3>2
  <2> QED
    BY <2>2, <2>6, <2>10, <2>11 DEF FilterInv
<1> QED
  BY <1>0, <1>7, <1>9, <1>10, <1>11, <1>12, <1>13, <1>16 DEF StreamInv, FiltersInv, Watched, Alone

-----------------------------------------------------------------------------
(* Every step, and what it comes to.                                       *)

\* A refusal, the end of the history, a return, a flag that is raised.
LEMMA HandlerStep ==
  ASSUME StreamInv, FiltersInv,
         \/ \E r \in Requests : Refuse(r)
         \/ HistoryFetched \/ ReturnError \/ ReturnCancelled \/ ReturnShutdown \/ ReturnCutover
         \/ ReturnTooSlow \/ Delivered \/ DeliverFails
         \/ Cancel \/ Shutdown \/ Cutover \/ StopReading \/ UNCHANGED vars
  PROVE  StreamInv' /\ FiltersInv'
<1> USE DEF envVars, dispatcherVars, faultVars, coreVars
<1>0. code \in Codes /\ Flags
  BY DEF StreamInv, Shape
<1>1. ASSUME NEW r \in Requests, Refuse(r) PROVE StreamInv' /\ FiltersInv'
  <2>1. /\ UNCHANGED <<coreVars, errors, registered, cancelled, shutdown, cutover, reading>>
        /\ pc = "idle" /\ pc' = "ended" /\ code' \in Codes
    BY <1>1 DEF Refuse, Codes
  <2>2. request = {}
    BY <2>1 DEF StreamInv, IdleIsEmpty
  <2>3. Flags'
    BY <1>0, <2>1 DEF Flags
  <2> QED
    BY <2>1, <2>2, <2>3, HandlerKeeps
<1>2. CASE HistoryFetched
  <2>1. /\ UNCHANGED <<coreVars, errors, registered, cancelled, shutdown, cutover, reading, code>>
        /\ pc' = "live" /\ \A f \in request : fetch[f].pc \in {"done", "stopped"}
    BY <1>2 DEF HistoryFetched, Finished
  <2>2. Flags'
    BY <1>0, <2>1 DEF Flags
  <2> QED
    BY <1>0, <2>1, <2>2, HandlerKeeps
<1>3. ASSUME NEW c \in Codes, pc \in {"live", "sending"}, Return(c) PROVE StreamInv' /\ FiltersInv'
  <2>1. /\ UNCHANGED <<coreVars, errors, cancelled, shutdown, cutover, reading>>
        /\ pc \in {"live", "sending"} /\ pc' = "ended" /\ code' \in Codes /\ registered' = FALSE
    BY <1>3 DEF Return
  <2>2. \A f \in request : fetch[f].pc \in {"done", "stopped"}
    BY <2>1 DEF StreamInv, PagesInHand
  <2>3. Flags'
    BY <1>0, <2>1 DEF Flags
  <2> QED
    BY <2>1, <2>2, <2>3, HandlerKeeps
<1>4. CASE ReturnError \/ ReturnCancelled \/ ReturnShutdown \/ ReturnCutover \/ ReturnTooSlow \/ DeliverFails
  <2>1. \E c \in Codes : pc \in {"live", "sending"} /\ Return(c)
    BY <1>4 DEF ReturnError, ReturnCancelled, ReturnShutdown, ReturnCutover, ReturnTooSlow,
                DeliverFails, Codes
  <2> QED
    BY <1>3, <2>1
<1>5. CASE Cancel \/ Shutdown \/ Cutover \/ StopReading
  <2>1. UNCHANGED <<coreVars, errors, pc, registered, code>>
    BY <1>5 DEF Cancel, Shutdown, Cutover, StopReading
  <2>2. Flags'
    BY <1>0, <1>5 DEF Flags, Cancel, Shutdown, Cutover, StopReading
  <2> QED
    BY <1>0, <2>1, <2>2, HandlerKeeps
<1>6. CASE UNCHANGED vars
  <2>1. UNCHANGED <<coreVars, errors, pc, registered, code, cancelled, shutdown, cutover, reading>>
    BY <1>6 DEF vars
  <2>2. Flags'
    BY <1>0, <2>1 DEF Flags
  <2> QED
    BY <1>0, <2>1, <2>2, HandlerKeeps
<1>7. CASE Delivered
  <2>1. /\ UNCHANGED <<coreVars, errors, registered, cancelled, shutdown, cutover, reading, code>>
        /\ pc = "sending" /\ pc' = "live"
    BY <1>7 DEF Delivered
  <2>2. \A f \in request : fetch[f].pc \in {"done", "stopped"}
    BY <2>1 DEF StreamInv, PagesInHand
  <2>3. Flags'
    BY <1>0, <2>1 DEF Flags
  <2> QED
    BY <1>0, <2>1, <2>2, <2>3, HandlerKeeps
<1> QED
  BY <1>1, <1>2, <1>4, <1>5, <1>6, <1>7

\* Every step keeps the invariant.
LEMMA StreamNext ==
  ASSUME StreamInv, FiltersInv, [Next]_vars
  PROVE  StreamInv' /\ FiltersInv'
<1>1. ASSUME NEW t \in Topics, NEW known \in BOOLEAN, Publish(t, known) PROVE StreamInv' /\ FiltersInv'
  BY <1>1, PublishKeeps
<1>2. CASE Poll
  BY <1>2, PollKeeps
<1>3. ASSUME NEW r \in Requests, Open(r) PROVE StreamInv' /\ FiltersInv'
  BY <1>3, OpenKeeps
<1>4. ASSUME NEW f \in request, Fetcher(f) PROVE StreamInv' /\ FiltersInv'
  BY <1>4, QueryKeeps, QueryStopKeeps, SendPageKeeps, PageSentKeeps DEF Fetcher
<1>5. CASE Deliver
  BY <1>5, DeliverKeeps
<1>6. CASE \/ \E r \in Requests : Refuse(r)
           \/ HistoryFetched \/ ReturnError \/ ReturnCancelled \/ ReturnShutdown \/ ReturnCutover
           \/ ReturnTooSlow \/ Delivered \/ DeliverFails
           \/ Cancel \/ Shutdown \/ Cutover \/ StopReading \/ UNCHANGED vars
  BY <1>6, HandlerStep
<1> QED
  BY <1>1, <1>2, <1>3, <1>4, <1>5, <1>6 DEF Next, Handler, SendEnds, Ended

\* The invariant holds throughout.
LEMMA StreamAlways == Spec => [](StreamInv /\ FiltersInv)
<1>1. StreamInv /\ FiltersInv /\ [Next]_vars => (StreamInv /\ FiltersInv)'
  BY StreamNext
<1> QED
  BY <1>1, StreamInit, PTL DEF Spec

\* A filter whose history was fetched to the end has lost nothing the poller passed: the
\* subscription is registered before the history is read and the channel is drained after it,
\* so the two overlap however pages, publications and polls interleave (service.go:466-536).
THEOREM NothingFallsBetween ==
  ASSUME PagesShow
  PROVE  Spec => []NoGap
<1>1. StreamInv /\ FiltersInv => NoGap
  <2> SUFFICES ASSUME StreamInv, FiltersInv, registered, NEW f \in request, Alone(f),
                      fetch[f].pc = "done", NEW i \in Deliverable(f, polled)
               PROVE  Was(i, sent[f.topic]) \/ Was(i, messagesCh)
    BY DEF NoGap
  <2>1. i \in 1..Len(table) /\ i <= polled /\ Due(f, i)
    BY DEF StreamInv, Shape, Filter, Deliverable, Due
  <2>2. Located(f, i)
    BY <2>1 DEF FiltersInv, FilterInv, Gapless, Settled, Watched
  <2>3. fetch[f].page = {}
    BY DEF StreamInv, PagesInHand
  <2> QED
    BY <2>2, <2>3 DEF Located, Missed
<1> QED
  BY <1>1, StreamAlways, PTL

\* What is sent of a topic ascends, and to the last message sent there is nothing missing: the
\* high-water marks remove what history and channel both carry, and nothing else; a channel
\* that was closed as full is a prefix too (service.go:441-462, 545-578).
THEOREM SentWithoutGap ==
  ASSUME PagesShow
  PROVE  Spec => []SentIsPrefix
<1>1. StreamInv /\ FiltersInv => SentIsPrefix
  <2> SUFFICES ASSUME StreamInv, FiltersInv PROVE SentIsPrefix
    OBVIOUS
  <2>1. \A t \in Topics : \A m, n \in 1..Len(sent[t]) : m < n => sent[t][m] < sent[t][n]
    BY DEF StreamInv, MarksLead
  <2>2. ASSUME NEW f \in request, Alone(f), fetch[f].pc = "done",
               NEW i \in Deliverable(f, highWaterMarks[f.topic])
        PROVE  Was(i, sent[f.topic])
    <3>1. f.topic \in Topics /\ f.cursor \in Nat
      BY DEF StreamInv, Shape, Filter
    <3>2. highWaterMarks[f.topic] \in Nat /\ highWaterMarks[f.topic] <= Len(table)
      BY <3>1 DEF StreamInv, Shape, MarksLead
    <3>3. i \in (f.cursor + 1)..highWaterMarks[f.topic] /\ table[i].topic = f.topic /\ table[i].known
      BY DEF Deliverable
    <3>4. Len(table) \in Nat
      BY DEF StreamInv, Shape
    <3>5. i \in 1..Len(table) /\ i <= highWaterMarks[f.topic] /\ i > f.cursor
      BY <3>1, <3>2, <3>3, <3>4
    <3>6. Due(f, i)
      BY <3>3, <3>5 DEF Due
    <3> QED
      BY <2>2, <3>5, <3>6 DEF FiltersInv, FilterInv, PrefixSent, Watched
  <2> QED
    BY <2>1, <2>2 DEF SentIsPrefix
<1> QED
  BY <1>1, StreamAlways, PTL

\* The channel stays within its capacity, pages are sets of rows, and there are no more errors
\* than fetches, so no send to errChan blocks (its capacity is the number of filters).
THEOREM LegacyTypeCorrect == Spec => []TypeOK
<1>1. StreamInv => TypeOK
  <2> SUFFICES ASSUME StreamInv PROVE TypeOK
    OBVIOUS
  <2>1. errors \in 0..Cardinality(request)
    <3>1. Stopped \subseteq request
      BY DEF Stopped
    <3>2. Cardinality(Stopped) <= Cardinality(request) /\ Cardinality(request) \in Nat
          /\ Cardinality(Stopped) \in Nat
      BY <3>1, FS_Subset, FS_CardinalityType DEF StreamInv, ErrorsCounted
    <3> QED
      BY <3>2 DEF StreamInv, ErrorsCounted
  <2> QED
    BY <2>1 DEF StreamInv, Shape, Flags, TypeOK
<1> QED
  BY <1>1, StreamAlways, PTL
=============================================================================
