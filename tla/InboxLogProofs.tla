---------------------------- MODULE InboxLogProofs ----------------------------
(***************************************************************************)
(* Proofs about InboxLog, for any inboxes, addresses, calls and updates:   *)
(* an update is stored only if it was validated against exactly the        *)
(* updates before it, and stored once however often it is tried; the       *)
(* address log says of every address what the members of the inbox say.    *)
(***************************************************************************)
EXTENDS InboxLog, WellFoundedInduction, TLAPS

States == {"idle", "waiting", "locked", "inserted"}

\* What of the types the argument needs.
InboxTypes ==
  /\ inboxLog \in [Inboxes -> Seq(Entry)]
  /\ touched \in [Inboxes -> Nat]
  /\ sequence \in Nat
  /\ tx \in [Callers -> [pc: States, tries: Nat, seen: Nat, version: Nat, id: Nat]]
  /\ DOMAIN reply = Callers

\* The version of an inbox counts its entries: every commit touches the row.
VersionsCount == \A x \in Inboxes : touched[x] = Len(inboxLog[x])

\* The snapshot of a transaction is a prefix of the log, its version that of its end.
SnapshotsArePrefixes ==
  \A p \in Callers : tx[p].pc # "idle" =>
    tx[p].version = tx[p].seen /\ tx[p].seen <= Len(inboxLog[InboxOf(p)])

\* What was inserted was accepted on the snapshot.
InsertedWasAccepted ==
  \A p \in Callers : tx[p].pc = "inserted" => Accepts(Seen(p), Update[p])

OkIsStored ==
  \A p \in Callers : reply[p] = "ok" => \E e \in Entries(InboxOf(p)) : e.update = Update[p]

InboxInv ==
  /\ InboxTypes /\ VersionsCount /\ SnapshotsArePrefixes /\ InsertedWasAccepted
  /\ ValidatedInOrder /\ OkIsStored

\* The rows of the address log have their shape; no id is ahead of the sequence.
AddressTypes ==
  /\ addressLog \subseteq AddressRow /\ \A row \in addressLog : row.association <= sequence
  /\ \A p \in Callers : tx[p].pc = "inserted" => tx[p].id <= sequence

\* Of the associations of an address with an inbox only the newest can be alive.
LiveIsNewest ==
  \A row, o \in addressLog :
    row.revocation = NotRevoked /\ o.address = row.address /\ o.inbox = row.inbox
      => o.association <= row.association

\* A transaction that can still commit has an id above those of its inbox's associations.
FreshId ==
  \A p \in Callers : tx[p].pc = "inserted" /\ Touches(p) =>
    /\ tx[p].id >= 1
    /\ \A row \in addressLog : row.inbox = InboxOf(p) => row.association < tx[p].id

\* No call has an attempt too many, and what was inserted found room.
Bounded ==
  /\ reply \in [Callers -> {"none", "ok", "error"}]
  /\ \A p \in Callers :
       /\ tx[p].tries <= NumRetries
       /\ reply[p] = "none" /\ tx[p].pc = "idle" => tx[p].tries < NumRetries
       /\ tx[p].pc = "inserted" => tx[p].seen < MaxEntries
  /\ \A x \in Inboxes : Len(inboxLog[x]) <= MaxEntries

AddressInv == AddressTypes /\ LiveIsNewest /\ FreshId /\ AddressLogAgrees

-----------------------------------------------------------------------------
\* The inbox of a call is one of the inboxes.
LEMMA InboxOfCall == ASSUME NEW p \in Callers PROVE InboxOf(p) \in Inboxes /\ Update[p] \in IdentityUpdate
BY InboxAssumption DEF InboxOf, IdentityUpdate

\* A prefix of a log is the same when the log has grown.
LEMMA PrefixOfAppend ==
  ASSUME NEW S, NEW s \in Seq(S), NEW e \in S, NEW k \in 0..Len(s)
  PROVE  SubSeq(Append(s, e), 1, k) = SubSeq(s, 1, k)
OBVIOUS

\* The whole log is its longest prefix.
LEMMA WholePrefix ==
  ASSUME NEW S, NEW s \in Seq(S)
  PROVE  SubSeq(s, 1, Len(s)) = s
OBVIOUS

\* The invariant holds at first: the logs are empty.
LEMMA InboxInit == Init => InboxInv
<1> SUFFICES ASSUME Init PROVE InboxInv
  OBVIOUS
<1>1. InboxTypes /\ VersionsCount
  BY DEF Init, InboxTypes, VersionsCount, States
<1>2. SnapshotsArePrefixes /\ InsertedWasAccepted /\ OkIsStored
  BY DEF Init, SnapshotsArePrefixes, InsertedWasAccepted, OkIsStored
<1>3. ValidatedInOrder
  BY DEF Init, ValidatedInOrder
<1> QED BY <1>1, <1>2, <1>3 DEF InboxInv

\* A step that changes no log keeps what is said of the logs.
LEMMA LogsUntouched ==
  ASSUME InboxInv, UNCHANGED <<inboxLog, touched>>
  PROVE  VersionsCount' /\ ValidatedInOrder'
BY DEF InboxInv, VersionsCount, ValidatedInOrder

\* A step of call p that changes no log, and acknowledges nothing.
LEMMA QuietStep ==
  ASSUME InboxInv, NEW p \in Callers, UNCHANGED <<inboxLog, touched>>, InboxTypes',
         \A q \in Callers : q # p => tx'[q] = tx[q],
         \A q \in Callers : reply'[q] = "ok" => reply[q] = "ok",
         tx'[p].pc # "idle" =>
           tx'[p].version = tx'[p].seen /\ tx'[p].seen <= Len(inboxLog[InboxOf(p)]),
         tx'[p].pc = "inserted" => Accepts(SubSeq(inboxLog[InboxOf(p)], 1, tx'[p].seen), Update[p])
  PROVE  InboxInv'
<1>1. SnapshotsArePrefixes'
  BY DEF InboxInv, SnapshotsArePrefixes
<1>2. InsertedWasAccepted'
  <2> SUFFICES ASSUME NEW q \in Callers, tx'[q].pc = "inserted" PROVE Accepts(Seen(q)', Update[q])
    BY DEF InsertedWasAccepted, Accepts, Members
  <2>1. CASE q = p
    BY <2>1 DEF Seen
  <2>2. CASE q # p
    <3>1. Seen(q)' = Seen(q)
      BY <2>2 DEF Seen
    <3> QED BY <2>2, <3>1 DEF InboxInv, InsertedWasAccepted
  <2> QED BY <2>1, <2>2
<1>3. OkIsStored'
  BY DEF InboxInv, OkIsStored, Entries
<1> QED BY <1>1, <1>2, <1>3, LogsUntouched DEF InboxInv

\* The commit: the touch succeeds, so the snapshot is the whole log.
LEMMA CommitInOrder ==
  ASSUME InboxInv, NEW p \in Callers, Commit(p) PROVE InboxInv'
<1> DEFINE x == InboxOf(p)
           log == inboxLog[x]
           e == [id |-> tx[p].id, update |-> Update[p], basis |-> tx[p].seen]
<1>1. x \in Inboxes /\ Update[p] \in IdentityUpdate
  BY InboxOfCall
<1>2. /\ tx[p].pc = "inserted" /\ touched[x] = tx[p].version /\ UNCHANGED sequence
      /\ inboxLog' = [inboxLog EXCEPT ![x] = Append(@, e)]
      /\ touched' = [touched EXCEPT ![x] = @ + 1]
      /\ tx' = [tx EXCEPT ![p].pc = "idle"]
  BY DEF Commit, Touches, Retried
<1>3. log \in Seq(Entry) /\ tx[p].id \in Nat /\ tx[p].seen \in Nat /\ tx[p].seen = Len(log)
      /\ tx[p].version = tx[p].seen
  BY <1>1, <1>2 DEF InboxInv, InboxTypes, VersionsCount, SnapshotsArePrefixes
<1>4. e \in Entry /\ e.update = Update[p] /\ e.basis = Len(log)
  BY <1>1, <1>3 DEF Entry
<1>5. Accepts(log, Update[p])
  <2>1. Seen(p) = log
    BY <1>3, WholePrefix DEF Seen
  <2> QED BY <1>2, <2>1 DEF InboxInv, InsertedWasAccepted
<1> HIDE DEF e
<1>6. inboxLog'[x] = Append(log, e) /\ \A y \in Inboxes : y # x => inboxLog'[y] = inboxLog[y]
  BY <1>1, <1>2 DEF InboxInv, InboxTypes
<1>7. /\ inboxLog'[x] \in Seq(Entry) /\ Len(inboxLog'[x]) = Len(log) + 1
      /\ inboxLog'[x][Len(log) + 1] = e
      /\ \A n \in 1..Len(log) : inboxLog'[x][n] = log[n]
  BY <1>3, <1>4, <1>6
<1>8. \A n \in 1..Len(inboxLog'[x]) : n \in 1..Len(log) \/ n = Len(log) + 1
  BY <1>3, <1>7
<1>9. InboxTypes'
  <2>1. inboxLog' \in [Inboxes -> Seq(Entry)]
    <3>1. inboxLog' = [y \in Inboxes |-> IF y = x THEN Append(log, e) ELSE inboxLog[y]]
      BY <1>1, <1>2 DEF InboxInv, InboxTypes
    <3>2. Append(log, e) \in Seq(Entry)
      BY <1>3, <1>4
    <3>3. \A y \in Inboxes : inboxLog[y] \in Seq(Entry)
      BY DEF InboxInv, InboxTypes
    <3> QED BY <3>1, <3>2, <3>3
  <2>2. touched' \in [Inboxes -> Nat] /\ sequence' \in Nat
    BY <1>1, <1>2 DEF InboxInv, InboxTypes
  <2>3. tx' \in [Callers -> [pc: States, tries: Nat, seen: Nat, version: Nat, id: Nat]]
    BY <1>2 DEF InboxInv, InboxTypes, States
  <2>4. DOMAIN reply' = Callers
    BY DEF Commit, Retried, InboxInv, InboxTypes
  <2> QED BY <2>1, <2>2, <2>3, <2>4 DEF InboxTypes
<1>10. VersionsCount'
  BY <1>1, <1>2, <1>6, <1>7 DEF InboxInv, InboxTypes, VersionsCount
<1>11. \A q \in Callers : q # p => tx'[q] = tx[q]
  BY <1>2 DEF InboxInv, InboxTypes
<1>12. tx'[p].pc = "idle"
  BY <1>2 DEF InboxInv, InboxTypes
<1>13. \A q \in Callers : InboxOf(q) \in Inboxes
  BY InboxOfCall
<1>14. \A y \in Inboxes : Len(inboxLog[y]) \in Nat /\ Len(inboxLog[y]) <= Len(inboxLog'[y])
  <2> SUFFICES ASSUME NEW y \in Inboxes
               PROVE  Len(inboxLog[y]) \in Nat /\ Len(inboxLog[y]) <= Len(inboxLog'[y])
    OBVIOUS
  <2>1. inboxLog[y] \in Seq(Entry) /\ Len(inboxLog[y]) \in Nat
    BY DEF InboxInv, InboxTypes
  <2>2. CASE y = x
    BY <1>7, <2>1, <2>2
  <2>3. CASE y # x
    BY <1>6, <2>1, <2>3
  <2> QED BY <2>2, <2>3
<1>15. \A y \in Inboxes : \A k \in 0..Len(inboxLog[y]) :
         SubSeq(inboxLog'[y], 1, k) = SubSeq(inboxLog[y], 1, k)
  <2> SUFFICES ASSUME NEW y \in Inboxes, NEW k \in 0..Len(inboxLog[y])
               PROVE  SubSeq(inboxLog'[y], 1, k) = SubSeq(inboxLog[y], 1, k)
    OBVIOUS
  <2>1. CASE y = x
    <3>1. k \in 0..Len(log)
      BY <2>1
    <3>2. SubSeq(Append(log, e), 1, k) = SubSeq(log, 1, k)
      BY <1>3, <1>4, <3>1, PrefixOfAppend
    <3> QED BY <1>6, <2>1, <3>2
  <2>2. CASE y # x
    BY <1>6, <2>2
  <2> QED BY <2>1, <2>2
<1>16. \A q \in Callers : tx[q].seen \in Nat
  BY DEF InboxInv, InboxTypes
<1>17. SnapshotsArePrefixes'
  <2> SUFFICES ASSUME NEW q \in Callers, tx'[q].pc # "idle"
               PROVE  tx'[q].version = tx'[q].seen /\ tx'[q].seen <= Len(inboxLog'[InboxOf(q)])
    BY DEF SnapshotsArePrefixes
  <2>1. tx'[q] = tx[q]
    BY <1>11, <1>12
  <2>2. tx[q].version = tx[q].seen /\ tx[q].seen <= Len(inboxLog[InboxOf(q)])
    BY <2>1 DEF InboxInv, SnapshotsArePrefixes
  <2> QED BY <1>13, <1>14, <1>16, <2>1, <2>2
<1>18. InsertedWasAccepted'
  <2> SUFFICES ASSUME NEW q \in Callers, tx'[q].pc = "inserted"
               PROVE  Accepts(Seen(q)', Update[q])
    BY DEF InsertedWasAccepted, Accepts, Members
  <2>1. tx'[q] = tx[q]
    BY <1>11, <1>12
  <2>2. tx[q].seen \in 0..Len(inboxLog[InboxOf(q)])
    BY <1>13, <1>14, <1>16, <2>1 DEF InboxInv, SnapshotsArePrefixes
  <2>3. Seen(q)' = Seen(q)
    BY <1>13, <1>15, <2>1, <2>2 DEF Seen
  <2> QED BY <2>1, <2>3 DEF InboxInv, InsertedWasAccepted
<1>19. ValidatedInOrder'
  <2> SUFFICES ASSUME NEW y \in Inboxes, NEW n \in 1..Len(inboxLog'[y])
               PROVE  /\ inboxLog'[y][n].basis = n - 1
                      /\ Accepts(SubSeq(inboxLog'[y], 1, n - 1), inboxLog'[y][n].update)
    BY DEF ValidatedInOrder, Accepts, Members
  <2>1. CASE n \in 1..Len(inboxLog[y])
    <3>1. inboxLog'[y][n] = inboxLog[y][n]
      BY <1>6, <1>7, <2>1
    <3>2. SubSeq(inboxLog'[y], 1, n - 1) = SubSeq(inboxLog[y], 1, n - 1)
      BY <1>14, <1>15, <2>1
    <3> QED BY <2>1, <3>1, <3>2 DEF InboxInv, ValidatedInOrder
  <2>2. CASE y = x /\ n = Len(log) + 1
    <3>1. SubSeq(inboxLog'[y], 1, n - 1) = log
      BY <1>3, <1>15, <1>1, <2>2, WholePrefix
    <3>2. inboxLog'[y][n] = e /\ n - 1 = Len(log)
      BY <1>3, <1>7, <2>2
    <3> QED BY <1>4, <1>5, <3>1, <3>2
  <2> QED BY <1>6, <1>8, <2>1, <2>2
<1>20. OkIsStored'
  <2> SUFFICES ASSUME NEW q \in Callers, reply'[q] = "ok"
               PROVE  \E f \in Entries(InboxOf(q))' : f.update = Update[q]
    BY DEF OkIsStored, Entries
  <2>1. \A y \in Inboxes : \A f \in Entries(y) : f \in Entries(y)'
    <3> SUFFICES ASSUME NEW y \in Inboxes, NEW n \in 1..Len(inboxLog[y])
                 PROVE  \E k \in 1..Len(inboxLog'[y]) : inboxLog'[y][k] = inboxLog[y][n]
      BY DEF Entries
    <3>1. n \in 1..Len(inboxLog'[y])
      BY <1>3, <1>6, <1>7
    <3> QED BY <1>6, <1>7, <3>1
  <2>2. CASE q = p
    <3>1. Len(log) + 1 \in 1..Len(inboxLog'[x])
      BY <1>3, <1>7
    <3>2. e \in Entries(x)'
      BY <1>7, <3>1 DEF Entries
    <3> QED BY <1>4, <2>2, <3>2
  <2>3. CASE q # p
    <3>1. reply[q] = "ok"
      BY <2>3 DEF Commit, Retried, InboxInv, InboxTypes
    <3> QED BY <1>13, <2>1, <3>1 DEF InboxInv, OkIsStored
  <2> QED BY <2>2, <2>3
<1> QED BY <1>9, <1>10, <1>17, <1>18, <1>19, <1>20 DEF InboxInv

\* Every step keeps the invariant.
LEMMA InboxNext == InboxInv /\ [Next]_vars => InboxInv'
<1> SUFFICES ASSUME InboxInv, [Next]_vars PROVE InboxInv'
  OBVIOUS
<1>1. CASE UNCHANGED vars
  <2>1. UNCHANGED <<inboxLog, touched, sequence, tx, reply>>
    BY <1>1 DEF vars, dbVars
  <2> QED BY <2>1 DEF InboxInv, InboxTypes, VersionsCount, SnapshotsArePrefixes,
      InsertedWasAccepted, Seen, ValidatedInOrder, OkIsStored, Entries
<1>2. ASSUME NEW p \in Callers, Begin(p) PROVE InboxInv'
  <2> DEFINE s == [pc |-> "waiting", tries |-> tx[p].tries + 1,
                   seen |-> Len(inboxLog[InboxOf(p)]), version |-> touched[InboxOf(p)], id |-> 0]
  <2>1. UNCHANGED <<inboxLog, touched, sequence, reply>> /\ tx' = [tx EXCEPT ![p] = s]
    BY <1>2 DEF Begin, dbVars
  <2>2. InboxOf(p) \in Inboxes
    BY InboxOfCall
  <2>3. touched[InboxOf(p)] = Len(inboxLog[InboxOf(p)]) /\ Len(inboxLog[InboxOf(p)]) \in Nat
    BY <2>2 DEF InboxInv, InboxTypes, VersionsCount
  <2>4. s \in [pc: States, tries: Nat, seen: Nat, version: Nat, id: Nat]
    BY <2>3 DEF InboxInv, InboxTypes, States
  <2>5. s.pc = "waiting" /\ s.version = s.seen /\ s.seen = Len(inboxLog[InboxOf(p)])
    BY <2>3
  <2> HIDE DEF s
  <2>6. InboxTypes' /\ tx'[p] = s /\ \A q \in Callers : q # p => tx'[q] = tx[q]
    BY <2>1, <2>4 DEF InboxInv, InboxTypes
  <2> QED BY <2>1, <2>3, <2>5, <2>6, QuietStep
<1>3. ASSUME NEW p \in Callers, LockInboxLog(p) PROVE InboxInv'
  <2>1. UNCHANGED <<inboxLog, touched, sequence, reply>> /\ tx' = [tx EXCEPT ![p].pc = "locked"]
        /\ tx[p].pc # "idle"
    BY <1>3 DEF LockInboxLog, Running, dbVars
  <2>2. /\ InboxTypes' /\ tx'[p].pc = "locked" /\ tx'[p].seen = tx[p].seen
        /\ tx'[p].version = tx[p].version /\ \A q \in Callers : q # p => tx'[q] = tx[q]
    BY <2>1 DEF InboxInv, InboxTypes, States
  <2>3. tx[p].version = tx[p].seen /\ tx[p].seen <= Len(inboxLog[InboxOf(p)])
    BY <2>1 DEF InboxInv, SnapshotsArePrefixes
  <2> QED BY <2>1, <2>2, <2>3, QuietStep
<1>4. ASSUME NEW p \in Callers, InsertInboxLog(p) PROVE InboxInv'
  <2>1. /\ UNCHANGED <<inboxLog, touched, reply>> /\ sequence' = sequence + 1
        /\ tx' = [tx EXCEPT ![p].pc = "inserted", ![p].id = sequence + 1]
        /\ tx[p].pc = "locked" /\ Accepts(Seen(p), Update[p])
    BY <1>4 DEF InsertInboxLog
  <2>2. /\ InboxTypes' /\ tx'[p].seen = tx[p].seen
        /\ tx'[p].version = tx[p].version /\ \A q \in Callers : q # p => tx'[q] = tx[q]
    <3> DEFINE s == [tx[p] EXCEPT !.pc = "inserted", !.id = sequence + 1]
    <3>1. /\ sequence + 1 \in Nat /\ sequence' \in Nat
          /\ tx[p] \in [pc: States, tries: Nat, seen: Nat, version: Nat, id: Nat]
      BY <2>1 DEF InboxInv, InboxTypes
    <3>2. s \in [pc: States, tries: Nat, seen: Nat, version: Nat, id: Nat]
      BY <3>1 DEF States
    <3>3. s.seen = tx[p].seen /\ s.version = tx[p].version
      BY <3>1
    <3>4. tx' = [tx EXCEPT ![p] = s]
      BY <2>1 DEF InboxInv, InboxTypes
    <3> HIDE DEF s
    <3>5. InboxTypes'
      BY <2>1, <3>1, <3>2, <3>4 DEF InboxInv, InboxTypes
    <3> QED BY <3>3, <3>4, <3>5 DEF InboxInv, InboxTypes
  <2>3. tx[p].version = tx[p].seen /\ tx[p].seen <= Len(inboxLog[InboxOf(p)])
    BY <2>1 DEF InboxInv, SnapshotsArePrefixes
  <2>4. Accepts(SubSeq(inboxLog[InboxOf(p)], 1, tx'[p].seen), Update[p])
    BY <2>1, <2>2 DEF Seen
  <2> QED BY <2>1, <2>2, <2>3, <2>4, QuietStep
<1>5. ASSUME NEW p \in Callers, RollBack(p) \/ Cancel(p) PROVE InboxInv'
  <2>1. /\ UNCHANGED <<inboxLog, touched, sequence>> /\ tx' = [tx EXCEPT ![p].pc = "idle"]
        /\ \E v : v # "ok" /\ reply' = [reply EXCEPT ![p] = v]
    BY <1>5 DEF RollBack, Cancel, Retried, AfterFailure, dbVars
  <2>2. InboxTypes' /\ tx'[p].pc = "idle" /\ \A q \in Callers : q # p => tx'[q] = tx[q]
    BY <2>1 DEF InboxInv, InboxTypes, States
  <2>3. \A q \in Callers : reply'[q] = "ok" => reply[q] = "ok"
    BY <2>1 DEF InboxInv, InboxTypes
  <2> QED BY <2>1, <2>2, <2>3, QuietStep
<1> QED BY <1>1, <1>2, <1>3, <1>4, <1>5, CommitInOrder DEF Next, Quiet

\* Every stored update was validated against exactly the updates before it, for any calls on
\* any inboxes, although the lock is taken after the snapshot: the touch of the inboxes row
\* makes a stale snapshot fail (store.go:146-254, 543-563).
THEOREM UpdatesValidatedInOrder == Spec => []ValidatedInOrder
<1>1. InboxInv => ValidatedInOrder
  BY DEF InboxInv
<1> QED BY <1>1, InboxInit, InboxNext, PTL DEF Spec

\* A call that returned OK stored its update, and no update is stored twice, although a
\* commit whose answer was lost is tried again (store.go:543-563).
THEOREM UpdatesStoredOnce == Spec => []StoredOnce
<1>1. InboxInv => StoredOnce
  <2> SUFFICES ASSUME InboxInv PROVE StoredOnce
    OBVIOUS
  <2>1. ASSUME NEW x \in Inboxes, NEW m \in 1..Len(inboxLog[x]), NEW n \in 1..Len(inboxLog[x]),
               m < n
        PROVE  inboxLog[x][m].update # inboxLog[x][n].update
    <3> DEFINE before == SubSeq(inboxLog[x], 1, n - 1)
    <3>1. Accepts(before, inboxLog[x][n].update)
      BY DEF InboxInv, ValidatedInOrder
    <3>2. inboxLog[x] \in Seq(Entry) /\ n \in Int /\ m \in 1..(n - 1)
      BY <2>1 DEF InboxInv, InboxTypes
    <3>3. Len(before) = n - 1 /\ before[m] = inboxLog[x][m]
      BY <3>2
    <3> QED BY <3>1, <3>2, <3>3 DEF Accepts
  <2>2. \A x \in Inboxes : \A m, n \in 1..Len(inboxLog[x]) : m \in Int /\ n \in Int
    OBVIOUS
  <2>3. \A x \in Inboxes : \A m, n \in 1..Len(inboxLog[x]) :
          inboxLog[x][m].update = inboxLog[x][n].update => m = n
    BY <2>1, <2>2
  <2> QED BY <2>3 DEF InboxInv, OkIsStored, StoredOnce
<1> QED BY <1>1, InboxInit, InboxNext, PTL DEF Spec
-----------------------------------------------------------------------------
(* The address log.                                                        *)

Below == {p \in Nat \X Nat : p[1] < p[2]}

\* A nonempty set of naturals has a least element.
LEMMA LeastNatural ==
  ASSUME NEW S, S \subseteq Nat, S # {}
  PROVE  \E x \in S : \A y \in S : x <= y
<1>1. OpToRel(<, Nat) = Below
  BY DEF OpToRel, Below
<1>2. IsWellFoundedOn(Below, Nat)
  BY <1>1, NatLessThanWellFounded, Zenon
<1>3. PICK x \in S : \A y \in S : ~(<<y, x>> \in Below)
  BY <1>2, WFMin
<1>4. ASSUME NEW y \in S PROVE x <= y
  <2>1. <<y, x>> \in Nat \X Nat
    OBVIOUS
  <2> QED BY <1>3, <2>1 DEF Below
<1> QED BY <1>4

\* The members after an update, and f made one round of the recursion of Members.
AfterUpdate(M, u) == (M \cup u.adds) \ u.removes
Round(log, k, f) == [n \in 0..k |-> IF n = 0 THEN {} ELSE AfterUpdate(f[n - 1], log[n].update)]

\* The recursion of Members has a solution for every length: the shortest one without would
\* be the extension of one with.
LEMMA RoundHasFixpoint ==
  ASSUME NEW log, NEW k \in Nat PROVE \E f : f = Round(log, k, f)
<1>1. PICK Bad : Bad = {n \in Nat : ~\E f : f = Round(log, n, f)}
  OBVIOUS
<1>2. ASSUME Bad # {} PROVE FALSE
  <2>1. PICK b \in Bad : \A y \in Bad : b <= y
    BY <1>1, <1>2, LeastNatural
  <2>2. b \in Nat /\ ~\E f : f = Round(log, b, f)
    BY <1>1
  <2>3. CASE b = 0
    <3>1. PICK f : f = [n \in 0..0 |-> {}]
      OBVIOUS
    <3>2. f = Round(log, 0, f)
      BY <3>1 DEF Round
    <3> QED BY <2>2, <2>3, <3>2
  <2>4. CASE b # 0
    <3>1. b - 1 \in Nat /\ b - 1 \notin Bad
      BY <2>1, <2>2, <2>4
    <3>2. PICK f : f = Round(log, b - 1, f)
      BY <1>1, <3>1
    <3>3. PICK last : last = AfterUpdate(f[b - 1], log[b].update)
      OBVIOUS
    <3>4. PICK h : h = [n \in 0..b |-> IF n = b THEN last ELSE f[n]]
      OBVIOUS
    <3>5. \A n \in 0..b : h[n] = IF n = b THEN last ELSE f[n]
      BY <3>4
    <3>6. ASSUME NEW n \in 0..b
          PROVE  h[n] = IF n = 0 THEN {} ELSE AfterUpdate(h[n - 1], log[n].update)
      <4>1. CASE n = b
        <5>1. b - 1 \in 0..b /\ b - 1 # b
          BY <2>2, <3>1
        <5>2. h[b - 1] = f[b - 1] /\ h[n] = last
          BY <3>5, <4>1, <5>1
        <5> QED BY <2>4, <3>3, <4>1, <5>2
      <4>2. CASE n # b
        <5>1. n \in 0..(b - 1) /\ (n # 0 => n - 1 \in 0..b /\ n - 1 # b)
          BY <2>2, <3>1, <4>2
        <5>2. f[n] = IF n = 0 THEN {} ELSE AfterUpdate(f[n - 1], log[n].update)
          <6>1. Round(log, b - 1, f)[n] = IF n = 0 THEN {} ELSE AfterUpdate(f[n - 1], log[n].update)
            BY <5>1 DEF Round
          <6> QED BY <3>2, <6>1
        <5>3. h[n] = f[n] /\ (n # 0 => h[n - 1] = f[n - 1])
          BY <3>5, <4>2, <5>1
        <5> QED BY <5>2, <5>3
      <4> QED BY <4>1, <4>2
    <3>7. h = Round(log, b, h)
      <4>1. h = [n \in 0..b |-> h[n]]
        BY <3>4
      <4> QED BY <3>6, <4>1 DEF Round
    <3> QED BY <2>2, <3>7
  <2> QED BY <2>3, <2>4
<1> QED BY <1>1, <1>2

\* Two solutions agree as far as their logs do.
LEMMA FixpointsAgree ==
  ASSUME NEW log, NEW longer, NEW k \in Nat, NEW j \in Nat, k <= j,
         \A n \in 1..k : longer[n] = log[n],
         NEW f, f = Round(log, k, f), NEW h, h = Round(longer, j, h)
  PROVE  h[k] = f[k]
<1>1. PICK Bad : Bad = {n \in 0..k : h[n] # f[n]}
  OBVIOUS
<1>2. ASSUME NEW n \in 0..k
      PROVE  /\ f[n] = IF n = 0 THEN {} ELSE AfterUpdate(f[n - 1], log[n].update)
             /\ h[n] = IF n = 0 THEN {} ELSE AfterUpdate(h[n - 1], longer[n].update)
  <2>1. n \in 0..j
    OBVIOUS
  <2>2. Round(log, k, f)[n] = IF n = 0 THEN {} ELSE AfterUpdate(f[n - 1], log[n].update)
    BY DEF Round
  <2>3. Round(longer, j, h)[n] = IF n = 0 THEN {} ELSE AfterUpdate(h[n - 1], longer[n].update)
    BY <2>1 DEF Round
  <2> QED BY <2>2, <2>3
<1>3. ASSUME Bad # {} PROVE FALSE
  <2>1. PICK b \in Bad : \A y \in Bad : b <= y
    BY <1>1, <1>3, LeastNatural
  <2>2. b \in 0..k /\ h[b] # f[b] /\ b # 0
    BY <1>1, <1>2
  <2>3. b - 1 \in 0..k /\ b - 1 \notin Bad /\ b \in 1..k
    BY <2>1, <2>2
  <2>4. h[b - 1] = f[b - 1]
    BY <1>1, <2>3
  <2> QED BY <1>2, <2>2, <2>3, <2>4
<1>4. k \in 0..k
  OBVIOUS
<1> QED BY <1>1, <1>3, <1>4

\* Members is the value of the recursion at the end of the log.
LEMMA MembersIsFixpoint ==
  ASSUME NEW S, NEW log \in Seq(S)
  PROVE  \E f : f = Round(log, Len(log), f) /\ Members(log) = f[Len(log)]
<1> DEFINE g == CHOOSE f : f = Round(log, Len(log), f)
<1>1. Members(log) = g[Len(log)]
  BY DEF Members, Round, AfterUpdate
<1>2. g = Round(log, Len(log), g)
  BY RoundHasFixpoint
<1> QED BY <1>1, <1>2

\* Members one update at a time.
LEMMA MembersOfAppend ==
  ASSUME NEW S, NEW log \in Seq(S), NEW e \in S
  PROVE  Members(Append(log, e)) = (Members(log) \cup e.update.adds) \ e.update.removes
<1>1. PICK longer : longer = Append(log, e)
  OBVIOUS
<1>2. PICK k : k = Len(log)
  OBVIOUS
<1>3. /\ longer \in Seq(S) /\ Len(longer) = k + 1 /\ longer[k + 1] = e /\ k \in Nat
      /\ \A n \in 1..k : longer[n] = log[n]
  BY <1>1, <1>2
<1>4. PICK f : f = Round(log, k, f) /\ Members(log) = f[k]
  BY <1>2, MembersIsFixpoint
<1>5. PICK h : h = Round(longer, k + 1, h) /\ Members(longer) = h[k + 1]
  BY <1>3, MembersIsFixpoint
<1>6. h[k] = f[k]
  <2>1. k \in Nat /\ k + 1 \in Nat /\ k <= k + 1
    BY <1>3
  <2> QED BY <1>3, <1>4, <1>5, <2>1, FixpointsAgree
<1>7. h[k + 1] = AfterUpdate(h[k], longer[k + 1].update)
  <2>1. k + 1 \in 0..(k + 1) /\ k + 1 # 0 /\ (k + 1) - 1 = k
    BY <1>3
  <2>2. Round(longer, k + 1, h)[k + 1] = AfterUpdate(h[k], longer[k + 1].update)
    BY <2>1 DEF Round
  <2> QED BY <1>5, <2>2
<1> QED BY <1>1, <1>3, <1>4, <1>5, <1>6, <1>7 DEF AfterUpdate

\* An empty log has no members.
LEMMA MembersOfEmpty == Members(<<>>) = {}
<1>1. <<>> \in Seq({}) /\ Len(<<>>) = 0
  OBVIOUS
<1>2. PICK f : f = Round(<<>>, 0, f) /\ Members(<<>>) = f[0]
  BY <1>1, MembersIsFixpoint
<1>3. Round(<<>>, 0, f)[0] = {}
  BY DEF Round
<1> QED BY <1>2, <1>3

\* At first there is no association and no member.
LEMMA AddressInit == Init => AddressInv /\ Bounded
<1> SUFFICES ASSUME Init PROVE AddressInv /\ Bounded
  OBVIOUS
<1>1. AddressTypes /\ LiveIsNewest /\ FreshId
  BY DEF Init, AddressTypes, LiveIsNewest, FreshId
<1>2. AddressLogAgrees
  <2> SUFFICES ASSUME NEW x \in Inboxes
               PROVE  {row.address : row \in {o \in addressLog : o.inbox = x /\ o.revocation = NotRevoked}}
                        = Members(inboxLog[x])
    BY DEF AddressLogAgrees
  <2>1. addressLog = {} /\ inboxLog[x] = <<>>
    BY DEF Init
  <2> QED BY <2>1, MembersOfEmpty
<1>3. Bounded
  BY InboxAssumption DEF Init, Bounded
<1> QED BY <1>1, <1>2, <1>3 DEF AddressInv

\* A step that leaves the tables alone, and the inserted transactions that can commit.
LEMMA AddressUntouched ==
  ASSUME InboxInv, AddressInv, UNCHANGED dbVars,
         \A p \in Callers : tx'[p].pc = "inserted" => tx'[p] = tx[p]
  PROVE  AddressInv'
<1>1. UNCHANGED <<sequence, inboxLog, touched, addressLog>>
  BY DEF dbVars
<1>2. AddressTypes' /\ LiveIsNewest'
  BY <1>1 DEF AddressInv, AddressTypes, LiveIsNewest
<1>3. FreshId'
  BY <1>1 DEF AddressInv, FreshId, Touches
<1>4. AddressLogAgrees'
  <2> SUFFICES ASSUME NEW x \in Inboxes
               PROVE  {row.address : row \in {o \in addressLog' : o.inbox = x /\ o.revocation = NotRevoked}}
                        = Members(inboxLog'[x])
    BY DEF AddressLogAgrees, Members
  <2> QED BY <1>1 DEF AddressInv, AddressLogAgrees
<1> QED BY <1>2, <1>3, <1>4 DEF AddressInv

\* The insert draws an id above those of all associations.
LEMMA AddressInsert ==
  ASSUME InboxInv, AddressInv, NEW p \in Callers, InsertInboxLog(p)
  PROVE  AddressInv'
<1>1. /\ UNCHANGED <<inboxLog, touched, addressLog>> /\ sequence' = sequence + 1
      /\ tx' = [tx EXCEPT ![p].pc = "inserted", ![p].id = sequence + 1]
  BY DEF InsertInboxLog
<1>2. sequence \in Nat
  BY DEF InboxInv, InboxTypes
<1>3. tx'[p].id = sequence + 1 /\ \A q \in Callers : q # p => tx'[q] = tx[q]
  BY <1>1 DEF InboxInv, InboxTypes
<1>4. \A row \in addressLog : row.association \in Nat /\ row.association <= sequence
  BY DEF AddressInv, AddressTypes, AddressRow
<1>5. \A q \in Callers : tx[q].id \in Nat
  BY DEF InboxInv, InboxTypes
<1>6. AddressTypes'
  <2>1. sequence' = sequence + 1 /\ addressLog' = addressLog
    BY <1>1
  <2>2. addressLog' \subseteq AddressRow /\ \A row \in addressLog' : row.association <= sequence'
    BY <1>2, <1>4, <2>1 DEF AddressInv, AddressTypes
  <2>3. ASSUME NEW q \in Callers, tx'[q].pc = "inserted" PROVE tx'[q].id <= sequence'
    <3>1. CASE q = p
      BY <1>2, <1>3, <2>1, <3>1
    <3>2. CASE q # p
      <4>1. tx'[q] = tx[q] /\ tx[q].id <= sequence /\ tx[q].id \in Nat
        BY <1>3, <1>5, <2>3, <3>2 DEF AddressInv, AddressTypes
      <4> QED BY <1>2, <2>1, <4>1
    <3> QED BY <3>1, <3>2
  <2> QED BY <2>2, <2>3 DEF AddressTypes
<1>7. LiveIsNewest'
  BY <1>1 DEF AddressInv, LiveIsNewest
<1>8. FreshId'
  <2> SUFFICES ASSUME NEW q \in Callers, tx'[q].pc = "inserted", Touches(q)'
               PROVE  /\ tx'[q].id >= 1
                      /\ \A row \in addressLog' : row.inbox = InboxOf(q) => row.association < tx'[q].id
    BY DEF FreshId
  <2>1. CASE q = p
    <3>1. addressLog' = addressLog /\ tx'[q].id = sequence + 1
      BY <1>1, <1>3, <2>1
    <3> QED BY <1>2, <1>4, <3>1
  <2>2. CASE q # p
    <3>1. tx'[q] = tx[q] /\ Touches(q)
      BY <1>1, <1>3, <2>2 DEF Touches
    <3> QED BY <1>1, <3>1 DEF AddressInv, FreshId
  <2> QED BY <2>1, <2>2
<1>9. AddressLogAgrees'
  <2> SUFFICES ASSUME NEW x \in Inboxes
               PROVE  {row.address : row \in {o \in addressLog' : o.inbox = x /\ o.revocation = NotRevoked}}
                        = Members(inboxLog'[x])
    BY DEF AddressLogAgrees, Members
  <2> QED BY <1>1 DEF AddressInv, AddressLogAgrees
<1> QED BY <1>6, <1>7, <1>8, <1>9 DEF AddressInv

\* What a commit does to the logs of the inboxes: the update was accepted on the whole log.
LEMMA CommitEffect ==
  ASSUME InboxInv, NEW p \in Callers, Commit(p)
  PROVE  /\ InboxOf(p) \in Inboxes /\ Update[p] \in IdentityUpdate
         /\ inboxLog[InboxOf(p)] \in Seq(Entry) /\ Accepts(inboxLog[InboxOf(p)], Update[p])
         /\ Len(inboxLog[InboxOf(p)]) = tx[p].seen
         /\ \E e \in Entry : /\ e.update = Update[p]
                             /\ inboxLog'[InboxOf(p)] = Append(inboxLog[InboxOf(p)], e)
         /\ \A y \in Inboxes : y # InboxOf(p) => inboxLog'[y] = inboxLog[y]
         /\ touched[InboxOf(p)] \in Nat /\ touched'[InboxOf(p)] = touched[InboxOf(p)] + 1
         /\ \A y \in Inboxes : y # InboxOf(p) => touched'[y] = touched[y]
         /\ tx[p].pc = "inserted" /\ Touches(p) /\ UNCHANGED sequence
         /\ tx'[p].pc = "idle" /\ \A q \in Callers : q # p => tx'[q] = tx[q]
<1> DEFINE x == InboxOf(p)
           log == inboxLog[x]
           e == [id |-> tx[p].id, update |-> Update[p], basis |-> tx[p].seen]
<1>1. x \in Inboxes /\ Update[p] \in IdentityUpdate
  BY InboxOfCall
<1>2. /\ tx[p].pc = "inserted" /\ Touches(p) /\ touched[x] = tx[p].version /\ UNCHANGED sequence
      /\ inboxLog' = [inboxLog EXCEPT ![x] = Append(@, e)]
      /\ touched' = [touched EXCEPT ![x] = @ + 1]
      /\ tx' = [tx EXCEPT ![p].pc = "idle"]
  BY DEF Commit, Touches, Retried
<1>3. log \in Seq(Entry) /\ tx[p].id \in Nat /\ tx[p].seen \in Nat /\ tx[p].seen = Len(log)
      /\ touched[x] \in Nat
  BY <1>1, <1>2 DEF InboxInv, InboxTypes, VersionsCount, SnapshotsArePrefixes
<1>4. e \in Entry /\ e.update = Update[p]
  BY <1>1, <1>3 DEF Entry
<1>5. Accepts(log, Update[p])
  <2>1. Seen(p) = log
    BY <1>3, WholePrefix DEF Seen
  <2> QED BY <1>2, <2>1 DEF InboxInv, InsertedWasAccepted
<1> HIDE DEF e
<1>6. inboxLog'[x] = Append(log, e) /\ \A y \in Inboxes : y # x => inboxLog'[y] = inboxLog[y]
  BY <1>1, <1>2 DEF InboxInv, InboxTypes
<1>7. touched'[x] = touched[x] + 1 /\ \A y \in Inboxes : y # x => touched'[y] = touched[y]
  BY <1>1, <1>2 DEF InboxInv, InboxTypes
<1>8. tx'[p].pc = "idle" /\ \A q \in Callers : q # p => tx'[q] = tx[q]
  BY <1>2 DEF InboxInv, InboxTypes
<1> QED BY <1>1, <1>2, <1>3, <1>4, <1>5, <1>6, <1>7, <1>8

\* What a row becomes: the same association, ended when it was the newest of a removed member.
LEMMA RevokeEffect ==
  ASSUME AddressTypes, NEW p \in Callers, tx[p].id \in Nat, tx[p].id >= 1, NEW row \in addressLog
  PROVE  /\ Revoke(row, p) \in AddressRow
         /\ Revoke(row, p).address = row.address /\ Revoke(row, p).inbox = row.inbox
         /\ Revoke(row, p).association = row.association
         /\ (Revoke(row, p).revocation = NotRevoked) <=>
              /\ row.revocation = NotRevoked
              /\ ~(/\ row.address \in Update[p].removes /\ row.inbox = InboxOf(p)
                   /\ \A o \in addressLog : o.address = row.address /\ o.inbox = row.inbox
                                              => o.association <= row.association)
<1>1. row \in AddressRow
  BY DEF AddressTypes
<1>2. PICK newest \in BOOLEAN :
        newest <=> /\ row.address \in Update[p].removes /\ row.inbox = InboxOf(p)
                   /\ \A o \in addressLog : o.address = row.address /\ o.inbox = row.inbox
                                              => o.association <= row.association
  OBVIOUS
<1>3. Revoke(row, p) = IF newest THEN [row EXCEPT !.revocation = tx[p].id] ELSE row
  BY <1>2 DEF Revoke
<1>4. CASE newest
  BY <1>1, <1>2, <1>3, <1>4 DEF AddressRow, NotRevoked
<1>5. CASE ~newest
  BY <1>1, <1>2, <1>3, <1>5
<1> QED BY <1>4, <1>5

\* The commit ends the live associations of the members it removes, which are the newest, and
\* begins one for each it adds, which have none.
LEMMA AddressCommit ==
  ASSUME InboxInv, AddressInv, NEW p \in Callers, Commit(p)
  PROVE  AddressInv'
<1> DEFINE x == InboxOf(p)
           u == Update[p]
           log == inboxLog[x]
<1>1. /\ x \in Inboxes /\ u \in IdentityUpdate /\ log \in Seq(Entry) /\ Accepts(log, u)
      /\ \E e \in Entry : e.update = u /\ inboxLog'[x] = Append(log, e)
      /\ \A y \in Inboxes : y # x => inboxLog'[y] = inboxLog[y]
      /\ touched[x] \in Nat /\ touched'[x] = touched[x] + 1
      /\ \A y \in Inboxes : y # x => touched'[y] = touched[y]
      /\ tx[p].pc = "inserted" /\ Touches(p) /\ UNCHANGED sequence
      /\ tx'[p].pc = "idle" /\ \A q \in Callers : q # p => tx'[q] = tx[q]
  BY CommitEffect
<1>2. tx[p].id \in Nat /\ sequence \in Nat
  BY DEF InboxInv, InboxTypes
<1>3. /\ tx[p].id >= 1 /\ tx[p].id <= sequence
      /\ \A row \in addressLog : row.inbox = x => row.association < tx[p].id
  BY <1>1 DEF AddressInv, FreshId, AddressTypes
<1>4. u.adds \subseteq Addresses /\ u.adds \cap Members(log) = {} /\ u.removes \subseteq Members(log)
  BY <1>1 DEF Accepts, IdentityUpdate
<1>5. Members(inboxLog'[x]) = (Members(log) \cup u.adds) \ u.removes
  BY <1>1, MembersOfAppend
<1>6. PICK R : R = {Revoke(row, p) : row \in addressLog}
  OBVIOUS
<1>7. PICK A : A = Associations(p)
  OBVIOUS
<1>8. addressLog' = R \cup A
  BY <1>6, <1>7 DEF Commit
<1>9. \A r \in R : \E row \in addressLog : r = Revoke(row, p)
  BY <1>6
<1>10. \A row \in addressLog : Revoke(row, p) \in R
  BY <1>6
<1>11. \A r \in A : /\ r \in AddressRow /\ r.address \in u.adds /\ r.inbox = x
                    /\ r.association = tx[p].id /\ r.revocation = NotRevoked
  BY <1>1, <1>2, <1>4, <1>7 DEF Associations, AddressRow, NotRevoked
<1>12. \A a \in u.adds : \E r \in A : r.address = a
  <2>1. TAKE a \in u.adds
  <2>2. PICK r : r = [address |-> a, inbox |-> x, association |-> tx[p].id, revocation |-> NotRevoked]
    OBVIOUS
  <2>3. r \in A /\ r.address = a
    BY <1>7, <2>2 DEF Associations
  <2> QED BY <2>3
<1>13. AddressTypes /\ LiveIsNewest
  BY DEF AddressInv
\* Where the rows of R come from, and which of them are alive.
<1>14. ASSUME NEW r \in R
       PROVE  \E row \in addressLog :
                /\ r \in AddressRow /\ r.address = row.address /\ r.inbox = row.inbox
                /\ r.association = row.association
                /\ (r.revocation = NotRevoked) =>
                     row.revocation = NotRevoked /\ ~(row.address \in u.removes /\ row.inbox = x)
  <2>1. PICK row \in addressLog : r = Revoke(row, p)
    BY <1>9
  <2>2. /\ r \in AddressRow /\ r.address = row.address /\ r.inbox = row.inbox
        /\ r.association = row.association
        /\ (r.revocation = NotRevoked) =>
             /\ row.revocation = NotRevoked
             /\ ~(/\ row.address \in u.removes /\ row.inbox = x
                  /\ \A o \in addressLog : o.address = row.address /\ o.inbox = row.inbox
                                             => o.association <= row.association)
    BY <1>2, <1>3, <1>13, <2>1, RevokeEffect
  <2>3. row.revocation = NotRevoked =>
          \A o \in addressLog : o.address = row.address /\ o.inbox = row.inbox
                                  => o.association <= row.association
    BY <1>13 DEF LiveIsNewest
  <2> QED BY <2>2, <2>3
<1>15. ASSUME NEW row \in addressLog, row.revocation = NotRevoked,
              ~(row.address \in u.removes /\ row.inbox = x)
       PROVE  \E r \in R : r.address = row.address /\ r.inbox = row.inbox /\ r.revocation = NotRevoked
  <2>1. /\ Revoke(row, p).address = row.address /\ Revoke(row, p).inbox = row.inbox
        /\ Revoke(row, p).revocation = NotRevoked
    BY <1>2, <1>3, <1>13, <1>15, RevokeEffect
  <2> QED BY <1>10, <2>1
<1>16. \A row \in addressLog : row.association \in Nat /\ row.association <= sequence
  BY <1>13 DEF AddressTypes, AddressRow
<1>17. AddressTypes'
  <2>1. \A r \in addressLog' : r \in AddressRow /\ r.association <= sequence'
    BY <1>1, <1>2, <1>3, <1>8, <1>11, <1>14, <1>16
  <2>2. \A q \in Callers : tx'[q].pc = "inserted" => tx'[q].id <= sequence'
    BY <1>1, <1>13 DEF AddressTypes
  <2> QED BY <2>1, <2>2 DEF AddressTypes
<1>18. LiveIsNewest'
  <2> SUFFICES ASSUME NEW r \in addressLog', NEW o \in addressLog', r.revocation = NotRevoked,
                      o.address = r.address, o.inbox = r.inbox
               PROVE  o.association <= r.association
    BY DEF LiveIsNewest
  <2>1. CASE r \in A
    <3>1. r.association = tx[p].id /\ r.inbox = x
      BY <1>11, <2>1
    <3>2. CASE o \in A
      BY <1>2, <1>11, <3>1, <3>2
    <3>3. CASE o \in R
      <4>1. PICK row \in addressLog : o.inbox = row.inbox /\ o.association = row.association
        BY <1>14, <3>3
      <4> QED BY <1>2, <1>3, <1>16, <3>1, <4>1
    <3> QED BY <1>8, <3>2, <3>3
  <2>2. CASE r \in R
    <3>1. PICK row \in addressLog :
            /\ r.address = row.address /\ r.inbox = row.inbox /\ r.association = row.association
            /\ row.revocation = NotRevoked
      BY <1>14, <2>2
    <3>2. CASE o \in R
      <4>1. PICK w \in addressLog :
              o.address = w.address /\ o.inbox = w.inbox /\ o.association = w.association
        BY <1>14, <3>2
      <4> QED BY <1>13, <3>1, <4>1 DEF LiveIsNewest
    <3>3. CASE o \in A
      <4>1. row.inbox = x /\ row.address \in u.adds
        BY <1>11, <3>1, <3>3
      <4>2. row.address \in Members(log)
        BY <1>1, <3>1, <4>1 DEF AddressInv, AddressLogAgrees
      <4> QED BY <1>4, <4>1, <4>2
    <3> QED BY <1>8, <3>2, <3>3
  <2> QED BY <1>8, <2>1, <2>2
<1>19. FreshId'
  <2> SUFFICES ASSUME NEW q \in Callers, tx'[q].pc = "inserted", Touches(q)'
               PROVE  /\ tx'[q].id >= 1
                      /\ \A r \in addressLog' : r.inbox = InboxOf(q) => r.association < tx'[q].id
    BY DEF FreshId
  <2>1. q # p /\ tx'[q] = tx[q]
    BY <1>1
  <2>2. InboxOf(q) \in Inboxes
    BY InboxOfCall
  <2>3. CASE InboxOf(q) = x
    <3>1. tx[q].version <= touched[x] /\ tx[q].version \in Nat
      BY <1>1, <2>1, <2>2, <2>3 DEF InboxInv, InboxTypes, VersionsCount, SnapshotsArePrefixes
    <3>2. touched'[x] = tx[q].version
      BY <2>1, <2>3 DEF Touches
    <3> QED BY <1>1, <3>1, <3>2
  <2>4. CASE InboxOf(q) # x
    <3>1. Touches(q)
      BY <1>1, <2>1, <2>2, <2>4 DEF Touches
    <3>2. tx[q].id >= 1 /\ \A row \in addressLog : row.inbox = InboxOf(q) => row.association < tx[q].id
      BY <2>1, <3>1 DEF AddressInv, FreshId
    <3> QED BY <1>8, <1>11, <1>14, <2>1, <2>4, <3>2
  <2> QED BY <2>3, <2>4
<1>20. AddressLogAgrees'
  <2> SUFFICES ASSUME NEW y \in Inboxes
               PROVE  {r.address : r \in {o \in addressLog' : o.inbox = y /\ o.revocation = NotRevoked}}
                        = Members(inboxLog'[y])
    BY DEF AddressLogAgrees, Members
  <2>1. PICK old : old = {o \in addressLog : o.inbox = y /\ o.revocation = NotRevoked}
    OBVIOUS
  <2>2. PICK new : new = {o \in addressLog' : o.inbox = y /\ o.revocation = NotRevoked}
    OBVIOUS
  <2>3. {r.address : r \in old} = Members(inboxLog[y])
    BY <2>1 DEF AddressInv, AddressLogAgrees
  <2>4. \A a \in Members(inboxLog[y]) : \E row \in old : row.address = a
    BY <2>3
  <2>5. \A row \in old : row.address \in Members(inboxLog[y])
    BY <2>3
  <2>6. PICK M : M = Members(inboxLog'[y])
    OBVIOUS
  <2>7. ASSUME NEW r \in new PROVE r.address \in M
    <3>1. r \in addressLog' /\ r.inbox = y /\ r.revocation = NotRevoked
      BY <2>2
    <3>2. CASE r \in A
      BY <1>4, <1>5, <1>11, <2>6, <3>1, <3>2
    <3>3. CASE r \in R
      <4>1. PICK row \in addressLog :
              /\ r.address = row.address /\ r.inbox = row.inbox /\ row.revocation = NotRevoked
              /\ ~(row.address \in u.removes /\ row.inbox = x)
        BY <1>14, <3>1, <3>3
      <4>2. row.address \in Members(inboxLog[y])
        BY <2>1, <2>5, <3>1, <4>1
      <4> QED BY <1>1, <1>5, <2>6, <3>1, <4>1, <4>2
    <3> QED BY <1>8, <3>1, <3>2, <3>3
  <2>8. ASSUME NEW a \in M PROVE \E r \in new : r.address = a
    <3>1. CASE y = x /\ a \in u.adds
      <4>1. PICK r \in A : r.address = a
        BY <1>12, <3>1
      <4>2. r \in new
        BY <1>8, <1>11, <2>2, <3>1, <4>1
      <4> QED BY <4>1, <4>2
    <3>2. CASE ~(y = x /\ a \in u.adds)
      <4>1. a \in Members(inboxLog[y]) /\ ~(y = x /\ a \in u.removes)
        BY <1>1, <1>5, <2>6, <2>8, <3>2
      <4>2. PICK row \in old : row.address = a
        BY <2>4, <4>1
      <4>3. row \in addressLog /\ row.inbox = y /\ row.revocation = NotRevoked
        BY <2>1
      <4>4. PICK r \in R : r.address = a /\ r.inbox = y /\ r.revocation = NotRevoked
        BY <1>15, <4>1, <4>2, <4>3
      <4>5. r \in new
        BY <1>8, <2>2, <4>4
      <4> QED BY <4>4, <4>5
    <3> QED BY <3>1, <3>2
  <2>9. {r.address : r \in new} = M
    BY <2>7, <2>8
  <2> QED BY <2>2, <2>6, <2>9
<1> QED BY <1>17, <1>18, <1>19, <1>20 DEF AddressInv

\* Attempts and entries stay within their bounds.
LEMMA BoundedNext == InboxInv /\ Bounded /\ [Next]_vars => Bounded'
<1> SUFFICES ASSUME InboxInv, Bounded, [Next]_vars PROVE Bounded'
  OBVIOUS
<1> USE InboxAssumption
<1>0. /\ tx \in [Callers -> [pc: States, tries: Nat, seen: Nat, version: Nat, id: Nat]]
      /\ reply \in [Callers -> {"none", "ok", "error"}]
  BY DEF InboxInv, InboxTypes, Bounded
<1>1. CASE UNCHANGED vars \/ Quiet
  BY <1>1 DEF Bounded, Quiet, vars, dbVars
<1>2. ASSUME NEW p \in Callers, Begin(p) PROVE Bounded'
  <2>1. /\ UNCHANGED <<inboxLog, reply>> /\ reply[p] = "none" /\ tx[p].pc = "idle"
        /\ tx'[p].pc = "waiting" /\ tx'[p].tries = tx[p].tries + 1
        /\ \A q \in Callers : q # p => tx'[q] = tx[q]
    BY <1>0, <1>2 DEF Begin, dbVars
  <2>2. tx[p].tries \in Nat /\ tx[p].tries < NumRetries
    BY <1>0, <2>1 DEF Bounded
  <2> QED BY <2>1, <2>2 DEF Bounded
<1>3. ASSUME NEW p \in Callers, LockInboxLog(p) PROVE Bounded'
  <2>1. /\ UNCHANGED <<inboxLog, reply>>
        /\ tx'[p].pc = "locked" /\ tx'[p].tries = tx[p].tries
        /\ \A q \in Callers : q # p => tx'[q] = tx[q]
    BY <1>0, <1>3 DEF LockInboxLog, dbVars
  <2> QED BY <2>1 DEF Bounded
<1>4. ASSUME NEW p \in Callers, InsertInboxLog(p) PROVE Bounded'
  <2>1. /\ UNCHANGED <<inboxLog, reply>> /\ tx[p].pc = "locked" /\ ~Full(Seen(p))
        /\ tx' = [tx EXCEPT ![p].pc = "inserted", ![p].id = sequence + 1]
    BY <1>4 DEF InsertInboxLog
  <2>2. /\ tx'[p].pc = "inserted" /\ tx'[p].tries = tx[p].tries /\ tx'[p].seen = tx[p].seen
        /\ \A q \in Callers : q # p => tx'[q] = tx[q]
    BY <1>0, <2>1
  <2>3. tx[p].seen < MaxEntries
    <3>1. inboxLog[InboxOf(p)] \in Seq(Entry) /\ tx[p].seen \in 0..Len(inboxLog[InboxOf(p)])
      <4>1. tx[p].pc # "idle" /\ tx[p].seen \in Nat /\ InboxOf(p) \in Inboxes
        BY <1>0, <2>1, InboxOfCall
      <4>2. inboxLog[InboxOf(p)] \in Seq(Entry)
        BY <4>1 DEF InboxInv, InboxTypes
      <4>3. tx[p].seen <= Len(inboxLog[InboxOf(p)])
        BY <4>1 DEF InboxInv, SnapshotsArePrefixes
      <4> QED BY <4>1, <4>2, <4>3
    <3>2. Len(Seen(p)) = tx[p].seen
      BY <3>1 DEF Seen
    <3> QED BY <1>0, <2>1, <3>2 DEF Full
  <2>4. UNCHANGED <<inboxLog, reply>>
    BY <2>1
  <2> QED BY <2>2, <2>3, <2>4 DEF Bounded
<1>5. ASSUME NEW p \in Callers, RollBack(p) \/ Cancel(p) PROVE Bounded'
  <2>1. /\ UNCHANGED inboxLog /\ tx' = [tx EXCEPT ![p].pc = "idle"]
        /\ \/ reply' = [reply EXCEPT ![p] = AfterFailure(p)]
           \/ reply' = [reply EXCEPT ![p] = "error"]
    BY <1>5 DEF RollBack, Cancel, Retried, dbVars
  <2>2. /\ tx'[p].pc = "idle" /\ tx'[p].tries = tx[p].tries
        /\ \A q \in Callers : q # p => tx'[q] = tx[q]
    BY <1>0, <2>1
  <2>3. /\ reply' \in [Callers -> {"none", "ok", "error"}]
        /\ reply'[p] = "none" => tx[p].tries < NumRetries
        /\ \A q \in Callers : q # p => reply'[q] = reply[q]
    BY <1>0, <2>1 DEF AfterFailure
  <2>4. UNCHANGED inboxLog
    BY <2>1
  <2> QED BY <2>2, <2>3, <2>4 DEF Bounded
<1>6. ASSUME NEW p \in Callers, Commit(p) PROVE Bounded'
  <2>1. /\ tx' = [tx EXCEPT ![p].pc = "idle"]
        /\ \/ reply' = [reply EXCEPT ![p] = AfterFailure(p)]
           \/ reply' = [reply EXCEPT ![p] = "ok"]
    BY <1>6 DEF Commit, Retried
  <2>2. /\ tx'[p].pc = "idle" /\ tx'[p].tries = tx[p].tries
        /\ \A q \in Callers : q # p => tx'[q] = tx[q]
    BY <1>0, <2>1
  <2>3. /\ reply' \in [Callers -> {"none", "ok", "error"}]
        /\ reply'[p] = "none" => tx[p].tries < NumRetries
        /\ \A q \in Callers : q # p => reply'[q] = reply[q]
    BY <1>0, <2>1 DEF AfterFailure
  <2>4. /\ inboxLog[InboxOf(p)] \in Seq(Entry) /\ Len(inboxLog[InboxOf(p)]) = tx[p].seen
        /\ \E e \in Entry : inboxLog'[InboxOf(p)] = Append(inboxLog[InboxOf(p)], e)
        /\ \A y \in Inboxes : y # InboxOf(p) => inboxLog'[y] = inboxLog[y]
        /\ tx[p].pc = "inserted"
    BY <1>6, CommitEffect
  <2>5. tx[p].seen \in Nat /\ tx[p].seen < MaxEntries
    BY <1>0, <2>4 DEF Bounded
  <2>6. Len(inboxLog'[InboxOf(p)]) <= MaxEntries
    <3>1. Len(inboxLog'[InboxOf(p)]) = Len(inboxLog[InboxOf(p)]) + 1
      BY <2>4
    <3> QED BY <2>4, <2>5, <3>1
  <2>7. \A y \in Inboxes : Len(inboxLog'[y]) <= MaxEntries
    BY <2>4, <2>6 DEF Bounded
  <2> QED BY <2>2, <2>3, <2>7 DEF Bounded
<1> QED BY <1>1, <1>2, <1>3, <1>4, <1>5, <1>6 DEF Next

\* Every step keeps the address log's invariant.
LEMMA AddressNext == InboxInv /\ AddressInv /\ [Next]_vars => AddressInv'
<1> SUFFICES ASSUME InboxInv, AddressInv, [Next]_vars PROVE AddressInv'
  OBVIOUS
<1>0. tx \in [Callers -> [pc: States, tries: Nat, seen: Nat, version: Nat, id: Nat]]
  BY DEF InboxInv, InboxTypes
<1>1. CASE UNCHANGED vars \/ Quiet
  BY <1>1, AddressUntouched DEF Quiet, vars
<1>2. ASSUME NEW p \in Callers, Begin(p) \/ LockInboxLog(p) \/ RollBack(p) \/ Cancel(p)
      PROVE  AddressInv'
  <2>1. UNCHANGED dbVars
    BY <1>2 DEF Begin, LockInboxLog, RollBack, Cancel
  <2>2. tx'[p].pc # "inserted" /\ \A q \in Callers : q # p => tx'[q] = tx[q]
    BY <1>0, <1>2 DEF Begin, LockInboxLog, RollBack, Cancel, Retried
  <2> QED BY <2>1, <2>2, AddressUntouched
<1> QED BY <1>1, <1>2, AddressInsert, AddressCommit DEF Next

\* All that is said of the inbox logs, the address log and the calls holds together.
LEMMA InboxAll == Spec => [](InboxInv /\ AddressInv /\ Bounded)
BY InboxInit, InboxNext, AddressInit, AddressNext, BoundedNext, PTL DEF Spec

\* The address log and the inbox logs never disagree about who is a member, for any updates:
\* the newest association that a removal ends is the only one that is alive, because the
\* touch of the inboxes row keeps an id drawn earlier from being committed later
\* (store.go:146-254, queries.sql RevokeAddressFromLog).
THEOREM AddressesAgree == Spec => []AddressLogAgrees
<1>1. AddressInv => AddressLogAgrees
  BY DEF AddressInv
<1> QED BY <1>1, InboxAll, PTL

\* Every table keeps its shape, no inbox gets more than MaxEntries entries although the room
\* is looked for on a snapshot, and no call makes more than NumRetries attempts
\* (store.go:175-177, 543-563).
THEOREM InboxTypeCorrect == Spec => []TypeOK
<1>1. ASSUME InboxInv, AddressInv, Bounded PROVE TypeOK
  <2>1. tx \in [Callers -> Tx]
    <3>1. tx \in [Callers -> [pc: States, tries: Nat, seen: Nat, version: Nat, id: Nat]]
      BY <1>1 DEF InboxInv, InboxTypes
    <3>2. \A p \in Callers : tx[p].tries \in 0..NumRetries
      BY <1>1, <3>1, InboxAssumption DEF Bounded
    <3>3. \A p \in Callers : tx[p] \in Tx
      BY <3>1, <3>2 DEF Tx, States
    <3> QED BY <3>1, <3>3
  <2>2. \A x \in Inboxes : Len(inboxLog[x]) <= MaxEntries
    BY <1>1 DEF Bounded
  <2> QED BY <1>1, <2>1, <2>2 DEF TypeOK, InboxInv, InboxTypes, AddressInv, AddressTypes, Bounded
<1> QED BY <1>1, InboxAll, PTL
=============================================================================
