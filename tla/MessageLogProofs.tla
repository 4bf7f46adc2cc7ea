--------------------------- MODULE MessageLogProofs ---------------------------
(***************************************************************************)
(* Proofs about MessageLog, for any topics, calls and messages: the rows   *)
(* of a topic become visible in the order of their ids, a message that is  *)
(* sent again is stored once, a client that pages by its cursor misses no  *)
(* row, and the poller leaves out only rows that were overtaken.           *)
(***************************************************************************)
EXTENDS MessageLog, FiniteSetTheorems, WellFoundedInduction, TLAPS

\* What of the types the argument needs.
LogTypes ==
  /\ lastId \in Nat /\ wal \in Seq(Row)
  /\ DOMAIN insert = Requests
  /\ \A r \in Requests : insert[r] \in [Indices(r) -> InsertState]
  /\ DOMAIN reply = Requests

\* The advisory lock: of the transactions of a topic at most one is between lock and commit.
OneTransaction ==
  \A q, r \in Requests : \A i \in Indices(q), j \in Indices(r) :
    InTx(q, i) /\ InTx(r, j) /\ Messages[q][i].topic = Messages[r][j].topic => q = r /\ i = j

\* No row is ahead of the sequence, and a row that was inserted but is not visible yet has an
\* id above those of its topic that are.
IdsAhead ==
  /\ \A n \in 1..Len(wal) : wal[n].id <= lastId
  /\ \A r \in Requests : \A i \in Indices(r) : insert[r][i].pc = "inserted" =>
       /\ insert[r][i].id <= lastId
       /\ \A n \in 1..Len(wal) :
            wal[n].topic = Messages[r][i].topic => wal[n].id < insert[r][i].id

\* Where there is an index, a message that was inserted but is not visible was not there.
NotYetStored ==
  Indexed => \A r \in Requests : \A i \in Indices(r) :
    insert[r][i].pc = "inserted" => ~Stored(Messages[r][i])

DoneIsStored ==
  \A r \in Requests : \A i \in Indices(r) : insert[r][i].pc = "done" => Stored(Messages[r][i])

OkIsDone == \A r \in Requests : reply[r] = "ok" => \A i \in Indices(r) : insert[r][i].pc = "done"

NoCopies ==
  Indexed => \A m, n \in 1..Len(wal) :
    wal[m].topic = wal[n].topic /\ wal[m].data = wal[n].data => m = n

OrderInv == LogTypes /\ OneTransaction /\ IdsAhead /\ TopicOrder
StoreInv == NotYetStored /\ DoneIsStored /\ OkIsDone /\ NoCopies
LogInv == OrderInv /\ StoreInv

\* Ids are drawn once: no two rows, visible or not yet, have the same.
IdsUnique ==
  /\ \A n \in 1..Len(wal) : wal[n].id >= 1
  /\ \A m, n \in 1..Len(wal) : wal[m].id = wal[n].id => m = n
  /\ \A r \in Requests : \A i \in Indices(r) : insert[r][i].pc = "inserted" =>
       insert[r][i].id >= 1 /\ \A n \in 1..Len(wal) : wal[n].id # insert[r][i].id
  /\ \A q, r \in Requests : \A i \in Indices(q), j \in Indices(r) :
       /\ insert[q][i].pc = "inserted" /\ insert[r][j].pc = "inserted"
       /\ insert[q][i].id = insert[r][j].id
       => q = r /\ i = j

\* The readers' part of the types.
ReadTypes ==
  /\ replica \in 0..Len(wal) /\ polled \in Nat /\ dispatched \in Seq(Nat)
  /\ cursor \in [Topics -> Nat] /\ read \in [Topics -> SUBSET Nat]
  /\ kind \in Kinds /\ reply \in [Requests -> {"none", "ok", "error"}]

\* No cursor is ahead of the sequence, and a row that is not visible yet is above the cursor
\* of its topic.
CursorsBehind ==
  /\ \A t \in Topics : cursor[t] <= lastId
  /\ \A r \in Requests : \A i \in Indices(r) : insert[r][i].pc = "inserted" =>
       cursor[Messages[r][i].topic] < insert[r][i].id

\* The poller stands on a row it has seen, and has handed out nothing above it.
PollerStands ==
  /\ polled = 0 \/ \E m \in 1..replica : wal[m].id = polled
  /\ \A n \in 1..Len(dispatched) : dispatched[n] <= polled

ClientInv == CursorsBehind /\ ReaderComplete
PollerInv == IdsUnique /\ PollerStands /\ PollerComplete
ReadInv == ReadTypes /\ ClientInv /\ PollerInv

-----------------------------------------------------------------------------
\* A message is one of the topics' and of the data.
LEMMA MessageTypes ==
  ASSUME NEW r \in Requests, NEW i \in Indices(r)
  PROVE  Messages[r][i] \in Message
BY LogAssumption DEF Indices

\* The step of one insert leaves the others alone.
LEMMA OneInsertMoves ==
  ASSUME LogTypes, NEW r \in Requests, NEW i \in Indices(r), NEW s \in InsertState,
         insert' = [insert EXCEPT ![r][i] = s]
  PROVE  /\ DOMAIN insert' = Requests
         /\ \A q \in Requests : insert'[q] \in [Indices(q) -> InsertState]
         /\ insert'[r][i] = s
         /\ \A q \in Requests : \A j \in Indices(q) :
              ~(q = r /\ j = i) => insert'[q][j] = insert[q][j]
BY DEF LogTypes

\* The invariant holds at first: there is no row and no transaction.
LEMMA LogInit == Init => LogInv
<1> SUFFICES ASSUME Init PROVE LogInv
  OBVIOUS
<1>1. LogTypes
  BY DEF Init, LogTypes, InsertState
<1>2. wal = <<>> /\ Len(wal) = 0 /\ \A r \in Requests : \A i \in Indices(r) : insert[r][i].pc = "todo"
  BY DEF Init
<1>3. OneTransaction /\ IdsAhead /\ TopicOrder
  BY <1>2 DEF OneTransaction, InTx, IdsAhead, TopicOrder
<1>4. NotYetStored /\ DoneIsStored /\ NoCopies
  BY <1>2 DEF NotYetStored, DoneIsStored, NoCopies
<1>5. OkIsDone
  BY DEF Init, OkIsDone
<1> QED BY <1>1, <1>3, <1>4, <1>5 DEF LogInv, OrderInv, StoreInv

\* A step that changes neither the table nor an insert, and acknowledges only what is done.
LEMMA LogUntouched ==
  ASSUME LogInv, UNCHANGED <<kind, lastId, wal, insert>>, DOMAIN reply' = Requests,
         \A r \in Requests : reply'[r] = "ok" =>
           reply[r] = "ok" \/ \A i \in Indices(r) : insert[r][i].pc = "done"
  PROVE  LogInv'
<1>1. OrderInv'
  BY DEF LogInv, OrderInv, LogTypes, OneTransaction, InTx, IdsAhead, TopicOrder
<1>2. NotYetStored' /\ DoneIsStored' /\ NoCopies'
  BY DEF LogInv, StoreInv, NotYetStored, DoneIsStored, NoCopies, Stored, Rows, Indexed
<1>3. OkIsDone'
  BY DEF LogInv, StoreInv, OkIsDone
<1> QED BY <1>1, <1>2, <1>3 DEF LogInv, StoreInv

\* An insert that takes its lock or gives up: the table is as it was.
LEMMA MoveKeeps ==
  ASSUME LogInv, NEW r \in Requests, NEW i \in Indices(r), NEW pc \in {"locked", "failed"},
         insert' = [insert EXCEPT ![r][i].pc = pc], UNCHANGED <<kind, lastId, wal, reply>>,
         reply[r] = "none",
         pc = "locked" => Unlocked(Messages[r][i].topic)
  PROVE  LogInv'
<1>1. /\ DOMAIN insert' = Requests
      /\ \A q \in Requests : insert'[q] \in [Indices(q) -> InsertState]
      /\ insert'[r][i] = [pc |-> pc, id |-> insert[r][i].id]
      /\ \A q \in Requests : \A j \in Indices(q) :
           ~(q = r /\ j = i) => insert'[q][j] = insert[q][j]
  <2>1. LogTypes /\ pc \in {"todo", "locked", "inserted", "done", "failed"}
    BY DEF LogInv, OrderInv
  <2> QED BY <2>1 DEF LogTypes, InsertState
<1>2. LogTypes'
  BY <1>1 DEF LogInv, OrderInv, LogTypes
<1>3. \A q \in Requests : \A j \in Indices(q) :
        ~(q = r /\ j = i) => (InTx(q, j)' <=> InTx(q, j))
  BY <1>1 DEF InTx
<1>4. OneTransaction'
  BY <1>1, <1>3 DEF LogInv, OrderInv, OneTransaction, InTx, Unlocked
<1>5. \A q \in Requests : \A j \in Indices(q) : insert'[q][j].pc \in {"inserted", "done"} =>
        insert'[q][j] = insert[q][j]
  BY <1>1
<1>6. IdsAhead' /\ TopicOrder'
  BY <1>5 DEF LogInv, OrderInv, IdsAhead, TopicOrder
<1>7. NotYetStored' /\ DoneIsStored' /\ NoCopies'
  BY <1>5 DEF LogInv, StoreInv, NotYetStored, DoneIsStored, NoCopies, Stored, Rows, Indexed
<1>8. OkIsDone'
  BY <1>1 DEF LogInv, StoreInv, OkIsDone
<1> QED BY <1>2, <1>4, <1>6, <1>7, <1>8 DEF LogInv, OrderInv, StoreInv

\* The INSERT draws an id above all there are, under the lock of its topic.
LEMMA InsertKeeps ==
  ASSUME LogInv, NEW r \in Requests, NEW i \in Indices(r), Insert(r, i)
  PROVE  LogInv'
<1> DEFINE s == [pc |-> IF Duplicate(Messages[r][i]) THEN "done" ELSE "inserted",
                 id |-> lastId + 1]
<1>1. /\ lastId' = lastId + 1 /\ UNCHANGED <<kind, wal, reply>>
      /\ insert' = [insert EXCEPT ![r][i] = s]
      /\ insert[r][i].pc = "locked"
  BY DEF Insert
<1>2. lastId \in Nat /\ s \in InsertState
  BY DEF LogInv, OrderInv, LogTypes, InsertState
<1>3. s.id = lastId + 1 /\ s.pc = IF Duplicate(Messages[r][i]) THEN "done" ELSE "inserted"
  OBVIOUS
<1> HIDE DEF s
<1>4. /\ DOMAIN insert' = Requests
      /\ \A q \in Requests : insert'[q] \in [Indices(q) -> InsertState]
      /\ insert'[r][i] = s
      /\ \A q \in Requests : \A j \in Indices(q) :
           ~(q = r /\ j = i) => insert'[q][j] = insert[q][j]
  BY <1>1, <1>2, OneInsertMoves DEF LogInv, OrderInv
<1>5. LogTypes'
  BY <1>1, <1>2, <1>4 DEF LogInv, OrderInv, LogTypes
<1>6. \A q \in Requests : \A j \in Indices(q) : InTx(q, j)' => InTx(q, j)
  BY <1>1, <1>4 DEF InTx
<1>7. OneTransaction'
  BY <1>6 DEF LogInv, OrderInv, OneTransaction
<1>8. \A n \in 1..Len(wal) : wal[n].id \in Nat /\ wal[n].id <= lastId
  <2>1. wal \in Seq(Row)
    BY DEF LogInv, OrderInv, LogTypes
  <2>2. \A n \in 1..Len(wal) : wal[n] \in Row
    BY <2>1
  <2> QED BY <2>2 DEF LogInv, OrderInv, IdsAhead, Row
<1>9. IdsAhead' /\ TopicOrder'
  <2>1. \A n \in 1..Len(wal') : wal'[n].id <= lastId'
    BY <1>1, <1>2, <1>8
  <2>2. ASSUME NEW q \in Requests, NEW j \in Indices(q), insert'[q][j].pc = "inserted"
        PROVE /\ insert'[q][j].id <= lastId'
              /\ \A n \in 1..Len(wal') :
                   wal'[n].topic = Messages[q][j].topic => wal'[n].id < insert'[q][j].id
    <3>1. CASE q = r /\ j = i
      BY <1>1, <1>2, <1>3, <1>4, <1>8, <3>1
    <3>2. CASE ~(q = r /\ j = i)
      <4>1. insert[q][j].id \in Nat
        BY DEF LogInv, OrderInv, LogTypes, InsertState
      <4> QED BY <1>1, <1>2, <1>4, <2>2, <3>2, <4>1 DEF LogInv, OrderInv, IdsAhead
    <3> QED BY <3>1, <3>2
  <2>3. TopicOrder'
    BY <1>1 DEF LogInv, OrderInv, TopicOrder
  <2> QED BY <2>1, <2>2, <2>3 DEF IdsAhead
<1>10. Duplicate(Messages[r][i]) => Stored(Messages[r][i])
  BY DEF Duplicate, Stored
<1>11. Indexed /\ Stored(Messages[r][i]) => Duplicate(Messages[r][i])
  BY DEF Duplicate, Stored
<1>12. \A m : Stored(m)' <=> Stored(m)
  BY <1>1 DEF Stored, Rows
<1>13. NotYetStored'
  BY <1>1, <1>3, <1>4, <1>11, <1>12 DEF LogInv, StoreInv, NotYetStored, Indexed
<1>14. DoneIsStored'
  BY <1>3, <1>4, <1>10, <1>12 DEF LogInv, StoreInv, DoneIsStored
<1>15. NoCopies' /\ OkIsDone'
  BY <1>1, <1>4 DEF LogInv, StoreInv, NoCopies, Indexed, OkIsDone
<1> QED BY <1>5, <1>7, <1>9, <1>13, <1>14, <1>15 DEF LogInv, OrderInv, StoreInv

\* The commit makes the row visible; every other transaction is about another topic.
LEMMA CommitKeeps ==
  ASSUME LogInv, NEW r \in Requests, NEW i \in Indices(r), Commit(r, i)
  PROVE  LogInv'
<1> DEFINE m == Messages[r][i]
           row == [id |-> insert[r][i].id, topic |-> m.topic, data |-> m.data]
<1>1. /\ insert[r][i].pc = "inserted" /\ UNCHANGED <<kind, lastId, reply>>
      /\ wal' = Append(wal, row)
  BY DEF Commit
<1>2. PICK pc \in {"done", "failed"} : insert' = [insert EXCEPT ![r][i].pc = pc]
  BY DEF Commit
<1>3. /\ DOMAIN insert' = Requests
      /\ \A q \in Requests : insert'[q] \in [Indices(q) -> InsertState]
      /\ insert'[r][i] = [pc |-> pc, id |-> insert[r][i].id]
      /\ \A q \in Requests : \A j \in Indices(q) :
           ~(q = r /\ j = i) => insert'[q][j] = insert[q][j]
  <2>1. LogTypes /\ pc \in {"todo", "locked", "inserted", "done", "failed"}
    BY DEF LogInv, OrderInv
  <2> QED BY <1>2, <2>1 DEF LogTypes, InsertState
<1>4. m \in Message /\ insert[r][i].id \in Nat /\ wal \in Seq(Row) /\ lastId \in Nat
  BY MessageTypes DEF LogInv, OrderInv, LogTypes, InsertState
<1>5. row \in Row
  BY <1>4 DEF Row, Message
<1>6. row.id = insert[r][i].id /\ row.topic = m.topic /\ row.data = m.data
  OBVIOUS
<1> HIDE DEF row
<1>7. /\ wal' \in Seq(Row) /\ Len(wal') = Len(wal) + 1 /\ wal'[Len(wal) + 1] = row
      /\ \A n \in 1..Len(wal) : wal'[n] = wal[n]
  BY <1>1, <1>4, <1>5
<1>8. LogTypes'
  BY <1>1, <1>3, <1>7 DEF LogInv, OrderInv, LogTypes
<1>9. \A q \in Requests : \A j \in Indices(q) : InTx(q, j)' => InTx(q, j)
  BY <1>3 DEF InTx
<1>10. OneTransaction'
  BY <1>9 DEF LogInv, OrderInv, OneTransaction
<1>11. \A q \in Requests : \A j \in Indices(q) : insert'[q][j].pc = "inserted" =>
         /\ insert'[q][j] = insert[q][j] /\ insert[q][j].pc = "inserted"
         /\ Messages[q][j].topic # m.topic
  BY <1>1, <1>3 DEF LogInv, OrderInv, OneTransaction, InTx
<1>12. row.id <= lastId /\ \A n \in 1..Len(wal) : wal[n].topic = row.topic => wal[n].id < row.id
  BY <1>1, <1>6 DEF LogInv, OrderInv, IdsAhead
<1>13. \A n \in 1..Len(wal') : n \in 1..Len(wal) \/ n = Len(wal) + 1
  BY <1>4, <1>7
<1>14. IdsAhead'
  <2>1. \A n \in 1..Len(wal') : wal'[n].id <= lastId'
    BY <1>1, <1>7, <1>12, <1>13 DEF LogInv, OrderInv, IdsAhead
  <2>2. ASSUME NEW q \in Requests, NEW j \in Indices(q), insert'[q][j].pc = "inserted"
        PROVE /\ insert'[q][j].id <= lastId'
              /\ \A n \in 1..Len(wal') :
                   wal'[n].topic = Messages[q][j].topic => wal'[n].id < insert'[q][j].id
    BY <1>1, <1>6, <1>7, <1>11, <1>13, <2>2 DEF LogInv, OrderInv, IdsAhead
  <2> QED BY <2>1, <2>2 DEF IdsAhead
<1>15. TopicOrder'
  <2> SUFFICES ASSUME NEW a \in 1..Len(wal'), NEW b \in 1..Len(wal'), a < b,
                      wal'[a].topic = wal'[b].topic
               PROVE  wal'[a].id < wal'[b].id
    BY DEF TopicOrder
  <2>1. a \in 1..Len(wal)
    BY <1>4, <1>7
  <2>2. CASE b \in 1..Len(wal)
    BY <1>7, <2>1, <2>2 DEF LogInv, OrderInv, TopicOrder
  <2>3. CASE b = Len(wal) + 1
    BY <1>7, <1>12, <2>1, <2>3
  <2> QED BY <1>13, <2>2, <2>3
<1>16. \A k \in Message : Stored(k)' <=> (Stored(k) \/ k = m)
  <2>1. \A n \in 1..Len(wal) : n \in 1..Len(wal')
    BY <1>4, <1>7
  <2>2. Len(wal) + 1 \in 1..Len(wal')
    BY <1>4, <1>7
  <2>3. Rows' = Rows \cup {row}
    BY <1>7, <1>13, <2>1, <2>2 DEF Rows
  <2>4. \A k \in Message : (row.topic = k.topic /\ row.data = k.data) <=> k = m
    BY <1>4, <1>6 DEF Message
  <2> QED BY <2>3, <2>4 DEF Stored
<1>17. \A q \in Requests : \A j \in Indices(q) : Messages[q][j] \in Message
  BY MessageTypes
<1>18. NotYetStored'
  BY <1>1, <1>11, <1>16, <1>17 DEF LogInv, StoreInv, NotYetStored, Indexed
<1>19. DoneIsStored'
  <2> SUFFICES ASSUME NEW q \in Requests, NEW j \in Indices(q), insert'[q][j].pc = "done"
               PROVE  Stored(Messages[q][j])'
    BY DEF DoneIsStored
  <2>1. CASE q = r /\ j = i
    BY <1>16, <1>17, <2>1
  <2>2. CASE ~(q = r /\ j = i)
    BY <1>3, <1>16, <1>17, <2>2 DEF LogInv, StoreInv, DoneIsStored
  <2> QED BY <2>1, <2>2
<1>20. OkIsDone'
  BY <1>1, <1>3 DEF LogInv, StoreInv, OkIsDone
<1>21. NoCopies'
  <2> SUFFICES ASSUME Indexed', NEW a \in 1..Len(wal'), NEW b \in 1..Len(wal'),
                      wal'[a].topic = wal'[b].topic, wal'[a].data = wal'[b].data
               PROVE  a = b
    BY DEF NoCopies
  <2>1. Indexed
    BY <1>1 DEF Indexed
  <2>2. ~Stored(m)
    BY <1>1, <2>1 DEF LogInv, StoreInv, NotYetStored
  <2>3. \A n \in 1..Len(wal) : ~(wal[n].topic = row.topic /\ wal[n].data = row.data)
    BY <1>6, <2>2 DEF Stored, Rows
  <2>4. CASE a \in 1..Len(wal) /\ b \in 1..Len(wal)
    BY <1>7, <2>1, <2>4 DEF LogInv, StoreInv, NoCopies
  <2> QED BY <1>7, <1>13, <2>3, <2>4
<1> QED BY <1>8, <1>10, <1>14, <1>15, <1>18, <1>19, <1>20, <1>21 DEF LogInv, OrderInv, StoreInv

\* Every step keeps the invariant.
LEMMA LogNext == LogInv /\ [Next]_vars => LogInv'
<1> SUFFICES ASSUME LogInv, [Next]_vars PROVE LogInv'
  OBVIOUS
<1>0. DOMAIN reply = Requests
  BY DEF LogInv, OrderInv, LogTypes
<1>1. CASE UNCHANGED vars
  BY <1>0, <1>1, LogUntouched DEF vars, dbVars, sendVars
<1>2. ASSUME NEW r \in Requests, NEW i \in Indices(r), Lock(r, i) PROVE LogInv'
  BY <1>2, MoveKeeps DEF Lock, dbVars
<1>3. ASSUME NEW r \in Requests, NEW i \in Indices(r), Fail(r, i) PROVE LogInv'
  BY <1>3, MoveKeeps DEF Fail, dbVars
<1>4. ASSUME NEW r \in Requests, Return(r) PROVE LogInv'
  <2>1. UNCHANGED <<kind, lastId, wal, insert>> /\ reply' = [reply EXCEPT ![r] = Outcome(r)]
    BY <1>4 DEF Return, dbVars
  <2>2. Outcome(r) = "ok" => \A i \in Indices(r) : insert[r][i].pc = "done"
    BY DEF Outcome, AllDone
  <2> QED BY <1>0, <2>1, <2>2, LogUntouched
<1>5. ASSUME NEW r \in Requests, Refuse(r) PROVE LogInv'
  <2>1. UNCHANGED <<kind, lastId, wal, insert>> /\ reply' = [reply EXCEPT ![r] = "error"]
    BY <1>5 DEF Refuse, dbVars
  <2> QED BY <1>0, <2>1, LogUntouched
<1>6. CASE Replicate \/ Poll \/ (\E t \in Topics : Query(t)) \/ Quiet
  <2>1. UNCHANGED <<kind, lastId, wal, insert, reply>>
    BY <1>6 DEF Replicate, Poll, Query, Quiet, vars, dbVars, sendVars
  <2> QED BY <1>0, <2>1, LogUntouched
<1> QED BY <1>1, <1>2, <1>3, <1>4, <1>5, <1>6, InsertKeeps, CommitKeeps DEF Next

\* Within a topic rows become visible in the order of their ids, for any number of topics and
\* of overlapping calls: the advisory lock of the insert functions is enough (store.go:296-390
\* and the functions of the migrations).
THEOREM TopicsAreOrdered == Spec => []TopicOrder
<1>1. LogInv => TopicOrder
  BY DEF LogInv, OrderInv
<1> QED BY <1>1, LogInit, LogNext, PTL DEF Spec

\* A message is stored at most once, however often and by however many calls it is sent, and
\* what a call acknowledged is stored (service.go:282-318, 336-406; store.go:313-318).
THEOREM SentAgainStoredOnce == Spec => []StoredOnce
<1>1. LogInv => StoredOnce
  BY DEF LogInv, StoreInv, NoCopies, OkIsDone, DoneIsStored, StoredOnce
<1> QED BY <1>1, LogInit, LogNext, PTL DEF Spec
-----------------------------------------------------------------------------
(* Least and greatest ids, and the pages of a query.                       *)

Below == {p \in Nat \X Nat : p[1] < p[2]}

\* A nonempty set of naturals has a least element.
LEMMA LeastNatural ==
  ASSUME NEW S, S \subseteq Nat, S # {}
  PROVE  \E x \in S : \A y \in S : x <= y
<1>1. OpToRel(<, Nat) = Below
  BY DEF OpToRel, Below
<1>2. IsWellFoundedOn(Below, Nat)
  BY <1>1, NatLessThanWellFounded, Zenon
<1>3. PICK x \in S : \A y \in S : ~(<<y, x>> \in Below)
  BY <1>2, WFMin
<1>4. ASSUME NEW y \in S PROVE x <= y
  <2>1. <<y, x>> \in Nat \X Nat
    OBVIOUS
  <2> QED BY <1>3, <2>1 DEF Below
<1> QED BY <1>4

\* A nonempty set of naturals below a bound has a greatest element.
LEMMA GreatestNatural ==
  ASSUME NEW S, S \subseteq Nat, S # {}, NEW n \in Nat, \A i \in S : i <= n
  PROVE  Greatest(S) \in S /\ \A j \in S : j <= Greatest(S)
<1>1. PICK U : U = {n - i : i \in S}
  OBVIOUS
<1>2. \A u \in U : \E i \in S : u = n - i
  BY <1>1
<1>3. \A i \in S : n - i \in U
  BY <1>1
<1>4. U \subseteq Nat /\ U # {}
  <2>1. ASSUME NEW u \in U PROVE u \in Nat
    <3>1. PICK i \in S : u = n - i
      BY <1>2
    <3> QED BY <3>1
  <2> QED BY <1>3, <2>1
<1>5. PICK x \in U : \A y \in U : x <= y
  BY <1>4, LeastNatural
<1>6. PICK g \in S : x = n - g
  BY <1>2
<1>7. \A j \in S : j <= g
  BY <1>3, <1>5, <1>6
<1> QED BY <1>7 DEF Greatest

\* The rows of S up to an id.
Upto(S, i) == {row \in S : row.id <= i}

\* The row's place among them grows with its id.
LEMMA UptoGrows ==
  ASSUME NEW S, IsFiniteSet(S), \A row \in S : row.id \in Nat,
         NEW i \in Nat, NEW j \in Nat, i <= j
  PROVE  /\ Cardinality(Upto(S, i)) \in Nat /\ Cardinality(Upto(S, j)) \in Nat
         /\ Cardinality(Upto(S, i)) <= Cardinality(Upto(S, j))
         /\ Cardinality(Upto(S, j)) <= Cardinality(S)
         /\ (\E row \in S : row.id = j) /\ i < j => Cardinality(Upto(S, i)) < Cardinality(Upto(S, j))
<1>1. Upto(S, i) \subseteq Upto(S, j) /\ Upto(S, j) \subseteq S
  BY DEF Upto
<1>2. IsFiniteSet(Upto(S, j)) /\ Cardinality(Upto(S, j)) <= Cardinality(S)
  BY <1>1, FS_Subset
<1>3. /\ IsFiniteSet(Upto(S, i)) /\ Cardinality(Upto(S, i)) <= Cardinality(Upto(S, j))
      /\ Cardinality(Upto(S, j)) = Cardinality(Upto(S, i)) => Upto(S, j) = Upto(S, i)
  BY <1>1, <1>2, FS_Subset
<1>4. Cardinality(Upto(S, i)) \in Nat /\ Cardinality(Upto(S, j)) \in Nat
  BY <1>2, <1>3, FS_CardinalityType
<1>5. ASSUME NEW row \in S, row.id = j, i < j PROVE Upto(S, i) # Upto(S, j)
  <2>1. row \in Upto(S, j) /\ row \notin Upto(S, i)
    BY <1>5 DEF Upto
  <2> QED BY <2>1
<1> QED BY <1>2, <1>3, <1>4, <1>5

\* A page holds what comes before anything it holds, and only rows that were asked for.
LEMMA FirstRowsClosed ==
  ASSUME NEW S, IsFiniteSet(S), \A row \in S : row.id \in Nat, NEW n \in Nat
  PROVE  /\ FirstRows(S, n) \subseteq S /\ IsFiniteSet(FirstRows(S, n))
         /\ \A p \in FirstRows(S, n), o \in S : o.id <= p.id => o \in FirstRows(S, n)
<1>1. FirstRows(S, n) = {row \in S : Cardinality(Upto(S, row.id)) <= n}
  BY DEF FirstRows, Upto
<1>2. FirstRows(S, n) \subseteq S
  BY <1>1
<1>3. ASSUME NEW p \in FirstRows(S, n), NEW o \in S, o.id <= p.id PROVE o \in FirstRows(S, n)
  <2>1. p \in S /\ p.id \in Nat /\ o.id \in Nat /\ Cardinality(Upto(S, p.id)) <= n
    BY <1>1
  <2>2. /\ Cardinality(Upto(S, o.id)) \in Nat /\ Cardinality(Upto(S, p.id)) \in Nat
        /\ Cardinality(Upto(S, o.id)) <= Cardinality(Upto(S, p.id))
    BY <1>3, <2>1, UptoGrows
  <2>3. Cardinality(Upto(S, o.id)) <= n
    BY <2>1, <2>2
  <2> QED BY <1>1, <2>3
<1> QED BY <1>2, <1>3, FS_Subset

\* Rows with different ids.
DistinctIds(S) == \A p, o \in S : p.id = o.id => p = o

\* Every place of a finite set of rows is some row's: without the rows before it a row
\* would not have come that far.
LEMMA EveryPlaceTaken ==
  ASSUME NEW S, IsFiniteSet(S), \A row \in S : row.id \in Nat, DistinctIds(S),
         NEW n \in 1..Cardinality(S), NEW b \in Nat, \A row \in S : row.id <= b
  PROVE  \E row \in S : Cardinality(Upto(S, row.id)) = n
<1>0. Cardinality(S) \in Nat
  BY FS_CardinalityType
<1>1. PICK U : U = {row.id : row \in {o \in S : Cardinality(Upto(S, o.id)) >= n}}
  OBVIOUS
<1>2. \A u \in U : \E row \in S : u = row.id /\ Cardinality(Upto(S, row.id)) >= n
  BY <1>1
<1>3. \A row \in S : Cardinality(Upto(S, row.id)) >= n => row.id \in U
  BY <1>1
<1>4. U # {}
  <2>1. PICK I : I = {row.id : row \in S}
    OBVIOUS
  <2>2. S # {}
    BY <1>0, FS_EmptySet
  <2>3. I \subseteq Nat /\ I # {} /\ \A i \in I : i <= b
    BY <2>1, <2>2
  <2>4. Greatest(I) \in I /\ \A j \in I : j <= Greatest(I)
    BY <2>3, GreatestNatural
  <2>5. PICK top \in S : top.id = Greatest(I)
    BY <2>1, <2>4
  <2>6. Upto(S, top.id) = S
    BY <2>1, <2>4, <2>5 DEF Upto
  <2> QED BY <1>0, <1>3, <2>5, <2>6
<1>5. U \subseteq Nat
  BY <1>2
<1>6. PICK x \in U : \A y \in U : x <= y
  BY <1>4, <1>5, LeastNatural
<1>7. PICK row \in S : x = row.id /\ Cardinality(Upto(S, row.id)) >= n
  BY <1>2
<1>8. PICK T : T = Upto(S, row.id) \ {row}
  OBVIOUS
<1>9. IsFiniteSet(Upto(S, row.id)) /\ Cardinality(Upto(S, row.id)) \in Nat
  <2>1. Upto(S, row.id) \subseteq S
    BY DEF Upto
  <2> QED BY <2>1, FS_Subset, FS_CardinalityType
<1>10. row \in Upto(S, row.id)
  BY DEF Upto
<1>11. IsFiniteSet(T) /\ Cardinality(T) = Cardinality(Upto(S, row.id)) - 1
  BY <1>8, <1>9, <1>10, FS_RemoveElement
<1>12. ASSUME Cardinality(Upto(S, row.id)) # n PROVE FALSE
  <2>1. Cardinality(T) >= n /\ T # {}
    BY <1>0, <1>7, <1>9, <1>11, <1>12, FS_EmptySet
  <2>2. PICK I : I = {o.id : o \in T}
    OBVIOUS
  <2>3. \A o \in T : o \in S /\ o.id \in Nat /\ o.id <= row.id /\ o # row
    BY <1>8 DEF Upto
  <2>4. I \subseteq Nat /\ I # {} /\ \A i \in I : i <= b
    BY <2>1, <2>2, <2>3
  <2>5. Greatest(I) \in I /\ \A j \in I : j <= Greatest(I)
    BY <2>4, GreatestNatural
  <2>6. PICK o \in T : o.id = Greatest(I)
    BY <2>2, <2>5
  <2>7. o.id < row.id
    BY <2>3 DEF DistinctIds
  <2>8. Upto(S, o.id) = T
    <3>1. ASSUME NEW p \in Upto(S, o.id) PROVE p \in T
      <4>1. p \in S /\ p.id \in Nat /\ p.id <= o.id
        BY DEF Upto
      <4>2. p.id < row.id
        BY <2>3, <2>7, <4>1
      <4> QED BY <1>8, <4>1, <4>2 DEF Upto
    <3>2. ASSUME NEW p \in T PROVE p \in Upto(S, o.id)
      <4>1. p.id \in I
        BY <2>2
      <4> QED BY <2>3, <2>5, <2>6, <4>1 DEF Upto
    <3> QED BY <3>1, <3>2
  <2>9. o.id \in U
    BY <1>3, <2>1, <2>3, <2>8
  <2> QED BY <1>6, <1>7, <2>3, <2>7, <2>9
<1> QED BY <1>12

\* Ascending lists the ids of a finite set of rows, each once, in order.
LEMMA AscendingLists ==
  ASSUME NEW S, IsFiniteSet(S), \A row \in S : row.id \in Nat, DistinctIds(S),
         NEW b \in Nat, \A row \in S : row.id <= b
  PROVE  /\ Ascending(S) \in Seq(Nat) /\ Len(Ascending(S)) = Cardinality(S)
         /\ \A n \in 1..Cardinality(S) : \E row \in S : Ascending(S)[n] = row.id
         /\ \A row \in S : \E n \in 1..Cardinality(S) : Ascending(S)[n] = row.id
         /\ \A m, n \in 1..Cardinality(S) : m < n => Ascending(S)[m] < Ascending(S)[n]
<1>0. Cardinality(S) \in Nat
  BY FS_CardinalityType
<1>1. PICK I : I = {row.id : row \in S}
  OBVIOUS
<1>2. I \subseteq Nat /\ \A i \in I : \E row \in S : row.id = i
  BY <1>1
<1>3. Ascending(S) = [n \in 1..Cardinality(S) |-> CHOOSE i \in I : Cardinality(Upto(S, i)) = n]
  BY <1>1 DEF Ascending, Upto
<1>4. ASSUME NEW n \in 1..Cardinality(S)
      PROVE  Ascending(S)[n] \in I /\ Cardinality(Upto(S, Ascending(S)[n])) = n
  <2>1. PICK row \in S : Cardinality(Upto(S, row.id)) = n
    BY EveryPlaceTaken
  <2>2. row.id \in I
    BY <1>1
  <2> QED BY <1>3, <2>1, <2>2
<1>5. Ascending(S) \in [1..Cardinality(S) -> Nat]
  BY <1>2, <1>3, <1>4
<1>6. Ascending(S) \in Seq(Nat) /\ Len(Ascending(S)) = Cardinality(S)
  BY <1>0, <1>5
<1>7. ASSUME NEW m \in 1..Cardinality(S), NEW n \in 1..Cardinality(S), m < n
      PROVE  Ascending(S)[m] < Ascending(S)[n]
  <2>1. Ascending(S)[m] \in Nat /\ Ascending(S)[n] \in Nat
    BY <1>2, <1>4
  <2>2. ASSUME Ascending(S)[n] <= Ascending(S)[m] PROVE FALSE
    <3>1. Cardinality(Upto(S, Ascending(S)[n])) <= Cardinality(Upto(S, Ascending(S)[m]))
      BY <2>1, <2>2, UptoGrows
    <3> QED BY <1>0, <1>4, <1>7, <3>1
  <2> QED BY <2>1, <2>2
<1>8. ASSUME NEW row \in S PROVE \E n \in 1..Cardinality(S) : Ascending(S)[n] = row.id
  <2>1. PICK n : n = Cardinality(Upto(S, row.id))
    OBVIOUS
  <2>2. row.id \in Nat /\ row.id \in I
    BY <1>1
  <2>3. n \in Nat /\ n <= Cardinality(S)
    BY <2>1, <2>2, UptoGrows
  <2>4. n # 0
    <3>1. Upto(S, row.id) \subseteq S /\ row \in Upto(S, row.id)
      BY <2>2 DEF Upto
    <3> QED BY <2>1, <3>1, FS_Subset, FS_EmptySet
  <2>5. n \in 1..Cardinality(S)
    BY <1>0, <2>3, <2>4
  <2>6. Ascending(S)[n] \in I /\ Cardinality(Upto(S, Ascending(S)[n])) = n
    BY <1>4, <2>5
  <2>7. PICK o \in S : o.id = Ascending(S)[n]
    BY <1>2, <2>6
  <2>8. o.id \in Nat
    OBVIOUS
  <2>9. ~(o.id < row.id)
    <3>1. o.id < row.id => Cardinality(Upto(S, o.id)) < Cardinality(Upto(S, row.id))
      BY <2>2, <2>8, UptoGrows
    <3> QED BY <2>1, <2>3, <2>6, <2>7, <3>1
  <2>10. ~(row.id < o.id)
    <3>1. row.id < o.id => Cardinality(Upto(S, row.id)) < Cardinality(Upto(S, o.id))
      BY <2>2, <2>8, UptoGrows
    <3> QED BY <2>1, <2>3, <2>6, <2>7, <3>1
  <2>11. o.id = row.id
    BY <2>2, <2>8, <2>9, <2>10
  <2> QED BY <2>5, <2>7, <2>11
<1>9. \A n \in 1..Cardinality(S) : \E row \in S : Ascending(S)[n] = row.id
  BY <1>2, <1>4
<1> QED BY <1>6, <1>7, <1>8, <1>9

-----------------------------------------------------------------------------
(* The readers.                                                            *)

\* What LogInv and ReadTypes say of a visible row.
LEMMA RowTypes ==
  ASSUME LogInv
  PROVE  /\ lastId \in Nat /\ Len(wal) \in Nat
         /\ \A n \in 1..Len(wal) : wal[n].id \in Nat /\ wal[n].id <= lastId
<1>1. wal \in Seq(Row) /\ lastId \in Nat
  BY DEF LogInv, OrderInv, LogTypes
<1>2. \A n \in 1..Len(wal) : wal[n] \in Row
  BY <1>1
<1> QED BY <1>1, <1>2 DEF LogInv, OrderInv, IdsAhead, Row

\* The first rows of the log are finitely many.
LEMMA PrefixFinite ==
  ASSUME NEW k \in Nat, NEW T, T \subseteq {wal[n] : n \in 1..k}
  PROVE  IsFiniteSet(T)
<1>1. PICK W : W = {wal[n] : n \in 1..k}
  OBVIOUS
<1>2. PICK f : f = [n \in 1..k |-> wal[n]]
  OBVIOUS
<1>3. f \in [1..k -> W] /\ \A w \in W : \E n \in 1..k : f[n] = w
  BY <1>1, <1>2
<1>4. f \in Surjection(1..k, W)
  BY <1>3 DEF Surjection
<1>5. IsFiniteSet(W)
  BY <1>4, FS_Interval, FS_Surjection
<1> QED BY <1>1, <1>5, FS_Subset

\* At first there is nothing to read.
LEMMA ReadInit == Init => ReadInv
<1> SUFFICES ASSUME Init PROVE ReadInv
  OBVIOUS
<1>1. /\ lastId = 0 /\ wal = <<>> /\ Len(wal) = 0 /\ replica = 0 /\ polled = 0
      /\ dispatched = <<>> /\ Len(dispatched) = 0
      /\ \A r \in Requests : \A i \in Indices(r) : insert[r][i].pc = "todo"
  BY DEF Init
<1>2. \A t \in Topics : cursor[t] = 0 /\ read[t] = {}
  BY DEF Init
<1>3. ReadTypes
  BY <1>1 DEF Init, ReadTypes
<1>4. CursorsBehind /\ IdsUnique /\ PollerStands /\ PollerComplete
  BY <1>1, <1>2 DEF CursorsBehind, IdsUnique, PollerStands, PollerComplete
<1>5. Rows = {}
  BY <1>1 DEF Rows
<1>6. ReaderComplete
  BY <1>2, <1>5 DEF ReaderComplete
<1> QED BY <1>3, <1>4, <1>6 DEF ReadInv, ClientInv, PollerInv

\* A step of the calls that draws no id and makes no row visible.
LEMMA ReadUntouched ==
  ASSUME ReadInv, UNCHANGED <<kind, lastId, wal, pollVars, readVars>>,
         reply' \in [Requests -> {"none", "ok", "error"}],
         \A r \in Requests : \A i \in Indices(r) :
           insert'[r][i].pc = "inserted" => insert'[r][i] = insert[r][i]
  PROVE  ReadInv'
<1>1. ReadTypes'
  BY DEF ReadInv, ReadTypes, pollVars, readVars
<1>2. ClientInv'
  BY DEF ReadInv, ClientInv, CursorsBehind, ReaderComplete, Rows, readVars
<1>3. IdsUnique'
  BY DEF ReadInv, PollerInv, IdsUnique
<1>4. PollerStands' /\ PollerComplete'
  BY DEF ReadInv, PollerInv, PollerStands, PollerComplete, WasDispatched, Overtaken, pollVars
<1> QED BY <1>1, <1>2, <1>3, <1>4 DEF ReadInv, PollerInv

\* The INSERT draws an id no row and no cursor has reached.
LEMMA ReadInsert ==
  ASSUME LogInv, ReadInv, NEW r \in Requests, NEW i \in Indices(r), Insert(r, i)
  PROVE  ReadInv'
<1> DEFINE s == [pc |-> IF Duplicate(Messages[r][i]) THEN "done" ELSE "inserted",
                 id |-> lastId + 1]
<1>1. /\ lastId' = lastId + 1 /\ UNCHANGED <<kind, wal, reply, pollVars, readVars>>
      /\ insert' = [insert EXCEPT ![r][i] = s]
  BY DEF Insert
<1>2. s \in InsertState /\ s.id = lastId + 1
  BY RowTypes DEF InsertState
<1> HIDE DEF s
<1>3. /\ DOMAIN insert' = Requests
      /\ \A q \in Requests : insert'[q] \in [Indices(q) -> InsertState]
      /\ insert'[r][i] = s
      /\ \A q \in Requests : \A j \in Indices(q) :
           ~(q = r /\ j = i) => insert'[q][j] = insert[q][j]
  BY <1>1, <1>2, OneInsertMoves DEF LogInv, OrderInv
<1>4. \A q \in Requests : \A j \in Indices(q) :
        /\ insert[q][j].id \in Nat
        /\ insert[q][j].pc = "inserted" => insert[q][j].id <= lastId
  BY DEF LogInv, OrderInv, IdsAhead, LogTypes, InsertState
<1>5. \A q \in Requests : \A j \in Indices(q) : Messages[q][j].topic \in Topics
  BY MessageTypes DEF Message
<1>6. \A t \in Topics : cursor[t] \in Nat /\ cursor[t] <= lastId
  BY DEF ReadInv, ReadTypes, ClientInv, CursorsBehind
<1>7. ReadTypes'
  BY <1>1 DEF ReadInv, ReadTypes, pollVars, readVars
<1>8. CursorsBehind'
  <2>1. cursor' = cursor
    BY <1>1 DEF readVars
  <2>2. \A t \in Topics : cursor'[t] <= lastId'
    BY <1>1, <1>6, <2>1, RowTypes
  <2>3. ASSUME NEW q \in Requests, NEW j \in Indices(q), insert'[q][j].pc = "inserted"
        PROVE  cursor'[Messages[q][j].topic] < insert'[q][j].id
    <3>1. CASE q = r /\ j = i
      BY <1>2, <1>3, <1>5, <1>6, <2>1, <3>1, RowTypes
    <3>2. CASE ~(q = r /\ j = i)
      BY <1>3, <2>1, <2>3, <3>2 DEF ReadInv, ClientInv, CursorsBehind
    <3> QED BY <3>1, <3>2
  <2> QED BY <2>2, <2>3 DEF CursorsBehind
<1>9. ReaderComplete'
  BY <1>1 DEF ReadInv, ClientInv, ReaderComplete, Rows, readVars
<1>10. IdsUnique'
  <2>1. ASSUME NEW q \in Requests, NEW j \in Indices(q), insert'[q][j].pc = "inserted"
        PROVE  insert'[q][j].id >= 1 /\ \A n \in 1..Len(wal) : wal[n].id # insert'[q][j].id
    <3>1. CASE q = r /\ j = i
      BY <1>2, <1>3, <3>1, RowTypes
    <3>2. CASE ~(q = r /\ j = i)
      BY <1>3, <2>1, <3>2 DEF ReadInv, PollerInv, IdsUnique
    <3> QED BY <3>1, <3>2
  <2>2. ASSUME NEW q \in Requests, NEW j \in Indices(q), NEW p \in Requests, NEW k \in Indices(p),
               insert'[q][j].pc = "inserted", insert'[p][k].pc = "inserted",
               insert'[q][j].id = insert'[p][k].id
        PROVE  q = p /\ j = k
    <3>1. CASE q = r /\ j = i
      BY <1>2, <1>3, <1>4, <2>2, <3>1, RowTypes
    <3>2. CASE p = r /\ k = i
      BY <1>2, <1>3, <1>4, <2>2, <3>2, RowTypes
    <3>3. CASE ~(q = r /\ j = i) /\ ~(p = r /\ k = i)
      BY <1>3, <2>2, <3>3 DEF ReadInv, PollerInv, IdsUnique
    <3> QED BY <3>1, <3>2, <3>3
  <2> QED BY <1>1, <2>1, <2>2 DEF ReadInv, PollerInv, IdsUnique
<1>11. PollerStands' /\ PollerComplete'
  BY <1>1 DEF ReadInv, PollerInv, PollerStands, PollerComplete, WasDispatched, Overtaken, pollVars
<1> QED BY <1>7, <1>8, <1>9, <1>10, <1>11 DEF ReadInv, ClientInv, PollerInv

\* The commit shows a row above every cursor of its topic and beyond the replica.
LEMMA ReadCommit ==
  ASSUME LogInv, ReadInv, NEW r \in Requests, NEW i \in Indices(r), Commit(r, i)
  PROVE  ReadInv'
<1> DEFINE m == Messages[r][i]
           row == [id |-> insert[r][i].id, topic |-> m.topic, data |-> m.data]
<1>1. /\ insert[r][i].pc = "inserted" /\ UNCHANGED <<kind, lastId, reply, pollVars, readVars>>
      /\ wal' = Append(wal, row)
  BY DEF Commit
<1>2. PICK pc \in {"done", "failed"} : insert' = [insert EXCEPT ![r][i].pc = pc]
  BY DEF Commit
<1>3. /\ insert'[r][i].pc = pc
      /\ \A q \in Requests : \A j \in Indices(q) :
           ~(q = r /\ j = i) => insert'[q][j] = insert[q][j]
  <2>1. LogTypes /\ pc \in {"todo", "locked", "inserted", "done", "failed"}
    BY DEF LogInv, OrderInv
  <2> QED BY <1>2, <2>1 DEF LogTypes, InsertState
<1>4. \A q \in Requests : \A j \in Indices(q) : insert'[q][j].pc = "inserted" =>
        insert'[q][j] = insert[q][j] /\ ~(q = r /\ j = i)
  BY <1>3
<1>5. m \in Message /\ insert[r][i].id \in Nat /\ wal \in Seq(Row)
  BY MessageTypes DEF LogInv, OrderInv, LogTypes, InsertState
<1>6. row \in Row /\ row.id = insert[r][i].id /\ row.topic = m.topic /\ row.topic \in Topics
  BY <1>5 DEF Row, Message
<1> HIDE DEF row
<1>7. /\ Len(wal) \in Nat /\ Len(wal') = Len(wal) + 1 /\ wal'[Len(wal) + 1] = row
      /\ \A n \in 1..Len(wal) : wal'[n] = wal[n]
  BY <1>1, <1>5, <1>6
<1>8. \A n : n \in 1..Len(wal') <=> n \in 1..Len(wal) \/ n = Len(wal) + 1
  BY <1>7
<1>9. Rows' = Rows \cup {row}
  BY <1>7, <1>8 DEF Rows
<1>10. row.id >= 1 /\ \A n \in 1..Len(wal) : wal[n].id # row.id
  BY <1>1, <1>6 DEF ReadInv, PollerInv, IdsUnique
<1>11. cursor[row.topic] < row.id /\ cursor' = cursor /\ read' = read
  BY <1>1, <1>6 DEF ReadInv, ClientInv, CursorsBehind, readVars
<1>12. UNCHANGED <<replica, polled, dispatched>>
  BY <1>1 DEF pollVars
<1>13. ReadTypes'
  BY <1>1, <1>7, <1>11, <1>12 DEF ReadInv, ReadTypes
<1>14. CursorsBehind'
  BY <1>1, <1>4, <1>11 DEF ReadInv, ClientInv, CursorsBehind
<1>15. ReaderComplete'
  <2> SUFFICES ASSUME NEW t \in Topics
               PROVE  read[t] = {o.id : o \in {p \in Rows' : p.topic = t /\ p.id <= cursor[t]}}
    BY <1>11 DEF ReaderComplete
  <2>1. cursor[t] \in Nat /\ row.id \in Nat
    BY <1>6 DEF ReadInv, ReadTypes, Row
  <2>2. ~(row.topic = t /\ row.id <= cursor[t])
    BY <1>11, <2>1
  <2>3. {p \in Rows' : p.topic = t /\ p.id <= cursor[t]}
          = {p \in Rows : p.topic = t /\ p.id <= cursor[t]}
    BY <1>9, <2>2
  <2> QED BY <2>3 DEF ReadInv, ClientInv, ReaderComplete
<1>16. IdsUnique'
  <2>1. \A n \in 1..Len(wal') : wal'[n].id >= 1
    BY <1>7, <1>8, <1>10 DEF ReadInv, PollerInv, IdsUnique
  <2>2. \A a, b \in 1..Len(wal') : wal'[a].id = wal'[b].id => a = b
    BY <1>7, <1>8, <1>10 DEF ReadInv, PollerInv, IdsUnique
  <2>3. ASSUME NEW q \in Requests, NEW j \in Indices(q), insert'[q][j].pc = "inserted"
        PROVE  insert'[q][j].id >= 1 /\ \A n \in 1..Len(wal') : wal'[n].id # insert'[q][j].id
    <3>1. insert'[q][j] = insert[q][j] /\ ~(q = r /\ j = i)
      BY <1>4, <2>3
    <3>2. insert[q][j].id # row.id
      BY <1>1, <1>6, <2>3, <3>1 DEF ReadInv, PollerInv, IdsUnique
    <3> QED BY <1>7, <1>8, <2>3, <3>1, <3>2 DEF ReadInv, PollerInv, IdsUnique
  <2>4. \A q, p \in Requests : \A j \in Indices(q), k \in Indices(p) :
          /\ insert'[q][j].pc = "inserted" /\ insert'[p][k].pc = "inserted"
          /\ insert'[q][j].id = insert'[p][k].id
          => q = p /\ j = k
    BY <1>4 DEF ReadInv, PollerInv, IdsUnique
  <2> QED BY <2>1, <2>2, <2>3, <2>4 DEF IdsUnique
<1>17. replica \in Nat /\ replica <= Len(wal)
  BY <1>7 DEF ReadInv, ReadTypes
<1>18. \A n \in 1..replica : n \in 1..Len(wal)
  BY <1>7, <1>17
<1>19. PollerStands'
  BY <1>7, <1>12, <1>18 DEF ReadInv, PollerInv, PollerStands
<1>20. PollerComplete'
  <2>1. ASSUME NEW n \in 1..replica PROVE wal'[n] = wal[n] /\ (Overtaken(n) => Overtaken(n)')
    <3>1. \A k \in 1..(n - 1) : k \in 1..Len(wal)
      BY <1>17
    <3> QED BY <1>7, <1>18, <3>1 DEF Overtaken
  <2> QED BY <1>12, <2>1 DEF ReadInv, PollerInv, PollerComplete, WasDispatched
<1> QED BY <1>13, <1>14, <1>15, <1>16, <1>19, <1>20 DEF ReadInv, ClientInv, PollerInv

\* The first k rows of the log, and the ids of a set of rows.
WalPrefix(k) == {wal[n] : n \in 1..k}
Ids(S) == {row.id : row \in S}

\* What a nonempty page has: its greatest id is a row's, and it is all of what was asked for
\* up to there.
LEMMA PageEnds ==
  ASSUME LogInv, NEW k \in 0..Len(wal), NEW S, S \subseteq WalPrefix(k),
         NEW n \in Nat, NEW page, page = FirstRows(S, n), page # {}
  PROVE  /\ page \subseteq S /\ IsFiniteSet(page)
         /\ \A row \in S : row.id \in Nat /\ row.id <= lastId
         /\ Ids(page) \subseteq Nat /\ Greatest(Ids(page)) \in Ids(page)
         /\ \A j \in Ids(page) : j <= Greatest(Ids(page))
         /\ \A row \in S : row.id <= Greatest(Ids(page)) => row \in page
<1>0. PICK ids : ids = Ids(page)
  OBVIOUS
<1>1. k \in Nat /\ \A j \in 1..k : j \in 1..Len(wal)
  BY RowTypes
<1>2. IsFiniteSet(S)
  BY <1>1, PrefixFinite DEF WalPrefix
<1>3. \A row \in S : \E j \in 1..Len(wal) : row = wal[j]
  BY <1>1 DEF WalPrefix
<1>4. \A row \in S : row.id \in Nat /\ row.id <= lastId
  BY <1>3, RowTypes
<1>5. /\ page \subseteq S /\ IsFiniteSet(page)
      /\ \A p \in page, o \in S : o.id <= p.id => o \in page
  BY <1>2, <1>4, FirstRowsClosed
<1>6. ids \subseteq Nat /\ ids # {} /\ \A j \in ids : j <= lastId
  BY <1>0, <1>4, <1>5 DEF Ids
<1>7. Greatest(ids) \in ids /\ \A j \in ids : j <= Greatest(ids)
  BY <1>6, GreatestNatural, RowTypes
<1>8. PICK p \in page : p.id = Greatest(ids)
  BY <1>0, <1>7 DEF Ids
<1> QED BY <1>0, <1>4, <1>5, <1>6, <1>7, <1>8

\* A query moves the cursor over rows it returns.
LEMMA ReadQuery ==
  ASSUME LogInv, ReadInv, NEW t \in Topics, Query(t)
  PROVE  ReadInv'
<1>1. PICK S : S = {row \in Rows : row.topic = t /\ row.id > cursor[t]}
  OBVIOUS
<1>2. PICK page : page = FirstRows(S, PageSize)
  OBVIOUS
<1>3. PICK ids : ids = Ids(page)
  OBVIOUS
<1>4. /\ page # {} /\ UNCHANGED <<kind, lastId, wal, insert, reply, pollVars>>
      /\ cursor' = [cursor EXCEPT ![t] = Greatest(ids)]
      /\ read' = [read EXCEPT ![t] = @ \cup ids]
  BY <1>1, <1>2, <1>3 DEF Query, QueryPage, Ids, dbVars, sendVars
<1>5. Len(wal) \in 0..Len(wal) /\ Rows = WalPrefix(Len(wal)) /\ PageSize \in Nat
  BY RowTypes, LogAssumption DEF Rows, WalPrefix
<1>6. /\ page \subseteq S
      /\ \A row \in S : row.id \in Nat /\ row.id <= lastId
      /\ ids \subseteq Nat /\ Greatest(ids) \in ids /\ \A j \in ids : j <= Greatest(ids)
      /\ \A row \in S : row.id <= Greatest(ids) => row \in page
  <2>1. S \subseteq WalPrefix(Len(wal))
    BY <1>1, <1>5
  <2> QED BY <1>2, <1>3, <1>4, <1>5, <2>1, PageEnds
<1> HIDE <1>2
<1>7. PICK g : g = Greatest(ids)
  OBVIOUS
<1>8. PICK top \in page : top.id = g
  BY <1>3, <1>6, <1>7 DEF Ids
<1>9. /\ top \in Rows /\ top.topic = t /\ top.id > cursor[t] /\ g \in Nat /\ g <= lastId
      /\ cursor[t] \in Nat
  BY <1>1, <1>6, <1>8 DEF ReadInv, ReadTypes
<1>10. /\ cursor \in [Topics -> Nat] /\ read \in [Topics -> SUBSET Nat]
       /\ cursor' \in [Topics -> Nat] /\ read' \in [Topics -> SUBSET Nat]
       /\ cursor'[t] = g /\ read'[t] = read[t] \cup ids
       /\ \A u \in Topics : u # t => cursor'[u] = cursor[u] /\ read'[u] = read[u]
  <2>1. cursor \in [Topics -> Nat] /\ read \in [Topics -> SUBSET Nat]
    BY DEF ReadInv, ReadTypes
  <2> QED BY <1>4, <1>6, <1>7, <1>9, <2>1
<1>11. ReadTypes'
  BY <1>4, <1>10 DEF ReadInv, ReadTypes, pollVars
<1>12. CursorsBehind'
  <2>1. \A u \in Topics : cursor'[u] <= lastId'
    BY <1>4, <1>9, <1>10 DEF ReadInv, ClientInv, CursorsBehind
  <2>2. ASSUME NEW q \in Requests, NEW j \in Indices(q), insert'[q][j].pc = "inserted"
        PROVE  cursor'[Messages[q][j].topic] < insert'[q][j].id
    <3>1. Messages[q][j].topic \in Topics
      BY MessageTypes DEF Message
    <3>2. CASE Messages[q][j].topic = t
      <4>1. PICK n \in 1..Len(wal) : wal[n] = top
        BY <1>9 DEF Rows
      <4>2. wal[n].id < insert[q][j].id
        BY <1>4, <1>9, <2>2, <3>2, <4>1 DEF LogInv, OrderInv, IdsAhead
      <4> QED BY <1>4, <1>8, <1>10, <3>2, <4>1, <4>2
    <3>3. CASE Messages[q][j].topic # t
      BY <1>4, <1>10, <2>2, <3>1, <3>3 DEF ReadInv, ClientInv, CursorsBehind
    <3> QED BY <3>2, <3>3
  <2> QED BY <2>1, <2>2 DEF CursorsBehind
<1>13. ReaderComplete'
  <2>0. Rows' = Rows
    BY <1>4 DEF Rows
  <2> SUFFICES ASSUME NEW u \in Topics
               PROVE  read'[u] = {o.id : o \in {p \in Rows : p.topic = u /\ p.id <= cursor'[u]}}
    BY <2>0 DEF ReaderComplete
  <2>1. read[u] = {o.id : o \in {p \in Rows : p.topic = u /\ p.id <= cursor[u]}}
    BY DEF ReadInv, ClientInv, ReaderComplete
  <2>2. CASE u # t
    BY <1>10, <2>1, <2>2
  <2>3. CASE u = t
    <3>0. \A p \in Rows : p.id \in Nat
      BY RowTypes DEF Rows
    <3>1. ASSUME NEW x \in ids PROVE \E p \in Rows : p.id = x /\ p.topic = t /\ p.id <= g
      <4>1. PICK p \in page : p.id = x
        BY <1>3, <3>1 DEF Ids
      <4>2. p \in S /\ p.id <= g
        BY <1>6, <1>7, <3>1, <4>1
      <4> QED BY <1>1, <4>1, <4>2
    <3>2. ASSUME NEW p \in Rows, p.topic = t, p.id <= g, ~(p.id <= cursor[t]) PROVE p.id \in ids
      <4>1. p \in S
        BY <1>1, <1>9, <3>0, <3>2
      <4> QED BY <1>3, <1>6, <1>7, <3>2, <4>1 DEF Ids
    <3>3. PICK old : old = {p \in Rows : p.topic = t /\ p.id <= cursor[t]}
      OBVIOUS
    <3>4. PICK new : new = {p \in Rows : p.topic = t /\ p.id <= g}
      OBVIOUS
    <3>5. read[t] = {o.id : o \in old}
      BY <2>1, <2>3, <3>3
    <3>6. ASSUME NEW x \in read[t] \cup ids PROVE x \in {o.id : o \in new}
      <4>1. ASSUME x \in read[t]
            PROVE  \E p \in Rows : p.id = x /\ p.topic = t /\ p.id <= g
        <5>1. PICK p \in old : p.id = x
          BY <3>5, <4>1
        <5>2. p \in Rows /\ p.topic = t /\ p.id <= cursor[t] /\ p.id \in Nat
          BY <3>0, <3>3
        <5>3. p.id <= g
          BY <1>8, <1>9, <5>2
        <5> QED BY <5>1, <5>2, <5>3
      <4>2. PICK p \in Rows : p.id = x /\ p.topic = t /\ p.id <= g
        BY <3>1, <3>6, <4>1
      <4> QED BY <3>4, <4>2
    <3>7. ASSUME NEW x \in {o.id : o \in new} PROVE x \in read[t] \cup ids
      <4>1. PICK p \in Rows : p.id = x /\ p.topic = t /\ p.id <= g
        BY <3>4, <3>7
      <4>2. CASE p.id <= cursor[t]
        BY <3>3, <3>5, <4>1, <4>2
      <4>3. CASE ~(p.id <= cursor[t])
        BY <3>2, <4>1, <4>3
      <4> QED BY <4>2, <4>3
    <3>8. read[t] \cup ids = {o.id : o \in new}
      BY <3>6, <3>7
    <3> QED BY <1>10, <2>3, <3>4, <3>8
  <2> QED BY <2>2, <2>3
<1>14. IdsUnique'
  BY <1>4 DEF ReadInv, PollerInv, IdsUnique
<1>15. PollerStands' /\ PollerComplete'
  BY <1>4 DEF ReadInv, PollerInv, PollerStands, PollerComplete, WasDispatched, Overtaken, pollVars
<1> QED BY <1>11, <1>12, <1>13, <1>14, <1>15 DEF ReadInv, ClientInv, PollerInv

\* A row the poller has passed before it reached the replica came after the row it stands on.
LEMMA ReadReplicate ==
  ASSUME LogInv, ReadInv, Replicate
  PROVE  ReadInv'
<1>1. /\ replica < Len(wal) /\ replica' = replica + 1
      /\ UNCHANGED <<kind, lastId, wal, insert, reply, polled, dispatched, readVars>>
  BY DEF Replicate, dbVars, sendVars
<1>2. /\ replica \in Nat /\ Len(wal) \in Nat /\ replica + 1 \in 1..Len(wal) /\ polled \in Nat
      /\ \A n \in 1..(replica + 1) : n \in 1..replica \/ n = replica + 1
      /\ \A n \in 1..replica : n \in 1..(replica + 1) /\ n \in 1..Len(wal)
  BY <1>1, RowTypes DEF ReadInv, ReadTypes
<1>3. ReadTypes'
  BY <1>1, <1>2 DEF ReadInv, ReadTypes, readVars
<1>4. ClientInv'
  BY <1>1 DEF ReadInv, ClientInv, CursorsBehind, ReaderComplete, Rows, readVars
<1>5. IdsUnique'
  BY <1>1 DEF ReadInv, PollerInv, IdsUnique
<1>6. PollerStands'
  BY <1>1, <1>2 DEF ReadInv, PollerInv, PollerStands
<1>7. ASSUME wal[replica + 1].id <= polled PROVE Overtaken(replica + 1)
  <2>1. wal[replica + 1].id \in Nat /\ wal[replica + 1].id >= 1
    BY <1>2, RowTypes DEF ReadInv, PollerInv, IdsUnique
  <2>2. PICK m \in 1..replica : wal[m].id = polled
    BY <1>2, <1>7, <2>1 DEF ReadInv, PollerInv, PollerStands
  <2>3. wal[m].id # wal[replica + 1].id
    BY <1>2, <2>2 DEF ReadInv, PollerInv, IdsUnique
  <2>4. wal[m].id > wal[replica + 1].id
    BY <1>2, <1>7, <2>1, <2>2, <2>3
  <2>5. m \in 1..((replica + 1) - 1)
    BY <1>2
  <2> QED BY <2>4, <2>5 DEF Overtaken
<1>8. \A n \in 1..replica' : wal'[n].id <= polled' =>
        (\E k \in 1..Len(dispatched') : dispatched'[k] = wal'[n].id) \/ Overtaken(n)'
  BY <1>1, <1>2, <1>7 DEF ReadInv, PollerInv, PollerComplete, WasDispatched, Overtaken
<1>9. PollerComplete'
  BY <1>1, <1>8 DEF ReadInv, PollerInv, PollerComplete, WasDispatched
<1> QED BY <1>3, <1>4, <1>5, <1>6, <1>9 DEF ReadInv, PollerInv

\* The two parts of a concatenation.
LEMMA ConcatParts ==
  ASSUME NEW u \in Seq(Nat), NEW v \in Seq(Nat)
  PROVE  /\ u \o v \in Seq(Nat) /\ Len(u \o v) = Len(u) + Len(v) /\ Len(u) \in Nat
         /\ \A n \in 1..Len(u) : (u \o v)[n] = u[n]
         /\ \A n \in 1..Len(v) : (u \o v)[Len(u) + n] = v[n]
OBVIOUS

\* A poll hands out the whole page, in order, above everything it handed out before.
LEMMA ReadPoll ==
  ASSUME LogInv, ReadInv, Poll
  PROVE  ReadInv'
<1>1. PICK S : S = {row \in OnReplica : row.id > polled}
  OBVIOUS
<1>2. PICK page : page = FirstRows(S, NumRows)
  OBVIOUS
<1>3. PICK ids : ids = Ids(page)
  OBVIOUS
<1>4. PICK asc : asc = Ascending(page)
  OBVIOUS
<1>5. PICK c : c = Cardinality(page)
  OBVIOUS
<1>6. /\ page # {} /\ UNCHANGED <<kind, lastId, wal, insert, reply, replica, readVars>>
      /\ dispatched' = dispatched \o asc
      /\ polled' = Greatest(ids)
  BY <1>1, <1>2, <1>3, <1>4 DEF Poll, NextId, Ids, dbVars, sendVars
<1>7. /\ replica \in 0..Len(wal) /\ OnReplica = WalPrefix(replica) /\ NumRows \in Nat
      /\ polled \in Nat /\ dispatched \in Seq(Nat) /\ Len(wal) \in Nat
  BY RowTypes, LogAssumption DEF OnReplica, WalPrefix, ReadInv, ReadTypes
<1>8. /\ page \subseteq S /\ IsFiniteSet(page)
      /\ \A row \in S : row.id \in Nat /\ row.id <= lastId
      /\ ids \subseteq Nat /\ Greatest(ids) \in ids /\ \A j \in ids : j <= Greatest(ids)
      /\ \A row \in S : row.id <= Greatest(ids) => row \in page
  <2>1. S \subseteq WalPrefix(replica)
    BY <1>1, <1>7
  <2> QED BY <1>2, <1>3, <1>6, <1>7, <2>1, PageEnds
<1>9. \A n \in 1..replica : n \in 1..Len(wal)
  BY <1>7
<1>10. DistinctIds(page)
  <2>1. \A row \in page : \E n \in 1..Len(wal) : row = wal[n]
    BY <1>1, <1>7, <1>8, <1>9 DEF WalPrefix
  <2> QED BY <2>1 DEF DistinctIds, ReadInv, PollerInv, IdsUnique
<1>11. /\ asc \in Seq(Nat) /\ Len(asc) = c /\ c \in Nat
       /\ \A n \in 1..c : \E row \in page : asc[n] = row.id
       /\ \A row \in page : \E n \in 1..c : asc[n] = row.id
       /\ \A m, n \in 1..c : m < n => asc[m] < asc[n]
  <2>1. \A row \in page : row.id \in Nat /\ row.id <= lastId
    BY <1>8
  <2> QED BY <1>4, <1>5, <1>8, <1>10, <2>1, AscendingLists, RowTypes, FS_CardinalityType
<1> HIDE <1>2, <1>4, <1>5
<1>12. polled' \in Nat /\ polled < polled' /\ \E row \in page : row.id = polled'
  <2>1. PICK row \in page : row.id = polled'
    BY <1>3, <1>6, <1>8 DEF Ids
  <2> QED BY <1>1, <1>7, <1>8, <2>1
<1>13. PICK d : d = Len(dispatched)
  OBVIOUS
<1>14. /\ dispatched' \in Seq(Nat) /\ Len(dispatched') = d + c /\ d \in Nat
       /\ \A n \in 1..d : dispatched'[n] = dispatched[n]
       /\ \A n \in 1..c : dispatched'[d + n] = asc[n]
  <2>1. dispatched \in Seq(Nat) /\ asc \in Seq(Nat) /\ Len(asc) = c
        /\ dispatched' = dispatched \o asc
    BY <1>6, <1>7, <1>11
  <2> QED BY <1>13, <2>1, ConcatParts
<1>15. \A n \in 1..(d + c) : n \in 1..d \/ (n - d \in 1..c /\ n = d + (n - d))
  BY <1>11, <1>14
<1>16. \A n \in 1..c : asc[n] \in Nat /\ polled < asc[n] /\ asc[n] <= polled'
  <2>1. ASSUME NEW n \in 1..c PROVE asc[n] \in Nat /\ polled < asc[n] /\ asc[n] <= polled'
    <3>1. PICK row \in page : asc[n] = row.id
      BY <1>11
    <3>2. row.id \in ids
      BY <1>3 DEF Ids
    <3> QED BY <1>1, <1>6, <1>8, <3>1, <3>2
  <2> QED BY <2>1
<1>17. \A n \in 1..d : dispatched[n] \in Nat /\ dispatched[n] <= polled
  BY <1>7, <1>13 DEF ReadInv, PollerInv, PollerStands
<1>18. ReadTypes'
  BY <1>6, <1>12, <1>14 DEF ReadInv, ReadTypes, readVars
<1>19. ClientInv'
  BY <1>6 DEF ReadInv, ClientInv, CursorsBehind, ReaderComplete, Rows, readVars
<1>20. IdsUnique'
  BY <1>6 DEF ReadInv, PollerInv, IdsUnique
<1>21. PollerStands'
  <2>1. \E m \in 1..replica : wal[m].id = polled'
    BY <1>1, <1>7, <1>8, <1>12 DEF WalPrefix
  <2>2. ASSUME NEW n \in 1..(d + c) PROVE dispatched'[n] <= polled'
    <3>1. CASE n \in 1..d
      <4>1. dispatched'[n] = dispatched[n] /\ dispatched[n] \in Nat /\ dispatched[n] <= polled
        BY <1>14, <1>17, <3>1
      <4>2. polled \in Nat /\ polled' \in Nat /\ polled < polled'
        BY <1>7, <1>12
      <4> QED BY <4>1, <4>2
    <3>2. CASE n - d \in 1..c /\ n = d + (n - d)
      <4>1. dispatched'[n] = asc[n - d]
        BY <1>14, <3>2
      <4> QED BY <1>16, <3>2, <4>1
    <3> QED BY <1>15, <3>1, <3>2
  <2> QED BY <1>6, <1>14, <2>1, <2>2 DEF PollerStands
<1>22. ASSUME NEW n \in 1..replica, wal[n].id <= polled'
       PROVE  (\E k \in 1..(d + c) : dispatched'[k] = wal[n].id) \/ Overtaken(n)
  <2>0. wal[n].id \in Nat
    BY <1>9, RowTypes
  <2>1. CASE wal[n].id <= polled
    <3>1. (\E k \in 1..d : dispatched[k] = wal[n].id) \/ Overtaken(n)
      BY <1>13, <2>1 DEF ReadInv, PollerInv, PollerComplete, WasDispatched
    <3>2. \A k \in 1..d : k \in 1..(d + c)
      BY <1>11, <1>14
    <3> QED BY <1>14, <3>1, <3>2
  <2>2. CASE ~(wal[n].id <= polled)
    <3>1. wal[n] \in S
      BY <1>1, <1>7, <2>0, <2>2 DEF WalPrefix
    <3>2. wal[n] \in page
      BY <1>6, <1>8, <1>22, <3>1
    <3>3. PICK k \in 1..c : asc[k] = wal[n].id
      BY <1>11, <3>2
    <3>4. d + k \in 1..(d + c)
      BY <1>11, <1>14
    <3> QED BY <1>14, <3>3, <3>4
  <2> QED BY <2>1, <2>2
<1>23. ASSUME NEW a \in 1..(d + c), NEW b \in 1..(d + c), a < b
       PROVE  dispatched'[a] < dispatched'[b]
  <2>1. CASE b \in 1..d
    <3>1. a \in 1..d
      BY <1>14, <1>23, <2>1
    <3> QED BY <1>13, <1>14, <1>23, <2>1, <3>1 DEF ReadInv, PollerInv, PollerComplete
  <2>2. CASE b - d \in 1..c /\ b = d + (b - d)
    <3>1. CASE a \in 1..d
      <4>1. dispatched'[a] = dispatched[a] /\ dispatched'[b] = asc[b - d]
        BY <1>14, <2>2, <3>1
      <4> QED BY <1>7, <1>16, <1>17, <2>2, <3>1, <4>1
    <3>2. CASE a - d \in 1..c /\ a = d + (a - d)
      <4>1. dispatched'[a] = asc[a - d] /\ dispatched'[b] = asc[b - d]
        BY <1>14, <2>2, <3>2
      <4>2. a - d < b - d
        BY <1>11, <1>14, <1>23
      <4> QED BY <1>11, <2>2, <3>2, <4>1, <4>2
    <3> QED BY <1>15, <3>1, <3>2
  <2> QED BY <1>15, <2>1, <2>2
<1>24. PollerComplete'
  <2>1. \A n : Overtaken(n)' <=> Overtaken(n)
    BY <1>6 DEF Overtaken
  <2>2. \A n \in 1..replica' : wal'[n].id <= polled' =>
          (\E k \in 1..Len(dispatched') : dispatched'[k] = wal'[n].id) \/ Overtaken(n)'
    BY <1>6, <1>14, <1>22, <2>1
  <2> QED BY <1>14, <1>23, <2>2 DEF PollerComplete, WasDispatched
<1> QED BY <1>18, <1>19, <1>20, <1>21, <1>24 DEF ReadInv, PollerInv

\* Every step keeps the readers' invariant.
LEMMA ReadNext == LogInv /\ ReadInv /\ [Next]_vars => ReadInv'
<1> SUFFICES ASSUME LogInv, ReadInv, [Next]_vars PROVE ReadInv'
  OBVIOUS
<1>0. reply \in [Requests -> {"none", "ok", "error"}]
  BY DEF ReadInv, ReadTypes
<1>1. CASE UNCHANGED vars \/ Quiet
  <2>1. UNCHANGED <<kind, lastId, wal, insert, reply, pollVars, readVars>>
    BY <1>1 DEF Quiet, vars, dbVars, sendVars
  <2> QED BY <1>0, <2>1, ReadUntouched
<1>2. ASSUME NEW r \in Requests, NEW i \in Indices(r), Lock(r, i) \/ Fail(r, i) PROVE ReadInv'
  <2>1. PICK pc \in {"locked", "failed"} : insert' = [insert EXCEPT ![r][i].pc = pc]
    BY <1>2 DEF Lock, Fail
  <2>2. \A q \in Requests : \A j \in Indices(q) :
          insert'[q][j].pc = "inserted" => insert'[q][j] = insert[q][j]
    <3>1. LogTypes
      BY DEF LogInv, OrderInv
    <3> QED BY <2>1, <3>1 DEF LogTypes, InsertState
  <2>3. UNCHANGED <<kind, lastId, wal, reply, pollVars, readVars>>
    BY <1>2 DEF Lock, Fail, dbVars
  <2> QED BY <1>0, <2>2, <2>3, ReadUntouched
<1>3. ASSUME NEW r \in Requests, Return(r) \/ Refuse(r) PROVE ReadInv'
  <2>1. UNCHANGED <<kind, lastId, wal, insert, pollVars, readVars>>
    BY <1>3 DEF Return, Refuse, dbVars
  <2>2. reply' \in [Requests -> {"none", "ok", "error"}]
    BY <1>0, <1>3 DEF Return, Refuse, Outcome
  <2> QED BY <2>1, <2>2, ReadUntouched
<1> QED BY <1>1, <1>2, <1>3, ReadInsert, ReadCommit, ReadReplicate, ReadPoll, ReadQuery DEF Next

\* LogInv and ReadInv hold together.
LEMMA LogAndReaders == Spec => [](LogInv /\ ReadInv)
BY LogInit, LogNext, ReadInit, ReadNext, PTL DEF Spec

\* A client that pages a topic by its cursor misses no row below it, for any topics, calls and
\* page size: the lock keeps rows from appearing behind a cursor (store.go:296-390,
\* readStore.go:226-337, 583-639).
THEOREM ReadersMissNothing == Spec => []ReaderComplete
<1>1. ReadInv => ReaderComplete
  BY DEF ReadInv, ClientInv
<1> QED BY <1>1, LogAndReaders, PTL

\* The poller hands every row it passes to the dispatcher once and in id order, but for a row
\* that a row with a greater id overtook (worker.go:88-145).
THEOREM PollerLeavesOnlyOvertaken == Spec => []PollerComplete
<1>1. ReadInv => PollerComplete
  BY DEF ReadInv, PollerInv
<1> QED BY <1>1, LogAndReaders, PTL

\* Every structure of the log, its calls and its readers keeps its shape.
THEOREM LogTypeCorrect == Spec => []TypeOK
<1>1. ASSUME LogInv, ReadInv PROVE TypeOK
  <2>1. \A r \in Requests : Indices(r) = 1..Len(Messages[r])
    BY DEF Indices
  <2>2. polled \in 0..lastId
    BY <1>1, RowTypes DEF ReadInv, ReadTypes, PollerInv, PollerStands
  <2>3. \A t \in Topics : cursor[t] \in 0..lastId
    BY <1>1, RowTypes DEF ReadInv, ReadTypes, ClientInv, CursorsBehind
  <2> QED BY <1>1, <2>1, <2>2, <2>3 DEF TypeOK, LogInv, OrderInv, LogTypes, ReadInv, ReadTypes
<1> QED BY <1>1, LogAndReaders, PTL
=============================================================================
