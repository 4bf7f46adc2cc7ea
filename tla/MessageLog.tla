----------------------------- MODULE MessageLog -----------------------------
(***************************************************************************)
(* Publishing into a message table and reading it back: SendGroupMessages, *)
(* SendWelcomeMessages and BatchPublishCommitLog (pkg/mls/api/v1/          *)
(* service.go), the insert functions of the migrations with their advisory *)
(* lock, unique index and serial id, the poller that feeds the dispatcher  *)
(* (worker.go) and a client that pages a topic upwards                     *)
(* (QueryGroupMessagesV1, QueryCommitLog).                                 *)
(*                                                                         *)
(* A behaviour is about one table, of groups, of welcomes or the commit    *)
(* log, which has no unique index and no poller.  A row becomes visible    *)
(* when its transaction commits; wal is the order of the commits, and the  *)
(* replica shows a prefix of it.  Ids come from the table's sequence when  *)
(* the row is inserted, which is earlier.                                  *)
(***************************************************************************)
EXTENDS Integers, Sequences, FiniteSets

CONSTANTS
  Topics,    \* the groups, or the installations
  Data,      \* what messages carry; the data hash of a message stands for it
  Requests,  \* the calls clients make; a retry is a call of its own
  Messages,  \* Messages[r]: the sequence of [topic, data] of call r
  NumRows,   \* rows the poller asks for
  PageSize   \* rows a client's query returns

Message == [topic: Topics, data: Data]

ASSUME LogAssumption ==
  /\ Messages \in [Requests -> Seq(Message)]
  /\ NumRows \in Nat \ {0} /\ PageSize \in Nat \ {0}

Kinds == {"group", "welcome", "commit_log"}

VARIABLES
  kind,        \* whose table it is; it never changes
  lastId,      \* the sequence of the id column
  wal,         \* the committed rows, in the order they became visible
  insert,      \* insert[r][i]: how far the i-th message of r is, and the id it was given
  reply,       \* what call r returned, "none" while it runs
  replica,     \* how much of wal the replica has applied
  polled,      \* currentID of the poller
  dispatched,  \* ghost: the ids it handed to the dispatcher, in order
  cursor, read \* the client's cursor on a topic, and the ids it has read there

dbVars == <<lastId, wal>>
sendVars == <<insert, reply>>
pollVars == <<replica, polled, dispatched>>
readVars == <<cursor, read>>
vars == <<kind, dbVars, sendVars, pollVars, readVars>>

Row == [id: Nat, topic: Topics, data: Data]
InsertState == [pc: {"todo", "locked", "inserted", "done", "failed"}, id: Nat]

\* Every structure has its shape, nothing is visible on the replica that is not committed,
\* and no cursor is ahead of the sequence.
TypeOK ==
  /\ kind \in Kinds
  /\ lastId \in Nat
  /\ wal \in Seq(Row)
  /\ DOMAIN insert = Requests
  /\ \A r \in Requests : insert[r] \in [1..Len(Messages[r]) -> InsertState]
  /\ reply \in [Requests -> {"none", "ok", "error"}]
  /\ replica \in 0..Len(wal) /\ polled \in 0..lastId /\ dispatched \in Seq(Nat)
  /\ cursor \in [Topics -> 0..lastId] /\ read \in [Topics -> SUBSET Nat]

Indices(r) == 1..Len(Messages[r])
Rows == {wal[n] : n \in 1..Len(wal)}
OnReplica == {wal[n] : n \in 1..replica}

Greatest(S) == CHOOSE i \in S : \A j \in S : j <= i

\* The first n rows of S in id order.
FirstRows(S, n) == {row \in S : Cardinality({o \in S : o.id <= row.id}) <= n}

Init ==
  /\ kind \in Kinds
  /\ lastId = 0 /\ wal = <<>>
  /\ insert = [r \in Requests |-> [i \in Indices(r) |-> [pc |-> "todo", id |-> 0]]]
  /\ reply = [r \in Requests |-> "none"]
  /\ replica = 0 /\ polled = 0 /\ dispatched = <<>>
  /\ cursor = [t \in Topics |-> 0] /\ read = [t \in Topics |-> {}]

-----------------------------------------------------------------------------
(* Publishing.                                                             *)

\* SendGroupMessages and BatchPublishCommitLog insert in order and stop at the first error;
\* SendWelcomeMessages runs one goroutine per message.
Turn(r, i) ==
  kind = "welcome" \/ \A j \in 1..(i - 1) : insert[r][j].pc = "done"

InTx(r, i) == insert[r][i].pc \in {"locked", "inserted"}

\* Mutant of Unlocked: the insert function takes no advisory lock.
UnlockedAlways(t) == TRUE

\* Mutant of Unlocked: the lock is released when the row is in, before the commit.
UnlockedByInsert(t) ==
  \A r \in Requests : \A i \in Indices(r) :
     insert[r][i].pc = "locked" => Messages[r][i].topic # t

\* The advisory lock of the topic, held to the end of the transaction, is free.
Unlocked(t) ==
  \A r \in Requests : \A i \in Indices(r) : InTx(r, i) => Messages[r][i].topic # t

\* The insert function takes the topic's advisory lock.
Lock(r, i) ==
  /\ reply[r] = "none" /\ insert[r][i].pc = "todo" /\ Turn(r, i)
  /\ Unlocked(Messages[r][i].topic)
  /\ insert' = [insert EXCEPT ![r][i].pc = "locked"]
  /\ UNCHANGED <<kind, dbVars, reply, pollVars, readVars>>

\* The table has a unique index on the data hash; the commit log has none.
Indexed == kind # "commit_log"

\* Mutant of Duplicate: no unique index on the hash.
DuplicateNever(m) == FALSE

\* The unique index has the message.
Duplicate(m) ==
  Indexed /\ \E row \in Rows : row.topic = m.topic /\ row.data = m.data

\* The unique index makes an insert wait for the same message in another transaction.
Contested(m) ==
  Indexed /\ \E r \in Requests : \E i \in Indices(r) :
     insert[r][i].pc = "inserted" /\ Messages[r][i] = m

\* The INSERT: it takes an id, then meets the unique index.  A duplicate aborts the
\* transaction, and the message counts as sent.
Insert(r, i) ==
  /\ insert[r][i].pc = "locked" /\ ~Contested(Messages[r][i])
  /\ lastId' = lastId + 1
  /\ insert' = [insert EXCEPT ![r][i] =
                  [pc |-> IF Duplicate(Messages[r][i]) THEN "done" ELSE "inserted",
                   id |-> lastId + 1]]
  /\ UNCHANGED <<kind, wal, reply, pollVars, readVars>>

\* The commit: the row is visible and the lock free.  The caller may not learn of it (the
\* connection broke): then the message counts as failed.
Commit(r, i) ==
  /\ insert[r][i].pc = "inserted"
  /\ wal' = Append(wal, [id |-> insert[r][i].id, topic |-> Messages[r][i].topic,
                         data |-> Messages[r][i].data])
  /\ \E pc \in {"done", "failed"} : insert' = [insert EXCEPT ![r][i].pc = pc]
  /\ UNCHANGED <<kind, lastId, reply, pollVars, readVars>>

\* The message is refused (requireReadyToSend, a bad group id, no version), the insert
\* fails, or the call is cancelled; the transaction rolls back.
Fail(r, i) ==
  /\ reply[r] = "none" /\ Turn(r, i)
  /\ insert[r][i].pc \in {"todo", "locked", "inserted"}
  /\ insert' = [insert EXCEPT ![r][i].pc = "failed"]
  /\ UNCHANGED <<kind, dbVars, reply, pollVars, readVars>>

AllDone(r) == \A i \in Indices(r) : insert[r][i].pc = "done"

\* SendWelcomeMessages returns when g.Wait does, the others at the first error.
Finished(r) ==
  IF kind = "welcome"
  THEN \A i \in Indices(r) : insert[r][i].pc \in {"done", "failed"}
  ELSE AllDone(r) \/ \E i \in Indices(r) : insert[r][i].pc = "failed"

Outcome(r) == IF AllDone(r) THEN "ok" ELSE "error"

Return(r) ==
  /\ reply[r] = "none" /\ Finished(r)
  /\ reply' = [reply EXCEPT ![r] = Outcome(r)]
  /\ UNCHANGED <<kind, dbVars, insert, pollVars, readVars>>

\* The call is refused before any insert: publishing is disabled after the cutover, the
\* request or a message of it is invalid.
Refuse(r) ==
  /\ reply[r] = "none" /\ \A i \in Indices(r) : insert[r][i].pc = "todo"
  /\ reply' = [reply EXCEPT ![r] = "error"]
  /\ UNCHANGED <<kind, dbVars, insert, pollVars, readVars>>

-----------------------------------------------------------------------------
(* Reading.                                                                *)

\* The replica applies the next commit.
Replicate ==
  /\ kind # "commit_log" /\ replica < Len(wal)
  /\ replica' = replica + 1
  /\ UNCHANGED <<kind, dbVars, sendVars, polled, dispatched, readVars>>

\* The ids of a set of rows, ascending.
Ascending(S) ==
  [n \in 1..Cardinality(S) |->
     CHOOSE i \in {row.id : row \in S} :
        Cardinality({row \in S : row.id <= i}) = n]

\* Mutant of NextId: the cursor moves by the rows it was given.
NextIdByCount(page) == polled + Cardinality(page)

\* The id of the last row of the page.
NextId(page) == Greatest({row.id : row \in page})

\* A tick of the poller: the next rows of the whole table go to the dispatcher.
Poll ==
  /\ LET page == FirstRows({row \in OnReplica : row.id > polled}, NumRows)
     IN  /\ page # {}
         /\ dispatched' = dispatched \o Ascending(page)
         /\ polled' = NextId(page)
  /\ UNCHANGED <<kind, dbVars, sendVars, replica, readVars>>

\* The page of a topic above the client's cursor.
QueryPage(t) == FirstRows({row \in Rows : row.topic = t /\ row.id > cursor[t]}, PageSize)

\* A client pages a topic upwards on the primary.
Query(t) ==
  /\ LET page == QueryPage(t)
         ids == {row.id : row \in page}
     IN  /\ page # {}
         /\ cursor' = [cursor EXCEPT ![t] = Greatest(ids)]
         /\ read' = [read EXCEPT ![t] = @ \cup ids]
  /\ UNCHANGED <<kind, dbVars, sendVars, pollVars>>

\* Every call returned and every reader has caught up.
Quiet ==
  /\ \A r \in Requests : reply[r] # "none"
  /\ UNCHANGED vars

Next ==
  \/ \E r \in Requests : \E i \in Indices(r) :
       Lock(r, i) \/ Insert(r, i) \/ Commit(r, i) \/ Fail(r, i)
  \/ \E r \in Requests : Return(r) \/ Refuse(r)
  \/ Replicate
  \/ Poll
  \/ \E t \in Topics : Query(t)
  \/ Quiet

Spec == Init /\ [][Next]_vars

-----------------------------------------------------------------------------
(* Properties.                                                             *)

\* "Ensures that the generated sequence ID matches the insertion order": within a topic
\* rows become visible in the order of their ids, whatever transactions overlap.
TopicOrder ==
  \A m, n \in 1..Len(wal) : m < n /\ wal[m].topic = wal[n].topic => wal[m].id < wal[n].id

\* A client that pages a topic by its cursor has every row up to it: no row of the topic
\* ever appears behind a cursor.
ReaderComplete ==
  \A t \in Topics :
    read[t] = {row.id : row \in {o \in Rows : o.topic = t /\ o.id <= cursor[t]}}

Stored(m) == \E row \in Rows : row.topic = m.topic /\ row.data = m.data

\* A message is stored at most once however often it is sent (but not an entry of the commit
\* log), and a call that returned OK has stored all that it carries.
StoredOnce ==
  /\ \A m, n \in 1..Len(wal) :
       Indexed /\ wal[m].topic = wal[n].topic /\ wal[m].data = wal[n].data => m = n
  /\ \A r \in Requests : reply[r] = "ok" =>
       \A i \in Indices(r) : Stored(Messages[r][i])

\* The poller leaves a row behind only when a row with a greater id became visible before
\* it (which TopicOrder confines to rows of other topics): every other row it passed was
\* handed to the dispatcher, once, in id order.
Overtaken(n) == \E m \in 1..(n - 1) : wal[m].id > wal[n].id
WasDispatched(i) == \E n \in 1..Len(dispatched) : dispatched[n] = i
PollerComplete ==
  /\ \A n \in 1..replica :
       wal[n].id <= polled => WasDispatched(wal[n].id) \/ Overtaken(n)
  /\ \A m, n \in 1..Len(dispatched) : m < n => dispatched[m] < dispatched[n]
=============================================================================
