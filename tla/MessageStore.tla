---------------------------- MODULE MessageStore ----------------------------
(***************************************************************************)
(* The message table of the v1 API (pkg/store): what InsertMessage and the *)
(* cleaner make of it, and the page a query reads, which is ordered by     *)
(* (senderTimestamp, id) and continued from a cursor of the two.           *)
(***************************************************************************)
EXTENDS Integers, Sequences, FiniteSets, SequencesExt

CONSTANTS
  MessageRows,  \* the rows there may be: time, id, topic, and whether it is old and may expire
  MaxPageSize,
  CleanerBatch, \* rows the cleaner deletes at once
  NoCursor

ASSUME MessageStoreAssumption ==
  /\ \A r \in MessageRows : r.time \in Nat /\ r.id \in Nat /\ r.expired \in BOOLEAN
  /\ \A r, q \in MessageRows : r.id = q.id => r.topic = q.topic
  /\ MaxPageSize \in Nat \ {0} /\ CleanerBatch \in Nat \ {0}
  /\ NoCursor \notin [time: Nat, id: Nat]

VARIABLE message

\* The primary key is (senderTimestamp, id, pubsubTopic), and the id is the digest of the
\* topic and the payload.
KeysDiffer(rows) == \A r, s \in rows : r.time = s.time /\ r.id = s.id => r = s

\* INSERT INTO message: a message that is there already is no error.
Inserted(row) ==
  IF \E r \in message : r.time = row.time /\ r.id = row.id THEN message ELSE message \cup {row}

\* deleteNonXMTPMessagesBatch: nothing below a full batch, then any full batch.
Cleanable ==
  LET expired == {r \in message : r.expired}
  IN  {S \in SUBSET expired : Cardinality(S) = CleanerBatch}

-----------------------------------------------------------------------------
(* A query: [topics, start, end, direction, limit], and where it goes on.  *)

\* buildSqlQueryWithoutCursor; a bound of 0 is none.
Matching(q) ==
  {r \in message :
     /\ r.topic \in q.topics
     /\ q.start # 0 => r.time >= q.start
     /\ q.end # 0 => r.time <= q.end}

Precedes(r, s) == r.time < s.time \/ (r.time = s.time /\ r.id < s.id)

\* getDirection: descending unless the query says ascending.
InOrder(q, r, s) == IF q.direction = "ascending" THEN Precedes(r, s) ELSE Precedes(s, r)

\* Mutant of Beyond: the second half of the union, rows of the cursor's time, is left out.
BeyondTime(q, cursor, r) ==
  \/ cursor = NoCursor
  \/ IF q.direction = "ascending" THEN r.time > cursor.time ELSE r.time < cursor.time

\* The two halves of the union; a cursor of time 0 compares the ids alone.
Beyond(q, cursor, r) ==
  \/ cursor = NoCursor
  \/ cursor # NoCursor /\ cursor.time # 0 /\ InOrder(q, cursor, r)
  \/ /\ cursor # NoCursor /\ cursor.time = 0
     /\ IF q.direction = "ascending" THEN r.id > cursor.id ELSE r.id < cursor.id

PageSize(limit) == IF limit = 0 THEN MaxPageSize ELSE limit

Least(m, n) == IF m < n THEN m ELSE n

\* The rows of a page: of the rows that follow, the first ones of ORDER BY and LIMIT.  There
\* is one such set, since no two rows have one key.
Pages(q, cursor, limit) ==
  LET following == {r \in Matching(q) : Beyond(q, cursor, r)}
  IN  {page \in SUBSET following :
         /\ Cardinality(page) = Least(PageSize(limit), Cardinality(following))
         /\ \A r \in page, s \in following \ page : InOrder(q, r, s)}

\* buildPagingInfo: a short page is the last one; the cursor is the last row's.
NextCursors(q, page, limit) ==
  IF Cardinality(page) < PageSize(limit) THEN {NoCursor}
  ELSE {[time |-> r.time, id |-> r.id] :
          r \in {r \in page : \A s \in page \ {r} : InOrder(q, s, r)}}
NextLimit(limit) == Least(PageSize(limit), MaxPageSize)
=============================================================================
