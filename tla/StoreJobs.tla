------------------------------ MODULE StoreJobs ------------------------------
(***************************************************************************)
(* The jobs that work on the tables of the MLS store behind the service's  *)
(* back: the is_commit backfiller of each node, which classifies group     *)
(* messages stored before the column existed; the prune executors, which   *)
(* delete old rows, and of the group messages only those classified as no  *)
(* commit; and the shutdown of a node, which closes the database before it *)
(* cancels the backfiller and waits for it.                                *)
(*                                                                         *)
(* A transaction's writes are visible from its commit; the rows it has     *)
(* locked (FOR UPDATE) are passed over by the others (SKIP LOCKED).        *)
(***************************************************************************)
EXTENDS Integers, FiniteSets, FiniteSetsExt

CONSTANTS
  Nodes,          \* each runs one backfiller
  Executors,      \* runs of cmd/prune, which may overlap
  Tables,         \* the tables that are pruned
  Rows,           \* Rows[t]: the ids of a table's rows
  Old,            \* Old[t]: those past the lifetime of t
  Owner,          \* Owner[t][r]: the installation of a key package; of another row, itself
  Commits,        \* the group messages that are commits
  Unclassified,   \* those whose is_commit is NULL at first
  Scenarios,      \* the nodes that run, the executors and their flags, the messages' sizes
  MaxPayload,     \* maxPayloadSize
  SelectLimit,    \* rows of a backfill batch
  BatchSize, MaxCycles

Group == "group_messages"
\* created_at of the other tables is a BIGINT: counting them by an interval is an error.
Countable == {Group, "welcome_messages"}

ASSUME StoreJobsAssumption ==
  /\ Group \in Tables
  /\ Tables \subseteq {Group, "welcome_messages", "installations", "key_packages"}
  /\ Rows \in [Tables -> SUBSET Nat]
  /\ \A t \in Tables : IsFiniteSet(Rows[t]) /\ Old[t] \subseteq Rows[t]
  /\ \A t \in Tables : \A r \in Rows[t] : t # "key_packages" => Owner[t][r] = r
  /\ Commits \subseteq Rows[Group] /\ Unclassified \subseteq Rows[Group]
  /\ \A s \in Scenarios :
       /\ s.nodes \subseteq Nodes /\ s.size \in [Rows[Group] -> Nat]
       /\ s.setup \in [DOMAIN s.setup -> [count: BOOLEAN, dry: BOOLEAN]]
       /\ DOMAIN s.setup \subseteq Executors
  /\ MaxPayload \in Nat /\ {SelectLimit, BatchSize, MaxCycles} \subseteq Nat \ {0}

VARIABLES
  table,       \* the rows that are there
  is_commit,   \* of a group message: "null", "true" or "false"
  size,        \* of a group message
  shutdown,    \* how far Shutdown is on a node
  worker,      \* where its backfiller is
  batch,       \* the rows its transaction has locked
  pending,     \* those of them still to be classified
  setup,       \* the executors that run, and their configuration
  result,      \* what an executor's Run returned
  pruner,      \* pruner[x][t]: where the goroutine of a table is
  locked,      \* the rows its statement is deleting
  cycles,      \* cyclesCompleted
  start,       \* ghost: the rows it could delete when Run began
  left         \* ghost: the rows its last statement skipped because they were locked

nodeVars == <<shutdown, worker, batch, pending>>
pruneVars == <<result, pruner, locked, cycles, start, left>>
vars == <<table, is_commit, size, nodeVars, setup, pruneVars>>

\* Every structure has its shape.
TypeOK ==
  /\ \A t \in Tables : table[t] \subseteq Rows[t]
  /\ is_commit \in [Rows[Group] -> {"null", "true", "false"}]
  /\ shutdown \in [Nodes -> {"up", "db_closed", "waiting", "down"}]
  /\ worker \in [Nodes -> {"top", "classify", "asleep", "stopped"}]
  /\ batch \in [Nodes -> SUBSET Rows[Group]] /\ pending \in [Nodes -> SUBSET Rows[Group]]
  /\ result \in [Executors -> {"todo", "running", "ok", "error"}]
  /\ pruner \in [Executors -> [Tables -> {"begin", "cycle", "deleting", "done", "failed"}]]
  /\ cycles \in [Executors -> [Tables -> 0..MaxCycles]]

Init ==
  /\ table = Rows
  /\ is_commit = [r \in Rows[Group] |->
       IF r \in Unclassified THEN "null" ELSE IF r \in Commits THEN "true" ELSE "false"]
  /\ \E s \in Scenarios :
       /\ size = s.size /\ setup = s.setup
       /\ shutdown = [n \in Nodes |-> IF n \in s.nodes THEN "up" ELSE "down"]
       /\ worker = [n \in Nodes |-> IF n \in s.nodes THEN "top" ELSE "stopped"]
  /\ batch = [n \in Nodes |-> {}] /\ pending = [n \in Nodes |-> {}]
  /\ result = [x \in Executors |-> "todo"]
  /\ pruner = [x \in Executors |-> [t \in Tables |-> "begin"]]
  /\ locked = [x \in Executors |-> [t \in Tables |-> {}]]
  /\ cycles = [x \in Executors |-> [t \in Tables |-> 0]]
  /\ start = [x \in Executors |-> [t \in Tables |-> {}]]
  /\ left = [x \in Executors |-> [t \in Tables |-> {}]]

Locked(t) ==
  UNION {locked[x][t] : x \in Executors} \cup IF t = Group THEN UNION {batch[n] : n \in Nodes} ELSE {}

\* ORDER BY id LIMIT n
FirstRows(S, n) == {r \in S : Cardinality({q \in S : q < r}) < n}

-----------------------------------------------------------------------------
(* The is_commit backfiller.                                               *)

Unlock(n) == batch' = [batch EXCEPT ![n] = {}] /\ pending' = [pending EXCEPT ![n] = {}]
Cancelled(n) == shutdown[n] \in {"waiting", "down"}

\* Mutant of Selectable: the rows are selected from id 2 on, as if ids began there.
SelectableOffByOne == {r \in table[Group] : r > 1 /\ is_commit[r] = "null"} \ Locked(Group)

Selectable == {r \in table[Group] : is_commit[r] = "null"} \ Locked(Group)

\* The loop finds its context done and returns.
Stop(n) ==
  /\ worker[n] = "top" /\ Cancelled(n)
  /\ worker' = [worker EXCEPT ![n] = "stopped"]
  /\ UNCHANGED <<table, is_commit, size, shutdown, batch, pending, setup, pruneVars>>

\* A transaction begins, selects rows and locks them.
SelectRows(n) ==
  /\ worker[n] = "top" /\ shutdown[n] = "up" /\ Selectable # {}
  /\ worker' = [worker EXCEPT ![n] = "classify"]
  /\ batch' = [batch EXCEPT ![n] = FirstRows(Selectable, SelectLimit)]
  /\ pending' = [pending EXCEPT ![n] = FirstRows(Selectable, SelectLimit)]
  /\ UNCHANGED <<table, is_commit, size, shutdown, setup, pruneVars>>

\* There is nothing to classify, the statement fails or the database is closed: it sleeps.
NoRows(n) ==
  /\ worker[n] = "top" /\ ~Cancelled(n)
  /\ worker' = [worker EXCEPT ![n] = "asleep"]
  /\ UNCHANGED <<table, is_commit, size, shutdown, batch, pending, setup, pruneVars>>

\* classifyMessages: the messages up to the first that does not fit beside those before it.
Fitting(S) ==
  {r \in S : MapThenSumSet(LAMBDA q : size[q], {q \in S : q <= r}) <= MaxPayload}

\* A message that is too large is found before the batch in front of it is sent.
TooLarge(S) ==
  \E r \in S : size[r] > MaxPayload /\ \A q \in S \ Fitting(S) : r <= q

\* classifyMessageBatch: the validation service answers for the messages of a request.
ClassifyBatch(n) ==
  /\ worker[n] = "classify" /\ ~Cancelled(n)
  /\ pending[n] # {} /\ ~TooLarge(pending[n])
  /\ pending' = [pending EXCEPT ![n] = @ \ Fitting(@)]
  /\ UNCHANGED <<table, is_commit, size, shutdown, worker, batch, setup, pruneVars>>

\* UpdateIsCommitStatus for every row, and the commit.
UpdateRows(n) ==
  /\ worker[n] = "classify" /\ pending[n] = {}
  /\ is_commit' = [r \in Rows[Group] |->
       IF r \in batch[n] THEN (IF r \in Commits THEN "true" ELSE "false") ELSE is_commit[r]]
  /\ worker' = [worker EXCEPT ![n] = "top"]
  /\ Unlock(n)
  /\ UNCHANGED <<table, size, shutdown, setup, pruneVars>>

\* A message is too large, the service or a statement fails, or the context is cancelled:
\* the transaction rolls back.  An update that fails is passed over, but not the commit.
FailCycle(n) ==
  /\ worker[n] = "classify"
  /\ worker' = [worker EXCEPT ![n] = "asleep"]
  /\ Unlock(n)
  /\ UNCHANGED <<table, is_commit, size, shutdown, setup, pruneVars>>

\* time.Sleep ends; the context does not cut it short.
Wake(n) ==
  /\ worker[n] = "asleep"
  /\ worker' = [worker EXCEPT ![n] = "top"]
  /\ UNCHANGED <<table, is_commit, size, shutdown, batch, pending, setup, pruneVars>>

-----------------------------------------------------------------------------
(* Shutdown of a node.                                                     *)

\* mlsDB.Close: no transaction begins from here, those that run go on.
CloseDB(n) ==
  /\ shutdown[n] = "up"
  /\ shutdown' = [shutdown EXCEPT ![n] = "db_closed"]
  /\ UNCHANGED <<table, is_commit, size, worker, batch, pending, setup, pruneVars>>

\* Mutant of CloseBackfiller: Close waits, and cancels after that.
CloseBackfillerWaits(n) ==
  /\ shutdown[n] = "db_closed" /\ worker[n] = "stopped"
  /\ shutdown' = [shutdown EXCEPT ![n] = "waiting"]
  /\ UNCHANGED <<table, is_commit, size, worker, batch, pending, setup, pruneVars>>

\* The backfiller's Close cancels its context ...
CloseBackfiller(n) ==
  /\ shutdown[n] = "db_closed"
  /\ shutdown' = [shutdown EXCEPT ![n] = "waiting"]
  /\ UNCHANGED <<table, is_commit, size, worker, batch, pending, setup, pruneVars>>

\* ... and waits for its loop to return.
ShutdownComplete(n) ==
  /\ shutdown[n] = "waiting" /\ worker[n] = "stopped"
  /\ shutdown' = [shutdown EXCEPT ![n] = "down"]
  /\ UNCHANGED <<table, is_commit, size, worker, batch, pending, setup, pruneVars>>

-----------------------------------------------------------------------------
(* The prune executors.                                                    *)

\* Mutant of Deletable: every old message that is not known to be a commit.
DeletableNotCommit(t) ==
  {r \in table[t] \cap Old[t] : t = Group => is_commit[r] # "true"}

\* Old rows; of the group messages those with is_commit = FALSE, which NULL is not.
Deletable(t) == {r \in table[t] \cap Old[t] : t = Group => is_commit[r] = "false"}

prunerTo(x, t, pc) == pruner' = [pruner EXCEPT ![x][t] = pc]

\* Run starts a pruner for each table.
Run(x) ==
  /\ result[x] = "todo"
  /\ result' = [result EXCEPT ![x] = "running"]
  /\ start' = [start EXCEPT ![x] = [t \in Tables |-> Deletable(t)]]
  /\ UNCHANGED <<table, is_commit, size, nodeVars, setup, pruner, locked, cycles, left>>

\* A pruner counts if it is to, and ends there if it finds nothing or only tries.
BeginPruner(x, t) ==
  /\ result[x] = "running" /\ pruner[x][t] = "begin"
  /\ prunerTo(x, t, IF setup[x].count /\ t \notin Countable THEN "failed"
                    ELSE IF setup[x].dry \/ (setup[x].count /\ Deletable(t) = {}) THEN "done"
                    ELSE "cycle")
  /\ UNCHANGED <<table, is_commit, size, nodeVars, setup, result, locked, cycles, start, left>>

\* PruneCycle: the statement finds and locks its rows ...
LockBatch(x, t) ==
  LET free == Deletable(t) \ Locked(t)
  IN
  /\ pruner[x][t] = "cycle"
  /\ prunerTo(x, t, "deleting")
  /\ locked' = [locked EXCEPT ![x][t] = FirstRows(free, BatchSize)]
  /\ left' = [left EXCEPT ![x][t] = Deletable(t) \cap Locked(t)]
  /\ UNCHANGED <<table, is_commit, size, nodeVars, setup, result, cycles, start>>

\* Mutant of Short: a full batch is taken for the last one.
ShortOrFull(n) == n <= BatchSize

\* Fewer rows than BatchSize: there are no more.
Short(n) == n < BatchSize

\* ... and deletes them, all of an installation's key packages with one of them.  A row that
\* another statement has locked is waited for; of two that wait for each other one fails.
DeleteBatch(x, t) ==
  LET deleted == {r \in table[t] : \E q \in locked[x][t] : Owner[t][q] = Owner[t][r]}
  IN
  /\ pruner[x][t] = "deleting"
  /\ \A y \in Executors \ {x} : deleted \cap locked[y][t] = {}
  /\ table' = [table EXCEPT ![t] = @ \ deleted]
  /\ locked' = [locked EXCEPT ![x][t] = {}]
  /\ cycles' = [cycles EXCEPT ![x][t] = @ + 1]
  /\ prunerTo(x, t, IF Short(Cardinality(deleted)) \/ cycles[x][t] + 1 >= MaxCycles
                    THEN "done" ELSE "cycle")
  /\ UNCHANGED <<is_commit, size, nodeVars, setup, result, start, left>>

\* A count or a statement fails: what earlier statements deleted stays deleted.
FailPruner(x, t) ==
  /\ result[x] = "running" /\ pruner[x][t] \in {"begin", "deleting"}
  /\ prunerTo(x, t, "failed")
  /\ locked' = [locked EXCEPT ![x][t] = {}]
  /\ UNCHANGED <<table, is_commit, size, nodeVars, setup, result, cycles, start, left>>

\* wg.Wait: Run returns the first error of errCh, if there is one.
Return(x) ==
  /\ result[x] = "running" /\ \A t \in Tables : pruner[x][t] \in {"done", "failed"}
  /\ result' = [result EXCEPT ![x] =
       IF \E t \in Tables : pruner[x][t] = "failed" THEN "error" ELSE "ok"]
  /\ UNCHANGED <<table, is_commit, size, nodeVars, setup, pruner, locked, cycles, start, left>>

-----------------------------------------------------------------------------
WorkerStep(n) ==
  \/ Stop(n) \/ SelectRows(n) \/ NoRows(n) \/ ClassifyBatch(n) \/ UpdateRows(n)
  \/ FailCycle(n) \/ Wake(n)

ShutdownStep(n) == CloseBackfiller(n) \/ ShutdownComplete(n)

PrunerStep(x, t) == BeginPruner(x, t) \/ LockBatch(x, t) \/ DeleteBatch(x, t) \/ FailPruner(x, t)

\* Every node is down and every executor has returned.
Ended ==
  /\ \A n \in Nodes : shutdown[n] = "down"
  /\ \A x \in DOMAIN setup : result[x] \in {"ok", "error"}
  /\ UNCHANGED vars

Next ==
  \/ \E n \in Nodes : WorkerStep(n) \/ CloseDB(n) \/ ShutdownStep(n)
  \/ \E x \in DOMAIN setup : Run(x) \/ Return(x) \/ \E t \in Tables : PrunerStep(x, t)
  \/ Ended

Spec == Init /\ [][Next]_vars

\* The backfiller's goroutine runs and its sleeps end; its transactions do not all fail: rows
\* that can be selected again and again are selected, a request that carries a message again
\* and again is answered, what was answered is stored.  Shutdown goes on once begun.  Nothing
\* is assumed of the executors.
Fairness ==
  \A n \in Nodes :
    /\ WF_vars(WorkerStep(n)) /\ WF_vars(ShutdownStep(n))
    /\ SF_vars(SelectRows(n)) /\ SF_vars(UpdateRows(n))
    /\ \A r \in Unclassified : SF_vars(r \in Fitting(pending[n]) /\ ClassifyBatch(n))

FairSpec == Spec /\ Fairness

-----------------------------------------------------------------------------
(* Properties.                                                             *)

\* No commit is pruned, whatever its age and whether or not it has been classified yet: a
\* member of the group that was away needs every one of them.
CommitsKept == Commits \subseteq table[Group]

\* When Run returns no error, each row it could delete at its beginning is gone, or another
\* transaction held it at the last look, or the pruner made all its cycles, or it was a dry
\* run, which deletes nothing.
RunReports ==
  \A x \in Executors : result[x] = "ok" =>
    \A t \in Tables :
      \/ cycles[x][t] = MaxCycles
      \/ setup[x].dry /\ cycles[x][t] = 0
      \/ start[x][t] \cap table[t] \subseteq left[x][t]

\* Every message is classified at last, or every node was shut down, unless there is one
\* that is too large: it fails its batch, which is selected again and again.
AllClassified ==
  \/ \E r \in Rows[Group] : size[r] > MaxPayload
  \/ <>(\A r \in table[Group] : is_commit[r] # "null")
  \/ <>(\A n \in Nodes : shutdown[n] # "up")

\* A shutdown that has begun completes: the backfiller returns from wherever it is, a sleep
\* or a transaction whose database is closed.
ShutdownCompletes == \A n \in Nodes : shutdown[n] = "db_closed" ~> shutdown[n] = "down"
=============================================================================
