----------------------------- MODULE StoreProofs -----------------------------
(***************************************************************************)
(* Proofs about the jobs of the MLS store and about the v1 message API.    *)
(*                                                                         *)
(* StoreJobs, for any nodes, executors, tables and rows: the pruners never *)
(* delete a commit, whatever the backfillers have classified of the table  *)
(* and whatever transactions overlap; a run that returns no error has left *)
(* no row it could delete, but for those RunReports names.                 *)
(*                                                                         *)
(* MessageV1, for any streams, topics, clients,  *)
(* queries and rows: a stream has every envelope of its subscription, once *)
(* and in order, up to where the subscription ended; the pages of a query  *)
(* are in order and, when the last is read, have each row that matched all *)
(* along.  A row that matches and was not read is beyond the cursor, and   *)
(* the rows that were read are not: that is the invariant of the paging.   *)
(***************************************************************************)
EXTENDS StoreJobs, MessageV1, FiniteSetTheorems, WellFoundedInduction, TLAPS

Classes == {"null", "true", "false"}

\* The rows of the tables, and those a pruner has locked, are rows there were at first.
TablesOK ==
  /\ table \in [Tables -> SUBSET Nat] /\ \A t \in Tables : table[t] \subseteq Rows[t]
  /\ is_commit \in [Rows[Group] -> Classes]
  /\ locked \in [Executors -> [Tables -> SUBSET Nat]]
  /\ \A x \in Executors : \A t \in Tables : locked[x][t] \subseteq Rows[t]
  /\ DOMAIN setup \subseteq Executors

\* A commit is never classified as something else, so that no pruner locks it.
NoCommitFalse == \A r \in Commits : is_commit[r] # "false"
NoCommitLocked == \A x \in Executors : locked[x][Group] \cap Commits = {}

JobsInv == TablesOK /\ NoCommitFalse /\ NoCommitLocked /\ CommitsKept

\* What of the executors' types the argument needs.
PrunerTypes ==
  /\ result \in [Executors -> {"todo", "running", "ok", "error"}]
  /\ pruner \in [Executors -> [Tables -> {"begin", "cycle", "deleting", "done", "failed"}]]
  /\ cycles \in [Executors -> [Tables -> 0..MaxCycles]]
  /\ DOMAIN start = Executors
  /\ left \in [Executors -> [Tables -> SUBSET Nat]]

\* A pruner begins with its executor and has not made all its cycles while it works.
PrunersWork(x, t) ==
  /\ result[x] = "todo" => pruner[x][t] = "begin"
  /\ pruner[x][t] = "begin" => cycles[x][t] = 0
  /\ pruner[x][t] \in {"cycle", "deleting"} => cycles[x][t] < MaxCycles

\* What could be deleted when Run began can still be, if it is there.
StartStays(x, t) == result[x] # "todo" => start[x][t] \cap table[t] \subseteq Deletable(t)

\* The rows of a statement are there until it deletes them, and when they are fewer than a
\* batch the others that could be deleted were locked.
BatchIsAll(x, t) ==
  /\ locked[x][t] \subseteq table[t]
  /\ pruner[x][t] = "deleting" /\ Cardinality(locked[x][t]) < BatchSize =>
       start[x][t] \cap table[t] \subseteq locked[x][t] \cup left[x][t]

\* What RunReports says of a table.
Reported(x, t) ==
  \/ cycles[x][t] = MaxCycles
  \/ setup[x].dry /\ cycles[x][t] = 0
  \/ start[x][t] \cap table[t] \subseteq left[x][t]

TableInv(x, t) ==
  /\ PrunersWork(x, t) /\ StartStays(x, t) /\ BatchIsAll(x, t)
  /\ pruner[x][t] = "done" => Reported(x, t)
  /\ result[x] = "ok" => pruner[x][t] = "done"

PruneInv == PrunerTypes /\ \A x \in Executors : \A t \in Tables : TableInv(x, t)

-----------------------------------------------------------------------------
\* A batch is made of rows that may be deleted: ORDER BY and LIMIT add none.
LEMMA BatchOfDeletable ==
  ASSUME NEW S, NEW n PROVE FirstRows(S, n) \subseteq S
BY DEF FirstRows

\* What a pruner may delete are rows of its table, of the group messages no commit.
LEMMA DeletableRows ==
  ASSUME JobsInv, NEW t \in Tables
  PROVE  /\ Deletable(t) \subseteq Rows[t]
         /\ t = Group => Deletable(t) \cap Commits = {}
BY DEF JobsInv, TablesOK, NoCommitFalse, Deletable

\* The invariant holds at first: nothing is locked, and a commit is classified as one or not
\* at all.
LEMMA JobsInit == Init => JobsInv
<1> SUFFICES ASSUME Init PROVE JobsInv
  OBVIOUS
<1> USE StoreJobsAssumption
<1>1. TablesOK
  BY DEF Init, TablesOK, Classes
<1>2. NoCommitFalse
  BY DEF Init, NoCommitFalse
<1>3. NoCommitLocked
  BY DEF Init, NoCommitLocked
<1>4. CommitsKept
  BY DEF Init, CommitsKept
<1> QED BY <1>1, <1>2, <1>3, <1>4 DEF JobsInv

\* A step that changes neither the tables, the classes nor the locks.
LEMMA JobsUntouched ==
  ASSUME JobsInv, UNCHANGED <<table, is_commit, locked, setup>> PROVE JobsInv'
BY DEF JobsInv, TablesOK, NoCommitFalse, NoCommitLocked, CommitsKept

\* The backfiller stores what the validation service said of the rows.
LEMMA UpdateKeeps ==
  ASSUME JobsInv, NEW n \in Nodes, UpdateRows(n) PROVE JobsInv'
<1> USE StoreJobsAssumption
<1>1. UNCHANGED <<table, locked, setup>>
  BY DEF UpdateRows, pruneVars
<1>2. is_commit' = [r \in Rows[Group] |->
        IF r \in batch[n] THEN (IF r \in Commits THEN "true" ELSE "false") ELSE is_commit[r]]
  BY DEF UpdateRows
<1>3. is_commit' \in [Rows[Group] -> Classes]
  BY <1>2 DEF JobsInv, TablesOK, Classes
<1>4. NoCommitFalse'
  BY <1>2 DEF JobsInv, NoCommitFalse
<1> QED BY <1>1, <1>3, <1>4 DEF JobsInv, TablesOK, NoCommitLocked, CommitsKept

\* A pruner locks rows that may be deleted.
LEMMA LockKeeps ==
  ASSUME JobsInv, NEW x \in Executors, NEW t \in Tables, LockBatch(x, t) PROVE JobsInv'
<1> USE StoreJobsAssumption
<1> DEFINE free == Deletable(t) \ Locked(t)
           B == FirstRows(free, BatchSize)
<1>1. UNCHANGED <<table, is_commit, setup>> /\ locked' = [locked EXCEPT ![x][t] = B]
  BY DEF LockBatch
<1>2. B \subseteq Rows[t] /\ (t = Group => B \cap Commits = {})
  BY BatchOfDeletable, DeletableRows
<1> HIDE DEF B
<1>3. B \in SUBSET Nat
  BY <1>2
<1>4. \A y \in Executors : \A u \in Tables :
        (y = x /\ u = t /\ locked'[y][u] = B) \/ locked'[y][u] = locked[y][u]
  BY <1>1 DEF JobsInv, TablesOK
<1>5. locked' \in [Executors -> [Tables -> SUBSET Nat]]
  BY <1>1, <1>3 DEF JobsInv, TablesOK
<1>6. TablesOK'
  <2>1. \A y \in Executors : \A u \in Tables : locked'[y][u] \subseteq Rows[u]
    <3> SUFFICES ASSUME NEW y \in Executors, NEW u \in Tables PROVE locked'[y][u] \subseteq Rows[u]
      OBVIOUS
    <3>1. locked[y][u] \subseteq Rows[u]
      BY DEF JobsInv, TablesOK
    <3> QED BY <1>2, <1>4, <3>1
  <2> QED BY <1>1, <1>5, <2>1 DEF JobsInv, TablesOK
<1>7. NoCommitLocked'
  <2> SUFFICES ASSUME NEW y \in Executors PROVE locked'[y][Group] \cap Commits = {}
    BY DEF NoCommitLocked
  <2>1. locked[y][Group] \cap Commits = {}
    BY DEF JobsInv, NoCommitLocked
  <2>2. (Group = t /\ locked'[y][Group] = B) \/ locked'[y][Group] = locked[y][Group]
    BY <1>4
  <2> QED BY <1>2, <2>1, <2>2
<1> QED BY <1>1, <1>6, <1>7 DEF JobsInv, NoCommitFalse, CommitsKept

\* Locks that are given up or whose rows are deleted.
LEMMA UnlockKeeps ==
  ASSUME JobsInv, NEW x \in Executors, NEW t \in Tables, locked' = [locked EXCEPT ![x][t] = {}]
  PROVE  /\ locked' \in [Executors -> [Tables -> SUBSET Nat]]
         /\ \A y \in Executors : \A u \in Tables : locked'[y][u] \subseteq Rows[u]
         /\ NoCommitLocked'
<1> USE StoreJobsAssumption
<1>1. locked' \in [Executors -> [Tables -> SUBSET Nat]]
  BY DEF JobsInv, TablesOK
<1>2. \A y \in Executors : \A u \in Tables : locked'[y][u] \subseteq locked[y][u]
  BY DEF JobsInv, TablesOK
<1>3. \A y \in Executors : \A u \in Tables : locked'[y][u] \subseteq Rows[u]
  BY <1>2 DEF JobsInv, TablesOK
<1>4. NoCommitLocked'
  BY <1>2 DEF JobsInv, NoCommitLocked
<1> QED BY <1>1, <1>3, <1>4

\* A pruner deletes what it has locked: of the group messages nothing else, and no commit.
LEMMA DeleteKeeps ==
  ASSUME JobsInv, NEW x \in Executors, NEW t \in Tables, DeleteBatch(x, t) PROVE JobsInv'
<1> USE StoreJobsAssumption
<1> DEFINE D == {r \in table[t] : \E q \in locked[x][t] : Owner[t][q] = Owner[t][r]}
<1>1. UNCHANGED <<is_commit, setup>> /\ locked' = [locked EXCEPT ![x][t] = {}]
      /\ table' = [table EXCEPT ![t] = @ \ D]
  BY DEF DeleteBatch
<1>2. t = Group => D \subseteq locked[x][t]
  BY DEF JobsInv, TablesOK, Group
<1>3. t = Group => D \cap Commits = {}
  BY <1>2 DEF JobsInv, NoCommitLocked
<1> HIDE DEF D
<1>4. table' \in [Tables -> SUBSET Nat] /\ \A u \in Tables : table'[u] \subseteq table[u]
  BY <1>1 DEF JobsInv, TablesOK
<1>5. \A u \in Tables : table'[u] \subseteq Rows[u]
  BY <1>4 DEF JobsInv, TablesOK
<1>6. CommitsKept'
  BY <1>1, <1>3 DEF JobsInv, TablesOK, CommitsKept
<1> QED BY <1>1, <1>4, <1>5, <1>6, UnlockKeeps DEF JobsInv, TablesOK, NoCommitFalse

\* Every step keeps the invariant.
LEMMA JobsNext == JobsInv /\ [Next]_vars => JobsInv'
<1> SUFFICES ASSUME JobsInv, [Next]_vars PROVE JobsInv'
  OBVIOUS
<1>1. CASE UNCHANGED vars
  BY <1>1, JobsUntouched DEF vars, pruneVars
<1>2. ASSUME NEW n \in Nodes, WorkerStep(n) PROVE JobsInv'
  <2>1. CASE UpdateRows(n)
    BY <2>1, UpdateKeeps
  <2>2. CASE ~UpdateRows(n)
    <3>1. UNCHANGED <<table, is_commit, locked, setup>>
      BY <1>2, <2>2 DEF WorkerStep, Stop, SelectRows, NoRows, ClassifyBatch, FailCycle, Wake,
                         pruneVars
    <3> QED BY <3>1, JobsUntouched
  <2> QED BY <2>1, <2>2
<1>3. ASSUME NEW n \in Nodes, CloseDB(n) \/ ShutdownStep(n) PROVE JobsInv'
  <2>1. UNCHANGED <<table, is_commit, locked, setup>>
    BY <1>3 DEF CloseDB, ShutdownStep, CloseBackfiller, ShutdownComplete, pruneVars
  <2> QED BY <2>1, JobsUntouched
<1>4. ASSUME NEW x \in Executors, Run(x) \/ Return(x) PROVE JobsInv'
  <2>1. UNCHANGED <<table, is_commit, locked, setup>>
    BY <1>4 DEF Run, Return
  <2> QED BY <2>1, JobsUntouched
<1>5. ASSUME NEW x \in Executors, NEW t \in Tables, PrunerStep(x, t) PROVE JobsInv'
  <2>1. CASE BeginPruner(x, t)
    BY <2>1, JobsUntouched DEF BeginPruner
  <2>2. CASE LockBatch(x, t)
    BY <2>2, LockKeeps
  <2>3. CASE DeleteBatch(x, t)
    BY <2>3, DeleteKeeps
  <2>4. CASE FailPruner(x, t)
    <3>1. UNCHANGED <<table, is_commit, setup>> /\ locked' = [locked EXCEPT ![x][t] = {}]
      BY <2>4 DEF FailPruner
    <3> QED BY <3>1, UnlockKeeps DEF JobsInv, TablesOK, NoCommitFalse, CommitsKept
  <2> QED BY <1>5, <2>1, <2>2, <2>3, <2>4 DEF PrunerStep
<1>6. DOMAIN setup \subseteq Executors
  BY DEF JobsInv, TablesOK
<1> QED BY <1>1, <1>2, <1>3, <1>4, <1>5, <1>6 DEF Next, Ended

\* No commit is ever pruned, for any tables, nodes and executors, although the pruners rely on
\* a classification that the backfillers fill in while they delete (prune.go:81-121,
\* backfiller_group_messages.go:168-249).
THEOREM CommitsAreKept == Spec => []CommitsKept
<1>1. Init => JobsInv
  BY JobsInit
<1>2. JobsInv /\ [Next]_vars => JobsInv'
  BY JobsNext
<1>3. JobsInv => CommitsKept
  BY DEF JobsInv
<1> QED BY <1>1, <1>2, <1>3, PTL DEF Spec
-----------------------------------------------------------------------------
(* What Run reports.                                                       *)

Below == {p \in Nat \X Nat : p[1] < p[2]}

\* A nonempty set of naturals has a least element.
LEMMA LeastNatural ==
  ASSUME NEW S, S \subseteq Nat, S # {}
  PROVE  \E x \in S : \A y \in S : x <= y
<1>1. OpToRel(<, Nat) = Below
  BY DEF OpToRel, Below
<1>2. IsWellFoundedOn(Below, Nat)
  BY <1>1, NatLessThanWellFounded, Zenon
<1>3. PICK x \in S : \A y \in S : ~(<<y, x>> \in Below)
  BY <1>2, WFMin
<1>4. ASSUME NEW y \in S PROVE x <= y
  <2>1. <<y, x>> \in Nat \X Nat
    OBVIOUS
  <2> QED BY <1>3, <2>1 DEF Below
<1> QED BY <1>4

\* A batch that is not full holds all there is: before the first row it leaves out there
\* would be enough to fill it.
LEMMA ShortBatchIsAll ==
  ASSUME NEW S, S \subseteq Nat, IsFiniteSet(S), NEW n \in Nat,
         Cardinality(FirstRows(S, n)) < n
  PROVE  FirstRows(S, n) = S
<1>1. PICK F : F = FirstRows(S, n)
  OBVIOUS
<1>2. F \subseteq S /\ \A r \in S : r \in F <=> Cardinality({q \in S : q < r}) < n
  BY <1>1 DEF FirstRows
<1>3. IsFiniteSet(F) /\ Cardinality(F) \in Nat
  BY <1>2, FS_Subset, FS_CardinalityType
<1>4. ASSUME S \ F # {} PROVE FALSE
  <2>1. PICK r \in S \ F : \A y \in S \ F : r <= y
    BY <1>4, LeastNatural
  <2>2. PICK B : B = {q \in S : q < r}
    OBVIOUS
  <2>3. ASSUME NEW q \in B PROVE q \in F
    <3>1. q \in S /\ q < r /\ q \in Nat /\ r \in Nat
      BY <2>2
    <3>2. ~(r <= q)
      BY <3>1
    <3> QED BY <2>1, <3>1, <3>2
  <2>4. IsFiniteSet(B) /\ Cardinality(B) \in Nat /\ Cardinality(B) <= Cardinality(F)
    BY <1>3, <2>3, FS_Subset, FS_CardinalityType
  <2>5. ~(Cardinality(B) < n)
    BY <1>2, <2>1, <2>2
  <2> QED BY <1>1, <1>3, <2>4, <2>5
<1> QED BY <1>1, <1>2, <1>4

\* A step that leaves a pruner of x alone while rows may go and be classified.
LEMMA TableFrame ==
  ASSUME NEW x, NEW t, TableInv(x, t), UNCHANGED setup,
         result'[x] = result[x], pruner'[x][t] = pruner[x][t], cycles'[x][t] = cycles[x][t],
         start'[x][t] = start[x][t], left'[x][t] = left[x][t], locked'[x][t] = locked[x][t],
         table'[t] \subseteq table[t], locked[x][t] \subseteq table'[t],
         \A r \in Deletable(t) : r \in table'[t] => r \in Deletable(t)'
  PROVE  TableInv(x, t)'
<1>1. start'[x][t] \cap table'[t] \subseteq start[x][t] \cap table[t]
  OBVIOUS
<1>2. PrunersWork(x, t)'
  BY DEF TableInv, PrunersWork
<1>3. StartStays(x, t)'
  BY <1>1 DEF TableInv, StartStays
<1>4. BatchIsAll(x, t)'
  BY <1>1 DEF TableInv, BatchIsAll
<1>5. Reported(x, t) => Reported(x, t)'
  BY <1>1 DEF Reported
<1> QED BY <1>2, <1>3, <1>4, <1>5 DEF TableInv

\* At first no executor runs.
LEMMA PruneInit == Init => PruneInv
<1> SUFFICES ASSUME Init PROVE PruneInv
  OBVIOUS
<1> USE StoreJobsAssumption
<1>1. PrunerTypes
  BY DEF Init, PrunerTypes
<1>2. ASSUME NEW x \in Executors, NEW t \in Tables PROVE TableInv(x, t)
  <2>1. result[x] = "todo" /\ pruner[x][t] = "begin" /\ cycles[x][t] = 0 /\ locked[x][t] = {}
    BY DEF Init
  <2> QED BY <2>1 DEF TableInv, PrunersWork, StartStays, BatchIsAll
<1> QED BY <1>1, <1>2 DEF PruneInv

\* The backfillers classify rows; what is no commit stays deletable.
LEMMA PruneNode ==
  ASSUME JobsInv, PruneInv, NEW n \in Nodes,
         WorkerStep(n) \/ CloseDB(n) \/ ShutdownStep(n)
  PROVE  PruneInv'
<1> USE StoreJobsAssumption
<1>1. UNCHANGED <<table, setup, result, pruner, locked, cycles, start, left>>
  BY DEF WorkerStep, Stop, SelectRows, NoRows, ClassifyBatch, UpdateRows, FailCycle, Wake,
     CloseDB, ShutdownStep, CloseBackfiller, ShutdownComplete, pruneVars
<1>2. ASSUME NEW r \in Rows[Group], is_commit[r] = "false" PROVE is_commit'[r] = "false"
  <2>1. CASE UpdateRows(n)
    <3>1. r \notin Commits
      BY <1>2 DEF JobsInv, NoCommitFalse
    <3> QED BY <1>2, <2>1, <3>1 DEF UpdateRows
  <2>2. CASE ~UpdateRows(n)
    <3>1. UNCHANGED is_commit
      BY <2>2 DEF WorkerStep, Stop, SelectRows, NoRows, ClassifyBatch, FailCycle, Wake,
         CloseDB, ShutdownStep, CloseBackfiller, ShutdownComplete
    <3> QED BY <1>2, <3>1
  <2> QED BY <2>1, <2>2
<1>3. \A t \in Tables : \A r \in Deletable(t) : r \in Deletable(t)'
  BY <1>1, <1>2 DEF Deletable, JobsInv, TablesOK
<1>4. PrunerTypes'
  BY <1>1 DEF PruneInv, PrunerTypes
<1>5. ASSUME NEW x \in Executors, NEW t \in Tables PROVE TableInv(x, t)'
  <2>1. TableInv(x, t) /\ locked[x][t] \subseteq table[t]
    BY DEF PruneInv, TableInv, BatchIsAll
  <2> QED BY <1>1, <1>3, <2>1, TableFrame
<1> QED BY <1>4, <1>5 DEF PruneInv

\* A step of the executors that moves nothing in the tables leaves the other pruners alone.
LEMMA OtherPruners ==
  ASSUME PruneInv, UNCHANGED <<table, is_commit, setup>>,
         NEW x \in Executors, NEW t \in Tables,
         result'[x] = result[x], pruner'[x][t] = pruner[x][t], cycles'[x][t] = cycles[x][t],
         start'[x][t] = start[x][t], left'[x][t] = left[x][t], locked'[x][t] = locked[x][t]
  PROVE  TableInv(x, t)'
<1>1. TableInv(x, t) /\ locked[x][t] \subseteq table[t]
  BY DEF PruneInv, TableInv, BatchIsAll
<1>2. \A r \in Deletable(t) : r \in table'[t] => r \in Deletable(t)'
  BY DEF Deletable
<1> QED BY <1>1, <1>2, TableFrame

\* Run notes what can be deleted.
LEMMA PruneRun ==
  ASSUME JobsInv, PruneInv, NEW x \in Executors, Run(x) PROVE PruneInv'
<1>1. /\ UNCHANGED <<table, is_commit, setup, pruner, locked, cycles, left>> /\ result[x] = "todo"
      /\ result' = [result EXCEPT ![x] = "running"]
      /\ start' = [start EXCEPT ![x] = [t \in Tables |-> Deletable(t)]]
  BY DEF Run
<1>2. PrunerTypes'
  BY <1>1 DEF PruneInv, PrunerTypes
<1>3. /\ result'[x] = "running" /\ \A t \in Tables : start'[x][t] = Deletable(t)
      /\ \A y \in Executors : y # x => result'[y] = result[y] /\ start'[y] = start[y]
  BY <1>1 DEF PruneInv, PrunerTypes
<1>4. ASSUME NEW y \in Executors, NEW t \in Tables PROVE TableInv(y, t)'
  <2>1. CASE y # x
    BY <1>1, <1>3, <2>1, OtherPruners
  <2>2. CASE y = x
    <3>1. TableInv(x, t)
      BY DEF PruneInv
    <3>2. pruner'[x][t] = "begin" /\ cycles'[x][t] = 0
      BY <1>1, <3>1 DEF TableInv, PrunersWork
    <3>3. Deletable(t)' = Deletable(t)
      BY <1>1 DEF Deletable
    <3>4. PrunersWork(x, t)' /\ StartStays(x, t)'
      BY <1>3, <3>2, <3>3 DEF PrunersWork, StartStays
    <3>5. BatchIsAll(x, t)'
      BY <1>1, <3>1, <3>2 DEF TableInv, BatchIsAll
    <3> QED BY <1>3, <2>2, <3>2, <3>4, <3>5 DEF TableInv
  <2> QED BY <2>1, <2>2
<1> QED BY <1>2, <1>4 DEF PruneInv

\* Run returns no error when every pruner is done.
LEMMA PruneReturn ==
  ASSUME PruneInv, NEW x \in Executors, Return(x) PROVE PruneInv'
<1>1. /\ UNCHANGED <<table, is_commit, setup, pruner, locked, cycles, start, left>>
      /\ result[x] = "running" /\ \A t \in Tables : pruner[x][t] \in {"done", "failed"}
      /\ result' = [result EXCEPT ![x] =
           IF \E t \in Tables : pruner[x][t] = "failed" THEN "error" ELSE "ok"]
  BY DEF Return
<1>2. PrunerTypes'
  BY <1>1 DEF PruneInv, PrunerTypes
<1>3. /\ result'[x] \in {"ok", "error"}
      /\ result'[x] = "ok" => \A t \in Tables : pruner[x][t] = "done"
      /\ \A y \in Executors : y # x => result'[y] = result[y]
  BY <1>1 DEF PruneInv, PrunerTypes
<1>4. ASSUME NEW y \in Executors, NEW t \in Tables PROVE TableInv(y, t)'
  <2>1. CASE y # x
    BY <1>1, <1>3, <2>1, OtherPruners
  <2>2. CASE y = x
    <3>1. TableInv(x, t)
      BY DEF PruneInv
    <3>2. Deletable(t)' = Deletable(t)
      BY <1>1 DEF Deletable
    <3>3. PrunersWork(x, t)' /\ StartStays(x, t)' /\ BatchIsAll(x, t)'
      BY <1>1, <1>3, <3>1, <3>2 DEF TableInv, PrunersWork, StartStays, BatchIsAll
    <3>4. Reported(x, t)' <=> Reported(x, t)
      BY <1>1 DEF Reported
    <3> QED BY <1>1, <1>3, <2>2, <3>1, <3>3, <3>4 DEF TableInv
  <2> QED BY <2>1, <2>2
<1> QED BY <1>2, <1>4 DEF PruneInv

\* A pruner moves, the others of all executors do not.
LEMMA PrunerMoves ==
  ASSUME PruneInv, NEW x \in Executors, NEW t \in Tables,
         NEW pc \in {"begin", "cycle", "deleting", "done", "failed"}, prunerTo(x, t, pc)
  PROVE  /\ pruner' \in [Executors -> [Tables -> {"begin", "cycle", "deleting", "done", "failed"}]]
         /\ pruner'[x][t] = pc
         /\ \A y \in Executors : \A u \in Tables :
              ~(y = x /\ u = t) => pruner'[y][u] = pruner[y][u]
BY DEF PruneInv, PrunerTypes, prunerTo

\* A pruner that counts none is done, and one that only tries.
LEMMA PruneBegin ==
  ASSUME JobsInv, PruneInv, NEW x \in Executors, NEW t \in Tables, BeginPruner(x, t)
  PROVE  PruneInv'
<1> USE StoreJobsAssumption
<1>1. /\ UNCHANGED <<table, is_commit, setup, result, locked, cycles, start, left>>
      /\ result[x] = "running" /\ pruner[x][t] = "begin"
  BY DEF BeginPruner
<1>2. PICK pc \in {"failed", "done", "cycle"} :
        /\ prunerTo(x, t, pc)
        /\ pc = "done" => setup[x].dry \/ Deletable(t) = {}
  BY DEF BeginPruner
<1>3. /\ pruner' \in [Executors -> [Tables -> {"begin", "cycle", "deleting", "done", "failed"}]]
      /\ pruner'[x][t] = pc
      /\ \A y \in Executors : \A u \in Tables :
           ~(y = x /\ u = t) => pruner'[y][u] = pruner[y][u]
  BY <1>2, PrunerMoves
<1>4. PrunerTypes'
  BY <1>1, <1>3 DEF PruneInv, PrunerTypes
<1>5. ASSUME NEW y \in Executors, NEW u \in Tables PROVE TableInv(y, u)'
  <2>1. CASE ~(y = x /\ u = t)
    BY <1>1, <1>3, <2>1, OtherPruners
  <2>2. CASE y = x /\ u = t
    <3>1. TableInv(x, t) /\ cycles[x][t] = 0
      BY <1>1 DEF PruneInv, TableInv, PrunersWork
    <3>2. Deletable(t)' = Deletable(t)
      BY <1>1 DEF Deletable
    <3>3. PrunersWork(x, t)'
      BY <1>1, <1>3, <3>1 DEF PrunersWork
    <3>4. StartStays(x, t)' /\ BatchIsAll(x, t)'
      BY <1>1, <1>3, <3>1, <3>2 DEF TableInv, StartStays, BatchIsAll
    <3>5. pc = "done" => Reported(x, t)'
      BY <1>1, <1>2, <3>1 DEF Reported, TableInv, StartStays
    <3> QED BY <1>1, <1>3, <2>2, <3>3, <3>4, <3>5 DEF TableInv
  <2> QED BY <2>1, <2>2
<1> QED BY <1>4, <1>5 DEF PruneInv

\* A statement that finds fewer rows than a batch has found all that are not locked.
LEMMA PruneLock ==
  ASSUME JobsInv, PruneInv, NEW x \in Executors, NEW t \in Tables, LockBatch(x, t)
  PROVE  PruneInv'
<1> USE StoreJobsAssumption
<1>1. PICK free : free = Deletable(t) \ Locked(t)
  OBVIOUS
<1>2. PICK B : B = FirstRows(free, BatchSize)
  OBVIOUS
<1>3. PICK held : held = Deletable(t) \cap Locked(t)
  OBVIOUS
<1>4. /\ UNCHANGED <<table, is_commit, setup, result, cycles, start>> /\ pruner[x][t] = "cycle"
      /\ prunerTo(x, t, "deleting")
      /\ locked' = [locked EXCEPT ![x][t] = B]
      /\ left' = [left EXCEPT ![x][t] = held]
  BY <1>1, <1>2, <1>3 DEF LockBatch
<1>5. Deletable(t) \subseteq table[t] /\ table[t] \subseteq Rows[t] /\ Rows[t] \subseteq Nat
  BY DEF Deletable, JobsInv, TablesOK
<1>6. free \subseteq Nat /\ IsFiniteSet(free) /\ B \subseteq free /\ held \subseteq Nat
  <2>1. free \subseteq Rows[t] /\ held \subseteq Nat
    BY <1>1, <1>3, <1>5
  <2>2. B \subseteq free
    BY <1>2, BatchOfDeletable
  <2> QED BY <1>5, <2>1, <2>2, FS_Subset
<1>7. Cardinality(B) < BatchSize => B = free
  BY <1>2, <1>6, ShortBatchIsAll
<1>8. /\ pruner' \in [Executors -> [Tables -> {"begin", "cycle", "deleting", "done", "failed"}]]
      /\ pruner'[x][t] = "deleting"
      /\ \A y \in Executors : \A u \in Tables :
           ~(y = x /\ u = t) => pruner'[y][u] = pruner[y][u]
  BY <1>4, PrunerMoves
<1>9. /\ locked'[x][t] = B
      /\ \A y \in Executors : \A u \in Tables :
           ~(y = x /\ u = t) => locked'[y][u] = locked[y][u]
  BY <1>4 DEF JobsInv, TablesOK
<1>10. /\ left' \in [Executors -> [Tables -> SUBSET Nat]] /\ left'[x][t] = held
       /\ \A y \in Executors : \A u \in Tables :
            ~(y = x /\ u = t) => left'[y][u] = left[y][u]
  BY <1>4, <1>6 DEF PruneInv, PrunerTypes
<1> HIDE <1>2
<1>11. PrunerTypes'
  BY <1>4, <1>8, <1>10 DEF PruneInv, PrunerTypes
<1>12. ASSUME NEW y \in Executors, NEW u \in Tables PROVE TableInv(y, u)'
  <2>1. CASE ~(y = x /\ u = t)
    BY <1>4, <1>8, <1>9, <1>10, <2>1, OtherPruners
  <2>2. CASE y = x /\ u = t
    <3>1. TableInv(x, t) /\ result[x] \notin {"todo", "ok"}
      BY <1>4 DEF PruneInv, TableInv, PrunersWork
    <3>2. Deletable(t)' = Deletable(t)
      BY <1>4 DEF Deletable
    <3>3. PrunersWork(x, t)'
      BY <1>4, <1>8, <3>1 DEF TableInv, PrunersWork
    <3>4. StartStays(x, t)'
      BY <1>4, <3>1, <3>2 DEF TableInv, StartStays
    <3>5. start[x][t] \cap table[t] \subseteq Deletable(t)
      BY <3>1 DEF TableInv, StartStays
    <3>6. BatchIsAll(x, t)'
      <4>1. locked'[x][t] \subseteq table'[t]
        BY <1>1, <1>4, <1>5, <1>6, <1>9
      <4>2. Cardinality(locked'[x][t]) < BatchSize =>
              start'[x][t] \cap table'[t] \subseteq locked'[x][t] \cup left'[x][t]
        BY <1>1, <1>3, <1>4, <1>7, <1>9, <1>10, <3>5
      <4> QED BY <4>1, <4>2 DEF BatchIsAll
    <3> QED BY <1>4, <1>8, <2>2, <3>1, <3>3, <3>4, <3>6 DEF TableInv
  <2> QED BY <2>1, <2>2
<1> QED BY <1>11, <1>12 DEF PruneInv

\* A statement that deletes fewer rows than a batch had locked all there were.
LEMMA PruneDelete ==
  ASSUME JobsInv, PruneInv, NEW x \in Executors, NEW t \in Tables, DeleteBatch(x, t)
  PROVE  PruneInv'
<1> USE StoreJobsAssumption
<1>1. PICK D : D = {r \in table[t] : \E q \in locked[x][t] : Owner[t][q] = Owner[t][r]}
  OBVIOUS
<1>2. /\ UNCHANGED <<is_commit, setup, result, start, left>> /\ pruner[x][t] = "deleting"
      /\ \A y \in Executors \ {x} : D \cap locked[y][t] = {}
      /\ table' = [table EXCEPT ![t] = @ \ D]
      /\ locked' = [locked EXCEPT ![x][t] = {}]
      /\ cycles' = [cycles EXCEPT ![x][t] = @ + 1]
  BY <1>1 DEF DeleteBatch
<1>3. PICK pc \in {"done", "cycle"} :
        /\ prunerTo(x, t, pc)
        /\ pc = "done" => Cardinality(D) < BatchSize \/ cycles[x][t] + 1 >= MaxCycles
        /\ pc = "cycle" => ~(cycles[x][t] + 1 >= MaxCycles)
  <2>1. prunerTo(x, t, IF Short(Cardinality(D)) \/ cycles[x][t] + 1 >= MaxCycles
                       THEN "done" ELSE "cycle")
    BY <1>1 DEF DeleteBatch
  <2>2. CASE Short(Cardinality(D)) \/ cycles[x][t] + 1 >= MaxCycles
    BY <2>1, <2>2 DEF Short
  <2>3. CASE ~(Short(Cardinality(D)) \/ cycles[x][t] + 1 >= MaxCycles)
    BY <2>1, <2>3 DEF Short
  <2> QED BY <2>2, <2>3
<1>4. /\ pruner' \in [Executors -> [Tables -> {"begin", "cycle", "deleting", "done", "failed"}]]
      /\ pruner'[x][t] = pc
      /\ \A y \in Executors : \A u \in Tables :
           ~(y = x /\ u = t) => pruner'[y][u] = pruner[y][u]
  BY <1>3, PrunerMoves
<1>5. /\ locked'[x][t] = {}
      /\ \A y \in Executors : \A u \in Tables :
           ~(y = x /\ u = t) => locked'[y][u] = locked[y][u]
  BY <1>2 DEF JobsInv, TablesOK
<1>6. TableInv(x, t) /\ result[x] \notin {"todo", "ok"} /\ cycles[x][t] < MaxCycles
  BY <1>2 DEF PruneInv, TableInv, PrunersWork
<1>7. MaxCycles \in Nat /\ cycles[x][t] \in Nat /\ cycles[x][t] + 1 \in 0..MaxCycles
  <2>1. cycles[x][t] \in 0..MaxCycles
    BY DEF PruneInv, PrunerTypes
  <2> QED BY <1>6, <2>1
<1>8. /\ cycles' \in [Executors -> [Tables -> 0..MaxCycles]]
      /\ cycles'[x][t] = cycles[x][t] + 1
      /\ \A y \in Executors : \A u \in Tables :
           ~(y = x /\ u = t) => cycles'[y][u] = cycles[y][u]
  BY <1>2, <1>7 DEF PruneInv, PrunerTypes
<1>9. /\ table'[t] = table[t] \ D
      /\ \A u \in Tables : u # t => table'[u] = table[u]
  BY <1>2 DEF JobsInv, TablesOK
<1>10. UNCHANGED <<is_commit, setup, result, start, left>>
  BY <1>2
<1>11. PrunerTypes'
  BY <1>4, <1>8, <1>10 DEF PruneInv, PrunerTypes
<1>12. \A u \in Tables : \A r \in Deletable(u) : r \in table'[u] => r \in Deletable(u)'
  BY <1>9, <1>10 DEF Deletable
<1>13. \A u \in Tables : table'[u] \subseteq table[u]
  BY <1>9
<1>14. ASSUME NEW y \in Executors, NEW u \in Tables PROVE TableInv(y, u)'
  <2>0. TableInv(y, u) /\ locked[y][u] \subseteq table[u]
    BY DEF PruneInv, TableInv, BatchIsAll
  <2>1. CASE ~(y = x /\ u = t)
    <3>1. locked[y][u] \subseteq table'[u]
      <4>1. CASE u # t
        BY <1>9, <2>0, <4>1
      <4>2. CASE u = t
        <5>1. D \cap locked[y][t] = {}
          BY <1>2, <2>1, <4>2
        <5> QED BY <1>9, <2>0, <4>2, <5>1
      <4> QED BY <4>1, <4>2
    <3> QED BY <1>4, <1>5, <1>8, <1>10, <1>12, <1>13, <2>0, <2>1, <3>1, TableFrame
  <2>2. CASE y = x /\ u = t
    <3>1. PrunersWork(x, t)'
      <4>1. pc = "cycle" => cycles'[x][t] < MaxCycles
        <5>1. pc = "cycle" => cycles[x][t] + 1 < MaxCycles
          BY <1>3, <1>7
        <5> QED BY <1>8, <5>1
      <4> QED BY <1>4, <1>6, <1>10, <4>1 DEF PrunersWork
    <3>2. StartStays(x, t)'
      <4>1. start[x][t] \cap table[t] \subseteq Deletable(t)
        BY <1>6 DEF TableInv, StartStays
      <4> QED BY <1>10, <1>12, <1>13, <4>1 DEF StartStays
    <3>3. BatchIsAll(x, t)'
      BY <1>4, <1>5 DEF BatchIsAll
    <3>4. pc = "done" => Reported(x, t)'
      <4>1. CASE cycles[x][t] + 1 >= MaxCycles
        <5>1. cycles'[x][t] = MaxCycles
          <6>1. cycles[x][t] + 1 = MaxCycles
            BY <1>7, <4>1
          <6> QED BY <1>8, <6>1
        <5> QED BY <5>1 DEF Reported
      <4>2. CASE pc = "done" /\ Cardinality(D) < BatchSize
        <5>1. locked[x][t] \subseteq D /\ D \subseteq Rows[t]
          <6>1. locked[x][t] \subseteq table[t] /\ table[t] \subseteq Rows[t]
            BY <1>6 DEF TableInv, BatchIsAll, JobsInv, TablesOK
          <6> QED BY <1>1, <6>1
        <5>2. IsFiniteSet(D) /\ Cardinality(D) \in Nat
          BY <5>1, FS_Subset, FS_CardinalityType
        <5>3. Cardinality(locked[x][t]) \in Nat /\ Cardinality(locked[x][t]) <= Cardinality(D)
          BY <5>1, <5>2, FS_Subset, FS_CardinalityType
        <5>4. Cardinality(locked[x][t]) < BatchSize
          BY <4>2, <5>2, <5>3
        <5>5. start[x][t] \cap table[t] \subseteq locked[x][t] \cup left[x][t]
          BY <1>2, <1>6, <5>4 DEF TableInv, BatchIsAll
        <5>6. start[x][t] \cap table'[t] \subseteq left[x][t]
          BY <1>9, <5>1, <5>5
        <5> QED BY <1>10, <5>6 DEF Reported
      <4> QED BY <1>3, <4>1, <4>2
    <3> QED BY <1>4, <1>6, <1>10, <2>2, <3>1, <3>2, <3>3, <3>4 DEF TableInv
  <2> QED BY <2>1, <2>2
<1> QED BY <1>11, <1>14 DEF PruneInv

\* A pruner that failed reports nothing.
LEMMA PruneFail ==
  ASSUME JobsInv, PruneInv, NEW x \in Executors, NEW t \in Tables, FailPruner(x, t)
  PROVE  PruneInv'
<1>1. /\ UNCHANGED <<table, is_commit, setup, result, cycles, start, left>>
      /\ result[x] = "running" /\ prunerTo(x, t, "failed")
      /\ locked' = [locked EXCEPT ![x][t] = {}]
  BY DEF FailPruner
<1>2. /\ pruner' \in [Executors -> [Tables -> {"begin", "cycle", "deleting", "done", "failed"}]]
      /\ pruner'[x][t] = "failed"
      /\ \A y \in Executors : \A u \in Tables :
           ~(y = x /\ u = t) => pruner'[y][u] = pruner[y][u]
  BY <1>1, PrunerMoves
<1>3. /\ locked'[x][t] = {}
      /\ \A y \in Executors : \A u \in Tables :
           ~(y = x /\ u = t) => locked'[y][u] = locked[y][u]
  BY <1>1 DEF JobsInv, TablesOK
<1>4. PrunerTypes'
  BY <1>1, <1>2 DEF PruneInv, PrunerTypes
<1>5. ASSUME NEW y \in Executors, NEW u \in Tables PROVE TableInv(y, u)'
  <2>1. CASE ~(y = x /\ u = t)
    BY <1>1, <1>2, <1>3, <2>1, OtherPruners
  <2>2. CASE y = x /\ u = t
    <3>1. TableInv(x, t)
      BY DEF PruneInv
    <3>2. Deletable(t)' = Deletable(t)
      BY <1>1 DEF Deletable
    <3>3. PrunersWork(x, t)' /\ StartStays(x, t)' /\ BatchIsAll(x, t)'
      BY <1>1, <1>2, <1>3, <3>1, <3>2 DEF TableInv, PrunersWork, StartStays, BatchIsAll
    <3> QED BY <1>1, <1>2, <2>2, <3>3 DEF TableInv
  <2> QED BY <2>1, <2>2
<1> QED BY <1>4, <1>5 DEF PruneInv

\* Every step keeps what is said of the pruners.
LEMMA PruneNext == JobsInv /\ PruneInv /\ [Next]_vars => PruneInv'
<1> SUFFICES ASSUME JobsInv, PruneInv, [Next]_vars PROVE PruneInv'
  OBVIOUS
<1>1. CASE UNCHANGED vars \/ Ended
  <2>1. UNCHANGED <<table, is_commit, setup, result, pruner, locked, cycles, start, left>>
    BY <1>1 DEF Ended, vars, pruneVars
  <2>2. PrunerTypes'
    BY <2>1 DEF PruneInv, PrunerTypes
  <2> QED BY <2>1, <2>2, OtherPruners DEF PruneInv
<1>2. DOMAIN setup \subseteq Executors
  BY DEF JobsInv, TablesOK
<1>3. ASSUME NEW x \in Executors, NEW t \in Tables, PrunerStep(x, t) PROVE PruneInv'
  BY <1>3, PruneBegin, PruneLock, PruneDelete, PruneFail DEF PrunerStep
<1> QED BY <1>1, <1>2, <1>3, PruneNode, PruneRun, PruneReturn DEF Next

\* What Run reports is true, for any executors, tables and batch sizes: when it returns no
\* error a row it could delete is gone, unless another transaction held it at the last look,
\* all cycles were made or it was a dry run (prune.go:53-134).
THEOREM RunsReportTruly == Spec => []RunReports
<1>1. PruneInv => RunReports
  BY DEF PruneInv, TableInv, Reported, RunReports
<1> QED BY <1>1, JobsInit, JobsNext, PruneInit, PruneNext, PTL DEF Spec

-----------------------------------------------------------------------------
(* The v1 message API (MessageV1), with the store's other job: the cleaner *)
(* of the message table.                                                   *)

-----------------------------------------------------------------------------
(* The streams.                                                            *)

\* Where the part of relayed ends that a subscription was registered for.
End(s) == IF registered[s] THEN Len(relayed) ELSE until[s]

\* i is an envelope on a topic of the stream's subscription, from that part.
Wants(s, i) == i \in (since[s] + 1)..End(s) /\ Matches(request[s], relayed[i])

\* i is a member of the sequence.
In(i, seq) == \E n \in 1..Len(seq) : seq[n] = i

\* What was sent and is in the channel is what the stream wants, once and in order.
Delivered(s) ==
  /\ sent[s] \in Seq(Nat) /\ ch[s] \in Seq(Nat)
  /\ since[s] \in Nat /\ since[s] <= Len(relayed)
  /\ until[s] \in Nat /\ until[s] <= Len(relayed)
  /\ \A i : In(i, sent[s] \o ch[s]) <=> Wants(s, i)
  /\ \A m, n \in 1..Len(sent[s] \o ch[s]) : m < n => (sent[s] \o ch[s])[m] < (sent[s] \o ch[s])[n]

\* A subscription in the dispatcher's map has an open channel.
OpenIfThere == \A s \in Streams : registered[s] => open[s]

StreamShape ==
  /\ relayed \in Seq(Topics)
  /\ DOMAIN request = Streams /\ DOMAIN registered = Streams /\ DOMAIN open = Streams
  /\ DOMAIN ch = Streams /\ DOMAIN sent = Streams
  /\ DOMAIN since = Streams /\ DOMAIN until = Streams

StreamsInv == StreamShape /\ OpenIfThere /\ \A s \in Streams : Delivered(s)

\* Nothing is relayed and nothing wanted at first.
LEMMA StreamsInit == V1Init => StreamsInv
<1> SUFFICES ASSUME V1Init PROVE StreamsInv
  OBVIOUS
<1>1. StreamShape /\ OpenIfThere
  BY DEF V1Init, StreamShape, OpenIfThere
<1>2. ASSUME NEW s \in Streams PROVE Delivered(s)
  <2>1. /\ sent[s] = <<>> /\ ch[s] = <<>> /\ since[s] = 0 /\ until[s] = 0 /\ ~registered[s]
        /\ relayed = <<>>
    BY DEF V1Init
  <2>2. sent[s] \o ch[s] = <<>>
    BY <2>1
  <2> QED
    BY <2>1, <2>2 DEF Delivered, In, Wants, End
<1> QED
  BY <1>1, <1>2 DEF StreamsInv

\* The subscription of a stream and what was relayed stay.
SubStays(s) ==
  /\ request'[s] = request[s] /\ since'[s] = since[s]
  /\ sent'[s] = sent[s] /\ ch'[s] = ch[s]

\* A step that leaves the stream's subscription, but may end it.
LEMMA SubscriptionStays ==
  ASSUME NEW s \in Streams, Delivered(s), relayed' = relayed, relayed \in Seq(Topics), SubStays(s),
         \/ registered'[s] = registered[s] /\ until'[s] = until[s]
         \/ ~registered'[s] /\ until'[s] = IF registered[s] THEN Len(relayed) ELSE until[s]
  PROVE  Delivered(s)'
<1>1. End(s)' = End(s)
  BY DEF End
<1>2. \A i : Wants(s, i)' <=> Wants(s, i)
  BY <1>1 DEF Wants, SubStays
<1>3. until'[s] \in Nat /\ until'[s] <= Len(relayed)
  BY DEF Delivered
<1> QED
  BY <1>2, <1>3 DEF Delivered, SubStays

\* A new subscription wants what comes after it, and has a new channel (dispatcher.go:98-129).
LEMMA SubscriptionIsNew ==
  ASSUME NEW s \in Streams, StreamsInv, relayed' = relayed, NEW topics, Subscribe(s, topics)
  PROVE  Delivered(s)'
<1>1. /\ registered'[s] = TRUE /\ ch'[s] = <<>> /\ sent'[s] = <<>>
      /\ since'[s] = Len(relayed) /\ until' = until
  BY DEF Subscribe, StreamsInv, StreamShape
<1>2. Len(relayed) \in Nat /\ until[s] \in Nat /\ until[s] <= Len(relayed)
  BY DEF StreamsInv, StreamShape, Delivered
<1>3. sent'[s] \o ch'[s] = <<>>
  BY <1>1
<1>4. \A i : ~Wants(s, i)'
  BY <1>1, <1>2 DEF Wants, End
<1> QED
  BY <1>1, <1>2, <1>3, <1>4 DEF Delivered, In

\* An envelope goes from the channel to the stream.
LEMMA EnvelopeMoves ==
  ASSUME NEW a \in Seq(Nat), NEW b \in Seq(Nat), b # <<>>
  PROVE  /\ Append(a, Head(b)) \o Tail(b) = a \o b
         /\ Append(a, Head(b)) \in Seq(Nat) /\ Tail(b) \in Seq(Nat)
<1>1. Append(a, Head(b)) \in Seq(Nat) /\ Tail(b) \in Seq(Nat) /\ Len(Tail(b)) = Len(b) - 1
      /\ Len(Append(a, Head(b))) = Len(a) + 1 /\ Len(b) \in Nat \ {0} /\ Len(a) \in Nat
  OBVIOUS
<1>2. PICK x, y : x = Append(a, Head(b)) \o Tail(b) /\ y = a \o b
  OBVIOUS
<1>3. x \in Seq(Nat) /\ y \in Seq(Nat) /\ Len(x) = Len(a) + Len(b) /\ Len(y) = Len(a) + Len(b)
  BY <1>1, <1>2
<1>4. ASSUME NEW n \in 1..Len(x) PROVE x[n] = y[n]
  <2>1. CASE n <= Len(a)
    <3>1. x[n] = Append(a, Head(b))[n] /\ y[n] = a[n]
      BY <1>1, <1>2, <1>3, <2>1
    <3> QED
      BY <2>1, <3>1, <1>1
  <2>2. CASE n = Len(a) + 1
    <3>1. x[n] = Append(a, Head(b))[n] /\ y[n] = b[n - Len(a)]
      BY <1>1, <1>2, <1>3, <2>2
    <3> QED
      BY <2>2, <3>1, <1>1
  <2>3. CASE n > Len(a) + 1
    <3>1. PICK k : k = n - (Len(a) + 1)
      OBVIOUS
    <3>2. k \in 1..Len(Tail(b)) /\ n - Len(a) = k + 1
      BY <1>1, <1>3, <2>3, <3>1
    <3>3. x[n] = Tail(b)[k] /\ y[n] = b[n - Len(a)]
      BY <1>1, <1>2, <1>3, <2>3, <3>1
    <3>4. Tail(b)[k] = b[k + 1]
      BY <1>1, <3>2
    <3> QED
      BY <3>2, <3>3, <3>4
  <2>4. n <= Len(a) \/ n = Len(a) + 1 \/ n > Len(a) + 1
    <3>1. n \in Nat /\ Len(a) \in Nat
      BY <1>1
    <3> QED
      BY <3>1
  <2> QED
    BY <2>1, <2>2, <2>3, <2>4
<1>5. x = y
  BY <1>3, <1>4
<1> QED
  BY <1>1, <1>2, <1>5

\* The handlers and the readers: what concerns no subscription keeps them all, and what does
\* concerns that of one stream.
LEMMA StreamStepKeeps ==
  ASSUME StreamsInv, NEW s \in Streams, StreamStep(s)
  PROVE  StreamsInv'
<1>0. relayed' = relayed /\ relayed \in Seq(Topics)
  BY DEF StreamsInv, StreamShape, StreamStep, Begin, Deliver, SendReturns, ChannelClosed, Done, Receive,
         ReaderEnds, TakeRequest, Resubscribe, Cancel, StopReading
<1>1. CASE UNCHANGED subVars
  <2>1. StreamShape' /\ OpenIfThere'
    BY <1>0, <1>1 DEF StreamsInv, StreamShape, OpenIfThere, subVars
  <2>2. \A t \in Streams : Delivered(t)'
    BY <1>0, <1>1, SubscriptionStays DEF StreamsInv, subVars, SubStays
  <2> QED
    BY <2>1, <2>2 DEF StreamsInv
<1>2. ASSUME NEW topics, Subscribe(s, topics) PROVE StreamsInv'
  <2>1. /\ StreamShape'
        /\ \A t \in Streams : t # s =>
             /\ SubStays(t) /\ registered'[t] = registered[t] /\ until'[t] = until[t]
             /\ open'[t] = open[t]
        /\ open'[s]
    BY <1>0, <1>2 DEF StreamsInv, StreamShape, Subscribe, SubStays
  <2>2. OpenIfThere'
    BY <2>1 DEF StreamsInv, OpenIfThere
  <2>3. ASSUME NEW t \in Streams PROVE Delivered(t)'
    <3>1. CASE t = s
      BY <1>0, <1>2, <3>1, SubscriptionIsNew
    <3>2. CASE t # s
      BY <1>0, <2>1, <3>2, SubscriptionStays DEF StreamsInv
    <3> QED
      BY <3>1, <3>2
  <2> QED
    BY <2>1, <2>2, <2>3 DEF StreamsInv
<1>3. CASE Unsubscribe(s)
  <2>1. /\ StreamShape'
        /\ \A t \in Streams : t # s => registered'[t] = registered[t] /\ until'[t] = until[t]
        /\ ~registered'[s] /\ until'[s] = IF registered[s] THEN Len(relayed) ELSE until[s]
        /\ \A t \in Streams : SubStays(t) /\ open'[t] = open[t]
    BY <1>0, <1>3 DEF StreamsInv, StreamShape, Unsubscribe, SubStays
  <2>2. OpenIfThere'
    BY <2>1 DEF StreamsInv, OpenIfThere
  <2>3. \A t \in Streams : Delivered(t)'
    BY <1>0, <2>1, SubscriptionStays DEF StreamsInv
  <2> QED
    BY <2>1, <2>2, <2>3 DEF StreamsInv
<1>4. CASE Deliver(s)
  <2>1. /\ ch[s] # <<>> /\ UNCHANGED <<relayed, request, registered, open, since, until>>
        /\ ch' = [ch EXCEPT ![s] = Tail(ch[s])]
        /\ sent' = [sent EXCEPT ![s] = Append(sent[s], Head(ch[s]))]
    BY <1>4 DEF Deliver, StreamsInv, StreamShape
  <2>2. /\ StreamShape' /\ ch'[s] = Tail(ch[s]) /\ sent'[s] = Append(sent[s], Head(ch[s]))
        /\ \A t \in Streams : t # s => ch'[t] = ch[t] /\ sent'[t] = sent[t]
    BY <2>1 DEF StreamsInv, StreamShape
  <2>3. OpenIfThere'
    BY <2>1 DEF StreamsInv, OpenIfThere
  <2>4. \A t \in Streams : t # s => Delivered(t)'
    BY <1>0, <2>1, <2>2, SubscriptionStays DEF StreamsInv, SubStays
  <2>5. Delivered(s)'
    <3>1. Delivered(s)
      BY DEF StreamsInv
    <3>2. sent'[s] \o ch'[s] = sent[s] \o ch[s] /\ sent'[s] \in Seq(Nat) /\ ch'[s] \in Seq(Nat)
      BY <2>1, <2>2, <3>1, EnvelopeMoves DEF Delivered
    <3>3. \A i : Wants(s, i)' <=> Wants(s, i)
      BY <2>1 DEF Wants, End
    <3> QED
      BY <2>1, <3>1, <3>2, <3>3 DEF Delivered
  <2> QED
    BY <2>2, <2>3, <2>4, <2>5 DEF StreamsInv
<1> QED
  BY <1>1, <1>2, <1>3, <1>4 DEF StreamStep, Begin, SendReturns, ChannelClosed, Done, Receive,
     ReaderEnds, TakeRequest, Resubscribe, Cancel, StopReading

\* What is appended to the channel follows what was given.
LEMMA AppendAfter ==
  ASSUME NEW a \in Seq(Nat), NEW b \in Seq(Nat), NEW e \in Nat
  PROVE  a \o Append(b, e) = Append(a \o b, e)
<1>1. PICK x, y : x = a \o Append(b, e) /\ y = Append(a \o b, e)
  OBVIOUS
<1>2. /\ x \in Seq(Nat) /\ y \in Seq(Nat) /\ Len(a) \in Nat /\ Len(b) \in Nat
      /\ Len(x) = Len(a) + Len(b) + 1 /\ Len(y) = Len(a) + Len(b) + 1
  BY <1>1
<1>3. ASSUME NEW n \in 1..Len(x) PROVE x[n] = y[n]
  <2>1. CASE n <= Len(a)
    BY <1>1, <1>2, <2>1
  <2>2. CASE n > Len(a) /\ n <= Len(a) + Len(b)
    BY <1>1, <1>2, <2>2
  <2>3. CASE n = Len(a) + Len(b) + 1
    BY <1>1, <1>2, <2>3
  <2>4. n \in Nat /\ n <= Len(a) + Len(b) + 1
    BY <1>2
  <2> QED
    BY <1>2, <2>1, <2>2, <2>3, <2>4
<1>4. x = y
  BY <1>2, <1>3
<1> QED
  BY <1>1, <1>4

\* A last member above all others keeps the order.
LEMMA AppendAscends ==
  ASSUME NEW a \in Seq(Nat), NEW e \in Nat, \A m, n \in 1..Len(a) : m < n => a[m] < a[n],
         \A n \in 1..Len(a) : a[n] < e
  PROVE  \A m, n \in 1..Len(Append(a, e)) : m < n => Append(a, e)[m] < Append(a, e)[n]
<1>1. /\ Len(a) \in Nat /\ Len(Append(a, e)) = Len(a) + 1 /\ Append(a, e)[Len(a) + 1] = e
      /\ \A n \in 1..Len(a) : Append(a, e)[n] = a[n]
  OBVIOUS
<1> SUFFICES ASSUME NEW m \in 1..(Len(a) + 1), NEW n \in 1..(Len(a) + 1), m < n
             PROVE  Append(a, e)[m] < Append(a, e)[n]
  BY <1>1
<1>2. m \in 1..Len(a) /\ (n \in 1..Len(a) \/ n = Len(a) + 1)
  BY <1>1
<1>3. CASE n \in 1..Len(a)
  BY <1>1, <1>2, <1>3
<1>4. CASE n = Len(a) + 1
  BY <1>1, <1>2, <1>4
<1> QED
  BY <1>2, <1>3, <1>4

\* The dispatcher hands an envelope to the subscriptions that want it, and drops those whose
\* channel is full: they have all that came before (dispatcher.go:46-80).
LEMMA EnvelopeKeeps ==
  ASSUME StreamsInv, NEW topic \in Topics, HandleEnvelope(topic)
  PROVE  StreamsInv'
<1>1. PICK to : to = {s \in Streams : registered[s] /\ Matches(request[s], topic)}
  OBVIOUS
<1>2. PICK full : full = {s \in to : Len(ch[s]) >= Backlog}
  OBVIOUS
<1>3. /\ relayed' = Append(relayed, topic)
      /\ ch' = [s \in Streams |-> IF s \in to \ full THEN Append(ch[s], Len(relayed) + 1) ELSE ch[s]]
      /\ open' = [s \in Streams |-> open[s] /\ s \notin full]
      /\ registered' = [s \in Streams |-> registered[s] /\ s \notin full]
      /\ until' = [s \in Streams |-> IF s \in full THEN Len(relayed) ELSE until[s]]
      /\ UNCHANGED <<request, sent, since>>
  BY <1>1, <1>2 DEF HandleEnvelope
<1>4. relayed \in Seq(Topics) /\ Len(relayed) \in Nat
  BY DEF StreamsInv, StreamShape
<1>5. /\ Len(relayed') = Len(relayed) + 1 /\ relayed'[Len(relayed) + 1] = topic
      /\ \A i \in 1..Len(relayed) : relayed'[i] = relayed[i]
  BY <1>3, <1>4
<1>6. StreamShape'
  BY <1>3, <1>4 DEF StreamsInv, StreamShape
<1>7. OpenIfThere'
  BY <1>3 DEF StreamsInv, OpenIfThere
<1>8. ASSUME NEW s \in Streams PROVE Delivered(s)'
  <2>0. Delivered(s)
    BY DEF StreamsInv
  <2>1. /\ registered'[s] <=> registered[s] /\ s \notin full
        /\ until'[s] = IF s \in full THEN Len(relayed) ELSE until[s]
        /\ sent'[s] = sent[s] /\ since'[s] = since[s] /\ request'[s] = request[s]
    BY <1>3
  <2>2. until'[s] \in Nat /\ until'[s] <= Len(relayed') /\ since[s] <= Len(relayed')
    BY <1>4, <1>5, <2>0, <2>1 DEF Delivered
  <2>3. s \in full => s \in to /\ registered[s]
    BY <1>1, <1>2
  <2>4. End(s) \in Nat /\ End(s) <= Len(relayed)
    BY <1>4, <2>0 DEF End, Delivered
  <2>5. CASE s \in to \ full
    <3>1. registered[s] /\ registered'[s] /\ Matches(request[s], topic)
      BY <1>1, <2>1, <2>5
    <3>2. PICK next : next = Len(relayed) + 1
      OBVIOUS
    <3>3. PICK given : given = sent[s] \o ch[s]
      OBVIOUS
    <3>4. ch'[s] = Append(ch[s], next) /\ next \in Nat
      BY <1>3, <1>4, <2>5, <3>2
    <3>5. sent'[s] \o ch'[s] = Append(given, next) /\ ch'[s] \in Seq(Nat) /\ given \in Seq(Nat)
      <4>1. sent[s] \in Seq(Nat) /\ ch[s] \in Seq(Nat)
        BY <2>0 DEF Delivered
      <4>2. sent[s] \o Append(ch[s], next) = Append(sent[s] \o ch[s], next)
        BY <3>4, <4>1, AppendAfter
      <4> QED
        BY <2>1, <3>3, <3>4, <4>1, <4>2
    <3>6. End(s) = Len(relayed) /\ End(s)' = next
      BY <1>5, <3>1, <3>2 DEF End
    <3>7. \A i : Wants(s, i)' <=> Wants(s, i) \/ (i = next /\ since[s] < next)
      BY <1>4, <1>5, <2>0, <2>1, <3>1, <3>2, <3>6 DEF Wants, Delivered
    <3>8. since[s] < next
      BY <2>0, <3>2, <3>6, <1>4 DEF Delivered
    <3>9. \A i : In(i, Append(given, next)) <=> In(i, given) \/ i = next
      <4>1. Len(given) \in Nat /\ Len(Append(given, next)) = Len(given) + 1
            /\ Append(given, next)[Len(given) + 1] = next
            /\ \A n \in 1..Len(given) : Append(given, next)[n] = given[n]
        BY <3>4, <3>5
      <4>2. \A n \in 1..(Len(given) + 1) : n \in 1..Len(given) \/ n = Len(given) + 1
        BY <4>1
      <4>3. \A n \in 1..Len(given) : n \in 1..(Len(given) + 1)
        BY <4>1
      <4>4. Len(given) + 1 \in 1..(Len(given) + 1)
        BY <4>1
      <4> QED
        BY <4>1, <4>2, <4>3, <4>4 DEF In
    <3>10. \A m, n \in 1..Len(Append(given, next)) : m < n => Append(given, next)[m] < Append(given, next)[n]
      <4>1. \A m, n \in 1..Len(given) : m < n => given[m] < given[n]
        BY <2>0, <3>3 DEF Delivered
      <4>2. \A n \in 1..Len(given) : given[n] < next
        <5> SUFFICES ASSUME NEW n \in 1..Len(given) PROVE given[n] < next
          OBVIOUS
        <5>1. Wants(s, given[n])
          BY <2>0, <3>3 DEF Delivered, In
        <5>2. given[n] \in (since[s] + 1)..Len(relayed) /\ since[s] \in Nat
          BY <2>0, <3>6, <5>1 DEF Wants, Delivered
        <5> QED
          BY <1>4, <3>2, <5>2
      <4> QED
        BY <3>4, <3>5, <4>1, <4>2, AppendAscends
    <3> QED
      BY <2>0, <2>1, <2>2, <3>3, <3>5, <3>7, <3>8, <3>9, <3>10 DEF Delivered
  <2>6. CASE s \notin to \ full
    <3>1. ch'[s] = ch[s]
      BY <1>3, <2>6
    <3>2. \A i : Wants(s, i)' <=> Wants(s, i)
      <4>1. CASE registered'[s]
        <5>1. registered[s] /\ ~Matches(request[s], topic)
          BY <1>1, <2>1, <2>6, <4>1
        <5> QED
          BY <1>4, <1>5, <2>0, <2>1, <4>1, <5>1 DEF Wants, End, Delivered
      <4>2. CASE ~registered'[s]
        <5>1. End(s)' = End(s)
          BY <2>1, <2>3, <4>2 DEF End
        <5>2. PICK e : e = End(s)
          OBVIOUS
        <5>3. e \in Nat /\ e <= Len(relayed) /\ since[s] \in Nat
          BY <2>0, <2>4, <5>2 DEF Delivered
        <5>4. \A i \in (since[s] + 1)..e : relayed'[i] = relayed[i]
          BY <1>4, <1>5, <5>3
        <5>5. \A i : Wants(s, i)' <=> i \in (since[s] + 1)..e /\ Matches(request[s], relayed'[i])
          BY <2>1, <5>1, <5>2 DEF Wants, Matches
        <5>6. \A i : Wants(s, i) <=> i \in (since[s] + 1)..e /\ Matches(request[s], relayed[i])
          BY <5>2 DEF Wants
        <5> QED
          BY <5>4, <5>5, <5>6
      <4> QED
        BY <4>1, <4>2
    <3> QED
      BY <2>0, <2>1, <2>2, <3>1, <3>2 DEF Delivered
  <2> QED
    BY <2>5, <2>6
<1> QED
  BY <1>6, <1>7, <1>8 DEF StreamsInv

\* Every step keeps the streams.
LEMMA StreamsNext == StreamsInv /\ [V1Next]_v1Vars => StreamsInv'
<1> SUFFICES ASSUME StreamsInv, [V1Next]_v1Vars PROVE StreamsInv'
  OBVIOUS
<1>1. CASE UNCHANGED <<relayed, subVars>>
  <2>1. StreamShape' /\ OpenIfThere' /\ relayed \in Seq(Topics)
    BY <1>1 DEF StreamsInv, StreamShape, OpenIfThere, subVars
  <2>2. \A t \in Streams : Delivered(t)'
    BY <1>1, <2>1, SubscriptionStays DEF StreamsInv, subVars, SubStays
  <2> QED
    BY <2>1, <2>2 DEF StreamsInv
<1>2. ASSUME NEW s \in Streams, StreamStep(s) PROVE StreamsInv'
  BY <1>2, StreamStepKeeps
<1>3. ASSUME NEW topic \in Topics, HandleEnvelope(topic) PROVE StreamsInv'
  BY <1>3, EnvelopeKeeps
<1> QED
  BY <1>1, <1>2, <1>3
  DEF V1Next, v1Vars, streamVars, Close, QueryPage, InsertMessage, Clean, V1Ended

\* What a v1 stream has sent and holds in its channel is every envelope on the topics of its
\* subscription, once and in order, up to where the subscription ended, whatever the order of
\* envelopes, resubscriptions, overflows, cancellations and the service's Close
\* (dispatcher.go:46-129, api/message/v1/service.go:114-284).
THEOREM V1PrefixDelivered == V1Spec => []PrefixDelivered
<1>1. StreamsInv => PrefixDelivered
  <2> SUFFICES ASSUME StreamsInv, NEW s \in Streams, NEW end, NEW given,
                      end = IF registered[s] THEN Len(relayed) ELSE until[s],
                      given = sent[s] \o ch[s]
               PROVE  /\ registered[s] => open[s]
                      /\ ToSet(given) = {n \in (since[s] + 1)..end : Matches(request[s], relayed[n])}
                      /\ \A m, n \in 1..Len(given) : m < n => given[m] < given[n]
    BY DEF PrefixDelivered
  <2>1. Delivered(s)
    BY DEF StreamsInv
  <2>2. \A i : i \in ToSet(given) <=> In(i, given)
    <3>1. sent[s] \in Seq(Nat) /\ ch[s] \in Seq(Nat)
      BY <2>1 DEF Delivered
    <3>2. sent[s] \o ch[s] \in Seq(Nat)
      BY <3>1
    <3>3. DOMAIN given = 1..Len(given)
      BY <3>2
    <3> QED
      BY <3>3 DEF ToSet, In
  <2>3. \A i : i \in ToSet(given) <=> i \in (since[s] + 1)..end /\ Matches(request[s], relayed[i])
    BY <2>1, <2>2 DEF Delivered, Wants, End
  <2> QED
    BY <2>1, <2>3 DEF StreamsInv, OpenIfThere, Delivered
<1> QED
  BY <1>1, StreamsInit, StreamsNext, PTL DEF V1Spec

-----------------------------------------------------------------------------
(* The queries.                                                            *)

\* The order of rows is a strict order, total on rows with different keys.
Keyed(r) == r.time \in Nat /\ r.id \in Nat

LEMMA OrderIsTransitive ==
  ASSUME NEW q, NEW r, NEW s, NEW t, Keyed(r), Keyed(s), Keyed(t),
         InOrder(q, r, s), InOrder(q, s, t)
  PROVE  InOrder(q, r, t)
<1>1. Precedes(r, s) /\ Precedes(s, t) => Precedes(r, t)
  BY DEF Precedes, Keyed
<1>2. Precedes(t, s) /\ Precedes(s, r) => Precedes(t, r)
  BY DEF Precedes, Keyed
<1> QED
  BY <1>1, <1>2 DEF InOrder

\* The rows of the pages that a client has.
Got(c) == UNION {query[c].got[n] : n \in 1..Len(query[c].got)}

\* None of them has time 0.
Timed(c) == \A r \in Got(c) : r.time # 0

\* The pages are in the order of the query.
PagesInOrder(q, got) ==
  \A m, n \in 1..Len(got) : m < n => \A r \in got[m], s \in got[n] : InOrder(q, r, s)

\* A client between two pages: its cursor is the key of the last row it has, and each row that
\* matched all along is one it has or is still to come.
Between(c) ==
  LET cursor == query[c].cursor
  IN
  /\ Keyed(cursor) /\ cursor # NoCursor
  /\ Timed(c) =>
       /\ cursor.time # 0
       /\ \A r \in Got(c) : (r.time = cursor.time /\ r.id = cursor.id) \/ InOrder(Query[c], r, cursor)
       /\ \A r \in kept[c] : r \in Got(c) \/ InOrder(Query[c], cursor, r)

ClientInv(c) ==
  /\ query[c].got \in Seq(SUBSET MessageRows) /\ query[c].limit \in Nat
  /\ kept[c] \subseteq Matching(Query[c])
  /\ query[c].state = "begin" => query[c].cursor = NoCursor /\ query[c].got = <<>>
  /\ query[c].state = "paging" => Between(c)
  /\ Timed(c) => PagesInOrder(Query[c], query[c].got)
  /\ query[c].state = "complete" /\ Timed(c) => kept[c] \subseteq Got(c)

MessageTable == message \subseteq MessageRows /\ IsFiniteSet(message) /\ KeysDiffer(message)
QueriesInv ==
  /\ MessageTable /\ DOMAIN query = Clients /\ DOMAIN kept = Clients
  /\ \A c \in Clients : ClientInv(c)

\* A client begins with no pages.
LEMMA QueriesInit == V1Init => QueriesInv
<1> SUFFICES ASSUME V1Init PROVE QueriesInv
  OBVIOUS
<1>1. MessageTable
  BY MessageV1Assumption DEF V1Init, MessageTable
<1>2. DOMAIN query = Clients /\ DOMAIN kept = Clients
  BY DEF V1Init
<1>3. ASSUME NEW c \in Clients PROVE ClientInv(c)
  <2>1. /\ query[c].got = <<>> /\ query[c].limit = Query[c].limit /\ query[c].cursor = NoCursor
        /\ query[c].state \in {"begin", "absent"} /\ kept[c] = {}
    BY DEF V1Init
  <2>2. Query[c].limit \in Nat
    BY MessageV1Assumption
  <2> QED
    BY <2>1, <2>2 DEF ClientInv, PagesInOrder
<1> QED
  BY <1>1, <1>2, <1>3 DEF QueriesInv

\* A page is appended to those a client has.
LEMMA PageAppended ==
  ASSUME NEW got \in Seq(SUBSET MessageRows), NEW page \in SUBSET MessageRows
  PROVE  LET more == Append(got, page)
             rows == UNION {got[n] : n \in 1..Len(got)}
         IN  /\ more \in Seq(SUBSET MessageRows)
             /\ \A r : r \in UNION {more[n] : n \in 1..Len(more)} <=> r \in rows \/ r \in page
             /\ \A q : PagesInOrder(q, got) /\ (\A r \in rows, s \in page : InOrder(q, r, s))
                         => PagesInOrder(q, more)
<1>1. PICK more : more = Append(got, page)
  OBVIOUS
<1>2. /\ more \in Seq(SUBSET MessageRows) /\ Len(got) \in Nat /\ Len(more) = Len(got) + 1
      /\ more[Len(got) + 1] = page /\ \A n \in 1..Len(got) : more[n] = got[n]
  BY <1>1
<1>3. \A n : n \in 1..Len(more) <=> n \in 1..Len(got) \/ n = Len(got) + 1
  BY <1>2
<1>4. ASSUME NEW r
      PROVE  r \in UNION {more[n] : n \in 1..Len(more)} <=>
               r \in UNION {got[n] : n \in 1..Len(got)} \/ r \in page
  <2>1. r \in UNION {more[n] : n \in 1..Len(more)} <=> \E n \in 1..Len(more) : r \in more[n]
    OBVIOUS
  <2>2. r \in UNION {got[n] : n \in 1..Len(got)} <=> \E n \in 1..Len(got) : r \in got[n]
    OBVIOUS
  <2> QED
    BY <1>2, <1>3, <2>1, <2>2
<1>5. ASSUME NEW q, PagesInOrder(q, got),
             \A r \in UNION {got[n] : n \in 1..Len(got)} : \A s \in page : InOrder(q, r, s)
      PROVE  PagesInOrder(q, more)
  <2> SUFFICES ASSUME NEW m \in 1..Len(more), NEW n \in 1..Len(more), m < n,
                      NEW r \in more[m], NEW s \in more[n]
               PROVE  InOrder(q, r, s)
    BY DEF PagesInOrder
  <2>1. m \in 1..Len(got)
    BY <1>2, <1>3
  <2>2. r \in got[m]
    BY <1>2, <2>1
  <2>3. CASE n \in 1..Len(got)
    <3>1. s \in got[n]
      BY <1>2, <2>3
    <3> QED
      BY <1>5, <2>1, <2>2, <2>3, <3>1 DEF PagesInOrder
  <2>4. CASE n = Len(got) + 1
    <3>1. s \in page /\ r \in UNION {got[k] : k \in 1..Len(got)}
      BY <1>2, <2>1, <2>2, <2>4
    <3> QED
      BY <1>5, <3>1
  <2> QED
    BY <1>3, <2>3, <2>4
<1> QED
  BY <1>1, <1>2, <1>4, <1>5

\* A page has rows that match and follow.
LEMMA PageFollows ==
  ASSUME NEW q, NEW cursor, NEW limit, NEW page \in Pages(q, cursor, limit)
  PROVE  \A s \in page : s \in Matching(q) /\ Beyond(q, cursor, s)
  BY DEF Pages

\* A short page has all the rows that follow, and what follows a page comes after it.
LEMMA PageIsFirst ==
  ASSUME MessageTable, NEW q, NEW cursor, NEW limit \in Nat, NEW page \in Pages(q, cursor, limit),
         NEW r \in Matching(q), Beyond(q, cursor, r)
  PROVE  /\ Cardinality(page) < PageSize(limit) => r \in page
         /\ r \in page \/ \A s \in page : InOrder(q, s, r)
<1>1. PICK following : following = {s \in Matching(q) : Beyond(q, cursor, s)}
  OBVIOUS
<1>2. /\ page \subseteq following
      /\ Cardinality(page) = Least(PageSize(limit), Cardinality(following))
      /\ \A s \in page, t \in following \ page : InOrder(q, s, t)
  BY <1>1 DEF Pages
<1>3. following \subseteq message /\ r \in following
  BY <1>1 DEF Matching
<1>4. IsFiniteSet(following) /\ Cardinality(following) \in Nat
  BY <1>3, FS_Subset, FS_CardinalityType DEF MessageTable
<1>5. PageSize(limit) \in Nat
  BY MessageStoreAssumption DEF PageSize
<1>6. Cardinality(page) < PageSize(limit) => page = following
  <2>1. Cardinality(page) < PageSize(limit) => Cardinality(page) = Cardinality(following)
    BY <1>2, <1>4, <1>5 DEF Least
  <2> QED
    BY <1>2, <1>4, <2>1, FS_Subset
<1> QED
  BY <1>1, <1>2, <1>3, <1>6

\* A page is read, from the cursor of the last one: it comes after the rows the client has,
\* and no row that matched all along falls between (query.go:11-220).
LEMMA PageKeeps ==
  ASSUME QueriesInv, NEW c \in Clients, QueryPage(c)
  PROVE  QueriesInv'
<1>1. PICK q : q = Query[c]
  OBVIOUS
<1>2. PICK old : old = query[c]
  OBVIOUS
<1>3. /\ message' = message /\ old.state \in {"begin", "paging"}
      /\ kept' = [kept EXCEPT ![c] = IF old.state = "begin" THEN Matching(q) ELSE kept[c]]
  BY <1>1, <1>2 DEF QueryPage, QueriesInv
<1>4. MessageTable /\ MessageTable' /\ DOMAIN query = Clients /\ DOMAIN kept = Clients /\ ClientInv(c)
  BY <1>3 DEF QueriesInv, MessageTable
<1>5. \A p : Matching(p)' = Matching(p)
  BY <1>3 DEF Matching
<1>6. /\ DOMAIN kept' = Clients /\ \A d \in Clients : d # c => kept'[d] = kept[d]
      /\ kept'[c] = IF old.state = "begin" THEN Matching(q) ELSE kept[c]
  BY <1>3, <1>4
<1>7. kept'[c] \subseteq Matching(q)
  BY <1>1, <1>4, <1>6 DEF ClientInv
<1>8. DOMAIN query' = Clients /\ \A d \in Clients : d # c => query'[d] = query[d]
  BY <1>4 DEF QueryPage
<1>9. ASSUME NEW d \in Clients, d # c PROVE ClientInv(d)'
  <2>1. query'[d] = query[d] /\ kept'[d] = kept[d] /\ ClientInv(d)
    BY <1>6, <1>8, <1>9 DEF QueriesInv
  <2>2. Got(d)' = Got(d) /\ (Timed(d)' <=> Timed(d))
    BY <2>1 DEF Got, Timed
  <2>3. Between(d)' <=> Between(d)
    BY <2>1, <2>2 DEF Between
  <2> QED
    BY <1>5, <2>1, <2>2, <2>3 DEF ClientInv
<1>10. /\ old.got \in Seq(SUBSET MessageRows) /\ old.limit \in Nat
       /\ old.state = "begin" => old.cursor = NoCursor /\ old.got = <<>>
       /\ old.state = "paging" => Between(c)
       /\ Timed(c) => PagesInOrder(q, old.got)
  BY <1>1, <1>2, <1>4 DEF ClientInv
<1>11. CASE query' = [query EXCEPT ![c].state = "refused"]
  <2>1. query'[c].got = old.got /\ query'[c].limit = old.limit /\ query'[c].state = "refused"
    BY <1>2, <1>4, <1>11
  <2>2. Got(c)' = Got(c) /\ (Timed(c)' <=> Timed(c))
    BY <1>2, <2>1 DEF Got, Timed
  <2>3. ClientInv(c)'
    BY <1>1, <1>5, <1>7, <1>10, <2>1, <2>2 DEF ClientInv
  <2> QED
    BY <1>4, <1>6, <1>8, <1>9, <2>3 DEF QueriesInv
<1>12. ASSUME NEW page \in Pages(q, old.cursor, old.limit),
              NEW cursor \in NextCursors(q, page, old.limit),
              query' = [query EXCEPT ![c] =
                [state |-> IF cursor = NoCursor THEN "complete" ELSE "paging",
                 cursor |-> cursor, limit |-> NextLimit(old.limit), got |-> Append(old.got, page)]]
       PROVE  QueriesInv'
  <2>1. /\ query'[c].state = IF cursor = NoCursor THEN "complete" ELSE "paging"
        /\ query'[c].cursor = cursor /\ query'[c].limit = NextLimit(old.limit)
        /\ query'[c].got = Append(old.got, page)
    BY <1>4, <1>12
  <2>2. \A r \in page : r \in Matching(q) /\ Beyond(q, old.cursor, r)
    BY PageFollows
  <2>3. page \in SUBSET MessageRows /\ (\A r \in MessageRows : Keyed(r))
    <3>1. \A r \in page : r \in MessageRows
      BY <1>4, <2>2 DEF Matching, MessageTable
    <3> QED
      BY <3>1, MessageStoreAssumption DEF Keyed
  <2>4. Got(c) \subseteq MessageRows
    BY <1>2, <1>10 DEF Got
  <2>5. /\ Append(old.got, page) \in Seq(SUBSET MessageRows)
        /\ \A r : r \in Got(c)' <=> r \in Got(c) \/ r \in page
        /\ PagesInOrder(q, old.got) /\ (\A r \in Got(c), s \in page : InOrder(q, r, s))
             => PagesInOrder(q, Append(old.got, page))
    <3>1. PICK got : got = old.got
      OBVIOUS
    <3>2. /\ Got(c) = UNION {got[n] : n \in 1..Len(got)}
          /\ Got(c)' = UNION {Append(got, page)[n] : n \in 1..Len(Append(got, page))}
      BY <1>2, <2>1, <3>1 DEF Got
    <3>3. got \in Seq(SUBSET MessageRows)
      BY <1>10, <3>1
    <3> QED
      BY <2>3, <3>1, <3>2, <3>3, PageAppended
  <2>6. Timed(c)' => Timed(c) /\ \A r \in page : r.time # 0
    BY <2>5 DEF Timed
  <2>7. NextLimit(old.limit) \in Nat
    BY <1>10, MessageStoreAssumption DEF NextLimit, Least, PageSize
  <2>8. ASSUME Timed(c)
        PROVE  /\ \A r \in Got(c), s \in page : InOrder(q, r, s)
               /\ \A r \in kept'[c] : r \in Got(c) \/ Beyond(q, old.cursor, r)
    <3>1. CASE old.state = "begin"
      <4>1. old.cursor = NoCursor /\ Got(c) = {}
        BY <1>2, <1>10, <3>1 DEF Got
      <4> QED
        BY <4>1 DEF Beyond
    <3>2. CASE old.state = "paging"
      <4>1. Keyed(old.cursor) /\ old.cursor # NoCursor /\ old.cursor.time # 0
        BY <1>2, <1>10, <2>8, <3>2 DEF Between
      <4>2. \A r \in Got(c) : \/ r.time = old.cursor.time /\ r.id = old.cursor.id
                              \/ InOrder(q, r, old.cursor)
        BY <1>1, <1>2, <1>10, <2>8, <3>2 DEF Between
      <4>3. \A r \in kept[c] : r \in Got(c) \/ InOrder(q, old.cursor, r)
        BY <1>1, <1>2, <1>10, <2>8, <3>2 DEF Between
      <4>4. \A r : Beyond(q, old.cursor, r) <=> InOrder(q, old.cursor, r)
        BY <4>1 DEF Beyond
      <4>5. ASSUME NEW r \in Got(c), NEW s \in page PROVE InOrder(q, r, s)
        <5>1. InOrder(q, old.cursor, s) /\ Keyed(r) /\ Keyed(s)
          BY <2>2, <2>3, <2>4, <4>4
        <5>2. CASE InOrder(q, r, old.cursor)
          BY <4>1, <5>1, <5>2, OrderIsTransitive
        <5>3. CASE r.time = old.cursor.time /\ r.id = old.cursor.id
          BY <5>1, <5>3 DEF InOrder, Precedes
        <5> QED
          BY <4>2, <5>2, <5>3
      <4> QED
        BY <1>6, <3>2, <4>3, <4>4, <4>5
    <3> QED
      BY <1>3, <3>1, <3>2
  <2>9. Timed(c)' => PagesInOrder(q, Append(old.got, page))
    BY <1>10, <2>5, <2>6, <2>8
  <2>10. ASSUME Timed(c)', NEW r \in kept'[c]
         PROVE  /\ Cardinality(page) < PageSize(old.limit) => r \in Got(c)'
                /\ r \in Got(c)' \/ \A s \in page : InOrder(q, s, r)
    <3>1. CASE r \in Got(c)
      BY <2>5, <3>1
    <3>2. CASE Beyond(q, old.cursor, r)
      <4>1. /\ Cardinality(page) < PageSize(old.limit) => r \in page
            /\ r \in page \/ \A s \in page : InOrder(q, s, r)
        BY <1>4, <1>7, <1>10, <3>2, PageIsFirst
      <4> QED
        BY <2>5, <4>1
    <3> QED
      BY <2>6, <2>8, <2>10, <3>1, <3>2
  <2>11. CASE Cardinality(page) < PageSize(old.limit)
    <3>1. cursor = NoCursor
      BY <2>11 DEF NextCursors
    <3>2. query'[c].state = "complete"
      BY <2>1, <3>1
    <3>3. Timed(c)' => kept'[c] \subseteq Got(c)'
      BY <2>10, <2>11
    <3>4. ClientInv(c)'
      BY <1>1, <1>5, <1>7, <2>1, <2>5, <2>7, <2>9, <3>2, <3>3 DEF ClientInv
    <3> QED
      BY <1>4, <1>6, <1>8, <1>9, <3>4 DEF QueriesInv
  <2>12. CASE ~(Cardinality(page) < PageSize(old.limit))
    <3>1. PICK last \in page : /\ cursor = [time |-> last.time, id |-> last.id]
                               /\ \A s \in page \ {last} : InOrder(q, s, last)
      BY <2>12 DEF NextCursors
    <3>2. Keyed(last) /\ cursor.time = last.time /\ cursor.id = last.id
      BY <2>3, <3>1
    <3>3. Keyed(cursor) /\ cursor # NoCursor
      <4>1. cursor \in [time: Nat, id: Nat]
        BY <3>1, <3>2 DEF Keyed
      <4> QED
        BY <3>2, <4>1, MessageStoreAssumption DEF Keyed
    <3>4. query'[c].state = "paging"
      BY <2>1, <3>3
    <3>5. \A s : /\ InOrder(q, s, last) <=> InOrder(q, s, cursor)
                 /\ InOrder(q, last, s) <=> InOrder(q, cursor, s)
      BY <3>2 DEF InOrder, Precedes
    <3>6. CASE Timed(c)'
      <4>1. \A r \in Got(c)' : (r.time = cursor.time /\ r.id = cursor.id) \/ InOrder(q, r, cursor)
        <5> SUFFICES ASSUME NEW r, r \in Got(c)'
                     PROVE  (r.time = cursor.time /\ r.id = cursor.id) \/ InOrder(q, r, cursor)
          OBVIOUS
        <5>1. CASE r \in Got(c)
          BY <2>6, <2>8, <3>1, <3>5, <3>6, <5>1
        <5>2. CASE r \in page
          BY <3>1, <3>2, <3>5, <5>2
        <5> QED
          BY <2>5, <5>1, <5>2
      <4>2. cursor.time # 0
        BY <2>6, <3>1, <3>2, <3>6
      <4>3. \A r \in kept'[c] : r \in Got(c)' \/ InOrder(q, cursor, r)
        BY <2>10, <3>1, <3>5, <3>6
      <4>4. Between(c)'
        BY <1>1, <2>1, <3>3, <4>1, <4>2, <4>3 DEF Between
      <4>5. ClientInv(c)'
        BY <1>1, <1>5, <1>7, <2>1, <2>5, <2>7, <2>9, <3>4, <4>4 DEF ClientInv
      <4> QED
        BY <1>4, <1>6, <1>8, <1>9, <4>5 DEF QueriesInv
    <3>7. CASE ~Timed(c)'
      <4>1. Between(c)'
        BY <1>1, <2>1, <3>3, <3>7 DEF Between
      <4>5. ClientInv(c)'
        BY <1>1, <1>5, <1>7, <2>1, <2>5, <2>7, <2>9, <3>4, <4>1 DEF ClientInv
      <4> QED
        BY <1>4, <1>6, <1>8, <1>9, <4>5 DEF QueriesInv
    <3> QED
      BY <3>6, <3>7
  <2> QED
    BY <2>11, <2>12
<1> QED
  BY <1>1, <1>2, <1>4, <1>11, <1>12 DEF QueryPage

\* What the table loses no client is owed, and what it gains changes no cursor.
LEMMA TableKeeps ==
  ASSUME QueriesInv, query' = query, MessageTable', DOMAIN kept' = Clients,
         \A c \in Clients : kept'[c] \subseteq kept[c] /\ kept'[c] \subseteq Matching(Query[c])'
  PROVE  QueriesInv'
<1>1. ASSUME NEW c \in Clients PROVE ClientInv(c)'
  <2>1. ClientInv(c) /\ query'[c] = query[c]
    BY DEF QueriesInv
  <2>2. Got(c)' = Got(c) /\ (Timed(c)' <=> Timed(c))
    BY DEF Got, Timed
  <2>3. Between(c) => Between(c)'
    BY <2>2 DEF Between
  <2> QED
    BY <2>1, <2>2, <2>3 DEF ClientInv
<1> QED
  BY <1>1 DEF QueriesInv

\* A message is stored, if its key is new.
LEMMA InsertKeeps ==
  ASSUME QueriesInv, NEW row \in MessageRows, InsertMessage(row)
  PROVE  QueriesInv'
<1>1. message' = Inserted(row) /\ query' = query /\ kept' = kept
  BY DEF InsertMessage
<1>2. MessageTable
  BY DEF QueriesInv
<1>3. MessageTable' /\ message \subseteq message'
  <2>1. CASE \E r \in message : r.time = row.time /\ r.id = row.id
    BY <1>1, <1>2, <2>1 DEF Inserted, MessageTable
  <2>2. CASE ~\E r \in message : r.time = row.time /\ r.id = row.id
    <3>1. message' = message \cup {row}
      BY <1>1, <2>2 DEF Inserted
    <3>2. IsFiniteSet(message')
      BY <1>2, <3>1, FS_AddElement DEF MessageTable
    <3>3. KeysDiffer(message \cup {row})
      BY <1>2, <2>2 DEF MessageTable, KeysDiffer
    <3> QED
      BY <1>2, <3>1, <3>2, <3>3 DEF MessageTable
  <2> QED
    BY <2>1, <2>2
<1>4. \A c \in Clients : kept[c] \subseteq Matching(Query[c])'
  <2>1. \A c \in Clients : kept[c] \subseteq Matching(Query[c])
    BY DEF QueriesInv, ClientInv
  <2> QED
    BY <1>3, <2>1 DEF Matching
<1>5. DOMAIN kept' = Clients
  BY <1>1 DEF QueriesInv
<1> QED
  BY <1>1, <1>3, <1>4, <1>5, TableKeeps

\* The cleaner deletes rows while clients page.
LEMMA CleanKeeps ==
  ASSUME QueriesInv, NEW S, Clean(S)
  PROVE  QueriesInv'
<1>1. message' = message \ S /\ query' = query /\ kept' = [c \in Clients |-> kept[c] \ S]
  BY DEF Clean
<1>2. MessageTable'
  <2>1. MessageTable /\ message' \subseteq message
    BY <1>1 DEF QueriesInv
  <2>2. IsFiniteSet(message')
    BY <2>1, FS_Subset DEF MessageTable
  <2> QED
    BY <2>1, <2>2 DEF MessageTable, KeysDiffer
<1>3. ASSUME NEW c \in Clients
      PROVE  kept'[c] \subseteq kept[c] /\ kept'[c] \subseteq Matching(Query[c])'
  <2>1. kept'[c] = kept[c] \ S /\ kept[c] \subseteq Matching(Query[c])
    BY <1>1 DEF QueriesInv, ClientInv
  <2> QED
    BY <1>1, <2>1 DEF Matching
<1>4. DOMAIN kept' = Clients
  BY <1>1
<1> QED
  BY <1>1, <1>2, <1>3, <1>4, TableKeeps

\* Every step keeps the queries.
LEMMA QueriesNext == QueriesInv /\ [V1Next]_v1Vars => QueriesInv'
<1> SUFFICES ASSUME QueriesInv, [V1Next]_v1Vars PROVE QueriesInv'
  OBVIOUS
<1>1. CASE UNCHANGED queryVars
  <2>1. query' = query /\ kept' = kept /\ message' = message
    BY <1>1 DEF queryVars
  <2>2. MessageTable' /\ DOMAIN kept' = Clients
    BY <2>1 DEF QueriesInv, MessageTable
  <2>3. \A c \in Clients : kept'[c] \subseteq kept[c] /\ kept'[c] \subseteq Matching(Query[c])'
    BY <2>1 DEF QueriesInv, ClientInv, Matching
  <2> QED
    BY <2>1, <2>2, <2>3, TableKeeps
<1>2. ASSUME NEW c \in Clients, QueryPage(c) PROVE QueriesInv'
  BY <1>2, PageKeeps
<1>3. ASSUME NEW row \in MessageRows, InsertMessage(row) PROVE QueriesInv'
  BY <1>3, InsertKeeps
<1>4. ASSUME NEW S \in Cleanable, Clean(S) PROVE QueriesInv'
  BY <1>4, CleanKeeps
<1>5. ASSUME NEW s \in Streams, StreamStep(s) PROVE UNCHANGED queryVars
  BY <1>5 DEF StreamStep, Begin, Deliver, SendReturns, ChannelClosed, Done, Receive, ReaderEnds,
              TakeRequest, Resubscribe, Cancel, StopReading
<1> QED
  BY <1>1, <1>2, <1>3, <1>4, <1>5 DEF V1Next, v1Vars, HandleEnvelope, Close, V1Ended

\* Whatever is stored and cleaned between two pages, a client that pages to the end of a query
\* has each row that matched all along, no row twice, and all in the query's order, unless it
\* got a row of time 0, behind which the cursor compares the ids alone (query.go:11-220).
THEOREM V1PagesComplete == V1Spec => []PagesComplete
<1>1. QueriesInv => PagesComplete
  <2> SUFFICES ASSUME QueriesInv, NEW c \in Clients, NEW got, got = query[c].got,
                      \A r \in UNION ToSet(got) : r.time # 0
               PROVE  /\ query[c].state = "complete" => kept[c] \subseteq UNION ToSet(got)
                      /\ \A m, n \in 1..Len(got) : m < n =>
                           \A r \in got[m], s \in got[n] : InOrder(Query[c], r, s)
    BY DEF PagesComplete
  <2>1. ClientInv(c)
    BY DEF QueriesInv
  <2>2. got \in Seq(SUBSET MessageRows)
    BY <2>1 DEF ClientInv
  <2>3. UNION ToSet(got) = Got(c)
    BY <2>2 DEF ToSet, Got
  <2> QED
    BY <2>1, <2>3 DEF ClientInv, Timed, PagesInOrder
<1> QED
  BY <1>1, QueriesInit, QueriesNext, PTL DEF V1Spec
==============================================================================
