----------------------------- MODULE KeyPackages -----------------------------
(***************************************************************************)
(* Key packages: RegisterInstallation and UploadKeyPackage (service.go),   *)
(* the transaction of CreateOrUpdateInstallation (store.go), the           *)
(* installations backfiller that every node runs, and the two prune        *)
(* statements that delete installations and key packages.                  *)
(*                                                                         *)
(* The transactions run at READ COMMITTED.  Their writes are visible from  *)
(* the commit, and until then the row of the installation is locked: by    *)
(* the upsert of an upload, by the FOR UPDATE of the backfiller.  The      *)
(* sequence_id of a key package is drawn under that lock, so key packages  *)
(* of one installation have the order of the commits, and a table of them  *)
(* is a sequence per installation.                                         *)
(***************************************************************************)
EXTENDS Integers, Sequences, FiniteSets

CONSTANTS
  Installations,
  Packages,
  Uploads,       \* calls of RegisterInstallation and UploadKeyPackage
  Target, Sent,  \* of a call: the installation validation finds, and the key package
  Legacy,        \* installations from before key_packages existed: is_appended is NULL
  First,         \* First[i]: the key package of a legacy installation
  Backfillers,   \* one for each node
  SelectLimit,   \* rows of a backfill batch
  BatchSize,     \* rows of a prune batch
  Lifetime,      \* DEFAULT_LIFETIME_OF_KEY_PACKAGES, and of installations
  MaxTime,       \* bound of the clock
  NoRow

ASSUME KeyPackagesAssumption ==
  /\ Target \in [Uploads -> Installations] /\ Sent \in [Uploads -> Packages]
  /\ Legacy \subseteq Installations /\ First \in [Legacy -> Packages]
  /\ SelectLimit \in Nat \ {0} /\ BatchSize \in Nat \ {0}
  /\ Lifetime \in Nat /\ MaxTime \in Nat
  /\ IsFiniteSet(Installations)
  /\ Uploads \cap Backfillers = {}

Times == 0..MaxTime
InstallationRow == [key_package: Packages, created_at: Times, is_appended: BOOLEAN]
PackageRow == [key_package: Packages, created_at: Times]
ASSUME NoRowAssumption == NoRow \notin InstallationRow

VARIABLES
  clock,
  installations, \* the committed row of an installation, or NoRow
  key_packages,  \* the committed rows of an installation, by sequence_id
  upload,        \* where each upload is
  now,           \* the time it read before its transaction
  insert,        \* whether its, or the backfiller's, InsertKeyPackage found no such row
  backfill,      \* where each backfiller is
  selected,      \* the rows it selected: their values, by installation
  pruned,        \* ghost: the packages of an installation that were pruned since they were stored
  stored         \* ghost: the packages it has had, in the order of the commits

uploadVars == <<upload, now>>
backfillVars == <<backfill, selected>>
vars == <<clock, installations, key_packages, uploadVars, insert, backfillVars, pruned, stored>>

Range(s) == {s[n] : n \in 1..Len(s)}
Last(s) == s[Len(s)]
Txs == Uploads \cup Backfillers
Snapshots == UNION {[S -> PackageRow] : S \in SUBSET Installations}

\* Every structure has its shape.
TypeOK ==
  /\ clock \in Times
  /\ installations \in [Installations -> InstallationRow \cup {NoRow}]
  /\ key_packages \in [Installations -> Seq(PackageRow)]
  /\ upload \in [Uploads -> {"todo", "begun", "upserted", "inserted", "answered"}]
  /\ now \in [Uploads -> Times]
  /\ insert \in [Txs -> SUBSET Installations]
  /\ backfill \in [Backfillers -> {"idle", "selected", "inserted"}]
  /\ selected \in [Backfillers -> Snapshots]
  /\ pruned \in [Installations -> SUBSET Packages]
  /\ stored \in [Installations -> Seq(Packages)]

NoRows == [i \in {} |-> NoRow]

\* The node after the migration that added key_packages: rows from before it are there.
Init ==
  /\ clock = 0
  /\ installations = [i \in Installations |->
       IF i \in Legacy
       THEN [key_package |-> First[i], created_at |-> 0, is_appended |-> FALSE] ELSE NoRow]
  /\ key_packages = [i \in Installations |-> <<>>]
  /\ upload = [u \in Uploads |-> "todo"] /\ now = [u \in Uploads |-> 0]
  /\ insert = [t \in Txs |-> {}]
  /\ backfill = [b \in Backfillers |-> "idle"] /\ selected = [b \in Backfillers |-> NoRows]
  /\ pruned = [i \in Installations |-> {}]
  /\ stored = [i \in Installations |-> IF i \in Legacy THEN <<First[i]>> ELSE <<>>]

UploadHolds(u, i) == upload[u] \in {"upserted", "inserted"} /\ Target[u] = i

\* Mutant of BackfillHolds: the rows are selected without FOR UPDATE.
BackfillHoldsNothing(b, i) == FALSE

\* FOR UPDATE: the selected rows are locked to the end of the transaction.
BackfillHolds(b, i) == backfill[b] # "idle" /\ i \in DOMAIN selected[b]

Locked(i) ==
  \/ \E u \in Uploads : UploadHolds(u, i)
  \/ \E b \in Backfillers : BackfillHolds(b, i)

HasPackage(i, kp) == \E row \in Range(key_packages[i]) : row.key_package = kp

-----------------------------------------------------------------------------
(* RegisterInstallation and UploadKeyPackage.                              *)

\* The request is refused: publishing is disabled, there is no key package, or the
\* validation service finds it invalid, fails, or answers with another number of results.
Refuse(u) ==
  /\ upload[u] = "todo"
  /\ upload' = [upload EXCEPT ![u] = "answered"]
  /\ UNCHANGED <<clock, installations, key_packages, now, insert, backfillVars, pruned, stored>>

\* CreateOrUpdateInstallation reads the clock, then begins its transaction.
Begin(u) ==
  /\ upload[u] = "todo"
  /\ upload' = [upload EXCEPT ![u] = "begun"] /\ now' = [now EXCEPT ![u] = clock]
  /\ UNCHANGED <<clock, installations, key_packages, insert, backfillVars, pruned, stored>>

\* The upsert waits for the row; from here it is locked.
Upsert(u) ==
  /\ upload[u] = "begun" /\ ~Locked(Target[u])
  /\ upload' = [upload EXCEPT ![u] = "upserted"]
  /\ UNCHANGED <<clock, installations, key_packages, now, insert, backfillVars, pruned, stored>>

\* INSERT INTO key_packages ... ON CONFLICT DO NOTHING.
InsertKeyPackage(u) ==
  LET i == Target[u]
  IN
  /\ upload[u] = "upserted"
  /\ upload' = [upload EXCEPT ![u] = "inserted"]
  /\ insert' = [insert EXCEPT ![u] = IF HasPackage(i, Sent[u]) THEN {} ELSE {i}]
  /\ UNCHANGED <<clock, installations, key_packages, now, backfillVars, pruned, stored>>

\* What the upsert makes of a row: is_appended and created_at are those of its insertion.
Upserted(row, kp, time) ==
  IF row = NoRow THEN [key_package |-> kp, created_at |-> time, is_appended |-> TRUE]
                 ELSE [row EXCEPT !.key_package = kp]

\* The commit, after which the caller gets its answer or an error that says nothing of it.
CommitUpload(u) ==
  LET i == Target[u]
  IN
  /\ upload[u] = "inserted"
  /\ installations' = [installations EXCEPT ![i] = Upserted(@, Sent[u], now[u])]
  /\ key_packages' = [key_packages EXCEPT ![i] =
       IF i \in insert[u]
       THEN Append(@, [key_package |-> Sent[u], created_at |-> now[u]]) ELSE @]
  /\ pruned' = [pruned EXCEPT ![i] = @ \ {kp \in {Sent[u]} : i \in insert[u]}]
  /\ stored' = [stored EXCEPT ![i] = Append(@, Sent[u])]
  /\ upload' = [upload EXCEPT ![u] = "answered"]
  /\ insert' = [insert EXCEPT ![u] = {}]
  /\ UNCHANGED <<clock, now, backfillVars>>

\* A statement fails, the caller goes away or the node stops: the transaction rolls back.
FailUpload(u) ==
  /\ upload[u] \in {"begun", "upserted", "inserted"}
  /\ upload' = [upload EXCEPT ![u] = "answered"]
  /\ insert' = [insert EXCEPT ![u] = {}]
  /\ UNCHANGED <<clock, installations, key_packages, now, backfillVars, pruned, stored>>

\* What FetchKeyPackages answers for an installation: the package of its row, or nothing.
FetchKeyPackages(i) == {row.key_package : row \in {installations[i]} \ {NoRow}}

-----------------------------------------------------------------------------
(* The installations backfiller.                                           *)

\* Mutant of Unappended: the rows with is_appended = FALSE, which NULL is not.
UnappendedFalse == {}

\* is_appended IS NULL ... SKIP LOCKED
Unappended ==
  {i \in Installations : installations[i] # NoRow /\ ~installations[i].is_appended /\ ~Locked(i)}

\* A set of the first n members of S, whatever their order is.
Batch(S, n) == {T \in SUBSET S : Cardinality(T) = IF Cardinality(S) < n THEN Cardinality(S) ELSE n}

\* A cycle begins and finds rows; with none it sleeps.
Select(b) ==
  /\ backfill[b] = "idle" /\ Unappended # {}
  /\ \E S \in Batch(Unappended, SelectLimit) :
       selected' = [selected EXCEPT ![b] =
         [i \in S |-> [key_package |-> installations[i].key_package,
                       created_at |-> installations[i].created_at]]]
  /\ backfill' = [backfill EXCEPT ![b] = "selected"]
  /\ UNCHANGED <<clock, installations, key_packages, uploadVars, insert, pruned, stored>>

\* The loop over the rows: InsertKeyPackage and UpdateIsAppendedStatus.
InsertSelected(b) ==
  /\ backfill[b] = "selected"
  /\ backfill' = [backfill EXCEPT ![b] = "inserted"]
  /\ insert' = [insert EXCEPT ![b] =
       {i \in DOMAIN selected[b] : ~HasPackage(i, selected[b][i].key_package)}]
  /\ UNCHANGED <<clock, installations, key_packages, uploadVars, selected, pruned, stored>>

CommitBackfill(b) ==
  /\ backfill[b] = "inserted"
  /\ installations' = [i \in Installations |->
       IF i \in DOMAIN selected[b] /\ installations[i] # NoRow
       THEN [installations[i] EXCEPT !.is_appended = TRUE] ELSE installations[i]]
  /\ key_packages' = [i \in Installations |->
       IF i \in insert[b] THEN Append(key_packages[i], selected[b][i]) ELSE key_packages[i]]
  /\ pruned' = [i \in Installations |->
       IF i \in insert[b] THEN pruned[i] \ {selected[b][i].key_package} ELSE pruned[i]]
  /\ backfill' = [backfill EXCEPT ![b] = "idle"]
  /\ selected' = [selected EXCEPT ![b] = NoRows] /\ insert' = [insert EXCEPT ![b] = {}]
  /\ UNCHANGED <<clock, uploadVars, stored>>

\* A statement or the commit fails, or the node stops: all is rolled back and tried again.
FailBackfill(b) ==
  /\ backfill[b] # "idle"
  /\ backfill' = [backfill EXCEPT ![b] = "idle"]
  /\ selected' = [selected EXCEPT ![b] = NoRows] /\ insert' = [insert EXCEPT ![b] = {}]
  /\ UNCHANGED <<clock, installations, key_packages, uploadVars, pruned, stored>>

-----------------------------------------------------------------------------
(* Pruning.                                                                *)

Old(row) == row.created_at < clock - Lifetime

\* DeleteOldInstallationsBatch: by created_at, which an upload does not renew.
PruneInstallations ==
  LET old == {i \in Installations : installations[i] # NoRow /\ Old(installations[i]) /\ ~Locked(i)}
  IN
  /\ old # {}
  /\ \E S \in Batch(old, BatchSize) :
       installations' = [i \in Installations |-> IF i \in S THEN NoRow ELSE installations[i]]
  /\ UNCHANGED <<clock, key_packages, uploadVars, insert, backfillVars, pruned, stored>>

\* DeleteOldKeyPackagesBatch: all key packages of the installations of the batch's rows.
PruneKeyPackages ==
  LET old == {i \in Installations : \E row \in Range(key_packages[i]) : Old(row)}
  IN
  /\ old # {}
  /\ \E S \in SUBSET old :
       /\ S # {} /\ Cardinality(S) <= BatchSize
       /\ key_packages' = [i \in Installations |-> IF i \in S THEN <<>> ELSE key_packages[i]]
       /\ pruned' = [i \in Installations |->
            IF i \in S THEN pruned[i] \cup {row.key_package : row \in Range(key_packages[i])}
                       ELSE pruned[i]]
  /\ UNCHANGED <<clock, installations, uploadVars, insert, backfillVars, stored>>

TimePasses ==
  /\ clock < MaxTime
  /\ clock' = clock + 1
  /\ UNCHANGED <<installations, key_packages, uploadVars, insert, backfillVars, pruned, stored>>

\* No upload is under way, and the backfillers sleep.
Quiet ==
  /\ \A u \in Uploads : upload[u] = "answered"
  /\ \A b \in Backfillers : backfill[b] = "idle"
  /\ UNCHANGED vars

UploadStep(u) ==
  Refuse(u) \/ Begin(u) \/ Upsert(u) \/ InsertKeyPackage(u) \/ CommitUpload(u) \/ FailUpload(u)

Next ==
  \/ \E u \in Uploads : UploadStep(u)
  \/ \E b \in Backfillers :
       Select(b) \/ InsertSelected(b) \/ CommitBackfill(b) \/ FailBackfill(b)
  \/ PruneInstallations \/ PruneKeyPackages
  \/ TimePasses \/ Quiet

Spec == Init /\ [][Next]_vars

\* The backfillers' loops run: a cycle that can go on again and again goes on at last, so
\* not every one fails.  An upload that has its lock goes on to its end.
Fairness ==
  /\ \A b \in Backfillers :
       SF_vars(Select(b)) /\ SF_vars(InsertSelected(b)) /\ SF_vars(CommitBackfill(b))
  /\ \A u \in Uploads : WF_vars(InsertKeyPackage(u) \/ CommitUpload(u) \/ FailUpload(u))

FairSpec == Spec /\ Fairness

-----------------------------------------------------------------------------
(* Properties.                                                             *)

\* The last package that was uploaded is new, or repeats the one before it: it had not been
\* replaced by another.
Fresh(i) ==
  \A m, n \in 1..Len(stored[i]) :
    m < n /\ stored[i][m] = Last(stored[i]) => stored[i][n] = Last(stored[i])

\* "the newest key package is always inserted in last position in key_packages": for an
\* installation that is_appended, what FetchKeyPackages serves (its row in installations) is
\* the last of its key packages, unless it was pruned or an older package was uploaded again.
NewestIsLast ==
  \A i \in Installations :
    \A kp \in FetchKeyPackages(i) :
      /\ installations[i].is_appended /\ Fresh(i) /\ kp \notin pruned[i]
      => key_packages[i] # <<>> /\ Last(key_packages[i]).key_package = kp

\* "any new or updated installations makes its way into the key_packages table": every
\* installation is appended at last, or pruned.
AllAppended ==
  \A i \in Installations :
    <>[](installations[i] = NoRow \/ installations[i].is_appended)
=============================================================================
