-------------------------- MODULE KeyPackagesProofs --------------------------
(***************************************************************************)
(* Proofs about KeyPackages, for any installations, calls, backfillers and *)
(* limits: whatever uploads, backfills, prunes and roll-backs interleave,  *)
(* the key package that is served is the last one of key_packages.         *)
(***************************************************************************)
EXTENDS KeyPackages, TLAPS

\* Every structure has its shape; the row of an installation is no NoRow.
LEMMA RowTypes ==
  ASSUME TypeOK, NEW i \in Installations
  PROVE  /\ installations[i] = NoRow \/ installations[i] \in InstallationRow
         /\ key_packages[i] \in Seq(PackageRow) /\ Len(key_packages[i]) \in Nat
         /\ stored[i] \in Seq(Packages) /\ Len(stored[i]) \in Nat
         /\ pruned[i] \subseteq Packages
         /\ \A n \in 1..Len(key_packages[i]) : key_packages[i][n].key_package \in Packages
<1>1. key_packages[i] \in Seq(PackageRow) /\ stored[i] \in Seq(Packages)
  BY DEF TypeOK
<1>2. \A n \in 1..Len(key_packages[i]) : key_packages[i][n] \in PackageRow
  BY <1>1
<1>3. \A n \in 1..Len(key_packages[i]) : key_packages[i][n].key_package \in Packages
  BY <1>2 DEF PackageRow
<1> QED
  BY <1>1, <1>3 DEF TypeOK

\* kp is the package of row n.
IsRow(i, n, kp) == n \in 1..Len(key_packages[i]) /\ key_packages[i][n].key_package = kp

LEMMA HasPackageRow ==
  ASSUME NEW i, NEW kp
  PROVE  HasPackage(i, kp) <=> \E n : IsRow(i, n, kp)
  BY DEF HasPackage, Range, IsRow

-----------------------------------------------------------------------------
(* The inductive invariant.                                                *)

\* An installation's row has the package that was stored last.
ServedIsStored ==
  \A i \in Installations : installations[i] # NoRow =>
    stored[i] # <<>> /\ installations[i].key_package = Last(stored[i])

\* Every row of key_packages was stored.
WereStored(rows, st) ==
  \A n \in 1..Len(rows) : \E m \in 1..Len(st) : st[m] = rows[n].key_package
RowsWereStored == \A i \in Installations : WereStored(key_packages[i], stored[i])

\* A row behind another was stored after it.
InOrder(rows, st) ==
  \A p, q \in 1..Len(rows) : p < q =>
    \E m, n \in 1..Len(st) : m < n /\ st[m] = rows[p].key_package /\ st[n] = rows[q].key_package
RowsInOrder == \A i \in Installations : InOrder(key_packages[i], stored[i])

\* The package is in key_packages, or was until it was pruned.
Kept(i, kp) == HasPackage(i, kp) \/ kp \in pruned[i]

\* The package of an appended installation is.
AppendedIsKept ==
  \A i \in Installations : installations[i] # NoRow /\ installations[i].is_appended =>
    Kept(i, installations[i].key_package)

\* An insert that found its package leaves it to the row it found.
FoundIsKept ==
  /\ \A u \in Uploads : upload[u] = "inserted" /\ Target[u] \notin insert[u] =>
       Kept(Target[u], Sent[u])
  /\ \A b \in Backfillers : backfill[b] = "inserted" =>
       \A i \in DOMAIN selected[b] : i \notin insert[b] => Kept(i, selected[b][i].key_package)

\* What a backfiller selected is what is there, until it commits: the row is locked.
SelectedIsCurrent ==
  \A b \in Backfillers : backfill[b] # "idle" =>
    \A i \in DOMAIN selected[b] :
      /\ i \in Installations /\ installations[i] # NoRow
      /\ selected[b][i].key_package = installations[i].key_package

\* And what it did not find nobody else inserts.
InsertIsNew ==
  \A b \in Backfillers : backfill[b] = "inserted" =>
    \A i \in insert[b] : i \in DOMAIN selected[b] /\ ~HasPackage(i, selected[b][i].key_package)

\* The locks of the rows exclude each other.
LocksExclude ==
  /\ \A b \in Backfillers, u \in Uploads : \A i \in Installations :
       ~(BackfillHolds(b, i) /\ UploadHolds(u, i))
  /\ \A b, c \in Backfillers : \A i \in Installations :
       BackfillHolds(b, i) /\ BackfillHolds(c, i) => b = c

TablesInv == ServedIsStored /\ RowsWereStored /\ RowsInOrder /\ AppendedIsKept
TxInv == FoundIsKept /\ SelectedIsCurrent /\ InsertIsNew /\ LocksExclude
PackagesInv == TypeOK /\ TablesInv /\ TxInv

\* At first there are the rows from before the migration, and no key packages.
LEMMA PackagesInit == Init => PackagesInv
<1> SUFFICES ASSUME Init PROVE PackagesInv
  OBVIOUS
<1>1. TypeOK
  <2>1. NoRows \in Snapshots
    <3>1. NoRows \in [{} -> PackageRow]
      BY DEF NoRows
    <3> QED
      BY <3>1 DEF Snapshots
  <2>2. \A i \in Legacy : [key_package |-> First[i], created_at |-> 0, is_appended |-> FALSE] \in InstallationRow
    BY KeyPackagesAssumption DEF InstallationRow, Times
  <2>3. installations \in [Installations -> InstallationRow \cup {NoRow}]
    BY <2>2 DEF Init
  <2>4. stored \in [Installations -> Seq(Packages)]
    <3>1. \A i \in Legacy : <<First[i]>> \in Seq(Packages)
      BY KeyPackagesAssumption
    <3> QED
      BY <3>1 DEF Init
  <2>5. clock \in Times /\ now \in [Uploads -> Times]
    BY KeyPackagesAssumption DEF Init, Times
  <2> QED
    BY <2>1, <2>3, <2>4, <2>5 DEF Init, TypeOK
<1>2. ServedIsStored
  <2> SUFFICES ASSUME NEW i \in Installations, installations[i] # NoRow
               PROVE  stored[i] # <<>> /\ installations[i].key_package = Last(stored[i])
    BY DEF ServedIsStored
  <2>1. i \in Legacy
    BY DEF Init
  <2>2. installations[i].key_package = First[i] /\ stored[i] = <<First[i]>>
    BY <2>1 DEF Init
  <2> QED
    BY <2>2 DEF Last
<1>3. RowsWereStored /\ RowsInOrder
  <2>1. \A i \in Installations : key_packages[i] = <<>>
    BY DEF Init
  <2> QED
    BY <2>1 DEF RowsWereStored, RowsInOrder, WereStored, InOrder
<1>4. AppendedIsKept
  <2> SUFFICES ASSUME NEW i \in Installations, installations[i] # NoRow
               PROVE  installations[i].is_appended = FALSE
    BY DEF AppendedIsKept
  <2>1. i \in Legacy
    BY DEF Init
  <2> QED
    BY <2>1 DEF Init
<1>5. TxInv
  BY DEF Init, TxInv, FoundIsKept, SelectedIsCurrent, InsertIsNew, LocksExclude, BackfillHolds
<1> QED
  BY <1>1, <1>2, <1>3, <1>4, <1>5 DEF PackagesInv, TablesInv

-----------------------------------------------------------------------------
(* What a step that touches only some of the state keeps.                  *)

\* Kept is for ever: a package leaves key_packages for pruned, and pruned for key_packages.
KeptStays == \A i \in Installations : \A kp : Kept(i, kp) => Kept(i, kp)'

\* The tables and their ghosts are untouched.
LEMMA TablesUntouched ==
  ASSUME TablesInv, UNCHANGED <<installations, key_packages, pruned, stored>>
  PROVE  TablesInv' /\ KeptStays /\ \A i, kp : HasPackage(i, kp)' <=> HasPackage(i, kp)
<1>1. \A i, kp : HasPackage(i, kp)' <=> HasPackage(i, kp)
  BY DEF HasPackage
<1>2. KeptStays
  BY <1>1 DEF KeptStays, Kept
<1>3. ServedIsStored' /\ RowsWereStored' /\ RowsInOrder'
  <2>1. ServedIsStored'
    BY DEF TablesInv, ServedIsStored, Last
  <2>2. RowsWereStored'
    BY DEF TablesInv, RowsWereStored
  <2>3. RowsInOrder'
    BY DEF TablesInv, RowsInOrder
  <2> QED
    BY <2>1, <2>2, <2>3
<1>4. AppendedIsKept'
  BY <1>2 DEF TablesInv, AppendedIsKept, KeptStays
<1> QED
  BY <1>1, <1>2, <1>3, <1>4 DEF TablesInv

\* The tables stay and the transactions too, but for one upload that neither takes a lock nor
\* leaves an insert behind.
LEMMA UploadMoves ==
  ASSUME PackagesInv, NEW u \in Uploads, UNCHANGED <<installations, key_packages, pruned, stored, backfillVars>>,
         \A v \in Uploads : v # u => upload'[v] = upload[v],
         \A x \in Txs : x # u => insert'[x] = insert[x],
         \A i \in Installations : UploadHolds(u, i)' => UploadHolds(u, i) \/ ~Locked(i),
         upload'[u] = "inserted" /\ Target[u] \notin insert'[u] => Kept(Target[u], Sent[u])
  PROVE  TablesInv' /\ TxInv'
<1>1. TablesInv' /\ KeptStays /\ \A i, kp : HasPackage(i, kp)' <=> HasPackage(i, kp)
  BY TablesUntouched DEF PackagesInv
<1>2. backfill' = backfill /\ selected' = selected /\ installations' = installations
  BY DEF backfillVars
<1>3. \A b \in Backfillers : insert'[b] = insert[b]
  BY KeyPackagesAssumption DEF Txs
<1>4. FoundIsKept'
  <2>1. ASSUME NEW v \in Uploads, upload'[v] = "inserted", Target[v] \notin insert'[v]
        PROVE  Kept(Target[v], Sent[v])'
    <3>1. Target[v] \in Installations
      BY KeyPackagesAssumption
    <3>2. Kept(Target[v], Sent[v])
      <4>1. CASE v = u
        BY <2>1, <4>1
      <4>2. CASE v # u
        BY <2>1, <4>2 DEF PackagesInv, TxInv, FoundIsKept, Txs
      <4> QED
        BY <4>1, <4>2
    <3> QED
      BY <1>1, <3>1, <3>2 DEF KeptStays
  <2>2. ASSUME NEW b \in Backfillers, backfill'[b] = "inserted", NEW i \in DOMAIN selected'[b], i \notin insert'[b]
        PROVE  Kept(i, selected[b][i].key_package)'
    <3>1. Kept(i, selected[b][i].key_package) /\ i \in Installations
      BY <1>2, <1>3, <2>2 DEF PackagesInv, TxInv, FoundIsKept, SelectedIsCurrent
    <3> QED
      BY <1>1, <1>2, <3>1 DEF KeptStays
  <2> QED
    BY <2>1, <2>2 DEF FoundIsKept
<1>5. SelectedIsCurrent'
  BY <1>2 DEF PackagesInv, TxInv, SelectedIsCurrent
<1>6. InsertIsNew'
  BY <1>1, <1>2, <1>3 DEF PackagesInv, TxInv, InsertIsNew
<1>7. LocksExclude'
  <2>1. \A b \in Backfillers : \A i \in Installations : BackfillHolds(b, i)' <=> BackfillHolds(b, i)
    BY <1>2 DEF BackfillHolds
  <2>2. \A b \in Backfillers : \A i \in Installations : BackfillHolds(b, i) => Locked(i)
    BY DEF Locked
  <2>3. \A v \in Uploads : \A i \in Installations :
           UploadHolds(v, i)' => UploadHolds(v, i) \/ ~Locked(i)
    BY DEF UploadHolds
  <2> QED
    BY <2>1, <2>2, <2>3 DEF PackagesInv, TxInv, LocksExclude
<1> QED
  BY <1>1, <1>4, <1>5, <1>6, <1>7 DEF TxInv

\* The tables stay and the transactions too, but for one backfiller that selects unlocked rows,
\* inserts what it does not find, or gives up.
LEMMA BackfillMoves ==
  ASSUME PackagesInv, NEW b \in Backfillers,
         UNCHANGED <<installations, key_packages, pruned, stored, upload>>,
         \A c \in Backfillers : c # b => backfill'[c] = backfill[c] /\ selected'[c] = selected[c],
         \A x \in Txs : x # b => insert'[x] = insert[x],
         backfill'[b] # "idle" => \A i \in DOMAIN selected'[b] :
           /\ i \in Installations /\ installations[i] # NoRow
           /\ selected'[b][i].key_package = installations[i].key_package
           /\ BackfillHolds(b, i) \/ ~Locked(i),
         backfill'[b] = "inserted" =>
           /\ \A i \in insert'[b] : i \in DOMAIN selected'[b] /\ ~HasPackage(i, installations[i].key_package)
           /\ \A i \in DOMAIN selected'[b] : i \notin insert'[b] => Kept(i, installations[i].key_package)
  PROVE  TablesInv' /\ TxInv'
<1>1. TablesInv' /\ KeptStays /\ \A i, kp : HasPackage(i, kp)' <=> HasPackage(i, kp)
  BY TablesUntouched DEF PackagesInv
<1>2. \A u \in Uploads : insert'[u] = insert[u]
  BY KeyPackagesAssumption DEF Txs
<1>3. \A c \in Backfillers : c # b => insert'[c] = insert[c]
  BY DEF Txs
<1>4. SelectedIsCurrent'
  BY DEF PackagesInv, TxInv, SelectedIsCurrent
<1>5. FoundIsKept'
  <2>1. ASSUME NEW u \in Uploads, upload'[u] = "inserted", Target[u] \notin insert'[u]
        PROVE  Kept(Target[u], Sent[u])'
    <3>1. Target[u] \in Installations /\ Kept(Target[u], Sent[u])
      BY <1>2, <2>1, KeyPackagesAssumption DEF PackagesInv, TxInv, FoundIsKept
    <3> QED
      BY <1>1, <3>1 DEF KeptStays
  <2>2. ASSUME NEW c \in Backfillers, backfill'[c] = "inserted", NEW i \in DOMAIN selected'[c],
               i \notin insert'[c]
        PROVE  \E kp : kp = selected'[c][i].key_package /\ Kept(i, kp)'
    <3>1. CASE c = b
      <4>1. /\ i \in Installations /\ Kept(i, installations[i].key_package)
            /\ selected'[b][i].key_package = installations[i].key_package
        BY <2>2, <3>1
      <4> QED
        BY <1>1, <3>1, <4>1 DEF KeptStays
    <3>2. CASE c # b
      <4>1. /\ i \in Installations /\ Kept(i, selected[c][i].key_package)
            /\ selected'[c] = selected[c]
        BY <1>3, <2>2, <3>2 DEF PackagesInv, TxInv, FoundIsKept, SelectedIsCurrent
      <4> QED
        BY <1>1, <4>1 DEF KeptStays
    <3> QED
      BY <3>1, <3>2
  <2>3. \A c \in Backfillers : backfill'[c] = "inserted" => \A i \in DOMAIN selected'[c] :
          i \notin insert'[c] => Kept(i, selected[c][i].key_package)'
    BY <2>2
  <2> QED
    BY <2>1, <2>3 DEF FoundIsKept
<1>6. InsertIsNew'
  <2>1. ASSUME NEW c \in Backfillers, backfill'[c] = "inserted", NEW i \in insert'[c]
        PROVE  i \in DOMAIN selected'[c] /\ \E kp : kp = selected'[c][i].key_package /\ ~HasPackage(i, kp)'
    <3>1. CASE c = b
      <4>1. /\ i \in DOMAIN selected'[b] /\ ~HasPackage(i, installations[i].key_package)
            /\ selected'[b][i].key_package = installations[i].key_package
        BY <2>1, <3>1
      <4> QED
        BY <1>1, <3>1, <4>1
    <3>2. CASE c # b
      <4>1. /\ i \in DOMAIN selected[c] /\ ~HasPackage(i, selected[c][i].key_package)
            /\ selected'[c] = selected[c]
        BY <1>3, <2>1, <3>2 DEF PackagesInv, TxInv, InsertIsNew
      <4> QED
        BY <1>1, <4>1
    <3> QED
      BY <3>1, <3>2
  <2>2. \A c \in Backfillers : backfill'[c] = "inserted" => \A i \in insert'[c] :
          i \in DOMAIN selected'[c] /\ ~HasPackage(i, selected[c][i].key_package)'
    BY <2>1
  <2> QED
    BY <2>2 DEF InsertIsNew
<1>7. LocksExclude'
  <2>1. \A c \in Backfillers : \A i \in Installations :
           BackfillHolds(c, i)' => BackfillHolds(c, i) \/ (c = b /\ ~Locked(i))
    <3> SUFFICES ASSUME NEW c \in Backfillers, NEW i \in Installations, BackfillHolds(c, i)'
                 PROVE  BackfillHolds(c, i) \/ (c = b /\ ~Locked(i))
      OBVIOUS
    <3>1. backfill'[c] # "idle" /\ i \in DOMAIN selected'[c]
      BY DEF BackfillHolds
    <3>2. CASE c = b
      BY <3>1, <3>2
    <3>3. CASE c # b
      BY <3>1, <3>3 DEF BackfillHolds
    <3> QED
      BY <3>2, <3>3
  <2>2. \A u \in Uploads : \A i \in Installations : UploadHolds(u, i)' <=> UploadHolds(u, i)
    BY DEF UploadHolds
  <2>3. \A i \in Installations : /\ \A u \in Uploads : UploadHolds(u, i) => Locked(i)
                                 /\ \A c \in Backfillers : BackfillHolds(c, i) => Locked(i)
    BY DEF Locked
  <2> QED
    BY <2>1, <2>2, <2>3 DEF PackagesInv, TxInv, LocksExclude
<1> QED
  BY <1>1, <1>4, <1>5, <1>6, <1>7 DEF TxInv

-----------------------------------------------------------------------------
(* The uploads.                                                            *)

\* A refusal, the begin, the upsert, the insert and the end of a transaction that fails.
LEMMA UploadTries ==
  ASSUME PackagesInv, NEW u \in Uploads,
         Refuse(u) \/ Begin(u) \/ Upsert(u) \/ InsertKeyPackage(u) \/ FailUpload(u)
  PROVE  PackagesInv'
<1> DEFINE i == Target[u]
<1>0. u \in Txs /\ i \in Installations
  BY KeyPackagesAssumption DEF Txs
<1>1. UNCHANGED <<clock, installations, key_packages, pruned, stored, backfillVars>>
  BY DEF Refuse, Begin, Upsert, InsertKeyPackage, FailUpload
<1>2. /\ upload \in [Uploads -> {"todo", "begun", "upserted", "inserted", "answered"}]
      /\ now \in [Uploads -> Times] /\ clock \in Times /\ insert \in [Txs -> SUBSET Installations]
  BY DEF PackagesInv, TypeOK
<1>3. /\ upload' \in [Uploads -> {"todo", "begun", "upserted", "inserted", "answered"}]
      /\ \A v \in Uploads : v # u => upload'[v] = upload[v]
  BY <1>2 DEF Refuse, Begin, Upsert, InsertKeyPackage, FailUpload
<1>4. now' \in [Uploads -> Times]
  BY <1>2 DEF Refuse, Begin, Upsert, InsertKeyPackage, FailUpload
<1>5. insert' \in [Txs -> SUBSET Installations] /\ \A x \in Txs : x # u => insert'[x] = insert[x]
  <2>1. insert' = insert \/ \E S \in SUBSET Installations : insert' = [insert EXCEPT ![u] = S]
    BY <1>0 DEF Refuse, Begin, Upsert, InsertKeyPackage, FailUpload
  <2> QED
    BY <1>0, <1>2, <2>1
<1>6. TypeOK'
  BY <1>1, <1>3, <1>4, <1>5 DEF PackagesInv, TypeOK, backfillVars
<1>7. \A j \in Installations : UploadHolds(u, j)' => UploadHolds(u, j) \/ ~Locked(j)
  BY <1>2 DEF Refuse, Begin, Upsert, InsertKeyPackage, FailUpload, UploadHolds
<1>8. upload'[u] = "inserted" /\ i \notin insert'[u] => Kept(i, Sent[u])
  <2>1. upload'[u] = "inserted" => InsertKeyPackage(u)
    BY <1>2 DEF Refuse, Begin, Upsert, InsertKeyPackage, FailUpload
  <2>2. InsertKeyPackage(u) => insert'[u] = IF HasPackage(i, Sent[u]) THEN {} ELSE {i}
    BY <1>0, <1>2 DEF InsertKeyPackage
  <2> QED
    BY <2>1, <2>2 DEF Kept
<1>9. TablesInv' /\ TxInv'
  <2> HIDE DEF i
  <2> QED
    BY <1>1, <1>3, <1>5, <1>7, <1>8, UploadMoves DEF i
<1> QED
  BY <1>6, <1>9 DEF PackagesInv

\* The books of an installation when more was stored.
LEMMA MoreStored ==
  ASSUME NEW rows \in Seq(PackageRow), NEW st \in Seq(Packages), NEW kp \in Packages,
         WereStored(rows, st), InOrder(rows, st)
  PROVE  WereStored(rows, Append(st, kp)) /\ InOrder(rows, Append(st, kp))
<1>1. \A m \in 1..Len(st) : m \in 1..Len(Append(st, kp)) /\ Append(st, kp)[m] = st[m]
  OBVIOUS
<1>2. WereStored(rows, Append(st, kp))
  <2> SUFFICES ASSUME NEW n \in 1..Len(rows)
               PROVE  \E m \in 1..Len(Append(st, kp)) : Append(st, kp)[m] = rows[n].key_package
    BY DEF WereStored
  <2>1. PICK m \in 1..Len(st) : st[m] = rows[n].key_package
    BY DEF WereStored
  <2> QED
    BY <1>1, <2>1
<1>3. InOrder(rows, Append(st, kp))
  <2> SUFFICES ASSUME NEW p \in 1..Len(rows), NEW q \in 1..Len(rows), p < q
               PROVE  \E m, n \in 1..Len(Append(st, kp)) :
                        /\ m < n /\ Append(st, kp)[m] = rows[p].key_package
                        /\ Append(st, kp)[n] = rows[q].key_package
    BY DEF InOrder
  <2>1. PICK m \in 1..Len(st), n \in 1..Len(st) :
           m < n /\ st[m] = rows[p].key_package /\ st[n] = rows[q].key_package
    BY DEF InOrder
  <2> QED
    BY <1>1, <2>1
<1> QED
  BY <1>2, <1>3

\* A row is appended whose package was stored after those of the rows before it.
LEMMA RowAppended ==
  ASSUME NEW rows \in Seq(PackageRow), NEW st \in Seq(Packages), NEW row \in PackageRow,
         WereStored(rows, st), InOrder(rows, st),
         NEW last \in 1..Len(st), st[last] = row.key_package,
         \A n \in 1..Len(rows) : \E m \in 1..Len(st) : m < last /\ st[m] = rows[n].key_package
  PROVE  WereStored(Append(rows, row), st) /\ InOrder(Append(rows, row), st)
<1> DEFINE ext == Append(rows, row)
<1>1. /\ Len(ext) = Len(rows) + 1 /\ ext[Len(rows) + 1] = row /\ Len(rows) \in Nat
      /\ \A n \in 1..Len(rows) : ext[n] = rows[n]
  OBVIOUS
<1>2. \A n \in 1..Len(ext) : n \in 1..Len(rows) \/ n = Len(rows) + 1
  BY <1>1
<1> HIDE DEF ext
<1>3. WereStored(ext, st)
  BY <1>1, <1>2 DEF WereStored
<1>4. ASSUME NEW p \in 1..Len(ext), NEW q \in 1..Len(ext), p < q
      PROVE  \E m, n \in 1..Len(st) : m < n /\ st[m] = ext[p].key_package /\ st[n] = ext[q].key_package
  <2>1. p \in 1..Len(rows)
    BY <1>1, <1>4
  <2>2. CASE q \in 1..Len(rows)
    <3>1. PICK m \in 1..Len(st), n \in 1..Len(st) :
             m < n /\ st[m] = rows[p].key_package /\ st[n] = rows[q].key_package
      BY <1>4, <2>1, <2>2 DEF InOrder
    <3> QED
      BY <1>1, <2>1, <2>2, <3>1
  <2>3. CASE q = Len(rows) + 1
    <3>1. PICK m \in 1..Len(st) : m < last /\ st[m] = rows[p].key_package
      BY <2>1
    <3> QED
      BY <1>1, <2>1, <2>3, <3>1
  <2> QED
    BY <1>2, <2>2, <2>3
<1> QED
  BY <1>3, <1>4 DEF InOrder, ext

\* The commit of an upload: the package is served, is the last that was stored, and is the last
\* of key_packages or was found there (store.go:257-294).
LEMMA UploadCommits ==
  ASSUME PackagesInv, NEW u \in Uploads, CommitUpload(u)
  PROVE  PackagesInv'
<1>1. PICK i : i = Target[u]
  OBVIOUS
<1>2. PICK kp : kp = Sent[u]
  OBVIOUS
<1>3. PICK row : row = [key_package |-> kp, created_at |-> now[u]]
  OBVIOUS
<1>4. u \in Txs /\ i \in Installations /\ kp \in Packages /\ now[u] \in Times
  BY <1>1, <1>2, KeyPackagesAssumption DEF Txs, PackagesInv, TypeOK
<1>5. row \in PackageRow /\ row.key_package = kp
  BY <1>3, <1>4 DEF PackageRow
<1>6. TypeOK
  BY DEF PackagesInv
<1>7. /\ upload[u] = "inserted" /\ UNCHANGED <<clock, now, backfill, selected>>
      /\ upload' = [upload EXCEPT ![u] = "answered"]
      /\ insert' = [insert EXCEPT ![u] = {}]
  BY DEF CommitUpload, backfillVars
<1>8. /\ installations'[i] = Upserted(installations[i], kp, now[u])
      /\ installations' \in [Installations -> InstallationRow \cup {NoRow}]
      /\ \A j \in Installations : j # i => installations'[j] = installations[j]
      /\ installations'[i] \in InstallationRow /\ installations'[i].key_package = kp
  <2>1. installations' = [installations EXCEPT ![i] = Upserted(installations[i], kp, now[u])]
    BY <1>1, <1>2, <1>4, <1>6 DEF CommitUpload, TypeOK
  <2>2. /\ Upserted(installations[i], kp, now[u]) \in InstallationRow
        /\ Upserted(installations[i], kp, now[u]).key_package = kp
    <3>1. CASE installations[i] = NoRow
      BY <1>4, <3>1 DEF Upserted, InstallationRow
    <3>2. CASE installations[i] # NoRow
      <4>1. installations[i] \in InstallationRow
        BY <1>4, <1>6, <3>2, RowTypes
      <4> QED
        BY <1>4, <3>2, <4>1 DEF Upserted, InstallationRow
    <3> QED
      BY <3>1, <3>2
  <2> QED
    BY <1>4, <1>6, <2>1, <2>2 DEF TypeOK
<1>9. /\ key_packages'[i] = IF i \in insert[u] THEN Append(key_packages[i], row) ELSE key_packages[i]
      /\ key_packages' \in [Installations -> Seq(PackageRow)]
      /\ \A j \in Installations : j # i => key_packages'[j] = key_packages[j]
  <2>1. key_packages' = [key_packages EXCEPT ![i] =
           IF i \in insert[u] THEN Append(key_packages[i], row) ELSE key_packages[i]]
    BY <1>1, <1>2, <1>3, <1>4, <1>6 DEF CommitUpload, TypeOK
  <2>2. Append(key_packages[i], row) \in Seq(PackageRow) /\ key_packages[i] \in Seq(PackageRow)
    BY <1>4, <1>5, <1>6, RowTypes
  <2> QED
    BY <1>4, <1>6, <2>1, <2>2 DEF TypeOK
<1>10. /\ pruned' \in [Installations -> SUBSET Packages]
       /\ \A j \in Installations : j # i => pruned'[j] = pruned[j]
       /\ \A k \in pruned[i] : k \in pruned'[i] \/ (k = kp /\ i \in insert[u])
  <2>1. PICK gone : gone = {k \in {Sent[u]} : Target[u] \in insert[u]}
    OBVIOUS
  <2>2. pruned' = [pruned EXCEPT ![i] = pruned[i] \ gone]
    BY <1>1, <1>4, <1>6, <2>1 DEF CommitUpload, TypeOK
  <2>3. \A k \in gone : k = kp /\ i \in insert[u]
    BY <1>1, <1>2, <2>1
  <2> QED
    BY <1>4, <1>6, <2>2, <2>3 DEF TypeOK
<1>11. /\ stored'[i] = Append(stored[i], kp) /\ stored' \in [Installations -> Seq(Packages)]
       /\ \A j \in Installations : j # i => stored'[j] = stored[j]
  <2>1. stored' = [stored EXCEPT ![i] = Append(stored[i], kp)]
    BY <1>1, <1>2, <1>4, <1>6 DEF CommitUpload, TypeOK
  <2>2. Append(stored[i], kp) \in Seq(Packages)
    BY <1>4, <1>6, RowTypes
  <2> QED
    BY <1>4, <1>6, <2>1, <2>2 DEF TypeOK
<1>12. TypeOK'
  <2>1. upload' \in [Uploads -> {"todo", "begun", "upserted", "inserted", "answered"}]
    BY <1>6, <1>7 DEF TypeOK
  <2>2. insert' \in [Txs -> SUBSET Installations]
    BY <1>6, <1>7 DEF TypeOK
  <2> QED
    BY <1>6, <1>7, <1>8, <1>9, <1>10, <1>11, <2>1, <2>2 DEF TypeOK
<1>13. /\ key_packages[i] \in Seq(PackageRow) /\ stored[i] \in Seq(Packages)
       /\ Len(key_packages[i]) \in Nat /\ Len(stored[i]) \in Nat
  BY <1>4, <1>6, RowTypes
<1>14. i \in insert[u] => HasPackage(i, kp)'
  <2> SUFFICES ASSUME i \in insert[u] PROVE HasPackage(i, kp)'
    OBVIOUS
  <2>1. /\ Len(key_packages[i]) + 1 \in 1..Len(key_packages'[i])
        /\ key_packages'[i][Len(key_packages[i]) + 1] = row
    BY <1>5, <1>9, <1>13
  <2> QED
    BY <1>5, <2>1 DEF HasPackage, Range
<1>15. \A j \in Installations : \A k : HasPackage(j, k) => HasPackage(j, k)'
  <2> SUFFICES ASSUME NEW j \in Installations, NEW k, HasPackage(j, k) PROVE HasPackage(j, k)'
    OBVIOUS
  <2>1. CASE j # i
    BY <1>9, <2>1 DEF HasPackage
  <2>2. CASE j = i
    <3>1. PICK n \in 1..Len(key_packages[i]) : key_packages[i][n].key_package = k
      BY <2>2 DEF HasPackage, Range
    <3>2. n \in 1..Len(key_packages'[i]) /\ key_packages'[i][n] = key_packages[i][n]
      BY <1>5, <1>9, <1>13
    <3> QED
      BY <2>2, <3>1, <3>2 DEF HasPackage, Range
  <2> QED
    BY <2>1, <2>2
<1>16. KeptStays
  BY <1>10, <1>14, <1>15 DEF KeptStays, Kept
<1>17. ServedIsStored'
  <2> SUFFICES ASSUME NEW j \in Installations, installations'[j] # NoRow
               PROVE  stored'[j] # <<>> /\ installations'[j].key_package = Last(stored'[j])
    BY DEF ServedIsStored, Last
  <2>1. CASE j # i
    BY <1>8, <1>11, <2>1 DEF PackagesInv, TablesInv, ServedIsStored
  <2>2. CASE j = i
    <3>1. Append(stored[i], kp) # <<>> /\ Last(Append(stored[i], kp)) = kp
      BY <1>4, <1>13 DEF Last
    <3> QED
      BY <1>8, <1>11, <2>2, <3>1
  <2> QED
    BY <2>1, <2>2
<1>18. RowsWereStored' /\ RowsInOrder'
  <2> SUFFICES ASSUME NEW j \in Installations
               PROVE  WereStored(key_packages'[j], stored'[j]) /\ InOrder(key_packages'[j], stored'[j])
    BY DEF RowsWereStored, RowsInOrder, WereStored, InOrder
  <2>0. WereStored(key_packages[j], stored[j]) /\ InOrder(key_packages[j], stored[j])
    BY DEF PackagesInv, TablesInv, RowsWereStored, RowsInOrder
  <2>1. CASE j # i
    BY <1>9, <1>11, <2>0, <2>1
  <2>2. CASE j = i
    <3>1. /\ WereStored(key_packages[i], stored'[i]) /\ InOrder(key_packages[i], stored'[i])
          /\ stored'[i] \in Seq(Packages)
      BY <1>4, <1>11, <1>13, <2>0, <2>2, MoreStored
    <3>2. PICK last : last = Len(stored[i]) + 1
      OBVIOUS
    <3>3. last \in 1..Len(stored'[i]) /\ stored'[i][last] = row.key_package
      BY <1>4, <1>5, <1>11, <1>13, <3>2
    <3>4. \A n \in 1..Len(key_packages[i]) : \E m \in 1..Len(stored'[i]) :
             m < last /\ stored'[i][m] = key_packages[i][n].key_package
      <4> SUFFICES ASSUME NEW n \in 1..Len(key_packages[i])
                   PROVE  \E m \in 1..Len(stored'[i]) :
                            m < last /\ stored'[i][m] = key_packages[i][n].key_package
        OBVIOUS
      <4>1. PICK m \in 1..Len(stored[i]) : stored[i][m] = key_packages[i][n].key_package
        BY <2>0, <2>2 DEF WereStored
      <4>2. m \in 1..Len(stored'[i]) /\ m < last /\ stored'[i][m] = stored[i][m]
        BY <1>4, <1>11, <1>13, <3>2
      <4> QED
        BY <4>1, <4>2
    <3>5. /\ WereStored(Append(key_packages[i], row), stored'[i])
          /\ InOrder(Append(key_packages[i], row), stored'[i])
      BY <1>5, <1>13, <3>1, <3>3, <3>4, RowAppended
    <3> QED
      BY <1>9, <2>2, <3>1, <3>5
  <2> QED
    BY <2>1, <2>2
<1>19. Kept(i, kp)'
  <2>1. CASE i \in insert[u]
    BY <1>14, <2>1 DEF Kept
  <2>2. CASE i \notin insert[u]
    <3>1. Kept(i, kp)
      BY <1>1, <1>2, <1>7, <2>2 DEF PackagesInv, TxInv, FoundIsKept
    <3> QED
      BY <1>4, <1>16, <3>1 DEF KeptStays
  <2> QED
    BY <2>1, <2>2
<1>20. AppendedIsKept'
  <2> SUFFICES ASSUME NEW j \in Installations, installations'[j] # NoRow, installations'[j].is_appended
               PROVE  Kept(j, installations[j].key_package)'
    BY DEF AppendedIsKept
  <2>1. CASE j = i
    BY <1>8, <1>19, <2>1
  <2>2. CASE j # i
    <3>1. installations'[j] = installations[j] /\ Kept(j, installations[j].key_package)
      BY <1>8, <2>2 DEF PackagesInv, TablesInv, AppendedIsKept
    <3>2. PICK k : k = installations[j].key_package
      OBVIOUS
    <3>3. Kept(j, k)'
      BY <1>16, <3>1, <3>2 DEF KeptStays
    <3> QED
      BY <3>1, <3>2, <3>3
  <2> QED
    BY <2>1, <2>2
<1>21. \A b \in Backfillers : insert'[b] = insert[b]
  BY <1>6, <1>7, KeyPackagesAssumption DEF TypeOK, Txs
<1>22. \A b \in Backfillers : backfill[b] # "idle" => i \notin DOMAIN selected[b]
  <2>1. UploadHolds(u, i)
    BY <1>1, <1>7 DEF UploadHolds
  <2> QED
    BY <1>4, <2>1 DEF PackagesInv, TxInv, LocksExclude, BackfillHolds
<1>23. FoundIsKept'
  <2>1. ASSUME NEW v \in Uploads, upload'[v] = "inserted", Target[v] \notin insert'[v]
        PROVE  Kept(Target[v], Sent[v])'
    <3>1. v # u /\ v \in Txs
      BY <1>6, <1>7, <2>1 DEF TypeOK, Txs
    <3>2. upload[v] = "inserted" /\ insert'[v] = insert[v]
      BY <1>6, <1>7, <2>1, <3>1 DEF TypeOK
    <3>3. Target[v] \in Installations /\ Kept(Target[v], Sent[v])
      BY <2>1, <3>2, KeyPackagesAssumption DEF PackagesInv, TxInv, FoundIsKept
    <3> QED
      BY <1>16, <3>3 DEF KeptStays
  <2>2. ASSUME NEW b \in Backfillers, backfill'[b] = "inserted", NEW j \in DOMAIN selected'[b],
               j \notin insert'[b]
        PROVE  Kept(j, selected[b][j].key_package)'
    <3>1. Kept(j, selected[b][j].key_package) /\ j \in Installations
      BY <1>7, <1>21, <2>2 DEF PackagesInv, TxInv, FoundIsKept, SelectedIsCurrent
    <3>2. PICK k : k = selected[b][j].key_package
      OBVIOUS
    <3>3. Kept(j, k)'
      BY <1>16, <3>1, <3>2 DEF KeptStays
    <3> QED
      BY <1>7, <3>2, <3>3
  <2> QED
    BY <2>1, <2>2 DEF FoundIsKept
<1>24. SelectedIsCurrent'
  BY <1>7, <1>8, <1>22 DEF PackagesInv, TxInv, SelectedIsCurrent
<1>25. InsertIsNew'
  <2> SUFFICES ASSUME NEW b \in Backfillers, backfill'[b] = "inserted", NEW j \in insert'[b]
               PROVE  j \in DOMAIN selected'[b] /\ ~HasPackage(j, selected[b][j].key_package)'
    BY DEF InsertIsNew
  <2>1. j \in DOMAIN selected[b] /\ ~HasPackage(j, selected[b][j].key_package)
    BY <1>7, <1>21 DEF PackagesInv, TxInv, InsertIsNew
  <2>2. j # i /\ j \in Installations
    BY <1>7, <1>22, <2>1 DEF PackagesInv, TxInv, SelectedIsCurrent
  <2>3. \A k : HasPackage(j, k)' <=> HasPackage(j, k)
    BY <1>9, <2>2 DEF HasPackage
  <2> QED
    BY <1>7, <2>1, <2>3
<1>26. LocksExclude'
  <2>1. \A v \in Uploads : \A j \in Installations : UploadHolds(v, j)' => UploadHolds(v, j)
    BY <1>6, <1>7 DEF UploadHolds, TypeOK
  <2>2. \A b \in Backfillers : \A j \in Installations : BackfillHolds(b, j)' <=> BackfillHolds(b, j)
    BY <1>7 DEF BackfillHolds
  <2> QED
    BY <2>1, <2>2 DEF PackagesInv, TxInv, LocksExclude
<1> QED
  BY <1>12, <1>17, <1>18, <1>20, <1>23, <1>24, <1>25, <1>26 DEF PackagesInv, TablesInv, TxInv

-----------------------------------------------------------------------------
(* The backfillers.                                                        *)

\* A cycle selects unlocked rows, inserts what is missing, or fails.
LEMMA BackfillTries ==
  ASSUME PackagesInv, NEW b \in Backfillers, Select(b) \/ InsertSelected(b) \/ FailBackfill(b)
  PROVE  PackagesInv'
<1>0. b \in Txs /\ TypeOK
  BY DEF Txs, PackagesInv
<1>1. UNCHANGED <<clock, installations, key_packages, pruned, stored, upload, now>>
  BY DEF Select, InsertSelected, FailBackfill, uploadVars
<1>2. CASE Select(b)
  <2>1. PICK S \in Batch(Unappended, SelectLimit) :
           selected' = [selected EXCEPT ![b] =
             [i \in S |-> [key_package |-> installations[i].key_package,
                           created_at |-> installations[i].created_at]]]
    BY <1>2 DEF Select
  <2>2. PICK snap : snap = [i \in S |-> [key_package |-> installations[i].key_package,
                                          created_at |-> installations[i].created_at]]
    OBVIOUS
  <2>3. S \subseteq Unappended
    BY DEF Batch
  <2>4. \A i \in S : i \in Installations /\ installations[i] # NoRow /\ ~Locked(i)
    BY <2>3 DEF Unappended
  <2>5. \A i \in S : installations[i] \in InstallationRow
    BY <1>0, <2>4, RowTypes
  <2>6. snap \in [S -> PackageRow] /\ S \in SUBSET Installations
    <3>1. \A i \in S : [key_package |-> installations[i].key_package,
                        created_at |-> installations[i].created_at] \in PackageRow
      BY <2>5 DEF InstallationRow, PackageRow
    <3>2. S \in SUBSET Installations
      BY <2>4
    <3> QED
      BY <2>2, <3>1, <3>2
  <2>7. snap \in Snapshots
    BY <2>6 DEF Snapshots
  <2>8. /\ selected' = [selected EXCEPT ![b] = snap] /\ insert' = insert
        /\ backfill' = [backfill EXCEPT ![b] = "selected"]
    BY <1>2, <2>1, <2>2 DEF Select
  <2>9. /\ selected' \in [Backfillers -> Snapshots] /\ selected'[b] = snap
        /\ backfill' \in [Backfillers -> {"idle", "selected", "inserted"}] /\ backfill'[b] = "selected"
        /\ \A c \in Backfillers : c # b => backfill'[c] = backfill[c] /\ selected'[c] = selected[c]
    BY <1>0, <2>7, <2>8 DEF TypeOK
  <2>10. TypeOK'
    BY <1>0, <1>1, <2>8, <2>9 DEF TypeOK
  <2>11. \A i \in DOMAIN selected'[b] :
           /\ i \in Installations /\ installations[i] # NoRow
           /\ selected'[b][i].key_package = installations[i].key_package
           /\ BackfillHolds(b, i) \/ ~Locked(i)
    BY <2>2, <2>4, <2>9
  <2>12. TablesInv' /\ TxInv'
    <3>1. backfill'[b] # "inserted"
      BY <2>9
    <3>2. \A x \in Txs : x # b => insert'[x] = insert[x]
      BY <2>8
    <3> QED
      BY <1>1, <2>9, <2>11, <3>1, <3>2, BackfillMoves
  <2> QED
    BY <2>10, <2>12 DEF PackagesInv
<1>3. CASE InsertSelected(b)
  <2>1. PICK new : new = {i \in DOMAIN selected[b] : ~HasPackage(i, selected[b][i].key_package)}
    OBVIOUS
  <2>2. /\ insert' = [insert EXCEPT ![b] = new] /\ selected' = selected
        /\ backfill' = [backfill EXCEPT ![b] = "inserted"] /\ backfill[b] = "selected"
    BY <1>3, <2>1 DEF InsertSelected
  <2>3. \A i \in DOMAIN selected[b] :
           /\ i \in Installations /\ installations[i] # NoRow
           /\ selected[b][i].key_package = installations[i].key_package
    BY <2>2 DEF PackagesInv, TxInv, SelectedIsCurrent
  <2>4. new \in SUBSET Installations
    BY <2>1, <2>3
  <2>5. /\ insert' \in [Txs -> SUBSET Installations] /\ insert'[b] = new
        /\ \A x \in Txs : x # b => insert'[x] = insert[x]
        /\ backfill' \in [Backfillers -> {"idle", "selected", "inserted"}]
        /\ \A c \in Backfillers : c # b => backfill'[c] = backfill[c]
    BY <1>0, <2>2, <2>4 DEF TypeOK
  <2>6. TypeOK'
    BY <1>0, <1>1, <2>2, <2>5 DEF TypeOK
  <2>7. \A i \in DOMAIN selected'[b] :
           /\ i \in Installations /\ installations[i] # NoRow
           /\ selected'[b][i].key_package = installations[i].key_package
           /\ BackfillHolds(b, i) \/ ~Locked(i)
    BY <2>2, <2>3 DEF BackfillHolds
  <2>8. /\ \A i \in insert'[b] : i \in DOMAIN selected'[b] /\ ~HasPackage(i, installations[i].key_package)
        /\ \A i \in DOMAIN selected'[b] : i \notin insert'[b] => Kept(i, installations[i].key_package)
    BY <2>1, <2>2, <2>3, <2>5 DEF Kept
  <2>9. TablesInv' /\ TxInv'
    BY <1>1, <2>2, <2>5, <2>7, <2>8, BackfillMoves
  <2> QED
    BY <2>6, <2>9 DEF PackagesInv
<1>4. CASE FailBackfill(b)
  <2>1. /\ insert' = [insert EXCEPT ![b] = {}] /\ selected' = [selected EXCEPT ![b] = NoRows]
        /\ backfill' = [backfill EXCEPT ![b] = "idle"]
    BY <1>4 DEF FailBackfill
  <2>2. NoRows \in Snapshots
    <3>1. NoRows \in [{} -> PackageRow]
      BY DEF NoRows
    <3> QED
      BY <3>1 DEF Snapshots
  <2>3. /\ insert' \in [Txs -> SUBSET Installations]
        /\ \A x \in Txs : x # b => insert'[x] = insert[x]
        /\ selected' \in [Backfillers -> Snapshots]
        /\ backfill' \in [Backfillers -> {"idle", "selected", "inserted"}] /\ backfill'[b] = "idle"
        /\ \A c \in Backfillers : c # b => backfill'[c] = backfill[c] /\ selected'[c] = selected[c]
    BY <1>0, <2>1, <2>2 DEF TypeOK
  <2>4. TypeOK'
    BY <1>0, <1>1, <2>3 DEF TypeOK
  <2>5. TablesInv' /\ TxInv'
    BY <1>1, <2>3, BackfillMoves
  <2> QED
    BY <2>4, <2>5 DEF PackagesInv
<1> QED
  BY <1>2, <1>3, <1>4

\* The commit of a backfill: what it appends is what is served, stored after all the rows that
\* are there, since it is none of them.
LEMMA BackfillCommits ==
  ASSUME PackagesInv, NEW b \in Backfillers, CommitBackfill(b)
  PROVE  PackagesInv'
<1>0. b \in Txs /\ TypeOK
  BY DEF Txs, PackagesInv
<1>1. /\ UNCHANGED <<clock, upload, now, stored>> /\ backfill[b] = "inserted"
      /\ insert' = [insert EXCEPT ![b] = {}] /\ selected' = [selected EXCEPT ![b] = NoRows]
      /\ backfill' = [backfill EXCEPT ![b] = "idle"]
  BY DEF CommitBackfill, uploadVars
<1>2. PICK new : new = insert[b]
  OBVIOUS
<1>3. PICK snap : snap = selected[b]
  OBVIOUS
<1>4. /\ \A i \in DOMAIN snap : /\ i \in Installations /\ installations[i] # NoRow
                                /\ snap[i].key_package = installations[i].key_package
      /\ \A i \in new : i \in DOMAIN snap /\ ~HasPackage(i, snap[i].key_package)
      /\ \A i \in DOMAIN snap : i \notin new => Kept(i, snap[i].key_package)
  BY <1>1, <1>2, <1>3 DEF PackagesInv, TxInv, SelectedIsCurrent, InsertIsNew, FoundIsKept
<1>5. \A i \in DOMAIN snap : snap[i] \in PackageRow
  <2>1. snap \in Snapshots
    BY <1>0, <1>3 DEF TypeOK
  <2>2. PICK S \in SUBSET Installations : snap \in [S -> PackageRow]
    BY <2>1 DEF Snapshots
  <2> QED
    BY <2>2
<1>6. \A i \in Installations :
         installations'[i] = IF i \in DOMAIN snap /\ installations[i] # NoRow
                             THEN [installations[i] EXCEPT !.is_appended = TRUE] ELSE installations[i]
  BY <1>3 DEF CommitBackfill
<1>7. \A i \in Installations :
        /\ installations'[i] = NoRow <=> installations[i] = NoRow
        /\ installations'[i] \in InstallationRow \cup {NoRow}
        /\ installations[i] # NoRow => installations'[i].key_package = installations[i].key_package
        /\ i \notin DOMAIN snap => installations'[i] = installations[i]
  <2> SUFFICES ASSUME NEW i \in Installations
               PROVE  /\ installations'[i] = NoRow <=> installations[i] = NoRow
                      /\ installations'[i] \in InstallationRow \cup {NoRow}
                      /\ installations[i] # NoRow => installations'[i].key_package = installations[i].key_package
                      /\ i \notin DOMAIN snap => installations'[i] = installations[i]
    OBVIOUS
  <2>1. CASE i \in DOMAIN snap
    <3>1. installations[i] # NoRow /\ installations[i] \in InstallationRow
      BY <1>0, <1>4, <2>1, RowTypes
    <3>2. installations'[i] = [installations[i] EXCEPT !.is_appended = TRUE]
      BY <1>6, <2>1, <3>1
    <3>3. installations'[i] \in InstallationRow /\ installations'[i].key_package = installations[i].key_package
      BY <3>1, <3>2 DEF InstallationRow
    <3> QED
      BY <2>1, <3>1, <3>3, NoRowAssumption
  <2>2. CASE i \notin DOMAIN snap
    BY <1>0, <1>6, <2>2, RowTypes
  <2> QED
    BY <2>1, <2>2
<1>8. \A i \in Installations :
        key_packages'[i] = IF i \in new THEN Append(key_packages[i], snap[i]) ELSE key_packages[i]
  BY <1>2, <1>3 DEF CommitBackfill
<1>9. \A i \in Installations :
        pruned'[i] = IF i \in new THEN pruned[i] \ {snap[i].key_package} ELSE pruned[i]
  BY <1>2, <1>3 DEF CommitBackfill
<1>10. TypeOK'
  <2>1. NoRows \in Snapshots
    <3>1. NoRows \in [{} -> PackageRow]
      BY DEF NoRows
    <3> QED
      BY <3>1 DEF Snapshots
  <2>2. /\ insert' \in [Txs -> SUBSET Installations] /\ selected' \in [Backfillers -> Snapshots]
        /\ backfill' \in [Backfillers -> {"idle", "selected", "inserted"}]
    BY <1>0, <1>1, <2>1 DEF TypeOK
  <2>3. installations' \in [Installations -> InstallationRow \cup {NoRow}]
    <3>1. installations' = [i \in Installations |-> installations'[i]]
      BY DEF CommitBackfill
    <3> QED
      BY <1>7, <3>1
  <2>4. key_packages' \in [Installations -> Seq(PackageRow)]
    <3>1. ASSUME NEW i \in Installations PROVE key_packages'[i] \in Seq(PackageRow)
      <4>1. key_packages[i] \in Seq(PackageRow)
        BY <1>0, RowTypes
      <4>2. CASE i \in new
        <5>1. PICK row \in PackageRow : row = snap[i]
          BY <1>4, <1>5, <4>2
        <5>2. key_packages'[i] = Append(key_packages[i], row)
          BY <1>8, <4>2, <5>1
        <5> QED
          BY <4>1, <5>2
      <4> QED
        BY <1>8, <4>1, <4>2
    <3>2. key_packages' = [i \in Installations |-> key_packages'[i]]
      BY DEF CommitBackfill
    <3> QED
      BY <3>1, <3>2
  <2>5. pruned' \in [Installations -> SUBSET Packages]
    <3>1. \A i \in Installations : pruned'[i] \subseteq Packages
      BY <1>0, <1>9, RowTypes
    <3>2. pruned' = [i \in Installations |-> pruned'[i]]
      BY DEF CommitBackfill
    <3> QED
      BY <3>1, <3>2
  <2> QED
    BY <1>0, <1>1, <2>2, <2>3, <2>4, <2>5 DEF TypeOK
<1>11. \A i \in new : i \in Installations /\ HasPackage(i, snap[i].key_package)'
  <2> SUFFICES ASSUME NEW i \in new PROVE i \in Installations /\ HasPackage(i, snap[i].key_package)'
    OBVIOUS
  <2>1. i \in Installations /\ snap[i] \in PackageRow
    BY <1>4, <1>5
  <2>2. key_packages[i] \in Seq(PackageRow)
    BY <1>0, <2>1, RowTypes
  <2>3. PICK row \in PackageRow : row = snap[i]
    BY <2>1
  <2>4. key_packages'[i] = Append(key_packages[i], row)
    BY <1>8, <2>1, <2>3
  <2>5. /\ Len(key_packages[i]) + 1 \in 1..Len(Append(key_packages[i], row))
        /\ Append(key_packages[i], row)[Len(key_packages[i]) + 1] = row
    BY <2>2, <2>3
  <2>6. HasPackage(i, row.key_package)'
    BY <2>4, <2>5 DEF HasPackage, Range
  <2> QED
    BY <2>1, <2>3, <2>6
<1>12. \A i \in Installations : \A k : HasPackage(i, k) => HasPackage(i, k)'
  <2> SUFFICES ASSUME NEW i \in Installations, NEW k, HasPackage(i, k) PROVE HasPackage(i, k)'
    OBVIOUS
  <2>1. CASE i \notin new
    BY <1>8, <2>1 DEF HasPackage
  <2>2. CASE i \in new
    <3>1. PICK n \in 1..Len(key_packages[i]) : key_packages[i][n].key_package = k
      BY DEF HasPackage, Range
    <3>2. key_packages[i] \in Seq(PackageRow) /\ snap[i] \in PackageRow
      BY <1>0, <1>4, <1>5, <2>2, RowTypes
    <3>3. PICK row \in PackageRow : row = snap[i]
      BY <3>2
    <3>4. key_packages'[i] = Append(key_packages[i], row)
      BY <1>8, <2>2, <3>3
    <3>5. /\ n \in 1..Len(Append(key_packages[i], row))
          /\ Append(key_packages[i], row)[n] = key_packages[i][n]
      BY <3>2, <3>3
    <3> QED
      BY <3>1, <3>4, <3>5 DEF HasPackage, Range
  <2> QED
    BY <2>1, <2>2
<1>13. KeptStays
  <2> SUFFICES ASSUME NEW i \in Installations, NEW k, Kept(i, k) PROVE Kept(i, k)'
    BY DEF KeptStays
  <2>1. CASE HasPackage(i, k)
    BY <1>12, <2>1 DEF Kept
  <2>2. CASE k \in pruned[i] /\ k \in pruned'[i]
    BY <2>2 DEF Kept
  <2>3. CASE k \in pruned[i] /\ k \notin pruned'[i]
    <3>1. i \in new /\ k = snap[i].key_package
      BY <1>9, <2>3
    <3> QED
      BY <1>11, <3>1 DEF Kept
  <2> QED
    BY <2>1, <2>2, <2>3 DEF Kept
<1>14. ServedIsStored'
  <2> SUFFICES ASSUME NEW i \in Installations, installations'[i] # NoRow
               PROVE  stored[i] # <<>> /\ installations'[i].key_package = Last(stored[i])
    BY <1>1 DEF ServedIsStored, Last
  <2> QED
    BY <1>7 DEF PackagesInv, TablesInv, ServedIsStored
<1>15. RowsWereStored' /\ RowsInOrder'
  <2> SUFFICES ASSUME NEW i \in Installations
               PROVE  WereStored(key_packages'[i], stored[i]) /\ InOrder(key_packages'[i], stored[i])
    BY <1>1 DEF RowsWereStored, RowsInOrder, WereStored, InOrder
  <2>0. WereStored(key_packages[i], stored[i]) /\ InOrder(key_packages[i], stored[i])
    BY DEF PackagesInv, TablesInv, RowsWereStored, RowsInOrder
  <2>1. CASE i \notin new
    BY <1>8, <2>0, <2>1
  <2>2. CASE i \in new
    <3>1. /\ installations[i] # NoRow /\ snap[i].key_package = installations[i].key_package
          /\ snap[i] \in PackageRow /\ ~HasPackage(i, snap[i].key_package)
      BY <1>4, <1>5, <2>2
    <3>2. stored[i] # <<>> /\ snap[i].key_package = Last(stored[i])
      BY <3>1 DEF PackagesInv, TablesInv, ServedIsStored
    <3>3. /\ key_packages[i] \in Seq(PackageRow) /\ stored[i] \in Seq(Packages)
          /\ Len(stored[i]) \in Nat
      BY <1>0, RowTypes
    <3>4. PICK last : last = Len(stored[i])
      OBVIOUS
    <3>5. last \in 1..Len(stored[i]) /\ stored[i][last] = snap[i].key_package
      BY <3>2, <3>3, <3>4 DEF Last
    <3>6. \A n \in 1..Len(key_packages[i]) : \E m \in 1..Len(stored[i]) :
             m < last /\ stored[i][m] = key_packages[i][n].key_package
      <4> SUFFICES ASSUME NEW n \in 1..Len(key_packages[i])
                   PROVE  \E m \in 1..Len(stored[i]) :
                            m < last /\ stored[i][m] = key_packages[i][n].key_package
        OBVIOUS
      <4>1. PICK m \in 1..Len(stored[i]) : stored[i][m] = key_packages[i][n].key_package
        BY <2>0 DEF WereStored
      <4>2. key_packages[i][n].key_package # snap[i].key_package
        BY <3>1 DEF HasPackage, Range
      <4>3. m # last
        BY <3>5, <4>1, <4>2
      <4> QED
        BY <3>3, <3>4, <4>1, <4>3
    <3>7. /\ WereStored(Append(key_packages[i], snap[i]), stored[i])
          /\ InOrder(Append(key_packages[i], snap[i]), stored[i])
      BY <2>0, <3>1, <3>3, <3>5, <3>6, RowAppended
    <3> QED
      BY <1>8, <2>2, <3>7
  <2> QED
    BY <2>1, <2>2
<1>16. AppendedIsKept'
  <2> SUFFICES ASSUME NEW i \in Installations, installations'[i] # NoRow, installations'[i].is_appended
               PROVE  Kept(i, installations[i].key_package)'
    BY DEF AppendedIsKept
  <2>1. PICK k : k = installations[i].key_package
    OBVIOUS
  <2>2. installations'[i].key_package = k /\ installations[i] # NoRow
    BY <1>7, <2>1
  <2>3. CASE i \in DOMAIN snap
    <3>1. snap[i].key_package = k
      BY <1>4, <2>1, <2>3
    <3>2. CASE i \in new
      BY <1>11, <2>2, <3>1, <3>2 DEF Kept
    <3>3. CASE i \notin new
      <4>1. Kept(i, k)
        BY <1>4, <2>3, <3>1, <3>3
      <4> QED
        BY <1>13, <2>2, <4>1 DEF KeptStays
    <3> QED
      BY <3>2, <3>3
  <2>4. CASE i \notin DOMAIN snap
    <3>1. Kept(i, k)
      BY <1>7, <2>1, <2>2, <2>4 DEF PackagesInv, TablesInv, AppendedIsKept
    <3> QED
      BY <1>13, <2>2, <3>1 DEF KeptStays
  <2> QED
    BY <2>3, <2>4
<1>17. /\ \A u \in Uploads : insert'[u] = insert[u]
       /\ \A c \in Backfillers : backfill'[c] # "idle" =>
            c # b /\ insert'[c] = insert[c] /\ backfill'[c] = backfill[c] /\ selected'[c] = selected[c]
  BY <1>0, <1>1, KeyPackagesAssumption DEF TypeOK, Txs
<1>18. FoundIsKept'
  <2>1. ASSUME NEW u \in Uploads, upload'[u] = "inserted", Target[u] \notin insert'[u]
        PROVE  Kept(Target[u], Sent[u])'
    <3>1. Target[u] \in Installations /\ Kept(Target[u], Sent[u])
      BY <1>1, <1>17, <2>1, KeyPackagesAssumption DEF PackagesInv, TxInv, FoundIsKept
    <3> QED
      BY <1>13, <3>1 DEF KeptStays
  <2>2. ASSUME NEW c \in Backfillers, backfill'[c] = "inserted", NEW i \in DOMAIN selected'[c],
               i \notin insert'[c]
        PROVE  Kept(i, selected[c][i].key_package)'
    <3>1. /\ Kept(i, selected[c][i].key_package) /\ i \in Installations
          /\ selected'[c] = selected[c]
      BY <1>17, <2>2 DEF PackagesInv, TxInv, FoundIsKept, SelectedIsCurrent
    <3>2. PICK k : k = selected[c][i].key_package
      OBVIOUS
    <3>3. Kept(i, k)'
      BY <1>13, <3>1, <3>2 DEF KeptStays
    <3> QED
      BY <3>1, <3>2, <3>3
  <2> QED
    BY <2>1, <2>2 DEF FoundIsKept
<1>19. SelectedIsCurrent'
  <2> SUFFICES ASSUME NEW c \in Backfillers, backfill'[c] # "idle", NEW i \in DOMAIN selected'[c]
               PROVE  /\ i \in Installations /\ installations'[i] # NoRow
                      /\ selected'[c][i].key_package = installations'[i].key_package
    BY DEF SelectedIsCurrent
  <2>1. /\ i \in Installations /\ installations[i] # NoRow
        /\ selected'[c][i].key_package = installations[i].key_package
    BY <1>17 DEF PackagesInv, TxInv, SelectedIsCurrent
  <2> QED
    BY <1>7, <2>1
<1>20. InsertIsNew'
  <2> SUFFICES ASSUME NEW c \in Backfillers, backfill'[c] = "inserted", NEW i \in insert'[c]
               PROVE  i \in DOMAIN selected'[c] /\ ~HasPackage(i, selected[c][i].key_package)'
    BY DEF InsertIsNew
  <2>1. /\ i \in DOMAIN selected[c] /\ ~HasPackage(i, selected[c][i].key_package)
        /\ selected'[c] = selected[c] /\ i \in Installations /\ c # b /\ backfill[c] # "idle"
    BY <1>17 DEF PackagesInv, TxInv, InsertIsNew, SelectedIsCurrent
  <2>2. i \notin new
    <3>1. i \in new => BackfillHolds(b, i) /\ BackfillHolds(c, i)
      BY <1>1, <1>3, <1>4, <2>1 DEF BackfillHolds
    <3> QED
      BY <2>1, <3>1 DEF PackagesInv, TxInv, LocksExclude
  <2>3. \A k : HasPackage(i, k)' <=> HasPackage(i, k)
    BY <1>8, <2>1, <2>2 DEF HasPackage
  <2> QED
    BY <2>1, <2>3
<1>21. LocksExclude'
  <2>1. \A c \in Backfillers : \A i \in Installations : BackfillHolds(c, i)' => BackfillHolds(c, i)
    BY <1>17 DEF BackfillHolds
  <2>2. \A u \in Uploads : \A i \in Installations : UploadHolds(u, i)' <=> UploadHolds(u, i)
    BY <1>1 DEF UploadHolds
  <2> QED
    BY <2>1, <2>2 DEF PackagesInv, TxInv, LocksExclude
<1> QED
  BY <1>10, <1>14, <1>15, <1>16, <1>18, <1>19, <1>20, <1>21 DEF PackagesInv, TablesInv, TxInv

-----------------------------------------------------------------------------
(* Pruning, and time.                                                      *)

\* The transactions stay, the locked installations stay, and what was kept is.
LEMMA TxUntouched ==
  ASSUME PackagesInv, KeptStays, UNCHANGED <<uploadVars, insert, backfillVars>>,
         \A i \in Installations : Locked(i) => installations'[i] = installations[i],
         \A i \in Installations : \A kp : HasPackage(i, kp)' => HasPackage(i, kp)
  PROVE  TxInv'
<1>1. UNCHANGED <<upload, insert, backfill, selected>>
  BY DEF uploadVars, backfillVars
<1>2. \A b \in Backfillers : backfill[b] # "idle" => \A i \in DOMAIN selected[b] :
        /\ i \in Installations /\ installations[i] # NoRow
        /\ selected[b][i].key_package = installations[i].key_package
        /\ installations'[i] = installations[i]
  BY DEF PackagesInv, TxInv, SelectedIsCurrent, Locked, BackfillHolds
<1>3. SelectedIsCurrent'
  BY <1>1, <1>2 DEF SelectedIsCurrent
<1>4. FoundIsKept'
  <2>1. ASSUME NEW u \in Uploads, upload'[u] = "inserted", Target[u] \notin insert'[u]
        PROVE  Kept(Target[u], Sent[u])'
    <3>1. Target[u] \in Installations /\ Kept(Target[u], Sent[u])
      BY <1>1, <2>1, KeyPackagesAssumption DEF PackagesInv, TxInv, FoundIsKept
    <3> QED
      BY <3>1 DEF KeptStays
  <2>2. ASSUME NEW c \in Backfillers, backfill'[c] = "inserted", NEW i \in DOMAIN selected'[c],
               i \notin insert'[c]
        PROVE  Kept(i, selected[c][i].key_package)'
    <3>1. /\ Kept(i, selected[c][i].key_package) /\ i \in Installations
          /\ selected'[c] = selected[c]
      BY <1>1, <2>2 DEF PackagesInv, TxInv, FoundIsKept, SelectedIsCurrent
    <3>2. PICK k : k = selected[c][i].key_package
      OBVIOUS
    <3>3. Kept(i, k)'
      BY <3>1, <3>2 DEF KeptStays
    <3> QED
      BY <3>1, <3>2, <3>3
  <2> QED
    BY <2>1, <2>2 DEF FoundIsKept
<1>5. InsertIsNew'
  <2> SUFFICES ASSUME NEW c \in Backfillers, backfill'[c] = "inserted", NEW i \in insert'[c]
               PROVE  i \in DOMAIN selected'[c] /\ ~HasPackage(i, selected[c][i].key_package)'
    BY DEF InsertIsNew
  <2>1. /\ i \in DOMAIN selected[c] /\ ~HasPackage(i, selected[c][i].key_package)
        /\ selected'[c] = selected[c] /\ i \in Installations
    BY <1>1 DEF PackagesInv, TxInv, InsertIsNew, SelectedIsCurrent
  <2> QED
    BY <2>1
<1>6. LocksExclude'
  <2>1. \A c \in Backfillers : \A i \in Installations : BackfillHolds(c, i)' <=> BackfillHolds(c, i)
    BY <1>1 DEF BackfillHolds
  <2>2. \A u \in Uploads : \A i \in Installations : UploadHolds(u, i)' <=> UploadHolds(u, i)
    BY <1>1 DEF UploadHolds
  <2> QED
    BY <2>1, <2>2 DEF PackagesInv, TxInv, LocksExclude
<1> QED
  BY <1>3, <1>4, <1>5, <1>6 DEF TxInv

\* Old installations are deleted, but for the locked ones (queries.sql.go:115-165).
LEMMA InstallationsPruned ==
  ASSUME PackagesInv, PruneInstallations
  PROVE  PackagesInv'
<1>1. PICK old : old = {i \in Installations : installations[i] # NoRow /\ Old(installations[i]) /\ ~Locked(i)}
  OBVIOUS
<1>2. PICK S \in Batch(old, BatchSize) :
         installations' = [i \in Installations |-> IF i \in S THEN NoRow ELSE installations[i]]
  BY <1>1 DEF PruneInstallations
<1>3. /\ UNCHANGED <<clock, key_packages, pruned, stored>>
      /\ UNCHANGED <<uploadVars, insert, backfillVars>>
  BY DEF PruneInstallations
<1>4. \A i \in S : i \in Installations /\ ~Locked(i)
  BY <1>1, <1>2 DEF Batch
<1>5. \A i \in Installations : installations'[i] = NoRow \/ installations'[i] = installations[i]
  BY <1>2
<1>6. TypeOK'
  <2>1. installations' \in [Installations -> InstallationRow \cup {NoRow}]
    BY <1>2 DEF PackagesInv, TypeOK
  <2> QED
    BY <1>3, <2>1 DEF PackagesInv, TypeOK, uploadVars, backfillVars
<1>7. \A i, kp : HasPackage(i, kp)' <=> HasPackage(i, kp)
  BY <1>3 DEF HasPackage
<1>8. KeptStays
  BY <1>3, <1>7 DEF KeptStays, Kept
<1>9. TablesInv'
  <2>1. ServedIsStored'
    BY <1>3, <1>5 DEF PackagesInv, TablesInv, ServedIsStored, Last
  <2>2. RowsWereStored' /\ RowsInOrder'
    BY <1>3 DEF PackagesInv, TablesInv, RowsWereStored, RowsInOrder
  <2>3. AppendedIsKept'
    <3> SUFFICES ASSUME NEW i \in Installations, installations'[i] # NoRow, installations'[i].is_appended
                 PROVE  Kept(i, installations[i].key_package)'
      BY DEF AppendedIsKept
    <3>1. installations'[i] = installations[i]
      BY <1>5
    <3>2. PICK k : k = installations[i].key_package
      OBVIOUS
    <3>3. Kept(i, k)
      BY <3>1, <3>2 DEF PackagesInv, TablesInv, AppendedIsKept
    <3>4. Kept(i, k)'
      BY <1>8, <3>3 DEF KeptStays
    <3> QED
      BY <3>1, <3>2, <3>4
  <2> QED
    BY <2>1, <2>2, <2>3 DEF TablesInv
<1>10. \A i \in Installations : Locked(i) => installations'[i] = installations[i]
  BY <1>2, <1>4
<1>11. TxInv'
  BY <1>3, <1>7, <1>8, <1>10, TxUntouched
<1> QED
  BY <1>6, <1>9, <1>11 DEF PackagesInv

\* All the key packages of some installations are deleted: they are pruned, and no longer there.
LEMMA KeyPackagesPruned ==
  ASSUME PackagesInv, PruneKeyPackages
  PROVE  PackagesInv'
<1>1. PICK S : /\ key_packages' = [i \in Installations |-> IF i \in S THEN <<>> ELSE key_packages[i]]
               /\ pruned' = [i \in Installations |->
                    IF i \in S THEN pruned[i] \cup {row.key_package : row \in Range(key_packages[i])}
                               ELSE pruned[i]]
  BY DEF PruneKeyPackages
<1>2. /\ UNCHANGED <<clock, installations, stored>>
      /\ UNCHANGED <<uploadVars, insert, backfillVars>>
  BY DEF PruneKeyPackages
<1>3. \A i \in Installations : key_packages'[i] = <<>> \/ (key_packages'[i] = key_packages[i] /\ i \notin S)
  BY <1>1
<1>4. ASSUME NEW i \in Installations
      PROVE  /\ pruned'[i] \subseteq Packages /\ pruned[i] \subseteq pruned'[i]
             /\ i \in S => \A k : HasPackage(i, k) => k \in pruned'[i]
  <2>1. PICK gone : gone = {row.key_package : row \in Range(key_packages[i])}
    OBVIOUS
  <2>2. \A k : HasPackage(i, k) => k \in gone
    BY <2>1 DEF HasPackage
  <2>3. gone \subseteq Packages
    <3>1. \A n \in 1..Len(key_packages[i]) : key_packages[i][n].key_package \in Packages
      BY RowTypes DEF PackagesInv
    <3>2. \A row \in Range(key_packages[i]) : row.key_package \in Packages
      BY <3>1 DEF Range
    <3> QED
      BY <2>1, <3>2
  <2>4. pruned'[i] = IF i \in S THEN pruned[i] \cup gone ELSE pruned[i]
    BY <1>1, <2>1
  <2>5. pruned[i] \subseteq Packages
    BY RowTypes DEF PackagesInv
  <2> QED
    BY <2>2, <2>3, <2>4, <2>5
<1>5. TypeOK'
  <2>1. key_packages' \in [Installations -> Seq(PackageRow)]
    BY <1>1 DEF PackagesInv, TypeOK
  <2>2. pruned' \in [Installations -> SUBSET Packages]
    <3>1. pruned' = [i \in Installations |-> pruned'[i]]
      BY <1>1
    <3> QED
      BY <1>4, <3>1
  <2> QED
    BY <1>2, <2>1, <2>2 DEF PackagesInv, TypeOK, uploadVars, backfillVars
<1>6. \A i \in Installations : \A kp : HasPackage(i, kp)' => HasPackage(i, kp)
  BY <1>3 DEF HasPackage, Range
<1>7. KeptStays
  <2> SUFFICES ASSUME NEW i \in Installations, NEW k, Kept(i, k) PROVE Kept(i, k)'
    BY DEF KeptStays
  <2>1. CASE k \in pruned[i]
    BY <1>4, <2>1 DEF Kept
  <2>2. CASE HasPackage(i, k) /\ i \in S
    BY <1>4, <2>2 DEF Kept
  <2>3. CASE HasPackage(i, k) /\ i \notin S
    <3>1. key_packages'[i] = key_packages[i]
      BY <1>1, <2>3
    <3>2. HasPackage(i, k)'
      BY <2>3, <3>1 DEF HasPackage
    <3> QED
      BY <3>2 DEF Kept
  <2> QED
    BY <2>1, <2>2, <2>3 DEF Kept
<1>8. TablesInv'
  <2>1. ServedIsStored'
    BY <1>2 DEF PackagesInv, TablesInv, ServedIsStored, Last
  <2>2. \A i \in Installations : WereStored(key_packages'[i], stored[i]) /\ InOrder(key_packages'[i], stored[i])
    <3> SUFFICES ASSUME NEW i \in Installations
                 PROVE  WereStored(key_packages'[i], stored[i]) /\ InOrder(key_packages'[i], stored[i])
      OBVIOUS
    <3>1. CASE key_packages'[i] = <<>>
      BY <3>1 DEF WereStored, InOrder
    <3>2. CASE key_packages'[i] = key_packages[i]
      BY <3>2 DEF PackagesInv, TablesInv, RowsWereStored, RowsInOrder
    <3> QED
      BY <1>3, <3>1, <3>2
  <2>3. RowsWereStored' /\ RowsInOrder'
    BY <1>2, <2>2 DEF RowsWereStored, RowsInOrder
  <2>4. AppendedIsKept'
    <3> SUFFICES ASSUME NEW i \in Installations, installations'[i] # NoRow, installations'[i].is_appended
                 PROVE  Kept(i, installations[i].key_package)'
      BY DEF AppendedIsKept
    <3>2. PICK k : k = installations[i].key_package
      OBVIOUS
    <3>3. Kept(i, k)
      BY <1>2, <3>2 DEF PackagesInv, TablesInv, AppendedIsKept
    <3>4. Kept(i, k)'
      BY <1>7, <3>3 DEF KeptStays
    <3> QED
      BY <1>2, <3>2, <3>4
  <2> QED
    BY <2>1, <2>3, <2>4 DEF TablesInv
<1>9. TxInv'
  BY <1>2, <1>6, <1>7, TxUntouched
<1> QED
  BY <1>5, <1>8, <1>9 DEF PackagesInv

\* Time passes, or nothing happens.
LEMMA PackagesRest ==
  ASSUME PackagesInv, TimePasses \/ UNCHANGED vars
  PROVE  PackagesInv'
<1>1. /\ UNCHANGED <<installations, key_packages, pruned, stored>>
      /\ UNCHANGED <<uploadVars, insert, backfillVars>>
  BY DEF TimePasses, vars
<1>2. clock' \in Times
  BY KeyPackagesAssumption DEF TimePasses, vars, PackagesInv, TypeOK, Times
<1>3. TypeOK'
  BY <1>1, <1>2 DEF PackagesInv, TypeOK, uploadVars, backfillVars
<1>4. TablesInv' /\ KeptStays /\ \A i, kp : HasPackage(i, kp)' <=> HasPackage(i, kp)
  BY <1>1, TablesUntouched DEF PackagesInv
<1>5. TxInv'
  BY <1>1, <1>4, TxUntouched
<1> QED
  BY <1>3, <1>4, <1>5 DEF PackagesInv

\* Every step keeps the invariant.
LEMMA PackagesNext == PackagesInv /\ [Next]_vars => PackagesInv'
<1> SUFFICES ASSUME PackagesInv, [Next]_vars PROVE PackagesInv'
  OBVIOUS
<1>1. CASE \E u \in Uploads : UploadStep(u)
  <2>1. PICK u \in Uploads : UploadStep(u)
    BY <1>1
  <2>2. CASE CommitUpload(u)
    BY <2>2, UploadCommits
  <2>3. CASE ~CommitUpload(u)
    BY <2>1, <2>3, UploadTries DEF UploadStep
  <2> QED
    BY <2>2, <2>3
<1>2. CASE \E b \in Backfillers : Select(b) \/ InsertSelected(b) \/ CommitBackfill(b) \/ FailBackfill(b)
  <2>1. PICK b \in Backfillers : Select(b) \/ InsertSelected(b) \/ CommitBackfill(b) \/ FailBackfill(b)
    BY <1>2
  <2>2. CASE CommitBackfill(b)
    BY <2>2, BackfillCommits
  <2>3. CASE ~CommitBackfill(b)
    BY <2>1, <2>3, BackfillTries
  <2> QED
    BY <2>2, <2>3
<1>3. CASE PruneInstallations
  BY <1>3, InstallationsPruned
<1>4. CASE PruneKeyPackages
  BY <1>4, KeyPackagesPruned
<1>5. CASE TimePasses \/ Quiet \/ UNCHANGED vars
  BY <1>5, PackagesRest DEF Quiet
<1> QED
  BY <1>1, <1>2, <1>3, <1>4, <1>5 DEF Next

\* The invariant always holds.
LEMMA PackagesAlways == Spec => []PackagesInv
  BY PackagesInit, PackagesNext, PTL DEF Spec

-----------------------------------------------------------------------------
(* What it comes to.                                                       *)

\* A served package that was not replaced and came back is the last of the kept ones.
LEMMA InvGivesNewest == PackagesInv => NewestIsLast
<1> SUFFICES ASSUME PackagesInv, NEW i \in Installations, NEW kp \in FetchKeyPackages(i),
                    installations[i].is_appended, Fresh(i), kp \notin pruned[i]
             PROVE  key_packages[i] # <<>> /\ Last(key_packages[i]).key_package = kp
  BY DEF NewestIsLast
<1>1. installations[i] # NoRow /\ kp = installations[i].key_package
  BY DEF FetchKeyPackages
<1>2. kp = Last(stored[i])
  BY <1>1 DEF PackagesInv, TablesInv, ServedIsStored
<1>3. HasPackage(i, kp)
  BY <1>1 DEF PackagesInv, TablesInv, AppendedIsKept, Kept
<1>4. PICK p \in 1..Len(key_packages[i]) : key_packages[i][p].key_package = kp
  BY <1>3 DEF HasPackage, Range
<1>5. /\ key_packages[i] \in Seq(PackageRow) /\ Len(key_packages[i]) \in Nat
  BY RowTypes DEF PackagesInv
<1>6. PICK q : q = Len(key_packages[i])
  OBVIOUS
<1>7. p \in 1..q /\ q \in 1..Len(key_packages[i]) /\ key_packages[i] # <<>>
  BY <1>4, <1>5, <1>6
<1>8. key_packages[i][q].key_package = kp
  <2>1. CASE p = q
    BY <1>4, <2>1
  <2>2. CASE p # q
    <3>1. p < q
      BY <1>5, <1>6, <1>7, <2>2
    <3>2. PICK m \in 1..Len(stored[i]), n \in 1..Len(stored[i]) :
             /\ m < n /\ stored[i][m] = key_packages[i][p].key_package
             /\ stored[i][n] = key_packages[i][q].key_package
      <4>1. InOrder(key_packages[i], stored[i])
        BY DEF PackagesInv, TablesInv, RowsInOrder
      <4> QED
        BY <1>4, <1>7, <3>1, <4>1 DEF InOrder
    <3> QED
      BY <1>2, <1>4, <3>2 DEF Fresh
  <2> QED
    BY <2>1, <2>2
<1> QED
  BY <1>6, <1>7, <1>8 DEF Last

\* For any installations, uploads and nodes, however uploads, backfills, prunes and roll-backs
\* interleave: the key package that FetchKeyPackages serves for an appended installation is the
\* last row of key_packages, unless that row was pruned or an older package came back
\* (store.go:257-294, backfiller_installations.go:62-131).
THEOREM ServedIsNewest == Spec => []NewestIsLast
  BY PackagesAlways, InvGivesNewest, PTL

\* Every structure of the two tables and the transactions keeps its shape.
THEOREM PackagesTypeCorrect == Spec => []TypeOK
<1>1. PackagesInv => TypeOK
  BY DEF PackagesInv
<1> QED
  BY <1>1, PackagesAlways, PTL
=============================================================================
