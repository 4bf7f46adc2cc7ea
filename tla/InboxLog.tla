------------------------------ MODULE InboxLog ------------------------------
(***************************************************************************)
(* Publishing identity updates: PublishIdentityUpdate and                  *)
(* RunInRepeatableReadTx (pkg/mls/store/store.go) with the statements they *)
(* run (queries.sql).                                                      *)
(*                                                                         *)
(* The transaction is REPEATABLE READ: its snapshot is the one of its      *)
(* first statement, and that statement is the wait for the inbox's         *)
(* advisory lock.  A caller that had to wait therefore works on a log that *)
(* may have grown; the touch of the inboxes row is what turns this into a  *)
(* serialization failure, and the failure into a retry.                    *)
(***************************************************************************)
EXTENDS Integers, Sequences, FiniteSets

CONSTANTS
  Inboxes, Addresses,
  Callers,     \* the calls of PublishIdentityUpdate
  Update,      \* Update[p]: what call p publishes
  MaxEntries,  \* 256
  NumRetries   \* 3

IdentityUpdate == [inbox: Inboxes, nonce: Nat, adds: SUBSET Addresses, removes: SUBSET Addresses]

ASSUME InboxAssumption ==
  /\ Update \in [Callers -> IdentityUpdate]
  /\ MaxEntries \in Nat \ {0} /\ NumRetries \in Nat \ {0}

VARIABLES
  sequence,    \* the sequence of inbox_log.sequence_id
  inboxLog,    \* inboxLog[x]: the committed entries of x
  touched,     \* the version of x's row in inboxes
  addressLog,  \* the rows of address_log
  tx,          \* tx[p]: the transaction of call p
  reply        \* what call p returned

dbVars == <<sequence, inboxLog, touched, addressLog>>
vars == <<dbVars, tx, reply>>

\* basis is a ghost: how many entries the update was validated against.
Entry == [id: Nat, update: IdentityUpdate, basis: Nat]
NotRevoked == 0
AddressRow == [address: Addresses, inbox: Inboxes, association: Nat, revocation: Nat]
Tx == [pc: {"idle", "waiting", "locked", "inserted"}, tries: 0..NumRetries,
       seen: Nat, version: Nat, id: Nat]

\* Every table has its shape, no inbox has more than MaxEntries entries and no call makes
\* more than NumRetries attempts.
TypeOK ==
  /\ sequence \in Nat
  /\ inboxLog \in [Inboxes -> Seq(Entry)]
  /\ \A x \in Inboxes : Len(inboxLog[x]) <= MaxEntries
  /\ touched \in [Inboxes -> Nat]
  /\ addressLog \subseteq AddressRow
  /\ tx \in [Callers -> Tx]
  /\ reply \in [Callers -> {"none", "ok", "error"}]

InboxOf(p) == Update[p].inbox

\* The members after the first n updates of a log.
Members(log) ==
  LET after[n \in 0..Len(log)] ==
        IF n = 0 THEN {}
        ELSE (after[n - 1] \cup log[n].update.adds) \ log[n].update.removes
  IN  after[Len(log)]

\* What GetAssociationState of the validation service accepts, as far as this code depends
\* on it: an update is not applied twice, adds strangers and removes members.
Accepts(log, u) ==
  /\ \A n \in 1..Len(log) : log[n].update # u
  /\ u.adds \cap Members(log) = {}
  /\ u.removes \subseteq Members(log)

Init ==
  /\ sequence = 0
  /\ inboxLog = [x \in Inboxes |-> <<>>]
  /\ touched = [x \in Inboxes |-> 0]
  /\ addressLog = {}
  /\ tx = [p \in Callers |-> [pc |-> "idle", tries |-> 0, seen |-> 0, version |-> 0, id |-> 0]]
  /\ reply = [p \in Callers |-> "none"]

-----------------------------------------------------------------------------
(* One attempt of RunInRepeatableReadTx.                                   *)

Running(p) == reply[p] = "none" /\ tx[p].pc # "idle"

\* BEGIN and the first statement: the snapshot is taken, then the lock is waited for.
Begin(p) ==
  /\ reply[p] = "none" /\ tx[p].pc = "idle"
  /\ tx' = [tx EXCEPT ![p] = [pc |-> "waiting", tries |-> @.tries + 1,
                              seen |-> Len(inboxLog[InboxOf(p)]),
                              version |-> touched[InboxOf(p)], id |-> 0]]
  /\ UNCHANGED <<dbVars, reply>>

\* The inbox's advisory lock, held to the end of the transaction, is free.
Unlocked(x) ==
  \A p \in Callers : tx[p].pc \in {"locked", "inserted"} => InboxOf(p) # x

LockInboxLog(p) ==
  /\ Running(p) /\ tx[p].pc = "waiting" /\ Unlocked(InboxOf(p))
  /\ tx' = [tx EXCEPT ![p].pc = "locked"]
  /\ UNCHANGED <<dbVars, reply>>

\* GetAllInboxLogs, on the snapshot.
Seen(p) == SubSeq(inboxLog[InboxOf(p)], 1, tx[p].seen)

Full(log) == Len(log) >= MaxEntries

\* The log has room, the validation service accepts the update: the entry is inserted.
InsertInboxLog(p) ==
  /\ Running(p) /\ tx[p].pc = "locked"
  /\ ~Full(Seen(p)) /\ Accepts(Seen(p), Update[p])
  /\ sequence' = sequence + 1
  /\ tx' = [tx EXCEPT ![p].pc = "inserted", ![p].id = sequence + 1]
  /\ UNCHANGED <<inboxLog, touched, addressLog, reply>>

\* Mutant of Touches: the inboxes row is not touched.
TouchesNothing(p) == TRUE

\* TouchInbox: fails when another transaction changed the row after the snapshot.
Touches(p) == touched[InboxOf(p)] = tx[p].version

\* Mutant of Revoke: every association of the address ends, whatever its inbox.
RevokeEverywhere(row, p) ==
  IF row.address \in Update[p].removes /\ row.revocation = NotRevoked
  THEN [row EXCEPT !.revocation = tx[p].id] ELSE row

\* RevokeAddressFromLog: the newest association of the address with this inbox ends.
Revoke(row, p) ==
  IF /\ row.address \in Update[p].removes /\ row.inbox = InboxOf(p)
     /\ \A o \in addressLog : o.address = row.address /\ o.inbox = row.inbox
                                => o.association <= row.association
  THEN [row EXCEPT !.revocation = tx[p].id] ELSE row

\* InsertAddressLog: one row per new member.
Associations(p) ==
  {[address |-> a, inbox |-> InboxOf(p), association |-> tx[p].id, revocation |-> NotRevoked] :
     a \in Update[p].adds}

\* Mutant of AfterFailure: the error of the last attempt is lost.
AfterFailureLost(p) == IF tx[p].tries < NumRetries THEN "none" ELSE "ok"

\* What becomes of call p when its attempt failed: another one, or the error.
AfterFailure(p) == IF tx[p].tries < NumRetries THEN "none" ELSE "error"

Retried(p) ==
  /\ tx' = [tx EXCEPT ![p].pc = "idle"]
  /\ reply' = [reply EXCEPT ![p] = AfterFailure(p)]

\* The address log is updated, the inbox touched and the transaction committed.  When the
\* answer to COMMIT is lost, the attempt is repeated like any other that failed.
Commit(p) ==
  /\ Running(p) /\ tx[p].pc = "inserted" /\ Touches(p)
  /\ inboxLog' = [inboxLog EXCEPT ![InboxOf(p)] =
                    Append(@, [id |-> tx[p].id, update |-> Update[p], basis |-> tx[p].seen])]
  /\ touched' = [touched EXCEPT ![InboxOf(p)] = @ + 1]
  /\ addressLog' = {Revoke(row, p) : row \in addressLog} \cup Associations(p)
  /\ \/ /\ reply' = [reply EXCEPT ![p] = "ok"]
        /\ tx' = [tx EXCEPT ![p].pc = "idle"]
     \/ Retried(p)
  /\ UNCHANGED sequence

\* The attempt fails: the log is full, the update is refused, the touch conflicts, or a
\* statement fails.
RollBack(p) ==
  /\ Running(p)
  /\ Retried(p)
  /\ UNCHANGED dbVars

\* ctx is done: the open transaction fails and the loop gives up.
Cancel(p) ==
  /\ reply[p] = "none"
  /\ tx' = [tx EXCEPT ![p].pc = "idle"]
  /\ reply' = [reply EXCEPT ![p] = "error"]
  /\ UNCHANGED dbVars

-----------------------------------------------------------------------------

Entries(x) == {inboxLog[x][n] : n \in 1..Len(inboxLog[x])}

\* Every call returned.
Quiet == (\A p \in Callers : reply[p] # "none") /\ UNCHANGED vars

Next ==
  \/ \E p \in Callers : \/ Begin(p) \/ LockInboxLog(p) \/ InsertInboxLog(p) \/ Commit(p)
                        \/ RollBack(p) \/ Cancel(p)
  \/ Quiet

Spec == Init /\ [][Next]_vars

-----------------------------------------------------------------------------
(* Properties.                                                             *)

\* Every stored update was validated against exactly the updates stored before it: no
\* caller that waited for the lock gets through on its stale snapshot.
ValidatedInOrder ==
  \A x \in Inboxes : \A n \in 1..Len(inboxLog[x]) :
    /\ inboxLog[x][n].basis = n - 1
    /\ Accepts(SubSeq(inboxLog[x], 1, n - 1), inboxLog[x][n].update)

\* A call that returned OK stored its update, and no update is stored twice although a
\* commit whose answer was lost is tried again.
StoredOnce ==
  /\ \A p \in Callers : reply[p] = "ok" =>
       \E e \in Entries(InboxOf(p)) : e.update = Update[p]
  /\ \A x \in Inboxes : \A m, n \in 1..Len(inboxLog[x]) :
       inboxLog[x][m].update = inboxLog[x][n].update => m = n

\* The address log agrees with the inbox logs: an address has an association with an inbox
\* that is not revoked exactly when the inbox's updates make it a member.
AddressLogAgrees ==
  \A x \in Inboxes :
    {row.address : row \in {o \in addressLog : o.inbox = x /\ o.revocation = NotRevoked}}
      = Members(inboxLog[x])
=============================================================================
