----------------------------- MODULE RateLimiter -----------------------------
(***************************************************************************)
(* The token bucket rate limiter (pkg/ratelimiter): Spend, called by the   *)
(* interceptor of every request, against the janitor that sweeps expired   *)
(* entries and swaps the two generations of buckets.                       *)
(*                                                                         *)
(* Entries have an identity, as the pointers of the code do: a Spend keeps *)
(* using the entry it found even when the janitor deletes it from the map. *)
(* Time is counted in ticks, TicksPerMinute of them to a minute; an entry  *)
(* has the age of its lastSeen, which stops growing at AgeCap, where it is *)
(* expired and any refill fills the bucket.  Limit.Refill reads the clock  *)
(* before it has the entry's mutex; MaxStall bounds the wait.              *)
(*                                                                         *)
(* deleteExpired reads lastSeen without the entry's mutex.  The read races *)
(* with Refill's write, but time.Since uses one word of a time.Time that   *)
(* has a monotonic reading, so it sees the old value or the new one.       *)
(***************************************************************************)
EXTENDS Integers, FiniteSets

CONSTANTS
  Procs,           \* the requests in progress
  Keys,            \* bucket names: priority, ip and limit type
  Entries,         \* room for *Entry values
  None,
  MaxTokens, Rate, \* of the limit, multiplier included
  Costs,           \* what a request may cost
  TicksPerMinute,
  ExpiresAfter,    \* in ticks
  MaxStall         \* bound: ticks between Refill's time.Now() and its lock

Generations == {"buckets1", "buckets2"}
Other(g) == IF g = "buckets1" THEN "buckets2" ELSE "buckets1"
AgeCap == MaxStall + (IF ExpiresAfter + 1 > TicksPerMinute * MaxTokens
                      THEN ExpiresAfter + 1 ELSE TicksPerMinute * MaxTokens)
\* Bound of the ghost account: a full bucket, and every refill an entry can be due.
Ceiling == MaxTokens + Rate * ((AgeCap \div TicksPerMinute) + 1)

ASSUME LimiterAssumption ==
  /\ MaxTokens \in Nat \ {0} /\ Rate \in Nat \ {0} /\ Costs \subseteq Nat
  /\ TicksPerMinute \in Nat \ {0} /\ ExpiresAfter \in Nat /\ MaxStall \in Nat
  /\ None \notin Entries /\ IsFiniteSet(Entries)

VARIABLES
  buckets,        \* buckets[g][k]: the entry of k in generation g, or None
  newBuckets,     \* the generation that can be added to; the other is oldBuckets
  tokens, age,    \* of each entry: its balance, and how long ago lastSeen was
  pc,             \* where each Spend is
  key, cost, entry, \* its bucket, its cost, the entry it found
  now,            \* how long ago it read the clock to refill that entry
  sweep,          \* where the janitor is
  expired,        \* the buckets it found expired
  verdict,        \* the outcome of the Spend that has ended
  account, phase  \* ghost: MaxTokens, plus Rate for each minute since the entry was
                  \* created, minus what was spent; and where in its minute it is

mapVars == <<buckets, newBuckets>>
entryVars == <<tokens, age>>
procVars == <<pc, key, cost, entry, now, verdict>>
janitorVars == <<sweep, expired>>
ghostVars == <<account, phase>>
vars == <<mapVars, entryVars, procVars, janitorVars, ghostVars>>

\* The state is well formed; no balance exceeds the limit, none is negative.
TypeOK ==
  /\ buckets \in [Generations -> [Keys -> Entries \cup {None}]]
  /\ newBuckets \in Generations
  /\ tokens \in [Entries -> 0..MaxTokens] /\ age \in [Entries -> 0..AgeCap]
  /\ pc \in [Procs -> {"idle", "old", "new", "create", "refill", "spend"}]
  /\ key \in [Procs -> Keys] /\ cost \in [Procs -> Costs]
  /\ entry \in [Procs -> Entries \cup {None}] /\ now \in [Procs -> 0..MaxStall]
  /\ sweep \in {"idle", "delete"} /\ expired \subseteq Keys
  /\ verdict \in [Procs -> {"none", "allowed", "denied"}]
  /\ account \in [Entries -> 0..Ceiling] /\ phase \in [Entries -> 0..(TicksPerMinute - 1)]

Init ==
  /\ buckets = [g \in Generations |-> [k \in Keys |-> None]]
  /\ newBuckets = "buckets1"
  /\ tokens = [e \in Entries |-> 0] /\ age = [e \in Entries |-> 0]
  /\ pc = [p \in Procs |-> "idle"]
  /\ key \in [Procs -> Keys] /\ cost \in [Procs -> Costs]
  /\ entry = [p \in Procs |-> None] /\ now = [p \in Procs |-> 0]
  /\ verdict = [p \in Procs |-> "none"]
  /\ sweep = "idle" /\ expired = {}
  /\ account = [e \in Entries |-> 0] /\ phase = [e \in Entries |-> 0]

AtMost(n, limit) == IF n < limit THEN n ELSE limit

\* An entry nobody can reach any more.
Free(e) ==
  /\ \A g \in Generations, k \in Keys : buckets[g][k] # e
  /\ \A p \in Procs : entry[p] # e

\* The entry the next &Entry{} gets: which of the free ones does not matter.
Allocated(e) == Free(e) /\ e = CHOOSE x \in Entries : Free(x)

-----------------------------------------------------------------------------
(* Spend.                                                                  *)

\* A request arrives; Spend takes the read lock of the limiter.
StartSpend(p, k, c) ==
  /\ pc[p] = "idle"
  /\ pc' = [pc EXCEPT ![p] = "old"]
  /\ key' = [key EXCEPT ![p] = k] /\ cost' = [cost EXCEPT ![p] = c]
  /\ entry' = [entry EXCEPT ![p] = None] /\ verdict' = [verdict EXCEPT ![p] = "none"]
  /\ UNCHANGED <<mapVars, entryVars, now, janitorVars, ghostVars>>

\* getAndRefill on oldBuckets, which creates nothing.
LookInOld(p) ==
  /\ pc[p] = "old"
  /\ LET e == buckets[Other(newBuckets)][key[p]]
     IN  /\ entry' = [entry EXCEPT ![p] = e]
         /\ pc' = [pc EXCEPT ![p] = IF e = None THEN "new" ELSE "refill"]
  /\ UNCHANGED <<mapVars, entryVars, key, cost, now, verdict, janitorVars, ghostVars>>

\* getAndRefill on newBuckets, under the map's read lock.
LookInNew(p) ==
  /\ pc[p] = "new"
  /\ LET e == buckets[newBuckets][key[p]]
     IN  /\ entry' = [entry EXCEPT ![p] = e]
         /\ pc' = [pc EXCEPT ![p] = IF e = None THEN "create" ELSE "refill"]
  /\ UNCHANGED <<mapVars, entryVars, key, cost, now, verdict, janitorVars, ghostVars>>

\* Another request created the entry since.
Present(k) == buckets[newBuckets][k] # None

\* Under the map's write lock: look again, else create a full entry.
Create(p) ==
  /\ pc[p] = "create"
  /\ IF Present(key[p])
     THEN /\ entry' = [entry EXCEPT ![p] = buckets[newBuckets][key[p]]]
          /\ pc' = [pc EXCEPT ![p] = "refill"]
          /\ UNCHANGED <<buckets, entryVars, ghostVars>>
     ELSE \E e \in Entries :
            /\ Allocated(e)
            /\ buckets' = [buckets EXCEPT ![newBuckets][key[p]] = e]
            /\ tokens' = [tokens EXCEPT ![e] = MaxTokens]
            /\ age' = [age EXCEPT ![e] = 0]
            /\ account' = [account EXCEPT ![e] = MaxTokens]
            /\ phase' = [phase EXCEPT ![e] = 0]
            /\ entry' = [entry EXCEPT ![p] = e]
            /\ pc' = [pc EXCEPT ![p] = "spend"]
  /\ UNCHANGED <<newBuckets, key, cost, now, verdict, janitorVars>>

\* Mutant of WholeMinutes: rounded up.
WholeMinutesUp(ticks) == (ticks + TicksPerMinute - 1) \div TicksPerMinute

\* int(minutesSinceLastSeen)
WholeMinutes(ticks) == ticks \div TicksPerMinute

\* Limit.Refill, under the entry's mutex, with the clock read a while ago: nothing
\* happens when another request has refilled since; then the read lock is released.
Refill(p) ==
  /\ pc[p] = "refill"
  /\ LET e == entry[p]  elapsed == age[e] - now[p]
     IN  IF elapsed > 0
         THEN /\ tokens' = [tokens EXCEPT ![e] =
                              AtMost(@ + Rate * WholeMinutes(elapsed), MaxTokens)]
              /\ age' = [age EXCEPT ![e] = now[p]]
         ELSE UNCHANGED entryVars
  /\ pc' = [pc EXCEPT ![p] = "spend"] /\ now' = [now EXCEPT ![p] = 0]
  /\ UNCHANGED <<mapVars, key, cost, entry, verdict, janitorVars, ghostVars>>

Covers(e, c) == tokens[e] >= c

\* The check and the deduction, under the entry's mutex.
FinishSpend(p) ==
  /\ pc[p] = "spend"
  /\ LET e == entry[p]
     IN  IF Covers(e, cost[p])
         THEN /\ tokens' = [tokens EXCEPT ![e] = @ - cost[p]]
              /\ account' = [account EXCEPT ![e] = @ - cost[p]]
              /\ verdict' = [verdict EXCEPT ![p] = "allowed"]
         ELSE /\ verdict' = [verdict EXCEPT ![p] = "denied"]
              /\ UNCHANGED <<tokens, account>>
  /\ pc' = [pc EXCEPT ![p] = "idle"]
  /\ entry' = [entry EXCEPT ![p] = None]
  /\ UNCHANGED <<mapVars, age, key, cost, now, janitorVars, phase>>

-----------------------------------------------------------------------------
(* The janitor.                                                            *)

\* Mutant of Expired: the comparison is the wrong way round.
ExpiredNever(e) == FALSE

Expired(e) == age[e] > ExpiresAfter

\* deleteExpired: the scan of oldBuckets.
Scan ==
  /\ sweep = "idle"
  /\ expired' = {k \in Keys : LET e == buckets[Other(newBuckets)][k]
                              IN  e # None /\ Expired(e)}
  /\ sweep' = "delete"
  /\ UNCHANGED <<mapVars, entryVars, procVars, ghostVars>>

\* One of the expired buckets is looked at again and deleted.
DeleteExpired(k) ==
  /\ sweep = "delete" /\ k \in expired
  /\ expired' = expired \ {k}
  /\ LET e == buckets[Other(newBuckets)][k]
     IN  buckets' = IF e # None /\ Expired(e)
                    THEN [buckets EXCEPT ![Other(newBuckets)][k] = None] ELSE buckets
  /\ UNCHANGED <<newBuckets, entryVars, procVars, sweep, ghostVars>>

\* Mutant of NoReader: the swap does not take the write lock.
NoReaderNeeded == TRUE

\* No Spend holds the read lock.
NoReader == \A p \in Procs : pc[p] \notin {"old", "new", "create", "refill"}

\* The generations are swapped under the limiter's write lock.
Swap ==
  /\ sweep = "delete" /\ expired = {}
  /\ NoReader
  /\ newBuckets' = Other(newBuckets)
  /\ sweep' = "idle"
  /\ UNCHANGED <<buckets, entryVars, procVars, expired, ghostVars>>

-----------------------------------------------------------------------------

\* A tick.  The account is credited on the entry's minute; of an entry nobody can reach
\* nothing is remembered.
TimePasses ==
  LET InUse(f) == [e \in Entries |-> IF Free(e) THEN 0 ELSE f[e]]
  IN
  /\ \A p \in Procs : pc[p] = "refill" => now[p] < MaxStall
  /\ now' = [p \in Procs |-> IF pc[p] = "refill" THEN now[p] + 1 ELSE 0]
  /\ tokens' = InUse(tokens)
  /\ age' = InUse([e \in Entries |-> AtMost(age[e] + 1, AgeCap)])
  /\ phase' = InUse([e \in Entries |-> (phase[e] + 1) % TicksPerMinute])
  /\ account' = InUse([e \in Entries |->
                        AtMost(account[e] + (IF phase'[e] = 0 THEN Rate ELSE 0), Ceiling)])
  /\ UNCHANGED <<mapVars, pc, key, cost, entry, verdict, janitorVars>>

SpendStep(p) ==
  \/ \E k \in Keys, c \in Costs : StartSpend(p, k, c)
  \/ LookInOld(p) \/ LookInNew(p) \/ Create(p) \/ Refill(p) \/ FinishSpend(p)

Next ==
  \/ \E p \in Procs : SpendStep(p)
  \/ Scan \/ (\E k \in Keys : DeleteExpired(k)) \/ Swap
  \/ TimePasses

Spec == Init /\ [][Next]_vars

\* Time passes, the janitor's ticker fires and its deletions proceed; a writer waiting for
\* a sync.RWMutex keeps new readers out, so the swap is not put off for ever.
JanitorFairness ==
  /\ WF_vars(TimePasses) /\ WF_vars(Scan) /\ SF_vars(Swap)
  /\ \A k \in Keys : WF_vars(DeleteExpired(k))
  /\ \A p \in Procs : WF_vars(LookInOld(p) \/ LookInNew(p) \/ Create(p) \/ Refill(p) \/ FinishSpend(p))

JanitorSpec == Spec /\ JanitorFairness

-----------------------------------------------------------------------------
(* Properties.                                                             *)

\* A bucket has at most one entry: no Spend creates a second one in the other generation,
\* whatever the janitor deletes and swaps meanwhile.
OneEntry ==
  \A k \in Keys : \E g \in Generations : buckets[g][k] = None

\* An entry never grants more than MaxTokens plus Rate for each whole minute since it was
\* created, whatever refills and spends interleave: what it holds, with the refill it is
\* due, is always covered by the account.
NeverOverspent ==
  \A e \in Entries :
    ~Free(e) => tokens[e] + Rate * (age[e] \div TicksPerMinute) <= account[e]

\* An entry that is not spent against any more disappears (the map does not grow for ever).
IdleEntriesGo ==
  \A k \in Keys :
    (<>[](\A p \in Procs : pc[p] # "idle" => key[p] # k))
      => <>[](\A g \in Generations : buckets[g][k] = None)
=============================================================================
