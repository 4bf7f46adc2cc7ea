-------------------------- MODULE RateLimiterProofs --------------------------
(***************************************************************************)
(* Proofs about RateLimiter, for any requests, buckets, entries, limits    *)
(* and clock: a bucket never has an entry in both generations, and what an *)
(* entry grants is covered by its limit, however the refills and the       *)
(* spends of its requests interleave.                                      *)
(***************************************************************************)
EXTENDS RateLimiter, TLAPS

\* What of the types the argument needs.
MapTypes ==
  /\ buckets \in [Generations -> [Keys -> Entries \cup {None}]]
  /\ newBuckets \in Generations
  /\ pc \in [Procs -> {"idle", "old", "new", "create", "refill", "spend"}]
  /\ key \in [Procs -> Keys]

\* A Spend that has not found its bucket in oldBuckets relies on it: the bucket is still
\* absent there, because only newBuckets is added to and no swap happens under the read
\* lock the Spend holds.
AbsentInOld ==
  \A p \in Procs : pc[p] \in {"new", "create"} => buckets[Other(newBuckets)][key[p]] = None

OneEntryInv == MapTypes /\ AbsentInOld /\ OneEntry

\* No entries, no Spend under way.
LEMMA InitOneEntry == Init => OneEntryInv
  BY DEF Init, OneEntryInv, MapTypes, AbsentInOld, OneEntry, Generations

\* There are two generations.
LEMMA Others == \A g \in Generations : Other(g) \in Generations /\ Other(g) # g /\ Other(Other(g)) = g
  BY DEF Generations, Other

\* Only Create adds an entry, and only where both generations have none.
LEMMA StepOneEntry == OneEntryInv /\ [Next]_vars => OneEntryInv'
<1> SUFFICES ASSUME OneEntryInv, [Next]_vars PROVE OneEntryInv'
  OBVIOUS
<1> USE Others DEF OneEntryInv, MapTypes
<1>1. ASSUME NEW p \in Procs, NEW k \in Keys, NEW c \in Costs, StartSpend(p, k, c)
      PROVE OneEntryInv'
  BY <1>1 DEF StartSpend, mapVars, AbsentInOld, OneEntry
<1>2. ASSUME NEW p \in Procs, LookInOld(p) PROVE OneEntryInv'
  BY <1>2 DEF LookInOld, mapVars, AbsentInOld, OneEntry
<1>3. ASSUME NEW p \in Procs, LookInNew(p) PROVE OneEntryInv'
  BY <1>3 DEF LookInNew, mapVars, AbsentInOld, OneEntry
<1>4. ASSUME NEW p \in Procs, Create(p) PROVE OneEntryInv'
  <2>1. CASE Present(key[p])
    BY <1>4, <2>1 DEF Create, AbsentInOld, OneEntry
  <2>2. CASE ~Present(key[p])
    <3>1. PICK e \in Entries : buckets' = [buckets EXCEPT ![newBuckets][key[p]] = e]
      BY <1>4, <2>2 DEF Create
    <3>2. /\ pc[p] = "create" /\ pc' = [pc EXCEPT ![p] = "spend"]
          /\ newBuckets' = newBuckets /\ key' = key
      BY <1>4, <2>2 DEF Create
    <3>3. \A k \in Keys : buckets'[Other(newBuckets)][k] = buckets[Other(newBuckets)][k]
      BY <3>1
    <3>4. MapTypes'
      BY <3>1, <3>2
    <3>5. AbsentInOld'
      BY <3>2, <3>3 DEF AbsentInOld
    <3>6. ASSUME NEW k \in Keys PROVE \E g \in Generations : buckets'[g][k] = None
      <4>1. CASE k = key[p]
        <5>1. buckets[Other(newBuckets)][k] = None
          BY <3>2, <4>1 DEF AbsentInOld
        <5> QED
          BY <5>1, <3>3
      <4>2. CASE k # key[p]
        <5>1. \A g \in Generations : buckets'[g][k] = buckets[g][k]
          BY <3>1, <4>2
        <5> QED
          BY <5>1 DEF OneEntry
      <4> QED
        BY <4>1, <4>2
    <3> QED
      BY <3>4, <3>5, <3>6 DEF OneEntry
  <2> QED
    BY <2>1, <2>2
<1>5. ASSUME NEW p \in Procs, Refill(p) PROVE OneEntryInv'
  BY <1>5 DEF Refill, mapVars, AbsentInOld, OneEntry
<1>6. ASSUME NEW p \in Procs, FinishSpend(p) PROVE OneEntryInv'
  BY <1>6 DEF FinishSpend, mapVars, AbsentInOld, OneEntry
<1>7. ASSUME Scan PROVE OneEntryInv'
  BY <1>7 DEF Scan, mapVars, procVars, AbsentInOld, OneEntry
<1>8. ASSUME NEW k \in Keys, DeleteExpired(k) PROVE OneEntryInv'
  <2>1. /\ newBuckets' = newBuckets /\ pc' = pc /\ key' = key
        /\ \/ buckets' = buckets
           \/ buckets' = [buckets EXCEPT ![Other(newBuckets)][k] = None]
    BY <1>8 DEF DeleteExpired, procVars
  <2>2. \A g \in Generations, j \in Keys : buckets'[g][j] \in {buckets[g][j], None}
    BY <2>1
  <2>3. MapTypes'
    BY <2>1
  <2>4. AbsentInOld'
    BY <2>1, <2>2 DEF AbsentInOld
  <2>5. OneEntry'
    BY <2>2 DEF OneEntry
  <2> QED
    BY <2>3, <2>4, <2>5
<1>9. ASSUME Swap PROVE OneEntryInv'
  <2>1. \A p \in Procs : pc'[p] \notin {"new", "create"}
    BY <1>9 DEF Swap, NoReader, procVars
  <2> QED
    BY <1>9, <2>1 DEF Swap, procVars, AbsentInOld, OneEntry
<1>10. ASSUME TimePasses PROVE OneEntryInv'
  BY <1>10 DEF TimePasses, mapVars, AbsentInOld, OneEntry
<1>11. ASSUME UNCHANGED vars PROVE OneEntryInv'
  BY <1>11 DEF vars, mapVars, procVars, AbsentInOld, OneEntry
<1> QED
  BY <1>1, <1>2, <1>3, <1>4, <1>5, <1>6, <1>7, <1>8, <1>9, <1>10, <1>11
  DEF Next, SpendStep

\* No Spend, in any interleaving with other Spends and the janitor, leaves a bucket with an
\* entry in buckets1 and another in buckets2: its tokens are never doubled.
THEOREM OneEntryPerBucket == Spec => []OneEntry
  BY InitOneEntry, StepOneEntry, PTL DEF Spec, OneEntryInv

-----------------------------------------------------------------------------
(* The account.                                                            *)

\* The minutes the account has been credited for since the entry was last refilled: what
\* the next refill adds is never more, because it counts the whole minutes since then.
Due(e) == (age[e] + (TicksPerMinute - 1 - phase[e])) \div TicksPerMinute

\* What the entry holds, and what it is due by the account's own clock, is in the account.
Covered == \A e \in Entries : ~Free(e) => tokens[e] + Rate * Due(e) <= account[e]

\* A Spend that refills or deducts has an entry.
HasEntry == \A p \in Procs : pc[p] \in {"refill", "spend"} => entry[p] # None

AccountInv == TypeOK /\ HasEntry /\ Covered

\* The quotient and the remainder.
LEMMA Quotient ==
  \A n \in Nat, m \in Nat \ {0} :
    n \div m \in Nat /\ m * (n \div m) <= n /\ n < m * (n \div m) + m
  BY SMT

\* Multiplication keeps the order.
LEMMA Multiples == \A m, x, y \in Nat : m * x \in Nat /\ (x <= y => m * x <= m * y)
  BY SMT

\* The whole minutes of two spans are no more than those of both together.
LEMMA MinutesAdd ==
  ASSUME NEW m \in Nat \ {0}, NEW a \in Nat, NEW b \in Nat
  PROVE  (a \div m) + (b \div m) <= (a + b) \div m
<1> DEFINE q == a \div m  r == b \div m  s == (a + b) \div m
<1>1. q \in Nat /\ r \in Nat /\ s \in Nat /\ m * q <= a /\ m * r <= b /\ a + b < m * s + m
  BY Quotient
<1> HIDE DEF q, r, s
<1>2. ASSUME ~(q + r <= s) PROVE FALSE
  <2>1. m * (s + 1) <= m * (q + r)
    BY <1>1, <1>2, Multiples
  <2> QED
    BY <1>1, <2>1
<1> QED
  BY <1>1, <1>2 DEF q, r, s

\* A longer span has no fewer whole minutes.
LEMMA MinutesGrow ==
  ASSUME NEW m \in Nat \ {0}, NEW a \in Nat, NEW b \in Nat, a <= b
  PROVE  a \div m <= b \div m
<1> DEFINE q == a \div m  s == b \div m
<1>1. q \in Nat /\ s \in Nat /\ m * q <= a /\ b < m * s + m
  BY Quotient
<1> HIDE DEF q, s
<1>2. ASSUME ~(q <= s) PROVE FALSE
  <2>1. m * (s + 1) <= m * q
    BY <1>1, <1>2, Multiples
  <2> QED
    BY <1>1, <2>1
<1> QED
  BY <1>1, <1>2 DEF q, s

\* A minute more is one whole minute more.
LEMMA MinuteMore ==
  ASSUME NEW m \in Nat \ {0}, NEW a \in Nat
  PROVE  (a + m) \div m = (a \div m) + 1
<1> DEFINE q == a \div m  s == (a + m) \div m
<1>1. q \in Nat /\ s \in Nat /\ m * q <= a /\ a < m * q + m /\ m * s <= a + m /\ a + m < m * s + m
  BY Quotient
<1> HIDE DEF q, s
<1>2. ASSUME s < q + 1 PROVE FALSE
  <2>1. m * (s + 1) <= m * (q + 1)
    BY <1>1, <1>2, Multiples
  <2> QED
    BY <1>1, <1>2, <2>1
<1>3. ASSUME q + 1 < s PROVE FALSE
  <2>1. m * (q + 2) <= m * s
    BY <1>1, <1>3, Multiples
  <2> QED
    BY <1>1, <2>1
<1> QED
  BY <1>1, <1>2, <1>3 DEF q, s

\* The bounds of the clock and of the account.
LEMMA Bounds ==
  /\ AgeCap \in Nat /\ MaxStall <= AgeCap
  /\ AgeCap \div TicksPerMinute \in Nat
  /\ Ceiling \in Nat /\ MaxTokens <= Ceiling
<1> USE LimiterAssumption
<1>1. TicksPerMinute * MaxTokens \in Nat
  BY Multiples
<1>2. AgeCap \in Nat /\ MaxStall <= AgeCap
  BY <1>1 DEF AgeCap
<1>3. AgeCap \div TicksPerMinute \in Nat
  BY <1>2, Quotient
<1>4. Rate * ((AgeCap \div TicksPerMinute) + 1) \in Nat
  BY <1>3, Multiples
<1> QED
  BY <1>2, <1>3, <1>4 DEF Ceiling

\* What Due(e) is for an age and a phase that are in range.
LEMMA DueIs ==
  ASSUME TypeOK, NEW e \in Entries
  PROVE  /\ age[e] \in Nat /\ age[e] <= AgeCap /\ phase[e] \in Nat /\ phase[e] < TicksPerMinute
         /\ TicksPerMinute - 1 - phase[e] \in Nat
         /\ Due(e) \in Nat
<1>1. /\ age[e] \in Nat /\ age[e] <= AgeCap /\ phase[e] \in Nat /\ phase[e] < TicksPerMinute
      /\ TicksPerMinute - 1 - phase[e] \in Nat
  BY Bounds, LimiterAssumption DEF TypeOK
<1> QED
  BY <1>1, Quotient, LimiterAssumption DEF Due

\* The account starts empty, of entries nobody has.
LEMMA InitAccount == Init => AccountInv
<1> SUFFICES ASSUME Init PROVE AccountInv
  OBVIOUS
<1>1. \A e \in Entries : Free(e)
  <2>1. \A e \in Entries : e # None
    BY LimiterAssumption
  <2> QED
    BY <2>1 DEF Init, Free, Generations
<1>2. TypeOK
  BY Bounds, LimiterAssumption DEF Init, TypeOK, Generations
<1> QED
  BY <1>1, <1>2 DEF AccountInv, Covered, HasEntry, Init

\* A step that changes no entry, and lets nobody reach one that was out of reach.
LEMMA EntriesKept ==
  ASSUME Covered, tokens' = tokens, age' = age, account' = account, phase' = phase,
         \A e \in Entries : Free(e) => Free(e)'
  PROVE  Covered'
  BY DEF Covered, Due

\* A refill adds no more than what the entry was due.
LEMMA RefillIsDue ==
  ASSUME TypeOK, NEW e \in Entries, NEW n \in Nat, n <= age[e]
  PROVE  /\ (age[e] - n) \div TicksPerMinute \in Nat
         /\ (n + (TicksPerMinute - 1 - phase[e])) \div TicksPerMinute \in Nat
         /\ Rate * ((age[e] - n) \div TicksPerMinute)
              + Rate * ((n + (TicksPerMinute - 1 - phase[e])) \div TicksPerMinute) <= Rate * Due(e)
<1> DEFINE b == n + (TicksPerMinute - 1 - phase[e])
           q == (age[e] - n) \div TicksPerMinute
           r == b \div TicksPerMinute
<1>1. TicksPerMinute \in Nat \ {0} /\ Rate \in Nat
  BY LimiterAssumption
<1>2. b \in Nat /\ age[e] - n \in Nat
      /\ (age[e] - n) + b = age[e] + (TicksPerMinute - 1 - phase[e])
  BY DueIs, <1>1
<1>3. q \in Nat /\ r \in Nat
  BY <1>1, <1>2, Quotient
<1>4. q + r <= Due(e)
  <2>1. q + r <= ((age[e] - n) + b) \div TicksPerMinute
    <3> HIDE DEF b
    <3> QED
      BY <1>1, <1>2, MinutesAdd
  <2> QED
    BY <2>1, <1>2 DEF Due
<1>5. Rate * (q + r) <= Rate * Due(e)
  BY <1>1, <1>3, <1>4, DueIs, Multiples
<1>6. Rate * (q + r) = Rate * q + Rate * r
  <2> HIDE DEF q, r
  <2> QED
    BY <1>1, <1>3
<1> QED
  BY <1>3, <1>5, <1>6

\* Due after a tick: as before, or one minute more when the account is credited.
LEMMA DueAfterTick ==
  ASSUME TypeOK, NEW e \in Entries
  PROVE  LET f == (phase[e] + 1) % TicksPerMinute
             a == AtMost(age[e] + 1, AgeCap)
             d == (a + (TicksPerMinute - 1 - f)) \div TicksPerMinute
         IN  /\ f \in 0..(TicksPerMinute - 1) /\ a \in 0..AgeCap /\ d \in Nat
             /\ IF f = 0 THEN d <= Due(e) + 1 ELSE d <= Due(e)
             /\ d <= (AgeCap \div TicksPerMinute) + 1
<1> DEFINE m == TicksPerMinute
           f == (phase[e] + 1) % m
           a == AtMost(age[e] + 1, AgeCap)
           b == a + (m - 1 - f)
           d == b \div m
<1>1. m \in Nat \ {0}
  BY LimiterAssumption
<1>2. /\ age[e] \in Nat /\ age[e] <= AgeCap /\ phase[e] \in Nat /\ phase[e] < m
      /\ AgeCap \in Nat
  BY DueIs, Bounds
<1>3. a \in Nat /\ a <= AgeCap /\ a <= age[e] + 1
  BY <1>2 DEF AtMost
<1>4. IF phase[e] + 1 = m THEN f = 0 ELSE f = phase[e] + 1
  BY <1>1, <1>2
<1>5. f \in 0..(m - 1)
  BY <1>1, <1>2, <1>4
<1> HIDE DEF m, f, a
<1>6. b \in Nat /\ b <= a + m
  BY <1>1, <1>3, <1>5
<1>7. d \in Nat
  <2> HIDE DEF b
  <2> QED
    BY <1>1, <1>6, Quotient
<1>8. d <= (AgeCap \div m) + 1
  <2>1. b <= AgeCap + m
    BY <1>1, <1>2, <1>3, <1>6
  <2>2. AgeCap + m \in Nat
    BY <1>1, <1>2
  <2> HIDE DEF b
  <2>3. d <= (AgeCap + m) \div m
    BY <1>1, <1>6, <2>1, <2>2, MinutesGrow
  <2> QED
    BY <2>3, <1>1, <1>2, MinuteMore
<1>9. Due(e) = (age[e] + (m - 1 - phase[e])) \div m /\ age[e] + (m - 1 - phase[e]) \in Nat
  BY <1>1, <1>2 DEF Due, m
<1>10. CASE phase[e] + 1 = m
  <2>1. f = 0
    BY <1>4, <1>10
  <2>2. age[e] + (m - 1 - phase[e]) = age[e]
    BY <1>1, <1>2, <1>10
  <2>3. b <= age[e] + m /\ age[e] + m \in Nat
    BY <1>1, <1>2, <1>3, <2>1
  <2> HIDE DEF b
  <2>4. d <= (age[e] + m) \div m
    BY <1>1, <1>6, <2>3, MinutesGrow
  <2>5. d <= (age[e] \div m) + 1
    BY <2>4, <1>1, <1>2, MinuteMore
  <2> QED
    BY <2>1, <2>2, <2>5, <1>3, <1>5, <1>7, <1>8, <1>9 DEF m, f, a, b
<1>11. CASE phase[e] + 1 # m
  <2>1. f = phase[e] + 1 /\ f # 0
    BY <1>2, <1>4, <1>11
  <2>2. b <= age[e] + (m - 1 - phase[e])
    BY <1>1, <1>2, <1>3, <2>1
  <2>3. d <= Due(e)
    <3> HIDE DEF b
    <3> QED
      BY <1>1, <1>6, <1>9, <2>2, MinutesGrow
  <2> QED
    BY <2>1, <2>3, <1>3, <1>5, <1>7, <1>8 DEF m, f, a, b
<1> QED
  BY <1>10, <1>11

\* The books are kept by every step: a refill takes only what is due, a spend is taken
\* from both sides, and a minute's credit covers the minute that becomes due.
LEMMA StepAccount == AccountInv /\ [Next]_vars => AccountInv'
<1> SUFFICES ASSUME AccountInv, [Next]_vars PROVE AccountInv'
  OBVIOUS
<1>0. TypeOK /\ HasEntry /\ Covered
  BY DEF AccountInv
<1>a. /\ MaxTokens \in Nat \ {0} /\ Rate \in Nat \ {0} /\ Costs \subseteq Nat
      /\ TicksPerMinute \in Nat \ {0} /\ MaxStall \in Nat /\ None \notin Entries
  BY LimiterAssumption
<1>1. ASSUME NEW p \in Procs, NEW k \in Keys, NEW c \in Costs, StartSpend(p, k, c)
      PROVE AccountInv'
  <2>1. TypeOK'
    BY <1>0, <1>1 DEF StartSpend, TypeOK, mapVars, entryVars, janitorVars, ghostVars
  <2>2. HasEntry'
    BY <1>0, <1>1 DEF StartSpend, TypeOK, HasEntry
  <2>3. \A e \in Entries : Free(e) => Free(e)'
    BY <1>0, <1>1, <1>a DEF StartSpend, TypeOK, Free, mapVars
  <2>4. Covered'
    BY <1>0, <1>1, <2>3, EntriesKept DEF StartSpend, entryVars, ghostVars
  <2> QED
    BY <2>1, <2>2, <2>4 DEF AccountInv
<1>2. ASSUME NEW p \in Procs, NEW g \in Generations,
             LookInOld(p) \/ LookInNew(p),
             entry' = [entry EXCEPT ![p] = buckets[g][key[p]]],
             buckets[g][key[p]] = None => pc'[p] \notin {"refill", "spend"}
      PROVE AccountInv'
  <2>0. /\ buckets' = buckets /\ newBuckets' = newBuckets /\ tokens' = tokens /\ age' = age
        /\ account' = account /\ phase' = phase /\ key' = key /\ cost' = cost /\ now' = now
        /\ verdict' = verdict /\ sweep' = sweep /\ expired' = expired
    BY <1>2 DEF LookInOld, LookInNew, mapVars, entryVars, janitorVars, ghostVars
  <2>a. buckets[g][key[p]] \in Entries \cup {None}
    BY <1>0, <1>2 DEF TypeOK
  <2>b. \E s \in {"new", "create", "refill"} : pc' = [pc EXCEPT ![p] = s]
    BY <1>2 DEF LookInOld, LookInNew
  <2>1. TypeOK'
    BY <1>0, <1>2, <2>0, <2>a, <2>b DEF TypeOK
  <2>2. HasEntry'
    BY <1>0, <1>2, <2>b DEF TypeOK, HasEntry
  <2>3. \A e \in Entries : Free(e) => Free(e)'
    BY <1>0, <1>2, <2>0 DEF TypeOK, Free
  <2>4. Covered'
    BY <1>0, <2>0, <2>3, EntriesKept
  <2> QED
    BY <2>1, <2>2, <2>4 DEF AccountInv
<1>3. ASSUME NEW p \in Procs, LookInOld(p) PROVE AccountInv'
  <2>1. Other(newBuckets) \in Generations
    BY <1>0, Others DEF TypeOK
  <2>2. /\ entry' = [entry EXCEPT ![p] = buckets[Other(newBuckets)][key[p]]]
        /\ buckets[Other(newBuckets)][key[p]] = None => pc' = [pc EXCEPT ![p] = "new"]
    BY <1>3 DEF LookInOld
  <2> QED
    BY <1>0, <1>2, <1>3, <2>1, <2>2 DEF TypeOK
<1>4. ASSUME NEW p \in Procs, LookInNew(p) PROVE AccountInv'
  <2>1. newBuckets \in Generations
    BY <1>0 DEF TypeOK
  <2>2. /\ entry' = [entry EXCEPT ![p] = buckets[newBuckets][key[p]]]
        /\ buckets[newBuckets][key[p]] = None => pc' = [pc EXCEPT ![p] = "create"]
    BY <1>4 DEF LookInNew
  <2> QED
    BY <1>0, <1>2, <1>4, <2>1, <2>2 DEF TypeOK
<1>5. ASSUME NEW p \in Procs, Create(p), Present(key[p]) PROVE AccountInv'
  <2>0. /\ buckets' = buckets /\ newBuckets' = newBuckets /\ tokens' = tokens /\ age' = age
        /\ account' = account /\ phase' = phase /\ key' = key /\ cost' = cost /\ now' = now
        /\ verdict' = verdict /\ sweep' = sweep /\ expired' = expired
        /\ entry' = [entry EXCEPT ![p] = buckets[newBuckets][key[p]]]
        /\ pc' = [pc EXCEPT ![p] = "refill"]
    BY <1>5 DEF Create, mapVars, entryVars, janitorVars, ghostVars
  <2>a. buckets[newBuckets][key[p]] \in Entries
    BY <1>0, <1>5 DEF TypeOK, Present
  <2>1. TypeOK'
    BY <1>0, <2>0, <2>a DEF TypeOK
  <2>2. HasEntry'
    BY <1>0, <1>a, <2>0, <2>a DEF TypeOK, HasEntry
  <2>3. \A e \in Entries : Free(e) => Free(e)'
    BY <1>0, <2>0 DEF TypeOK, Free
  <2>4. Covered'
    BY <1>0, <2>0, <2>3, EntriesKept
  <2> QED
    BY <2>1, <2>2, <2>4 DEF AccountInv
<1>6. ASSUME NEW p \in Procs, Create(p), ~Present(key[p]) PROVE AccountInv'
  <2>0. PICK n \in Entries :
          /\ buckets' = [buckets EXCEPT ![newBuckets][key[p]] = n]
          /\ tokens' = [tokens EXCEPT ![n] = MaxTokens] /\ age' = [age EXCEPT ![n] = 0]
          /\ account' = [account EXCEPT ![n] = MaxTokens] /\ phase' = [phase EXCEPT ![n] = 0]
          /\ entry' = [entry EXCEPT ![p] = n] /\ pc' = [pc EXCEPT ![p] = "spend"]
    BY <1>6 DEF Create
  <2>a. /\ newBuckets' = newBuckets /\ key' = key /\ cost' = cost /\ now' = now
        /\ verdict' = verdict /\ sweep' = sweep /\ expired' = expired
    BY <1>6 DEF Create, janitorVars
  <2>1. TypeOK'
    <3>1. buckets' \in [Generations -> [Keys -> Entries \cup {None}]]
      BY <1>0, <2>0 DEF TypeOK
    <3>2. MaxTokens \in 0..MaxTokens /\ 0 \in 0..AgeCap /\ MaxTokens \in 0..Ceiling
          /\ 0 \in 0..(TicksPerMinute - 1)
      BY <1>a, Bounds
    <3>3. /\ tokens' \in [Entries -> 0..MaxTokens] /\ age' \in [Entries -> 0..AgeCap]
          /\ account' \in [Entries -> 0..Ceiling]
          /\ phase' \in [Entries -> 0..(TicksPerMinute - 1)]
      BY <1>0, <2>0, <3>2 DEF TypeOK
    <3> QED
      BY <1>0, <2>0, <2>a, <3>1, <3>3 DEF TypeOK
  <2>2. HasEntry'
    BY <1>0, <1>a, <2>0 DEF TypeOK, HasEntry
  <2>3. ASSUME NEW e \in Entries, ~Free(e)'
        PROVE  tokens'[e] + Rate * Due(e)' <= account'[e]
    <3>1. CASE e = n
      <4>1. /\ tokens'[e] = MaxTokens /\ account'[e] = MaxTokens /\ age'[e] = 0 /\ phase'[e] = 0
        BY <1>0, <2>0, <3>1 DEF TypeOK
      <4>2. Due(e)' = (0 + (TicksPerMinute - 1 - 0)) \div TicksPerMinute
        BY <4>1 DEF Due
      <4>3. Due(e)' = 0
        <5>1. (TicksPerMinute - 1) \div TicksPerMinute = 0
          BY <1>a
        <5> QED
          BY <4>2, <5>1, <1>a
      <4> QED
        BY <4>1, <4>3, <1>a
    <3>2. CASE e # n
      <4>1. /\ tokens'[e] = tokens[e] /\ account'[e] = account[e]
            /\ age'[e] = age[e] /\ phase'[e] = phase[e]
        BY <1>0, <2>0, <3>2 DEF TypeOK
      <4>2. ~Free(e)
        <5>1. ASSUME Free(e) PROVE Free(e)'
          <6>1. \A g \in Generations, k \in Keys : buckets'[g][k] # e
            BY <5>1, <1>0, <2>0, <3>2 DEF Free, TypeOK
          <6>2. \A q \in Procs : entry'[q] # e
            BY <5>1, <1>0, <2>0, <3>2 DEF Free, TypeOK
          <6> QED
            BY <6>1, <6>2 DEF Free
        <5> QED
          BY <5>1, <2>3
      <4>3. Due(e)' = Due(e)
        BY <4>1 DEF Due
      <4> QED
        BY <1>0, <4>1, <4>2, <4>3 DEF Covered
    <3> QED
      BY <3>1, <3>2
  <2>4. Covered'
    BY <2>3 DEF Covered
  <2> QED
    BY <2>1, <2>2, <2>4 DEF AccountInv
<1>7. ASSUME NEW p \in Procs, Refill(p) PROVE AccountInv'
  <2> DEFINE e == entry[p]  n == now[p]
  <2>0. /\ buckets' = buckets /\ newBuckets' = newBuckets /\ account' = account
        /\ phase' = phase /\ key' = key /\ cost' = cost /\ entry' = entry
        /\ verdict' = verdict /\ sweep' = sweep /\ expired' = expired
        /\ pc[p] = "refill" /\ pc' = [pc EXCEPT ![p] = "spend"] /\ now' = [now EXCEPT ![p] = 0]
    BY <1>7 DEF Refill, mapVars, janitorVars, ghostVars
  <2>1. e \in Entries /\ n \in Nat /\ n <= MaxStall
    BY <1>0, <1>a, <2>0 DEF TypeOK, HasEntry
  <2>2. /\ age[e] \in Nat /\ tokens[e] \in 0..MaxTokens /\ account[e] \in Nat /\ Due(e) \in Nat
    BY <1>0, <1>a, <2>1, DueIs, Bounds DEF TypeOK
  <2>3. \A x \in Entries : Free(x) <=> Free(x)'
    BY <2>0 DEF Free
  <2>4. HasEntry'
    BY <1>0, <2>0 DEF TypeOK, HasEntry
  <2>5. ASSUME tokens' \in [Entries -> 0..MaxTokens], age' \in [Entries -> 0..AgeCap]
        PROVE  TypeOK'
    BY <1>0, <1>a, <2>0, <2>5 DEF TypeOK
  <2>6. CASE ~(age[e] - n > 0)
    <3>1. tokens' = tokens /\ age' = age
      BY <1>7, <2>6 DEF Refill, entryVars
    <3>2. Covered'
      BY <1>0, <2>0, <2>3, <3>1, EntriesKept
    <3> QED
      BY <1>0, <2>4, <2>5, <3>1, <3>2 DEF AccountInv, TypeOK
  <2>7. CASE age[e] - n > 0
    <3> DEFINE q == (age[e] - n) \div TicksPerMinute
    <3>1. /\ tokens' = [tokens EXCEPT ![e] = AtMost(tokens[e] + Rate * q, MaxTokens)]
          /\ age' = [age EXCEPT ![e] = n]
      BY <1>7, <2>7 DEF Refill, WholeMinutes
    <3>2. n <= age[e]
      BY <2>1, <2>2, <2>7
    <3> DEFINE r == (n + (TicksPerMinute - 1 - phase[e])) \div TicksPerMinute
    <3>3. q \in Nat /\ r \in Nat /\ Rate * q + Rate * r <= Rate * Due(e)
      BY <1>0, <2>1, <3>2, RefillIsDue
    <3>4. Rate * q \in Nat /\ Rate * r \in Nat /\ Rate * Due(e) \in Nat
      BY <1>a, <2>2, <3>3, Multiples
    <3> HIDE DEF q, r
    <3> DEFINE t == AtMost(tokens[e] + Rate * q, MaxTokens)
    <3>5. t \in 0..MaxTokens /\ t <= tokens[e] + Rate * q
      <4> HIDE DEF e
      <4>1. tokens[e] + Rate * q \in Nat
        BY <2>2, <3>4, <1>a
      <4> QED
        BY <4>1, <1>a DEF AtMost
    <3>6. n \in 0..AgeCap
      BY <2>1, Bounds, <1>a
    <3>7. tokens' \in [Entries -> 0..MaxTokens] /\ age' \in [Entries -> 0..AgeCap]
      <4>1. tokens \in [Entries -> 0..MaxTokens] /\ age \in [Entries -> 0..AgeCap]
        BY <1>0 DEF TypeOK
      <4>2. tokens' = [tokens EXCEPT ![e] = t]
        BY <3>1
      <4> HIDE DEF t, e, n
      <4> QED
        BY <4>1, <4>2, <3>1, <3>5, <3>6, <2>1
    <3>8. TypeOK'
      BY <2>5, <3>7
    <3>9. ASSUME NEW x \in Entries, ~Free(x)
          PROVE  tokens'[x] + Rate * Due(x)' <= account'[x]
      <4>0. tokens[x] + Rate * Due(x) <= account[x]
        BY <1>0, <3>9 DEF Covered
      <4>a. tokens \in [Entries -> 0..MaxTokens] /\ age \in [Entries -> 0..AgeCap]
        BY <1>0 DEF TypeOK
      <4>1. CASE x = e
        <5>1. tokens'[x] = t /\ age'[x] = n
          BY <3>1, <4>1, <2>1, <4>a
        <5>2. Due(x)' = r
          BY <5>1, <2>0, <4>1 DEF Due, r
        <5>3. tokens[e] + Rate * Due(e) <= account[e]
          BY <4>0, <4>1
        <5>4. t + Rate * r <= account[e]
          <6> HIDE DEF e, t
          <6> QED
            BY <5>3, <3>3, <3>4, <3>5, <2>2, <1>a
        <5>5. account'[x] = account[e]
          BY <2>0, <4>1
        <5> QED
          BY <5>1, <5>2, <5>4, <5>5
      <4>2. CASE x # e
        <5>1. tokens'[x] = tokens[x] /\ age'[x] = age[x]
          BY <3>1, <4>2, <4>a
        <5>2. Due(x)' = Due(x) /\ account'[x] = account[x]
          BY <5>1, <2>0 DEF Due
        <5> QED
          BY <4>0, <5>1, <5>2
      <4> QED
        BY <4>1, <4>2
    <3>10. Covered'
      BY <2>3, <3>9 DEF Covered
    <3> QED
      BY <2>4, <3>8, <3>10 DEF AccountInv
  <2> QED
    BY <2>6, <2>7
<1>8. ASSUME NEW p \in Procs, FinishSpend(p) PROVE AccountInv'
  <2> DEFINE e == entry[p]
  <2>0. /\ buckets' = buckets /\ newBuckets' = newBuckets /\ age' = age
        /\ phase' = phase /\ key' = key /\ cost' = cost /\ now' = now
        /\ sweep' = sweep /\ expired' = expired
        /\ pc[p] = "spend" /\ pc' = [pc EXCEPT ![p] = "idle"]
        /\ entry' = [entry EXCEPT ![p] = None]
    BY <1>8 DEF FinishSpend, mapVars, janitorVars
  <2>1. e \in Entries /\ cost[p] \in Nat /\ ~Free(e)
    BY <1>0, <1>a, <2>0 DEF TypeOK, HasEntry, Free
  <2>2. \A x \in Entries : Free(x) => Free(x)'
    BY <1>0, <1>a, <2>0 DEF TypeOK, Free
  <2>3. HasEntry'
    BY <1>0, <2>0 DEF TypeOK, HasEntry
  <2>4. verdict' \in [Procs -> {"none", "allowed", "denied"}]
    BY <1>0, <1>8 DEF TypeOK, FinishSpend
  <2>5. ASSUME tokens' \in [Entries -> 0..MaxTokens], account' \in [Entries -> 0..Ceiling]
        PROVE  TypeOK'
    BY <1>0, <2>0, <2>4, <2>5 DEF TypeOK
  <2>6. CASE ~Covers(e, cost[p])
    <3>1. tokens' = tokens /\ account' = account
      BY <1>8, <2>6 DEF FinishSpend
    <3>2. Covered'
      BY <1>0, <2>0, <2>2, <3>1, EntriesKept
    <3> QED
      BY <1>0, <2>3, <2>5, <3>1, <3>2 DEF AccountInv, TypeOK
  <2>7. CASE Covers(e, cost[p])
    <3>1. /\ tokens' = [tokens EXCEPT ![e] = @ - cost[p]]
          /\ account' = [account EXCEPT ![e] = @ - cost[p]]
      BY <1>8, <2>7 DEF FinishSpend
    <3>2. /\ tokens \in [Entries -> 0..MaxTokens] /\ account \in [Entries -> 0..Ceiling]
          /\ \A x \in Entries : Due(x) \in Nat
      BY <1>0, DueIs DEF TypeOK
    <3>3. Rate * Due(e) \in Nat
      BY <1>a, <2>1, <3>2, Multiples
    <3>4. cost[p] <= tokens[e] /\ tokens[e] + Rate * Due(e) <= account[e]
      BY <1>0, <1>a, <2>1, <2>7, <3>2 DEF Covers, Covered
    <3>5. tokens[e] - cost[p] \in 0..MaxTokens /\ account[e] - cost[p] \in 0..Ceiling
          /\ (tokens[e] - cost[p]) + Rate * Due(e) <= account[e] - cost[p]
      <4> HIDE DEF e
      <4>1. tokens[e] \in 0..MaxTokens /\ account[e] \in 0..Ceiling /\ Ceiling \in Nat
        BY <2>1, <3>2, Bounds
      <4> QED
        BY <1>a, <2>1, <3>3, <3>4, <4>1
    <3>6. tokens' \in [Entries -> 0..MaxTokens] /\ account' \in [Entries -> 0..Ceiling]
      BY <2>1, <3>1, <3>2, <3>5
    <3>7. ASSUME NEW x \in Entries, ~Free(x)
          PROVE  tokens'[x] + Rate * Due(x)' <= account'[x]
      <4>0. Due(x)' = Due(x)
        BY <2>0 DEF Due
      <4>1. CASE x = e
        <5>1. tokens'[x] = tokens[e] - cost[p] /\ account'[x] = account[e] - cost[p]
          BY <2>1, <3>1, <3>2, <4>1
        <5> QED
          BY <4>0, <4>1, <5>1, <3>5
      <4>2. CASE x # e
        <5>1. tokens'[x] = tokens[x] /\ account'[x] = account[x]
          BY <3>1, <3>2, <4>2
        <5> QED
          BY <1>0, <3>7, <4>0, <5>1 DEF Covered
      <4> QED
        BY <4>1, <4>2
    <3>8. Covered'
      BY <2>2, <3>7 DEF Covered
    <3> QED
      BY <2>3, <2>5, <3>6, <3>8 DEF AccountInv
  <2> QED
    BY <2>6, <2>7
<1>9. ASSUME Scan PROVE AccountInv'
  <2>1. TypeOK'
    BY <1>0, <1>9 DEF Scan, TypeOK, mapVars, entryVars, procVars, ghostVars
  <2>2. HasEntry' /\ \A e \in Entries : Free(e) => Free(e)'
    BY <1>0, <1>9 DEF Scan, HasEntry, Free, mapVars, procVars
  <2>3. Covered'
    BY <1>0, <1>9, <2>2, EntriesKept DEF Scan, entryVars, ghostVars
  <2> QED
    BY <2>1, <2>2, <2>3 DEF AccountInv
<1>10. ASSUME NEW k \in Keys, DeleteExpired(k) PROVE AccountInv'
  <2>0. /\ newBuckets' = newBuckets /\ tokens' = tokens /\ age' = age /\ account' = account
        /\ phase' = phase /\ pc' = pc /\ key' = key /\ cost' = cost /\ entry' = entry /\ now' = now
        /\ verdict' = verdict /\ sweep' = sweep /\ expired' = expired \ {k}
        /\ \/ buckets' = buckets
           \/ buckets' = [buckets EXCEPT ![Other(newBuckets)][k] = None]
    BY <1>10 DEF DeleteExpired, entryVars, procVars, ghostVars
  <2>1. Other(newBuckets) \in Generations
    BY <1>0, Others DEF TypeOK
  <2>2. /\ buckets' \in [Generations -> [Keys -> Entries \cup {None}]]
        /\ \A g \in Generations, j \in Keys : buckets'[g][j] \in {buckets[g][j], None}
    <3>1. buckets \in [Generations -> [Keys -> Entries \cup {None}]]
      BY <1>0 DEF TypeOK
    <3>2. buckets' = buckets \/ buckets' = [buckets EXCEPT ![Other(newBuckets)][k] = None]
      BY <2>0
    <3>3. buckets' \in [Generations -> [Keys -> Entries \cup {None}]]
      BY <3>1, <3>2, <2>1
    <3> QED
      BY <3>1, <3>2, <3>3, <2>1
  <2>3. TypeOK'
    BY <1>0, <2>0, <2>2 DEF TypeOK
  <2>4. HasEntry'
    BY <1>0, <2>0 DEF HasEntry
  <2>5. \A e \in Entries : Free(e) => Free(e)'
    BY <1>a, <2>0, <2>2 DEF Free
  <2>6. Covered'
    BY <1>0, <2>0, <2>5, EntriesKept
  <2> QED
    BY <2>3, <2>4, <2>6 DEF AccountInv
<1>11. ASSUME Swap PROVE AccountInv'
  <2>1. TypeOK'
    BY <1>0, <1>11, Others DEF Swap, TypeOK, entryVars, procVars, ghostVars
  <2>2. HasEntry' /\ \A e \in Entries : Free(e) => Free(e)'
    BY <1>0, <1>11 DEF Swap, HasEntry, Free, procVars
  <2>3. Covered'
    BY <1>0, <1>11, <2>2, EntriesKept DEF Swap, entryVars, ghostVars
  <2> QED
    BY <2>1, <2>2, <2>3 DEF AccountInv
<1>12. ASSUME TimePasses PROVE AccountInv'
  <2>0. /\ buckets' = buckets /\ newBuckets' = newBuckets /\ pc' = pc /\ key' = key
        /\ cost' = cost /\ entry' = entry /\ verdict' = verdict /\ sweep' = sweep
        /\ expired' = expired
    BY <1>12 DEF TimePasses, mapVars, janitorVars
  <2>1. now' \in [Procs -> 0..MaxStall]
    <3>1. \A p \in Procs : pc[p] = "refill" => now[p] < MaxStall
      BY <1>12 DEF TimePasses
    <3>2. now' = [p \in Procs |-> IF pc[p] = "refill" THEN now[p] + 1 ELSE 0]
      BY <1>12 DEF TimePasses
    <3>3. now \in [Procs -> 0..MaxStall]
      BY <1>0 DEF TypeOK
    <3>4. ASSUME NEW p \in Procs PROVE (IF pc[p] = "refill" THEN now[p] + 1 ELSE 0) \in 0..MaxStall
      BY <3>1, <3>3, <1>a
    <3> QED
      BY <3>2, <3>4
  <2>2. /\ tokens' = [e \in Entries |-> IF Free(e) THEN 0 ELSE tokens[e]]
        /\ age' = [e \in Entries |-> IF Free(e) THEN 0 ELSE AtMost(age[e] + 1, AgeCap)]
        /\ phase' = [e \in Entries |-> IF Free(e) THEN 0 ELSE (phase[e] + 1) % TicksPerMinute]
        /\ account' = [e \in Entries |-> IF Free(e) THEN 0 ELSE
                         AtMost(account[e] + (IF phase'[e] = 0 THEN Rate ELSE 0), Ceiling)]
    BY <1>12 DEF TimePasses
  <2>3. \A e \in Entries : tokens[e] \in 0..MaxTokens /\ account[e] \in 0..Ceiling
    BY <1>0 DEF TypeOK
  <2>4. HasEntry' /\ \A e \in Entries : Free(e)' <=> Free(e)
    BY <1>0, <2>0 DEF HasEntry, Free
  <2>5. ASSUME NEW e \in Entries
        PROVE  /\ tokens'[e] \in 0..MaxTokens /\ age'[e] \in 0..AgeCap
               /\ phase'[e] \in 0..(TicksPerMinute - 1) /\ account'[e] \in 0..Ceiling
               /\ ~Free(e) => tokens'[e] + Rate * Due(e)' <= account'[e]
    <3>1. CASE Free(e)
      <4>1. tokens'[e] = 0 /\ age'[e] = 0 /\ phase'[e] = 0 /\ account'[e] = 0
        BY <2>2, <3>1
      <4> QED
        BY <4>1, <3>1, <1>a, Bounds
    <3>2. CASE ~Free(e)
      <4> DEFINE f == (phase[e] + 1) % TicksPerMinute
                 a == AtMost(age[e] + 1, AgeCap)
                 d == (a + (TicksPerMinute - 1 - f)) \div TicksPerMinute
      <4>1. /\ f \in 0..(TicksPerMinute - 1) /\ a \in 0..AgeCap /\ d \in Nat
            /\ IF f = 0 THEN d <= Due(e) + 1 ELSE d <= Due(e)
            /\ d <= (AgeCap \div TicksPerMinute) + 1
        BY <1>0, DueAfterTick
      <4>2. tokens'[e] = tokens[e] /\ age'[e] = a /\ phase'[e] = f
        BY <2>2, <3>2
      <4>3. Due(e)' = d
        BY <4>2 DEF Due
      <4> HIDE DEF f, a, d
      <4> DEFINE c == IF f = 0 THEN Rate ELSE 0
      <4>4. account'[e] = AtMost(account[e] + c, Ceiling)
        BY <2>2, <3>2, <4>2
      <4>5. tokens[e] + Rate * Due(e) <= account[e]
        BY <1>0, <3>2 DEF Covered
      <4>6. Due(e) \in Nat /\ Rate * Due(e) \in Nat /\ Rate * d \in Nat
            /\ AgeCap \div TicksPerMinute \in Nat
            /\ Rate * ((AgeCap \div TicksPerMinute) + 1) \in Nat
        BY <1>0, <1>a, <4>1, DueIs, Bounds, Multiples
      <4>7. Rate * d <= Rate * Due(e) + c
        <5>1. CASE f = 0
          <6>1. Rate * d <= Rate * (Due(e) + 1)
            BY <1>a, <4>1, <4>6, <5>1, Multiples
          <6>2. Rate * (Due(e) + 1) = Rate * Due(e) + Rate
            BY <1>a, <4>6
          <6> QED
            BY <5>1, <6>1, <6>2
        <5>2. CASE f # 0
          <6>1. Rate * d <= Rate * Due(e)
            BY <1>a, <4>1, <4>6, <5>2, Multiples
          <6> QED
            BY <1>a, <4>6, <5>2, <6>1
        <5> QED
          BY <5>1, <5>2
      <4>8. tokens[e] + Rate * d <= Ceiling
        <5>1. Rate * d <= Rate * ((AgeCap \div TicksPerMinute) + 1)
          BY <1>a, <4>1, <4>6, Multiples
        <5>2. tokens[e] \in Nat /\ tokens[e] <= MaxTokens
          BY <2>3, <1>a
        <5> QED
          BY <1>a, <4>6, <5>1, <5>2 DEF Ceiling
      <4>9. c \in Nat /\ account[e] \in Nat /\ tokens[e] \in Nat /\ Ceiling \in Nat
        BY <1>a, <2>3, Bounds
      <4>10. /\ account'[e] \in 0..Ceiling
             /\ tokens[e] + Rate * d <= account'[e]
        <5> HIDE DEF c
        <5>1. tokens[e] + Rate * d <= account[e] + c
          BY <4>5, <4>6, <4>7, <4>9
        <5> QED
          BY <4>4, <4>8, <4>9, <5>1 DEF AtMost
      <4> QED
        BY <2>3, <4>1, <4>2, <4>3, <4>10
    <3> QED
      BY <3>1, <3>2
  <2>6. /\ tokens' \in [Entries -> 0..MaxTokens] /\ age' \in [Entries -> 0..AgeCap]
        /\ phase' \in [Entries -> 0..(TicksPerMinute - 1)]
        /\ account' \in [Entries -> 0..Ceiling]
    <3>1. \A e \in Entries : /\ tokens'[e] \in 0..MaxTokens /\ age'[e] \in 0..AgeCap
                             /\ phase'[e] \in 0..(TicksPerMinute - 1)
                             /\ account'[e] \in 0..Ceiling
      BY <2>5
    <3>2. tokens' \in [Entries -> 0..MaxTokens]
      BY <2>2, <3>1
    <3>3. age' \in [Entries -> 0..AgeCap]
      BY <2>2, <3>1
    <3>4. phase' \in [Entries -> 0..(TicksPerMinute - 1)]
      BY <2>2, <3>1
    <3>5. account' \in [Entries -> 0..Ceiling]
      BY <2>2, <3>1
    <3> QED
      BY <3>2, <3>3, <3>4, <3>5
  <2>7. TypeOK'
    BY <1>0, <2>0, <2>1, <2>6 DEF TypeOK
  <2>8. Covered'
    BY <2>4, <2>5 DEF Covered
  <2> QED
    BY <2>4, <2>7, <2>8 DEF AccountInv
<1>13. ASSUME UNCHANGED vars PROVE AccountInv'
  <2>1. TypeOK'
    BY <1>0, <1>13 DEF vars, TypeOK, mapVars, entryVars, procVars, janitorVars, ghostVars
  <2>2. HasEntry' /\ \A e \in Entries : Free(e) => Free(e)'
    BY <1>0, <1>13 DEF vars, HasEntry, Free, mapVars, procVars
  <2>3. Covered'
    BY <1>0, <1>13, <2>2, EntriesKept DEF vars, entryVars, ghostVars
  <2> QED
    BY <2>1, <2>2, <2>3 DEF AccountInv
<1> QED
  BY <1>1, <1>3, <1>4, <1>5, <1>6, <1>7, <1>8, <1>9, <1>10, <1>11, <1>12, <1>13
  DEF Next, SpendStep

\* What is due by the account's clock is at least the whole minutes since the last refill.
LEMMA AccountCovers == AccountInv => NeverOverspent
<1> SUFFICES ASSUME AccountInv, NEW e \in Entries, ~Free(e)
             PROVE  tokens[e] + Rate * (age[e] \div TicksPerMinute) <= account[e]
  BY DEF NeverOverspent
<1>1. TypeOK /\ tokens[e] + Rate * Due(e) <= account[e]
  BY DEF AccountInv, Covered
<1>2. /\ age[e] \in Nat /\ TicksPerMinute - 1 - phase[e] \in Nat /\ Due(e) \in Nat
      /\ TicksPerMinute \in Nat \ {0} /\ Rate \in Nat
      /\ tokens[e] \in Nat /\ account[e] \in Nat
  BY <1>1, DueIs, LimiterAssumption DEF TypeOK
<1>3. age[e] + (TicksPerMinute - 1 - phase[e]) \in Nat
      /\ age[e] <= age[e] + (TicksPerMinute - 1 - phase[e])
  BY <1>2
<1>4. age[e] \div TicksPerMinute \in Nat /\ age[e] \div TicksPerMinute <= Due(e)
  BY <1>2, <1>3, MinutesGrow, Quotient DEF Due
<1>5. /\ Rate * (age[e] \div TicksPerMinute) <= Rate * Due(e)
      /\ Rate * (age[e] \div TicksPerMinute) \in Nat /\ Rate * Due(e) \in Nat
  BY <1>2, <1>4, Multiples
<1> QED
  BY <1>1, <1>2, <1>5

\* An entry never grants more than a full bucket and the rate for every minute of its life:
\* not when several requests refill it with clocks read in another order than they get its
\* mutex, nor when one spends from an entry the janitor has already deleted
\* (rate_limiter.go:51-71, 133-160).
THEOREM EntriesNeverOverspend == Spec => []NeverOverspent
  BY InitAccount, StepAccount, AccountCovers, PTL DEF Spec

\* The state stays well formed; in particular a balance, an unsigned 16-bit number in the
\* code, never wraps below zero or above the limit (rate_limiter.go:37-38, 62-68, 147-155).
THEOREM LimiterTypeCorrect == Spec => []TypeOK
  BY InitAccount, StepAccount, PTL DEF Spec, AccountInv
=============================================================================
