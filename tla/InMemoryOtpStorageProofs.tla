----------------------- MODULE InMemoryOtpStorageProofs -----------------------
(***************************************************************************)
(* The in-memory storage implements the contract, proved: for any codes,   *)
(* lifetimes, cooldowns and windows, and any number of calls.              *)
(***************************************************************************)
EXTENDS InMemoryOtpStorage, TLAPS

\* What the store may hold.
Entries == [code : Codes \union {NoCode}, left : Int, attempts : Nat, validated : BOOLEAN]

\* The Maps hold what their types allow; an entry lapses at -1 and is then no older than that.
TypeOK ==
  /\ store \in Entries
  /\ store # NoEntry => store.code \in Codes /\ store.left >= -1
  /\ cooldowns \in Int /\ cooldowns >= NoLock
  /\ counter \in [count : Nat, left : Nat]

USE StorageAssumption

\* A number of seconds is as many ticks or more, and none only when it is none.
LEMMA TicksOfSeconds ==
  ASSUME NEW n \in Nat
  PROVE  n * Second \in Nat /\ (n > 0 => n * Second > 0) /\ (n = 0 => n * Second = 0)
BY SMTT(30)

\* What getCooldown rounds up to is a rounding the contract allows.
LEMMA CeilingIsSeconds ==
  ASSUME NEW l \in Nat, l > 0
  PROVE  LET n == (l + Second - 1) \div Second IN
         n \in 0 .. l /\ l - Second < n * Second /\ n * Second < l + Second
<1> DEFINE n == (l + Second - 1) \div Second
<1>1. n \in Int
  BY SMTT(30)
<1>2. n * Second <= l + Second - 1 /\ l - 1 < n * Second
  BY SMTT(30)
<1>3. n >= 0
  BY <1>1, <1>2, SMTT(30)
<1>4. n <= l
  <2> SUFFICES ASSUME n > l PROVE FALSE
    BY <1>1
  <2>1. n * Second >= (l + 1) * Second
    BY <1>1, SMTT(30)
  <2>2. (l + 1) * Second >= l + Second
    BY SMTT(30)
  <2>3. n * Second \in Int /\ (l + 1) * Second \in Int
    BY <1>1
  <2> QED
    BY <1>2, <2>1, <2>2, <2>3
<1>5. n * Second \in Int
  BY <1>1
<1> QED
  BY <1>1, <1>2, <1>3, <1>4, <1>5

\* The fields of an entry have their types.
LEMMA EntryFields ==
  /\ NoEntry \in Entries
  /\ \A e \in Entries : /\ e.code \in Codes \union {NoCode} /\ e.left \in Int
                        /\ e.attempts \in Nat /\ e.attempts + 1 \in Nat /\ e.left - 1 \in Int
                        /\ e.validated \in BOOLEAN
BY DEF Entries, NoEntry

\* What the update of one field leaves of an entry.
LEMMA EntryUpdates ==
  ASSUME NEW e \in Entries, NEW i
  PROVE  /\ [e EXCEPT !.attempts = i] = [code |-> e.code, left |-> e.left, attempts |-> i, validated |-> e.validated]
         /\ [e EXCEPT !.left = i] = [code |-> e.code, left |-> i, attempts |-> e.attempts, validated |-> e.validated]
         /\ Marked(e, i) = [code |-> e.code, left |-> e.left, attempts |-> i, validated |-> TRUE]
<1>1. [e EXCEPT !.attempts = i] = [code |-> e.code, left |-> e.left, attempts |-> i, validated |-> e.validated]
  BY DEF Entries
<1>2. [e EXCEPT !.left = i] = [code |-> e.code, left |-> i, attempts |-> e.attempts, validated |-> e.validated]
  BY DEF Entries
<1>3. Marked(e, i) = [code |-> e.code, left |-> e.left, attempts |-> i, validated |-> TRUE]
  <2>1. ASSUME NEW v
        PROVE  [e EXCEPT !.validated = v] =
                 [code |-> e.code, left |-> e.left, attempts |-> e.attempts, validated |-> v]
    BY DEF Entries
  <2>2. Marked(e, i) = [[e EXCEPT !.validated = TRUE] EXCEPT !.attempts = i]
    BY Zenon DEF Marked
  <2>3. [e EXCEPT !.validated = TRUE] =
          [code |-> e.code, left |-> e.left, attempts |-> e.attempts, validated |-> TRUE]
    BY <2>1, Zenon
  <2>4. ASSUME NEW t PROVE [[code |-> e.code, left |-> e.left, attempts |-> e.attempts, validated |-> t] EXCEPT !.attempts = i] =
          [code |-> e.code, left |-> e.left, attempts |-> i, validated |-> t]
    OBVIOUS
  <2> QED
    BY <2>2, <2>3, <2>4, Zenon
<1> QED
  BY <1>1, <1>2, <1>3

\* The Maps stay in their types, with no code under a scope whose entry was removed.
THEOREM MemoryTypeCorrect == Spec => []TypeOK
<1>1. Init => TypeOK
  BY DEF Init, TypeOK, Entries, NoEntry, NoLock, NoCounter
<1>2. TypeOK /\ [Next]_vars => TypeOK'
  <2> SUFFICES ASSUME TypeOK, [Next]_vars PROVE TypeOK'
    OBVIOUS
  <2> USE DEF TypeOK, NoLock, NoCounter
  <2>1. ASSUME NEW c \in Codes, NEW ttl \in Lifetimes, Set(c, ttl) PROVE TypeOK'
    BY <2>1 DEF Set, Fresh, Entries
  <2>2. ASSUME NEW a \in 0 .. MaxAttempts, Update(a) PROVE TypeOK'
    <3>1. UNCHANGED <<cooldowns, counter>>
      BY <2>2 DEF Update
    <3>2. CASE store = NoEntry
      BY <2>2, <3>1, <3>2 DEF Update
    <3>3. CASE store # NoEntry
      <4>1. store' = Marked(store, a) /\ a \in Nat
        BY <2>2, <3>3 DEF Update
      <4>2. store' = [code |-> store.code, left |-> store.left, attempts |-> a, validated |-> TRUE]
        BY <4>1, EntryUpdates
      <4> QED
        BY <3>1, <3>3, <4>1, <4>2 DEF Entries
    <3> QED
      BY <3>2, <3>3
  <2>3. ASSUME NEW n \in Cooldowns, TryAcquireCooldown(n) PROVE TypeOK'
    BY <2>3, TicksOfSeconds DEF TryAcquireCooldown
  <2>4. ASSUME NEW n \in Windows, RecordFailure(n) PROVE TypeOK'
    BY <2>4, TicksOfSeconds DEF RecordFailure, LiveFailures
  <2>5. CASE Get
    <3>1. UNCHANGED <<cooldowns, counter>> /\ (store' = NoEntry \/ store' = store)
      BY <2>5 DEF Get
    <3> QED
      BY <3>1, EntryFields
  <2>6. CASE ConsumeAttempt
    <3>1. UNCHANGED <<cooldowns, counter>>
      BY <2>6 DEF ConsumeAttempt
    <3>2. CASE store' = NoEntry
      BY <3>1, <3>2, EntryFields
    <3>3. CASE store # NoEntry /\ store' = [store EXCEPT !.attempts = store.attempts + 1]
      <4>1. store.attempts + 1 \in Nat
        BY EntryFields
      <4>2. store' = [code |-> store.code, left |-> store.left,
                      attempts |-> store.attempts + 1, validated |-> store.validated]
        BY <3>3, <4>1, EntryUpdates
      <4> QED
        BY <3>1, <3>3, <4>1, <4>2 DEF Entries
    <3> QED
      BY <2>6, <3>2, <3>3 DEF ConsumeAttempt
  <2>7. CASE Delete
    BY <2>7, EntryFields DEF Delete
  <2>8. CASE GetCooldown
    BY <2>8 DEF GetCooldown
  <2>9. CASE ClearCooldown
    BY <2>9 DEF ClearCooldown
  <2>10. CASE GetFailures
    BY <2>10 DEF GetFailures
  <2>11. CASE ClearFailures
    BY <2>11 DEF ClearFailures
  <2>12. CASE Tick
    <3>1. cooldowns' \in Int /\ cooldowns' >= NoLock
      BY <2>12 DEF Tick, Locked
    <3>2. counter' \in [count : Nat, left : Nat]
      BY <2>12 DEF Tick
    <3>3. CASE store' = store
      BY <3>1, <3>2, <3>3
    <3>4. CASE store # NoEntry /\ store.left >= 0 /\ store' = [store EXCEPT !.left = store.left - 1]
      <4>1. store' = [code |-> store.code, left |-> store.left - 1,
                      attempts |-> store.attempts, validated |-> store.validated]
        BY <3>4, EntryFields, EntryUpdates
      <4> QED
        BY <3>1, <3>2, <3>4, <4>1 DEF Entries
    <3> QED
      BY <2>12, <3>3, <3>4 DEF Tick
  <2>13. CASE UNCHANGED vars
    BY <2>13 DEF vars
  <2> QED
    BY <2>1, <2>2, <2>3, <2>4, <2>5, <2>6, <2>7, <2>8, <2>9, <2>10, <2>11, <2>12, <2>13 DEF Next
<1> QED
  BY <1>1, <1>2, PTL DEF Spec

-----------------------------------------------------------------------------
(* The refinement: a lapsed entry, lock or counter that is still in its    *)
(* Map stands for an absent one.                                           *)

otpBar == IF Expired THEN NoEntry ELSE store
cooldownBar == IF Locked THEN cooldowns ELSE NoLock
failuresBar == IF counter.left > 0 THEN counter ELSE NoCounter

\* Every step of the storage is a step of the contract, or changes nothing it can see.
LEMMA StepsImplement == TypeOK /\ TypeOK' /\ [Next]_vars => [Contract!Next]_(Contract!vars)
<1> SUFFICES ASSUME TypeOK, TypeOK', [Next]_vars PROVE [Contract!Next]_(Contract!vars)
  OBVIOUS
<1> USE DEF TypeOK, Entries, NoEntry, NoLock, NoCounter, Expired, Locked, LiveFailures, Reply, Done,
            Contract!NoEntry, Contract!NoLock, Contract!NoFailures, Contract!Reply, Contract!Done
<1>1. ASSUME NEW c \in Codes, NEW ttl \in Lifetimes, Set(c, ttl) PROVE Contract!Set(c, ttl)
  BY <1>1 DEF Set, Fresh, Contract!Set, Contract!Fresh
<1>2. ASSUME NEW a \in 0 .. MaxAttempts, Update(a) PROVE Contract!Update(a)
  BY <1>2 DEF Update, Marked, Contract!Update, Contract!Marked
<1>3. ASSUME NEW n \in Cooldowns, TryAcquireCooldown(n) PROVE Contract!TryAcquireCooldown(n)
  BY <1>3, TicksOfSeconds DEF TryAcquireCooldown, Contract!TryAcquireCooldown
<1>4. ASSUME NEW n \in Windows, RecordFailure(n) PROVE Contract!RecordFailure(n)
  BY <1>4, TicksOfSeconds DEF RecordFailure, Contract!RecordFailure
<1>5. ASSUME Get PROVE Contract!Get
  BY <1>5 DEF Get, Contract!Get
<1>6. ASSUME ConsumeAttempt PROVE Contract!ConsumeAttempt
  <2>1. CASE store = NoEntry \/ Expired
    <3>1. /\ store' = NoEntry /\ UNCHANGED <<cooldowns, counter>>
          /\ answer' = Reply("consumeAttempt", "not_found", NoCode, 0)
      BY <1>6, <2>1 DEF ConsumeAttempt
    <3>2. otpBar = NoEntry /\ otpBar' = NoEntry /\ UNCHANGED <<cooldownBar, failuresBar>>
      BY <2>1, <3>1 DEF otpBar, cooldownBar, failuresBar
    <3> QED
      BY <3>1, <3>2 DEF Contract!ConsumeAttempt, otpBar, cooldownBar, failuresBar
  <2>2. CASE store # NoEntry /\ ~Expired /\ Exhausted
    <3>1. /\ store' = NoEntry /\ UNCHANGED <<cooldowns, counter>>
          /\ answer' = Reply("consumeAttempt", "max_attempts", NoCode, 0)
      BY <1>6, <2>2 DEF ConsumeAttempt
    <3>2. /\ otpBar = store /\ otpBar' = NoEntry
          /\ UNCHANGED <<cooldownBar, failuresBar>>
      BY <2>2, <3>1 DEF otpBar, cooldownBar, failuresBar
    <3>3. store # NoEntry /\ store.left >= 0 /\ store.attempts >= MaxAttempts
      BY <2>2 DEF Exhausted
    <3> QED
      BY <3>1, <3>2, <3>3 DEF Contract!ConsumeAttempt, otpBar, cooldownBar, failuresBar
  <2>3. CASE store # NoEntry /\ ~Expired /\ ~Exhausted
    <3>1. store' = [code |-> store.code, left |-> store.left,
                    attempts |-> store.attempts + 1, validated |-> store.validated]
      BY <1>6, <2>3, EntryFields, EntryUpdates DEF ConsumeAttempt, Exhausted
    <3>2. ~Expired /\ ~Expired'
      BY <2>3, <3>1
    <3> QED
      BY <1>6, <2>3, <3>1, <3>2 DEF ConsumeAttempt, Exhausted, Contract!ConsumeAttempt
  <2> QED
    BY <2>1, <2>2, <2>3
<1>7. ASSUME Delete PROVE Contract!Delete
  BY <1>7 DEF Delete, Contract!Delete
<1>8. ASSUME GetCooldown PROVE Contract!GetCooldown
  <2>1. UNCHANGED <<otpBar, cooldownBar, failuresBar>>
    BY <1>8 DEF GetCooldown, otpBar, cooldownBar, failuresBar
  <2>2. CASE Locked
    <3> DEFINE n == (cooldowns + Second - 1) \div Second
    <3>1. n \in Contract!Seconds(cooldownBar)
      <4>1. cooldownBar = cooldowns /\ cooldowns \in Nat /\ cooldowns > 0
        BY <2>2 DEF cooldownBar
      <4>2. n \in 0 .. cooldowns /\ cooldowns - Second < n * Second /\ n * Second < cooldowns + Second
        BY <4>1, CeilingIsSeconds
      <4>3. Contract!Seconds(cooldowns) =
              {k \in 0 .. cooldowns : cooldowns - Second < k * Second /\ k * Second < cooldowns + Second}
        BY <4>1 DEF Contract!Seconds
      <4> HIDE DEF n
      <4> QED
        BY <4>1, <4>2, <4>3
    <3>2. answer' = Reply("getCooldown", "done", NoCode, n)
      BY <1>8, <2>2 DEF GetCooldown
    <3> QED
      BY <2>1, <3>1, <3>2 DEF Contract!GetCooldown, otpBar, cooldownBar, failuresBar
  <2>3. CASE ~Locked
    BY <1>8, <2>1, <2>3 DEF GetCooldown, Contract!GetCooldown, Contract!Seconds,
                            otpBar, cooldownBar, failuresBar
  <2> QED
    BY <2>2, <2>3
<1>9. ASSUME ClearCooldown PROVE Contract!ClearCooldown
  BY <1>9 DEF ClearCooldown, Contract!ClearCooldown
<1>10. ASSUME GetFailures PROVE Contract!GetFailures
  BY <1>10 DEF GetFailures, Contract!GetFailures
<1>11. ASSUME ClearFailures PROVE Contract!ClearFailures
  BY <1>11 DEF ClearFailures, Contract!ClearFailures
<1>12. ASSUME Tick PROVE Contract!Tick
  BY <1>12 DEF Tick, Contract!Tick, Contract!AfterTick, Contract!LockAfterTick, Contract!FailuresAfterTick
<1>13. CASE UNCHANGED vars
  BY <1>13 DEF vars, Contract!vars
<1> QED
  BY <1>1, <1>2, <1>3, <1>4, <1>5, <1>6, <1>7, <1>8, <1>9, <1>10, <1>11, <1>12, <1>13
  DEF Next, Contract!Next

\* The in-memory storage implements IOtpStorage, for any constants and any sequence of calls.
THEOREM MemoryImplementsHolds == Spec => ImplementsContract
<1>1. Init => Contract!Init
  BY DEF Init, Contract!Init, NoEntry, NoLock, NoCounter, Expired, Locked, Done, Reply,
         Contract!NoEntry, Contract!NoLock, Contract!NoFailures, Contract!Done, Contract!Reply
<1> QED
  BY <1>1, MemoryTypeCorrect, StepsImplement, PTL DEF Spec, ImplementsContract, Contract!Spec

=============================================================================
