------------------------ MODULE RedisOtpStorageProofs ------------------------
(***************************************************************************)
(* The Redis storage implements the contract, proved for any constants, as *)
(* long as no attempt runs in the last instant of a key.  The invariant it *)
(* needs relates the two lifetimes of an entry: the key's and its own.     *)
(***************************************************************************)
EXTENDS RedisOtpStorage, TLAPS

Entries == [code : Codes \union {NoCode}, left : Int, attempts : Nat, validated : BOOLEAN]

\* Values a variable may take.
TypeInv ==
  /\ entry \in Entries
  /\ entryTtl \in Nat \union {NoKey}
  /\ cooldownTtl \in Nat \union {NoKey}
  /\ failCount \in Nat
  /\ failTtl \in Nat \union {NoKey}

\* The key is there with its entry, which it outlives by less than a second.
LifetimeInv ==
  /\ entryTtl = NoKey => entry = NoEntry
  /\ entryTtl # NoKey => entry.code \in Codes
  /\ entryTtl # NoKey => entry.left <= entryTtl /\ entryTtl < entry.left + Second
  /\ failTtl = NoKey => failCount = 0

Inv == TypeInv /\ LifetimeInv

USE StorageAssumption

\* A number of seconds is as many ticks or more, and none only when it is none.
LEMMA TicksOfSeconds ==
  ASSUME NEW n \in Nat
  PROVE  n * Second \in Nat /\ (n > 0 => n * Second > 0) /\ (n = 0 => n * Second = 0)
BY SMTT(30)

\* SETEX is given at least the entry's lifetime, and less than a second more.
LEMMA WholeSecondsBounds ==
  ASSUME NEW t \in Nat \ {0}
  PROVE  WholeSeconds(t) \in Nat /\ t <= WholeSeconds(t) /\ WholeSeconds(t) < t + Second
<1> DEFINE n == (t + Second - 1) \div Second
<1>1. n \in Int
  BY SMTT(30)
<1>2. n * Second <= t + Second - 1 /\ t - 1 < n * Second
  BY SMTT(30)
<1>3. n >= 1
  BY <1>1, <1>2, SMTT(30)
<1>4. WholeSeconds(t) = Second * n
  BY <1>1, <1>3 DEF WholeSeconds
<1>5. Second * n \in Int /\ Second * n = n * Second
  BY <1>1, SMTT(30)
<1> HIDE DEF n
<1> QED
  BY <1>2, <1>4, <1>5

\* The TTL command rounds to the nearest second, which the contract allows.
LEMMA RoundingIsSeconds ==
  ASSUME NEW l \in Nat
  PROVE  LET n == (2 * l + Second) \div (2 * Second) IN
         n \in 0 .. l /\ l - Second < n * Second /\ n * Second < l + Second
<1> DEFINE D == 2 * Second
<1> DEFINE n == (2 * l + Second) \div D
<1>1. D \in Nat \ {0} /\ n \in Int
  BY SMTT(30)
<1>2. n * D <= 2 * l + Second /\ 2 * l + Second < n * D + D
  BY <1>1, SMTT(30)
<1>3. n * Second \in Int /\ n * D = 2 * (n * Second)
  BY <1>1, SMTT(30)
<1>4. n >= 0
  BY <1>1, <1>2, SMTT(30)
<1>5. l - Second < n * Second /\ n * Second < l + Second
  <2> HIDE DEF n
  <2> QED BY <1>1, <1>2, <1>3
<1>6. n <= l
  <2> SUFFICES ASSUME n > l PROVE FALSE
    BY <1>1
  <2>1. n * Second >= (l + 1) * Second
    BY <1>1, SMTT(30)
  <2>2. (l + 1) * Second >= l + Second /\ (l + 1) * Second \in Int
    BY SMTT(30)
  <2> HIDE DEF n
  <2> QED
    BY <1>3, <1>5, <2>1, <2>2
<1> QED
  BY <1>1, <1>4, <1>5, <1>6

\* The fields of an entry have their types.
LEMMA EntryFields ==
  /\ NoEntry \in Entries
  /\ \A e \in Entries : /\ e.code \in Codes \union {NoCode} /\ e.left \in Int
                        /\ e.attempts \in Nat /\ e.attempts + 1 \in Nat /\ e.left - 1 \in Int
                        /\ e.validated \in BOOLEAN
BY DEF Entries, NoEntry

\* What the update of one field leaves of an entry.
LEMMA EntryUpdates ==
  ASSUME NEW e \in Entries, NEW i
  PROVE  /\ [e EXCEPT !.attempts = i] = [code |-> e.code, left |-> e.left, attempts |-> i, validated |-> e.validated]
         /\ [e EXCEPT !.left = i] = [code |-> e.code, left |-> i, attempts |-> e.attempts, validated |-> e.validated]
         /\ Marked(e, i) = [code |-> e.code, left |-> e.left, attempts |-> i, validated |-> TRUE]
<1>1. [e EXCEPT !.attempts = i] = [code |-> e.code, left |-> e.left, attempts |-> i, validated |-> e.validated]
  BY DEF Entries
<1>2. [e EXCEPT !.left = i] = [code |-> e.code, left |-> i, attempts |-> e.attempts, validated |-> e.validated]
  BY DEF Entries
<1>3. Marked(e, i) = [code |-> e.code, left |-> e.left, attempts |-> i, validated |-> TRUE]
  <2>1. ASSUME NEW v
        PROVE  [e EXCEPT !.validated = v] =
                 [code |-> e.code, left |-> e.left, attempts |-> e.attempts, validated |-> v]
    BY DEF Entries
  <2>2. Marked(e, i) = [[e EXCEPT !.validated = TRUE] EXCEPT !.attempts = i]
    BY Zenon DEF Marked
  <2>3. [e EXCEPT !.validated = TRUE] =
          [code |-> e.code, left |-> e.left, attempts |-> e.attempts, validated |-> TRUE]
    BY <2>1, Zenon
  <2>4. ASSUME NEW t
        PROVE  [[code |-> e.code, left |-> e.left, attempts |-> e.attempts, validated |-> t] EXCEPT !.attempts = i] =
                 [code |-> e.code, left |-> e.left, attempts |-> i, validated |-> t]
    OBVIOUS
  <2> QED
    BY <2>2, <2>3, <2>4, Zenon
<1> QED
  BY <1>1, <1>2, <1>3

-----------------------------------------------------------------------------
(* The invariant.                                                          *)

\* What a step does to the entry and its key.
EntryStep ==
  \/ UNCHANGED entryKey
  \/ DeleteEntry
  \/ \E c \in Codes, ttl \in Lifetimes : entry' = Fresh(c, ttl) /\ entryTtl' = WholeSeconds(ttl)
  \/ /\ HasEntry /\ UNCHANGED entryTtl
     /\ \E n \in Nat, v \in BOOLEAN :
          entry' = [code |-> entry.code, left |-> entry.left, attempts |-> n, validated |-> v]
  \/ /\ entryTtl > 0 /\ entryTtl' = entryTtl - 1
     /\ entry' = [code |-> entry.code, left |-> entry.left - 1,
                  attempts |-> entry.attempts, validated |-> entry.validated]

\* Every such step keeps the key's lifetime and the entry's together.
LEMMA EntryStepKeepsInv ==
  Inv /\ EntryStep =>
    /\ entry' \in Entries
    /\ entryTtl' \in Nat \union {NoKey}
    /\ entryTtl' = NoKey => entry' = NoEntry
    /\ entryTtl' # NoKey => entry'.code \in Codes
    /\ entryTtl' # NoKey => entry'.left <= entryTtl' /\ entryTtl' < entry'.left + Second
<1> SUFFICES ASSUME Inv, EntryStep
             PROVE  /\ entry' \in Entries
                    /\ entryTtl' \in Nat \union {NoKey}
                    /\ entryTtl' = NoKey => entry' = NoEntry
                    /\ entryTtl' # NoKey => entry'.code \in Codes
                    /\ entryTtl' # NoKey => entry'.left <= entryTtl' /\ entryTtl' < entry'.left + Second
  OBVIOUS
<1> USE DEF Inv, TypeInv, LifetimeInv, NoKey
<1>1. CASE UNCHANGED entryKey
  BY <1>1 DEF entryKey
<1>2. CASE DeleteEntry
  BY <1>2, EntryFields DEF DeleteEntry
<1>3. ASSUME NEW c \in Codes, NEW ttl \in Lifetimes, entry' = Fresh(c, ttl), entryTtl' = WholeSeconds(ttl)
      PROVE  entry' \in Entries /\ entryTtl' \in Nat /\ entry'.code \in Codes
             /\ entry'.left <= entryTtl' /\ entryTtl' < entry'.left + Second
  <2>1. ttl \in Nat \ {0}
    OBVIOUS
  <2>2. entry'.left = ttl /\ entry'.code = c /\ entry' \in Entries
    BY <1>3, <2>1 DEF Fresh, Entries
  <2> QED
    BY <1>3, <2>1, <2>2, WholeSecondsBounds
<1>4. ASSUME HasEntry, UNCHANGED entryTtl, NEW n \in Nat, NEW v \in BOOLEAN,
             entry' = [code |-> entry.code, left |-> entry.left, attempts |-> n, validated |-> v]
      PROVE  entry' \in Entries /\ entryTtl' \in Nat /\ entry'.code \in Codes
             /\ entry'.left <= entryTtl' /\ entryTtl' < entry'.left + Second
  BY <1>4 DEF HasEntry, Entries
<1>5. ASSUME entryTtl > 0, entryTtl' = entryTtl - 1,
             entry' = [code |-> entry.code, left |-> entry.left - 1,
                       attempts |-> entry.attempts, validated |-> entry.validated]
      PROVE  entry' \in Entries /\ entryTtl' \in Nat /\ entry'.code \in Codes
             /\ entry'.left <= entryTtl' /\ entryTtl' < entry'.left + Second
  BY <1>5 DEF Entries
<1> QED
  BY <1>1, <1>2, <1>3, <1>4, <1>5 DEF EntryStep

\* What an attempt and an update write, and what time leaves, are such steps.
LEMMA StepsAreEntrySteps ==
  ASSUME ~LastInstantCalls, Inv, Next
  PROVE  EntryStep
<1> USE DEF Inv, TypeInv, LifetimeInv, NoKey
<1>1. ASSUME NEW c \in Codes, NEW ttl \in Lifetimes, Set(c, ttl) PROVE EntryStep
  BY <1>1 DEF Set, EntryStep
<1>2. ASSUME NEW a \in 0 .. MaxAttempts, Update(a) PROVE EntryStep
  <2>1. CASE HasEntry
    <3>1. entry' = Marked(entry, a) /\ UNCHANGED entryTtl /\ a \in Nat
      BY <1>2, <2>1 DEF Update
    <3>2. entry' = [code |-> entry.code, left |-> entry.left, attempts |-> a, validated |-> TRUE]
      BY <3>1, EntryUpdates
    <3> QED
      BY <2>1, <3>1, <3>2 DEF EntryStep
  <2> QED
    BY <1>2, <2>1 DEF Update, EntryStep
<1>3. CASE ConsumeAttempt
  <2>1. CASE HasEntry /\ entry' = [entry EXCEPT !.attempts = entry.attempts + 1] /\ entryTtl' = KeptTtl
    <3>1. entryTtl' = entryTtl
      BY <1>3, <2>1 DEF ConsumeAttempt, KeptTtl, HasEntry
    <3>2. entry' = [code |-> entry.code, left |-> entry.left,
                    attempts |-> entry.attempts + 1, validated |-> entry.validated]
      BY <2>1, EntryUpdates
    <3> QED
      BY <2>1, <3>1, <3>2, EntryFields DEF EntryStep
  <2> QED
    BY <1>3, <2>1 DEF ConsumeAttempt, EntryStep
<1>4. CASE Tick
  <2>1. CASE entryTtl > 0
    <3>1. entryTtl' = entryTtl - 1 /\ entryTtl' # NoKey
      BY <1>4, <2>1 DEF Tick, Older, Forever
    <3>2. entry.left >= -Second
      BY <2>1, EntryFields
    <3>3. entry' = [entry EXCEPT !.left = IF @ >= -Second THEN @ - 1 ELSE @]
      BY <1>4, <3>1 DEF Tick
    <3>4. entry' = [entry EXCEPT !.left = entry.left - 1]
      BY <3>2, <3>3, Zenon
    <3> QED
      BY <2>1, <3>1, <3>4, EntryUpdates DEF EntryStep
  <2>2. CASE ~(entryTtl > 0)
    <3>1. entryTtl' = NoKey
      BY <1>4, <2>2 DEF Tick, Older, Forever
    <3> QED
      BY <1>4, <3>1 DEF Tick, EntryStep, DeleteEntry
  <2> QED
    BY <2>1, <2>2
<1>5. CASE Delete
  BY <1>5 DEF Delete, EntryStep
<1>6. CASE UNCHANGED entryKey
  BY <1>6 DEF EntryStep
<1> QED
  BY <1>1, <1>2, <1>3, <1>4, <1>5, <1>6
  DEF Next, TryAcquireCooldown, RecordFailure, Get, GetCooldown, ClearCooldown, GetFailures, ClearFailures

\* The other two keys.
LEMMA OtherKeys ==
  ASSUME Inv, Next
  PROVE  /\ cooldownTtl' \in Nat \union {NoKey}
         /\ failCount' \in Nat /\ failTtl' \in Nat \union {NoKey}
         /\ failTtl' = NoKey => failCount' = 0
<1> USE DEF Inv, TypeInv, LifetimeInv, NoKey, failKey
<1>1. ASSUME NEW n \in Cooldowns, TryAcquireCooldown(n) PROVE cooldownTtl' \in Nat \union {NoKey} /\ UNCHANGED failKey
  BY <1>1, TicksOfSeconds DEF TryAcquireCooldown
<1>2. ASSUME NEW n \in Windows, RecordFailure(n)
      PROVE  failCount' \in Nat /\ failTtl' \in Nat /\ UNCHANGED cooldownTtl
  BY <1>2, TicksOfSeconds DEF RecordFailure
<1>3. ASSUME Tick
      PROVE  /\ cooldownTtl' \in Nat \union {NoKey}
             /\ failCount' \in Nat /\ failTtl' \in Nat \union {NoKey}
             /\ failTtl' = NoKey => failCount' = 0
  BY <1>3 DEF Tick, Older, Forever
<1> QED
  BY <1>1, <1>2, <1>3
  DEF Next, Set, Update, ConsumeAttempt, Delete, Get, GetCooldown, ClearCooldown, GetFailures, ClearFailures

\* With no attempt in a key's last instant, no key is left without an expiry and an entry is
\* outlived by its key by less than a second.
THEOREM RedisInvariant == ASSUME ~LastInstantCalls PROVE Spec => []Inv
<1>1. Init => Inv
  BY DEF Init, Inv, TypeInv, LifetimeInv, Entries, NoEntry, NoKey
<1>2. Inv /\ [Next]_vars => Inv'
  <2> SUFFICES ASSUME Inv, [Next]_vars PROVE Inv'
    OBVIOUS
  <2>1. CASE Next
    BY <2>1, StepsAreEntrySteps, EntryStepKeepsInv, OtherKeys DEF Inv, TypeInv, LifetimeInv
  <2>2. CASE UNCHANGED vars
    BY <2>2 DEF vars, Inv, TypeInv, LifetimeInv
  <2> QED
    BY <2>1, <2>2
<1> QED
  BY <1>1, <1>2, PTL DEF Spec

-----------------------------------------------------------------------------
(* The refinement.                                                         *)

failuresBar == [count |-> failCount, left |-> IF failTtl = NoKey THEN 0 ELSE failTtl]

\* An attempt.  The script's test of expiresAt is what the contract asks for, whatever the key says.
LEMMA AttemptImplements ==
  ASSUME ~LastInstantCalls, Inv, ConsumeAttempt
  PROVE  Contract!ConsumeAttempt
<1> USE DEF Inv, TypeInv, LifetimeInv, NoKey, Reply, Contract!Reply
<1>1. NoEntry = Contract!NoEntry
  BY DEF NoEntry, Contract!NoEntry
<1>2. UNCHANGED <<cooldownTtl, failuresBar>>
  BY DEF ConsumeAttempt, failKey, failuresBar
<1>3. CASE ~HasEntry \/ (HasEntry /\ ScriptExpired)
  <2>1. /\ entry = NoEntry \/ entry.left < 0
        /\ entry' = NoEntry
        /\ answer' = Reply("consumeAttempt", "not_found", NoCode, 0)
    BY <1>3 DEF ConsumeAttempt, HasEntry, ScriptExpired, DeleteEntry, entryKey
  <2> QED
    BY <1>1, <1>2, <2>1 DEF Contract!ConsumeAttempt, failuresBar
<1>4. CASE HasEntry /\ ~ScriptExpired
  <2>1. entry # NoEntry /\ entry.left >= 0 /\ entry.attempts \in Nat
    <3>1. entry.code # NoCode
      BY <1>4 DEF HasEntry
    <3> QED
      BY <1>4, <3>1, EntryFields DEF ScriptExpired, NoEntry
  <2>2. CASE entry.attempts >= MaxAttempts
    <3>1. entry' = NoEntry /\ answer' = Reply("consumeAttempt", "max_attempts", NoCode, 0)
      BY <1>4, <2>1, <2>2 DEF ConsumeAttempt, DeleteEntry
    <3> QED
      BY <1>1, <1>2, <2>1, <2>2, <3>1 DEF Contract!ConsumeAttempt, failuresBar
  <2>3. CASE entry.attempts < MaxAttempts
    <3>1. /\ entry' = [entry EXCEPT !.attempts = entry.attempts + 1]
          /\ answer' = Reply("consumeAttempt", "ok", entry.code, entry'.attempts)
      BY <1>4, <2>1, <2>3 DEF ConsumeAttempt
    <3> QED
      BY <1>1, <1>2, <2>1, <2>3, <3>1 DEF Contract!ConsumeAttempt, failuresBar
  <2> QED
    BY <2>1, <2>2, <2>3
<1> QED
  BY <1>3, <1>4

\* The passing of a tick: the server drops a key only when the contract lets it go, and keeps it
\* no longer than the contract's grace.
LEMMA TickImplements ==
  ASSUME ~LastInstantCalls, Inv, Inv', Tick
  PROVE  Contract!Tick
<1> USE DEF Inv, TypeInv, LifetimeInv, NoKey, Older, Forever
<1>1. NoEntry = Contract!NoEntry
  BY DEF NoEntry, Contract!NoEntry
<1>2. entry' \in Contract!AfterTick(entry)
  <2>1. CASE entryTtl > 0
    <3>1. entryTtl' = entryTtl - 1 /\ entryTtl' # NoKey
      BY <2>1 DEF Tick
    <3>2. entry.left >= -Second /\ entry.left \in Int
      BY <2>1, EntryFields
    <3>3. entry' = [entry EXCEPT !.left = entry.left - 1]
      BY <3>1, <3>2, Zenon DEF Tick
    <3>4. entry'.left = entry.left - 1
      BY <3>3, EntryUpdates
    <3>5. entry'.left >= -(Second - 1)
      BY <3>1, <3>4, <3>2
    <3>6. entry # NoEntry
      BY <2>1 DEF NoEntry
    <3> QED
      BY <1>1, <3>3, <3>5, <3>6 DEF Contract!AfterTick
  <2>2. CASE entryTtl = 0
    <3>1. entry' = NoEntry
      BY <2>2 DEF Tick
    <3>2. entry # NoEntry
      BY <2>2 DEF NoEntry
    <3>3. entry.left <= 0 /\ entry.left \in Int
      BY <2>2, EntryFields
    <3>4. [entry EXCEPT !.left = entry.left - 1].left < 0
      BY <3>3, EntryUpdates
    <3> QED
      BY <1>1, <3>1, <3>2, <3>4 DEF Contract!AfterTick
  <2>3. CASE entryTtl = NoKey
    BY <1>1, <2>3 DEF Tick, Contract!AfterTick
  <2> QED
    BY <2>1, <2>2, <2>3
<1>3. cooldownTtl' \in Contract!LockAfterTick(cooldownTtl)
  BY DEF Tick, Contract!LockAfterTick, Contract!NoLock
<1>4. failuresBar' \in Contract!FailuresAfterTick(failuresBar)
  <2>1. CASE failTtl > 0
    <3>1. failuresBar = [count |-> failCount, left |-> failTtl]
      BY <2>1 DEF failuresBar
    <3>2. failTtl' = failTtl - 1 /\ failCount' = failCount
      BY <2>1 DEF Tick
    <3>3. failuresBar' = [count |-> failCount, left |-> failTtl - 1]
      BY <2>1, <3>2 DEF failuresBar
    <3> QED
      BY <2>1, <3>1, <3>3 DEF Contract!FailuresAfterTick
  <2>2. CASE ~(failTtl > 0)
    <3>1. failTtl' = NoKey /\ failCount' = 0
      BY <2>2 DEF Tick
    <3>2. failuresBar' = Contract!NoFailures /\ failuresBar.left = 0
      BY <2>2, <3>1 DEF failuresBar, Contract!NoFailures
    <3> QED
      BY <3>2 DEF Contract!FailuresAfterTick
  <2> QED
    BY <2>1, <2>2
<1> QED
  BY <1>2, <1>3, <1>4 DEF Tick, Contract!Tick, failuresBar

\* Every step of the storage is a step of the contract, or changes nothing it can see.
LEMMA RedisStepsImplement ==
  ASSUME ~LastInstantCalls, Inv, Inv', [Next]_vars
  PROVE  [Contract!Next]_(Contract!vars)
<1> USE DEF Inv, TypeInv, LifetimeInv, NoKey, Reply, Done, Contract!Reply, Contract!Done
<1>1. ASSUME NEW c \in Codes, NEW ttl \in Lifetimes, Set(c, ttl) PROVE Contract!Set(c, ttl)
  BY <1>1 DEF Set, Fresh, Contract!Set, Contract!Fresh, failKey
<1>2. ASSUME NEW a \in 0 .. MaxAttempts, Update(a) PROVE Contract!Update(a)
  <2>1. CASE HasEntry
    <3>1. entry # NoEntry
      BY <2>1 DEF HasEntry, NoEntry
    <3> QED
      BY <1>2, <2>1, <3>1
      DEF Update, Marked, NoEntry, Contract!Update, Contract!Marked, Contract!NoEntry, failKey
  <2>2. CASE ~HasEntry
    BY <1>2, <2>2 DEF Update, HasEntry, NoEntry, Contract!Update, Contract!NoEntry, entryKey, failKey
  <2> QED
    BY <2>1, <2>2
<1>3. ASSUME NEW n \in Cooldowns, TryAcquireCooldown(n) PROVE Contract!TryAcquireCooldown(n)
  BY <1>3 DEF TryAcquireCooldown, Contract!TryAcquireCooldown, Contract!NoLock, entryKey, failKey
<1>4. ASSUME NEW n \in Windows, RecordFailure(n) PROVE Contract!RecordFailure(n)
  BY <1>4, TicksOfSeconds DEF RecordFailure, Contract!RecordFailure, entryKey
<1>5. ASSUME Get PROVE Contract!Get
  BY <1>5 DEF Get, Contract!Get, entryKey, failKey
<1>6. ASSUME ConsumeAttempt PROVE Contract!ConsumeAttempt
  BY <1>6, AttemptImplements
<1>7. ASSUME Delete PROVE Contract!Delete
  BY <1>7 DEF Delete, DeleteEntry, NoEntry, Contract!Delete, Contract!NoEntry, failKey
<1>8. ASSUME GetCooldown PROVE Contract!GetCooldown
  <2>1. CASE cooldownTtl = NoKey
    BY <1>8, <2>1 DEF GetCooldown, Contract!GetCooldown, Contract!Seconds, Contract!NoLock, entryKey, failKey
  <2>2. CASE cooldownTtl # NoKey
    <3> DEFINE n == (2 * cooldownTtl + Second) \div (2 * Second)
    <3>1. n \in Contract!Seconds(cooldownTtl)
      <4>1. n \in 0 .. cooldownTtl /\ cooldownTtl - Second < n * Second /\ n * Second < cooldownTtl + Second
        BY <2>2, RoundingIsSeconds
      <4>2. Contract!Seconds(cooldownTtl) =
              {k \in 0 .. cooldownTtl : cooldownTtl - Second < k * Second /\ k * Second < cooldownTtl + Second}
        BY <2>2 DEF Contract!Seconds, Contract!NoLock
      <4> HIDE DEF n
      <4> QED
        BY <4>1, <4>2
    <3>2. answer' = Reply("getCooldown", "done", NoCode, n) /\ UNCHANGED <<entryKey, cooldownTtl, failKey>>
      BY <1>8, <2>2 DEF GetCooldown
    <3> HIDE DEF n
    <3> QED
      BY <3>1, <3>2 DEF Contract!GetCooldown, entryKey, failKey
  <2> QED
    BY <2>1, <2>2
<1>9. ASSUME ClearCooldown PROVE Contract!ClearCooldown
  BY <1>9 DEF ClearCooldown, Contract!ClearCooldown, Contract!NoLock, entryKey, failKey
<1>10. ASSUME GetFailures PROVE Contract!GetFailures
  BY <1>10 DEF GetFailures, Contract!GetFailures, entryKey, failKey
<1>11. ASSUME ClearFailures PROVE Contract!ClearFailures
  BY <1>11 DEF ClearFailures, Contract!ClearFailures, Contract!NoFailures, entryKey
<1>12. ASSUME Tick PROVE Contract!Tick
  BY <1>12, TickImplements
<1>13. CASE UNCHANGED vars
  BY <1>13 DEF vars, Contract!vars
<1> QED
  BY <1>1, <1>2, <1>3, <1>4, <1>5, <1>6, <1>7, <1>8, <1>9, <1>10, <1>11, <1>12, <1>13
  DEF Next, Contract!Next

\* The Redis storage implements IOtpStorage, with a grace of less than a second for reads, as long
\* as no attempt runs in a key's last instant.
THEOREM RedisImplementsHolds == ASSUME ~LastInstantCalls PROVE Spec => ImplementsContract
<1>1. Init => Contract!Init
  BY DEF Init, Contract!Init, NoEntry, NoKey, Done, Reply,
         Contract!NoEntry, Contract!NoLock, Contract!NoFailures, Contract!Done, Contract!Reply
<1>2. Inv /\ Inv' /\ [Next]_vars => [Contract!Next]_(Contract!vars)
  BY RedisStepsImplement
<1> QED
  BY <1>1, <1>2, RedisInvariant, PTL DEF Spec, ImplementsContract, Contract!Spec

=============================================================================
