-------------------------- MODULE OtpStoragesProofs --------------------------
(***************************************************************************)
(* The two storages side by side, proved for any constants and any history *)
(* of calls: each keeps its contract, and an attempt is answered alike by  *)
(* both.  What each does alone is proved in a module of its own, which is  *)
(* instantiated here; this one adds what they have in common.  While an    *)
(* entry is within its expiresAt both hold the same one, and outside it    *)
(* neither has one that an attempt would count, however long Redis keeps   *)
(* the key and the Map the entry.                                          *)
(***************************************************************************)
EXTENDS OtpStorages, TLAPS

MP == INSTANCE InMemoryOtpStorageProofs WITH answer <- memoryAnswer
RP == INSTANCE RedisOtpStorageProofs WITH answer <- redisAnswer

-----------------------------------------------------------------------------
(* Each storage takes its own steps.                                       *)

\* A step of the two is one of the in-memory storage.
LEMMA MemorySteps ==
  [Next]_vars => [MP!Next]_(MP!vars)
<1> SUFFICES ASSUME Next PROVE MP!Next
  BY DEF vars, memory, redis, MP!vars
<1> USE DEF M!NoEntry, MP!NoEntry, M!Fresh, MP!Fresh, M!Marked, MP!Marked, M!Reply, MP!Reply, M!Done,
  MP!Done, M!NoLock, MP!NoLock, M!NoCounter, MP!NoCounter, M!Expired, MP!Expired, M!Exhausted,
  MP!Exhausted, M!Locked, MP!Locked, M!LiveFailures, MP!LiveFailures
<1>1. ASSUME NEW c \in Codes, NEW ttl \in Lifetimes, M!Set(c, ttl) PROVE MP!Set(c, ttl)
  BY <1>1 DEF M!Set, MP!Set
<1>2. M!Get => MP!Get
  BY DEF M!Get, MP!Get
<1>3. M!ConsumeAttempt => MP!ConsumeAttempt
  BY DEF M!ConsumeAttempt, MP!ConsumeAttempt
<1>4. ASSUME NEW a \in 0 .. MaxAttempts, M!Update(a) PROVE MP!Update(a)
  BY <1>4 DEF M!Update, MP!Update
<1>5. M!Delete => MP!Delete
  BY DEF M!Delete, MP!Delete
<1>6. ASSUME NEW n \in Cooldowns, M!TryAcquireCooldown(n) PROVE MP!TryAcquireCooldown(n)
  BY <1>6 DEF M!TryAcquireCooldown, MP!TryAcquireCooldown
<1>7. M!GetCooldown => MP!GetCooldown
  BY DEF M!GetCooldown, MP!GetCooldown
<1>8. M!ClearCooldown => MP!ClearCooldown
  BY DEF M!ClearCooldown, MP!ClearCooldown
<1>9. ASSUME NEW n \in Windows, M!RecordFailure(n) PROVE MP!RecordFailure(n)
  BY <1>9 DEF M!RecordFailure, MP!RecordFailure
<1>10. M!GetFailures => MP!GetFailures
  BY DEF M!GetFailures, MP!GetFailures
<1>11. M!ClearFailures => MP!ClearFailures
  BY DEF M!ClearFailures, MP!ClearFailures
<1>12. M!Tick => MP!Tick
  BY DEF M!Tick, MP!Tick
<1> QED
  BY <1>1, <1>2, <1>3, <1>4, <1>5, <1>6, <1>7, <1>8, <1>9, <1>10, <1>11, <1>12
  DEF Next, MP!Next, Set, Get, ConsumeAttempt, Update, Delete, TryAcquireCooldown, GetCooldown,
    ClearCooldown, RecordFailure, GetFailures, ClearFailures, Tick

\* A step of the two is one of the Redis storage.
LEMMA RedisSteps ==
  [Next]_vars => [RP!Next]_(RP!vars)
<1> SUFFICES ASSUME Next PROVE RP!Next
  BY DEF vars, memory, redis, RP!vars
<1> USE DEF R!NoEntry, RP!NoEntry, R!Fresh, RP!Fresh, R!Marked, RP!Marked, R!Reply, RP!Reply, R!Done,
  RP!Done, R!NoKey, RP!NoKey, R!Forever, RP!Forever, R!HasEntry, RP!HasEntry, R!WholeSeconds,
  RP!WholeSeconds, R!DeleteEntry, RP!DeleteEntry, R!ScriptExpired, RP!ScriptExpired, R!KeptTtl,
  RP!KeptTtl, R!Older, RP!Older, R!entryKey, RP!entryKey, R!failKey, RP!failKey
<1>1. ASSUME NEW c \in Codes, NEW ttl \in Lifetimes, R!Set(c, ttl) PROVE RP!Set(c, ttl)
  BY <1>1 DEF R!Set, RP!Set
<1>2. R!Get => RP!Get
  BY DEF R!Get, RP!Get
<1>3. R!ConsumeAttempt => RP!ConsumeAttempt
  BY DEF R!ConsumeAttempt, RP!ConsumeAttempt
<1>4. ASSUME NEW a \in 0 .. MaxAttempts, R!Update(a) PROVE RP!Update(a)
  BY <1>4 DEF R!Update, RP!Update
<1>5. R!Delete => RP!Delete
  BY DEF R!Delete, RP!Delete
<1>6. ASSUME NEW n \in Cooldowns, R!TryAcquireCooldown(n) PROVE RP!TryAcquireCooldown(n)
  BY <1>6 DEF R!TryAcquireCooldown, RP!TryAcquireCooldown
<1>7. R!GetCooldown => RP!GetCooldown
  BY DEF R!GetCooldown, RP!GetCooldown
<1>8. R!ClearCooldown => RP!ClearCooldown
  BY DEF R!ClearCooldown, RP!ClearCooldown
<1>9. ASSUME NEW n \in Windows, R!RecordFailure(n) PROVE RP!RecordFailure(n)
  BY <1>9 DEF R!RecordFailure, RP!RecordFailure
<1>10. R!GetFailures => RP!GetFailures
  BY DEF R!GetFailures, RP!GetFailures
<1>11. R!ClearFailures => RP!ClearFailures
  BY DEF R!ClearFailures, RP!ClearFailures
<1>12. R!Tick => RP!Tick
  BY DEF R!Tick, RP!Tick
<1> QED
  BY <1>1, <1>2, <1>3, <1>4, <1>5, <1>6, <1>7, <1>8, <1>9, <1>10, <1>11, <1>12
  DEF Next, RP!Next, Set, Get, ConsumeAttempt, Update, Delete, TryAcquireCooldown, GetCooldown,
    ClearCooldown, RecordFailure, GetFailures, ClearFailures, Tick

\* The contract of the in-memory storage, as its proof and as this module know it.
LEMMA MemoryContract ==
  [MP!Contract!Next]_(MP!Contract!vars) => [M!Contract!Next]_(M!Contract!vars)
<1> USE DEF M!NoEntry, MP!NoEntry, M!NoLock, MP!NoLock, M!Expired, MP!Expired, M!Locked, MP!Locked,
  M!NoCounter, MP!NoCounter, M!Contract!NoEntry, MP!Contract!NoEntry, M!Contract!Fresh, MP!Contract!Fresh,
  M!Contract!Marked, MP!Contract!Marked, M!Contract!Reply, MP!Contract!Reply, M!Contract!Done,
  MP!Contract!Done, M!Contract!NoLock, MP!Contract!NoLock, M!Contract!NoFailures, MP!Contract!NoFailures
<1>1. ASSUME NEW c \in Codes, NEW ttl \in Lifetimes, MP!Contract!Set(c, ttl) PROVE M!Contract!Set(c, ttl)
  BY <1>1 DEF M!Contract!Set, MP!Contract!Set
<1>2. MP!Contract!Get => M!Contract!Get
  BY DEF M!Contract!Get, MP!Contract!Get
<1>3. MP!Contract!ConsumeAttempt => M!Contract!ConsumeAttempt
  BY DEF M!Contract!ConsumeAttempt, MP!Contract!ConsumeAttempt
<1>4. ASSUME NEW a \in 0 .. MaxAttempts, MP!Contract!Update(a) PROVE M!Contract!Update(a)
  BY <1>4 DEF M!Contract!Update, MP!Contract!Update
<1>5. MP!Contract!Delete => M!Contract!Delete
  BY DEF M!Contract!Delete, MP!Contract!Delete
<1>6. ASSUME NEW n \in Cooldowns, MP!Contract!TryAcquireCooldown(n) PROVE M!Contract!TryAcquireCooldown(n)
  BY <1>6 DEF M!Contract!TryAcquireCooldown, MP!Contract!TryAcquireCooldown
<1>7. MP!Contract!GetCooldown => M!Contract!GetCooldown
  BY DEF M!Contract!GetCooldown, MP!Contract!GetCooldown, M!Contract!Seconds, MP!Contract!Seconds
<1>8. MP!Contract!ClearCooldown => M!Contract!ClearCooldown
  BY DEF M!Contract!ClearCooldown, MP!Contract!ClearCooldown
<1>9. ASSUME NEW n \in Windows, MP!Contract!RecordFailure(n) PROVE M!Contract!RecordFailure(n)
  BY <1>9 DEF M!Contract!RecordFailure, MP!Contract!RecordFailure
<1>10. MP!Contract!GetFailures => M!Contract!GetFailures
  BY DEF M!Contract!GetFailures, MP!Contract!GetFailures
<1>11. MP!Contract!ClearFailures => M!Contract!ClearFailures
  BY DEF M!Contract!ClearFailures, MP!Contract!ClearFailures
<1>12. MP!Contract!Tick => M!Contract!Tick
  BY DEF M!Contract!Tick, MP!Contract!Tick, M!Contract!AfterTick, MP!Contract!AfterTick,
    M!Contract!LockAfterTick, MP!Contract!LockAfterTick, M!Contract!FailuresAfterTick,
    MP!Contract!FailuresAfterTick
<1>13. UNCHANGED MP!Contract!vars => UNCHANGED M!Contract!vars
  BY DEF MP!Contract!vars, M!Contract!vars
<1> QED
  BY <1>1, <1>2, <1>3, <1>4, <1>5, <1>6, <1>7, <1>8, <1>9, <1>10, <1>11, <1>12, <1>13
  DEF MP!Contract!Next, M!Contract!Next

\* The contract of the Redis storage, likewise.
LEMMA RedisContract ==
  [RP!Contract!Next]_(RP!Contract!vars) => [R!Contract!Next]_(R!Contract!vars)
<1> USE DEF R!NoKey, RP!NoKey, R!Contract!NoEntry, RP!Contract!NoEntry, R!Contract!Fresh,
  RP!Contract!Fresh, R!Contract!Marked, RP!Contract!Marked, R!Contract!Reply, RP!Contract!Reply,
  R!Contract!Done, RP!Contract!Done, R!Contract!NoLock, RP!Contract!NoLock, R!Contract!NoFailures,
  RP!Contract!NoFailures
<1>1. ASSUME NEW c \in Codes, NEW ttl \in Lifetimes, RP!Contract!Set(c, ttl) PROVE R!Contract!Set(c, ttl)
  BY <1>1 DEF R!Contract!Set, RP!Contract!Set
<1>2. RP!Contract!Get => R!Contract!Get
  BY DEF R!Contract!Get, RP!Contract!Get
<1>3. RP!Contract!ConsumeAttempt => R!Contract!ConsumeAttempt
  BY DEF R!Contract!ConsumeAttempt, RP!Contract!ConsumeAttempt
<1>4. ASSUME NEW a \in 0 .. MaxAttempts, RP!Contract!Update(a) PROVE R!Contract!Update(a)
  BY <1>4 DEF R!Contract!Update, RP!Contract!Update
<1>5. RP!Contract!Delete => R!Contract!Delete
  BY DEF R!Contract!Delete, RP!Contract!Delete
<1>6. ASSUME NEW n \in Cooldowns, RP!Contract!TryAcquireCooldown(n) PROVE R!Contract!TryAcquireCooldown(n)
  BY <1>6 DEF R!Contract!TryAcquireCooldown, RP!Contract!TryAcquireCooldown
<1>7. RP!Contract!GetCooldown => R!Contract!GetCooldown
  BY DEF R!Contract!GetCooldown, RP!Contract!GetCooldown, R!Contract!Seconds, RP!Contract!Seconds
<1>8. RP!Contract!ClearCooldown => R!Contract!ClearCooldown
  BY DEF R!Contract!ClearCooldown, RP!Contract!ClearCooldown
<1>9. ASSUME NEW n \in Windows, RP!Contract!RecordFailure(n) PROVE R!Contract!RecordFailure(n)
  BY <1>9 DEF R!Contract!RecordFailure, RP!Contract!RecordFailure
<1>10. RP!Contract!GetFailures => R!Contract!GetFailures
  BY DEF R!Contract!GetFailures, RP!Contract!GetFailures
<1>11. RP!Contract!ClearFailures => R!Contract!ClearFailures
  BY DEF R!Contract!ClearFailures, RP!Contract!ClearFailures
<1>12. RP!Contract!Tick => R!Contract!Tick
  BY DEF R!Contract!Tick, RP!Contract!Tick, R!Contract!AfterTick, RP!Contract!AfterTick,
    R!Contract!LockAfterTick, RP!Contract!LockAfterTick, R!Contract!FailuresAfterTick,
    RP!Contract!FailuresAfterTick
<1>13. UNCHANGED RP!Contract!vars => UNCHANGED R!Contract!vars
  BY DEF RP!Contract!vars, R!Contract!vars
<1> QED
  BY <1>1, <1>2, <1>3, <1>4, <1>5, <1>6, <1>7, <1>8, <1>9, <1>10, <1>11, <1>12, <1>13
  DEF RP!Contract!Next, R!Contract!Next

\* Both start empty.
LEMMA Starts == Init => MP!Init /\ RP!Init
BY DEF Init, M!Init, R!Init, MP!Init, RP!Init,
  M!NoEntry, MP!NoEntry, M!NoLock, MP!NoLock, M!NoCounter, MP!NoCounter, M!Done, MP!Done, M!Reply,
    MP!Reply,
  R!NoEntry, RP!NoEntry, R!NoKey, RP!NoKey, R!Done, RP!Done, R!Reply, RP!Reply

\* What the storages keep is of its type, throughout.
LEMMA MemoryTypes == Spec => MP!Spec /\ []MP!TypeOK
<1>1. MP!Spec => []MP!TypeOK
  BY MP!MemoryTypeCorrect, StorageAssumption, PTL DEF MP!MemoryTypeCorrect, StorageAssumption
<1> QED
  BY <1>1, Starts, MemorySteps, PTL DEF Spec, MP!Spec

LEMMA RedisTypes == ASSUME ~LastInstantCalls PROVE Spec => RP!Spec /\ []RP!Inv
<1>1. RP!Spec => []RP!Inv
  BY RP!RedisInvariant, StorageAssumption, ~LastInstantCalls, PTL DEF RP!RedisInvariant, StorageAssumption
<1> QED
  BY <1>1, Starts, RedisSteps, PTL DEF Spec, RP!Spec

\* Beside a Redis storage that is given the same calls, the in-memory storage implements
\* IOtpStorage: every answer and every effect is one the contract allows, with no grace.
THEOREM MemoryStillImplements == Spec => MemoryImplements
<1>1. MP!Contract!Init => M!Contract!Init
  BY DEF MP!Contract!Init, M!Contract!Init,
  M!NoEntry, MP!NoEntry, M!Expired, MP!Expired, M!Locked, MP!Locked, M!NoLock, MP!NoLock, M!NoCounter,
    MP!NoCounter, M!Contract!NoEntry, MP!Contract!NoEntry, M!Contract!NoLock, MP!Contract!NoLock,
    M!Contract!NoFailures, MP!Contract!NoFailures, M!Contract!Done, MP!Contract!Done, M!Contract!Reply,
    MP!Contract!Reply
<1>2. MP!Spec => MP!ImplementsContract
  BY MP!MemoryImplementsHolds, StorageAssumption, PTL DEF MP!MemoryImplementsHolds, StorageAssumption
<1> QED
  BY <1>1, <1>2, MemoryTypes, MemoryContract, PTL
  DEF MemoryImplements, M!ImplementsContract, MP!ImplementsContract, M!Contract!Spec, MP!Contract!Spec

\* The Redis storage does too, with a grace of less than a second for reads, as long as no attempt
\* runs in a key's last instant.
THEOREM RedisStillImplements == ASSUME ~LastInstantCalls PROVE Spec => RedisImplements
<1>1. RP!Contract!Init => R!Contract!Init
  BY DEF RP!Contract!Init, R!Contract!Init,
  R!NoKey, RP!NoKey, R!Contract!NoEntry, RP!Contract!NoEntry, R!Contract!NoLock, RP!Contract!NoLock,
    R!Contract!NoFailures, RP!Contract!NoFailures, R!Contract!Done, RP!Contract!Done, R!Contract!Reply,
    RP!Contract!Reply
<1>2. RP!Spec => RP!ImplementsContract
  BY RP!RedisImplementsHolds, StorageAssumption, ~LastInstantCalls, PTL DEF RP!RedisImplementsHolds,
    StorageAssumption
<1> QED
  BY <1>1, <1>2, RedisTypes, RedisContract, PTL
  DEF RedisImplements, R!ImplementsContract, RP!ImplementsContract, R!Contract!Spec, RP!Contract!Spec

-----------------------------------------------------------------------------
(* The entry that both hold.                                               *)

USE StorageAssumption

Entries == [code : Codes \union {NoCode}, left : Int, attempts : Nat, validated : BOOLEAN]

\* An entry that an attempt would count.
MemoryLive == store # NoEntry /\ store.left >= 0
RedisLive == entryTtl # R!NoKey /\ entry.left >= 0

\* A key that will expire does not do so before its entry; one that lost its expiry never does.
KeyInv ==
  /\ entry \in Entries
  /\ entryTtl \in Nat \union {R!NoKey, R!Forever}
  /\ entryTtl = R!NoKey => entry = NoEntry
  /\ entryTtl # R!NoKey => entry.code \in Codes
  /\ entryTtl \in Nat => entry.left <= entryTtl

\* What each storage knows of its own entry.
OwnInv == store \in Entries /\ KeyInv

\* Within its expiresAt an entry is in both storages, the same to the last field; outside it, it is
\* live in neither.
AgreeInv ==
  /\ MemoryLive <=> RedisLive
  /\ MemoryLive => store = entry

\* An entry that is there is not the one that stands for none.
LEMMA KeyHasEntry == KeyInv => (entryTtl = R!NoKey <=> entry = NoEntry)
BY DEF KeyInv, NoEntry

\* No operation lets a key expire before its entry, an attempt in the key's last instant included.
LEMMA StepKeepsKey == KeyInv /\ [Next]_vars => KeyInv'
<1> SUFFICES ASSUME KeyInv, [Next]_vars PROVE KeyInv'
  OBVIOUS
<1> USE DEF KeyInv, R!NoKey, R!Forever
<1>0. CASE UNCHANGED <<entry, entryTtl>>
  BY <1>0
<1>1. CASE Set
  <2>1. PICK c \in Codes, ttl \in Lifetimes :
           entry' = R!Fresh(c, ttl) /\ entryTtl' = R!WholeSeconds(ttl)
    BY <1>1 DEF Set, R!Set
  <2>2. ttl \in Nat \ {0}
    OBVIOUS
  <2>3. RP!WholeSeconds(ttl) \in Nat /\ ttl <= RP!WholeSeconds(ttl)
    BY <2>2, RP!WholeSecondsBounds DEF StorageAssumption
  <2>4. R!WholeSeconds(ttl) = RP!WholeSeconds(ttl)
    BY DEF R!WholeSeconds, RP!WholeSeconds
  <2>5. entry' \in Entries /\ entry'.code = c /\ entry'.left = ttl
    BY <2>1, <2>2 DEF R!Fresh, Entries
  <2> QED
    BY <2>1, <2>3, <2>4, <2>5
<1>2. CASE ConsumeAttempt
  <2>1. CASE R!DeleteEntry
    BY <2>1 DEF R!DeleteEntry, R!NoEntry, NoEntry, Entries
  <2>2. CASE UNCHANGED <<entry, entryTtl>>
    BY <1>0, <2>2
  <2>3. CASE /\ entryTtl # R!NoKey
             /\ entry' = [entry EXCEPT !.attempts = entry.attempts + 1] /\ entryTtl' = R!KeptTtl
    <3>1. entry' \in Entries /\ entry'.code = entry.code /\ entry'.left = entry.left
      BY <2>3 DEF Entries
    <3>2. entryTtl' = IF entryTtl > 0 THEN entryTtl ELSE R!Forever
      BY <2>3 DEF R!KeptTtl
    <3> QED
      BY <2>3, <3>1, <3>2
  <2> QED
    BY <1>2, <2>1, <2>2, <2>3 DEF ConsumeAttempt, R!ConsumeAttempt, R!HasEntry, R!entryKey
<1>3. CASE Update
  <2>1. PICK a \in 0 .. MaxAttempts : R!Update(a)
    BY <1>3 DEF Update
  <2>2. CASE entryTtl # R!NoKey
    <3>1. entry' = Marked(entry, a) /\ entryTtl' = entryTtl
      BY <2>1, <2>2 DEF R!Update, R!HasEntry, R!Marked, Marked
    <3>2. ASSUME NEW e \in Entries
          PROVE  Marked(e, a) \in Entries /\ Marked(e, a).code = e.code /\ Marked(e, a).left = e.left
      <4>1. RP!Marked(e, a) = [code |-> e.code, left |-> e.left, attempts |-> a, validated |-> TRUE]
        BY RP!EntryUpdates, StorageAssumption DEF RP!EntryUpdates, RP!Entries, Entries, StorageAssumption
      <4>2. Marked(e, a) = RP!Marked(e, a)
        BY DEF Marked, RP!Marked
      <4>3. a \in Nat
        OBVIOUS
      <4> QED
        BY <4>1, <4>2, <4>3 DEF Entries
    <3> QED
      BY <2>2, <3>1, <3>2
  <2>3. CASE entryTtl = R!NoKey
    BY <1>0, <2>1, <2>3 DEF R!Update, R!HasEntry, R!entryKey
  <2> QED
    BY <2>2, <2>3
<1>4. CASE Delete
  BY <1>4 DEF Delete, R!Delete, R!DeleteEntry, R!NoEntry, NoEntry, Entries
<1>5. CASE Tick
  <2>1. entryTtl' = R!Older(entryTtl)
    BY <1>5 DEF Tick, R!Tick
  <2>2. CASE entryTtl' = R!NoKey
    BY <1>5, <2>2 DEF Tick, R!Tick, R!NoEntry, NoEntry, Entries
  <2>3. CASE entryTtl' # R!NoKey
    <3>1. entry' = [entry EXCEPT !.left = IF entry.left >= -Second THEN entry.left - 1 ELSE entry.left]
      BY <1>5, <2>3 DEF Tick, R!Tick
    <3>2. /\ entry' \in Entries /\ entry'.code = entry.code
          /\ entry'.left = IF entry.left >= -Second THEN entry.left - 1 ELSE entry.left
      BY <3>1 DEF Entries
    <3>3. entryTtl # R!NoKey /\ entry.left \in Int /\ Second \in Nat
      BY <2>1, <2>3 DEF R!Older, Entries
    <3>4. \/ entryTtl = R!Forever /\ entryTtl' = R!Forever
          \/ entryTtl \in Nat \ {0} /\ entryTtl' = entryTtl - 1
      BY <2>1, <2>3, <3>3 DEF R!Older
    <3>5. entryTtl' \in Nat => entry'.left <= entryTtl'
      BY <3>2, <3>3, <3>4
    <3> QED
      BY <3>2, <3>3, <3>4, <3>5
  <2> QED
    BY <2>2, <2>3
<1>6. CASE \/ Get \/ TryAcquireCooldown \/ GetCooldown \/ ClearCooldown
           \/ RecordFailure \/ GetFailures \/ ClearFailures
  BY <1>0, <1>6
  DEF Get, TryAcquireCooldown, GetCooldown, ClearCooldown, RecordFailure, GetFailures, ClearFailures,
      R!entryKey, R!Get, R!TryAcquireCooldown, R!GetCooldown, R!ClearCooldown, R!RecordFailure,
      R!GetFailures, R!ClearFailures
<1>7. CASE UNCHANGED vars
  BY <1>0, <1>7 DEF vars, redis
<1> QED
  BY <1>1, <1>2, <1>3, <1>4, <1>5, <1>6, <1>7 DEF Next

\* What each operation leaves of the entry is the same in both.
LEMMA StepKeepsAgree == OwnInv /\ OwnInv' /\ AgreeInv /\ [Next]_vars => AgreeInv'
<1> SUFFICES ASSUME OwnInv, OwnInv', AgreeInv, [Next]_vars PROVE AgreeInv'
  OBVIOUS
<1>k. /\ entryTtl = R!NoKey <=> entry = NoEntry
      /\ entryTtl' = R!NoKey <=> entry' = NoEntry
  BY KeyHasEntry DEF OwnInv, KeyInv, NoEntry
<1> USE <1>k DEF OwnInv, KeyInv, AgreeInv, MemoryLive, RedisLive, NoEntry, M!NoEntry, R!NoEntry, R!NoKey,
            R!Forever
<1>0. CASE UNCHANGED <<store, entry, entryTtl>>
  BY <1>0
<1>1. CASE Set
  <2>1. PICK c \in Codes, ttl \in Lifetimes : store' = Fresh(c, ttl) /\ entry' = Fresh(c, ttl)
    BY <1>1 DEF Set, M!Set, R!Set, M!Fresh, R!Fresh, Fresh
  <2>2. entry'.code = c /\ entry'.left = ttl /\ ttl \in Nat
    BY <2>1 DEF Fresh
  <2> QED
    BY <2>1, <2>2
<1>2. CASE Get
  <2>1. (store' = store \/ (store' = NoEntry /\ store.left < 0)) /\ UNCHANGED <<entry, entryTtl>>
    BY <1>2 DEF Get, M!Get, R!Get, R!entryKey, M!Expired
  <2>2. CASE store' = store
    BY <1>0, <2>1, <2>2
  <2>3. CASE store' = NoEntry /\ store.left < 0
    <3>1. ~MemoryLive /\ ~MemoryLive'
      BY <2>3 DEF Entries
    <3> QED
      BY <2>1, <3>1
  <2> QED
    BY <2>1, <2>2, <2>3
<1>3. CASE ConsumeAttempt
  <2>1. CASE ~MemoryLive
    <3>1. store' = NoEntry
      BY <1>3, <2>1 DEF ConsumeAttempt, M!ConsumeAttempt, M!Expired, Entries
    <3>2. entryTtl' = R!NoKey
      BY <1>3, <2>1 DEF ConsumeAttempt, R!ConsumeAttempt, R!HasEntry, R!ScriptExpired, R!DeleteEntry,
        R!entryKey, Entries
    <3> QED
      BY <3>1, <3>2
  <2>2. CASE MemoryLive /\ store.attempts >= MaxAttempts
    <3>1. store' = NoEntry
      BY <1>3, <2>2 DEF ConsumeAttempt, M!ConsumeAttempt, M!Expired, M!Exhausted, Entries
    <3>2. entryTtl' = R!NoKey
      BY <1>3, <2>2 DEF ConsumeAttempt, R!ConsumeAttempt, R!HasEntry, R!ScriptExpired, R!DeleteEntry,
        R!entryKey, Entries
    <3> QED
      BY <3>1, <3>2
  <2>3. CASE MemoryLive /\ store.attempts < MaxAttempts
    <3>1. store' = [store EXCEPT !.attempts = store.attempts + 1]
      BY <1>3, <2>3 DEF ConsumeAttempt, M!ConsumeAttempt, M!Expired, M!Exhausted, Entries
    <3>2. entry' = [entry EXCEPT !.attempts = entry.attempts + 1] /\ entryTtl' # R!NoKey
      BY <1>3, <2>3 DEF ConsumeAttempt, R!ConsumeAttempt, R!HasEntry, R!ScriptExpired, R!KeptTtl,
        R!Forever, Entries
    <3>3. store = entry
      BY <2>3
    <3>4. store' = entry' /\ entry'.left = entry.left
      BY <3>1, <3>2, <3>3 DEF Entries
    <3> QED
      BY <2>3, <3>2, <3>4
  <2> QED
    BY <2>1, <2>2, <2>3 DEF Entries
<1>4. CASE Update
  <2>1. PICK a \in 0 .. MaxAttempts : M!Update(a) /\ R!Update(a)
    BY <1>4 DEF Update
  <2>2. /\ store' = IF store = NoEntry THEN NoEntry ELSE Marked(store, a)
        /\ entryTtl' = entryTtl
        /\ entry' = IF entryTtl # R!NoKey THEN Marked(entry, a) ELSE entry
    BY <2>1 DEF M!Update, R!Update, M!Marked, R!Marked, Marked, R!HasEntry, R!entryKey
  <2>3. ASSUME NEW e \in Entries PROVE Marked(e, a).left = e.left
    BY DEF Marked, Entries
  <2>4. store # NoEntry => store' # NoEntry \/ store.left < 0
    <3>1. store # NoEntry => store'.validated = TRUE
      BY <2>2 DEF Marked, Entries
    <3> QED
      BY <3>1
  <2>5. MemoryLive' <=> MemoryLive
    BY <2>2, <2>3, <2>4
  <2>6. RedisLive' <=> RedisLive
    BY <2>2, <2>3
  <2>7. MemoryLive => store' = entry'
    BY <2>2
  <2> QED
    BY <2>5, <2>6, <2>7
<1>5. CASE Delete
  BY <1>5 DEF Delete, M!Delete, R!Delete, R!DeleteEntry
<1>6. CASE Tick
  <2>1. CASE ~MemoryLive
    <3>1. store' = store
      BY <1>6, <2>1 DEF Tick, M!Tick, Entries
    <3>2. entryTtl # R!NoKey => entry.left \in Int /\ entry.left < 0
      BY <2>1 DEF Entries
    <3>3. entryTtl' # R!NoKey => entryTtl # R!NoKey /\ entry'.left < 0
      <4>1. ASSUME entryTtl' # R!NoKey PROVE entryTtl # R!NoKey
        BY <1>6, <4>1 DEF Tick, R!Tick, R!Older, R!Forever
      <4>2. ASSUME entryTtl' # R!NoKey
            PROVE  entry' = [entry EXCEPT !.left = IF entry.left >= -Second THEN entry.left - 1 ELSE entry.left]
        BY <1>6, <4>2 DEF Tick, R!Tick
      <4>3. ASSUME entryTtl' # R!NoKey PROVE entry'.left \in {entry.left, entry.left - 1}
        BY <4>2, <4>3 DEF Entries
      <4> QED
        BY <3>2, <4>1, <4>3
    <3> QED
      BY <2>1, <3>1, <3>3 DEF Entries
  <2>2. CASE MemoryLive
    <3>1. store = entry /\ store.left \in Int /\ store.left >= 0 /\ entryTtl # R!NoKey
      BY <2>2 DEF Entries
    <3>2. store' = [store EXCEPT !.left = store.left - 1]
      BY <1>6, <2>2 DEF Tick, M!Tick
    <3>3. CASE entryTtl' = R!NoKey
      <4>1. entryTtl = 0
        BY <1>6, <3>1, <3>3 DEF Tick, R!Tick, R!Older, R!Forever
      <4>2. store'.left = -1
        BY <3>1, <3>2, <4>1 DEF Entries
      <4> QED
        BY <3>3, <4>2
    <3>4. CASE entryTtl' # R!NoKey
      <4>1. entry' = [entry EXCEPT !.left = IF entry.left >= -Second THEN entry.left - 1 ELSE entry.left]
        BY <1>6, <3>4 DEF Tick, R!Tick
      <4>2. entry' = store'
        BY <3>1, <3>2, <4>1
      <4>3. store' # NoEntry
        BY <3>4, <4>2
      <4> QED
        BY <3>4, <4>2, <4>3
    <3> QED
      BY <3>3, <3>4
  <2> QED
    BY <2>1, <2>2
<1>7. CASE TryAcquireCooldown \/ GetCooldown \/ ClearCooldown \/ RecordFailure \/ GetFailures \/ ClearFailures
  BY <1>0, <1>7
  DEF TryAcquireCooldown, GetCooldown, ClearCooldown, RecordFailure, GetFailures, ClearFailures,
    R!entryKey,
      M!TryAcquireCooldown, M!GetCooldown, M!ClearCooldown, M!RecordFailure, M!GetFailures,
        M!ClearFailures,
      R!TryAcquireCooldown, R!GetCooldown, R!ClearCooldown, R!RecordFailure, R!GetFailures,
        R!ClearFailures
<1>8. CASE UNCHANGED vars
  BY <1>0, <1>8 DEF vars, memory, redis
<1> QED
  BY <1>1, <1>2, <1>3, <1>4, <1>5, <1>6, <1>7, <1>8 DEF Next

\* Whatever the history of calls, an entry is live in both storages or in neither.
LEMMA AgreeAlways == Spec => [](OwnInv /\ AgreeInv)
<1>1. Init => AgreeInv /\ KeyInv
  BY DEF Init, M!Init, R!Init, AgreeInv, MemoryLive, RedisLive, NoEntry, M!NoEntry, R!NoEntry, KeyInv,
         Entries, R!NoKey
<1>2. MP!TypeOK => store \in Entries
  BY DEF MP!TypeOK, MP!Entries, Entries
<1>3. MP!TypeOK /\ KeyInv => OwnInv
  BY <1>2 DEF OwnInv
<1>4. Spec => []MP!TypeOK
  BY MemoryTypes, PTL
<1>5. Spec => []KeyInv
  BY <1>1, StepKeepsKey, PTL DEF Spec
<1> QED
  BY <1>1, <1>3, <1>4, <1>5, StepKeepsAgree, PTL DEF Spec

\* An attempt on entries that agree is answered alike.
LEMMA AnswersAgree == OwnInv /\ AgreeInv /\ ConsumeAttempt => memoryAnswer' = redisAnswer'
<1> SUFFICES ASSUME OwnInv, AgreeInv, ConsumeAttempt PROVE memoryAnswer' = redisAnswer'
  OBVIOUS
<1> USE KeyHasEntry DEF OwnInv, KeyInv, AgreeInv, MemoryLive, RedisLive, NoEntry, M!NoEntry, R!NoEntry,
            R!NoKey, ConsumeAttempt, M!ConsumeAttempt, R!ConsumeAttempt, M!Expired, M!Exhausted, R!HasEntry,
              R!ScriptExpired
<1>1. CASE ~MemoryLive
  <2>1. memoryAnswer' = Reply("consumeAttempt", "not_found", NoCode, 0)
    BY <1>1 DEF Entries, M!Reply, Reply
  <2>2. redisAnswer' = Reply("consumeAttempt", "not_found", NoCode, 0)
    BY <1>1 DEF Entries, R!Reply, Reply
  <2> QED
    BY <2>1, <2>2
<1>2. CASE MemoryLive /\ store.attempts >= MaxAttempts
  <2>1. memoryAnswer' = Reply("consumeAttempt", "max_attempts", NoCode, 0)
    BY <1>2 DEF Entries, M!Reply, Reply
  <2>2. redisAnswer' = Reply("consumeAttempt", "max_attempts", NoCode, 0)
    BY <1>2 DEF Entries, R!Reply, Reply
  <2> QED
    BY <2>1, <2>2
<1>3. CASE MemoryLive /\ store.attempts < MaxAttempts
  <2>1. /\ memoryAnswer' = Reply("consumeAttempt", "ok", store.code, store'.attempts)
        /\ store' = [store EXCEPT !.attempts = store.attempts + 1]
    BY <1>3 DEF Entries, M!Reply, Reply
  <2>2. /\ redisAnswer' = Reply("consumeAttempt", "ok", entry.code, entry'.attempts)
        /\ entry' = [entry EXCEPT !.attempts = entry.attempts + 1]
    BY <1>3 DEF Entries, R!Reply, Reply
  <2>3. store = entry
    BY <1>3
  <2> QED
    BY <2>1, <2>2, <2>3
<1> QED
  BY <1>1, <1>2, <1>3 DEF Entries

\* Whatever the history of calls, and however long each storage keeps what has expired, an attempt
\* gets the same status, code and count from both.  It does so even where a key lost its expiry: the
\* attempt looks at the entry's own expiresAt, and it is reads alone that do not.
THEOREM ConsumeAgreesHolds == Spec => ConsumeAgrees
<1>1. OwnInv /\ AgreeInv => [ConsumeAttempt => memoryAnswer' = redisAnswer']_vars
  BY AnswersAgree
<1> QED
  BY <1>1, AgreeAlways, PTL DEF Spec, ConsumeAgrees

-----------------------------------------------------------------------------
(* What a read returns.                                                    *)

\* As long as no attempt runs in a key's last instant, a read through Redis returns an entry at most
\* the fraction of a second after its expiresAt by which its key outlives it: the time to live is
\* applied, and it is the rewrite in that instant which drops it.
THEOREM ReadsApplyTtlHolds == ASSUME ~LastInstantCalls PROVE Spec => ReadsApplyTtl
<1>1. RP!Inv /\ Get /\ redisAnswer'.code # NoCode => entry.left > -Second
  <2> SUFFICES ASSUME RP!Inv, Get, redisAnswer'.code # NoCode PROVE entry.left > -Second
    OBVIOUS
  <2>1. entry.code # NoCode
    BY DEF Get, R!Get, R!Reply
  <2>2. entryTtl # RP!NoKey
    BY <2>1 DEF RP!Inv, RP!LifetimeInv, RP!NoEntry
  <2> QED
    BY <2>2 DEF RP!Inv, RP!TypeInv, RP!LifetimeInv, RP!Entries, RP!NoKey
<1>2. RP!Inv => [Get /\ redisAnswer'.code # NoCode => entry.left > -Second]_vars
  BY <1>1
<1> QED
  BY <1>2, RedisTypes, PTL DEF Spec, ReadsApplyTtl

=============================================================================
