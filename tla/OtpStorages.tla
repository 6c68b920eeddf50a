----------------------------- MODULE OtpStorages -----------------------------
(***************************************************************************)
(* The in-memory and the Redis storage given the same calls at the same    *)
(* times.  An application that swaps one for the other (the README         *)
(* recommends memory for tests, Redis for production) expects the same     *)
(* answers; both are also checked against the contract on their own.       *)
(***************************************************************************)
EXTENDS OtpEntries

CONSTANTS
  LastInstantCalls,  \* see RedisOtpStorage
  MaxFailures  \* bound: recordFailure is called while the counters are below it

VARIABLES
  store, cooldowns, counter, memoryAnswer,
  entry, entryTtl, cooldownTtl, failCount, failTtl, redisAnswer

memory == <<store, cooldowns, counter, memoryAnswer>>
redis == <<entry, entryTtl, cooldownTtl, failCount, failTtl, redisAnswer>>
vars == <<memory, redis>>

M == INSTANCE InMemoryOtpStorage WITH answer <- memoryAnswer
R == INSTANCE RedisOtpStorage WITH answer <- redisAnswer

Init == M!Init /\ R!Init

Set == \E c \in Codes, ttl \in Lifetimes : M!Set(c, ttl) /\ R!Set(c, ttl)
Get == M!Get /\ R!Get
ConsumeAttempt == M!ConsumeAttempt /\ R!ConsumeAttempt
Update == \E a \in 0 .. MaxAttempts : M!Update(a) /\ R!Update(a)
Delete == M!Delete /\ R!Delete
TryAcquireCooldown == \E n \in Cooldowns : M!TryAcquireCooldown(n) /\ R!TryAcquireCooldown(n)
GetCooldown == M!GetCooldown /\ R!GetCooldown
ClearCooldown == M!ClearCooldown /\ R!ClearCooldown
RecordFailure ==
  /\ counter.count < MaxFailures /\ failCount < MaxFailures
  /\ \E n \in Windows : M!RecordFailure(n) /\ R!RecordFailure(n)
GetFailures == M!GetFailures /\ R!GetFailures
ClearFailures == M!ClearFailures /\ R!ClearFailures
Tick == M!Tick /\ R!Tick

Next ==
  \/ Set \/ Get \/ ConsumeAttempt \/ Update \/ Delete
  \/ TryAcquireCooldown \/ GetCooldown \/ ClearCooldown
  \/ RecordFailure \/ GetFailures \/ ClearFailures
  \/ Tick

Spec == Init /\ [][Next]_vars

-----------------------------------------------------------------------------

\* The in-memory storage keeps the contract with no grace (InMemoryOtpStorage).
MemoryImplements == M!ImplementsContract

\* The Redis storage keeps the contract with a grace of less than a second (RedisOtpStorage).
RedisImplements == R!ImplementsContract

\* Whatever the history of calls and however their expiry differs, a verification attempt gets
\* the same answer from both: the same status, the same code and the same count.
ConsumeAgrees ==
  [][ConsumeAttempt => memoryAnswer' = redisAnswer']_vars

\* A read through Redis applies the time to live: an entry is returned at most the fraction of a
\* second after its expiresAt by which its key outlives it (otp-storage.interface.ts:60).
ReadsApplyTtl ==
  [][Get /\ redisAnswer'.code # NoCode => entry.left > -Second]_vars

=============================================================================
