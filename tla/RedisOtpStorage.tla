--------------------------- MODULE RedisOtpStorage ---------------------------
(***************************************************************************)
(* src/src/server/providers/redis-otp.storage.ts for one scope: three keys *)
(* of a Redis server.  A key is there until the tick after its PTTL        *)
(* reached 0, or for good when it has no expiry.  The entry's own          *)
(* expiresAt is a field of the stored JSON and is checked only by the      *)
(* consumeAttempt script; the key is given whole seconds and outlives it.  *)
(***************************************************************************)
EXTENDS OtpEntries

CONSTANT
  LastInstantCalls  \* consumeAttempt may run in the tick in which the key's PTTL is 0

VARIABLES
  entry,        \* the JSON under the otp key, or NoEntry; left = expiresAt - now
  entryTtl,     \* the otp key's PTTL, Forever when it has no expiry, NoKey
  cooldownTtl,  \* the otp_cd key's PTTL, NoKey when it is absent
  failCount,    \* the value of the otp_fail key
  failTtl,      \* its PTTL, NoKey when it is absent
  answer

vars == <<entry, entryTtl, cooldownTtl, failCount, failTtl, answer>>
entryKey == <<entry, entryTtl>>
failKey == <<failCount, failTtl>>

NoKey == -1
Forever == -2

HasEntry == entryTtl # NoKey

\* Ticks of the whole seconds that SETEX is given: rounded up, at least one.
WholeSeconds(ticks) ==
  LET n == (ticks + Second - 1) \div Second IN Second * (IF n < 1 THEN 1 ELSE n)

DeleteEntry == entry' = NoEntry /\ entryTtl' = NoKey

-----------------------------------------------------------------------------

Set(c, ttl) ==
  /\ entry' = Fresh(c, ttl)
  /\ entryTtl' = WholeSeconds(ttl)
  /\ answer' = Done("set")
  /\ UNCHANGED <<cooldownTtl, failKey>>

\* Does not look at expiresAt.
Get ==
  /\ answer' = Reply("get", "done", entry.code, entry.attempts)
  /\ UNCHANGED <<entryKey, cooldownTtl, failKey>>

\* A mutant of ScriptExpired: the script trusts the key's lifetime alone.
MutScriptTrustsKey == FALSE

\* expiresAt < ARGV[1]
ScriptExpired == entry.left < 0

\* A mutant of KeptTtl: the rewrite drops the key's expiry.
MutRewriteDropsTtl == Forever

\* SET ... PX ttl when the PTTL is positive; a plain SET, which removes the expiry, when not.
KeptTtl == IF entryTtl > 0 THEN entryTtl ELSE Forever

\* CONSUME_ATTEMPT_LUA
ConsumeAttempt ==
  /\ entryTtl = 0 => LastInstantCalls
  /\ \/ /\ ~HasEntry
        /\ answer' = Reply("consumeAttempt", "not_found", NoCode, 0)
        /\ UNCHANGED entryKey
     \/ /\ HasEntry /\ ScriptExpired
        /\ DeleteEntry
        /\ answer' = Reply("consumeAttempt", "not_found", NoCode, 0)
     \/ /\ HasEntry /\ ~ScriptExpired /\ entry.attempts >= MaxAttempts
        /\ DeleteEntry
        /\ answer' = Reply("consumeAttempt", "max_attempts", NoCode, 0)
     \/ /\ HasEntry /\ ~ScriptExpired /\ entry.attempts < MaxAttempts
        /\ entry' = [entry EXCEPT !.attempts = @ + 1]
        /\ entryTtl' = KeptTtl
        /\ answer' = Reply("consumeAttempt", "ok", entry.code, entry'.attempts)
  /\ UNCHANGED <<cooldownTtl, failKey>>

\* SET ... KEEPTTL XX
Update(a) ==
  /\ IF HasEntry
     THEN entry' = Marked(entry, a) /\ UNCHANGED entryTtl
     ELSE UNCHANGED entryKey
  /\ answer' = Done("update")
  /\ UNCHANGED <<cooldownTtl, failKey>>

Delete ==
  /\ DeleteEntry
  /\ answer' = Done("delete")
  /\ UNCHANGED <<cooldownTtl, failKey>>

\* SET NX EX, or DEL when no cooldown is configured.
TryAcquireCooldown(n) ==
  /\ IF n > 0 /\ cooldownTtl # NoKey
     THEN UNCHANGED cooldownTtl /\ answer' = Reply("tryAcquireCooldown", "refused", NoCode, 0)
     ELSE /\ cooldownTtl' = IF n > 0 THEN n * Second ELSE NoKey
          /\ answer' = Reply("tryAcquireCooldown", "acquired", NoCode, 0)
  /\ UNCHANGED <<entryKey, failKey>>

\* TTL rounds the PTTL to the nearest second; -2 for an absent key.
GetCooldown ==
  /\ answer' = Reply("getCooldown", "done", NoCode,
            IF cooldownTtl = NoKey THEN 0 ELSE (2 * cooldownTtl + Second) \div (2 * Second))
  /\ UNCHANGED <<entryKey, cooldownTtl, failKey>>

ClearCooldown ==
  /\ cooldownTtl' = NoKey
  /\ answer' = Done("clearCooldown")
  /\ UNCHANGED <<entryKey, failKey>>

\* RECORD_FAILURE_LUA: INCR starts an absent key at 0.
RecordFailure(n) ==
  /\ failCount' = failCount + 1
  /\ failTtl' = n * Second
  /\ answer' = Reply("recordFailure", "done", NoCode, failCount + 1)
  /\ UNCHANGED <<entryKey, cooldownTtl>>

GetFailures ==
  /\ answer' = Reply("getFailures", "done", NoCode, failCount)
  /\ UNCHANGED <<entryKey, cooldownTtl, failKey>>

ClearFailures ==
  /\ failCount' = 0 /\ failTtl' = NoKey
  /\ answer' = Done("clearFailures")
  /\ UNCHANGED <<entryKey, cooldownTtl>>

Older(ttl) == IF ttl = Forever THEN Forever ELSE IF ttl > 0 THEN ttl - 1 ELSE NoKey

\* The server drops a key the tick after its PTTL was 0.
Tick ==
  /\ entryTtl' = Older(entryTtl)
  /\ entry' = IF entryTtl' = NoKey THEN NoEntry
              ELSE [entry EXCEPT !.left = IF @ >= -Second THEN @ - 1 ELSE @]
  /\ cooldownTtl' = Older(cooldownTtl)
  /\ failTtl' = Older(failTtl)
  /\ failCount' = IF failTtl' = NoKey THEN 0 ELSE failCount
  /\ UNCHANGED answer

Init ==
  /\ entry = NoEntry /\ entryTtl = NoKey
  /\ cooldownTtl = NoKey
  /\ failCount = 0 /\ failTtl = NoKey
  /\ answer = Done("none")

Next ==
  \/ \E c \in Codes, ttl \in Lifetimes : Set(c, ttl)
  \/ \E a \in 0 .. MaxAttempts : Update(a)
  \/ \E n \in Cooldowns : TryAcquireCooldown(n)
  \/ \E n \in Windows : RecordFailure(n)
  \/ Get \/ ConsumeAttempt \/ Delete \/ GetCooldown \/ ClearCooldown
  \/ GetFailures \/ ClearFailures \/ Tick

Spec == Init /\ [][Next]_vars

-----------------------------------------------------------------------------
(* It keeps the contract with the grace of a key that is given whole       *)
(* seconds: less than one second.                                          *)

Contract == INSTANCE OtpStorage WITH
  Grace <- Second - 1,
  otp <- entry,
  cooldown <- cooldownTtl,
  failures <- [count |-> failCount, left |-> IF failTtl = NoKey THEN 0 ELSE failTtl]

\* The Redis storage implements IOtpStorage: every answer and every effect is one the contract
\* allows.  What can break it is the pair of lifetimes: the key's, in whole seconds and rewritten
\* by the script, and the entry's own.
ImplementsContract == Contract!Spec

=============================================================================
