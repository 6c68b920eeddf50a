-------------------------- MODULE InMemoryOtpStorage --------------------------
(***************************************************************************)
(* src/src/server/providers/in-memory-otp.storage.ts for one scope.  Three *)
(* Maps keep what is stored until a reader finds that its time is up: an   *)
(* entry, lock or counter that has lapsed is still there, and each         *)
(* operation has to tell.  A Map's value is kept with the ticks left to    *)
(* its expiry, which go no lower than the first at which it has lapsed.    *)
(***************************************************************************)
EXTENDS OtpEntries

VARIABLES
  store,      \* the OtpEntry under the scope's key, or NoEntry; left = expiresAt - now
  cooldowns,  \* the lock's expiry less now, NoLock when the key is absent
  counter,    \* the failure counter, or NoCounter
  answer

vars == <<store, cooldowns, counter, answer>>

NoLock == -1
NoCounter == [count |-> 0, left |-> 0]

\* A mutant of Expired: expiresAt <= now.
MutExpiredEarly == store # NoEntry /\ store.left <= 0

\* expiresAt < now
Expired == store # NoEntry /\ store.left < 0

Exhausted == store.attempts >= MaxAttempts

\* expiry > now
Locked == cooldowns > 0

\* liveFailures: a counter lapses when expiresAt <= now.
LiveFailures == IF counter.left <= 0 THEN 0 ELSE counter.count

-----------------------------------------------------------------------------

Set(c, ttl) ==
  /\ store' = Fresh(c, ttl)
  /\ answer' = Done("set")
  /\ UNCHANGED <<cooldowns, counter>>

\* Evicts an expired entry.
Get ==
  /\ store' = IF Expired THEN NoEntry ELSE store
  /\ answer' = Reply("get", "done", store'.code, store'.attempts)
  /\ UNCHANGED <<cooldowns, counter>>

ConsumeAttempt ==
  /\ \/ /\ store = NoEntry \/ Expired
        /\ store' = NoEntry
        /\ answer' = Reply("consumeAttempt", "not_found", NoCode, 0)
     \/ /\ store # NoEntry /\ ~Expired /\ Exhausted
        /\ store' = NoEntry
        /\ answer' = Reply("consumeAttempt", "max_attempts", NoCode, 0)
     \/ /\ store # NoEntry /\ ~Expired /\ ~Exhausted
        /\ store' = [store EXCEPT !.attempts = @ + 1]
        /\ answer' = Reply("consumeAttempt", "ok", store.code, store'.attempts)
  /\ UNCHANGED <<cooldowns, counter>>

\* Replaces whatever is under the key, an expired entry too; does nothing when there is none.
Update(a) ==
  /\ store' = IF store = NoEntry THEN NoEntry
              ELSE Marked(store, a)
  /\ answer' = Done("update")
  /\ UNCHANGED <<cooldowns, counter>>

Delete ==
  /\ store' = NoEntry
  /\ answer' = Done("delete")
  /\ UNCHANGED <<cooldowns, counter>>

TryAcquireCooldown(n) ==
  /\ IF Locked
     THEN UNCHANGED cooldowns /\ answer' = Reply("tryAcquireCooldown", "refused", NoCode, 0)
     ELSE cooldowns' = n * Second /\ answer' = Reply("tryAcquireCooldown", "acquired", NoCode, 0)
  /\ UNCHANGED <<store, counter>>

\* Rounds up; evicts a lock with no second left.
GetCooldown ==
  /\ cooldowns' = IF Locked THEN cooldowns ELSE NoLock
  /\ answer' = Reply("getCooldown", "done", NoCode,
            IF Locked THEN (cooldowns + Second - 1) \div Second ELSE 0)
  /\ UNCHANGED <<store, counter>>

ClearCooldown ==
  /\ cooldowns' = NoLock
  /\ answer' = Done("clearCooldown")
  /\ UNCHANGED <<store, counter>>

RecordFailure(n) ==
  /\ counter' = [count |-> LiveFailures + 1, left |-> n * Second]
  /\ answer' = Reply("recordFailure", "done", NoCode, LiveFailures + 1)
  /\ UNCHANGED <<store, cooldowns>>

\* Evicts a lapsed counter.
GetFailures ==
  /\ counter' = IF counter.left <= 0 THEN NoCounter ELSE counter
  /\ answer' = Reply("getFailures", "done", NoCode, LiveFailures)
  /\ UNCHANGED <<store, cooldowns>>

ClearFailures ==
  /\ counter' = NoCounter
  /\ answer' = Done("clearFailures")
  /\ UNCHANGED <<store, cooldowns>>

\* Nothing runs: only the clock moves.
Tick ==
  /\ store' = IF store # NoEntry /\ store.left >= 0 THEN [store EXCEPT !.left = @ - 1] ELSE store
  /\ cooldowns' = IF Locked THEN cooldowns - 1 ELSE cooldowns
  /\ counter' = IF counter.left > 0 THEN [counter EXCEPT !.left = @ - 1] ELSE counter
  /\ UNCHANGED answer

Init ==
  /\ store = NoEntry
  /\ cooldowns = NoLock
  /\ counter = NoCounter
  /\ answer = Done("none")

Next ==
  \/ \E c \in Codes, ttl \in Lifetimes : Set(c, ttl)
  \/ \E a \in 0 .. MaxAttempts : Update(a)
  \/ \E n \in Cooldowns : TryAcquireCooldown(n)
  \/ \E n \in Windows : RecordFailure(n)
  \/ Get \/ ConsumeAttempt \/ Delete \/ GetCooldown \/ ClearCooldown
  \/ GetFailures \/ ClearFailures \/ Tick

Spec == Init /\ [][Next]_vars

-----------------------------------------------------------------------------
(* It keeps the contract without any grace: what has lapsed is not there.  *)

Contract == INSTANCE OtpStorage WITH
  Grace <- 0,
  otp <- IF Expired THEN NoEntry ELSE store,
  cooldown <- IF Locked THEN cooldowns ELSE NoLock,
  failures <- IF counter.left > 0 THEN counter ELSE NoCounter

\* The in-memory storage implements IOtpStorage: every answer and every effect of every operation
\* is one the contract allows, however long a lapsed entry, lock or counter stays in its Map.
ImplementsContract == Contract!Spec

=============================================================================
