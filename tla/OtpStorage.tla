------------------------------ MODULE OtpStorage ------------------------------
(***************************************************************************)
(* What an IOtpStorage promises for one (tenant, recipient, purpose) scope *)
(* (src/src/server/interfaces/otp-storage.interface.ts): a code with an    *)
(* attempt counter, a resend lock and a failure counter, each with a       *)
(* lifetime, and operations that each take one indivisible step.           *)
(*                                                                         *)
(* A lifetime is the number of ticks left.  A storage has some freedom     *)
(* when one ends: a lock or a counter may be gone or still there in the    *)
(* tick in which none is left, and an entry that has expired may still be  *)
(* read for Grace ticks (storages expire in whole seconds), but is never   *)
(* given an attempt.                                                       *)
(***************************************************************************)
EXTENDS OtpEntries

CONSTANT Grace  \* ticks for which an expired entry may still be read

VARIABLES
  otp,       \* the stored entry, or NoEntry
  cooldown,  \* ticks left to the lock, -1 when there is none
  failures,  \* the failure counter, or NoFailures
  answer     \* what the last operation returned

vars == <<otp, cooldown, failures, answer>>

NoLock == -1
NoFailures == [count |-> 0, left |-> 0]

-----------------------------------------------------------------------------

Set(c, ttl) ==
  /\ otp' = Fresh(c, ttl)
  /\ answer' = Done("set")
  /\ UNCHANGED <<cooldown, failures>>

Get ==
  /\ answer' = Reply("get", "done", otp.code, otp.attempts)
  /\ UNCHANGED <<otp, cooldown, failures>>

ConsumeAttempt ==
  /\ \/ /\ otp = NoEntry \/ otp.left < 0
        /\ otp' = NoEntry
        /\ answer' = Reply("consumeAttempt", "not_found", NoCode, 0)
     \/ /\ otp # NoEntry /\ otp.left >= 0 /\ otp.attempts >= MaxAttempts
        /\ otp' = NoEntry
        /\ answer' = Reply("consumeAttempt", "max_attempts", NoCode, 0)
     \/ /\ otp # NoEntry /\ otp.left >= 0 /\ otp.attempts < MaxAttempts
        /\ otp' = [otp EXCEPT !.attempts = @ + 1]
        /\ answer' = Reply("consumeAttempt", "ok", otp.code, otp'.attempts)
  /\ UNCHANGED <<cooldown, failures>>

Update(a) ==
  /\ otp' = IF otp = NoEntry THEN NoEntry ELSE Marked(otp, a)
  /\ answer' = Done("update")
  /\ UNCHANGED <<cooldown, failures>>

Delete ==
  /\ otp' = NoEntry
  /\ answer' = Done("delete")
  /\ UNCHANGED <<cooldown, failures>>

\* A lock that is there is respected; where no cooldown is configured it may be dropped instead.
TryAcquireCooldown(n) ==
  /\ \/ /\ cooldown # NoLock
        /\ answer' = Reply("tryAcquireCooldown", "refused", NoCode, 0)
        /\ UNCHANGED cooldown
     \/ /\ cooldown = NoLock \/ n = 0
        /\ answer' = Reply("tryAcquireCooldown", "acquired", NoCode, 0)
        /\ cooldown' = IF n = 0 THEN NoLock ELSE n * Second
  /\ UNCHANGED <<otp, failures>>

\* The whole seconds that l ticks are, rounded one way or the other.
Seconds(l) ==
  IF l = NoLock THEN {0}
  ELSE {n \in 0 .. l : l - Second < n * Second /\ n * Second < l + Second}

GetCooldown ==
  /\ \E n \in Seconds(cooldown) : answer' = Reply("getCooldown", "done", NoCode, n)
  /\ UNCHANGED <<otp, cooldown, failures>>

ClearCooldown ==
  /\ cooldown' = NoLock
  /\ answer' = Done("clearCooldown")
  /\ UNCHANGED <<otp, failures>>

RecordFailure(n) ==
  /\ failures' = [count |-> failures.count + 1, left |-> n * Second]
  /\ answer' = Reply("recordFailure", "done", NoCode, failures.count + 1)
  /\ UNCHANGED <<otp, cooldown>>

GetFailures ==
  /\ answer' = Reply("getFailures", "done", NoCode, failures.count)
  /\ UNCHANGED <<otp, cooldown, failures>>

ClearFailures ==
  /\ failures' = NoFailures
  /\ answer' = Done("clearFailures")
  /\ UNCHANGED <<otp, cooldown>>

\* What may be left of an entry, of a lock and of a counter after a tick.
AfterTick(e) ==
  IF e = NoEntry THEN {NoEntry}
  ELSE LET older == [e EXCEPT !.left = @ - 1] IN
       (IF older.left >= -Grace THEN {older} ELSE {}) \union
       (IF older.left < 0 THEN {NoEntry} ELSE {})

LockAfterTick(l) ==
  (IF l > 0 THEN {l - 1} ELSE {}) \union (IF l <= 1 THEN {NoLock} ELSE {})

FailuresAfterTick(f) ==
  (IF f.left > 0 THEN {[f EXCEPT !.left = @ - 1]} ELSE {}) \union
  (IF f.left <= 1 THEN {NoFailures} ELSE {})

Tick ==
  /\ otp' \in AfterTick(otp)
  /\ cooldown' \in LockAfterTick(cooldown)
  /\ failures' \in FailuresAfterTick(failures)
  /\ UNCHANGED answer

Init ==
  /\ otp = NoEntry
  /\ cooldown = NoLock
  /\ failures = NoFailures
  /\ answer = Done("none")

Next ==
  \/ \E c \in Codes, ttl \in Lifetimes : Set(c, ttl)
  \/ \E a \in 0 .. MaxAttempts : Update(a)
  \/ \E n \in Cooldowns : TryAcquireCooldown(n)
  \/ \E n \in Windows : RecordFailure(n)
  \/ Get \/ ConsumeAttempt \/ Delete \/ GetCooldown \/ ClearCooldown
  \/ GetFailures \/ ClearFailures \/ Tick

Spec == Init /\ [][Next]_vars

=============================================================================
