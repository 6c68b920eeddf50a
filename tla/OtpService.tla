------------------------------ MODULE OtpService ------------------------------
(***************************************************************************)
(* The OTP lifecycle of src/src/server/services/otp.service.ts for one     *)
(* (tenant, recipient, purpose) scope: generate (resend is an alias of     *)
(* it), verify and consume, run concurrently against one IOtpStorage.      *)
(*                                                                         *)
(* A call is one asynchronous method invocation.  Between two awaits it    *)
(* runs without interruption, so each action is one await: the storage,    *)
(* email or audit operation, and the synchronous code up to the next one.  *)
(* Every storage operation is atomic (otp-storage.interface.ts:53-63); the *)
(* service's sequences of them are not.                                    *)
(*                                                                         *)
(* Scopes share no storage key, so one scope is enough.  A code is named   *)
(* by the generate call that drew it: two draws never collide here.  Time  *)
(* is the number of ticks a timer has left, so no clock bound is needed.   *)
(***************************************************************************)
EXTENDS Integers, FiniteSets

CONSTANTS
  Generates,             \* generate()/resend() calls, each made once
  Verifies,              \* verify() calls
  Consumes,              \* consume() calls
  NoCode,                \* not a call: "no code", "no owner"
  TtlSeconds,            \* OtpPurposeConfig.ttlSeconds, in ticks
  ResendCooldownSeconds, \* OtpPurposeConfig.resendCooldownSeconds, in ticks
  MaxAttempts,           \* OtpPurposeConfig.maxAttempts
  BadLengthCalls,        \* generate() calls of a process whose configured length is refused
  ConsumeOnVerify,       \* otp.consumeOnVerify
  SwallowErrors,         \* audit.swallowErrors
  CarriesFailures,       \* the storage has the three optional failure methods
  SharedEntries,         \* consumeAttempt returns the stored object, not a copy
  StorageFaults,         \* a storage operation may reject, applied or not
  DeliveryFaults,        \* an email may bounce, or arrive and be reported failed
  AuditFaults,           \* the log repository may reject
  Crashes,               \* the calls whose process may die between two awaits
  SlowDelivery           \* a delivery may take longer than the cooldown lasts

Calls == Generates \union Verifies \union Consumes

ASSUME CallsAssumption ==
  /\ Generates \intersect Verifies = {}
  /\ Generates \intersect Consumes = {}
  /\ Verifies \intersect Consumes = {}
  /\ NoCode \notin Calls

ASSUME ConfigAssumption ==
  /\ TtlSeconds \in Nat \ {0}
  /\ ResendCooldownSeconds \in Nat
  /\ MaxAttempts \in Nat \ {0}
  /\ BadLengthCalls \subseteq Generates
  /\ Crashes \subseteq Calls

ASSUME SwitchAssumption ==
  {ConsumeOnVerify, SwallowErrors, CarriesFailures, SharedEntries,
   StorageFaults, DeliveryFaults, AuditFaults, SlowDelivery} \subseteq BOOLEAN

VARIABLES
  otp,       \* the stored OtpEntry, NoEntry when there is none or it expired
  cooldown,  \* the resend lock: ticks left, and (history) who took it
  failures,  \* the failure counter: count and ticks left
  pc,        \* where each call is; its answer once it has settled
  guess,     \* the code a verify call was given
  attempt,   \* the number recordFailure gave a verify call, 0 before
  held,      \* the entry consumeAttempt handed to a verify call
  remaining, \* remainingAttempts of an invalid_code answer, -1 before
  \* History, read by no action of the code:
  epoch,     \* how many times the failure counter has been cleared or lapsed
  epochOf,   \* the epoch in which a verify call was counted
  compared,  \* the code a verify call's guess was compared with
  delivered, \* the codes a recipient has been sent
  retired    \* the codes that have left the storage

store == <<otp, cooldown, failures>>
locals == <<guess, attempt, held, remaining>>
history == <<epoch, epochOf, compared, delivered, retired>>
vars == <<store, pc, locals, history>>

-----------------------------------------------------------------------------
(* The values of the storage.                                              *)

NoEntry == [code |-> NoCode, left |-> 0, attempts |-> 0, validated |-> FALSE, obj |-> NoCode]
NoLock == [left |-> 0, owner |-> NoCode]
NoFailures == [count |-> 0, left |-> 0]

\* obj is the identity of the JavaScript object: the call that built it.
Entry == [code : Generates \union {NoCode}, left : Int, attempts : Nat,
          validated : BOOLEAN, obj : Calls \union {NoCode}]

NewEntry(g) ==
  [code |-> g, left |-> TtlSeconds, attempts |-> 0, validated |-> FALSE, obj |-> g]

\* A mutant of Lock: the lock is taken for one call only and never stored.
MutLockNotStored(g) == NoLock

Lock(g) == IF ResendCooldownSeconds > 0
           THEN [left |-> ResendCooldownSeconds, owner |-> g]
           ELSE NoLock

HasCode == otp.code # NoCode

\* A mutant of HasBudget: the ceiling is checked off by one.
MutBudgetOffByOne == HasCode /\ otp.attempts <= MaxAttempts

HasBudget == HasCode /\ otp.attempts < MaxAttempts

\* A mutant of OverCeiling: the count is compared as it was before the increment.
MutOverCeilingLate(n) == n - 1 > MaxAttempts

OverCeiling(n) == n > MaxAttempts

\* Leave e in the storage; an entry whose expiresAt has passed is absent to every reader.
Put(e) ==
  /\ otp' = IF e.left < 0 THEN NoEntry ELSE e
  /\ retired' = retired \union ({otp.code} \ {otp'.code, NoCode})

-----------------------------------------------------------------------------
(* How a call moves on.                                                    *)

\* "failed": generate threw after its cleanup ran; "cleanup_failed": after the cleanup itself
\* rejected; "threw": an error of the storage or of the code generator reached the caller.
Answers == {"generated", "cooldown", "failed", "cleanup_failed", "valid", "not_found",
            "max_attempts", "invalid_code", "consumed", "audit_failed", "threw", "crashed"}

Labels == Answers \union
  {"idle", "acquired", "blocked", "delivering", "releasing", "deleting", "looking",
   "counting", "consuming", "mismatch", "clearing", "finalizing", "unlocking"}

\* The labels at which the call is waiting for the storage.
StorageLabels == {"blocked", "acquired", "releasing", "deleting", "looking", "counting",
                  "consuming", "clearing", "finalizing", "unlocking"}

Running(c) == pc[c] \notin Answers \union {"idle"}

AuditThrows == AuditFaults /\ ~SwallowErrors

\* The answer r is given after its audit entry is written, or is replaced by AUDIT_LOG_FAILED.
Audited(r) == IF AuditThrows THEN {r, "audit_failed"} ELSE {r}

Go(c, labels) == \E l \in labels : pc' = [pc EXCEPT ![c] = l]

\* The storage operation has been applied; its reply may still be lost on the way back.
Settle(c, labels, error) == Go(c, IF StorageFaults THEN labels \union {error} ELSE labels)

-----------------------------------------------------------------------------
(* generate                                                                *)

GenerateAcquire(g) ==
  /\ pc[g] = "idle"
  /\ \/ /\ cooldown.left > 0
        /\ Settle(g, {"blocked"}, "threw")
        /\ UNCHANGED cooldown
     \/ /\ cooldown.left = 0
        /\ cooldown' = Lock(g)
        /\ Settle(g, {"acquired"}, "threw")
  /\ UNCHANGED <<otp, failures, locals, history>>

GenerateBlocked(g) ==
  /\ pc[g] = "blocked"
  /\ Settle(g, Audited("cooldown"), "threw")
  /\ UNCHANGED <<store, locals, history>>

\* OTP_INVALID_LENGTH is thrown before the try block that releases the cooldown.
GenerateBadLength(g) ==
  /\ pc[g] = "acquired"
  /\ g \in BadLengthCalls
  /\ Go(g, {"threw"})
  /\ UNCHANGED <<store, locals, history>>

GenerateStore(g) ==
  /\ pc[g] = "acquired"
  /\ g \notin BadLengthCalls
  /\ Put(NewEntry(g))
  /\ Settle(g, {"delivering"}, "releasing")
  /\ UNCHANGED <<cooldown, failures, locals, epoch, epochOf, compared, delivered>>

GenerateDelivered(g) ==
  /\ pc[g] = "delivering"
  /\ delivered' = delivered \union {g}
  /\ Go(g, Audited("generated"))
  /\ UNCHANGED <<store, locals, epoch, epochOf, compared, retired>>

\* The email did not go out, or it did and the caller is told otherwise: the provider timed
\* out after accepting it, or the email channel's own audit write failed and is not swallowed.
GenerateUndelivered(g) ==
  /\ pc[g] = "delivering"
  /\ \/ DeliveryFaults /\ UNCHANGED delivered
     \/ (DeliveryFaults \/ AuditThrows) /\ delivered' = delivered \union {g}
  /\ Go(g, {"releasing"})
  /\ UNCHANGED <<store, locals, epoch, epochOf, compared, retired>>

GenerateRelease(g) ==
  /\ pc[g] = "releasing"
  /\ cooldown' = NoLock
  /\ Settle(g, {"deleting"}, "cleanup_failed")
  /\ UNCHANGED <<otp, failures, locals, history>>

\* A mutant of GenerateDelete: the orphan entry is left in the storage.
MutDeleteSkipped(g) ==
  /\ pc[g] = "deleting"
  /\ Settle(g, Audited("failed"), "cleanup_failed")
  /\ UNCHANGED <<store, locals, history>>

GenerateDelete(g) ==
  /\ pc[g] = "deleting"
  /\ Put(NoEntry)
  /\ Settle(g, Audited("failed"), "cleanup_failed")
  /\ UNCHANGED <<cooldown, failures, locals, epoch, epochOf, compared, delivered>>

-----------------------------------------------------------------------------
(* verify                                                                  *)

VerifyBegin(v) ==
  /\ pc[v] = "idle"
  /\ \E g \in delivered \union {NoCode} : guess' = [guess EXCEPT ![v] = g]
  /\ Go(v, {IF CarriesFailures THEN "looking" ELSE "consuming"})
  /\ UNCHANGED <<store, attempt, held, remaining, history>>

VerifyLookup(v) ==
  /\ pc[v] = "looking"
  /\ Settle(v, IF HasCode THEN {"counting"} ELSE Audited("not_found"), "threw")
  /\ UNCHANGED <<store, locals, history>>

VerifyCount(v) ==
  /\ pc[v] = "counting"
  /\ failures' = [count |-> failures.count + 1, left |-> TtlSeconds]
  /\ attempt' = [attempt EXCEPT ![v] = failures.count + 1]
  /\ epochOf' = [epochOf EXCEPT ![v] = epoch]
  /\ Settle(v, IF OverCeiling(failures.count + 1)
               THEN Audited("max_attempts") ELSE {"consuming"}, "threw")
  /\ UNCHANGED <<otp, cooldown, guess, held, remaining, epoch, compared, delivered, retired>>

\* consumeAttempt increments the object in place: a call that holds it sees the new count.
SeenBy(w) == SharedEntries /\ held[w].obj = otp.obj

Spend(v) ==
  LET spent == [otp EXCEPT !.attempts = @ + 1] IN
  /\ otp' = spent
  /\ held' = [w \in Verifies |->
                IF w = v THEN spent
                ELSE IF SeenBy(w) THEN [held[w] EXCEPT !.attempts = spent.attempts]
                ELSE held[w]]

VerifyRefused(v) ==
  /\ pc[v] = "consuming"
  /\ ~HasBudget
  /\ Put(NoEntry)
  /\ Settle(v, Audited(IF HasCode THEN "max_attempts" ELSE "not_found"), "threw")
  /\ UNCHANGED <<cooldown, failures, locals, epoch, epochOf, compared, delivered>>

VerifyCompare(v) ==
  /\ pc[v] = "consuming"
  /\ HasBudget
  /\ Spend(v)
  /\ compared' = [compared EXCEPT ![v] = otp.code]
  /\ Settle(v, {IF guess[v] = otp.code THEN "clearing" ELSE "mismatch"}, "threw")
  /\ UNCHANGED <<cooldown, failures, guess, attempt, remaining, epoch, epochOf, delivered,
                 retired>>

Lesser(a, b) == IF a < b THEN a ELSE b

\* The entry is read again after the audit write.
VerifyMismatch(v) ==
  /\ pc[v] = "mismatch"
  /\ LET ofCode == MaxAttempts - held[v].attempts IN
     remaining' = [remaining EXCEPT ![v] =
       IF CarriesFailures THEN Lesser(ofCode, MaxAttempts - attempt[v]) ELSE ofCode]
  /\ Go(v, Audited("invalid_code"))
  /\ UNCHANGED <<store, guess, attempt, held, history>>

\* A mutant of ClearFailures: the counter is kept, also when its window has passed.
MutFailuresStay == UNCHANGED <<failures, epoch>>

\* clearFailures, by a verification that succeeded or by consume().
ClearFailures ==
  /\ failures' = NoFailures
  /\ epoch' = IF failures.count > 0 THEN epoch + 1 ELSE epoch

VerifyClear(v) ==
  /\ pc[v] = "clearing"
  /\ ClearFailures
  /\ Settle(v, {"finalizing"}, "threw")
  /\ UNCHANGED <<otp, cooldown, locals, epochOf, compared, delivered, retired>>

Validated(v) == [held[v] EXCEPT !.validated = TRUE, !.obj = v]

\* A mutant of VerifyFinalizeDelete: the entry is marked although it should be consumed.
MutFinalizeMarks(v) ==
  /\ pc[v] = "finalizing"
  /\ ConsumeOnVerify
  /\ Put(IF HasCode THEN Validated(v) ELSE NoEntry)
  /\ Settle(v, {"unlocking"}, "threw")
  /\ UNCHANGED <<cooldown, failures, locals, epoch, epochOf, compared, delivered>>

VerifyFinalizeDelete(v) ==
  /\ pc[v] = "finalizing"
  /\ ConsumeOnVerify
  /\ Put(NoEntry)
  /\ Settle(v, {"unlocking"}, "threw")
  /\ UNCHANGED <<cooldown, failures, locals, epoch, epochOf, compared, delivered>>

VerifyUnlock(v) ==
  /\ pc[v] = "unlocking"
  /\ cooldown' = NoLock
  /\ Settle(v, Audited("valid"), "threw")
  /\ UNCHANGED <<otp, failures, locals, history>>

\* A mutant of VerifyFinalizeUpdate: the write does not require an entry to be there.
MutUpdateUpserts(v) ==
  /\ pc[v] = "finalizing"
  /\ ~ConsumeOnVerify
  /\ Put(Validated(v))
  /\ Settle(v, Audited("valid"), "threw")
  /\ UNCHANGED <<cooldown, failures, locals, epoch, epochOf, compared, delivered>>

\* update writes {...entry, validated: true} over whatever entry is stored, if one is.
VerifyFinalizeUpdate(v) ==
  /\ pc[v] = "finalizing"
  /\ ~ConsumeOnVerify
  /\ Put(IF HasCode THEN Validated(v) ELSE NoEntry)
  /\ Settle(v, Audited("valid"), "threw")
  /\ UNCHANGED <<cooldown, failures, locals, epoch, epochOf, compared, delivered>>

-----------------------------------------------------------------------------
(* consume                                                                 *)

ConsumeDelete(c) ==
  /\ pc[c] = "idle"
  /\ Put(NoEntry)
  /\ Settle(c, {"unlocking"}, "threw")
  /\ UNCHANGED <<cooldown, failures, locals, epoch, epochOf, compared, delivered>>

ConsumeUnlock(c) ==
  /\ pc[c] = "unlocking"
  /\ cooldown' = NoLock
  /\ Settle(c, {"clearing"}, "threw")
  /\ UNCHANGED <<otp, failures, locals, history>>

ConsumeClear(c) ==
  /\ pc[c] = "clearing"
  /\ ClearFailures
  /\ Settle(c, {"consumed"}, "threw")
  /\ UNCHANGED <<otp, cooldown, locals, epochOf, compared, delivered, retired>>

-----------------------------------------------------------------------------
(* The environment: the storage rejects, a process dies, time passes.      *)

\* Only persistAndDeliver catches: its failure goes on to the cleanup, a failed cleanup ends it.
AfterRejection(label) ==
  IF label = "acquired" THEN "releasing"
  ELSE IF label \in {"releasing", "deleting"} THEN "cleanup_failed" ELSE "threw"

\* A storage operation rejects without having been applied.
StorageRejects(c) ==
  /\ StorageFaults
  /\ pc[c] \in StorageLabels \/ (pc[c] = "idle" /\ c \notin Verifies)
  /\ pc[c] = "acquired" => c \notin BadLengthCalls
  /\ Go(c, {AfterRejection(pc[c])})
  /\ UNCHANGED <<store, locals, history>>

Crash(c) ==
  /\ c \in Crashes
  /\ Running(c)
  /\ Go(c, {"crashed"})
  /\ UNCHANGED <<store, locals, history>>

Aged(e) == IF e # NoEntry /\ e.left >= 0 THEN [e EXCEPT !.left = @ - 1] ELSE e

\* A mutant of LapsedLock: the lock is stored without a lifetime.
MutLockNeverLapses == cooldown

\* A mutant of LapsedLock: the lock is not given up when its last tick has gone.
MutLockGoesNegative == [cooldown EXCEPT !.left = @ - 1]

LapsedLock == IF cooldown.left > 1 THEN [cooldown EXCEPT !.left = @ - 1] ELSE NoLock

\* One tick brings every timer nearer to its end: a lock and a failure counter end when no tick
\* is left (expiry > now, expiresAt <= now), an entry one tick later (expiresAt < now).
Tick ==
  /\ cooldown.left = 1 => SlowDelivery \/ ~Running(cooldown.owner)
  /\ Put(Aged(otp))
  /\ cooldown' = LapsedLock
  /\ IF failures.left > 1
     THEN failures' = [failures EXCEPT !.left = @ - 1] /\ UNCHANGED epoch
     ELSE ClearFailures
  /\ held' = [v \in Verifies |-> Aged(held[v])]
  /\ UNCHANGED <<pc, guess, attempt, remaining, epochOf, compared, delivered>>

-----------------------------------------------------------------------------

Init ==
  /\ otp = NoEntry
  /\ cooldown = NoLock
  /\ failures = NoFailures
  /\ pc = [c \in Calls |-> "idle"]
  /\ guess = [v \in Verifies |-> NoCode]
  /\ attempt = [v \in Verifies |-> 0]
  /\ held = [v \in Verifies |-> NoEntry]
  /\ remaining = [v \in Verifies |-> -1]
  /\ epoch = 0
  /\ epochOf = [v \in Verifies |-> 0]
  /\ compared = [v \in Verifies |-> NoCode]
  /\ delivered = {}
  /\ retired = {}

Generate(g) ==
  \/ GenerateAcquire(g) \/ GenerateBlocked(g) \/ GenerateBadLength(g) \/ GenerateStore(g)
  \/ GenerateDelivered(g) \/ GenerateUndelivered(g) \/ GenerateRelease(g) \/ GenerateDelete(g)

Verify(v) ==
  \/ VerifyBegin(v) \/ VerifyLookup(v) \/ VerifyCount(v) \/ VerifyRefused(v)
  \/ VerifyCompare(v) \/ VerifyMismatch(v) \/ VerifyClear(v) \/ VerifyFinalizeDelete(v)
  \/ VerifyUnlock(v) \/ VerifyFinalizeUpdate(v)

Consume(c) == ConsumeDelete(c) \/ ConsumeUnlock(c) \/ ConsumeClear(c)

Next ==
  \/ \E g \in Generates : Generate(g)
  \/ \E v \in Verifies : Verify(v)
  \/ \E c \in Consumes : Consume(c)
  \/ \E c \in Calls : StorageRejects(c) \/ Crash(c)
  \/ Tick

Spec == Init /\ [][Next]_vars

\* The event loop runs every call on, and clocks advance; faults need not happen.
FairSpec ==
  /\ Spec
  /\ WF_vars(Tick)
  /\ \A g \in Generates : WF_vars(Generate(g))
  /\ \A v \in Verifies : WF_vars(Verify(v))
  /\ \A c \in Consumes : WF_vars(Consume(c))

-----------------------------------------------------------------------------
(* The storage as the calls see it, against what IOtpStorage promises.     *)

Storage(answer) == INSTANCE OtpStorage WITH
  Codes <- Generates, Lifetimes <- {TtlSeconds}, Cooldowns <- {ResendCooldownSeconds},
  Windows <- {TtlSeconds}, Second <- 1, Grace <- 0,
  otp <- [code |-> otp.code, left |-> otp.left, attempts |-> otp.attempts,
          validated |-> otp.validated],
  cooldown <- IF cooldown.left = 0 THEN -1 ELSE cooldown.left

\* What the operations that change the storage answer.
Replies ==
  LET Reply(op, status, code, number) ==
        [op |-> op, status |-> status, code |-> code, number |-> number]
  IN  {Reply(op, "done", NoCode, 0) :
         op \in {"set", "update", "delete", "clearCooldown", "clearFailures"}}
      \union {Reply("consumeAttempt", status, NoCode, 0) : status \in {"not_found", "max_attempts"}}
      \union {Reply("tryAcquireCooldown", "acquired", NoCode, 0),
              Reply("consumeAttempt", "ok", otp.code, otp.attempts + 1),
              Reply("recordFailure", "done", NoCode, failures.count + 1)}

-----------------------------------------------------------------------------
(* Properties.                                                             *)

\* Every variable has its type.
TypeOK ==
  /\ otp \in Entry
  /\ cooldown \in [left : Nat, owner : Generates \union {NoCode}]
  /\ failures \in [count : Nat, left : Nat]
  /\ pc \in [Calls -> Labels]
  /\ guess \in [Verifies -> Generates \union {NoCode}]
  /\ attempt \in [Verifies -> Nat]
  /\ held \in [Verifies -> Entry]
  /\ remaining \in [Verifies -> Int]
  /\ epoch \in Nat
  /\ epochOf \in [Verifies -> Nat]
  /\ compared \in [Verifies -> Generates \union {NoCode}]
  /\ delivered \subseteq Generates
  /\ retired \subseteq Generates

\* No entry, stored or in a verify call's hands, has spent more than the ceiling, and the
\* remainingAttempts of an invalid_code answer, computed after the audit write from an entry
\* other calls may share, is below the ceiling and never negative (otp.service.ts:243-252).
RemainingInRange ==
  /\ otp.attempts <= MaxAttempts
  /\ \A v \in Verifies :
       /\ held[v].attempts <= MaxAttempts
       /\ pc[v] = "invalid_code" => remaining[v] \in 0 .. MaxAttempts - 1

ComparedIn(e) == {v \in Verifies : compared[v] # NoCode /\ epochOf[v] = e}

\* Between two resets of the failure counter, whatever codes are issued meanwhile and however
\* the guesses overlap, at most MaxAttempts guesses are compared with a code (verify counts the
\* attempt before it compares: otp.service.ts:214-231).
AttemptBudget ==
  CarriesFailures => \A e \in 0 .. epoch : Cardinality(ComparedIn(e)) <= MaxAttempts

ComparedWith(g) == {v \in Verifies : compared[v] = g}

\* No code is compared with more than MaxAttempts guesses, with or without a failure counter
\* (consumeAttempt, and every path by which verify writes an entry back).
CodeBudget == \A g \in Generates : Cardinality(ComparedWith(g)) <= MaxAttempts

\* A code that was consumed, superseded, exhausted, released or expired never comes back
\* (verify's write-back of a validated entry races consume and generate).
RetiredStaysRetired == otp.code \notin retired

\* A generate that reports its delivery failed has left neither its code nor its lock
\* behind (persistAndDeliver, failedOutgoing: otp.service.ts:336-397).
FailedLeavesNothing ==
  \A g \in Generates : pc[g] = "failed" => otp.code # g /\ cooldown.owner # g

Issuing == {g \in Generates : pc[g] \in {"acquired", "delivering", "releasing"}}

\* Two resends are never both between taking the lock and giving it back
\* (acquireCooldownOrThrow; README: "two concurrent resends cannot both win").
ResendsExclusive == Cardinality(Issuing) <= 1

\* While the lock of a generate that succeeded holds, its code is in the storage: a recipient
\* is not "locked out behind a cooldown with no live code" (otp.service.ts:336-342).  Stated
\* for runs in which no call ends a code's life and none expires.
LockedOutHasCode ==
  \A g \in Generates : pc[g] = "generated" /\ cooldown.owner = g => otp.code = g

\* Nothing brings an ended code back into an empty store: the entry verify writes back when it
\* does not delete needs one to be there (update after expiry, refusal or consume).
NeverRevived == [][~HasCode /\ HasCode' => otp'.code \notin retired]_vars

\* Where a verified code is consumed, what a step changes in the storage is one operation of
\* IOtpStorage on what is stored at that moment, whatever the call read earlier, or time: with
\* this, what is proved of a storage against OtpStorage holds for the service that uses it.
UsesContract == [][\E answer \in Replies : Storage(answer)!Next]_store

\* A lock or a lockout is never for good, whoever crashed holding it: the cooldown lapses, and
\* a failure counter that is left alone lapses too.
LocksLapse ==
  /\ (cooldown.left > 0) ~> (cooldown.left = 0)
  /\ (failures.count > MaxAttempts) ~> (failures.count = 0)

=============================================================================
