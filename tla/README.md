# TLA+ model of @bymax-one/nest-notification

This directory holds a formal model of the library under `src/src`: TLA+ modules translated
from the TypeScript source, TLC configurations that check them on small instances, and
theorems about them that the TLAPS proof system checks for every instance.

## 1. The system

The library sends email and runs one-time-password flows for NestJS applications. A host
application calls `NotificationService`, `EmailService` and `OtpService`; these call pluggable
providers (email transport, OTP storage, template renderer, audit repository). All server code
runs on one Node.js event loop per process: between two `await`s it is not interrupted, at every
`await` any other call may run. Several processes may share one Redis storage.

| Component | Source (`src/src/...`) | State | Operations |
|---|---|---|---|
| OTP lifecycle | `server/services/otp.service.ts` | none of its own: the storage's entry, lock and failure counter | `generate` (= `resend`), `verify`, `consume`, `getStatus` |
| OTP storage contract | `server/interfaces/otp-storage.interface.ts`, `testing/otp-storage-contract*.ts` | entry, cooldown, failure counter per (tenant, recipient, purpose) | `set`, `get`, `consumeAttempt`, `update`, `delete`, `tryAcquireCooldown`, `getCooldown`, `clearCooldown`, `recordFailure`, `getFailures`, `clearFailures` |
| In-memory storage | `server/providers/in-memory-otp.storage.ts` | three `Map`s, entries stay until a reader finds them expired | the contract |
| Redis storage | `server/providers/redis-otp.storage.ts` | three Redis keys with a key lifetime each, next to the entry's own `expiresAt` | the contract, two of its operations as Lua scripts |
| Email transports | `server/providers/smtp-email.provider.ts`, `resend-email.provider.ts`, `no-op-email.provider.ts`, `utils/load-optional-peer.ts` | the memoised client or transport promise | `send`, `isConfigured` |
| Email service | `server/services/email.service.ts` | none | `send`, `sendTemplate`, audit of each delivery |
| Dispatch facade | `server/services/notification.service.ts` | none | `dispatch`, `getEmail`, `getOtp`, `getEnabledChannels` |
| Audit | `server/interceptors/notification-audit.interceptor.ts`, `utils/audit-write-warning.ts` | last warning time and the number suppressed | `intercept`, `warn` |
| Redaction | `server/utils/redact.ts`, `utils/delivery-status.ts` | none (pure, on error chains) | `redactValues`, `scrubValuesFromErrorChain`, `extractDeliveryStatus` |
| Templates | `server/providers/default-template-renderer.ts` | the templates it was given, read only | `render`, `exists` |
| Module wiring and options | `server/bymax-notification.module.ts`, `server/config/*` | the container's tokens, the resolved options | `forRoot`, `forRootAsync`, `onModuleInit` |
| React hooks | `react/useOtpInput.ts`, `react/useOtpCountdown.ts` | slot values, focus, deferred completion; remaining seconds | typing, pasting, `reset`; ticking |

Interactions: `OtpService.generate` takes the storage's cooldown, stores the entry, sends the mail
through `EmailService.sendTemplate`, which renders, sends through the provider and writes its own
audit entry; each of these steps is awaited and each may fail. `verify` and `consume` of the same
scope run in between. The storage operations are atomic, the services' sequences of them are not.
The provider creates its client on the first send, which any number of sends may race for. Before any of
it the Nest container makes the tokens that one of two registration forms asked for, in an order of its own.

What is hard here, and what the properties below are for: overlapping `generate`, `verify` and
`consume` calls of one scope; a storage, mail or audit operation that rejects, or applies and loses
its reply; a process that dies between two steps; entries, locks and counters that expire while a
call is under way; the cleanup after a failed delivery; lazy initialisation raced by several sends; options that arrive
late; error objects that resist being cleaned; React updates that are queued while others are made.
`hazards` in `PROJECT.json` lists them at their source lines, each with the properties that cover it.

What makes each component correct, in short:

- Wiring: both forms wire the same services, and nothing is made from options validation refuses.
- OTP lifecycle: a guess costs an attempt before it is compared, so overlapping guesses cannot
  exceed the ceiling; an ended code stays ended; a failed issue leaves nothing behind; a lock ends.
- Storages: they answer like the contract of `IOtpStorage`, and like each other.
- Transports: one client, however many first sends race, and no failed start that stays cached.
- Email service, audit: the trail tells what happened, once per layer; a swallowed audit failure
  never reaches the caller and is always reported.
- Redaction: no declared secret and no echo of a body leaves in a text or an error chain, nothing
  else is lost, and the chain keeps its shape; of a text that is withheld only a reply code gets out.
- Hooks: what is shown complete was submitted; an expiry is reported exactly once.

## 2. The modules

```
OtpService <- MCOtpService            OtpEntries <- OtpStorage            the contract
    ^      \ INSTANCE (each step)         ^  ^         ^ INSTANCE (refinement)
    |       +-> OtpStorage                |  +-- InMemoryOtpStorage <- InMemoryOtpStorageProofs
OtpServiceProofs                          |  +-- RedisOtpStorage    <- RedisOtpStorageProofs
                                          +----- OtpStorages        <- OtpStoragesProofs

LazyPeer <- SmtpEmailProvider --+-- Startup <- MCStartup
            NotificationModule -+      ^------ StartupProofs

AuditWriteWarning <- EmailDispatch <- MCEmailDispatch
                          ^---------- EmailDispatchProofs

OtpInput, OtpCountdown <- OtpForm <- OtpFormProofs

TextScrub, ErrorScrub, WithheldText <- Redaction <- MCRedaction
                                           ^------- RedactionProofs
```

`A <- B`: B extends A. An MC module holds the symmetry sets and input sets of a run, nothing else.
Every module states at its head which file it models. In all of them an action is the code between
two points at which something else may run: an `await` in the server code, a token the container makes,
a React render, effect, event or timer in the hooks, one iteration of a loop in the redaction functions.
Definitions named `Mut...` are deliberate mistakes; no specification uses them. Each property is
checked to fail when one of them replaces the definition it is a mutant of.

### OtpService

One scope (tenant, recipient, purpose); scopes share no storage key. Each call of `generate` (and
its alias `resend`), `verify` and `consume` is a value, has a place in `pc`, and is made once.

| Variable | Code |
|---|---|
| `otp`, `cooldown`, `failures` | what the storage holds; lifetimes are ticks left |
| `pc` | the `await` a call is at, or its answer |
| `guess`, `attempt`, `held`, `remaining` | the arguments and locals of a `verify` |
| `epoch`, `epochOf`, `compared`, `delivered`, `retired` | history: read by no guard of a handler |

`generate` is `GenerateAcquire`, `GenerateBlocked`, `GenerateBadLength`, `GenerateStore`,
`GenerateDelivered`/`GenerateUndelivered`, `GenerateRelease`, `GenerateDelete`; `verify` is
`VerifyBegin`, `VerifyCount`, `VerifyRefused`, `VerifyLookup`, `VerifyCompare`, `VerifyMismatch`,
`VerifyClear` and the finalize steps for both values of `consumeOnVerify`; `consume` is
`ConsumeDelete`, `ConsumeUnlock`, `ConsumeClear`. Around them: `StorageRejects` (an operation that
was not applied, while `Settle` gives one that was applied and lost its reply), `Crash`, `Tick`.
Eight switches say which faults a run has and how the service is configured; `Crashes` is the set of
calls whose process may die.

Choices: a code is named by the call that drew it, so two draws never collide. `SharedEntries` is a
storage that hands out the object it keeps, as the in-memory one does and Redis does not: what one call
counts, another that holds the entry sees.

`Storage(answer)` is the contract on the same three variables. `UsesContract` says that each step of the
service changes them by one of its operations: the service and a storage that implements the contract
fit together, and a write of something read earlier would show.

### OtpStorage, InMemoryOtpStorage, RedisOtpStorage, OtpStorages

`OtpStorage` is the abstract specification: eleven atomic operations on an entry, a lock and a
counter, with the freedom a storage has when a lifetime ends. `Grace` is how long an expired entry may
still be read; it is never given an attempt. The two storages have the code's own state: three `Map`s
from which nothing is evicted until a reader finds it lapsed, and three Redis keys whose lifetime is
not the entry's `expiresAt`. Each instantiates `OtpStorage` with a refinement mapping
(`ImplementsContract`). `OtpStorages` gives both the same calls and the same clock.

Choices: `update` is given a copy of what is stored with any count up to the ceiling: a caller may have
read it a while ago. (That it may also be an entry of an older code is `OtpService`'s finding 2.) `tryAcquireCooldown(0)` leaves a lock alone in memory and deletes it in Redis, and
`getCooldown` rounds up in one and to the nearest in the other: the contract allows both.

### LazyPeer, SmtpEmailProvider

`LazyPeer` is the `promise ??= create()` of both providers: the promise is cached, not the client; a
number stands for each promise. `SmtpEmailProvider` adds the refusals before it. `Configure` is an
application that completes the options object it passed to the constructor; the provider reads it on
every use.

### NotificationModule, Startup

| Variable | Code |
|---|---|
| `form`, `options` | `forRoot` or `forRootAsync`, and what was passed to it or its factory |
| `usable` | what the provider and the storage answer to `isConfigured()` |
| `phase` | called, awaiting the factory, building, up; or refused, failed |
| `graph` | what each injection token resolved to |
| `warnings` | how often each startup line was logged |

`ForRoot` validates at the call, `ForRootAsync` and `FactorySettled` later; `Make` and `Throw` are the
container, which takes the registered tokens in any order in which those a token injects come first;
`ModuleInit` is `onModuleInit`. The data is abstracted to what wiring tells apart: a part is missing, an
instance, a class without declared constructor parameters (which both forms construct) or one with them
(which `forRootAsync` refuses and `forRoot` leaves to the container). What validation refuses is kept by
section, so that a malformed section that is switched off passes.

`Startup` composes it with the SMTP provider: an application that is up sends through
`NotificationService`, which lets a send pass only for an enabled channel, or by the provider itself,
which is public; the options of the provider may be completed late.

Choice: the application does not change its options object between the validation and the making of the
tokens (see section 4).

### AuditWriteWarning, EmailDispatch

A dispatch passes the interceptor (if its handler is wrapped), the facade and the email service, each
of which writes its own audit entry. Repository, renderer and provider are the application's: they may
reject, and a repository may have written the entry it rejects. `swallowErrors` is chosen at the start.
The rate limiter of the warnings is shared per channel and its wall clock may step back. The initial
`last` may be an earlier warning. The OTP service's own entries are not followed here; an OTP call is
one step that answers or throws.

### TextScrub, ErrorScrub, WithheldText, Redaction

`TextScrub` is what `scrubTransportError` and `scrubSendError` do to a provider's text: the loop of
`collectEchoedExcerpts` for each body, then the loop of `redactValues`, one span at a time in the order
of their starts (spans with equal starts in any order: the code's depends on the order of the values).
`ErrorScrub` is `walkChain`, `gatherRedactionValues` and both passes of `scrubValuesFromErrorChain`,
link by link, then a second scrub as `failedOutgoing` of the OTP service does it, with or without the
error of a failed cleanup in front. A field is the set of secrets it holds; an object may refuse a
write, ignore it, throw on it, or throw when read. `WithheldText` is the other way of an email: the
caller forbade the provider's text, and the grammar of `delivery-status.ts` reads reply codes from it,
in `SmtpEmailProvider.dispatch` and in `EmailService.failWithoutProviderText`, up to the log line, the
audit entry and the exception that publish them. A text is its runs of digits and dots. `Redaction` puts
the three side by side: a behaviour exercises one of them.

Choices: the `NotificationException` in which the email service wraps the chain is left out: it
accepts every write. The deep clone of a `NotificationException`'s response is one field that is
redacted; a property that an ordinary object refuses to delete reports so. What throws while extra
properties are stripped sends a link to the copy and does not end the chain; a throw anywhere else ends
it. A value at the end of a chain that is no error has what `describeError` tells of it (its message, or
what it prints), what `String()` prints, and what its other properties hold: the walk reads the first,
flattening keeps the second, and whoever catches the raw error sees all three. It is assumed that such a value
prints nothing of the body that its message does not tell. A getter for the attached reply code may
answer differently on a second read.

### OtpInput, OtpCountdown, OtpForm

React is modelled by what the hooks rely on: updates are queued and take effect at the next render,
effects run after the render that made them due and before the next one, microtasks run in order,
intervals are never early and may be late. A handler sees the values of the render it was made in, the
imperative setter sees `valuesRef`. `OtpForm` is a component with both hooks, whose renders and effects
they share. Characters are those that passed the filter; focus is left out.

## 3. What TLC checks

| Run | Configuration | Shows | States |
|---|---|---|---|
| `otp_budget` | 3 generates (one with a refused code length), 3 verifies, ceiling 2, shared entries | `AttemptBudget`, `CodeBudget`, `RemainingInRange`, `TypeOK` | 0.8 M |
| `otp_marked` | 2 generates, 2 verifies, ceiling 1, `consumeOnVerify` off, shared entries, bounces, one generate may crash, fairness | `ResendsExclusive`, `NeverRevived`, `LocksLapse` | 0.5 M |
| `otp_faults` | lost replies, bounces, rejecting audit that is not swallowed, crashes | `RetiredStaysRetired`, `FailedLeavesNothing`, `UsesContract` | 0.4 M |
| `otp_release_order` | two generates, one bounces, no delivery outlasts the lock | violates `LockedOutHasCode` (finding 1) | |
| `otp_superseded` | `consumeOnVerify` off, two generates, one verify | violates `RetiredStaysRetired` (finding 2) | |
| `otp_storages` | both storages, all eleven operations, two codes | `MemoryImplements`, `RedisImplements`, `ConsumeAgrees` | 0.3 M |
| `redis_last_instant` | the same with an attempt at PTTL 0 | violates `ReadsApplyTtl` (finding 3) | |
| `smtp_lazy_start` | both forms, every way to give the parts, refused options; then four sends, three starts | `FormsAgree`, `NothingBuiltUnvalidated`, `OneTransport`, `ImportRetried` | 1.2 M |
| `smtp_incomplete` | the provider alone | violates `InitRetried` (finding 4) | |
| `email_dispatch` | two dispatches through the interceptor, clock steps back once | `TrailIsTrue`, `RecordedOnce`, `AuditNeverBreaks`, `FailuresAccountedFor`, `NoLongSilence` | 1.2 M |
| `otp_form` | both hooks, lengths 1 and 2, two expiries | `SubmittedIsShown`, `SlotsFollowLength`, `SettersCompose`, `ExpiredOnce`, `NoStaleCall`, `NeverForgotten` | 0.3 M |
| `redaction` | texts up to 4 characters; chains of up to 2 errors, a text or an object at their end, and a cleanup error; withheld texts | `NoSecretSurvives`, `NoEchoSurvives`, `OnlySecretsRemoved`, `ThrownIsClean`, `NoEchoLeaves`, `NeverHalfClean`, `ShapeKept`, `SameObjects`, `NoSecretPublished`, `OneStatusOrSilence`, `Returns`, `TypeOK` | 0.45 M |

Each property is stated in words above its definition, with the line of the code it is about.

### Bounds, and why they are enough

- OTP: a race needs one call that reads and one that writes between two of its steps. Two generates and
  one verify give every superseding; three verifies with a ceiling of two give one guess too many; in
  `otp_budget` a third generate has a refused length, so that a lock without a code occurs. Two verifies
  with a ceiling of one (`otp_marked`) count past it: the second is refused and renews the counter.
  Lifetimes of one or two ticks let an entry, a lock and the counter lapse at every point of a call.
  Each call is made once, which bounds every counter.
- Storages: two codes tell a stale entry from a new one; `Second = 3` with lifetimes 1 and 3 gives keys
  that outlive their entry and keys that do not; `MaxFailures = 2` bounds the counter only.
- Start: `Accepted` in `MCStartup` is every combination of parts that validation passes, with one
  representative where the wiring treats two alike (renderer and audit log: given or not; a storage:
  instance, or class with parameters); `Doubtful` crosses every reason for a refusal with sections that
  are on and off. Two of the four sends bypass the facade.
- Transports: with `MaxInits = 3` a start can fail, be repeated, fail again and succeed; a fourth would
  meet the states of the third.
- Email: two dispatches are what one limiter needs to be raced for; `Interval = 2` and `MaxTime = 3` let
  an interval pass, and one step back makes an elapsed time negative.
- Form: lengths 1 and 2 grow and shrink the slots; one accepted character, for the properties ask only
  whether a slot is empty or which write it came from; two expiries, one of which replaces the other;
  `MaxDeferred = 1` completion in flight beside the one being made.
- Redaction: overlaps, nesting, adjacency and repetition need two values of up to two characters and a
  text of four; `MinEcho = 2` in place of 16 leaves room for an echo, its neighbours and a window that
  ends the text. A chain of two errors has a first link, a last one, a tail of each kind (nothing, a
  text, an object that tells what it holds, one that does not), a loop to itself, to the head and past
  the head, with every way to resist on either.
- Withheld texts: two codes of each kind, alone, together and in two replies of a chain; every near miss
  of the grammar (too short, too long, a wrong class, a missing digit, a doubled dot, an open end) with
  `MaxSubfieldDigits = 3`; attached codes that are well formed, malformed, or change between two reads;
  declared values that are empty, a code, part of one, or close to one.

Deadlock is checked except where the modelled program ends: all sends and dispatches made
(`smtp_*`, `email_dispatch`) or the function returned (`redaction`). Symmetry is used only for
interchangeable calls and never in a run with a liveness property.

### Fairness

- `otp_marked`, `LocksLapse`: the event loop runs every call on (a call's `await` settles) and clocks
  advance; nothing is assumed of faults, which need not happen, and a crashed call owes nothing.
- `otp_form`, `NeverForgotten`: React runs effects that are due, the browser runs timers that are due,
  time passes. Neither the user nor the parent has to do anything.
- `redaction`, `Returns`: both functions are synchronous, so their next step is always taken. It is
  assumed of the scrubbing (`Scrub`) only.

The other specifications have no fairness: their properties are safety properties.

## 4. Findings

`PROJECT.json` quotes the lines; here is what the traces show.

1. `releaseOtp` clears the cooldown before it deletes the entry (`otp.service.ts:529`). A second
   generate can take the lock and store its code in between; the delete then removes that code, and the
   recipient is locked out with no live code. No lock lapses and no delivery is slow in this run: the
   order of the two calls is enough.
2. With `consumeOnVerify` off, `verify` writes back the entry it read two awaits earlier
   (`otp.service.ts:566`). After a resend in that gap it replaces the new code by the superseded one.
3. An attempt in the last millisecond of a Redis key sees a PTTL of 0 and rewrites the entry without an
   expiry (`redis-otp.storage.ts:112`); `get` returns it long after `expiresAt`.
4. A start that fails before its first `await` clears the cache and is then assigned to it
   (`smtp-email.provider.ts:558`, the same shape at `resend-email.provider.ts:261`): the rejected
   promise stays cached.

Statements that one might expect and that the code does not keep. They have no run of their own; the
properties above are worded so that they do not claim them.

OTP lifecycle

- Counting an attempt and looking the code up are two awaits (`otp.service.ts:480`): a `consume` in
  between costs a guess that is compared with nothing, though lines 217-218 say that only a live code
  is counted. Two verifies of one right guess may both answer `valid`, also with `consumeOnVerify`
  (line 564): comparing and deleting are two awaits.
- A successful `verify` clears the cooldown of whichever generate holds it, so two resends can both be
  issuing while a verify finishes. `ResendsExclusive` is checked where no verify does that.
- A refused code length is noticed after the lock is taken; the lock then stays for its lifetime.
- A delivery that fails after its lock has lapsed releases the code and the lock of whichever generate
  holds them by then; `FailedLeavesNothing` is about those of the generate that failed.
- With `consumeOnVerify` off, the write-back puts an older attempt count back, or the code of a generate
  that failed since (finding 2), so that `CodeBudget`, `FailedLeavesNothing` and `UsesContract` are
  stated for deployments that consume.

Wiring and options

- Overrides of one purpose (`perPurpose`) are merged without being validated; an explicit `undefined`
  in a partial hides the default; `NaN` passes the numeric checks. `OtpService` takes the merged values
  as constants in range, and the refused code length as a call in `BadLengthCalls`.
- `defaultTags` is frozen as the application's own array, and the asynchronous form keeps the
  application's options object by reference between validating and resolving it.
- The forms differ where `FormsAgree` says nothing: `forRootAsync` registers the tokens of channels that
  are not configured (they resolve to null, or to a default), and does not log the line
  with which `forRoot` ends. A class whose constructor has only defaulted parameters, as
  `SmtpEmailProvider`, has a `length` of 0: the asynchronous form constructs it, the synchronous
  one asks the container to inject them.
- The email service looks for its own fallback locales and not for those the renderer may declare.

Redaction

- A published reply code is not independent of the secret, as the comment at
  `delivery-status.ts:9-15` has it: the filter removes a code that contains a declared value, but not one
  that is a part of it. A relay that echoes an alphanumeric secret, or a secret broken over lines,
  can put three of its digits where the grammar finds them.
- A status and an enhanced code may come from two different replies of a chain.
- When the caller declares nothing, the raw error passes unless `walkChain` finds an echo, and it reads
  messages, stacks and the description of what ends the chain (`describe-error.ts:24-25`). An echo in another
  property of an error, or of an object at the end, leaves with it. `NoEchoLeaves` is about what is
  described.
- Additional properties of an error are deleted and not read back: an object that reports the deletion
  and keeps the property keeps the secret. The model, and the proofs, have objects that say so.

Hooks

- `onExpired` is called again when `tickIntervalMs` changes after the expiry, though `README.md:940`
  says "Called once", and a late tick of the old interval between a render and its effect calls the new
  callback. `ExpiredOnce` is checked with one interval.
- `reset()` and the handlers leave `valuesRef` to the next render: a `setValue` in the same batch
  brings discarded slots back. `SettersCompose` is about setter calls among themselves.
- A write with slots of the old length, after the resize effect and before its render, keeps the old
  number of slots for good. `SlotsFollowLength` excludes that write.
- Slots that become full because the effect trimmed them call no `onComplete`.

## 5. What is proved

TLAPS checks every proof below; each theorem holds for every value of the constants that satisfies the
named assumptions of its module (calls of different kinds are distinct, lifetimes and ceilings are
positive, and the like).

| Theorem | Says | Along |
|---|---|---|
| `OtpServiceProofs!TypeCorrect` | `[]TypeOK`, any calls, any switches | one lemma per handler |
| `OtpServiceProofs!AttemptBudgetHolds` | `[]AttemptBudget` | `BudgetInv` |
| `OtpServiceProofs!RemainingInRangeHolds` | `[]RemainingInRange` | `BudgetInv /\ RangeInv` |
| `OtpServiceProofs!FailedLeavesNothingHolds` | `[]FailedLeavesNothing`, with `ConsumeOnVerify` | `FailInv` |
| `OtpServiceProofs!NeverRevivedHolds` | `NeverRevived`, any switches | `CodeStep`, `FreshInv` |
| `OtpServiceProofs!RetiredStaysRetiredHolds` | `[]RetiredStaysRetired`, with `ConsumeOnVerify` | `CodeStep`, `FreshInv` |
| `OtpServiceProofs!CodeBudgetHolds` | `[]CodeBudget`, with `ConsumeOnVerify` | `CountInv` |
| `OtpServiceProofs!ResendsExclusiveHolds` | `[]ResendsExclusive`, with `OnlyIssuersUnlock` | `LockInv` |
| `OtpServiceProofs!UsesContractHolds` | `UsesContract`, with `ConsumeOnVerify` | `LiveInv`, one operation per step |
| `InMemoryOtpStorageProofs!MemoryImplementsHolds` | `Spec => Contract!Spec` | the mapping, step by step |
| `RedisOtpStorageProofs!RedisInvariant` | `[]Inv`, without last-instant attempts | `LifetimeInv` |
| `RedisOtpStorageProofs!RedisImplementsHolds` | `Spec => Contract!Spec`, same assumption | `LifetimeInv` |
| `OtpStoragesProofs!MemoryStillImplements`, `RedisStillImplements` | both refinements, under the same calls and one clock, the second without last-instant attempts | a step of the pair is one of each |
| `OtpStoragesProofs!ConsumeAgreesHolds` | `ConsumeAgrees`, last-instant attempts included | `KeyInv`, `AgreeInv` |
| `OtpStoragesProofs!ReadsApplyTtlHolds` | `ReadsApplyTtl`, without them | `LifetimeInv` |
| `StartupProofs!OneTransportHolds`, `ImportRetriedHolds` | `[]OneTransport`, `ImportRetried` of the provider | `CacheInv` |
| `StartupProofs!NothingBuiltUnvalidatedHolds`, `FormsAgreeHolds` | `[]NothingBuiltUnvalidated`, `[]FormsAgree`, any options | `WiringInv` |
| `StartupProofs!StartupOneTransport` | `[]OneTransport` of the composition | `StartupSpec => Spec` |
| `EmailDispatchProofs!TrailIsTrueHolds`, `RecordedOnceHolds`, `AuditNeverBreaksHolds` | the three invariants, any number of dispatches | `Sound` |
| `EmailDispatchProofs!FailuresAccountedForHolds`, `NoLongSilenceHolds` | the limiter, any interval and clock | `ClockKeepsUp` |
| `OtpFormProofs!SubmittedIsShownHolds`, `SlotsFollowLengthHolds`, `SettersComposeHolds` | the input hook, any lengths and characters | `InputInv` |
| `OtpFormProofs!NoStaleCallHolds`, `ExpiredOnceHolds` | the countdown, the second with one interval | `CountdownInv`, `Silent` |
| `RedactionProofs!NoSecretSurvivesHolds`, `NoEchoSurvivesHolds`, `OnlySecretsRemovedHolds` | any text, values and bodies | `Traces`, `Handled` |
| `RedactionProofs!ThrownIsCleanHolds`, `NeverHalfCleanHolds`, `SameObjectsHolds` | chains of any length and shape | `ChainInv` |
| `RedactionProofs!NoEchoLeavesHolds`, `ShapeKeptHolds` | the same chains | `TraceInv` |
| `RedactionProofs!NoSecretPublishedHolds`, `OneStatusOrSilenceHolds` | any deliveries and values | `Publishable` |
| `RedactionProofs!TypeCorrect` | `[]TypeOK`, any inputs | the invariants above |

Why the invariants are what they are:

- `AttemptBudget` counts calls that compared and is not inductive: it does not know which calls may
  still compare. `BudgetInv` adds that the numbers handed out in an epoch are distinct and within the
  counter, that calls which have not counted have no number, and that one which compared, or is about
  to, has a number within the ceiling. The bound follows: a set of calls with distinct numbers in `1 .. MaxAttempts`
  has no more members than that.
- `RangeInv` adds to `RemainingInRange` that the entry of a call that found a mismatch has spent at least
  one attempt and that its own number is within the ceiling, which keeps `remainingAttempts` below the ceiling.
- `FailInv` adds the step before `failed`: from the release of the lock on, the call owns none.
- `CodeStep` reduces every step to what it may do to the code in the storage: keep it, end it, bring in
  the code of a generate that had not stored yet, or write back one that a verify holds. `FreshInv` says
  that a code which has not been stored is nowhere yet, so the third kind never repeats a code.
- `CountInv`: where nothing is written back, no code was compared more often than the ceiling, and the one
  that is stored no more often than its entry counts.
- `LockInv`: a generate that is issuing owns the lock. It needs `OnlyIssuersUnlock`, that there is a
  cooldown, no verify deletes, no `consume` runs and no delivery outlasts the lock: each of the last three
  gives the lock away (section 4).
- `LiveInv`: an entry that is not absent has the code of a generate and time left. Each operation of the
  contract is then matched with its own answer, the one the call goes on by.
- `CacheInv` adds that only starts that were begun have a state, and that a send which got a transport
  awaited a start that succeeded; the start that is alive is then the cached one.
- `WiringInv`: a token that is made is `Final(token)`, a function of the options alone, so the order in
  which the container went does not matter and the two forms can be compared token by token.
- `LifetimeInv`: an entry has a key that expires, not before the entry and less than a second after it.
  The premise `~LastInstantCalls` is finding 3: without it the invariant and the refinement are false.
- `AgreeInv`: an entry that one storage would still give an attempt is one the other would, the same to the
  last field; in what is dead they differ (memory keeps it until a reader comes, Redis until its key
  expires). It needs `KeyInv`, that a key does not expire before its entry, and not `~LastInstantCalls`: a
  key that lost its expiry in finding 3 is still refused an attempt by the entry's own `expiresAt`. What
  finding 3 breaks is the reads; its run and `ReadsApplyTtlHolds` differ in that premise alone.
- The in-memory mapping needs no invariant besides types: what has lapsed is mapped to absent.
- `Sound` says what each place of one dispatch implies for its own entries and answer; no step of another
  dispatch reads or writes them. `ClockKeepsUp`: while failures are held back the wall clock has moved at
  least as far as time has, or it would have been noticed as a step back.
- `InputInv` follows the slots with the updates that are queued (`Pending`, `Composed`) and says that full
  slots were given to `onComplete` or wait in the last completion. `CountdownInv` says that there is at
  most one interval (`OneTimer`), that of the current expiry except between a render and its effect;
  `Silent` that an interval which is still there, or still to be started, belongs to an expiry that has not
  been reported.
- `Traces`: every character written comes from a position no occurrence covers, in order, and two without a
  marker between them were neighbours; every such position that the cursor has passed was written. A value
  that could be read in the result would have been in the text, uncovered; at the end of the text nothing
  else is missing. For echoes, `Handled` says of each position the search has passed that no excerpt
  starts there or that one it found covers it, for the search jumps over what it finds.
- `ChainInv`: what stands for a link is settled (holds nothing to remove and leads only to what stands for
  another link) and docile (a second scrub finds nothing to do); a scope bounds what a walk may meet, so
  that the copies it makes are never met again. `RejectionsAssumption` names what is assumed of the
  objects: the error of the cleanup is none of the chain's and, since the storage is given no body, quotes
  at most the code of it; a deletion that is reported was made (`Honest`).
- `TraceInv` compares the chain with the one that was given. While the walk looks for echoes, what is
  reachable has been read or comes next, so that at its end every echo it can meet is to be removed
  (`Known`). Then each link is registered with the object it stands for and the cause it had, what
  represents it tells nothing, and once wired leads to something `Alike` (`Traced`). That nothing else is
  reachable needs no induction over paths: `Reachable` is the least closed set (`ReachableIsLeast`), so a
  set that holds the head and is closed under causes holds all of it.
- `Publishable`: a code is silence, or grammatical, the only one in its source and free of every declared
  value; each of the three places is written from one that is.

Left to TLC: liveness (`LocksLapse`, `NeverForgotten`, `Returns`). Every other property of a passing run
is a theorem. TLAPS does not prove liveness under fairness, statements with `ENABLED`, or, with the
provers available here, inductions over data that a recursive definition computes.

## 6. What is not modelled

- `getStatus` (two reads whose pair nothing depends on), and the values that option resolution fills in:
  the services take them as constants.
- Pure functions: code generation, digests, hashes, comparison, scope and recipient normalisation, the
  cooldown helpers' header and texts, the message formats of the catalog of errors. `OtpService` uses a
  code as a value equal to itself only, and scopes as independent.
- The template renderer: it reads and compiles what it was given; its failures are inputs of the models
  that call it. The no-op providers have no state.
- The payloads handed to the transports (MIME headers, attachments, tags).
- `clear()` and `size` of the in-memory storage (test helpers) and a Redis value that does not parse:
  nothing in this code writes one.
- Focus and the character filter of the input hook, the formatted text of the countdown.
- The storage contract suite is a test of custom storages; its statements are those of `OtpStorage`.
- The release scripts under `scripts/`: sequential tooling that compares the published package with the
  source tree, which nothing of the library runs.
- SMS and push: interfaces that no code uses.

## 7. What could follow

1. `OtpService` over each of the two storages instead of over the contract, to see finding 3 from a
   caller's side.
2. The safety that the liveness properties rest on, as theorems: what a call at a given `await` or a timer
   that is due can do next.
3. The merge of purpose options and the renderer's choice of a locale as operators, checked against a
   reference definition.

## 8. Running it

    tlc -workers 2 -config OtpService_budget.cfg MCOtpService.tla
    tlapm OtpServiceProofs.tla

and so for every module whose name ends in `Proofs`.

`PROJECT.json` lists the module and configuration of every run, the source lines behind every
definition (`map`), and the mutant that breaks each property.
