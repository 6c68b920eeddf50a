------------------------------- MODULE LazyPeer -------------------------------
(***************************************************************************)
(* A provider that imports its SDK on the first send and caches the        *)
(* PROMISE of the client it makes                                          *)
(* (src/src/server/providers/resend-email.provider.ts).  A number stands   *)
(* for each promise createClient returned.  Sends are concurrent: each     *)
(* runs alone up to its next await.                                        *)
(***************************************************************************)
EXTENDS Integers

CONSTANTS
  Sends,    \* the calls of send()
  MaxInits  \* bound: how many inits a behaviour may start

ASSUME LazyAssumption == MaxInits \in Nat \ {0}

VARIABLES
  complete,  \* what createClient requires of the options object is there
  cache,     \* #clientPromise, null when none is cached
  inits,     \* how many times createClient was called
  init,      \* what became of each call
  pc,        \* where each send is, or how it ended
  uses       \* the promise each send awaited

vars == <<complete, cache, inits, init, pc, uses>>

null == 0
Inits == 1 .. MaxInits

\* Sends that have been given a client.
Served == {s \in Sends : pc[s] \in {"sending", "sent", "sendFailed"}}

-----------------------------------------------------------------------------

\* #clientPromise ??= createClient() where a promise is cached.
JoinInit(s) ==
  /\ pc[s] = "idle" /\ cache # null
  /\ pc' = [pc EXCEPT ![s] = "awaiting"]
  /\ uses' = [uses EXCEPT ![s] = cache]
  /\ UNCHANGED <<complete, cache, inits, init>>

\* A mutant of Cached: the client is cached when it is there, not its promise.
MutOnlyClientCached(i) == null

\* #clientPromise while the init i runs.
Cached(i) == i

\* createClient got as far as its import, or threw before it: the catch clears the cache, and only
\* then does ??= assign the promise that was rejected.
NewInit(s, status) ==
  /\ pc[s] = "idle" /\ cache = null /\ inits < MaxInits
  /\ inits' = inits + 1
  /\ cache' = Cached(inits')
  /\ init' = [init EXCEPT ![inits'] = status]
  /\ pc' = [pc EXCEPT ![s] = "awaiting"]
  /\ uses' = [uses EXCEPT ![s] = inits']
  /\ UNCHANGED complete

StartInit(s) == complete /\ NewInit(s, "pending")

StartIncomplete(s) == ~complete /\ NewInit(s, "refused")

InitDone(i) ==
  /\ init[i] = "pending"
  /\ init' = [init EXCEPT ![i] = "ready"]
  /\ UNCHANGED <<complete, cache, inits, pc, uses>>

\* A mutant of Dropped: the failed promise stays cached.
MutFailureCached(i) == i

\* #clientPromise after the init i failed.
Dropped(i) == null

\* The import or the constructor failed.
InitFailed(i) ==
  /\ init[i] = "pending"
  /\ init' = [init EXCEPT ![i] = "failed"]
  /\ cache' = Dropped(i)
  /\ UNCHANGED <<complete, inits, pc, uses>>

\* The awaited promise has settled.
Resume(s) ==
  /\ pc[s] = "awaiting"
  /\ \/ init[uses[s]] = "ready" /\ pc' = [pc EXCEPT ![s] = "sending"]
     \/ init[uses[s]] \in {"failed", "refused"} /\ pc' = [pc EXCEPT ![s] = "initFailed"]
  /\ UNCHANGED <<complete, cache, inits, init, uses>>

\* The SDK answers with an id, with an error or without an id.
Answered(s) ==
  /\ pc[s] = "sending"
  /\ \E outcome \in {"sent", "sendFailed"} : pc' = [pc EXCEPT ![s] = outcome]
  /\ UNCHANGED <<complete, cache, inits, init, uses>>

\* The application fills in the options object it passed to the constructor.
Configure ==
  /\ ~complete /\ complete' = TRUE
  /\ UNCHANGED <<cache, inits, init, pc, uses>>

Init ==
  /\ complete \in BOOLEAN
  /\ cache = null
  /\ inits = 0
  /\ init = [i \in Inits |-> "none"]
  /\ pc = [s \in Sends |-> "idle"]
  /\ uses = [s \in Sends |-> null]

Send(s) == JoinInit(s) \/ StartInit(s) \/ StartIncomplete(s) \/ Resume(s) \/ Answered(s)

Settle(i) == InitDone(i) \/ InitFailed(i)

=============================================================================
