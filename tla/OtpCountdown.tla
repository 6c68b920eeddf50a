----------------------------- MODULE OtpCountdown -----------------------------
(***************************************************************************)
(* src/src/react/useOtpCountdown.ts: the seconds left to an expiry,        *)
(* recomputed by an interval, and a callback when none is left.  The       *)
(* parent replaces the expiry when it issues a new code.  Timers are never *)
(* early and may be late; the wall clock does not step.                    *)
(***************************************************************************)
EXTENDS Naturals

CONSTANTS
  Lifetimes,    \* ticks left to an expiry when the parent first passes it
  Intervals,    \* what the parent may pass for tickIntervalMs, in ticks
  MaxExpiries,  \* bound: expiries the parent passes
  Second        \* MS_PER_SECOND, in ticks

ASSUME CountdownAssumption ==
  /\ Lifetimes \subseteq Nat /\ Intervals \subseteq Nat \ {0}
  /\ MaxExpiries \in Nat \ {0} /\ Second \in Nat \ {0}

VARIABLES
  expiresAt,  \* the expiry last rendered, null for none
  issued,     \* how many expiries the parent has passed; the number of the latest
  left,       \* ticks left to each of them
  tickInterval,
  effectDue,  \* the effect has not run since the render that changed its dependencies
  timers,     \* the intervals that run: the expiry they were made for, ticks to the next run
  remaining,  \* remainingSeconds
  fired       \* history: how often onExpired was called for each expiry

countdownVars == <<expiresAt, issued, left, tickInterval, effectDue, timers, remaining, fired>>

null == 0
Expiries == 1 .. MaxExpiries

ComputeRemaining(e) == IF e = null THEN 0 ELSE left[e] \div Second

NewTimer == [of |-> expiresAt, wait |-> tickInterval, every |-> tickInterval]

OnExpired(e) == fired' = [fired EXCEPT ![e] = @ + 1]

-----------------------------------------------------------------------------

\* A render with the expiry e, a new one with the lifetime l when e is not the current one.
CountdownRender(e, l, p) ==
  /\ ~effectDue
  /\ \/ e \in {expiresAt, null} /\ UNCHANGED <<issued, left>>
     \/ /\ e = issued + 1 /\ e \in Expiries
        /\ issued' = e /\ left' = [left EXCEPT ![e] = l]
  /\ expiresAt' = e /\ tickInterval' = p
  /\ effectDue' = (e # expiresAt \/ p # tickInterval)
  /\ UNCHANGED <<timers, remaining, fired>>

\* A mutant of Kept: the effect returns no cleanup.
MutNotCleared == timers

\* The intervals that are left when the effect runs again: its cleanup clears its own.
Kept == {}

\* A mutant of ExpiredAtOnce: an expiry that has passed starts no interval and calls nothing.
MutExpiredInSilence(e) == UNCHANGED fired

\* The effect finds an expiry that has passed.
ExpiredAtOnce(e) == OnExpired(e)

CountdownEffect ==
  /\ effectDue' = FALSE
  /\ IF effectDue
     THEN /\ remaining' = ComputeRemaining(expiresAt)
          /\ \/ /\ expiresAt = null
                /\ timers' = Kept /\ UNCHANGED fired
             \/ /\ expiresAt # null /\ ComputeRemaining(expiresAt) = 0
                /\ timers' = Kept /\ ExpiredAtOnce(expiresAt)
             \/ /\ expiresAt # null /\ ComputeRemaining(expiresAt) > 0
                /\ timers' = Kept \union {NewTimer} /\ UNCHANGED fired
     ELSE UNCHANGED <<timers, remaining, fired>>
  /\ UNCHANGED <<expiresAt, issued, left, tickInterval>>

\* A mutant of Ended: the interval goes on after zero.
MutGoesOn(t) == {[t EXCEPT !.wait = t.every]}

\* What is left of an interval that reached zero.
Ended(t) == {}

Fire(t) ==
  /\ t.wait = 0
  /\ remaining' = ComputeRemaining(t.of)
  /\ \/ /\ ComputeRemaining(t.of) = 0
        /\ timers' = (timers \ {t}) \union Ended(t)
        /\ OnExpired(t.of)
     \/ /\ ComputeRemaining(t.of) > 0
        /\ timers' = (timers \ {t}) \union {[t EXCEPT !.wait = t.every]}
        /\ UNCHANGED fired
  /\ UNCHANGED <<expiresAt, issued, left, tickInterval, effectDue>>

Less(n) == IF n = 0 THEN 0 ELSE n - 1

Tick ==
  /\ left' = [e \in Expiries |-> Less(left[e])]
  /\ timers' = {[t EXCEPT !.wait = Less(t.wait)] : t \in timers}
  /\ UNCHANGED <<expiresAt, issued, tickInterval, effectDue, remaining, fired>>

CountdownInit ==
  /\ issued \in {0, 1}
  /\ expiresAt = issued
  /\ \E l \in Lifetimes : left = [e \in Expiries |-> IF e = issued THEN l ELSE 0]
  /\ tickInterval \in Intervals
  /\ effectDue = TRUE
  /\ timers = {}
  /\ remaining = ComputeRemaining(expiresAt)
  /\ fired = [e \in Expiries |-> 0]

-----------------------------------------------------------------------------

\* onExpired is called once for an expiry, however renders, effects and late timers interleave
\* ("invoked once when the countdown first reaches zero").  Stated for a tickIntervalMs that does
\* not change: the effect runs again when it does, and calls it again.
ExpiredOnce == \A e \in Expiries : fired[e] <= 1

\* No interval of an expiry that was replaced reports it once the effect has run: onExpired is
\* called for the current expiry, or in the gap between a render and its effect.
NoStaleCall ==
  [][\A e \in Expiries : fired'[e] > fired[e] => e = expiresAt \/ effectDue]_countdownVars

\* An expiry that is not replaced is reported, also one that had passed when it was rendered.
NeverForgotten == \A e \in Expiries : (expiresAt = e) ~> (fired[e] > 0 \/ expiresAt # e)

=============================================================================
