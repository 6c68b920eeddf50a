-------------------------- MODULE AuditWriteWarning --------------------------
(***************************************************************************)
(* src/src/server/utils/audit-write-warning.ts: the warning about an audit *)
(* write that failed and was swallowed, limited to one in an interval for  *)
(* each channel.  The wall clock may step backward.                        *)
(***************************************************************************)
EXTENDS Integers

CONSTANTS
  Channels,  \* the places that swallow
  Interval,  \* AUDIT_WARNING_INTERVAL_MS, in ticks
  MaxTime,   \* bound: ticks that may pass
  MaxSteps   \* bound: how often the wall clock may be set back

ASSUME WarningAssumption ==
  Interval \in Nat \ {0} /\ MaxTime \in Nat /\ MaxSteps \in Nat

VARIABLES
  now,         \* Date.now()
  last,        \* lastLoggedAt, Never when undefined
  suppressed,
  time,        \* ticks passed since the start, whatever the wall clock says
  stepped,     \* times the wall clock was set back
  log          \* history per channel: failures swallowed, failures named in a line, and the time
               \* of the first one suppressed since the last line or step back

limiter == <<last, suppressed, log>>
clock == <<now, time, stepped>>
warningVars == <<limiter, clock>>

Never == -1

-----------------------------------------------------------------------------

\* A mutant of Within: a negative elapsed time counts as recent.
MutWithinNegative(elapsed) == elapsed < Interval

Within(elapsed) == elapsed >= 0 /\ elapsed < Interval

Quiet(ch) == last[ch] # Never /\ Within(now - last[ch])

\* A mutant of Logged: the count is named but not started again.
MutLoggedKeepsCount(ch) ==
  /\ last' = [last EXCEPT ![ch] = now]
  /\ UNCHANGED suppressed

\* The line is written, with the number suppressed since the last one.
Logged(ch) ==
  /\ last' = [last EXCEPT ![ch] = now]
  /\ suppressed' = [suppressed EXCEPT ![ch] = 0]

Warn(ch) ==
  \/ /\ Quiet(ch)
     /\ suppressed' = [suppressed EXCEPT ![ch] = @ + 1]
     /\ log' = [log EXCEPT ![ch] = [swallowed |-> @.swallowed + 1,
                                    told |-> @.told,
                                    since |-> IF @.since = Never THEN time ELSE @.since]]
     /\ UNCHANGED last
  \/ /\ ~Quiet(ch)
     /\ Logged(ch)
     /\ log' = [log EXCEPT ![ch] = [swallowed |-> @.swallowed + 1,
                                    told |-> @.told + 1 + suppressed[ch],
                                    since |-> Never]]

Tick ==
  /\ time < MaxTime
  /\ time' = time + 1 /\ now' = now + 1
  /\ UNCHANGED <<limiter, stepped>>

StepBack ==
  /\ stepped < MaxSteps
  /\ stepped' = stepped + 1
  /\ now' \in 0 .. (now - 1)
  /\ log' = [ch \in Channels |-> [log[ch] EXCEPT !.since = Never]]
  /\ UNCHANGED <<last, suppressed, time>>

\* An earlier failure of a channel may have been logged already.
WarningInit ==
  /\ now \in {0, Interval}
  /\ time = 0 /\ stepped = 0
  /\ last \in [Channels -> {Never, now}]
  /\ suppressed = [ch \in Channels |-> 0]
  /\ log = [ch \in Channels |-> LET n == IF last[ch] = Never THEN 0 ELSE 1 IN
                                [swallowed |-> n, told |-> n, since |-> Never]]

-----------------------------------------------------------------------------

\* No swallowed failure is forgotten: each is named in a line, alone or in its count of similar
\* ones, or still counted for the next (warn).
FailuresAccountedFor ==
  \A ch \in Channels : log[ch].swallowed = log[ch].told + suppressed[ch]

\* An outage is not silent for long: a failure is suppressed less than an interval after the first
\* one that was, since the last line or, when the clock was set back since, after that ("the
\* warning is not silenced until the clock catches up").
NoLongSilence ==
  [][\A ch \in Channels :
       suppressed'[ch] > suppressed[ch] => time - log'[ch].since < Interval]_warningVars

=============================================================================
