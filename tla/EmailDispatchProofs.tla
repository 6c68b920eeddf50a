------------------------- MODULE EmailDispatchProofs -------------------------
(***************************************************************************)
(* Proofs about the warning limiter and about dispatches, for every number *)
(* of dispatches, whichever of them are wrapped in the interceptor, and    *)
(* every interval, clock and outcome of renderer, provider and repository. *)
(*                                                                         *)
(* The limiter is independent of what the dispatches do: a step of Next    *)
(* warns on one channel, moves the clock, or leaves the limiter alone.     *)
(* The audit properties follow from what each place of a dispatch implies  *)
(* for that dispatch alone (Sound), so the others only have to be left as  *)
(* they are.                                                               *)
(***************************************************************************)
EXTENDS EmailDispatch, TLAPS

-----------------------------------------------------------------------------
(* The limiter *)

WarningTypes ==
  /\ now \in Nat /\ time \in Nat /\ stepped \in Nat
  /\ last \in [Channels -> Nat \union {Never}]
  /\ suppressed \in [Channels -> Nat]
  /\ log \in [Channels -> [swallowed : Nat, told : Nat, since : Nat \union {Never}]]

\* While failures are suppressed, the wall clock has not been set back since the first of them: at
\* least as much time shows on it since the last line as has passed since that failure.
ClockKeepsUp ==
  \A ch \in Channels : log[ch].since # Never =>
    last[ch] # Never /\ time - log[ch].since <= now - last[ch]

WarningInv == WarningTypes /\ FailuresAccountedFor /\ ClockKeepsUp

\* What a step can do to the limiter and the clock.
WarningNext ==
  \/ \E ch \in Channels : Warn(ch) /\ UNCHANGED clock
  \/ Tick \/ StepBack

LEMMA WarningStarts == WarningInit => WarningInv
<1>1. SUFFICES ASSUME WarningInit PROVE WarningInv
  OBVIOUS
<1>2. now \in Nat
  BY <1>1, WarningAssumption DEF WarningInit
<1>3. log \in [Channels -> [swallowed : Nat, told : Nat, since : Nat \union {Never}]]
  BY <1>1 DEF WarningInit
<1>4. WarningTypes
  BY <1>1, <1>2, <1>3 DEF WarningInit, WarningTypes
<1>5. FailuresAccountedFor /\ ClockKeepsUp
  BY <1>1 DEF WarningInit, FailuresAccountedFor, ClockKeepsUp
<1> QED BY <1>4, <1>5 DEF WarningInv

LEMMA WarnKeepsInv ==
  ASSUME WarningInv, NEW ch \in Channels, Warn(ch), UNCHANGED clock
  PROVE WarningInv'
<1>1. now' = now /\ time' = time /\ stepped' = stepped
  BY DEF clock
<1>2. CASE /\ Quiet(ch) /\ UNCHANGED last
           /\ suppressed' = [suppressed EXCEPT ![ch] = @ + 1]
           /\ log' = [log EXCEPT ![ch] = [swallowed |-> @.swallowed + 1,
                                          told |-> @.told,
                                          since |-> IF @.since = Never THEN time ELSE @.since]]
  <2>0. log[ch].since \in Nat \union {Never} /\ time \in Nat /\ log[ch].swallowed + 1 \in Nat
    BY DEF WarningInv, WarningTypes
  <2>1. WarningTypes'
    BY <1>1, <1>2, <2>0 DEF WarningInv, WarningTypes
  <2>2. FailuresAccountedFor'
    BY <1>2 DEF WarningInv, WarningTypes, FailuresAccountedFor
  <2>3. ClockKeepsUp'
    BY <1>1, <1>2 DEF WarningInv, WarningTypes, ClockKeepsUp, Quiet, Within, Never
  <2> QED BY <2>1, <2>2, <2>3 DEF WarningInv
<1>3. CASE /\ Logged(ch)
           /\ log' = [log EXCEPT ![ch] = [swallowed |-> @.swallowed + 1,
                                          told |-> @.told + 1 + suppressed[ch],
                                          since |-> Never]]
  <2>1. WarningTypes'
    BY <1>1, <1>3 DEF WarningInv, WarningTypes, Logged
  <2>2. FailuresAccountedFor'
    BY <1>3 DEF WarningInv, WarningTypes, FailuresAccountedFor, Logged
  <2>3. ClockKeepsUp'
    BY <1>1, <1>3 DEF WarningInv, WarningTypes, ClockKeepsUp, Logged, Never
  <2> QED BY <2>1, <2>2, <2>3 DEF WarningInv
<1> QED BY <1>2, <1>3 DEF Warn

LEMMA WarningStep == WarningInv /\ (WarningNext \/ UNCHANGED warningVars) => WarningInv'
<1>1. SUFFICES ASSUME WarningInv, WarningNext \/ UNCHANGED warningVars PROVE WarningInv'
  OBVIOUS
<1>2. CASE \E ch \in Channels : Warn(ch) /\ UNCHANGED clock
  BY <1>1, <1>2, WarnKeepsInv
<1>3. CASE Tick
  BY <1>1, <1>3 DEF Tick, limiter, WarningInv, WarningTypes, FailuresAccountedFor, ClockKeepsUp,
                    Never
<1>4. CASE StepBack
  <2>1. WarningTypes'
    BY <1>1, <1>4 DEF StepBack, WarningInv, WarningTypes
  <2>2. FailuresAccountedFor' /\ ClockKeepsUp'
    BY <1>1, <1>4 DEF StepBack, WarningInv, WarningTypes, FailuresAccountedFor, ClockKeepsUp, Never
  <2> QED BY <2>1, <2>2 DEF WarningInv
<1>5. CASE UNCHANGED warningVars
  BY <1>1, <1>5 DEF warningVars, limiter, clock, WarningInv, WarningTypes, FailuresAccountedFor,
                    ClockKeepsUp
<1> QED BY <1>1, <1>2, <1>3, <1>4, <1>5 DEF WarningNext

-----------------------------------------------------------------------------
(* The dispatches *)

\* Where nothing has been recorded and the message has not been taken.
Early == {"idle", "otp", "probing", "probingFallback", "rendering", "rendered", "sending",
          "auditFailed"}

Places == Early \union {"auditSent", "returned", "threw", "answered"}

Reasons == {"refused", "otp", "TEMPLATE_NOT_FOUND", "renderer", "TEMPLATE_RENDER_FAILED",
            "EMAIL_SEND_FAILED", "AUDIT_LOG_FAILED"}

DispatchTypes ==
  /\ swallowErrors \in BOOLEAN
  /\ pc \in [Dispatches -> Places]
  /\ carried \in [Dispatches -> BOOLEAN]
  /\ outcome \in [Dispatches -> Reasons \union {"none", "ok"}]
  /\ trail \in [Dispatches -> SUBSET (Channels \X {"sent", "failed"})]

EmailEntries == {<<"email", "sent">>, <<"email", "failed">>}

\* What the place of a dispatch says of it.
AtPlace(d) ==
  /\ pc[d] \in Early \union {"auditSent"} => trail[d] = {} /\ outcome[d] = "none"
  /\ pc[d] \in Early => ~carried[d]
  /\ pc[d] = "auditSent" => carried[d]
  /\ pc[d] = "returned" => outcome[d] = "ok" /\ carried[d]
  /\ pc[d] = "threw" => outcome[d] \in Reasons
  /\ pc[d] \in {"threw", "answered"} => (carried[d] => outcome[d] \in {"ok", "AUDIT_LOG_FAILED"})
  /\ pc[d] = "answered" => outcome[d] # "none" /\ (~carried[d] => outcome[d] # "ok")
  /\ pc[d] # "answered" => trail[d] \subseteq EmailEntries

\* What its entries and its outcome say of it.
Told(d) ==
  /\ \A ch \in Channels : <<ch, "sent">> \in trail[d] => carried[d]
  /\ <<"email", "failed">> \in trail[d] => ~carried[d]
  /\ <<"interceptor", "failed">> \in trail[d] =>
       /\ ~carried[d] \/ outcome[d] = "AUDIT_LOG_FAILED"
       /\ <<"interceptor", "sent">> \notin trail[d]
  /\ swallowErrors => outcome[d] # "AUDIT_LOG_FAILED"

Sound(d) == AtPlace(d) /\ Told(d)

DispatchInv == DispatchTypes /\ \A d \in Dispatches : Sound(d)

\* What a step of one dispatch leaves alone: all of every other one.
OthersKept(d) ==
  /\ swallowErrors' = swallowErrors
  /\ \A e \in Dispatches \ {d} :
       /\ pc'[e] = pc[e] /\ carried'[e] = carried[e]
       /\ outcome'[e] = outcome[e] /\ trail'[e] = trail[e]

LEMMA DispatchStarts == Init => DispatchInv
<1>1. SUFFICES ASSUME Init PROVE DispatchInv
  OBVIOUS
<1>2. DispatchTypes
  BY <1>1 DEF Init, DispatchTypes, Places, Early
<1>3. \A d \in Dispatches : Sound(d)
  BY <1>1 DEF Init, Sound, AtPlace, Told, Early
<1> QED BY <1>2, <1>3 DEF DispatchInv

LEMMA OthersStaySound ==
  ASSUME DispatchInv, NEW d \in Dispatches, OthersKept(d), DispatchTypes', Sound(d)'
  PROVE DispatchInv'
<1>1. ASSUME NEW e \in Dispatches PROVE Sound(e)'
  <2>1. CASE e = d
    BY <2>1
  <2>2. CASE e # d
    BY <2>2 DEF OthersKept, DispatchInv, Sound, AtPlace, Told
  <2> QED BY <2>1, <2>2
<1> QED BY <1>1 DEF DispatchInv

\* The steps that write nothing to the log: up to the delivery, and a call the interceptor does
\* not record.
Unrecorded(d) ==
  \/ Refused(d) \/ DispatchTemplate(d) \/ DispatchRaw(d) \/ DispatchOtp(d) \/ OtpSettled(d)
  \/ FindTemplate(d) \/ RenderTemplate(d) \/ Send(d) \/ Deliver(d) \/ TapUnseen(d)

LEMMA UnrecordedKeepsInv ==
  ASSUME DispatchInv, NEW d \in Dispatches, Unrecorded(d)
  PROVE DispatchInv' /\ UNCHANGED warningVars
<1> USE DEF Goto, Throw, Return, Quietly
<1>1. UNCHANGED warningVars /\ OthersKept(d)
  BY DEF Unrecorded, Refused, DispatchTemplate, DispatchRaw, DispatchOtp, OtpSettled, FindTemplate,
         RenderTemplate, Send, Deliver, TapUnseen, OthersKept, DispatchInv, DispatchTypes
<1>2. DispatchTypes'
  BY DEF Unrecorded, Refused, DispatchTemplate, DispatchRaw, DispatchOtp, OtpSettled, FindTemplate,
         RenderTemplate, Send, Deliver, TapUnseen, DispatchInv, DispatchTypes, Places, Early,
         Reasons
<1>3. Sound(d)'
  <2> USE DEF DispatchInv, DispatchTypes, Sound, AtPlace, Told, Early, Reasons
  <2>1. CASE Refused(d) \/ DispatchTemplate(d) \/ DispatchRaw(d) \/ DispatchOtp(d) \/ Send(d)
    BY <2>1 DEF Refused, DispatchTemplate, DispatchRaw, DispatchOtp, Send
  <2>2. CASE OtpSettled(d)
    BY <2>2 DEF OtpSettled
  <2>3. CASE FindTemplate(d) \/ RenderTemplate(d)
    BY <2>3 DEF FindTemplate, RenderTemplate
  <2>4. CASE Deliver(d)
    BY <2>4 DEF Deliver
  <2>5. CASE TapUnseen(d)
    BY <2>5 DEF TapUnseen
  <2> QED BY <2>1, <2>2, <2>3, <2>4, <2>5 DEF Unrecorded
<1> QED BY <1>1, <1>2, <1>3, OthersStaySound

\* An entry of dispatch d is written to the log, or its write rejects and is raised or swallowed.
LEMMA CreateEffects ==
  ASSUME DispatchInv, NEW d \in Dispatches, NEW channel \in Channels,
         NEW verb \in {"sent", "failed"}, NEW rejects \in BOOLEAN,
         Create(d, channel, verb, rejects)
  PROVE /\ \/ \E ch \in Channels : Warn(ch) /\ UNCHANGED clock
           \/ UNCHANGED warningVars
        /\ trail' \in [Dispatches -> SUBSET (Channels \X {"sent", "failed"})]
        /\ \A e \in Dispatches \ {d} : trail'[e] = trail[e]
        /\ trail'[d] = trail[d] \/ trail'[d] = trail[d] \union {<<channel, verb>>}
        /\ carried' = carried /\ swallowErrors' = swallowErrors
<1>1. CASE rejects /\ ~Raises(rejects)
  BY <1>1 DEF Create, DispatchInv, DispatchTypes, warningVars
<1>2. CASE ~(rejects /\ ~Raises(rejects))
  BY <1>2 DEF Create, DispatchInv, DispatchTypes, warningVars
<1> QED BY <1>1, <1>2

\* The steps that write an entry.
Recorded(d) == AuditSent(d) \/ AuditFailed(d) \/ TapSent(d) \/ TapFailed(d)

LEMMA RecordedKeepsInv ==
  ASSUME DispatchInv, NEW d \in Dispatches, Recorded(d)
  PROVE /\ DispatchInv'
        /\ \/ \E ch \in Channels : Warn(ch) /\ UNCHANGED clock
           \/ UNCHANGED warningVars
<1> USE DispatchAssumption
<1> USE DEF Goto, Throw, Return, SentAuditRaised, TapRaised, Raises
<1>1. CASE AuditSent(d)
  <2>1. PICK rejects \in BOOLEAN :
           /\ Create(d, "email", "sent", rejects)
           /\ IF Raises(rejects) THEN SentAuditRaised(d) ELSE Return(d)
    BY <1>1 DEF AuditSent
  <2>2. pc[d] = "auditSent"
    BY <1>1 DEF AuditSent
  <2>3. OthersKept(d) /\ DispatchTypes'
    BY <2>1, <2>2, CreateEffects DEF DispatchInv, DispatchTypes, OthersKept, Places, Early, Reasons
  <2>4. Sound(d)'
    BY <2>1, <2>2, CreateEffects DEF DispatchInv, DispatchTypes, Sound, AtPlace, Told, Early,
                                     Reasons, EmailEntries
  <2> QED BY <2>1, <2>3, <2>4, CreateEffects, OthersStaySound
<1>2. CASE AuditFailed(d)
  <2>1. PICK rejects \in BOOLEAN :
           /\ Create(d, "email", "failed", rejects)
           /\ Throw(d, IF Raises(rejects) THEN "AUDIT_LOG_FAILED" ELSE "EMAIL_SEND_FAILED")
    BY <1>2 DEF AuditFailed
  <2>2. pc[d] = "auditFailed"
    BY <1>2 DEF AuditFailed
  <2>3. OthersKept(d) /\ DispatchTypes'
    BY <2>1, <2>2, CreateEffects DEF DispatchInv, DispatchTypes, OthersKept, Places, Early, Reasons
  <2>4. Sound(d)'
    BY <2>1, <2>2, CreateEffects DEF DispatchInv, DispatchTypes, Sound, AtPlace, Told, Early,
                                     Reasons, EmailEntries
  <2> QED BY <2>1, <2>3, <2>4, CreateEffects, OthersStaySound
<1>3. CASE TapSent(d)
  <2>1. PICK rejects \in BOOLEAN :
           /\ Create(d, "interceptor", "sent", rejects)
           /\ IF Raises(rejects)
              THEN TapRaised(d) /\ outcome' = [outcome EXCEPT ![d] = "AUDIT_LOG_FAILED"]
              ELSE Goto(d, "answered") /\ UNCHANGED outcome
    BY <1>3 DEF TapSent
  <2>2. pc[d] = "returned"
    BY <1>3 DEF TapSent
  <2>3. OthersKept(d) /\ DispatchTypes'
    BY <2>1, <2>2, CreateEffects DEF DispatchInv, DispatchTypes, OthersKept, Places, Early, Reasons
  <2>4. Sound(d)'
    BY <2>1, <2>2, CreateEffects DEF DispatchInv, DispatchTypes, Sound, AtPlace, Told, Early,
                                     Reasons, EmailEntries
  <2> QED BY <2>1, <2>3, <2>4, CreateEffects, OthersStaySound
<1>4. CASE TapFailed(d)
  <2>1. PICK rejects \in BOOLEAN :
           /\ Create(d, "interceptor", "failed", rejects)
           /\ outcome' = IF Raises(rejects)
                         THEN [outcome EXCEPT ![d] = "AUDIT_LOG_FAILED"] ELSE outcome
    BY <1>4 DEF TapFailed
  <2>2. pc[d] = "threw" /\ Goto(d, "answered")
    BY <1>4 DEF TapFailed
  <2>3. OthersKept(d) /\ DispatchTypes'
    BY <2>1, <2>2, CreateEffects DEF DispatchInv, DispatchTypes, OthersKept, Places, Early, Reasons
  <2>4. Sound(d)'
    BY <2>1, <2>2, CreateEffects DEF DispatchInv, DispatchTypes, Sound, AtPlace, Told, Early,
                                     Reasons, EmailEntries
  <2> QED BY <2>1, <2>3, <2>4, CreateEffects, OthersStaySound
<1> QED BY <1>1, <1>2, <1>3, <1>4 DEF Recorded

-----------------------------------------------------------------------------
(* The theorems *)

Inv == WarningInv /\ DispatchInv

\* What the inductive step of both parts needs of Next.
LEMMA NextSplits ==
  ASSUME DispatchInv, [Next]_vars
  PROVE DispatchInv' /\ (WarningNext \/ UNCHANGED warningVars)
<1>1. CASE UNCHANGED vars
  BY <1>1 DEF vars, dispatchVars, DispatchInv, DispatchTypes, Sound, AtPlace, Told
<1>2. ASSUME NEW d \in Dispatches, Unrecorded(d)
      PROVE DispatchInv' /\ (WarningNext \/ UNCHANGED warningVars)
  BY <1>2, UnrecordedKeepsInv
<1>3. ASSUME NEW d \in Dispatches, Recorded(d)
      PROVE DispatchInv' /\ (WarningNext \/ UNCHANGED warningVars)
  BY <1>3, RecordedKeepsInv DEF WarningNext
<1>4. CASE Time
  BY <1>4 DEF Time, WarningNext, dispatchVars, DispatchInv, DispatchTypes, Sound, AtPlace, Told
<1> QED BY <1>1, <1>2, <1>3, <1>4 DEF Next, Unrecorded, Recorded

\* The invariant of the limiter and of every dispatch.
THEOREM DispatchInvariant == Spec => []Inv
<1>1. Init => Inv
  BY WarningStarts, DispatchStarts DEF Init, Inv
<1>2. Inv /\ [Next]_vars => Inv'
  BY NextSplits, WarningStep DEF Inv
<1> QED BY <1>1, <1>2, PTL DEF Spec

\* No swallowed audit failure is forgotten (warn), however many dispatches share the limiter.
THEOREM FailuresAccountedForHolds == Spec => []FailuresAccountedFor
<1>1. Inv => FailuresAccountedFor
  BY DEF Inv, WarningInv
<1> QED BY <1>1, DispatchInvariant, PTL

\* A failure is suppressed less than an interval after the first that was, whatever the wall clock
\* did before (warn: a negative elapsed time is not recent).
THEOREM NoLongSilenceHolds == Spec => NoLongSilence
<1>1. ASSUME Inv, [Next]_vars
      PROVE [\A ch \in Channels :
               suppressed'[ch] > suppressed[ch] => time - log'[ch].since < Interval]_warningVars
  <2>1. CASE UNCHANGED warningVars
    BY <2>1
  <2>2. CASE Tick \/ StepBack
    BY <1>1, <2>2 DEF Tick, StepBack, limiter, Inv, WarningInv, WarningTypes
  <2>3. ASSUME NEW c \in Channels, Warn(c), NEW ch \in Channels,
               suppressed'[ch] > suppressed[ch]
        PROVE time - log'[ch].since < Interval
    <3>1. ch = c /\ Quiet(c)
      BY <1>1, <2>3 DEF Warn, Logged, Inv, WarningInv, WarningTypes
    <3>2. log'[c].since = IF log[c].since = Never THEN time ELSE log[c].since
      BY <1>1, <2>3, <3>1 DEF Warn, Inv, WarningInv, WarningTypes
    <3>3. now - last[c] < Interval /\ now - last[c] >= 0
      BY <3>1 DEF Quiet, Within
    <3> QED BY <1>1, <3>1, <3>2, <3>3, WarningAssumption
            DEF Inv, WarningInv, WarningTypes, ClockKeepsUp
  <2>4. WarningNext \/ UNCHANGED warningVars
    BY <1>1, NextSplits DEF Inv
  <2> QED BY <2>1, <2>2, <2>3, <2>4 DEF WarningNext
<1> QED BY <1>1, DispatchInvariant, PTL DEF Spec, NoLongSilence

\* The audit log tells what happened to every dispatch (deliver, audit, intercept).
THEOREM TrailIsTrueHolds == Spec => []TrailIsTrue
<1>1. Inv => TrailIsTrue
  BY DEF Inv, DispatchInv, Sound, Told, TrailIsTrue
<1> QED BY <1>1, DispatchInvariant, PTL

\* No layer records a dispatch both as sent and as failed (intercept).
THEOREM RecordedOnceHolds == Spec => []RecordedOnce
<1>1. ASSUME Inv, NEW d \in Dispatches, NEW ch \in Channels
      PROVE ~({<<ch, "sent">>, <<ch, "failed">>} \subseteq trail[d])
  <2>1. ch \in {"email", "interceptor"}
    BY DispatchAssumption
  <2> QED BY <1>1, <2>1 DEF Inv, DispatchInv, Sound, Told
<1>2. Inv => RecordedOnce
  BY <1>1 DEF RecordedOnce
<1> QED BY <1>2, DispatchInvariant, PTL

\* With swallowErrors the audit log changes no dispatch's outcome (audit, tap).
THEOREM AuditNeverBreaksHolds == Spec => []AuditNeverBreaks
<1>1. ASSUME Inv, swallowErrors, NEW d \in Dispatches, Ended(d)
      PROVE outcome[d] = "ok" <=> carried[d]
  <2>1. Sound(d) /\ pc[d] \in {"answered", "returned", "threw"}
    BY <1>1 DEF Inv, DispatchInv, Ended
  <2> QED BY <1>1, <2>1 DEF Sound, AtPlace, Told, Reasons
<1>2. Inv => AuditNeverBreaks
  BY <1>1 DEF AuditNeverBreaks
<1> QED BY <1>2, DispatchInvariant, PTL

=============================================================================
