----------------------------- MODULE EmailDispatch -----------------------------
(***************************************************************************)
(* Concurrent dispatches on their way through NotificationAuditInterceptor *)
(* (where a handler is wrapped in it), NotificationService and             *)
(* EmailService (src/src/server/services/email.service.ts), each writing   *)
(* its own entry to the audit log.  One step runs from an await to the     *)
(* next.  Renderer, provider and audit repository are the application's    *)
(* and may reject; a repository may also have written what it rejects.     *)
(***************************************************************************)
EXTENDS AuditWriteWarning

CONSTANTS
  Dispatches,  \* the calls
  Wrapped      \* those that go through the interceptor

ASSUME DispatchAssumption ==
  Wrapped \subseteq Dispatches /\ Channels = {"email", "interceptor"}

VARIABLES
  swallowErrors,  \* the option audit.swallowErrors
  pc,             \* what each dispatch awaits, or how it ended
  carried,        \* the provider has accepted the message, or the OTP call was answered
  outcome,        \* what the caller gets: "ok" or the reason thrown
  trail           \* the audit entries of each dispatch: <<channel, verb>>

dispatchVars == <<pc, carried, outcome, trail>>
vars == <<dispatchVars, swallowErrors, warningVars>>

-----------------------------------------------------------------------------

Goto(d, l) == pc' = [pc EXCEPT ![d] = l]

\* The handler throws, or returns, and the interceptor, if any, sees it.
Throw(d, reason) ==
  /\ Goto(d, "threw") /\ outcome' = [outcome EXCEPT ![d] = reason]

Return(d) ==
  /\ Goto(d, "returned") /\ outcome' = [outcome EXCEPT ![d] = "ok"]

Quietly == UNCHANGED <<carried, trail, swallowErrors, warningVars>>

\* dispatch reaches a channel that is disabled, no body, a blank tenant, an unusable provider or
\* attachments that are too large.
Refused(d) ==
  /\ pc[d] \in {"idle", "rendered"}
  /\ Throw(d, "refused") /\ Quietly

DispatchTemplate(d) ==
  /\ pc[d] = "idle"
  /\ Goto(d, "probing") /\ UNCHANGED outcome /\ Quietly

DispatchRaw(d) ==
  /\ pc[d] = "idle"
  /\ Goto(d, "sending") /\ UNCHANGED outcome /\ Quietly

DispatchOtp(d) ==
  /\ pc[d] = "idle"
  /\ Goto(d, "otp") /\ UNCHANGED outcome /\ Quietly

\* OtpService answers or throws (see OtpService); its own entries are not followed here.
OtpSettled(d) ==
  /\ pc[d] = "otp"
  /\ \/ Return(d) /\ carried' = [carried EXCEPT ![d] = TRUE]
     \/ Throw(d, "otp") /\ UNCHANGED carried
  /\ UNCHANGED <<trail, swallowErrors, warningVars>>

\* The requested locale, then en; the renderer itself may reject.
FindTemplate(d) ==
  /\ pc[d] \in {"probing", "probingFallback"}
  /\ \/ Goto(d, "rendering") /\ UNCHANGED outcome
     \/ pc[d] = "probing" /\ Goto(d, "probingFallback") /\ UNCHANGED outcome
     \/ pc[d] = "probingFallback" /\ Throw(d, "TEMPLATE_NOT_FOUND")
     \/ Throw(d, "renderer")
  /\ Quietly

RenderTemplate(d) ==
  /\ pc[d] = "rendering"
  /\ \/ Goto(d, "rendered") /\ UNCHANGED outcome
     \/ Throw(d, "TEMPLATE_RENDER_FAILED")
  /\ Quietly

Send(d) ==
  /\ pc[d] = "rendered"
  /\ Goto(d, "sending") /\ UNCHANGED outcome /\ Quietly

\* provider.send settles.
Deliver(d) ==
  /\ pc[d] = "sending"
  /\ \/ Goto(d, "auditSent") /\ carried' = [carried EXCEPT ![d] = TRUE]
     \/ Goto(d, "auditFailed") /\ UNCHANGED carried
  /\ UNCHANGED <<outcome, trail, swallowErrors, warningVars>>

\* A mutant of Raises: swallowErrors is not consulted.
MutAlwaysRaises(rejects) == rejects

\* A rejected write raises AUDIT_LOG_FAILED unless it is swallowed.
Raises(rejects) == rejects /\ ~swallowErrors

\* auditLog.create settles: it wrote the entry or not, and rejects or not.
Create(d, channel, verb, rejects) ==
  /\ \/ trail' = [trail EXCEPT ![d] = @ \union {<<channel, verb>>}]
     \/ rejects /\ UNCHANGED trail
  /\ IF rejects /\ ~Raises(rejects) THEN Warn(channel) ELSE UNCHANGED limiter
  /\ UNCHANGED <<carried, swallowErrors, clock>>

\* A mutant of SentAuditRaised: the audit of the success sits in the try around the delivery.
MutAuditedInsideTry(d) == Goto(d, "auditFailed") /\ UNCHANGED outcome

\* What becomes of a delivered message whose audit raised.
SentAuditRaised(d) == Throw(d, "AUDIT_LOG_FAILED")

AuditSent(d) ==
  /\ pc[d] = "auditSent"
  /\ \E rejects \in BOOLEAN :
       /\ Create(d, "email", "sent", rejects)
       /\ IF Raises(rejects) THEN SentAuditRaised(d) ELSE Return(d)

AuditFailed(d) ==
  /\ pc[d] = "auditFailed"
  /\ \E rejects \in BOOLEAN :
       /\ Create(d, "email", "failed", rejects)
       /\ Throw(d, IF Raises(rejects) THEN "AUDIT_LOG_FAILED" ELSE "EMAIL_SEND_FAILED")

\* A mutant of TapRaised: the success is recorded upstream of the error handler.
MutTapUpstream(d) == Goto(d, "threw")

\* What becomes of a success that the interceptor could not record: no handler is downstream.
TapRaised(d) == Goto(d, "answered")

\* The interceptor records what it saw; a tenant it cannot resolve counts as a rejected write.
TapSent(d) ==
  /\ d \in Wrapped /\ pc[d] = "returned"
  /\ \E rejects \in BOOLEAN :
       /\ Create(d, "interceptor", "sent", rejects)
       /\ IF Raises(rejects)
          THEN TapRaised(d) /\ outcome' = [outcome EXCEPT ![d] = "AUDIT_LOG_FAILED"]
          ELSE Goto(d, "answered") /\ UNCHANGED outcome

TapFailed(d) ==
  /\ d \in Wrapped /\ pc[d] = "threw"
  /\ Goto(d, "answered")
  /\ \E rejects \in BOOLEAN :
       /\ Create(d, "interceptor", "failed", rejects)
       /\ outcome' = IF Raises(rejects) THEN [outcome EXCEPT ![d] = "AUDIT_LOG_FAILED"] ELSE outcome

\* No argument of the handler looks like a dispatch: nothing is recorded.
TapUnseen(d) ==
  /\ d \in Wrapped /\ pc[d] \in {"returned", "threw"}
  /\ Goto(d, "answered") /\ UNCHANGED outcome /\ Quietly

Time == (Tick \/ StepBack) /\ UNCHANGED <<dispatchVars, swallowErrors>>

Init ==
  /\ WarningInit
  /\ swallowErrors \in BOOLEAN
  /\ pc = [d \in Dispatches |-> "idle"]
  /\ carried = [d \in Dispatches |-> FALSE]
  /\ outcome = [d \in Dispatches |-> "none"]
  /\ trail = [d \in Dispatches |-> {}]

Next ==
  \/ \E d \in Dispatches :
       \/ Refused(d) \/ DispatchTemplate(d) \/ DispatchRaw(d) \/ DispatchOtp(d) \/ OtpSettled(d)
       \/ FindTemplate(d) \/ RenderTemplate(d) \/ Send(d) \/ Deliver(d)
       \/ AuditSent(d) \/ AuditFailed(d) \/ TapSent(d) \/ TapFailed(d) \/ TapUnseen(d)
  \/ Time

Spec == Init /\ [][Next]_vars

-----------------------------------------------------------------------------

Ended(d) == pc[d] = "answered" \/ (d \notin Wrapped /\ pc[d] \in {"returned", "threw"})

\* The audit log tells what happened: an entry that says sent is of a message the provider took,
\* the service's failed entry of one it did not take, and the interceptor's failed entry only of
\* a dispatch that failed or could not be audited (deliver: "an AUDIT_LOG_FAILED cannot be
\* mistaken for a delivery failure").
TrailIsTrue ==
  \A d \in Dispatches :
    /\ (\E ch \in Channels : <<ch, "sent">> \in trail[d]) => carried[d]
    /\ <<"email", "failed">> \in trail[d] => ~carried[d]
    /\ <<"interceptor", "failed">> \in trail[d] => ~carried[d] \/ outcome[d] = "AUDIT_LOG_FAILED"

\* Each layer records a dispatch once: never as sent and as failed, whatever the repository did
\* with the first write (intercept: "a failure is audited exactly once").
RecordedOnce ==
  \A d \in Dispatches, ch \in Channels :
    ~({<<ch, "sent">>, <<ch, "failed">>} \subseteq trail[d])

\* With swallowErrors, what the audit log does never reaches the caller: a dispatch ends ok exactly
\* when it was carried out.
AuditNeverBreaks ==
  swallowErrors => \A d \in Dispatches : Ended(d) => (outcome[d] = "ok" <=> carried[d])

=============================================================================
