---------------------------- MODULE WithheldText ----------------------------
(***************************************************************************)
(* What a failed send says when the caller forbade the provider's text     *)
(* (publishProviderText: false): the reply codes that a fixed grammar      *)
(* finds (src/src/server/utils/delivery-status.ts), through                *)
(* SmtpEmailProvider.dispatch, or any other provider, and                  *)
(* EmailService.failWithoutProviderText.                                   *)
(*                                                                         *)
(* Both patterns refuse a digit or a dot on either side of a match, so     *)
(* they match whole runs of digits and dots: a text is the set of its      *)
(* runs, a run the sequence of its characters.                             *)
(***************************************************************************)
EXTENDS Naturals, Sequences

CONSTANTS
    MaxSubfieldDigits,  \* MAX_SUBFIELD_DIGITS
    Deliveries          \* [by, texts, status, enhanced, secrets]: a provider, the messages of
                        \* the chain it is rejected with, what two reads of the codes attached to
                        \* it answer, and the declared values

Digits == {"0", "1", "2", "3", "4", "5", "6", "7", "8", "9"}
Classes == {"2", "4", "5"}
Runs == Seq(Digits \cup {"."})

Silence == <<>>
Codes == [status : Runs, enhanced : Runs]
NoCodes == [status |-> Silence, enhanced |-> Silence]

ASSUME SubfieldAssumption == MaxSubfieldDigits \in Nat \ {0}
ASSUME DeliveriesAssumption ==
    Deliveries \subseteq
        [by : {"smtp", "other"}, texts : Seq(SUBSET Runs) \ {<<>>}, status : Runs \X Runs,
         enhanced : Runs \X Runs, secrets : SUBSET Runs]

VARIABLES
    delivery,       \* the arguments
    stage,          \* "idle", "rejected", "caught", "audit", "failing", "failed" or "unaudited"
    thrown,         \* the rejection EmailService receives: [texts, status, enhanced]
    codes,          \* what is about to be published
    said            \* what was: by the provider's log line, the audit entry, the exception

withheldVars == <<delivery, stage, thrown, codes, said>>

-----------------------------------------------------------------------------
(* The grammar *)

AllDigits(run, from, to) == \A i \in from .. to : run[i] \in Digits

IsBasicStatus(run) == Len(run) = 3 /\ run[1] \in Classes /\ AllDigits(run, 2, 3)

\* class.subject.detail
IsEnhancedStatus(run) ==
    \E dot \in 4 .. 3 + MaxSubfieldDigits :
        /\ dot < Len(run) /\ Len(run) <= dot + MaxSubfieldDigits
        /\ run[1] \in Classes /\ run[2] = "." /\ run[dot] = "."
        /\ AllDigits(run, 3, dot - 1) /\ AllDigits(run, dot + 1, Len(run))

\* A mutant of SoleMatch: of several matches, one is taken.
MutAnyMatch(matches) == IF matches = {} THEN Silence ELSE CHOOSE run \in matches : TRUE

\* soleMatch: the only one, or nothing.
SoleMatch(matches) == IF \E run \in matches : matches = {run}
                      THEN CHOOSE run \in matches : TRUE ELSE Silence

BasicsIn(runs) == {run \in runs : IsBasicStatus(run)}
EnhancedIn(runs) == {run \in runs : IsEnhancedStatus(run)}

ExtractDeliveryStatus(runs) ==
    [status |-> SoleMatch(BasicsIn(runs)), enhanced |-> SoleMatch(EnhancedIn(runs))]

Includes(run, value) ==
    \E at \in 0 .. Len(run) : at + Len(value) <= Len(run)
                              /\ \A i \in 1 .. Len(value) : run[at + i] = value[i]

\* A mutant of Collides: only a code that is the secret collides.
MutCollidesIfEqual(run, secrets) == run \in secrets \ {Silence}

Collides(run, secrets) == \E secret \in secrets : secret # <<>> /\ Includes(run, secret)

Withheld(run, secrets) == IF Collides(run, secrets) THEN Silence ELSE run

WithoutDeclaredValues(status, secrets) ==
    [status |-> Withheld(status.status, secrets), enhanced |-> Withheld(status.enhanced, secrets)]

-----------------------------------------------------------------------------
(* The failure *)

RunsOf(texts) == UNION {texts[i] : i \in DOMAIN texts}

\* A mutant of Snapshot: the value published is read again, after the one that was validated.
MutReadTwice(reads, valid) == IF valid THEN reads[2] ELSE Silence

\* A getter may answer differently each time: the value validated is the one kept.
Snapshot(reads, valid) == IF valid THEN reads[1] ELSE Silence

\* readAttachedStatus, NoCodes where neither is well formed or the getter throws.
Attached ==
    [status |-> Snapshot(thrown.status, IsBasicStatus(thrown.status[1])),
     enhanced |-> Snapshot(thrown.enhanced, IsEnhancedStatus(thrown.enhanced[1]))]

\* dispatch: the message of the rejection alone is read, and a fixed label thrown.
SmtpCatches ==
    /\ stage = "rejected" /\ delivery.by = "smtp"
    /\ LET found == WithoutDeclaredValues(ExtractDeliveryStatus(delivery.texts[1]),
                                          delivery.secrets)
       IN  /\ thrown' = [texts |-> <<{}>>, status |-> <<found.status, found.status>>,
                         enhanced |-> <<found.enhanced, found.enhanced>>]
           /\ said' = [said EXCEPT !["line"] = found]
    /\ stage' = "caught"
    /\ UNCHANGED <<delivery, codes>>

OtherThrows ==
    /\ stage = "rejected" /\ delivery.by = "other"
    /\ thrown' = [texts |-> delivery.texts, status |-> delivery.status,
                  enhanced |-> delivery.enhanced]
    /\ stage' = "caught"
    /\ UNCHANGED <<delivery, codes, said>>

ReadStatus ==
    /\ stage = "caught"
    /\ codes' = WithoutDeclaredValues(
                    IF Attached # NoCodes THEN Attached
                    ELSE ExtractDeliveryStatus(RunsOf(thrown.texts)),
                    delivery.secrets)
    /\ stage' = "audit"
    /\ UNCHANGED <<delivery, thrown, said>>

\* The entry is written, or the write rejects, swallowed or not.
Audit ==
    /\ stage = "audit"
    /\ \/ said' = [said EXCEPT !["entry"] = codes]
       \/ UNCHANGED said
    /\ stage' \in {"failing", "unaudited"}
    /\ UNCHANGED <<delivery, thrown, codes>>

\* EMAIL_SEND_FAILED, without a cause.
Fail ==
    /\ stage = "failing"
    /\ said' = [said EXCEPT !["details"] = codes]
    /\ stage' = "failed"
    /\ UNCHANGED <<delivery, thrown, codes>>

-----------------------------------------------------------------------------

WithheldStart ==
    /\ thrown = [texts |-> <<>>, status |-> <<Silence, Silence>>,
                 enhanced |-> <<Silence, Silence>>]
    /\ codes = NoCodes
    /\ said = [place \in {"line", "entry", "details"} |-> NoCodes]

WithheldInit == WithheldStart /\ delivery \in Deliveries /\ stage = "rejected"

WithheldIdle ==
    /\ WithheldStart /\ stage = "idle"
    /\ delivery = [by |-> "other", texts |-> <<>>, status |-> <<Silence, Silence>>,
                   enhanced |-> <<Silence, Silence>>, secrets |-> {}]

WithheldNext == SmtpCatches \/ OtherThrows \/ ReadStatus \/ Audit \/ Fail

WithheldTypeOK ==
    /\ stage \in {"idle", "rejected", "caught", "audit", "failing", "failed", "unaudited"}
    /\ thrown \in [texts : Seq(SUBSET Runs), status : Runs \X Runs, enhanced : Runs \X Runs]
    /\ codes \in Codes
    /\ said \in [{"line", "entry", "details"} -> Codes]

-----------------------------------------------------------------------------
(* Properties *)

\* No declared value is part of any code that is published, in the provider's own log line, in the
\* audit entry or in the exception: an OTP of 55 keeps a genuine 550 out (withoutDeclaredValues).
NoSecretPublished ==
    \A place \in DOMAIN said, secret \in delivery.secrets \ {<<>>} :
        ~Includes(said[place].status, secret) /\ ~Includes(said[place].enhanced, secret)

\* The runs that the provider's log line, or the service, had before it.
Source(d) == IF d.by = "smtp" THEN d.texts[1] ELSE RunsOf(d.texts)

Attaches(d, reads, code) == d.by = "other" /\ reads[1] = code

\* Whatever the chain says and a getter of the provider's error answers, only the grammar gets out,
\* and of a chain that carries two codes none does, unless the provider had attached one
\* (delivery-status.ts:47-49, "One reply, one status, or silence").
OneStatusOrSilence ==
    \A place \in DOMAIN said :
        LET status == said[place].status
            enhanced == said[place].enhanced
        IN  /\ status # Silence =>
                 /\ IsBasicStatus(status)
                 /\ Attaches(delivery, delivery.status, status) \/ BasicsIn(Source(delivery)) = {status}
            /\ enhanced # Silence =>
                 /\ IsEnhancedStatus(enhanced)
                 /\ Attaches(delivery, delivery.enhanced, enhanced) \/ EnhancedIn(Source(delivery)) = {enhanced}

=============================================================================
