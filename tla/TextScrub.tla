----------------------------- MODULE TextScrub -----------------------------
(***************************************************************************)
(* What a failed send may say: scrubTransportError of the SMTP provider    *)
(* and scrubSendError of the Resend provider.  The provider's text is      *)
(* searched for excerpts of the bodies that were sent                      *)
(* (collectEchoedExcerpts), then every excerpt and every declared value is *)
(* replaced in one pass over the text as it came (redactValues).           *)
(*                                                                         *)
(* A text is a sequence of characters; a position is what JavaScript calls *)
(* an index, the number of characters before it.                           *)
(***************************************************************************)
EXTENDS Naturals, Sequences, FiniteSets

CONSTANTS
    Chars,          \* the characters of texts
    Marker,         \* REDACTED_VALUE
    MinEcho,        \* MIN_ECHO_LENGTH
    Failures        \* [text, bodies, declared]: a provider's text, the html and text
                    \* bodies of the message, the declared values and credentials

ASSUME MarkerIsNoChar == Marker \notin Chars
ASSUME MinEchoAssumption == MinEcho \in Nat \ {0}
ASSUME FailuresAssumption ==
    Failures \subseteq [text : Seq(Chars), bodies : Seq(Seq(Chars)), declared : SUBSET Seq(Chars)]

VARIABLES
    failure,        \* the arguments
    step,           \* "idle", "detect", "replace" or "done"
    body,           \* detect: the number of the body being compared
    index,          \* detect: the position reached in the text
    values,         \* the values to replace, those found so far included
    spans,          \* replace: the occurrences still to be treated
    cursor,         \* replace: the position up to which the text is treated
    cleaned         \* replace: the text written so far

textVars == <<failure, step, body, index, values, spans, cursor, cleaned>>

-----------------------------------------------------------------------------
(* Slices and occurrences *)

Slice(text, from, to) == SubSeq(text, from + 1, to)

OccursAt(value, text, at) ==
    /\ at + Len(value) <= Len(text)
    /\ Slice(text, at, at + Len(value)) = value

Occurs(value, text) == \E at \in 0 .. Len(text) : OccursAt(value, text, at)

\* The lengths of the excerpts of reference that the text quotes at this position.
Quoted(text, at, reference) ==
    {n \in MinEcho .. Len(text) - at : Occurs(Slice(text, at, at + n), reference)}

Longest(lengths) == CHOOSE n \in lengths : \A m \in lengths : m <= n

\* Every occurrence of every value, located in the text as it came.
Occurrences(text, secrets) ==
    {span \in [start : 0 .. Len(text), end : 0 .. Len(text)] :
        \E value \in secrets \ {<<>>} :
            /\ OccursAt(value, text, span.start)
            /\ span.end = span.start + Len(value)}

\* A mutant of Earliest: the comparator is the other way round.
MutLatest(set) == {span \in set : \A other \in set : span.start >= other.start}

\* spans.sort((a, b) => a.start - b.start): which one comes next.
Earliest(set) == {span \in set : \A other \in set : span.start <= other.start}

\* A mutant of Further: a nested span moves the cursor back.
MutMovesBack(a, b) == b

\* A mutant of Further: the end is added to the cursor.
MutAdds(a, b) == a + b

Further(a, b) == IF a >= b THEN a ELSE b

-----------------------------------------------------------------------------
(* collectEchoedExcerpts, once per body *)

\* A mutant of InBody: the last window of the text is missed.
MutMissesLastWindow == body <= Len(failure.bodies) /\ index + MinEcho < Len(failure.text)

InBody == body <= Len(failure.bodies) /\ index + MinEcho <= Len(failure.text)

DetectNothing ==
    /\ step = "detect" /\ InBody
    /\ Quoted(failure.text, index, failure.bodies[body]) = {}
    /\ index' = index + 1
    /\ UNCHANGED <<failure, step, body, values, spans, cursor, cleaned>>

DetectExcerpt ==
    /\ step = "detect" /\ InBody
    /\ LET quoted == Quoted(failure.text, index, failure.bodies[body])
       IN  /\ quoted # {}
           /\ values' = values \cup {Slice(failure.text, index, index + Longest(quoted))}
           /\ index' = index + Longest(quoted)
    /\ UNCHANGED <<failure, step, body, spans, cursor, cleaned>>

NextBody ==
    /\ step = "detect" /\ ~InBody /\ body < Len(failure.bodies)
    /\ body' = body + 1 /\ index' = 0
    /\ UNCHANGED <<failure, step, values, spans, cursor, cleaned>>

-----------------------------------------------------------------------------
(* redactValues *)

Locate ==
    /\ step = "detect" /\ ~InBody /\ body >= Len(failure.bodies)
    /\ step' = "replace"
    /\ values' = values \cup failure.declared
    /\ spans' = Occurrences(failure.text, values')
    /\ UNCHANGED <<failure, body, index, cursor, cleaned>>

\* A span that begins inside the one already replaced only widens it.
Widen ==
    /\ step = "replace"
    /\ \E span \in Earliest(spans) :
          /\ span.start < cursor
          /\ spans' = spans \ {span}
          /\ cursor' = Further(cursor, span.end)
    /\ UNCHANGED <<failure, step, body, index, values, cleaned>>

Replace ==
    /\ step = "replace"
    /\ \E span \in Earliest(spans) :
          /\ span.start >= cursor
          /\ spans' = spans \ {span}
          /\ cleaned' = cleaned \o Slice(failure.text, cursor, span.start) \o <<Marker>>
          /\ cursor' = span.end
    /\ UNCHANGED <<failure, step, body, index, values>>

Finish ==
    /\ step = "replace" /\ spans = {}
    /\ step' = "done"
    /\ cleaned' = cleaned \o Slice(failure.text, cursor, Len(failure.text))
    /\ UNCHANGED <<failure, body, index, values, spans, cursor>>

-----------------------------------------------------------------------------

TextStart ==
    /\ body = 1 /\ index = 0 /\ values = {} /\ spans = {}
    /\ cursor = 0 /\ cleaned = <<>>

TextInit == TextStart /\ failure \in Failures /\ step = "detect"

TextIdle ==
    /\ TextStart
    /\ failure = [text |-> <<>>, bodies |-> <<>>, declared |-> {}]
    /\ step = "idle"

TextNext ==
    DetectNothing \/ DetectExcerpt \/ NextBody \/ Locate \/ Widen \/ Replace \/ Finish

TextTypeOK ==
    /\ step \in {"idle", "detect", "replace", "done"}
    /\ body \in Nat /\ index \in Nat
    /\ values \subseteq Seq(Chars)
    /\ spans \subseteq [start : Nat, end : Nat]
    /\ cursor \in 0 .. Len(failure.text)
    /\ cleaned \in Seq(Chars \cup {Marker})

-----------------------------------------------------------------------------
(* Properties *)

\* Nothing of a declared value survives the replacement of another one: no declared value is
\* left in the outgoing text, whatever overlaps, nests or repeats (redact.ts:17-22).
NoSecretSurvives ==
    step = "done" => \A value \in failure.declared \ {<<>>} : ~Occurs(value, cleaned)

\* The outgoing text holds no run of MinEcho characters that a body holds too: neither where the
\* greedy walk stopped, nor next to a declared value that lies inside an echo
\* (smtp-email.provider.ts:400-404, "every value is replaced in a single pass").
NoEchoSurvives ==
    step = "done" =>
        \A at \in 0 .. Len(cleaned) - MinEcho :
            LET window == Slice(cleaned, at, at + MinEcho)
            IN  \A b \in DOMAIN failure.bodies : ~Occurs(window, failure.bodies[b])

\* A redaction costs nothing else: what is kept are the characters that no value covers, each
\* once and in their order.
OnlySecretsRemoved ==
    LET Covered(at) == \E span \in Occurrences(failure.text, values) :
                          span.start < at /\ at <= span.end
        Uncovered == {at \in 1 .. Len(failure.text) : ~Covered(at)}
        Kept == {k \in 1 .. Len(cleaned) : cleaned[k] # Marker}
    IN  step = "done" =>
            \E from \in [Kept -> Uncovered] :
                /\ \A k \in Kept : cleaned[k] = failure.text[from[k]]
                /\ \A j, k \in Kept : j < k => from[j] < from[k]
                /\ \A at \in Uncovered : \E k \in Kept : from[k] = at

=============================================================================
