----------------------------- MODULE MCRedaction -----------------------------
(* The texts and the rejections of a run. *)
EXTENDS Redaction, SequencesExt

CONSTANTS n1, n2, n3, a, b

Strings(least, most) == UNION {[1 .. n -> {a, b}] : n \in least .. most}

\* Every text of up to MaxText characters, against an html body and, for some, a text body,
\* with no, one or two declared values.
CONSTANT MaxText

MCFailures ==
    [text : Strings(1, MaxText),
     bodies : {<<html>> : html \in Strings(0, 3)} \cup {<<html, <<a, a>> >> : html \in Strings(2, 2)},
     declared : {{v, w} : v, w \in Strings(0, 2)}]

-----------------------------------------------------------------------------

Object(secrets, cause, resists) ==
    [text |-> Holding(secrets), cause |-> cause, resists |-> resists]

Blank == Object({}, Absent, Compliant)

\* Every way to resist that the code tells apart: "extras" and "response" stop the strip alike,
\* whether a deletion is refused or a read throws.
MCResistances ==
    {Compliant} \cup
    {[slot |-> s, how |-> h] : s \in {"message", "cause"},
                               h \in {"refuses", "ignores", "throws", "unreadable"}} \cup
    {[slot |-> s, how |-> "refuses"] : s \in {"extras", "name"}} \cup
    {[slot |-> s, how |-> "unreadable"] : s \in {"response", "stack"}}

\* The error of a failed cleanup holds the code; it takes a cause or refuses one.
Cleanups ==
    {Object(Code, Absent, r) : r \in {Compliant, [slot |-> "cause", how |-> "refuses"]}}

\* A text, and objects: one whose message tells, one that tells nothing of what it holds.
Ends == {Absent, Undefined, Null, Word(Code), Word(Secrets),
         NonError(Secrets, {}, {}), NonError({}, {}, Secrets)}

Errors(causes) ==
    {Object(s, c, r) : s \in {{}, Secrets}, c \in causes, r \in MCResistances}

\* Chains of up to two errors: the last one ends in anything, or goes back to either.
MCRejections ==
    LET first == Link(<<n1, 0>>)
        second == Link(<<n2, 0>>)
        One == {[objects |-> n1 :> e @@ n2 :> Blank @@ n3 :> c, head |-> first] :
                    e \in Errors(Ends \cup {first}), c \in Cleanups}
        Two == {[objects |-> n1 :> e @@ n2 :> f @@ n3 :> c, head |-> first] :
                    e \in Errors({second}), f \in Errors(Ends \cup {first, second}),
                    c \in Cleanups}
        None == {[objects |-> n1 :> Blank @@ n2 :> Blank @@ n3 :> c, head |-> h] :
                    h \in Ends \ {Absent}, c \in Cleanups}
    IN  None \cup One \cup Two

-----------------------------------------------------------------------------

\* Two codes of each kind, and what comes close to one.
b1 == <<"5", "5", "0">>
b2 == <<"2", "4", "2">>
e1 == <<"5", ".", "5", ".", "1">>
e2 == <<"2", ".", "0", ".", "4", "2", "2">>
Close == {<<"5", "5">>, <<"5", "5", "0", "1">>, <<"3", "5", "0">>, <<"5", ".", "5">>,
          <<"5", ".", "5", ".", "1", "0", "0", "1">>, <<"5", ".", ".", "1">>, <<"2", "4", ".">>}

\* What is attached to the error, when it is read once and again.
Attachments(code) == {<<Silence, Silence>>, <<code, code>>, <<code, <<"5", "5">> >>, <<<<"5", "5">>, code>>}

MCDeliveries ==
    LET One == {{}} \cup {{near} : near \in Close} \cup {{b1}, {b2}, {e1}, {b1, e1}, {b2, e1}, {b1, b2},
                                                     {e1, e2}, {b1, b2, e1, e2}}
        Two == {<<{b1}, {b2}>>, <<{b1}, {b1, e1}>>, <<{e1}, {b2, e2}>>, <<{}, {b1}>>, <<{b2}, {}>>}
        Secret == {<<>>, <<"5", "5">>, <<"4">>, b2, <<"0", "5">>}
    IN  [by : {"smtp", "other"},
         texts : {<<t>> : t \in One} \cup Two,
         status : Attachments(b1), enhanced : Attachments(e1),
         secrets : {{}} \cup {{v} : v \in Secret} \cup {{<<"5", "5">>, b2}}]

=============================================================================
