----------------------------- MODULE ErrorScrub -----------------------------
(***************************************************************************)
(* What a failed send may carry: the chain of causes of a provider's error *)
(* on its way out.  EmailService reads the whole chain for echoes of the   *)
(* body (walkChain), scrubs it and wraps it (scrubValuesFromErrorChain);   *)
(* OtpService hangs what it gets under the error of a cleanup that failed, *)
(* if one did, and scrubs again (failedOutgoing).                          *)
(*                                                                         *)
(* A text is the set of secrets it contains: TextScrub is about            *)
(* characters.  An object may resist: refuse a write (frozen), ignore it   *)
(* (a setter without effect), throw on it, or throw when it is read.       *)
(***************************************************************************)
EXTENDS Naturals, Sequences, FiniteSets

CONSTANTS
    Nodes,          \* the errors that exist before the scrub
    Cleanup,        \* the one a failed cleanup throws
    Code,           \* the secrets the caller may declare
    Echoes,         \* excerpts of the body
    Rejections      \* [objects, head]: what a send may reject with

VARIABLES
    heap,           \* the objects
    phase,          \* "idle", "collect", "scrub", "thrown" or "done"
    current,         \* the value the walk has reached
    seen,           \* the objects the collecting walk has visited
    chain,          \* the links that pass 1 has registered
    wired,          \* the number of them that pass 2 has wired
    declared,       \* the secrets the caller has declared
    secretValues,         \* the secrets to remove
    outgoing,       \* the value to throw, once known
    given           \* history: the heap and the head when the scrub began

chainVars == <<heap, phase, current, seen, chain, wired, declared, secretValues, outgoing, given>>

-----------------------------------------------------------------------------
(* Objects and causes *)

Secrets == Code \cup Echoes

\* An error <<n, 0>>, its redacted copy <<n, 1>>, and a copy of that.
Objects == Nodes \X (0 .. 2)

TextFields == {"response", "extras", "name", "message", "stack"}

\* registerLink writes in this order and stops at the first write that fails.
Writes == <<"response", "extras", "name", "message", "stack", "cause">>

Absent == [is |-> "absent"]
Undefined == [is |-> "undefined"]
Null == [is |-> "null"]

\* Neither an error nor empty: what describeError reads of it (a string message, else String()),
\* what String() prints of it, and what its other properties hold.
NonError(told, printed, held) == [is |-> "tail", told |-> told, printed |-> printed, held |-> held]
Word(secrets) == NonError(secrets, secrets, {})
Carried(tail) == tail.told \cup tail.printed \cup tail.held

Link(object) == [is |-> "error", object |-> object]

\* What an object prints of the body, its message tells: flattening prints, the walk asks.
Tails ==
    {t \in [is : {"tail"}, told : SUBSET Secrets, printed : SUBSET Secrets, held : SUBSET Secrets] :
        t.printed \cap Echoes \subseteq t.told}

Causes == {Absent, Undefined, Null} \cup Tails \cup {Link(o) : o \in Objects}

IsError(value) == value.is = "error"

Compliant == [slot |-> "none", how |-> "complies"]

\* The texts of an error whose fields all hold the same secrets.
Holding(secrets) == [field \in TextFields |-> secrets]

Shape ==
    [text : [TextFields -> SUBSET Secrets], cause : Causes,
     resists : [slot : {Writes[i] : i \in DOMAIN Writes} \cup {"none"},
                how : {"complies", "refuses", "ignores", "throws", "unreadable"}]]

\* The error of the cleanup is none of the chain's: it comes from the storage, which is given no
\* body, so that of the body it can quote the code at most.  Extra properties are not read back: one
\* that is reported as deleted is taken to be gone.
ASSUME RejectionsAssumption ==
    /\ Cleanup \in Nodes
    /\ \A r \in Rejections :
          /\ r.objects \in [Nodes -> Shape] /\ r.head \in Causes
          /\ \A v \in {r.head} \cup {r.objects[n].cause : n \in Nodes} :
                IsError(v) => v.object \in (Nodes \ {Cleanup}) \X {0}
          /\ ~IsError(r.objects[Cleanup].cause)
          /\ \A field \in TextFields : r.objects[Cleanup].text[field] \cap Echoes \subseteq Code
          /\ LET cause == r.objects[Cleanup].cause
             IN  cause.is = "tail" => Carried(cause) \cap Echoes \subseteq Code
          /\ \A n \in Nodes :
                r.objects[n].resists.slot = "extras" =>
                    r.objects[n].resists.how \in {"refuses", "throws", "unreadable"}

\* A mutant of RedactedCopy: a copy cannot be stripped again.
MutRigidCopy(text) ==
    [text |-> [text EXCEPT !["response"] = {}, !["extras"] = {}],
     cause |-> Absent, resists |-> [slot |-> "extras", how |-> "refuses"]]

\* buildRedactedCopy: a plain error with a name that can be written later.
RedactedCopy(text) ==
    [text |-> [text EXCEPT !["response"] = {}, !["extras"] = {}],
     cause |-> Absent, resists |-> Compliant]

CopyOf(o) == <<o[1], o[2] + 1>>

Unreadable(o, slot) == heap[o].resists = [slot |-> slot, how |-> "unreadable"]

\* The values that can be reached from one by reading causes, as its onlooker does.
NextOf(memory, o) ==
    IF memory[o].resists = [slot |-> "cause", how |-> "unreadable"]
    THEN Absent ELSE memory[o].cause

Reachable(memory, value) ==
    LET Closed(set) == /\ value \in set
                       /\ \A v \in set : IsError(v) => NextOf(memory, v.object) \in set
        Relevant == {value} \cup {NextOf(memory, o) : o \in Objects}
    IN  {v \in Relevant : \A set \in SUBSET Relevant : Closed(set) => v \in set}

-----------------------------------------------------------------------------
(* gatherRedactionValues: which echoes the chain carries *)

\* A mutant of Shown: stacks are not read.
MutMessageOnly(o) == IF Unreadable(o, "message") THEN {} ELSE heap[o].text["message"]

\* What one link shows to the walk; a text that cannot be read contributes nothing.
Shown(o) ==
    UNION {heap[o].text[field] : field \in {f \in {"message", "stack"} : ~Unreadable(o, f)}}

\* A mutant of CollectLink: the walk does not stop at a link it has seen.
MutRevisits ==
    /\ phase = "collect" /\ IsError(current)
    /\ LET o == current.object
       IN  /\ seen' = seen \cup {o}
           /\ secretValues' = secretValues \cup (Shown(o) \cap Echoes)
           /\ current' = IF Unreadable(o, "cause") THEN current ELSE heap[o].cause
    /\ UNCHANGED <<heap, phase, chain, wired, declared, outgoing, given>>

CollectLink ==
    /\ phase = "collect"
    /\ IsError(current) /\ current.object \notin seen
    /\ LET o == current.object
       IN  /\ seen' = seen \cup {o}
           /\ secretValues' = secretValues \cup (Shown(o) \cap Echoes)
           /\ current' = IF Unreadable(o, "cause") THEN current ELSE heap[o].cause
    /\ UNCHANGED <<heap, phase, chain, wired, declared, outgoing, given>>

\* The loop ends at a link it has seen, at an empty one, or at a value that is no error, of which
\* it reads what describeError tells and nothing else.
CollectEnd ==
    /\ phase = "collect"
    /\ IsError(current) => current.object \in seen
    /\ secretValues' = secretValues \cup IF current.is = "tail" THEN current.told \cap Echoes ELSE {}
    /\ seen' = {} /\ current' = given.head
    /\ IF secretValues' = {}
       THEN phase' = "thrown" /\ outgoing' = given.head
       ELSE phase' = "scrub" /\ UNCHANGED outgoing
    /\ UNCHANGED <<heap, chain, wired, declared, given>>

-----------------------------------------------------------------------------
(* registerLink *)

Redacted(text) == [field \in TextFields |-> text[field] \ secretValues]

\* The writes that are attempted: the name only if it changes, the cause only if there is one.
Attempted(o) ==
    {i \in DOMAIN Writes :
        /\ Writes[i] = "name" => heap[o].text["name"] \cap secretValues # {}
        /\ Writes[i] = "cause" => heap[o].cause # Absent}

\* The write at which they stop, if any: the response is read back at once.
Failing(o) ==
    {i \in Attempted(o) :
        /\ Writes[i] = heap[o].resists.slot
        /\ \/ heap[o].resists.how \in {"refuses", "throws"} \/ Writes[i] = "response"
           \/ heap[o].resists.how = "unreadable" /\ Writes[i] = "extras"}

\* The slots that are changed, also on a node that will not be kept.
Written(o) ==
    {Writes[i] : i \in {i \in Attempted(o) :
        /\ Writes[i] # heap[o].resists.slot
        /\ \A f \in Failing(o) : i < f}}

\* The node after the attempt.
After(o) ==
    [heap[o] EXCEPT
        !.text = [field \in TextFields |->
                    IF field \notin Written(o) THEN heap[o].text[field]
                    ELSE IF field = "extras" THEN {} ELSE heap[o].text[field] \ secretValues],
        !.cause = IF "cause" \in Written(o) THEN Undefined ELSE heap[o].cause]

\* A mutant of ReadsBack: a write of a text that reports success is trusted.
MutTrustsTexts(o) == After(o).cause \in {Absent, Undefined}

\* A mutant of ReadsBack: the cause is not read back.
MutTrustsCause(o) ==
    \A field \in {"name", "message", "stack"} :
        After(o).text[field] = heap[o].text[field] \ secretValues

\* Every field reads back as it was written.
ReadsBack(o) ==
    /\ \A field \in {"name", "message", "stack"} :
          After(o).text[field] = heap[o].text[field] \ secretValues
    /\ After(o).cause \in {Absent, Undefined}

InPlace(o) == Failing(o) = {} /\ ReadsBack(o)

\* A read or a write throws; what throws in stripExtraProperties is caught there.
Throws(o) ==
    /\ heap[o].resists.slot \notin {"response", "extras"}
    /\ \/ heap[o].resists.how = "unreadable"
       \/ heap[o].resists.how = "throws" /\ Failing(o) # {}

-----------------------------------------------------------------------------
(* scrubValuesFromErrorChain *)

Registered == {chain[i].node : i \in DOMAIN chain}

\* A mutant of Representative: a link leads to what was registered last.
MutLastRegistered(o) == chain[Len(chain)].representative

\* seen.get of the scrub.
Representative(o) ==
    chain[CHOOSE i \in DOMAIN chain : chain[i].node = o].representative

Walking ==
    /\ phase = "scrub" /\ wired = 0
    /\ IsError(current) /\ current.object \notin Registered

\* What a link becomes, and the object that stands for it from now on.
RegisterInPlace ==
    /\ Walking
    /\ LET o == current.object
       IN  /\ ~Throws(o) /\ InPlace(o)
           /\ heap' = [heap EXCEPT ![o] = After(o)]
           /\ chain' = Append(chain, [node |-> o, representative |-> o, cause |-> heap[o].cause])
           /\ current' = heap[o].cause
    /\ UNCHANGED <<phase, seen, wired, declared, secretValues, outgoing, given>>

RegisterCopy ==
    /\ Walking
    /\ LET o == current.object
       IN  /\ ~Throws(o) /\ ~InPlace(o)
           /\ heap' = [heap EXCEPT ![o] = After(o),
                                   ![CopyOf(o)] = RedactedCopy(Redacted(heap[o].text))]
           /\ chain' = Append(chain,
                [node |-> o, representative |-> CopyOf(o), cause |-> heap[o].cause])
           /\ current' = heap[o].cause
    /\ UNCHANGED <<phase, seen, wired, declared, secretValues, outgoing, given>>

\* Nothing can be trusted: a minimal copy, where the chain ends.
RegisterUnreadable ==
    /\ Walking
    /\ LET o == current.object
       IN  /\ Throws(o)
           /\ heap' = [heap EXCEPT
                ![o] = IF heap[o].resists.how = "unreadable" THEN heap[o] ELSE After(o),
                ![CopyOf(o)] = RedactedCopy(Holding({}))]
           /\ chain' = Append(chain,
                [node |-> o, representative |-> CopyOf(o), cause |-> Absent])
    /\ current' = Absent
    /\ UNCHANGED <<phase, seen, wired, declared, secretValues, outgoing, given>>

\* coerceRedacted for what is neither an error nor empty: only what it prints is kept.
Flattened(value) == IF value.is = "tail" THEN Word(value.printed \ secretValues) ELSE value

\* wireCauses, one link.
Wire ==
    /\ phase = "scrub" /\ ~Walking /\ wired < Len(chain)
    /\ wired' = wired + 1
    /\ LET link == chain[wired + 1]
           child == IF IsError(link.cause) THEN Link(Representative(link.cause.object))
                                           ELSE Flattened(link.cause)
       IN  heap' = IF link.cause = Absent THEN heap
                   ELSE [heap EXCEPT ![link.representative].cause = child]
    /\ UNCHANGED <<phase, current, seen, chain, declared, secretValues, outgoing, given>>

Return ==
    /\ phase = "scrub" /\ ~Walking /\ wired = Len(chain)
    /\ outgoing' = IF chain = <<>> THEN Flattened(current) ELSE Link(chain[1].representative)
    /\ phase' = IF given.last THEN "done" ELSE "thrown"
    /\ UNCHANGED <<heap, current, seen, chain, wired, declared, secretValues, given>>

-----------------------------------------------------------------------------
(* failedOutgoing of the OTP service: the second scrub *)

ScrubAgain(memory, head) ==
    /\ heap' = memory
    /\ given' = [heap |-> memory, head |-> head, last |-> TRUE]
    /\ current' = head /\ phase' = "scrub"
    /\ chain' = <<>> /\ wired' = 0
    /\ secretValues' = declared
    /\ UNCHANGED <<seen, declared, outgoing>>

\* releaseOtp succeeds: what was thrown is scrubbed as it is.
Released ==
    /\ phase = "thrown" /\ declared # {}
    /\ ScrubAgain(heap, outgoing)

\* releaseOtp throws: attachCauseIfAbsent keeps the delivery's error if it can.
CleanupFailed ==
    /\ phase = "thrown" /\ declared # {}
    /\ LET o == <<Cleanup, 0>>
           accepts == heap[o].cause = Absent /\ heap[o].resists.slot # "cause"
       IN  ScrubAgain(IF accepts THEN [heap EXCEPT ![o].cause = outgoing] ELSE heap, Link(o))

-----------------------------------------------------------------------------

ChainStart(rejection) ==
    /\ heap = [o \in Objects |-> IF o[2] = 0 THEN rejection.objects[o[1]]
                                            ELSE RedactedCopy(Holding({}))]
    /\ current = rejection.head /\ outgoing = Undefined
    /\ given = [heap |-> heap, head |-> rejection.head, last |-> FALSE]
    /\ seen = {} /\ chain = <<>> /\ wired = 0

ChainInit ==
    /\ \E rejection \in Rejections : ChainStart(rejection)
    /\ phase = "collect"
    /\ declared \in {{}, Code} /\ secretValues = declared

\* Nothing has been rejected.
ChainIdle ==
    /\ ChainStart([objects |-> [n \in Nodes |-> RedactedCopy(Holding({}))], head |-> Undefined])
    /\ phase = "idle"
    /\ declared = {} /\ secretValues = {}

ChainNext ==
    \/ CollectLink \/ CollectEnd
    \/ RegisterInPlace \/ RegisterCopy \/ RegisterUnreadable
    \/ Wire \/ Return
    \/ Released \/ CleanupFailed

ChainTypeOK ==
    /\ heap \in [Objects -> Shape]
    /\ phase \in {"idle", "collect", "scrub", "thrown", "done"}
    /\ current \in Causes /\ outgoing \in Causes
    /\ seen \subseteq Objects
    /\ wired \in 0 .. Len(chain)
    /\ declared \subseteq Code /\ secretValues \subseteq Secrets

-----------------------------------------------------------------------------
(* Properties *)

Clean(value, secrets) ==
    \A v \in Reachable(heap, value) :
        /\ IsError(v) => \A field \in TextFields : heap[v.object].text[field] \cap secrets = {}
        /\ v.is = "tail" => Carried(v) \cap secrets = {}

\* What an onlooker of a link can read of its message and its stack.
Visible(o) ==
    UNION {heap[o].text[field] : field \in {f \in {"message", "stack"} : ~Unreadable(o, f)}}

Left == phase \in {"thrown", "done"}

\* Whatever objects resist, and however the chain ends or loops: nothing that can be reached from
\* the thrown value holds a value that was to be removed ("the returned chain is guaranteed
\* code-free either way", redact.ts:240-242).
ThrownIsClean == Left => Clean(outgoing, secretValues)

\* No echo of the body leaves in a message or a stack of the chain, nor in what describeError
\* reads of a value at its end, not even when the caller declared nothing: the raw error passes
\* only if the walk that looked for echoes saw all these texts (email.service.ts:538-541).  Of the
\* other properties of an error or of a value nothing is said: the walk does not read them.
NoEchoLeaves ==
    Left => \A v \in Reachable(heap, outgoing) :
                /\ IsError(v) => Visible(v.object) \cap Echoes = {}
                /\ v.is = "tail" => v.told \cap Echoes = {}

\* Between any two steps of the scrub, an object that already stands for a link leads to nothing
\* unredacted: if pass 2 never came, it would be truncated, not leaking (redact.ts:348-353).
NeverHalfClean ==
    phase = "scrub" =>
        \A i \in DOMAIN chain : Clean(Link(chain[i].representative), secretValues)

\* The scrubbed chain has the shape of the one that was given: the same head, the same links and
\* kinds of tail in the same order, a loop that closes on the object that stands for its target;
\* only a link that threw ends it early.
ShapeKept ==
    LET now == {v \in Reachable(heap, outgoing) : IsError(v)}
        before == {v \in Reachable(given.heap, given.head) : IsError(v)}
        Alike(v, w) == v.is = w.is /\ (IsError(v) => v.object[1] = w.object[1])
        Hostile(w) == LET r == given.heap[w.object].resists
                      IN  r.how \in {"throws", "unreadable"} /\ r.slot \notin {"response", "extras"}
    IN  Left /\ secretValues # {} =>
            /\ Alike(outgoing, given.head)
            /\ \A v, w \in now : Alike(v, w) => v = w
            /\ \A v \in now : \E w \in before :
                  /\ Alike(v, w)
                  /\ \/ Alike(heap[v.object].cause, given.heap[w.object].cause)
                     \/ Hostile(w) /\ heap[v.object].cause = Absent

\* The second scrub finds nothing more to replace: what the first one threw keeps its objects, the
\* copies included (redact.ts:468-472), so that a holder of one sees what is thrown in the end.
SameObjects ==
    given.last =>
        \A i \in DOMAIN chain :
            chain[i].node[1] # Cleanup => chain[i].representative = chain[i].node

\* A rejection is answered, also when its causes form a loop.
Returns == phase = "collect" ~> Left

=============================================================================
