---------------------------- MODULE OtpFormProofs ----------------------------
(***************************************************************************)
(* Proofs about the two hooks, as OtpForm composes them.  Each invariant   *)
(* speaks of one hook: a render and the effects are the only steps they    *)
(* share.                                                                  *)
(***************************************************************************)
EXTENDS OtpForm, SequenceTheorems, TLAPS

\* What a step of the form is to each hook.
InputStep ==
  \/ Input
  \/ \E n \in Lengths : InputRender(n)
  \/ InputEffect
  \/ UNCHANGED inputVars

CountdownStep ==
  \/ \E e \in Expiries \union {null}, l \in Lifetimes, p \in Intervals : CountdownRender(e, l, p)
  \/ CountdownEffect
  \/ Tick
  \/ \E t \in timers : Fire(t)
  \/ UNCHANGED countdownVars

LEMMA StepsSplit == [Next]_vars => InputStep /\ CountdownStep
BY DEF Next, vars, Input, Render, Effects, Clock, InputStep, CountdownStep

-----------------------------------------------------------------------------
(* The slots *)

Slots == Seq(Chars \union {Empty})

InputType ==
  /\ length \in Lengths /\ resizeDue \in BOOLEAN
  /\ values \in Slots /\ queued \in Slots /\ valuesRef \in Slots
  /\ deferred \in Seq(Slots)
  /\ submitted \in BOOLEAN /\ mixed \in BOOLEAN
  /\ resized \in BOOLEAN /\ overtaken \in BOOLEAN

\* Slots that are full were given to onComplete, or wait in the last completion.
Pending ==
  Full(queued) /\ ~resized =>
    IF deferred = <<>> THEN submitted ELSE deferred[Len(deferred)] = queued

\* The setter sees all that is queued, unless another update was queued since the last render.
Composed == ~mixed => valuesRef = queued

InputInv == InputType /\ Pending /\ Composed /\ SlotsFollowLength

LEMMA SlotsAre ==
  /\ \A n \in Lengths : n \in Nat /\ n > 0 /\ MakeEmptyValues(n) \in Slots
        /\ Len(MakeEmptyValues(n)) = n /\ ~Full(MakeEmptyValues(n))
  /\ \A s \in Slots, n \in Lengths :
        ResizeValues(s, n) \in Slots /\ Len(ResizeValues(s, n)) = n
  /\ \A s \in Slots : \A i \in DOMAIN s, c \in Chars \union {Empty} :
        ReplaceSlot(s, i, c) \in Slots /\ Len(ReplaceSlot(s, i, c)) = Len(s)
        /\ (c = Empty => ~Full(ReplaceSlot(s, i, c)))
<1>1. ASSUME NEW n \in Lengths
      PROVE  /\ n \in Nat /\ n > 0 /\ MakeEmptyValues(n) \in Slots
             /\ Len(MakeEmptyValues(n)) = n /\ ~Full(MakeEmptyValues(n))
  <2>1. n \in Nat /\ n > 0 /\ 1 \in 1 .. n
    BY InputAssumption
  <2>2. MakeEmptyValues(n) \in [1 .. n -> Chars \union {Empty}]
    BY DEF MakeEmptyValues
  <2> QED BY <2>1, <2>2, SeqDef, LenProperties DEF Slots, Full, MakeEmptyValues
<1>2. ASSUME NEW s \in Slots, NEW n \in Lengths
      PROVE  ResizeValues(s, n) \in Slots /\ Len(ResizeValues(s, n)) = n
  <2>1. n \in Nat
    BY InputAssumption
  <2>2. ResizeValues(s, n) \in [1 .. n -> Chars \union {Empty}]
    <3>1. \A i \in 1 .. n : i <= Len(s) => s[i] \in Chars \union {Empty}
      BY ElementOfSeq DEF Slots
    <3> QED BY <3>1 DEF ResizeValues
  <2> QED BY <2>1, <2>2, SeqDef, LenProperties DEF Slots
<1>3. ASSUME NEW s \in Slots, NEW i \in DOMAIN s, NEW c \in Chars \union {Empty}
      PROVE  /\ ReplaceSlot(s, i, c) \in Slots /\ Len(ReplaceSlot(s, i, c)) = Len(s)
             /\ c = Empty => ~Full(ReplaceSlot(s, i, c))
  <2>1. i \in 1 .. Len(s)
    BY LenProperties DEF Slots
  <2> QED BY <2>1, ExceptSeq DEF Slots, ReplaceSlot, Full
<1> QED BY <1>1, <1>2, <1>3

LEMMA InputStarts == InputInit => InputInv
<1> SUFFICES ASSUME InputInit PROVE InputInv
  OBVIOUS
<1> PICK blank : blank = MakeEmptyValues(length)
  OBVIOUS
<1>1. /\ length \in Lengths /\ values = blank /\ queued = blank /\ valuesRef = blank
      /\ resizeDue = TRUE /\ deferred = <<>> /\ deferred \in Seq(Slots)
      /\ submitted = FALSE /\ mixed = FALSE /\ resized = FALSE /\ overtaken = FALSE
  BY EmptySeq DEF InputInit
<1>2. blank \in Slots /\ ~Full(blank)
  BY <1>1, SlotsAre
<1> QED BY <1>1, <1>2 DEF InputInv, InputType, Pending, Composed, SlotsFollowLength

\* An update by a handler, the setter or reset, with its completion.
LEMMA CommitKeepsInv ==
  ASSUME InputInv, NEW next \in Slots, NEW who \in {"handler", "setValue", "reset"},
         Commit(next, who), UNCHANGED resizeDue,
         \/ who = "setValue" /\ valuesRef' = next
         \/ who # "setValue" /\ UNCHANGED valuesRef,
         \/ DeferComplete(next)
         \/ ~Full(next) /\ UNCHANGED deferred
  PROVE  InputInv'
<1>1. /\ queued' = next /\ mixed' = (mixed \/ who # "setValue") /\ resized' = FALSE
      /\ overtaken' = (overtaken \/ (~resizeDue /\ Len(next) # length))
      /\ submitted' = FALSE /\ UNCHANGED <<length, values>>
  BY DEF Commit
<1>2. deferred' = IF Full(next) THEN Append(deferred, next) ELSE deferred
  BY DEF DeferComplete
<1>3. Full(next) => /\ deferred' \in Seq(Slots) /\ deferred' # <<>>
                    /\ deferred'[Len(deferred')] = next
  BY <1>2, AppendProperties DEF InputInv, InputType
<1>4. InputType'
  BY <1>1, <1>2, <1>3 DEF InputInv, InputType
<1>5. Pending'
  BY <1>1, <1>3 DEF Pending, Full
<1>6. Composed' /\ SlotsFollowLength'
  BY <1>1 DEF InputInv, InputType, Composed, SlotsFollowLength
<1> QED BY <1>4, <1>5, <1>6 DEF InputInv

LEMMA InputUpdates ==
  ASSUME InputInv, Input
  PROVE  InputInv'
<1> USE SlotsAre
<1>1. /\ length \in Lengths /\ values \in Slots /\ valuesRef \in Slots /\ queued \in Slots
      /\ deferred \in Seq(Slots)
  BY DEF InputInv, InputType
<1>2. ASSUME NEW i \in DOMAIN values, NEW c \in Chars \union {Empty}, Change(i, c)
      PROVE InputInv'
  BY <1>1, <1>2, CommitKeepsInv DEF Change
<1>3. ASSUME NEW i \in DOMAIN values, Backspace(i)
      PROVE InputInv'
  <2>1. i - 1 \in DOMAIN values
    BY <1>1, <1>3, LenProperties DEF Backspace, Slots
  <2> QED BY <1>1, <1>3, <2>1, CommitKeepsInv DEF Backspace
<1>4. ASSUME NEW n \in 0 .. length, NEW filled \in [1 .. n -> Chars], Paste(filled)
      PROVE InputInv'
  <2>1. n \in Nat /\ \A i \in 1 .. n : filled[i] \in Chars \union {Empty}
    BY <1>1
  <2>2. filled \in Slots
    BY <2>1, SeqDef DEF Slots
  <2> QED BY <1>1, <1>4, <2>2, CommitKeepsInv DEF Paste
<1>5. ASSUME NEW i \in DOMAIN valuesRef, NEW c \in Chars \union {Empty}, SetValue(i, c)
      PROVE InputInv'
  BY <1>1, <1>5, CommitKeepsInv DEF SetValue, Mirrored
<1>6. CASE Reset
  BY <1>1, <1>6, CommitKeepsInv DEF Reset
<1>7. CASE Completed
  <2>1. /\ deferred # <<>> /\ submitted' = (Head(deferred) = queued) /\ deferred' = Tail(deferred)
        /\ UNCHANGED <<length, values, queued, valuesRef, resizeDue, mixed, resized, overtaken>>
    BY <1>7 DEF Completed
  <2>2. /\ deferred' \in Seq(Slots) /\ Len(deferred') = Len(deferred) - 1
        /\ Len(deferred) \in Nat \ {0} /\ Head(deferred) = deferred[1]
        /\ deferred' # <<>> => deferred'[Len(deferred')] = deferred[Len(deferred)]
        /\ deferred' = <<>> => Len(deferred) = 1
    <3>1. /\ Head(deferred) = deferred[1] /\ Tail(deferred) \in Seq(Slots)
          /\ Len(Tail(deferred)) = Len(deferred) - 1
          /\ \A i \in 1 .. Len(Tail(deferred)) : Tail(deferred)[i] = deferred[i + 1]
      BY <1>1, <2>1, HeadTailProperties
    <3>2. Len(deferred) \in Nat \ {0} /\ Len(Tail(deferred)) \in Nat
      BY <1>1, <2>1, <3>1, EmptySeq, LenProperties
    <3>3. Tail(deferred) = <<>> <=> Len(Tail(deferred)) = 0
      BY <3>1, EmptySeq
    <3> QED BY <2>1, <3>1, <3>2, <3>3
  <2>3. Pending'
    BY <2>1, <2>2 DEF InputInv, Pending, Full
  <2> QED BY <2>1, <2>2, <2>3 DEF InputInv, InputType, Composed, SlotsFollowLength
<1> QED BY <1>2, <1>3, <1>4, <1>5, <1>6, <1>7 DEF Input

LEMMA InputKeepsInv == InputInv /\ InputStep => InputInv'
<1> SUFFICES ASSUME InputInv, InputStep PROVE InputInv'
  OBVIOUS
<1>1. CASE Input
  BY <1>1, InputUpdates
<1>2. ASSUME NEW n \in Lengths, InputRender(n) PROVE InputInv'
  BY <1>2 DEF InputRender, InputInv, InputType, Pending, Composed, SlotsFollowLength, Full
<1>3. CASE InputEffect
  <2>1. CASE resizeDue /\ Len(queued) # length
    <3>1. /\ queued' = ResizeValues(queued, length) /\ mixed' = TRUE /\ resized' = TRUE
          /\ overtaken' = FALSE /\ submitted' = FALSE /\ resizeDue' = FALSE
          /\ UNCHANGED <<length, values, valuesRef, deferred>>
      BY <1>3, <2>1 DEF InputEffect, Commit, InputInv, InputType
    <3> QED BY <3>1, SlotsAre DEF InputInv, InputType, Pending, Composed, SlotsFollowLength
  <2>2. CASE ~(resizeDue /\ Len(queued) # length)
    BY <1>3, <2>2
    DEF InputEffect, inputHistory, InputInv, InputType, Pending, Composed, SlotsFollowLength, Full
  <2> QED BY <2>1, <2>2
<1>4. CASE UNCHANGED inputVars
  BY <1>4
  DEF inputVars, inputHistory, InputInv, InputType, Pending, Composed, SlotsFollowLength, Full
<1> QED BY <1>1, <1>2, <1>3, <1>4 DEF InputStep

LEMMA InputInvariant == Spec => []InputInv
BY InputStarts, StepsSplit, InputKeepsInv, PTL DEF Spec, Init

\* Slots that are shown full, with nothing queued or deferred, are those onComplete was given last,
\* for any length, any characters and any number of completions in flight (deferComplete).
THEOREM SubmittedIsShownHolds == Spec => []SubmittedIsShown
<1>1. InputInv => SubmittedIsShown
  BY DEF InputInv, Pending, SubmittedIsShown
<1> QED BY <1>1, InputInvariant, PTL

\* Whatever lengths the parent passes, and whatever is queued when it does, the effect leaves as
\* many slots as it asked for (useSlotValues).
THEOREM SlotsFollowLengthHolds == Spec => []SlotsFollowLength
<1>1. InputInv => SlotsFollowLength
  BY DEF InputInv
<1> QED BY <1>1, InputInvariant, PTL

\* Any number of setter calls between two renders add up (setValue: valuesRef).
THEOREM SettersComposeHolds == Spec => SettersCompose
<1>1. ASSUME InputInv
      PROVE [\A i \in DOMAIN valuesRef, c \in Chars \union {Empty} :
               SetValue(i, c) /\ ~mixed => queued' = ReplaceSlot(queued, i, c)]_inputVars
  BY <1>1 DEF InputInv, Composed, SetValue, Commit
<1> QED BY <1>1, InputInvariant, PTL DEF SettersCompose

-----------------------------------------------------------------------------
(* The countdown *)

Timer == [of : Expiries, wait : Nat, every : Intervals]

CountdownType ==
  /\ issued \in 0 .. MaxExpiries /\ expiresAt \in 0 .. issued
  /\ left \in [Expiries -> Nat] /\ tickInterval \in Intervals
  /\ effectDue \in BOOLEAN
  /\ timers \subseteq Timer
  /\ fired \in [Expiries -> Nat]

\* There is at most one interval: of the current expiry, except between a render and its effect.
OneTimer ==
  /\ \A t, u \in timers : t = u
  /\ \A t \in timers : t.of <= issued /\ (effectDue \/ t.of = expiresAt)

CountdownInv == CountdownType /\ OneTimer

\* With one tickIntervalMs the effect runs once for an expiry, and an interval that has reported
\* is gone: what may still report has not.
Silent ==
  /\ \A t \in timers : fired[t.of] = 0
  /\ \A e \in Expiries : e > issued => fired[e] = 0
  /\ effectDue /\ expiresAt # null =>
        fired[expiresAt] = 0 /\ \A t \in timers : t.of # expiresAt

LEMMA CountdownStarts == CountdownInit => CountdownInv /\ Silent /\ ExpiredOnce
BY CountdownAssumption
DEF CountdownInit, CountdownInv, CountdownType, OneTimer, Silent, ExpiredOnce, Expiries, null

\* What a step may make of the intervals: they age, go on or go; or the effect starts one.
LEMMA TimersMove ==
  ASSUME CountdownInv
  PROVE  /\ CountdownEffect /\ effectDue =>
               /\ timers' \subseteq Timer /\ \A t, u \in timers' : t = u
               /\ \A t \in timers' : t.of = expiresAt /\ fired' = fired
         /\ Tick \/ (\E t \in timers : Fire(t)) =>
               /\ timers' \subseteq Timer /\ \A t, u \in timers' : t = u
               /\ \A t \in timers' : \E u \in timers : u.of = t.of /\ fired'[t.of] = fired[t.of]
<1> USE CountdownAssumption DEF CountdownInv, CountdownType, OneTimer, Timer
<1>1. ASSUME CountdownEffect, effectDue
      PROVE  /\ timers' \subseteq Timer /\ \A t, u \in timers' : t = u
             /\ \A t \in timers' : t.of = expiresAt /\ fired' = fired
  <2>1. expiresAt # null => NewTimer \in Timer /\ NewTimer.of = expiresAt
    BY DEF NewTimer, Expiries, null
  <2> QED BY <1>1, <2>1 DEF CountdownEffect, Kept
<1>2. ASSUME Tick
      PROVE  /\ timers' \subseteq Timer /\ \A t, u \in timers' : t = u
             /\ \A t \in timers' : \E u \in timers : u.of = t.of /\ fired'[t.of] = fired[t.of]
  <2>1. \A t \in timers : /\ [t EXCEPT !.wait = Less(t.wait)] \in Timer
                          /\ [t EXCEPT !.wait = Less(t.wait)].of = t.of
    BY DEF Less
  <2> QED BY <1>2, <2>1 DEF Tick
<1>3. ASSUME NEW u \in timers, Fire(u)
      PROVE  /\ timers' \subseteq Timer /\ \A t, w \in timers' : t = w
             /\ \A t \in timers' : \E w \in timers : w.of = t.of /\ fired'[t.of] = fired[t.of]
  <2>1. [u EXCEPT !.wait = u.every] \in Timer /\ [u EXCEPT !.wait = u.every].of = u.of
    OBVIOUS
  <2>2. timers \ {u} = {}
    OBVIOUS
  <2> QED BY <1>3, <2>1, <2>2 DEF Fire, Ended
<1> QED BY <1>1, <1>2, <1>3

LEMMA CountdownKeepsInv == CountdownInv /\ CountdownStep => CountdownInv'
<1> SUFFICES ASSUME CountdownInv, CountdownStep PROVE CountdownInv'
  OBVIOUS
<1> USE CountdownAssumption DEF CountdownInv, CountdownType, OneTimer, Expiries, null
<1>1. ASSUME NEW e \in Expiries \union {null}, NEW l \in Lifetimes, NEW p \in Intervals,
             CountdownRender(e, l, p)
      PROVE  CountdownInv'
  <2>1. \A t \in timers : t.of \in Nat /\ t.of <= issued
    BY DEF Timer
  <2>2. /\ expiresAt' = e /\ tickInterval' = p /\ effectDue' \in BOOLEAN
        /\ e # expiresAt => effectDue'
        /\ UNCHANGED <<timers, fired>> /\ ~effectDue
    BY <1>1 DEF CountdownRender
  <2>3. CASE e \in {expiresAt, null} /\ UNCHANGED <<issued, left>>
    <3>1. expiresAt' \in 0 .. issued' /\ issued' \in 0 .. MaxExpiries /\ left' \in [Expiries -> Nat]
      BY <2>2, <2>3
    <3>2. \A t \in timers : t.of <= issued' /\ (effectDue' \/ t.of = expiresAt')
      BY <2>1, <2>2, <2>3
    <3> QED BY <2>2, <3>1, <3>2
  <2>4. CASE e = issued + 1 /\ e \in Expiries /\ issued' = e /\ left' = [left EXCEPT ![e] = l]
    <3>1. issued' \in 0 .. MaxExpiries /\ e \in 0 .. issued' /\ left' \in [Expiries -> Nat]
      BY <2>4
    <3>2. effectDue' /\ \A t \in timers : t.of <= issued'
      BY <2>1, <2>2, <2>4
    <3> QED BY <2>2, <3>1, <3>2
  <2> QED BY <1>1, <2>3, <2>4 DEF CountdownRender
<1>2. CASE CountdownEffect
  <2>1. CASE effectDue
    <3>1. fired' \in [Expiries -> Nat] /\ effectDue' = FALSE
          /\ UNCHANGED <<expiresAt, issued, left, tickInterval>>
      BY <1>2, <2>1, SMTT(30) DEF CountdownEffect, ExpiredAtOnce, OnExpired
    <3>2. /\ timers' \subseteq Timer
          /\ \A t, u \in timers' : t = u
          /\ \A t \in timers' : t.of = expiresAt
      BY <1>2, <2>1, TimersMove
    <3>3. \A t \in timers' : t.of <= issued' /\ t.of = expiresAt'
      BY <3>1, <3>2
    <3> QED BY <3>1, <3>2, <3>3
  <2>2. CASE ~effectDue
    BY <1>2, <2>2 DEF CountdownEffect
  <2> QED BY <2>1, <2>2
<1>3. CASE Tick
  <2>1. left' \in [Expiries -> Nat]
        /\ UNCHANGED <<expiresAt, issued, tickInterval, effectDue, fired>>
    BY <1>3 DEF Tick, Less
  <2>2. timers' \subseteq Timer /\ (\A t, u \in timers' : t = u)
        /\ \A t \in timers' : \E u \in timers : u.of = t.of
    BY <1>3, TimersMove
  <2> QED BY <2>1, <2>2
<1>4. ASSUME NEW t \in timers, Fire(t) PROVE CountdownInv'
  <2>1. t.of \in Expiries
    BY DEF Timer
  <2>2. fired' \in [Expiries -> Nat]
        /\ UNCHANGED <<expiresAt, issued, left, tickInterval, effectDue>>
    BY <1>4, <2>1, SMTT(30) DEF Fire, OnExpired
  <2>3. timers' \subseteq Timer /\ (\A u, w \in timers' : u = w)
        /\ \A u \in timers' : \E w \in timers : w.of = u.of
    BY <1>4, TimersMove
  <2> QED BY <2>2, <2>3
<1>5. CASE UNCHANGED countdownVars
  BY <1>5 DEF countdownVars
<1> QED BY <1>1, <1>2, <1>3, <1>4, <1>5 DEF CountdownStep

LEMMA CountdownInvariant == Spec => []CountdownInv
BY CountdownStarts, StepsSplit, CountdownKeepsInv, PTL DEF Spec, Init

\* An expiry that was replaced is not reported once the effect has run, however late the timers
\* are and whatever intervals the parent passes (the cleanup of the effect).
THEOREM NoStaleCallHolds == Spec => NoStaleCall
<1>1. ASSUME CountdownInv, [Next]_vars
      PROVE  [\A e \in Expiries : fired'[e] > fired[e] => e = expiresAt \/ effectDue]_countdownVars
  <2> SUFFICES ASSUME CountdownStep, NEW e \in Expiries, fired'[e] > fired[e], ~effectDue
               PROVE  e = expiresAt
    BY <1>1, StepsSplit
  <2>1. PICK t \in timers : Fire(t)
    BY <1>1 DEF CountdownStep, CountdownRender, CountdownEffect, Tick, countdownVars, CountdownInv,
                CountdownType
  <2> QED BY <1>1, <2>1 DEF Fire, OnExpired, CountdownInv, CountdownType, OneTimer
<1> QED BY <1>1, CountdownInvariant, PTL DEF Spec, NoStaleCall

LEMMA CountdownStaysSilent ==
  ASSUME \A p, q \in Intervals : p = q, CountdownInv, Silent, ExpiredOnce, CountdownStep
  PROVE  (Silent /\ ExpiredOnce)'
<1> USE CountdownAssumption
    DEF CountdownInv, CountdownType, OneTimer, Silent, ExpiredOnce, Expiries, null
<1>1. ASSUME NEW e \in Expiries \union {null}, NEW l \in Lifetimes, NEW p \in Intervals,
             CountdownRender(e, l, p)
      PROVE  (Silent /\ ExpiredOnce)'
  BY <1>1 DEF CountdownRender
<1>2. CASE CountdownEffect
  BY <1>2, SMTT(30) DEF CountdownEffect, Kept, NewTimer, ExpiredAtOnce, OnExpired
<1>3. CASE Tick
  <2>1. UNCHANGED <<expiresAt, issued, effectDue, fired>>
    BY <1>3 DEF Tick
  <2>2. \A t \in timers' : \E u \in timers : u.of = t.of
    BY <1>3, TimersMove
  <2> QED BY <2>1, <2>2
<1>4. ASSUME NEW t \in timers, Fire(t) PROVE (Silent /\ ExpiredOnce)'
  <2>1. t.of \in Expiries /\ t.of <= issued /\ fired[t.of] = 0
    BY DEF Timer
  <2>2. \A u \in timers' : u.of = t.of /\ fired'[u.of] = fired[u.of]
    BY <1>4, TimersMove
  <2>3. fired' \in [Expiries -> Nat] /\ fired'[t.of] \in {0, 1}
        /\ \A e \in Expiries : e # t.of => fired'[e] = fired[e]
    BY <1>4, <2>1 DEF Fire, OnExpired
  <2> QED BY <1>4, <2>1, <2>2, <2>3, SMTT(30) DEF Fire
<1>5. CASE UNCHANGED countdownVars
  BY <1>5 DEF countdownVars
<1> QED BY <1>1, <1>2, <1>3, <1>4, <1>5 DEF CountdownStep

\* With a tickIntervalMs that does not change, onExpired is called at most once for every expiry,
\* for any number of expiries, lifetimes and late timers (useOtpCountdown).
THEOREM ExpiredOnceHolds ==
  ASSUME \A p, q \in Intervals : p = q
  PROVE  Spec => []ExpiredOnce
<1>1. Init => CountdownInv /\ Silent /\ ExpiredOnce
  BY CountdownStarts DEF Init
<1>2. CountdownInv /\ Silent /\ ExpiredOnce /\ [Next]_vars =>
        (CountdownInv /\ Silent /\ ExpiredOnce)'
  BY StepsSplit, CountdownKeepsInv, CountdownStaysSilent
<1> QED BY <1>1, <1>2, PTL DEF Spec

=============================================================================
