------------------------------- MODULE OtpInput -------------------------------
(***************************************************************************)
(* The slots of src/src/react/useOtpInput.ts.  React is external and is    *)
(* modelled by what the hook relies on: updates of a state are queued and  *)
(* take effect at the next render, effects run some time after the render  *)
(* that made them due and before the next one, microtasks run in order.    *)
(* The handlers see the values of the last render; the imperative setter   *)
(* sees valuesRef.  A character is one that passed the filter, normalised; *)
(* focus is left out.                                                      *)
(***************************************************************************)
EXTENDS Naturals, Sequences

CONSTANTS
  Chars,       \* accepted characters
  Empty,       \* ''
  Lengths,     \* what the parent may pass for length
  MaxDeferred  \* bound: completions that wait for their microtask

ASSUME InputAssumption ==
  Empty \notin Chars /\ Lengths \subseteq Nat \ {0} /\ MaxDeferred \in Nat \ {0}

VARIABLES
  length,     \* of the last render
  values,     \* of the last render, and of the handlers made in it
  queued,     \* the slots with all queued updates applied: those of the next render
  valuesRef,
  resizeDue,  \* the effect on [length] has not run since the render that changed it
  deferred,   \* completions whose microtask has not run
  \* History:
  submitted,  \* onComplete was given the slots after their last update
  mixed,      \* others than the setter updated the slots since the last render
  resized,    \* the last update was the effect's
  overtaken   \* slots of an old length were written after the effect had run

inputHistory == <<submitted, mixed, resized, overtaken>>
inputVars == <<length, values, queued, valuesRef, resizeDue, deferred, inputHistory>>

MakeEmptyValues(n) == [i \in 1 .. n |-> Empty]

\* A mutant of ResizeValues: no slot is added.
MutResizeTrimsOnly(slots, n) == SubSeq(slots, 1, IF n < Len(slots) THEN n ELSE Len(slots))

ResizeValues(slots, n) == [i \in 1 .. n |-> IF i <= Len(slots) THEN slots[i] ELSE Empty]

ReplaceSlot(slots, i, c) == [slots EXCEPT ![i] = c]

Full(slots) == \A i \in DOMAIN slots : slots[i] # Empty

-----------------------------------------------------------------------------

\* setValues(next), by a handler, the setter, reset or the effect.
Commit(next, who) ==
  /\ queued' = next
  /\ mixed' = (mixed \/ who # "setValue")
  /\ resized' = (who = "resize")
  /\ overtaken' = (who # "resize" /\ (overtaken \/ (~resizeDue /\ Len(next) # length)))
  /\ submitted' = FALSE
  /\ UNCHANGED <<length, values>>

\* A mutant of DeferComplete: the completion is given the slots as they were rendered.
MutCompletesRendered(next) ==
  deferred' = IF Full(next) THEN Append(deferred, values) ELSE deferred

\* deferComplete, with autoSubmit.
DeferComplete(next) ==
  /\ Full(next) => Len(deferred) < MaxDeferred
  /\ deferred' = IF Full(next) THEN Append(deferred, next) ELSE deferred

\* onChange: a character, or '' that clears the slot.
Change(i, c) ==
  LET next == ReplaceSlot(values, i, c) IN
  /\ Commit(next, "handler")
  /\ DeferComplete(next)
  /\ UNCHANGED <<valuesRef, resizeDue>>

\* onKeyDown with Backspace in an empty slot that is not the first.
Backspace(i) ==
  /\ i > 1 /\ values[i] = Empty
  /\ Commit(ReplaceSlot(values, i - 1, Empty), "handler")
  /\ UNCHANGED <<valuesRef, resizeDue, deferred>>

\* onPaste: as many characters as there are slots, the rest emptied.
Paste(filled) ==
  LET next == ResizeValues(filled, length) IN
  /\ Commit(next, "handler")
  /\ DeferComplete(next)
  /\ UNCHANGED <<valuesRef, resizeDue>>

\* A mutant of Mirrored: the setter leaves valuesRef to the next render.
MutNotMirrored(next) == valuesRef

\* valuesRef.current after the setter.
Mirrored(next) == next

SetValue(i, c) ==
  LET next == ReplaceSlot(valuesRef, i, c) IN
  /\ Commit(next, "setValue")
  /\ valuesRef' = Mirrored(next)
  /\ DeferComplete(next)
  /\ UNCHANGED resizeDue

\* reset leaves valuesRef to the next render.
Reset ==
  /\ Commit(MakeEmptyValues(length), "reset")
  /\ UNCHANGED <<valuesRef, resizeDue, deferred>>

\* A render with the length n.
InputRender(n) ==
  /\ ~resizeDue
  /\ length' = n /\ resizeDue' = (n # length)
  /\ values' = queued /\ valuesRef' = queued
  /\ mixed' = FALSE
  /\ UNCHANGED <<queued, deferred, submitted, resized, overtaken>>

\* The effect on [length] gives React a function of the slots queued so far.
InputEffect ==
  /\ resizeDue' = FALSE
  /\ IF resizeDue /\ Len(queued) # length
     THEN Commit(ResizeValues(queued, length), "resize")
     ELSE UNCHANGED <<length, values, queued, inputHistory>>
  /\ UNCHANGED <<valuesRef, deferred>>

\* The microtask of a completion.
Completed ==
  /\ deferred # <<>>
  /\ submitted' = (Head(deferred) = queued)
  /\ deferred' = Tail(deferred)
  /\ UNCHANGED <<length, values, queued, valuesRef, resizeDue, mixed, resized, overtaken>>

InputInit ==
  /\ length \in Lengths
  /\ values = MakeEmptyValues(length) /\ queued = values /\ valuesRef = values
  /\ resizeDue = TRUE
  /\ deferred = <<>>
  /\ submitted = FALSE /\ mixed = FALSE /\ resized = FALSE /\ overtaken = FALSE

-----------------------------------------------------------------------------

\* What is shown is what was submitted: when every slot is filled and nothing is queued or
\* deferred, onComplete has been given just these slots since their last update, in whatever
\* order handlers, setter, renders and microtasks ran (deferComplete, useSlotValues).  Slots that
\* are full only because the effect trimmed them complete nothing.
SubmittedIsShown ==
  Full(values) /\ queued = values /\ deferred = <<>> /\ ~resized => submitted

\* Successive calls of the setter compose without a render: none loses what another wrote, as
\* long as no handler, reset or resize updated the slots in between ("composes successive
\* synchronous writes without an extra render").
SettersCompose ==
  [][\A i \in DOMAIN valuesRef, c \in Chars \union {Empty} :
       SetValue(i, c) /\ ~mixed => queued' = ReplaceSlot(queued, i, c)]_inputVars

\* The slots follow the length: once the effect has run there are, or will be at the next render,
\* as many as the parent asked for, whatever was queued before it, unless a handler or the setter
\* that still had slots of the old length overwrote them afterwards (useSlotValues: "keep slot
\* state sized to `length`").
SlotsFollowLength == ~resizeDue /\ ~overtaken => Len(queued) = length

=============================================================================
