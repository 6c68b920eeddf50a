------------------------------- MODULE OtpForm -------------------------------
(***************************************************************************)
(* A component that uses both hooks, as the form of README.md:470-475      *)
(* does: they share its renders, and their effects run together.           *)
(***************************************************************************)
EXTENDS OtpInput, OtpCountdown

vars == <<inputVars, countdownVars>>

\* What the user and the component do with the slots.
Input ==
  /\ \/ \E i \in DOMAIN values, c \in Chars \union {Empty} : Change(i, c)
     \/ \E i \in DOMAIN values : Backspace(i)
     \/ \E n \in 0 .. length : \E filled \in [1 .. n -> Chars] : Paste(filled)
     \/ \E i \in DOMAIN valuesRef, c \in Chars \union {Empty} : SetValue(i, c)
     \/ Reset
     \/ Completed
  /\ UNCHANGED countdownVars

Render ==
  \E n \in Lengths, e \in Expiries \union {null}, l \in Lifetimes, p \in Intervals :
    InputRender(n) /\ CountdownRender(e, l, p)

Effects ==
  /\ resizeDue \/ effectDue
  /\ InputEffect /\ CountdownEffect

Clock ==
  /\ Tick \/ \E t \in timers : Fire(t)
  /\ UNCHANGED inputVars

Init == InputInit /\ CountdownInit

Next == Input \/ Render \/ Effects \/ Clock

\* React runs the effects that are due, the browser runs timers, time passes.
Spec ==
  /\ Init /\ [][Next]_vars
  /\ WF_vars(Effects)
  /\ WF_vars(Tick /\ UNCHANGED inputVars)
  /\ WF_vars((\E t \in timers : Fire(t)) /\ UNCHANGED inputVars)

=============================================================================
