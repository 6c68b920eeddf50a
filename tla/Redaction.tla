------------------------------ MODULE Redaction ------------------------------
(***************************************************************************)
(* The three ways a failed send is kept from saying what was in its body:  *)
(* a behaviour scrubs a text, scrubs a chain of errors (utils/redact.ts),  *)
(* or withholds the text (utils/delivery-status.ts).                       *)
(***************************************************************************)
EXTENDS TextScrub, ErrorScrub, WithheldText

vars == <<textVars, chainVars, withheldVars>>

Init ==
  \/ TextInit /\ ChainIdle /\ WithheldIdle
  \/ ChainInit /\ TextIdle /\ WithheldIdle
  \/ WithheldInit /\ TextIdle /\ ChainIdle

\* These run to their end without yielding.
Scrub ==
  \/ TextNext /\ UNCHANGED <<chainVars, withheldVars>>
  \/ ChainNext /\ UNCHANGED <<textVars, withheldVars>>

Withhold == WithheldNext /\ UNCHANGED <<textVars, chainVars>>

Next == Scrub \/ Withhold

Spec == Init /\ [][Next]_vars /\ WF_vars(Scrub)

TypeOK == TextTypeOK /\ ChainTypeOK /\ WithheldTypeOK

=============================================================================
