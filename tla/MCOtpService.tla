---------------------------- MODULE MCOtpService ----------------------------
(***************************************************************************)
(* Small instances of OtpService for TLC.  The calls of one kind are       *)
(* interchangeable: nothing in the code or the properties orders them.     *)
(* (Runs with Symmetry let all calls of a kind crash, or none.)            *)
(***************************************************************************)
EXTENDS OtpService, TLC

Symmetry ==
  Permutations(Generates \ BadLengthCalls) \union Permutations(Verifies) \union Permutations(Consumes)

=============================================================================
