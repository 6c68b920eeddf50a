------------------------------ MODULE OtpEntries ------------------------------
(***************************************************************************)
(* The data of an OTP storage, shared by the contract and the two storages *)
(* (src/src/server/interfaces/otp-storage.interface.ts): entries of one    *)
(* scope and the answers of the operations.  Lifetimes are ticks left.     *)
(***************************************************************************)
EXTENDS Integers

CONSTANTS
  Codes,        \* the codes that may be stored
  NoCode,       \* not a code
  MaxAttempts,  \* OtpEntry.maxAttempts
  Lifetimes,    \* lifetimes of entries, in ticks
  Cooldowns,    \* resend cooldowns, in seconds; 0 when none is configured
  Windows,      \* lifetimes of the failure counter, in seconds
  Second        \* ticks in a second

ASSUME StorageAssumption ==
  /\ NoCode \notin Codes
  /\ MaxAttempts \in Nat \ {0}
  /\ Lifetimes \subseteq Nat \ {0}
  /\ Cooldowns \subseteq Nat
  /\ Windows \subseteq Nat \ {0}
  /\ Second \in Nat \ {0}

\* OtpEntry; left stands for expiresAt less the time of now.
NoEntry == [code |-> NoCode, left |-> 0, attempts |-> 0, validated |-> FALSE]

Fresh(c, ttl) == [code |-> c, left |-> ttl, attempts |-> 0, validated |-> FALSE]

\* {...entry, validated: true} of a copy of the entry e that had counted a attempts.
Marked(e, a) == [e EXCEPT !.validated = TRUE, !.attempts = a]

Reply(op, status, code, number) ==
  [op |-> op, status |-> status, code |-> code, number |-> number]

Done(op) == Reply(op, "done", NoCode, 0)

=============================================================================
