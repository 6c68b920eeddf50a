--------------------------- MODULE OtpServiceProofs ---------------------------
(***************************************************************************)
(* What TLAPS proves about OtpService for every set of calls and every     *)
(* configuration: type correctness, the attempt budget, the range of       *)
(* remainingAttempts, that a failed generate leaves nothing behind; where  *)
(* a stored code may come from, that an ended one does not return, and how *)
(* often one is compared; that the resend lock excludes; and that what the *)
(* calls do to the storage is what its contract has operations for.        *)
(***************************************************************************)
EXTENDS OtpService, FiniteSetTheorems, TLAPS

\* A call that goes on reaches one of the labels named, and no other call moves.
LEMMA GoReaches ==
  ASSUME pc \in [Calls -> Labels], NEW c \in Calls, NEW L, L \subseteq Labels, Go(c, L)
  PROVE  /\ pc' \in [Calls -> Labels]
         /\ pc'[c] \in L
         /\ \A d \in Calls : d # c => pc'[d] = pc[d]
BY DEF Go

\* A call whose storage reply may be lost reaches one of the labels, or the error label.
LEMMA SettleReaches ==
  ASSUME pc \in [Calls -> Labels], NEW c \in Calls, NEW L, L \subseteq Labels,
         NEW e \in Labels, Settle(c, L, e)
  PROVE  /\ pc' \in [Calls -> Labels]
         /\ pc'[c] \in L \union {e}
         /\ \A d \in Calls : d # c => pc'[d] = pc[d]
BY GoReaches DEF Settle

\* An audited answer is the answer itself or the audit failure.
LEMMA AuditedLabels ==
  ASSUME NEW r
  PROVE  Audited(r) \subseteq {r, "audit_failed"}
BY DEF Audited

\* What Put leaves in the storage: the entry it was given, or none.
LEMMA PutLeaves ==
  ASSUME NEW e \in Entry, retired \subseteq Generates, otp \in Entry, Put(e)
  PROVE  /\ otp' \in {e, NoEntry}
         /\ otp' \in Entry
         /\ retired' \subseteq Generates
BY DEF Put, Entry, NoEntry

\* The absence of an entry is itself a value of the store.
LEMMA NoEntryIsEntry == NoEntry \in Entry
BY DEF NoEntry, Entry

-----------------------------------------------------------------------------

\* The empty store and idle calls are well typed.
LEMMA InitTypeOK == Init => TypeOK
BY NoEntryIsEntry
   DEF Init, TypeOK, Labels, Calls, NoLock, NoFailures

\* A step of generate keeps every variable in its type.
LEMMA GenerateTypeOK ==
  ASSUME TypeOK, NEW g \in Generates, Generate(g)
  PROVE  TypeOK'
<1> g \in Calls /\ pc \in [Calls -> Labels]  BY DEF Calls, TypeOK
<1> USE ConfigAssumption
<1>1. CASE GenerateAcquire(g)
  <2>1. cooldown' \in [left : Nat, owner : Generates \union {NoCode}]
    BY <1>1 DEF GenerateAcquire, TypeOK, Lock, NoLock
  <2>2. pc' \in [Calls -> Labels]
    BY <1>1, SettleReaches DEF GenerateAcquire, Labels, Answers
  <2> QED  BY <1>1, <2>1, <2>2 DEF GenerateAcquire, TypeOK, locals, history
<1>2. CASE GenerateBlocked(g)
  <2>1. pc' \in [Calls -> Labels]
    BY <1>2, SettleReaches, AuditedLabels DEF GenerateBlocked, Labels, Answers
  <2> QED  BY <1>2, <2>1 DEF GenerateBlocked, TypeOK, store, locals, history
<1>3. CASE GenerateBadLength(g)
  <2>1. pc' \in [Calls -> Labels]
    BY <1>3, GoReaches DEF GenerateBadLength, Labels, Answers
  <2> QED  BY <1>3, <2>1 DEF GenerateBadLength, TypeOK, store, locals, history
<1>4. CASE GenerateStore(g)
  <2>1. NewEntry(g) \in Entry  BY DEF NewEntry, Entry, Calls
  <2>2. otp' \in Entry /\ retired' \subseteq Generates
    BY <1>4, <2>1, PutLeaves DEF GenerateStore, TypeOK
  <2>3. pc' \in [Calls -> Labels]
    BY <1>4, SettleReaches DEF GenerateStore, Labels
  <2> QED  BY <1>4, <2>2, <2>3 DEF GenerateStore, TypeOK, locals
<1>5. CASE GenerateDelivered(g)
  <2>1. pc' \in [Calls -> Labels]
    BY <1>5, GoReaches, AuditedLabels DEF GenerateDelivered, Labels, Answers
  <2> QED  BY <1>5, <2>1 DEF GenerateDelivered, TypeOK, store, locals
<1>6. CASE GenerateUndelivered(g)
  <2>1. pc' \in [Calls -> Labels]
    BY <1>6, GoReaches DEF GenerateUndelivered, Labels
  <2> QED  BY <1>6, <2>1 DEF GenerateUndelivered, TypeOK, store, locals
<1>7. CASE GenerateRelease(g)
  <2>1. pc' \in [Calls -> Labels]
    BY <1>7, SettleReaches DEF GenerateRelease, Labels, Answers
  <2> QED  BY <1>7, <2>1 DEF GenerateRelease, TypeOK, locals, history, NoLock
<1>8. CASE GenerateDelete(g)
  <2>1. otp' \in Entry /\ retired' \subseteq Generates
    BY <1>8, NoEntryIsEntry, PutLeaves DEF GenerateDelete, TypeOK
  <2>2. pc' \in [Calls -> Labels]
    BY <1>8, SettleReaches, AuditedLabels DEF GenerateDelete, Labels, Answers
  <2> QED  BY <1>8, <2>1, <2>2 DEF GenerateDelete, TypeOK, locals
<1> QED  BY <1>1, <1>2, <1>3, <1>4, <1>5, <1>6, <1>7, <1>8 DEF Generate

\* Counting on an entry or marking it validated gives an entry.
LEMMA EntryEdits ==
  ASSUME NEW e \in Entry, NEW n \in Nat, NEW i \in Int, NEW o \in Calls
  PROVE  /\ [e EXCEPT !.attempts = n] \in Entry
         /\ [e EXCEPT !.left = i] \in Entry
         /\ [e EXCEPT !.validated = TRUE, !.obj = o] \in Entry
BY DEF Entry

\* Spend counts one attempt on the stored entry, and on every copy that is the same object.
LEMMA SpendTypes ==
  ASSUME TypeOK, NEW v \in Verifies, Spend(v)
  PROVE  /\ otp' = [otp EXCEPT !.attempts = otp.attempts + 1]
         /\ otp' \in Entry
         /\ otp'.attempts = otp.attempts + 1
         /\ held' \in [Verifies -> Entry]
         /\ held'[v] = otp'
         /\ \A w \in Verifies : held'[w].attempts \in {held[w].attempts, otp'.attempts}
<1> DEFINE spent == [otp EXCEPT !.attempts = otp.attempts + 1]
<1>1. spent \in Entry /\ spent.attempts = otp.attempts + 1  BY SMTT(30) DEF TypeOK, Entry
<1>2. \A w \in Verifies : [held[w] EXCEPT !.attempts = spent.attempts] \in Entry
  BY <1>1 DEF TypeOK, Entry
<1>3. otp' = spent  BY DEF Spend
<1>4. held' = [w \in Verifies |->
                 IF w = v THEN spent
                 ELSE IF SeenBy(w) THEN [held[w] EXCEPT !.attempts = spent.attempts]
                 ELSE held[w]]
  BY DEF Spend
<1>5. held' \in [Verifies -> Entry]  BY <1>1, <1>2, <1>4 DEF TypeOK
<1>6. ASSUME NEW w \in Verifies
      PROVE  held'[w].attempts \in {held[w].attempts, spent.attempts}
  <2>1. held[w] \in Entry  BY DEF TypeOK
  <2>2. [held[w] EXCEPT !.attempts = spent.attempts].attempts = spent.attempts
    BY <2>1 DEF Entry
  <2> QED  BY <1>4, <2>2
<1> QED  BY <1>1, <1>3, <1>4, <1>5, <1>6

\* Clearing the failure counter keeps it, and the epoch, in their types.
LEMMA ClearFailuresTypes ==
  ASSUME TypeOK, ClearFailures
  PROVE  failures' \in [count : Nat, left : Nat] /\ epoch' \in Nat
BY DEF TypeOK, ClearFailures, NoFailures

\* A step of verify keeps every variable in its type.
LEMMA VerifyTypeOK ==
  ASSUME TypeOK, NEW v \in Verifies, Verify(v)
  PROVE  TypeOK'
<1> v \in Calls /\ pc \in [Calls -> Labels]  BY DEF Calls, TypeOK
<1> USE ConfigAssumption
<1>1. CASE VerifyBegin(v)
  <2>1. pc' \in [Calls -> Labels]
    BY <1>1, GoReaches DEF VerifyBegin, Labels
  <2>2. guess' \in [Verifies -> Generates \union {NoCode}]
    BY <1>1 DEF VerifyBegin, TypeOK
  <2> QED  BY <1>1, <2>1, <2>2 DEF VerifyBegin, TypeOK, store, history
<1>2. CASE VerifyLookup(v)
  <2>1. pc' \in [Calls -> Labels]
    BY <1>2, SettleReaches, AuditedLabels DEF VerifyLookup, Labels, Answers
  <2> QED  BY <1>2, <2>1 DEF VerifyLookup, TypeOK, store, locals, history
<1>3. CASE VerifyCount(v)
  <2>1. pc' \in [Calls -> Labels]
    BY <1>3, SettleReaches, AuditedLabels DEF VerifyCount, Labels, Answers
  <2>2. /\ failures' \in [count : Nat, left : Nat]
        /\ attempt' \in [Verifies -> Nat]
        /\ epochOf' \in [Verifies -> Nat]
    BY <1>3 DEF VerifyCount, TypeOK
  <2> QED  BY <1>3, <2>1, <2>2 DEF VerifyCount, TypeOK
<1>4. CASE VerifyRefused(v)
  <2>1. otp' \in Entry /\ retired' \subseteq Generates
    BY <1>4, NoEntryIsEntry, PutLeaves DEF VerifyRefused, TypeOK
  <2>2. pc' \in [Calls -> Labels]
    BY <1>4, SettleReaches, AuditedLabels DEF VerifyRefused, Labels, Answers
  <2> QED  BY <1>4, <2>1, <2>2 DEF VerifyRefused, TypeOK, locals
<1>5. CASE VerifyCompare(v)
  <2>1. otp' \in Entry /\ held' \in [Verifies -> Entry]
    BY <1>5, SpendTypes DEF VerifyCompare
  <2>2. compared' \in [Verifies -> Generates \union {NoCode}]
    BY <1>5 DEF VerifyCompare, TypeOK, Entry
  <2>3. pc' \in [Calls -> Labels]
    BY <1>5, SettleReaches DEF VerifyCompare, Labels, Answers
  <2> QED  BY <1>5, <2>1, <2>2, <2>3 DEF VerifyCompare, TypeOK
<1>6. CASE VerifyMismatch(v)
  <2>1. held[v].attempts \in Nat /\ attempt[v] \in Nat  BY DEF TypeOK, Entry
  <2>2. remaining' \in [Verifies -> Int]
    BY <1>6, <2>1 DEF VerifyMismatch, TypeOK, Lesser
  <2>3. pc' \in [Calls -> Labels]
    BY <1>6, GoReaches, AuditedLabels DEF VerifyMismatch, Labels, Answers
  <2> QED  BY <1>6, <2>2, <2>3 DEF VerifyMismatch, TypeOK, store, history
<1>7. CASE VerifyClear(v)
  <2>1. pc' \in [Calls -> Labels]
    BY <1>7, SettleReaches DEF VerifyClear, Labels, Answers
  <2> QED  BY <1>7, <2>1, ClearFailuresTypes DEF VerifyClear, TypeOK, locals
<1>8. CASE VerifyFinalizeDelete(v)
  <2>1. otp' \in Entry /\ retired' \subseteq Generates
    BY <1>8, NoEntryIsEntry, PutLeaves DEF VerifyFinalizeDelete, TypeOK
  <2>2. pc' \in [Calls -> Labels]
    BY <1>8, SettleReaches DEF VerifyFinalizeDelete, Labels, Answers
  <2> QED  BY <1>8, <2>1, <2>2 DEF VerifyFinalizeDelete, TypeOK, locals
<1>9. CASE VerifyUnlock(v)
  <2>1. pc' \in [Calls -> Labels]
    BY <1>9, SettleReaches, AuditedLabels DEF VerifyUnlock, Labels, Answers
  <2> QED  BY <1>9, <2>1 DEF VerifyUnlock, TypeOK, locals, history, NoLock
<1>10. CASE VerifyFinalizeUpdate(v)
  <2>1. Validated(v) \in Entry  BY EntryEdits DEF Validated, TypeOK
  <2>2. otp' \in Entry /\ retired' \subseteq Generates
    BY <1>10, <2>1, NoEntryIsEntry, PutLeaves DEF VerifyFinalizeUpdate, TypeOK
  <2>3. pc' \in [Calls -> Labels]
    BY <1>10, SettleReaches, AuditedLabels DEF VerifyFinalizeUpdate, Labels, Answers
  <2> QED  BY <1>10, <2>2, <2>3 DEF VerifyFinalizeUpdate, TypeOK, locals
<1> QED  BY <1>1, <1>2, <1>3, <1>4, <1>5, <1>6, <1>7, <1>8, <1>9, <1>10 DEF Verify

\* A step of consume keeps every variable in its type.
LEMMA ConsumeTypeOK ==
  ASSUME TypeOK, NEW c \in Consumes, Consume(c)
  PROVE  TypeOK'
<1> c \in Calls /\ pc \in [Calls -> Labels]  BY DEF Calls, TypeOK
<1>1. CASE ConsumeDelete(c)
  <2>1. otp' \in Entry /\ retired' \subseteq Generates
    BY <1>1, NoEntryIsEntry, PutLeaves DEF ConsumeDelete, TypeOK
  <2>2. pc' \in [Calls -> Labels]
    BY <1>1, SettleReaches DEF ConsumeDelete, Labels, Answers
  <2> QED  BY <1>1, <2>1, <2>2 DEF ConsumeDelete, TypeOK, locals
<1>2. CASE ConsumeUnlock(c)
  <2>1. pc' \in [Calls -> Labels]
    BY <1>2, SettleReaches DEF ConsumeUnlock, Labels, Answers
  <2> QED  BY <1>2, <2>1 DEF ConsumeUnlock, TypeOK, locals, history, NoLock
<1>3. CASE ConsumeClear(c)
  <2>1. pc' \in [Calls -> Labels]
    BY <1>3, SettleReaches DEF ConsumeClear, Labels, Answers
  <2> QED  BY <1>3, <2>1, ClearFailuresTypes DEF ConsumeClear, TypeOK, locals
<1> QED  BY <1>1, <1>2, <1>3 DEF Consume

\* An entry that ages is the same entry, nearer to its end.
LEMMA AgedIsEntry ==
  ASSUME NEW e \in Entry
  PROVE  Aged(e) \in Entry /\ Aged(e).attempts = e.attempts /\ Aged(e).code = e.code
BY DEF Aged, Entry

\* The passing of time keeps every variable in its type.
LEMMA TickTypeOK == TypeOK /\ Tick => TypeOK'
<1> SUFFICES ASSUME TypeOK, Tick PROVE TypeOK'
  OBVIOUS
<1>1. Aged(otp) \in Entry
  BY AgedIsEntry DEF TypeOK
<1>2. otp' \in Entry /\ retired' \subseteq Generates
  BY <1>1, PutLeaves DEF Tick, TypeOK
<1>3. cooldown' \in [left : Nat, owner : Generates \union {NoCode}]
  BY DEF Tick, LapsedLock, NoLock, TypeOK
<1>4. failures' \in [count : Nat, left : Nat] /\ epoch' \in Nat
  BY ClearFailuresTypes DEF Tick, TypeOK
<1>5. held' \in [Verifies -> Entry]
  BY AgedIsEntry DEF Tick, TypeOK
<1> QED  BY <1>2, <1>3, <1>4, <1>5 DEF Tick, TypeOK

\* A rejected storage operation and a crash move one call and nothing else.
LEMMA EnvironmentTypeOK ==
  ASSUME TypeOK, NEW c \in Calls, StorageRejects(c) \/ Crash(c)
  PROVE  TypeOK'
<1> pc \in [Calls -> Labels]  BY DEF TypeOK
<1>1. CASE StorageRejects(c)
  <2>1. pc' \in [Calls -> Labels]
    BY <1>1, GoReaches DEF StorageRejects, AfterRejection, Labels, Answers
  <2> QED  BY <1>1, <2>1 DEF StorageRejects, TypeOK, store, locals, history
<1>2. CASE Crash(c)
  <2>1. pc' \in [Calls -> Labels]
    BY <1>2, GoReaches DEF Crash, Labels, Answers
  <2> QED  BY <1>2, <2>1 DEF Crash, TypeOK, store, locals, history
<1> QED  BY <1>1, <1>2

\* Stuttering keeps every variable in its type.
LEMMA StutterTypeOK == TypeOK /\ UNCHANGED vars => TypeOK'
BY DEF TypeOK, vars, store, locals, history

\* TypeOK is inductive.
LEMMA NextTypeOK == TypeOK /\ [Next]_vars => TypeOK'
BY GenerateTypeOK, VerifyTypeOK, ConsumeTypeOK, EnvironmentTypeOK, TickTypeOK, StutterTypeOK
   DEF Next

\* Every reachable state of the OTP lifecycle is well typed, for any number of calls.
THEOREM TypeCorrect == Spec => []TypeOK
BY InitTypeOK, NextTypeOK, PTL DEF Spec

-----------------------------------------------------------------------------
(* The attempt budget.  AttemptBudget is not inductive: it says nothing of *)
(* the calls that have a number and have not compared yet.  The invariant  *)
(* below adds that numbers are given out once per epoch, none of them      *)
(* above the counter, and that only a number within the ceiling compares.  *)

Counted(v) == attempt[v] # 0

NumbersWithinCounter ==
  \A v \in Verifies : Counted(v) =>
    /\ epochOf[v] <= epoch
    /\ epochOf[v] = epoch => attempt[v] <= failures.count

NumbersDistinct ==
  \A v, w \in Verifies :
    v # w /\ Counted(v) /\ Counted(w) /\ epochOf[v] = epochOf[w] => attempt[v] # attempt[w]

NotYetCounted ==
  \A v \in Verifies : pc[v] \in {"idle", "looking", "counting"} => ~Counted(v)

ComparesWithinCeiling ==
  CarriesFailures =>
    \A v \in Verifies :
      pc[v] = "consuming" \/ compared[v] # NoCode => attempt[v] \in 1 .. MaxAttempts

BudgetInv ==
  NumbersWithinCounter /\ NumbersDistinct /\ NotYetCounted /\ ComparesWithinCeiling

\* Nothing has been counted or compared at the start.
LEMMA InitBudgetInv == Init => BudgetInv
BY DEF Init, BudgetInv, NumbersWithinCounter, NumbersDistinct, NotYetCounted,
       ComparesWithinCeiling, Counted, Calls

\* The counter and the epoch moved together: it was cleared, if it counted anything.
LEMMA ClearKeepsNumbers ==
  ASSUME TypeOK, NumbersWithinCounter, ClearFailures, UNCHANGED <<attempt, epochOf>>
  PROVE  NumbersWithinCounter'
BY DEF TypeOK, NumbersWithinCounter, ClearFailures, NoFailures, Counted

\* What every step that does not count or compare leaves alone.
LEMMA OtherStepsKeepBudget ==
  ASSUME TypeOK, BudgetInv, UNCHANGED <<attempt, epochOf, compared>>,
         NEW c \in Calls, \A d \in Verifies : d # c => pc'[d] = pc[d],
         c \in Verifies => pc'[c] \notin {"idle", "counting", "looking", "consuming"},
         UNCHANGED <<failures, epoch>> \/ ClearFailures
  PROVE  BudgetInv'
<1>1. NumbersWithinCounter'
  BY ClearKeepsNumbers DEF BudgetInv, NumbersWithinCounter, Counted
<1>2. NumbersDistinct'  BY DEF BudgetInv, NumbersDistinct, Counted
<1>3. NotYetCounted'  BY DEF BudgetInv, NotYetCounted, Counted
<1>4. ComparesWithinCeiling'  BY DEF BudgetInv, ComparesWithinCeiling
<1> QED  BY <1>1, <1>2, <1>3, <1>4 DEF BudgetInv

\* Generate counts and compares nothing.
LEMMA GenerateKeepsBudget ==
  ASSUME TypeOK, BudgetInv, NEW g \in Generates, Generate(g)
  PROVE  BudgetInv'
<1> g \in Calls /\ g \notin Verifies  BY CallsAssumption DEF Calls
<1>1. UNCHANGED <<attempt, epochOf, compared, failures, epoch>>
  BY DEF Generate, GenerateAcquire, GenerateBlocked, GenerateBadLength, GenerateStore,
         GenerateDelivered, GenerateUndelivered, GenerateRelease, GenerateDelete,
         store, locals, history
<1>2. \A d \in Verifies : d # g => pc'[d] = pc[d]
  BY DEF TypeOK, Generate, GenerateAcquire, GenerateBlocked, GenerateBadLength, GenerateStore,
         GenerateDelivered, GenerateUndelivered, GenerateRelease, GenerateDelete, Settle, Go, Calls
<1> QED  BY <1>1, <1>2, OtherStepsKeepBudget

\* Consume only ends the epoch.
LEMMA ConsumeKeepsBudget ==
  ASSUME TypeOK, BudgetInv, NEW c \in Consumes, Consume(c)
  PROVE  BudgetInv'
<1> c \in Calls /\ c \notin Verifies  BY CallsAssumption DEF Calls
<1>1. UNCHANGED <<attempt, epochOf, compared>>
  BY DEF Consume, ConsumeDelete, ConsumeUnlock, ConsumeClear, locals, history
<1>2. UNCHANGED <<failures, epoch>> \/ ClearFailures
  BY DEF Consume, ConsumeDelete, ConsumeUnlock, ConsumeClear, history
<1>3. \A d \in Verifies : d # c => pc'[d] = pc[d]
  BY DEF TypeOK, Consume, ConsumeDelete, ConsumeUnlock, ConsumeClear, Settle, Go, Calls
<1> QED  BY <1>1, <1>2, <1>3, OtherStepsKeepBudget

\* Faults count and compare nothing.
LEMMA EnvironmentKeepsBudget ==
  ASSUME TypeOK, BudgetInv, NEW c \in Calls, StorageRejects(c) \/ Crash(c)
  PROVE  BudgetInv'
<1>1. UNCHANGED <<attempt, epochOf, compared, failures, epoch>>
  BY DEF StorageRejects, Crash, store, locals, history
<1>2. \E l \in {"releasing", "cleanup_failed", "threw", "crashed"} :
        pc' = [pc EXCEPT ![c] = l]
  BY DEF StorageRejects, AfterRejection, Crash, Go
<1> QED  BY <1>1, <1>2, OtherStepsKeepBudget DEF TypeOK, Calls

\* A counter that lapses only ends the epoch.
LEMMA TickKeepsBudget ==
  ASSUME TypeOK, BudgetInv, Tick
  PROVE  BudgetInv'
<1>1. UNCHANGED <<attempt, epochOf, compared, pc>>  BY DEF Tick
<1>2. (failures'.count = failures.count /\ UNCHANGED epoch) \/ ClearFailures
  BY DEF Tick, TypeOK
<1>3. NumbersWithinCounter'
  BY <1>1, <1>2, ClearKeepsNumbers DEF BudgetInv, NumbersWithinCounter, Counted
<1> QED  BY <1>1, <1>3 DEF BudgetInv, NumbersDistinct, NotYetCounted, ComparesWithinCeiling, Counted

\* The step that counts: the number it takes is above every number of this epoch.
LEMMA CountKeepsBudget ==
  ASSUME TypeOK, BudgetInv, NEW v \in Verifies, VerifyCount(v)
  PROVE  BudgetInv'
<1> v \in Calls  BY DEF Calls
<1> DEFINE n == failures.count + 1
<1>1. /\ attempt' = [attempt EXCEPT ![v] = n]
      /\ epochOf' = [epochOf EXCEPT ![v] = epoch]
      /\ failures'.count = n
      /\ UNCHANGED <<epoch, compared>>
  BY DEF VerifyCount
<1>2. n \in Nat /\ n # 0 /\ attempt \in [Verifies -> Nat] /\ epochOf \in [Verifies -> Nat]
  BY DEF TypeOK
<1>3. ~Counted(v)  BY DEF BudgetInv, NotYetCounted, VerifyCount
<1>4. \A d \in Verifies : d # v => pc'[d] = pc[d]
  BY DEF VerifyCount, Settle, Go, TypeOK, Calls
<1>5. pc'[v] \in {"max_attempts", "audit_failed", "consuming", "threw"}
  BY SettleReaches, AuditedLabels DEF VerifyCount, Settle, Go, Labels, Answers, TypeOK
<1>6. pc'[v] = "consuming" => n <= MaxAttempts
  <2>1. CASE OverCeiling(n)
    BY <2>1, AuditedLabels DEF VerifyCount, Settle, Go, TypeOK
  <2>2. CASE ~OverCeiling(n)
    BY <1>2, <2>2, ConfigAssumption DEF OverCeiling
  <2> QED  BY <2>1, <2>2
<1>7. NumbersWithinCounter'
  BY <1>1, <1>2 DEF BudgetInv, NumbersWithinCounter, Counted, TypeOK
<1>8. NumbersDistinct'
  BY <1>1, <1>2 DEF BudgetInv, NumbersWithinCounter, NumbersDistinct, Counted, TypeOK
<1>9. NotYetCounted'
  BY <1>1, <1>2, <1>4, <1>5 DEF BudgetInv, NotYetCounted, Counted
<1>10. ComparesWithinCeiling'
  <2>1. CarriesFailures => (compared[v] # NoCode => attempt[v] \in 1 .. MaxAttempts)
    BY DEF BudgetInv, ComparesWithinCeiling
  <2>2. CarriesFailures => compared[v] = NoCode
    BY <1>3, <2>1, ConfigAssumption DEF Counted
  <2> QED
    BY <1>1, <1>2, <1>4, <1>6, <2>2, ConfigAssumption DEF BudgetInv, ComparesWithinCeiling
<1> QED  BY <1>7, <1>8, <1>9, <1>10 DEF BudgetInv

\* A step of verify keeps the numbers distinct and those compared within the ceiling.
LEMMA VerifyKeepsBudget ==
  ASSUME TypeOK, BudgetInv, NEW v \in Verifies, Verify(v)
  PROVE  BudgetInv'
<1> v \in Calls  BY DEF Calls
<1> pc \in [Calls -> Labels]  BY DEF TypeOK
<1>1. CASE VerifyBegin(v)
  <2>1. UNCHANGED <<attempt, epochOf, compared, failures, epoch>>
    BY <1>1 DEF VerifyBegin, store, history
  <2>2. /\ pc'[v] \in {"looking", "consuming"}
        /\ CarriesFailures => pc'[v] = "looking"
        /\ \A d \in Verifies : d # v => pc'[d] = pc[d]
    BY <1>1 DEF VerifyBegin, Go, Calls
  <2>3. ~Counted(v)  BY <1>1 DEF VerifyBegin, BudgetInv, NotYetCounted
  <2> QED
    BY <2>1, <2>2, <2>3
       DEF BudgetInv, NumbersWithinCounter, NumbersDistinct, NotYetCounted,
           ComparesWithinCeiling, Counted
<1>2. CASE VerifyLookup(v)
  <2>1. UNCHANGED <<attempt, epochOf, compared, failures, epoch>>
    BY <1>2 DEF VerifyLookup, store, locals, history
  <2>2. /\ pc'[v] # "consuming"
        /\ \A d \in Verifies : d # v => pc'[d] = pc[d]
    BY <1>2, AuditedLabels DEF VerifyLookup, Settle, Go, Calls
  <2>3. ~Counted(v)  BY <1>2 DEF VerifyLookup, BudgetInv, NotYetCounted
  <2> QED
    BY <2>1, <2>2, <2>3
       DEF BudgetInv, NumbersWithinCounter, NumbersDistinct, NotYetCounted,
           ComparesWithinCeiling, Counted
<1>3. CASE VerifyCount(v)
  BY <1>3, CountKeepsBudget
<1>4. CASE VerifyCompare(v)
  <2>1. /\ UNCHANGED <<attempt, epochOf, failures, epoch>>
        /\ compared' = [compared EXCEPT ![v] = otp.code]
    BY <1>4 DEF VerifyCompare
  <2>2. /\ pc'[v] \in {"clearing", "mismatch", "threw"}
        /\ \A d \in Verifies : d # v => pc'[d] = pc[d]
    BY <1>4 DEF VerifyCompare, Settle, Go, Calls
  <2>3. CarriesFailures => attempt[v] \in 1 .. MaxAttempts
    BY <1>4 DEF VerifyCompare, BudgetInv, ComparesWithinCeiling
  <2>4. ComparesWithinCeiling'
    BY <2>1, <2>2, <2>3 DEF BudgetInv, ComparesWithinCeiling, TypeOK
  <2> QED
    BY <2>1, <2>2, <2>4 DEF BudgetInv, NumbersWithinCounter, NumbersDistinct, NotYetCounted, Counted
<1>5. CASE VerifyClear(v)
  <2>1. UNCHANGED <<attempt, epochOf, compared>> /\ ClearFailures
    BY <1>5 DEF VerifyClear, locals
  <2>2. pc'[v] \in {"finalizing", "threw"} /\ \A d \in Verifies : d # v => pc'[d] = pc[d]
    BY <1>5 DEF VerifyClear, Settle, Go, Calls
  <2> QED  BY <2>1, <2>2, OtherStepsKeepBudget
<1>6. CASE \/ VerifyRefused(v) \/ VerifyMismatch(v) \/ VerifyFinalizeDelete(v)
           \/ VerifyUnlock(v) \/ VerifyFinalizeUpdate(v)
  <2>1. UNCHANGED <<attempt, epochOf, compared, failures, epoch>>
    BY <1>6 DEF VerifyRefused, VerifyMismatch, VerifyFinalizeDelete, VerifyUnlock,
                VerifyFinalizeUpdate, store, locals, history
  <2>2. \E l \in {"max_attempts", "not_found", "invalid_code", "unlocking", "valid",
                  "audit_failed", "threw"} : pc' = [pc EXCEPT ![v] = l]
    BY <1>6, AuditedLabels
       DEF VerifyRefused, VerifyMismatch, VerifyFinalizeDelete, VerifyUnlock,
           VerifyFinalizeUpdate, Settle, Go
  <2> QED  BY <2>1, <2>2, OtherStepsKeepBudget DEF Calls
<1> QED  BY <1>1, <1>2, <1>3, <1>4, <1>5, <1>6 DEF Verify

\* BudgetInv is inductive, given the types.
LEMMA NextBudgetInv == TypeOK /\ BudgetInv /\ [Next]_vars => BudgetInv'
<1>1. TypeOK /\ BudgetInv /\ UNCHANGED vars => BudgetInv'
  BY DEF vars, store, locals, history, BudgetInv, NumbersWithinCounter, NumbersDistinct,
         NotYetCounted, ComparesWithinCeiling, Counted
<1> QED
  BY <1>1, GenerateKeepsBudget, VerifyKeepsBudget, ConsumeKeepsBudget, EnvironmentKeepsBudget,
     TickKeepsBudget DEF Next

\* The numbers of the calls that compared in one epoch are distinct and within the ceiling, so
\* there are at most as many calls as the ceiling.
LEMMA DistinctNumbersBound == TypeOK /\ BudgetInv => AttemptBudget
<1> SUFFICES ASSUME TypeOK, BudgetInv, CarriesFailures, NEW e \in 0 .. epoch
             PROVE  Cardinality(ComparedIn(e)) <= MaxAttempts
  BY DEF AttemptBudget
<1> DEFINE number == [v \in ComparedIn(e) |-> attempt[v]]
<1>1. \A v \in ComparedIn(e) : attempt[v] \in 1 .. MaxAttempts
  BY DEF BudgetInv, ComparesWithinCeiling, ComparedIn
<1>2. \A v, w \in ComparedIn(e) : v # w => attempt[v] # attempt[w]
  BY <1>1 DEF BudgetInv, NumbersDistinct, ComparedIn, Counted
<1>3. number \in Injection(ComparedIn(e), 1 .. MaxAttempts)
  BY <1>1, <1>2 DEF Injection, IsInjective
<1>4. IsFiniteSet(1 .. MaxAttempts) /\ Cardinality(1 .. MaxAttempts) = MaxAttempts
  BY FS_Interval, ConfigAssumption
<1>5. Cardinality(ComparedIn(e)) <= Cardinality(1 .. MaxAttempts)
  BY <1>3, <1>4, FS_Injection
<1> QED  BY <1>4, <1>5

\* However many verifications overlap, whatever is issued, consumed, crashed or lost meanwhile,
\* no epoch of the failure counter compares more guesses than the ceiling.
THEOREM AttemptBudgetHolds == Spec => []AttemptBudget
<1>1. Init => TypeOK /\ BudgetInv  BY InitTypeOK, InitBudgetInv
<1>2. TypeOK /\ BudgetInv /\ [Next]_vars => (TypeOK /\ BudgetInv)'
  BY NextTypeOK, NextBudgetInv
<1>3. TypeOK /\ BudgetInv => AttemptBudget  BY DistinctNumbersBound
<1> QED  BY <1>1, <1>2, <1>3, PTL DEF Spec

-----------------------------------------------------------------------------
(* The range of remainingAttempts.  A mismatch answers from an entry that  *)
(* other calls may have counted on since, and from the call's own number.  *)

MismatchSpentOne ==
  \A v \in Verifies : pc[v] = "mismatch" =>
    held[v].attempts >= 1 /\ (CarriesFailures => attempt[v] \in 1 .. MaxAttempts)

RangeInv == RemainingInRange /\ MismatchSpentOne

\* No entry is held and no answer given at the start.
LEMMA InitRangeInv == Init => RangeInv
BY ConfigAssumption
   DEF Init, RangeInv, RemainingInRange, MismatchSpentOne, NoEntry, Calls

\* Steps that write no entry but those the storage or a call already had, or a fresh one.
LEMMA OtherStepsKeepRange ==
  ASSUME TypeOK, RangeInv, NEW c \in Calls, UNCHANGED <<attempt, remaining>>,
         \A d \in Verifies : d # c => pc'[d] = pc[d],
         c \in Verifies => pc'[c] \notin {"mismatch", "invalid_code"},
         otp'.attempts = 0 \/ otp'.attempts = otp.attempts
           \/ \E v \in Verifies : otp'.attempts = held[v].attempts,
         \A v \in Verifies : held'[v].attempts = held[v].attempts
  PROVE  RangeInv'
BY ConfigAssumption DEF TypeOK, RangeInv, RemainingInRange, MismatchSpentOne

\* Generate stores entries with nothing spent.
LEMMA GenerateKeepsRange ==
  ASSUME TypeOK, RangeInv, NEW g \in Generates, Generate(g)
  PROVE  RangeInv'
<1> g \in Calls /\ g \notin Verifies  BY CallsAssumption DEF Calls
<1>1. UNCHANGED locals
  BY DEF Generate, GenerateAcquire, GenerateBlocked, GenerateBadLength, GenerateStore,
         GenerateDelivered, GenerateUndelivered, GenerateRelease, GenerateDelete
<1>2. \A d \in Verifies : d # g => pc'[d] = pc[d]
  BY DEF TypeOK, Generate, GenerateAcquire, GenerateBlocked, GenerateBadLength, GenerateStore,
         GenerateDelivered, GenerateUndelivered, GenerateRelease, GenerateDelete, Settle, Go, Calls
<1>3. otp'.attempts = 0 \/ UNCHANGED otp
  BY DEF Generate, GenerateAcquire, GenerateBlocked, GenerateBadLength, GenerateStore,
         GenerateDelivered, GenerateUndelivered, GenerateRelease, GenerateDelete, Put, NoEntry,
         NewEntry, store
<1> QED  BY <1>1, <1>2, <1>3, OtherStepsKeepRange DEF locals

\* Consume only removes the entry.
LEMMA ConsumeKeepsRange ==
  ASSUME TypeOK, RangeInv, NEW c \in Consumes, Consume(c)
  PROVE  RangeInv'
<1> c \in Calls /\ c \notin Verifies  BY CallsAssumption DEF Calls
<1>1. UNCHANGED locals /\ (otp'.attempts = 0 \/ UNCHANGED otp)
  BY DEF Consume, ConsumeDelete, ConsumeUnlock, ConsumeClear, Put, NoEntry
<1>2. \A d \in Verifies : d # c => pc'[d] = pc[d]
  BY DEF TypeOK, Consume, ConsumeDelete, ConsumeUnlock, ConsumeClear, Settle, Go, Calls
<1> QED  BY <1>1, <1>2, OtherStepsKeepRange DEF locals

\* Faults write no entry and give no invalid_code answer.
LEMMA EnvironmentKeepsRange ==
  ASSUME TypeOK, RangeInv, NEW c \in Calls, StorageRejects(c) \/ Crash(c)
  PROVE  RangeInv'
<1>1. UNCHANGED <<locals, otp>>  BY DEF StorageRejects, Crash, store
<1>2. \E l \in {"releasing", "cleanup_failed", "threw", "crashed"} :
        pc' = [pc EXCEPT ![c] = l]
  BY DEF StorageRejects, AfterRejection, Crash, Go
<1> QED  BY <1>1, <1>2, OtherStepsKeepRange DEF TypeOK, Calls, locals

\* Ageing spends no attempt.
LEMMA TickKeepsRange ==
  ASSUME TypeOK, RangeInv, Tick
  PROVE  RangeInv'
<1>1. UNCHANGED <<pc, attempt, remaining>>  BY DEF Tick
<1>2. otp'.attempts \in {0, otp.attempts}
  BY AgedIsEntry DEF Tick, Put, NoEntry, TypeOK
<1>3. \A v \in Verifies : held'[v].attempts = held[v].attempts
  BY AgedIsEntry DEF Tick, TypeOK
<1> QED  BY <1>1, <1>2, <1>3, ConfigAssumption DEF RangeInv, RemainingInRange, MismatchSpentOne

\* Verify compares below the ceiling and computes remainingAttempts within it.
LEMMA VerifyKeepsRange ==
  ASSUME TypeOK, BudgetInv, RangeInv, NEW v \in Verifies, Verify(v)
  PROVE  RangeInv'
<1> v \in Calls  BY DEF Calls
<1> pc \in [Calls -> Labels]  BY DEF TypeOK
<1>1. CASE VerifyCount(v)
  <2>1. /\ UNCHANGED <<otp, held, remaining>>
        /\ \A w \in Verifies : w # v => attempt'[w] = attempt[w]
    BY <1>1 DEF VerifyCount, TypeOK
  <2>2. /\ pc'[v] \notin {"mismatch", "invalid_code"}
        /\ \A d \in Verifies : d # v => pc'[d] = pc[d]
    BY <1>1, AuditedLabels DEF VerifyCount, Settle, Go, Calls
  <2> QED  BY <2>1, <2>2 DEF RangeInv, RemainingInRange, MismatchSpentOne
<1>2. CASE VerifyCompare(v)
  <2>1. /\ otp'.attempts = otp.attempts + 1 /\ held'[v] = otp'
        /\ \A w \in Verifies : held'[w].attempts \in {held[w].attempts, otp'.attempts}
    BY <1>2, SpendTypes DEF VerifyCompare
  <2>2. otp.attempts \in Nat /\ otp.attempts < MaxAttempts
    BY <1>2 DEF VerifyCompare, HasBudget, TypeOK, Entry
  <2>3. CarriesFailures => attempt[v] \in 1 .. MaxAttempts
    BY <1>2 DEF VerifyCompare, BudgetInv, ComparesWithinCeiling
  <2>4. /\ UNCHANGED <<attempt, remaining>>
        /\ pc'[v] # "invalid_code"
        /\ \A d \in Verifies : d # v => pc'[d] = pc[d]
    BY <1>2 DEF VerifyCompare, Settle, Go, Calls
  <2>5. RemainingInRange'
    BY <2>1, <2>2, <2>4, ConfigAssumption DEF RangeInv, RemainingInRange
  <2>6. \A w \in Verifies : held[w].attempts \in Nat  BY DEF TypeOK, Entry
  <2>7. MismatchSpentOne'
    BY <2>1, <2>2, <2>3, <2>4, <2>6 DEF RangeInv, MismatchSpentOne
  <2> QED  BY <2>5, <2>7 DEF RangeInv
<1>3. CASE VerifyMismatch(v)
  <2>1. UNCHANGED <<otp, held, attempt>>  BY <1>3 DEF VerifyMismatch, store
  <2>2. /\ pc'[v] # "mismatch"
        /\ \A d \in Verifies : d # v => pc'[d] = pc[d]
    BY <1>3, AuditedLabels DEF VerifyMismatch, Go, Calls
  <2>3. held[v].attempts \in 1 .. MaxAttempts
    BY <1>3 DEF VerifyMismatch, RangeInv, RemainingInRange, MismatchSpentOne, TypeOK, Entry
  <2>4. CarriesFailures => attempt[v] \in 1 .. MaxAttempts
    BY <1>3 DEF VerifyMismatch, RangeInv, MismatchSpentOne
  <2>5. /\ remaining'[v] \in 0 .. MaxAttempts - 1
        /\ \A w \in Verifies : w # v => remaining'[w] = remaining[w]
    BY <1>3, <2>3, <2>4, ConfigAssumption DEF VerifyMismatch, Lesser, TypeOK
  <2> QED  BY <2>1, <2>2, <2>5 DEF RangeInv, RemainingInRange, MismatchSpentOne
<1>4. CASE VerifyFinalizeUpdate(v)
  <2>1. otp'.attempts = 0 \/ otp'.attempts = held[v].attempts
    BY <1>4 DEF VerifyFinalizeUpdate, Put, Validated, NoEntry, TypeOK, Entry
  <2>2. UNCHANGED locals  BY <1>4 DEF VerifyFinalizeUpdate
  <2>3. /\ pc'[v] \notin {"mismatch", "invalid_code"}
        /\ \A d \in Verifies : d # v => pc'[d] = pc[d]
    BY <1>4, AuditedLabels DEF VerifyFinalizeUpdate, Settle, Go, Calls
  <2> QED  BY <2>1, <2>2, <2>3, OtherStepsKeepRange DEF locals
<1>5. CASE \/ VerifyBegin(v) \/ VerifyLookup(v) \/ VerifyRefused(v) \/ VerifyClear(v)
           \/ VerifyFinalizeDelete(v) \/ VerifyUnlock(v)
  <2>1. UNCHANGED <<attempt, remaining, held>>
    BY <1>5 DEF VerifyBegin, VerifyLookup, VerifyRefused, VerifyClear, VerifyFinalizeDelete,
                VerifyUnlock, locals
  <2>2. otp'.attempts = 0 \/ UNCHANGED otp
    BY <1>5 DEF VerifyBegin, VerifyLookup, VerifyRefused, VerifyClear, VerifyFinalizeDelete,
                VerifyUnlock, Put, NoEntry, store
  <2>3. \E l \in {"looking", "consuming", "counting", "max_attempts", "not_found",
                  "finalizing", "unlocking", "valid", "audit_failed", "threw"} :
           pc' = [pc EXCEPT ![v] = l]
    BY <1>5, AuditedLabels
       DEF VerifyBegin, VerifyLookup, VerifyRefused, VerifyClear, VerifyFinalizeDelete,
           VerifyUnlock, Settle, Go
  <2> QED  BY <2>1, <2>2, <2>3, OtherStepsKeepRange DEF Calls
<1> QED  BY <1>1, <1>2, <1>3, <1>4, <1>5 DEF Verify

\* RangeInv is inductive, given the types and BudgetInv.
LEMMA NextRangeInv == TypeOK /\ BudgetInv /\ RangeInv /\ [Next]_vars => RangeInv'
<1>1. RangeInv /\ UNCHANGED vars => RangeInv'
  BY DEF vars, store, locals, RangeInv, RemainingInRange, MismatchSpentOne
<1> QED
  BY <1>1, GenerateKeepsRange, VerifyKeepsRange, ConsumeKeepsRange, EnvironmentKeepsRange,
     TickKeepsRange DEF Next

\* remainingAttempts is never negative and never promises the whole ceiling, whatever other
\* verifications counted between the comparison and the answer.
THEOREM RemainingInRangeHolds == Spec => []RemainingInRange
<1>1. Init => TypeOK /\ BudgetInv /\ RangeInv  BY InitTypeOK, InitBudgetInv, InitRangeInv
<1>2. TypeOK /\ BudgetInv /\ RangeInv /\ [Next]_vars => (TypeOK /\ BudgetInv /\ RangeInv)'
  BY NextTypeOK, NextBudgetInv, NextRangeInv
<1>3. RangeInv => RemainingInRange  BY DEF RangeInv
<1> QED  BY <1>1, <1>2, <1>3, PTL DEF Spec

-----------------------------------------------------------------------------
(* A generate that failed.  Between the release of the lock and the answer *)
(* no other call can give the lock or the code back to it.                 *)

FailInv ==
  /\ \A g \in Generates : pc[g] \in {"deleting", "failed"} => cooldown.owner # g
  /\ \A g \in Generates : pc[g] = "failed" => otp.code # g

\* A step that makes no call failed and gives neither a lock nor a code to another call.
LEMMA OtherStepsKeepFail ==
  ASSUME TypeOK, FailInv, NEW c \in Calls,
         \A d \in Calls : d # c => pc'[d] = pc[d],
         c \in Generates => pc'[c] \notin {"deleting", "failed"},
         cooldown'.owner \in {cooldown.owner, NoCode, c},
         otp'.code \in {otp.code, NoCode, c}
  PROVE  FailInv'
BY CallsAssumption DEF TypeOK, FailInv, Calls

\* Generate gives up its lock, then its code, and only then answers that it failed.
LEMMA GenerateKeepsFail ==
  ASSUME TypeOK, FailInv, NEW g \in Generates, Generate(g)
  PROVE  FailInv'
<1> g \in Calls /\ g # NoCode /\ NoCode \notin Generates  BY CallsAssumption DEF Calls
<1> pc \in [Calls -> Labels]  BY DEF TypeOK
<1>1. CASE GenerateRelease(g)
  <2>1. /\ cooldown'.owner = NoCode /\ UNCHANGED otp
        /\ pc'[g] # "failed" /\ \A d \in Calls : d # g => pc'[d] = pc[d]
    BY <1>1 DEF GenerateRelease, NoLock, Settle, Go
  <2> QED  BY <2>1 DEF FailInv, Calls
<1>2. CASE GenerateDelete(g)
  <2>1. /\ otp'.code = NoCode /\ UNCHANGED cooldown /\ pc[g] = "deleting"
        /\ \A d \in Calls : d # g => pc'[d] = pc[d]
    BY <1>2 DEF GenerateDelete, Put, NoEntry, Settle, Go
  <2> QED  BY <2>1 DEF FailInv, Calls
<1>3. CASE \/ GenerateAcquire(g) \/ GenerateBlocked(g) \/ GenerateBadLength(g)
           \/ GenerateStore(g) \/ GenerateDelivered(g) \/ GenerateUndelivered(g)
  <2>1. \E l \in {"acquired", "blocked", "threw", "cooldown", "audit_failed", "delivering",
                  "generated", "releasing"} : pc' = [pc EXCEPT ![g] = l]
    BY <1>3, AuditedLabels
       DEF GenerateAcquire, GenerateBlocked, GenerateBadLength, GenerateStore,
           GenerateDelivered, GenerateUndelivered, Settle, Go
  <2>2. /\ cooldown'.owner \in {cooldown.owner, NoCode, g}
        /\ otp'.code \in {otp.code, NoCode, g}
    BY <1>3 DEF GenerateAcquire, GenerateBlocked, GenerateBadLength, GenerateStore, Lock, NoLock,
                GenerateDelivered, GenerateUndelivered, Put, NewEntry, NoEntry, store
  <2> QED  BY <2>1, <2>2, OtherStepsKeepFail
<1> QED  BY <1>1, <1>2, <1>3 DEF Generate

\* A verify that deletes on success writes no code back: it only keeps or removes the entry.
LEMMA VerifyKeepsFail ==
  ASSUME ConsumeOnVerify, TypeOK, FailInv, NEW v \in Verifies, Verify(v)
  PROVE  FailInv'
<1> v \in Calls /\ v \notin Generates  BY CallsAssumption DEF Calls
<1>1. \A d \in Calls : d # v => pc'[d] = pc[d]
  BY DEF TypeOK, Verify, VerifyBegin, VerifyLookup, VerifyCount, VerifyRefused, VerifyCompare,
         VerifyMismatch, VerifyClear, VerifyFinalizeDelete, VerifyUnlock, VerifyFinalizeUpdate,
         Settle, Go
<1>2. cooldown'.owner \in {cooldown.owner, NoCode}
  BY DEF Verify, VerifyBegin, VerifyLookup, VerifyCount, VerifyRefused, VerifyCompare,
         VerifyMismatch, VerifyClear, VerifyFinalizeDelete, VerifyUnlock, VerifyFinalizeUpdate,
         NoLock, store
<1>3. VerifyCompare(v) => otp'.code = otp.code
  BY DEF VerifyCompare, Spend, TypeOK, Entry
<1>4. otp'.code \in {otp.code, NoCode}
  BY <1>3 DEF Verify, VerifyBegin, VerifyLookup, VerifyCount, VerifyRefused, VerifyMismatch,
              VerifyClear, VerifyFinalizeDelete, VerifyUnlock, VerifyFinalizeUpdate, Put, NoEntry,
              store
<1> QED  BY <1>1, <1>2, <1>4, OtherStepsKeepFail

\* Consume only removes, faults move one call, and time only removes.
LEMMA OthersKeepFail ==
  ASSUME TypeOK, FailInv,
         \/ \E c \in Consumes : Consume(c)
         \/ \E c \in Calls : StorageRejects(c) \/ Crash(c)
         \/ Tick
  PROVE  FailInv'
<1> pc \in [Calls -> Labels]  BY DEF TypeOK
<1>1. ASSUME NEW c \in Consumes, Consume(c)  PROVE FailInv'
  <2>1. c \in Calls /\ c \notin Generates  BY CallsAssumption DEF Calls
  <2>2. /\ \A d \in Calls : d # c => pc'[d] = pc[d]
        /\ cooldown'.owner \in {cooldown.owner, NoCode}
        /\ otp'.code \in {otp.code, NoCode}
    BY <1>1 DEF Consume, ConsumeDelete, ConsumeUnlock, ConsumeClear, Put, NoEntry, NoLock,
                Settle, Go
  <2> QED  BY <2>1, <2>2, OtherStepsKeepFail
<1>2. ASSUME NEW c \in Calls, StorageRejects(c) \/ Crash(c)  PROVE FailInv'
  <2>1. \E l \in {"releasing", "cleanup_failed", "threw", "crashed"} :
           pc' = [pc EXCEPT ![c] = l]
    BY <1>2 DEF StorageRejects, AfterRejection, Crash, Go
  <2>2. UNCHANGED <<otp, cooldown>>  BY <1>2 DEF StorageRejects, Crash, store
  <2> QED  BY <2>1, <2>2, OtherStepsKeepFail
<1>3. CASE Tick
  <2>1. UNCHANGED pc /\ cooldown'.owner \in {cooldown.owner, NoCode}
    BY <1>3 DEF Tick, LapsedLock, NoLock, TypeOK
  <2>2. otp'.code \in {otp.code, NoCode}
    BY <1>3, AgedIsEntry DEF Tick, Put, NoEntry, TypeOK
  <2>3. NoCode \notin Generates  BY CallsAssumption DEF Calls
  <2> QED  BY <2>1, <2>2, <2>3 DEF FailInv
<1> QED  BY <1>1, <1>2, <1>3

\* With consumeOnVerify, a generate that reports its delivery failed has left neither its code
\* nor its lock behind, whatever other calls, faults and clock ticks came in between.
THEOREM FailedLeavesNothingHolds ==
  ASSUME ConsumeOnVerify
  PROVE  Spec => []FailedLeavesNothing
<1>1. Init => TypeOK /\ FailInv
  BY InitTypeOK DEF Init, FailInv, Calls
<1>2. TypeOK /\ FailInv /\ [Next]_vars => (TypeOK /\ FailInv)'
  <2>1. FailInv /\ UNCHANGED vars => FailInv'  BY DEF FailInv, vars, store
  <2> QED
    BY <2>1, NextTypeOK, GenerateKeepsFail, VerifyKeepsFail, OthersKeepFail DEF Next
<1>3. FailInv => FailedLeavesNothing  BY DEF FailInv, FailedLeavesNothing
<1> QED  BY <1>1, <1>2, <1>3, PTL DEF Spec

-----------------------------------------------------------------------------
(* The life of a code.  Every step is first reduced to what it may do to   *)
(* the code in the storage (CodeStep).  The invariant is that a generate   *)
(* which has not stored yet has left its code nowhere, so that the one     *)
(* step which brings in a code brings in one that nobody has seen.         *)

\* A generate that has not stored its code and still may.
Fresh(g) == pc[g] \in {"idle", "acquired"}

FreshInv ==
  \A g \in Generates : Fresh(g) =>
    /\ otp.code # g /\ g \notin retired
    /\ \A v \in Verifies : held[v].code # g /\ compared[v] # g

\* What a step may do to the stored code and to those that have been read.
CodeStep ==
  /\ \A g \in Generates : Fresh(g)' => Fresh(g)
  /\ retired' = retired \union ({otp.code} \ {otp'.code, NoCode})
  /\ \A v \in Verifies : /\ held'[v].code \in {held[v].code, otp.code}
                         /\ compared'[v] \in {compared[v], otp.code}
  /\ \/ otp'.code \in {otp.code, NoCode}
     \/ \E g \in Generates : Fresh(g) /\ ~Fresh(g)' /\ otp' = NewEntry(g)
     \/ ~ConsumeOnVerify /\ HasCode /\ \E v \in Verifies : otp'.code = held[v].code

\* A step that touches no code at all.
LEMMA CodeUntouched ==
  ASSUME UNCHANGED <<otp, held, compared, retired>>,
         \A g \in Generates : Fresh(g)' => Fresh(g)
  PROVE  CodeStep
BY DEF CodeStep

\* Of the steps of generate only GenerateStore brings in a code, its own.
LEMMA GenerateIsCodeStep ==
  ASSUME TypeOK, NEW g \in Generates, Generate(g)
  PROVE  CodeStep
<1> g \in Calls /\ pc \in [Calls -> Labels] /\ Generates \subseteq Calls
  BY DEF Calls, TypeOK
<1>1. CASE GenerateStore(g)
  <2>1. /\ otp' = NewEntry(g) /\ UNCHANGED <<held, compared>>
        /\ retired' = retired \union ({otp.code} \ {otp'.code, NoCode})
    BY <1>1, ConfigAssumption DEF GenerateStore, Put, NewEntry, locals
  <2>2. Fresh(g) /\ ~Fresh(g)' /\ \A h \in Generates : Fresh(h)' => Fresh(h)
    BY <1>1 DEF GenerateStore, Settle, Go, Fresh
  <2> QED  BY <2>1, <2>2 DEF CodeStep
<1>2. CASE GenerateDelete(g)
  <2>1. /\ otp' = NoEntry /\ UNCHANGED <<held, compared>>
        /\ retired' = retired \union ({otp.code} \ {otp'.code, NoCode})
    BY <1>2 DEF GenerateDelete, Put, NoEntry, locals
  <2>2. \A h \in Generates : Fresh(h)' => Fresh(h)
    BY <1>2, AuditedLabels DEF GenerateDelete, Settle, Go, Fresh
  <2> QED  BY <2>1, <2>2 DEF CodeStep, NoEntry
<1>3. CASE \/ GenerateAcquire(g) \/ GenerateBlocked(g) \/ GenerateBadLength(g)
           \/ GenerateDelivered(g) \/ GenerateUndelivered(g) \/ GenerateRelease(g)
  <2>1. UNCHANGED <<otp, held, compared, retired>>
    BY <1>3 DEF GenerateAcquire, GenerateBlocked, GenerateBadLength, GenerateDelivered,
                GenerateUndelivered, GenerateRelease, store, locals, history
  <2>2. \A h \in Generates : Fresh(h)' => Fresh(h)
    BY <1>3, AuditedLabels
       DEF GenerateAcquire, GenerateBlocked, GenerateBadLength, GenerateDelivered,
           GenerateUndelivered, GenerateRelease, Settle, Go, Fresh
  <2> QED  BY <2>1, <2>2, CodeUntouched
<1> QED  BY <1>1, <1>2, <1>3 DEF Generate

\* Verify spends, ends or writes back the entry; the write back needs one to be there.
LEMMA VerifyIsCodeStep ==
  ASSUME TypeOK, NEW v \in Verifies, Verify(v)
  PROVE  CodeStep
<1> v \in Calls /\ v \notin Generates  BY CallsAssumption DEF Calls
<1>1. \A h \in Generates : Fresh(h)' => Fresh(h)
  <2>1. \A d \in Calls : d # v => pc'[d] = pc[d]
    BY DEF TypeOK, Verify, VerifyBegin, VerifyLookup, VerifyCount, VerifyRefused, VerifyCompare,
           VerifyMismatch, VerifyClear, VerifyFinalizeDelete, VerifyUnlock, VerifyFinalizeUpdate,
           Settle, Go
  <2> QED  BY <2>1 DEF Fresh, Calls
<1>2. CASE VerifyCompare(v)
  <2>1. otp'.code = otp.code /\ \A w \in Verifies : held'[w].code \in {held[w].code, otp.code}
    BY <1>2 DEF VerifyCompare, Spend, TypeOK, Entry
  <2>2. UNCHANGED retired /\ \A w \in Verifies : compared'[w] \in {compared[w], otp.code}
    BY <1>2 DEF VerifyCompare, TypeOK
  <2> QED  BY <1>1, <2>1, <2>2 DEF CodeStep
<1>3. CASE VerifyRefused(v) \/ VerifyFinalizeDelete(v)
  <2>1. /\ otp' = NoEntry /\ UNCHANGED <<held, compared>>
        /\ retired' = retired \union ({otp.code} \ {otp'.code, NoCode})
    BY <1>3 DEF VerifyRefused, VerifyFinalizeDelete, Put, NoEntry, locals
  <2> QED  BY <1>1, <2>1 DEF CodeStep, NoEntry
<1>4. CASE VerifyFinalizeUpdate(v)
  <2>1. /\ UNCHANGED <<held, compared>> /\ ~ConsumeOnVerify
        /\ retired' = retired \union ({otp.code} \ {otp'.code, NoCode})
    BY <1>4 DEF VerifyFinalizeUpdate, Put, locals
  <2>2. Validated(v).code = held[v].code
    BY DEF Validated, TypeOK, Entry
  <2>3. otp'.code = NoCode \/ (HasCode /\ otp'.code = held[v].code)
    <3>1. CASE ~HasCode
      BY <1>4, <3>1 DEF VerifyFinalizeUpdate, Put, NoEntry
    <3>2. CASE HasCode
      BY <1>4, <2>2, <3>2 DEF VerifyFinalizeUpdate, Put, NoEntry
    <3> QED  BY <3>1, <3>2
  <2> QED  BY <1>1, <2>1, <2>3 DEF CodeStep
<1>5. CASE \/ VerifyBegin(v) \/ VerifyLookup(v) \/ VerifyCount(v) \/ VerifyMismatch(v)
           \/ VerifyClear(v) \/ VerifyUnlock(v)
  <2>1. UNCHANGED <<otp, held, compared, retired>>
    BY <1>5 DEF VerifyBegin, VerifyLookup, VerifyCount, VerifyMismatch, VerifyClear, VerifyUnlock,
                store, locals, history
  <2> QED  BY <1>1, <2>1, CodeUntouched
<1> QED  BY <1>2, <1>3, <1>4, <1>5 DEF Verify

\* Consume ends the code, time may; faults touch none, and send no generate back.
LEMMA OthersAreCodeSteps ==
  ASSUME TypeOK,
         \/ \E c \in Consumes : Consume(c)
         \/ \E c \in Calls : StorageRejects(c) \/ Crash(c)
         \/ Tick
         \/ UNCHANGED vars
  PROVE  CodeStep
<1> pc \in [Calls -> Labels] /\ Generates \subseteq Calls  BY DEF TypeOK, Calls
<1>1. ASSUME NEW c \in Consumes, Consume(c)  PROVE CodeStep
  <2>1. c \in Calls /\ c \notin Generates  BY CallsAssumption DEF Calls
  <2>2. \A h \in Generates : Fresh(h)' => Fresh(h)
    BY <1>1, <2>1 DEF Consume, ConsumeDelete, ConsumeUnlock, ConsumeClear, Settle, Go, Fresh
  <2>3. CASE ConsumeDelete(c)
    <3>1. /\ otp' = NoEntry /\ UNCHANGED <<held, compared>>
          /\ retired' = retired \union ({otp.code} \ {otp'.code, NoCode})
      BY <2>3 DEF ConsumeDelete, Put, NoEntry, locals
    <3> QED  BY <2>2, <3>1 DEF CodeStep, NoEntry
  <2>4. CASE ConsumeUnlock(c) \/ ConsumeClear(c)
    <3>1. UNCHANGED <<otp, held, compared, retired>>
      BY <2>4 DEF ConsumeUnlock, ConsumeClear, locals, history
    <3> QED  BY <2>2, <3>1, CodeUntouched
  <2> QED  BY <1>1, <2>3, <2>4 DEF Consume
<1>2. ASSUME NEW c \in Calls, StorageRejects(c) \/ Crash(c)  PROVE CodeStep
  <2>1. UNCHANGED <<otp, held, compared, retired>>
    BY <1>2 DEF StorageRejects, Crash, store, locals, history
  <2>2. \A h \in Generates : Fresh(h)' => Fresh(h)
    BY <1>2 DEF StorageRejects, AfterRejection, Crash, Go, Fresh
  <2> QED  BY <2>1, <2>2, CodeUntouched
<1>3. CASE Tick
  <2>1. \A v \in Verifies : held'[v].code = held[v].code
    BY <1>3, AgedIsEntry DEF Tick, TypeOK
  <2>2. otp'.code \in {otp.code, NoCode}
    BY <1>3, AgedIsEntry DEF Tick, Put, NoEntry, TypeOK
  <2>3. retired' = retired \union ({otp.code} \ {otp'.code, NoCode})
    BY <1>3 DEF Tick, Put
  <2>4. UNCHANGED <<pc, compared>>
    BY <1>3 DEF Tick
  <2> QED  BY <2>1, <2>2, <2>3, <2>4 DEF CodeStep, Fresh
<1>4. CASE UNCHANGED vars
  BY <1>4, CodeUntouched DEF vars, store, locals, history, Fresh
<1> QED  BY <1>1, <1>2, <1>3, <1>4

LEMMA NextIsCodeStep == TypeOK /\ [Next]_vars => CodeStep
BY GenerateIsCodeStep, VerifyIsCodeStep, OthersAreCodeSteps DEF Next

-----------------------------------------------------------------------------

\* Nothing has been stored or read at the start.
LEMMA InitFreshInv == Init => FreshInv
BY CallsAssumption DEF Init, FreshInv, NoEntry, Calls

LEMMA NextFreshInv == TypeOK /\ FreshInv /\ CodeStep => FreshInv'
<1> SUFFICES ASSUME TypeOK, FreshInv, CodeStep, NEW g \in Generates, Fresh(g)'
             PROVE  /\ otp'.code # g /\ g \notin retired'
                    /\ \A v \in Verifies : held'[v].code # g /\ compared'[v] # g
  BY DEF FreshInv, Fresh
<1>1. /\ Fresh(g) /\ otp.code # g /\ g \notin retired /\ g # NoCode
      /\ \A v \in Verifies : held[v].code # g /\ compared[v] # g
  BY CallsAssumption DEF CodeStep, FreshInv, Calls
<1>2. otp'.code # g
  BY <1>1 DEF CodeStep, NewEntry
<1> QED  BY <1>1, <1>2 DEF CodeStep

\* In every configuration, every reachable state has FreshInv.
THEOREM FreshInvariant == Spec => [](TypeOK /\ FreshInv)
<1>1. Init => TypeOK /\ FreshInv  BY InitTypeOK, InitFreshInv
<1>2. TypeOK /\ FreshInv /\ [Next]_vars => (TypeOK /\ FreshInv)'
  BY NextTypeOK, NextIsCodeStep, NextFreshInv
<1> QED  BY <1>1, <1>2, PTL DEF Spec

\* Nothing writes an ended code back into an empty store, in any configuration: not the update of
\* a verification that found its entry gone, whatever it raced (otp.service.ts:562-567).
THEOREM NeverRevivedHolds == Spec => NeverRevived
<1>1. TypeOK /\ FreshInv /\ [Next]_vars => [~HasCode /\ HasCode' => otp'.code \notin retired]_vars
  <2> SUFFICES ASSUME TypeOK, FreshInv, [Next]_vars, ~HasCode, HasCode'
               PROVE  otp'.code \notin retired
    OBVIOUS
  <2>1. PICK g \in Generates : Fresh(g) /\ otp' = NewEntry(g)
    BY NextIsCodeStep DEF CodeStep, HasCode
  <2> QED  BY <2>1 DEF FreshInv, NewEntry
<1> QED  BY <1>1, FreshInvariant, PTL DEF Spec, NeverRevived

\* With consumeOnVerify no ended code is ever in the storage again (verify, consume, generate).
THEOREM RetiredStaysRetiredHolds ==
  ASSUME ConsumeOnVerify
  PROVE  Spec => []RetiredStaysRetired
<1>1. Init => RetiredStaysRetired
  BY DEF Init, RetiredStaysRetired
<1>2. TypeOK /\ FreshInv /\ RetiredStaysRetired /\ [Next]_vars => RetiredStaysRetired'
  <2> SUFFICES ASSUME TypeOK, FreshInv, RetiredStaysRetired, CodeStep
               PROVE  RetiredStaysRetired'
    BY NextIsCodeStep
  <2>1. NoCode \notin retired
    BY CallsAssumption DEF TypeOK, Calls
  <2>2. CASE otp'.code \in {otp.code, NoCode}
    BY <2>1, <2>2 DEF CodeStep, RetiredStaysRetired
  <2>3. CASE \E g \in Generates : Fresh(g) /\ otp' = NewEntry(g)
    BY <2>3 DEF CodeStep, RetiredStaysRetired, FreshInv, NewEntry
  <2> QED  BY <2>2, <2>3 DEF CodeStep
<1> QED  BY <1>1, <1>2, FreshInvariant, PTL DEF Spec

-----------------------------------------------------------------------------
(* How often a code is compared.  With consumeOnVerify an entry is never   *)
(* written back, so its attempts count the comparisons with its code, and  *)
(* they stop at the ceiling.                                               *)

CountInv ==
  \A g \in Generates :
    /\ IsFiniteSet(ComparedWith(g))
    /\ Cardinality(ComparedWith(g)) <= MaxAttempts
    /\ otp.code = g => Cardinality(ComparedWith(g)) <= otp.attempts

LEMMA InitCountInv == Init => CountInv
<1> SUFFICES ASSUME Init, NEW g \in Generates
             PROVE  ComparedWith(g) = {} /\ otp.code # g
  BY FS_EmptySet, ConfigAssumption DEF CountInv
<1> QED  BY CallsAssumption DEF Init, ComparedWith, NoEntry, Calls

\* Steps that compare nothing: a code still stored has the attempts it had.
LEMMA NoComparisonKeepsCount ==
  ASSUME TypeOK, FreshInv, CountInv, CodeStep, ConsumeOnVerify, UNCHANGED compared,
         otp'.code = otp.code /\ HasCode => otp'.attempts = otp.attempts
  PROVE  CountInv'
<1> SUFFICES ASSUME NEW g \in Generates, otp'.code = g
             PROVE  Cardinality(ComparedWith(g)) <= otp'.attempts
  BY DEF CountInv, ComparedWith
<1> g # NoCode  BY CallsAssumption DEF Calls
<1>1. CASE otp.code = g
  BY <1>1 DEF HasCode, CountInv
<1>2. CASE otp.code # g
  <2>1. Fresh(g) /\ otp' = NewEntry(g)
    BY <1>2 DEF CodeStep, NewEntry
  <2>2. ComparedWith(g) = {} /\ otp'.attempts = 0
    BY <2>1 DEF FreshInv, ComparedWith, NewEntry
  <2> QED  BY <2>2, FS_EmptySet
<1> QED  BY <1>1, <1>2

\* A comparison spends one attempt of the code it is with.
LEMMA ComparisonKeepsCount ==
  ASSUME TypeOK, CountInv, RemainingInRange, NEW v \in Verifies, VerifyCompare(v)
  PROVE  CountInv'
<1>1. /\ otp'.attempts = otp.attempts + 1 /\ otp'.code = otp.code
      /\ otp.attempts \in Nat /\ otp.attempts + 1 <= MaxAttempts
  BY ConfigAssumption DEF VerifyCompare, HasBudget, Spend, TypeOK, Entry
<1>2. SUFFICES ASSUME NEW g \in Generates
               PROVE  /\ IsFiniteSet(ComparedWith(g)')
                      /\ Cardinality(ComparedWith(g)') <= MaxAttempts
                      /\ otp'.code = g => Cardinality(ComparedWith(g)') <= otp'.attempts
  BY DEF CountInv
<1>3. /\ IsFiniteSet(ComparedWith(g)) /\ Cardinality(ComparedWith(g)) <= MaxAttempts
      /\ otp.code = g => Cardinality(ComparedWith(g)) <= otp.attempts
  BY DEF CountInv
<1>4. Cardinality(ComparedWith(g)) \in Nat
  BY <1>3, FS_CardinalityType
<1>5. CASE otp.code = g
  <2>1. ComparedWith(g)' = ComparedWith(g) \union {v}
    BY <1>5 DEF VerifyCompare, ComparedWith, TypeOK
  <2>2. /\ IsFiniteSet(ComparedWith(g)')
        /\ Cardinality(ComparedWith(g)') <= Cardinality(ComparedWith(g)) + 1
    BY <1>3, <1>4, <2>1, FS_AddElement
  <2>3. Cardinality(ComparedWith(g)') \in Nat
    BY <2>2, FS_CardinalityType
  <2> QED  BY <1>1, <1>3, <1>4, <1>5, <2>2, <2>3, ConfigAssumption
<1>6. CASE otp.code # g
  <2>1. ComparedWith(g)' \subseteq ComparedWith(g)
    BY <1>6 DEF VerifyCompare, ComparedWith, TypeOK
  <2>2. /\ IsFiniteSet(ComparedWith(g)')
        /\ Cardinality(ComparedWith(g)') <= Cardinality(ComparedWith(g))
    BY <1>3, <2>1, FS_Subset
  <2>3. Cardinality(ComparedWith(g)') \in Nat
    BY <2>2, FS_CardinalityType
  <2> QED  BY <1>1, <1>3, <1>4, <1>6, <2>2, <2>3, ConfigAssumption
<1> QED  BY <1>5, <1>6

\* All other steps compare nothing and leave a code that stays its attempts.
AttemptsKept ==
  UNCHANGED compared /\ (otp'.code = otp.code /\ HasCode => otp'.attempts = otp.attempts)

LEMMA OtherStepsKeepAttempts ==
  ASSUME TypeOK, FreshInv, ConsumeOnVerify, [Next]_vars, \A v \in Verifies : ~VerifyCompare(v)
  PROVE  AttemptsKept
<1>1. ASSUME NEW g \in Generates, Generate(g)  PROVE AttemptsKept
  <2>1. UNCHANGED compared
    BY <1>1 DEF Generate, GenerateAcquire, GenerateBlocked, GenerateBadLength, GenerateStore,
                GenerateDelivered, GenerateUndelivered, GenerateRelease, GenerateDelete, history
  <2>2. \/ UNCHANGED otp
        \/ pc[g] = "acquired" /\ otp' = NewEntry(g)
        \/ otp' = NoEntry
    BY <1>1 DEF Generate, GenerateAcquire, GenerateBlocked, GenerateBadLength, GenerateStore,
                GenerateDelivered, GenerateUndelivered, GenerateRelease, GenerateDelete, Put, store
  <2> QED  BY <2>1, <2>2 DEF AttemptsKept, HasCode, NoEntry, NewEntry, FreshInv, Fresh
<1>2. ASSUME NEW v \in Verifies, Verify(v)  PROVE AttemptsKept
  <2>1. UNCHANGED compared
    BY <1>2 DEF Verify, VerifyBegin, VerifyLookup, VerifyCount, VerifyRefused, VerifyMismatch,
                VerifyClear, VerifyFinalizeDelete, VerifyUnlock, VerifyFinalizeUpdate, history
  <2>2. UNCHANGED otp \/ otp' = NoEntry
    BY <1>2 DEF Verify, VerifyBegin, VerifyLookup, VerifyCount, VerifyRefused, VerifyMismatch,
                VerifyClear, VerifyFinalizeDelete, VerifyUnlock, VerifyFinalizeUpdate, Put, store
  <2> QED  BY <2>1, <2>2 DEF AttemptsKept, HasCode, NoEntry
<1>3. ASSUME NEW c \in Consumes, Consume(c)  PROVE AttemptsKept
  BY <1>3 DEF AttemptsKept, HasCode, NoEntry, Consume, ConsumeDelete, ConsumeUnlock, ConsumeClear,
              Put, history
<1>4. ASSUME NEW c \in Calls, StorageRejects(c) \/ Crash(c)  PROVE AttemptsKept
  BY <1>4 DEF AttemptsKept, StorageRejects, Crash, store, history
<1>5. CASE Tick
  <2>1. otp'.code = NoCode \/ otp'.attempts = otp.attempts
    BY <1>5, AgedIsEntry DEF Tick, Put, NoEntry, TypeOK
  <2> QED  BY <1>5, <2>1 DEF AttemptsKept, HasCode, Tick
<1>6. CASE UNCHANGED vars
  BY <1>6 DEF AttemptsKept, vars, store, history
<1> QED  BY <1>1, <1>2, <1>3, <1>4, <1>5, <1>6 DEF Next

LEMMA NextCountInv ==
  ASSUME ConsumeOnVerify
  PROVE  TypeOK /\ FreshInv /\ RemainingInRange /\ CountInv /\ [Next]_vars => CountInv'
<1> SUFFICES ASSUME TypeOK, FreshInv, RemainingInRange, CountInv, [Next]_vars
             PROVE  CountInv'
  OBVIOUS
<1>1. CASE \E v \in Verifies : VerifyCompare(v)
  BY <1>1, ComparisonKeepsCount
<1>2. CASE \A v \in Verifies : ~VerifyCompare(v)
  BY <1>2, NextIsCodeStep, OtherStepsKeepAttempts, NoComparisonKeepsCount DEF AttemptsKept
<1> QED  BY <1>1, <1>2

\* With consumeOnVerify no code is compared with more guesses than the ceiling, however many
\* verifications overlap and whether or not the storage carries a failure counter.
THEOREM CodeBudgetHolds ==
  ASSUME ConsumeOnVerify
  PROVE  Spec => []CodeBudget
<1>1. Init => CountInv
  BY InitCountInv
<1>2. TypeOK /\ FreshInv /\ RemainingInRange /\ CountInv /\ [Next]_vars => CountInv'
  BY NextCountInv
<1>3. CountInv => CodeBudget
  BY DEF CountInv, CodeBudget
<1> QED  BY <1>1, <1>2, <1>3, FreshInvariant, RemainingInRangeHolds, PTL DEF Spec

-----------------------------------------------------------------------------
(* The resend lock, where nothing but a failed generate gives it back: no  *)
(* verification deletes, no consume() runs, and a delivery is faster than  *)
(* the lock.                                                               *)

OnlyIssuersUnlock ==
  ~ConsumeOnVerify /\ Consumes = {} /\ ~SlowDelivery /\ ResendCooldownSeconds > 0

LockInv ==
  /\ \A g \in Issuing : cooldown.owner = g /\ cooldown.left > 0
  /\ \A v \in Verifies : pc[v] # "unlocking"

LEMMA InitLockInv == Init => LockInv
BY DEF Init, LockInv, Issuing, Calls

\* Steps that leave the lock alone and let no call into the section it guards.
LEMMA LockUntouched ==
  ASSUME LockInv, UNCHANGED cooldown,
         \A g \in Generates : g \in Issuing' => g \in Issuing,
         \A v \in Verifies : pc'[v] # "unlocking"
  PROVE  LockInv'
BY DEF LockInv, Issuing

LEMMA GenerateKeepsLock ==
  ASSUME OnlyIssuersUnlock, TypeOK, LockInv, NEW g \in Generates, Generate(g)
  PROVE  LockInv'
<1> g \in Calls /\ g \notin Verifies /\ pc \in [Calls -> Labels] /\ Generates \subseteq Calls
    /\ Verifies \subseteq Calls
  BY CallsAssumption DEF TypeOK, Calls
<1>1. \A d \in Calls : d # g => pc'[d] = pc[d]
  BY DEF Generate, GenerateAcquire, GenerateBlocked, GenerateBadLength, GenerateStore,
         GenerateDelivered, GenerateUndelivered, GenerateRelease, GenerateDelete, Settle, Go
<1>2. \A v \in Verifies : pc'[v] # "unlocking"
  BY <1>1 DEF LockInv
<1>3. CASE GenerateAcquire(g) /\ cooldown.left = 0
  <2>1. Issuing = {} /\ Issuing' \subseteq {g}
    BY <1>1, <1>3 DEF LockInv, Issuing
  <2>2. cooldown' = [left |-> ResendCooldownSeconds, owner |-> g]
    BY <1>3, ConfigAssumption DEF GenerateAcquire, Lock, OnlyIssuersUnlock, TypeOK
  <2> QED  BY <1>2, <2>1, <2>2 DEF LockInv, OnlyIssuersUnlock
<1>4. CASE GenerateAcquire(g) /\ cooldown.left # 0
  <2>1. UNCHANGED cooldown /\ pc'[g] \in {"blocked", "threw"}
    BY <1>4 DEF GenerateAcquire, Settle, Go
  <2> QED  BY <1>1, <1>2, <2>1, LockUntouched DEF Issuing
<1>5. CASE GenerateRelease(g)
  <2>1. g \in Issuing /\ g \notin Issuing'
    BY <1>5 DEF GenerateRelease, Settle, Go, Issuing
  <2>2. Issuing \subseteq {g}
    BY <2>1 DEF LockInv
  <2>3. Issuing' = {}
    BY <1>1, <2>1, <2>2 DEF Issuing
  <2> QED  BY <1>2, <2>3 DEF LockInv
<1>6. CASE \/ GenerateBlocked(g) \/ GenerateBadLength(g) \/ GenerateStore(g)
           \/ GenerateDelivered(g) \/ GenerateUndelivered(g) \/ GenerateDelete(g)
  <2>1. UNCHANGED cooldown
    BY <1>6 DEF GenerateBlocked, GenerateBadLength, GenerateStore, GenerateDelivered,
                GenerateUndelivered, GenerateDelete, store
  <2>2. g \in Issuing' => g \in Issuing
    BY <1>6, AuditedLabels
       DEF GenerateBlocked, GenerateBadLength, GenerateStore, GenerateDelivered,
           GenerateUndelivered, GenerateDelete, Settle, Go, Issuing
  <2>3. \A h \in Generates : h \in Issuing' => h \in Issuing
    BY <1>1, <2>2 DEF Issuing
  <2> QED  BY <1>2, <2>1, <2>3, LockUntouched
<1> QED  BY <1>3, <1>4, <1>5, <1>6 DEF Generate

LEMMA VerifyKeepsLock ==
  ASSUME OnlyIssuersUnlock, TypeOK, LockInv, NEW v \in Verifies, Verify(v)
  PROVE  LockInv'
<1> v \in Calls /\ v \notin Generates /\ pc \in [Calls -> Labels] /\ Generates \subseteq Calls
    /\ Verifies \subseteq Calls
  BY CallsAssumption DEF TypeOK, Calls
<1>1. \A d \in Calls : d # v => pc'[d] = pc[d]
  BY DEF Verify, VerifyBegin, VerifyLookup, VerifyCount, VerifyRefused, VerifyCompare,
         VerifyMismatch, VerifyClear, VerifyFinalizeDelete, VerifyUnlock, VerifyFinalizeUpdate,
         Settle, Go
<1>2. ~VerifyUnlock(v) /\ ~VerifyFinalizeDelete(v)
  BY DEF VerifyUnlock, VerifyFinalizeDelete, LockInv, OnlyIssuersUnlock
<1>3. UNCHANGED cooldown
  BY <1>2 DEF Verify, VerifyBegin, VerifyLookup, VerifyCount, VerifyRefused, VerifyCompare,
              VerifyMismatch, VerifyClear, VerifyFinalizeUpdate, store
<1>4. pc'[v] # "unlocking"
  BY <1>2, AuditedLabels
     DEF Verify, VerifyBegin, VerifyLookup, VerifyCount, VerifyRefused, VerifyCompare,
         VerifyMismatch, VerifyClear, VerifyFinalizeUpdate, Settle, Go
<1> QED  BY <1>1, <1>3, <1>4, LockUntouched DEF LockInv, Issuing

\* The lock of a generate that is still running does not lapse.
LEMMA OthersKeepLock ==
  ASSUME OnlyIssuersUnlock, TypeOK, LockInv,
         (\E c \in Calls : StorageRejects(c) \/ Crash(c)) \/ Tick \/ UNCHANGED vars
  PROVE  LockInv'
<1> pc \in [Calls -> Labels] /\ Generates \subseteq Calls /\ Verifies \subseteq Calls
  BY DEF TypeOK, Calls
<1>1. ASSUME NEW c \in Calls, StorageRejects(c) \/ Crash(c)  PROVE LockInv'
  <2>1. UNCHANGED cooldown /\ \A d \in Calls : d # c => pc'[d] = pc[d]
    BY <1>1 DEF StorageRejects, Crash, Go, store
  <2>2. pc'[c] # "unlocking" /\ (c \in Generates /\ c \in Issuing' => c \in Issuing)
    BY <1>1 DEF StorageRejects, AfterRejection, Crash, Go, Issuing
  <2> QED  BY <2>1, <2>2, LockUntouched DEF LockInv, Issuing
<1>2. CASE Tick
  <2>1. UNCHANGED pc
    BY <1>2 DEF Tick
  <2>2. ASSUME NEW g \in Issuing  PROVE cooldown.left > 1 /\ cooldown.owner = g
    <3>1. cooldown.left > 0 /\ cooldown.owner = g /\ cooldown.left \in Nat
      BY DEF LockInv, TypeOK
    <3>2. Running(g)
      BY DEF Issuing, Running, Answers
    <3> QED  BY <1>2, <3>1, <3>2 DEF Tick, OnlyIssuersUnlock
  <2>3. \A g \in Issuing : cooldown'.owner = g /\ cooldown'.left > 0
    BY <1>2, <2>2 DEF Tick, LapsedLock, TypeOK
  <2> QED  BY <2>1, <2>3 DEF LockInv, Issuing
<1>3. CASE UNCHANGED vars
  BY <1>3 DEF vars, store, LockInv, Issuing
<1> QED  BY <1>1, <1>2, <1>3

\* Two resends are never both between taking the lock and giving it back, whatever crashes,
\* bounces or is lost (acquireCooldownOrThrow).
THEOREM ResendsExclusiveHolds ==
  ASSUME OnlyIssuersUnlock
  PROVE  Spec => []ResendsExclusive
<1>1. Init => TypeOK /\ LockInv
  BY InitTypeOK, InitLockInv
<1>2. TypeOK /\ LockInv /\ [Next]_vars => (TypeOK /\ LockInv)'
  BY NextTypeOK, GenerateKeepsLock, VerifyKeepsLock, OthersKeepLock DEF Next, OnlyIssuersUnlock
<1>3. LockInv => ResendsExclusive
  <2> SUFFICES ASSUME LockInv PROVE Cardinality(Issuing) <= 1
    BY DEF ResendsExclusive
  <2>1. CASE Issuing = {}
    BY <2>1, FS_EmptySet
  <2>2. CASE Issuing # {}
    <3>1. Issuing = {cooldown.owner}
      BY <2>2 DEF LockInv
    <3>2. Cardinality({cooldown.owner}) = 1
      BY FS_Singleton
    <3> QED  BY <3>1, <3>2
  <2> QED  BY <2>1, <2>2
<1> QED  BY <1>1, <1>2, <1>3, PTL DEF Spec

-----------------------------------------------------------------------------
(* The storage.  Each step of a call is one operation of IOtpStorage, with *)
(* the answer that the call goes on by, when no entry is written back.     *)

\* An entry that has no code, or has expired, is absent.
LiveInv == otp = NoEntry \/ (otp.code \in Generates /\ otp.left \in Nat)

Stored(e) == [code |-> e.code, left |-> e.left, attempts |-> e.attempts, validated |-> e.validated]

AsContract == \E answer \in Replies : Storage(answer)!Next

\* The operations, on the storage of the service.
LEMMA OperationsAre ==
  /\ otp' = NoEntry /\ UNCHANGED <<cooldown, failures>> => AsContract
  /\ cooldown' = NoLock /\ UNCHANGED <<otp, failures>> => AsContract
  /\ failures' = NoFailures /\ UNCHANGED <<otp, cooldown>> => AsContract
  /\ \A g \in Generates :
        otp' = NewEntry(g) /\ UNCHANGED <<cooldown, failures>> => AsContract
  /\ \A g \in Generates :
        cooldown.left = 0 /\ cooldown' = Lock(g) /\ UNCHANGED <<otp, failures>> => AsContract
  /\ failures' = [count |-> failures.count + 1, left |-> TtlSeconds]
        /\ UNCHANGED <<otp, cooldown>> => AsContract
<1> DEFINE Reply(op, status, code, number) ==
             [op |-> op, status |-> status, code |-> code, number |-> number]
<1> USE DEF Storage!Done, Storage!Reply, Storage!Next
<1>1. ASSUME otp' = NoEntry, UNCHANGED <<cooldown, failures>> PROVE AsContract
  <2>1. Reply("delete", "done", NoCode, 0) \in Replies
    BY DEF Replies
  <2>2. Storage(Reply("delete", "done", NoCode, 0))!Delete
    BY <1>1 DEF Storage!Delete, Storage!NoEntry, NoEntry
  <2> QED BY <2>1, <2>2 DEF AsContract
<1>2. ASSUME cooldown' = NoLock, UNCHANGED <<otp, failures>> PROVE AsContract
  <2>1. Reply("clearCooldown", "done", NoCode, 0) \in Replies
    BY DEF Replies
  <2>2. Storage(Reply("clearCooldown", "done", NoCode, 0))!ClearCooldown
    BY <1>2 DEF Storage!ClearCooldown, Storage!NoLock, NoLock
  <2> QED BY <2>1, <2>2 DEF AsContract
<1>3. ASSUME failures' = NoFailures, UNCHANGED <<otp, cooldown>> PROVE AsContract
  <2>1. Reply("clearFailures", "done", NoCode, 0) \in Replies
    BY DEF Replies
  <2>2. Storage(Reply("clearFailures", "done", NoCode, 0))!ClearFailures
    BY <1>3 DEF Storage!ClearFailures, Storage!NoFailures, NoFailures
  <2> QED BY <2>1, <2>2 DEF AsContract
<1>4. ASSUME NEW g \in Generates, otp' = NewEntry(g), UNCHANGED <<cooldown, failures>>
      PROVE  AsContract
  <2>1. Reply("set", "done", NoCode, 0) \in Replies
    BY DEF Replies
  <2>2. Storage(Reply("set", "done", NoCode, 0))!Set(g, TtlSeconds)
    BY <1>4 DEF Storage!Set, Storage!Fresh, NewEntry
  <2> QED BY <2>1, <2>2 DEF AsContract
<1>5. ASSUME NEW g \in Generates, cooldown.left = 0, cooldown' = Lock(g),
             UNCHANGED <<otp, failures>>
      PROVE  AsContract
  <2>1. Reply("tryAcquireCooldown", "acquired", NoCode, 0) \in Replies
    BY DEF Replies
  <2>2. Storage(Reply("tryAcquireCooldown", "acquired", NoCode, 0))!TryAcquireCooldown(ResendCooldownSeconds)
    BY <1>5, ConfigAssumption DEF Storage!TryAcquireCooldown, Storage!NoLock, Lock, NoLock
  <2> QED BY <2>1, <2>2 DEF AsContract
<1>6. ASSUME failures' = [count |-> failures.count + 1, left |-> TtlSeconds],
             UNCHANGED <<otp, cooldown>>
      PROVE  AsContract
  <2>1. PICK r : r = Reply("recordFailure", "done", NoCode, failures.count + 1)
    OBVIOUS
  <2>2. r \in Replies
    BY <2>1 DEF Replies
  <2>3. TtlSeconds * 1 = TtlSeconds
    BY ConfigAssumption
  <2>4. Storage(r)!RecordFailure(TtlSeconds)
    BY <1>6, <2>1, <2>3 DEF Storage!RecordFailure
  <2> QED BY <2>2, <2>4 DEF AsContract
<1> QED BY <1>1, <1>2, <1>3, <1>4, <1>5, <1>6

\* An attempt, given or refused.
LEMMA AttemptIs ==
  ASSUME TypeOK, LiveInv, NEW v \in Verifies, VerifyCompare(v)
  PROVE  AsContract
<1>1. PICK r : r = [op |-> "consumeAttempt", status |-> "ok", code |-> otp.code,
                    number |-> otp.attempts + 1]
  OBVIOUS
<1>2. r \in Replies
  BY <1>1 DEF Replies
<1>3. /\ otp.code \in Generates /\ otp.left \in Nat /\ otp.attempts < MaxAttempts
      /\ otp' = [otp EXCEPT !.attempts = otp.attempts + 1] /\ UNCHANGED <<cooldown, failures>>
  BY DEF VerifyCompare, HasBudget, HasCode, Spend, LiveInv, NoEntry
<1>4. otp.code # NoCode /\ otp \in Entry
  BY <1>3, CallsAssumption DEF TypeOK, Calls
<1> DEFINE stored == [code |-> otp.code, left |-> otp.left, attempts |-> otp.attempts,
                      validated |-> otp.validated]
<1>5. stored # Storage(r)!NoEntry /\ stored.left >= 0 /\ stored.attempts < MaxAttempts
  BY <1>3, <1>4 DEF Storage!NoEntry
<1>6. stored' = [stored EXCEPT !.attempts = stored.attempts + 1]
  BY <1>3, <1>4 DEF Entry
<1>7. r = [op |-> "consumeAttempt", status |-> "ok", code |-> stored.code, number |-> stored'.attempts]
  BY <1>1, <1>3, <1>4 DEF Entry
<1> HIDE DEF stored
<1>8. Storage(r)!ConsumeAttempt
  BY <1>3, <1>5, <1>6, <1>7 DEF Storage!ConsumeAttempt, Storage!Reply, stored
<1> QED BY <1>2, <1>8 DEF AsContract, Storage!Next

\* Time, for entries, locks and counters together.
LEMMA TimeIs ==
  ASSUME TypeOK, LiveInv, Tick
  PROVE  AsContract
<1> DEFINE answer == [op |-> "delete", status |-> "done", code |-> NoCode, number |-> 0]
<1>1. answer \in Replies
  BY DEF Replies
<1>2. otp' = IF Aged(otp).left < 0 THEN NoEntry ELSE Aged(otp)
  BY DEF Tick, Put
<1>3. Stored(otp)' \in Storage(answer)!AfterTick(Stored(otp))
  <2>1. CASE otp = NoEntry
    BY <1>2, <2>1 DEF Storage!AfterTick, Storage!NoEntry, Stored, Aged, NoEntry
  <2>2. CASE otp # NoEntry
    <3>1. /\ otp.code \in Generates /\ otp.left \in Nat /\ otp \in Entry /\ otp.code # NoCode
      BY <2>2, CallsAssumption DEF LiveInv, TypeOK, Calls
    <3>2. Aged(otp) = [otp EXCEPT !.left = otp.left - 1]
      BY <2>2, <3>1 DEF Aged
    <3>3. [Stored(otp) EXCEPT !.left = Stored(otp).left - 1] = Stored(Aged(otp))
      BY <3>1, <3>2 DEF Stored, Entry
    <3>4. Stored(otp) # Storage(answer)!NoEntry
      BY <3>1 DEF Stored, Storage!NoEntry
    <3>5. Aged(otp).left = otp.left - 1
      BY <3>1, <3>2 DEF Entry
    <3>6. CASE otp.left = 0
      <4>1. otp' = NoEntry
        BY <1>2, <3>1, <3>5, <3>6
      <4>2. Stored(otp)' = Storage(answer)!NoEntry
        BY <4>1 DEF Stored, NoEntry, Storage!NoEntry
      <4>3. Stored(otp).left - 1 < 0
        BY <3>6 DEF Stored
      <4>4. [Stored(otp) EXCEPT !.left = Stored(otp).left - 1].left < 0
        BY <4>3 DEF Stored
      <4> QED BY <3>4, <4>2, <4>4 DEF Storage!AfterTick
    <3>7. CASE otp.left > 0
      <4>1. otp' = Aged(otp)
        BY <1>2, <3>1, <3>5, <3>7
      <4>2. Stored(otp)' = [Stored(otp) EXCEPT !.left = Stored(otp).left - 1]
        BY <3>3, <4>1 DEF Stored
      <4>3. [Stored(otp) EXCEPT !.left = Stored(otp).left - 1].left >= -0
        BY <3>1, <3>7 DEF Stored
      <4> QED BY <3>4, <4>2, <4>3 DEF Storage!AfterTick
    <3> QED BY <3>1, <3>6, <3>7
  <2> QED BY <2>1, <2>2
<1>4. (IF cooldown.left = 0 THEN -1 ELSE cooldown.left)'
        \in Storage(answer)!LockAfterTick(IF cooldown.left = 0 THEN -1 ELSE cooldown.left)
  BY DEF Tick, LapsedLock, NoLock, Storage!LockAfterTick, Storage!NoLock, TypeOK
<1>5. failures' \in Storage(answer)!FailuresAfterTick(failures)
  BY DEF Tick, ClearFailures, NoFailures, Storage!FailuresAfterTick, Storage!NoFailures, TypeOK
<1>6. Storage(answer)!Tick
  BY <1>3, <1>4, <1>5 DEF Storage!Tick, Stored
<1> QED BY <1>1, <1>6 DEF AsContract, Storage!Next

\* A code that is live is the code of a generate, and its lifetime has not ended.
LEMMA LiveStep ==
  ASSUME ConsumeOnVerify, TypeOK, LiveInv, [Next]_vars
  PROVE  LiveInv'
<1>1. CASE UNCHANGED otp
  BY <1>1 DEF LiveInv, NoEntry
<1>2. CASE otp' = NoEntry
  BY <1>2 DEF LiveInv, NoEntry
<1>3. CASE \E g \in Generates : Put(NewEntry(g))
  BY <1>3, ConfigAssumption DEF LiveInv, Put, NewEntry, NoEntry
<1>4. ASSUME NEW v \in Verifies, VerifyCompare(v) PROVE LiveInv'
  BY <1>4 DEF VerifyCompare, HasBudget, HasCode, Spend, LiveInv, NoEntry, TypeOK, Entry
<1>5. CASE Tick
  <2>1. otp' = NoEntry \/ (Aged(otp).left >= 0 /\ otp' = Aged(otp))
    <3>1. Aged(otp).left \in Int
      BY DEF Aged, TypeOK, Entry
    <3> QED BY <1>5, <3>1 DEF Tick, Put
  <2>2. Aged(otp).left \in Int /\ Aged(otp).code = otp.code
    BY DEF Aged, TypeOK, Entry
  <2>3. CASE Aged(otp).left >= 0 /\ otp' = Aged(otp)
    <3>1. otp'.left \in Nat /\ otp'.code = otp.code
      BY <2>2, <2>3
    <3>2. CASE otp = NoEntry
      BY <2>3, <3>2 DEF Aged, LiveInv, NoEntry
    <3> QED BY <3>1, <3>2 DEF LiveInv, NoEntry
  <2> QED BY <1>2, <2>1, <2>3
<1>6. UNCHANGED otp \/ otp' = NoEntry \/ (\E g \in Generates : Put(NewEntry(g)))
      \/ (\E v \in Verifies : VerifyCompare(v)) \/ Tick
  <2>1. Put(NoEntry) => otp' = NoEntry
    BY DEF Put, NoEntry
  <2>2. ASSUME NEW g \in Generates, Generate(g)
        PROVE  UNCHANGED otp \/ otp' = NoEntry \/ Put(NewEntry(g))
    BY <2>1, <2>2 DEF Generate, GenerateAcquire, GenerateBlocked, GenerateBadLength, GenerateStore,
       GenerateDelivered, GenerateUndelivered, GenerateRelease, GenerateDelete, store
  <2>3. ASSUME NEW v \in Verifies, Verify(v)
        PROVE  UNCHANGED otp \/ otp' = NoEntry \/ VerifyCompare(v)
    BY <2>1, <2>3 DEF Verify, VerifyBegin, VerifyLookup, VerifyCount, VerifyRefused, VerifyMismatch,
       VerifyClear, VerifyFinalizeDelete, VerifyUnlock, VerifyFinalizeUpdate, store
  <2>4. ASSUME NEW c \in Consumes, Consume(c) PROVE UNCHANGED otp \/ otp' = NoEntry
    BY <2>1, <2>4 DEF Consume, ConsumeDelete, ConsumeUnlock, ConsumeClear
  <2>5. ASSUME NEW c \in Calls, StorageRejects(c) \/ Crash(c) PROVE UNCHANGED otp
    BY <2>5 DEF StorageRejects, Crash, store
  <2>6. UNCHANGED vars => UNCHANGED otp
    BY DEF vars, store
  <2> QED BY <2>2, <2>3, <2>4, <2>5, <2>6 DEF Next
<1> QED BY <1>1, <1>2, <1>3, <1>4, <1>5, <1>6

\* A step of a call is one operation of the contract, or leaves the storage alone.
LEMMA StepIsOperation ==
  ASSUME ConsumeOnVerify, TypeOK, LiveInv, [Next]_vars
  PROVE  AsContract \/ UNCHANGED store
<1>1. Put(NoEntry) => otp' = NoEntry
  BY DEF Put, NoEntry
<1>2. ASSUME NEW g \in Generates, Put(NewEntry(g)) PROVE otp' = NewEntry(g)
  BY <1>2, ConfigAssumption DEF Put, NewEntry
<1>3. ASSUME NEW g \in Generates, Generate(g) PROVE AsContract \/ UNCHANGED store
  <2>1. GenerateAcquire(g) => AsContract \/ UNCHANGED store
    BY OperationsAre DEF GenerateAcquire, store
  <2>2. GenerateStore(g) => AsContract
    BY <1>2, OperationsAre DEF GenerateStore
  <2>3. GenerateRelease(g) => AsContract
    BY OperationsAre DEF GenerateRelease
  <2>4. GenerateDelete(g) => AsContract
    BY <1>1, OperationsAre DEF GenerateDelete
  <2>5. GenerateBlocked(g) \/ GenerateBadLength(g) \/ GenerateDelivered(g) \/ GenerateUndelivered(g)
        => UNCHANGED store
    BY DEF GenerateBlocked, GenerateBadLength, GenerateDelivered, GenerateUndelivered
  <2> QED BY <1>3, <2>1, <2>2, <2>3, <2>4, <2>5 DEF Generate
<1>4. ASSUME NEW v \in Verifies, Verify(v) PROVE AsContract \/ UNCHANGED store
  <2>1. VerifyCount(v) => AsContract
    BY OperationsAre DEF VerifyCount
  <2>2. VerifyRefused(v) \/ VerifyFinalizeDelete(v) => AsContract
    BY <1>1, OperationsAre DEF VerifyRefused, VerifyFinalizeDelete
  <2>3. VerifyCompare(v) => AsContract
    BY AttemptIs
  <2>4. VerifyClear(v) => AsContract
    BY OperationsAre DEF VerifyClear, ClearFailures
  <2>5. VerifyUnlock(v) => AsContract
    BY OperationsAre DEF VerifyUnlock
  <2>6. VerifyBegin(v) \/ VerifyLookup(v) \/ VerifyMismatch(v) => UNCHANGED store
    BY DEF VerifyBegin, VerifyLookup, VerifyMismatch
  <2>7. ~VerifyFinalizeUpdate(v)
    BY DEF VerifyFinalizeUpdate
  <2> QED BY <1>4, <2>1, <2>2, <2>3, <2>4, <2>5, <2>6, <2>7 DEF Verify
<1>5. ASSUME NEW c \in Consumes, Consume(c) PROVE AsContract
  <2>1. ConsumeDelete(c) => AsContract
    BY <1>1, OperationsAre DEF ConsumeDelete
  <2>2. ConsumeUnlock(c) => AsContract
    BY OperationsAre DEF ConsumeUnlock
  <2>3. ConsumeClear(c) => AsContract
    BY OperationsAre DEF ConsumeClear, ClearFailures
  <2> QED BY <1>5, <2>1, <2>2, <2>3 DEF Consume
<1>6. ASSUME NEW c \in Calls, StorageRejects(c) \/ Crash(c) PROVE UNCHANGED store
  BY <1>6 DEF StorageRejects, Crash
<1>7. Tick => AsContract
  BY TimeIs
<1>8. UNCHANGED vars => UNCHANGED store
  BY DEF vars
<1> QED BY <1>3, <1>4, <1>5, <1>6, <1>7, <1>8 DEF Next

\* What the calls do to the storage, however they overlap, reject and crash, is what IOtpStorage
\* promises, operation by operation, where a verified code is consumed.
THEOREM UsesContractHolds == ASSUME ConsumeOnVerify PROVE Spec => UsesContract
<1>1. Init => LiveInv
  BY DEF Init, LiveInv
<1>2. TypeOK /\ LiveInv /\ [Next]_vars => LiveInv' /\ [AsContract]_store
  BY LiveStep, StepIsOperation
<1> QED BY <1>1, <1>2, TypeCorrect, PTL DEF Spec, UsesContract, AsContract

=============================================================================
