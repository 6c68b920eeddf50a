--------------------------- MODULE RedactionProofs ---------------------------
(***************************************************************************)
(* Proofs about Redaction: what may be said of a send that failed, for     *)
(* every text and body, every declared value, every chain of causes.       *)
(*                                                                         *)
(* A text that is withheld.  The codes are followed from the grammar to    *)
(* the three places they are published at: what the grammar gives is       *)
(* Admitted, dropping a field keeps it so, and after the filter it is      *)
(* free of declared values too (Publishable).                              *)
(*                                                                         *)
(* A text that is scrubbed.  Every character written is traced back to a   *)
(* position that no occurrence of a value covers, and characters between   *)
(* which no marker was written were neighbours in the text (Traces).  What *)
(* could be read in the result was therefore in the text, uncovered.       *)
(*                                                                         *)
(* A chain that is scrubbed.  What stands for a link is Settled: it holds  *)
(* nothing to remove and leads only to what stands for another link; so    *)
(* all that is reached from one is clean (CleanIfClosed).  It is Docile    *)
(* besides, and a second scrub finds nothing to replace.  A Scope bounds   *)
(* what a walk may meet: the copies it makes are never among it.           *)
(***************************************************************************)
EXTENDS Redaction, SequenceTheorems, WellFoundedInduction, TLAPS

\* What holds of a run, or of codes, in a delivery d.
SecretFree(d, run) == \A secret \in d.secrets \ {<<>>} : ~Includes(run, secret)

StatusAdmitted(d, run) ==
  run # Silence => /\ IsBasicStatus(run)
                   /\ Attaches(d, d.status, run) \/ BasicsIn(Source(d)) = {run}

EnhancedAdmitted(d, run) ==
  run # Silence => /\ IsEnhancedStatus(run)
                   /\ Attaches(d, d.enhanced, run) \/ EnhancedIn(Source(d)) = {run}

Admitted(d, c) == c \in Codes /\ StatusAdmitted(d, c.status) /\ EnhancedAdmitted(d, c.enhanced)

Publishable(d, c) == Admitted(d, c) /\ SecretFree(d, c.status) /\ SecretFree(d, c.enhanced)

Arguments(d) ==
  /\ d.by \in {"smtp", "other"}
  /\ d.texts \in Seq(SUBSET Runs)
  /\ d.status \in Runs \X Runs /\ d.enhanced \in Runs \X Runs
  /\ d.secrets \subseteq Runs

-----------------------------------------------------------------------------
(* The grammar and the filter *)

LEMMA SilenceIsRun == Silence \in Runs /\ Len(Silence) = 0
BY DEF Silence, Runs

\* Nothing is no code, and holds no declared value.
LEMMA SilenceIsSafe ==
  ASSUME NEW d, Arguments(d)
  PROVE  SecretFree(d, Silence) /\ ~IsBasicStatus(Silence) /\ ~IsEnhancedStatus(Silence)
<1>1. ~IsBasicStatus(Silence) /\ ~IsEnhancedStatus(Silence)
  BY SilenceIsRun DEF IsBasicStatus, IsEnhancedStatus
<1>2. ASSUME NEW secret \in d.secrets \ {<<>>} PROVE ~Includes(Silence, secret)
  <2>1. Len(secret) \in Nat /\ Len(secret) # 0
    BY DEF Arguments, Runs
  <2> QED BY SilenceIsRun, <2>1 DEF Includes
<1> QED BY <1>1, <1>2 DEF SecretFree

\* The only match is one of the matches; otherwise there is none.
LEMMA SoleMatchIsOnly ==
  ASSUME NEW matches, SoleMatch(matches) # Silence
  PROVE  matches = {SoleMatch(matches)}
BY DEF SoleMatch

LEMMA SoleMatchIsRun ==
  ASSUME NEW matches \in SUBSET Runs
  PROVE  SoleMatch(matches) \in Runs
BY SilenceIsRun DEF SoleMatch

\* The runs of a chain of messages.
LEMMA RunsOfRuns ==
  ASSUME NEW texts \in Seq(SUBSET Runs)
  PROVE  RunsOf(texts) \in SUBSET Runs
BY DEF RunsOf

\* What the grammar finds in the runs that a delivery's codes come from is admitted.
LEMMA ExtractAdmitted ==
  ASSUME NEW d, Source(d) \in SUBSET Runs
  PROVE  Admitted(d, ExtractDeliveryStatus(Source(d)))
<1> DEFINE status == SoleMatch(BasicsIn(Source(d)))
           enhanced == SoleMatch(EnhancedIn(Source(d)))
<1>1. status \in Runs /\ enhanced \in Runs
  BY SoleMatchIsRun DEF BasicsIn, EnhancedIn
<1>2. StatusAdmitted(d, status)
  BY SoleMatchIsOnly DEF StatusAdmitted, BasicsIn
<1>3. EnhancedAdmitted(d, enhanced)
  BY SoleMatchIsOnly DEF EnhancedAdmitted, EnhancedIn
<1> QED BY <1>1, <1>2, <1>3 DEF Admitted, ExtractDeliveryStatus, Codes

\* The filter keeps what is admitted and drops what holds a declared value.
LEMMA FilterPublishes ==
  ASSUME NEW d, Arguments(d), NEW c, Admitted(d, c)
  PROVE  Publishable(d, WithoutDeclaredValues(c, d.secrets))
<1> DEFINE kept(run) == Withheld(run, d.secrets)
<1>1. kept(c.status) \in {c.status, Silence} /\ kept(c.enhanced) \in {c.enhanced, Silence}
  BY DEF Withheld
<1>2. SecretFree(d, kept(c.status)) /\ SecretFree(d, kept(c.enhanced))
  BY SilenceIsSafe DEF Withheld, Collides, SecretFree
<1>3. kept(c.status) \in Runs /\ kept(c.enhanced) \in Runs
  BY <1>1, SilenceIsRun DEF Admitted, Codes
<1>4. StatusAdmitted(d, kept(c.status)) /\ EnhancedAdmitted(d, kept(c.enhanced))
  BY <1>1 DEF Admitted, StatusAdmitted, EnhancedAdmitted
<1> QED BY <1>2, <1>3, <1>4 DEF Publishable, Admitted, WithoutDeclaredValues, Codes

\* Codes that are not there are publishable.
LEMMA NoCodesPublishable ==
  ASSUME NEW d, Arguments(d)
  PROVE  Publishable(d, NoCodes)
BY SilenceIsRun, SilenceIsSafe
   DEF Publishable, Admitted, StatusAdmitted, EnhancedAdmitted, NoCodes, Codes

-----------------------------------------------------------------------------
(* The failure *)

\* What the service catches: what the SMTP provider attached after its own filter, under a fixed
\* label, or whatever another provider threw.
Caught ==
  \/ /\ delivery.by = "smtp" /\ thrown.texts = <<{}>>
     /\ \E c \in Codes : /\ Publishable(delivery, c)
                        /\ thrown.status = <<c.status, c.status>>
                        /\ thrown.enhanced = <<c.enhanced, c.enhanced>>
  \/ /\ delivery.by = "other" /\ thrown.texts = delivery.texts
     /\ thrown.status = delivery.status /\ thrown.enhanced = delivery.enhanced

Places == {"line", "entry", "details"}

WithheldInv ==
  /\ Arguments(delivery) /\ (stage # "idle" => delivery.texts # <<>>)
  /\ WithheldTypeOK
  /\ Publishable(delivery, codes)
  /\ \A place \in Places : Publishable(delivery, said[place])
  /\ stage = "caught" => Caught

LEMMA WithheldStarts ==
  ASSUME WithheldInit \/ WithheldIdle
  PROVE  WithheldInv
<1>1. /\ Arguments(delivery) /\ stage \in {"idle", "rejected"}
      /\ stage # "idle" => delivery.texts # <<>>
  <2>1. CASE WithheldInit
    <3>1. delivery \in [by : {"smtp", "other"}, texts : Seq(SUBSET Runs) \ {<<>>},
                        status : Runs \X Runs, enhanced : Runs \X Runs, secrets : SUBSET Runs]
      BY <2>1, DeliveriesAssumption DEF WithheldInit
    <3> QED BY <2>1, <3>1 DEF WithheldInit, Arguments
  <2>2. CASE WithheldIdle
    <3>1. <<Silence, Silence>> \in Runs \X Runs
      BY SilenceIsRun
    <3> QED BY <2>2, <3>1 DEF WithheldIdle, Arguments
  <2> QED BY <2>1, <2>2
<1>2. Publishable(delivery, NoCodes)
  BY <1>1, NoCodesPublishable
<1>3. codes = NoCodes /\ said = [place \in Places |-> NoCodes]
  BY DEF WithheldInit, WithheldIdle, WithheldStart, Places
<1>4. thrown \in [texts : Seq(SUBSET Runs), status : Runs \X Runs, enhanced : Runs \X Runs]
  <2>1. <<Silence, Silence>> \in Runs \X Runs
    BY SilenceIsRun
  <2>2. thrown = [texts |-> <<>>, status |-> <<Silence, Silence>>,
                  enhanced |-> <<Silence, Silence>>]
    BY DEF WithheldInit, WithheldIdle, WithheldStart
  <2> QED BY <2>1, <2>2
<1>5. NoCodes \in Codes
  BY <1>2 DEF Publishable, Admitted
<1>6. WithheldTypeOK
  BY <1>1, <1>3, <1>4, <1>5 DEF WithheldTypeOK, Places
<1> QED BY <1>1, <1>2, <1>3, <1>6 DEF WithheldInv, Places

\* Where the status published comes from, if it is not the messages.
LEMMA AttachedAdmitted ==
  ASSUME Arguments(delivery), Caught
  PROVE  Admitted(delivery, Attached)
<1>1. /\ Attached.status \in {thrown.status[1], Silence}
      /\ Attached.enhanced \in {thrown.enhanced[1], Silence}
      /\ Attached.status # Silence => IsBasicStatus(thrown.status[1])
      /\ Attached.enhanced # Silence => IsEnhancedStatus(thrown.enhanced[1])
  BY DEF Attached, Snapshot
<1>2. CASE delivery.by = "smtp"
  <2>1. PICK c \in Codes : /\ Publishable(delivery, c) /\ thrown.status = <<c.status, c.status>>
                           /\ thrown.enhanced = <<c.enhanced, c.enhanced>>
    BY <1>2 DEF Caught
  <2>2. thrown.status[1] = c.status /\ thrown.enhanced[1] = c.enhanced
    BY <2>1
  <2>3. Attached \in Codes
    BY <1>1, <2>2, SilenceIsRun DEF Attached, Codes
  <2> QED BY <1>1, <2>1, <2>2, <2>3 DEF Publishable, Admitted, StatusAdmitted, EnhancedAdmitted
<1>3. CASE delivery.by = "other"
  <2>1. thrown.status = delivery.status /\ thrown.enhanced = delivery.enhanced
    BY <1>3 DEF Caught
  <2>2. Attached \in Codes
    BY <1>1, <2>1, SilenceIsRun DEF Attached, Codes, Arguments
  <2> QED BY <1>1, <1>3, <2>1, <2>2 DEF Admitted, StatusAdmitted, EnhancedAdmitted, Attaches
<1> QED BY <1>2, <1>3 DEF Arguments

\* The SMTP provider attaches, and logs, what its filter let through.
LEMMA SmtpCatchesStep ==
  ASSUME WithheldInv, SmtpCatches
  PROVE  WithheldInv'
<1> DEFINE found == WithoutDeclaredValues(ExtractDeliveryStatus(delivery.texts[1]),
                                          delivery.secrets)
<1>1. delivery.by = "smtp" /\ Source(delivery) = delivery.texts[1]
      /\ delivery.texts[1] \in SUBSET Runs
  BY DEF SmtpCatches, Source, WithheldInv, Arguments
<1>2. Publishable(delivery, found)
  BY <1>1, ExtractAdmitted, FilterPublishes DEF WithheldInv
<1>3. found \in Codes
  BY <1>2 DEF Publishable, Admitted
<1>4. /\ thrown' = [texts |-> <<{}>>, status |-> <<found.status, found.status>>,
                    enhanced |-> <<found.enhanced, found.enhanced>>]
      /\ said' = [said EXCEPT !["line"] = found]
      /\ stage' = "caught" /\ stage = "rejected" /\ UNCHANGED <<codes, delivery>>
  BY DEF SmtpCatches
<1> HIDE DEF found
<1>5. WithheldTypeOK'
  BY <1>3, <1>4 DEF WithheldInv, WithheldTypeOK, Codes
<1>6. \A place \in Places : Publishable(delivery, said'[place])
  BY <1>2, <1>4 DEF WithheldInv, WithheldTypeOK, Places
<1>7. Caught'
  BY <1>1, <1>2, <1>3, <1>4 DEF Caught
<1> QED BY <1>4, <1>5, <1>6, <1>7 DEF WithheldInv

\* The service filters whatever it has read.
LEMMA ReadStatusStep ==
  ASSUME WithheldInv, ReadStatus
  PROVE  WithheldInv'
<1> DEFINE read == IF Attached # NoCodes THEN Attached
                   ELSE ExtractDeliveryStatus(RunsOf(thrown.texts))
<1>1. Caught /\ Arguments(delivery)
  BY DEF ReadStatus, WithheldInv
<1>2. Admitted(delivery, ExtractDeliveryStatus(RunsOf(thrown.texts)))
  <2>1. CASE delivery.by = "smtp"
    <3>1. RunsOf(thrown.texts) = {}
      BY <1>1, <2>1 DEF Caught, RunsOf
    <3>2. ExtractDeliveryStatus({}) = NoCodes
      BY DEF ExtractDeliveryStatus, BasicsIn, EnhancedIn, SoleMatch, NoCodes
    <3> QED BY <1>1, <3>1, <3>2, NoCodesPublishable DEF Publishable
  <2>2. CASE delivery.by = "other"
    <3>1. RunsOf(thrown.texts) = Source(delivery) /\ Source(delivery) \in SUBSET Runs
      BY <1>1, <2>2, RunsOfRuns DEF Caught, Source, Arguments
    <3> QED BY <3>1, ExtractAdmitted
  <2> QED BY <1>1, <2>1, <2>2 DEF Arguments
<1>3. Admitted(delivery, read)
  BY <1>1, <1>2, AttachedAdmitted
<1>4. /\ codes' = WithoutDeclaredValues(read, delivery.secrets)
      /\ stage' = "audit" /\ stage # "idle" /\ UNCHANGED <<delivery, thrown, said>>
  BY DEF ReadStatus
<1> HIDE DEF read
<1>5. Publishable(delivery, codes')
  BY <1>1, <1>3, <1>4, FilterPublishes
<1> QED BY <1>4, <1>5 DEF WithheldInv, WithheldTypeOK, Publishable, Admitted

LEMMA WithheldStep ==
  ASSUME WithheldInv, WithheldNext \/ UNCHANGED withheldVars
  PROVE  WithheldInv'
<1>1. CASE OtherThrows
  <2>1. Caught'
    BY <1>1 DEF OtherThrows, Caught
  <2>2. WithheldTypeOK'
    BY <1>1 DEF OtherThrows, WithheldInv, WithheldTypeOK, Arguments
  <2> QED BY <1>1, <2>1, <2>2 DEF OtherThrows, WithheldInv
<1>2. CASE Audit \/ Fail
  <2>1. /\ UNCHANGED <<delivery, thrown, codes>> /\ stage # "idle"
        /\ stage' \in {"failing", "unaudited", "failed"}
        /\ \/ UNCHANGED said
           \/ \E place \in Places : said' = [said EXCEPT ![place] = codes]
    BY <1>2 DEF Audit, Fail, Places
  <2>2. WithheldTypeOK'
    BY <2>1 DEF WithheldInv, WithheldTypeOK, Places
  <2>3. \A place \in Places : Publishable(delivery, said'[place])
    BY <2>1 DEF WithheldInv, WithheldTypeOK, Places
  <2> QED BY <2>1, <2>2, <2>3 DEF WithheldInv
<1>3. CASE UNCHANGED withheldVars
  BY <1>3 DEF withheldVars, WithheldInv, WithheldTypeOK, Caught
<1> QED BY <1>1, <1>2, <1>3, SmtpCatchesStep, ReadStatusStep DEF WithheldNext

-----------------------------------------------------------------------------

LEMMA WithheldInvariant == Spec => []WithheldInv
<1>1. Init => WithheldInv
  BY WithheldStarts DEF Init
<1>2. WithheldInv /\ [Next]_vars => WithheldInv'
  BY WithheldStep DEF Next, Scrub, Withhold, vars
<1> QED BY <1>1, <1>2, PTL DEF Spec

\* Whatever the relay answers, whatever a provider's error says when it is read and however often,
\* no declared value is part of a published code (withoutDeclaredValues).
THEOREM NoSecretPublishedHolds == Spec => []NoSecretPublished
<1>1. WithheldInv => NoSecretPublished
  BY DEF WithheldInv, WithheldTypeOK, Publishable, SecretFree, NoSecretPublished, Places
<1> QED BY <1>1, WithheldInvariant, PTL

\* What is published of a withheld text is a well-formed code that its provider attached, or the
\* only one of its kind in all that was read (soleMatch, readAttachedStatus).
THEOREM OneStatusOrSilenceHolds == Spec => []OneStatusOrSilence
<1>1. WithheldInv => OneStatusOrSilence
  BY DEF WithheldInv, WithheldTypeOK, Publishable, Admitted, StatusAdmitted, EnhancedAdmitted,
         OneStatusOrSilence, Places
<1> QED BY <1>1, WithheldInvariant, PTL

-----------------------------------------------------------------------------
(* Texts *)

\* A set of lengths that is not empty has a longest one.
LEMMA LongestIsLongest ==
  ASSUME NEW n \in Nat, NEW lengths \in SUBSET (0 .. n), lengths # {}
  PROVE  Longest(lengths) \in lengths /\ \A m \in lengths : m <= Longest(lengths)
<1> DEFINE rest == {m \in Nat : n - m \in lengths}
<1>1. rest \subseteq Nat /\ rest # {}
  <2>1. PICK k \in lengths : TRUE
    OBVIOUS
  <2>2. n - k \in Nat /\ n - (n - k) = k
    OBVIOUS
  <2> QED BY <2>1, <2>2
<1>2. IsWellFoundedOn(OpToRel(<, Nat), Nat)
  BY NatLessThanWellFounded
<1>3. \E x \in rest : \A y \in rest : ~(<<y, x>> \in OpToRel(<, Nat))
  BY <1>1, <1>2, WFMin
<1>4. PICK x \in rest : \A y \in rest : ~(<<y, x>> \in OpToRel(<, Nat))
  BY <1>3
<1>5. \A y \in rest : ~(y < x)
  BY <1>1, <1>4 DEF OpToRel
<1>6. n - x \in lengths /\ x \in Nat
  BY <1>4
<1>7. ASSUME NEW m \in lengths PROVE m <= n - x
  <2>1. n - m \in Nat /\ n - (n - m) = m
    OBVIOUS
  <2> QED BY <1>5, <1>6, <2>1
<1> QED BY <1>6, <1>7 DEF Longest

\* What a slice of a text is.
LEMMA SliceProperties ==
  ASSUME NEW S, NEW text \in Seq(S), NEW a \in 0 .. Len(text), NEW b \in a .. Len(text)
  PROVE  /\ Slice(text, a, b) \in Seq(S) /\ Len(Slice(text, a, b)) = b - a
         /\ \A i \in 1 .. b - a : Slice(text, a, b)[i] = text[a + i]
<1>1. Len(text) \in Nat /\ a \in Nat /\ b \in Nat /\ a <= b
  BY LenProperties
<1>2. \A i \in a + 1 .. b : text[i] \in S
  BY <1>1, ElementOfSeq
<1>3. /\ SubSeq(text, a + 1, b) \in Seq(S)
      /\ Len(SubSeq(text, a + 1, b)) = IF a + 1 <= b THEN b - (a + 1) + 1 ELSE 0
      /\ \A i \in 1 .. b - (a + 1) + 1 : SubSeq(text, a + 1, b)[i] = text[a + 1 + i - 1]
  <2>1. a + 1 \in Int /\ b \in Int
    BY <1>1
  <2> QED BY <1>2, <2>1, SubSeqProperties
<1>4. b - (a + 1) + 1 = b - a /\ \A i \in 1 .. b - a : a + 1 + i - 1 = a + i
  BY <1>1
<1>5. (IF a + 1 <= b THEN b - (a + 1) + 1 ELSE 0) = b - a
  BY <1>1
<1> QED BY <1>3, <1>4, <1>5 DEF Slice

-----------------------------------------------------------------------------
(* What is written, and where it comes from *)

\* A position inside an occurrence.
Covered(occurrences, at) ==
  \E span \in occurrences : span.start < at /\ at <= span.end

\* What has been written stands for the text up to a place: from tells where each character kept
\* was.  No occurrence covers it, and every character that none covers is kept, in its order;
\* characters with no marker between them were neighbours.
Traces(from, written, text, occurrences, upto) ==
  /\ from \in [1 .. Len(written) -> Nat]
  /\ \A k \in 1 .. Len(written) : written[k] # Marker =>
        /\ from[k] \in 1 .. upto /\ written[k] = text[from[k]]
        /\ ~Covered(occurrences, from[k])
  /\ \A j, k \in 1 .. Len(written) :
        j < k /\ written[j] # Marker /\ written[k] # Marker => from[j] < from[k]
  /\ \A at \in 1 .. upto : ~Covered(occurrences, at) =>
        \E k \in 1 .. Len(written) : written[k] # Marker /\ from[k] = at
  /\ \A i, j \in 1 .. Len(written) :
        i <= j /\ (\A k \in i .. j : written[k] # Marker) => from[j] = from[i] + (j - i)

\* Nothing to the left of what comes next but a marker.
Closed(written) == Len(written) = 0 \/ written[Len(written)] = Marker

\* Text that no occurrence covers may be kept, after a marker.
LEMMA SliceTraced ==
  ASSUME NEW text \in Seq(Chars), NEW occurrences, NEW written \in Seq(Chars \cup {Marker}),
         NEW a \in 0 .. Len(text), NEW b \in a .. Len(text),
         NEW from, Traces(from, written, text, occurrences, a), Closed(written),
         \A at \in a + 1 .. b : ~Covered(occurrences, at)
  PROVE  /\ written \o Slice(text, a, b) \in Seq(Chars \cup {Marker})
         /\ \E g : Traces(g, written \o Slice(text, a, b), text, occurrences, b)
<1> DEFINE slice == Slice(text, a, b)
           longer == written \o slice
           g == [k \in 1 .. Len(longer) |->
                   IF k <= Len(written) THEN from[k] ELSE a + (k - Len(written))]
<1>1. /\ Len(text) \in Nat /\ Len(written) \in Nat /\ a \in Nat /\ b \in Nat /\ a <= b
      /\ b <= Len(text)
  BY LenProperties
<1>2. /\ slice \in Seq(Chars \cup {Marker}) /\ Len(slice) = b - a
      /\ \A i \in 1 .. b - a : slice[i] = text[a + i]
  <2>1. text \in Seq(Chars \cup {Marker})
    BY SeqMonotonic
  <2> QED BY <2>1, SliceProperties
<1>3. /\ longer \in Seq(Chars \cup {Marker}) /\ Len(longer) = Len(written) + (b - a)
      /\ \A k \in 1 .. Len(written) + (b - a) :
            longer[k] = IF k <= Len(written) THEN written[k] ELSE slice[k - Len(written)]
  <2> HIDE DEF slice
  <2>1. /\ longer \in Seq(Chars \cup {Marker}) /\ Len(longer) = Len(written) + Len(slice)
        /\ \A k \in 1 .. Len(written) + Len(slice) :
              longer[k] = IF k <= Len(written) THEN written[k] ELSE slice[k - Len(written)]
    BY <1>2, ConcatProperties
  <2> QED BY <1>2, <2>1
<1> HIDE DEF slice, longer
<1>4. g \in [1 .. Len(longer) -> Nat]
  BY <1>1, <1>3 DEF Traces
<1>5. ASSUME NEW k \in 1 .. Len(longer), longer[k] # Marker
      PROVE  /\ g[k] \in 1 .. b /\ longer[k] = text[g[k]]
             /\ ~Covered(occurrences, g[k])
  <2>1. CASE k <= Len(written)
    BY <1>1, <1>3, <1>5, <2>1 DEF Traces
  <2>2. CASE ~(k <= Len(written))
    <3>1. k - Len(written) \in 1 .. b - a /\ g[k] = a + (k - Len(written))
      BY <1>1, <1>3, <2>2
    <3>2. longer[k] = text[g[k]]
      BY <1>1, <1>2, <1>3, <2>2, <3>1
    <3>3. g[k] \in a + 1 .. b
      BY <1>1, <3>1
    <3> QED BY <1>1, <3>2, <3>3
  <2> QED BY <2>1, <2>2
<1>6. ASSUME NEW i \in 1 .. Len(longer), NEW j \in 1 .. Len(longer), i <= j,
             \A k \in i .. j : longer[k] # Marker
      PROVE  g[j] = g[i] + (j - i)
  <2>1. CASE j <= Len(written)
    <3>1. ASSUME NEW k \in i .. j
          PROVE  written[k] # Marker
      <4>1. k \in 1 .. Len(written) + (b - a) /\ k <= Len(written)
        BY <1>1, <1>3, <2>1
      <4>2. longer[k] = written[k]
        BY <1>3, <4>1
      <4> QED BY <1>6, <4>2
    <3>2. i \in 1 .. Len(written) /\ j \in 1 .. Len(written)
      BY <1>1, <1>3, <2>1, <1>6
    <3>3. from[j] = from[i] + (j - i)
      <4> HIDE DEF g
      <4> QED BY <1>6, <3>1, <3>2 DEF Traces
    <3> QED BY <3>2, <3>3
  <2>2. CASE i > Len(written)
    BY <1>1, <1>3, <1>6, <2>2
  <2>3. CASE i <= Len(written) /\ j > Len(written)
    <3>1. Len(written) \in i .. j /\ Len(written) # 0
      BY <1>1, <1>3, <2>3
    <3>2. Len(written) \in 1 .. Len(written) + (b - a) /\ Len(written) <= Len(written)
      BY <1>1, <3>1
    <3>3. longer[Len(written)] = written[Len(written)]
      <4> HIDE DEF g
      <4> QED BY <1>3, <3>2
    <3> QED BY <1>6, <3>1, <3>3 DEF Closed
  <2> QED BY <1>1, <1>3, <2>1, <2>2, <2>3
<1>7. \A k \in 1 .. Len(longer) :
         /\ k <= Len(written) => longer[k] = written[k] /\ g[k] = from[k]
         /\ k > Len(written) => g[k] = a + (k - Len(written)) /\ g[k] \in a + 1 .. b
  BY <1>1, <1>3
<1>8. ASSUME NEW j \in 1 .. Len(longer), NEW k \in 1 .. Len(longer),
             j < k, longer[j] # Marker, longer[k] # Marker
      PROVE  g[j] < g[k]
  <2>1. CASE k <= Len(written)
    BY <1>1, <1>3, <1>7, <1>8, <2>1 DEF Traces
  <2>2. CASE j > Len(written)
    BY <1>1, <1>3, <1>7, <1>8, <2>2
  <2>3. CASE j <= Len(written) /\ k > Len(written)
    <3>1. j \in 1 .. Len(written) /\ longer[j] = written[j] /\ g[j] = from[j]
      <4>1. j \in 1 .. Len(written)
        BY <1>1, <2>3
      <4> QED BY <1>7, <2>3, <4>1
    <3>2. from[j] \in 1 .. a
      BY <1>8, <3>1 DEF Traces
    <3>3. g[k] \in a + 1 .. b
      BY <1>7, <2>3
    <3> QED BY <1>1, <3>1, <3>2, <3>3
  <2> QED BY <1>1, <1>3, <2>1, <2>2, <2>3
<1>9. ASSUME NEW at \in 1 .. b, ~Covered(occurrences, at)
      PROVE  \E k \in 1 .. Len(longer) : longer[k] # Marker /\ g[k] = at
  <2>1. CASE at <= a
    <3>1. PICK k \in 1 .. Len(written) : written[k] # Marker /\ from[k] = at
      BY <1>1, <1>9, <2>1 DEF Traces
    <3>2. k \in 1 .. Len(longer) /\ k <= Len(written)
      BY <1>1, <1>3
    <3> QED BY <1>7, <3>1, <3>2
  <2>2. CASE at > a
    <3> DEFINE k == Len(written) + (at - a)
    <3>1. k \in 1 .. Len(longer) /\ k > Len(written) /\ k - Len(written) = at - a
      BY <1>1, <1>3, <2>2
    <3>2. at - a \in 1 .. b - a /\ a + (at - a) = at
      BY <1>1, <2>2
    <3>3. k \in 1 .. Len(written) + (b - a) /\ ~(k <= Len(written))
      BY <1>1, <1>3, <3>1
    <3> HIDE DEF k
    <3>4. g[k] = at
      BY <1>7, <3>1, <3>2
    <3>5. longer[k] = slice[at - a]
      BY <1>3, <3>1, <3>3
    <3>6. slice[at - a] = text[at]
      BY <1>2, <3>2
    <3>7. text[at] # Marker
      BY <1>1, ElementOfSeq, MarkerIsNoChar
    <3> QED BY <3>1, <3>4, <3>5, <3>6, <3>7
  <2> QED BY <1>1, <2>1, <2>2
<1>10. Traces(g, longer, text, occurrences, b)
  <2> HIDE DEF g
  <2> QED BY <1>4, <1>5, <1>6, <1>8, <1>9 DEF Traces
<1> QED BY <1>3, <1>10 DEF slice, longer

\* A marker stands for what is covered.
LEMMA MarkerTraced ==
  ASSUME NEW text \in Seq(Chars), NEW occurrences, NEW written \in Seq(Chars \cup {Marker}),
         NEW a \in Nat, NEW b \in Nat, a <= b, \A at \in a + 1 .. b : Covered(occurrences, at),
         NEW from, Traces(from, written, text, occurrences, a)
  PROVE  /\ written \o <<Marker>> \in Seq(Chars \cup {Marker})
         /\ Closed(written \o <<Marker>>)
         /\ \E g : Traces(g, written \o <<Marker>>, text, occurrences, b)
<1> DEFINE longer == written \o <<Marker>>
           g == [k \in 1 .. Len(longer) |-> IF k <= Len(written) THEN from[k] ELSE 0]
<1>1. Len(written) \in Nat
  BY LenProperties
<1>2. /\ longer \in Seq(Chars \cup {Marker}) /\ Len(longer) = Len(written) + 1
      /\ \A k \in 1 .. Len(written) + 1 :
            longer[k] = IF k <= Len(written) THEN written[k] ELSE Marker
  <2>1. <<Marker>> \in Seq(Chars \cup {Marker}) /\ Len(<<Marker>>) = 1 /\ <<Marker>>[1] = Marker
    OBVIOUS
  <2>2. /\ longer \in Seq(Chars \cup {Marker}) /\ Len(longer) = Len(written) + 1
        /\ \A k \in 1 .. Len(written) + 1 :
              longer[k] = IF k <= Len(written) THEN written[k] ELSE <<Marker>>[k - Len(written)]
    BY <2>1, ConcatProperties
  <2>3. \A k \in 1 .. Len(written) + 1 : ~(k <= Len(written)) => k - Len(written) = 1
    BY <1>1
  <2> QED BY <2>1, <2>2, <2>3
<1> HIDE DEF longer
<1>3. Closed(longer)
  BY <1>1, <1>2 DEF Closed
<1>4. g \in [1 .. Len(longer) -> Nat]
  BY <1>1, <1>2 DEF Traces
<1>5. ASSUME NEW k \in 1 .. Len(longer), longer[k] # Marker
      PROVE  /\ g[k] \in 1 .. b /\ longer[k] = text[g[k]]
             /\ ~Covered(occurrences, g[k])
  BY <1>1, <1>2, <1>5 DEF Traces
<1>6. ASSUME NEW i \in 1 .. Len(longer), NEW j \in 1 .. Len(longer), i <= j,
             \A k \in i .. j : longer[k] # Marker
      PROVE  g[j] = g[i] + (j - i)
  <2>1. j <= Len(written)
    BY <1>1, <1>2, <1>6
  <2>2. ASSUME NEW k \in i .. j
        PROVE  written[k] # Marker
    <3>1. k \in 1 .. Len(written) + 1 /\ k <= Len(written)
      BY <1>1, <1>2, <2>1
    <3>2. longer[k] = written[k]
      BY <1>2, <3>1
    <3> QED BY <1>6, <3>2
  <2>3. i \in 1 .. Len(written) /\ j \in 1 .. Len(written)
    BY <1>1, <1>2, <1>6, <2>1
  <2>4. from[j] = from[i] + (j - i)
    <3> HIDE DEF g
    <3> QED BY <1>6, <2>2, <2>3 DEF Traces
  <2> QED BY <2>3, <2>4
<1>7. ASSUME NEW j \in 1 .. Len(longer), NEW k \in 1 .. Len(longer),
             j < k, longer[j] # Marker, longer[k] # Marker
      PROVE  g[j] < g[k]
  <2>1. /\ j \in 1 .. Len(written) /\ k \in 1 .. Len(written)
        /\ written[j] # Marker /\ written[k] # Marker
    BY <1>1, <1>2, <1>7
  <2>2. from[j] < from[k]
    <3> HIDE DEF g
    <3> QED BY <1>7, <2>1 DEF Traces
  <2> QED BY <2>1, <2>2
<1>8. ASSUME NEW at \in 1 .. b, ~Covered(occurrences, at)
      PROVE  \E k \in 1 .. Len(longer) : longer[k] # Marker /\ g[k] = at
  <2>1. at \in 1 .. a
    BY <1>8
  <2>2. PICK k \in 1 .. Len(written) : written[k] # Marker /\ from[k] = at
    BY <1>8, <2>1 DEF Traces
  <2> QED BY <1>1, <1>2, <2>2
<1>9. Traces(g, longer, text, occurrences, b)
  <2> HIDE DEF g
  <2> QED BY <1>4, <1>5, <1>6, <1>7, <1>8 DEF Traces
<1> QED BY <1>2, <1>3, <1>9 DEF longer

\* An occurrence, character by character.
LEMMA ElementsOfOccurrence ==
  ASSUME NEW S, NEW text \in Seq(S), NEW value \in Seq(S), NEW at \in 0 .. Len(text),
         at + Len(value) <= Len(text)
  PROVE  OccursAt(value, text, at) <=> \A i \in 1 .. Len(value) : value[i] = text[at + i]
<1> DEFINE end == at + Len(value)
<1>1. Len(text) \in Nat /\ Len(value) \in Nat /\ at \in Nat
  BY LenProperties
<1>2. end \in at .. Len(text) /\ end - at = Len(value)
  BY <1>1
<1>3. OccursAt(value, text, at) <=> Slice(text, at, end) = value
  BY DEF OccursAt
<1> HIDE DEF end
<1>4. /\ Slice(text, at, end) \in Seq(S) /\ Len(Slice(text, at, end)) = Len(value)
      /\ \A i \in 1 .. Len(value) : Slice(text, at, end)[i] = text[at + i]
  <2>1. /\ Slice(text, at, end) \in Seq(S) /\ Len(Slice(text, at, end)) = end - at
        /\ \A i \in 1 .. end - at : Slice(text, at, end)[i] = text[at + i]
    BY <1>2, SliceProperties
  <2> QED BY <1>2, <2>1
<1> DEFINE slice == Slice(text, at, end)
<1>5. slice = value <=> \A i \in 1 .. Len(value) : value[i] = text[at + i]
  <2> HIDE DEF slice
  <2>1. slice \in Seq(S) /\ Len(slice) = Len(value)
        /\ \A i \in 1 .. Len(value) : slice[i] = text[at + i]
    BY <1>4 DEF slice
  <2> QED BY <2>1, SeqEqual
<1> QED BY <1>3, <1>5

\* What is found in what was written was in the text, at a place that no occurrence covers.
LEMMA TakenFromText ==
  ASSUME NEW text \in Seq(Chars), NEW occurrences, NEW written \in Seq(Chars \cup {Marker}),
         NEW from, Traces(from, written, text, occurrences, Len(text)),
         NEW value \in Seq(Chars), value # <<>>,
         NEW at \in 0 .. Len(written), OccursAt(value, written, at)
  PROVE  \E start \in 0 .. Len(text) :
            /\ OccursAt(value, text, start)
            /\ \A p \in start + 1 .. start + Len(value) : ~Covered(occurrences, p)
<1>1. /\ Len(text) \in Nat /\ Len(written) \in Nat /\ Len(value) \in Nat \ {0} /\ at \in Nat
      /\ at + Len(value) <= Len(written)
  BY LenProperties, EmptySeq DEF OccursAt
<1>2. \A i \in 1 .. Len(value) : value[i] = written[at + i]
  <2>1. value \in Seq(Chars \cup {Marker})
    BY SeqMonotonic
  <2> QED BY <1>1, <2>1, ElementsOfOccurrence
<1>3. \A i \in 1 .. Len(value) : written[at + i] # Marker
  BY <1>2, ElementOfSeq, MarkerIsNoChar
<1>4. \A k \in at + 1 .. at + Len(value) : written[k] # Marker
  <2>1. \A k \in at + 1 .. at + Len(value) : k - at \in 1 .. Len(value) /\ at + (k - at) = k
    BY <1>1
  <2> QED BY <1>3, <2>1
<1>5. \A i \in 1 .. Len(value) : from[at + i] = from[at + 1] + (i - 1)
  <2> TAKE i \in 1 .. Len(value)
  <2>1. /\ at + 1 \in 1 .. Len(written) /\ at + i \in 1 .. Len(written) /\ at + 1 <= at + i
        /\ at + i - (at + 1) = i - 1
    BY <1>1
  <2>2. \A k \in at + 1 .. at + i : written[k] # Marker
    BY <1>1, <1>4
  <2> QED BY <2>1, <2>2 DEF Traces
<1>6. \A i \in 1 .. Len(value) : /\ from[at + i] \in 1 .. Len(text)
                                 /\ written[at + i] = text[from[at + i]]
                                 /\ ~Covered(occurrences, from[at + i])
  <2> TAKE i \in 1 .. Len(value)
  <2>1. at + i \in 1 .. Len(written)
    BY <1>1
  <2> QED BY <1>3, <2>1 DEF Traces
<1> DEFINE start == from[at + 1] - 1
<1>7. start \in Nat /\ start + Len(value) <= Len(text)
  <2>1. 1 \in 1 .. Len(value) /\ Len(value) \in 1 .. Len(value)
    BY <1>1
  <2>2. from[at + 1] \in 1 .. Len(text) /\ from[at + Len(value)] \in 1 .. Len(text)
    BY <1>6, <2>1
  <2>3. from[at + Len(value)] = from[at + 1] + (Len(value) - 1)
    BY <1>5, <2>1
  <2> QED BY <1>1, <2>2, <2>3
<1>8. \A i \in 1 .. Len(value) : from[at + i] = start + i
  <2> TAKE i \in 1 .. Len(value)
  <2>1. from[at + i] = from[at + 1] + (i - 1)
    BY <1>5
  <2>2. from[at + 1] \in Nat /\ i \in Nat
    BY <1>1, <1>6
  <2> QED BY <2>1, <2>2
<1> HIDE DEF start
<1>9. \A p \in start + 1 .. start + Len(value) : ~Covered(occurrences, p)
  <2> TAKE p \in start + 1 .. start + Len(value)
  <2>1. p - start \in 1 .. Len(value) /\ start + (p - start) = p
    BY <1>1, <1>7
  <2> QED BY <1>6, <1>8, <2>1
<1>10. OccursAt(value, text, start)
  <2>1. \A i \in 1 .. Len(value) : value[i] = text[start + i]
    BY <1>2, <1>6, <1>8
  <2> QED BY <1>1, <1>7, <2>1, ElementsOfOccurrence
<1> QED BY <1>1, <1>7, <1>9, <1>10

-----------------------------------------------------------------------------
(* The loops over a text *)

\* More values occur at more places.
LEMMA OccurrencesGrow ==
  ASSUME NEW text, NEW few, NEW many, few \subseteq many
  PROVE  /\ Occurrences(text, few) \subseteq Occurrences(text, many)
         /\ \A at : Covered(Occurrences(text, few), at) => Covered(Occurrences(text, many), at)
BY DEF Occurrences, Covered

\* An occurrence of one of the values covers its characters.
LEMMA OccurrenceCovers ==
  ASSUME NEW text \in Seq(Chars), NEW secrets, NEW value \in secrets, value \in Seq(Chars),
         value # <<>>, NEW start \in 0 .. Len(text), OccursAt(value, text, start)
  PROVE  \A p \in start + 1 .. start + Len(value) : Covered(Occurrences(text, secrets), p)
<1>1. Len(value) \in Nat /\ Len(text) \in Nat /\ start + Len(value) \in 0 .. Len(text)
  BY LenProperties DEF OccursAt
<1> DEFINE span == [start |-> start, end |-> start + Len(value)]
<1>2. span \in Occurrences(text, secrets)
  BY <1>1 DEF Occurrences
<1> QED BY <1>1, <1>2 DEF Covered

Found == Occurrences(failure.text, values)

TextArguments ==
  /\ failure.text \in Seq(Chars) /\ failure.bodies \in Seq(Seq(Chars))
  /\ failure.declared \subseteq Seq(Chars)

\* A position of a body that was looked at: nothing quoted there, or what is will be replaced.
Handled(at, b) ==
  Quoted(failure.text, at, failure.bodies[b]) = {} \/ Covered(Found, at + 1)

\* Up to where the walk has come, every position has been handled or lies inside an excerpt.
DetectInv ==
  \A b \in DOMAIN failure.bodies, at \in 0 .. Len(failure.text) :
     /\ at + MinEcho <= Len(failure.text)
     /\ step \in {"replace", "done"} \/ b < body \/ (b = body /\ at < index)
     => Handled(at, b)

\* The spans treated end before the cursor, and what was written before it can be traced.
ReplaceInv ==
  /\ step \in {"idle", "detect"} => spans = {} /\ cursor = 0 /\ cleaned = <<>>
  /\ step \in {"replace", "done"} =>
        /\ failure.declared \subseteq values
        /\ spans \subseteq Found
        /\ \A span \in Found \ spans : span.end <= cursor
        /\ \E from : Traces(from, cleaned, failure.text, Found,
                           IF step = "done" THEN Len(failure.text) ELSE cursor)
  /\ step = "replace" => Closed(cleaned)

TextInv == TextArguments /\ TextTypeOK /\ DetectInv /\ ReplaceInv

\* Both ways to start.
LEMMA TextStarts ==
  ASSUME TextInit \/ TextIdle
  PROVE  TextInv
<1>1. TextArguments
  <2>1. CASE TextInit
    BY <2>1, FailuresAssumption DEF TextInit, TextArguments
  <2>2. CASE TextIdle
    BY <2>2 DEF TextIdle, TextArguments
  <2> QED BY <2>1, <2>2
<1>2. /\ TextStart /\ step \in {"idle", "detect"}
      /\ step = "idle" => failure.bodies = <<>>
  BY DEF TextInit, TextIdle
<1>3. Len(failure.text) \in Nat /\ <<>> \in Seq(Chars \cup {Marker})
  BY <1>1, LenProperties DEF TextArguments
<1>4. TextTypeOK
  BY <1>2, <1>3 DEF TextTypeOK, TextStart
<1>5. DetectInv
  <2>1. \A b \in DOMAIN failure.bodies : b \in 1 .. Len(failure.bodies)
    BY <1>1 DEF TextArguments
  <2> QED BY <1>2, <2>1 DEF DetectInv, TextStart
<1>6. ReplaceInv
  BY <1>2 DEF ReplaceInv, TextStart
<1> QED BY <1>1, <1>4, <1>5, <1>6 DEF TextInv

LEMMA DetectNothingStep ==
  ASSUME TextInv, DetectNothing
  PROVE  TextInv'
<1>1. TextArguments' /\ TextTypeOK' /\ ReplaceInv'
  BY DEF TextInv, DetectNothing, TextArguments, TextTypeOK, ReplaceInv, Found
<1>2. /\ Quoted(failure.text, index, failure.bodies[body]) = {} /\ step = "detect"
      /\ index \in Nat /\ index' = index + 1 /\ UNCHANGED <<failure, step, body, values>>
  BY DEF TextInv, TextTypeOK, DetectNothing
<1>3. DetectInv'
  <2> SUFFICES ASSUME NEW b \in DOMAIN failure.bodies, NEW at \in 0 .. Len(failure.text),
                      at + MinEcho <= Len(failure.text), b < body \/ (b = body /\ at < index')
               PROVE  Handled(at, b)'
    BY <1>2 DEF DetectInv
  <2>1. Handled(at, b)' <=> Handled(at, b)
    BY <1>2 DEF Handled, Found
  <2>2. b < body \/ (b = body /\ at < index) \/ (b = body /\ at = index)
    BY <1>2
  <2> QED BY <1>2, <2>1, <2>2 DEF TextInv, DetectInv, Handled
<1> QED BY <1>1, <1>3 DEF TextInv

\* The excerpt found covers every position the walk skips.
LEMMA DetectExcerptStep ==
  ASSUME TextInv, DetectExcerpt
  PROVE  TextInv'
<1> DEFINE text == failure.text
           quoted == Quoted(text, index, failure.bodies[body])
           excerpt == Slice(text, index, index + Longest(quoted))
<1>1. /\ TextArguments /\ step = "detect" /\ index + MinEcho <= Len(text) /\ index \in Nat
      /\ values \subseteq Seq(Chars) /\ quoted # {}
      /\ values' = values \cup {excerpt} /\ index' = index + Longest(quoted)
      /\ UNCHANGED <<failure, step, body, spans, cursor, cleaned>>
  BY DEF TextInv, TextTypeOK, DetectExcerpt, InBody
<1>2. Len(text) \in Nat /\ MinEcho \in Nat \ {0} /\ text \in Seq(Chars)
  BY <1>1, MinEchoAssumption, LenProperties DEF TextArguments
<1>3. quoted \in SUBSET (0 .. Len(text)) /\ quoted \subseteq MinEcho .. Len(text) - index
  BY <1>1, <1>2 DEF Quoted
<1> HIDE DEF quoted
<1>4. Longest(quoted) \in MinEcho .. Len(text) - index
  <2>1. Longest(quoted) \in quoted
    BY <1>1, <1>2, <1>3, LongestIsLongest
  <2> QED BY <1>3, <2>1
<1>5. excerpt \in Seq(Chars) /\ Len(excerpt) = Longest(quoted)
  <2> DEFINE end == index + Longest(quoted)
  <2>1. index \in 0 .. Len(text) /\ end \in index .. Len(text) /\ end - index = Longest(quoted)
    BY <1>1, <1>2, <1>4
  <2> HIDE DEF end
  <2> HIDE DEF text
  <2>2. Slice(text, index, end) \in Seq(Chars) /\ Len(Slice(text, index, end)) = end - index
    BY <1>2, <2>1, SliceProperties
  <2> QED BY <2>1, <2>2 DEF end
<1>6. OccursAt(excerpt, text, index)
  BY <1>1, <1>2, <1>4, <1>5 DEF OccursAt
<1>7. \A at \in index .. index + Longest(quoted) - 1 : Covered(Found', at + 1)
  <2>1. excerpt \in values' /\ excerpt # <<>> /\ index \in 0 .. Len(text)
    BY <1>1, <1>2, <1>4, <1>5, EmptySeq
  <2> HIDE DEF excerpt
  <2>2. \A p \in index + 1 .. index + Len(excerpt) : Covered(Occurrences(text, values'), p)
    BY <1>2, <1>5, <1>6, <2>1, OccurrenceCovers
  <2>3. \A at \in index .. index + Longest(quoted) - 1 : at + 1 \in index + 1 .. index + Len(excerpt)
    BY <1>1, <1>4, <1>5
  <2> QED BY <1>1, <2>2, <2>3 DEF Found
<1> HIDE DEF excerpt
<1>8. TextTypeOK'
  BY <1>1, <1>2, <1>4, <1>5 DEF TextInv, TextTypeOK
<1>9. ReplaceInv'
  BY <1>1 DEF TextInv, ReplaceInv
<1>10. \A at, b : Handled(at, b) => Handled(at, b)'
  BY <1>1, OccurrencesGrow DEF Handled, Found
<1>11. DetectInv'
  <2> SUFFICES ASSUME NEW b \in DOMAIN failure.bodies, NEW at \in 0 .. Len(text),
                      at + MinEcho <= Len(text), b < body \/ (b = body /\ at < index')
               PROVE  Handled(at, b)'
    BY <1>1 DEF DetectInv
  <2>1. CASE b < body \/ at < index
    BY <1>10, <2>1 DEF TextInv, DetectInv
  <2>2. CASE ~(at < index) /\ at < index'
    <3>1. at \in index .. index + Longest(quoted) - 1
      BY <1>1, <1>2, <1>4, <2>2
    <3> QED BY <1>7, <3>1 DEF Handled
  <2> QED BY <2>1, <2>2
<1> QED BY <1>1, <1>8, <1>9, <1>11 DEF TextInv, TextArguments

LEMMA NextBodyStep ==
  ASSUME TextInv, NextBody
  PROVE  TextInv'
<1>1. TextArguments' /\ TextTypeOK' /\ ReplaceInv'
  BY DEF TextInv, NextBody, TextArguments, TextTypeOK, ReplaceInv, Found
<1>2. DetectInv'
  <2>1. /\ ~InBody /\ body < Len(failure.bodies) /\ step = "detect" /\ index' = 0
        /\ body \in Nat /\ index \in Nat /\ body' = body + 1
        /\ UNCHANGED <<failure, step, values>>
    BY DEF TextInv, TextTypeOK, NextBody
  <2>2. DOMAIN failure.bodies \subseteq Nat /\ Len(failure.text) \in Nat /\ Len(failure.bodies) \in Nat
    BY LenProperties DEF TextInv, TextArguments
  <2> SUFFICES ASSUME NEW b \in DOMAIN failure.bodies, NEW at \in 0 .. Len(failure.text),
                      at + MinEcho <= Len(failure.text), b < body' \/ (b = body' /\ at < 0)
               PROVE  Handled(at, b)'
    BY <2>1 DEF DetectInv
  <2>3. Handled(at, b)' <=> Handled(at, b)
    BY <2>1 DEF Handled, Found
  <2>4. b < body \/ (b = body /\ at < index)
    BY <2>1, <2>2, MinEchoAssumption DEF InBody
  <2> QED BY <2>1, <2>3, <2>4 DEF TextInv, DetectInv
<1> QED BY <1>1, <1>2 DEF TextInv

\* At the end of the last body every position has been handled; more values change none of it.
LEMMA LocateStep ==
  ASSUME TextInv, Locate
  PROVE  TextInv'
<1>1. /\ TextArguments /\ step = "detect" /\ ~InBody /\ body >= Len(failure.bodies)
      /\ step' = "replace" /\ values' = values \cup failure.declared
      /\ spans' = Found' /\ UNCHANGED <<failure, body, index, cursor, cleaned>>
      /\ cleaned = <<>> /\ cursor = 0
      /\ body \in Nat /\ index \in Nat
  BY DEF TextInv, TextTypeOK, ReplaceInv, Locate, Found
<1>2. /\ DOMAIN failure.bodies = 1 .. Len(failure.bodies)
      /\ Len(failure.text) \in Nat /\ Len(failure.bodies) \in Nat
  BY <1>1, LenProperties DEF TextArguments
<1>3. TextTypeOK'
  <2>1. Found' \subseteq [start : Nat, end : Nat]
    BY <1>1, <1>2 DEF Found, Occurrences
  <2> QED BY <1>1, <2>1 DEF TextInv, TextTypeOK, TextArguments
<1>4. ReplaceInv'
  <2>1. Len(cleaned') = 0 /\ Traces(<<>>, cleaned', failure.text', Found', cursor')
    BY <1>1 DEF Traces
  <2> QED BY <1>1, <2>1 DEF ReplaceInv, Closed
<1>5. \A at, b : Handled(at, b) => Handled(at, b)'
  BY <1>1, OccurrencesGrow DEF Handled, Found
<1>6. DetectInv'
  <2> SUFFICES ASSUME NEW b \in DOMAIN failure.bodies, NEW at \in 0 .. Len(failure.text),
                      at + MinEcho <= Len(failure.text)
               PROVE  Handled(at, b)'
    BY <1>1 DEF DetectInv
  <2>1. b < body \/ (b = body /\ at < index)
    BY <1>1, <1>2, MinEchoAssumption DEF InBody
  <2> QED BY <1>1, <1>5, <2>1 DEF TextInv, DetectInv
<1> QED BY <1>1, <1>3, <1>4, <1>6 DEF TextInv, TextArguments

\* Between the cursor and the earliest span left no occurrence covers anything.
LEMMA EarliestLeavesLater ==
  ASSUME TextInv, step = "replace", NEW span \in Earliest(spans)
  PROVE  /\ span \in Found /\ span.start \in 0 .. Len(failure.text)
         /\ span.end \in 0 .. Len(failure.text) /\ span.start <= span.end
         /\ \A at \in cursor + 1 .. span.start : ~Covered(Found, at)
<1>1. span \in spans /\ \A other \in spans : span.start <= other.start
  BY DEF Earliest
<1>2. span \in Found /\ \A other \in Found \ spans : other.end <= cursor
  BY <1>1 DEF TextInv, ReplaceInv
<1>3. Found \subseteq [start : 0 .. Len(failure.text), end : 0 .. Len(failure.text)]
  BY DEF Found, Occurrences
<1>4. span.start <= span.end
  <2>1. PICK value \in values : span.end = span.start + Len(value)
    BY <1>2 DEF Found, Occurrences
  <2>2. Len(value) \in Nat
    BY LenProperties DEF TextInv, TextTypeOK
  <2> QED BY <1>2, <1>3, <2>1, <2>2
<1>5. \A at \in cursor + 1 .. span.start : ~Covered(Found, at)
  <2> SUFFICES ASSUME NEW at \in cursor + 1 .. span.start, NEW other \in Found,
                      other.start < at, at <= other.end
               PROVE  FALSE
    BY DEF Covered
  <2>1. cursor \in Nat /\ at \in Nat /\ Len(failure.text) \in Nat
    BY <1>2, <1>3, LenProperties DEF TextInv, TextTypeOK, TextArguments
  <2>2. /\ span.start \in Nat /\ other.start \in Nat /\ other.end \in Nat
    BY <1>2, <1>3, <2>1
  <2> QED BY <1>1, <1>2, <2>1, <2>2
<1> QED BY <1>2, <1>3, <1>4, <1>5

\* A span that began before the cursor can only move it on.
LEMMA WidenStep ==
  ASSUME TextInv, Widen
  PROVE  TextInv'
<1>1. PICK span \in Earliest(spans) :
        /\ span.start < cursor /\ spans' = spans \ {span} /\ cursor' = Further(cursor, span.end)
  BY DEF Widen
<1>2. /\ step = "replace" /\ cursor \in 0 .. Len(failure.text) /\ Len(failure.text) \in Nat
      /\ UNCHANGED <<failure, step, body, index, values, cleaned>> /\ Found' = Found
  BY LenProperties DEF Widen, TextInv, TextTypeOK, TextArguments, Found
<1>3. span \in Found /\ span.end \in 0 .. Len(failure.text)
  BY <1>1, <1>2, EarliestLeavesLater
<1>4. cursor' \in 0 .. Len(failure.text) /\ cursor' >= cursor /\ cursor' >= span.end
  BY <1>1, <1>2, <1>3 DEF Further
<1>5. TextTypeOK'
  BY <1>1, <1>2, <1>4 DEF TextInv, TextTypeOK
<1>6. DetectInv'
  BY <1>2 DEF TextInv, DetectInv, Handled
<1>7. ReplaceInv'
  <2>1. ASSUME NEW other \in Found \ spans' PROVE other.end <= cursor'
    <3>1. CASE other = span
      BY <1>2, <1>3, <1>4, <3>1
    <3>2. CASE other # span
      <4>1. other.end <= cursor /\ other.end \in Nat
        BY <1>1, <1>2, <2>1, <3>2 DEF TextInv, ReplaceInv, Found, Occurrences
      <4> QED BY <1>2, <1>4, <4>1
    <3> QED BY <3>1, <3>2
  <2>2. PICK from : Traces(from, cleaned, failure.text, Found, cursor)
    BY <1>2 DEF TextInv, ReplaceInv
  <2>3. \A at \in cursor + 1 .. cursor' : Covered(Found, at)
    BY <1>1, <1>2, <1>3, <1>4 DEF Covered, Further, Found, Occurrences
  <2>4. Traces(from, cleaned, failure.text, Found, cursor')
    BY <1>2, <1>4, <2>2, <2>3 DEF Traces
  <2> QED BY <1>1, <1>2, <2>1, <2>4 DEF TextInv, ReplaceInv
<1> QED BY <1>2, <1>5, <1>6, <1>7 DEF TextInv, TextArguments

\* Up to the span the text is kept, the span becomes a marker.
LEMMA ReplaceStep ==
  ASSUME TextInv, Replace
  PROVE  TextInv'
<1>1. PICK span \in Earliest(spans) :
        /\ span.start >= cursor /\ spans' = spans \ {span} /\ cursor' = span.end
        /\ cleaned' = cleaned \o Slice(failure.text, cursor, span.start) \o <<Marker>>
  BY DEF Replace
<1>2. /\ step = "replace" /\ cursor \in 0 .. Len(failure.text) /\ Len(failure.text) \in Nat
      /\ UNCHANGED <<failure, step, body, index, values>> /\ Found' = Found
      /\ failure.text \in Seq(Chars) /\ cleaned \in Seq(Chars \cup {Marker}) /\ Closed(cleaned)
  BY LenProperties DEF Replace, TextInv, TextTypeOK, TextArguments, ReplaceInv, Found
<1>3. /\ span \in Found /\ span.start \in cursor .. Len(failure.text)
      /\ span.end \in 0 .. Len(failure.text) /\ span.start <= span.end
      /\ \A at \in cursor + 1 .. span.start : ~Covered(Found, at)
  BY <1>1, <1>2, EarliestLeavesLater
<1> DEFINE kept == cleaned \o Slice(failure.text, cursor, span.start)
<1>4. PICK from : Traces(from, cleaned, failure.text, Found, cursor)
  BY <1>2 DEF TextInv, ReplaceInv
<1>5. /\ kept \in Seq(Chars \cup {Marker})
      /\ \E g : Traces(g, kept, failure.text, Found, span.start)
  BY <1>2, <1>3, <1>4, SliceTraced
<1> HIDE DEF kept
<1>6. /\ cleaned' \in Seq(Chars \cup {Marker}) /\ Closed(cleaned')
      /\ \E g : Traces(g, cleaned', failure.text, Found, span.end)
  <2>1. PICK g : Traces(g, kept, failure.text, Found, span.start)
    BY <1>5
  <2>2. cleaned' = kept \o <<Marker>>
    BY <1>1 DEF kept
  <2>3. /\ span.start \in Nat /\ span.end \in Nat
        /\ \A at \in span.start + 1 .. span.end : Covered(Found, at)
    BY <1>2, <1>3 DEF Covered
  <2> QED BY <1>2, <1>3, <1>5, <2>1, <2>2, <2>3, MarkerTraced
<1>7. TextTypeOK'
  BY <1>1, <1>2, <1>3, <1>6 DEF TextInv, TextTypeOK
<1>8. DetectInv'
  BY <1>2 DEF TextInv, DetectInv, Handled
<1>9. ReplaceInv'
  <2>1. ASSUME NEW other \in Found \ spans' PROVE other.end <= cursor'
    <3>1. CASE other = span
      BY <1>1, <1>2, <1>3, <3>1
    <3>2. CASE other # span
      <4>1. other.end <= cursor /\ other.end \in Nat
        BY <1>1, <1>2, <2>1, <3>2 DEF TextInv, ReplaceInv, Found, Occurrences
      <4> QED BY <1>1, <1>2, <1>3, <4>1
    <3> QED BY <3>1, <3>2
  <2> QED BY <1>1, <1>2, <1>6, <2>1 DEF TextInv, ReplaceInv
<1> QED BY <1>2, <1>7, <1>8, <1>9 DEF TextInv, TextArguments

\* After the last span nothing is covered.
LEMMA FinishStep ==
  ASSUME TextInv, Finish
  PROVE  TextInv'
<1>1. /\ step = "replace" /\ spans = {} /\ step' = "done"
      /\ cleaned' = cleaned \o Slice(failure.text, cursor, Len(failure.text))
      /\ cursor \in 0 .. Len(failure.text) /\ Len(failure.text) \in Nat
      /\ UNCHANGED <<failure, body, index, values, spans, cursor>> /\ Found' = Found
      /\ failure.text \in Seq(Chars) /\ cleaned \in Seq(Chars \cup {Marker}) /\ Closed(cleaned)
  BY LenProperties DEF Finish, TextInv, TextTypeOK, TextArguments, ReplaceInv, Found
<1>2. \A at \in cursor + 1 .. Len(failure.text) : ~Covered(Found, at)
  <2> SUFFICES ASSUME NEW at \in cursor + 1 .. Len(failure.text), NEW other \in Found,
                      at <= other.end
               PROVE  FALSE
    BY DEF Covered
  <2>1. other.end <= cursor
    BY <1>1 DEF TextInv, ReplaceInv
  <2>2. other.end \in 0 .. Len(failure.text)
    BY DEF Found, Occurrences
  <2> QED BY <1>1, <2>1, <2>2
<1>3. PICK from : Traces(from, cleaned, failure.text, Found, cursor)
  BY <1>1 DEF TextInv, ReplaceInv
<1>4. /\ cleaned' \in Seq(Chars \cup {Marker})
      /\ \E g : Traces(g, cleaned', failure.text, Found, Len(failure.text))
  <2>1. Len(failure.text) \in cursor .. Len(failure.text)
    BY <1>1
  <2> QED BY <1>1, <1>2, <1>3, <2>1, SliceTraced
<1>5. TextTypeOK' /\ DetectInv' /\ ReplaceInv'
  BY <1>1, <1>4 DEF TextInv, TextTypeOK, DetectInv, Handled, ReplaceInv
<1> QED BY <1>1, <1>5 DEF TextInv, TextArguments

LEMMA TextStep ==
  ASSUME TextInv, TextNext \/ UNCHANGED textVars
  PROVE  TextInv'
<1>1. CASE UNCHANGED textVars
  BY <1>1 DEF textVars, TextInv, TextArguments, TextTypeOK, DetectInv, Handled, ReplaceInv, Found
<1> QED BY <1>1, DetectNothingStep, DetectExcerptStep, NextBodyStep, LocateStep, WidenStep,
           ReplaceStep, FinishStep DEF TextNext

\* A declared value in the result would have been in the text, and replaced.
LEMMA TextKeepsNoSecret ==
  ASSUME TextInv
  PROVE  NoSecretSurvives
<1> SUFFICES ASSUME step = "done", NEW value \in failure.declared \ {<<>>},
                    NEW at \in 0 .. Len(cleaned), OccursAt(value, cleaned, at)
             PROVE  FALSE
  BY DEF NoSecretSurvives, Occurs
<1>1. /\ failure.text \in Seq(Chars) /\ cleaned \in Seq(Chars \cup {Marker})
      /\ value \in Seq(Chars) /\ value \in values
  BY DEF TextInv, TextArguments, TextTypeOK, ReplaceInv
<1>2. PICK from : Traces(from, cleaned, failure.text, Found, Len(failure.text))
  BY DEF TextInv, ReplaceInv
<1>3. PICK start \in 0 .. Len(failure.text) :
        /\ OccursAt(value, failure.text, start)
        /\ \A p \in start + 1 .. start + Len(value) : ~Covered(Found, p)
  BY <1>1, <1>2, TakenFromText
<1>4. \A p \in start + 1 .. start + Len(value) : Covered(Found, p)
  BY <1>1, <1>3, OccurrenceCovers DEF Found
<1>5. start + 1 \in start + 1 .. start + Len(value)
  <2>1. Len(value) \in Nat \ {0} /\ Len(failure.text) \in Nat
    BY <1>1, EmptySeq, LenProperties
  <2> QED BY <2>1
<1> QED BY <1>3, <1>4, <1>5

\* So would a window of a body: it would have been handled, hence replaced.
LEMMA TextKeepsNoEcho ==
  ASSUME TextInv
  PROVE  NoEchoSurvives
<1> SUFFICES ASSUME step = "done", NEW at \in 0 .. Len(cleaned) - MinEcho,
                    NEW b \in DOMAIN failure.bodies,
                    Occurs(Slice(cleaned, at, at + MinEcho), failure.bodies[b])
             PROVE  FALSE
  BY DEF NoEchoSurvives
<1> DEFINE window == Slice(cleaned, at, at + MinEcho)
           reference == failure.bodies[b]
<1>1. /\ failure.text \in Seq(Chars) /\ cleaned \in Seq(Chars \cup {Marker})
      /\ reference \in Seq(Chars) /\ MinEcho \in Nat \ {0}
  BY MinEchoAssumption, ElementOfSeq DEF TextInv, TextArguments, TextTypeOK
<1>2. /\ Len(failure.text) \in Nat /\ Len(cleaned) \in Nat /\ Len(reference) \in Nat /\ at \in Nat
      /\ at \in 0 .. Len(cleaned) /\ at + MinEcho <= Len(cleaned)
  BY <1>1, LenProperties
<1>3. Len(window) = MinEcho
  <2> DEFINE end == at + MinEcho
  <2>1. end \in at .. Len(cleaned) /\ end - at = MinEcho
    BY <1>1, <1>2
  <2> HIDE DEF end
  <2>2. Len(Slice(cleaned, at, end)) = end - at
    BY <1>1, <1>2, <2>1, SliceProperties
  <2> QED BY <2>1, <2>2 DEF end
<1>4. OccursAt(window, cleaned, at)
  BY <1>2, <1>3 DEF OccursAt
<1>5. PICK place \in 0 .. Len(reference) : OccursAt(window, reference, place)
  BY DEF Occurs
<1> HIDE DEF window, reference
<1>6. window \in Seq(Chars) /\ window # <<>>
  <2> DEFINE end == place + Len(window)
  <2>1. end \in place .. Len(reference) /\ Slice(reference, place, end) = window
    BY <1>1, <1>2, <1>3, <1>5 DEF OccursAt
  <2> HIDE DEF end
  <2>2. window \in Seq(Chars)
    BY <1>1, <2>1, SliceProperties
  <2> QED BY <1>1, <1>3, <2>2, EmptySeq
<1>7. PICK from : Traces(from, cleaned, failure.text, Found, Len(failure.text))
  BY DEF TextInv, ReplaceInv
<1>8. PICK start \in 0 .. Len(failure.text) :
        /\ OccursAt(window, failure.text, start)
        /\ \A p \in start + 1 .. start + Len(window) : ~Covered(Found, p)
  BY <1>1, <1>2, <1>4, <1>6, <1>7, TakenFromText
<1>9. /\ start + MinEcho <= Len(failure.text)
      /\ Slice(failure.text, start, start + MinEcho) = window
  BY <1>3, <1>8 DEF OccursAt
<1>10. MinEcho \in Quoted(failure.text, start, failure.bodies[b])
  <2>1. MinEcho \in MinEcho .. Len(failure.text) - start
    BY <1>1, <1>2, <1>9
  <2>2. Occurs(Slice(failure.text, start, start + MinEcho), failure.bodies[b])
    BY <1>5, <1>9 DEF Occurs, reference
  <2> QED BY <2>1, <2>2 DEF Quoted
<1>11. Covered(Found, start + 1)
  BY <1>9, <1>10 DEF TextInv, DetectInv, Handled
<1>12. start + 1 \in start + 1 .. start + Len(window)
  BY <1>1, <1>2, <1>3
<1> QED BY <1>8, <1>11, <1>12

-----------------------------------------------------------------------------

\* The places the characters kept came from are the order the property asks for.
LEMMA TextKeepsTheRest ==
  ASSUME TextInv
  PROVE  OnlySecretsRemoved
<1> DEFINE Uncovered == {at \in 1 .. Len(failure.text) : ~Covered(Found, at)}
           Kept == {k \in 1 .. Len(cleaned) : cleaned[k] # Marker}
<1>1. SUFFICES ASSUME step = "done"
               PROVE  \E from \in [Kept -> Uncovered] :
                         /\ \A k \in Kept : cleaned[k] = failure.text[from[k]]
                         /\ \A j, k \in Kept : j < k => from[j] < from[k]
                         /\ \A at \in Uncovered : \E k \in Kept : from[k] = at
  BY DEF OnlySecretsRemoved, Covered, Found
<1>2. PICK g : Traces(g, cleaned, failure.text, Found, Len(failure.text))
  BY <1>1 DEF TextInv, ReplaceInv
<1> DEFINE from == [k \in Kept |-> g[k]]
<1>3. from \in [Kept -> Uncovered]
  BY <1>2 DEF Traces
<1>4. \A k \in Kept : cleaned[k] = failure.text[from[k]]
  BY <1>2 DEF Traces
<1>5. \A j, k \in Kept : j < k => from[j] < from[k]
  BY <1>2 DEF Traces
<1>6. \A at \in Uncovered : \E k \in Kept : from[k] = at
  BY <1>2 DEF Traces
<1> HIDE DEF from
<1> QED BY <1>3, <1>4, <1>5, <1>6

LEMMA TextInvariant == Spec => []TextInv
<1>1. Init => TextInv
  BY TextStarts DEF Init
<1>2. TextInv /\ [Next]_vars => TextInv'
  BY TextStep DEF Next, Scrub, Withhold, vars
<1> QED BY <1>1, <1>2, PTL DEF Spec

\* Of any text, and however declared values overlap, nest or repeat in it and in the bodies, none is
\* left in what redactValues returns: the loop over the sorted spans misses nothing (redact.ts).
THEOREM NoSecretSurvivesHolds == Spec => []NoSecretSurvives
<1>1. TextInv => NoSecretSurvives
  BY TextKeepsNoSecret
<1> QED BY <1>1, TextInvariant, PTL

\* Of any text and any bodies, no run of MinEcho characters of a body is left: although
\* collectEchoedExcerpts jumps over each excerpt it finds and never looks inside (redact.ts).
THEOREM NoEchoSurvivesHolds == Spec => []NoEchoSurvives
<1>1. TextInv => NoEchoSurvives
  BY TextKeepsNoEcho
<1> QED BY <1>1, TextInvariant, PTL

\* Of any text, whatever is replaced in it: the characters that no value covers are all kept, each
\* once and in their order, and nothing but markers is written besides (redactValues, redact.ts).
THEOREM OnlySecretsRemovedHolds == Spec => []OnlySecretsRemoved
<1>1. TextInv => OnlySecretsRemoved
  BY TextKeepsTheRest
<1> QED BY <1>1, TextInvariant, PTL

-----------------------------------------------------------------------------
(* Chains *)

\* What is not an error leads nowhere; what is, to one object.
LEMMA CauseKinds ==
  /\ {Absent, Undefined, Null} \subseteq Causes
  /\ \A v \in {Absent, Undefined, Null} : ~IsError(v) /\ v.is # "tail"
  /\ \A o \in Objects : Link(o) \in Causes /\ IsError(Link(o)) /\ Link(o).object = o
  /\ \A s \in SUBSET Secrets : Word(s) \in Causes
  /\ \A s : Word(s).is = "tail" /\ Word(s).told = s /\ Carried(Word(s)) = s
  /\ \A v \in Causes : IsError(v) => v.object \in Objects /\ v = Link(v.object)
  /\ \A v \in Causes : v.is = "tail" => /\ v.printed \subseteq Secrets
                                        /\ v.printed \cap Echoes \subseteq v.told
  /\ \A v \in Causes : ~IsError(v) /\ v.is # "tail" => v \in {Absent, Undefined, Null}
<1>1. /\ {Absent, Undefined, Null} \subseteq Causes
      /\ \A v \in {Absent, Undefined, Null} : ~IsError(v) /\ v.is # "tail"
  BY DEF Causes, IsError, Absent, Undefined, Null
<1>2. /\ \A o : IsError(Link(o)) /\ Link(o).object = o /\ Link(o).is # "tail"
  BY DEF IsError, Link
<1>3. \A o \in Objects : Link(o) \in Causes
  BY DEF Causes
<1>4. \A s : Word(s).is = "tail" /\ Word(s).told = s /\ Carried(Word(s)) = s
  BY DEF Word, NonError, Carried
<1>5. \A s \in SUBSET Secrets : Word(s) \in Tails
  BY DEF Word, NonError, Tails
<1>6. \A v \in Tails : /\ ~IsError(v) /\ v.is = "tail"
                       /\ v.printed \subseteq Secrets /\ v.printed \cap Echoes \subseteq v.told
  BY DEF Tails, IsError
<1>7. /\ Tails \subseteq Causes
      /\ \A v \in Causes : \/ v \in {Absent, Undefined, Null}
                            \/ v \in Tails
                            \/ \E o \in Objects : v = Link(o)
  BY DEF Causes
<1> QED BY <1>1, <1>2, <1>3, <1>4, <1>5, <1>6, <1>7

Links == [node : Objects, representative : Objects, cause : Causes]

Representatives == {chain[i].representative : i \in DOMAIN chain}

\* A value that holds nothing to remove and leads into a set of objects.
Safe(value, set) ==
  /\ value.is = "tail" => Carried(value) \cap secretValues = {}
  /\ IsError(value) => value.object \in set

CleanText(o) == \A field \in TextFields : heap[o].text[field] \cap secretValues = {}

\* An object that holds nothing to remove, and whose cause stays among the representatives.
Settled(o) == CleanText(o) /\ Safe(heap[o].cause, Representatives)

\* If everything a set of objects leads to is in the set, all that is reached is clean.
LEMMA CleanIfClosed ==
  ASSUME NEW set, set \subseteq Objects,
         \A o \in set : CleanText(o) /\ Safe(heap[o].cause, set),
         NEW value, Safe(value, set)
  PROVE  Clean(value, secretValues)
<1> DEFINE Relevant == {value} \cup {NextOf(heap, o) : o \in Objects}
           Within == {v \in Relevant : Safe(v, set)}
<1>1. \A o \in set : NextOf(heap, o) \in Within
  <2> TAKE o \in set
  <2>1. NextOf(heap, o) \in {heap[o].cause, Absent}
    BY DEF NextOf
  <2>2. Safe(Absent, set)
    BY CauseKinds DEF Safe
  <2> QED BY <2>1, <2>2
<1>2. \A v \in Within : IsError(v) => NextOf(heap, v.object) \in Within
  BY <1>1 DEF Safe
<1>3. Reachable(heap, value) \subseteq Within
  <2>1. Within \in SUBSET Relevant /\ value \in Within
    OBVIOUS
  <2> QED BY <1>2, <2>1 DEF Reachable
<1>4. \A v \in Within : /\ IsError(v) => CleanText(v.object)
                        /\ v.is = "tail" => Carried(v) \cap secretValues = {}
  BY DEF Safe
<1> HIDE DEF Within
<1> QED BY <1>3, <1>4 DEF Clean, CleanText

-----------------------------------------------------------------------------
(* The invariant *)

Leads(set, value) == IsError(value) => value.object \in set

\* No two objects stand for the same error.
Uniform(set) ==
  /\ set \subseteq Nodes \X (0 .. 1)
  /\ \A o, p \in set : o[1] = p[1] => o = p

\* An object with this cause takes every write that a scrub would make of it.
Docile(o, cause) ==
  /\ heap[o].resists.how # "unreadable"
  /\ heap[o].resists.slot \notin {"response", "extras"}
  /\ heap[o].resists.how \in {"refuses", "throws"} =>
        heap[o].resists.slot \notin {"message", "stack"}
  /\ heap[o].resists.slot = "cause" =>
        /\ cause \in {Absent, Undefined}
        /\ heap[o].resists.how \in {"refuses", "throws"} => cause = Absent

Chained == (Nodes \ {Cleanup}) \X {0}

\* The objects a walk may come to: those registered, and those it would meet.
Scope(set) ==
  /\ Uniform(set) /\ (~given.last => set \subseteq Chained)
  /\ Leads(set, current)
  /\ \A o \in set \ Registered :
        /\ Leads(set, heap[o].cause)
        /\ given.last /\ o[1] # Cleanup => CleanText(o) /\ Docile(o, heap[o].cause)
  /\ \A i \in DOMAIN chain : chain[i].node \in set /\ Leads(set, chain[i].cause)

CollectInv ==
  /\ chain = <<>> /\ wired = 0 /\ ~given.last
  /\ Scope(Chained) /\ given.head \in Causes /\ Leads(Chained, given.head)

LinksInv ==
  /\ \A i \in DOMAIN chain :
        /\ chain[i].representative \in {chain[i].node, CopyOf(chain[i].node)} \cap Objects
        /\ Settled(chain[i].representative)
        /\ Docile(chain[i].representative, heap[chain[i].representative].cause)
        /\ given.last /\ chain[i].node[1] # Cleanup => chain[i].representative = chain[i].node
  /\ \A i, j \in DOMAIN chain : chain[i].node = chain[j].node => i = j

ScrubInv ==
  /\ LinksInv /\ \E set : Scope(set)
  /\ \A i \in DOMAIN chain :
        /\ Docile(chain[i].representative, chain[i].cause)
        /\ Leads(Registered, chain[i].cause) \/ chain[i].cause = current
  /\ wired > 0 => Leads(Registered, current)

\* What may be thrown, and scrubbed again.
ThrownFrom(set) ==
  /\ Uniform(set) /\ \A o \in set : o[1] # Cleanup
  /\ Leads(set, outgoing)
  /\ \A o \in set : /\ Leads(set, heap[o].cause)
                    /\ secretValues # {} => CleanText(o) /\ Docile(o, heap[o].cause)

ThrownInv ==
  /\ secretValues # {} => LinksInv /\ Safe(outgoing, Representatives)
  /\ phase = "thrown" => ~given.last /\ \E set : ThrownFrom(set)

Honest ==
  \A o \in Objects : heap[o].resists.slot = "extras" =>
                        heap[o].resists.how \in {"refuses", "throws", "unreadable"}

ChainInv ==
  /\ ChainTypeOK /\ chain \in Seq(Links) /\ given.last \in BOOLEAN
  /\ Honest /\ declared \subseteq secretValues
  /\ given.last => phase \in {"scrub", "done"} /\ secretValues # {}
  /\ ~given.last => ~IsError(heap[<<Cleanup, 0>>].cause)
  /\ phase = "collect" => CollectInv
  /\ phase = "scrub" => ScrubInv
  /\ phase \in {"thrown", "done"} => ThrownInv

-----------------------------------------------------------------------------

LEMMA ChainGrows ==
  ASSUME chain \in Seq(Links), NEW link \in Links, chain' = Append(chain, link)
  PROVE  /\ chain' \in Seq(Links)
         /\ DOMAIN chain = 1 .. Len(chain) /\ DOMAIN chain' = 1 .. Len(chain) + 1
         /\ Len(chain) \in Nat /\ Len(chain') = Len(chain) + 1
         /\ \A i \in DOMAIN chain : chain'[i] = chain[i]
         /\ chain'[Len(chain) + 1] = link
         /\ Registered' = Registered \cup {link.node}
         /\ Representatives' = Representatives \cup {link.representative}
<1>1. /\ chain' \in Seq(Links) /\ Len(chain') = Len(chain) + 1
      /\ \A i \in 1 .. Len(chain) : chain'[i] = chain[i]
      /\ chain'[Len(chain) + 1] = link
  BY AppendProperties
<1>2. /\ DOMAIN chain = 1 .. Len(chain) /\ DOMAIN chain' = 1 .. Len(chain) + 1
      /\ Len(chain) \in Nat
  BY <1>1, LenProperties
<1>3. \A i : i \in DOMAIN chain' <=> i \in DOMAIN chain \/ i = Len(chain) + 1
  BY <1>2
<1>4. Registered' = Registered \cup {link.node}
  BY <1>1, <1>2, <1>3 DEF Registered
<1>5. Representatives' = Representatives \cup {link.representative}
  BY <1>1, <1>2, <1>3 DEF Representatives
<1> QED BY <1>1, <1>2, <1>4, <1>5

\* A link is registered, whichever way: nothing but its own objects is written to.
LEMMA LinkRegistered ==
  ASSUME ChainInv, Walking,
         NEW representative, representative \in {current.object, CopyOf(current.object)} \cap Objects,
         NEW cause, cause \in {heap[current.object].cause, Absent},
         chain' = Append(chain, [node |-> current.object, representative |-> representative,
                                 cause |-> cause]),
         current' = cause,
         UNCHANGED <<phase, seen, wired, declared, secretValues, outgoing, given>>,
         heap' \in [Objects -> Shape], Honest',
         \A p \in Objects : p[1] # current.object[1] => heap'[p] = heap[p],
         CleanText(representative)', heap'[representative].cause \in {Absent, Undefined},
         Docile(representative, heap[representative].cause)', Docile(representative, cause)',
         given.last /\ current.object[1] # Cleanup => representative = current.object
  PROVE  ChainInv'
<1> DEFINE o == current.object
           link == [node |-> o, representative |-> representative, cause |-> cause]
<1>1. /\ phase = "scrub" /\ wired = 0 /\ o \notin Registered /\ IsError(current)
      /\ ScrubInv /\ ChainTypeOK /\ chain \in Seq(Links)
  BY DEF Walking, ChainInv
<1>2. PICK set : Scope(set)
  BY <1>1 DEF ScrubInv
<1>3. o \in set /\ o \in Objects /\ Uniform(set)
  BY <1>1, <1>2 DEF Scope, Leads, Uniform, Objects
<1>4. heap[o].cause \in Causes /\ cause \in Causes
  BY <1>1, <1>3, CauseKinds DEF ChainTypeOK, Shape
<1>5. link \in Links
  BY <1>3, <1>4 DEF Links
<1>6. /\ chain' \in Seq(Links)
      /\ DOMAIN chain = 1 .. Len(chain) /\ DOMAIN chain' = 1 .. Len(chain) + 1
      /\ Len(chain) \in Nat /\ Len(chain') = Len(chain) + 1
      /\ \A i \in DOMAIN chain : chain'[i] = chain[i]
      /\ chain'[Len(chain) + 1] = link
      /\ Registered' = Registered \cup {o}
      /\ Representatives' = Representatives \cup {representative}
  BY <1>1, <1>5, ChainGrows
<1>7. Leads(set, cause)
  BY <1>1, <1>2, <1>3, CauseKinds DEF Scope, Leads
\* The objects of other errors are left alone.
<1>8. \A p \in set \ {o} : heap'[p] = heap[p] /\ p[1] # o[1]
  BY <1>3 DEF Uniform, Objects
<1>9. \A i \in DOMAIN chain :
         /\ chain[i].node \in set \ {o} /\ chain[i].representative \in Objects
         /\ chain[i].representative[1] # o[1]
         /\ heap'[chain[i].representative] = heap[chain[i].representative]
  <2> TAKE i \in DOMAIN chain
  <2>1. chain[i].node \in set \ {o}
    BY <1>1, <1>2 DEF Scope, Registered
  <2>2. chain[i].representative \in {chain[i].node, CopyOf(chain[i].node)} \cap Objects
    BY <1>1 DEF ScrubInv, LinksInv
  <2>3. chain[i].representative[1] = chain[i].node[1]
    BY <2>2 DEF CopyOf
  <2> QED BY <1>8, <2>1, <2>2, <2>3
<1>10. Scope(set)'
  <2>1. Leads(set, current')
    BY <1>7
  <2>2. \A p \in set \ Registered' :
           /\ Leads(set, heap'[p].cause)
           /\ given.last /\ p[1] # Cleanup => CleanText(p)' /\ Docile(p, heap[p].cause)'
    BY <1>2, <1>6, <1>8 DEF Scope, CleanText, Docile
  <2>3. \A i \in DOMAIN chain' : chain'[i].node \in set /\ Leads(set, chain'[i].cause)
    <3> TAKE i \in DOMAIN chain'
    <3>1. i \in DOMAIN chain \/ i = Len(chain) + 1
      BY <1>6
    <3> QED BY <1>2, <1>3, <1>6, <1>7, <3>1 DEF Scope
  <2> QED BY <1>2, <2>1, <2>2, <2>3 DEF Scope, Leads
<1>11. Settled(representative)'
  <2>1. ~IsError(heap'[representative].cause) /\ heap'[representative].cause.is # "tail"
    BY CauseKinds
  <2> QED BY <2>1 DEF Settled, Safe, IsError
<1>12. LinksInv'
  <2>1. ASSUME NEW i \in DOMAIN chain'
        PROVE  /\ chain'[i].representative \in {chain'[i].node, CopyOf(chain'[i].node)} \cap Objects
               /\ Settled(chain[i].representative)'
               /\ Docile(chain[i].representative, heap[chain[i].representative].cause)'
               /\ given.last /\ chain'[i].node[1] # Cleanup =>
                     chain'[i].representative = chain'[i].node
    <3>1. CASE i \in DOMAIN chain
      <4>1. /\ chain'[i] = chain[i]
            /\ heap'[chain[i].representative] = heap[chain[i].representative]
        BY <1>6, <1>9, <3>1
      <4>2. Settled(chain[i].representative)
        BY <1>1, <3>1 DEF ScrubInv, LinksInv
      <4>3. Settled(chain[i].representative)'
        BY <1>6, <4>1, <4>2 DEF Settled, CleanText, Safe
      <4>4. /\ Docile(chain[i].representative, heap[chain[i].representative].cause)
            /\ chain[i].representative \in {chain[i].node, CopyOf(chain[i].node)} \cap Objects
            /\ given.last /\ chain[i].node[1] # Cleanup => chain[i].representative = chain[i].node
        BY <1>1, <3>1 DEF ScrubInv, LinksInv
      <4>5. Docile(chain[i].representative, heap[chain[i].representative].cause)'
        BY <4>1, <4>4 DEF Docile
      <4> QED BY <4>1, <4>3, <4>4, <4>5
    <3>2. CASE i = Len(chain) + 1
      BY <1>6, <1>11, <3>2
    <3> QED BY <1>6, <3>1, <3>2
  <2>2. ASSUME NEW i \in DOMAIN chain', NEW j \in DOMAIN chain', chain'[i].node = chain'[j].node
        PROVE  i = j
    <3>1. /\ i \in DOMAIN chain \/ i = Len(chain) + 1
          /\ j \in DOMAIN chain \/ j = Len(chain) + 1
      BY <1>6
    <3>2. \A k \in DOMAIN chain : chain'[k].node # o
      BY <1>6, <1>9
    <3>3. chain'[Len(chain) + 1].node = o
      BY <1>6
    <3> QED BY <1>1, <1>6, <2>2, <3>1, <3>2, <3>3 DEF ScrubInv, LinksInv
  <2> QED BY <2>1, <2>2 DEF LinksInv
<1>13. ScrubInv'
  <2>1. ASSUME NEW i \in DOMAIN chain'
        PROVE  /\ Docile(chain[i].representative, chain[i].cause)'
               /\ Leads(Registered', chain'[i].cause) \/ chain'[i].cause = current'
    <3>1. CASE i \in DOMAIN chain
      <4>1. /\ chain'[i] = chain[i]
            /\ heap'[chain[i].representative] = heap[chain[i].representative]
        BY <1>6, <1>9, <3>1
      <4>2. Leads(Registered', chain[i].cause)
        BY <1>1, <1>6, <3>1 DEF ScrubInv, Leads
      <4> QED BY <1>1, <3>1, <4>1, <4>2 DEF ScrubInv, Docile
    <3>2. CASE i = Len(chain) + 1
      BY <1>6, <3>2
    <3> QED BY <1>6, <3>1, <3>2
  <2>2. ~(wired' > 0)
    BY <1>1
  <2> QED BY <1>10, <1>12, <2>1, <2>2 DEF ScrubInv, Leads
<1>14. ~given.last => ~IsError(heap'[<<Cleanup, 0>>].cause)
  <2>1. <<Cleanup, 0>> \in Objects /\ <<Cleanup, 0>>[1] = Cleanup
    BY RejectionsAssumption DEF Objects
  <2>2. ~given.last => o[1] # Cleanup
    BY <1>2, <1>3 DEF Scope, Chained
  <2> QED BY <2>1, <2>2 DEF ChainInv
<1>15. ChainTypeOK'
  BY <1>1, <1>4, <1>6 DEF ChainTypeOK
<1> QED BY <1>1, <1>6, <1>13, <1>14, <1>15 DEF ChainInv

-----------------------------------------------------------------------------
(* What becomes of a link *)

LEMMA WritesAre ==
  /\ DOMAIN Writes = {1, 2, 3, 4, 5, 6}
  /\ Writes[1] = "response" /\ Writes[2] = "extras" /\ Writes[3] = "name"
  /\ Writes[4] = "message" /\ Writes[5] = "stack" /\ Writes[6] = "cause"
BY DEF Writes

LEMMA AfterIs ==
  ASSUME NEW o \in Objects, heap[o] \in Shape
  PROVE  /\ After(o) \in Shape /\ After(o).resists = heap[o].resists
         /\ \A field \in TextFields :
               After(o).text[field] = IF field \notin Written(o) THEN heap[o].text[field]
                                      ELSE IF field = "extras" THEN {}
                                      ELSE heap[o].text[field] \ secretValues
         /\ After(o).cause = IF "cause" \in Written(o) THEN Undefined ELSE heap[o].cause
<1> DEFINE text == [field \in TextFields |->
                      IF field \notin Written(o) THEN heap[o].text[field]
                      ELSE IF field = "extras" THEN {} ELSE heap[o].text[field] \ secretValues]
           cause == IF "cause" \in Written(o) THEN Undefined ELSE heap[o].cause
<1>1. /\ heap[o].text \in [TextFields -> SUBSET Secrets] /\ heap[o].cause \in Causes
      /\ After(o) = [heap[o] EXCEPT !.text = text, !.cause = cause]
  BY DEF Shape, After
<1>2. \A field \in TextFields :
         text[field] = IF field \notin Written(o) THEN heap[o].text[field]
                       ELSE IF field = "extras" THEN {}
                       ELSE heap[o].text[field] \ secretValues
  OBVIOUS
<1>3. text \in [TextFields -> SUBSET Secrets]
  BY <1>1
<1>4. cause \in Causes
  BY <1>1, CauseKinds
<1> HIDE DEF text, cause
<1>5. /\ After(o) \in Shape /\ After(o).resists = heap[o].resists
      /\ After(o).text = text /\ After(o).cause = cause
  BY <1>1, <1>3, <1>4 DEF Shape
<1> QED BY <1>2, <1>5 DEF cause

LEMMA CopyIs ==
  ASSUME NEW text \in [TextFields -> SUBSET Secrets]
  PROVE  /\ RedactedCopy(text) \in Shape /\ RedactedCopy(text).cause = Absent
         /\ RedactedCopy(text).resists.slot = "none" /\ RedactedCopy(text).resists.how = "complies"
         /\ \A field \in TextFields : RedactedCopy(text).text[field] \subseteq text[field]
<1> DEFINE stripped == [text EXCEPT !["response"] = {}, !["extras"] = {}]
<1>1. /\ stripped \in [TextFields -> SUBSET Secrets]
      /\ \A field \in TextFields : stripped[field] \subseteq text[field]
  BY DEF TextFields
<1>2. Compliant \in [slot : {Writes[i] : i \in DOMAIN Writes} \cup {"none"},
                     how : {"complies", "refuses", "ignores", "throws", "unreadable"}]
  BY DEF Compliant
<1>3. RedactedCopy(text) = [text |-> stripped, cause |-> Absent, resists |-> Compliant]
  BY DEF RedactedCopy
<1> HIDE DEF stripped
<1> QED BY <1>1, <1>2, <1>3, CauseKinds DEF Shape, Compliant

\* A link that stays in place reads back clean, and would stay in place again.
LEMMA InPlaceIsDocile ==
  ASSUME NEW o \in Objects, heap[o] \in Shape, Honest, ~Throws(o), InPlace(o)
  PROVE  /\ \A field \in TextFields : After(o).text[field] \cap secretValues = {}
         /\ After(o).cause \in {Absent, Undefined}
         /\ Docile(o, heap[o].cause) /\ Docile(o, After(o).cause)
<1> DEFINE slot == heap[o].resists.slot
           how == heap[o].resists.how
<1>1. /\ {1, 2, 4, 5} \subseteq Attempted(o)
      /\ heap[o].cause # Absent => 6 \in Attempted(o)
  BY WritesAre DEF Attempted
<1>2. Failing(o) = {} /\ ReadsBack(o)
  BY DEF InPlace
<1>3. /\ slot # "response"
      /\ how = "unreadable" => slot # "extras"
      /\ how \in {"refuses", "throws"} => slot \notin {"extras", "message", "stack"}
      /\ how \in {"refuses", "throws"} /\ slot = "cause" => heap[o].cause = Absent
  BY <1>1, <1>2, WritesAre DEF Failing
<1>4. slot # "extras" /\ how # "unreadable"
  BY <1>3 DEF Honest, Throws
<1>5. "response" \in Written(o) /\ "extras" \in Written(o)
  BY <1>1, <1>2, <1>3, <1>4, WritesAre DEF Written
<1>6. slot = "cause" => "cause" \notin Written(o)
  BY DEF Written
<1>7. After(o).cause \in {Absent, Undefined}
  BY <1>2 DEF ReadsBack
<1>8. slot = "cause" => After(o).cause = heap[o].cause
  BY <1>6, AfterIs
<1>9. \A field \in TextFields : After(o).text[field] \cap secretValues = {}
  <2>1. \A field \in {"name", "message", "stack"} :
           After(o).text[field] = heap[o].text[field] \ secretValues
    BY <1>2 DEF ReadsBack
  <2>2. /\ After(o).text["response"] = heap[o].text["response"] \ secretValues
        /\ After(o).text["extras"] = {}
    BY <1>5, AfterIs DEF TextFields
  <2> QED BY <2>1, <2>2 DEF TextFields
<1> QED BY <1>2, <1>3, <1>4, <1>7, <1>8, <1>9 DEF Docile

LEMMA DocileStaysInPlace ==
  ASSUME NEW o \in Objects, heap[o] \in Shape, CleanText(o), Docile(o, heap[o].cause)
  PROVE  ~Throws(o) /\ InPlace(o)
<1>1. /\ 3 \notin Attempted(o) /\ (6 \in Attempted(o) <=> heap[o].cause # Absent)
  BY WritesAre DEF Attempted, CleanText, TextFields
<1>2. Failing(o) = {}
  <2> SUFFICES ASSUME NEW i \in Failing(o) PROVE FALSE
    OBVIOUS
  <2>1. /\ i \in Attempted(o) /\ i \in {1, 2, 3, 4, 5, 6} /\ Writes[i] = heap[o].resists.slot
        /\ heap[o].resists.how \in {"refuses", "throws"} \/ Writes[i] \in {"response", "extras"}
    BY WritesAre DEF Failing, Attempted
  <2> QED BY <1>1, <2>1, WritesAre DEF Docile
<1>3. \A field \in {"name", "message", "stack"} :
         After(o).text[field] = heap[o].text[field] \ secretValues
  BY AfterIs DEF CleanText, TextFields
<1>4. After(o).cause \in {Absent, Undefined}
  <2>1. CASE heap[o].cause \in {Absent, Undefined}
    BY <2>1, AfterIs
  <2>2. CASE heap[o].cause \notin {Absent, Undefined}
    <3>1. 6 \in Attempted(o) /\ heap[o].resists.slot # "cause"
      BY <1>1, <2>2 DEF Docile
    <3>2. "cause" \in Written(o)
      BY <1>2, <3>1, WritesAre DEF Written
    <3> QED BY <3>2, AfterIs
  <2> QED BY <2>1, <2>2
<1> QED BY <1>2, <1>3, <1>4 DEF InPlace, ReadsBack, Throws, Docile

-----------------------------------------------------------------------------
(* The steps *)

\* The link a walk has reached.
LEMMA WalkingAt ==
  ASSUME ChainInv, Walking
  PROVE  /\ current.object \in Objects /\ heap[current.object] \in Shape
         /\ CopyOf(current.object) \in Objects /\ CopyOf(current.object) # current.object
         /\ CopyOf(current.object)[1] = current.object[1]
         /\ heap \in [Objects -> Shape] /\ Honest
         /\ given.last /\ current.object[1] # Cleanup =>
               ~Throws(current.object) /\ InPlace(current.object)
<1>1. heap \in [Objects -> Shape] /\ Honest /\ ScrubInv
  BY DEF Walking, ChainInv, ChainTypeOK
<1>2. PICK set : Scope(set)
  BY <1>1 DEF ScrubInv
<1>3. current.object \in set \ Registered /\ current.object \in Nodes \X (0 .. 1)
  BY <1>2 DEF Walking, Scope, Leads, Uniform
<1>4. /\ current.object \in Objects /\ CopyOf(current.object) \in Objects
      /\ CopyOf(current.object) # current.object
      /\ CopyOf(current.object)[1] = current.object[1]
  BY <1>3 DEF Objects, CopyOf
<1>5. given.last /\ current.object[1] # Cleanup =>
         ~Throws(current.object) /\ InPlace(current.object)
  BY <1>1, <1>2, <1>3, <1>4, DocileStaysInPlace DEF Scope
<1> QED BY <1>1, <1>4, <1>5

LEMMA RegisterInPlaceStep ==
  ASSUME ChainInv, RegisterInPlace
  PROVE  ChainInv'
<1> PICK o : o = current.object
  OBVIOUS
<1>1. /\ Walking /\ ~Throws(o) /\ InPlace(o) /\ heap' = [heap EXCEPT ![o] = After(o)]
      /\ chain' = Append(chain, [node |-> o, representative |-> o, cause |-> heap[o].cause])
      /\ current' = heap[o].cause
      /\ UNCHANGED <<phase, seen, wired, declared, secretValues, outgoing, given>>
  BY DEF RegisterInPlace
<1>2. /\ o \in Objects /\ heap[o] \in Shape /\ heap \in [Objects -> Shape] /\ Honest
  BY <1>1, WalkingAt
<1>3. /\ After(o) \in Shape /\ After(o).resists = heap[o].resists
      /\ \A field \in TextFields : After(o).text[field] \cap secretValues = {}
      /\ After(o).cause \in {Absent, Undefined}
      /\ Docile(o, heap[o].cause) /\ Docile(o, After(o).cause)
  BY <1>1, <1>2, AfterIs, InPlaceIsDocile
<1>4. /\ heap' \in [Objects -> Shape] /\ heap'[o] = After(o)
      /\ \A p \in Objects : p # o => heap'[p] = heap[p]
  BY <1>1, <1>2, <1>3
<1>5. Honest'
  BY <1>2, <1>3, <1>4 DEF Honest
<1>6. CleanText(o)'
  BY <1>1, <1>3, <1>4 DEF CleanText
<1> PICK cause : cause = heap[o].cause
  OBVIOUS
<1>7. Docile(o, heap[o].cause)' /\ Docile(o, cause)'
  BY <1>3, <1>4 DEF Docile
<1>8. o \in {o, CopyOf(o)} \cap Objects
  BY <1>2
<1> QED BY <1>1, <1>3, <1>4, <1>5, <1>6, <1>7, <1>8, LinkRegistered

\* Whatever became of the node, the copy is clean and takes every write.
LEMMA CopyRegistered ==
  ASSUME ChainInv, Walking,
         NEW text \in [TextFields -> SUBSET Secrets],
         \A field \in TextFields : text[field] \cap secretValues = {},
         NEW node \in Shape, node.resists = heap[current.object].resists,
         NEW cause, cause \in {heap[current.object].cause, Absent},
         heap' = [heap EXCEPT ![current.object] = node,
                              ![CopyOf(current.object)] = RedactedCopy(text)],
         chain' = Append(chain, [node |-> current.object,
                                 representative |-> CopyOf(current.object), cause |-> cause]),
         current' = cause,
         UNCHANGED <<phase, seen, wired, declared, secretValues, outgoing, given>>,
         ~(given.last /\ current.object[1] # Cleanup)
  PROVE  ChainInv'
<1> PICK o : o = current.object
  OBVIOUS
<1> PICK copy : copy = CopyOf(o)
  OBVIOUS
<1>1. /\ o \in Objects /\ copy \in Objects /\ copy # o /\ copy[1] = o[1]
      /\ heap \in [Objects -> Shape] /\ Honest
  BY WalkingAt
<1>2. /\ RedactedCopy(text) \in Shape /\ RedactedCopy(text).cause = Absent
      /\ RedactedCopy(text).resists.slot = "none" /\ RedactedCopy(text).resists.how = "complies"
      /\ \A field \in TextFields : RedactedCopy(text).text[field] \subseteq text[field]
  BY CopyIs
<1>3. /\ heap' \in [Objects -> Shape] /\ heap'[o] = node /\ heap'[copy] = RedactedCopy(text)
      /\ \A p \in Objects : p[1] # o[1] => heap'[p] = heap[p]
      /\ \A p \in Objects : p \notin {o, copy} => heap'[p] = heap[p]
  BY <1>1, <1>2
<1>4. Honest'
  BY <1>1, <1>2, <1>3 DEF Honest
<1>5. CleanText(copy)'
  BY <1>2, <1>3 DEF CleanText
<1>6. Docile(copy, heap[copy].cause)' /\ Docile(copy, cause)'
  BY <1>2, <1>3 DEF Docile
<1>7. copy \in {o, CopyOf(o)} \cap Objects /\ heap'[copy].cause \in {Absent, Undefined}
  BY <1>1, <1>2, <1>3
<1> QED BY <1>3, <1>4, <1>5, <1>6, <1>7, LinkRegistered

LEMMA RegisterCopyStep ==
  ASSUME ChainInv, RegisterCopy
  PROVE  ChainInv'
<1> DEFINE o == current.object
<1>1. /\ Walking /\ ~Throws(o) /\ ~InPlace(o)
      /\ heap' = [heap EXCEPT ![o] = After(o), ![CopyOf(o)] = RedactedCopy(Redacted(heap[o].text))]
      /\ chain' = Append(chain,
           [node |-> o, representative |-> CopyOf(o), cause |-> heap[o].cause])
      /\ current' = heap[o].cause
      /\ UNCHANGED <<phase, seen, wired, declared, secretValues, outgoing, given>>
  BY DEF RegisterCopy
<1>2. /\ o \in Objects /\ heap[o] \in Shape
      /\ ~(given.last /\ o[1] # Cleanup)
  BY <1>1, WalkingAt
<1>3. After(o) \in Shape /\ After(o).resists = heap[o].resists
  BY <1>2, AfterIs
<1>4. /\ Redacted(heap[o].text) \in [TextFields -> SUBSET Secrets]
      /\ \A field \in TextFields : Redacted(heap[o].text)[field] \cap secretValues = {}
  BY <1>2 DEF Redacted, Shape
<1> QED BY <1>1, <1>2, <1>3, <1>4, CopyRegistered

LEMMA RegisterUnreadableStep ==
  ASSUME ChainInv, RegisterUnreadable
  PROVE  ChainInv'
<1> DEFINE o == current.object
           node == IF heap[o].resists.how = "unreadable" THEN heap[o] ELSE After(o)
<1>1. /\ Walking /\ Throws(o)
      /\ heap' = [heap EXCEPT ![o] = node, ![CopyOf(o)] = RedactedCopy(Holding({}))]
      /\ chain' = Append(chain, [node |-> o, representative |-> CopyOf(o), cause |-> Absent])
      /\ current' = Absent
      /\ UNCHANGED <<phase, seen, wired, declared, secretValues, outgoing, given>>
  BY DEF RegisterUnreadable
<1>2. /\ o \in Objects /\ heap[o] \in Shape
      /\ ~(given.last /\ o[1] # Cleanup)
  BY <1>1, WalkingAt
<1>3. node \in Shape /\ node.resists = heap[o].resists
  BY <1>2, AfterIs
<1>4. /\ Holding({}) \in [TextFields -> SUBSET Secrets]
      /\ \A field \in TextFields : Holding({})[field] \cap secretValues = {}
  BY DEF Holding
<1> HIDE DEF node
<1> QED BY <1>1, <1>2, <1>3, <1>4, CopyRegistered

\* Every link of a registered cause has an object that stands for it.
LEMMA RepresentativeIsOne ==
  ASSUME NEW o \in Registered
  PROVE  Representative(o) \in Representatives
<1>1. \E i \in DOMAIN chain : chain[i].node = o
  BY DEF Registered
<1>2. PICK i \in DOMAIN chain : Representative(o) = chain[i].representative
  BY <1>1 DEF Representative
<1> QED BY <1>2 DEF Representatives

LEMMA FlattenedIs ==
  ASSUME NEW value \in Causes
  PROVE  /\ Flattened(value) \in Causes
         /\ ~IsError(value) => \A set : Safe(Flattened(value), set)
         /\ value \in {Absent, Undefined, Null} => Flattened(value) = value
<1>1. CASE value.is = "tail"
  <2>1. value.printed \ secretValues \in SUBSET Secrets /\ value \notin {Absent, Undefined, Null}
    BY <1>1, CauseKinds
  <2>2. /\ Flattened(value) = Word(value.printed \ secretValues)
        /\ Flattened(value) \in Causes /\ Flattened(value).is = "tail"
        /\ Carried(Flattened(value)) = value.printed \ secretValues
    BY <1>1, <2>1, CauseKinds DEF Flattened
  <2>3. \A set : Safe(Flattened(value), set)
    BY <2>2 DEF Safe, IsError
  <2> QED BY <2>1, <2>2, <2>3
<1>2. CASE value.is # "tail"
  BY <1>2 DEF Flattened, Safe
<1> QED BY <1>1, <1>2

\* Wiring a link changes the cause of the object that stands for it, and nothing else.
WireOf(link, child) ==
  /\ wired + 1 \in DOMAIN chain /\ link = chain[wired + 1]
  /\ link.representative \in {link.node, CopyOf(link.node)}
  /\ Leads(Registered, current)
  /\ \A i \in DOMAIN chain : Leads(Registered, chain[i].cause)
  /\ child = IF IsError(link.cause) THEN Link(Representative(link.cause.object))
                                   ELSE Flattened(link.cause)
  /\ Safe(child, Representatives)
  /\ link.cause \in {Absent, Undefined} => child = link.cause
  /\ heap' \in [Objects -> Shape]
  /\ \A o \in Objects : heap'[o].text = heap[o].text /\ heap'[o].resists = heap[o].resists
  /\ \A o \in Objects : heap'[o].cause \in {heap[o].cause, child}
  /\ \A o \in Objects : o # link.representative => heap'[o] = heap[o]
  /\ link.cause # Absent => heap'[link.representative].cause = child
  /\ link.cause = Absent => heap' = heap

LEMMA WireIs ==
  ASSUME ChainInv, Wire
  PROVE  \E link \in Links, child \in Causes : WireOf(link, child)
<1> PICK link : link = chain[wired + 1]
  OBVIOUS
<1> PICK child : child = IF IsError(link.cause) THEN Link(Representative(link.cause.object))
                                              ELSE Flattened(link.cause)
  OBVIOUS
<1>1. /\ phase = "scrub" /\ ~Walking /\ wired < Len(chain) /\ wired' = wired + 1
      /\ heap' = IF link.cause = Absent THEN heap
                 ELSE [heap EXCEPT ![link.representative].cause = child]
      /\ UNCHANGED <<phase, current, seen, chain, declared, secretValues, outgoing, given>>
      /\ ScrubInv /\ ChainTypeOK /\ chain \in Seq(Links)
  BY DEF Wire, ChainInv
<1>2. /\ Len(chain) \in Nat /\ DOMAIN chain = 1 .. Len(chain) /\ wired + 1 \in DOMAIN chain
      /\ wired \in Nat
  BY <1>1, LenProperties DEF ChainTypeOK
<1>3. /\ link.node \in Objects /\ link.representative \in Objects /\ link.cause \in Causes
      /\ link \in Links /\ link.representative \in {link.node, CopyOf(link.node)}
  <2>1. link \in Links
    BY <1>1, <1>2, ElementOfSeq
  <2>2. link.representative \in {link.node, CopyOf(link.node)}
    BY <1>1, <1>2 DEF ScrubInv, LinksInv
  <2> QED BY <2>1, <2>2 DEF Links
<1>4. Leads(Registered, current)
  <2>1. CASE wired = 0
    BY <1>1, <2>1 DEF Walking, Leads
  <2>2. CASE wired > 0
    BY <1>1, <2>2 DEF ScrubInv
  <2> QED BY <1>2, <2>1, <2>2
<1>5. \A i \in DOMAIN chain : Leads(Registered, chain[i].cause)
  BY <1>1, <1>4 DEF ScrubInv
<1>6. Representatives \subseteq Objects
  BY <1>1 DEF Representatives, ScrubInv, LinksInv
<1>7. /\ child \in Causes /\ Safe(child, Representatives)
      /\ link.cause \in {Absent, Undefined} => child = link.cause
  <2>1. CASE IsError(link.cause)
    <3>1. Representative(link.cause.object) \in Representatives
      BY <1>2, <1>5, <2>1, RepresentativeIsOne DEF Leads
    <3>2. child = Link(Representative(link.cause.object))
      BY <2>1
    <3>3. link.cause \notin {Absent, Undefined}
      BY <2>1, CauseKinds
    <3> HIDE DEF Representatives
    <3> QED BY <1>6, <3>1, <3>2, <3>3, CauseKinds DEF Safe, IsError
  <2>2. CASE ~IsError(link.cause)
    BY <1>3, <2>2, FlattenedIs
  <2> QED BY <2>1, <2>2
<1>8. /\ heap' \in [Objects -> Shape]
      /\ \A o \in Objects : heap'[o].text = heap[o].text /\ heap'[o].resists = heap[o].resists
      /\ \A o \in Objects : heap'[o].cause \in {heap[o].cause, child}
      /\ \A o \in Objects : o # link.representative => heap'[o] = heap[o]
      /\ link.cause # Absent => heap'[link.representative].cause = child
      /\ link.cause = Absent => heap' = heap
  <2>1. heap \in [Objects -> Shape]
    BY <1>1 DEF ChainTypeOK
  <2>2. CASE link.cause = Absent
    BY <1>1, <2>1, <2>2
  <2>3. CASE link.cause # Absent
    <3>1. heap' = [heap EXCEPT ![link.representative] =
                                 [heap[link.representative] EXCEPT !.cause = child]]
      BY <1>1, <2>3
    <3>2. /\ [heap[link.representative] EXCEPT !.cause = child] \in Shape
          /\ [heap[link.representative] EXCEPT !.cause = child].cause = child
          /\ [heap[link.representative] EXCEPT !.cause = child].text = heap[link.representative].text
          /\ [heap[link.representative] EXCEPT !.cause = child].resists =
                heap[link.representative].resists
      BY <1>3, <1>7, <2>1 DEF Shape
    <3> QED BY <1>3, <2>1, <2>3, <3>1, <3>2
  <2> QED BY <2>2, <2>3
<1> HIDE DEF Representatives
<1> QED BY <1>2, <1>3, <1>4, <1>5, <1>7, <1>8 DEF WireOf

LEMMA WireStep ==
  ASSUME ChainInv, Wire
  PROVE  ChainInv'
<1>1. /\ phase = "scrub" /\ ~Walking /\ wired < Len(chain) /\ wired' = wired + 1
      /\ UNCHANGED <<phase, current, seen, chain, declared, secretValues, outgoing, given>>
      /\ ScrubInv /\ ChainTypeOK /\ chain \in Seq(Links)
  BY DEF Wire, ChainInv
<1>2. Len(chain) \in Nat /\ DOMAIN chain = 1 .. Len(chain) /\ wired \in Nat
  BY <1>1, LenProperties DEF ChainTypeOK
<1>3. PICK link \in Links, child \in Causes : WireOf(link, child)
  BY WireIs
<1> USE DEF WireOf
<1>4. /\ link.node \in Objects /\ link.representative \in Objects /\ link.cause \in Causes
      /\ link.representative \in {link.node, CopyOf(link.node)}
  BY <1>3 DEF Links
<1>5. \A o, cause : o \in Objects => /\ CleanText(o)' <=> CleanText(o)
                                     /\ Docile(o, cause)' <=> Docile(o, cause)
  BY <1>1, <1>3 DEF CleanText, Docile
<1>6. LinksInv'
  <2>1. ASSUME NEW i \in DOMAIN chain
        PROVE  /\ Settled(chain[i].representative)'
               /\ Docile(chain[i].representative, heap[chain[i].representative].cause)'
    <3> PICK o : o = chain[i].representative
      OBVIOUS
    <3>1. o \in Objects /\ Settled(o) /\ Docile(o, heap[o].cause)
      BY <1>1 DEF ScrubInv, LinksInv
    <3>2. Safe(heap'[o].cause, Representatives)
      BY <1>3, <3>1 DEF Settled
    <3>3. Docile(o, heap'[o].cause)
      <4>1. CASE o # link.representative \/ link.cause = Absent
        BY <1>3, <3>1, <4>1
      <4>2. CASE o = link.representative /\ link.cause # Absent
        <5>1. Docile(o, link.cause)
          BY <1>1, <1>2, <1>3, <4>2 DEF ScrubInv
        <5>2. heap'[o].cause = child
          BY <1>3, <4>2
        <5> QED BY <1>3, <4>2, <5>1, <5>2 DEF Docile
      <4> QED BY <4>1, <4>2
    <3>4. CleanText(o)'
      BY <1>5, <3>1 DEF Settled
    <3>5. Settled(o)'
      BY <1>1, <3>2, <3>4 DEF Settled, Safe, Representatives
    <3>6. Docile(o, heap[o].cause)'
      BY <1>3, <3>1, <3>3 DEF Docile
    <3> QED BY <1>1, <3>5, <3>6
  <2> QED BY <1>1, <2>1 DEF ScrubInv, LinksInv
<1>7. ASSUME NEW set, Scope(set) PROVE Scope(set)'
  <2>1. link.node \in set
    BY <1>2, <1>3, <1>7 DEF Scope
  <2>2. \A o \in set \ Registered : o \in Objects /\ o # link.representative
    <3> TAKE o \in set \ Registered
    <3>1. link.node \in Registered
      BY <1>2, <1>3 DEF Registered
    <3>2. o[1] # link.node[1] /\ o \in Objects
      BY <1>7, <2>1, <3>1 DEF Scope, Uniform, Objects
    <3> QED BY <1>4, <3>2 DEF CopyOf
  <2>3. \A o \in set \ Registered :
           /\ Leads(set, heap'[o].cause)
           /\ given.last /\ o[1] # Cleanup => CleanText(o)' /\ Docile(o, heap[o].cause)'
    <3> TAKE o \in set \ Registered
    <3>1. o \in Objects /\ heap'[o] = heap[o]
      BY <1>3, <2>2
    <3>2. CleanText(o)' <=> CleanText(o)
      BY <1>5, <3>1
    <3>3. Docile(o, heap[o].cause)' <=> Docile(o, heap[o].cause)
      BY <3>1 DEF Docile
    <3> QED BY <1>7, <3>1, <3>2, <3>3 DEF Scope
  <2> QED BY <1>1, <1>7, <2>3 DEF Scope, Leads, Registered
<1>8. ScrubInv'
  <2>1. \E set : Scope(set)'
    BY <1>1, <1>7 DEF ScrubInv
  <2>2. \A i \in DOMAIN chain : /\ Docile(chain[i].representative, chain[i].cause)'
                                /\ Leads(Registered, chain[i].cause)
    <3> TAKE i \in DOMAIN chain
    <3>1. chain[i].representative \in Objects /\ Docile(chain[i].representative, chain[i].cause)
      BY <1>1 DEF ScrubInv, LinksInv
    <3> QED BY <1>1, <1>3, <1>5, <3>1
  <2> QED BY <1>1, <1>3, <1>6, <2>1, <2>2 DEF ScrubInv, Leads, Registered
<1>9. ~given.last => ~IsError(heap'[<<Cleanup, 0>>].cause)
  <2> SUFFICES ASSUME ~given.last PROVE ~IsError(heap'[<<Cleanup, 0>>].cause)
    OBVIOUS
  <2>1. PICK set : Scope(set)
    BY <1>1 DEF ScrubInv
  <2>2. link.node \in set /\ link.node[1] # Cleanup
    BY <1>2, <1>3, <2>1 DEF Scope, Chained
  <2>3. <<Cleanup, 0>> \in Objects /\ <<Cleanup, 0>> # link.representative
    BY <1>4, <2>2, RejectionsAssumption DEF Objects, CopyOf
  <2> QED BY <1>3, <2>3 DEF ChainInv
<1>10. ChainTypeOK'
  BY <1>1, <1>2, <1>3 DEF ChainTypeOK
<1>11. Honest'
  BY <1>3 DEF ChainInv, Honest
<1> QED BY <1>1, <1>8, <1>9, <1>10, <1>11 DEF ChainInv

LEMMA ReturnStep ==
  ASSUME ChainInv, Return
  PROVE  ChainInv'
<1>1. /\ phase = "scrub" /\ ~Walking /\ wired = Len(chain)
      /\ outgoing' = IF chain = <<>> THEN Flattened(current) ELSE Link(chain[1].representative)
      /\ phase' = IF given.last THEN "done" ELSE "thrown"
      /\ UNCHANGED <<heap, current, seen, chain, wired, declared, secretValues, given>>
      /\ ScrubInv /\ LinksInv /\ ChainTypeOK /\ chain \in Seq(Links)
  BY DEF Return, ChainInv, ScrubInv
<1>2. /\ Len(chain) \in Nat /\ DOMAIN chain = 1 .. Len(chain)
      /\ chain # <<>> => 1 \in DOMAIN chain
      /\ chain = <<>> => Len(chain) = 0
  BY <1>1, LenProperties, EmptySeq
<1>3. Representatives \subseteq Objects
  BY <1>1 DEF Representatives, LinksInv
<1>4. outgoing' \in Causes /\ Safe(outgoing', Representatives)
  <2>1. CASE chain = <<>>
    <3>1. Registered = {} /\ wired = 0
      BY <1>1, <1>2, <2>1 DEF Registered
    <3>2. ~IsError(current) /\ current \in Causes
      BY <1>1, <3>1 DEF Walking, ChainTypeOK
    <3> QED BY <1>1, <2>1, <3>2, FlattenedIs
  <2>2. CASE chain # <<>>
    <3>1. chain[1].representative \in Representatives
      BY <1>2, <2>2 DEF Representatives
    <3>2. outgoing' = Link(chain[1].representative)
      BY <1>1, <2>2
    <3> HIDE DEF Representatives
    <3> QED BY <1>3, <3>1, <3>2, CauseKinds DEF Safe, IsError
  <2> QED BY <2>1, <2>2
<1>5. LinksInv'
  <2>1. Representatives' = Representatives
    BY <1>1 DEF Representatives
  <2>2. /\ \A o : Settled(o)' <=> Settled(o)
        /\ \A o : Docile(o, heap[o].cause)' <=> Docile(o, heap[o].cause)
    BY <1>1, <2>1 DEF Settled, CleanText, Safe, Docile
  <2> QED BY <1>1, <2>2 DEF LinksInv
<1>6. Safe(outgoing, Representatives)'
  BY <1>1, <1>4 DEF Safe, Representatives, IsError
<1>7. ASSUME ~given.last PROVE ThrownFrom(Representatives)'
  <2>1. PICK set : Scope(set)
    BY <1>1 DEF ScrubInv
  <2>2. \A i \in DOMAIN chain :
           /\ chain[i].node \in set /\ chain[i].node \in Chained
           /\ chain[i].representative[1] = chain[i].node[1]
           /\ chain[i].representative \in Nodes \X (0 .. 1)
    <3> TAKE i \in DOMAIN chain
    <3>1. chain[i].node \in set /\ chain[i].node \in Chained
      BY <1>7, <2>1 DEF Scope
    <3>2. chain[i].representative \in {chain[i].node, CopyOf(chain[i].node)}
      BY <1>1 DEF LinksInv
    <3> QED BY <3>1, <3>2 DEF CopyOf, Chained
  <2>3. Uniform(Representatives)
    <3>1. \A i, j \in DOMAIN chain :
             chain[i].representative[1] = chain[j].representative[1] =>
                chain[i].representative = chain[j].representative
      <4> TAKE i, j \in DOMAIN chain
      <4> HAVE chain[i].representative[1] = chain[j].representative[1]
      <4>1. chain[i].node = chain[j].node
        BY <2>1, <2>2 DEF Scope, Uniform
      <4>2. i = j
        BY <1>1, <4>1 DEF LinksInv
      <4> QED BY <4>2
    <3> QED BY <2>2, <3>1 DEF Uniform, Representatives
  <2>4. \A o \in Representatives :
           /\ o[1] # Cleanup /\ Settled(o) /\ Docile(o, heap[o].cause)
    BY <1>1, <2>2 DEF Representatives, LinksInv, Chained
  <2>5. /\ Representatives' = Representatives
        /\ \A o : CleanText(o)' <=> CleanText(o)
        /\ \A o : Docile(o, heap[o].cause)' <=> Docile(o, heap[o].cause)
    BY <1>1 DEF Representatives, CleanText, Docile
  <2> HIDE DEF Representatives
  <2> QED BY <1>1, <1>4, <2>3, <2>4, <2>5 DEF ThrownFrom, Uniform, Leads, Settled, Safe
<1>8. ThrownInv'
  BY <1>1, <1>4, <1>5, <1>6, <1>7 DEF ThrownInv, ChainInv, Safe, Representatives
<1>9. ChainTypeOK'
  BY <1>1, <1>4 DEF ChainTypeOK
<1> QED BY <1>1, <1>8, <1>9 DEF ChainInv, Honest

LEMMA CollectLinkStep ==
  ASSUME ChainInv, CollectLink
  PROVE  ChainInv'
<1> PICK o : o = current.object
  OBVIOUS
<1>1. /\ phase = "collect" /\ IsError(current) /\ CollectInv /\ ChainTypeOK
      /\ seen' = seen \cup {o} /\ secretValues' = secretValues \cup (Shown(o) \cap Echoes)
      /\ current' \in {current, heap[o].cause}
      /\ UNCHANGED <<heap, phase, chain, wired, declared, outgoing, given>>
  BY DEF CollectLink, ChainInv
<1>2. o \in Chained /\ o \in Objects /\ Registered = {}
  BY <1>1 DEF CollectInv, Scope, Leads, Chained, Objects, Registered
<1>3. Leads(Chained, current')
  BY <1>1, <1>2 DEF CollectInv, Scope
<1>4. CollectInv'
  BY <1>1, <1>3 DEF CollectInv, Scope, Leads, Uniform, Registered
<1>5. heap[o].cause \in Causes
  BY <1>1, <1>2 DEF ChainTypeOK, Shape
<1>6. ChainTypeOK'
  BY <1>1, <1>2, <1>5 DEF ChainTypeOK, Secrets
<1> QED BY <1>1, <1>4, <1>6 DEF ChainInv, Honest

LEMMA CollectEndStep ==
  ASSUME ChainInv, CollectEnd
  PROVE  ChainInv'
<1>1. /\ phase = "collect" /\ CollectInv /\ ChainTypeOK
      /\ secretValues \subseteq secretValues' /\ secretValues' \subseteq secretValues \cup Echoes
      /\ seen' = {} /\ current' = given.head
      /\ \/ secretValues' = {} /\ phase' = "thrown" /\ outgoing' = given.head
         \/ secretValues' # {} /\ phase' = "scrub" /\ UNCHANGED outgoing
      /\ UNCHANGED <<heap, chain, wired, declared, given>>
  BY DEF CollectEnd, ChainInv
<1>2. Registered = {} /\ chain = <<>> /\ ~given.last /\ DOMAIN chain = {}
  BY <1>1 DEF CollectInv, Registered
<1>3. ChainTypeOK'
  BY <1>1 DEF ChainTypeOK, CollectInv, Secrets
<1>4. CASE phase' = "thrown"
  <2>1. ThrownFrom(Chained)'
    BY <1>1, <1>2, <1>4 DEF ThrownFrom, CollectInv, Scope, Leads, Uniform, Chained
  <2>2. ThrownInv'
    BY <1>1, <1>2, <1>4, <2>1 DEF ThrownInv
  <2> QED BY <1>1, <1>3, <1>4, <2>2 DEF ChainInv, Honest
<1>5. CASE phase' = "scrub"
  <2>1. Scope(Chained)'
    BY <1>1, <1>2 DEF CollectInv, Scope, Leads, Uniform, Registered
  <2>2. ScrubInv'
    BY <1>1, <1>2, <2>1 DEF ScrubInv, LinksInv, CollectInv
  <2> QED BY <1>1, <1>3, <1>5, <2>2 DEF ChainInv, Honest
<1> QED BY <1>1, <1>4, <1>5

\* What was thrown may be scrubbed again, on its own or as the cause of another error.
LEMMA SecondScrubStarts ==
  ASSUME ChainInv, phase = "thrown", declared # {},
         NEW set, Uniform(set),
         NEW memory \in [Objects -> Shape], NEW head \in Causes,
         ScrubAgain(memory, head), Honest', Leads(set, head),
         \A o \in set : Leads(set, memory[o].cause),
         \A o \in set : o[1] # Cleanup => /\ memory[o] = heap[o]
                                          /\ CleanText(o) /\ Docile(o, heap[o].cause)
  PROVE  ChainInv'
<1>1. /\ heap' = memory /\ given'.last = TRUE /\ current' = head /\ phase' = "scrub"
      /\ chain' = <<>> /\ wired' = 0 /\ secretValues' = declared
      /\ UNCHANGED <<seen, declared, outgoing>>
  BY DEF ScrubAgain
<1>2. declared \subseteq secretValues /\ ChainTypeOK
  BY DEF ChainInv
<1>3. ChainTypeOK' /\ chain' \in Seq(Links)
  BY <1>1, <1>2, EmptySeq DEF ChainTypeOK
<1>4. DOMAIN chain' = {} /\ Registered' = {}
  BY <1>1 DEF Registered
<1>5. Scope(set)'
  <2>1. \A o \in set : o[1] # Cleanup => CleanText(o)' /\ Docile(o, heap[o].cause)'
    BY <1>1, <1>2 DEF CleanText, Docile
  <2> QED BY <1>1, <1>4, <2>1 DEF Scope, Uniform, Leads
<1>6. ScrubInv'
  BY <1>1, <1>4, <1>5 DEF ScrubInv, LinksInv
<1> QED BY <1>1, <1>2, <1>3, <1>6 DEF ChainInv

LEMMA ThrownAgain ==
  ASSUME ChainInv, phase = "thrown", declared # {}
  PROVE  /\ outgoing \in Causes /\ heap \in [Objects -> Shape] /\ Honest
         /\ ~IsError(heap[<<Cleanup, 0>>].cause)
         /\ \E set : /\ ThrownFrom(set)
                     /\ \A o \in set : CleanText(o) /\ Docile(o, heap[o].cause)
<1>1. ~given.last /\ secretValues # {} /\ ThrownInv /\ ChainTypeOK /\ Honest
  BY DEF ChainInv, ThrownInv
<1>2. PICK set : ThrownFrom(set)
  BY <1>1 DEF ThrownInv
<1>3. \A o \in set : CleanText(o) /\ Docile(o, heap[o].cause)
  BY <1>1, <1>2 DEF ThrownFrom
<1> QED BY <1>1, <1>2, <1>3 DEF ChainInv, ChainTypeOK

LEMMA ReleasedStep ==
  ASSUME ChainInv, Released
  PROVE  ChainInv'
<1>1. phase = "thrown" /\ declared # {} /\ ScrubAgain(heap, outgoing)
  BY DEF Released
<1>2. PICK set : /\ ThrownFrom(set)
                 /\ \A o \in set : CleanText(o) /\ Docile(o, heap[o].cause)
  BY <1>1, ThrownAgain
<1>3. /\ outgoing \in Causes /\ heap \in [Objects -> Shape]
      /\ Uniform(set) /\ Leads(set, outgoing) /\ \A o \in set : Leads(set, heap[o].cause)
  BY <1>1, <1>2, ThrownAgain DEF ThrownFrom
<1>4. Honest'
  BY <1>1, ThrownAgain DEF ScrubAgain, Honest
<1> QED BY <1>1, <1>2, <1>3, <1>4, SecondScrubStarts

LEMMA CleanupFailedStep ==
  ASSUME ChainInv, CleanupFailed
  PROVE  ChainInv'
<1> DEFINE c == <<Cleanup, 0>>
           accepts == heap[c].cause = Absent /\ heap[c].resists.slot # "cause"
           memory == IF accepts THEN [heap EXCEPT ![c].cause = outgoing] ELSE heap
<1>1. phase = "thrown" /\ declared # {} /\ ScrubAgain(memory, Link(c))
  BY DEF CleanupFailed
<1>2. PICK set : /\ ThrownFrom(set)
                 /\ \A o \in set : CleanText(o) /\ Docile(o, heap[o].cause)
  BY <1>1, ThrownAgain
<1>3. /\ outgoing \in Causes /\ heap \in [Objects -> Shape] /\ Honest
      /\ ~IsError(heap[c].cause) /\ c \in Objects /\ c \in Nodes \X (0 .. 1) /\ c[1] = Cleanup
  BY <1>1, ThrownAgain, RejectionsAssumption DEF Objects
<1>4. /\ Link(c) \in Causes /\ IsError(Link(c)) /\ Link(c).object = c
  BY <1>3, CauseKinds
<1> HIDE DEF c
<1>5. /\ memory \in [Objects -> Shape]
      /\ \A o \in Objects : o # c => memory[o] = heap[o]
      /\ memory[c].cause \in {heap[c].cause, outgoing}
      /\ \A o \in Objects : memory[o].resists = heap[o].resists
  <2>1. CASE ~accepts
    BY <1>3, <2>1
  <2>2. CASE accepts
    <3>1. memory = [heap EXCEPT ![c] = [heap[c] EXCEPT !.cause = outgoing]]
      BY <2>2
    <3>2. /\ [heap[c] EXCEPT !.cause = outgoing] \in Shape
          /\ [heap[c] EXCEPT !.cause = outgoing].cause = outgoing
          /\ [heap[c] EXCEPT !.cause = outgoing].resists = heap[c].resists
      BY <1>3 DEF Shape
    <3> QED BY <1>3, <3>1, <3>2
  <2> QED BY <2>1, <2>2
<1> HIDE DEF memory
<1>6. Honest'
  BY <1>1, <1>3, <1>5 DEF ScrubAgain, Honest
<1> PICK all : all = set \cup {c}
  OBVIOUS
<1>7. Uniform(all)
  BY <1>2, <1>3 DEF ThrownFrom, Uniform
<1>8. \A o \in all : /\ Leads(all, memory[o].cause)
                     /\ o[1] # Cleanup => /\ o \in set /\ memory[o] = heap[o]
                                          /\ CleanText(o) /\ Docile(o, heap[o].cause)
  <2>1. \A o \in set : o \in Objects /\ o # c
    BY <1>2, <1>3 DEF ThrownFrom, Uniform, Objects
  <2> QED BY <1>2, <1>3, <1>5, <2>1 DEF ThrownFrom, Leads
<1>9. Leads(all, Link(c))
  BY <1>4 DEF Leads
<1> QED BY <1>1, <1>4, <1>5, <1>6, <1>7, <1>8, <1>9, SecondScrubStarts

LEMMA ChainStarts ==
  ASSUME ChainInit \/ ChainIdle
  PROVE  ChainInv
<1>1. Holding({}) \in [TextFields -> SUBSET Secrets]
  BY DEF Holding
<1>2. PICK blank : blank = RedactedCopy(Holding({}))
  OBVIOUS
<1>3. blank \in Shape /\ blank.cause = Absent /\ blank.resists.slot = "none"
  BY <1>1, <1>2, CopyIs
<1>4. Absent \in Causes /\ Undefined \in Causes /\ ~IsError(Absent)
  BY CauseKinds
<1>5. CASE ChainInit
  <2>1. PICK rejection \in Rejections : ChainStart(rejection)
    BY <1>5 DEF ChainInit
  <2>2. /\ heap = [o \in Objects |-> IF o[2] = 0 THEN rejection.objects[o[1]] ELSE blank]
        /\ current = rejection.head /\ outgoing = Undefined /\ given.head = rejection.head
        /\ given.last = FALSE /\ seen = {} /\ chain = <<>> /\ wired = 0
        /\ phase = "collect" /\ declared \in {{}, Code} /\ secretValues = declared
    BY <1>2, <1>5, <2>1 DEF ChainInit, ChainStart
  <2>3. /\ rejection.objects \in [Nodes -> Shape] /\ rejection.head \in Causes
        /\ Leads(Chained, rejection.head)
        /\ \A n \in Nodes : Leads(Chained, rejection.objects[n].cause)
        /\ ~IsError(rejection.objects[Cleanup].cause) /\ Cleanup \in Nodes
        /\ \A n \in Nodes :
              rejection.objects[n].resists.slot = "extras" =>
                rejection.objects[n].resists.how \in {"refuses", "throws", "unreadable"}
    BY RejectionsAssumption DEF Leads, Chained
  <2>4. /\ heap \in [Objects -> Shape]
        /\ \A n \in Nodes : <<n, 0>> \in Objects /\ heap[<<n, 0>>] = rejection.objects[n]
        /\ \A o \in Objects : heap[o] = IF o[2] = 0 THEN rejection.objects[o[1]] ELSE blank
    BY <1>3, <2>2, <2>3 DEF Objects
  <2>5. Honest
    BY <1>3, <2>3, <2>4 DEF Honest, Objects
  <2>6. ChainTypeOK /\ chain \in Seq(Links)
    BY <1>4, <2>2, <2>3, <2>4, EmptySeq DEF ChainTypeOK, Secrets
  <2>7. Uniform(Chained)
    BY DEF Uniform, Chained
  <2>8. DOMAIN chain = {} /\ Registered = {}
    BY <2>2 DEF Registered
  <2>9. CollectInv
    <3>1. \A o \in Chained : \E n \in Nodes : o = <<n, 0>>
      BY DEF Chained
    <3>2. \A o \in Chained : Leads(Chained, heap[o].cause)
      <4> HIDE DEF Chained
      <4> QED BY <2>3, <2>4, <3>1
    <3> QED BY <2>2, <2>3, <2>7, <2>8, <3>2 DEF CollectInv, Scope
  <2>10. ~IsError(heap[<<Cleanup, 0>>].cause)
    BY <2>3, <2>4
  <2> QED BY <2>2, <2>5, <2>6, <2>9, <2>10 DEF ChainInv
<1>6. CASE ChainIdle
  <2>1. /\ heap = [o \in Objects |-> IF o[2] = 0 THEN [n \in Nodes |-> blank][o[1]] ELSE blank]
        /\ current = Undefined /\ outgoing = Undefined
        /\ given.last = FALSE /\ seen = {} /\ chain = <<>> /\ wired = 0
        /\ phase = "idle" /\ declared = {} /\ secretValues = {}
    BY <1>2, <1>6 DEF ChainIdle, ChainStart
  <2>2. heap \in [Objects -> Shape] /\ \A o \in Objects : heap[o] = blank
    BY <1>3, <2>1 DEF Objects
  <2>3. ChainTypeOK /\ chain \in Seq(Links)
    BY <1>4, <2>1, <2>2, EmptySeq DEF ChainTypeOK
  <2>4. ~IsError(heap[<<Cleanup, 0>>].cause)
    BY <1>3, <1>4, <2>2, RejectionsAssumption DEF Objects
  <2> QED BY <1>3, <2>1, <2>2, <2>3, <2>4 DEF ChainInv, Honest
<1> QED BY <1>5, <1>6

LEMMA ChainStutters ==
  ASSUME ChainInv, UNCHANGED chainVars
  PROVE  ChainInv'
<1>1. UNCHANGED <<heap, phase, current, seen, chain, wired, declared, secretValues, outgoing, given>>
  BY DEF chainVars
<1> USE <1>1
<1>2. /\ ChainTypeOK' <=> ChainTypeOK
      /\ Honest' <=> Honest
      /\ Registered' = Registered /\ Representatives' = Representatives
  BY DEF ChainTypeOK, Honest, Registered, Representatives
<1>3. /\ \A set : Scope(set)' <=> Scope(set)
      /\ \A set : ThrownFrom(set)' <=> ThrownFrom(set)
      /\ \A o : Settled(o)' <=> Settled(o)
      /\ \A value, set : Safe(value, set)' <=> Safe(value, set)
      /\ \A o, cause : Docile(o, cause)' <=> Docile(o, cause)
  BY <1>2 DEF Scope, ThrownFrom, Settled, Safe, Docile, CleanText, Leads, Uniform
<1>4. /\ CollectInv' <=> CollectInv
      /\ LinksInv' <=> LinksInv
  BY <1>2, <1>3 DEF CollectInv, LinksInv, Leads
<1>5. /\ ScrubInv' <=> ScrubInv
      /\ ThrownInv' <=> ThrownInv
  BY <1>2, <1>3, <1>4 DEF ScrubInv, ThrownInv, Leads
<1> QED BY <1>2, <1>4, <1>5 DEF ChainInv

LEMMA ChainStep ==
  ASSUME ChainInv, ChainNext \/ UNCHANGED chainVars
  PROVE  ChainInv'
BY CollectLinkStep, CollectEndStep, RegisterInPlaceStep, RegisterCopyStep, RegisterUnreadableStep,
   WireStep, ReturnStep, ReleasedStep, CleanupFailedStep, ChainStutters DEF ChainNext

LEMMA SettledIsClean ==
  ASSUME LinksInv, NEW value, Safe(value, Representatives)
  PROVE  Clean(value, secretValues)
<1>1. /\ Representatives \subseteq Objects
      /\ \A o \in Representatives : CleanText(o) /\ Safe(heap[o].cause, Representatives)
  BY DEF LinksInv, Representatives, Settled
<1> QED BY <1>1, CleanIfClosed

LEMMA ChainIsClean ==
  ASSUME ChainInv
  PROVE  ThrownIsClean /\ NeverHalfClean /\ SameObjects
<1>1. ThrownIsClean
  <2> SUFFICES ASSUME phase \in {"thrown", "done"} PROVE Clean(outgoing, secretValues)
    BY DEF ThrownIsClean, Left
  <2>1. CASE secretValues = {}
    BY <2>1 DEF Clean
  <2>2. CASE secretValues # {}
    BY <2>2, SettledIsClean DEF ChainInv, ThrownInv
  <2> QED BY <2>1, <2>2
<1>2. NeverHalfClean
  <2> SUFFICES ASSUME phase = "scrub", NEW i \in DOMAIN chain
               PROVE  Clean(Link(chain[i].representative), secretValues)
    BY DEF NeverHalfClean
  <2>1. LinksInv /\ chain[i].representative \in Representatives /\ Representatives \subseteq Objects
    BY DEF ChainInv, ScrubInv, LinksInv, Representatives
  <2>2. Safe(Link(chain[i].representative), Representatives)
    <3> HIDE DEF Representatives
    <3> QED BY <2>1, CauseKinds DEF Safe, IsError
  <2> QED BY <2>1, <2>2, SettledIsClean
<1>3. SameObjects
  <2> SUFFICES ASSUME given.last, NEW i \in DOMAIN chain, chain[i].node[1] # Cleanup
               PROVE  chain[i].representative = chain[i].node
    BY DEF SameObjects
  <2>1. phase \in {"scrub", "done"} /\ secretValues # {}
    BY DEF ChainInv
  <2> QED BY <2>1 DEF ChainInv, ScrubInv, ThrownInv, LinksInv
<1> QED BY <1>1, <1>2, <1>3

-----------------------------------------------------------------------------

LEMMA ChainInvariant == Spec => []ChainInv
<1>1. Init => ChainInv
  BY ChainStarts DEF Init
<1>2. ChainInv /\ [Next]_vars => ChainInv'
  BY ChainStep DEF Next, Scrub, Withhold, vars
<1> QED BY <1>1, <1>2, PTL DEF Spec

\* Whatever the objects of a chain resist, and however long it is, shares links or loops: nothing
\* that can be reached from what the two scrubs throw holds a value that was to be removed
\* (scrubValuesFromErrorChain and failedOutgoing).
THEOREM ThrownIsCleanHolds == Spec => []ThrownIsClean
<1>1. ChainInv => ThrownIsClean
  BY ChainIsClean
<1> QED BY <1>1, ChainInvariant, PTL

\* At every step of the two passes, an object that stands for a link leads to nothing unredacted:
\* pass 1 cuts the cause of what it registers, pass 2 leads only to other representatives.
THEOREM NeverHalfCleanHolds == Spec => []NeverHalfClean
<1>1. ChainInv => NeverHalfClean
  BY ChainIsClean
<1> QED BY <1>1, ChainInvariant, PTL

\* Scrubbing a thrown chain again, alone or under the error of a failed cleanup, replaces none of
\* its objects: an object kept in place and a redacted copy both take every write a second time.
THEOREM SameObjectsHolds == Spec => []SameObjects
<1>1. ChainInv => SameObjects
  BY ChainIsClean
<1> QED BY <1>1, ChainInvariant, PTL

-----------------------------------------------------------------------------
(* What can be reached *)

\* The values reached from one are the least set that holds it and is closed under reading causes.
LEMMA ReachableIsLeast ==
  ASSUME NEW memory \in [Objects -> Shape], NEW value \in Causes
  PROVE  /\ value \in Reachable(memory, value) /\ Reachable(memory, value) \subseteq Causes
         /\ \A v \in Reachable(memory, value) :
               IsError(v) => NextOf(memory, v.object) \in Reachable(memory, value)
         /\ \A good : /\ value \in good
                      /\ \A v \in good \cap Causes : IsError(v) => NextOf(memory, v.object) \in good
                      => Reachable(memory, value) \subseteq good
<1> DEFINE Relevant == {value} \cup {NextOf(memory, o) : o \in Objects}
           ClosedSet(set) == /\ value \in set
                             /\ \A v \in set : IsError(v) => NextOf(memory, v.object) \in set
           reached == {v \in Relevant : \A set \in SUBSET Relevant : ClosedSet(set) => v \in set}
<1>1. reached = Reachable(memory, value)
  BY DEF Reachable
<1>2. \A o \in Objects : NextOf(memory, o) \in Causes
  BY CauseKinds DEF NextOf, Shape
<1>3. Relevant \subseteq Causes
  BY <1>2
<1>4. \A v \in Relevant : IsError(v) => NextOf(memory, v.object) \in Relevant
  BY <1>3, CauseKinds
<1>5. value \in reached /\ \A v \in reached : IsError(v) => NextOf(memory, v.object) \in reached
  BY <1>4
<1>6. ASSUME NEW good, value \in good,
             \A v \in good \cap Causes : IsError(v) => NextOf(memory, v.object) \in good
      PROVE  reached \subseteq good
  <2>1. good \cap Relevant \in SUBSET Relevant /\ value \in good \cap Relevant
    BY <1>6
  <2>2. ClosedSet(good \cap Relevant)
    BY <1>3, <1>4, <1>6
  <2> QED BY <2>1, <2>2
<1> HIDE DEF reached
<1> QED BY <1>1, <1>3, <1>5, <1>6 DEF reached

\* A value leads into a set of objects and tells only these secrets.
Within(value, set, secrets) ==
  /\ Leads(set, value)
  /\ value.is = "tail" => value.told \cap Echoes \subseteq secrets

\* What a value and the causes of a set of objects stay within, all that is reached does.
LEMMA ReachedWithin ==
  ASSUME NEW memory \in [Objects -> Shape], NEW value \in Causes, NEW set, NEW secrets,
         Within(value, set, secrets),
         \A o \in set : Within(NextOf(memory, o), set, secrets)
  PROVE  \A v \in Reachable(memory, value) : v \in Causes /\ Within(v, set, secrets)
<1> DEFINE good == {v \in Causes : Within(v, set, secrets)}
<1>1. value \in good
  OBVIOUS
<1>2. \A v \in good \cap Causes : IsError(v) => NextOf(memory, v.object) \in good
  <2> SUFFICES ASSUME NEW v \in good, IsError(v) PROVE NextOf(memory, v.object) \in good
    OBVIOUS
  <2>1. v.object \in set /\ v.object \in Objects
    BY CauseKinds DEF Within, Leads
  <2>2. NextOf(memory, v.object) \in Causes
    BY <2>1, CauseKinds DEF NextOf, Shape
  <2> QED BY <2>1, <2>2
<1>3. Reachable(memory, value) \subseteq good
  <2> HIDE DEF good
  <2> QED BY <1>1, <1>2, ReachableIsLeast
<1> QED BY <1>3

-----------------------------------------------------------------------------
(* What a chain tells of the body, and how it compares with the given one *)

\* The excerpts of the body that an object shows, and those that a value of a chain tells.
Readable(memory, o, field) ==
  IF memory[o].resists = [slot |-> field, how |-> "unreadable"] THEN {} ELSE memory[o].text[field]

Echoed(memory, o) ==
  Echoes \cap (Readable(memory, o, "message") \cup Readable(memory, o, "stack"))

Told(memory, value) ==
  IF IsError(value) THEN Echoed(memory, value.object)
  ELSE IF value.is = "tail" THEN value.told \cap Echoes ELSE {}

Before == Reachable(given.heap, given.head)

Met == {o \in Objects : Link(o) \in Before}

Alike(v, w) == v.is = w.is /\ (IsError(v) => v.object[1] = w.object[1])

\* Its reads or writes may throw where nothing catches it but the scrub of the link.
MayThrow(memory, o) ==
  /\ memory[o].resists.how \in {"throws", "unreadable"}
  /\ memory[o].resists.slot \notin {"response", "extras"}

Hostile(o) == MayThrow(given.heap, o)

\* Read already, or next to be read.
Pending(value) ==
  /\ IsError(value) => value.object \in seen \/ value = current
  /\ value.is = "tail" => value = current

CollectTrace ==
  /\ heap = given.heap /\ Pending(given.head)
  /\ \A o \in seen : Echoed(heap, o) \subseteq secretValues /\ Pending(NextOf(heap, o))

\* What stands for a link tells nothing, and once wired leads where the link did.
Traced(link, done) ==
  LET now == heap[link.representative].cause
  IN  /\ link.node \in Met
      /\ \/ link.cause = given.heap[link.node].cause /\ link.cause \in Before
         \/ link.cause = Absent /\ Hostile(link.node)
      /\ link.cause = Absent => now = Absent
      /\ done => Alike(now, link.cause)
      /\ Echoed(heap, link.representative) = {}
      /\ now.is = "tail" => now.told \cap Echoes = {}

LinkTrace ==
  /\ Uniform(Met) /\ (~given.last => Met \subseteq Chained)
  /\ \A i \in DOMAIN chain : Traced(chain[i], i <= wired)

WalkTrace ==
  /\ secretValues # {}
  /\ \A o \in Met \ Registered : heap[o] = given.heap[o]
  /\ current \in Before \cup {Absent}
  /\ IF chain = <<>> THEN current = given.head
                     ELSE IsError(given.head) /\ chain[1].node = given.head.object

Known == \A v \in Before : Told(given.heap, v) \subseteq secretValues

LeftTrace ==
  IF secretValues = {}
  THEN heap = given.heap /\ outgoing = given.head
  ELSE /\ wired = Len(chain) /\ Alike(outgoing, given.head)
       /\ outgoing.is = "tail" => outgoing.told \cap Echoes = {}

\* Until the second scrub the error of the cleanup is the storage's own.
CleanupTrace ==
  LET o == <<Cleanup, 0>>
  IN  ~given.last => Echoed(heap, o) \subseteq Code /\ Told(heap, heap[o].cause) \subseteq Code

TraceInv ==
  /\ given.heap \in [Objects -> Shape] /\ given.head \in Causes
  /\ declared \in {{}, Code} /\ CleanupTrace
  /\ phase = "collect" => CollectTrace
  /\ phase \in {"scrub", "thrown", "done"} => Known /\ LinkTrace
  /\ phase = "scrub" => WalkTrace
  /\ phase \in {"thrown", "done"} => LeftTrace

-----------------------------------------------------------------------------
(* The walk that looks for echoes *)

LEMMA ShownIsEchoed ==
  ASSUME NEW o
  PROVE  Shown(o) \cap Echoes = Echoed(heap, o)
BY DEF Shown, Echoed, Readable, Unreadable

LEMMA CollectLinkTraced ==
  ASSUME ChainInv, TraceInv, CollectLink
  PROVE  TraceInv'
<1> PICK o : o = current.object
  OBVIOUS
<1>1. /\ phase = "collect" /\ IsError(current)
      /\ seen' = seen \cup {o} /\ secretValues' = secretValues \cup Echoed(heap, o)
      /\ current' = IF Unreadable(o, "cause") THEN current ELSE heap[o].cause
      /\ UNCHANGED <<heap, phase, chain, wired, declared, outgoing, given>>
  BY ShownIsEchoed DEF CollectLink
<1>2. CollectTrace
  BY <1>1 DEF TraceInv
<1>3. \A v : Pending(v) => Pending(v)'
  BY <1>1 DEF Pending, IsError
<1>4. Pending(NextOf(heap, o))'
  <2>1. CASE Unreadable(o, "cause")
    BY <1>1, <2>1, CauseKinds DEF NextOf, Unreadable, Pending
  <2>2. CASE ~Unreadable(o, "cause")
    BY <1>1, <2>2 DEF NextOf, Unreadable, Pending
  <2> QED BY <2>1, <2>2
<1>5. CollectTrace'
  <2>1. Pending(given.head)' /\ \A p \in seen : Pending(NextOf(heap, p))'
    BY <1>1, <1>2, <1>3 DEF CollectTrace, Pending
  <2>2. \A p \in seen' : Echoed(heap, p)' \subseteq secretValues'
    BY <1>1, <1>2 DEF CollectTrace
  <2> QED BY <1>1, <1>2, <1>4, <2>1, <2>2 DEF CollectTrace, Pending
<1> QED BY <1>1, <1>5 DEF TraceInv, CleanupTrace

\* When the walk ends it has read everything that can be reached.
LEMMA AllIsKnown ==
  ASSUME ChainInv, TraceInv, CollectEnd
  PROVE  \A v \in Before : Told(given.heap, v) \subseteq secretValues'
<1>1. /\ phase = "collect" /\ CollectTrace /\ given.heap \in [Objects -> Shape]
      /\ given.head \in Causes /\ (IsError(current) => current.object \in seen)
      /\ secretValues \subseteq secretValues'
      /\ current.is = "tail" => current.told \cap Echoes \subseteq secretValues'
  BY DEF CollectEnd, TraceInv
<1>2. Within(given.head, seen, secretValues')
  BY <1>1, CauseKinds DEF CollectTrace, Pending, Within, Leads
<1>3. \A o \in seen : Within(NextOf(given.heap, o), seen, secretValues')
  BY <1>1 DEF CollectTrace, Pending, Within, Leads
<1>4. \A v \in Before : Within(v, seen, secretValues')
  BY <1>1, <1>2, <1>3, ReachedWithin DEF Before
<1>5. \A o \in seen : Echoed(given.heap, o) \subseteq secretValues'
  BY <1>1 DEF CollectTrace
<1> QED BY <1>4, <1>5 DEF Told, Within, Leads

LEMMA CollectEndTraced ==
  ASSUME ChainInv, TraceInv, CollectEnd
  PROVE  TraceInv'
<1>1. /\ phase = "collect" /\ CollectInv /\ CollectTrace /\ ~given.last
      /\ current' = given.head
      /\ \/ secretValues' = {} /\ phase' = "thrown" /\ outgoing' = given.head
         \/ secretValues' # {} /\ phase' = "scrub" /\ UNCHANGED outgoing
      /\ UNCHANGED <<heap, chain, wired, declared, given>>
      /\ given.heap \in [Objects -> Shape] /\ given.head \in Causes
  BY DEF CollectEnd, ChainInv, TraceInv, CollectInv
<1>2. Known'
  BY <1>1, AllIsKnown DEF Known, Before
<1>3. chain = <<>> /\ DOMAIN chain = {} /\ Registered = {} /\ Uniform(Chained)
  BY <1>1 DEF CollectInv, Scope, Registered
<1>4. Met \subseteq Chained
  <2>1. \A o \in Chained : Within(NextOf(given.heap, o), Chained, Echoes)
    BY <1>1, <1>3, CauseKinds DEF CollectInv, CollectTrace, Scope, NextOf, Within, Leads
  <2>2. Within(given.head, Chained, Echoes)
    BY <1>1 DEF CollectInv, Within
  <2>3. \A v \in Before : Within(v, Chained, Echoes)
    BY <1>1, <2>1, <2>2, ReachedWithin DEF Before
  <2> QED BY <2>3, CauseKinds DEF Met, Within, Leads
<1>5. Uniform(Met)
  BY <1>3, <1>4 DEF Uniform
<1>6. LinkTrace'
  BY <1>1, <1>3, <1>4, <1>5 DEF LinkTrace, Met, Before, Uniform
<1>7. phase' = "scrub" => WalkTrace'
  BY <1>1, <1>3, ReachableIsLeast DEF WalkTrace, CollectTrace, Before, Met
<1>8. phase' = "thrown" => LeftTrace'
  BY <1>1 DEF LeftTrace, CollectTrace
<1> QED BY <1>1, <1>2, <1>6, <1>7, <1>8 DEF TraceInv, CleanupTrace

-----------------------------------------------------------------------------
(* The links, one after the other *)

\* The link a walk has reached is one of the given chain, as it was given, and all it shows is known.
LEMMA ReachedIsGiven ==
  ASSUME ChainInv, TraceInv, Walking
  PROVE  /\ current = Link(current.object) /\ current \in Before /\ current.object \in Met
         /\ heap[current.object] = given.heap[current.object]
         /\ Echoed(heap, current.object) \subseteq secretValues
         /\ NextOf(heap, current.object) \in Before
<1>1. /\ IsError(current) /\ current.object \notin Registered /\ Known /\ WalkTrace
      /\ current \in Causes /\ given.heap \in [Objects -> Shape] /\ given.head \in Causes
  BY DEF Walking, TraceInv, ChainInv, ChainTypeOK
<1>2. current = Link(current.object) /\ current.object \in Objects
  BY <1>1, CauseKinds
<1>3. current \in Before
  BY <1>1, CauseKinds DEF WalkTrace
<1>4. current.object \in Met
  BY <1>2, <1>3 DEF Met
<1>5. heap[current.object] = given.heap[current.object]
  BY <1>1, <1>4 DEF WalkTrace
<1>6. Echoed(heap, current.object) \subseteq secretValues
  BY <1>1, <1>3, <1>5 DEF Known, Told, Echoed, Readable
<1>7. NextOf(heap, current.object) \in Before
  BY <1>1, <1>3, <1>5, ReachableIsLeast DEF Before, NextOf
<1> QED BY <1>2, <1>3, <1>4, <1>5, <1>6, <1>7

\* A link is registered, whichever way.
LEMMA LinkTraced ==
  ASSUME ChainInv, TraceInv, Walking,
         NEW representative, representative \in {current.object, CopyOf(current.object)} \cap Objects,
         NEW cause,
         \/ cause = heap[current.object].cause /\ cause = NextOf(heap, current.object)
         \/ cause = Absent /\ MayThrow(heap, current.object),
         chain' = Append(chain, [node |-> current.object, representative |-> representative,
                                 cause |-> cause]),
         current' = cause,
         UNCHANGED <<phase, seen, wired, declared, secretValues, outgoing, given>>,
         \A p \in Objects : p[1] # current.object[1] => heap'[p] = heap[p],
         heap'[representative].cause \in {Absent, Undefined},
         cause = Absent => heap'[representative].cause = Absent,
         Echoed(heap', representative) = {}
  PROVE  TraceInv'
<1> PICK o : o = current.object
  OBVIOUS
<1> PICK link : link = [node |-> o, representative |-> representative, cause |-> cause]
  OBVIOUS
<1>1. /\ phase = "scrub" /\ wired = 0 /\ IsError(current) /\ o \notin Registered
      /\ LinksInv /\ chain \in Seq(Links) /\ heap \in [Objects -> Shape]
      /\ WalkTrace /\ LinkTrace /\ Known
  BY DEF Walking, ChainInv, ScrubInv, ChainTypeOK, TraceInv
<1>2. /\ current = Link(o) /\ o \in Met /\ o \in Objects /\ heap[o] = given.heap[o]
      /\ NextOf(heap, o) \in Before
  BY ReachedIsGiven DEF Met
<1>3. /\ \/ cause = given.heap[o].cause /\ cause \in Before
         \/ cause = Absent /\ Hostile(o)
      /\ cause \in Before \cup {Absent} /\ cause \in Causes
  BY <1>1, <1>2, CauseKinds DEF Hostile, MayThrow, Shape
<1>4. link \in Links
  BY <1>2, <1>3 DEF Links
<1>5. /\ DOMAIN chain = 1 .. Len(chain) /\ DOMAIN chain' = 1 .. Len(chain) + 1
      /\ Len(chain) \in Nat /\ Len(chain') = Len(chain) + 1
      /\ \A i \in DOMAIN chain : chain'[i] = chain[i]
      /\ chain'[Len(chain) + 1] = link
      /\ Registered' = Registered \cup {o}
  BY <1>1, <1>4, ChainGrows
<1>6. Met' = Met /\ Before' = Before /\ \A p : Hostile(p)' <=> Hostile(p)
  BY DEF Met, Before, Hostile
<1>7. \A p \in Met \ {o} : heap'[p] = heap[p] /\ p[1] # o[1]
  BY <1>1, <1>2 DEF LinkTrace, Uniform, Met
<1>8. \A i \in DOMAIN chain : heap'[chain[i].representative] = heap[chain[i].representative]
  <2> TAKE i \in DOMAIN chain
  <2>1. chain[i].node \in Met \ {o}
    BY <1>1 DEF LinkTrace, Traced, Registered
  <2>2. /\ chain[i].representative \in {chain[i].node, CopyOf(chain[i].node)} \cap Objects
        /\ chain[i].representative[1] = chain[i].node[1]
    BY <1>1 DEF LinksInv, CopyOf
  <2> QED BY <1>7, <2>1, <2>2
<1>9. LinkTrace'
  <2>1. ASSUME NEW i \in DOMAIN chain' PROVE Traced(chain[i], i <= wired)'
    <3>1. CASE i \in DOMAIN chain
      <4>1. Traced(chain[i], i <= wired)
        BY <1>1, <3>1 DEF LinkTrace
      <4>2. chain'[i] = chain[i] /\ heap'[chain[i].representative] = heap[chain[i].representative]
        BY <1>5, <1>8, <3>1
      <4> QED BY <1>6, <4>1, <4>2 DEF Traced, Echoed, Readable
    <3>2. CASE i = Len(chain) + 1
      <4>1. chain'[i] = link /\ ~(i <= wired)
        BY <1>1, <1>5, <3>2
      <4>2. heap'[representative].cause.is # "tail"
        BY CauseKinds
      <4>3. /\ link.node = o /\ link.representative = representative /\ link.cause = cause
            /\ given' = given
        OBVIOUS
      <4>4. Echoed(heap, representative)' = {}
        BY <1>6 DEF Echoed, Readable
      <4>5. cause = Absent => heap'[representative].cause = Absent
        OBVIOUS
      <4> HIDE DEF Walking
      <4> QED BY <1>2, <1>3, <1>6, <4>1, <4>2, <4>3, <4>4, <4>5 DEF Traced
    <3> QED BY <1>5, <3>1, <3>2
  <2> QED BY <1>1, <1>6, <2>1 DEF LinkTrace, Uniform
<1>10. WalkTrace'
  <2>1. \A p \in Met \ Registered' : heap'[p] = given.heap[p]
    BY <1>1, <1>5, <1>7 DEF WalkTrace
  <2>2. IsError(given.head) /\ chain'[1].node = given.head.object
    <3>1. CASE chain = <<>>
      <4>1. Len(chain) = 0 /\ current = given.head
        BY <1>1, <3>1, EmptySeq DEF WalkTrace
      <4> QED BY <1>1, <1>5, <4>1
    <3>2. CASE chain # <<>>
      <4>1. 1 \in DOMAIN chain
        BY <1>1, <1>5, <3>2, EmptySeq
      <4> QED BY <1>1, <1>5, <3>2, <4>1 DEF WalkTrace
    <3> QED BY <3>1, <3>2
  <2>3. chain' # <<>>
    BY <1>5, EmptySeq
  <2> QED BY <1>1, <1>3, <1>6, <2>1, <2>2, <2>3 DEF WalkTrace, IsError
<1>11. CleanupTrace'
  <2>1. ~given.last => o[1] # Cleanup
    BY <1>1, <1>2 DEF LinkTrace, Chained
  <2>2. <<Cleanup, 0>> \in Objects
    BY RejectionsAssumption DEF Objects
  <2>3. ~given.last => heap'[<<Cleanup, 0>>] = heap[<<Cleanup, 0>>]
    BY <2>1, <2>2
  <2>4. CleanupTrace /\ (~given.last => ~IsError(heap[<<Cleanup, 0>>].cause))
    BY DEF TraceInv, ChainInv
  <2> QED BY <2>3, <2>4 DEF CleanupTrace, Told, Echoed, Readable, IsError
<1>12. Known'
  BY <1>1, <1>6 DEF Known
<1> QED BY <1>1, <1>9, <1>10, <1>11, <1>12 DEF TraceInv

LEMMA InPlaceTraced ==
  ASSUME ChainInv, TraceInv, RegisterInPlace
  PROVE  TraceInv'
<1> PICK o : o = current.object
  OBVIOUS
<1>1. /\ Walking /\ ~Throws(o) /\ InPlace(o) /\ heap' = [heap EXCEPT ![o] = After(o)]
      /\ chain' = Append(chain, [node |-> o, representative |-> o, cause |-> heap[o].cause])
      /\ current' = heap[o].cause
      /\ UNCHANGED <<phase, seen, wired, declared, secretValues, outgoing, given>>
  BY DEF RegisterInPlace
<1>2. /\ o \in Objects /\ heap[o] \in Shape /\ heap \in [Objects -> Shape]
      /\ heap[o].cause = NextOf(heap, o)
  BY <1>1, WalkingAt DEF Throws, NextOf
<1>3. /\ heap'[o] = After(o) /\ \A p \in Objects : p # o => heap'[p] = heap[p]
      /\ After(o).resists = heap[o].resists /\ After(o).cause \in {Absent, Undefined}
      /\ \A field \in {"message", "stack"} :
            After(o).text[field] = heap[o].text[field] \ secretValues
  BY <1>1, <1>2, AfterIs DEF InPlace, ReadsBack
<1>4. heap[o].cause = Absent => After(o).cause = Absent
  <2>1. heap[o].cause = Absent => "cause" \notin Written(o)
    BY DEF Written, Attempted
  <2> QED BY <1>2, <2>1, AfterIs
<1>5. Echoed(heap', o) = {}
  BY <1>1, <1>2, <1>3, ReachedIsGiven DEF Echoed, Readable
<1>6. o \in {o, CopyOf(o)} \cap Objects
  BY <1>2
<1> PICK cause : cause = heap[o].cause
  OBVIOUS
<1> QED BY <1>1, <1>2, <1>3, <1>4, <1>5, <1>6, LinkTraced

\* A copy shows nothing that was to be removed.
LEMMA CopyTraced ==
  ASSUME ChainInv, TraceInv, Walking,
         NEW text \in [TextFields -> SUBSET Secrets],
         Echoes \cap (text["message"] \cup text["stack"]) = {},
         NEW node,
         NEW cause,
         \/ cause = heap[current.object].cause /\ cause = NextOf(heap, current.object)
         \/ cause = Absent /\ MayThrow(heap, current.object),
         heap' = [heap EXCEPT ![current.object] = node,
                              ![CopyOf(current.object)] = RedactedCopy(text)],
         chain' = Append(chain, [node |-> current.object,
                                 representative |-> CopyOf(current.object), cause |-> cause]),
         current' = cause,
         UNCHANGED <<phase, seen, wired, declared, secretValues, outgoing, given>>
  PROVE  TraceInv'
<1> PICK o : o = current.object
  OBVIOUS
<1> PICK copy : copy = CopyOf(o)
  OBVIOUS
<1>1. /\ o \in Objects /\ copy \in Objects /\ copy # o /\ copy[1] = o[1]
      /\ heap \in [Objects -> Shape]
  BY WalkingAt
<1>2. /\ RedactedCopy(text).cause = Absent
      /\ \A field \in {"message", "stack"} : RedactedCopy(text).text[field] \subseteq text[field]
  BY CopyIs DEF TextFields
<1>3. /\ heap'[copy] = RedactedCopy(text)
      /\ \A p \in Objects : p[1] # o[1] => heap'[p] = heap[p]
  BY <1>1
<1>4. Echoed(heap', copy) = {}
  BY <1>2, <1>3 DEF Echoed, Readable
<1>5. copy \in {o, CopyOf(o)} \cap Objects /\ heap'[copy].cause = Absent
  BY <1>1, <1>2, <1>3
<1> QED BY <1>3, <1>4, <1>5, LinkTraced

LEMMA RegisterCopyTraced ==
  ASSUME ChainInv, TraceInv, RegisterCopy
  PROVE  TraceInv'
<1> DEFINE o == current.object
<1>1. /\ Walking /\ ~Throws(o)
      /\ heap' = [heap EXCEPT ![o] = After(o), ![CopyOf(o)] = RedactedCopy(Redacted(heap[o].text))]
      /\ chain' = Append(chain,
           [node |-> o, representative |-> CopyOf(o), cause |-> heap[o].cause])
      /\ current' = heap[o].cause
      /\ UNCHANGED <<phase, seen, wired, declared, secretValues, outgoing, given>>
  BY DEF RegisterCopy
<1>2. /\ heap[o] \in Shape /\ heap[o].cause = NextOf(heap, o)
      /\ \A field \in {"message", "stack"} : Readable(heap, o, field) = heap[o].text[field]
  BY <1>1, WalkingAt DEF Throws, NextOf, Readable
<1>3. Echoed(heap, o) \subseteq secretValues
  BY <1>1, ReachedIsGiven
<1>4. /\ Redacted(heap[o].text) \in [TextFields -> SUBSET Secrets]
      /\ \A field \in {"message", "stack"} :
            Redacted(heap[o].text)[field] = heap[o].text[field] \ secretValues
  BY <1>2 DEF Redacted, Shape, TextFields
<1>5. Echoes \cap (Redacted(heap[o].text)["message"] \cup Redacted(heap[o].text)["stack"]) = {}
  BY <1>2, <1>3, <1>4 DEF Echoed
<1> QED BY <1>1, <1>2, <1>4, <1>5, CopyTraced

LEMMA RegisterUnreadableTraced ==
  ASSUME ChainInv, TraceInv, RegisterUnreadable
  PROVE  TraceInv'
<1> DEFINE o == current.object
           node == IF heap[o].resists.how = "unreadable" THEN heap[o] ELSE After(o)
<1>1. /\ Walking /\ Throws(o)
      /\ heap' = [heap EXCEPT ![o] = node, ![CopyOf(o)] = RedactedCopy(Holding({}))]
      /\ chain' = Append(chain, [node |-> o, representative |-> CopyOf(o), cause |-> Absent])
      /\ current' = Absent
      /\ UNCHANGED <<phase, seen, wired, declared, secretValues, outgoing, given>>
  BY DEF RegisterUnreadable
<1>2. MayThrow(heap, o)
  BY <1>1 DEF Throws, MayThrow
<1>3. /\ Holding({}) \in [TextFields -> SUBSET Secrets]
      /\ Echoes \cap (Holding({})["message"] \cup Holding({})["stack"]) = {}
  BY DEF Holding, TextFields
<1> HIDE DEF node
<1> QED BY <1>1, <1>2, <1>3, CopyTraced

\* What becomes of a cause leads where the cause did, and tells nothing.
LEMMA ChildIsAlike ==
  ASSUME LinksInv, Known, secretValues \subseteq Secrets,
         NEW cause \in Causes, cause \in Before \cup {Absent}, Leads(Registered, cause)
  PROVE  LET child == IF IsError(cause) THEN Link(Representative(cause.object))
                                        ELSE Flattened(cause)
         IN  Alike(child, cause) /\ (child.is = "tail" => child.told \cap Echoes = {})
<1>1. CASE IsError(cause)
  <2>1. PICK i \in DOMAIN chain :
           chain[i].node = cause.object /\ Representative(cause.object) = chain[i].representative
    BY <1>1 DEF Leads, Registered, Representative
  <2>2. Representative(cause.object)[1] = cause.object[1]
    BY <2>1 DEF LinksInv, CopyOf
  <2> QED BY <1>1, <2>2 DEF Alike, IsError, Link
<1>2. CASE cause.is = "tail"
  <2>1. Told(cause, cause) = Told(given.heap, cause) /\ ~IsError(cause)
    BY <1>2 DEF Told, IsError
  <2>2. cause \in Before
    BY <1>2, CauseKinds
  <2>3. cause.told \cap Echoes \subseteq secretValues
    BY <1>2, <2>1, <2>2 DEF Known, Told
  <2>4. Flattened(cause).is = "tail" /\ Flattened(cause).told = cause.printed \ secretValues
    BY <1>2, CauseKinds DEF Flattened
  <2>5. cause.printed \cap Echoes \subseteq cause.told
    BY <1>2, CauseKinds
  <2> QED BY <1>2, <2>1, <2>3, <2>4, <2>5 DEF Alike, IsError
<1>3. CASE ~IsError(cause) /\ cause.is # "tail"
  BY <1>3 DEF Flattened, Alike
<1> QED BY <1>1, <1>2, <1>3

\* No two links have the same object to stand for them.
LEMMA RepresentativesDiffer ==
  ASSUME LinksInv, LinkTrace
  PROVE  /\ \A i \in DOMAIN chain : /\ chain[i].representative \in Objects
                                    /\ chain[i].representative[1] = chain[i].node[1]
         /\ \A i, j \in DOMAIN chain :
               chain[i].representative[1] = chain[j].representative[1] => i = j
<1>1. \A i \in DOMAIN chain : /\ chain[i].representative \in Objects
                               /\ chain[i].representative[1] = chain[i].node[1]
                               /\ chain[i].node \in Met
  BY DEF LinksInv, CopyOf, LinkTrace, Traced
<1>2. \A o, p \in Met : o[1] = p[1] => o = p
  BY DEF LinkTrace, Uniform
<1>3. \A i, j \in DOMAIN chain : chain[i].node = chain[j].node => i = j
  BY DEF LinksInv
<1> QED BY <1>1, <1>2, <1>3

LEMMA WireTraced ==
  ASSUME ChainInv, TraceInv, Wire
  PROVE  TraceInv'
<1>1. /\ phase = "scrub" /\ wired < Len(chain) /\ wired' = wired + 1
      /\ UNCHANGED <<phase, current, seen, chain, declared, secretValues, outgoing, given>>
      /\ LinksInv /\ chain \in Seq(Links) /\ secretValues \subseteq Secrets
      /\ WalkTrace /\ LinkTrace /\ Known
  BY DEF Wire, ChainInv, ScrubInv, ChainTypeOK, TraceInv
<1>2. Len(chain) \in Nat /\ DOMAIN chain = 1 .. Len(chain) /\ wired \in Nat
  BY <1>1, LenProperties DEF ChainInv, ChainTypeOK
<1>3. PICK link \in Links, child \in Causes : WireOf(link, child)
  BY WireIs
<1>4. /\ wired + 1 \in DOMAIN chain /\ link = chain[wired + 1]
      /\ Leads(Registered, link.cause) /\ link.cause \in Causes
      /\ child = IF IsError(link.cause) THEN Link(Representative(link.cause.object))
                                        ELSE Flattened(link.cause)
  BY <1>3 DEF WireOf, Links
<1>5. /\ \A o \in Objects : heap'[o].text = heap[o].text /\ heap'[o].resists = heap[o].resists
      /\ \A o \in Objects : o # link.representative => heap'[o] = heap[o]
      /\ link.cause # Absent => heap'[link.representative].cause = child
      /\ link.cause = Absent => heap' = heap
  BY <1>3 DEF WireOf
<1>6. /\ Traced(link, FALSE) /\ link.node \in Met /\ link.cause \in Before \cup {Absent}
      /\ link.representative \in Objects /\ link.representative[1] = link.node[1]
  BY <1>1, <1>4, RepresentativesDiffer DEF LinkTrace, Traced
<1>7. Alike(child, link.cause) /\ (child.is = "tail" => child.told \cap Echoes = {})
  BY <1>1, <1>4, <1>6, ChildIsAlike
<1>8. Met' = Met /\ Before' = Before /\ \A p : Hostile(p)' <=> Hostile(p)
  BY <1>1 DEF Met, Before, Hostile
<1>9. Traced(link, TRUE)'
  <2>1. CASE link.cause = Absent
    <3>1. heap' = heap /\ heap[link.representative].cause = Absent
      BY <1>5, <1>6, <2>1 DEF Traced
    <3>2. Alike(Absent, Absent)
      BY CauseKinds DEF Alike
    <3> QED BY <1>1, <1>6, <1>8, <2>1, <3>1, <3>2 DEF Traced
  <2>2. CASE link.cause # Absent
    <3>1. Echoed(heap', link.representative) = Echoed(heap, link.representative)
      BY <1>5, <1>6 DEF Echoed, Readable
    <3> QED BY <1>1, <1>5, <1>6, <1>7, <1>8, <2>2, <3>1 DEF Traced
  <2> QED BY <2>1, <2>2
<1>10. LinkTrace'
  <2>1. ASSUME NEW i \in DOMAIN chain PROVE Traced(chain[i], i <= wired)'
    <3>1. CASE i = wired + 1
      BY <1>1, <1>2, <1>4, <1>9, <3>1 DEF Traced
    <3>2. CASE i # wired + 1
      <4>1. chain[i].representative \in Objects /\ chain[i].representative # link.representative
        BY <1>1, <1>4, <3>2, RepresentativesDiffer
      <4>2. heap'[chain[i].representative] = heap[chain[i].representative]
        BY <1>5, <4>1
      <4>3. Traced(chain[i], i <= wired) /\ (i <= wired' <=> i <= wired)
        BY <1>1, <1>2, <3>2 DEF LinkTrace
      <4> QED BY <1>1, <1>8, <4>2, <4>3 DEF Traced, Echoed, Readable
    <3> QED BY <3>1, <3>2
  <2> QED BY <1>1, <1>8, <2>1 DEF LinkTrace, Uniform
<1>11. WalkTrace'
  <2>1. \A o \in Met \ Registered : heap'[o] = heap[o]
    <3> TAKE o \in Met \ Registered
    <3>1. link.node \in Registered /\ o # link.node
      BY <1>4 DEF Registered
    <3>2. o \in Objects /\ o[1] # link.node[1]
      BY <1>1, <1>6, <3>1 DEF LinkTrace, Uniform, Met
    <3> QED BY <1>5, <1>6, <3>2
  <2>2. Registered' = Registered
    BY <1>1 DEF Registered
  <2> QED BY <1>1, <1>8, <2>1, <2>2 DEF WalkTrace, IsError
<1>12. CleanupTrace'
  <2>1. ~given.last => link.representative[1] # Cleanup
    BY <1>1, <1>6 DEF LinkTrace, Chained
  <2>2. <<Cleanup, 0>> \in Objects
    BY RejectionsAssumption DEF Objects
  <2>3. ~given.last => heap'[<<Cleanup, 0>>] = heap[<<Cleanup, 0>>]
    BY <1>5, <2>1, <2>2
  <2>4. CleanupTrace /\ (~given.last => ~IsError(heap[<<Cleanup, 0>>].cause))
    BY DEF TraceInv, ChainInv
  <2> QED BY <1>1, <2>3, <2>4 DEF CleanupTrace, Told, Echoed, Readable, IsError
<1>13. Known'
  BY <1>1, <1>8 DEF Known
<1> QED BY <1>1, <1>10, <1>11, <1>12, <1>13 DEF TraceInv

LEMMA ReturnTraced ==
  ASSUME ChainInv, TraceInv, Return
  PROVE  TraceInv'
<1>1. /\ phase = "scrub" /\ ~Walking /\ wired = Len(chain)
      /\ outgoing' = IF chain = <<>> THEN Flattened(current) ELSE Link(chain[1].representative)
      /\ phase' \in {"thrown", "done"}
      /\ UNCHANGED <<heap, current, seen, chain, wired, declared, secretValues, given>>
      /\ LinksInv /\ chain \in Seq(Links) /\ secretValues \subseteq Secrets
      /\ WalkTrace /\ LinkTrace /\ Known
  BY DEF Return, ChainInv, ScrubInv, ChainTypeOK, TraceInv
<1>2. /\ Alike(outgoing', given.head)
      /\ outgoing'.is = "tail" => outgoing'.told \cap Echoes = {}
  <2>1. CASE chain = <<>>
    <3>1. Registered = {} /\ Len(chain) = 0 /\ current = given.head /\ given.head \in Causes
      BY <1>1, <2>1, EmptySeq DEF Registered, WalkTrace, TraceInv
    <3>2. ~IsError(given.head)
      BY <1>1, <3>1 DEF Walking
    <3>3. given.head \in Before \cup {Absent}
      BY <1>1, <3>1 DEF WalkTrace
    <3>4. Leads(Registered, given.head)
      BY <3>2 DEF Leads
    <3> QED BY <1>1, <2>1, <3>1, <3>2, <3>3, <3>4, ChildIsAlike
  <2>2. CASE chain # <<>>
    <3>1. 1 \in DOMAIN chain
      BY <1>1, <2>2, EmptySeq, LenProperties
    <3>2. chain[1].representative[1] = given.head.object[1] /\ IsError(given.head)
      BY <1>1, <2>2, <3>1, RepresentativesDiffer DEF WalkTrace
    <3> QED BY <1>1, <2>2, <3>2 DEF Alike, Link, IsError
  <2> QED BY <2>1, <2>2
<1>3. LeftTrace'
  BY <1>1, <1>2 DEF LeftTrace, WalkTrace, Alike, IsError
<1>4. Met' = Met /\ Before' = Before /\ \A p : Hostile(p)' <=> Hostile(p)
  BY <1>1 DEF Met, Before, Hostile
<1>5. LinkTrace'
  BY <1>1, <1>4 DEF LinkTrace, Uniform, Traced, Echoed, Readable, Alike, IsError
<1>6. Known' /\ CleanupTrace'
  BY <1>1, <1>4 DEF Known, TraceInv, CleanupTrace
<1> QED BY <1>1, <1>3, <1>5, <1>6 DEF TraceInv

-----------------------------------------------------------------------------
(* The second scrub, and the theorems *)

\* A chain may be scrubbed again if it tells nothing but what is declared.
LEMMA SecondScrubTraced ==
  ASSUME ChainInv, TraceInv, phase = "thrown", declared # {},
         NEW set, Uniform(set),
         NEW memory \in [Objects -> Shape], NEW head \in Causes, ScrubAgain(memory, head),
         Within(head, set, declared),
         \A o \in set : /\ Within(memory[o].cause, set, declared)
                        /\ Echoed(memory, o) \subseteq declared
  PROVE  TraceInv'
<1>1. /\ heap' = memory /\ given' = [heap |-> memory, head |-> head, last |-> TRUE]
      /\ current' = head /\ phase' = "scrub" /\ chain' = <<>> /\ wired' = 0
      /\ secretValues' = declared /\ UNCHANGED <<seen, declared, outgoing>>
  BY DEF ScrubAgain
<1>2. Before' = Reachable(memory, head) /\ \A o \in Met' : o \in Objects /\ Link(o) \in Before'
  BY <1>1 DEF Before, Met
<1>3. \A o \in set : Within(NextOf(memory, o), set, declared)
  BY CauseKinds DEF NextOf, Within, Leads
<1>4. \A v \in Before' : Within(v, set, declared)
  BY <1>2, <1>3, ReachedWithin
<1>5. Met' \subseteq set
  BY <1>2, <1>4, CauseKinds DEF Within, Leads
<1>6. DOMAIN chain' = {} /\ Registered' = {}
  BY <1>1 DEF Registered
<1>7. LinkTrace'
  BY <1>1, <1>5, <1>6 DEF LinkTrace, Uniform
<1>8. WalkTrace'
  BY <1>1, <1>2, ReachableIsLeast DEF WalkTrace
<1>9. \A v \in Before' : Told(memory, v) \subseteq declared
  BY <1>4 DEF Told, Within, Leads
<1>10. Known'
  BY <1>1, <1>9 DEF Known, Told, IsError
<1> QED BY <1>1, <1>7, <1>8, <1>10 DEF TraceInv, CleanupTrace

\* What the first scrub has thrown tells nothing.
LEMMA ThrownTellsNothing ==
  ASSUME ChainInv, TraceInv, phase \in {"thrown", "done"}, secretValues # {}
  PROVE  /\ heap \in [Objects -> Shape] /\ outgoing \in Causes /\ LinksInv /\ LinkTrace
         /\ Within(outgoing, Representatives, {})
         /\ \A o \in Representatives : /\ Within(heap[o].cause, Representatives, {})
                                       /\ Echoed(heap, o) = {}
<1>1. /\ heap \in [Objects -> Shape] /\ outgoing \in Causes /\ LinksInv /\ LinkTrace /\ LeftTrace
      /\ Safe(outgoing, Representatives)
  BY DEF ChainInv, ChainTypeOK, ThrownInv, TraceInv
<1>2. Within(outgoing, Representatives, {})
  BY <1>1 DEF Within, LeftTrace, Safe, Leads
<1>3. ASSUME NEW i \in DOMAIN chain
      PROVE  /\ Within(heap[chain[i].representative].cause, Representatives, {})
             /\ Echoed(heap, chain[i].representative) = {}
  <2>1. Traced(chain[i], i <= wired) /\ Settled(chain[i].representative)
    BY <1>1 DEF LinksInv, LinkTrace
  <2> HIDE DEF Representatives
  <2> QED BY <2>1 DEF Traced, Settled, Safe, Within, Leads
<1>4. \A o \in Representatives : \E i \in DOMAIN chain : o = chain[i].representative
  BY DEF Representatives
<1> HIDE DEF Representatives
<1> QED BY <1>1, <1>2, <1>3, <1>4

LEMMA AgainTraced ==
  ASSUME ChainInv, TraceInv, phase = "thrown", declared # {}
  PROVE  /\ secretValues # {} /\ declared = Code /\ CleanupTrace /\ ~given.last
         /\ ~IsError(heap[<<Cleanup, 0>>].cause)
         /\ Uniform(Representatives) /\ \A o \in Representatives : o[1] # Cleanup
<1>1. /\ secretValues # {} /\ declared = Code /\ CleanupTrace /\ ~given.last
      /\ ~IsError(heap[<<Cleanup, 0>>].cause)
  BY DEF ChainInv, TraceInv, ThrownInv
<1>2. LinksInv /\ LinkTrace
  BY <1>1, ThrownTellsNothing
<1>3. \A i \in DOMAIN chain : /\ chain[i].representative \in Nodes \X (0 .. 1)
                               /\ chain[i].representative[1] # Cleanup
  <2> TAKE i \in DOMAIN chain
  <2>1. chain[i].node \in Chained
    BY <1>1, <1>2 DEF LinkTrace, Traced
  <2>2. chain[i].representative \in {chain[i].node, CopyOf(chain[i].node)}
    BY <1>2 DEF LinksInv
  <2> QED BY <2>1, <2>2 DEF CopyOf, Chained
<1>4. \A i, j \in DOMAIN chain :
         chain[i].representative[1] = chain[j].representative[1] => i = j
  BY <1>2, RepresentativesDiffer
<1> QED BY <1>1, <1>3, <1>4 DEF Uniform, Representatives

LEMMA ReleasedTraced ==
  ASSUME ChainInv, TraceInv, Released
  PROVE  TraceInv'
<1>1. phase = "thrown" /\ declared # {} /\ ScrubAgain(heap, outgoing)
  BY DEF Released
<1>2. secretValues # {} /\ Uniform(Representatives)
  BY <1>1, AgainTraced
<1>3. /\ heap \in [Objects -> Shape] /\ outgoing \in Causes
      /\ Within(outgoing, Representatives, {})
      /\ \A o \in Representatives : /\ Within(heap[o].cause, Representatives, {})
                                    /\ Echoed(heap, o) = {}
  BY <1>1, <1>2, ThrownTellsNothing
<1>4. \A v : Within(v, Representatives, {}) => Within(v, Representatives, declared)
  BY DEF Within
<1> HIDE DEF Representatives
<1> QED BY <1>1, <1>2, <1>3, <1>4, SecondScrubTraced

LEMMA CleanupFailedTraced ==
  ASSUME ChainInv, TraceInv, CleanupFailed
  PROVE  TraceInv'
<1> DEFINE c == <<Cleanup, 0>>
           accepts == heap[c].cause = Absent /\ heap[c].resists.slot # "cause"
           memory == IF accepts THEN [heap EXCEPT ![c].cause = outgoing] ELSE heap
<1>1. phase = "thrown" /\ declared # {} /\ ScrubAgain(memory, Link(c))
  BY DEF CleanupFailed
<1>2. /\ secretValues # {} /\ declared = Code /\ CleanupTrace /\ ~given.last
      /\ ~IsError(heap[c].cause)
      /\ Uniform(Representatives) /\ \A o \in Representatives : o[1] # Cleanup
  BY <1>1, AgainTraced
<1>3. /\ heap \in [Objects -> Shape] /\ outgoing \in Causes
      /\ Within(outgoing, Representatives, {})
      /\ \A o \in Representatives : /\ Within(heap[o].cause, Representatives, {})
                                    /\ Echoed(heap, o) = {}
  BY <1>1, <1>2, ThrownTellsNothing
<1>4. /\ c \in Objects /\ c \in Nodes \X (0 .. 1) /\ c[1] = Cleanup
      /\ Link(c) \in Causes /\ IsError(Link(c)) /\ Link(c).object = c /\ Link(c).is # "tail"
  BY RejectionsAssumption, CauseKinds DEF Objects, IsError
<1>5. Echoed(heap, c) \subseteq declared /\ Told(heap, heap[c].cause) \subseteq declared
  BY <1>2 DEF CleanupTrace
<1> HIDE DEF c
<1>6. /\ memory \in [Objects -> Shape]
      /\ \A o \in Objects : o # c => memory[o] = heap[o]
      /\ memory[c].cause \in {heap[c].cause, outgoing}
      /\ memory[c].resists = heap[c].resists /\ memory[c].text = heap[c].text
  <2>1. CASE ~accepts
    BY <1>3, <2>1
  <2>2. CASE accepts
    <3>1. memory = [heap EXCEPT ![c] = [heap[c] EXCEPT !.cause = outgoing]]
      BY <2>2
    <3>2. /\ [heap[c] EXCEPT !.cause = outgoing] \in Shape
          /\ [heap[c] EXCEPT !.cause = outgoing].cause = outgoing
          /\ [heap[c] EXCEPT !.cause = outgoing].resists = heap[c].resists
          /\ [heap[c] EXCEPT !.cause = outgoing].text = heap[c].text
      BY <1>3, <1>4 DEF Shape
    <3> QED BY <1>3, <1>4, <3>1, <3>2
  <2> QED BY <2>1, <2>2
<1> HIDE DEF memory, Representatives
<1> PICK all : all = Representatives \cup {c}
  OBVIOUS
<1>7. Uniform(all)
  BY <1>2, <1>4 DEF Uniform
<1>8. \A v : Within(v, Representatives, {}) => Within(v, all, declared)
  BY DEF Within, Leads
<1>9. Within(memory[c].cause, all, declared) /\ Echoed(memory, c) \subseteq declared
  <2>1. Within(heap[c].cause, all, declared)
    BY <1>2, <1>5 DEF Within, Leads, Told
  <2>2. Echoed(memory, c) = Echoed(heap, c)
    BY <1>6 DEF Echoed, Readable
  <2> QED BY <1>3, <1>5, <1>6, <1>8, <2>1, <2>2
<1>10. \A o \in Representatives : /\ Within(memory[o].cause, all, declared)
                                  /\ Echoed(memory, o) \subseteq declared
  <2> TAKE o \in Representatives
  <2>1. o \in Objects /\ o # c
    BY <1>2, <1>4 DEF Uniform, Objects
  <2>2. memory[o] = heap[o]
    BY <1>6, <2>1
  <2>3. Echoed(memory, o) = {}
    BY <1>3, <2>2 DEF Echoed, Readable
  <2> QED BY <1>3, <1>8, <2>2, <2>3
<1>11. Within(Link(c), all, declared)
  BY <1>4 DEF Within, Leads
<1>12. \A o \in all : Within(memory[o].cause, all, declared) /\ Echoed(memory, o) \subseteq declared
  BY <1>9, <1>10
<1> QED BY <1>1, <1>4, <1>6, <1>7, <1>11, <1>12, SecondScrubTraced

LEMMA TraceStarts ==
  ASSUME ChainInit \/ ChainIdle
  PROVE  TraceInv
<1> PICK blank : blank = RedactedCopy(Holding({}))
  OBVIOUS
<1> PICK c : c = <<Cleanup, 0>>
  OBVIOUS
<1>1. ChainInv
  BY ChainStarts
<1>2. PICK rejection :
         /\ heap = [o \in Objects |-> IF o[2] = 0 THEN rejection.objects[o[1]] ELSE blank]
         /\ given = [heap |-> heap, head |-> rejection.head, last |-> FALSE]
         /\ current = rejection.head /\ seen = {}
         /\ \/ rejection \in Rejections /\ phase = "collect" /\ declared \in {{}, Code}
            \/ /\ rejection = [objects |-> [n \in Nodes |-> blank], head |-> Undefined]
               /\ phase = "idle" /\ declared = {}
  BY DEF ChainInit, ChainIdle, ChainStart
<1>3. c \in Objects /\ c[1] = Cleanup /\ c[2] = 0 /\ Cleanup \in Nodes
  BY RejectionsAssumption DEF Objects
<1>4. heap[c] = rejection.objects[Cleanup]
  BY <1>2, <1>3
<1>5. /\ \A field \in {"message", "stack"} : heap[c].text[field] \cap Echoes \subseteq Code
      /\ heap[c].cause.is = "tail" => Carried(heap[c].cause) \cap Echoes \subseteq Code
  <2>1. CASE rejection \in Rejections
    BY <1>4, <2>1, RejectionsAssumption DEF TextFields
  <2>2. CASE rejection = [objects |-> [n \in Nodes |-> blank], head |-> Undefined]
    <3>1. Holding({}) \in [TextFields -> SUBSET Secrets] /\ \A f \in TextFields : Holding({})[f] = {}
      BY DEF Holding
    <3>2. blank.cause = Absent /\ \A f \in TextFields : blank.text[f] = {}
      BY <3>1, CopyIs
    <3>3. heap[c] = blank
      BY <1>3, <1>4, <2>2
    <3> QED BY <3>2, <3>3, CauseKinds DEF TextFields
  <2> QED BY <1>2, <2>1, <2>2
<1>6. CleanupTrace
  <2>1. ~IsError(heap[c].cause)
    BY <1>1, <1>2 DEF ChainInv
  <2> QED BY <1>5, <2>1 DEF CleanupTrace, Told, Echoed, Readable, Carried
<1>7. phase = "collect" => CollectTrace
  BY <1>2 DEF CollectTrace, Pending
<1>8. given.heap \in [Objects -> Shape] /\ given.head \in Causes
  BY <1>1, <1>2 DEF ChainInv, ChainTypeOK
<1> QED BY <1>2, <1>6, <1>7, <1>8 DEF TraceInv

LEMMA TraceStutters ==
  ASSUME TraceInv, UNCHANGED chainVars
  PROVE  TraceInv'
<1>1. UNCHANGED <<heap, phase, current, seen, chain, wired, declared, secretValues, outgoing, given>>
  BY DEF chainVars
<1> USE <1>1
<1>2. /\ Before' = Before /\ Met' = Met /\ Registered' = Registered
      /\ \A o : Hostile(o)' <=> Hostile(o)
  BY DEF Before, Met, Registered, Hostile
<1>3. \A v : Pending(v)' <=> Pending(v)
  BY DEF Pending, IsError
<1>4. \A link, done : Traced(link, done)' <=> Traced(link, done)
  BY <1>2 DEF Traced, Echoed, Readable, Alike, IsError
<1>5. /\ CollectTrace' <=> CollectTrace
      /\ LinkTrace' <=> LinkTrace
      /\ WalkTrace' <=> WalkTrace
      /\ LeftTrace' <=> LeftTrace
      /\ Known' <=> Known
      /\ CleanupTrace' <=> CleanupTrace
  BY <1>2, <1>3, <1>4
  DEF CollectTrace, Pending, LinkTrace, WalkTrace, LeftTrace, Known, CleanupTrace, Uniform, Echoed,
      Readable, Told, Alike, IsError, NextOf
<1> QED BY <1>5 DEF TraceInv

LEMMA TraceInvariant == Spec => []TraceInv
<1>1. Init => TraceInv
  BY TraceStarts DEF Init
<1>2. ChainInv /\ TraceInv /\ [Next]_vars => TraceInv'
  BY CollectLinkTraced, CollectEndTraced, InPlaceTraced, RegisterCopyTraced,
     RegisterUnreadableTraced, WireTraced, ReturnTraced, ReleasedTraced, CleanupFailedTraced,
     TraceStutters
  DEF Next, Scrub, Withhold, vars, ChainNext
<1> QED BY <1>1, <1>2, ChainInvariant, PTL DEF Spec

\* Whatever the objects of a chain resist, and however long it is, shares links or loops: of the
\* body, the messages, the stacks and what describeError reads of the value at the end tell nothing
\* when the chain leaves, raw or scrubbed.  The walk of gatherRedactionValues has read these texts
\* of all that can be reached before anything is thrown, and no later step adds to them.
THEOREM NoEchoLeavesHolds == Spec => []NoEchoLeaves
<1>1. ASSUME ChainInv, TraceInv, phase \in {"thrown", "done"}, NEW v \in Reachable(heap, outgoing)
      PROVE  /\ IsError(v) => Visible(v.object) \cap Echoes = {}
             /\ v.is = "tail" => v.told \cap Echoes = {}
  <2>1. \A o : Visible(o) \cap Echoes \subseteq Echoed(heap, o)
    BY DEF Visible, Unreadable, Echoed, Readable
  <2>2. CASE secretValues = {}
    <3>1. Told(heap, v) = {}
      BY <1>1, <2>2 DEF TraceInv, Known, LeftTrace, Before
    <3> QED BY <2>1, <3>1 DEF Told, IsError
  <2>3. CASE secretValues # {}
    <3>1. /\ heap \in [Objects -> Shape] /\ outgoing \in Causes
          /\ Within(outgoing, Representatives, {})
          /\ \A o \in Representatives : /\ Within(heap[o].cause, Representatives, {})
                                        /\ Echoed(heap, o) = {}
      BY <1>1, <2>3, ThrownTellsNothing
    <3>2. \A o \in Representatives : Within(NextOf(heap, o), Representatives, {})
      BY <3>1, CauseKinds DEF NextOf, Within, Leads
    <3>3. Within(v, Representatives, {})
      BY <1>1, <3>1, <3>2, ReachedWithin
    <3> QED BY <2>1, <3>1, <3>3 DEF Within, Leads
  <2> QED BY <2>2, <2>3
<1>2. ChainInv /\ TraceInv => NoEchoLeaves
  BY <1>1 DEF NoEchoLeaves, Left
<1> QED BY <1>2, ChainInvariant, TraceInvariant, PTL

\* Whatever resists, the scrubbed chain is the given one with every link replaced by what stands for
\* it: same head, same order, same tail, same loops.  Only a link that threw ends it early.
THEOREM ShapeKeptHolds == Spec => []ShapeKept
<1>1. ASSUME ChainInv, TraceInv, phase \in {"thrown", "done"}, secretValues # {}
      PROVE  LET now == {v \in Reachable(heap, outgoing) : IsError(v)}
                 before == {v \in Before : IsError(v)}
             IN  /\ Alike(outgoing, given.head)
                 /\ \A v, w \in now : Alike(v, w) => v = w
                 /\ \A v \in now : \E w \in before :
                       /\ Alike(v, w)
                       /\ \/ Alike(heap[v.object].cause, given.heap[w.object].cause)
                          \/ Hostile(w.object) /\ heap[v.object].cause = Absent
  <2>1. /\ heap \in [Objects -> Shape] /\ outgoing \in Causes /\ LinksInv /\ LinkTrace /\ LeftTrace
        /\ Within(outgoing, Representatives, {})
        /\ \A o \in Representatives : Within(heap[o].cause, Representatives, {})
    BY <1>1, ThrownTellsNothing DEF TraceInv
  <2>2. wired = Len(chain) /\ Alike(outgoing, given.head)
    BY <1>1, <2>1 DEF LeftTrace
  <2>3. \A i \in DOMAIN chain : i <= wired
    BY <2>2, LenProperties DEF ChainInv
  <2>4. \A o \in Representatives : Within(NextOf(heap, o), Representatives, {})
    BY <2>1, CauseKinds DEF NextOf, Within, Leads
  <2>5. ASSUME NEW v \in Reachable(heap, outgoing), IsError(v)
        PROVE  \E i \in DOMAIN chain : v = Link(chain[i].representative)
    <3>1. v \in Causes /\ v.object \in Representatives
      <4> HIDE DEF Representatives
      <4>1. v \in Causes /\ Within(v, Representatives, {})
        BY <2>1, <2>4, ReachedWithin
      <4> QED BY <2>5, <4>1 DEF Within, Leads
    <3> QED BY <2>5, <3>1, CauseKinds DEF Representatives
  <2>6. \A i \in DOMAIN chain : /\ Link(chain[i].representative).object = chain[i].representative
                                /\ Link(chain[i].representative).is = "error"
    BY DEF Link
  <2>7. ASSUME NEW v \in Reachable(heap, outgoing), IsError(v),
               NEW w \in Reachable(heap, outgoing), IsError(w), Alike(v, w)
        PROVE  v = w
    <3>1. PICK i \in DOMAIN chain : v = Link(chain[i].representative)
      BY <2>5, <2>7
    <3>2. PICK j \in DOMAIN chain : w = Link(chain[j].representative)
      BY <2>5, <2>7
    <3>3. chain[i].representative[1] = chain[j].representative[1]
      BY <2>6, <2>7, <3>1, <3>2 DEF Alike
    <3> QED BY <2>1, <3>1, <3>2, <3>3, RepresentativesDiffer
  <2>8. ASSUME NEW v \in Reachable(heap, outgoing), IsError(v)
        PROVE  \E w \in {w \in Before : IsError(w)} :
                  /\ Alike(v, w)
                  /\ \/ Alike(heap[v.object].cause, given.heap[w.object].cause)
                     \/ Hostile(w.object) /\ heap[v.object].cause = Absent
    <3>1. PICK i \in DOMAIN chain : v = Link(chain[i].representative)
      BY <2>5, <2>8
    <3>2. Traced(chain[i], TRUE) /\ chain[i].representative[1] = chain[i].node[1]
      BY <2>1, <2>3, RepresentativesDiffer DEF LinkTrace, Traced
    <3>3. PICK w : w = Link(chain[i].node)
      OBVIOUS
    <3>4. w \in Before /\ IsError(w) /\ w.object = chain[i].node /\ v.object = chain[i].representative
      BY <3>1, <3>2, <3>3, CauseKinds DEF Traced, Met, Link, IsError
    <3>5. Alike(v, w)
      BY <2>8, <3>2, <3>4 DEF Alike, IsError
    <3>6. \/ Alike(heap[v.object].cause, given.heap[w.object].cause)
          \/ Hostile(w.object) /\ heap[v.object].cause = Absent
      BY <3>2, <3>4 DEF Traced
    <3> QED BY <3>4, <3>5, <3>6
  <2> QED BY <2>2, <2>7, <2>8
<1>2. ChainInv /\ TraceInv => ShapeKept
  BY <1>1 DEF ShapeKept, Left, Before, Alike, Hostile, MayThrow
<1> QED BY <1>2, ChainInvariant, TraceInvariant, PTL

-----------------------------------------------------------------------------

\* The three ways keep to their types, the heap of errors included: every text, excerpt, link and
\* code that a step of redact.ts or delivery-status.ts produces is one.
THEOREM TypeCorrect == Spec => []TypeOK
<1>1. TextInv /\ ChainInv /\ WithheldInv => TypeOK
  BY DEF TypeOK, TextInv, ChainInv, WithheldInv
<1> QED BY <1>1, TextInvariant, ChainInvariant, WithheldInvariant, PTL

=============================================================================
