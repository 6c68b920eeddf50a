---------------------------- MODULE StartupProofs ----------------------------
(***************************************************************************)
(* Proofs about SmtpEmailProvider, about NotificationModule, and about     *)
(* both as Startup composes them: the sends of an application that starts  *)
(* the module are those of the provider alone.                             *)
(***************************************************************************)
EXTENDS Startup, TLAPS

(***************************************************************************)
(* The transport alone, SmtpEmailProvider over LazyPeer: the inductive     *)
(* invariant says which inits can be alive and who may wait for them.      *)
(***************************************************************************)

\* The variables stay in their types.
THEOREM SmtpTypeCorrect == Spec => []TypeOK
<1>1. Init => TypeOK
  BY LazyAssumption DEF Init, TypeOK, Inits, null, Statuses, Places
<1>2. TypeOK /\ [Next]_vars => TypeOK'
  <2> SUFFICES ASSUME TypeOK, [Next]_vars PROVE TypeOK'
    OBVIOUS
  <2> USE LazyAssumption DEF TypeOK, Inits, null, Statuses, Places
  <2>1. ASSUME NEW s \in Sends, Refuse(s) PROVE TypeOK'
    BY <2>1 DEF Refuse
  <2>2. ASSUME NEW s \in Sends, JoinInit(s) PROVE TypeOK'
    BY <2>2 DEF JoinInit
  <2>3. ASSUME NEW s \in Sends, NEW st \in {"pending", "refused"}, NewInit(s, st) PROVE TypeOK'
    BY <2>3 DEF NewInit, Cached
  <2>4. ASSUME NEW s \in Sends, Resume(s) PROVE TypeOK'
    BY <2>4 DEF Resume
  <2>5. ASSUME NEW s \in Sends, Answered(s) PROVE TypeOK'
    BY <2>5 DEF Answered
  <2>6. ASSUME NEW i \in Inits, InitDone(i) PROVE TypeOK'
    BY <2>6 DEF InitDone
  <2>7. ASSUME NEW i \in Inits, InitFailed(i) PROVE TypeOK'
    BY <2>7 DEF InitFailed, Dropped
  <2>8. CASE Configure
    BY <2>8 DEF Configure
  <2>9. CASE UNCHANGED vars
    BY <2>9 DEF vars
  <2> QED
    BY <2>1, <2>2, <2>3, <2>4, <2>5, <2>6, <2>7, <2>8, <2>9
    DEF Next, GetTransport, CreateTransport, Dispatch, StartInit, StartIncomplete
<1> QED
  BY <1>1, <1>2, PTL DEF Spec

\* An init that is pending or ready is the cached one, and only inits that were started have a
\* state; a send that was given a transport waited for an init that is ready.
CacheInv ==
  /\ \A i \in Inits : init[i] \in {"pending", "ready"} => i = cache
  /\ \A i \in Inits : init[i] # "none" => i <= inits
  /\ \A s \in Served : uses[s] \in Inits /\ init[uses[s]] = "ready"
  /\ \A s \in Sends : pc[s] = "awaiting" => uses[s] \in Inits

\* No step starts an init beside one that is alive: ??= starts one only when the cache is empty.
LEMMA CacheInvInductive == TypeOK /\ CacheInv /\ [Next]_vars => CacheInv'
<1> SUFFICES ASSUME TypeOK, CacheInv, [Next]_vars PROVE CacheInv'
  OBVIOUS
<1> USE LazyAssumption DEF TypeOK, Inits, null, Statuses, Places, CacheInv, Served
<1>1. ASSUME NEW s \in Sends, Refuse(s) PROVE CacheInv'
  BY <1>1 DEF Refuse
<1>2. ASSUME NEW s \in Sends, JoinInit(s) PROVE CacheInv'
  BY <1>2 DEF JoinInit
<1>3. ASSUME NEW s \in Sends, NEW st \in {"pending", "refused"}, NewInit(s, st) PROVE CacheInv'
  BY <1>3 DEF NewInit, Cached
<1>4. ASSUME NEW s \in Sends, Resume(s) PROVE CacheInv'
  BY <1>4 DEF Resume
<1>5. ASSUME NEW s \in Sends, Answered(s) PROVE CacheInv'
  BY <1>5 DEF Answered
<1>6. ASSUME NEW i \in Inits, InitDone(i) PROVE CacheInv'
  BY <1>6 DEF InitDone
<1>7. ASSUME NEW i \in Inits, InitFailed(i) PROVE CacheInv'
  BY <1>7 DEF InitFailed, Dropped
<1>8. CASE Configure
  BY <1>8 DEF Configure
<1>9. CASE UNCHANGED vars
  BY <1>9 DEF vars
<1> QED
  BY <1>1, <1>2, <1>3, <1>4, <1>5, <1>6, <1>7, <1>8, <1>9
  DEF Next, GetTransport, CreateTransport, Dispatch, StartInit, StartIncomplete

\* Every send that gets a transport gets the same one, for any number of sends and inits.
THEOREM OneTransportHolds == Spec => []OneTransport
<1>1. Init => CacheInv
  BY DEF Init, CacheInv, Served
<1>2. TypeOK /\ CacheInv => OneTransport
  BY DEF TypeOK, CacheInv, OneTransport, Served
<1> QED
  BY <1>1, <1>2, SmtpTypeCorrect, CacheInvInductive, PTL DEF Spec

\* A send that starts after a failed import never gets that failure: only an init refused for its
\* configuration can still be cached once it has failed.
THEOREM ImportRetriedHolds == Spec => ImportRetried
<1> DEFINE Retriable == cache # null => init[cache] # "failed"
<1>1. Init => Retriable
  BY DEF Init
<1>2. TypeOK /\ CacheInv /\ Retriable /\ [Next]_vars => Retriable'
  <2> SUFFICES ASSUME TypeOK, CacheInv, Retriable, [Next]_vars PROVE Retriable'
    OBVIOUS
  <2> USE LazyAssumption DEF TypeOK, Inits, null, Statuses, Places, CacheInv
  <2>1. ASSUME NEW s \in Sends, NEW st \in {"pending", "refused"}, NewInit(s, st) PROVE Retriable'
    BY <2>1 DEF NewInit, Cached
  <2>2. ASSUME NEW i \in Inits, InitDone(i) PROVE Retriable'
    BY <2>2 DEF InitDone
  <2>3. ASSUME NEW i \in Inits, InitFailed(i) PROVE Retriable'
    BY <2>3 DEF InitFailed, Dropped
  <2>4. CASE UNCHANGED <<cache, init>>
    BY <2>4
  <2> QED
    BY <2>1, <2>2, <2>3, <2>4
    DEF Next, vars, GetTransport, CreateTransport, Dispatch, StartInit, StartIncomplete,
        Refuse, JoinInit, Resume, Answered, Configure
<1>3. TypeOK /\ CacheInv /\ Retriable /\ [Next]_vars =>
        [\A s \in Sends : pc[s] = "idle" /\ pc'[s] = "awaiting" => init[uses'[s]] # "failed"]_vars
  <2> SUFFICES ASSUME TypeOK, CacheInv, Retriable, Next,
                      NEW s \in Sends, pc[s] = "idle", pc'[s] = "awaiting"
               PROVE  init[uses'[s]] # "failed"
    OBVIOUS
  <2> USE LazyAssumption DEF TypeOK, Inits, null, Statuses, Places, CacheInv
  <2>1. PICK t \in Sends : JoinInit(t) \/ NewInit(t, "pending") \/ NewInit(t, "refused")
    BY DEF Next, GetTransport, CreateTransport, Dispatch, StartInit, StartIncomplete,
        Refuse, Resume, Answered, Configure, InitDone, InitFailed
  <2>2. s = t
    BY <2>1 DEF JoinInit, NewInit
  <2>3. CASE JoinInit(t)
    BY <2>2, <2>3 DEF JoinInit
  <2>4. ASSUME NEW st \in {"pending", "refused"}, NewInit(t, st) PROVE init[uses'[s]] # "failed"
    <3>1. uses'[s] = inits + 1 /\ inits + 1 \in Inits
      BY <2>2, <2>4 DEF NewInit
    <3> QED
      BY <3>1
  <2> QED
    BY <2>1, <2>3, <2>4
<1>4. Init => CacheInv
  BY DEF Init, CacheInv, Served
<1> HIDE DEF Retriable
<1> QED
  BY <1>1, <1>2, <1>3, <1>4, SmtpTypeCorrect, CacheInvInductive, PTL DEF Spec, ImportRetried

(***************************************************************************)
(* The wiring of the module, and the application that starts up and sends. *)
(* The inductive invariant says of each token that is made what it is, by  *)
(* the options alone, in whatever order the container made the others.     *)
(***************************************************************************)

Phases == {"called", "awaiting", "building", "up", "refused", "failed"}

Values ==
  {"unmade", "null", "undefined", "default", "resolved", "service", "mailing", "manual",
   "off"} \union Supplied

WiringType ==
  /\ form \in {"forRoot", "forRootAsync"}
  /\ options \in OptionSets
  /\ usable \in SUBSET Channels
  /\ phase \in Phases
  /\ graph \in [Tokens -> Values]
  /\ warnings \in [Lines -> Nat]

\* What a token is once it is made.
Final(token) ==
  CASE token = "options" -> "resolved"
    [] token \in Parts -> IF Given(token) \in {"off", "missing"}
                          THEN Fallback(token) ELSE Given(token)
    [] token = "EmailService" -> IF "email" \in Configured THEN "service" ELSE "undefined"
    [] token = "OtpService" -> IF "otp" \notin Configured THEN "undefined"
                               ELSE IF "email" \in Configured THEN "mailing" ELSE "manual"
    [] token = "NotificationService" -> "service"

Made(token) == graph[token] # "unmade"

WiringInv ==
  /\ WiringType
  /\ \A token \in Tokens : Made(token) => Valid /\ token \in Registered
  /\ \A token \in Tokens : Made(token) => graph[token] = Final(token)
  /\ phase \in {"building", "up"} => Valid
  /\ phase \in {"called", "awaiting"} => \A token \in Tokens : ~Made(token)
  /\ phase = "up" => \A token \in Registered : Made(token)
  /\ warnings["plaintextCodes"] = (IF Made("options") /\ PlaintextCodes THEN 1 ELSE 0)
  /\ phase # "up" => \A ch \in Channels : warnings[ch] = 0
  /\ phase = "up" => \A ch \in Channels :
                       warnings[ch] <= 1 /\ (ch \in Configured \ EnabledChannels => warnings[ch] = 1)

\* The final value of a token is never "unmade" and keeps to its type.
LEMMA FinalIsValue ==
  ASSUME WiringType, NEW token \in Tokens
  PROVE  Final(token) \in Values \ {"unmade"}
<1>1. /\ options.email \in {"off"} \union Supplied /\ options.renderer \in Supplied
      /\ options.otp \in {"off"} \union Supplied /\ options.audit \in {"off"} \union Supplied
  BY OptionsAssumption DEF WiringType
<1>2. CASE token \in Parts
  BY <1>1, <1>2 DEF Final, Given, Fallback, Parts, Values, Supplied, Tokens, Services
<1>3. CASE token \in {"options"} \union Services
  BY <1>3 DEF Final, Values, Supplied, Services, Parts
<1> QED
  BY <1>2, <1>3 DEF Tokens

\* The container makes each token what its options say, whatever it made before.
LEMMA ResolutionIsFinal ==
  ASSUME WiringInv, NEW token \in Tokens, Makeable(token)
  PROVE  Resolution(token) = Final(token)
<1>1. Valid /\ WiringType
  BY DEF WiringInv, Makeable
<1>2. /\ options.email \in {"off"} \union Supplied
      /\ options.otp \in {"off"} \union Supplied
  BY <1>1, OptionsAssumption DEF WiringType
<1>3. CASE token \in {"options", "NotificationService"}
  BY <1>3 DEF Resolution, Final, Parts, Services
<1>4. CASE token \in Parts
  BY <1>4 DEF Resolution, Final, Parts, Services
<1>5. CASE token = "EmailService"
  <2>1. "emailProvider" \in Registered /\ "emailProvider" \in Injects(token)
    BY <1>5 DEF Makeable, Registered, Injects, Tokens, Parts, Services
  <2>2. graph["emailProvider"] = Final("emailProvider")
    BY <2>1 DEF Makeable, WiringInv, Made, Tokens, Parts
  <2>3. graph["emailProvider"] = "null" <=> options.email = "off"
    BY <1>1, <1>2, <2>2 DEF Final, Parts, Given, Fallback, Valid, Supplied
  <2> QED
    BY <1>5, <2>3 DEF Resolution, ServiceOf, Final, Parts, Configured, Channels
<1>6. CASE token = "OtpService"
  <2>1. "otpStorage" \in Registered /\ "otpStorage" \in Injects(token)
    BY <1>6 DEF Makeable, Registered, Injects, Tokens, Parts, Services
  <2>2. graph["otpStorage"] = Final("otpStorage")
    BY <2>1 DEF Makeable, WiringInv, Made, Tokens, Parts
  <2>3. graph["otpStorage"] = "null" <=> options.otp = "off"
    BY <1>1, <1>2, <2>2 DEF Final, Parts, Given, Fallback, Valid, Supplied
  <2>4. "EmailService" \in Injects(token)
    BY <1>6 DEF Injects, Parts
  <2>5. graph["EmailService"] = "service" <=> "email" \in Configured
    <3>1. CASE "EmailService" \in Registered
      <4>1. Made("EmailService")
        BY <2>4, <3>1 DEF Makeable, Made
      <4>2. graph["EmailService"] = Final("EmailService")
        BY <4>1 DEF WiringInv, Tokens, Services
      <4> QED
        BY <4>2 DEF Final, Parts
    <3>2. CASE "EmailService" \notin Registered
      <4>1. "email" \notin Configured
        BY <3>2 DEF Registered, Tokens, Services
      <4>2. graph["EmailService"] = "unmade"
        BY <3>2 DEF WiringInv, Made, Tokens, Services
      <4> QED
        BY <4>1, <4>2
    <3> QED
      BY <3>1, <3>2
  <2> QED
    BY <1>6, <2>3, <2>5 DEF Resolution, ServiceOf, OtpKind, Final, Parts, Configured, Channels
<1> QED
  BY <1>3, <1>4, <1>5, <1>6 DEF Tokens, Parts, Services

\* The start keeps the invariant, step by step.
LEMMA WiringStep ==
  ASSUME WiringInv, WiringNext
  PROVE  WiringInv'
<1> USE DEF Phases
<1>1. WiringType /\ OptionSets \subseteq
        [email : {"off"} \union Supplied, renderer : Supplied, otp : {"off"} \union Supplied,
         audit : {"off"} \union Supplied, codeSecret : {"none", "weak", "strong"},
         malformed : {"nothing", "smsOrPush", "email", "otp"}]
  BY OptionsAssumption DEF WiringInv
<1>2. ASSUME UNCHANGED <<form, options>>
      PROVE  /\ \A token \in Tokens : Final(token)' = Final(token)
             /\ Registered' = Registered /\ Valid' = Valid /\ Configured' = Configured
             /\ PlaintextCodes' = PlaintextCodes
  BY <1>2 DEF Final, Given, Registered, Valid, Configured, PlaintextCodes
<1>3. CASE ForRoot
  <2>1. CASE Valid
    <3>1. /\ phase = "called" /\ phase' = "building" /\ UNCHANGED <<form, options, usable>>
          /\ graph' = [graph EXCEPT !["options"] = "resolved"] /\ warnings' = Warned
      BY <1>3, <2>1 DEF ForRoot, Resolution, Parts
    <3>2. \A token \in Tokens : graph[token] = "unmade"
      BY <3>1 DEF WiringInv, Made
    <3>3. \A token \in Tokens : graph'[token] = IF token = "options" THEN "resolved" ELSE "unmade"
      BY <3>1, <3>2, <1>1 DEF WiringType
    <3>4. WiringType'
      <4>1. graph' \in [Tokens -> Values]
        BY <1>1, <3>1 DEF WiringType, Values
      <4>2. warnings' \in [Lines -> Nat]
        BY <1>1, <3>1 DEF WiringType, Warned, Lines
      <4> QED
        BY <1>1, <3>1, <4>1, <4>2 DEF WiringType
    <3>5. Final("options") = "resolved" /\ "options" \in Registered /\ "options" \in Tokens
      BY DEF Final, Registered, Tokens, Parts
    <3>6. warnings' = IF PlaintextCodes THEN [warnings EXCEPT !["plaintextCodes"] = 1] ELSE warnings
      <4>1. warnings["plaintextCodes"] = 0
        BY <3>2 DEF WiringInv, Made, Tokens
      <4> QED
        BY <3>1, <4>1 DEF Warned
    <3> QED
      BY <1>1, <1>2, <2>1, <3>1, <3>2, <3>3, <3>4, <3>5, <3>6
      DEF WiringInv, Made, WiringType, Lines, Channels
  <2>2. CASE ~Valid
    BY <1>1, <1>2, <1>3, <2>2 DEF ForRoot, WiringInv, WiringType, Made
  <2> QED
    BY <2>1, <2>2
<1>4. CASE ForRootAsync
  BY <1>1, <1>2, <1>4 DEF ForRootAsync, WiringInv, WiringType, Made
<1>5. CASE FactorySettled
  BY <1>1, <1>2, <1>5 DEF FactorySettled, RawOptions, WiringInv, WiringType, Made
<1>6. ASSUME NEW token \in Tokens, Make(token) PROVE WiringInv'
  <2>1. /\ phase = "building" /\ UNCHANGED <<form, options, usable, phase>>
        /\ graph' = [graph EXCEPT ![token] = Final(token)]
        /\ token \in Registered /\ Valid /\ ~Made(token)
        /\ warnings' = IF token = "options" THEN Warned ELSE warnings
    BY <1>6, ResolutionIsFinal DEF Make, Makeable, WiringInv, Made
  <2>2. Final(token) \in Values \ {"unmade"}
    BY <1>1, FinalIsValue
  <2>3. WiringType'
    BY <1>1, <2>1, <2>2 DEF WiringType, Warned, Lines
  <2>4. \A other \in Tokens : graph'[other] = IF other = token THEN Final(token) ELSE graph[other]
    BY <1>1, <2>1 DEF WiringType
  <2>5. warnings'["plaintextCodes"] = (IF Made("options")' /\ PlaintextCodes THEN 1 ELSE 0)
    <3>1. warnings["plaintextCodes"] = (IF Made("options") /\ PlaintextCodes THEN 1 ELSE 0)
      BY DEF WiringInv
    <3>2. CASE token = "options"
      BY <1>1, <2>1, <2>2, <2>4, <3>1, <3>2 DEF Warned, Made, WiringType, Lines
    <3>3. CASE token # "options"
      BY <2>1, <2>4, <3>1, <3>3 DEF Made, Tokens
    <3> QED
      BY <3>2, <3>3
  <2>6. \A ch \in Channels : warnings'[ch] = 0
    BY <1>1, <2>1 DEF WiringInv, Warned, WiringType, Lines, Channels
  <2> QED
    BY <1>2, <2>1, <2>2, <2>3, <2>4, <2>5, <2>6 DEF WiringInv, Made
<1>7. ASSUME NEW token \in Tokens, Throw(token) PROVE WiringInv'
  BY <1>1, <1>2, <1>7 DEF Throw, Makeable, WiringInv, WiringType, Made
<1>8. CASE ModuleInit
  <2>1. /\ phase = "building" /\ phase' = "up" /\ UNCHANGED <<form, options, usable, graph>>
        /\ \A token \in Registered : Made(token)
        /\ warnings' = [line \in Lines |-> IF line \in Present \ usable
                                            THEN warnings[line] + 1 ELSE warnings[line]]
    BY <1>8 DEF ModuleInit, Made
  <2>2. Present \subseteq Channels
    BY DEF Present, Channels
  <2>3. Present = Configured
    <3>1. \A token \in Registered : graph[token] = Final(token)
      BY <2>1 DEF WiringInv, Registered, Tokens, Parts, Services
    <3>2. \A token \in Tokens \ Registered : graph[token] = "unmade"
      BY DEF WiringInv, Made
    <3>3. graph["EmailService"] = "service" <=> "email" \in Configured
      BY <3>1, <3>2 DEF Final, Parts, Registered, Tokens, Services
    <3>4. graph["OtpService"] \in {"mailing", "manual"} <=> "otp" \in Configured
      BY <3>1, <3>2 DEF Final, Parts, Registered, Tokens, Services
    <3> QED
      BY <3>3, <3>4 DEF Present, Configured, Channels
  <2>4. WiringType'
    BY <1>1, <2>1 DEF WiringType
  <2>5. \A ch \in Channels :
          warnings'[ch] <= 1 /\ (ch \in Configured \ EnabledChannels' => warnings'[ch] = 1)
    BY <1>1, <2>1, <2>3 DEF WiringInv, WiringType, EnabledChannels, Present, Lines, Channels
  <2>6. warnings'["plaintextCodes"] = warnings["plaintextCodes"]
    BY <2>1, <2>2 DEF Lines, Channels
  <2> QED
    BY <1>2, <2>1, <2>4, <2>5, <2>6 DEF WiringInv, Made
<1> QED
  BY <1>3, <1>4, <1>5, <1>6, <1>7, <1>8 DEF WiringNext

\* The channel becoming usable later disturbs nothing.
LEMMA FillInStep ==
  ASSUME WiringInv, FillIn
  PROVE  WiringInv'
<1>1. /\ UNCHANGED <<form, options, phase, graph, warnings>>
      /\ usable' = usable \union {"email"}
  BY DEF FillIn
<1>2. \A token \in Tokens : Final(token)' = Final(token)
  BY <1>1 DEF Final, Given, Configured
<1>3. EnabledChannels \subseteq EnabledChannels' /\ Configured' = Configured
  BY <1>1 DEF EnabledChannels, Present, Configured
<1> QED
  BY <1>1, <1>2, <1>3
  DEF WiringInv, WiringType, Made, Registered, Valid, PlaintextCodes, Channels, Configured

\* However the start goes, each token made is what the options say, and each warning is counted.
THEOREM WiringInvariant == StartupSpec => []WiringInv
<1>1. StartupInit => WiringInv
  <2> SUFFICES ASSUME WiringInit PROVE WiringInv
    BY DEF StartupInit
  <2>1. WiringType
    BY DEF WiringInit, WiringType, Phases, Values
  <2>2. \A token \in Tokens : ~Made(token)
    BY DEF WiringInit, Made
  <2> QED
    BY <2>1, <2>2 DEF WiringInit, WiringInv, Lines, Channels, Tokens
<1>2. WiringInv /\ [StartupNext]_startupVars => WiringInv'
  <2> SUFFICES ASSUME WiringInv, [StartupNext]_startupVars PROVE WiringInv'
    OBVIOUS
  <2>1. CASE WiringNext
    BY <2>1, WiringStep
  <2>2. CASE FillIn
    BY <2>2, FillInStep
  <2>3. CASE UNCHANGED wiringVars
    <3>1. UNCHANGED <<form, options, usable, phase, graph, warnings>>
      BY <2>3 DEF wiringVars
    <3>2. \A token \in Tokens : Final(token)' = Final(token)
      BY <3>1 DEF Final, Given, Configured
    <3>3. EnabledChannels' = EnabledChannels /\ Configured' = Configured
      BY <3>1 DEF EnabledChannels, Present, Configured
    <3> QED
      BY <3>1, <3>2, <3>3
      DEF WiringInv, WiringType, Made, Registered, Valid, PlaintextCodes, Configured
  <2> QED
    BY <2>1, <2>2, <2>3 DEF StartupNext, Sending, startupVars
<1> QED
  BY <1>1, <1>2, PTL DEF StartupSpec

\* No options that validation refuses ever get a token made or the module up, in either form.
THEOREM NothingBuiltUnvalidatedHolds == StartupSpec => []NothingBuiltUnvalidated
<1>1. WiringInv => NothingBuiltUnvalidated
  BY DEF WiringInv, NothingBuiltUnvalidated, Made
<1> QED
  BY <1>1, WiringInvariant, PTL

\* Both forms wire the services of the configured channels, whatever the options and the order.
THEOREM FormsAgreeHolds == StartupSpec => []FormsAgree
<1>1. WiringInv => FormsAgree
  <2> SUFFICES ASSUME WiringInv, phase = "up" PROVE FormsAgree
    BY DEF FormsAgree
  <2>1. \A token \in Registered : graph[token] = Final(token)
    BY DEF WiringInv, Made, Registered, Tokens, Parts, Services
  <2>2. \A token \in Tokens \ Registered : graph[token] = "unmade"
    BY DEF WiringInv, Made
  <2>3. graph["EmailService"] = "service" <=> "email" \in Configured
    BY <2>1, <2>2 DEF Final, Parts, Registered, Tokens, Services
  <2>4. \/ "otp" \notin Configured /\ graph["OtpService"] \in {"unmade", "undefined"}
        \/ "otp" \in Configured /\ "email" \in Configured /\ graph["OtpService"] = "mailing"
        \/ "otp" \in Configured /\ "email" \notin Configured /\ graph["OtpService"] = "manual"
    BY <2>1, <2>2 DEF Final, Parts, Registered, Tokens, Services
  <2>5. Present = Configured
    BY <2>3, <2>4 DEF Present, Configured, Channels
  <2>6. ASSUME NEW part \in Parts, Given(part) \in Supplied \ {"missing"}
        PROVE  graph[part] = Given(part)
    <3>1. part \in Registered
      BY <2>6 DEF Registered, Given, Tokens, Parts, Configured, Channels, Supplied
    <3> QED
      BY <2>1, <2>6, <3>1 DEF Final, Supplied, Parts
  <2>7. Made("options")
    BY DEF WiringInv, Registered, Tokens
  <2>8. warnings["plaintextCodes"] = (IF PlaintextCodes THEN 1 ELSE 0)
    BY <2>7 DEF WiringInv
  <2>9. EnabledChannels = Configured \intersect usable
    BY <2>5 DEF EnabledChannels
  <2> QED
    BY <2>4, <2>5, <2>6, <2>8, <2>9 DEF FormsAgree, WiringInv
<1> QED
  BY <1>1, WiringInvariant, PTL

\* A started application uses the provider as SmtpEmailProvider says.
THEOREM StartupImplementsSmtp == StartupSpec => Spec
<1>1. StartupInit => Init
  BY DEF StartupInit
<1>2. [StartupNext]_startupVars => [Next]_vars
  BY DEF StartupNext, startupVars, FillIn, Sending, Next
<1> QED
  BY <1>1, <1>2, PTL DEF StartupSpec, Spec

\* So however its sends overlap, directly and through the service, they share one transport.
THEOREM StartupOneTransport == StartupSpec => []OneTransport
BY StartupImplementsSmtp, OneTransportHolds, PTL

=============================================================================
