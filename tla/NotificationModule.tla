-------------------------- MODULE NotificationModule --------------------------
(***************************************************************************)
(* How the module starts (src/src/server/bymax-notification.module.ts):    *)
(* forRoot validates the options at the call and registers the tokens of   *)
(* the configured channels; forRootAsync registers every token and         *)
(* validates what the application's factory returns, later.  The Nest      *)
(* container then makes each registered token, in any order in which the   *)
(* tokens it injects come first.                                           *)
(*                                                                         *)
(* The application does not change its options while the module starts.    *)
(***************************************************************************)
EXTENDS Naturals

CONSTANT OptionSets  \* what an application may pass

\* A provider, storage, renderer or repository as the application gives it: an instance, a class
\* whose constructor declares no parameter, one whose constructor does, or nothing.
Supplied == {"missing", "instance", "class", "diClass"}

\* What is out of range or not supported, if anything, is known by the section it is in.
ASSUME OptionsAssumption ==
  OptionSets \subseteq
    [email : {"off"} \union Supplied, renderer : Supplied, otp : {"off"} \union Supplied,
     audit : {"off"} \union Supplied, codeSecret : {"none", "weak", "strong"},
     malformed : {"nothing", "smsOrPush", "email", "otp"}]

VARIABLES
  form,      \* forRoot or forRootAsync
  options,
  usable,    \* the channels whose provider or storage says isConfigured()
  phase,     \* how far the start is, or how it ended
  graph,     \* what each token resolved to
  warnings   \* how often each line was logged

wiringVars == <<form, options, usable, phase, graph, warnings>>

Channels == {"email", "otp"}
Lines == {"plaintextCodes"} \union Channels
Parts == {"log", "emailProvider", "renderer", "otpStorage"}
Services == {"EmailService", "OtpService", "NotificationService"}
Tokens == {"options"} \union Parts \union Services

-----------------------------------------------------------------------------
(* The options *)

Configured == {ch \in Channels : options[ch] # "off"}

\* validateOptions, validateEmailOptions, validateCodeSecret and validateOtpOptions.
Valid ==
  /\ Configured # {}
  /\ options.malformed \notin {"smsOrPush"} \union Configured
  /\ options.email # "missing" /\ options.otp # "missing" /\ options.audit # "missing"
  /\ "otp" \in Configured => options.codeSecret # "weak"

\* warnPlaintextCodes: codes will be stored as they are.
PlaintextCodes == "otp" \in Configured /\ options.codeSecret = "none"

Warned == IF PlaintextCodes THEN [warnings EXCEPT !["plaintextCodes"] = @ + 1] ELSE warnings

-----------------------------------------------------------------------------
(* The tokens *)

\* What the application gave for a part.
Given(part) ==
  CASE part = "log" -> options.audit
    [] part = "emailProvider" -> options.email
    [] part = "otpStorage" -> options.otp
    [] part = "renderer" -> IF "email" \in Configured THEN options.renderer ELSE "missing"

Registered ==
  IF form = "forRootAsync" THEN Tokens
  ELSE {"options", "log", "NotificationService"}
       \union (IF "email" \in Configured
               THEN {"emailProvider", "renderer", "EmailService"} ELSE {})
       \union (IF "otp" \in Configured THEN {"otpStorage", "OtpService"} ELSE {})

Injects(token) ==
  CASE token = "EmailService" -> {"options", "log", "emailProvider", "renderer"}
    [] token = "OtpService" -> {"options", "log", "otpStorage", "EmailService"}
    [] token = "NotificationService" -> {"EmailService", "OtpService"}
    [] token \in Parts \union {"options"} -> {}

\* A part that was not given: the no-op repository, the default renderer, or null.
Fallback(part) == IF part \in {"log", "renderer"} THEN "default" ELSE "null"

\* A mutant of ServiceOf: the service is built around null.
MutServiceAnyway(part, service) == service

\* A channel service is undefined where the part it serves is null.
ServiceOf(part, service) == IF graph[part] = "null" THEN "undefined" ELSE service

\* What an OtpService is, by the EmailService it was given: it mails its codes unless told
\* otherwise, or leaves them to the application.
OtpKind == IF graph["EmailService"] = "service" THEN "mailing" ELSE "manual"

Resolution(token) ==
  CASE token = "options" -> "resolved"
    [] token \in Parts -> IF Given(token) \in {"off", "missing"}
                          THEN Fallback(token) ELSE Given(token)
    [] token = "EmailService" -> ServiceOf("emailProvider", "service")
    [] token = "OtpService" -> ServiceOf("otpStorage", OtpKind)
    [] token = "NotificationService" -> "service"

\* instantiate refuses a class whose constructor takes parameters; the container of forRoot
\* injects them if it can.
Constructible(token) == ~(form = "forRootAsync" /\ token \in Parts /\ Given(token) = "diClass")

\* A constructor of the application may throw, or lack what it injects.
MayThrow(token) == token \in Parts /\ Given(token) \in {"class", "diClass"}

-----------------------------------------------------------------------------
(* The start *)

ForRoot ==
  /\ form = "forRoot" /\ phase = "called"
  /\ IF Valid
     THEN /\ phase' = "building"
          /\ graph' = [graph EXCEPT !["options"] = Resolution("options")]
          /\ warnings' = Warned
     ELSE phase' = "refused" /\ UNCHANGED <<graph, warnings>>
  /\ UNCHANGED <<form, options, usable>>

\* assertUseFactory finds a factory, or useClass, useExisting or nothing.
ForRootAsync ==
  /\ form = "forRootAsync" /\ phase = "called"
  /\ phase' \in {"awaiting", "refused"}
  /\ UNCHANGED <<form, options, usable, graph, warnings>>

\* A mutant of RawOptions: nothing is validated before the tokens are made.
MutRawUnvalidated == "building"

\* What the internal token that every other one derives from settles to.
RawOptions == IF Valid THEN "building" ELSE "refused"

\* The application's factory resolves or rejects.
FactorySettled ==
  /\ phase = "awaiting"
  /\ phase' \in {RawOptions, "failed"}
  /\ UNCHANGED <<form, options, usable, graph, warnings>>

Makeable(token) ==
  /\ phase = "building"
  /\ token \in Registered /\ graph[token] = "unmade"
  /\ \A needed \in Injects(token) \intersect Registered : graph[needed] # "unmade"

Make(token) ==
  /\ Makeable(token) /\ Constructible(token)
  /\ graph' = [graph EXCEPT ![token] = Resolution(token)]
  /\ warnings' = IF token = "options" THEN Warned ELSE warnings
  /\ UNCHANGED <<form, options, usable, phase>>

Throw(token) ==
  /\ Makeable(token) /\ (~Constructible(token) \/ MayThrow(token))
  /\ phase' = "failed"
  /\ UNCHANGED <<form, options, usable, graph, warnings>>

\* The channels NotificationService was given a service for.
Present ==
  (IF graph["EmailService"] = "service" THEN {"email"} ELSE {})
  \union (IF graph["OtpService"] \in {"mailing", "manual"} THEN {"otp"} ELSE {})

EnabledChannels == Present \intersect usable

\* onModuleInit, when every registered token is made.
ModuleInit ==
  /\ phase = "building"
  /\ \A token \in Registered : graph[token] # "unmade"
  /\ phase' = "up"
  /\ warnings' = [line \in Lines |-> IF line \in Present \ usable
                                     THEN warnings[line] + 1 ELSE warnings[line]]
  /\ UNCHANGED <<form, options, usable, graph>>

WiringInit ==
  /\ form \in {"forRoot", "forRootAsync"}
  /\ options \in OptionSets
  /\ usable \in SUBSET Channels
  /\ phase = "called"
  /\ graph = [token \in Tokens |-> "unmade"]
  /\ warnings = [line \in Lines |-> 0]

WiringNext ==
  \/ ForRoot \/ ForRootAsync \/ FactorySettled
  \/ \E token \in Tokens : Make(token) \/ Throw(token)
  \/ ModuleInit

-----------------------------------------------------------------------------
(* Properties *)

\* Nothing of the application is constructed, and no token resolved, from options that validation
\* refuses, however late the factory returned them; they never start ("a misconfiguration surfaces
\* at module construction rather than at first use", validate-options.ts:5-7).
NothingBuiltUnvalidated ==
  ~Valid => phase # "up" /\ \A token \in Tokens : graph[token] = "unmade"

\* Either form wires the same services: those of the configured channels, around the very parts
\* given, an OtpService that mails exactly where there is an EmailService, and one warning for each
\* thing to warn of ("wires the same graph as forRoot", bymax-notification.module.ts:131).
FormsAgree ==
  phase = "up" =>
    /\ Present = Configured
    /\ \A part \in Parts :
         Given(part) \in Supplied \ {"missing"} => graph[part] = Given(part)
    /\ "otp" \in Configured => (graph["OtpService"] = "mailing" <=> "email" \in Configured)
    /\ EnabledChannels = Configured \intersect usable
    /\ warnings["plaintextCodes"] = (IF PlaintextCodes THEN 1 ELSE 0)
    /\ \A ch \in Channels :
         warnings[ch] <= 1 /\ (ch \in Configured \ EnabledChannels => warnings[ch] = 1)

=============================================================================
