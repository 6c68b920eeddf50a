------------------------------- MODULE Startup -------------------------------
(***************************************************************************)
(* An application that starts the module with an instance of               *)
(* SmtpEmailProvider, or with other parts, and sends once it is up: through *)
(* NotificationService, or by the provider itself, which is public.        *)
(***************************************************************************)
EXTENDS NotificationModule, SmtpEmailProvider

CONSTANT Direct  \* the sends that call the provider itself

ASSUME DirectAssumption == Direct \subseteq Sends

startupVars == <<wiringVars, vars>>

Up == phase = "up" /\ options.email = "instance"

\* getEmail and requireEmailOptions let a send pass.
Enabled(s) == s \in Direct \/ "email" \in EnabledChannels

\* The options of the provider can be filled in at any time.
FillIn ==
  /\ options.email = "instance" /\ Configure
  /\ usable' = usable \union {"email"}
  /\ UNCHANGED <<form, options, phase, graph, warnings>>

Sending ==
  /\ Up
  /\ \/ \E s \in Sends : Refuse(s) \/ (Enabled(s) /\ GetTransport(s)) \/ Dispatch(s)
     \/ \E i \in Inits : CreateTransport(i)
  /\ UNCHANGED wiringVars

StartupInit ==
  /\ WiringInit /\ Init
  /\ complete = ("email" \in usable)

StartupNext ==
  \/ WiringNext /\ UNCHANGED vars
  \/ FillIn \/ Sending

StartupSpec == StartupInit /\ [][StartupNext]_startupVars

=============================================================================
