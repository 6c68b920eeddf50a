------------------------------ MODULE MCStartup ------------------------------
(* The options of a run. *)
EXTENDS Startup

Ways == {"instance", "class", "diClass"}

\* Every way to give the parts that validation lets pass.
Accepted ==
  {o \in [email : {"off"} \union Ways, renderer : {"missing", "class"},
          otp : {"off", "instance", "diClass"}, audit : {"off", "diClass"},
          codeSecret : {"none", "strong"}, malformed : {"nothing"}] :
     /\ o.email = "off" => o.renderer = "missing"
     /\ o.otp = "off" => o.codeSecret = "none"}

\* What validation refuses, beside what it lets pass in a section that is off.
Doubtful ==
  [email : {"off", "missing", "instance"}, renderer : {"missing"},
   otp : {"off", "missing", "instance"}, audit : {"off", "missing"},
   codeSecret : {"none", "weak"}, malformed : {"nothing", "smsOrPush", "email", "otp"}]

MCOptions == Accepted \union Doubtful

=============================================================================
