-------------------------- MODULE SmtpEmailProvider --------------------------
(***************************************************************************)
(* src/src/server/providers/smtp-email.provider.ts: the lazy start of      *)
(* LazyPeer, behind checks of the envelope that refuse a message before    *)
(* any transport is made.  complete is what buildTransportConfig demands:  *)
(* a host, and both credentials when any were given.                       *)
(***************************************************************************)
EXTENDS LazyPeer

\* guardHeaderInjection or buildSender throws.
Refuse(s) ==
  /\ pc[s] = "idle"
  /\ pc' = [pc EXCEPT ![s] = "refused"]
  /\ UNCHANGED <<complete, cache, inits, init, uses>>

\* createTransport runs up to the import of nodemailer, or throws, inside the ??=.
GetTransport(s) == JoinInit(s) \/ StartInit(s) \/ StartIncomplete(s)

\* The rest of createTransport, when the import has settled.
CreateTransport(i) == InitDone(i) \/ InitFailed(i)

Dispatch(s) == Resume(s) \/ Answered(s)

Next ==
  \/ \E s \in Sends : Refuse(s) \/ GetTransport(s) \/ Dispatch(s)
  \/ \E i \in Inits : CreateTransport(i)
  \/ Configure

Spec == Init /\ [][Next]_vars

-----------------------------------------------------------------------------

Statuses == {"none", "pending", "ready", "failed", "refused"}
Places == {"idle", "refused", "awaiting", "initFailed", "sending", "sent", "sendFailed"}

TypeOK ==
  /\ complete \in BOOLEAN
  /\ cache \in {null} \union Inits
  /\ inits \in {null} \union Inits
  /\ init \in [Inits -> Statuses]
  /\ pc \in [Sends -> Places]
  /\ uses \in [Sends -> {null} \union Inits]

\* However the first sends overlap, and whatever inits failed before, every send that gets a
\* transport gets the same one, the one that is cached: no second transport is ever created
\* beside a good one (getTransport: "the dynamic import and creation run exactly once").
OneTransport ==
  /\ \A s \in Served : uses[s] = cache
  /\ \A i \in Inits : init[i] \in {"pending", "ready"} => i = cache

\* A send that starts after an import failed does not get that failure: it joins an init in
\* flight, or starts one (getTransport: "a failed init is dropped from the cache").
ImportRetried ==
  [][\A s \in Sends : pc[s] = "idle" /\ pc'[s] = "awaiting" => init[uses'[s]] # "failed"]_vars

\* The same of every init that failed: "null until the first send() and after a failed init"
\* (smtp-email.provider.ts:248-253).
InitRetried ==
  [][\A s \in Sends :
       pc[s] = "idle" /\ pc'[s] = "awaiting" => init[uses'[s]] \notin {"failed", "refused"}]_vars

=============================================================================
