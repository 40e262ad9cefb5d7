------------------------------ MODULE ModelGateway ------------------------------
(***************************************************************************)
(* The model gateway (services/model-gateway): a prompt is routed,         *)
(* redacted if the route or the caller asks for it, and offered to the     *)
(* hosted providers one after the other until one answers.  Calls share    *)
(* nothing but the settings the process started with.                      *)
(*                                                                         *)
(* A text is the set of the places personal data came into it from.        *)
(***************************************************************************)
EXTENDS Naturals

CONSTANTS
  Completion,    \* calls of POST /v1/complete
  Prompts,       \* what they may ask, a set of records
  Deployments    \* the settings the gateway may be started with

Hosted == {"anthropic", "openai", "gemini"}

\* A requested model by the first family decide_route recognises in its name;
\* `none' stands for a name it does not recognise, too.
Families == {"none", "openai", "gemini", "claude", "open"}

\* `structural' stands for classification and embedding, `reasoning' for
\* summarisation and report.
Tasks == {"structural", "reasoning"}

\* The prompt, a string among the variables, a value among them that is no
\* string, and what only the substituted variables spell out.
Pieces == {"prompt", "variable", "number", "joined"}
Recognised == {"prompt", "variable"}

Settings == [production : BOOLEAN, api_key : BOOLEAN, redaction : BOOLEAN, keys : SUBSET Hosted]
CompleteRequest ==
  [task : Tasks, model : Families, pii_redact : BOOLEAN, key_ok : BOOLEAN, holds : SUBSET Pieces]

\* validate_production_security; `production' stands for preprod, too.
ASSUME DeploymentsAssumption ==
  /\ Prompts \subseteq CompleteRequest /\ Prompts # {}
  /\ Deployments \subseteq {s \in Settings : s.production => s.redaction}

VARIABLES
  settings,      \* the gateway's
  completions    \* each call at the gateway and at its client, with its history

gatewayVars == <<settings, completions>>

GatewayPCs == {"idle", "dispatch", "awaiting", "answered", "unauthorized", "gone"}

\* History: `shown' are the providers the text was sent to.
CompletionRecord ==
  [ pc : GatewayPCs, req : CompleteRequest, text : SUBSET Pieces, pii_redacted : BOOLEAN,
    shown : SUBSET Hosted, by : Hosted \union {"nobody", "stub"},
    client : {"waiting", "response", "failed"} ]

NewCompletion ==
  [ pc |-> "idle", req |-> CHOOSE q \in Prompts : TRUE, text |-> {}, pii_redacted |-> FALSE,
    shown |-> {}, by |-> "nobody", client |-> "waiting" ]

GatewayInit ==
  /\ settings \in Deployments
  /\ completions = [c \in Completion |-> NewCompletion]

-----------------------------------------------------------------------------
(* decide_route *)

Claude == IF "anthropic" \in settings.keys THEN "anthropic" ELSE "bedrock"

Provider(q) ==
  CASE q.model \in {"openai", "gemini"} -> q.model
    [] q.model = "claude" -> Claude
    [] q.model = "open" -> "self_hosted"
    [] q.model = "none" -> IF q.task = "structural" THEN "self_hosted" ELSE Claude

\* The place of a provider in the fallback chain of the decision.
FallbackChain(q) ==
  CASE q.model = "openai" -> [openai |-> 1, gemini |-> 2, anthropic |-> 3]
    [] q.model = "gemini" -> [gemini |-> 1, anthropic |-> 2, openai |-> 3]
    [] OTHER -> [anthropic |-> 1, openai |-> 2, gemini |-> 3]

-----------------------------------------------------------------------------
(* complete *)


Redacts(q) == settings.redaction /\ (q.pii_redact \/ Provider(q) # "self_hosted")

Composed(q) == IF Redacts(q) THEN q.holds \ Recognised ELSE q.holds

\* Auth, redaction and composition, up to the first await.
Complete(c) ==
  /\ completions[c].pc = "idle"
  /\ \E q \in Prompts : completions' = [completions EXCEPT ![c] =
       IF settings.api_key /\ ~ q.key_ok
         THEN [@ EXCEPT !.pc = "unauthorized", !.req = q, !.client = "failed"]
         ELSE [@ EXCEPT !.pc = "dispatch", !.req = q,
                        !.text = Composed(q), !.pii_redacted = Redacts(q)]]
  /\ UNCHANGED settings

-----------------------------------------------------------------------------
(* _dispatch *)

\* The providers of the chain whose key is set, before p or not yet shown the text.
Ahead(c, p) ==
  LET place == FallbackChain(completions[c].req)
  IN {r \in settings.keys : place[r] < place[p]}
Untried(c) == settings.keys \ completions[c].shown

AnyUntried(c, p) == p \in Untried(c)                    \* mutant: in no order
IsNext(c, p) == p \in Untried(c) /\ Ahead(c, p) \subseteq completions[c].shown

AskProvider(c) ==
  /\ completions[c].pc = "dispatch"
  /\ \E p \in Hosted : IsNext(c, p) /\ completions' =
       [completions EXCEPT ![c] = [@ EXCEPT !.pc = "awaiting", !.by = p,
                                             !.shown = completions[c].shown \union {p}]]
  /\ UNCHANGED settings

\* Any exception of litellm moves on to the next provider.
Failover(c) ==
  /\ completions[c].pc = "awaiting"
  /\ completions' = [completions EXCEPT ![c] = [@ EXCEPT !.pc = "dispatch", !.by = "nobody"]]
  /\ UNCHANGED settings

\* The reply reaches the client unless it gave up.
Finish(c, by) ==
  completions' = [completions EXCEPT ![c] = [@ EXCEPT !.pc = "answered", !.by = by,
    !.client = IF completions[c].client = "waiting" THEN "response" ELSE completions[c].client]]

ProviderAnswers(c) ==
  /\ completions[c].pc = "awaiting"
  /\ Finish(c, completions[c].by)
  /\ UNCHANGED settings

Exhausted(c) == Untried(c) = {}

StubAnswers(c) ==
  /\ completions[c].pc = "dispatch"
  /\ Exhausted(c)
  /\ Finish(c, "stub")
  /\ UNCHANGED settings

InFlight(c) == completions[c].pc \in {"dispatch", "awaiting"}

\* The client's timeout; the gateway goes on with the call.
GiveUp(c) ==
  /\ InFlight(c)
  /\ completions[c].client = "waiting"
  /\ completions' = [completions EXCEPT ![c].client = "failed"]
  /\ UNCHANGED settings

\* The process ends, and with it the calls in flight.
RestartGateway ==
  /\ \E c \in Completion : InFlight(c)
  /\ completions' = [c \in Completion |->
       IF ~ InFlight(c) THEN completions[c]
       ELSE [completions[c] EXCEPT !.pc = "gone", !.client = "failed"]]
  /\ UNCHANGED settings

GatewayNext ==
  \/ \E c \in Completion :
       \/ Complete(c) \/ AskProvider(c) \/ Failover(c) \/ ProviderAnswers(c)
       \/ StubAnswers(c) \/ GiveUp(c)
  \/ RestartGateway

GatewaySpec == GatewayInit /\ [][GatewayNext]_gatewayVars

-----------------------------------------------------------------------------
(* Properties *)

Raw(c) == completions[c].text \intersect Recognised # {}



\* "Hosted routes are always redacted even if a caller asks for
\* pii_redact=false; raw personal data must never cross the gateway boundary."
\* (app.py:145-147): while redaction is on, no provider is shown a recognised
\* value as it was given.
RawNeverHosted == \A c \in Completion :
  settings.redaction /\ completions[c].shown # {} => ~ Raw(c)

\* A text goes to no provider it need not go to: to those of the chain in
\* their order, to none after the one that answered, to none with a key unset;
\* and the stub answers only when all of them were asked (app.py, _dispatch).
NoNeedlessEgress == \A c \in Completion :
  LET shown == completions[c].shown
      by == completions[c].by
  IN /\ shown \subseteq settings.keys
     /\ \A p \in shown : Ahead(c, p) \subseteq shown
     /\ by \in Hosted => by \in shown /\ shown \ {by} \subseteq Ahead(c, by)
     /\ by = "stub" => shown = settings.keys

\* What is known of a call between its steps.
CompletionGood(c) ==
  /\ completions[c] \in CompletionRecord
  /\ completions[c].text = (IF completions[c].pc \in {"idle", "unauthorized"} THEN {}
                            ELSE Composed(completions[c].req))
  /\ completions[c].pii_redacted =>
       completions[c].pc \notin {"idle", "unauthorized"} /\ Redacts(completions[c].req)
  /\ completions[c].pc \in {"idle", "unauthorized"} => completions[c].shown = {}
  /\ completions[c].pc \in {"idle", "unauthorized", "dispatch"} => completions[c].by = "nobody"
  /\ completions[c].pc = "awaiting" => completions[c].by \in Hosted

\* The inductive invariant, types included.
GatewayInv ==
  /\ settings \in Deployments
  /\ DOMAIN completions = Completion
  /\ \A c \in Completion : CompletionGood(c)
  /\ NoNeedlessEgress
=============================================================================
