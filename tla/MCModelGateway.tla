---------------------------- MODULE MCModelGateway ----------------------------
(* A small instance of ModelGateway. *)
EXTENDS ModelGateway

\* Production, and a developer's machine with redaction off; each set of keys.
ProductionAndDevelopment ==
  [production : {TRUE}, api_key : {TRUE}, redaction : {TRUE}, keys : SUBSET Hosted]
  \union [production : {FALSE}, api_key : {FALSE}, redaction : {FALSE}, keys : {Hosted}]

\* With the right key, what may be asked; with a wrong one, one prompt.
AllPrompts ==
  [task : Tasks, model : Families, pii_redact : BOOLEAN, key_ok : {TRUE}, holds : SUBSET Pieces]
  \union [task : {"reasoning"}, model : {"none"}, pii_redact : {TRUE}, key_ok : {FALSE},
          holds : {{"prompt"}}]
=============================================================================
