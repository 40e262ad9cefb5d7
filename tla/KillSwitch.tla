------------------------------- MODULE KillSwitch -------------------------------
(***************************************************************************)
(* The kill switch of one BFF process                                      *)
(* (services/bff/src/services/kill-switch.ts): a single record, whoever    *)
(* engages it and for whomever.                                            *)
(***************************************************************************)
CONSTANTS
  Tenant,
  NoTenant  \* no tenant id

ASSUME TenantAssumption == NoTenant \notin Tenant

Scopes == {"global", "tenant"}

\* `by' stands for who engaged it, when and why.
Off == [ engaged |-> FALSE, by |-> {}, scope |-> "global", tenant |-> NoTenant ]

IsActive(s, t) ==
  /\ s.engaged
  /\ s.scope = "global" \/ (t # NoTenant /\ s.tenant = t)

Engaged(who, scope, tenant) ==
  [ engaged |-> TRUE, by |-> {who}, scope |-> scope, tenant |-> tenant ]

ClearScope(s) == [s EXCEPT !.engaged = FALSE, !.by = {}, !.scope = "none"]   \* mutant: a third scope
Released(s) == [s EXCEPT !.engaged = FALSE, !.by = {}, !.tenant = NoTenant]

\* The tenants a process halts.
Halted(s) == {t \in Tenant : IsActive(s, t)}
=============================================================================
