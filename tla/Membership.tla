------------------------------ MODULE Membership ------------------------------
(***************************************************************************)
(* How organizations come to be and who belongs to them: onboarding and    *)
(* the engagements of a tenant (services/bff/src/routes/v1.ts), and the    *)
(* membership that signing in or up makes sure of (apps/web, (auth)/login/ *)
(* actions.ts).  None of them is a transaction: each is a sequence of      *)
(* calls to the database, any of which can fail, or take effect and seem   *)
(* to, and any number of them interleave.  A request that its process      *)
(* abandons takes no further step.                                         *)
(*                                                                         *)
(* Tenants are numbered as they are created; nothing deletes one.          *)
(***************************************************************************)
EXTENDS Naturals

CONSTANTS
  Person, Founder,
  SeededTenants,   \* how many tenants seed.sql creates, at one time
  Visit            \* the requests people make

ASSUME MembershipAssumption == Founder \in Person /\ SeededTenants \in Nat

VARIABLES
  seeded,       \* how many tenants the seed created here
  tenants,      \* how many rows public.tenants has
  members,      \* public.tenant_users
  engagements,  \* public.engagements: each tenant and lead reviewer
  visits        \* each request, with its locals and history

membershipVars == <<seeded, tenants, members, engagements, visits>>

VisitKinds == {"none", "onboard", "login", "engage"}
VisitPCs == {"idle", "link", "initial", "lookup", "default", "join", "engage", "done"}

\* History: `linked' is whether the onboarding's tenant_users insert succeeded.
VisitRecord ==
  [pc : VisitPCs, kind : VisitKinds, who : Person, tenant : Nat, linked : BOOLEAN]

MembershipInit ==
  /\ seeded \in {0, SeededTenants}
  /\ tenants = seeded
  /\ members = {Founder} \X (1..seeded)
  /\ engagements = {}
  /\ visits = [v \in Visit |->
       [pc |-> "idle", kind |-> "none", who |-> Founder, tenant |-> 0, linked |-> FALSE]]

Stage(v) == visits[v].pc
Who(v) == visits[v].who
Where(v) == visits[v].tenant

Start(v, kind, pc) ==
  /\ Stage(v) = "idle"
  /\ \E p \in Person :
       visits' = [visits EXCEPT ![v] = [@ EXCEPT !.pc = pc, !.kind = kind, !.who = p]]
  /\ UNCHANGED <<seeded, tenants, members, engagements>>

Proceed(v, pc) == visits' = [visits EXCEPT ![v].pc = pc]

\* The rows a request inserts for its user and tenant; a second membership of
\* the pair violates unique (tenant_id, user_id) and changes nothing.
Join(v) == members' = members \union {<<Who(v), Where(v)>>}
Lead(v) == engagements' = engagements \union {<<Who(v), Where(v)>>}

-----------------------------------------------------------------------------
(* POST /v1/organizations/onboard *)

\* If the insert fails, or seems to, the request ends.
CreateTenant(v) ==
  /\ Stage(v) = "idle"
  /\ \E p \in Person, created, told \in BOOLEAN :
       /\ told => created
       /\ tenants' = IF created THEN tenants + 1 ELSE tenants
       /\ visits' = [visits EXCEPT ![v] =
            [ pc |-> IF told THEN "link" ELSE "done", kind |-> "onboard", who |-> p,
              tenant |-> IF created THEN tenants + 1 ELSE 0, linked |-> FALSE ]]
  /\ UNCHANGED <<seeded, members, engagements>>

\* A failure to link the owner is logged, and the request goes on.
LinkOwner(v) ==
  /\ Stage(v) = "link"
  /\ \E ok \in BOOLEAN :
       /\ Join(v) \/ (~ ok /\ UNCHANGED members)
       /\ visits' = [visits EXCEPT ![v] = [@ EXCEPT !.pc = "initial", !.linked = ok]]
  /\ UNCHANGED <<seeded, tenants, engagements>>

\* So is a failure to create the first engagement.
InitialEngagement(v) ==
  /\ Stage(v) = "initial"
  /\ Lead(v) \/ UNCHANGED engagements
  /\ Proceed(v, "done")
  /\ UNCHANGED <<seeded, tenants, members>>

-----------------------------------------------------------------------------
(* POST /v1/engagements *)

Engage(v) == Start(v, "engage", "engage")

Existing(v) == 1..tenants                              \* mutant: tenantResolver does not look
MemberOf(v) == {t \in 1..tenants : <<Who(v), t>> \in members}

\* tenantResolver admits a member to the tenant it names; the insert follows.
EnterTenant(v) ==
  /\ Stage(v) = "engage"
  /\ \/ \E t \in MemberOf(v) :
          visits' = [visits EXCEPT ![v] = [@ EXCEPT !.pc = "initial", !.tenant = t]]
     \/ Proceed(v, "done")
  /\ UNCHANGED <<seeded, tenants, members, engagements>>

-----------------------------------------------------------------------------
(* loginAction and signupAction, once the user is known *)

SignIn(v) == Start(v, "login", "lookup")

\* maybeSingle() gives a row if there is exactly one; for none, for several
\* and for a failed call the user has no membership.
HasOne(v) == \E t \in 1..tenants : MemberOf(v) = {t}

LookUpMembership(v) ==
  /\ Stage(v) = "lookup"
  /\ Proceed(v, "default") \/ (HasOne(v) /\ Proceed(v, "done"))
  /\ UNCHANGED <<seeded, tenants, members, engagements>>

\* Seeded tenants share one created_at: the first of them is any.
Oldest == {t \in 1..tenants : t = 1 \/ t <= seeded}

Newest == {t \in 1..tenants : t = tenants}             \* mutant: the order is descending
DefaultTenants == Oldest

FindDefault(v) ==
  /\ Stage(v) = "default"
  /\ \/ \E t \in DefaultTenants : visits' = [visits EXCEPT ![v] = [@ EXCEPT !.pc = "join", !.tenant = t]]
     \/ Proceed(v, "done")
  /\ UNCHANGED <<seeded, tenants, members, engagements>>

JoinDefault(v) ==
  /\ Stage(v) = "join"
  /\ Join(v) \/ UNCHANGED members
  /\ Proceed(v, "done")
  /\ UNCHANGED <<seeded, tenants, engagements>>

MembershipNext == \E v \in Visit :
  \/ CreateTenant(v) \/ LinkOwner(v) \/ InitialEngagement(v)
  \/ Engage(v) \/ EnterTenant(v)
  \/ SignIn(v) \/ LookUpMembership(v) \/ FindDefault(v) \/ JoinDefault(v)

MembershipSpec == MembershipInit /\ [][MembershipNext]_membershipVars

-----------------------------------------------------------------------------
(* Properties *)

Onboarded(p, t) ==
  \E v \in Visit : visits[v].kind = "onboard" /\ Who(v) = p /\ Where(v) = t

\* Of every tenant but the oldest the members are those who onboarded it,
\* whatever visits overlap or fail half way.  The oldest is the one that signing
\* in joins, as owner, whoever has no membership or several, and whoever
\* onboarded it (v1.ts, POST /organizations/onboard; actions.ts, loginAction).
MembershipJustified ==
  \A m \in members : m[2] \in Oldest \/ Onboarded(m[1], m[2])

\* "click **Sign up** ... to register a new tenant account"
\* (docs/LIVE_FUNCTIONAL_FLOW_GUIDE.md:60): whoever owns a tenant that was
\* onboarded is one who onboarded it.
OwnersOnboarded ==
  \A m \in members : m[2] > seeded => Onboarded(m[1], m[2])

\* The lead of an engagement belongs to its tenant, or onboarded it and the
\* insert of that membership failed; an owner that was linked stays
\* (v1.ts:836-891, and POST /engagements).
LeadsBelong ==
  /\ \A e \in engagements : e \in members \/
       \E v \in Visit : visits[v].kind = "onboard" /\ <<Who(v), Where(v)>> = e /\ ~ visits[v].linked
  /\ \A v \in Visit : visits[v].linked => <<Who(v), Where(v)>> \in members

\* What is known of a request at each of its stages.
VisitGood(v) ==
  /\ Where(v) <= tenants
  /\ visits[v].linked => visits[v].kind = "onboard"
  /\ Stage(v) = "idle" => Where(v) = 0 /\ visits[v].kind = "none"
  /\ Stage(v) = "link" => visits[v].kind = "onboard" /\ ~ visits[v].linked
  /\ Stage(v) \in {"link", "initial", "join"} => Where(v) # 0
  /\ Stage(v) = "join" => visits[v].kind = "login" /\ Where(v) \in Oldest
  /\ Stage(v) \in {"lookup", "default"} => visits[v].kind = "login"
  /\ Stage(v) = "engage" => visits[v].kind = "engage"
  /\ Stage(v) = "initial" /\ visits[v].kind # "onboard" => <<Who(v), Where(v)>> \in members

MembershipTypeOK ==
  /\ seeded \in {0, SeededTenants} /\ tenants \in Nat /\ seeded <= tenants
  /\ members \subseteq Person \X (1..tenants)
  /\ engagements \subseteq Person \X (1..tenants)
  /\ visits \in [Visit -> VisitRecord]

\* The inductive invariant.
MembershipInv ==
  /\ MembershipTypeOK
  /\ \A v \in Visit : VisitGood(v)
  /\ MembershipJustified
  /\ LeadsBelong
=============================================================================
