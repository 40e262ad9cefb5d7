----------------------------- MODULE MCBffRequests -----------------------------
(* Small instances of BffRequests. *)
EXTENDS BffRequests, TLC

Ask(user, tenant, role, kinds, keys) ==
  {[ user |-> user, tenant |-> tenant, role |-> role, kind |-> k, key |-> i ] : k \in kinds, i \in keys}

\* An owner of one tenant, with two keys, and an administrator and a member of
\* another, who use one of the same keys.
TwoTenants ==
  Ask("u1", "t1", "owner", {"engage_global", "engage_tenant", "release", "gated"}, {"key1", "key2"})
  \union Ask("u2", "t2", "admin", {"engage_global", "engage_tenant", "release", "gated"}, {"key1"})
  \union Ask("u3", "t2", "other", {"engage_tenant"}, {"key1"})
  \union Ask("u1", "none", "owner", {"onboard"}, {"key1"})

Symmetry == Permutations(Call) \union Permutations(Replica)
=============================================================================
