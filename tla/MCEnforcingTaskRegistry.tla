---------------------- MODULE MCEnforcingTaskRegistry ----------------------
(***************************************************************************)
(* Registries on small instances.  The tools are http_fetch (external, with *)
(* the egress precheck), send_email (external, without it) and file_io (not *)
(* external).  One profile grants everything; the other grants send_email   *)
(* to a registry whose tool table lacks it, and withholds the rest.         *)
(*                                                                         *)
(* Two kinds of behaviour are explored: one registry of one tenant, through *)
(* clock, revocation and supersession; and two registries, of one tenant or *)
(* of two, that draw on budgets in three calls while the clock stands still.*)
(***************************************************************************)
EXTENDS EnforcingTaskRegistry, Functions, TLC

CONSTANTS alice, bob, tok1, tok2, modelKey, toolSecret,
          http_fetch, send_email, file_io, task1, task2

MCOneTenant == {alice}
MCTenants == {alice, bob}
MCTokens == {tok1, tok2}
MCOneToken == {tok1}
MCOneSecret == {modelKey}
MCTtls == {1}
MCTools == {http_fetch, send_email, file_io}
MCPluggable == {send_email}
MCExternal == {http_fetch, send_email}
MCOneRegistry == {task1}
MCRegistries == {task1, task2}
MCExternalProfiles == {[allowed |-> MCExternal, tools |-> MCExternal]}
MCProfiles ==
  {[allowed |-> MCTools, tools |-> MCTools],
   [allowed |-> {send_email}, tools |-> {http_fetch, file_io}]}

MCBuilt == {r \in Registries : Built(r)}

MCCalls(r) == Len(decisions[r]) + raised[r] + (IF call[r] = Idle THEN 0 ELSE 1)

MCExhausted(r) ==
  \E i \in DOMAIN decisions[r] : decisions[r][i].reason = "external_effect_budget_exhausted"

(* A third call only when it is the one that finds the budget spent. *)
MCAlone ==
  /\ \A r, s \in MCBuilt : r = s
  /\ \E t \in Tenants :
       /\ \A c \in issued : c.tenant_id = t
       /\ \A r \in MCBuilt :
            /\ wiring[r].tenant = t
            /\ MCCalls(r) <= 2 \/ MCExhausted(r)

(* Calls that end before the credential is looked at, and tools that are    *)
(* not external, are left to the first kind.                                *)
MCTogether ==
  /\ now = 0
  /\ \A c, d \in issued : c = d
  /\ SumFunction([r \in Registries |-> MCCalls(r)]) <= 3
  /\ \A r \in MCBuilt :
       /\ wiring[r].allowed = Tools
       /\ call[r] # file_io
       /\ \A i \in DOMAIN decisions[r] :
            decisions[r][i].tool # file_io /\ decisions[r][i].reason # "invalid_args_type"

MCFew == MCAlone \/ MCTogether

MCSymmetry ==
  Permutations(MCTokens) \union Permutations(MCTenants) \union Permutations(MCRegistries)
=============================================================================
