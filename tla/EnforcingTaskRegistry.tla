----------------------- MODULE EnforcingTaskRegistry -----------------------
(***************************************************************************)
(* The task registries (control/enforcing_registry.py) of a host, on top   *)
(* of the one credential broker they share.  A registry is built with its  *)
(* guards as the harness builds them: credential_guard is                  *)
(* lambda: broker.is_valid(cred) for a credential already issued, and      *)
(* effect_budget_guard is lambda: broker.allow_external_effect(tenant).    *)
(*                                                                         *)
(* call() decides in one step and, when it dispatches, ends in a later one: *)
(* the tool is host code, so while it runs the clock moves and the host    *)
(* may use the broker or another registry.  One registry serves one agent  *)
(* loop, so it runs one call at a time.                                    *)
(*                                                                         *)
(* Text is the set of secret values it contains.  A tool returns any text  *)
(* over the secrets that exist; the scanner takes out the registered ones. *)
(***************************************************************************)
EXTENDS CredentialBroker, Sequences

CONSTANTS
  Registries,
  Tools,         \* names a model may ask for
  External,      \* EXTERNAL_EFFECT_TOOLS, those among Tools
  HttpFetch,     \* "http_fetch"
  Profiles,      \* [allowed, tools]: the profiles and tool tables hosts use
  Pluggable,     \* tools a host registers on a live registry
  NoCredential,  \* no credential_guard
  Unbuilt,       \* a registry the host has not made yet
  Idle,          \* no call running
  MaxCalls       \* bound: calls per registry

Wiring ==
  [tenant: Tenants, cred: Credential \union {NoCredential}, budgeted: BOOLEAN,
   allowed: SUBSET Tools, tools: SUBSET Tools]

ASSUME RegistryAssumption ==
  /\ HttpFetch \in External
  /\ External \subseteq Tools
  /\ Pluggable \subseteq Tools
  /\ Profiles \subseteq [allowed: SUBSET Tools, tools: SUBSET Tools]
  /\ NoCredential \notin Credential
  /\ Unbuilt \notin Wiring
  /\ Idle \notin Tools
  /\ MaxCalls \in Nat

VARIABLES
  wiring,      \* the constructor's arguments, and _tools
  call,        \* the tool a registry is running, or Idle
  decisions,   \* the telemetry log
  raised,      \* history: calls that raised out of dispatch
  dispatched,  \* history: per tenant, budgeted external tools entered
  lateEffects, \* history: external tools that ended with their credential dead
  seen         \* history: secrets in text handed to an agent

registryVars == <<wiring, call, decisions, raised, dispatched, lateEffects, seen>>
vars == <<brokerVars, registryVars>>

Outcomes == {"allowed", "blocked", "error"}

Reasons ==
  {"ok", "tool_error", "invalid_args_type", "tool_not_in_allowed_tools",
   "credential_guard_denied", "external_effect_budget_exhausted",
   "egress_blocked", "unknown_tool"}

Decision == [tool: Tools, outcome: Outcomes, reason: Reasons]

(* What dispatch can tell apart in args: a falsy value (read as {}), another *)
(* value that is no dict, and a dict whose url the allowlist accepts,       *)
(* rejects, or cannot be split because it is not text.                      *)
ArgShapes == {"falsy", "nondict", "routeOk", "routeBad", "routeNotText"}

Requests == [tool: Tools, args: ArgShapes]

Built(r) == wiring[r] # Unbuilt

-----------------------------------------------------------------------------
(* The checks of call(), in the order the code makes them: each holds only  *)
(* when the earlier ones do.                                                *)
WellFormed(req) == req.args # "nondict"

Granted(r, req) == WellFormed(req) /\ req.tool \in wiring[r].allowed

(* Mutant: the credential is asked for by http_fetch alone. *)
CredentialOkForHttp(r, req) ==
  /\ Granted(r, req)
  /\ req.tool = HttpFetch /\ wiring[r].cred # NoCredential => IsValid(wiring[r].cred)

(* Mutant: a spent budget is reported by the credential guard. *)
CredentialOkWhileFunded(r, req) ==
  /\ Granted(r, req)
  /\ req.tool \in External /\ wiring[r].cred # NoCredential =>
       IsValid(wiring[r].cred) /\ EffectAllowed(wiring[r].tenant)

CredentialOk(r, req) ==
  /\ Granted(r, req)
  /\ req.tool \in External /\ wiring[r].cred # NoCredential => IsValid(wiring[r].cred)

Charged(r, tool) == tool \in External /\ wiring[r].budgeted

BudgetOk(r, req) ==
  /\ CredentialOk(r, req)
  /\ Charged(r, req.tool) => EffectAllowed(wiring[r].tenant)

(* args.get("url", "") of {} is "", which resolves to no route. *)
EgressOk(r, req) ==
  /\ BudgetOk(r, req)
  /\ req.tool = HttpFetch => req.args = "routeOk"

(* The budget guard was consulted and said yes, so it counted. *)
Charge(r, tool) ==
  IF Charged(r, tool) THEN AllowExternalEffect(wiring[r].tenant)
                      ELSE UNCHANGED brokerVars

Log(r, tool, outcome, reason) ==
  decisions' = [decisions EXCEPT ![r] =
    Append(@, [tool |-> tool, outcome |-> outcome, reason |-> reason])]

(* _deny: the agent sees only the generic denial. *)
Deny(r, req, reason) ==
  /\ Log(r, req.tool, "blocked", reason)
  /\ UNCHANGED <<wiring, call, raised, dispatched, lateEffects, seen>>

-----------------------------------------------------------------------------
DenyMalformed(r, req) ==
  /\ ~WellFormed(req)
  /\ Deny(r, req, "invalid_args_type")
  /\ UNCHANGED brokerVars

DenyUngranted(r, req) ==
  /\ WellFormed(req) /\ ~Granted(r, req)
  /\ Deny(r, req, "tool_not_in_allowed_tools")
  /\ UNCHANGED brokerVars

(* Mutant: the budget is consulted, and charged, before the credential. *)
DenyCredentialCharged(r, req) ==
  /\ Granted(r, req) /\ ~CredentialOk(r, req)
  /\ Charged(r, req.tool) => EffectAllowed(wiring[r].tenant)
  /\ Deny(r, req, "credential_guard_denied")
  /\ Charge(r, req.tool)

DenyCredential(r, req) ==
  /\ Granted(r, req) /\ ~CredentialOk(r, req)
  /\ Deny(r, req, "credential_guard_denied")
  /\ UNCHANGED brokerVars

DenyBudget(r, req) ==
  /\ CredentialOk(r, req) /\ ~BudgetOk(r, req)
  /\ Deny(r, req, "external_effect_budget_exhausted")
  /\ UNCHANGED brokerVars

(* The budget has been charged by the time the route is looked at. *)
BlockEgress(r, req) ==
  /\ BudgetOk(r, req) /\ ~EgressOk(r, req) /\ req.args # "routeNotText"
  /\ Deny(r, req, "egress_blocked")
  /\ Charge(r, req.tool)

(* urlsplit raises AttributeError or TypeError on a url that is not text;   *)
(* only ValueError is caught, so the call leaves dispatch with no decision. *)
RaiseOut(r, req) ==
  /\ BudgetOk(r, req) /\ ~EgressOk(r, req) /\ req.args = "routeNotText"
  /\ raised' = [raised EXCEPT ![r] = @ + 1]
  /\ Charge(r, req.tool)
  /\ UNCHANGED <<wiring, call, decisions, dispatched, lateEffects, seen>>

DenyUnknown(r, req) ==
  /\ EgressOk(r, req) /\ req.tool \notin wiring[r].tools
  /\ Deny(r, req, "unknown_tool")
  /\ Charge(r, req.tool)

(* Mutant: the whole request is kept where the tool is looked up by name. *)
DispatchRequest(r, req) ==
  /\ EgressOk(r, req) /\ req.tool \in wiring[r].tools
  /\ call' = [call EXCEPT ![r] = req]
  /\ UNCHANGED <<wiring, decisions, dispatched, raised, lateEffects, seen>>
  /\ UNCHANGED brokerVars

Dispatch(r, req) ==
  /\ EgressOk(r, req) /\ req.tool \in wiring[r].tools
  /\ call' = [call EXCEPT ![r] = req.tool]
  /\ dispatched' =
       IF Charged(r, req.tool)
         THEN [dispatched EXCEPT ![wiring[r].tenant] = @ + 1]
         ELSE dispatched
  /\ Charge(r, req.tool)
  /\ UNCHANGED <<wiring, decisions, raised, lateEffects, seen>>

(* EnforcingTaskRegistry.call, up to the tool's first instruction. *)
Call(r, req) ==
  /\ Built(r) /\ call[r] = Idle
  /\ Len(decisions[r]) + raised[r] < MaxCalls
  /\ \/ DenyMalformed(r, req)
     \/ DenyUngranted(r, req)
     \/ DenyCredential(r, req)
     \/ DenyBudget(r, req)
     \/ BlockEgress(r, req)
     \/ RaiseOut(r, req)
     \/ DenyUnknown(r, req)
     \/ Dispatch(r, req)

-----------------------------------------------------------------------------
GuardDead(r) == wiring[r].cred # NoCredential /\ ~IsValid(wiring[r].cred)

(* The running tool ends.  Its effect may have come at the last moment, so  *)
(* it is late when the credential that admitted it no longer validates.     *)
EndTool(r) ==
  /\ call[r] # Idle
  /\ call' = [call EXCEPT ![r] = Idle]
  /\ lateEffects' = IF call[r] \in External /\ GuardDead(r)
                      THEN [lateEffects EXCEPT ![r] = @ + 1]
                      ELSE lateEffects

(* Mutant: only the backing secrets are redacted. *)
ScanBackingOnly(text) == text \ BackingSecrets

Scan(text) == text \ registered

(* The result is scanned with what is registered when the tool has ended. *)
Return(r) ==
  /\ EndTool(r)
  /\ Log(r, call[r], "allowed", "ok")
  /\ \E text \in SUBSET (BackingSecrets \union Minted) :
       seen' = seen \union Scan(text)
  /\ UNCHANGED <<wiring, raised, dispatched>>
  /\ UNCHANGED brokerVars

(* The tool raised; what it did before that is not undone. *)
ToolError(r) ==
  /\ EndTool(r)
  /\ Log(r, call[r], "error", "tool_error")
  /\ UNCHANGED <<wiring, raised, dispatched, seen>>
  /\ UNCHANGED brokerVars

(* __init__, with the guards the host chooses. *)
Build(r) ==
  /\ ~Built(r)
  /\ \E t \in Tenants, b \in BOOLEAN, p \in Profiles :
       \E c \in {d \in issued : d.tenant_id = t} \union {NoCredential} :
         wiring' = [wiring EXCEPT ![r] =
           [tenant |-> t, cred |-> c, budgeted |-> b,
            allowed |-> p.allowed, tools |-> p.tools]]
  /\ UNCHANGED <<call, decisions, raised, dispatched, lateEffects, seen>>
  /\ UNCHANGED brokerVars

(* register: the host adds a tool to a live registry. *)
Register(r, tool) ==
  /\ Built(r)
  /\ wiring' = [wiring EXCEPT ![r].tools = @ \union {tool}]
  /\ UNCHANGED <<call, decisions, raised, dispatched, lateEffects, seen>>
  /\ UNCHANGED brokerVars

Init ==
  /\ BrokerInit
  /\ wiring = [r \in Registries |-> Unbuilt]
  /\ call = [r \in Registries |-> Idle]
  /\ decisions = [r \in Registries |-> << >>]
  /\ raised = [r \in Registries |-> 0]
  /\ dispatched = [t \in Tenants |-> 0]
  /\ lateEffects = [r \in Registries |-> 0]
  /\ seen = {}

RegistryStep(r) ==
  \/ Build(r)
  \/ \E tool \in Pluggable : Register(r, tool)
  \/ \E req \in Requests : Call(r, req)
  \/ Return(r)
  \/ ToolError(r)

Next ==
  \/ HostStep /\ UNCHANGED registryVars
  \/ \E r \in Registries : RegistryStep(r)

Spec == Init /\ [][Next]_vars

-----------------------------------------------------------------------------
(* Every field of every registry, and the broker under them, has its type.  *)
RegistryTypeOK ==
  /\ TypeOK
  /\ wiring \in [Registries -> Wiring \union {Unbuilt}]
  /\ call \in [Registries -> Tools \union {Idle}]
  /\ decisions \in [Registries -> Seq(Decision)]
  /\ raised \in [Registries -> Nat]
  /\ dispatched \in [Tenants -> Nat]
  /\ lateEffects \in [Registries -> Nat]
  /\ seen \subseteq BackingSecrets \union Tokens

(* The log never confuses its denials: a registry that reports its          *)
(* credential invalid has one that is dead, now and for good, and one that  *)
(* reports its budget exhausted belongs to a tenant whose budget is spent.  *)
TelemetryTruthful ==
  \A r \in Registries : \A i \in 1 .. Len(decisions[r]) :
    /\ decisions[r][i].reason = "credential_guard_denied" => GuardDead(r)
    /\ decisions[r][i].reason = "external_effect_budget_exhausted" =>
         ~EffectAllowed(wiring[r].tenant)

(* Once its credential guard has denied a call, a registry never runs an    *)
(* external-effect tool again: no later entry of its log shows one.         *)
NoEffectAfterCredentialDenial ==
  \A r \in Registries : \A i, j \in 1 .. Len(decisions[r]) :
    /\ i < j
    /\ decisions[r][i].reason = "credential_guard_denied"
    => ~ /\ decisions[r][j].tool \in External
         /\ decisions[r][j].outcome # "blocked"

(* All the budgeted registries of a tenant together enter external tools no *)
(* more often than external_effect_cap.                                     *)
DispatchWithinBudget ==
  EffectCap # Uncapped =>
    \A t \in Tenants : dispatched[t] > 0 => dispatched[t] <= EffectCap

(* The credential is checked before the tool runs, not while it does: a     *)
(* credential that dies in between covers the one call in flight and no     *)
(* call after it.                                                           *)
InFlightLate(r) ==
  IF call[r] \in External /\ Built(r) /\ GuardDead(r) THEN 1 ELSE 0

AtMostOneLateEffect ==
  \A r \in Registries : lateEffects[r] + InFlightLate(r) <= 1

(* No secret that exists ever reaches an agent in a tool result, whenever   *)
(* it was minted and whichever registry returned the text.                  *)
NoSecretSeen == seen \intersect (BackingSecrets \union Minted) = {}

ChargedReasons == {"ok", "tool_error", "egress_blocked", "unknown_tool"}

(* The calls of tenant t that passed a budget guard: as log entries, as     *)
(* calls that raised, and as calls still running.                           *)
ChargedCalls(t) ==
  LET mine == {r \in Registries :
                 Built(r) /\ wiring[r].tenant = t /\ wiring[r].budgeted}
      slots == mine \X (1 .. MaxCalls)
  IN    Cardinality({s \in slots :
                       /\ s[2] <= Len(decisions[s[1]])
                       /\ decisions[s[1]][s[2]].tool \in External
                       /\ decisions[s[1]][s[2]].reason \in ChargedReasons})
      + Cardinality({s \in slots : s[2] <= raised[s[1]]})
      + Cardinality({r \in mine : call[r] \in External})

(* The tenant's budget counter is exactly the calls its registries let past *)
(* the guard: a denial for another reason never spends budget, and nothing  *)
(* is dispatched without spending it.                                       *)
BudgetLedgerExact ==
  EffectCap # Uncapped => \A t \in Tenants : effectUses[t] = ChargedCalls(t)

(* "must return a controlled denial, never raise out of dispatch"           *)
(* (control/enforcing_registry.py:127).                                     *)
CallNeverRaises == \A r \in Registries : raised[r] = 0
=============================================================================
