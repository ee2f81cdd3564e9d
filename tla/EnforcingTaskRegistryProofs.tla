-------------------- MODULE EnforcingTaskRegistryProofs --------------------
(***************************************************************************)
(* Proofs about the broker and the registries that share it, for any       *)
(* tenants, tokens, caps, times, registries, tools, profiles, credentials  *)
(* and bounds, in three parts: the broker by itself; the registries, whose *)
(* proofs rest on the broker's invariant, which carries over because every *)
(* step of the registries is, to the broker, a broker step or none; and    *)
(* the effect budget as a ledger.                                          *)
(***************************************************************************)
EXTENDS EnforcingTaskRegistry, FiniteSetTheorems, TLAPS

(***************************************************************************)
(* The broker.                                                             *)
(***************************************************************************)

(* What ties the broker's fields together: a token names one credential,   *)
(* only minted tokens are active or revoked, and no credential was issued   *)
(* in the future.  TypeOK and this are inductive together.                  *)
TokensTracked ==
  /\ \A c, d \in issued : c.token = d.token => c = d
  /\ revoked \subseteq Minted
  /\ \A c \in issued : c.issued_monotonic <= now

BrokerInv == TypeOK /\ TokensTracked

-----------------------------------------------------------------------------
(* A credential the broker mints is of the declared type.                   *)
LEMMA MintedTyped ==
  ASSUME NEW token \in Tokens, NEW t \in Tenants, NEW ttl \in Ttls, now \in Nat
  PROVE  [token |-> token, tenant_id |-> t, ttl_seconds |-> ttl,
          issued_monotonic |-> now] \in Credential
BY DEF Credential

(* Counting keeps a table of counters a table of counters.                  *)
LEMMA CountedTyped ==
  ASSUME NEW uses \in [Tenants -> Nat], NEW t \in Tenants, NEW cap
  PROVE  Counted(uses, t, cap) \in [Tenants -> Nat]
BY DEF Counted

LEMMA TypeInit == BrokerInit => BrokerInv
BY BrokerAssumption DEF BrokerInit, BrokerInv, TypeOK, TokensTracked, Minted

LEMMA TypeStep == BrokerInv /\ [BrokerNext]_brokerVars => BrokerInv'
<1> SUFFICES ASSUME BrokerInv, [BrokerNext]_brokerVars PROVE BrokerInv'
  OBVIOUS
<1> USE DEF BrokerInv
<1>1. ASSUME NEW t \in Tenants, NEW ttl \in Ttls, IssueToolCredential(t, ttl)
      PROVE  BrokerInv'
  <2>1. PICK token \in Tokens \ Minted :
          /\ issued' = issued \union
               {[token |-> token, tenant_id |-> t,
                 ttl_seconds |-> ttl, issued_monotonic |-> now]}
          /\ active' = [active EXCEPT ![t] = token]
          /\ registered' = registered \union {token}
          /\ UNCHANGED <<now, revoked, modelKeyUses, effectUses, keyReads>>
    BY <1>1 DEF IssueToolCredential
  <2>2. TypeOK'
    BY <2>1, MintedTyped DEF TypeOK
  <2>3. TokensTracked'
    BY <2>1 DEF TokensTracked, TypeOK, Minted
  <2> QED BY <2>2, <2>3
<1>2. ASSUME NEW cred \in issued, Revoke(cred) PROVE BrokerInv'
  <2>1. cred.token \in Tokens /\ cred.token \in Minted
    BY DEF TypeOK, Credential, Minted
  <2> QED BY <1>2, <2>1 DEF Revoke, TypeOK, TokensTracked, Minted
<1>3. ASSUME NEW t \in Tenants, UseModelKey(t) PROVE BrokerInv'
  BY <1>3, CountedTyped DEF UseModelKey, TypeOK, TokensTracked, Minted
<1>4. ASSUME NEW t \in Tenants, AllowExternalEffect(t) PROVE BrokerInv'
  BY <1>4, CountedTyped DEF AllowExternalEffect, TypeOK, TokensTracked, Minted
<1>5. CASE Tick
  <2>1. \A c \in issued : c.issued_monotonic \in Nat
    BY DEF TypeOK, Credential
  <2> QED BY <1>5, <2>1 DEF Tick, TypeOK, TokensTracked, Minted
<1>6. CASE UNCHANGED brokerVars
  BY <1>6 DEF brokerVars, TypeOK, TokensTracked, Minted
<1> QED BY <1>1, <1>2, <1>3, <1>4, <1>5, <1>6 DEF BrokerNext, HostStep

(* The broker's fields keep their types and stay consistent with each other *)
(* through any sequence of issues, revocations, key reads and clock steps.  *)
THEOREM BrokerInvHolds == BrokerSpec => []BrokerInv
BY TypeInit, TypeStep, PTL DEF BrokerSpec

(* Type correctness of every field of the broker.                           *)
THEOREM TypeCorrect == BrokerSpec => []TypeOK
BY BrokerInvHolds, PTL DEF BrokerInv

-----------------------------------------------------------------------------
(* spend_cap bounds the reads of the model key, for any cap.                *)
THEOREM SpendCapCorrect == BrokerSpec => []SpendCapHolds
<1>1. BrokerInit => SpendCapHolds
  BY DEF BrokerInit, SpendCapHolds
<1>2. BrokerInv /\ SpendCapHolds /\ [BrokerNext]_brokerVars => SpendCapHolds'
  <2> SUFFICES ASSUME BrokerInv, SpendCapHolds, [BrokerNext]_brokerVars,
                      SpendCap # Uncapped
               PROVE  SpendCapHolds'
    BY DEF SpendCapHolds
  <2> SpendCap \in Int
    BY BrokerAssumption
  <2>1. ASSUME NEW t \in Tenants, UseModelKey(t) PROVE SpendCapHolds'
    <3>1. /\ keyReads \in [Tenants -> Nat] /\ modelKeyUses \in [Tenants -> Nat]
          /\ modelKeyUses[t] < SpendCap
          /\ modelKeyUses' = [modelKeyUses EXCEPT ![t] = @ + 1]
          /\ keyReads' = [keyReads EXCEPT ![t] = @ + 1]
      BY <2>1 DEF UseModelKey, UnderCap, Counted, BrokerInv, TypeOK
    <3> QED BY <3>1 DEF SpendCapHolds
  <2>2. CASE UNCHANGED <<modelKeyUses, keyReads>>
    BY <2>2 DEF SpendCapHolds
  <2> QED
    BY <2>1, <2>2 DEF BrokerNext, HostStep, IssueToolCredential, Revoke,
       AllowExternalEffect, Tick, brokerVars
<1> QED BY <1>1, <1>2, BrokerInvHolds, PTL DEF BrokerSpec

-----------------------------------------------------------------------------
(* No step makes a credential that does not validate validate again, and no *)
(* step but an issue to its own tenant changes what is active for it.       *)
LEMMA NoRevival ==
  ASSUME BrokerInv, [BrokerNext]_brokerVars, NEW c \in issued, IsValid(c)'
  PROVE  IsValid(c)
<1> USE DEF BrokerInv
<1> c \in Credential
  BY DEF TypeOK
<1>1. ASSUME NEW t \in Tenants, NEW ttl \in Ttls, IssueToolCredential(t, ttl)
      PROVE  IsValid(c)
  <2>1. PICK token \in Tokens \ Minted : active' = [active EXCEPT ![t] = token]
    BY <1>1 DEF IssueToolCredential
  <2>2. c.token # token
    BY <2>1 DEF Minted
  <2>3. c.tenant_id # t
    BY <2>1, <2>2 DEF IsValid, TypeOK, Credential
  <2> QED BY <1>1, <2>1, <2>3 DEF IssueToolCredential, IsValid, TypeOK, Credential
<1>2. ASSUME NEW cred \in issued, Revoke(cred) PROVE IsValid(c)
  BY <1>2 DEF Revoke, IsValid
<1>3. CASE Tick
  <2>1. c.issued_monotonic \in Nat /\ c.ttl_seconds \in Int /\ now \in Nat
    BY BrokerAssumption DEF TypeOK, Credential
  <2>2. now' = now + 1 /\ UNCHANGED <<active, revoked>>
    BY <1>3 DEF Tick
  <2> QED BY <2>1, <2>2 DEF IsValid
<1>4. CASE UNCHANGED <<now, active, revoked>>
  BY <1>4 DEF IsValid
<1> QED
  BY <1>1, <1>2, <1>3, <1>4
  DEF BrokerNext, HostStep, UseModelKey, AllowExternalEffect, brokerVars

(* A live credential dies only by expiry, its own revocation, or the issue  *)
(* of another to its tenant; budgets and other tenants never end it.        *)
THEOREM DeathHasACauseCorrect == BrokerSpec => DeathHasACause
<1> DEFINE Cause(c) ==
      \/ Expired(c)'
      \/ c.token \in revoked'
      \/ \E d \in issued' \ issued : d.tenant_id = c.tenant_id
<1>1. ASSUME BrokerInv, BrokerNext,
             NEW c \in issued, IsValid(c), ~IsValid(c)'
      PROVE  Cause(c)
  <2> c \in Credential
    BY <1>1 DEF BrokerInv, TypeOK
  <2>1. ASSUME NEW t \in Tenants, NEW ttl \in Ttls, IssueToolCredential(t, ttl)
        PROVE  Cause(c)
    <3>1. PICK token \in Tokens \ Minted :
            /\ issued' = issued \union
                 {[token |-> token, tenant_id |-> t,
                   ttl_seconds |-> ttl, issued_monotonic |-> now]}
            /\ active' = [active EXCEPT ![t] = token]
            /\ UNCHANGED <<now, revoked>>
      BY <2>1 DEF IssueToolCredential
    <3>2. CASE c.tenant_id = t
      <4> DEFINE d == [token |-> token, tenant_id |-> t,
                       ttl_seconds |-> ttl, issued_monotonic |-> now]
      <4>1. d \in issued' \ issued
        BY <3>1 DEF Minted
      <4> QED BY <3>2, <4>1
    <3>3. CASE c.tenant_id # t
      BY <1>1, <3>1, <3>3 DEF IsValid, BrokerInv, TypeOK, Credential
    <3> QED BY <3>2, <3>3
  <2>2. ASSUME NEW cred \in issued, Revoke(cred) PROVE Cause(c)
    BY <1>1, <2>2 DEF Revoke, IsValid
  <2>3. CASE Tick
    <3>1. c.issued_monotonic \in Nat /\ c.ttl_seconds \in Int /\ now \in Nat
      BY <1>1, BrokerAssumption DEF BrokerInv, TypeOK, Credential
    <3>2. now' = now + 1 /\ UNCHANGED <<active, revoked>>
      BY <2>3 DEF Tick
    <3> QED BY <1>1, <3>1, <3>2 DEF IsValid, Expired
  <2>4. CASE UNCHANGED <<now, active, revoked>>
    BY <1>1, <2>4 DEF IsValid
  <2> QED
    BY <1>1, <2>1, <2>2, <2>3, <2>4
    DEF BrokerNext, HostStep, UseModelKey, AllowExternalEffect
<1>2. BrokerInv /\ [BrokerNext]_brokerVars
        => [\A c \in issued : IsValid(c) /\ ~IsValid(c)' => Cause(c)]_brokerVars
  BY <1>1
<1> QED BY <1>2, BrokerInvHolds, PTL DEF BrokerSpec, DeathHasACause

-----------------------------------------------------------------------------
(* Every behaviour of the broker is one of CredentialLease: a tenant has at *)
(* most the credential granted last, and no lease comes back.               *)
THEOREM LeaseRefinement == BrokerSpec => RefinesLease
<1>1. BrokerInit => Lease!Init
  BY DEF BrokerInit, Lease!Init, live
<1>2. BrokerInv /\ [BrokerNext]_brokerVars => [Lease!Next]_(Lease!leaseVars)
  <2> SUFFICES ASSUME BrokerInv, [BrokerNext]_brokerVars
               PROVE  Lease!Next \/ UNCHANGED Lease!leaseVars
    OBVIOUS
  <2> USE DEF BrokerInv
  <2>1. ASSUME NEW t \in Tenants, NEW ttl \in Ttls, IssueToolCredential(t, ttl)
        PROVE  Lease!Next
    <3>1. PICK token \in Tokens \ Minted :
            /\ issued' = issued \union
                 {[token |-> token, tenant_id |-> t,
                   ttl_seconds |-> ttl, issued_monotonic |-> now]}
            /\ active' = [active EXCEPT ![t] = token]
            /\ UNCHANGED <<now, revoked>>
      BY <2>1 DEF IssueToolCredential
    <3> DEFINE d == [token |-> token, tenant_id |-> t,
                     ttl_seconds |-> ttl, issued_monotonic |-> now]
    <3>2. d \in Credential \ issued
      BY <3>1, MintedTyped DEF Minted, TypeOK
    <3>3. \A u \in Tenants \ {t} : live'[u] = live[u]
      BY <3>1 DEF live, IsValid, TypeOK, Credential
    <3>4. live'[t] \subseteq {d}
      <4>1. \A c \in issued : c.tenant_id = t => ~IsValid(c)'
        BY <3>1 DEF IsValid, TypeOK, Minted
      <4> QED BY <3>1, <4>1 DEF live
    <3>5. live' = [live EXCEPT ![t] = live'[t]]
      BY <3>3 DEF live
    <3>6. live'[t] = {d} \/ live'[t] = {}
      BY <3>4
    <3>7. Lease!Grant(t, d)
      BY <3>1, <3>2, <3>5, <3>6 DEF Lease!Grant
    <3>8. d \in issued' \ issued
      BY <3>1, <3>2
    <3> QED BY <3>7, <3>8 DEF Lease!Next
  <2>2. CASE UNCHANGED issued
    <3>1. \A t \in Tenants : live'[t] \subseteq live[t] /\ live'[t] \subseteq issued
      BY <2>2, NoRevival DEF live
    <3>2. live' \in [Tenants -> SUBSET issued]
      BY <3>1 DEF live
    <3> QED BY <2>2, <3>1, <3>2 DEF Lease!Next, Lease!Lapse
  <2> QED
    BY <2>1, <2>2 DEF BrokerNext, HostStep, Revoke, UseModelKey,
       AllowExternalEffect, Tick, brokerVars
<1> QED BY <1>1, <1>2, BrokerInvHolds, PTL DEF BrokerSpec, RefinesLease, Lease!Spec

(***************************************************************************)
(* The registries.                                                         *)
(***************************************************************************)

(* A registry's guard holds a credential that was really issued, and only a *)
(* built registry has run, logged or is running anything.                   *)
WiredToIssued ==
  \A r \in Registries :
    /\ Built(r) /\ wiring[r].cred # NoCredential => wiring[r].cred \in issued
    /\ ~Built(r) => call[r] = Idle /\ decisions[r] = << >>

RegistryInv == RegistryTypeOK /\ BrokerInv /\ WiredToIssued

-----------------------------------------------------------------------------
(* Passing the budget guard is a broker step, or none when it is not wired. *)
LEMMA ChargeIsBrokerStep ==
  ASSUME NEW r \in Registries, NEW tool \in Tools, wiring[r] \in Wiring, Charge(r, tool)
  PROVE  [BrokerNext]_brokerVars
<1>1. wiring[r].tenant \in Tenants
  BY DEF Wiring
<1> QED BY <1>1 DEF Charge, BrokerNext

(* To the broker, a step of the composition is a broker step or a stutter.  *)
LEMMA BrokerSimulation ==
  RegistryTypeOK /\ [Next]_vars => [BrokerNext]_brokerVars
<1> SUFFICES ASSUME RegistryTypeOK, [Next]_vars PROVE [BrokerNext]_brokerVars
  OBVIOUS
<1>1. ASSUME NEW r \in Registries, NEW req \in Requests, Call(r, req)
      PROVE  [BrokerNext]_brokerVars
  <2>1. wiring[r] \in Wiring /\ req.tool \in Tools
    BY <1>1 DEF RegistryTypeOK, Call, Built, Requests
  <2>2. UNCHANGED brokerVars \/ Charge(r, req.tool)
    BY <1>1 DEF Call, DenyMalformed, DenyUngranted, DenyCredential, DenyBudget,
       BlockEgress, RaiseOut, DenyUnknown, Dispatch
  <2> QED BY <2>1, <2>2, ChargeIsBrokerStep
<1>2. ASSUME NEW r \in Registries,
             Build(r) \/ (\E tool \in Pluggable : Register(r, tool)) \/ Return(r) \/ ToolError(r)
      PROVE  UNCHANGED brokerVars
  BY <1>2 DEF Build, Register, Return, ToolError
<1>3. CASE HostStep
  BY <1>3 DEF BrokerNext
<1>4. CASE UNCHANGED vars
  BY <1>4 DEF vars
<1> QED BY <1>1, <1>2, <1>3, <1>4 DEF Next, RegistryStep

(* What call() can do to a registry: log a denial, raise, or start the tool. *)
LEMMA CallOutcomes ==
  ASSUME NEW r \in Registries, NEW req \in Requests, Call(r, req)
  PROVE  \/ \E reason \in Reasons : Deny(r, req, reason)
         \/ RaiseOut(r, req)
         \/ Dispatch(r, req)
BY DEF Call, DenyMalformed, DenyUngranted, DenyCredential, DenyBudget,
   BlockEgress, DenyUnknown, Reasons

(* A counter that is bumped, or not, is still a table of counters.          *)
LEMMA BumpTyped ==
  ASSUME NEW S, NEW f \in [S -> Nat], NEW s \in S, NEW g,
         g = f \/ g = [f EXCEPT ![s] = @ + 1]
  PROVE  g \in [S -> Nat]
<1>1. CASE g = f
  BY <1>1
<1>2. CASE g = [f EXCEPT ![s] = @ + 1]
  BY <1>2
<1> QED BY <1>1, <1>2

(* A logged decision extends the log of its registry by one typed entry.    *)
LEMMA LogTyped ==
  ASSUME NEW r \in Registries, NEW tool \in Tools, NEW o \in Outcomes, NEW reason \in Reasons,
         decisions \in [Registries -> Seq(Decision)], Log(r, tool, o, reason)
  PROVE  decisions' \in [Registries -> Seq(Decision)]
<1>1. [tool |-> tool, outcome |-> o, reason |-> reason] \in Decision
  BY DEF Decision
<1>2. Append(decisions[r], [tool |-> tool, outcome |-> o, reason |-> reason]) \in Seq(Decision)
  BY <1>1
<1> QED BY <1>2 DEF Log

LEMMA RegistryInit == Init => RegistryInv
<1> SUFFICES ASSUME Init PROVE RegistryInv
  OBVIOUS
<1>1. BrokerInv
  BY TypeInit DEF Init
<1>2. RegistryTypeOK
  BY <1>1 DEF Init, RegistryTypeOK, BrokerInv
<1>3. WiredToIssued
  BY DEF Init, WiredToIssued, Built
<1> QED BY <1>1, <1>2, <1>3 DEF RegistryInv

(* The registry's own variables keep their types.                           *)
LEMMA RegistryTypeStep ==
  ASSUME RegistryInv, [Next]_vars
  PROVE  RegistryTypeOK'
<1> USE DEF RegistryInv
<1>1. BrokerInv'
  BY BrokerSimulation, TypeStep
<1>2. TypeOK'
  BY <1>1 DEF BrokerInv
<1>3. ASSUME NEW r \in Registries, NEW req \in Requests, Call(r, req)
      PROVE  RegistryTypeOK'
  <2> req.tool \in Tools
    BY DEF Requests
  <2>1. ASSUME NEW reason \in Reasons, Deny(r, req, reason) PROVE RegistryTypeOK'
    <3>1. decisions' \in [Registries -> Seq(Decision)]
      BY <2>1, LogTyped DEF Deny, RegistryTypeOK, Outcomes
    <3> QED BY <1>2, <2>1, <3>1 DEF Deny, RegistryTypeOK
  <2>2. CASE RaiseOut(r, req)
    BY <1>2, <2>2 DEF RaiseOut, RegistryTypeOK
  <2>3. CASE Dispatch(r, req)
    <3>1. call' \in [Registries -> Tools \union {Idle}]
      BY <2>3 DEF Dispatch, RegistryTypeOK
    <3>2. wiring[r].tenant \in Tenants
      BY <1>3 DEF Call, Built, RegistryTypeOK, Wiring
    <3>3. dispatched' \in [Tenants -> Nat]
      <4>1. \/ dispatched' = dispatched
            \/ dispatched' = [dispatched EXCEPT ![wiring[r].tenant] = @ + 1]
        BY <2>3 DEF Dispatch
      <4>2. dispatched \in [Tenants -> Nat]
        BY DEF RegistryTypeOK
      <4> QED BY <3>2, <4>1, <4>2, BumpTyped
    <3> QED BY <1>2, <2>3, <3>1, <3>3 DEF Dispatch, RegistryTypeOK
  <2> QED BY <1>3, <2>1, <2>2, <2>3, CallOutcomes
<1>4. ASSUME NEW r \in Registries, Return(r) \/ ToolError(r)
      PROVE  RegistryTypeOK'
  <2>1. call[r] \in Tools
    BY <1>4 DEF Return, ToolError, EndTool, RegistryTypeOK
  <2>2. decisions' \in [Registries -> Seq(Decision)]
    <3>1. CASE Log(r, call[r], "allowed", "ok")
      BY <2>1, <3>1, LogTyped DEF RegistryTypeOK, Outcomes, Reasons
    <3>2. CASE Log(r, call[r], "error", "tool_error")
      BY <2>1, <3>2, LogTyped DEF RegistryTypeOK, Outcomes, Reasons
    <3> QED BY <1>4, <3>1, <3>2 DEF Return, ToolError
  <2>3. call' \in [Registries -> Tools \union {Idle}] /\ lateEffects' \in [Registries -> Nat]
    <3>1. EndTool(r)
      BY <1>4 DEF Return, ToolError
    <3>2. call' = [call EXCEPT ![r] = Idle]
      BY <3>1 DEF EndTool
    <3>3. lateEffects' = lateEffects \/ lateEffects' = [lateEffects EXCEPT ![r] = @ + 1]
      BY <3>1 DEF EndTool
    <3>4. call \in [Registries -> Tools \union {Idle}] /\ lateEffects \in [Registries -> Nat]
      BY DEF RegistryTypeOK
    <3>5. lateEffects' \in [Registries -> Nat]
      BY <3>3, <3>4, BumpTyped
    <3> QED BY <3>2, <3>4, <3>5
  <2>4. seen' \subseteq BackingSecrets \union Tokens
    <3>1. Minted \subseteq Tokens
      BY DEF RegistryTypeOK, TypeOK, Minted, Credential
    <3> QED BY <1>4, <3>1 DEF Return, ToolError, RegistryTypeOK, Scan
  <2> QED BY <1>2, <1>4, <2>2, <2>3, <2>4 DEF Return, ToolError, RegistryTypeOK
<1>5. ASSUME NEW r \in Registries, Build(r) PROVE RegistryTypeOK'
  <2>1. PICK t \in Tenants, b \in BOOLEAN, p \in Profiles, c \in issued \union {NoCredential} :
          wiring' = [wiring EXCEPT ![r] =
            [tenant |-> t, cred |-> c, budgeted |-> b,
             allowed |-> p.allowed, tools |-> p.tools]]
    BY <1>5 DEF Build
  <2>2. p.allowed \in SUBSET Tools /\ p.tools \in SUBSET Tools
    BY RegistryAssumption
  <2>3. c \in Credential \union {NoCredential}
    BY DEF RegistryTypeOK, TypeOK
  <2>4. [tenant |-> t, cred |-> c, budgeted |-> b,
         allowed |-> p.allowed, tools |-> p.tools] \in Wiring
    BY <2>2, <2>3 DEF Wiring
  <2> QED BY <1>2, <1>5, <2>1, <2>4 DEF Build, RegistryTypeOK
<1>6. ASSUME NEW r \in Registries, NEW tool \in Pluggable, Register(r, tool)
      PROVE  RegistryTypeOK'
  <2>1. wiring[r] \in Wiring /\ tool \in Tools
    BY <1>6, RegistryAssumption DEF Register, Built, RegistryTypeOK
  <2>2. [wiring[r] EXCEPT !.tools = @ \union {tool}] \in Wiring
    BY <2>1 DEF Wiring
  <2>3. wiring' = [wiring EXCEPT ![r] = [wiring[r] EXCEPT !.tools = @ \union {tool}]]
    BY <1>6 DEF Register, RegistryTypeOK
  <2> QED BY <1>2, <1>6, <2>2, <2>3 DEF Register, RegistryTypeOK
<1>7. CASE UNCHANGED registryVars
  BY <1>2, <1>7 DEF registryVars, RegistryTypeOK
<1> QED
  BY <1>3, <1>4, <1>5, <1>6, <1>7 DEF Next, RegistryStep, vars

(* A step that leaves a registry unbuilt leaves it idle with an empty log,  *)
(* and a credential once issued stays issued.                               *)
LEMMA WiredStep ==
  ASSUME RegistryInv, [Next]_vars
  PROVE  WiredToIssued'
<1> USE DEF RegistryInv
<1>1. issued \subseteq issued'
  <2>1. [BrokerNext]_brokerVars
    BY BrokerSimulation
  <2> QED
    BY <2>1 DEF BrokerNext, HostStep, IssueToolCredential, Revoke, UseModelKey,
       AllowExternalEffect, Tick, brokerVars
<1>2. ASSUME NEW r \in Registries,
             (\E req \in Requests : Call(r, req)) \/ Return(r) \/ ToolError(r)
      PROVE  WiredToIssued'
  <2>1. Built(r)
    BY <1>2 DEF Call, Return, ToolError, EndTool, WiredToIssued
  <2>2. wiring' = wiring
    BY <1>2, CallOutcomes DEF Deny, RaiseOut, Dispatch, Return, ToolError
  <2>3. \A q \in Registries \ {r} : call'[q] = call[q] /\ decisions'[q] = decisions[q]
    BY <1>2, CallOutcomes
    DEF Deny, RaiseOut, Dispatch, Return, ToolError, EndTool, Log, RegistryTypeOK
  <2> QED BY <1>1, <2>1, <2>2, <2>3 DEF WiredToIssued, Built
<1>3. ASSUME NEW r \in Registries, Build(r) PROVE WiredToIssued'
  <2>1. PICK t \in Tenants, b \in BOOLEAN, p \in Profiles, c \in issued \union {NoCredential} :
          wiring' = [wiring EXCEPT ![r] =
            [tenant |-> t, cred |-> c, budgeted |-> b,
             allowed |-> p.allowed, tools |-> p.tools]]
    BY <1>3 DEF Build
  <2>2. \A q \in Registries \ {r} : wiring'[q] = wiring[q]
    BY <2>1 DEF RegistryTypeOK
  <2>3. wiring'[r].cred \in issued \union {NoCredential}
    BY <2>1 DEF RegistryTypeOK
  <2>4. UNCHANGED <<call, decisions>> /\ ~Built(r)
    BY <1>3 DEF Build
  <2> QED BY <1>1, <2>2, <2>3, <2>4 DEF WiredToIssued, Built
<1>4. ASSUME NEW r \in Registries, NEW tool \in Pluggable, Register(r, tool)
      PROVE  WiredToIssued'
  <2>1. wiring[r] \in Wiring /\ Built(r)
    BY <1>4 DEF Register, Built, RegistryTypeOK
  <2>2. \A q \in Registries \ {r} : wiring'[q] = wiring[q]
    BY <1>4 DEF Register, RegistryTypeOK
  <2>3. wiring'[r].cred = wiring[r].cred
    BY <1>4, <2>1 DEF Register, RegistryTypeOK, Wiring
  <2>4. UNCHANGED <<call, decisions>>
    BY <1>4 DEF Register
  <2>5. wiring'[r] # Unbuilt
    <3>1. wiring'[r] = [wiring[r] EXCEPT !.tools = @ \union {tool}] /\ tool \in Tools
      BY <1>4, RegistryAssumption DEF Register, RegistryTypeOK
    <3>2. wiring'[r] \in Wiring
      BY <2>1, <3>1 DEF Wiring
    <3> QED BY <3>2, RegistryAssumption
  <2> QED BY <1>1, <2>1, <2>2, <2>3, <2>4, <2>5 DEF WiredToIssued, Built
<1>5. CASE UNCHANGED registryVars
  BY <1>1, <1>5 DEF registryVars, WiredToIssued, Built
<1> QED
  BY <1>2, <1>3, <1>4, <1>5 DEF Next, RegistryStep, vars

LEMMA RegistryStepInv == RegistryInv /\ [Next]_vars => RegistryInv'
BY BrokerSimulation, TypeStep, RegistryTypeStep, WiredStep DEF RegistryInv

(* Registries and broker keep their types, and each guard holds a           *)
(* credential the broker issued, in every reachable state.                  *)
THEOREM RegistryInvHolds == Spec => []RegistryInv
BY RegistryInit, RegistryStepInv, PTL DEF Spec

(* Type correctness of the registries composed with the broker.             *)
THEOREM RegistryTypeCorrect == Spec => []RegistryTypeOK
BY RegistryInvHolds, PTL DEF RegistryInv

-----------------------------------------------------------------------------
(* The budget counter moves only when the budget guard has said yes.        *)
LEMMA EffectStep ==
  ASSUME RegistryInv, [Next]_vars
  PROVE  effectUses' = effectUses \/ \E t \in Tenants : AllowExternalEffect(t)
<1>1. [BrokerNext]_brokerVars
  BY BrokerSimulation DEF RegistryInv
<1> QED
  BY <1>1 DEF BrokerNext, HostStep, IssueToolCredential, Revoke, UseModelKey, Tick, brokerVars

(* Each budgeted dispatch spent a unit, and no more units are spent than    *)
(* the cap has.                                                             *)
DispatchSpends ==
  EffectCap # Uncapped =>
    \A t \in Tenants :
      /\ dispatched[t] <= effectUses[t]
      /\ effectUses[t] > 0 => effectUses[t] <= EffectCap

LEMMA DispatchSpendsStep ==
  ASSUME RegistryInv, DispatchSpends, [Next]_vars
  PROVE  DispatchSpends'
<1> SUFFICES ASSUME EffectCap # Uncapped PROVE DispatchSpends'
  BY DEF DispatchSpends
<1>1. EffectCap \in Int
  BY BrokerAssumption
<1>2. effectUses \in [Tenants -> Nat] /\ dispatched \in [Tenants -> Nat]
  BY DEF RegistryInv, RegistryTypeOK, TypeOK
<1>3. ASSUME NEW t \in Tenants, AllowExternalEffect(t)
      PROVE  effectUses[t] < EffectCap /\ effectUses' = [effectUses EXCEPT ![t] = @ + 1]
  BY <1>3 DEF AllowExternalEffect, EffectAllowed, UnderCap, Counted
<1>4. CASE dispatched' = dispatched
  <2>1. CASE effectUses' = effectUses
    BY <1>4, <2>1 DEF DispatchSpends
  <2>2. ASSUME NEW t \in Tenants, AllowExternalEffect(t) PROVE DispatchSpends'
    BY <1>1, <1>2, <1>3, <1>4, <2>2 DEF DispatchSpends
  <2> QED BY <2>1, <2>2, EffectStep
<1>5. ASSUME NEW r \in Registries, NEW req \in Requests, Call(r, req),
             Dispatch(r, req), Charged(r, req.tool)
      PROVE  DispatchSpends'
  <2> DEFINE t == wiring[r].tenant
  <2>1. t \in Tenants
    BY <1>5 DEF Call, Built, RegistryInv, RegistryTypeOK, Wiring
  <2>2. AllowExternalEffect(t) /\ dispatched' = [dispatched EXCEPT ![t] = @ + 1]
    BY <1>5 DEF Dispatch, Charge
  <2> HIDE DEF t
  <2>3. effectUses[t] < EffectCap /\ effectUses' = [effectUses EXCEPT ![t] = @ + 1]
    BY <1>3, <2>1, <2>2
  <2> QED BY <1>1, <1>2, <2>1, <2>2, <2>3 DEF DispatchSpends
<1>6. ASSUME NEW r \in Registries, NEW req \in Requests, Call(r, req)
      PROVE  dispatched' = dispatched \/ (Dispatch(r, req) /\ Charged(r, req.tool))
  BY <1>6, CallOutcomes DEF Deny, RaiseOut, Dispatch
<1> QED
  BY <1>4, <1>5, <1>6
  DEF Next, RegistryStep, Build, Register, Return, ToolError, registryVars, vars

(* external_effect_cap bounds the budgeted dispatches of a tenant, however  *)
(* many registries share its budget.                                        *)
THEOREM DispatchWithinBudgetCorrect == Spec => []DispatchWithinBudget
<1>1. Init => DispatchSpends
  BY DEF Init, BrokerInit, DispatchSpends
<1>2. RegistryInv /\ DispatchSpends /\ [Next]_vars => DispatchSpends'
  BY DispatchSpendsStep
<1>3. RegistryInv /\ DispatchSpends => DispatchWithinBudget
  <2> SUFFICES ASSUME RegistryInv, DispatchSpends, EffectCap # Uncapped,
                      NEW t \in Tenants, dispatched[t] > 0
               PROVE  dispatched[t] <= EffectCap
    BY DEF DispatchWithinBudget
  <2>1. effectUses[t] \in Nat /\ dispatched[t] \in Nat /\ EffectCap \in Int
    BY BrokerAssumption DEF RegistryInv, RegistryTypeOK, TypeOK
  <2>2. dispatched[t] <= effectUses[t] /\ (effectUses[t] > 0 => effectUses[t] <= EffectCap)
    BY DEF DispatchSpends
  <2> QED BY <2>1, <2>2
<1> QED BY <1>1, <1>2, <1>3, RegistryInvHolds, PTL DEF Spec

-----------------------------------------------------------------------------
(* Who a registry works for, and with which credential, is fixed when it is *)
(* built.                                                                   *)
LEMMA WiringFixed ==
  ASSUME RegistryInv, [Next]_vars, NEW r \in Registries, Built(r)
  PROVE  /\ Built(r)'
         /\ wiring'[r].cred = wiring[r].cred
         /\ wiring'[r].tenant = wiring[r].tenant
<1> DEFINE SameOwner ==
      /\ wiring'[r].cred = wiring[r].cred
      /\ wiring'[r].tenant = wiring[r].tenant
      /\ wiring'[r] \in Wiring
<1> USE DEF RegistryInv
<1>0. wiring[r] \in Wiring
  BY DEF Built, RegistryTypeOK
<1>1. ASSUME NEW q \in Registries, Build(q) PROVE SameOwner
  <2>1. wiring'[r] = wiring[r]
    BY <1>1 DEF Build, RegistryTypeOK
  <2> QED BY <1>0, <2>1
<1>2. ASSUME NEW q \in Registries, NEW tool \in Pluggable, Register(q, tool)
      PROVE  SameOwner
  <2>1. CASE q = r
    <3>1. wiring'[r] = [wiring[r] EXCEPT !.tools = @ \union {tool}] /\ tool \in Tools
      BY <1>2, <2>1, RegistryAssumption DEF Register, RegistryTypeOK
    <3> QED BY <1>0, <3>1 DEF Wiring
  <2>2. CASE q # r
    BY <1>0, <1>2, <2>2 DEF Register, RegistryTypeOK
  <2> QED BY <2>1, <2>2
<1>3. ASSUME NEW q \in Registries,
             (\E req \in Requests : Call(q, req)) \/ Return(q) \/ ToolError(q)
      PROVE  SameOwner
  <2>1. wiring' = wiring
    BY <1>3, CallOutcomes DEF Deny, RaiseOut, Dispatch, Return, ToolError
  <2> QED BY <1>0, <2>1
<1>4. ASSUME UNCHANGED registryVars PROVE SameOwner
  BY <1>0, <1>4 DEF registryVars
<1> HIDE DEF SameOwner
<1>5. SameOwner
  BY <1>1, <1>2, <1>3, <1>4 DEF Next, RegistryStep, vars
<1> QED BY <1>5, RegistryAssumption DEF Built, SameOwner

(* A registry whose credential is dead stays built, and its credential      *)
(* stays dead: the guard is fixed, and a credential does not revive.        *)
LEMMA GuardStaysDead ==
  ASSUME RegistryInv, [Next]_vars, NEW r \in Registries, Built(r), GuardDead(r)
  PROVE  Built(r)' /\ GuardDead(r)'
<1>1. /\ Built(r)' /\ wiring'[r].cred = wiring[r].cred
  BY WiringFixed DEF Built
<1>2. PICK c \in issued : c = wiring[r].cred
  BY DEF GuardDead, RegistryInv, WiredToIssued
<1>3. ~IsValid(c)
  BY <1>2 DEF GuardDead
<1>4. ~IsValid(c)'
  BY <1>3, BrokerSimulation, NoRevival DEF RegistryInv
<1>5. wiring'[r].cred = c /\ c # NoCredential
  BY <1>1, <1>2 DEF GuardDead
<1>6. GuardDead(r)'
  BY <1>4, <1>5 DEF GuardDead, IsValid
<1> QED BY <1>1, <1>6

-----------------------------------------------------------------------------
(* What one step of the composition can be to registry r.                   *)
Quiet(r) ==
  /\ call'[r] = call[r]
  /\ lateEffects'[r] = lateEffects[r]
  /\ decisions'[r] = decisions[r]

JustifiedDenial(r, d) ==
  /\ d.outcome = "blocked"
  /\ d.reason = "credential_guard_denied" => GuardDead(r)
  /\ d.reason = "external_effect_budget_exhausted" => ~EffectAllowed(wiring[r].tenant)

Denies(r) ==
  /\ Built(r) /\ call[r] = Idle /\ call'[r] = Idle
  /\ lateEffects'[r] = lateEffects[r]
  /\ \E d \in Decision :
       JustifiedDenial(r, d) /\ decisions'[r] = Append(decisions[r], d)

Starts(r) ==
  /\ Built(r) /\ call[r] = Idle
  /\ call'[r] \in External => ~GuardDead(r)
  /\ lateEffects'[r] = lateEffects[r]
  /\ decisions'[r] = decisions[r]

Ends(r) ==
  /\ Built(r) /\ call[r] \in Tools /\ call'[r] = Idle
  /\ lateEffects'[r] = IF call[r] \in External /\ GuardDead(r)
                         THEN lateEffects[r] + 1 ELSE lateEffects[r]
  /\ \E d \in Decision :
       /\ d.tool = call[r] /\ d.reason \in {"ok", "tool_error"}
       /\ decisions'[r] = Append(decisions[r], d)

LEMMA DenyIsDenies ==
  ASSUME RegistryInv, NEW r \in Registries, NEW req \in Requests, NEW reason \in Reasons,
         Built(r), call[r] = Idle, Deny(r, req, reason),
         reason = "credential_guard_denied" => GuardDead(r),
         reason = "external_effect_budget_exhausted" => ~EffectAllowed(wiring[r].tenant)
  PROVE  Denies(r)
<1> DEFINE d == [tool |-> req.tool, outcome |-> "blocked", reason |-> reason]
<1>1. d \in Decision
  BY DEF Requests, Decision, Outcomes
<1>2. decisions'[r] = Append(decisions[r], d)
  BY DEF Deny, Log, RegistryInv, RegistryTypeOK
<1>3. JustifiedDenial(r, d)
  BY DEF JustifiedDenial
<1>4. call' = call /\ lateEffects' = lateEffects
  BY DEF Deny
<1> QED BY <1>1, <1>2, <1>3, <1>4 DEF Denies

LEMMA OwnStep ==
  ASSUME RegistryInv, [Next]_vars, NEW r \in Registries
  PROVE  Quiet(r) \/ Denies(r) \/ Starts(r) \/ Ends(r)
<1> DEFINE Goal == Quiet(r) \/ Denies(r) \/ Starts(r) \/ Ends(r)
<1> USE DEF RegistryInv
<1>1. ASSUME NEW req \in Requests, Call(r, req) PROVE Goal
  <2>1. Built(r) /\ call[r] = Idle /\ wiring[r] \in Wiring
    BY <1>1 DEF Call, Built, RegistryTypeOK
  <2>2. CASE DenyCredential(r, req)
    <3>1. GuardDead(r)
      BY <2>2 DEF DenyCredential, CredentialOk, GuardDead
    <3> QED BY <2>1, <2>2, <3>1, DenyIsDenies DEF DenyCredential, Reasons
  <2>3. CASE DenyBudget(r, req)
    <3>1. ~EffectAllowed(wiring[r].tenant)
      BY <2>3 DEF DenyBudget, BudgetOk
    <3> QED BY <2>1, <2>3, <3>1, DenyIsDenies DEF DenyBudget, Reasons
  <2>4. CASE \/ DenyMalformed(r, req)
             \/ DenyUngranted(r, req)
             \/ BlockEgress(r, req)
             \/ DenyUnknown(r, req)
    BY <2>1, <2>4, DenyIsDenies
    DEF DenyMalformed, DenyUngranted, BlockEgress, DenyUnknown, Reasons
  <2>5. CASE RaiseOut(r, req)
    BY <2>5 DEF RaiseOut, Quiet
  <2>6. CASE Dispatch(r, req)
    <3>1. call'[r] = req.tool /\ CredentialOk(r, req)
      BY <2>6 DEF Dispatch, EgressOk, BudgetOk, RegistryTypeOK
    <3>2. call'[r] \in External => ~GuardDead(r)
      BY <3>1 DEF CredentialOk, GuardDead
    <3> QED BY <2>1, <2>6, <3>2 DEF Dispatch, Starts
  <2> QED BY <1>1, <2>2, <2>3, <2>4, <2>5, <2>6 DEF Call
<1>2. ASSUME Return(r) \/ ToolError(r) PROVE Goal
  <2>1. EndTool(r) /\ Built(r) /\ call[r] \in Tools
    BY <1>2 DEF Return, ToolError, EndTool, RegistryTypeOK, WiredToIssued
  <2>2. /\ call'[r] = Idle
        /\ lateEffects'[r] = IF call[r] \in External /\ GuardDead(r)
                               THEN lateEffects[r] + 1 ELSE lateEffects[r]
    <3>1. lateEffects \in [Registries -> Nat] /\ call \in [Registries -> Tools \union {Idle}]
      BY DEF RegistryTypeOK
    <3>2. CASE call[r] \in External /\ GuardDead(r)
      BY <2>1, <3>1, <3>2 DEF EndTool
    <3>3. CASE ~(call[r] \in External /\ GuardDead(r))
      BY <2>1, <3>1, <3>3 DEF EndTool
    <3> QED BY <3>2, <3>3
  <2>3. PICK o \in Outcomes, reason \in {"ok", "tool_error"} : Log(r, call[r], o, reason)
    BY <1>2 DEF Return, ToolError, Outcomes
  <2> DEFINE d == [tool |-> call[r], outcome |-> o, reason |-> reason]
  <2>4. d \in Decision /\ d.tool = call[r] /\ d.reason \in {"ok", "tool_error"}
    BY <2>1, <2>3 DEF Decision, Reasons
  <2>5. decisions'[r] = Append(decisions[r], d)
    BY <2>3 DEF Log, RegistryTypeOK
  <2> HIDE DEF d
  <2> QED BY <2>1, <2>2, <2>4, <2>5 DEF Ends
<1>3. ASSUME NEW q \in Registries \ {r},
             (\E req \in Requests : Call(q, req)) \/ Return(q) \/ ToolError(q)
      PROVE  Quiet(r)
  BY <1>3, CallOutcomes
  DEF Deny, RaiseOut, Dispatch, Return, ToolError, EndTool, Log, RegistryTypeOK, Quiet
<1>4. CASE UNCHANGED <<call, lateEffects, decisions>>
  BY <1>4 DEF Quiet
<1> QED
  BY <1>1, <1>2, <1>3, <1>4 DEF Next, RegistryStep, Build, Register, registryVars, vars

-----------------------------------------------------------------------------
(* A registry that was late once is late no more: its guard is dead for     *)
(* good and nothing external is running.                                    *)
LateOnce ==
  \A r \in Registries : lateEffects[r] > 0 =>
    lateEffects[r] = 1 /\ Built(r) /\ GuardDead(r) /\ call[r] \notin External

LEMMA LateOnceStep ==
  ASSUME RegistryInv, LateOnce, [Next]_vars
  PROVE  LateOnce'
<1> SUFFICES ASSUME NEW r \in Registries, lateEffects'[r] > 0
             PROVE  /\ lateEffects'[r] = 1 /\ Built(r)' /\ GuardDead(r)'
                    /\ call'[r] \notin External
  BY DEF LateOnce
<1> lateEffects[r] \in Nat
  BY DEF RegistryInv, RegistryTypeOK
<1>1. Built(r) /\ GuardDead(r) => Built(r)' /\ GuardDead(r)'
  BY GuardStaysDead
<1>2. Idle \notin External
  BY RegistryAssumption
<1>3. CASE Quiet(r)
  BY <1>1, <1>3 DEF Quiet, LateOnce
<1>4. CASE Denies(r)
  BY <1>1, <1>2, <1>4 DEF Denies, LateOnce
<1>5. CASE Starts(r)
  BY <1>1, <1>5 DEF Starts, LateOnce
<1>6. CASE Ends(r)
  <2>1. CASE call[r] \in External /\ GuardDead(r)
    BY <1>1, <1>2, <1>6, <2>1 DEF Ends, LateOnce
  <2>2. CASE ~(call[r] \in External /\ GuardDead(r))
    BY <1>1, <1>2, <1>6, <2>2 DEF Ends, LateOnce
  <2> QED BY <2>1, <2>2
<1> QED BY <1>3, <1>4, <1>5, <1>6, OwnStep

(* A credential that dies while a tool runs covers that one call: at most   *)
(* one external effect per registry ends after its credential has died.     *)
THEOREM AtMostOneLateEffectCorrect == Spec => []AtMostOneLateEffect
<1>1. Init => LateOnce
  BY DEF Init, LateOnce
<1>2. RegistryInv /\ LateOnce /\ [Next]_vars => LateOnce'
  BY LateOnceStep
<1>3. RegistryInv /\ LateOnce => AtMostOneLateEffect
  <2> SUFFICES ASSUME RegistryInv, LateOnce, NEW r \in Registries
               PROVE  lateEffects[r] + InFlightLate(r) <= 1
    BY DEF AtMostOneLateEffect
  <2>1. lateEffects[r] \in Nat
    BY DEF RegistryInv, RegistryTypeOK
  <2>2. CASE lateEffects[r] > 0
    BY <2>2 DEF LateOnce, InFlightLate
  <2>3. CASE lateEffects[r] = 0
    BY <2>3 DEF InFlightLate
  <2> QED BY <2>1, <2>2, <2>3
<1> QED BY <1>1, <1>2, <1>3, RegistryInvHolds, PTL DEF Spec

-----------------------------------------------------------------------------
(* An entry of the extended log is an old entry or the new one.             *)
LEMMA AppendEntries ==
  ASSUME NEW S, NEW s \in Seq(S), NEW e \in S
  PROVE  /\ Len(Append(s, e)) = Len(s) + 1
         /\ Append(s, e)[Len(s) + 1] = e
         /\ \A i \in 1 .. Len(s) : Append(s, e)[i] = s[i]
         /\ Len(s) \in Nat
OBVIOUS

(* A tenant whose budget is spent stays without one.                        *)
LEMMA BudgetStaysSpent ==
  ASSUME RegistryInv, [Next]_vars, NEW t \in Tenants, ~EffectAllowed(t)
  PROVE  ~EffectAllowed(t)'
<1>1. EffectCap # Uncapped /\ EffectCap \in Int /\ effectUses \in [Tenants -> Nat]
  BY BrokerAssumption DEF EffectAllowed, UnderCap, RegistryInv, RegistryTypeOK, TypeOK
<1>2. effectUses'[t] >= effectUses[t]
  <2>1. CASE effectUses' = effectUses
    BY <1>1, <2>1
  <2>2. ASSUME NEW u \in Tenants, AllowExternalEffect(u)
        PROVE  effectUses'[t] >= effectUses[t]
    BY <1>1, <2>2 DEF AllowExternalEffect, Counted
  <2> QED BY <2>1, <2>2, EffectStep
<1>3. effectUses'[t] \in Nat
  BY RegistryTypeStep DEF RegistryTypeOK, TypeOK
<1> QED BY <1>1, <1>2, <1>3 DEF EffectAllowed, UnderCap

LEMMA TelemetryStep ==
  ASSUME RegistryInv, TelemetryTruthful, [Next]_vars
  PROVE  TelemetryTruthful'
<1> SUFFICES ASSUME NEW r \in Registries, NEW i \in 1 .. Len(decisions'[r])
             PROVE  /\ decisions'[r][i].reason = "credential_guard_denied" => GuardDead(r)'
                    /\ decisions'[r][i].reason = "external_effect_budget_exhausted" =>
                         ~EffectAllowed(wiring[r].tenant)'
  BY DEF TelemetryTruthful
<1>1. decisions[r] \in Seq(Decision)
  BY DEF RegistryInv, RegistryTypeOK
<1>2. ASSUME Built(r), GuardDead(r) PROVE GuardDead(r)'
  BY <1>2, GuardStaysDead
<1>3. ASSUME Built(r), ~EffectAllowed(wiring[r].tenant)
      PROVE  ~EffectAllowed(wiring[r].tenant)'
  <2>1. PICK t \in Tenants : t = wiring[r].tenant
    BY <1>3 DEF Built, RegistryInv, RegistryTypeOK, Wiring
  <2>2. ~EffectAllowed(t)'
    BY <1>3, <2>1, BudgetStaysSpent
  <2>3. wiring'[r].tenant = t
    BY <1>3, <2>1, WiringFixed
  <2> QED BY <2>2, <2>3 DEF EffectAllowed
<1>4. ASSUME i \in 1 .. Len(decisions[r]), decisions'[r][i] = decisions[r][i]
      PROVE  /\ decisions'[r][i].reason = "credential_guard_denied" => GuardDead(r)'
             /\ decisions'[r][i].reason = "external_effect_budget_exhausted" =>
                  ~EffectAllowed(wiring[r].tenant)'
  <2>1. decisions[r] # << >>
    BY <1>1, <1>4
  <2>2. Built(r)
    BY <2>1 DEF RegistryInv, WiredToIssued
  <2> QED BY <1>2, <1>3, <1>4, <2>2 DEF TelemetryTruthful
<1>5. CASE Quiet(r) \/ Starts(r)
  BY <1>4, <1>5 DEF Quiet, Starts
<1>6. CASE Denies(r)
  <2>1. PICK d \in Decision :
          JustifiedDenial(r, d) /\ decisions'[r] = Append(decisions[r], d)
    BY <1>6 DEF Denies
  <2>2. CASE i \in 1 .. Len(decisions[r])
    BY <1>1, <1>4, <2>1, <2>2, AppendEntries
  <2>3. CASE i \notin 1 .. Len(decisions[r])
    <3>1. decisions'[r][i] = d
      BY <1>1, <2>1, <2>3, AppendEntries
    <3> QED BY <1>2, <1>3, <1>6, <2>1, <3>1 DEF JustifiedDenial, Denies
  <2> QED BY <2>2, <2>3
<1>7. CASE Ends(r)
  <2>1. PICK d \in Decision :
          d.reason \in {"ok", "tool_error"} /\ decisions'[r] = Append(decisions[r], d)
    BY <1>7 DEF Ends
  <2>2. CASE i \in 1 .. Len(decisions[r])
    BY <1>1, <1>4, <2>1, <2>2, AppendEntries
  <2>3. CASE i \notin 1 .. Len(decisions[r])
    <3>1. decisions'[r][i] = d
      BY <1>1, <2>1, <2>3, AppendEntries
    <3> QED BY <2>1, <3>1
  <2> QED BY <2>2, <2>3
<1> QED BY <1>5, <1>6, <1>7, OwnStep

(* The reason a denial is logged under stays true of the broker for ever.   *)
THEOREM TelemetryTruthfulCorrect == Spec => []TelemetryTruthful
<1>1. Init => TelemetryTruthful
  BY DEF Init, TelemetryTruthful
<1>2. RegistryInv /\ TelemetryTruthful /\ [Next]_vars => TelemetryTruthful'
  BY TelemetryStep
<1> QED BY <1>1, <1>2, RegistryInvHolds, PTL DEF Spec

-----------------------------------------------------------------------------
(* A registry that has logged a credential denial runs nothing external.    *)
DeniedRunsNothing ==
  \A r \in Registries : \A i \in 1 .. Len(decisions[r]) :
    decisions[r][i].reason = "credential_guard_denied" => call[r] \notin External

DenialInv == TelemetryTruthful /\ DeniedRunsNothing /\ NoEffectAfterCredentialDenial

LEMMA DeniedRunsNothingStep ==
  ASSUME RegistryInv, DenialInv, [Next]_vars
  PROVE  DeniedRunsNothing'
<1> USE DEF DenialInv
<1> SUFFICES ASSUME NEW r \in Registries, NEW i \in 1 .. Len(decisions'[r]),
                    decisions'[r][i].reason = "credential_guard_denied"
             PROVE  call'[r] \notin External
  BY DEF DeniedRunsNothing
<1>1. CASE Quiet(r)
  BY <1>1 DEF Quiet, DeniedRunsNothing
<1>2. CASE Denies(r) \/ Ends(r)
  BY <1>2, RegistryAssumption DEF Denies, Ends
<1>3. CASE Starts(r)
  <2>1. GuardDead(r)
    BY <1>3 DEF Starts, TelemetryTruthful
  <2> QED BY <1>3, <2>1 DEF Starts
<1> QED BY <1>1, <1>2, <1>3, OwnStep

LEMMA NoEffectAfterStep ==
  ASSUME RegistryInv, DenialInv, [Next]_vars
  PROVE  NoEffectAfterCredentialDenial'
<1> USE DEF DenialInv
<1> SUFFICES ASSUME NEW r \in Registries, NEW i \in 1 .. Len(decisions'[r]),
                    NEW j \in 1 .. Len(decisions'[r]), i < j,
                    decisions'[r][i].reason = "credential_guard_denied",
                    decisions'[r][j].tool \in External
             PROVE  decisions'[r][j].outcome = "blocked"
  BY DEF NoEffectAfterCredentialDenial
<1>1. decisions[r] \in Seq(Decision)
  BY DEF RegistryInv, RegistryTypeOK
<1>2. ASSUME decisions'[r] = decisions[r]
      PROVE  decisions'[r][j].outcome = "blocked"
  BY <1>2 DEF NoEffectAfterCredentialDenial
<1>3. ASSUME NEW d \in Decision, decisions'[r] = Append(decisions[r], d),
             d.outcome = "blocked" \/ d.tool = call[r]
      PROVE  decisions'[r][j].outcome = "blocked"
  <2>1. /\ i \in 1 .. Len(decisions[r]) /\ decisions'[r][i] = decisions[r][i]
        /\ \/ j \in 1 .. Len(decisions[r]) /\ decisions'[r][j] = decisions[r][j]
           \/ decisions'[r][j] = d
    BY <1>1, <1>3, AppendEntries
  <2>2. CASE j \in 1 .. Len(decisions[r]) /\ decisions'[r][j] = decisions[r][j]
    BY <2>1, <2>2 DEF NoEffectAfterCredentialDenial
  <2>3. CASE decisions'[r][j] = d
    <3>1. call[r] \notin External
      BY <2>1 DEF DeniedRunsNothing
    <3> QED BY <1>3, <2>3, <3>1
  <2> QED BY <2>1, <2>2, <2>3
<1>4. CASE Quiet(r) \/ Starts(r)
  BY <1>2, <1>4 DEF Quiet, Starts
<1>5. CASE Denies(r)
  BY <1>3, <1>5 DEF Denies, JustifiedDenial
<1>6. CASE Ends(r)
  BY <1>3, <1>6 DEF Ends
<1> QED BY <1>4, <1>5, <1>6, OwnStep

(* A credential denial is final: the log of the registry shows no external  *)
(* effect after it.                                                         *)
THEOREM NoEffectAfterDenialCorrect == Spec => []NoEffectAfterCredentialDenial
<1>1. Init => DenialInv
  BY DEF Init, DenialInv, TelemetryTruthful, DeniedRunsNothing,
     NoEffectAfterCredentialDenial
<1>2. RegistryInv /\ DenialInv /\ [Next]_vars => DenialInv'
  BY TelemetryStep, DeniedRunsNothingStep, NoEffectAfterStep DEF DenialInv
<1>3. DenialInv => NoEffectAfterCredentialDenial
  BY DEF DenialInv
<1> QED BY <1>1, <1>2, <1>3, RegistryInvHolds, PTL DEF Spec

-----------------------------------------------------------------------------
(* Every secret that exists is registered, so no scanned text holds one.    *)
Redacted == BackingSecrets \union Minted \subseteq registered /\ seen = {}

LEMMA RedactedStep ==
  ASSUME RegistryInv, Redacted, [Next]_vars
  PROVE  Redacted'
<1> USE DEF Redacted
<1>1. [BrokerNext]_brokerVars
  BY BrokerSimulation DEF RegistryInv
<1>2. (BackingSecrets \union Minted \subseteq registered)'
  <2>1. ASSUME NEW t \in Tenants, NEW ttl \in Ttls, IssueToolCredential(t, ttl)
        PROVE  (BackingSecrets \union Minted \subseteq registered)'
    BY <2>1 DEF IssueToolCredential, Minted
  <2>2. CASE UNCHANGED <<issued, registered>>
    BY <2>2 DEF Minted
  <2> QED
    BY <1>1, <2>1, <2>2
    DEF BrokerNext, HostStep, Revoke, UseModelKey, AllowExternalEffect, Tick, brokerVars
<1>3. seen' = {}
  <2>1. ASSUME NEW r \in Registries, Return(r) PROVE seen' = {}
    BY <2>1 DEF Return, Scan
  <2>2. ASSUME NEW r \in Registries,
               (\E req \in Requests : Call(r, req)) \/ Build(r)
                 \/ (\E tool \in Pluggable : Register(r, tool)) \/ ToolError(r)
        PROVE  seen' = seen
    BY <2>2, CallOutcomes DEF Deny, RaiseOut, Dispatch, Build, Register, ToolError
  <2> QED BY <2>1, <2>2 DEF Next, RegistryStep, registryVars, vars
<1> QED BY <1>2, <1>3

(* No existing secret reaches an agent through a tool result.               *)
THEOREM NoSecretSeenCorrect == Spec => []NoSecretSeen
<1>1. Init => Redacted
  BY DEF Init, BrokerInit, Redacted, Minted
<1>2. RegistryInv /\ Redacted /\ [Next]_vars => Redacted'
  BY RedactedStep
<1>3. Redacted => NoSecretSeen
  BY DEF Redacted, NoSecretSeen
<1> QED BY <1>1, <1>2, <1>3, RegistryInvHolds, PTL DEF Spec

(***************************************************************************)
(* The effect budget as a ledger: for any finite number of registries, the  *)
(* broker's counter of a tenant is the number of calls its registries have  *)
(* let past the budget guard.  The ledger counts slots of the logs, so the  *)
(* argument is about which slot, if any, each step adds.                    *)
(***************************************************************************)

Mine(t) ==
  {r \in Registries : Built(r) /\ wiring[r].tenant = t /\ wiring[r].budgeted}

Slots(t) == Mine(t) \X (1 .. MaxCalls)

ChargedEntry(q, i) ==
  /\ i <= Len(decisions[q])
  /\ decisions[q][i].tool \in External
  /\ decisions[q][i].reason \in ChargedReasons

(* The three parts of ChargedCalls.                                         *)
Logged(t) == {s \in Slots(t) : ChargedEntry(s[1], s[2])}
RaisedSlots(t) == {s \in Slots(t) : s[2] <= raised[s[1]]}
Running(t) == {r \in Mine(t) : call[r] \in External}

LEMMA ChargedCallsParts ==
  ASSUME NEW t
  PROVE  ChargedCalls(t) =
           Cardinality(Logged(t)) + Cardinality(RaisedSlots(t)) + Cardinality(Running(t))
BY DEF ChargedCalls, Logged, RaisedSlots, Running, Slots, Mine, ChargedEntry

(* A registry has a slot for every call: those it has logged, those that    *)
(* raised, and the one it runs.                                             *)
SlotsLeft ==
  \A r \in Registries :
    /\ Len(decisions[r]) + raised[r] <= MaxCalls
    /\ call[r] # Idle => Len(decisions[r]) + raised[r] < MaxCalls
    /\ ~Built(r) => raised[r] = 0

LEMMA PartsAreFinite ==
  ASSUME IsFiniteSet(Registries), NEW t
  PROVE  IsFiniteSet(Logged(t)) /\ IsFiniteSet(RaisedSlots(t)) /\ IsFiniteSet(Running(t))
<1>1. IsFiniteSet(Mine(t))
  BY FS_Subset DEF Mine
<1>2. IsFiniteSet(1 .. MaxCalls)
  BY FS_Interval, RegistryAssumption
<1>3. IsFiniteSet(Slots(t))
  BY <1>1, <1>2, FS_Product DEF Slots
<1>4. Logged(t) \subseteq Slots(t) /\ RaisedSlots(t) \subseteq Slots(t) /\ Running(t) \subseteq Mine(t)
  BY DEF Logged, RaisedSlots, Running
<1> QED BY <1>1, <1>3, <1>4, FS_Subset

LEMMA OneMore ==
  ASSUME NEW S, NEW x, IsFiniteSet(S), x \notin S
  PROVE  Cardinality(S \union {x}) = Cardinality(S) + 1 /\ Cardinality(S) \in Nat
BY FS_AddElement, FS_CardinalityType

LEMMA OneLess ==
  ASSUME NEW S, NEW x, IsFiniteSet(S), x \in S
  PROVE  Cardinality(S \ {x}) = Cardinality(S) - 1 /\ Cardinality(S) \in Nat
BY FS_RemoveElement, FS_CardinalityType

-----------------------------------------------------------------------------
(* What an entry added to the log of r adds to the ledger.                  *)
LEMMA LogAdds ==
  ASSUME RegistryInv, SlotsLeft, NEW r \in Registries, NEW tool \in Tools,
         NEW o \in Outcomes, NEW reason \in Reasons, Log(r, tool, o, reason),
         wiring' = wiring, NEW t, Len(decisions[r]) < MaxCalls
  PROVE  LET x == <<r, Len(decisions[r]) + 1>>
         IN  /\ x \notin Logged(t)
             /\ r \in Mine(t) /\ tool \in External /\ reason \in ChargedReasons
                  => Logged(t)' = Logged(t) \union {x}
             /\ ~(r \in Mine(t) /\ tool \in External /\ reason \in ChargedReasons)
                  => Logged(t)' = Logged(t)
<1> DEFINE n == Len(decisions[r])
           e == [tool |-> tool, outcome |-> o, reason |-> reason]
           x == <<r, n + 1>>
           Due == r \in Mine(t) /\ tool \in External /\ reason \in ChargedReasons
<1>1. /\ decisions \in [Registries -> Seq(Decision)]
      /\ e \in Decision
      /\ decisions' = [decisions EXCEPT ![r] = Append(decisions[r], e)]
  BY DEF RegistryInv, RegistryTypeOK, Log, Decision
<1>2. decisions[r] \in Seq(Decision) /\ n \in Nat /\ n < MaxCalls /\ MaxCalls \in Nat
  BY <1>1, RegistryAssumption
<1>3. decisions'[r] = Append(decisions[r], e) /\ \A q \in Registries \ {r} : decisions'[q] = decisions[q]
  BY <1>1
<1>4. /\ Len(decisions'[r]) = n + 1
      /\ decisions'[r][n + 1] = e
      /\ \A i \in 1 .. n : decisions'[r][i] = decisions[r][i]
  BY <1>1, <1>2, <1>3, AppendEntries
<1>5. e.tool = tool /\ e.reason = reason /\ Len(decisions[r]) = n
  OBVIOUS
<1> HIDE DEF e, n
<1>6. ASSUME NEW q \in Registries \ {r}, NEW i
      PROVE  ChargedEntry(q, i)' <=> ChargedEntry(q, i)
  BY <1>3 DEF ChargedEntry
<1>7. ASSUME NEW i \in 1 .. MaxCalls
      PROVE  ChargedEntry(r, i)' <=>
               \/ ChargedEntry(r, i)
               \/ i = n + 1 /\ tool \in External /\ reason \in ChargedReasons
  <2>1. CASE i \in 1 .. n
    <3>1. i <= n /\ i <= n + 1 /\ i # n + 1 /\ decisions'[r][i] = decisions[r][i]
      BY <1>2, <1>4, <2>1
    <3>2. Len(decisions'[r]) = n + 1 /\ Len(decisions[r]) = n
      BY <1>4, <1>5
    <3>3. ChargedEntry(r, i)' <=> ChargedEntry(r, i)
      BY <3>1, <3>2 DEF ChargedEntry
    <3> QED BY <3>1, <3>3
  <2>2. CASE i = n + 1
    BY <1>2, <1>4, <1>5, <2>2 DEF ChargedEntry
  <2>3. CASE i > n + 1
    BY <1>2, <1>4, <1>5, <2>3 DEF ChargedEntry
  <2> QED BY <1>2, <2>1, <2>2, <2>3
<1>8. ~ChargedEntry(r, n + 1)
  BY <1>2, <1>5 DEF ChargedEntry
<1>9. Mine(t)' = Mine(t) /\ Slots(t)' = Slots(t) /\ Mine(t) \subseteq Registries
  BY DEF Mine, Slots, Built
<1>10. x \notin Logged(t)
  BY <1>8 DEF Logged
<1>11. n + 1 \in 1 .. MaxCalls
  BY <1>2
<1>12. CASE Due
  <2>1. x \in Slots(t)
    BY <1>11, <1>12 DEF Slots
  <2>2. ASSUME NEW s \in Slots(t)
        PROVE  ChargedEntry(s[1], s[2])' <=> ChargedEntry(s[1], s[2]) \/ s = x
    <3>1. PICK q \in Mine(t) : \E i \in 1 .. MaxCalls : s = <<q, i>>
      BY DEF Slots
    <3>2. PICK i \in 1 .. MaxCalls : s = <<q, i>>
      BY <3>1
    <3>3. s = x <=> q = r /\ i = n + 1
      BY <3>2
    <3> QED BY <1>6, <1>7, <1>9, <1>12, <3>2, <3>3
  <2> HIDE DEF x
  <2>3. Logged(t)' = {s \in Slots(t) : ChargedEntry(s[1], s[2])'}
    BY <1>9 DEF Logged
  <2>4. Logged(t)' = Logged(t) \union {x}
    BY <2>1, <2>2, <2>3 DEF Logged
  <2> QED BY <1>10, <1>12, <2>4 DEF x, n
<1>13. CASE ~Due
  <2>1. ASSUME NEW s \in Slots(t)
        PROVE  ChargedEntry(s[1], s[2])' <=> ChargedEntry(s[1], s[2])
    <3>1. PICK q \in Mine(t) : \E i \in 1 .. MaxCalls : s = <<q, i>>
      BY DEF Slots
    <3>2. PICK i \in 1 .. MaxCalls : s = <<q, i>>
      BY <3>1
    <3>3. CASE q = r
      <4>1. ~(tool \in External /\ reason \in ChargedReasons)
        BY <1>13, <3>3
      <4>2. ChargedEntry(r, i)' <=> ChargedEntry(r, i)
        BY <1>7, <4>1
      <4> QED BY <3>2, <3>3, <4>2
    <3>4. CASE q # r
      BY <1>6, <1>9, <3>2, <3>4
    <3> QED BY <3>3, <3>4
  <2>2. Logged(t)' = {s \in Slots(t) : ChargedEntry(s[1], s[2])'}
    BY <1>9 DEF Logged
  <2>3. Logged(t)' = Logged(t)
    BY <2>1, <2>2 DEF Logged
  <2> QED BY <1>10, <1>13, <2>3 DEF n
<1> QED BY <1>12, <1>13

(* What a call that raised adds.                                            *)
LEMMA RaiseAdds ==
  ASSUME RegistryInv, NEW r \in Registries, raised' = [raised EXCEPT ![r] = @ + 1],
         wiring' = wiring, NEW t, raised[r] < MaxCalls
  PROVE  LET x == <<r, raised[r] + 1>>
         IN  /\ x \notin RaisedSlots(t)
             /\ r \in Mine(t) => RaisedSlots(t)' = RaisedSlots(t) \union {x}
             /\ r \notin Mine(t) => RaisedSlots(t)' = RaisedSlots(t)
<1> DEFINE x == <<r, raised[r] + 1>>
<1>1. raised \in [Registries -> Nat] /\ MaxCalls \in Nat
  BY RegistryAssumption DEF RegistryInv, RegistryTypeOK
<1>2. Slots(t)' = Slots(t) /\ Mine(t) \subseteq Registries
  BY DEF Mine, Slots, Built
<1>3. x \notin RaisedSlots(t)
  BY <1>1 DEF RaisedSlots
<1>4. ASSUME NEW s \in Slots(t)
      PROVE  s[2] <= raised'[s[1]] <=> s[2] <= raised[s[1]] \/ s = x
  <2>1. PICK q \in Mine(t) : \E i \in 1 .. MaxCalls : s = <<q, i>>
    BY DEF Slots
  <2>2. PICK i \in 1 .. MaxCalls : s = <<q, i>>
    BY <2>1
  <2>3. CASE q = r
    <3>1. raised'[q] = raised[r] + 1 /\ (s = x <=> i = raised[r] + 1)
      BY <1>1, <2>2, <2>3
    <3> QED BY <1>1, <2>2, <2>3, <3>1
  <2>4. CASE q # r
    BY <1>1, <1>2, <2>2, <2>4
  <2> QED BY <2>3, <2>4
<1>5. RaisedSlots(t)' = {s \in Slots(t) : s[2] <= raised'[s[1]]}
  BY <1>2 DEF RaisedSlots
<1>6. CASE r \in Mine(t)
  <2>1. x \in Slots(t)
    BY <1>1, <1>6 DEF Slots
  <2> HIDE DEF x
  <2>2. RaisedSlots(t)' = RaisedSlots(t) \union {x}
    BY <1>4, <1>5, <2>1 DEF RaisedSlots
  <2> QED BY <1>3, <1>6, <2>2 DEF x
<1>7. CASE r \notin Mine(t)
  <2>1. x \notin Slots(t)
    BY <1>7 DEF Slots
  <2> HIDE DEF x
  <2>2. RaisedSlots(t)' = RaisedSlots(t)
    BY <1>4, <1>5, <2>1 DEF RaisedSlots
  <2> QED BY <1>3, <1>7, <2>2 DEF x
<1> QED BY <1>6, <1>7

(* What a tool adds while it runs.                                          *)
LEMMA RunAdds ==
  ASSUME RegistryInv, NEW r \in Registries, NEW tool \in Tools, call[r] = Idle,
         call' = [call EXCEPT ![r] = tool], wiring' = wiring, NEW t
  PROVE  /\ r \notin Running(t)
         /\ r \in Mine(t) /\ tool \in External => Running(t)' = Running(t) \union {r}
         /\ ~(r \in Mine(t) /\ tool \in External) => Running(t)' = Running(t)
<1>1. call \in [Registries -> Tools \union {Idle}]
  BY DEF RegistryInv, RegistryTypeOK
<1>2. Mine(t)' = Mine(t) /\ Mine(t) \subseteq Registries /\ Idle \notin External
  BY RegistryAssumption DEF Mine, Built
<1>3. \A q \in Registries : call'[q] = IF q = r THEN tool ELSE call[q]
  BY <1>1
<1> QED BY <1>2, <1>3 DEF Running

LEMMA RunEnds ==
  ASSUME RegistryInv, NEW r \in Registries, call' = [call EXCEPT ![r] = Idle],
         wiring' = wiring, NEW t
  PROVE  Running(t)' = Running(t) \ {r}
<1>1. call \in [Registries -> Tools \union {Idle}]
  BY DEF RegistryInv, RegistryTypeOK
<1>2. Mine(t)' = Mine(t) /\ Mine(t) \subseteq Registries /\ Idle \notin External
  BY RegistryAssumption DEF Mine, Built
<1>3. \A q \in Registries : call'[q] = IF q = r THEN Idle ELSE call[q]
  BY <1>1
<1> QED BY <1>2, <1>3 DEF Running

(* What the guard charges.                                                  *)
LEMMA ChargeCounts ==
  ASSUME RegistryInv, NEW r \in Registries, Built(r), NEW tool \in Tools, Charge(r, tool),
         EffectCap # Uncapped, NEW t \in Tenants
  PROVE  /\ r \in Mine(t) /\ tool \in External => effectUses'[t] = effectUses[t] + 1
         /\ ~(r \in Mine(t) /\ tool \in External) => effectUses'[t] = effectUses[t]
<1>1. effectUses \in [Tenants -> Nat] /\ wiring[r].tenant \in Tenants
  BY DEF RegistryInv, RegistryTypeOK, TypeOK, Built, Wiring
<1>2. CASE Charged(r, tool)
  <2>1. effectUses' = [effectUses EXCEPT ![wiring[r].tenant] = @ + 1]
    BY <1>2 DEF Charge, AllowExternalEffect, Counted
  <2>2. tool \in External /\ wiring[r].budgeted
    BY <1>2 DEF Charged
  <2>3. r \in Mine(t) <=> wiring[r].tenant = t
    BY <2>2 DEF Mine
  <2> QED BY <1>1, <2>1, <2>2, <2>3
<1>3. CASE ~Charged(r, tool)
  <2>1. effectUses' = effectUses
    BY <1>3 DEF Charge, brokerVars
  <2>2. ~(r \in Mine(t) /\ tool \in External)
    BY <1>3 DEF Charged, Mine
  <2> QED BY <2>1, <2>2
<1> QED BY <1>2, <1>3

-----------------------------------------------------------------------------
LEMMA SlotsLeftStep ==
  ASSUME RegistryInv, SlotsLeft, [Next]_vars
  PROVE  SlotsLeft'
<1> USE DEF RegistryInv
<1>1. /\ decisions \in [Registries -> Seq(Decision)]
      /\ raised \in [Registries -> Nat]
      /\ call \in [Registries -> Tools \union {Idle}]
      /\ MaxCalls \in Nat
  BY RegistryAssumption DEF RegistryTypeOK
<1>2. \A r \in Registries : Len(decisions[r]) \in Nat
  BY <1>1
<1>3. ASSUME NEW r \in Registries, NEW tool \in Tools, NEW o \in Outcomes,
             NEW reason \in Reasons, Log(r, tool, o, reason)
      PROVE  \A q \in Registries : Len(decisions'[q]) =
               IF q = r THEN Len(decisions[q]) + 1 ELSE Len(decisions[q])
  <2>1. decisions'[r] = Append(decisions[r], [tool |-> tool, outcome |-> o, reason |-> reason])
    BY <1>1, <1>3 DEF Log
  <2>2. [tool |-> tool, outcome |-> o, reason |-> reason] \in Decision
    BY DEF Decision
  <2>3. Len(decisions'[r]) = Len(decisions[r]) + 1
    BY <1>1, <2>1, <2>2, AppendEntries
  <2>4. \A q \in Registries \ {r} : decisions'[q] = decisions[q]
    BY <1>1, <1>3 DEF Log
  <2> QED BY <2>3, <2>4
<1>4. ASSUME NEW r \in Registries, NEW req \in Requests, Call(r, req) PROVE SlotsLeft'
  <2>1. /\ req.tool \in Tools /\ Built(r) /\ call[r] = Idle
        /\ Len(decisions[r]) + raised[r] < MaxCalls
    BY <1>4 DEF Call, Requests
  <2>2. ASSUME NEW reason \in Reasons, Deny(r, req, reason) PROVE SlotsLeft'
    <3>1. \A q \in Registries : Len(decisions'[q]) =
            IF q = r THEN Len(decisions[q]) + 1 ELSE Len(decisions[q])
      BY <1>3, <2>1, <2>2 DEF Deny, Outcomes
    <3>2. wiring' = wiring /\ call' = call /\ raised' = raised
      BY <2>2 DEF Deny
    <3>3. SUFFICES ASSUME NEW q \in Registries
                   PROVE  /\ Len(decisions'[q]) + raised[q] <= MaxCalls
                          /\ call[q] # Idle => Len(decisions'[q]) + raised[q] < MaxCalls
                          /\ ~Built(q) => raised[q] = 0
      BY <3>2 DEF SlotsLeft, Built
    <3>4. CASE q = r
      BY <1>1, <1>2, <2>1, <3>1, <3>4
    <3>5. CASE q # r
      BY <3>1, <3>5 DEF SlotsLeft
    <3> QED BY <3>4, <3>5
  <2>3. CASE RaiseOut(r, req)
    <3>1. /\ wiring' = wiring /\ call' = call /\ decisions' = decisions
          /\ \A q \in Registries : raised'[q] = IF q = r THEN raised[q] + 1 ELSE raised[q]
      BY <1>1, <2>3 DEF RaiseOut
    <3> QED BY <1>1, <1>2, <2>1, <3>1 DEF SlotsLeft, Built
  <2>4. CASE Dispatch(r, req)
    <3>1. /\ wiring' = wiring /\ raised' = raised /\ decisions' = decisions
          /\ \A q \in Registries : q # r => call'[q] = call[q]
      BY <1>1, <2>4 DEF Dispatch
    <3> QED BY <1>1, <1>2, <2>1, <3>1 DEF SlotsLeft, Built
  <2> QED BY <1>4, <2>2, <2>3, <2>4, CallOutcomes
<1>5. ASSUME NEW r \in Registries, Return(r) \/ ToolError(r) PROVE SlotsLeft'
  <2>1. PICK o \in Outcomes, reason \in Reasons : Log(r, call[r], o, reason)
    BY <1>5 DEF Return, ToolError, Outcomes, Reasons
  <2>2. /\ call[r] \in Tools /\ call[r] # Idle
        /\ \A q \in Registries : call'[q] = IF q = r THEN Idle ELSE call[q]
        /\ wiring' = wiring /\ raised' = raised
    BY <1>1, <1>5 DEF Return, ToolError, EndTool
  <2>3. \A q \in Registries : Len(decisions'[q]) =
          IF q = r THEN Len(decisions[q]) + 1 ELSE Len(decisions[q])
    BY <1>3, <2>1, <2>2
  <2> QED BY <1>1, <1>2, <2>2, <2>3 DEF SlotsLeft, Built
<1>6. ASSUME NEW r \in Registries, Build(r) \/ \E tool \in Pluggable : Register(r, tool)
      PROVE  SlotsLeft'
  <2>1. UNCHANGED <<call, decisions, raised>>
    BY <1>6 DEF Build, Register
  <2>2. \A q \in Registries : Built(q) => Built(q)'
    <3>1. ASSUME NEW q \in Registries, Built(q) PROVE Built(q)'
      BY <3>1, <1>6, WiringFixed DEF Next, RegistryStep
    <3> QED BY <3>1
  <2> QED BY <2>1, <2>2 DEF SlotsLeft
<1>7. CASE UNCHANGED registryVars
  BY <1>7 DEF registryVars, SlotsLeft, Built
<1> QED BY <1>4, <1>5, <1>6, <1>7 DEF Next, RegistryStep, vars

-----------------------------------------------------------------------------
LedgerInv == SlotsLeft /\ BudgetLedgerExact

(* Two of the three parts stay, and the third grows with the counter.       *)
LEMMA LedgerStep ==
  ASSUME IsFiniteSet(Registries), RegistryInv, LedgerInv, [Next]_vars,
         EffectCap # Uncapped, NEW t \in Tenants
  PROVE  effectUses'[t] = ChargedCalls(t)'
<1> DEFINE Goal == effectUses'[t] = ChargedCalls(t)'
<1> USE DEF RegistryInv
<1>1. /\ decisions \in [Registries -> Seq(Decision)]
      /\ raised \in [Registries -> Nat]
      /\ call \in [Registries -> Tools \union {Idle}]
      /\ wiring \in [Registries -> Wiring \union {Unbuilt}]
      /\ effectUses \in [Tenants -> Nat]
      /\ MaxCalls \in Nat
      /\ Idle \notin External
  BY RegistryAssumption DEF RegistryTypeOK, TypeOK
<1>2. \A r \in Registries : Len(decisions[r]) \in Nat
  BY <1>1
<1>3. effectUses[t] =
        Cardinality(Logged(t)) + Cardinality(RaisedSlots(t)) + Cardinality(Running(t))
  BY ChargedCallsParts DEF LedgerInv, BudgetLedgerExact
<1>4. ChargedCalls(t)' =
        Cardinality(Logged(t)') + Cardinality(RaisedSlots(t)') + Cardinality(Running(t)')
  BY DEF ChargedCalls, Logged, RaisedSlots, Running, Slots, Mine, ChargedEntry
<1>5. /\ IsFiniteSet(Logged(t)) /\ Cardinality(Logged(t)) \in Nat
      /\ IsFiniteSet(RaisedSlots(t)) /\ Cardinality(RaisedSlots(t)) \in Nat
      /\ IsFiniteSet(Running(t)) /\ Cardinality(Running(t)) \in Nat
  BY PartsAreFinite, FS_CardinalityType
<1> DEFINE SameParts == /\ Logged(t)' = Logged(t)
                        /\ RaisedSlots(t)' = RaisedSlots(t)
                        /\ Running(t)' = Running(t)
<1>6. ASSUME SameParts, effectUses'[t] = effectUses[t] PROVE Goal
  BY <1>3, <1>4, <1>6
<1> HIDE DEF SameParts
<1>7. ASSUME wiring' = wiring
      PROVE  /\ decisions' = decisions => Logged(t)' = Logged(t)
             /\ raised' = raised => RaisedSlots(t)' = RaisedSlots(t)
             /\ call' = call => Running(t)' = Running(t)
  BY <1>7 DEF Logged, RaisedSlots, Running, Slots, Mine, Built, ChargedEntry
<1>8. ASSUME NEW r \in Registries, NEW req \in Requests, Call(r, req) PROVE Goal
  <2>1. /\ req.tool \in Tools /\ Built(r) /\ call[r] = Idle
        /\ Len(decisions[r]) + raised[r] < MaxCalls
        /\ Len(decisions[r]) \in Nat /\ raised[r] \in Nat
    BY <1>1, <1>2, <1>8 DEF Call, Requests
  <2>2. Len(decisions[r]) < MaxCalls /\ raised[r] < MaxCalls
    BY <1>1, <2>1
  <2>3. ASSUME NEW reason \in Reasons \ ChargedReasons, Deny(r, req, reason), UNCHANGED brokerVars
        PROVE  Goal
    <3>1. Logged(t)' = Logged(t)
      BY <2>1, <2>2, <2>3, LogAdds DEF Deny, Outcomes, LedgerInv
    <3>2. RaisedSlots(t)' = RaisedSlots(t) /\ Running(t)' = Running(t)
      BY <1>7, <2>3 DEF Deny
    <3>3. effectUses' = effectUses
      BY <2>3 DEF brokerVars
    <3> QED BY <1>6, <3>1, <3>2, <3>3 DEF SameParts
  <2>4. ASSUME NEW reason \in ChargedReasons, Deny(r, req, reason), Charge(r, req.tool)
        PROVE  Goal
    <3>1. reason \in Reasons
      BY DEF ChargedReasons, Reasons
    <3>2. RaisedSlots(t)' = RaisedSlots(t) /\ Running(t)' = Running(t)
      BY <1>7, <2>4 DEF Deny
    <3>3. CASE r \in Mine(t) /\ req.tool \in External
      <4> DEFINE x == <<r, Len(decisions[r]) + 1>>
      <4>1. x \notin Logged(t) /\ Logged(t)' = Logged(t) \union {x}
        BY <2>1, <2>2, <2>4, <3>1, <3>3, LogAdds DEF Deny, Outcomes, LedgerInv
      <4> HIDE DEF x
      <4>2. Cardinality(Logged(t)') = Cardinality(Logged(t)) + 1
        BY <1>5, <4>1, OneMore
      <4>3. effectUses'[t] = effectUses[t] + 1
        BY <2>1, <2>4, <3>3, ChargeCounts
      <4> QED BY <1>3, <1>4, <1>5, <3>2, <4>2, <4>3
    <3>4. CASE ~(r \in Mine(t) /\ req.tool \in External)
      <4>1. Logged(t)' = Logged(t)
        BY <2>1, <2>2, <2>4, <3>1, <3>4, LogAdds DEF Deny, Outcomes, LedgerInv
      <4>2. effectUses'[t] = effectUses[t]
        BY <2>1, <2>4, <3>4, ChargeCounts
      <4> QED BY <1>6, <3>2, <4>1, <4>2 DEF SameParts
    <3> QED BY <3>3, <3>4
  <2>5. CASE RaiseOut(r, req)
    <3>1. req.tool \in External /\ Charge(r, req.tool)
      BY <2>5, RegistryAssumption DEF RaiseOut, EgressOk
    <3>2. Logged(t)' = Logged(t) /\ Running(t)' = Running(t)
      BY <1>7, <2>5 DEF RaiseOut
    <3>3. wiring' = wiring /\ raised' = [raised EXCEPT ![r] = @ + 1]
      BY <2>5 DEF RaiseOut
    <3>4. CASE r \in Mine(t)
      <4> DEFINE x == <<r, raised[r] + 1>>
      <4>1. x \notin RaisedSlots(t) /\ RaisedSlots(t)' = RaisedSlots(t) \union {x}
        BY <2>2, <3>3, <3>4, RaiseAdds
      <4> HIDE DEF x
      <4>2. Cardinality(RaisedSlots(t)') = Cardinality(RaisedSlots(t)) + 1
        BY <1>5, <4>1, OneMore
      <4>3. effectUses'[t] = effectUses[t] + 1
        BY <2>1, <3>1, <3>4, ChargeCounts
      <4> QED BY <1>3, <1>4, <1>5, <3>2, <4>2, <4>3
    <3>5. CASE r \notin Mine(t)
      <4>1. RaisedSlots(t)' = RaisedSlots(t)
        BY <2>2, <3>3, <3>5, RaiseAdds
      <4>2. effectUses'[t] = effectUses[t]
        BY <2>1, <3>1, <3>5, ChargeCounts
      <4> QED BY <1>6, <3>2, <4>1, <4>2 DEF SameParts
    <3> QED BY <3>4, <3>5
  <2>6. CASE Dispatch(r, req)
    <3>1. Logged(t)' = Logged(t) /\ RaisedSlots(t)' = RaisedSlots(t)
      BY <1>7, <2>6 DEF Dispatch
    <3>2. /\ wiring' = wiring /\ call' = [call EXCEPT ![r] = req.tool]
          /\ Charge(r, req.tool)
      BY <2>6 DEF Dispatch
    <3>3. CASE r \in Mine(t) /\ req.tool \in External
      <4>1. r \notin Running(t) /\ Running(t)' = Running(t) \union {r}
        BY <2>1, <3>2, <3>3, RunAdds
      <4>2. Cardinality(Running(t)') = Cardinality(Running(t)) + 1
        BY <1>5, <4>1, OneMore
      <4>3. effectUses'[t] = effectUses[t] + 1
        BY <2>1, <3>2, <3>3, ChargeCounts
      <4> QED BY <1>3, <1>4, <1>5, <3>1, <4>2, <4>3
    <3>4. CASE ~(r \in Mine(t) /\ req.tool \in External)
      <4>1. Running(t)' = Running(t)
        BY <2>1, <3>2, <3>4, RunAdds
      <4>2. effectUses'[t] = effectUses[t]
        BY <2>1, <3>2, <3>4, ChargeCounts
      <4> QED BY <1>6, <3>1, <4>1, <4>2 DEF SameParts
    <3> QED BY <3>3, <3>4
  <2> HIDE DEF Goal
  <2>7. CASE \/ DenyMalformed(r, req)
             \/ DenyUngranted(r, req)
             \/ DenyCredential(r, req)
             \/ DenyBudget(r, req)
    BY <2>3, <2>7
    DEF DenyMalformed, DenyUngranted, DenyCredential, DenyBudget, Reasons, ChargedReasons
  <2>8. CASE BlockEgress(r, req) \/ DenyUnknown(r, req)
    BY <2>4, <2>8 DEF BlockEgress, DenyUnknown, ChargedReasons
  <2>9. Goal
    BY <1>8, <2>5, <2>6, <2>7, <2>8 DEF Call, Goal
  <2> QED BY <2>9 DEF Goal
<1>9. ASSUME NEW r \in Registries, Return(r) \/ ToolError(r) PROVE Goal
  <2>1. PICK o \in Outcomes, reason \in {"ok", "tool_error"} : Log(r, call[r], o, reason)
    BY <1>9 DEF Return, ToolError, Outcomes
  <2>2. /\ call[r] \in Tools /\ reason \in ChargedReasons /\ reason \in Reasons
        /\ call' = [call EXCEPT ![r] = Idle]
        /\ wiring' = wiring /\ raised' = raised /\ UNCHANGED brokerVars
        /\ Len(decisions[r]) < MaxCalls
    <3>1. call[r] # Idle /\ call' = [call EXCEPT ![r] = Idle] /\ call[r] \in Tools
      BY <1>1, <1>9 DEF Return, ToolError, EndTool
    <3>2. wiring' = wiring /\ raised' = raised /\ UNCHANGED brokerVars
      BY <1>9 DEF Return, ToolError
    <3>3. Len(decisions[r]) + raised[r] < MaxCalls
      BY <3>1 DEF LedgerInv, SlotsLeft
    <3>4. Len(decisions[r]) < MaxCalls
      BY <1>1, <1>2, <3>3
    <3> QED BY <3>1, <3>2, <3>4 DEF ChargedReasons, Reasons
  <2>3. RaisedSlots(t)' = RaisedSlots(t) /\ effectUses' = effectUses
    BY <1>7, <2>2 DEF brokerVars
  <2>4. Running(t)' = Running(t) \ {r}
    BY <2>2, RunEnds
  <2>5. r \in Running(t) <=> r \in Mine(t) /\ call[r] \in External
    BY DEF Running
  <2>6. CASE r \in Mine(t) /\ call[r] \in External
    <3> DEFINE x == <<r, Len(decisions[r]) + 1>>
    <3>1. x \notin Logged(t) /\ Logged(t)' = Logged(t) \union {x}
      BY <2>1, <2>2, <2>6, LogAdds DEF LedgerInv
    <3> HIDE DEF x
    <3>2. Cardinality(Logged(t)') = Cardinality(Logged(t)) + 1
      BY <1>5, <3>1, OneMore
    <3>3. Cardinality(Running(t)') = Cardinality(Running(t)) - 1
      BY <1>5, <2>4, <2>5, <2>6, OneLess
    <3> QED BY <1>3, <1>4, <1>5, <2>3, <3>2, <3>3
  <2>7. CASE ~(r \in Mine(t) /\ call[r] \in External)
    <3>1. Logged(t)' = Logged(t)
      BY <2>1, <2>2, <2>7, LogAdds DEF LedgerInv
    <3>2. Running(t)' = Running(t)
      BY <2>4, <2>5, <2>7
    <3> QED BY <1>6, <2>3, <3>1, <3>2 DEF SameParts
  <2> QED BY <2>6, <2>7
<1>10. ASSUME NEW r \in Registries, NEW tool \in Pluggable, Register(r, tool) PROVE Goal
  <2>1. UNCHANGED <<call, decisions, raised>> /\ effectUses' = effectUses
    BY <1>10 DEF Register, brokerVars
  <2>2. Mine(t)' = Mine(t)
    <3>1. ASSUME NEW q \in Registries PROVE q \in Mine(t)' <=> q \in Mine(t)
      <4>1. CASE q = r
        <5>1. wiring'[r] = [wiring[r] EXCEPT !.tools = @ \union {tool}] /\ wiring[r] \in Wiring
          BY <1>1, <1>10 DEF Register, Built
        <5>2. /\ wiring'[r].tenant = wiring[r].tenant
              /\ wiring'[r].budgeted = wiring[r].budgeted
              /\ wiring'[r] \in Wiring
          BY <5>1, RegistryAssumption DEF Wiring
        <5> QED BY <1>10, <4>1, <5>2, RegistryAssumption DEF Mine, Built, Register
      <4>2. CASE q # r
        BY <1>1, <1>10, <4>2 DEF Register, Mine, Built
      <4> QED BY <4>1, <4>2
    <3> QED BY <3>1 DEF Mine
  <2>3. SameParts
    BY <2>1, <2>2 DEF SameParts, Logged, RaisedSlots, Running, Slots, ChargedEntry
  <2> QED BY <1>6, <2>1, <2>3
<1>11. ASSUME NEW r \in Registries, Build(r) PROVE Goal
  <2>1. UNCHANGED <<call, decisions, raised>> /\ effectUses' = effectUses
    BY <1>11 DEF Build, brokerVars
  <2>2. ~Built(r) /\ call[r] = Idle /\ decisions[r] = << >> /\ raised[r] = 0
    BY <1>11 DEF Build, WiredToIssued, LedgerInv, SlotsLeft
  <2>3. \A q \in Registries : q # r => (q \in Mine(t)' <=> q \in Mine(t))
    <3>1. \A q \in Registries : q # r => wiring'[q] = wiring[q]
      BY <1>1, <1>11 DEF Build
    <3> QED BY <3>1 DEF Mine, Built
  <2>4. Mine(t)' \subseteq Registries /\ Mine(t) \subseteq Registries
    BY DEF Mine
  <2>5. Running(t)' = Running(t)
    BY <1>1, <2>1, <2>2, <2>3, <2>4 DEF Running
  <2>6. \A i \in 1 .. MaxCalls : ~ChargedEntry(r, i) /\ ~(i <= raised[r])
    BY <1>1, <2>2 DEF ChargedEntry
  <2>7. ASSUME NEW s PROVE /\ s \in Logged(t)' <=> s \in Logged(t)
                           /\ s \in RaisedSlots(t)' <=> s \in RaisedSlots(t)
    <3>1. \A q, i : ChargedEntry(q, i)' <=> ChargedEntry(q, i)
      BY <2>1 DEF ChargedEntry
    <3>2. ASSUME NEW q \in Registries, NEW i \in 1 .. MaxCalls, s = <<q, i>>
          PROVE  /\ s \in Logged(t)' <=> s \in Logged(t)
                 /\ s \in RaisedSlots(t)' <=> s \in RaisedSlots(t)
      BY <2>1, <2>3, <2>6, <3>1, <3>2 DEF Logged, RaisedSlots, Slots
    <3>3. CASE ~\E q \in Registries, i \in 1 .. MaxCalls : s = <<q, i>>
      <4>1. s \notin Mine(t)' \X (1 .. MaxCalls) /\ s \notin Mine(t) \X (1 .. MaxCalls)
        BY <2>4, <3>3
      <4> QED BY <4>1 DEF Logged, RaisedSlots, Slots
    <3> QED BY <3>2, <3>3
  <2>8. SameParts
    BY <2>5, <2>7 DEF SameParts
  <2> QED BY <1>6, <2>1, <2>8
<1>12. ASSUME effectUses' = effectUses, UNCHANGED registryVars PROVE Goal
  BY <1>6, <1>7, <1>12 DEF SameParts, registryVars
<1>13. HostStep \/ UNCHANGED vars => effectUses' = effectUses
  BY DEF HostStep, IssueToolCredential, Revoke, UseModelKey, Tick, vars, brokerVars
<1> HIDE DEF Goal
<1>14. Goal
  BY <1>8, <1>9, <1>10, <1>11, <1>12, <1>13 DEF Next, RegistryStep, vars
<1> QED BY <1>14 DEF Goal

(* For any finite number of registries, a tenant's budget counter is exactly *)
(* the number of calls its registries let past the budget guard: logged,     *)
(* raised out of dispatch, or still running.                                 *)
THEOREM BudgetLedgerCorrect ==
  ASSUME IsFiniteSet(Registries)
  PROVE  Spec => []BudgetLedgerExact
<1>1. Init => LedgerInv
  <2> SUFFICES ASSUME Init PROVE LedgerInv
    OBVIOUS
  <2>1. SlotsLeft
    BY RegistryAssumption DEF Init, SlotsLeft
  <2>2. ASSUME NEW t \in Tenants PROVE ChargedCalls(t) = 0 /\ effectUses[t] = 0
    <3>1. Mine(t) = {}
      BY DEF Init, Mine, Built
    <3>2. Logged(t) = {} /\ RaisedSlots(t) = {} /\ Running(t) = {}
      BY <3>1 DEF Logged, RaisedSlots, Running, Slots
    <3>3. ChargedCalls(t) = Cardinality({}) + Cardinality({}) + Cardinality({})
      BY <3>2, ChargedCallsParts
    <3>4. ChargedCalls(t) = 0
      BY <3>3, FS_EmptySet
    <3> QED BY <3>4 DEF Init, BrokerInit
  <2> QED BY <2>1, <2>2 DEF LedgerInv, BudgetLedgerExact
<1>2. RegistryInv /\ LedgerInv /\ [Next]_vars => LedgerInv'
  BY SlotsLeftStep, LedgerStep DEF LedgerInv, BudgetLedgerExact
<1>3. LedgerInv => BudgetLedgerExact
  BY DEF LedgerInv
<1> QED BY <1>1, <1>2, <1>3, RegistryInvHolds, PTL DEF Spec
=============================================================================
