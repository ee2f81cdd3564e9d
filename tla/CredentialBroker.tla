-------------------------- MODULE CredentialBroker --------------------------
(***************************************************************************)
(* The credential broker (control/broker.py) and the registrations it      *)
(* makes on the output scanner.  One variable per field of the class, one  *)
(* action per method; a method runs to completion on one thread, so it is  *)
(* one step, and the monotonic clock advances between steps.               *)
(*                                                                         *)
(* Secret values are opaque: a token minted by secrets.token_urlsafe is a  *)
(* member of Tokens never minted before.  ttl_seconds=None stands for the  *)
(* default, one of the values in Ttls.                                     *)
(***************************************************************************)
EXTENDS Integers, FiniteSets

CONSTANTS
  Tenants,
  Tokens,          \* values token_urlsafe can mint
  NoToken,         \* _active.get(t) when the tenant has none
  BackingSecrets,  \* {model_key, tool_backing_secret}
  Ttls,            \* time-to-live values a host may ask for, in clock units
  SpendCap,        \* spend_cap, or Uncapped
  EffectCap,       \* external_effect_cap, or Uncapped
  Uncapped,        \* None
  MaxTime,         \* bound: the clock stops there
  MaxReads         \* bound: model-key accesses per tenant

ASSUME BrokerAssumption ==
  /\ NoToken \notin Tokens
  /\ BackingSecrets \intersect Tokens = {}
  /\ Ttls \subseteq Int
  /\ Uncapped \notin Int
  /\ SpendCap \in Int \union {Uncapped}
  /\ EffectCap \in Int \union {Uncapped}
  /\ MaxTime \in Nat
  /\ MaxReads \in Nat

VARIABLES
  now,           \* what _clock() returns
  issued,        \* EphemeralCredentials handed to the host
  active,        \* _active
  revoked,       \* _revoked
  modelKeyUses,  \* _model_key_uses
  effectUses,    \* _effect_uses
  registered,    \* secret values the scanner has been taught
  keyReads       \* history: times use_model_key returned the key

brokerVars ==
  <<now, issued, active, revoked, modelKeyUses, effectUses, registered, keyReads>>

Credential ==
  [token: Tokens, tenant_id: Tenants, ttl_seconds: Ttls, issued_monotonic: Nat]

Minted == {c.token : c \in issued}

-----------------------------------------------------------------------------
(* Mutant: a supersession check that is missing from is_valid. *)
IsValidIgnoringActive(cred) ==
  /\ cred.token \notin revoked
  /\ now - cred.issued_monotonic < cred.ttl_seconds

(* Mutant: a spent model-key budget makes the credential look invalid. *)
IsValidWhileFunded(cred) ==
  /\ cred.token \notin revoked
  /\ active[cred.tenant_id] = cred.token
  /\ now - cred.issued_monotonic < cred.ttl_seconds
  /\ SpendCap # Uncapped => modelKeyUses[cred.tenant_id] < SpendCap

(* Mutant: is_valid without the clock. *)
IsValidUntimed(cred) ==
  /\ cred.token \notin revoked
  /\ active[cred.tenant_id] = cred.token

(* is_valid: active, not revoked, not expired -- and nothing about budgets. *)
IsValid(cred) ==
  /\ cred.token \notin revoked
  /\ active[cred.tenant_id] = cred.token
  /\ now - cred.issued_monotonic < cred.ttl_seconds

(* Mutant: the cap is compared with > instead of >=. *)
UnderOrAtCap(used, cap) == cap # Uncapped => used <= cap

(* A cap of None admits everything. *)
UnderCap(used, cap) == cap # Uncapped => used < cap

(* The counter moves only when there is a cap to compare it with. *)
Counted(uses, t, cap) ==
  IF cap = Uncapped THEN uses ELSE [uses EXCEPT ![t] = @ + 1]

EffectAllowed(t) == UnderCap(effectUses[t], EffectCap)

-----------------------------------------------------------------------------
BrokerInit ==
  /\ now = 0
  /\ issued = {}
  /\ active = [t \in Tenants |-> NoToken]
  /\ revoked = {}
  /\ modelKeyUses = [t \in Tenants |-> 0]
  /\ effectUses = [t \in Tenants |-> 0]
  /\ registered = BackingSecrets
  /\ keyReads = [t \in Tenants |-> 0]

(* issue_tool_credential: mint, supersede, teach the scanner, hand over. *)
IssueToolCredential(t, ttl) ==
  \E token \in Tokens \ Minted :
    /\ issued' = issued \union
         {[token |-> token, tenant_id |-> t,
           ttl_seconds |-> ttl, issued_monotonic |-> now]}
    /\ active' = [active EXCEPT ![t] = token]
    /\ registered' = registered \union {token}
    /\ UNCHANGED <<now, revoked, modelKeyUses, effectUses, keyReads>>

(* Mutant: the credential object is put in the set, not its token. *)
RevokeObject(cred) ==
  /\ revoked' = revoked \union {cred}
  /\ UNCHANGED <<now, issued, active, modelKeyUses, effectUses, registered, keyReads>>

(* revoke: of any credential the host holds, superseded ones included. *)
Revoke(cred) ==
  /\ revoked' = revoked \union {cred.token}
  /\ UNCHANGED <<now, issued, active, modelKeyUses, effectUses, registered, keyReads>>

(* use_model_key: at the cap the accessor raises and changes nothing. *)
UseModelKey(t) ==
  /\ keyReads[t] < MaxReads
  /\ UnderCap(modelKeyUses[t], SpendCap)
  /\ modelKeyUses' = Counted(modelKeyUses, t, SpendCap)
  /\ keyReads' = [keyReads EXCEPT ![t] = @ + 1]
  /\ UNCHANGED <<now, issued, active, revoked, effectUses, registered>>

(* allow_external_effect, when it answers True. *)
AllowExternalEffect(t) ==
  /\ EffectAllowed(t)
  /\ effectUses' = Counted(effectUses, t, EffectCap)
  /\ UNCHANGED <<now, issued, active, revoked, modelKeyUses, registered, keyReads>>

(* time.monotonic() moves between any two steps and never back. *)
Tick ==
  /\ now < MaxTime
  /\ now' = now + 1
  /\ UNCHANGED <<issued, active, revoked, modelKeyUses, effectUses, registered, keyReads>>

(* Everything the host does with the broker directly; allow_external_effect *)
(* is only ever reached through a registry's budget guard.                  *)
HostStep ==
  \/ \E t \in Tenants, ttl \in Ttls : IssueToolCredential(t, ttl)
  \/ \E cred \in issued : Revoke(cred)
  \/ \E t \in Tenants : UseModelKey(t)
  \/ Tick

BrokerNext ==
  \/ HostStep
  \/ \E t \in Tenants : AllowExternalEffect(t)

BrokerSpec == BrokerInit /\ [][BrokerNext]_brokerVars

(* The clock is the machine's own: it does not stop. *)
FairBrokerSpec == BrokerSpec /\ WF_brokerVars(Tick)

-----------------------------------------------------------------------------
(* Each variable has the type its field is annotated with. *)
TypeOK ==
  /\ now \in Nat
  /\ issued \subseteq Credential
  /\ active \in [Tenants -> Tokens \union {NoToken}]
  /\ revoked \subseteq Tokens
  /\ modelKeyUses \in [Tenants -> Nat]
  /\ effectUses \in [Tenants -> Nat]
  /\ registered \subseteq BackingSecrets \union Tokens
  /\ keyReads \in [Tenants -> Nat]

(* A tenant never obtains the model key more often than spend_cap, and the  *)
(* private counter that enforces it never drifts from the reads it counts.  *)
SpendCapHolds ==
  SpendCap # Uncapped =>
    \A t \in Tenants :
      /\ keyReads[t] = modelKeyUses[t]
      /\ keyReads[t] > 0 => keyReads[t] <= SpendCap

Expired(cred) == now - cred.issued_monotonic >= cred.ttl_seconds

(* A credential that validates stops doing so only because it expired, was  *)
(* itself revoked, or its own tenant was issued another: never through a    *)
(* budget, another tenant's credential, or somebody else's revocation.      *)
DeathHasACause ==
  [][\A c \in issued :
       IsValid(c) /\ ~IsValid(c)' =>
         \/ Expired(c)'
         \/ c.token \in revoked'
         \/ \E d \in issued' \ issued : d.tenant_id = c.tenant_id]_brokerVars

(* What a host relies on, with the mechanism hidden: one live credential    *)
(* per tenant, and a credential that died stays dead.                       *)
live == [t \in Tenants |-> {c \in issued : c.tenant_id = t /\ IsValid(c)}]

Lease == INSTANCE CredentialLease
           WITH Credentials <- Credential, granted <- issued

RefinesLease == Lease!Spec

(* Every credential whose time-to-live ends within the modelled span stops  *)
(* validating for good, whatever the host does or fails to do.              *)
CredentialsExpire ==
  \A token \in Tokens :
    (\E c \in issued : c.token = token /\ c.issued_monotonic + c.ttl_seconds <= MaxTime)
      ~> [](\A c \in issued : c.token = token => ~IsValid(c))
=============================================================================
