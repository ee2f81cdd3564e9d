---------------------------- MODULE Containment ----------------------------
(***************************************************************************)
(* What the whole defense layer promises a host, with scanner, store and    *)
(* registries hidden.  A value becomes protected when the broker is told of *)
(* it, and is never shown to an agent from then on.  A tenant's agent is    *)
(* only ever shown what was entrusted to that tenant.                       *)
(***************************************************************************)
CONSTANTS
  Tenants,
  Values    \* secrets, and data a tenant wants to itself

VARIABLES
  protected,  \* the values no agent may be shown any more
  entrusted,  \* per tenant, the values written for it
  disclosed   \* per tenant, the values its agent has been shown

vars == <<protected, entrusted, disclosed>>

Init ==
  /\ protected = {}
  /\ entrusted = [t \in Tenants |-> {}]
  /\ disclosed = [t \in Tenants |-> {}]

Protect(secrets) ==
  /\ protected' = protected \union secrets
  /\ UNCHANGED <<entrusted, disclosed>>

(* One write may be for several tenants: a record for one, and the key it   *)
(* is filed under for another.                                              *)
Entrust(texts) ==
  /\ entrusted' = [t \in Tenants |-> entrusted[t] \union texts[t]]
  /\ UNCHANGED <<protected, disclosed>>

Disclose(t, text) ==
  /\ text \subseteq entrusted[t] \ protected
  /\ disclosed' = [disclosed EXCEPT ![t] = @ \union text]
  /\ UNCHANGED <<protected, entrusted>>

Next ==
  \/ \E secrets \in SUBSET Values : Protect(secrets)
  \/ \E texts \in [Tenants -> SUBSET Values] : Entrust(texts)
  \/ \E t \in Tenants, text \in SUBSET Values : Disclose(t, text)

Spec == Init /\ [][Next]_vars
=============================================================================
