-------------------------- MODULE CredentialLease --------------------------
(***************************************************************************)
(* What the credential broker promises a host, with no tokens, clocks or   *)
(* revocation lists in it: each tenant has at most one live credential, a  *)
(* credential is granted once, and one that has stopped being live never   *)
(* becomes live again.  CredentialBroker is shown to implement this.       *)
(***************************************************************************)
CONSTANTS Tenants,      \* tenants of the runtime
          Credentials   \* every credential that could ever be minted

VARIABLES granted,      \* credentials granted so far
          live          \* live[t]: the credentials that validate for tenant t

leaseVars == <<granted, live>>

Init ==
  /\ granted = {}
  /\ live = [t \in Tenants |-> {}]

(* A grant ends the tenant's previous lease.  The new credential may be dead *)
(* on arrival (a time-to-live that is not positive).                        *)
Grant(t, c) ==
  /\ c \in Credentials \ granted
  /\ granted' = granted \union {c}
  /\ \/ live' = [live EXCEPT ![t] = {c}]
     \/ live' = [live EXCEPT ![t] = {}]

(* Any number of leases may end at once: one clock step can expire several. *)
Lapse ==
  /\ live' \in [Tenants -> SUBSET granted]
  /\ \A t \in Tenants : live'[t] \subseteq live[t]
  /\ UNCHANGED granted

Next ==
  \/ \E t \in Tenants : \E c \in granted' \ granted : Grant(t, c)
  \/ Lapse

Spec == Init /\ [][Next]_leaseVars
=============================================================================
