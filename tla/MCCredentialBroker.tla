------------------------- MODULE MCCredentialBroker -------------------------
(***************************************************************************)
(* The broker on small instances.  Three tokens: one tenant can be          *)
(* superseded while the other holds a credential, or twice in a row.  The   *)
(* time-to-live values are one that is dead on arrival and one that outlives *)
(* a tick.  No symmetry: the run checks liveness too.                       *)
(***************************************************************************)
EXTENDS CredentialBroker

CONSTANTS alice, bob, tok1, tok2, tok3, modelKey, toolSecret

MCTenants == {alice, bob}
MCTokens == {tok1, tok2, tok3}
MCBackingSecrets == {modelKey, toolSecret}
MCTtls == {0, 2}
=============================================================================
