--------------------------- MODULE MCScopedStore ---------------------------
(***************************************************************************)
(* Small stores.  "aNote" and "aPlan" are two keys of alice, "bNote" one of *)
(* bob; "aToken" is a key of alice whose name is itself a secret.           *)
(***************************************************************************)
EXTENDS ScopedStore

CONSTANTS alice, bob, note, plan, token

aNote == [tenant |-> alice, item |-> note]
aPlan == [tenant |-> alice, item |-> plan]
bNote == [tenant |-> bob, item |-> note]
aToken == [tenant |-> alice, item |-> token]

MCTenants == {alice, bob}
MCItems == {note, plan, token}
MCNoSecrets == {}
MCSecrets == {token}
MCStoreKeys == {aNote, aPlan, bNote}
MCStorePrefixes == {{aNote, aPlan}}
MCTokenKeys == {aNote, aToken}
MCTokenPrefixes == {MCTokenKeys}

(* One of the keys is vacant, and bob, who has one, lists nothing. *)
MCFew ==
  /\ \E key \in Keys : raw[key] = Missing
  /\ listing[bob] = NotListing
=============================================================================
