---------------------------- MODULE ScopedStore ----------------------------
(***************************************************************************)
(* The tenant-scoped views (safety/scoped_store.py) over one raw store.    *)
(*                                                                         *)
(* The raw store belongs to the host, which may at any time put a record   *)
(* whose key and tenant_id disagree, file a record under another key, or    *)
(* delete one ("concurrent delete", scoped_store.py:89).  get and search    *)
(* read it once.  list_keys takes a snapshot of keys and then fetches each, *)
(* so it is one step per fetch and the rest of the system moves in between. *)
(*                                                                         *)
(* A key "<tenant>:<kind>:<name>" is a record of its tenant part and the    *)
(* rest, its item.  Tenant names hold no ":" and are not empty, so the      *)
(* tenant part is what _tenant_of returns, NoTenant when that is "".        *)
(* Text is the set of secret values it holds; an item may itself be one.    *)
(***************************************************************************)
EXTENDS FiniteSets

CONSTANTS
  Tenants,
  NoTenant,   \* _tenant_of of a key without ":"
  Host,       \* the writer of records no view put
  Items,      \* the "<kind>:<name>" parts
  Keys,       \* the keys in use
  Prefixes,   \* for each list_keys argument in use, the keys it selects
  Secrets,    \* values a host may register on the scanner
  Missing,    \* raw.get of an absent key
  NotListing  \* a view with no list_keys running

ASSUME StoreAssumption ==
  /\ NoTenant \notin Tenants
  /\ Host \notin Tenants
  /\ Keys \subseteq [tenant: Tenants \union {NoTenant}, item: Items]
  /\ Prefixes \subseteq SUBSET Keys

VARIABLES
  raw,         \* the raw store: key -> record or Missing
  registered,  \* the scanner's values
  listing,     \* per view, the list_keys in progress
  steady,      \* history: keys owned in every state of that list_keys
  touched,     \* history: keys owned in some state of it
  exposed,     \* history: per view, the parties named in or behind its results
  spilled      \* history: per view, fields that showed a registered secret

vars == <<raw, registered, listing, steady, touched, exposed, spilled>>

(* writer is history: who called put. *)
Record ==
  [key: Keys, tenant_id: Tenants, content: SUBSET Secrets, writer: Tenants \union {Host}]

Fields == {"key", "content", "listing"}

-----------------------------------------------------------------------------
(* Mutant: only the stored tenant_id is looked at. *)
OwnedById(v, record) == record.tenant_id = v

(* _owned: key prefix and tenant_id must both name the tenant. *)
Owned(v, record) == record.key.tenant = v /\ record.tenant_id = v

(* Mutant: the requested key's prefix is taken as proof of ownership. *)
GetByPrefix(v, key) == IF key.tenant = v THEN raw[key] ELSE Missing

(* get: the requested key's prefix is checked before the store is asked. *)
Get(v, key) ==
  IF key.tenant = v /\ raw[key] # Missing /\ Owned(v, raw[key])
    THEN raw[key] ELSE Missing

(* What fetching a listed key answers: list_keys never checks more than get. *)
OwnedKeys(v) == {key \in Keys : Get(v, key) # Missing}

Scan(text) == text \ registered

(* The fields of a ScopedRecord in which a registered secret is readable:   *)
(* only content is redacted, key and name are handed over as they are.      *)
SpillsOf(record) ==
  {f \in {"key", "content"} :
     LET shown == IF f = "key" THEN {record.key.item} ELSE Scan(record.content)
     IN  shown \intersect registered # {}}

Parties(record) == {record.key.tenant, record.tenant_id, record.writer}

Show(v, records) ==
  /\ exposed' = [exposed EXCEPT ![v] = @ \union UNION {Parties(r) : r \in records}]
  /\ spilled' = [spilled EXCEPT ![v] = @ \union UNION {SpillsOf(r) : r \in records}]

-----------------------------------------------------------------------------
Init ==
  /\ raw = [key \in Keys |-> Missing]
  /\ registered = {}
  /\ listing = [v \in Tenants |-> NotListing]
  /\ steady = [v \in Tenants |-> {}]
  /\ touched = [v \in Tenants |-> {}]
  /\ exposed = [v \in Tenants |-> {}]
  /\ spilled = [v \in Tenants |-> {}]

(* put: denied for another tenant's name, else key_for decides the key. *)
Put(v, t, item, content) ==
  LET key == [tenant |-> t, item |-> item]
  IN  /\ t = v
      /\ key \in Keys
      /\ raw' = [raw EXCEPT ![key] =
           [key |-> key, tenant_id |-> t, content |-> content, writer |-> v]]
      /\ UNCHANGED <<registered, listing, exposed, spilled>>

(* Mutant: a delete that trusts its caller. *)
DeleteAny(v, key) ==
  /\ raw' = [raw EXCEPT ![key] = Missing]
  /\ UNCHANGED <<registered, listing, exposed, spilled>>

(* Mutant: the key is left where its record was. *)
DeleteLeavesKey(v, key) ==
  /\ key.tenant = v
  /\ raw' = [raw EXCEPT ![key] = key]
  /\ UNCHANGED <<registered, listing, exposed, spilled>>

(* delete: by prefix alone; the record under the key is not looked at. *)
Delete(v, key) ==
  /\ key.tenant = v
  /\ raw' = [raw EXCEPT ![key] = Missing]
  /\ UNCHANGED <<registered, listing, exposed, spilled>>

ShowGet(v, key) ==
  /\ Get(v, key) # Missing
  /\ Show(v, {Get(v, key)})
  /\ UNCHANGED <<raw, registered, listing>>

(* search: every match the raw store finds, filtered by _owned alone. *)
Search(v) ==
  /\ \E hits \in SUBSET {raw[key] : key \in {k \in Keys : raw[k] # Missing}} :
       Show(v, {r \in hits : Owned(v, r)})
  /\ UNCHANGED <<raw, registered, listing>>

(* list_keys, first line: the keys present now, those of others skipped. *)
ListBegin(v, prefix) ==
  /\ listing[v] = NotListing
  /\ listing' = [listing EXCEPT ![v] =
       [prefix |-> prefix, out |-> {},
        pending |-> {key \in prefix : raw[key] # Missing /\ key.tenant = v}]]
  /\ UNCHANGED <<raw, registered, exposed, spilled>>

(* Mutant: a record that is gone ends the listing. *)
ListFetchStops(v, key) ==
  /\ listing[v] # NotListing
  /\ key \in listing[v].pending
  /\ listing' = [listing EXCEPT
       ![v].pending = IF raw[key] = Missing THEN {} ELSE @ \ {key},
       ![v].out = IF key \in OwnedKeys(v) THEN @ \union {key} ELSE @]
  /\ UNCHANGED <<raw, registered, exposed, spilled>>

(* Mutant: the prefix is taken as proof of ownership. *)
ListFetchByPrefix(v, key) ==
  /\ listing[v] # NotListing
  /\ key \in listing[v].pending
  /\ listing' = [listing EXCEPT
       ![v].pending = @ \ {key},
       ![v].out = IF raw[key] # Missing THEN @ \union {key} ELSE @]
  /\ UNCHANGED <<raw, registered, exposed, spilled>>

(* list_keys, one turn of the loop: fetch, check, append the redacted key. *)
ListFetch(v, key) ==
  /\ listing[v] # NotListing
  /\ key \in listing[v].pending
  /\ listing' = [listing EXCEPT ![v] =
       [prefix |-> @.prefix, pending |-> @.pending \ {key},
        out |-> IF key \in OwnedKeys(v) THEN @.out \union {key} ELSE @.out]]
  /\ spilled' =
       IF key \in OwnedKeys(v) /\ Scan({key.item}) \intersect registered # {}
         THEN [spilled EXCEPT ![v] = @ \union {"listing"}]
         ELSE spilled
  /\ UNCHANGED <<raw, registered, exposed>>

ListEnd(v) ==
  /\ listing[v] # NotListing
  /\ listing[v].pending = {}
  /\ listing' = [listing EXCEPT ![v] = NotListing]
  /\ UNCHANGED <<raw, registered, exposed, spilled>>

ViewStep(v) ==
  \/ \E t \in Tenants, item \in Items, content \in SUBSET Secrets : Put(v, t, item, content)
  \/ \E key \in Keys : Delete(v, key) \/ ShowGet(v, key) \/ ListFetch(v, key)
  \/ Search(v)
  \/ \E prefix \in Prefixes : ListBegin(v, prefix)
  \/ ListEnd(v)

-----------------------------------------------------------------------------
(* The host's own writes: any record, filed under any key. *)
RawPut(key, record) ==
  /\ raw' = [raw EXCEPT ![key] = record]
  /\ UNCHANGED <<registered, listing, exposed, spilled>>

(* A record already stored turns up under another key as well. *)
RawCopy(from, to) ==
  /\ raw[from] # Missing
  /\ raw' = [raw EXCEPT ![to] = raw[from]]
  /\ UNCHANGED <<registered, listing, exposed, spilled>>

RawDelete(key) ==
  /\ raw' = [raw EXCEPT ![key] = Missing]
  /\ UNCHANGED <<registered, listing, exposed, spilled>>

Register(secret) ==
  /\ registered' = registered \union {secret}
  /\ UNCHANGED <<raw, listing, exposed, spilled>>

HostStep ==
  \/ \E key \in Keys, record \in {r \in Record : r.writer = Host} : RawPut(key, record)
  \/ \E from, to \in Keys : RawCopy(from, to)
  \/ \E key \in Keys : RawDelete(key)
  \/ \E secret \in Secrets : Register(secret)

(* The history of a listing: reset while there is none. *)
Observe ==
  /\ steady' = [v \in Tenants |->
       IF listing'[v] = NotListing THEN {}
       ELSE IF listing[v] = NotListing THEN OwnedKeys(v)'
       ELSE steady[v] \intersect OwnedKeys(v)']
  /\ touched' = [v \in Tenants |->
       IF listing'[v] = NotListing THEN {}
       ELSE touched[v] \union OwnedKeys(v)']

Next ==
  /\ HostStep \/ \E v \in Tenants : ViewStep(v)
  /\ Observe

Spec == Init /\ [][Next]_vars

-----------------------------------------------------------------------------
TypeOK ==
  /\ raw \in [Keys -> Record \union {Missing}]
  /\ registered \subseteq Secrets
  /\ listing \in [Tenants ->
       [prefix: Prefixes, out: SUBSET Keys, pending: SUBSET Keys] \union {NotListing}]
  /\ steady \in [Tenants -> SUBSET Keys]
  /\ touched \in [Tenants -> SUBSET Keys]
  /\ exposed \in [Tenants -> SUBSET (Tenants \union {Host, NoTenant})]
  /\ spilled \in [Tenants -> SUBSET Fields]

(* Nothing of another tenant is ever shown to a tenant: not a record that   *)
(* names another in its key or in its tenant_id, nor one another's view     *)
(* wrote and the host has since filed under a key of this tenant.           *)
NeverShowsForeignRecord ==
  \A v \in Tenants : exposed[v] \subseteq {v, Host}

(* What a search can find under a key, whosever the key is. *)
Found(v, key) == IF raw[key] # Missing /\ Owned(v, raw[key]) THEN raw[key] ELSE Missing

(* Nothing another tenant does with its own view changes what get and       *)
(* list_keys answer a tenant.  Of what its search finds, it can change one  *)
(* thing: a record of the tenant that the host has filed under a key of the *)
(* other, which no get or list_keys shows, is lost when that key is         *)
(* deleted or put.  It never alters a record or makes one appear.           *)
NonInterference ==
  [][\A v \in Tenants : \A w \in Tenants \ {v} : ViewStep(w) =>
       \A key \in Keys :
         /\ Get(v, key)' = Get(v, key)
         /\ Found(v, key)' # Found(v, key) => key.tenant = w /\ Found(v, key)' = Missing]_vars

(* A listing never misses a key that was the tenant's own all along: a      *)
(* concurrent delete or a spoofed record costs only the key it concerns.    *)
ListComplete ==
  \A v \in Tenants :
    listing[v] # NotListing /\ listing[v].pending = {} =>
      steady[v] \intersect listing[v].prefix \subseteq listing[v].out

(* A listing never shows a key that was at no time of the call the          *)
(* tenant's own, as a snapshot filtered by prefix alone would.              *)
ListSound ==
  \A v \in Tenants : listing[v] # NotListing => listing[v].out \subseteq touched[v]

(* "any registered secret value in an own-tenant record comes back          *)
(* redacted" (safety/scoped_store.py:11).                                   *)
RecordsRedacted == \A v \in Tenants : "key" \notin spilled[v]
=============================================================================
