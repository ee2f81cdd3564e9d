------------------------- MODULE ScopedStoreProofs -------------------------
(***************************************************************************)
(* Proofs about ScopedStore for any tenants, keys, prefixes and secrets.   *)
(***************************************************************************)
EXTENDS ScopedStore, TLAPS

(* The part of the type invariant the arguments below rest on.              *)
RawTyped ==
  /\ DOMAIN raw = Keys
  /\ raw = [key \in Keys |-> raw[key]]

ListingTyped ==
  listing \in [Tenants ->
    [prefix: Prefixes, out: SUBSET Keys, pending: SUBSET Keys] \union {NotListing}]

(* Ownership depends on the raw store alone.                                *)
LEMMA OwnedKeysStable ==
  ASSUME raw' = raw, NEW v
  PROVE  OwnedKeys(v)' = OwnedKeys(v)
BY DEF OwnedKeys, Get, Owned

(* A listing record with one key fetched is again one.                      *)
LEMMA FetchedTyped ==
  ASSUME ListingTyped, NEW v \in Tenants, NEW key \in Keys, ListFetch(v, key)
  PROVE  \E out \in SUBSET Keys :
           /\ listing' = [listing EXCEPT ![v] =
                [prefix |-> listing[v].prefix, out |-> out,
                 pending |-> listing[v].pending \ {key}]]
           /\ out = IF key \in OwnedKeys(v) THEN listing[v].out \union {key}
                                             ELSE listing[v].out
<1>1. listing[v] \in [prefix: Prefixes, out: SUBSET Keys, pending: SUBSET Keys]
  BY DEF ListFetch, ListingTyped
<1> DEFINE out == IF key \in OwnedKeys(v) THEN listing[v].out \union {key}
                                          ELSE listing[v].out
<1>2. out \in SUBSET Keys
  BY <1>1
<1>3. listing' = [listing EXCEPT ![v] =
        [prefix |-> listing[v].prefix, out |-> out,
         pending |-> listing[v].pending \ {key}]]
  BY <1>1 DEF ListFetch, ListingTyped
<1> QED BY <1>2, <1>3

-----------------------------------------------------------------------------
(* A step that is not a listing step of some view leaves all listings.      *)
LEMMA ListingSteps ==
  ASSUME Next
  PROVE  \/ listing' = listing
         \/ \E v \in Tenants :
              \/ \E prefix \in Prefixes : ListBegin(v, prefix)
              \/ \E key \in Keys : ListFetch(v, key)
              \/ ListEnd(v)
BY DEF Next, HostStep, ViewStep, Put, Delete, ShowGet, Search,
   RawPut, RawCopy, RawDelete, Register

LEMMA ListingTypedStep == ListingTyped /\ [Next]_vars => ListingTyped'
<1> SUFFICES ASSUME ListingTyped, [Next]_vars PROVE ListingTyped'
  OBVIOUS
<1>1. ASSUME NEW v \in Tenants, NEW prefix \in Prefixes, ListBegin(v, prefix)
      PROVE  ListingTyped'
  <2>1. prefix \subseteq Keys
    BY StoreAssumption
  <2> QED BY <1>1, <2>1 DEF ListBegin, ListingTyped
<1>2. ASSUME NEW v \in Tenants, NEW key \in Keys, ListFetch(v, key)
      PROVE  ListingTyped'
  <2>1. PICK out \in SUBSET Keys : listing' = [listing EXCEPT ![v] =
          [prefix |-> listing[v].prefix, out |-> out,
           pending |-> listing[v].pending \ {key}]]
    BY <1>2, FetchedTyped
  <2>2. listing[v] \in [prefix: Prefixes, out: SUBSET Keys, pending: SUBSET Keys]
    BY <1>2 DEF ListFetch, ListingTyped
  <2> QED BY <2>1, <2>2 DEF ListingTyped
<1>3. ASSUME NEW v \in Tenants, ListEnd(v) PROVE ListingTyped'
  BY <1>3 DEF ListEnd, ListingTyped
<1>4. CASE listing' = listing
  BY <1>4 DEF ListingTyped
<1> QED BY <1>1, <1>2, <1>3, <1>4, ListingSteps DEF vars

-----------------------------------------------------------------------------
(* Every key owned since the call began is listed or still to be fetched,   *)
(* and every key listed was owned at some time of the call.                 *)
ListingAccount ==
  \A v \in Tenants : listing[v] # NotListing =>
    /\ steady[v] \intersect listing[v].prefix \subseteq listing[v].out \union listing[v].pending
    /\ listing[v].out \subseteq touched[v]

LEMMA ListingAccountStep ==
  ListingTyped /\ ListingAccount /\ [Next]_vars => ListingAccount'
<1> SUFFICES ASSUME ListingTyped, ListingAccount, [Next]_vars,
                    NEW v \in Tenants, listing'[v] # NotListing
             PROVE  /\ steady'[v] \intersect listing'[v].prefix
                         \subseteq listing'[v].out \union listing'[v].pending
                    /\ listing'[v].out \subseteq touched'[v]
  BY DEF ListingAccount
<1> DEFINE Goal == /\ steady'[v] \intersect listing'[v].prefix
                         \subseteq listing'[v].out \union listing'[v].pending
                   /\ listing'[v].out \subseteq touched'[v]
<1>1. ASSUME Observe, listing'[v] = listing[v] PROVE Goal
  BY <1>1 DEF Observe, ListingAccount
<1>2. ASSUME Observe, NEW prefix \in Prefixes, ListBegin(v, prefix) PROVE Goal
  <2>1. listing'[v] = [prefix |-> prefix, out |-> {},
          pending |-> {key \in prefix : raw[key] # Missing /\ key.tenant = v}]
    BY <1>2 DEF ListBegin, ListingTyped
  <2>2. steady'[v] = OwnedKeys(v)
    BY <1>2, OwnedKeysStable DEF Observe, ListBegin
  <2>3. \A key \in OwnedKeys(v) : raw[key] # Missing /\ key.tenant = v
    BY DEF OwnedKeys, Get
  <2> QED BY <2>1, <2>2, <2>3
<1>3. ASSUME Observe, NEW key \in Keys, ListFetch(v, key) PROVE Goal
  <2>1. PICK out \in SUBSET Keys :
          /\ listing' = [listing EXCEPT ![v] =
               [prefix |-> listing[v].prefix, out |-> out,
                pending |-> listing[v].pending \ {key}]]
          /\ out = IF key \in OwnedKeys(v) THEN listing[v].out \union {key}
                                            ELSE listing[v].out
    BY <1>3, FetchedTyped
  <2>2. listing'[v] = [prefix |-> listing[v].prefix, out |-> out,
                       pending |-> listing[v].pending \ {key}]
    BY <2>1 DEF ListingTyped
  <2>3. listing[v] # NotListing /\ OwnedKeys(v)' = OwnedKeys(v)
    BY <1>3, OwnedKeysStable DEF ListFetch
  <2>4. /\ steady'[v] = steady[v] \intersect OwnedKeys(v)
        /\ touched'[v] = touched[v] \union OwnedKeys(v)
    BY <1>3, <2>3 DEF Observe
  <2>5. /\ steady[v] \intersect listing[v].prefix \subseteq listing[v].out \union listing[v].pending
        /\ listing[v].out \subseteq touched[v]
    BY <2>3 DEF ListingAccount
  <2>6. CASE key \in OwnedKeys(v)
    BY <2>1, <2>2, <2>4, <2>5, <2>6
  <2>7. CASE key \notin OwnedKeys(v)
    BY <2>1, <2>2, <2>4, <2>5, <2>7
  <2> QED BY <2>6, <2>7
<1>4. ASSUME ListEnd(v) PROVE Goal
  BY <1>4 DEF ListEnd, ListingTyped
<1>5. ASSUME NEW w \in Tenants \ {v},
             \/ \E prefix \in Prefixes : ListBegin(w, prefix)
             \/ \E key \in Keys : ListFetch(w, key)
             \/ ListEnd(w)
      PROVE  listing'[v] = listing[v]
  BY <1>5 DEF ListBegin, ListFetch, ListEnd, ListingTyped
<1>6. CASE UNCHANGED vars
  BY <1>6 DEF vars, ListingAccount
<1>7. CASE Next
  <2>1. Observe
    BY <1>7 DEF Next
  <2> QED BY <1>1, <1>2, <1>3, <1>4, <1>5, <1>7, <2>1, ListingSteps
<1> QED BY <1>6, <1>7

LEMMA ListingInvHolds == Spec => [](ListingTyped /\ ListingAccount)
<1>1. Init => ListingTyped /\ ListingAccount
  BY DEF Init, ListingTyped, ListingAccount
<1> QED BY <1>1, ListingTypedStep, ListingAccountStep, PTL DEF Spec

(* list_keys misses no key that was the tenant's own throughout the call,   *)
(* whatever the host and the other tenants did between its fetches.         *)
THEOREM ListCompleteCorrect == Spec => []ListComplete
<1>1. ListingTyped /\ ListingAccount => ListComplete
  BY DEF ListingAccount, ListComplete
<1> QED BY <1>1, ListingInvHolds, PTL

(* list_keys shows no key that was never the tenant's own during the call.  *)
THEOREM ListSoundCorrect == Spec => []ListSound
<1>1. ListingTyped /\ ListingAccount => ListSound
  BY DEF ListingAccount, ListSound
<1> QED BY <1>1, ListingInvHolds, PTL

-----------------------------------------------------------------------------
(* The raw store stays a map on the keys in use.                            *)
LEMMA RawTypedStep == RawTyped /\ [Next]_vars => RawTyped'
BY DEF RawTyped, Next, HostStep, ViewStep, Put, Delete, ShowGet, Search, ListBegin,
   ListFetch, ListEnd, RawPut, RawCopy, RawDelete, Register, vars

(* A view writes only under keys of its own tenant.                         *)
LEMMA WritesStayHome ==
  ASSUME RawTyped, NEW w \in Tenants, ViewStep(w), NEW key \in Keys, key.tenant # w
  PROVE  raw'[key] = raw[key]
<1>1. CASE raw' = raw
  BY <1>1
<1>2. ASSUME NEW t \in Tenants, NEW item \in Items, NEW content, Put(w, t, item, content)
      PROVE  raw'[key] = raw[key]
  <2>1. [tenant |-> t, item |-> item] # key
    BY <1>2 DEF Put
  <2> QED BY <1>2, <2>1 DEF Put, RawTyped
<1>3. ASSUME NEW k \in Keys, Delete(w, k) PROVE raw'[key] = raw[key]
  <2>1. k # key
    BY <1>3 DEF Delete
  <2> QED BY <1>3, <2>1 DEF Delete, RawTyped
<1> QED
  BY <1>1, <1>2, <1>3 DEF ViewStep, ShowGet, Search, ListBegin, ListFetch, ListEnd

(* What it writes there names its own tenant.                               *)
LEMMA WritesNameTheWriter ==
  ASSUME RawTyped, NEW w \in Tenants, ViewStep(w), NEW key \in Keys
  PROVE  \/ raw'[key] = raw[key]
         \/ raw'[key] = Missing
         \/ raw'[key].tenant_id = w
<1>1. CASE raw' = raw
  BY <1>1
<1>2. ASSUME NEW t \in Tenants, NEW item \in Items, NEW content, Put(w, t, item, content)
      PROVE  raw'[key] = raw[key] \/ raw'[key].tenant_id = w
  <2> DEFINE to == [tenant |-> t, item |-> item]
             record == [key |-> to, tenant_id |-> t, content |-> content, writer |-> w]
  <2>1. raw' = [raw EXCEPT ![to] = record] /\ record.tenant_id = w
    BY <1>2 DEF Put
  <2> HIDE DEF to, record
  <2> QED BY <2>1 DEF RawTyped
<1>3. ASSUME NEW k \in Keys, Delete(w, k) PROVE raw'[key] = raw[key] \/ raw'[key] = Missing
  BY <1>3 DEF Delete, RawTyped
<1> QED
  BY <1>1, <1>2, <1>3 DEF ViewStep, ShowGet, Search, ListBegin, ListFetch, ListEnd

(* What a step of w may do to what v gets, lists and finds under a key. *)
Undisturbed(v, w, key) ==
  /\ Get(v, key)' = Get(v, key)
  /\ Found(v, key)' # Found(v, key) => key.tenant = w /\ Found(v, key)' = Missing

(* No step of one tenant's view changes what another's get or list_keys     *)
(* answers, and the most it does to the other's search is that a record     *)
(* misfiled under its own key is no longer found.                           *)
THEOREM NonInterferenceCorrect == Spec => NonInterference
<1>1. Init => RawTyped
  BY DEF Init, RawTyped
<1>2. ASSUME RawTyped, NEW v \in Tenants, NEW w \in Tenants \ {v}, ViewStep(w), NEW key \in Keys
      PROVE  Undisturbed(v, w, key)
  <2>1. Get(v, key)' = Get(v, key)
    BY <1>2, WritesStayHome DEF Get, Owned
  <2>2. CASE raw'[key] = raw[key]
    BY <2>1, <2>2 DEF Undisturbed, Found, Owned
  <2>3. CASE raw'[key] # raw[key]
    <3>1. key.tenant = w
      BY <1>2, <2>3, WritesStayHome
    <3>2. raw'[key] = Missing \/ raw'[key].tenant_id = w
      BY <1>2, <2>3, WritesNameTheWriter
    <3>3. Found(v, key)' = Missing
      BY <3>2 DEF Found, Owned
    <3> QED BY <2>1, <3>1, <3>3 DEF Undisturbed
  <2> QED BY <2>2, <2>3
<1>3. RawTyped /\ [Next]_vars =>
        [\A v \in Tenants : \A w \in Tenants \ {v} : ViewStep(w) =>
           \A key \in Keys : Undisturbed(v, w, key)]_vars
  BY <1>2
<1>4. Spec => [][\A v \in Tenants : \A w \in Tenants \ {v} : ViewStep(w) =>
                   \A key \in Keys : Undisturbed(v, w, key)]_vars
  BY <1>1, <1>3, RawTypedStep, PTL DEF Spec
<1> QED BY <1>4 DEF NonInterference, Undisturbed

-----------------------------------------------------------------------------
(* A record that a view wrote says so in its tenant_id, wherever the host   *)
(* files it; this is what _owned can rely on, besides the key's prefix.     *)
HonestRecord(record) == record.writer \in {Host, record.tenant_id}

ExposureInv ==
  /\ raw = [key \in Keys |-> raw[key]]
  /\ exposed = [v \in Tenants |-> exposed[v]]
  /\ \A key \in Keys : raw[key] # Missing => HonestRecord(raw[key])
  /\ NeverShowsForeignRecord

(* Showing records that are owned and honest exposes nobody else.           *)
LEMMA ShowOwned ==
  ASSUME ExposureInv, NEW v \in Tenants, NEW records, Show(v, records),
         \A r \in records : Owned(v, r) /\ HonestRecord(r)
  PROVE  /\ exposed' = [w \in Tenants |-> exposed'[w]]
         /\ NeverShowsForeignRecord'
<1> DEFINE shown == UNION {Parties(r) : r \in records}
<1>1. exposed' = [exposed EXCEPT ![v] = exposed[v] \union shown]
  BY DEF Show
<1>2. shown \subseteq {v, Host}
  BY DEF Parties, Owned, HonestRecord
<1> HIDE DEF shown
<1>3. \A w \in Tenants : exposed'[w] = IF w = v THEN exposed[w] \union shown ELSE exposed[w]
  BY <1>1 DEF ExposureInv
<1> QED
  BY <1>1, <1>2, <1>3 DEF ExposureInv, NeverShowsForeignRecord

(* No step files a record under a writer's name that is not its tenant's.   *)
LEMMA HonestStep ==
  ASSUME ExposureInv, Next
  PROVE  /\ raw' = [key \in Keys |-> raw'[key]]
         /\ \A key \in Keys : raw'[key] # Missing => HonestRecord(raw'[key])
<1> DEFINE Goal == /\ raw' = [key \in Keys |-> raw'[key]]
                   /\ \A key \in Keys : raw'[key] # Missing => HonestRecord(raw'[key])
<1>1. ASSUME NEW to \in Keys, NEW value,
             raw' = [raw EXCEPT ![to] = value], value = Missing \/ HonestRecord(value)
      PROVE  Goal
  BY <1>1 DEF ExposureInv
<1>2. ASSUME NEW v \in Tenants, NEW t \in Tenants, NEW item \in Items, NEW content,
             Put(v, t, item, content)
      PROVE  Goal
  <2> DEFINE key == [tenant |-> t, item |-> item]
             record == [key |-> key, tenant_id |-> t, content |-> content, writer |-> v]
  <2>1. key \in Keys /\ raw' = [raw EXCEPT ![key] = record] /\ t = v
    BY <1>2 DEF Put
  <2>2. HonestRecord(record)
    BY <2>1 DEF HonestRecord
  <2> HIDE DEF key, record
  <2> QED BY <1>1, <2>1, <2>2
<1>3. ASSUME NEW v \in Tenants, NEW key \in Keys, Delete(v, key) PROVE Goal
  BY <1>1, <1>3 DEF Delete
<1>4. ASSUME NEW key \in Keys, NEW record \in Record, record.writer = Host, RawPut(key, record)
      PROVE  Goal
  <2>1. HonestRecord(record)
    BY <1>4 DEF HonestRecord
  <2> QED BY <1>1, <1>4, <2>1 DEF RawPut
<1>5. ASSUME NEW from \in Keys, NEW to \in Keys, RawCopy(from, to) PROVE Goal
  <2>1. HonestRecord(raw[from])
    BY <1>5 DEF RawCopy, ExposureInv
  <2> QED BY <1>1, <1>5, <2>1 DEF RawCopy
<1>6. ASSUME NEW key \in Keys, RawDelete(key) PROVE Goal
  BY <1>1, <1>6 DEF RawDelete
<1>7. CASE raw' = raw
  BY <1>7 DEF ExposureInv
<1> QED
  BY <1>2, <1>3, <1>4, <1>5, <1>6, <1>7
  DEF Next, HostStep, ViewStep, ShowGet, Search, ListBegin, ListFetch, ListEnd, Register

LEMMA ExposureStep == ExposureInv /\ [Next]_vars => ExposureInv'
<1> SUFFICES ASSUME ExposureInv, [Next]_vars PROVE ExposureInv'
  OBVIOUS
<1>1. CASE UNCHANGED vars
  BY <1>1 DEF vars, ExposureInv, NeverShowsForeignRecord, HonestRecord
<1>2. CASE Next
  <2> DEFINE Goal == /\ exposed' = [w \in Tenants |-> exposed'[w]]
                     /\ NeverShowsForeignRecord'
  <2>1. ASSUME NEW v \in Tenants, NEW key \in Keys, ShowGet(v, key) PROVE Goal
    <3>1. Get(v, key) = raw[key] /\ raw[key] # Missing /\ Owned(v, raw[key])
      BY <2>1 DEF ShowGet, Get
    <3>2. Show(v, {raw[key]}) /\ HonestRecord(raw[key])
      BY <2>1, <3>1 DEF ShowGet, ExposureInv
    <3> QED BY <3>1, <3>2, ShowOwned
  <2>2. ASSUME NEW v \in Tenants, Search(v) PROVE Goal
    <3>1. PICK hits \in SUBSET {raw[key] : key \in {k \in Keys : raw[k] # Missing}} :
            Show(v, {r \in hits : Owned(v, r)})
      BY <2>2 DEF Search
    <3>2. \A r \in hits : HonestRecord(r)
      BY DEF ExposureInv
    <3> QED BY <3>1, <3>2, ShowOwned
  <2>3. ASSUME exposed' = exposed PROVE Goal
    BY <2>3 DEF ExposureInv, NeverShowsForeignRecord
  <2>4. Goal
    BY <1>2, <2>1, <2>2, <2>3
    DEF Next, HostStep, ViewStep, Put, Delete, ListBegin, ListFetch, ListEnd,
        RawPut, RawCopy, RawDelete, Register
  <2> QED BY <1>2, <2>4, HonestStep DEF ExposureInv, HonestRecord
<1> QED BY <1>1, <1>2

(* Nothing of another tenant is ever shown to a tenant, whatever the host   *)
(* stores and under whichever key: neither by name nor by authorship.       *)
THEOREM NeverShowsForeignRecordCorrect == Spec => []NeverShowsForeignRecord
<1>1. Init => ExposureInv
  BY DEF Init, ExposureInv, NeverShowsForeignRecord
<1>2. ExposureInv => NeverShowsForeignRecord
  BY DEF ExposureInv
<1> QED BY <1>1, <1>2, ExposureStep, PTL DEF Spec

-----------------------------------------------------------------------------
(* What is stored is a record of a tenant, filed under a key in use.        *)
LEMMA StoredTypedStep ==
  ASSUME TypeOK, Next
  PROVE  raw' \in [Keys -> Record \union {Missing}] /\ registered' \subseteq Secrets
<1> DEFINE Goal == raw' \in [Keys -> Record \union {Missing}]
<1>1. ASSUME NEW to \in Keys, NEW value \in Record \union {Missing},
             raw' = [raw EXCEPT ![to] = value]
      PROVE  Goal
  BY <1>1 DEF TypeOK
<1>2. ASSUME NEW v \in Tenants, NEW t \in Tenants, NEW item \in Items,
             NEW content \in SUBSET Secrets, Put(v, t, item, content)
      PROVE  Goal
  <2> DEFINE key == [tenant |-> t, item |-> item]
             record == [key |-> key, tenant_id |-> t, content |-> content, writer |-> v]
  <2>1. key \in Keys /\ raw' = [raw EXCEPT ![key] = record]
    BY <1>2 DEF Put
  <2>2. record \in Record
    BY <2>1 DEF Record
  <2> HIDE DEF key, record
  <2> QED BY <1>1, <2>1, <2>2
<1>3. ASSUME NEW v \in Tenants, NEW key \in Keys, Delete(v, key) PROVE Goal
  BY <1>1, <1>3 DEF Delete
<1>4. ASSUME NEW key \in Keys, NEW record \in Record, RawPut(key, record) PROVE Goal
  BY <1>1, <1>4 DEF RawPut
<1>5. ASSUME NEW from \in Keys, NEW to \in Keys, RawCopy(from, to) PROVE Goal
  BY <1>1, <1>5 DEF RawCopy, TypeOK
<1>6. ASSUME NEW key \in Keys, RawDelete(key) PROVE Goal
  BY <1>1, <1>6 DEF RawDelete
<1>7. ASSUME raw' = raw PROVE Goal
  BY <1>7 DEF TypeOK
<1>8. Goal
  <2> HIDE DEF Goal
  <2>1. ASSUME HostStep PROVE Goal
    BY <1>4, <1>5, <1>6, <1>7, <2>1 DEF HostStep, Register
  <2>2. ASSUME NEW v \in Tenants, ViewStep(v) PROVE Goal
    <3>1. ASSUME ~\E t \in Tenants, item \in Items, content \in SUBSET Secrets :
                   Put(v, t, item, content),
                 ~\E key \in Keys : Delete(v, key)
          PROVE  raw' = raw
      BY <2>2, <3>1 DEF ViewStep, ShowGet, Search, ListBegin, ListFetch, ListEnd
    <3> QED BY <1>2, <1>3, <1>7, <3>1
  <2> QED BY <2>1, <2>2 DEF Next
<1>9. registered' \subseteq Secrets
  BY DEF TypeOK, Next, HostStep, ViewStep, Put, Delete, ShowGet, Search, ListBegin,
     ListFetch, ListEnd, RawPut, RawCopy, RawDelete, Register
<1> QED BY <1>8, <1>9

(* What is shown of stored records names parties and fields there are.      *)
LEMMA ShowTyped ==
  ASSUME TypeOK, NEW v \in Tenants, NEW records \in SUBSET Record, Show(v, records)
  PROVE  /\ exposed' \in [Tenants -> SUBSET (Tenants \union {Host, NoTenant})]
         /\ spilled' \in [Tenants -> SUBSET Fields]
<1> DEFINE shown == UNION {Parties(r) : r \in records}
           spills == UNION {SpillsOf(r) : r \in records}
<1>1. shown \subseteq Tenants \union {Host, NoTenant}
  <2>1. ASSUME NEW r \in records PROVE Parties(r) \subseteq Tenants \union {Host, NoTenant}
    <3>1. r.key.tenant \in Tenants \union {NoTenant}
      BY StoreAssumption DEF Record
    <3> QED BY <3>1 DEF Parties, Record
  <2> QED BY <2>1
<1>2. spills \subseteq Fields
  BY DEF SpillsOf, Fields
<1>3. /\ exposed' = [exposed EXCEPT ![v] = exposed[v] \union shown]
      /\ spilled' = [spilled EXCEPT ![v] = spilled[v] \union spills]
  BY DEF Show
<1> HIDE DEF shown, spills
<1> QED BY <1>1, <1>2, <1>3 DEF TypeOK

LEMMA ShownTypedStep ==
  ASSUME TypeOK, Next
  PROVE  /\ exposed' \in [Tenants -> SUBSET (Tenants \union {Host, NoTenant})]
         /\ spilled' \in [Tenants -> SUBSET Fields]
<1> DEFINE Goal == /\ exposed' \in [Tenants -> SUBSET (Tenants \union {Host, NoTenant})]
                   /\ spilled' \in [Tenants -> SUBSET Fields]
<1>1. ASSUME NEW v \in Tenants, NEW key \in Keys, ShowGet(v, key) PROVE Goal
  <2>1. Get(v, key) \in Record
    BY <1>1 DEF ShowGet, Get, TypeOK
  <2> QED BY <1>1, <2>1, ShowTyped DEF ShowGet
<1>2. ASSUME NEW v \in Tenants, Search(v) PROVE Goal
  <2>1. PICK hits \in SUBSET {raw[key] : key \in {k \in Keys : raw[k] # Missing}} :
          Show(v, {r \in hits : Owned(v, r)})
    BY <1>2 DEF Search
  <2>2. hits \subseteq Record
    BY DEF TypeOK
  <2> QED BY <2>1, <2>2, ShowTyped
<1>3. ASSUME NEW v \in Tenants, NEW key \in Keys, ListFetch(v, key) PROVE Goal
  BY <1>3 DEF ListFetch, Fields, TypeOK
<1>4. ASSUME UNCHANGED <<exposed, spilled>> PROVE Goal
  BY <1>4 DEF TypeOK
<1> QED
  BY <1>1, <1>2, <1>3, <1>4
  DEF Next, HostStep, ViewStep, Put, Delete, ListBegin, ListEnd,
      RawPut, RawCopy, RawDelete, Register

(* The raw store, the listings in progress and the histories keep their     *)
(* types under the host's and the views' steps.                             *)
THEOREM TypeCorrect == Spec => []TypeOK
<1>1. Init => TypeOK
  BY DEF Init, TypeOK
<1>2. ASSUME TypeOK, Next PROVE TypeOK'
  <2>1. listing' \in [Tenants ->
          [prefix: Prefixes, out: SUBSET Keys, pending: SUBSET Keys] \union {NotListing}]
    BY <1>2, ListingTypedStep DEF ListingTyped, TypeOK
  <2>2. \A v : OwnedKeys(v)' \subseteq Keys
    BY DEF OwnedKeys
  <2>3. steady' \in [Tenants -> SUBSET Keys] /\ touched' \in [Tenants -> SUBSET Keys]
    BY <1>2, <2>2 DEF Next, Observe, TypeOK
  <2> QED BY <1>2, <2>1, <2>3, StoredTypedStep, ShownTypedStep DEF TypeOK
<1>3. TypeOK /\ UNCHANGED vars => TypeOK'
  BY DEF TypeOK, vars
<1> QED BY <1>1, <1>2, <1>3, PTL DEF Spec
=============================================================================
