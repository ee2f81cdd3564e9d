---------------------------- MODULE DefenseLayer ----------------------------
(***************************************************************************)
(* The components as a harness puts them together through the provider      *)
(* (provider.py): one cached scanner, the broker that teaches it, a view of *)
(* the raw store per tenant, the posture registry and the task registries.  *)
(* Factories are called in any order the harness can call them in; a        *)
(* harness runs its posture turn before its task turn.                      *)
(*                                                                         *)
(* Text is the set of Values in it; a scan takes out what its scanner was   *)
(* taught.  The tool an agent calls is shared_memory: host code that hands  *)
(* on what the view answers.  JSON leaves the values as they are.           *)
(***************************************************************************)
EXTENDS PostureRegistry, Naturals

CONSTANTS
  Tenants, NoTenant, Host, Items, Keys, Missing,  \* as in ScopedStore
  Values,     \* secrets, and data a tenant wants to itself
  Backing,    \* {model_key, tool_backing_secret}
  Tokens,     \* values the broker can mint
  Contents,     \* the texts in use
  Scanners,   \* OutputScanner objects
  NotBuilt,   \* an object nobody has made yet
  MaxWrites   \* bound: writes to the raw store

ASSUME LayerAssumption ==
  /\ Backing \union Tokens \subseteq Values
  /\ Contents \subseteq SUBSET Values
  /\ NotBuilt \notin Scanners
  /\ MaxWrites \in Nat

VARIABLES
  cached,        \* Deployment._scanner
  taught,        \* per scanner made, the values registered on it
  handle,        \* what make_scanner returned to the harness
  broker,        \* the scanner the broker registers on
  views,         \* per tenant, the scanner of its ScopedStore
  tasks,         \* per tenant, the scanner of its task registry
  posture,       \* tenant and scanner of the posture registry, text of its bulletin
  turn,          \* "posture", then "task"
  raw,           \* the raw store
  writes,        \* how often it was written
  protected,     \* history: what the broker has registered
  entrusted,     \* history: per tenant, values in records and bulletins for it
  disclosed      \* history: per tenant, values its agent was shown

buildVars == <<cached, handle, broker, views, tasks, posture>>
historyVars == <<protected, entrusted, disclosed>>
vars == <<postureVars, buildVars, taught, turn, raw, writes, historyVars>>

(* The views, on what they read.  Their own history is not needed here. *)
Store == INSTANCE ScopedStore
           WITH Prefixes <- {}, Secrets <- Values, NotListing <- NotBuilt,
                registered <- {}, listing <- {}, steady <- {}, touched <- {},
                exposed <- {}, spilled <- {}

-----------------------------------------------------------------------------
Made == DOMAIN taught

Untaught(s) == [x \in Made \union {s} |-> IF x \in Made THEN taught[x] ELSE {}]

(* Mutant: every call makes another scanner. *)
NewScannerEachTime(s) ==
  /\ s \notin Made
  /\ cached' = s
  /\ taught' = Untaught(s)

(* make_scanner: the cached instance, made by whoever asks first. *)
GetScanner(s) ==
  \/ /\ s = cached
     /\ UNCHANGED <<cached, taught>>
  \/ /\ cached = NotBuilt
     /\ s \notin Made
     /\ cached' = s
     /\ taught' = Untaught(s)

(* The harness asks for it. *)
MakeScanner ==
  /\ \E s \in Scanners : GetScanner(s) /\ handle' = s
  /\ UNCHANGED <<broker, views, tasks, posture, historyVars>>

(* Mutant: the secrets are registered as one value, not one by one. *)
TeachAsOne(s, secrets) ==
  /\ taught' = [taught EXCEPT ![s] = @ \union {secrets}]
  /\ protected' = protected \union secrets

Teach(s, secrets) ==
  /\ taught' = [taught EXCEPT ![s] = @ \union secrets]
  /\ protected' = protected \union secrets

(* make_broker, on the scanner the harness holds. *)
MakeBroker ==
  /\ handle # NotBuilt
  /\ broker = NotBuilt
  /\ broker' = handle
  /\ Teach(handle, Backing)
  /\ UNCHANGED <<cached, handle, views, tasks, posture, entrusted, disclosed>>

(* issue_tool_credential *)
IssueCredential ==
  /\ broker # NotBuilt
  /\ \E token \in Tokens \ protected : Teach(broker, {token})
  /\ UNCHANGED <<buildVars, entrusted, disclosed>>

(* wrap_store *)
WrapStore(t) ==
  /\ views[t] = NotBuilt
  /\ \E s \in Scanners : GetScanner(s) /\ views' = [views EXCEPT ![t] = s]
  /\ UNCHANGED <<handle, broker, tasks, posture, historyVars>>

(* task_registry, on a ctx that holds the view: with the scanner of the     *)
(* harness, or with none, and then with the cached one.                     *)
TaskRegistry(t) ==
  /\ views[t] # NotBuilt
  /\ tasks[t] = NotBuilt
  /\ \E s \in Scanners :
       /\ \/ s = handle /\ UNCHANGED <<cached, taught>>
          \/ GetScanner(s)
       /\ tasks' = [tasks EXCEPT ![t] = s]
  /\ UNCHANGED <<handle, broker, views, posture, historyVars>>

(* Values that exist: tokens do once they are minted. *)
Existing == (Values \ Tokens) \union (Tokens \intersect protected)

(* posture_registry, on a ctx with a bulletin. *)
MakePosture(t) ==
  /\ turn = "posture"
  /\ posture = NotBuilt
  /\ \E s \in Scanners, text \in {x \in Contents : x \subseteq Existing} :
       /\ GetScanner(s)
       /\ posture' = [tenant |-> t, scanner |-> s, text |-> text]
       /\ entrusted' = [entrusted EXCEPT ![t] = @ \union text]
  /\ UNCHANGED <<handle, broker, views, tasks, protected, disclosed>>

Build ==
  /\ \/ MakeScanner
     \/ MakeBroker
     \/ IssueCredential
     \/ \E t \in Tenants : WrapStore(t) \/ TaskRegistry(t) \/ MakePosture(t)
  /\ UNCHANGED <<postureVars, turn, raw, writes>>

-----------------------------------------------------------------------------
Show(t, text) == disclosed' = [disclosed EXCEPT ![t] = @ \union text]

(* PostureRegistry.call: its result is scanned; the fallback holds no value. *)
PostureStep ==
  /\ turn = "posture"
  /\ posture # NotBuilt
  /\ PostureNext
  /\ IF reading # NotReading /\ outcome'.handed = "delivered"
       THEN Show(posture.tenant, posture.text \ taught[posture.scanner])
       ELSE UNCHANGED disclosed
  /\ UNCHANGED <<buildVars, taught, turn, raw, writes, protected, entrusted>>

(* The posture registry and its ctx are dropped. *)
StartTaskTurn ==
  /\ turn = "posture"
  /\ reading = NotReading
  /\ turn' = "task"
  /\ posture' = NotBuilt
  /\ delivered' = NoBulletin
  /\ outcome' = Answer("none", "none")
  /\ inForce' = {}
  /\ UNCHANGED <<schema, reading, cached, handle, broker, views, tasks, taught, raw, writes,
                 historyVars>>

-----------------------------------------------------------------------------
(* Mutant: a registry returns results as they come. *)
ReturnUnscanned(t, text) == Show(t, text)

(* EnforcingTaskRegistry.call returns a result: scanned once more. *)
Return(t, text) == Show(t, text \ taught[tasks[t]])

(* A ScopedRecord: content redacted, key and name as they are. *)
Fields(v, record) ==
  ({record.key.item} \intersect Values) \union (record.content \ taught[views[v]])

(* Mutant: the tool is given the raw store. *)
ReadRaw(t) ==
  \E key \in {k \in Keys : raw[k] # Missing} : Return(t, Fields(t, raw[key]))

ReadRecord(t) ==
  \E key \in {k \in Keys : Store!Get(t, k) # Missing} :
    Return(t, Fields(t, Store!Get(t, key)))

ListKeys(t) ==
  Return(t, ({key.item : key \in Store!OwnedKeys(t)} \intersect Values) \ taught[views[t]])

Search(t) ==
  \E hits \in SUBSET {raw[key] : key \in {k \in Keys : raw[k] # Missing}} :
    Return(t, UNION {Fields(t, r) : r \in {hit \in hits : Store!Owned(t, hit)}})

(* An agent reads its tenant's memory. *)
AgentReads(t) ==
  /\ tasks[t] # NotBuilt
  /\ ReadRecord(t) \/ ListKeys(t) \/ Search(t)
  /\ UNCHANGED <<raw, writes, entrusted>>

TextOf(item, content) == content \union ({item} \intersect Values)

(* An agent writes what it can know: what it was shown, and what no secret  *)
(* is.  The view refuses another tenant's name and another tenant's key.    *)
AgentWrites(t) ==
  /\ tasks[t] # NotBuilt
  /\ writes < MaxWrites
  /\ writes' = writes + 1
  /\ \/ \E owner \in Tenants, item \in Items, content \in Contents :
          /\ TextOf(item, content) \subseteq disclosed[t] \union (Values \ (Backing \union Tokens))
          /\ Store!Put(t, owner, item, content)
          /\ entrusted' = [entrusted EXCEPT ![t] = @ \union TextOf(item, content)]
     \/ \E key \in Keys : Store!Delete(t, key) /\ UNCHANGED entrusted
  /\ UNCHANGED disclosed

(* The host files any record under any key.  The key is meant for its       *)
(* tenant, and a record whose key and tenant_id agree for that one.         *)
HostPut(key, own, t, content) ==
  LET name == {key.item} \intersect Values
  IN  /\ TextOf(own.item, content) \union name \subseteq Existing
      /\ Store!RawPut(key, [key |-> own, tenant_id |-> t, content |-> content, writer |-> Host])
      /\ entrusted' = [x \in Tenants |->
           entrusted[x]
             \union (IF key.tenant = x THEN name ELSE {})
             \union (IF own.tenant = x /\ t = x THEN TextOf(own.item, content) ELSE {})]

HostCopy(from, to) ==
  LET name == {to.item} \intersect Values
  IN  /\ name \subseteq Existing
      /\ Store!RawCopy(from, to)
      /\ entrusted' = [x \in Tenants |->
           entrusted[x] \union (IF to.tenant = x THEN name ELSE {})]

HostWrites ==
  /\ writes < MaxWrites
  /\ writes' = writes + 1
  /\ \/ \E key, own \in Keys, t \in Tenants, content \in Contents : HostPut(key, own, t, content)
     \/ \E from, to \in Keys : HostCopy(from, to)
     \/ \E key \in Keys : Store!RawDelete(key) /\ UNCHANGED entrusted
  /\ UNCHANGED disclosed

TaskStep ==
  /\ turn = "task"
  /\ HostWrites \/ \E t \in Tenants : AgentReads(t) \/ AgentWrites(t)
  /\ UNCHANGED <<postureVars, buildVars, taught, turn, protected>>

-----------------------------------------------------------------------------
Init ==
  /\ PostureInit
  /\ cached = NotBuilt /\ handle = NotBuilt /\ broker = NotBuilt /\ posture = NotBuilt
  /\ views = [t \in Tenants |-> NotBuilt]
  /\ tasks = [t \in Tenants |-> NotBuilt]
  /\ taught = [s \in {} |-> {}]
  /\ turn = "posture"
  /\ raw = [key \in Keys |-> Missing]
  /\ writes = 0
  /\ protected = {}
  /\ entrusted = [t \in Tenants |-> {}]
  /\ disclosed = [t \in Tenants |-> {}]

Next == Build \/ PostureStep \/ StartTaskTurn \/ TaskStep

Spec == Init /\ [][Next]_vars

-----------------------------------------------------------------------------
Built == Scanners \union {NotBuilt}

LayerTypeOK ==
  /\ PostureTypeOK
  /\ cached \in Built /\ handle \in Built /\ broker \in Built
  /\ views \in [Tenants -> Built]
  /\ tasks \in [Tenants -> Built]
  /\ taught \in [Made -> SUBSET Values] /\ Made \subseteq Scanners
  /\ posture \in [tenant: Tenants, scanner: Scanners, text: Contents] \union {NotBuilt}
  /\ turn \in {"posture", "task"}
  /\ raw \in [Keys -> Store!Record \union {Missing}]
  /\ writes \in 0..MaxWrites
  /\ protected \subseteq Values
  /\ entrusted \in [Tenants -> SUBSET Values]
  /\ disclosed \in [Tenants -> SUBSET Values]

(* The whole layer does what Containment promises: from the moment the      *)
(* broker has registered a value no agent is shown it, in a record, a key,  *)
(* a name or a bulletin, whichever factory was called before or after; and  *)
(* no agent is shown what was not meant for its tenant.                     *)
Contained == INSTANCE Containment

RefinesContainment == Contained!Spec
=============================================================================
