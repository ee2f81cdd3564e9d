------------------------- MODULE DefenseLayerProofs -------------------------
(***************************************************************************)
(* Proofs about DefenseLayer and the posture registry it contains.          *)
(***************************************************************************)
EXTENDS DefenseLayer, TLAPS

-----------------------------------------------------------------------------
(* Under a schema of the vendored kind, validating field by field is what   *)
(* Conforms says at once.                                                   *)
LEMMA ValidatesIsConforms ==
  ASSUME NEW s \in Schemas \ {Unreadable}, NEW b,
         b \notin {NoBulletin, NotADict} => b \in [DOMAIN b -> FieldValues]
  PROVE  Validates(b, s) <=> Conforms(b, s)
<1>1. s.required = s.properties /\ s.enums \subseteq s.properties /\ ~s.open
  BY PostureAssumption
<1>2. CASE b \in {NoBulletin, NotADict}
  BY <1>2 DEF Validates, Conforms, IsDict
<1>3. CASE b \notin {NoBulletin, NotADict}
  <2>1. b \in [DOMAIN b -> FieldValues]
    BY <1>3
  <2>2. ASSUME Validates(b, s) PROVE Conforms(b, s)
    <3>1. DOMAIN b = s.properties
      BY <1>1, <2>2 DEF Validates, MissingFields, ExtraFields
    <3>2. \A name \in s.properties : b[name] \in {"listed", "text"}
      BY <2>1, <2>2, <3>1 DEF Validates, FieldOk, FieldValues, Texts
    <3>3. \A name \in s.enums : b[name] = "listed"
      BY <1>1, <2>2, <3>1 DEF Validates, FieldOk
    <3>4. b \in [s.properties -> {"listed", "text"}]
      BY <2>1, <3>1, <3>2
    <3> QED
      BY <1>3, <3>3, <3>4 DEF Conforms
  <2>3. ASSUME Conforms(b, s) PROVE Validates(b, s)
    <3>1. b \in [s.properties -> {"listed", "text"}]
      BY <2>3 DEF Conforms
    <3>2. \A name \in s.enums : b[name] = "listed"
      BY <2>3 DEF Conforms
    <3>3. \A name \in s.properties : FieldOk(b[name], name, s)
      BY <3>1, <3>2 DEF FieldOk, Texts
    <3> QED
      BY <1>1, <1>3, <3>1, <3>3 DEF Validates, IsDict, MissingFields, ExtraFields
  <2> QED
    BY <2>2, <2>3
<1> QED
  BY <1>2, <1>3

LEMMA FallbackIsBulletin ==
  /\ Fallback \in [DOMAIN Fallback -> FieldValues]
  /\ Validates(Fallback, Vendored)
<1>1. /\ DOMAIN Fallback = {"priority", "summary"}
      /\ Fallback["priority"] = "listed" /\ Fallback["summary"] = "text"
  BY DEF Fallback
<1>2. Fallback \in [DOMAIN Fallback -> FieldValues]
  BY <1>1 DEF Fallback, FieldValues
<1>3. IsDict(Fallback)
  BY PostureAssumption DEF IsDict
<1>4. /\ MissingFields(Fallback, Vendored) = {}
      /\ ExtraFields(Fallback, Vendored) = {}
  BY <1>1 DEF MissingFields, ExtraFields, Vendored
<1>5. \A name \in {"priority", "summary"} : FieldOk(Fallback[name], name, Vendored)
  BY <1>1 DEF FieldOk, Texts, Vendored
<1> QED
  BY <1>2, <1>3, <1>4, <1>5 DEF Validates, Vendored

-----------------------------------------------------------------------------
(* What makes the three properties of a call inductive: while it runs       *)
(* nothing is handed over, the schema on disk is one of those in force, and *)
(* the fallback is reached only past a schema the bulletin fails.           *)
CallInv ==
  /\ reading # NotReading => schema \in inForce /\ outcome = Answer("none", "none")
  /\ reading = "fallback" => \E s \in inForce : s = Unreadable \/ ~Conforms(delivered, s)

PostureInv ==
  /\ CallInv
  /\ OnlyConformingBulletins
  /\ ConformingBulletinArrives
  /\ FallbackStands

LEMMA PostureStart == PostureInit => PostureTypeOK /\ PostureInv
  BY PostureAssumption
     DEF PostureInit, PostureTypeOK, PostureInv, CallInv, Answer, Answers,
         OnlyConformingBulletins, ConformingBulletinArrives, FallbackStands

LEMMA PostureTypes ==
  ASSUME PostureTypeOK, PostureNext
  PROVE  PostureTypeOK'
  BY PostureAssumption
     DEF PostureTypeOK, PostureNext, CallUnknown, CallRead, ReadDelivered, ReadFallback,
         ReplaceSchema, Finish, Answer, Answers

LEMMA PostureInvStep ==
  ASSUME PostureTypeOK, PostureInv, PostureNext
  PROVE  PostureInv'
<1> USE PostureAssumption DEF PostureTypeOK, PostureInv, Answer
<1>0. \A b \in Bulletins, s \in Schemas \ {Unreadable} :
        Validates(b, s) <=> Conforms(b, s)
  BY ValidatesIsConforms
<1>1. CASE CallUnknown
  BY <1>1 DEF CallUnknown, CallInv, OnlyConformingBulletins, ConformingBulletinArrives,
              FallbackStands
<1>2. CASE CallRead
  <2>1. delivered = NoBulletin => ~Conforms(delivered, schema)
    BY DEF Conforms
  <2>2. CallInv'
    BY <1>2, <2>1 DEF CallRead, CallInv, Conforms
  <2> QED
    BY <1>2, <2>2 DEF CallRead, OnlyConformingBulletins, ConformingBulletinArrives,
                      FallbackStands
<1>3. CASE ReadDelivered
  <2>1. schema \in inForce /\ schema \in Schemas /\ delivered \in Bulletins
    BY <1>3 DEF ReadDelivered, CallInv
  <2>2. CASE schema = Unreadable /\ Finish("denial", "tool_error")
    BY <2>1, <2>2 DEF Finish, CallInv, OnlyConformingBulletins,
                      ConformingBulletinArrives, FallbackStands
  <2>3. CASE schema # Unreadable /\ Validates(delivered, schema) /\ Finish("delivered", "ok")
    <3>1. Conforms(delivered, schema)
      BY <1>0, <2>1, <2>3
    <3> QED
      BY <2>1, <2>3, <3>1 DEF Finish, CallInv, OnlyConformingBulletins, Handed, Conforms,
                              ConformingBulletinArrives, FallbackStands
  <2>4. CASE /\ schema # Unreadable /\ ~Validates(delivered, schema)
             /\ reading' = "fallback"
             /\ UNCHANGED <<schema, delivered, outcome, inForce>>
    <3>1. ~Conforms(delivered, schema)
      BY <1>0, <2>1, <2>4
    <3> QED
      BY <1>3, <2>1, <2>4, <3>1 DEF ReadDelivered, CallInv, OnlyConformingBulletins, Conforms,
                              ConformingBulletinArrives, FallbackStands
  <2> QED
    BY <1>3, <2>2, <2>3, <2>4 DEF ReadDelivered
<1>4. CASE ReadFallback
  <2>1. schema \in inForce /\ schema \in Schemas
    BY <1>4 DEF ReadFallback, CallInv
  <2>2. \E s \in inForce : s = Unreadable \/ ~Conforms(delivered, s)
    BY <1>4 DEF ReadFallback, CallInv
  <2>3. CASE schema # Unreadable /\ Validates(Fallback, schema)
    <3>1. Conforms(Fallback, schema)
      BY <2>1, <2>3, ValidatesIsConforms, FallbackIsBulletin
    <3>2. Finish("fallback", "ok")
      BY <1>4, <2>3 DEF ReadFallback
    <3> QED
      BY <2>1, <2>2, <2>3, <3>1, <3>2
         DEF Finish, CallInv, OnlyConformingBulletins, Handed, Conforms,
             ConformingBulletinArrives, FallbackStands
  <2>4. CASE ~(schema # Unreadable /\ Validates(Fallback, schema))
    <3>1. Finish("denial", "tool_error")
      BY <1>4, <2>4 DEF ReadFallback
    <3>2. schema # Vendored
      BY <2>4, FallbackIsBulletin
    <3> QED
      BY <2>1, <2>2, <3>1, <3>2
         DEF Finish, CallInv, OnlyConformingBulletins, Conforms,
             ConformingBulletinArrives, FallbackStands
  <2> QED
    BY <2>3, <2>4
<1>5. ASSUME NEW s \in Schemas, ReplaceSchema(s) PROVE PostureInv'
  <2>1. CASE reading = NotReading
    BY <1>5, <2>1 DEF ReplaceSchema, CallInv, OnlyConformingBulletins, Handed, Conforms,
                      ConformingBulletinArrives, FallbackStands
  <2>2. CASE reading # NotReading
    BY <1>5, <2>2 DEF ReplaceSchema, CallInv, OnlyConformingBulletins, Handed, Conforms,
                      ConformingBulletinArrives, FallbackStands
  <2> QED
    BY <2>1, <2>2
<1> QED
  BY <1>1, <1>2, <1>3, <1>4, <1>5 DEF PostureNext

-----------------------------------------------------------------------------
(* There is one scanner: whoever holds one holds the cached one. *)
OneScanner ==
  /\ cached # NotBuilt => cached \in Made
  /\ handle \in {NotBuilt, cached}
  /\ broker \in {NotBuilt, cached}
  /\ \A t \in Tenants : views[t] \in {NotBuilt, cached} /\ tasks[t] \in {NotBuilt, cached}
  /\ posture # NotBuilt => posture.scanner = cached

(* It knows every protected value. *)
Learned == protected \subseteq IF cached = NotBuilt THEN {} ELSE taught[cached]

(* A record that a tenant may read, and the key it is found under, are      *)
(* among what was entrusted to the tenant; so is the bulletin.              *)
Filed ==
  \A key \in Keys, t \in Tenants : Store!Get(t, key) # Missing =>
    {key.item} \intersect Values \subseteq entrusted[t]

Kept ==
  \A key \in Keys, t \in Tenants : raw[key] # Missing /\ Store!Owned(t, raw[key]) =>
    TextOf(raw[key].key.item, raw[key].content) \subseteq entrusted[t]

Announced == posture # NotBuilt => posture.text \subseteq entrusted[posture.tenant]

LayerInv == OneScanner /\ Learned /\ Filed /\ Kept /\ Announced

(* Whoever gets the cached scanner, the harness or a factory: it is there,  *)
(* it was the cached one if there was one, and it knows what was taught.    *)
LEMMA GetScannerWorks ==
  ASSUME LayerTypeOK, OneScanner, NEW s \in Scanners, GetScanner(s)
  PROVE  /\ cached' = s /\ cached \in {NotBuilt, s}
         /\ s \in Made' /\ Made' \subseteq Scanners
         /\ taught' \in [Made' -> SUBSET Values]
         /\ cached = s => taught' = taught
<1> USE LayerAssumption
<1>1. CASE s \notin Made /\ cached = NotBuilt /\ cached' = s /\ taught' = Untaught(s)
  <2>1. Made' = Made \union {s}
    BY <1>1 DEF Untaught, Made
  <2> QED
    BY <1>1, <2>1 DEF LayerTypeOK, Untaught, Made
<1>2. CASE s = cached /\ UNCHANGED <<cached, taught>>
  BY <1>2 DEF LayerTypeOK, Made, OneScanner
<1> QED
  BY <1>1, <1>2 DEF GetScanner

LEMMA TeachWorks ==
  ASSUME LayerTypeOK, NEW s \in Made, NEW secrets \in SUBSET Values, Teach(s, secrets)
  PROVE  /\ taught' \in [Made -> SUBSET Values] /\ Made' = Made
         /\ taught'[s] = taught[s] \union secrets
         /\ protected' = protected \union secrets
  BY DEF Teach, Made, LayerTypeOK

-----------------------------------------------------------------------------
LEMMA StartWorks == Init => LayerTypeOK /\ PostureInv /\ LayerInv
<1> SUFFICES ASSUME Init PROVE LayerTypeOK /\ PostureInv /\ LayerInv
  OBVIOUS
<1>1. PostureTypeOK /\ PostureInv
  BY PostureStart DEF Init
<1>2. Made = {}
  BY DEF Init, Made
<1>3. taught \in [Made -> SUBSET Values]
  BY <1>2 DEF Init
<1>4. LayerTypeOK
  BY <1>1, <1>2, <1>3, LayerAssumption DEF Init, LayerTypeOK, Built
<1>5. LayerInv
  BY DEF Init, LayerInv, OneScanner, Learned, Filed, Kept, Announced, Store!Get
<1> QED
  BY <1>1, <1>4, <1>5

(* Building changes no record, no bulletin in use and nothing of the call. *)
LEMMA BuildTypes ==
  ASSUME LayerTypeOK, OneScanner, Build
  PROVE  LayerTypeOK'
<1> USE LayerAssumption DEF Built
<1>0. PostureTypeOK'
  BY DEF Build, postureVars, LayerTypeOK, PostureTypeOK
<1>1. CASE MakeScanner
  <2>1. PICK s \in Scanners : GetScanner(s) /\ handle' = s
    BY <1>1 DEF MakeScanner
  <2> QED
    BY <1>0, <1>1, <2>1, GetScannerWorks DEF LayerTypeOK, MakeScanner, Build, historyVars
<1>2. CASE MakeBroker
  <2>1. handle \in Made /\ Backing \in SUBSET Values
    BY <1>2 DEF MakeBroker, OneScanner
  <2>2. Teach(handle, Backing)
    BY <1>2 DEF MakeBroker
  <2> QED
    BY <1>0, <1>2, <2>1, <2>2, TeachWorks DEF LayerTypeOK, MakeBroker, Build
<1>3. CASE IssueCredential
  <2>1. PICK token \in Tokens \ protected : Teach(broker, {token})
    BY <1>3 DEF IssueCredential
  <2>2. broker \in Made /\ {token} \in SUBSET Values
    BY <1>3 DEF IssueCredential, OneScanner
  <2> QED
    BY <1>0, <1>3, <2>1, <2>2, TeachWorks DEF LayerTypeOK, IssueCredential, Build, buildVars
<1>4. ASSUME NEW t \in Tenants, WrapStore(t) PROVE LayerTypeOK'
  <2>1. PICK s \in Scanners : GetScanner(s) /\ views' = [views EXCEPT ![t] = s]
    BY <1>4 DEF WrapStore
  <2> QED
    BY <1>0, <1>4, <2>1, GetScannerWorks DEF LayerTypeOK, WrapStore, Build, historyVars
<1>5. ASSUME NEW t \in Tenants, TaskRegistry(t) PROVE LayerTypeOK'
  <2>1. PICK s \in Scanners :
          /\ \/ s = handle /\ UNCHANGED <<cached, taught>>
             \/ GetScanner(s)
          /\ tasks' = [tasks EXCEPT ![t] = s]
    BY <1>5 DEF TaskRegistry
  <2>2. CASE UNCHANGED <<cached, taught>>
    BY <1>0, <1>5, <2>1, <2>2 DEF LayerTypeOK, TaskRegistry, Build, historyVars, Made
  <2>3. CASE GetScanner(s)
    BY <1>0, <1>5, <2>1, <2>3, GetScannerWorks DEF LayerTypeOK, TaskRegistry, Build, historyVars
  <2> QED
    BY <2>1, <2>2, <2>3
<1>6. ASSUME NEW t \in Tenants, MakePosture(t) PROVE LayerTypeOK'
  <2>1. PICK s \in Scanners, text \in Contents :
          /\ GetScanner(s)
          /\ posture' = [tenant |-> t, scanner |-> s, text |-> text]
          /\ entrusted' = [entrusted EXCEPT ![t] = @ \union text]
    BY <1>6 DEF MakePosture
  <2>2. entrusted' \in [Tenants -> SUBSET Values]
    BY <2>1 DEF LayerTypeOK
  <2> QED
    BY <1>0, <1>6, <2>1, <2>2, GetScannerWorks DEF LayerTypeOK, MakePosture, Build
<1> QED
  BY <1>1, <1>2, <1>3, <1>4, <1>5, <1>6 DEF Build

-----------------------------------------------------------------------------
(* Building keeps the invariant: a factory that finds no scanner makes the  *)
(* one scanner, and what the broker is told it registers on that one.       *)
LEMMA BuildInv ==
  ASSUME LayerTypeOK, LayerInv, Build
  PROVE  LayerInv'
<1> USE LayerAssumption DEF LayerInv, Built
<1>1. UNCHANGED raw
  BY DEF Build
<1>2. ASSUME NEW s \in Scanners, GetScanner(s), UNCHANGED protected
      PROVE  /\ Learned'
             /\ cached' = s /\ s # NotBuilt /\ s \in Made' /\ cached \in {NotBuilt, s}
  BY <1>2, GetScannerWorks DEF Learned
<1>3. CASE UNCHANGED entrusted
  <2>1. Filed' /\ Kept'
    BY <1>1, <1>3 DEF Filed, Kept, Store!Get, Store!Owned
  <2>2. CASE MakeScanner
    <3>1. PICK s \in Scanners : GetScanner(s) /\ handle' = s
      BY <2>2 DEF MakeScanner
    <3>2. UNCHANGED <<broker, views, tasks, posture, protected>>
      BY <2>2 DEF MakeScanner, historyVars
    <3>3. OneScanner'
      BY <1>2, <3>1, <3>2 DEF OneScanner, LayerTypeOK
    <3> QED
      BY <1>2, <2>1, <3>1, <3>2, <3>3, <1>3 DEF Announced
  <2>3. CASE MakeBroker
    <3>1. handle \in Made /\ Backing \in SUBSET Values /\ Teach(handle, Backing)
      BY <2>3 DEF MakeBroker, OneScanner
    <3> QED
      BY <2>1, <2>3, <3>1, <1>3, TeachWorks DEF MakeBroker, OneScanner, Learned, Announced
  <2>4. CASE IssueCredential
    <3>1. PICK token \in Tokens \ protected : Teach(broker, {token})
      BY <2>4 DEF IssueCredential
    <3>2. broker \in Made /\ {token} \in SUBSET Values /\ broker = cached
      BY <2>4 DEF IssueCredential, OneScanner
    <3> QED
      BY <2>1, <2>4, <3>1, <3>2, <1>3, TeachWorks
         DEF IssueCredential, buildVars, OneScanner, Learned, Announced
  <2>5. ASSUME NEW t \in Tenants, WrapStore(t) PROVE LayerInv'
    <3>1. PICK s \in Scanners : GetScanner(s) /\ views' = [views EXCEPT ![t] = s]
      BY <2>5 DEF WrapStore
    <3> QED
      BY <1>2, <2>1, <2>5, <3>1, <1>3
         DEF WrapStore, historyVars, OneScanner, Announced, LayerTypeOK
  <2>6. ASSUME NEW t \in Tenants, TaskRegistry(t) PROVE LayerInv'
    <3>1. PICK s \in Scanners :
            /\ \/ s = handle /\ UNCHANGED <<cached, taught>>
             \/ GetScanner(s)
            /\ tasks' = [tasks EXCEPT ![t] = s]
      BY <2>6 DEF TaskRegistry
    <3>2. CASE s = handle /\ UNCHANGED <<cached, taught>>
      BY <2>1, <2>6, <3>1, <3>2, <1>3
         DEF TaskRegistry, historyVars, OneScanner, Learned, Made, Announced, LayerTypeOK
    <3>3. CASE GetScanner(s)
      BY <1>2, <2>1, <2>6, <3>1, <3>3, <1>3
         DEF TaskRegistry, historyVars, OneScanner, Announced, LayerTypeOK
    <3> QED
      BY <3>1, <3>2, <3>3
  <2>7. ASSUME NEW t \in Tenants, MakePosture(t) PROVE LayerInv'
    <3>1. PICK s \in Scanners, text \in Contents :
            /\ GetScanner(s)
            /\ posture' = [tenant |-> t, scanner |-> s, text |-> text]
            /\ entrusted' = [entrusted EXCEPT ![t] = @ \union text]
      BY <2>7 DEF MakePosture
    <3>2. text \subseteq entrusted[t]
      BY <3>1, <1>3 DEF LayerTypeOK
    <3> QED
      BY <1>2, <2>1, <2>7, <3>1, <3>2, <1>3 DEF MakePosture, OneScanner, Announced
  <2> QED
    BY <2>2, <2>3, <2>4, <2>5, <2>6, <2>7 DEF Build
<1>4. CASE entrusted' # entrusted
  <2>1. PICK t \in Tenants : MakePosture(t)
    BY <1>4 DEF Build, MakeScanner, MakeBroker, IssueCredential, WrapStore, TaskRegistry,
                historyVars
  <2>2. PICK s \in Scanners, text \in Contents :
          /\ GetScanner(s)
          /\ posture' = [tenant |-> t, scanner |-> s, text |-> text]
          /\ entrusted' = [entrusted EXCEPT ![t] = @ \union text]
    BY <2>1 DEF MakePosture
  <2>3. text \subseteq entrusted'[t] /\ \A x \in Tenants : entrusted[x] \subseteq entrusted'[x]
    BY <2>2 DEF LayerTypeOK
  <2>4. Filed' /\ Kept'
    BY <1>1, <2>3 DEF Filed, Kept, Store!Get, Store!Owned
  <2> QED
    BY <1>2, <2>1, <2>2, <2>3, <2>4 DEF MakePosture, OneScanner, Announced
<1> QED
  BY <1>3, <1>4

-----------------------------------------------------------------------------
(* What is scanned on the way to an agent holds no protected value. *)
LEMMA ScannedIsClean ==
  ASSUME LayerInv, NEW s, s # NotBuilt, s = cached, NEW text
  PROVE  (text \ taught[s]) \intersect protected = {}
  BY DEF LayerInv, Learned

LEMMA ReadsShow ==
  ASSUME LayerTypeOK, LayerInv, NEW t \in Tenants, AgentReads(t)
  PROVE  \E text \in SUBSET Values : text \subseteq entrusted[t] \ protected /\ Show(t, text)
<1> USE DEF LayerInv
<1>1. tasks[t] # NotBuilt /\ tasks[t] = cached
  BY DEF AgentReads, OneScanner
<1>2. entrusted[t] \subseteq Values
  BY DEF LayerTypeOK
<1>3. ASSUME NEW text, text \subseteq entrusted[t], Return(t, text)
      PROVE  \E shown \in SUBSET Values :
               shown \subseteq entrusted[t] \ protected /\ Show(t, shown)
  <2>1. Show(t, text \ taught[tasks[t]])
    BY <1>3 DEF Return
  <2>2. (text \ taught[tasks[t]]) \intersect protected = {}
    BY <1>1, ScannedIsClean
  <2> QED
    BY <1>2, <1>3, <2>1, <2>2
<1>4. ASSUME NEW key \in Keys, raw[key] # Missing, Store!Owned(t, raw[key])
      PROVE  Fields(t, raw[key]) \subseteq entrusted[t]
  BY <1>4 DEF Kept, Fields, TextOf
<1>5. CASE ReadRecord(t)
  <2>1. PICK key \in Keys : Store!Get(t, key) # Missing /\ Return(t, Fields(t, Store!Get(t, key)))
    BY <1>5 DEF ReadRecord
  <2>2. Store!Get(t, key) = raw[key] /\ raw[key] # Missing /\ Store!Owned(t, raw[key])
    BY <2>1 DEF Store!Get
  <2> QED
    BY <1>3, <1>4, <2>1, <2>2
<1>6. CASE ListKeys(t)
  <2>1. ({key.item : key \in Store!OwnedKeys(t)} \intersect Values) \subseteq entrusted[t]
    BY DEF Filed, Store!OwnedKeys
  <2> QED
    BY <1>3, <1>6, <2>1 DEF ListKeys
<1>7. CASE Search(t)
  <2>1. PICK hits \in SUBSET {raw[key] : key \in {k \in Keys : raw[k] # Missing}} :
          Return(t, UNION {Fields(t, r) : r \in {hit \in hits : Store!Owned(t, hit)}})
    BY <1>7 DEF Search
  <2>2. \A r \in {hit \in hits : Store!Owned(t, hit)} : Fields(t, r) \subseteq entrusted[t]
    BY <1>4
  <2>3. UNION {Fields(t, r) : r \in {hit \in hits : Store!Owned(t, hit)}} \subseteq entrusted[t]
    BY <2>2
  <2> QED
    BY <1>3, <2>1, <2>3
<1> QED
  BY <1>5, <1>6, <1>7 DEF AgentReads

LEMMA PostureShows ==
  ASSUME LayerTypeOK, LayerInv, PostureStep
  PROVE  \/ UNCHANGED disclosed
         \/ \E t \in Tenants, text \in SUBSET Values :
              text \subseteq entrusted[t] \ protected /\ Show(t, text)
<1> USE LayerAssumption DEF LayerInv
<1>1. CASE UNCHANGED disclosed
  BY <1>1
<1>2. CASE Show(posture.tenant, posture.text \ taught[posture.scanner])
  <2>1. /\ posture # NotBuilt /\ posture.tenant \in Tenants /\ posture.scanner \in Scanners
        /\ posture.text \in SUBSET Values
    BY DEF PostureStep, LayerTypeOK
  <2>2. posture.scanner = cached /\ posture.scanner # NotBuilt
    BY <2>1 DEF OneScanner
  <2>3. (posture.text \ taught[posture.scanner]) \intersect protected = {}
    BY <2>2, ScannedIsClean
  <2>4. posture.text \subseteq entrusted[posture.tenant]
    BY <2>1 DEF Announced
  <2> QED
    BY <1>2, <2>1, <2>3, <2>4
<1> QED
  BY <1>1, <1>2 DEF PostureStep

LEMMA ShowTypes ==
  ASSUME LayerTypeOK, NEW t \in Tenants, NEW text \in SUBSET Values, Show(t, text)
  PROVE  disclosed' \in [Tenants -> SUBSET Values]
  BY DEF Show, LayerTypeOK

(* A write by anyone: what a tenant can read afterwards was entrusted to it *)
(* before, or is entrusted to it by this write.                             *)
Written ==
  /\ raw' \in [Keys -> Store!Record \union {Missing}]
  /\ entrusted' \in [Tenants -> SUBSET Values]
  /\ \A t \in Tenants : entrusted[t] \subseteq entrusted'[t]
  /\ Filed' /\ Kept'

LEMMA PutWorks ==
  ASSUME LayerTypeOK, LayerInv, NEW key \in Keys, NEW record \in Store!Record,
         entrusted' \in [Tenants -> SUBSET Values],
         \A t \in Tenants : entrusted[t] \subseteq entrusted'[t],
         \A t \in Tenants : key.tenant = t => {key.item} \intersect Values \subseteq entrusted'[t],
         \A t \in Tenants : Store!Owned(t, record) =>
           TextOf(record.key.item, record.content) \subseteq entrusted'[t],
         raw' = [raw EXCEPT ![key] = record]
  PROVE  Written
<1>1. raw' \in [Keys -> Store!Record \union {Missing}]
  BY DEF LayerTypeOK
<1>2. raw'[key] = record /\ \A k \in Keys \ {key} : raw'[k] = raw[k]
  BY DEF LayerTypeOK
<1>3. Filed'
  <2> SUFFICES ASSUME NEW k \in Keys, NEW t \in Tenants, Store!Get(t, k)' # Missing
               PROVE  {k.item} \intersect Values \subseteq entrusted'[t]
    BY DEF Filed
  <2>1. CASE k = key
    BY <2>1 DEF Store!Get
  <2>2. CASE k # key
    <3>1. Store!Get(t, k) # Missing
      BY <1>2, <2>2 DEF Store!Get
    <3> QED
      BY <3>1 DEF LayerInv, Filed
  <2> QED
    BY <2>1, <2>2
<1>4. Kept'
  <2> SUFFICES ASSUME NEW k \in Keys, NEW t \in Tenants,
                      raw'[k] # Missing, Store!Owned(t, raw'[k])
               PROVE  TextOf(raw'[k].key.item, raw'[k].content) \subseteq entrusted'[t]
    BY DEF Kept, Store!Owned, TextOf
  <2>1. CASE k = key
    BY <1>2, <2>1
  <2>2. CASE k # key
    <3>1. TextOf(raw[k].key.item, raw[k].content) \subseteq entrusted[t]
      BY <1>2, <2>2 DEF LayerInv, Kept
    <3> QED
      BY <1>2, <2>2, <3>1
  <2> QED
    BY <2>1, <2>2
<1> QED
  BY <1>1, <1>3, <1>4 DEF Written

LEMMA DropWorks ==
  ASSUME LayerTypeOK, LayerInv, NEW key \in Keys, UNCHANGED entrusted,
         raw' = [raw EXCEPT ![key] = Missing]
  PROVE  Written
<1>1. raw' \in [Keys -> Store!Record \union {Missing}]
  BY DEF LayerTypeOK
<1>2. raw'[key] = Missing /\ \A k \in Keys \ {key} : raw'[k] = raw[k]
  BY DEF LayerTypeOK
<1>3. Filed'
  BY <1>2 DEF LayerInv, Filed, Store!Get, Store!Owned
<1>4. Kept'
  BY <1>2 DEF LayerInv, Kept, Store!Owned
<1> QED
  BY <1>1, <1>3, <1>4 DEF Written, LayerTypeOK

LEMMA AgentWritesWorks ==
  ASSUME LayerTypeOK, LayerInv, NEW t \in Tenants, AgentWrites(t)
  PROVE  Written
<1> USE LayerAssumption
<1>1. ASSUME NEW owner \in Tenants, NEW item \in Items, NEW content \in Contents,
             Store!Put(t, owner, item, content),
             entrusted' = [entrusted EXCEPT ![t] = @ \union TextOf(item, content)]
      PROVE  Written
  <2> DEFINE key == [tenant |-> owner, item |-> item]
             record == [key |-> key, tenant_id |-> owner, content |-> content, writer |-> t]
  <2>1. owner = t /\ key \in Keys /\ raw' = [raw EXCEPT ![key] = record]
    BY <1>1 DEF Store!Put
  <2>2. record \in Store!Record
    BY <2>1 DEF Store!Record
  <2>3. /\ entrusted' \in [Tenants -> SUBSET Values]
        /\ \A x \in Tenants : entrusted[x] \subseteq entrusted'[x]
        /\ TextOf(item, content) \subseteq entrusted'[t]
    BY <1>1 DEF LayerTypeOK, TextOf
  <2>4. key.tenant = t /\ key.item = item /\ record.key = key /\ record.content = content
    BY <2>1
  <2>5. \A x \in Tenants : key.tenant = x =>
          {key.item} \intersect Values \subseteq entrusted'[x]
    BY <2>3, <2>4 DEF TextOf
  <2>6. \A x \in Tenants : Store!Owned(x, record) =>
          TextOf(record.key.item, record.content) \subseteq entrusted'[x]
    BY <2>3, <2>4 DEF Store!Owned
  <2> HIDE DEF key, record
  <2> QED
    BY <2>1, <2>2, <2>3, <2>5, <2>6, PutWorks
<1>2. ASSUME NEW key \in Keys, Store!Delete(t, key), UNCHANGED entrusted
      PROVE  Written
  BY <1>2, DropWorks DEF Store!Delete
<1> QED
  BY <1>1, <1>2 DEF AgentWrites

LEMMA HostWritesWorks ==
  ASSUME LayerTypeOK, LayerInv, HostWrites
  PROVE  Written
<1> USE LayerAssumption
<1>1. ASSUME NEW key \in Keys, NEW own \in Keys, NEW t \in Tenants, NEW content \in Contents,
             HostPut(key, own, t, content)
      PROVE  Written
  <2> DEFINE record == [key |-> own, tenant_id |-> t, content |-> content, writer |-> Host]
             name == {key.item} \intersect Values
  <2>1. raw' = [raw EXCEPT ![key] = record]
    BY <1>1 DEF HostPut, Store!RawPut
  <2>2. record \in Store!Record
    BY DEF Store!Record
  <2>3. entrusted' = [x \in Tenants |->
          entrusted[x]
            \union (IF key.tenant = x THEN name ELSE {})
            \union (IF own.tenant = x /\ t = x THEN TextOf(own.item, content) ELSE {})]
    BY <1>1 DEF HostPut
  <2>4. /\ entrusted' \in [Tenants -> SUBSET Values]
        /\ \A x \in Tenants : entrusted[x] \subseteq entrusted'[x]
        /\ \A x \in Tenants : key.tenant = x => name \subseteq entrusted'[x]
        /\ \A x \in Tenants : own.tenant = x /\ t = x =>
             TextOf(own.item, content) \subseteq entrusted'[x]
    BY <2>3 DEF LayerTypeOK, TextOf
  <2>5. \A x \in Tenants : Store!Owned(x, record) =>
          TextOf(record.key.item, record.content) \subseteq entrusted'[x]
    BY <2>4 DEF Store!Owned
  <2> HIDE DEF record
  <2> QED
    BY <2>1, <2>2, <2>4, <2>5, PutWorks
<1>2. ASSUME NEW from \in Keys, NEW to \in Keys, HostCopy(from, to)
      PROVE  Written
  <2> DEFINE name == {to.item} \intersect Values
  <2>1. raw' = [raw EXCEPT ![to] = raw[from]] /\ raw[from] # Missing
    BY <1>2 DEF HostCopy, Store!RawCopy
  <2>2. raw[from] \in Store!Record
    BY <2>1 DEF LayerTypeOK
  <2>3. entrusted' = [x \in Tenants |->
          entrusted[x] \union (IF to.tenant = x THEN name ELSE {})]
    BY <1>2 DEF HostCopy
  <2>4. /\ entrusted' \in [Tenants -> SUBSET Values]
        /\ \A x \in Tenants : entrusted[x] \subseteq entrusted'[x]
        /\ \A x \in Tenants : to.tenant = x => name \subseteq entrusted'[x]
    BY <2>3 DEF LayerTypeOK
  <2>5. \A x \in Tenants : Store!Owned(x, raw[from]) =>
          TextOf(raw[from].key.item, raw[from].content) \subseteq entrusted'[x]
    BY <2>1, <2>4 DEF LayerInv, Kept
  <2> QED
    BY <2>1, <2>2, <2>4, <2>5, PutWorks
<1>3. ASSUME NEW key \in Keys, Store!RawDelete(key), UNCHANGED entrusted
      PROVE  Written
  BY <1>3, DropWorks DEF Store!RawDelete
<1> QED
  BY <1>1, <1>2, <1>3 DEF HostWrites

-----------------------------------------------------------------------------
LayerAndPostureInv == LayerTypeOK /\ PostureInv /\ LayerInv

LEMMA PostureUnchanged ==
  ASSUME PostureInv, UNCHANGED postureVars
  PROVE  PostureInv'
  BY DEF postureVars, PostureInv, CallInv, OnlyConformingBulletins, Handed,
         ConformingBulletinArrives, FallbackStands

(* Who reads and who posts a bulletin leaves the records alone. *)
LEMMA RecordsUnchanged ==
  ASSUME LayerInv, UNCHANGED <<cached, taught, handle, broker, views, tasks, raw, protected,
                               entrusted>>,
         posture' \in {posture, NotBuilt}
  PROVE  LayerInv'
<1>1. OneScanner'
  BY DEF LayerInv, OneScanner, Made
<1>2. Learned' /\ Announced'
  BY DEF LayerInv, Learned, Announced
<1>3. Filed' /\ Kept'
  BY DEF LayerInv, Filed, Kept, Store!Get, Store!Owned, TextOf
<1> QED
  BY <1>1, <1>2, <1>3 DEF LayerInv

LEMMA PostureStepWorks ==
  ASSUME LayerAndPostureInv, PostureStep
  PROVE  LayerAndPostureInv'
<1> USE DEF LayerAndPostureInv
<1>1. PostureTypeOK' /\ PostureInv'
  BY PostureTypes, PostureInvStep DEF LayerTypeOK, PostureStep
<1>2. disclosed' \in [Tenants -> SUBSET Values]
  BY PostureShows, ShowTypes DEF LayerTypeOK
<1>3. UNCHANGED <<buildVars, taught, turn, raw, writes, protected, entrusted>>
  BY DEF PostureStep
<1>4. LayerTypeOK'
  BY <1>1, <1>2, <1>3 DEF LayerTypeOK, buildVars, Made
<1>5. LayerInv'
  BY <1>3, RecordsUnchanged DEF buildVars
<1> QED
  BY <1>1, <1>4, <1>5

LEMMA StartTaskTurnWorks ==
  ASSUME LayerAndPostureInv, StartTaskTurn
  PROVE  LayerAndPostureInv'
<1> USE DEF LayerAndPostureInv
<1>1. PostureTypeOK'
  BY PostureAssumption DEF StartTaskTurn, LayerTypeOK, PostureTypeOK, Answers
<1>2. PostureInv'
  BY PostureAssumption DEF StartTaskTurn, PostureInv, CallInv, OnlyConformingBulletins, Answer,
         ConformingBulletinArrives, FallbackStands
<1>3. LayerTypeOK'
  BY <1>1 DEF StartTaskTurn, LayerTypeOK, historyVars, Made
<1>4. LayerInv'
  BY RecordsUnchanged DEF StartTaskTurn, historyVars
<1> QED
  BY <1>2, <1>3, <1>4

LEMMA TaskStepWorks ==
  ASSUME LayerAndPostureInv, TaskStep
  PROVE  LayerAndPostureInv'
<1> USE DEF LayerAndPostureInv
<1>1. UNCHANGED <<postureVars, buildVars, taught, turn, protected>>
  BY DEF TaskStep
<1>2. PostureInv' /\ PostureTypeOK'
  BY <1>1, PostureUnchanged DEF postureVars, LayerTypeOK, PostureTypeOK
<1>3. ASSUME raw' \in [Keys -> Store!Record \union {Missing}], writes' \in 0..MaxWrites,
             entrusted' \in [Tenants -> SUBSET Values],
             disclosed' \in [Tenants -> SUBSET Values]
      PROVE  LayerTypeOK'
  BY <1>1, <1>2, <1>3 DEF LayerTypeOK, buildVars, Made
<1>4. ASSUME NEW t \in Tenants, AgentReads(t) PROVE LayerTypeOK' /\ LayerInv'
  <2>1. UNCHANGED <<raw, writes, entrusted>>
    BY <1>4 DEF AgentReads
  <2>2. disclosed' \in [Tenants -> SUBSET Values]
    BY <1>4, ReadsShow, ShowTypes
  <2> QED
    BY <1>1, <1>3, <2>1, <2>2, RecordsUnchanged DEF LayerTypeOK, buildVars
<1>5. ASSUME Written, UNCHANGED disclosed, writes < MaxWrites, writes' = writes + 1
      PROVE  LayerTypeOK' /\ LayerInv'
  <2>1. writes' \in 0..MaxWrites
    BY <1>5, LayerAssumption DEF LayerTypeOK
  <2>2. LayerTypeOK'
    BY <1>3, <1>5, <2>1 DEF LayerTypeOK, Written
  <2>3. OneScanner' /\ Learned'
    BY <1>1 DEF LayerInv, OneScanner, Learned, buildVars, Made
  <2>4. Announced'
    BY <1>1, <1>5 DEF LayerInv, Announced, Written, buildVars, LayerTypeOK
  <2> QED
    BY <1>5, <2>2, <2>3, <2>4 DEF LayerInv, Written
<1>6. CASE HostWrites
  BY <1>2, <1>5, <1>6, HostWritesWorks DEF HostWrites
<1>7. ASSUME NEW t \in Tenants, AgentWrites(t) PROVE LayerTypeOK' /\ LayerInv'
  BY <1>5, <1>7, AgentWritesWorks DEF AgentWrites
<1> QED
  BY <1>2, <1>4, <1>6, <1>7 DEF TaskStep

(* The invariant that the theorems below read their properties off: every   *)
(* step of the runtime's and the tenants' turns keeps it.                   *)
LEMMA LayerInductive == Spec => []LayerAndPostureInv
<1>1. Init => LayerAndPostureInv
  BY StartWorks DEF LayerAndPostureInv
<1>2. LayerAndPostureInv /\ [Next]_vars => LayerAndPostureInv'
  <2> SUFFICES ASSUME LayerAndPostureInv, [Next]_vars PROVE LayerAndPostureInv'
    OBVIOUS
  <2>1. CASE Build
    <3>1. LayerTypeOK' /\ LayerInv'
      BY <2>1, BuildTypes, BuildInv DEF LayerAndPostureInv, LayerInv
    <3>2. PostureInv'
      BY <2>1, PostureUnchanged DEF LayerAndPostureInv, Build
    <3> QED
      BY <3>1, <3>2 DEF LayerAndPostureInv
  <2>2. CASE PostureStep
    BY <2>2, PostureStepWorks
  <2>3. CASE StartTaskTurn
    BY <2>3, StartTaskTurnWorks
  <2>4. CASE TaskStep
    BY <2>4, TaskStepWorks
  <2>5. CASE UNCHANGED vars
    <3>1. UNCHANGED <<postureVars, cached, handle, broker, views, tasks, posture, taught, turn,
                      raw, writes, protected, entrusted, disclosed>>
      BY <2>5 DEF vars, buildVars, historyVars
    <3>2. PostureInv' /\ PostureTypeOK'
      BY <3>1, PostureUnchanged DEF LayerAndPostureInv, postureVars, LayerTypeOK, PostureTypeOK
    <3>3. LayerTypeOK'
      BY <3>1, <3>2 DEF LayerAndPostureInv, LayerTypeOK, Made
    <3>4. LayerInv'
      BY <3>1, RecordsUnchanged DEF LayerAndPostureInv
    <3> QED
      BY <3>2, <3>3, <3>4 DEF LayerAndPostureInv
  <2> QED
    BY <2>1, <2>2, <2>3, <2>4, <2>5 DEF Next
<1> QED
  BY <1>1, <1>2, PTL DEF Spec

(* The variables always have their types. *)
THEOREM LayerTypeCorrect == Spec => []LayerTypeOK
<1>1. LayerAndPostureInv => LayerTypeOK
  BY DEF LayerAndPostureInv
<1> QED
  BY <1>1, LayerInductive, PTL

(* An agent is only ever given a bulletin that conforms to a schema there   *)
(* was during the call: PostureRegistry.call fails closed.                  *)
THEOREM OnlyConformingBulletinsCorrect == Spec => []OnlyConformingBulletins
<1>1. LayerAndPostureInv => OnlyConformingBulletins
  BY DEF LayerAndPostureInv, PostureInv
<1> QED
  BY <1>1, LayerInductive, PTL

(* A bulletin that conforms all through the call is the one handed over.    *)
THEOREM ConformingBulletinArrivesCorrect == Spec => []ConformingBulletinArrives
<1>1. LayerAndPostureInv => ConformingBulletinArrives
  BY DEF LayerAndPostureInv, PostureInv
<1> QED
  BY <1>1, LayerInductive, PTL

(* Under the vendored schema no bulletin makes the tool end in a denial.    *)
THEOREM FallbackStandsCorrect == Spec => []FallbackStands
<1>1. LayerAndPostureInv => FallbackStands
  BY DEF LayerAndPostureInv, PostureInv
<1> QED
  BY <1>1, LayerInductive, PTL

-----------------------------------------------------------------------------
LEMMA ShowDiscloses ==
  ASSUME NEW t \in Tenants, NEW text \in SUBSET Values,
         text \subseteq entrusted[t] \ protected, Show(t, text),
         UNCHANGED <<protected, entrusted>>
  PROVE  Contained!Next
<1>1. Contained!Disclose(t, text)
  BY DEF Contained!Disclose, Show
<1> QED
  BY <1>1 DEF Contained!Next

LEMMA GrowingEntrusts ==
  ASSUME LayerTypeOK, entrusted' \in [Tenants -> SUBSET Values],
         \A t \in Tenants : entrusted[t] \subseteq entrusted'[t],
         UNCHANGED <<protected, disclosed>>
  PROVE  Contained!Next
<1>1. entrusted' = [t \in Tenants |-> entrusted[t] \union entrusted'[t]]
  BY DEF LayerTypeOK
<1>2. Contained!Entrust(entrusted')
  BY <1>1 DEF Contained!Entrust
<1> QED
  BY <1>2 DEF Contained!Next

LEMMA BuildContained ==
  ASSUME LayerTypeOK, Build
  PROVE  [Contained!Next]_Contained!vars
<1> USE LayerAssumption DEF Contained!vars
<1>1. ASSUME NEW s, NEW secrets \in SUBSET Values, Teach(s, secrets),
             UNCHANGED <<entrusted, disclosed>>
      PROVE  Contained!Next
  BY <1>1 DEF Contained!Next, Contained!Protect, Teach
<1>2. CASE MakeBroker
  BY <1>1, <1>2 DEF MakeBroker
<1>3. CASE IssueCredential
  <2>1. PICK token \in Tokens \ protected : Teach(broker, {token})
    BY <1>3 DEF IssueCredential
  <2> QED
    BY <1>1, <1>3, <2>1 DEF IssueCredential
<1>4. ASSUME NEW t \in Tenants, MakePosture(t) PROVE Contained!Next
  <2>1. PICK text \in Contents : entrusted' = [entrusted EXCEPT ![t] = @ \union text]
    BY <1>4 DEF MakePosture
  <2>2. /\ entrusted' \in [Tenants -> SUBSET Values]
        /\ \A x \in Tenants : entrusted[x] \subseteq entrusted'[x]
    BY <2>1 DEF LayerTypeOK
  <2> QED
    BY <1>4, <2>2, GrowingEntrusts DEF MakePosture
<1>5. CASE UNCHANGED historyVars
  BY <1>5 DEF historyVars
<1> QED
  BY <1>2, <1>3, <1>4, <1>5 DEF Build, MakeScanner, WrapStore, TaskRegistry

(* The layer implements Containment: no agent is shown a value the broker   *)
(* has registered, nor one that was not meant for its tenant, whatever the  *)
(* order of the factories, the records the host files and the reads.        *)
THEOREM ContainmentRefinement == Spec => RefinesContainment
<1>1. Init => Contained!Init
  BY DEF Init, Contained!Init
<1>2. LayerAndPostureInv /\ [Next]_vars => [Contained!Next]_Contained!vars
  <2> SUFFICES ASSUME LayerAndPostureInv, [Next]_vars
               PROVE  [Contained!Next]_Contained!vars
    OBVIOUS
  <2> USE DEF LayerAndPostureInv, Contained!vars
  <2>1. CASE Build
    BY <2>1, BuildContained
  <2>2. CASE PostureStep
    BY <2>2, PostureShows, ShowDiscloses DEF PostureStep
  <2>3. CASE StartTaskTurn
    BY <2>3 DEF StartTaskTurn, historyVars
  <2>4. CASE TaskStep
    <3>1. UNCHANGED protected
      BY <2>4 DEF TaskStep
    <3>2. ASSUME NEW t \in Tenants, AgentReads(t) PROVE Contained!Next
      BY <3>1, <3>2, ReadsShow, ShowDiscloses DEF AgentReads
    <3>3. ASSUME NEW t \in Tenants, AgentWrites(t) PROVE Contained!Next
      BY <3>1, <3>3, AgentWritesWorks, GrowingEntrusts DEF AgentWrites, Written
    <3>4. CASE HostWrites
      BY <3>1, <3>4, HostWritesWorks, GrowingEntrusts DEF HostWrites, Written
    <3> QED
      BY <2>4, <3>2, <3>3, <3>4 DEF TaskStep
  <2>5. CASE UNCHANGED vars
    BY <2>5 DEF vars, historyVars
  <2> QED
    BY <2>1, <2>2, <2>3, <2>4, <2>5 DEF Next
<1> QED
  BY <1>1, <1>2, LayerInductive, PTL DEF Spec, RefinesContainment, Contained!Spec
=============================================================================
