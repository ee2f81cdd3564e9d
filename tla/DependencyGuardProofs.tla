----------------------- MODULE DependencyGuardProofs -----------------------
(***************************************************************************)
(* What an acceptance by the dependency guard is worth, and that the guard  *)
(* looks at the local copy first and answers as its callers expect.         *)
(***************************************************************************)
EXTENDS DependencyGuard, RecursionFacts

-----------------------------------------------------------------------------
(* ensure_vendor_on_path puts vendor/ first and keeps the path a path.      *)
LEMMA VendorFirstTyped ==
  ASSUME NEW p \in Seq(Dirs)
  PROVE  /\ VendorFirst(p) \in Seq(Dirs) /\ Len(VendorFirst(p)) > 0
         /\ VendorFirst(p)[1] = Vendor
<1> DEFINE others == [i \in DOMAIN p |-> IF p[i] = Vendor THEN <<>> ELSE <<p[i]>>]
           rest == FlattenSeq(others)
<1>1. others \in Seq(Seq(Dirs))
  <2> DEFINE Other(d) == IF d = Vendor THEN <<>> ELSE <<d>>
  <2>1. \A d \in Dirs : Other(d) \in Seq(Dirs)
    OBVIOUS
  <2>2. others = [i \in 1..Len(p) |-> Other(p[i])] /\ Len(p) \in Nat
    OBVIOUS
  <2>3. \A i \in 1..Len(p) : p[i] \in Dirs
    OBVIOUS
  <2> HIDE DEF Other, others
  <2> QED
    BY <2>1, <2>2, <2>3
<1> HIDE DEF others
<1>2. PICK f \in [0..Len(others) -> Seq(Dirs)] : Flattens(f, others)
  BY <1>1, Flattening
<1>3. rest \in Seq(Dirs)
  <2>1. Len(others) \in 0..Len(others)
    BY <1>1
  <2> QED
    BY <1>2, <2>1 DEF Flattens
<1>4. VendorFirst(p) = <<Vendor>> \o rest
  BY DEF VendorFirst, others
<1> HIDE DEF rest
<1>5. <<Vendor>> \in Seq(Dirs) /\ Vendor \in Dirs
  BY DEF Dirs
<1>6. /\ <<Vendor>> \o rest \in Seq(Dirs) /\ Len(<<Vendor>> \o rest) > 0
      /\ (<<Vendor>> \o rest)[1] = Vendor
  BY <1>3, <1>5
<1> QED
  BY <1>4, <1>6

(* The directory an import takes is the first that has the package.         *)
LEMMA FirstProvider ==
  ASSUME NEW p \in Seq(Dirs), NEW i \in DOMAIN p, Provides(p, i)
  PROVE  \E first \in DOMAIN p :
           Provides(p, first) /\ \A j \in 1..(first - 1) : ~Provides(p, j)
<1> DEFINE T == {k \in 1..Len(p) : Provides(p, k)}
<1>1. T \in SUBSET Nat /\ T # {}
  OBVIOUS
<1>2. PICK first \in T : \A n \in T : first <= n
  <2> HIDE DEF T
  <2> QED
    BY <1>1, LeastNumber
<1>3. first \in 1..Len(p) /\ Provides(p, first)
  BY <1>2
<1>4. ASSUME NEW j \in 1..(first - 1), Provides(p, j)
      PROVE  FALSE
  <2>1. j \in T
    BY <1>3, <1>4
  <2>2. first <= j
    BY <1>2, <2>1
  <2> QED
    BY <1>3, <1>4, <2>2
<1> QED
  BY <1>3, <1>4

LEMMA ImportTyped ==
  ASSUME TypeOK, NEW p \in Seq(Dirs)
  PROVE  Import(p) \in Module \union {NotImported}
<1>1. CASE imported # NotImported \/ \A i \in DOMAIN p : ~Provides(p, i)
  BY <1>1 DEF Import, TypeOK
<1>2. CASE imported = NotImported /\ \E i \in DOMAIN p : Provides(p, i)
  <2> DEFINE first == CHOOSE i \in DOMAIN p :
                        Provides(p, i) /\ \A j \in 1..(i - 1) : ~Provides(p, j)
  <2>1. first \in DOMAIN p /\ Provides(p, first)
    BY <1>2, FirstProvider
  <2>2. Import(p) = [dir |-> p[first], code |-> files[p[first]]]
    BY <1>2 DEF Import
  <2> HIDE DEF first
  <2>3. p[first] \in Dirs /\ files[p[first]] \in Code
    BY <2>1 DEF TypeOK, Provides
  <2> QED
    BY <2>2, <2>3 DEF Module
<1> QED
  BY <1>1, <1>2

(* However often the path, the files and the module cache change between    *)
(* its calls, the guard's own state stays what it declares, and             *)
(* verify_vendored ends in one of the ways its callers know of.             *)
THEOREM TypeCorrect == Spec => []TypeOK
<1>1. Init => TypeOK
  <2> SUFFICES ASSUME Init PROVE TypeOK
    OBVIOUS
  <2>1. path \in Seq(Dirs)
    BY DEF Init, Dirs
  <2> QED
    BY <2>1 DEF Init, TypeOK, Answers
<1>2. TypeOK /\ [Next]_vars => TypeOK'
  <2> SUFFICES ASSUME TypeOK, [Next]_vars
               PROVE  TypeOK'
    OBVIOUS
  <2>1. CASE VerifyVendored
    <3>1. path' \in Seq(Dirs)
      BY <2>1, VendorFirstTyped DEF TypeOK, VerifyVendored
    <3>2. imported' \in Module \union {NotImported}
      BY <2>1, <3>1, ImportTyped DEF VerifyVendored
    <3>3. answer' \in Answers
      BY <2>1 DEF VerifyVendored, Verdict, Answers
    <3>4. accepted' \in BOOLEAN
      BY <2>1, Zenon DEF VerifyVendored, TypeOK
    <3> QED
      BY <2>1, <3>1, <3>2, <3>3, <3>4 DEF VerifyVendored, TypeOK
  <2>2. CASE ImportElsewhere
    <3>1. imported' \in Module \union {NotImported}
      BY <2>2, ImportTyped DEF ImportElsewhere, TypeOK
    <3> QED
      BY <2>2, <3>1 DEF ImportElsewhere, TypeOK
  <2>3. ASSUME NEW d \in Dirs, InsertPath(d)
        PROVE  TypeOK'
    BY <2>3 DEF InsertPath, TypeOK
  <2>4. ASSUME NEW d \in Dirs, NEW code \in Code \union {Absent}, WriteFile(d, code)
        PROVE  TypeOK'
    BY <2>4 DEF WriteFile, TypeOK
  <2>5. CASE UNCHANGED vars
    BY <2>5 DEF vars, TypeOK
  <2> QED
    BY <2>1, <2>2, <2>3, <2>4, <2>5 DEF Next
<1> QED
  BY <1>1, <1>2, PTL DEF Spec

(* A first import by the guard is of the local copy, wherever the other     *)
(* directory stands on sys.path and however often either is there.          *)
THEOREM LocalCopyWinsCorrect == Spec => LocalCopyWins
<1>1. ASSUME TypeOK, VerifyVendored, imported = NotImported, files[Vendor] # Absent
      PROVE  imported' = [dir |-> Vendor, code |-> files[Vendor]]
  <2>1. path' \in Seq(Dirs) /\ Len(path') > 0 /\ path'[1] = Vendor
    BY <1>1, VendorFirstTyped DEF TypeOK, VerifyVendored
  <2> DEFINE p == path'
             first == CHOOSE i \in DOMAIN p :
                        Provides(p, i) /\ \A j \in 1..(i - 1) : ~Provides(p, j)
  <2>2. 1 \in DOMAIN p /\ Provides(p, 1)
    BY <1>1, <2>1 DEF Provides
  <2>3. first = 1
    <3>1. first \in DOMAIN p /\ \A j \in 1..(first - 1) : ~Provides(p, j)
      BY <2>1, <2>2, FirstProvider
    <3> HIDE DEF first
    <3>2. ~(1 \in 1..(first - 1)) /\ first \in 1..Len(p)
      BY <2>1, <2>2, <3>1
    <3> QED
      BY <2>1, <3>2
  <2>4. imported' = Import(p)
    BY <1>1 DEF VerifyVendored
  <2>5. Import(p) = [dir |-> p[first], code |-> files[p[first]]]
    BY <1>1, <2>2 DEF Import
  <2> QED
    BY <2>1, <2>3, <2>4, <2>5
<1> QED
  BY <1>1, TypeCorrect, PTL DEF LocalCopyWins

-----------------------------------------------------------------------------
(* A module, once imported, is what every later import gets.                *)
LEMMA ImportIsFinal ==
  ASSUME Next, imported # NotImported
  PROVE  imported' = imported
BY DEF Next, VerifyVendored, ImportElsewhere, InsertPath, WriteFile, Import

(* An acceptance is new only in a verify_vendored that returned.            *)
LEMMA AcceptanceIsVerified ==
  ASSUME Next, accepted', ~accepted
  PROVE  imported' # NotImported /\ imported'.dir = Vendor /\ HasSentinel(imported')
<1>1. VerifyVendored
  BY DEF Next, ImportElsewhere, InsertPath, WriteFile
<1>2. answer' = "ok"
  BY <1>1 DEF VerifyVendored
<1>3. CASE imported' = NotImported
  BY <1>1, <1>2, <1>3 DEF VerifyVendored, Verdict
<1>4. CASE imported' # NotImported
  BY <1>1, <1>2, <1>4 DEF VerifyVendored, Verdict, HasSentinel
<1> QED
  BY <1>3, <1>4

(* Once the package has been accepted, everything in the process that       *)
(* imports it gets the vendored copy with its sentinel: the invariant is    *)
(* inductive because sys.modules keeps what the guard has looked at.        *)
THEOREM AcceptedStaysLocalCorrect == Spec => []AcceptedStaysLocal
<1>1. Init => AcceptedStaysLocal
  BY DEF Init, AcceptedStaysLocal
<1>2. AcceptedStaysLocal /\ [Next]_vars => AcceptedStaysLocal'
  <2> SUFFICES ASSUME AcceptedStaysLocal, [Next]_vars, accepted'
               PROVE  imported' # NotImported /\ imported'.dir = Vendor /\ HasSentinel(imported')
    BY DEF AcceptedStaysLocal, HasSentinel
  <2>1. CASE UNCHANGED vars
    BY <2>1 DEF vars, AcceptedStaysLocal, HasSentinel
  <2>2. CASE Next /\ accepted
    BY <2>2, ImportIsFinal DEF AcceptedStaysLocal, HasSentinel
  <2>3. CASE Next /\ ~accepted
    BY <2>3, AcceptanceIsVerified
  <2> QED
    BY <2>1, <2>2, <2>3
<1> QED
  BY <1>1, <1>2, PTL DEF Spec
=============================================================================
