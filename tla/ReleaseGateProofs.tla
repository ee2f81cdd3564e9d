------------------------- MODULE ReleaseGateProofs -------------------------
(***************************************************************************)
(* What a reset may remove and what a safe_reset leaves, for any tree, any  *)
(* links and any number of writes by others.                                *)
(***************************************************************************)
EXTENDS ReleaseGate, SequenceTheorems, WellFoundedInduction, TLAPS

-----------------------------------------------------------------------------
(* Paths: the directories below which a path lies are its proper prefixes.  *)
LEMMA BelowIsPrefix ==
  ASSUME NEW p \in Seq(Names), NEW dir \in Seq(Names)
  PROVE  Below(p, dir) <=> Len(dir) < Len(p) /\ dir = SubSeq(p, 1, Len(dir))
<1>1. SubSeq(dir, 1, Len(dir)) = dir /\ SubSeq(p, 1, Len(p)) = p
  BY SubSeqFull
<1>2. Len(p) \in Nat /\ Len(dir) \in Nat
  OBVIOUS
<1> QED
  BY <1>1, <1>2 DEF Below, IsStrictPrefix, IsPrefix

LEMMA BelowIsPointwise ==
  ASSUME NEW p \in Seq(Names), NEW dir \in Seq(Names)
  PROVE  Below(p, dir) <=> Len(dir) < Len(p) /\ \A i \in 1..Len(dir) : dir[i] = p[i]
<1> SUFFICES ASSUME Len(dir) < Len(p)
             PROVE  dir = SubSeq(p, 1, Len(dir)) <=> \A i \in 1..Len(dir) : dir[i] = p[i]
  BY BelowIsPrefix
<1> DEFINE front == SubSeq(p, 1, Len(dir))
<1>1. Len(dir) \in Nat /\ \A i \in 1..Len(dir) : p[i] \in Names
  OBVIOUS
<1>2. /\ front \in Seq(Names) /\ Len(front) = Len(dir)
      /\ \A i \in 1..Len(dir) : front[i] = p[i]
  BY <1>1, SubSeqProperties
<1> HIDE DEF front
<1>3. (\A i \in 1..Len(dir) : dir[i] = front[i]) => dir = front
  BY <1>2, SeqEqual
<1> QED
  BY <1>2, <1>3 DEF front

LEMMA AppendToOne ==
  ASSUME NEW S, NEW a \in S, NEW b \in S
  PROVE  Append(<<a>>, b) = <<a, b>>
<1> DEFINE appended == Append(<<a>>, b)
           pair == <<a, b>>
<1>1. <<a>> \in Seq(S) /\ Len(<<a>>) = 1 /\ <<a>>[1] = a
  OBVIOUS
<1>2. appended \in Seq(S) /\ Len(appended) = 2 /\ appended[1] = a /\ appended[2] = b
  BY <1>1, AppendProperties
<1>3. pair \in Seq(S) /\ Len(pair) = 2 /\ pair[1] = a /\ pair[2] = b
  OBVIOUS
<1> HIDE DEF appended, pair
<1>4. appended = pair
  BY <1>2, <1>3, SeqEqual
<1> QED
  BY <1>4 DEF appended, pair

(* The directories the code names. *)
InRoot(name) == <<"repo", name>>

LEMMA NamedDirs ==
  ASSUME NEW name \in Names
  PROVE  /\ Root \in Seq(Names) /\ Len(Root) = 1 /\ Root[1] = "repo"
         /\ InRoot(name) \in Seq(Names) /\ Len(InRoot(name)) = 2 /\ InRoot(name)[1] = "repo"
         /\ Append(Root, name) = InRoot(name)
<1>1. "repo" \in Names
  BY PathAssumption
<1>2. Root \in Seq(Names) /\ Len(Root) = 1 /\ Root[1] = "repo"
  BY <1>1 DEF Root
<1>3. InRoot(name) \in Seq(Names) /\ Len(InRoot(name)) = 2 /\ InRoot(name)[1] = "repo"
  BY <1>1 DEF InRoot
<1>4. Append(Root, name) = InRoot(name)
  BY <1>1, AppendToOne DEF Root, InRoot
<1> QED
  BY <1>2, <1>3, <1>4

LEMMA ParentsAreAbove ==
  ASSUME NEW p \in Seq(Names), NEW dir
  PROVE  dir \in Parents(p) <=> dir \in Seq(Names) \ {<<>>} /\ Below(p, dir)
<1>1. ASSUME dir \in Parents(p) PROVE dir \in Seq(Names) \ {<<>>} /\ Below(p, dir)
  <2>1. PICK n \in 1..(Len(p) - 1) : dir = SubSeq(p, 1, n)
    BY <1>1 DEF Parents
  <2>2. n \in Int /\ n >= 1 /\ n < Len(p) /\ \A i \in 1..n : p[i] \in Names
    OBVIOUS
  <2>3. dir \in Seq(Names) /\ Len(dir) = n
    BY <2>1, <2>2, SubSeqProperties
  <2>4. dir = SubSeq(p, 1, Len(dir)) /\ Len(dir) < Len(p) /\ dir # <<>>
    BY <2>1, <2>2, <2>3
  <2> QED
    BY <2>3, <2>4, BelowIsPrefix
<1>2. ASSUME dir \in Seq(Names) \ {<<>>}, Below(p, dir) PROVE dir \in Parents(p)
  <2>1. Len(dir) < Len(p) /\ dir = SubSeq(p, 1, Len(dir))
    BY <1>2, BelowIsPrefix
  <2>2. Len(dir) \in 1..(Len(p) - 1)
    BY <1>2, <2>1
  <2> QED
    BY <2>1, <2>2 DEF Parents
<1> QED
  BY <1>1, <1>2

LEMMA FrontOfTwo ==
  ASSUME NEW S, NEW s \in Seq(S), Len(Front(s)) = 1
  PROVE  Len(s) = 2 /\ s[1] = Front(s)[1]
<1>1. Len(s) \in Nat /\ \A i \in 1..(Len(s) - 1) : s[i] \in S
  OBVIOUS
<1> DEFINE n == Len(s) - 1
<1>2. n \in Int /\ 1 \in Int /\ \A i \in 1..n : s[i] \in S
  BY <1>1
<1>3. Front(s) = SubSeq(s, 1, n)
  BY DEF Front
<1> HIDE DEF n
<1>4. /\ Len(Front(s)) = IF 1 <= n THEN n - 1 + 1 ELSE 0
      /\ \A i \in 1..(n - 1 + 1) : Front(s)[i] = s[1 + i - 1]
  BY <1>2, <1>3, SubSeqProperties
<1>5. n = 1
  <2>1. CASE 1 <= n
    BY <1>2, <1>4, <2>1
  <2>2. CASE ~(1 <= n)
    <3>1. Len(Front(s)) = 0
      BY <1>4, <2>2
    <3> QED
      BY <3>1
  <2> QED
    BY <2>1, <2>2
<1>6. Front(s)[1] = s[1]
  BY <1>4, <1>5
<1> QED
  BY <1>1, <1>5, <1>6 DEF n

LEMMA InSrcIsInRepo ==
  ASSUME NEW dir \in Seq(Names),
         Below(dir, <<"repo", "src">>) \/ (dir # <<>> /\ Front(dir) = Root)
  PROVE  Below(dir, Root)
<1>0. Root \in Seq(Names) /\ Len(Root) = 1 /\ Root[1] = "repo"
  BY NamedDirs, PathAssumption DEF Root
<1> SUFFICES Len(dir) > 1 /\ dir[1] = "repo"
  BY <1>0, BelowIsPointwise
<1>1. CASE Below(dir, <<"repo", "src">>)
  <2>1. Below(dir, InRoot("src"))
    BY <1>1 DEF InRoot
  <2>2. Len(dir) > 2 /\ InRoot("src")[1] = dir[1]
    BY <2>1, NamedDirs, PathAssumption, BelowIsPointwise
  <2> QED
    BY <2>2, NamedDirs, PathAssumption
<1>2. CASE dir # <<>> /\ Front(dir) = Root
  <2>1. Len(Root) = 1 /\ Root[1] = "repo"
    BY DEF Root
  <2> QED
    BY <1>2, <2>1, FrontOfTwo
<1> QED
  BY <1>1, <1>2

LEMMA DirsArePaths == Dirs \subseteq Seq(Names) \ {<<>>}
  BY PathAssumption, ParentsAreAbove DEF Dirs

LEMMA RunsArePaths ==
  /\ Candidates("runs") = {<<"repo", "runs">>, <<"repo", "workspaces">>}
  /\ \A dir \in Candidates("runs") : dir \in Seq(Names) /\ dir # <<>> /\ Below(dir, Root)
<1>1. ASSUME NEW name \in {"runs", "workspaces"}
      PROVE  /\ Append(Root, name) = InRoot(name)
             /\ InRoot(name) \in Seq(Names) /\ InRoot(name) # <<>> /\ Below(InRoot(name), Root)
  BY NamedDirs, PathAssumption, BelowIsPointwise
<1>2. Candidates("runs") = {InRoot("runs"), InRoot("workspaces")}
  BY <1>1 DEF Candidates, SafeNames
<1> QED
  BY <1>1, <1>2 DEF InRoot

Phases == {"runs", "caches", "builds"}

(* What a loop goes over lies in the repository, and is what it may sweep.  *)
LEMMA CandidatesAreSwept ==
  ASSUME NEW phase \in Phases, NEW dir \in Candidates(phase)
  PROVE  dir \in Seq(Names) \ {<<>>} /\ Below(dir, Root) /\ SweptPlace(dir)
<1>1. CASE phase = "runs"
  BY <1>1, RunsArePaths DEF SweptPlace
<1>2. CASE phase = "caches"
  BY <1>2, DirsArePaths DEF Candidates, SweptPlace
<1>3. CASE phase = "builds"
  <2>1. Append(Root, "src") = <<"repo", "src">>
    BY NamedDirs, PathAssumption DEF InRoot
  <2>2. /\ dir \in Dirs /\ Name(dir) \in BuildDirNames
        /\ Front(dir) = Root \/ Below(dir, <<"repo", "src">>)
    BY <1>3, <2>1 DEF Candidates
  <2> QED
    BY <2>2, DirsArePaths, InSrcIsInRepo DEF SweptPlace
<1> QED
  BY <1>1, <1>2, <1>3 DEF Phases

(* The other way round: what should be swept and is there, some loop has.   *)
LEMMA SweptAreCandidates ==
  ASSUME NEW dir \in Dirs, SweptPlace(dir)
  PROVE  \E phase \in Phases : dir \in Candidates(phase)
<1>1. Append(Root, "src") = <<"repo", "src">>
  BY NamedDirs, PathAssumption DEF InRoot
<1>2. CASE dir \in {<<"repo", "runs">>, <<"repo", "workspaces">>}
  BY <1>2, RunsArePaths DEF Phases
<1>3. CASE Below(dir, Root) /\ Name(dir) \in CacheDirNames
  BY <1>3 DEF Candidates, Phases
<1>4. CASE /\ Name(dir) \in BuildDirNames
           /\ Front(dir) = Root \/ Below(dir, <<"repo", "src">>)
  BY <1>1, <1>4 DEF Candidates, Phases
<1> QED
  BY <1>2, <1>3, <1>4 DEF SweptPlace

-----------------------------------------------------------------------------
Cleared(dir) == ~IsDir(tree, dir)

(* A sweep in progress goes over what it may sweep, and has not ended.      *)
SweepInv ==
  sweep # Idle =>
    /\ sweep \in [phase: Phases, pending: SUBSET AllDirs]
    /\ sweep.pending \subseteq Candidates(sweep.phase)
    /\ outcome = "none"

Before(phase) ==
  CASE phase = "runs" -> {}
    [] phase = "caches" -> {"runs"}
    [] phase = "builds" -> {"runs", "caches"}

(* While nothing fails and nobody else writes, the loops that are through   *)
(* and the turns that are over have left nothing behind.                    *)
Progress ==
  ~failed /\ ~disturbed =>
    /\ sweep # Idle =>
         /\ \A phase \in Before(sweep.phase) : \A dir \in Candidates(phase) : Cleared(dir)
         /\ \A dir \in Candidates(sweep.phase) \ sweep.pending : Cleared(dir)
    /\ outcome = "safe_reset" =>
         \A phase \in Phases : \A dir \in Candidates(phase) : Cleared(dir)

GateInv == ReleaseTypeOK /\ Placed(tree) /\ SweepInv /\ Progress

LEMMA RemovalWorks ==
  ASSUME ReleaseTypeOK, Placed(tree), NEW removed \in SUBSET Paths,
         tree' = Without(removed), UNCHANGED links
  PROVE  tree' \in Trees /\ Placed(tree)' /\ Files(tree') = Files(tree) \ removed
<1>1. tree' \in Trees
  BY DEF ReleaseTypeOK, Trees, Without
<1>2. Files(tree') = Files(tree) \ removed
  BY DEF Files, Without
<1> QED
  BY <1>1, <1>2 DEF Placed

LEMMA FewerFilesClearMore ==
  ASSUME Files(tree') \subseteq Files(tree), NEW dir, Cleared(dir)
  PROVE  Cleared(dir)'
  BY DEF Cleared, IsDir

LEMMA CandidatesTyped ==
  ASSUME NEW phase \in Phases
  PROVE  Candidates(phase) \subseteq AllDirs /\ Listed(phase) \subseteq Candidates(phase)
<1>1. Candidates(phase) \subseteq AllDirs
  BY DEF Candidates, AllDirs, Phases
<1> QED
  BY <1>1 DEF Listed

LEMMA SweepNotIdle ==
  ASSUME NEW phase \in Phases, NEW pending \in SUBSET Candidates(phase)
  PROVE  [phase |-> phase, pending |-> pending] # Idle
<1>1. pending \subseteq Seq(Names)
  BY CandidatesAreSwept
<1> QED
  BY <1>1, ResetAssumption DEF Phases

(* The targets of the plain reset are directories of the repository with    *)
(* the name of a run directory.                                             *)
LEMMA TargetsAreRunDirs ==
  ASSUME ReleaseTypeOK, NEW cwd \in WorkDirs, NEW dir \in ResetTargets(cwd)
  PROVE  dir \in Dirs /\ RunDir(dir) /\ dir \in Seq(Names) \ {<<>>}
<1>1. /\ Name(dir) \in SafeNames /\ Below(dir, Root) /\ IsDir(tree, dir)
      /\ \E name \in SafeNames : dir = Resolve(Append(cwd, name))
  BY DEF ResetTargets
<1>2. dir \in Seq(Names)
  <2>1. PICK name \in SafeNames : dir = Resolve(Append(cwd, name))
    BY <1>1
  <2>2. name \in Names /\ cwd \in Seq(Names)
    BY PathAssumption, ResetAssumption DEF SafeNames
  <2>3. Append(cwd, name) \in Seq(Names)
    BY <2>2
  <2> QED
    BY <2>1, <2>3, ResetAssumption DEF Resolve, ReleaseTypeOK
<1>3. dir # <<>>
  <2>1. Root \in Seq(Names)
    BY PathAssumption, NamedDirs
  <2>2. Len(Root) < Len(dir)
    BY <1>1, <1>2, <2>1, BelowIsPrefix
  <2> QED
    BY <2>1, <2>2
<1>4. PICK p \in Files(tree) : Below(p, dir)
  BY <1>1 DEF IsDir
<1>5. p \in Paths /\ p \in Seq(Names)
  BY <1>4, PathAssumption DEF Files
<1>6. dir \in Parents(p)
  BY <1>2, <1>3, <1>4, <1>5, ParentsAreAbove
<1> QED
  BY <1>1, <1>2, <1>3, <1>5, <1>6 DEF Dirs, RunDir

-----------------------------------------------------------------------------
LEMMA ResetWorks ==
  ASSUME GateInv, NEW cwd \in WorkDirs, ResetAll(cwd) \/ ResetRaises(cwd),
         guard' = NotRun, labels' = NotRun, UNCHANGED <<tracked, edits>>
  PROVE  GateInv'
<1> USE DEF GateInv
<1>1. PICK removed \in SUBSET Paths : tree' = Without(removed)
  <2>1. CASE ResetAll(cwd)
    BY <2>1 DEF ResetAll, FilesBelow, Files
  <2>2. CASE ResetRaises(cwd)
    <3>1. PICK dir \in ResetTargets(cwd), earlier \in SUBSET ResetTargets(cwd) :
            \E part \in SUBSET FilesBelow({dir}) :
              tree' = Without(FilesBelow(earlier) \union part)
      BY <2>2 DEF ResetRaises
    <3> QED
      BY <3>1 DEF FilesBelow, Files
  <2> QED
    BY <2>1, <2>2
<1>2. UNCHANGED <<links, sweep>> /\ sweep = Idle /\ outcome' \in {"reset", "raised"}
  BY DEF ResetAll, ResetRaises
<1>3. tree' \in Trees /\ Placed(tree)'
  BY <1>1, <1>2, RemovalWorks
<1>4. reported' \subseteq AllDirs
  BY TargetsAreRunDirs DEF ResetAll, ResetRaises, AllDirs
<1>5. ReleaseTypeOK'
  <2>1. failed' \in BOOLEAN /\ disturbed' \in BOOLEAN
    BY DEF ResetAll, ResetRaises
  <2> QED
    BY <1>2, <1>3, <1>4, <2>1 DEF ReleaseTypeOK
<1> QED
  BY <1>2, <1>3, <1>5 DEF SweepInv, Progress

LEMMA SweepTurnWorks ==
  ASSUME GateInv, sweep # Idle, NEW dir \in sweep.pending, SweepTurn(dir),
         guard' = NotRun, labels' = NotRun, UNCHANGED <<tracked, edits>>
  PROVE  GateInv'
<1> USE DEF GateInv
<1>1. /\ sweep \in [phase: Phases, pending: SUBSET AllDirs]
      /\ sweep.pending \subseteq Candidates(sweep.phase) /\ outcome = "none"
  BY DEF SweepInv
<1>2. UNCHANGED <<links, outcome, disturbed>>
  BY DEF SweepTurn
<1>3. /\ sweep' \in [phase: Phases, pending: SUBSET AllDirs]
      /\ sweep'.phase = sweep.phase /\ sweep'.pending = sweep.pending \ {dir}
  BY <1>1 DEF SweepTurn
<1>4. dir \in AllDirs /\ Below(dir, Root)
  BY <1>1, CandidatesAreSwept
<1>5. PICK removed \in SUBSET Paths : tree' = Without(removed)
  <2>1. CASE UNCHANGED tree
    <3>1. tree' = Without({})
      BY <2>1 DEF Without, ReleaseTypeOK, Trees
    <3> QED
      BY <3>1
  <2>2. CASE \E gone \in SUBSET FilesBelow({dir}) : Rmtree(dir, gone)
    BY <2>2 DEF Rmtree, FilesBelow, Files
  <2> QED
    BY <2>1, <2>2 DEF SweepTurn
<1>6. tree' \in Trees /\ Placed(tree)' /\ Files(tree') \subseteq Files(tree)
  BY <1>2, <1>5, RemovalWorks
<1>7. ReleaseTypeOK'
  <2>1. failed' \in BOOLEAN /\ reported' \subseteq AllDirs
    BY <1>4 DEF ReleaseTypeOK, SweepTurn, Rmtree
  <2> QED
    BY <1>2, <1>3, <1>6, <2>1 DEF ReleaseTypeOK, Phases
<1>8. SweepInv'
  <2>1. sweep'.pending \subseteq Candidates(sweep'.phase)
    BY <1>1, <1>3
  <2> QED
    BY <1>1, <1>2, <1>3, <2>1 DEF SweepInv
<1>9. failed => failed'
  BY DEF SweepTurn, Rmtree
<1>10. ASSUME ~failed' PROVE Cleared(dir)'
  <2>1. CASE dir \in DOMAIN links
    <3>1. Cleared(dir)
      BY <2>1 DEF Placed, Cleared, IsDir
    <3> QED
      BY <1>6, <3>1, FewerFilesClearMore
  <2>2. CASE dir \notin DOMAIN links /\ ~IsDir(tree, dir)
    BY <1>6, <2>2, FewerFilesClearMore DEF Cleared
  <2>3. CASE dir \notin DOMAIN links /\ IsDir(tree, dir)
    <3>1. Exists(dir) /\ Contained(dir)
      BY <1>4, <2>3 DEF Exists, Contained, Resolve
    <3>2. PICK gone \in SUBSET FilesBelow({dir}) : Rmtree(dir, gone)
      BY <3>1 DEF SweepTurn
    <3>3. gone = FilesBelow({dir}) /\ tree' = Without(gone)
      BY <1>10, <2>3, <3>2 DEF Rmtree
    <3>4. gone \in SUBSET Paths
      BY <3>2 DEF FilesBelow, Files
    <3>5. Files(tree') = Files(tree) \ gone
      BY <1>2, <3>3, <3>4, RemovalWorks
    <3> QED
      BY <3>3, <3>5 DEF Cleared, IsDir, FilesBelow
  <2> QED
    BY <2>1, <2>2, <2>3
<1>11. Progress'
  <2> SUFFICES ASSUME ~failed', ~disturbed' PROVE Progress'
    BY DEF Progress
  <2>1. ~failed /\ ~disturbed
    BY <1>2, <1>9
  <2>2. \A phase \in Before(sweep.phase) : \A d \in Candidates(phase) : Cleared(d)'
    BY <1>6, <2>1, FewerFilesClearMore DEF Progress
  <2>3. \A d \in Candidates(sweep.phase) \ sweep.pending : Cleared(d)'
    BY <1>6, <2>1, FewerFilesClearMore DEF Progress
  <2>4. \A d \in Candidates(sweep.phase) \ sweep'.pending : Cleared(d)'
    BY <1>3, <1>10, <2>3
  <2>5. outcome' # "safe_reset"
    BY <1>1, <1>2
  <2> QED
    BY <1>3, <2>2, <2>4, <2>5 DEF Progress, Candidates, Cleared
<1> QED
  BY <1>6, <1>7, <1>8, <1>11

LEMMA BeginWorks ==
  ASSUME GateInv, SafeReset,
         guard' = NotRun, labels' = NotRun, UNCHANGED <<tracked, edits>>
  PROVE  GateInv'
<1> USE DEF GateInv
<1>1. /\ sweep' = [phase |-> "runs", pending |-> Listed("runs")]
      /\ Listed("runs") = Candidates("runs") /\ Candidates("runs") \subseteq AllDirs
  BY CandidatesTyped DEF SafeReset, Listed, Phases
<1>2. UNCHANGED <<tree, links>> /\ reported' = {} /\ outcome' = "none" /\ ~failed' /\ ~disturbed'
  BY DEF SafeReset
<1>3. sweep' \in [phase: Phases, pending: SUBSET AllDirs]
  BY <1>1 DEF Phases
<1>4. ReleaseTypeOK'
  BY <1>2, <1>3 DEF ReleaseTypeOK, Phases, SafeReset
<1>5. Placed(tree)'
  BY <1>2 DEF Placed
<1>6. SweepInv'
  <2>1. sweep'.pending \subseteq Candidates(sweep'.phase)
    BY <1>1
  <2> QED
    BY <1>2, <1>3, <2>1 DEF SweepInv
<1>7. Progress'
  <2>1. Before(sweep'.phase) = {} /\ Candidates(sweep'.phase) \ sweep'.pending = {}
    BY <1>1 DEF Before
  <2> QED
    BY <1>2, <2>1 DEF Progress
<1> QED
  BY <1>4, <1>5, <1>6, <1>7

LEMMA NextLoopWorks ==
  ASSUME GateInv, NextLoop,
         guard' = NotRun, labels' = NotRun, UNCHANGED <<tracked, edits>>
  PROVE  GateInv'
<1> USE DEF GateInv
<1>1. /\ sweep # Idle /\ sweep.pending = {} /\ sweep.phase \in Phases
      /\ UNCHANGED <<tree, links, reported, failed, disturbed>>
      /\ outcome = "none"
  BY DEF NextLoop, SweepInv
<1>2. Placed(tree)'
  BY <1>1 DEF Placed
<1>3. \A dir : Cleared(dir)' <=> Cleared(dir)
  BY <1>1 DEF Cleared, IsDir, Files
<1>4. ASSUME NEW phase \in Phases, SweepOn(phase),
             Before(phase) = Before(sweep.phase) \union {sweep.phase}
      PROVE  GateInv'
  <2>1. /\ sweep' = [phase |-> phase, pending |-> Listed(phase)] /\ outcome' = outcome
        /\ Listed(phase) \subseteq Candidates(phase) /\ Candidates(phase) \subseteq AllDirs
    BY <1>4, CandidatesTyped DEF SweepOn
  <2>2. /\ sweep' \in [phase: Phases, pending: SUBSET AllDirs]
        /\ sweep'.pending \subseteq Candidates(sweep'.phase)
    BY <2>1
  <2>3. ReleaseTypeOK'
    BY <1>1, <2>1, <2>2 DEF ReleaseTypeOK, Phases
  <2>4. SweepInv'
    BY <1>1, <2>1, <2>2 DEF SweepInv
  <2>5. Progress'
    <3> SUFFICES ASSUME ~failed', ~disturbed' PROVE Progress'
      BY DEF Progress
    <3>1. \A earlier \in Before(phase) : \A dir \in Candidates(earlier) : Cleared(dir)'
      BY <1>1, <1>3, <1>4 DEF Progress
    <3>2. \A dir \in Candidates(phase) \ Listed(phase) : Cleared(dir)'
      BY <1>3, <1>1 DEF Listed, Cleared, Phases
    <3>3. sweep'.phase = phase /\ sweep'.pending = Listed(phase) /\ outcome' # "safe_reset"
      BY <1>1, <2>1
    <3> QED
      BY <3>1, <3>2, <3>3 DEF Progress
  <2> QED
    BY <1>2, <2>3, <2>4, <2>5
<1>5. CASE sweep.phase = "runs" /\ SweepOn("caches")
  <2>1. Before("caches") = Before(sweep.phase) \union {sweep.phase}
    BY <1>5 DEF Before
  <2> QED
    BY <1>4, <1>5, <2>1 DEF Phases
<1>6. CASE sweep.phase = "caches" /\ SweepOn("builds")
  <2>1. Before("builds") = Before(sweep.phase) \union {sweep.phase}
    BY <1>6 DEF Before
  <2> QED
    BY <1>4, <1>6, <2>1 DEF Phases
<1>7. CASE sweep.phase = "builds" /\ sweep' = Idle /\ outcome' = "safe_reset"
  <2>1. ReleaseTypeOK'
    BY <1>1, <1>7 DEF ReleaseTypeOK
  <2>2. SweepInv'
    BY <1>7 DEF SweepInv
  <2>3. Progress'
    <3> SUFFICES ASSUME ~failed', ~disturbed' PROVE Progress'
      BY DEF Progress
    <3>1. \A phase \in {"runs", "caches"} : \A dir \in Candidates(phase) : Cleared(dir)
      BY <1>1, <1>7 DEF Progress, Before
    <3>2. \A dir \in Candidates("builds") : Cleared(dir)
      BY <1>1, <1>7 DEF Progress
    <3> QED
      BY <1>3, <1>7, <3>1, <3>2 DEF Progress, Phases
  <2> QED
    BY <1>2, <2>1, <2>2, <2>3
<1> QED
  BY <1>5, <1>6, <1>7 DEF NextLoop

(* What leaves the tree and the sweep alone. *)
LEMMA OthersWork ==
  ASSUME GateInv, UNCHANGED resetVars, ReleaseTypeOK'
  PROVE  GateInv'
<1> USE DEF GateInv, resetVars
<1>1. Placed(tree)' /\ \A dir : Cleared(dir)' <=> Cleared(dir)
  BY DEF Placed, Cleared, IsDir, Files
<1>2. SweepInv'
  BY DEF SweepInv
<1>3. Progress'
  BY <1>1 DEF Progress
<1> QED
  BY <1>1, <1>2, <1>3

LEMMA EditWorks ==
  ASSUME GateInv, Edit
  PROVE  GateInv'
<1> USE DEF GateInv
<1>1. PICK p \in Paths, content \in Written \union {Absent} : Write(p, content)
  BY DEF Edit
<1>2. /\ Placed(tree') /\ disturbed' /\ UNCHANGED <<links, sweep, reported, outcome, failed>>
      /\ tree' = [tree EXCEPT ![p] = content]
  BY <1>1 DEF Write
<1>3. tree' \in Trees
  BY <1>2, ReleaseAssumption DEF ReleaseTypeOK, Trees
<1>4. edits' \in 0..MaxEdits
  BY ReleaseAssumption DEF Edit, ReleaseTypeOK
<1>5. disturbed' \in BOOLEAN
  BY <1>1 DEF Write
<1>6. ReleaseTypeOK'
  BY <1>2, <1>3, <1>4, <1>5 DEF ReleaseTypeOK, Edit
<1>7. Placed(tree)' /\ SweepInv' /\ Progress'
  BY <1>2 DEF Placed, SweepInv, Progress
<1> QED
  BY <1>6, <1>7

LEMMA IndexWorks ==
  ASSUME GateInv, Stage \/ StageIgnored \/ Untrack
  PROVE  GateInv'
<1>1. UNCHANGED <<resetVars, labels>> /\ guard' \in {guard, NotRun}
  BY DEF Stage, StageIgnored, Untrack
<1>2. tracked' \subseteq Paths
  BY DEF Stage, StageIgnored, Untrack, Addable, InRepo, Files, GateInv, ReleaseTypeOK
<1>3. edits' \in 0..MaxEdits
  BY ReleaseAssumption DEF Stage, StageIgnored, Untrack, GateInv, ReleaseTypeOK
<1>4. ReleaseTypeOK'
  BY <1>1, <1>2, <1>3 DEF GateInv, ReleaseTypeOK, resetVars
<1> QED
  BY <1>1, <1>4, OthersWork

LEMMA GateStarts == Init => GateInv
<1> SUFFICES ASSUME Init PROVE GateInv
  OBVIOUS
<1>1. ReleaseTypeOK
  <2>1. tree \in Trees /\ links \in Links
    BY ResetAssumption DEF Init, ResetInit
  <2>2. tracked \subseteq Paths
    BY DEF Init, Files
  <2>3. edits \in 0..MaxEdits
    BY ReleaseAssumption DEF Init
  <2> QED
    BY <2>1, <2>2, <2>3 DEF Init, ResetInit, ReleaseTypeOK
<1> QED
  BY <1>1 DEF Init, ResetInit, GateInv, SweepInv, Progress

LEMMA GateSteps == GateInv /\ [Next]_vars => GateInv'
<1> SUFFICES ASSUME GateInv, [Next]_vars PROVE GateInv'
  OBVIOUS
<1>1. CASE RunGuard
  <2>1. guard' \in [git: BOOLEAN, local: BOOLEAN, clean: BOOLEAN]
    BY <1>1 DEF RunGuard, LocalPatterns
  <2>2. UNCHANGED <<resetVars, tracked, labels, edits>>
    BY <1>1 DEF RunGuard
  <2>3. ReleaseTypeOK'
    BY <2>1, <2>2 DEF GateInv, ReleaseTypeOK, resetVars
  <2> QED
    BY <2>2, <2>3, OthersWork
<1>2. CASE RunLabelScan
  <2>1. labels' \in {NotRun, "clean", "failed"} /\ UNCHANGED <<resetVars, tracked, guard, edits>>
    BY <1>2 DEF RunLabelScan, LabelScan
  <2>2. ReleaseTypeOK'
    BY <2>1 DEF GateInv, ReleaseTypeOK, resetVars
  <2> QED
    BY <2>1, <2>2, OthersWork
<1>3. CASE RunReset
  BY <1>3, ResetWorks, BeginWorks, SweepTurnWorks, NextLoopWorks DEF RunReset, ResetStep
<1>4. CASE Edit
  BY <1>4, EditWorks
<1>5. CASE Stage \/ StageIgnored \/ Untrack
  BY <1>5, IndexWorks
<1>6. CASE UNCHANGED vars
  <2>1. UNCHANGED <<resetVars, tracked, guard, labels, edits>>
    BY <1>6 DEF vars
  <2>2. ReleaseTypeOK'
    BY <2>1 DEF GateInv, ReleaseTypeOK, resetVars
  <2> QED
    BY <2>1, <2>2, OthersWork
<1> QED
  BY <1>1, <1>2, <1>3, <1>4, <1>5, <1>6 DEF Next

LEMMA GateInductive == Spec => []GateInv
  BY GateStarts, GateSteps, PTL DEF Spec

-----------------------------------------------------------------------------
(* The variables always have their types. *)
THEOREM ReleaseTypeCorrect == Spec => []ReleaseTypeOK
<1>1. GateInv => ReleaseTypeOK
  BY DEF GateInv
<1> QED
  BY <1>1, GateInductive, PTL

(* A safe_reset that nothing failed in and nobody disturbed leaves no file  *)
(* in any directory it is there to remove: "nothing to remove" is then      *)
(* true, for any tree, any nesting and any links.                           *)
THEOREM SweepThoroughCorrect == Spec => []SweepThorough
<1>1. GateInv => SweepThorough
  <2> SUFFICES ASSUME GateInv, outcome = "safe_reset", ~failed, ~disturbed,
                      NEW p \in Files(tree), NEW dir \in Parents(p), SweptPlace(dir)
               PROVE  FALSE
    BY DEF SweepThorough
  <2>1. p \in Paths /\ p \in Seq(Names)
    BY PathAssumption DEF Files
  <2>2. dir \in Dirs /\ Below(p, dir)
    BY <2>1, ParentsAreAbove DEF Dirs
  <2>3. PICK phase \in Phases : dir \in Candidates(phase)
    BY <2>2, SweptAreCandidates
  <2>4. Cleared(dir)
    BY <2>3 DEF GateInv, Progress
  <2> QED
    BY <2>2, <2>4 DEF Cleared, IsDir
<1> QED
  BY <1>1, GateInductive, PTL

(* A reset, however it ends and whoever writes meanwhile, only removes run  *)
(* dirs, caches and build output of this repository, and tells of them.     *)
THEOREM RemovalsAccountedCorrect == Spec => RemovalsAccounted
<1> DEFINE Accounted(p) ==
      /\ \E dir \in Parents(p) : SweptPlace(dir) \/ RunDir(dir)
      /\ outcome' = "raised" \/ \E dir \in reported' : Below(p, dir)
<1>1. GateInv /\ [Next]_vars =>
        (edits' = edits => \A p \in Files(tree) \ Files(tree') : Accounted(p))
  <2> SUFFICES ASSUME GateInv, [Next]_vars, edits' = edits,
                      NEW p \in Files(tree), p \notin Files(tree')
               PROVE  Accounted(p)
    OBVIOUS
  <2> USE DEF GateInv
  <2>1. p \in Paths /\ p \in Seq(Names) /\ tree' # tree
    BY PathAssumption DEF Files
  <2>2. ~Edit
    BY DEF Edit, ReleaseTypeOK
  <2>3. RunReset /\ ResetStep
    BY <2>1, <2>2
    DEF Next, RunGuard, RunLabelScan, RunReset, Stage, StageIgnored, Untrack, vars, resetVars
  <2>4. ASSUME NEW removed, tree' = Without(removed) PROVE p \in removed
    BY <2>1, <2>4 DEF Files, Without
  <2>5. ASSUME NEW cwd \in WorkDirs, NEW dir \in ResetTargets(cwd), Below(p, dir)
        PROVE  \E d \in Parents(p) : RunDir(d)
    BY <2>1, <2>5, TargetsAreRunDirs, ParentsAreAbove
  <2>6. ASSUME NEW cwd \in WorkDirs, ResetAll(cwd) PROVE Accounted(p)
    <3>1. p \in FilesBelow(ResetTargets(cwd)) /\ reported' = ResetTargets(cwd)
      BY <2>4, <2>6 DEF ResetAll
    <3>2. PICK dir \in ResetTargets(cwd) : Below(p, dir)
      BY <3>1 DEF FilesBelow
    <3> QED
      BY <2>5, <3>1, <3>2
  <2>7. ASSUME NEW cwd \in WorkDirs, ResetRaises(cwd) PROVE Accounted(p)
    <3>1. PICK dir \in ResetTargets(cwd), earlier \in SUBSET ResetTargets(cwd) :
            \E part \in SUBSET FilesBelow({dir}) :
              tree' = Without(FilesBelow(earlier) \union part)
      BY <2>7 DEF ResetRaises
    <3>2. p \in FilesBelow(earlier) \union FilesBelow({dir})
      BY <2>4, <3>1
    <3>3. PICK target \in ResetTargets(cwd) : Below(p, target)
      BY <3>2 DEF FilesBelow
    <3> QED
      BY <2>5, <2>7, <3>3 DEF ResetRaises
  <2>8. ASSUME sweep # Idle, NEW dir \in sweep.pending, SweepTurn(dir) PROVE Accounted(p)
    <3>1. PICK removed \in SUBSET FilesBelow({dir}) : Rmtree(dir, removed)
      BY <2>1, <2>8 DEF SweepTurn
    <3>2. Below(p, dir) /\ dir \in reported'
      BY <2>1, <2>4, <2>8, <3>1 DEF Rmtree, FilesBelow, SweepTurn
    <3>3. dir \in Seq(Names) \ {<<>>} /\ SweptPlace(dir)
      BY <2>8, CandidatesAreSwept DEF SweepInv
    <3> QED
      BY <2>1, <3>2, <3>3, ParentsAreAbove
  <2> QED
    BY <2>1, <2>3, <2>6, <2>7, <2>8 DEF ResetStep, SafeReset, NextLoop
<1> QED
  BY <1>1, GateInductive, PTL DEF Spec, RemovalsAccounted

-----------------------------------------------------------------------------
(* A verdict that stands is the verdict on the tree as it is, and a clean   *)
(* one holds of the index as it is.                                         *)
VerdictInv ==
  /\ guard # NotRun /\ guard.clean => Findings(tree, tracked, guard.git, guard.local) = {}
  /\ labels \in {NotRun, LabelScan(tree)}

(* Adding what is not ignored publishes nothing new, nor does untracking.   *)
LEMMA IndexStaysClean ==
  ASSUME VerdictInv, Stage \/ Untrack
  PROVE  VerdictInv'
<1>1. UNCHANGED <<tree, guard, labels>>
  BY DEF Stage, Untrack, resetVars
<1>2. Public(tree, tracked') \subseteq Public(tree, tracked)
  BY DEF Stage, Untrack, Public
<1>3. \A git, local :
        Findings(tree, tracked', git, local) \subseteq Findings(tree, tracked, git, local)
  BY <1>2 DEF Findings, TrackedFiles
<1> QED
  BY <1>1, <1>3 DEF VerdictInv

LEMMA VerdictInductive == Spec => []VerdictInv
<1>1. Init => VerdictInv
  BY DEF Init, VerdictInv
<1>2. VerdictInv /\ [Next]_vars => VerdictInv'
  <2> SUFFICES ASSUME VerdictInv, [Next]_vars PROVE VerdictInv'
    OBVIOUS
  <2>1. CASE RunGuard
    <3>1. PICK git \in BOOLEAN, yaml \in BOOLEAN :
            guard' = [git |-> git, local |-> LocalPatterns(tree, yaml),
                      clean |-> /\ ~LoadRaises(tree, yaml)
                                /\ Findings(tree, tracked, git, LocalPatterns(tree, yaml)) = {}]
      BY <2>1 DEF RunGuard
    <3>2. guard'.clean => Findings(tree, tracked, guard'.git, guard'.local) = {}
      BY <3>1
    <3>3. UNCHANGED <<tree, tracked, labels>>
      BY <2>1 DEF RunGuard, resetVars
    <3> QED
      BY <3>2, <3>3 DEF VerdictInv
  <2>2. CASE RunLabelScan
    <3>1. UNCHANGED <<tree, tracked, guard>> /\ labels' = LabelScan(tree)
      BY <2>2 DEF RunLabelScan, resetVars
    <3> QED
      BY <3>1 DEF VerdictInv
  <2>3. CASE RunReset \/ Edit
    BY <2>3 DEF RunReset, Edit, VerdictInv
  <2>4. CASE Stage \/ Untrack
    BY <2>4, IndexStaysClean
  <2>5. CASE StageIgnored
    <3>1. guard' = NotRun /\ UNCHANGED <<tree, labels>>
      BY <2>5 DEF StageIgnored, resetVars
    <3> QED
      BY <3>1 DEF VerdictInv
  <2>6. CASE UNCHANGED vars
    <3>1. UNCHANGED <<tree, tracked, guard, labels>>
      BY <2>6 DEF vars, resetVars
    <3> QED
      BY <3>1 DEF VerdictInv
  <2> QED
    BY <2>1, <2>2, <2>3, <2>4, <2>5, <2>6 DEF Next
<1> QED
  BY <1>1, <1>2, PTL DEF Spec

(* A file the guard leaves out as an artifact is in a blind spot, or below  *)
(* a directory that is swept.                                               *)
LEMMA ArtifactsAreSweptOrBlind ==
  ASSUME NEW p \in Seq(Names) \ {<<>>}, Below(p, Root), IsArtifact(p),
         ".git" \notin RelParts(p), \A dir \in Parents(p) : ~SweptPlace(dir)
  PROVE  BlindSpot(p)
<1>1. PICK i \in 2..Len(p) : p[i] \in ArtifactDirs
  <2>1. Len(Root) + 1 = 2
    BY DEF Root
  <2> QED
    BY <2>1 DEF IsArtifact, RelParts
<1>2. p[i] \in RelParts(p)
  <2>1. Len(Root) + 1 = 2
    BY DEF Root
  <2> QED
    BY <2>1 DEF RelParts
<1>3. CASE p[i] \in CacheDirNames /\ i = Len(p)
  BY <1>3 DEF BlindSpot, Name, Last
<1>4. CASE p[i] \in CacheDirNames /\ i # Len(p)
  <2> DEFINE dir == SubSeq(p, 1, i)
  <2>1. i \in 1..(Len(p) - 1) /\ Len(p) \in Nat
    BY <1>4
  <2>2. dir \in Parents(p)
    BY <2>1 DEF Parents
  <2>3. /\ dir \in Seq(Names) /\ Len(dir) = i
        /\ \A j \in 1..i : dir[j] = p[j]
    <3>1. i \in Int /\ 1 \in Int /\ 1 <= i /\ \A j \in 1..i : p[j] \in Names
      BY <2>1
    <3> QED
      BY <3>1, SubSeqProperties
  <2> HIDE DEF dir
  <2>4. Root \in Seq(Names) /\ Len(Root) = 1 /\ Root[1] = "repo"
    BY PathAssumption, NamedDirs
  <2>5. p[1] = "repo"
    <3>1. \A j \in 1..Len(Root) : Root[j] = p[j]
      BY <2>4, BelowIsPointwise
    <3> QED
      BY <2>4, <3>1
  <2>6. Below(dir, Root)
    BY <2>1, <2>3, <2>4, <2>5, BelowIsPointwise
  <2>7. Name(dir) \in CacheDirNames
    BY <1>4, <2>1, <2>3 DEF Name, Last
  <2> QED
    BY <2>2, <2>6, <2>7 DEF SweptPlace
<1>5. CASE p[i] \in {".venv", "venv", "node_modules"}
  BY <1>2, <1>5 DEF BlindSpot
<1>6. CASE p[i] \in {"runs", "workspaces", "build", "dist"}
  BY <1>2, <1>6 DEF BlindSpot
<1> QED
  BY <1>1, <1>2, <1>3, <1>4, <1>5, <1>6 DEF ArtifactDirs, CacheDirNames

(* What the guard and the reset leave between them: after an undisturbed    *)
(* safe_reset and a clean run of the guard, and however files are staged    *)
(* (but not by force) and untracked since, no file that would go public     *)
(* holds a secret, outside the places the property names.                   *)
THEOREM NothingHidesCorrect == Spec => []NothingHides
<1>1. GateInv /\ SweepThorough /\ VerdictInv => NothingHides
  <2> SUFFICES ASSUME SweepThorough, VerdictInv,
                      outcome = "safe_reset", ~failed, ~disturbed, guard # NotRun, guard.clean,
                      NEW p \in Public(tree, tracked), tree[p] # Undecodable,
                      Leaks(tree[p], guard.local), ~Marked(tree[p]),
                      ~(guard.git /\ p \in Quoted), ~BlindSpot(p)
               PROVE  FALSE
    BY DEF NothingHides
  <2>1. p \in InRepo(tree) /\ ".git" \notin RelParts(p)
    BY DEF Public
  <2>2. p \in Files(tree) /\ Below(p, Root) /\ p \in Seq(Names) \ {<<>>}
    BY <2>1, PathAssumption DEF InRepo, Files
  <2>3. \A dir \in Parents(p) : ~SweptPlace(dir)
    BY <2>2 DEF SweepThorough
  <2>4. ~IsArtifact(p)
    BY <2>1, <2>2, <2>3, ArtifactsAreSweptOrBlind
  <2>5. p \in TrackedFiles(tree, tracked, guard.git)
    BY <2>1, <2>4 DEF TrackedFiles
  <2>6. ScanText(tree[p], guard.local) # {}
    BY DEF Leaks, ScanText
  <2>7. p \in Findings(tree, tracked, guard.git, guard.local)
    BY <2>5, <2>6 DEF Findings
  <2> QED
    BY <2>7 DEF VerdictInv
<1> QED
  BY <1>1, GateInductive, VerdictInductive, SweepThoroughCorrect, PTL

-----------------------------------------------------------------------------
LEMMA MinIsMember ==
  ASSUME NEW T \in SUBSET Nat, T # {}
  PROVE  Min(T) \in T
<1> DEFINE R == {pair \in Nat \X Nat : pair[1] < pair[2]}
<1>1. R = OpToRel(<, Nat)
  BY Zenon DEF OpToRel
<1>2. IsWellFoundedOn(R, Nat)
  BY <1>1, NatLessThanWellFounded, Zenon
<1>3. PICK m \in T : \A n \in T : ~(<<n, m>> \in R)
  BY <1>2, WFMin
<1>4. \A n \in T : n \in Nat
  OBVIOUS
<1>5. \A n \in T : m <= n
  <2>1. SUFFICES ASSUME NEW n \in T PROVE ~(n < m)
    BY <1>4
  <2>2. ASSUME n < m PROVE <<n, m>> \in R
    <3>1. <<n, m>> \in Nat \X Nat
      BY <1>4
    <3>2. <<n, m>>[1] < <<n, m>>[2]
      BY <2>2
    <3> QED
      BY <3>1, <3>2, Zenon
  <2> QED
    BY <1>3, <2>2
<1> QED
  BY <1>5 DEF Min

LEMMA FormsHaveLength ==
  ASSUME NEW form \in AllowedForms
  PROVE  Len(form) = 2
  BY DEF AllowedForms

(* _allowed on one match: what it excuses lies within an allowed form, and  *)
(* what it does not but lies within one lies within a repeated one.         *)
LEMMA AllowedIsNearlyRight ==
  ASSUME NEW line \in Seq(Tokens), NEW i \in 1..Len(line)
  PROVE  /\ Allowed(line, i) => InAllowedForm(line, i)
         /\ InAllowedForm(line, i) => Allowed(line, i) \/ Repeated(line)
<1>1. ASSUME NEW form \in AllowedForms, Occurrences(form, line) # {}
      PROVE  Min(Occurrences(form, line)) \in Occurrences(form, line)
  <2>1. Occurrences(form, line) \in SUBSET Nat
    BY DEF Occurrences
  <2> QED
    BY <1>1, <2>1, MinIsMember
<1>2. ASSUME Allowed(line, i) PROVE InAllowedForm(line, i)
  <2>1. PICK form \in AllowedForms :
          /\ Occurrences(form, line) # {}
          /\ Min(Occurrences(form, line)) <= i
          /\ i <= Min(Occurrences(form, line)) + Len(form) - 1
    BY <1>2 DEF Allowed
  <2> DEFINE first == Min(Occurrences(form, line))
  <2>2. first \in 1..Len(line) /\ OccursAt(form, line, first)
    BY <1>1, <2>1 DEF Occurrences
  <2>3. first <= i /\ i <= first + Len(form) - 1 /\ Len(form) = 2
    BY <2>1, FormsHaveLength
  <2> HIDE DEF first
  <2>4. i < first + Len(form)
    BY <2>2, <2>3
  <2> QED
    BY <2>2, <2>3, <2>4 DEF InAllowedForm
<1>3. ASSUME InAllowedForm(line, i), ~Allowed(line, i) PROVE Repeated(line)
  <2>1. PICK form \in AllowedForms : \E j \in 1..Len(line) :
          OccursAt(form, line, j) /\ j <= i /\ i < j + Len(form)
    BY <1>3 DEF InAllowedForm
  <2>2. PICK j \in 1..Len(line) : OccursAt(form, line, j) /\ j <= i /\ i < j + Len(form)
    BY <2>1
  <2> DEFINE first == Min(Occurrences(form, line))
  <2>3. j \in Occurrences(form, line)
    BY <2>2 DEF Occurrences
  <2>4. first \in 1..Len(line) /\ OccursAt(form, line, first)
    BY <1>1, <2>3 DEF Occurrences
  <2>5. ~(first <= i /\ i <= first + Len(form) - 1)
    BY <1>3, <2>3 DEF Allowed
  <2> HIDE DEF first
  <2>6. first # j
    BY <2>2, <2>5, FormsHaveLength
  <2>7. first < j \/ j < first
    BY <2>4, <2>6
  <2> QED
    BY <2>2, <2>4, <2>7 DEF Repeated
<1> QED
  BY <1>2, <1>3

LEMMA PartsOfPath ==
  ASSUME NEW p \in Seq(Names)
  PROVE  /\ RelParts(p) = {p[i] : i \in 2..Len(p)}
         /\ Below(p, Root) <=> Len(p) >= 2 /\ p[1] = "repo"
<1>1. Root \in Seq(Names) /\ Len(Root) = 1 /\ Root[1] = "repo"
  BY PathAssumption, NamedDirs
<1>2. RelParts(p) = {p[i] : i \in 2..Len(p)}
  BY <1>1 DEF RelParts
<1>3. Below(p, Root) <=> Len(p) >= 2 /\ p[1] = "repo"
  <2>1. Below(p, Root) <=> 1 < Len(p) /\ \A i \in 1..1 : Root[i] = p[i]
    BY <1>1, BelowIsPointwise
  <2> QED
    BY <1>1, <2>1
<1> QED
  BY <1>2, <1>3

(* A name in a path below the repository, with nothing skipped up to some   *)
(* part after it, is found in the listing: as the file or as a directory.   *)
Labelled ==
  {p \in Files(tree) : \E i \in 2..Len(p) :
     /\ p[1] = "repo" /\ p[i] \in Labels
     /\ \E n \in i..Len(p) : {p[j] : j \in 2..n} \intersect SkipDirs = {}}

LEMMA LabelledIsNameHit == Labelled # {} <=> NameHits(tree) # {}
<1>1. ASSUME NEW p \in Labelled PROVE NameHits(tree) # {}
  <2>1. PICK i \in 2..Len(p) :
          /\ p[1] = "repo" /\ p[i] \in Labels
          /\ \E n \in i..Len(p) : {p[j] : j \in 2..n} \intersect SkipDirs = {}
    BY <1>1 DEF Labelled
  <2>2. PICK n \in i..Len(p) : {p[j] : j \in 2..n} \intersect SkipDirs = {}
    BY <2>1
  <2>3. p \in Files(tree) /\ p \in Paths /\ p \in Seq(Names)
    BY <1>1, PathAssumption DEF Labelled, Files
  <2> DEFINE q == SubSeq(p, 1, n)
  <2>4. n \in Int /\ 1 \in Int /\ 2 <= n /\ n <= Len(p) /\ \A j \in 1..n : p[j] \in Names
    BY <2>1, <2>2, <2>3
  <2>5. q \in Seq(Names) /\ Len(q) = n /\ \A j \in 1..n : q[j] = p[j]
    BY <2>4, SubSeqProperties
  <2>6. q \in Rglob(tree)
    <3>1. Below(q, Root)
      <4>1. q[1] = "repo" /\ Len(q) >= 2
        BY <2>1, <2>4, <2>5
      <4> QED
        BY <2>5, <4>1, PartsOfPath
    <3>2. CASE n = Len(p)
      <4>1. q = p
        BY <2>3, <3>2, SubSeqFull
      <4> QED
        BY <2>3, <3>1, <4>1 DEF Rglob, InRepo
    <3>3. CASE n # Len(p)
      <4>1. q \in Parents(p)
        BY <2>3, <2>4, <3>3 DEF Parents
      <4>2. q \in Dirs /\ IsDir(tree, q)
        BY <2>3, <4>1, ParentsAreAbove DEF Dirs, IsDir
      <4> QED
        BY <3>1, <4>2 DEF Rglob
    <3> QED
      BY <3>2, <3>3
  <2> HIDE DEF q
  <2>7. RelParts(q) = {p[j] : j \in 2..n}
    <3>1. RelParts(q) = {q[j] : j \in 2..n}
      BY <2>5, PartsOfPath
    <3>2. \A j \in 2..n : q[j] = p[j]
      BY <2>4, <2>5
    <3> QED
      BY <3>1, <3>2
  <2>8. p[i] \in RelParts(q)
    BY <2>1, <2>2, <2>7
  <2> QED
    BY <2>1, <2>2, <2>6, <2>7, <2>8 DEF NameHits, Considered
<1>2. ASSUME NEW q \in NameHits(tree) PROVE Labelled # {}
  <2>1. /\ q \in Rglob(tree)
        /\ RelParts(q) \intersect SkipDirs = {}
        /\ RelParts(q) \intersect Labels # {}
    BY <1>2 DEF NameHits, Considered
  <2>2. q \in Seq(Names) /\ Below(q, Root)
    BY <2>1, PathAssumption, DirsArePaths DEF Rglob, InRepo, Files
  <2>3. /\ RelParts(q) = {q[j] : j \in 2..Len(q)} /\ q[1] = "repo" /\ Len(q) >= 2
    BY <2>2, PartsOfPath
  <2>4. PICK i \in 2..Len(q) : q[i] \in Labels
    BY <2>1, <2>3
  <2>5. PICK p \in Files(tree) : p = q \/ Below(p, q)
    BY <2>1 DEF Rglob, InRepo, IsDir
  <2>6. p \in Seq(Names)
    BY PathAssumption DEF Files
  <2>7. Len(q) <= Len(p) /\ \A j \in 1..Len(q) : q[j] = p[j]
    <3>1. CASE p = q
      BY <2>6, <3>1
    <3>2. CASE Below(p, q)
      BY <2>2, <2>6, <3>2, BelowIsPointwise
    <3> QED
      BY <2>5, <3>1, <3>2
  <2>8. Len(q) \in Nat /\ Len(p) \in Nat
    BY <2>2, <2>6
  <2>9. p[1] = "repo" /\ p[i] \in Labels /\ i \in 2..Len(p) /\ Len(q) \in i..Len(p)
    BY <2>3, <2>4, <2>7, <2>8
  <2>10. {p[j] : j \in 2..Len(q)} = {q[j] : j \in 2..Len(q)}
    <3>1. \A j \in 2..Len(q) : q[j] = p[j]
      BY <2>7, <2>8
    <3> QED
      BY <3>1
  <2>11. {p[j] : j \in 2..Len(q)} \intersect SkipDirs = {}
    BY <2>1, <2>3, <2>10
  <2> QED
    BY <2>9, <2>11 DEF Labelled
<1> QED
  BY <1>1, <1>2

(* The lines of what ships. *)
ShippedLines ==
  LET shipped == {p \in Files(tree) : Below(p, Root) /\ RelParts(p) \intersect SkipDirs = {}}
  IN  UNION {{tree[p][n] : n \in DOMAIN tree[p]} :
               p \in {q \in shipped : tree[q] # Undecodable /\ Name(q) \notin SkipFiles}}

LEMMA TextHitsAreLines ==
  ASSUME ReleaseTypeOK
  PROVE  /\ TextHits(tree) # {} <=> \E line \in ShippedLines : LabelHits(line) # {}
         /\ ShippedLines \subseteq Seq(Tokens)
<1>1. Readable(tree) =
        {q \in {p \in Files(tree) : Below(p, Root) /\ RelParts(p) \intersect SkipDirs = {}} :
           tree[q] # Undecodable /\ Name(q) \notin SkipFiles}
  <2>1. Considered(tree) \intersect Files(tree) =
          {p \in Files(tree) : Below(p, Root) /\ RelParts(p) \intersect SkipDirs = {}}
    BY DEF Considered, Rglob, InRepo
  <2> QED
    BY <2>1 DEF Readable
<1>2. ShippedLines = UNION {{tree[p][n] : n \in DOMAIN tree[p]} : p \in Readable(tree)}
  BY <1>1 DEF ShippedLines
<1>3. \A p \in Readable(tree) : tree[p] \in Seq(Seq(Tokens))
  BY <1>1 DEF ReleaseTypeOK, Trees, Files, Texts
<1>4. ShippedLines \subseteq Seq(Tokens)
  BY <1>2, <1>3
<1>5. ASSUME NEW p \in TextHits(tree)
      PROVE  \E line \in ShippedLines : LabelHits(line) # {}
  <2>1. PICK n \in DOMAIN tree[p] : LabelHits(tree[p][n]) # {}
    BY <1>5 DEF TextHits
  <2>2. p \in Readable(tree)
    BY <1>5 DEF TextHits
  <2>3. tree[p][n] \in ShippedLines
    BY <1>2, <2>1, <2>2
  <2> QED
    BY <2>1, <2>3
<1>6. ASSUME NEW line \in ShippedLines, LabelHits(line) # {}
      PROVE  TextHits(tree) # {}
  <2>1. PICK p \in Readable(tree) : \E n \in DOMAIN tree[p] : line = tree[p][n]
    BY <1>2
  <2>2. p \in TextHits(tree)
    BY <1>6, <2>1 DEF TextHits
  <2> QED
    BY <2>2
<1> QED
  BY <1>4, <1>5, <1>6

(* What a verdict of the label scan is worth: "clean" says that no label    *)
(* shows; "failed" that one does, or that a line holds an allowed form      *)
(* twice.                                                                   *)
THEOREM LabelVerdictCorrect == Spec => []LabelVerdictRight
<1>1. GateInv /\ VerdictInv => LabelVerdictRight
  <2> SUFFICES ASSUME ReleaseTypeOK, VerdictInv PROVE LabelVerdictRight
    BY DEF GateInv
  <2>1. ASSUME NEW line \in ShippedLines
        PROVE  /\ LabelHits(line) = {} => ~BareLabel(line)
               /\ LabelHits(line) # {} => BareLabel(line) \/ Repeated(line)
    <3>1. line \in Seq(Tokens)
      BY TextHitsAreLines
    <3>2. \A i \in 1..Len(line) :
            /\ Allowed(line, i) => InAllowedForm(line, i)
            /\ InAllowedForm(line, i) => Allowed(line, i) \/ Repeated(line)
      BY <3>1, AllowedIsNearlyRight
    <3>3. DOMAIN line = 1..Len(line)
      BY <3>1
    <3> QED
      BY <3>2, <3>3 DEF LabelHits, BareLabel
  <2>2. labels = "clean" => NameHits(tree) = {} /\ TextHits(tree) = {}
    BY ReleaseAssumption DEF VerdictInv, LabelScan
  <2>3. labels = "failed" => NameHits(tree) # {} \/ TextHits(tree) # {}
    BY ReleaseAssumption DEF VerdictInv, LabelScan
  <2>4. labels = "clean" => Labelled = {} /\ \A line \in ShippedLines : ~BareLabel(line)
    BY <2>1, <2>2, LabelledIsNameHit, TextHitsAreLines
  <2>5. labels = "failed" =>
          Labelled # {} \/ \E line \in ShippedLines : BareLabel(line) \/ Repeated(line)
    BY <2>1, <2>3, LabelledIsNameHit, TextHitsAreLines
  <2> QED
    BY <2>4, <2>5 DEF LabelVerdictRight, Labelled, ShippedLines
<1> QED
  BY <1>1, GateInductive, VerdictInductive, PTL
=============================================================================
