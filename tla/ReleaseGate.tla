---------------------------- MODULE ReleaseGate -----------------------------
(***************************************************************************)
(* The steps before the repository is made public: make reset, make guard   *)
(* and make label-scan, in any order and any number, on a tree that others  *)
(* edit, stage and untrack files of in between.  A verdict stands until the *)
(* next write; the guard's outlasts git add and git rm --cached, but not an *)
(* add by force of what it took for ignored.                                *)
(***************************************************************************)
EXTENDS Reset, LabelScan, SecretGuard, Naturals

CONSTANTS
  Written,  \* texts other programs write
  NotRun,   \* no verdict on the tree as it is
  MaxEdits  \* bound: writes by other programs, to the tree or the index

ASSUME ReleaseAssumption ==
  /\ LocalPatternFile \in Paths
  /\ Quoted \subseteq Paths
  /\ Written \subseteq Texts
  /\ NotRun \notin {"clean", "failed"}
  /\ MaxEdits \in Nat

VARIABLES
  tracked,  \* the files in git's index
  guard,    \* how secret_guard ended, and what it had to work with
  labels,   \* how label_scan ended
  edits     \* how often other programs wrote to the tree or the index

vars == <<resetVars, tracked, guard, labels, edits>>

-----------------------------------------------------------------------------
RunGuard ==
  /\ sweep = Idle
  /\ guard = NotRun
  /\ \E git, yaml \in BOOLEAN :
       LET local == LocalPatterns(tree, yaml)
       IN  guard' = [git |-> git, local |-> local,
                     clean |-> /\ ~LoadRaises(tree, yaml)
                               /\ Findings(tree, tracked, git, local) = {}]
  /\ UNCHANGED <<resetVars, tracked, labels, edits>>

RunLabelScan ==
  /\ sweep = Idle
  /\ labels = NotRun
  /\ labels' = LabelScan(tree)
  /\ UNCHANGED <<resetVars, tracked, guard, edits>>

RunReset ==
  /\ ResetStep
  /\ guard' = NotRun
  /\ labels' = NotRun
  /\ UNCHANGED <<tracked, edits>>

Edit ==
  /\ edits < MaxEdits
  /\ edits' = edits + 1
  /\ \E p \in Paths, content \in Written \union {Absent} : Write(p, content)
  /\ guard' = NotRun
  /\ labels' = NotRun
  /\ UNCHANGED tracked

(* What git add takes: a file of the repository that is not in the index. *)
Addable == {p \in InRepo(tree) \ tracked : ".git" \notin RelParts(p)}

(* git add; without -f it refuses what is ignored. *)
Stage ==
  /\ edits < MaxEdits
  /\ edits' = edits + 1
  /\ \E p \in Addable : ~Ignored(p) /\ tracked' = tracked \union {p}
  /\ UNCHANGED <<resetVars, guard, labels>>

(* git add -f of a file that is ignored: no guard has looked at it so far. *)
StageIgnored ==
  /\ edits < MaxEdits
  /\ edits' = edits + 1
  /\ \E p \in Addable : Ignored(p) /\ tracked' = tracked \union {p}
  /\ guard' = NotRun
  /\ UNCHANGED <<resetVars, labels>>

(* git rm --cached *)
Untrack ==
  /\ edits < MaxEdits
  /\ edits' = edits + 1
  /\ \E p \in tracked : tracked' = tracked \ {p}
  /\ UNCHANGED <<resetVars, guard, labels>>

Init ==
  /\ ResetInit
  /\ tracked \in SUBSET Files(tree)
  /\ guard = NotRun
  /\ labels = NotRun
  /\ edits = 0

Next == RunGuard \/ RunLabelScan \/ RunReset \/ Edit \/ Stage \/ StageIgnored \/ Untrack

Spec == Init /\ [][Next]_vars

-----------------------------------------------------------------------------
AllDirs == Dirs \union {Append(dir, name) : dir \in WorkDirs \union {Root}, name \in SafeNames}

ReleaseTypeOK ==
  /\ tree \in Trees
  /\ links \in Links
  /\ sweep = Idle \/ sweep \in [phase: {"runs", "caches", "builds"}, pending: SUBSET AllDirs]
  /\ reported \subseteq AllDirs
  /\ outcome \in {"none", "reset", "raised", "safe_reset"}
  /\ failed \in BOOLEAN /\ disturbed \in BOOLEAN
  /\ tracked \subseteq Paths
  /\ guard = NotRun \/ guard \in [git: BOOLEAN, local: BOOLEAN, clean: BOOLEAN]
  /\ labels \in {NotRun, "clean", "failed"}
  /\ edits \in 0..MaxEdits

(* Directories the documentation calls run dirs, caches and build output:   *)
(* run dirs at the root, caches anywhere, the others at the root or in src. *)
SweptPlace(dir) ==
  \/ dir \in {<<"repo", "runs">>, <<"repo", "workspaces">>}
  \/ Below(dir, Root) /\ Name(dir) \in CacheDirNames
  \/ /\ Name(dir) \in BuildDirNames
     /\ Front(dir) = Root \/ Below(dir, <<"repo", "src">>)

RunDir(dir) == Below(dir, Root) /\ Name(dir) \in SafeNames

(* A reset, however it ends and whoever writes meanwhile, only ever removes *)
(* run dirs, caches and build output of this repository, and tells of each  *)
(* file's directory unless it ends in an exception.                         *)
RemovalsAccounted ==
  [][edits' = edits =>
       \A p \in Files(tree) \ Files(tree') :
         /\ \E dir \in Parents(p) : SweptPlace(dir) \/ RunDir(dir)
         /\ outcome' = "raised" \/ \E dir \in reported' : Below(p, dir)]_vars

(* A safe_reset during which no removal failed and nobody else wrote leaves *)
(* nothing of what it is there to remove, at whatever depth and however     *)
(* nested; "nothing to remove (clean)" is then true.                        *)
SweepThorough ==
  outcome = "safe_reset" /\ ~failed /\ ~disturbed =>
    \A p \in Files(tree) : \A dir \in Parents(p) : ~SweptPlace(dir)

(* Where the guard does not look and safe_reset does not clean up.          *)
BlindSpot(p) ==
  LET parts == RelParts(p)
  IN  \/ parts \intersect {".venv", "venv", "node_modules"} # {}
      \/ parts \intersect {"runs", "workspaces", "build", "dist"} # {}
           /\ \A dir \in Parents(p) : ~SweptPlace(dir)
      \/ Name(p) \in CacheDirNames

Leaks(text, local) ==
  \E n \in DOMAIN text :
    \/ Has(text[n], "value")
    \/ Has(text[n], "codename") /\ local
    \/ Has(text[n], "assignment") /\ ~Has(text[n], "environ")

(* After an undisturbed safe_reset and a clean run of the guard, and        *)
(* whatever has been staged or untracked since unless by force, no file     *)
(* that would go public holds a secret, but for those with the marker, the  *)
(* ones that are no text, names git quotes (PublicFilesScanned), and the    *)
(* blind spots above: the other directories the guard leaves out are those  *)
(* the reset empties.                                                       *)
NothingHides ==
  outcome = "safe_reset" /\ ~failed /\ ~disturbed /\ guard # NotRun /\ guard.clean =>
    \A p \in Public(tree, tracked) :
      \/ tree[p] = Undecodable
      \/ ~Leaks(tree[p], guard.local)
      \/ Marked(tree[p])
      \/ guard.git /\ p \in Quoted
      \/ BlindSpot(p)

(* "Fails the build if disallowed patterns appear in tracked files"         *)
(* (safety/secret_guard.py:2), where those that are looked at are "tracked  *)
(* + untracked-but-not-gitignored files (i.e. what would go public), minus  *)
(* build/test artifacts" (:132).                                            *)
PublicFilesScanned ==
  guard # NotRun /\ guard.clean =>
    \A p \in Public(tree, tracked) :
      \/ tree[p] = Undecodable
      \/ ~Leaks(tree[p], guard.local)
      \/ Marked(tree[p])
      \/ IsArtifact(p)

(* Some allowed form covers the label at i of the line. *)
InAllowedForm(line, i) ==
  \E form \in AllowedForms, j \in 1..Len(line) :
    OccursAt(form, line, j) /\ j <= i /\ i < j + Len(form)

BareLabel(line) == \E i \in DOMAIN line : line[i] \in Labels /\ ~InAllowedForm(line, i)

Repeated(line) ==
  \E form \in AllowedForms, i, j \in 1..Len(line) :
    i < j /\ OccursAt(form, line, i) /\ OccursAt(form, line, j)

(* A clean label scan means that no label shows in a file or in a name of   *)
(* what ships but inside an import-path form; a failed one that there is a  *)
(* bare label, or a line that holds the same form twice.                    *)
LabelVerdictRight ==
  LET shipped == {p \in Files(tree) : Below(p, Root) /\ RelParts(p) \intersect SkipDirs = {}}
      lines == UNION {{tree[p][n] : n \in DOMAIN tree[p]} :
                        p \in {q \in shipped : tree[q] # Undecodable /\ Name(q) \notin SkipFiles}}
      labelled == {p \in Files(tree) : \E i \in 2..Len(p) :
                     /\ p[1] = "repo" /\ p[i] \in Labels
                     /\ \E n \in i..Len(p) : {p[j] : j \in 2..n} \intersect SkipDirs = {}}
  IN  /\ labels = "clean" =>
           labelled = {} /\ \A line \in lines : ~BareLabel(line)
      /\ labels = "failed" =>
           labelled # {} \/ \E line \in lines : BareLabel(line) \/ Repeated(line)
=============================================================================
