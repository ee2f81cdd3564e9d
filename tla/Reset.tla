------------------------------- MODULE Reset --------------------------------
(***************************************************************************)
(* reset and safe_reset (safety/reset.py) over a file tree that other       *)
(* programs write to.                                                       *)
(*                                                                         *)
(* safe_reset is three loops, each over a list made before it begins, and   *)
(* one step per turn.  rmtree with ignore_errors may leave any part of a    *)
(* directory; without, it raises.  It refuses a symbolic link.              *)
(*                                                                         *)
(* A directory without files is not there.  Links are only at the run       *)
(* directories, which are links or directories and never files.             *)
(***************************************************************************)
EXTENDS SourceTree

CONSTANTS
  StartTrees,  \* trees to begin with
  Links,       \* links to begin with: functions from a path to its target
  WorkDirs,    \* directories reset() may be called in
  Idle         \* no safe_reset in progress

VARIABLES
  tree,       \* path -> content or Absent
  links,      \* run directories that are symbolic links -> where to
  sweep,      \* the safe_reset in progress: its loop and what is left of the list
  reported,   \* what the last reset or safe_reset returned so far
  outcome,    \* how it ended: "none" while it runs and before the first
  failed,     \* history: an rmtree of it failed
  disturbed   \* history: somebody wrote to the tree since it began

ASSUME ResetAssumption ==
  /\ StartTrees \subseteq Trees
  /\ WorkDirs \subseteq Seq(Names)
  /\ \A l \in Links : \A dir \in DOMAIN l : l[dir] \in Seq(Names)
  /\ Idle \notin [phase: {"runs", "caches", "builds"}, pending: SUBSET Seq(Names)]

resetVars == <<tree, links, sweep, reported, outcome, failed, disturbed>>

SafeNames == {"runs", "workspaces"}

CacheDirNames == {"__pycache__", ".pytest_cache", ".mypy_cache", ".ruff_cache", ".hypothesis"}

(* BUILD_DIR_NAMES, and a name that ends with ".egg-info" *)
BuildDirNames == {"build", "dist", "x.egg-info"}

-----------------------------------------------------------------------------
(* What holds files is no file itself, and nothing lies below a link. *)
Placed(t) ==
  /\ \A p, q \in Files(t) : ~Below(p, q)
  /\ \A p \in Files(t), dir \in DOMAIN links : ~Below(p, dir)

Resolve(dir) == IF dir \in DOMAIN links THEN links[dir] ELSE dir

(* p.is_dir() and p.exists() follow a link. *)
Exists(dir) == IsDir(tree, Resolve(dir))

Contained(dir) == Resolve(dir) = Root \/ Below(Resolve(dir), Root)

FilesBelow(dirs) == {p \in Files(tree) : \E dir \in dirs : Below(p, dir)}

(* Mutant: a removed file keeps its entry, with nothing to read. *)
WithoutContent(removed) == [p \in Paths |-> IF p \in removed THEN Idle ELSE tree[p]]

Without(removed) == [p \in Paths |-> IF p \in removed THEN Absent ELSE tree[p]]

(* What rmtree with ignore_errors may have removed of a directory. *)
Rmtree(dir, removed) ==
  LET all == IF dir \in DOMAIN links THEN {} ELSE FilesBelow({dir})
  IN  /\ removed \subseteq all
      /\ tree' = Without(removed)
      /\ failed' = (failed \/ removed # all)

-----------------------------------------------------------------------------
(* Mutant: the base name alone decides. *)
ResetTargetsByName(cwd) ==
  LET named == {Resolve(Append(cwd, name)) : name \in SafeNames}
  IN  {dir \in named : Name(dir) \in SafeNames /\ IsDir(tree, dir)}

(* reset: the targets, resolved, that pass both guards and exist. *)
ResetTargets(cwd) ==
  LET named == {Resolve(Append(cwd, name)) : name \in SafeNames}
  IN  {dir \in named : Name(dir) \in SafeNames /\ Below(dir, Root) /\ IsDir(tree, dir)}

(* reset, every target removed. *)
ResetAll(cwd) ==
  /\ sweep = Idle
  /\ tree' = Without(FilesBelow(ResetTargets(cwd)))
  /\ reported' = ResetTargets(cwd)
  /\ outcome' = "reset"
  /\ failed' = FALSE
  /\ disturbed' = FALSE
  /\ UNCHANGED <<links, sweep>>

(* reset, ended by an exception of rmtree: what was removed is not told.     *)
(* The caller names the targets, in either order.                           *)
ResetRaises(cwd) ==
  /\ sweep = Idle
  /\ \E dir \in ResetTargets(cwd), earlier \in SUBSET ResetTargets(cwd) :
       /\ dir \notin earlier
       /\ \E part \in SUBSET FilesBelow({dir}) :
            tree' = Without(FilesBelow(earlier) \union part)
  /\ reported' = {}
  /\ outcome' = "raised"
  /\ failed' = TRUE
  /\ disturbed' = FALSE
  /\ UNCHANGED <<links, sweep>>

-----------------------------------------------------------------------------
(* Mutant: build directories are looked for at the root only. *)
CandidatesAtRoot(phase) ==
  CASE phase = "runs" -> {Append(Root, name) : name \in SafeNames}
    [] phase = "caches" -> {dir \in Dirs : Below(dir, Root) /\ Name(dir) \in CacheDirNames}
    [] phase = "builds" ->
         {dir \in Dirs : Name(dir) \in BuildDirNames /\ Front(dir) = Root}

(* Mutant: caches are looked for under src only. *)
CandidatesUnderSrc(phase) ==
  CASE phase = "runs" -> {Append(Root, name) : name \in SafeNames}
    [] phase = "caches" ->
         {dir \in Dirs : Below(dir, Append(Root, "src")) /\ Name(dir) \in CacheDirNames}
    [] phase = "builds" ->
         {dir \in Dirs : /\ Name(dir) \in BuildDirNames
                         /\ Front(dir) = Root \/ Below(dir, Append(Root, "src"))}

(* Mutant: the runs of every package are run directories. *)
CandidatesAnywhere(phase) ==
  {dir \in Dirs :
     /\ Below(dir, Root)
     /\ Name(dir) \in SafeNames \union CacheDirNames \union BuildDirNames}

(* The list a loop goes through, with the names it would act on. *)
Candidates(phase) ==
  CASE phase = "runs" -> {Append(Root, name) : name \in SafeNames}
    [] phase = "caches" -> {dir \in Dirs : Below(dir, Root) /\ Name(dir) \in CacheDirNames}
    [] phase = "builds" ->
         {dir \in Dirs : /\ Name(dir) \in BuildDirNames
                         /\ Front(dir) = Root \/ Below(dir, Append(Root, "src"))}

(* rglob and glob list what is there; SAFE_NAMES is a constant. *)
Listed(phase) ==
  IF phase = "runs" THEN Candidates(phase) ELSE {dir \in Candidates(phase) : IsDir(tree, dir)}

(* Longest path first among the caches, parents first among the builds. *)
Precedes(phase, first, second) ==
  CASE phase = "runs" -> FALSE
    [] phase = "caches" -> Len(first) > Len(second)
    [] phase = "builds" -> Below(second, first)

SafeReset ==
  /\ sweep = Idle
  /\ sweep' = [phase |-> "runs", pending |-> Listed("runs")]
  /\ reported' = {}
  /\ outcome' = "none"
  /\ failed' = FALSE
  /\ disturbed' = FALSE
  /\ UNCHANGED <<tree, links>>

(* One turn of a loop: remove and report, or pass over what is gone or      *)
(* outside.                                                                 *)
SweepTurn(dir) ==
  /\ sweep # Idle
  /\ dir \in sweep.pending
  /\ \A other \in sweep.pending : ~Precedes(sweep.phase, other, dir)
  /\ sweep' = [sweep EXCEPT !.pending = @ \ {dir}]
  /\ \/ /\ Exists(dir) /\ Contained(dir)
        /\ \E removed \in SUBSET FilesBelow({dir}) : Rmtree(dir, removed)
        /\ reported' = reported \union {dir}
     \/ /\ ~(Exists(dir) /\ Contained(dir))
        /\ UNCHANGED <<tree, reported, failed>>
  /\ UNCHANGED <<links, outcome, disturbed>>

SweepOn(phase) ==
  /\ sweep' = [phase |-> phase, pending |-> Listed(phase)]
  /\ UNCHANGED outcome

(* A loop is through: the next list is made, or safe_reset returns. *)
NextLoop ==
  /\ sweep # Idle
  /\ sweep.pending = {}
  /\ \/ sweep.phase = "runs" /\ SweepOn("caches")
     \/ sweep.phase = "caches" /\ SweepOn("builds")
     \/ /\ sweep.phase = "builds"
        /\ sweep' = Idle
        /\ outcome' = "safe_reset"
  /\ UNCHANGED <<tree, links, reported, failed, disturbed>>

ResetStep ==
  \/ \E cwd \in WorkDirs : ResetAll(cwd) \/ ResetRaises(cwd)
  \/ SafeReset
  \/ sweep # Idle /\ \E dir \in sweep.pending : SweepTurn(dir)
  \/ NextLoop

(* Another program writes or removes a file. *)
Write(p, content) ==
  /\ tree' = [tree EXCEPT ![p] = content]
  /\ tree' # tree
  /\ Placed(tree')
  /\ disturbed' = TRUE
  /\ UNCHANGED <<links, sweep, reported, outcome, failed>>

ResetInit ==
  /\ tree \in StartTrees
  /\ links \in Links
  /\ Placed(tree)
  /\ sweep = Idle
  /\ reported = {}
  /\ outcome = "none"
  /\ failed = FALSE
  /\ disturbed = FALSE
=============================================================================
