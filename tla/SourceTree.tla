----------------------------- MODULE SourceTree -----------------------------
(***************************************************************************)
(* Files and directories of the machine the repository is checked out on.   *)
(* A path is the sequence of its parts and lies below the repository when   *)
(* it begins with Root.  A directory is there as long as a file below it.   *)
(* A text is a sequence of lines and a line a sequence of tokens: what the  *)
(* scans look for, what excuses it, and other words.                        *)
(***************************************************************************)
EXTENDS SequencesExt

CONSTANTS
  Names,        \* names of files and directories
  Paths,        \* paths of files
  Absent,       \* no file under a path
  Undecodable   \* a file whose bytes are no UTF-8 text

ASSUME PathAssumption ==
  /\ {"repo", "src", "runs", "workspaces"} \subseteq Names
  /\ Paths \subseteq Seq(Names) \ {<<>>}

Root == <<"repo">>

Below(p, dir) == IsStrictPrefix(dir, p)

Name(p) == Last(p)

Parents(p) == {SubSeq(p, 1, n) : n \in 1..(Len(p) - 1)}

Dirs == UNION {Parents(p) : p \in Paths}

(* path.relative_to(ROOT).parts, as a set *)
RelParts(p) == {p[i] : i \in (Len(Root) + 1)..Len(p)}

Files(tree) == {p \in Paths : tree[p] # Absent}

InRepo(tree) == {p \in Files(tree) : Below(p, Root)}

IsDir(tree, dir) == \E p \in Files(tree) : Below(p, dir)

(* ROOT.rglob("*"): a symbolic link to a directory is not descended into.   *)
Rglob(tree) ==
  InRepo(tree) \union {dir \in Dirs : Below(dir, Root) /\ IsDir(tree, dir)}

Tokens ==
  {"aitw", "canary", "import", ".tools", "value", "assignment", "environ", "codename",
   "marker", "malformed", "word"}

Texts == Seq(Seq(Tokens))

Trees == [Paths -> Texts \union {Undecodable, Absent}]
=============================================================================
