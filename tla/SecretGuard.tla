---------------------------- MODULE SecretGuard -----------------------------
(***************************************************************************)
(* The secret and leak guard (safety/secret_guard.py).                      *)
(*                                                                         *)
(* Tokens of a line: "value" matches a value or leak pattern, "assignment"  *)
(* is a hardcoded credential assignment, "environ" an environment access,   *)
(* "codename" what only the local file's patterns match, "marker" the       *)
(* marker that exempts a file, "malformed" what makes the local file no     *)
(* yaml, no mapping to patterns, or one with a pattern that does not        *)
(* compile.                                                                 *)
(***************************************************************************)
EXTENDS SourceTree

CONSTANT Quoted  \* paths git ls-files prints in quotes and with escapes

(* The local file, itself ignored by git. *)
LocalPatternFile == <<"repo", "secret_guard_local.yaml">>

ArtifactDirs ==
  {".git", ".hypothesis", "__pycache__", ".pytest_cache", ".mypy_cache", ".ruff_cache",
   "runs", "workspaces", "build", "dist", ".venv", "venv", "node_modules"}

(* .gitignore, of names in use: directories, and any names. *)
IgnoredDirs ==
  {"workspaces", "runs", "__pycache__", "x.egg-info", "build", "dist", ".venv", "venv",
   ".pytest_cache", ".ruff_cache", ".mypy_cache", ".hypothesis"}

IgnoredNames == {".env", "secret_guard_local.yaml"}

Ignored(p) ==
  \/ RelParts(p) \intersect IgnoredNames # {}
  \/ RelParts(Front(p)) \intersect IgnoredDirs # {}

Has(line, token) == \E i \in DOMAIN line : line[i] = token

-----------------------------------------------------------------------------
(* Mutant: an environment access anywhere in the text exempts all of it. *)
ScanTextOnce(text, local) ==
  {n \in DOMAIN text :
     \/ Has(text[n], "value")
     \/ local /\ Has(text[n], "codename")
     \/ Has(text[n], "assignment") /\ \A m \in DOMAIN text : ~Has(text[m], "environ")}

(* scan_text: the lines with a violation. *)
ScanText(text, local) ==
  {n \in DOMAIN text :
     \/ Has(text[n], "value")
     \/ local /\ Has(text[n], "codename")
     \/ Has(text[n], "assignment") /\ ~Has(text[n], "environ")}

(* load_local_patterns: what the local file says, if there is one and a     *)
(* yaml parser.                                                             *)
LocalPatterns(tree, yaml) ==
  /\ yaml
  /\ tree[LocalPatternFile] \notin {Absent, Undecodable}
  /\ \E n \in DOMAIN tree[LocalPatternFile] : Has(tree[LocalPatternFile][n], "codename")

(* Nothing is caught of one that is no text or malformed, here or where     *)
(* scan_repo compiles the patterns.                                         *)
LoadRaises(tree, yaml) ==
  /\ yaml
  /\ tree[LocalPatternFile] # Absent
  /\ \/ tree[LocalPatternFile] = Undecodable
     \/ \E n \in DOMAIN tree[LocalPatternFile] : Has(tree[LocalPatternFile][n], "malformed")

IsArtifact(p) == RelParts(p) \intersect ArtifactDirs # {}

(* What git would make public: tracked, or neither tracked nor ignored. *)
Public(tree, tracked) ==
  {p \in InRepo(tree) :
     /\ ".git" \notin RelParts(p)
     /\ p \in tracked \/ ~Ignored(p)}

(* Mutant: files nobody has added to git yet are not looked at. *)
TrackedOnly(tree, tracked, git) ==
  IF git THEN (InRepo(tree) \intersect tracked) \ Quoted ELSE InRepo(tree)

(* _tracked_files: what ls-files prints and is the name of a file, else all *)
(* files, in either case without those in artifact directories.             *)
TrackedFiles(tree, tracked, git) ==
  {p \in IF git THEN Public(tree, tracked) \ Quoted ELSE InRepo(tree) : ~IsArtifact(p)}

(* A file whose text holds the marker anywhere is left out. *)
Marked(text) == \E n \in DOMAIN text : Has(text[n], "marker")

Findings(tree, tracked, git, local) ==
  {p \in TrackedFiles(tree, tracked, git) :
     /\ tree[p] # Undecodable
     /\ ~Marked(tree[p])
     /\ ScanText(tree[p], local) # {}}
=============================================================================
