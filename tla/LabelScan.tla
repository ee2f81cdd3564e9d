----------------------------- MODULE LabelScan ------------------------------
(***************************************************************************)
(* The label gate (scripts/label_scan.py): path names and lines of files.   *)
(*                                                                         *)
(* One label with allowed forms and one without stand for PATTERNS and      *)
(* ALLOWED_SUBSTRINGS.  "import" followed by "aitw" is the text             *)
(* "import aitw", "aitw" followed by ".tools" is "aitw.tools".              *)
(***************************************************************************)
EXTENDS SourceTree

Labels == {"aitw", "canary"}

AllowedForms == {<<"import", "aitw">>, <<"aitw", ".tools">>}

SkipDirs ==
  {".git", "__pycache__", "runs", "workspaces", ".hypothesis", ".pytest_cache", ".ruff_cache",
   "dist", "build", "node_modules", ".mypy_cache", ".venv", "venv", "env", "site-packages"}

(* Names in SKIP_FILES or with a suffix in SKIP_SUFFIXES. *)
SkipFiles == {"label_scan.py", "requirements.lock"}

-----------------------------------------------------------------------------
OccursAt(form, line, i) ==
  i + Len(form) - 1 <= Len(line) /\ SubSeq(line, i, i + Len(form) - 1) = form

Occurrences(form, line) == {i \in 1..Len(line) : OccursAt(form, line, i)}

(* Mutant: a line with an allowed form anywhere is waved through. *)
AllowedLine(line, i) == \E form \in AllowedForms : Occurrences(form, line) # {}

(* Mutant: the end of the match is not compared. *)
AllowedFromStart(line, i) ==
  \E form \in AllowedForms :
    /\ Occurrences(form, line) # {}
    /\ Min(Occurrences(form, line)) <= i

(* _allowed: line.index finds the first occurrence of the form only. *)
Allowed(line, i) ==
  \E form \in AllowedForms :
    /\ Occurrences(form, line) # {}
    /\ LET first == Min(Occurrences(form, line))
       IN  first <= i /\ i <= first + Len(form) - 1

LabelHits(line) == {i \in 1..Len(line) : line[i] \in Labels /\ ~Allowed(line, i)}

(* Directories are listed as well as files, and skipped by any part. *)
Considered(tree) == {p \in Rglob(tree) : RelParts(p) \intersect SkipDirs = {}}

(* Mutant: only the paths of files are looked at. *)
FileNameHits(tree) ==
  {p \in Considered(tree) \intersect Files(tree) : RelParts(p) \intersect Labels # {}}

(* The path-name check has no allow-list. *)
NameHits(tree) == {p \in Considered(tree) : RelParts(p) \intersect Labels # {}}

(* Files whose lines are read. *)
Readable(tree) ==
  {p \in Considered(tree) \intersect Files(tree) :
     Name(p) \notin SkipFiles /\ tree[p] # Undecodable}

TextHits(tree) ==
  {p \in Readable(tree) : \E n \in DOMAIN tree[p] : LabelHits(tree[p][n]) # {}}

(* scan: the exit code *)
LabelScan(tree) == IF NameHits(tree) \union TextHits(tree) = {} THEN "clean" ELSE "failed"
=============================================================================
