-------------------------- MODULE DependencyGuard --------------------------
(***************************************************************************)
(* The dependency-confusion guard (safety/dependency_guard.py) in a running *)
(* interpreter: what verify_vendored finds depends on sys.path, on the      *)
(* module cache and on the files, and all three change between its calls.   *)
(*                                                                         *)
(* VENDORED has one entry, so verify_all is verify_vendored of its name.    *)
(* "Site" is any other directory with a package of that name.               *)
(***************************************************************************)
EXTENDS SequencesExt, Naturals

CONSTANTS
  Vendor,       \* VENDOR_DIR
  Site,         \* another directory of packages
  Genuine,      \* the code the manifest pins
  Impostor,     \* other code with the same ORIGIN and version
  Foreign,      \* code without them
  Absent,       \* no package of that name in a directory
  NotImported,  \* not in sys.modules
  MaxPath       \* bound on the length of sys.path

Dirs == {Vendor, Site}
Code == {Genuine, Impostor, Foreign}
Module == [dir: Dirs, code: Code]
Answers ==
  {"none", "ok", "ImportError", "sentinel", "not_local", "file_missing", "hash_mismatch"}

ASSUME GuardAssumption ==
  /\ Vendor # Site
  /\ Foreign \notin {Genuine, Impostor}
  /\ Absent \notin Code
  /\ NotImported \notin Module

VARIABLES
  path,      \* sys.path, as far as it holds Vendor or Site
  files,     \* per directory, the code of the package on disk
  imported,  \* sys.modules[name]: where it came from and what was run
  pinned,    \* vendor/manifest.json has an entry for the package
  answer,    \* how the last verify_vendored ended
  accepted   \* history: some verify_vendored returned

vars == <<path, files, imported, pinned, answer, accepted>>

-----------------------------------------------------------------------------

(* Mutant: a vendor directory already on the path is left where it is. *)
VendorAddedIfMissing(p) ==
  IF \E i \in DOMAIN p : p[i] = Vendor THEN p ELSE <<Vendor>> \o p

(* ensure_vendor_on_path: every occurrence removed, one put at the front. *)
VendorFirst(p) ==
  <<Vendor>> \o FlattenSeq([i \in DOMAIN p |-> IF p[i] = Vendor THEN <<>> ELSE <<p[i]>>])

(* The import system, on a path: the cache, else the first directory that   *)
(* has the package.  External.                                              *)
Provides(p, i) == files[p[i]] # Absent

Import(p) ==
  IF imported # NotImported THEN imported
  ELSE IF \A i \in DOMAIN p : ~Provides(p, i) THEN NotImported
  ELSE LET first == CHOOSE i \in DOMAIN p : Provides(p, i) /\ \A j \in 1..(i - 1) : ~Provides(p, j)
       IN  [dir |-> p[first], code |-> files[p[first]]]

HasSentinel(module) == module.code \in {Genuine, Impostor}

(* Mutant: nobody asks where the module was loaded from. *)
VerdictOnSentinel(module) ==
  IF module = NotImported THEN "ImportError"
  ELSE IF ~HasSentinel(module) THEN "sentinel"
  ELSE IF pinned /\ files[Vendor] = Absent THEN "file_missing"
  ELSE IF pinned /\ files[Vendor] # Genuine THEN "hash_mismatch"
  ELSE "ok"

(* Mutant: a file that is not there is read all the same. *)
VerdictOnMissingFile(module) ==
  IF module = NotImported THEN "ImportError"
  ELSE IF ~HasSentinel(module) THEN "sentinel"
  ELSE IF module.dir # Vendor THEN "not_local"
  ELSE IF pinned /\ files[Vendor] = Absent THEN "FileNotFoundError"
  ELSE IF pinned /\ files[Vendor] # Genuine THEN "hash_mismatch"
  ELSE "ok"

(* The checks of verify_vendored on the imported module, in their order;    *)
(* the last two, _verify_manifest_hashes, look at the file on disk.         *)
Verdict(module) ==
  IF module = NotImported THEN "ImportError"
  ELSE IF ~HasSentinel(module) THEN "sentinel"
  ELSE IF module.dir # Vendor THEN "not_local"
  ELSE IF pinned /\ files[Vendor] = Absent THEN "file_missing"
  ELSE IF pinned /\ files[Vendor] # Genuine THEN "hash_mismatch"
  ELSE "ok"

-----------------------------------------------------------------------------
Init ==
  /\ path = <<Site>>
  /\ files \in [Dirs -> Code \union {Absent}]
  /\ imported = NotImported
  /\ pinned \in BOOLEAN
  /\ answer = "none"
  /\ accepted = FALSE

(* A module that fails its checks has been run and stays in sys.modules. *)
VerifyVendored ==
  /\ path' = VendorFirst(path)
  /\ imported' = Import(path')
  /\ answer' = Verdict(imported')
  /\ accepted' = (accepted \/ answer' = "ok")
  /\ UNCHANGED <<files, pinned>>

(* Other code imports the package, or puts a directory on the path. *)
ImportElsewhere ==
  /\ imported' = Import(path)
  /\ UNCHANGED <<path, files, pinned, answer, accepted>>

InsertPath(d) ==
  /\ Len(path) < MaxPath
  /\ path' = <<d>> \o path
  /\ UNCHANGED <<files, imported, pinned, answer, accepted>>

(* A package is installed, edited, repaired or removed on disk. *)
WriteFile(d, code) ==
  /\ files' = [files EXCEPT ![d] = code]
  /\ UNCHANGED <<path, imported, pinned, answer, accepted>>

Next ==
  \/ VerifyVendored
  \/ ImportElsewhere
  \/ \E d \in Dirs : InsertPath(d)
  \/ \E d \in Dirs, code \in Code \union {Absent} : WriteFile(d, code)

Spec == Init /\ [][Next]_vars

-----------------------------------------------------------------------------
(* verify_vendored ends in one of the ways its callers know of.             *)
TypeOK ==
  /\ path \in Seq(Dirs)
  /\ files \in [Dirs -> Code \union {Absent}]
  /\ imported \in Module \union {NotImported}
  /\ pinned \in BOOLEAN
  /\ answer \in Answers
  /\ accepted \in BOOLEAN

(* Once the package has been accepted, everything in the process that       *)
(* imports it gets the vendored copy with its sentinel, whatever is put on  *)
(* the path or written to disk from then on.                                *)
AcceptedStaysLocal ==
  accepted =>
    imported # NotImported /\ imported.dir = Vendor /\ HasSentinel(imported)

(* A first import by the guard is of the local copy even when a directory   *)
(* with a package of that name was put on sys.path before vendor/.          *)
LocalCopyWins ==
  [][VerifyVendored /\ imported = NotImported /\ files[Vendor] # Absent
       => imported' = [dir |-> Vendor, code |-> files[Vendor]]]_vars

(* "a tampered local copy fails the hash pin"                               *)
(* (safety/dependency_guard.py:12).                                         *)
OnlyPinnedCodeAccepted ==
  [][VerifyVendored /\ pinned /\ answer' = "ok" => imported'.code = Genuine]_vars
=============================================================================
