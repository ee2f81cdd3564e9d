--------------------------- MODULE MCDefenseLayer ---------------------------
(***************************************************************************)
(* Two tenants, a key of alice's with the model key for a name and another  *)
(* of each; a token, and a diary that is no secret.  Bulletins with every   *)
(* value of the enum field, of the other and of a field the schema does not *)
(* know; a schema file that is vendored, unreadable, or requires that field *)
(* too.                                                                     *)
(***************************************************************************)
EXTENDS DefenseLayer, TLC

CONSTANTS alice, bob, note, modelKey, token, diary, scanner1, scanner2

MCTenants == {alice, bob}
MCItems == {note, modelKey}
MCKeys ==
  {[tenant |-> alice, item |-> modelKey], [tenant |-> alice, item |-> note],
   [tenant |-> bob, item |-> note]}
MCValues == {modelKey, token, diary}
MCBacking == {modelKey}
MCTokens == {token}
MCContents == {{}, {token}, {diary}}
MCScanners == {scanner1, scanner2}
MCScannerSymmetry == Permutations(MCScanners)

MCExtended ==
  [required |-> {"priority", "summary", "note"}, properties |-> {"priority", "summary", "note"},
   enums |-> {"priority"}, open |-> FALSE]
MCSchemas == {Vendored, MCExtended, Unreadable}

MCDicts ==
  UNION {[names -> FieldValues] : names \in SUBSET {"priority", "summary"}}
    \union {[priority |-> "listed", summary |-> s, note |-> n] : s, n \in {"text", "empty"}}
MCBulletins == {NoBulletin, NotADict} \union MCDicts
=============================================================================
