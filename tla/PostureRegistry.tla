-------------------------- MODULE PostureRegistry --------------------------
(***************************************************************************)
(* The registry of the pre-task posture turn (class PostureRegistry of      *)
(* control/enforcing_registry.py) and the validation of the bulletin it     *)
(* hands out (control/bulletin.py).                                         *)
(*                                                                         *)
(* The schema is read from disk for every validation, and one call can      *)
(* validate twice: the delivered bulletin and then the fallback.  So a call *)
(* is one step per validation, and the file may be replaced in between.     *)
(*                                                                         *)
(* A bulletin is a dict of fields; of a field only counts what validation   *)
(* can tell apart (FieldValues).                                            *)
(***************************************************************************)
EXTENDS FiniteSets

CONSTANTS
  Schemas,      \* what the schema file may hold: Schema records, or Unreadable
  Unreadable,   \* no such file, or no JSON in it
  Bulletins,    \* what ctx.bulletin may be
  NoBulletin,   \* None, or no such attribute
  NotADict,     \* a value that is no dict
  NotReading    \* no read_operational_bulletin call in progress

(* A text the enum lists, another text, "", and a value that is no text.    *)
FieldValues == {"listed", "text", "empty", "nontext"}

Texts == {"listed", "text", "empty"}

VARIABLES
  schema,     \* schemas/operational_bulletin.schema.json
  delivered,  \* ctx.bulletin
  reading,    \* the call in progress: which bulletin it validates next
  outcome,    \* what the last call handed over, and what it logged
  inForce     \* history: the schemas there were during the last call

postureVars == <<schema, delivered, reading, outcome, inForce>>

-----------------------------------------------------------------------------
IsDict(bulletin) == bulletin \notin {NoBulletin, NotADict}

MissingFields(bulletin, s) == s.required \ DOMAIN bulletin

ExtraFields(bulletin, s) == IF s.open THEN {} ELSE DOMAIN bulletin \ s.properties

(* Mutant: minLength is forgotten. *)
FieldOkWhenEmpty(value, name, s) ==
  /\ value \in Texts
  /\ name \in s.enums => value = "listed"

(* The loop body over props: type, enum, minLength. *)
FieldOk(value, name, s) ==
  /\ value \in Texts
  /\ name \in s.enums => value = "listed"
  /\ value # "empty"

(* Mutant: only the required fields are looked at. *)
ValidatesLoosely(bulletin, s) ==
  /\ IsDict(bulletin)
  /\ MissingFields(bulletin, s) = {}
  /\ \A name \in s.required : FieldOk(bulletin[name], name, s)

(* _validate_against_schema, when it does not raise. *)
Validates(bulletin, s) ==
  /\ IsDict(bulletin)
  /\ MissingFields(bulletin, s) = {}
  /\ ExtraFields(bulletin, s) = {}
  /\ \A name \in s.properties \intersect DOMAIN bulletin :
       FieldOk(bulletin[name], name, s)

(* The vendored schema, its fields reduced to two: all are required texts   *)
(* of length one or more, and priority is an enum.                          *)
Vendored ==
  [required |-> {"priority", "summary"}, properties |-> {"priority", "summary"},
   enums |-> {"priority"}, open |-> FALSE]

(* Mutant: the fallback was written before a field became required. *)
OutdatedFallback == [priority |-> "listed"]

(* _safe_routine_bulletin *)
Fallback == [priority |-> "listed", summary |-> "text"]

(* Schemas are of the vendored kind: closed, and all fields required. *)
ASSUME PostureAssumption ==
  /\ \A s \in Schemas \ {Unreadable} :
       s.required = s.properties /\ s.enums \subseteq s.properties /\ ~s.open
  /\ \A b \in Bulletins \ {NoBulletin, NotADict} : b \in [DOMAIN b -> FieldValues]
  /\ NoBulletin \in Bulletins
  /\ Unreadable # Vendored
  /\ Fallback \notin {NoBulletin, NotADict}
  /\ NotReading \notin {"delivered", "fallback"}

-----------------------------------------------------------------------------
Answer(handed, logged) == [handed |-> handed, logged |-> logged]

(* "denial" is the generic denial, "none" no answer yet. *)
Answers ==
  {Answer("none", "none"), Answer("denial", "unknown_tool"), Answer("denial", "tool_error"),
   Answer("delivered", "ok"), Answer("fallback", "ok")}

PostureInit ==
  /\ schema \in Schemas
  /\ delivered \in Bulletins
  /\ reading = NotReading
  /\ outcome = Answer("none", "none")
  /\ inForce = {}

(* call() of a name that is not registered. *)
CallUnknown ==
  /\ reading = NotReading
  /\ outcome' = Answer("denial", "unknown_tool")
  /\ inForce' = {}
  /\ UNCHANGED <<schema, delivered, reading>>

(* Mutant: the bulletin is looked for where the harness does not put it. *)
CallReadElsewhere ==
  /\ reading = NotReading
  /\ reading' = "fallback"
  /\ outcome' = Answer("none", "none")
  /\ inForce' = {schema}
  /\ UNCHANGED <<schema, delivered>>

(* call() of the tool: without a bulletin it goes straight to the fallback. *)
CallRead ==
  /\ reading = NotReading
  /\ reading' = IF delivered = NoBulletin THEN "fallback" ELSE "delivered"
  /\ outcome' = Answer("none", "none")
  /\ inForce' = {schema}
  /\ UNCHANGED <<schema, delivered>>

Finish(handed, logged) ==
  /\ reading' = NotReading
  /\ outcome' = Answer(handed, logged)
  /\ UNCHANGED <<schema, delivered, inForce>>

(* Mutant: a bulletin that fails is handed over all the same. *)
ReadDeliveredUnchecked ==
  /\ reading = "delivered"
  /\ IF schema = Unreadable THEN Finish("denial", "tool_error")
                            ELSE Finish("delivered", "ok")

(* Mutant: the first failure of any kind ends the call. *)
ReadDeliveredNoFallback ==
  /\ reading = "delivered"
  /\ IF schema # Unreadable /\ Validates(delivered, schema)
       THEN Finish("delivered", "ok")
       ELSE Finish("denial", "tool_error")

(* The try block: only a BulletinValidationError leads to the fallback; a   *)
(* schema that cannot be read raises out of the tool.                       *)
ReadDelivered ==
  /\ reading = "delivered"
  /\ \/ /\ schema = Unreadable
        /\ Finish("denial", "tool_error")
     \/ /\ schema # Unreadable /\ Validates(delivered, schema)
        /\ Finish("delivered", "ok")
     \/ /\ schema # Unreadable /\ ~Validates(delivered, schema)
        /\ reading' = "fallback"
        /\ UNCHANGED <<schema, delivered, outcome, inForce>>

(* Mutant: the fallback is trusted without validation. *)
ReadFallbackUnchecked ==
  /\ reading = "fallback"
  /\ IF schema = Unreadable THEN Finish("denial", "tool_error")
                            ELSE Finish("fallback", "ok")

(* The last line of the tool, whose validation error nobody catches there. *)
ReadFallback ==
  /\ reading = "fallback"
  /\ IF schema # Unreadable /\ Validates(Fallback, schema)
       THEN Finish("fallback", "ok")
       ELSE Finish("denial", "tool_error")

(* The file is replaced or removed, by whoever installs or updates. *)
ReplaceSchema(s) ==
  /\ s # schema
  /\ schema' = s
  /\ inForce' = IF reading = NotReading THEN inForce ELSE inForce \union {s}
  /\ UNCHANGED <<delivered, reading, outcome>>

PostureNext ==
  \/ CallUnknown
  \/ CallRead
  \/ ReadDelivered
  \/ ReadFallback
  \/ \E s \in Schemas : ReplaceSchema(s)

-----------------------------------------------------------------------------
PostureTypeOK ==
  /\ schema \in Schemas
  /\ delivered \in Bulletins
  /\ reading \in {NotReading, "delivered", "fallback"}
  /\ outcome \in Answers
  /\ inForce \subseteq Schemas

(* The reference: a bulletin has exactly the fields of the schema, each a   *)
(* text with something in it, and of the enums a listed one.  (Every schema *)
(* in use requires all its fields and closes the list.)                     *)
Conforms(bulletin, s) ==
  /\ bulletin \notin {NoBulletin, NotADict}
  /\ bulletin \in [s.properties -> {"listed", "text"}]
  /\ {bulletin[name] : name \in s.enums} \subseteq {"listed"}

Handed == IF outcome.handed = "delivered" THEN delivered ELSE Fallback

(* What an agent is given as a bulletin conforms to a schema that was on    *)
(* disk during that very call; whatever else happens, it gets a denial.     *)
OnlyConformingBulletins ==
  outcome.handed \in {"delivered", "fallback"} =>
    \E s \in inForce \ {Unreadable} : Conforms(Handed, s)

(* A delivered bulletin that conformed all through the call is what the     *)
(* agent gets: neither the fallback nor a denial hides it.                  *)
ConformingBulletinArrives ==
  /\ outcome.logged \in {"ok", "tool_error"}
  /\ \A s \in inForce : s # Unreadable /\ Conforms(delivered, s)
  => outcome.handed = "delivered"

(* With the vendored schema in place a call of the tool never ends in a     *)
(* denial, whatever was delivered: the fallback is itself a bulletin.       *)
FallbackStands ==
  inForce = {Vendored} => outcome.logged # "tool_error"
=============================================================================
