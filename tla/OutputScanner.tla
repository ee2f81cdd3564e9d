--------------------------- MODULE OutputScanner ---------------------------
(***************************************************************************)
(* The output scanner (safety/output_scanner.py) on real text: a text is a *)
(* sequence of characters, and scan replaces characters.                    *)
(*                                                                         *)
(* The encoders are the standard library's: Base64 and Hex are their        *)
(* values on the secrets in use.  What the module does with their results   *)
(* (the url-safe alphabet, the stripped padding, the upper case) is here.   *)
(***************************************************************************)
EXTENDS SequencesExt

CONSTANTS
  Characters,  \* what texts are made of
  Values,      \* secrets a broker or a host may register
  Base64,      \* base64.b64encode of each
  Hex,         \* bytes.hex of each
  Marker,      \* REDACTION_MARKER
  Messages,    \* what is scanned: sequences of pieces, joined by Separator
  Separator,   \* a character of no representation
  NotScanned   \* no scan since the last register

VARIABLES
  reps,    \* _reps, a dict: its items in insertion order
  taught,  \* history: the values registered
  scanned  \* history: the message scanned and the ScanResult

vars == <<reps, taught, scanned>>

-----------------------------------------------------------------------------
Rstrip(s) == SubSeq(s, 1, Max({0} \union {i \in DOMAIN s : s[i] # "="}))

Urlsafe(s) == ReplaceAll(ReplaceAll(s, "+", "-"), "/", "_")

UpperOf == [a |-> "A", b |-> "B", c |-> "C", d |-> "D", e |-> "E", f |-> "F"]

Upper(s) == [i \in DOMAIN s |-> IF s[i] \in DOMAIN UpperOf THEN UpperOf[s[i]] ELSE s[i]]

(* dict[item.rep] = item.label: a new key goes last, an old one stays put. *)
DictSet(dict, item) ==
  IF \E i \in DOMAIN dict : dict[i].rep = item.rep
    THEN [i \in DOMAIN dict |-> IF dict[i].rep = item.rep THEN item ELSE dict[i]]
    ELSE Append(dict, item)

(* dict.update with a sequence of items. *)
DictUpdate(dict, items) ==
  LET after[n \in 0..Len(items)] ==
        IF n = 0 THEN dict ELSE DictSet(after[n - 1], items[n])
  IN  after[Len(items)]

Item(rep, label) == [rep |-> rep, label |-> label]

(* Mutant: the url-safe alphabet is forgotten. *)
EncodingsWithoutUrlsafe(value) ==
  <<Item(value, "secret_value"),
    Item(Base64[value], "secret_base64"),
    Item(Rstrip(Base64[value]), "secret_base64"),
    Item(Hex[value], "secret_hex"),
    Item(Upper(Hex[value]), "secret_hex")>>

(* The items of the dict display, duplicates included. *)
Encodings(value) ==
  <<Item(value, "secret_value"),
    Item(Base64[value], "secret_base64"),
    Item(Rstrip(Base64[value]), "secret_base64"),
    Item(Urlsafe(Base64[value]), "secret_base64"),
    Item(Rstrip(Urlsafe(Base64[value])), "secret_base64"),
    Item(Hex[value], "secret_hex"),
    Item(Upper(Hex[value]), "secret_hex")>>

(* sorted(_reps, key=len, reverse=True): stable, so ties keep dict order. *)
Longest(dict) == Max({0} \union {Len(dict[i].rep) : i \in DOMAIN dict})

OfLength(dict, n) ==
  FlattenSeq([i \in DOMAIN dict |-> IF Len(dict[i].rep) = n THEN <<dict[i]>> ELSE <<>>])

(* Mutant: reverse=True is missing. *)
ShortestFirst(dict) == FlattenSeq([n \in 1..Longest(dict) |-> OfLength(dict, n)])

LongestFirst(dict) ==
  FlattenSeq([n \in 1..Longest(dict) |-> OfLength(dict, Longest(dict) + 1 - n)])

OccursAt(rep, text, i) ==
  i + Len(rep) - 1 <= Len(text) /\ SubSeq(text, i, i + Len(rep) - 1) = rep

Occurs(rep, text) == \E i \in DOMAIN text : OccursAt(rep, text, i)

(* Mutant: only the first occurrence is replaced. *)
ReplacedOnce(text, rep) ==
  IF Occurs(rep, text)
    THEN LET i == CHOOSE i \in 1..Len(text) :
                    OccursAt(rep, text, i) /\ \A j \in 1..(i - 1) : ~OccursAt(rep, text, j)
         IN  SubSeq(text, 1, i - 1) \o Marker \o SubSeq(text, i + Len(rep), Len(text))
    ELSE text

(* str.replace: from the left, never within what was just replaced. *)
Replaced(text, rep) ==
  LET from[i \in 1..(Len(text) + Len(rep))] ==
        IF i > Len(text) THEN <<>>
        ELSE IF OccursAt(rep, text, i) THEN Marker \o from[i + Len(rep)]
        ELSE <<text[i]>> \o from[i + 1]
  IN  from[1]

Result(text, labels) == [redacted |-> text, detections |-> labels]

(* Mutant: a representation is reported without having been seen. *)
ScanTurnReportsAll(result, item) ==
  Result(Replaced(result.redacted, item.rep), result.detections \union {item.label})

(* One turn of the loop, on the text the turns before it have left. *)
ScanTurn(result, item) ==
  IF Occurs(item.rep, result.redacted)
    THEN Result(Replaced(result.redacted, item.rep), result.detections \union {item.label})
    ELSE result

Scan(dict, text) ==
  LET items == LongestFirst(dict)
      after[n \in 0..Len(items)] ==
        IF n = 0 THEN Result(text, {}) ELSE ScanTurn(after[n - 1], items[n])
  IN  after[Len(items)]

-----------------------------------------------------------------------------
Join(pieces) ==
  FlattenSeq([i \in DOMAIN pieces |-> IF i = 1 THEN pieces[i] ELSE <<Separator>> \o pieces[i]])

Init ==
  /\ reps = <<>>
  /\ taught = {}
  /\ scanned = NotScanned

Register(value) ==
  /\ reps' = DictUpdate(reps, Encodings(value))
  /\ taught' = taught \union {value}
  /\ scanned' = NotScanned

(* A scan changes nothing, so one between two registrations stands for all. *)
ScanMessage(message) ==
  /\ scanned = NotScanned
  /\ scanned' = [message |-> message, result |-> Scan(reps, Join(message))]
  /\ UNCHANGED <<reps, taught>>

Next ==
  \/ \E value \in Values : Register(value)
  \/ \E message \in Messages : ScanMessage(message)

Spec == Init /\ [][Next]_vars

-----------------------------------------------------------------------------
(* The representations the documentation promises to redact.                *)
Promised(value) ==
  LET std == Base64[value]
      url == Urlsafe(std)
  IN  {value, std, Rstrip(std), url, Rstrip(url), Hex[value], Upper(Hex[value])}

(* No representation can occur in the marker, or across one of its edges.   *)
(* So it is for the broker's tokens; a backing secret is the host's choice. *)
ASSUME ScannerAssumption ==
  /\ Separator \in Characters
  /\ Marker \in Seq(Characters) \ {<<>>}
  /\ Messages \subseteq Seq(Seq(Characters))
  /\ \A value \in Values : \A rep \in Promised(value) :
       /\ rep \in Seq(Characters) \ {<<>>}
       /\ {Separator, Head(Marker), Last(Marker)} \intersect ToSet(rep) = {}
       /\ ~Occurs(rep, Marker)

Secret == UNION {Promised(value) : value \in taught}

(* The dict has one item per representation of what was registered.         *)
TypeOK ==
  /\ \A i, j \in DOMAIN reps : i # j => reps[i].rep # reps[j].rep
  /\ {reps[i].rep : i \in DOMAIN reps} = Secret
  /\ taught \subseteq Values

(* After a scan no representation of any value registered before it can be  *)
(* found anywhere in the text: not one that replacing a longer one has      *)
(* uncovered, nor one pieced together from what was around it.              *)
NothingSurvives ==
  scanned # NotScanned =>
    \A rep \in Secret : ~Occurs(rep, scanned.result.redacted)

(* A secret that stands alone leaves nothing behind but one marker: no      *)
(* padding, and no rest of a long secret after a shorter one inside it was  *)
(* replaced.  And what stands next to it is scanned as if it stood alone.   *)
SecretsLeaveNoRest ==
  scanned # NotScanned =>
    scanned.result.redacted =
      Join([i \in DOMAIN scanned.message |->
              IF scanned.message[i] \in Secret
                THEN Marker
                ELSE Scan(reps, scanned.message[i]).redacted])

(* Output is scanned by the store, again by the task registry and again by  *)
(* the harness: to scan the result of a scan changes and reports nothing.   *)
RescanIsHarmless ==
  scanned # NotScanned =>
    Scan(reps, scanned.result.redacted) = Result(scanned.result.redacted, {})

(* Something is reported exactly when the text was changed, and what is     *)
(* reported was in the text as it came, not in what the scan made of it.    *)
DetectionsTruthful ==
  scanned # NotScanned =>
    /\ scanned.result.detections = {} <=> scanned.result.redacted = Join(scanned.message)
    /\ \A label \in scanned.result.detections :
         \E i \in DOMAIN reps :
           reps[i].label = label /\ Occurs(reps[i].rep, Join(scanned.message))
=============================================================================
