---------------------------- MODULE EgressPolicy ----------------------------
(***************************************************************************)
(* The route check of http_fetch (control/egress.py).                       *)
(*                                                                         *)
(* A URL is what urlsplit finds in it; its path is the sequence of its      *)
(* characters, "" or with a "/" first, a percent-encoded one being a single *)
(* element.  Host names are lower case.                                     *)
(***************************************************************************)
EXTENDS SequencesExt

CONSTANTS
  Chars,       \* the characters of a path
  Urls,        \* the targets in use
  Allowlists,  \* the sequences of entries in use
  NoPort,      \* parts.port is None
  BadPort,     \* reading parts.port raises ValueError
  NoHost,      \* parts.hostname is None or empty
  Unresolved   \* the None of _authority_path

VARIABLES
  url,        \* the url argument
  allowlist,  \* the egress_allowlist argument
  verdict     \* what url_egress_allowed returned

vars == <<url, allowlist, verdict>>

DefaultPort == [http |-> 80, https |-> 443]

-----------------------------------------------------------------------------
(* urllib.parse.unquote, once.  External.                                   *)
DecodedChar(c) == IF c = "%2e" THEN "." ELSE IF c = "%2f" THEN "/" ELSE c

Unquote(path) == [i \in DOMAIN path |-> DecodedChar(path[i])]

(* path.split("/").  External.                                              *)
SplitChar(segments, c) ==
  IF c = "/"
    THEN Append(segments, <<>>)
    ELSE [segments EXCEPT ![Len(segments)] = Append(@, c)]

Segments(path) ==
  LET upto[n \in 0..Len(path)] ==
        IF n = 0 THEN <<(<<>>)>> ELSE SplitChar(upto[n - 1], path[n])
  IN  upto[Len(path)]

(* posixpath.normpath of a path that begins with "/".  Exactly two leading  *)
(* slashes are kept, as POSIX has it.  External.                            *)
Slashes(path) ==
  IF IsPrefix(<<"/", "/">>, path) /\ ~IsPrefix(<<"/", "/", "/">>, path) THEN 2 ELSE 1

Dot == <<".">>
DotDot == <<".", ".">>

NormStep(names, segment) ==
  IF segment \in {<<>>, Dot} THEN names
  ELSE IF segment # DotDot THEN Append(names, segment)
  ELSE IF names = <<>> THEN names
  ELSE Front(names)

NamesLeft(segments) ==
  LET upto[n \in 0..Len(segments)] ==
        IF n = 0 THEN <<>> ELSE NormStep(upto[n - 1], segments[n])
  IN  upto[Len(segments)]

Joined(names) ==
  FlattenSeq([i \in DOMAIN names |-> IF i = 1 THEN names[i] ELSE <<"/">> \o names[i]])

Normpath(path) ==
  [i \in 1..Slashes(path) |-> "/"] \o Joined(NamesLeft(Segments(path)))

-----------------------------------------------------------------------------
PathOrRoot(u) == IF u.path = <<>> THEN <<"/">> ELSE u.path

Resolves(u) ==
  /\ u.scheme \in DOMAIN DefaultPort
  /\ u.host # NoHost
  /\ ~u.userinfo
  /\ u.port # BadPort

Authority(u) ==
  [scheme |-> u.scheme, host |-> u.host,
   port |-> IF u.port = NoPort THEN DefaultPort[u.scheme] ELSE u.port]

(* Mutant: normalised first, decoded after. *)
DecodedLast(u) ==
  IF Resolves(u)
    THEN [authority |-> Authority(u), norm |-> Unquote(Normpath(PathOrRoot(u)))]
    ELSE Unresolved

AuthorityPath(u) ==
  IF Resolves(u)
    THEN [authority |-> Authority(u), norm |-> Normpath(Unquote(PathOrRoot(u)))]
    ELSE Unresolved

(* Mutant: a prefix of characters, wherever it ends. *)
PrefixAllowed(target, entry) == IsPrefix(entry, target)

(* Mutant: the entry itself is not below the entry. *)
OnlyBelowAllowed(target, entry) == entry = <<"/">> \/ IsPrefix(entry \o <<"/">>, target)

PathAllowed(target, entry) ==
  \/ entry = <<"/">>
  \/ target = entry
  \/ IsPrefix(entry \o <<"/">>, target)

UrlEgressAllowed(u, entries) ==
  LET target == AuthorityPath(u)
  IN  /\ target # Unresolved
      /\ \E i \in DOMAIN entries :
           LET allowed == AuthorityPath(entries[i])
           IN  /\ allowed # Unresolved
               /\ target.authority = allowed.authority
               /\ PathAllowed(target.norm, allowed.norm)

Targets == Urls \union UNION {ToSet(entries) : entries \in Allowlists}

ASSUME EgressAssumption ==
  /\ {"/", ".", "%2e", "%2f"} \subseteq Chars
  /\ \A u \in Targets : u.path \in Seq(Chars)
  /\ \A u \in Targets : Resolves(u) => AuthorityPath(u) # Unresolved
  /\ \A entries \in Allowlists : entries \in Seq(Targets)

-----------------------------------------------------------------------------
Init ==
  /\ url \in Urls
  /\ allowlist \in Allowlists
  /\ verdict = "pending"

Check ==
  /\ verdict = "pending"
  /\ verdict' = IF UrlEgressAllowed(url, allowlist) THEN "allowed" ELSE "denied"
  /\ UNCHANGED <<url, allowlist>>

Next == Check

Spec == Init /\ [][Next]_vars

-----------------------------------------------------------------------------
(* The reference: where a server that serves a tree of names ends up when   *)
(* it follows the decoded path step by step, kept as the set of steps that  *)
(* were not taken back.  A step is taken back by the ".." that returns to   *)
(* the place it left, that is when the depth falls below its own again.     *)
DepthAfter(segments) ==
  LET d[i \in 0..Len(segments)] ==
        IF i = 0 THEN 0
        ELSE IF segments[i] \in {<<>>, Dot} THEN d[i - 1]
        ELSE IF segments[i] # DotDot THEN d[i - 1] + 1
        ELSE IF d[i - 1] = 0 THEN 0
        ELSE d[i - 1] - 1
  IN  d

Location(u) ==
  LET segments == Segments(Unquote(PathOrRoot(u)))
      depth == DepthAfter(segments)
      kept == {i \in DOMAIN segments :
                 /\ depth[i] > depth[i - 1]
                 /\ \A j \in i..Len(segments) : depth[j] >= depth[i]}
  IN  [d \in 1..depth[Len(segments)] |->
         segments[CHOOSE i \in kept : depth[i] = d]]

SameServer(u, entry) ==
  Resolves(u) /\ Resolves(entry) /\ Authority(u) = Authority(entry)

Inside(u, entry) == SameServer(u, entry) /\ IsPrefix(Location(entry), Location(u))

PlainRoot(u) == Slashes(Unquote(PathOrRoot(u))) = 1

(* A request that is let through stays below an entry of the allowlist on   *)
(* that entry's server, however its path is written: dots, encoded dots and *)
(* slashes, and names that merely begin like the entry do not get it out.   *)
EgressSound ==
  verdict = "allowed" => \E i \in DOMAIN allowlist : Inside(url, allowlist[i])

(* A request below an entry is let through however either is written, but   *)
(* for two slashes in front, which normpath keeps as a root of its own;     *)
(* entries that do not resolve take nothing away from those that do.        *)
EgressComplete ==
  verdict = "denied" =>
    \A i \in DOMAIN allowlist :
      PlainRoot(url) /\ PlainRoot(allowlist[i]) => ~Inside(url, allowlist[i])
=============================================================================
