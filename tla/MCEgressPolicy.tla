--------------------------- MODULE MCEgressPolicy ---------------------------
(***************************************************************************)
(* Every path of up to seven characters from "/", "." and a letter, long    *)
(* enough to go down, up and down again, and every path of up to four from  *)
(* an alphabet with encoded characters and a second letter; and every       *)
(* authority, each with a few paths.                                        *)
(***************************************************************************)
EXTENDS EgressPolicy

CONSTANTS localhost, elsewhere

MCChars == {"/", ".", "%2e", "%2f", "m", "x"}

Url(scheme, userinfo, host, port, path) ==
  [scheme |-> scheme, userinfo |-> userinfo, host |-> host, port |-> port, path |-> path]

Local(path) == Url("http", FALSE, localhost, 8099, path)

MCPaths ==
  {<<>>}
    \union {<<"/">> \o p : p \in SeqOf({"/", ".", "m"}, 6)}
    \union {<<"/">> \o p : p \in SeqOf(MCChars, 3)}
    \union {<<"/", "m", "/">> \o p \o <<"/", "x">> : p \in SeqOf({".", "%2e", "%2f"}, 3)}

MCAuthorities ==
  {Url(scheme, userinfo, host, port, path) :
     scheme \in {"http", "https", "ftp"}, userinfo \in BOOLEAN,
     host \in {localhost, elsewhere, NoHost}, port \in {NoPort, BadPort, 80, 8099},
     path \in {<<>>, <<"/", "m">>}}

MCUrls == {Local(path) : path \in MCPaths} \union MCAuthorities

MCEntries ==
  {Local(path) : path \in {<<"/", "m", "/">>, <<"/", "m", "/", "x">>, <<"/", "/", "m">>,
                           <<"/", ".", "/", "m", "/", ".", ".">>}}
    \union {Url("http", FALSE, localhost, NoPort, <<>>),
            Url("https", FALSE, elsewhere, 8099, <<"/", "m">>)}

MCUnresolved == Url("http", TRUE, localhost, 8099, <<"/", "m">>)

MCAllowlists ==
  {<<>>, <<MCUnresolved>>}
    \union {<<entry>> : entry \in MCEntries}
    \union {<<MCUnresolved, entry>> : entry \in MCEntries}
    \union {<<Local(<<"/", "x">>), Local(<<"/", "m">>)>>}
=============================================================================
