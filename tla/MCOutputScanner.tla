-------------------------- MODULE MCOutputScanner --------------------------
(***************************************************************************)
(* Three secrets that get in each other's way: one is the beginning of a    *)
(* second, of which the third is the end, and so are their hex forms.  The  *)
(* base64 form of one has padding to strip, that of another a character     *)
(* outside the url-safe alphabet.  The encodings are the real ones.         *)
(***************************************************************************)
EXTENDS OutputScanner

MCn == <<"n">>
MCno == <<"n", "o", "~">>
MCo == <<"o", "~">>

MCValues == {MCn, MCno, MCo}
MCBase64 == (MCn :> <<"b", "g", "=", "=">>) @@
            (MCno :> <<"b", "m", "9", "+">>) @@
            (MCo :> <<"b", "3", "4", "=">>)
MCHex == (MCn :> <<"6", "e">>) @@
         (MCno :> <<"6", "e", "6", "f", "7", "e">>) @@
         (MCo :> <<"6", "f", "7", "e">>)
MCMarker == <<"[", "R", "E", "D", "A", "C", "T", "E", "D", "]">>

(* Each representation, and texts in which representations repeat, overlap, *)
(* or stand next to what is almost one.                                     *)
MCEncoded ==
  UNION {{v, MCBase64[v], Rstrip(MCBase64[v]), Urlsafe(MCBase64[v]),
          MCHex[v], Upper(MCHex[v])} : v \in MCValues}
MCTangled ==
  {<<"n", "n">>,
   <<"n", "o", "n", "~", "o", "~">>,
   <<"6", "e", "6", "f", "6", "e", "6", "f", "7", "e", "7", "e">>,
   <<"6", "E", "6", "e", "6", "F", "7", "E">>,
   <<"b", "g", "b", "g", "=", "=", "=">>,
   <<"m", "9", "+", "b", "3", "4">>}
MCPieces == MCEncoded \union MCTangled
MCCharacters == UNION {ToSet(p) : p \in MCPieces \union {MCMarker, <<" ">>}}
MCMessages == {<<p>> : p \in MCPieces} \union {<<p, q>> : p, q \in MCPieces}
=============================================================================
