---------------------------- MODULE MCAddresses ----------------------------
(* Headers for Addresses: everything of up to four symbols, and lists of   *)
(* up to five pieces.  The word at position k is the k-th word, so that    *)
(* the words of a header can be told apart.                                *)
EXTENDS Addresses

MCWords == <<"w1", "w2", "w3", "w4", "w5">>
MCWord  == Range(MCWords)
MCLower == [w \in MCWord |-> w]

Symbols(k) == {<<MCWords[k]>>} \cup
  {<<c>> : c \in {"\"", "(", ")", "\\", "<", ">", ",", ":", ";"}}
Pieces(k)  == LET w == MCWords[k] IN
  {<<w>>, <<"\"", w, "\"">>, <<"(", w, ")">>, <<"<", w, ">">>, <<"<">>,
   <<",">>, <<":">>, <<";">>}

FromSymbols[len \in 0 .. 4] ==
  IF len = 0 THEN {<<>>}
  ELSE {h \o c : h \in FromSymbols[len - 1], c \in Symbols(len)}
FromPieces[len \in 0 .. 5] ==
  IF len = 0 THEN {<<>>}
  ELSE {h \o c : h \in FromPieces[len - 1], c \in Pieces(len)}

MCHeaders == UNION {FromSymbols[len] : len \in 0 .. 4}
        \cup UNION {FromPieces[len] : len \in 0 .. 5}
=============================================================================
