---------------------------- MODULE MCUuencode -----------------------------
(* Instances of Uuencode: every body of up to MaxRaw lines, and bodies     *)
(* made of whole pieces, which reach several files.                        *)
EXTENDS Uuencode

MaxRaw    == 4
MaxPieces == 5

Pieces ==
  {<<"begin">>, <<"data">>, <<"tick", "end">>, <<"space", "end">>,
   <<"text">>, <<"blank">>, <<"begin", "data", "tick", "end">>}

MCBodies ==
  UNION {[1 .. n -> Kind] : n \in 0 .. MaxRaw}
    \cup {FlattenSeq(s) : s \in UNION {[1 .. n -> Pieces] : n \in 0 .. MaxPieces}}

MCBehind ==
  <<"text", "text", "blank", "begin", "data", "tick", "end", "blank">>

MCBytes == [k \in Kind |-> CASE k = "data"  -> 3
                             [] k = "begin" -> 2
                             [] k = "text"  -> 1
                             [] OTHER       -> 0]
=============================================================================
