--------------------------- MODULE MCStreamEncode ---------------------------
(* Instances of StreamEncode for TLC: sources are put together from units, *)
(* one of which is the five letters that quoted-printable escapes.         *)
EXTENDS StreamEncode

Text   == {<<LF>>, <<CR>>, <<EQ>>, <<65>>, From}
Binary == {<<NUL>>, <<128>>, <<255>>, <<65>>}

MCSources ==
  {FlattenSeq(s) : s \in BoundedSeq(Text \cup Binary, 3)}
  \cup {FlattenSeq(s) : s \in BoundedSeq(Text, 4)}
  \cup {FlattenSeq(s) : s \in UNION {[1 .. n -> {<<0>>, <<255>>}] : n \in 4 .. 10}}

MCMemory == {<<255>>, <<65, 65, 65>>}
=============================================================================
