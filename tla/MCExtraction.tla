---------------------------- MODULE MCExtraction ----------------------------
(* Instances of Extraction for TLC: a multipart with one encoded part.     *)
EXTENDS Extraction, TLC

MCStartPos  == "root" :> 0 @@ "leaf" :> 1
MCBodyStart == "root" :> 1 @@ "leaf" :> 2
MCPartEncodings ==
  {"root" :> r @@ "leaf" :> e : r \in {"7bit", "quoted-printable"},
                                e \in {"base64", "quoted-printable"}}

Headers == <<65, LF>>
Bodies(units, n) == {Headers \o FlattenSeq(s) : s \in BoundedSeq(units, n)}

MCMessages ==
  Bodies({<<EQ>>, <<52>>, <<CR>>, <<LF>>, <<65>>}, 2)
  \cup Bodies({<<EQ, 52, 52>>, <<EQ, CR, LF>>, <<LF>>}, 2)
  \cup Bodies({<<97, 98>>, <<99, EQ, LF>>}, 3)
=============================================================================
