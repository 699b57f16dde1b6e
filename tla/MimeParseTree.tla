--------------------------- MODULE MimeParseTree ---------------------------
(* The parser, called on the root of a message of which nothing is         *)
(* removed, implements MessageTree.                                        *)
EXTENDS MimeParse

Message == INSTANCE MessageTree WITH
  parts   <- nparts,
  from    <- startpos,
  body    <- bodystart,
  upto    <- endpos,
  settled <- {p \in Allocated : ~inHeader[p]},
  pos     <- endpos[Root],
  open    <- Open(Root)

(* php_mimepart_process_line and php_mimepart_update_positions, for every  *)
(* input: a line extends the open path and nothing else; a part that was   *)
(* left behind (by an outer boundary, a final boundary or a next part)     *)
(* never grows, moves or opens again, and a new part begins where the      *)
(* text read so far ends.                                                  *)
ImplementsMessageTree == Message!Spec
=============================================================================
