------------------------------ MODULE Uuencode ------------------------------
(* uuencoded files in a text: enum_uue lists those of a part, extract_uue  *)
(* writes one of them, mailparse_uudecode_all takes all out of a stream.   *)
(*                                                                         *)
(* A stream is a sequence of lines of a byte and its newline, or blank;    *)
(* what the decoder makes of a line is a number of bytes.  The two loops   *)
(* of mailparse_do_uudecode, the one that writes and the one that          *)
(* measures, end at different lines.  User code lists the files of a part, *)
(* extracts one, and decodes the whole stream.                             *)
EXTENDS Integers, FiniteSetsExt, SequencesExt

CONSTANTS
  Bodies,     \* the bodies of the part, sequences of Kind
  Behind,     \* what follows in the stream when the part is inside another
  Bytes,      \* Bytes[k]: how much a line of kind k decodes to
  MaxIndex    \* bound: files asked for

(* A tick line is "`", the line of no bytes before "end"; " " is another   *)
(* way to write it, which does not count as one.                           *)
Kind == {"begin", "data", "tick", "space", "end", "text", "blank"}

ASSUME BodiesAssumption == Bodies \cup {Behind} \subseteq Seq(Kind)
ASSUME BytesAssumption ==
  Bytes \in [Kind -> Nat] /\ Bytes["blank"] = 0 /\ MaxIndex \in Nat

VARIABLES
  stream, part_end,  \* the lines, and the offset where the part ends
  op,         \* the call that runs, or "listed", "extracted", "decoded";
              \* "crashed" on a NULL outpath
  at,         \* the next line to read
  nparts,     \* files counted, in this call
  items,      \* what enum_uue returned
  overran,    \* the item it cancelled
  index,      \* what extract_uue is asked for
  files,      \* what has been written, by extract_uue or uudecode_all
  rest,       \* the lines uudecode_all left over
  outpath     \* it still holds the name of the file for them

vars == <<stream, part_end, op, at, nparts, items, overran, index, files, rest,
          outpath>>

Lines   == Len(stream)
Pos(k)  == k + Cardinality({j \in 1 .. k : stream[j] # "blank"})
(* A file: its begin line, and the line its decoding stopped at (or the    *)
(* end of the stream); what is between has been decoded.                   *)
File(begin, stop) == [begin |-> begin, stop |-> stop]
Size(f) == MapThenSumSet(LAMBDA j : Bytes[stream[j]], f.begin + 1 .. f.stop - 1)
NoFile  == File(0, 0)

-----------------------------------------------------------------------------
(* mailparse_do_uudecode behind the begin line: the blank line, the end    *)
(* line behind a tick (only the loop that writes looks for it) or the end  *)
(* of the stream.                                                          *)
Ends_Never(begin, j) == FALSE                             \* mutant
Ends(begin, j) == stream[j] = "end" /\ j - 1 > begin /\ stream[j - 1] = "tick"
Stop(begin, writes) ==
  Min({j \in begin + 1 .. Lines :
         stream[j] = "blank" \/ (writes /\ Ends(begin, j))} \cup {Lines + 1})
Measured(begin) == File(begin, Stop(begin, FALSE))
Written(begin)  == File(begin, Stop(begin, TRUE))

(* the offset of the stream behind line k, or at its end                   *)
Tell(k)    == Pos(Min({k, Lines}))
AtBegin    == at <= Lines /\ stream[at] = "begin"
AtOther    == at <= Lines /\ stream[at] # "begin"
Return ==
  op' = CASE op = "enum_uue"     -> "listed"
          [] op = "extract_uue"  -> "extracted"
          [] op = "uudecode_all" -> "decoded"

EnumItem ==
  LET f == Measured(at) IN
  /\ op = "enum_uue" /\ AtBegin
  /\ IF Tell(f.stop) > part_end
     THEN overran' = f /\ Return /\ UNCHANGED <<items, nparts, at>>
     ELSE /\ items' = Append(items, [file |-> f, filesize |-> Size(f)])
          /\ nparts' = nparts + 1
          /\ at' = f.stop + 1
          /\ UNCHANGED <<overran, op>>
  /\ UNCHANGED <<stream, part_end, index, files,
                 rest, outpath>>

ExtractSkip_Writes ==                                     \* mutant
  /\ op = "extract_uue" /\ AtBegin /\ nparts # index
  /\ at' = Stop(at, TRUE) + 1
  /\ nparts' = nparts + 1
  /\ UNCHANGED <<stream, part_end, op, items, overran, index, files,
                 rest, outpath>>
ExtractSkip ==
  /\ op = "extract_uue" /\ AtBegin /\ nparts # index
  /\ at' = Stop(at, FALSE) + 1
  /\ nparts' = nparts + 1
  /\ UNCHANGED <<stream, part_end, op, items, overran, index, files,
                 rest, outpath>>

ExtractFile ==
  /\ op = "extract_uue" /\ AtBegin /\ nparts = index
  /\ files' = <<Written(at)>>
  /\ Return
  /\ UNCHANGED <<stream, part_end, at, nparts, items, overran, index, rest,
                 outpath>>

(* A line outside of files: the two functions look for the end of the part *)
(* here, and only here.                                                    *)
OtherLine ==
  /\ op \in {"enum_uue", "extract_uue"} /\ AtOther
  /\ at' = at + 1
  /\ IF Tell(at) >= part_end THEN Return ELSE UNCHANGED op
  /\ UNCHANGED <<stream, part_end, nparts, items, overran, index, files,
                 rest, outpath>>

(* The first begin line puts outpath into the array that is returned.  As   *)
(* long as no temporary file could be created nparts is still 0, and the   *)
(* next begin line does so again, with an outpath that has been released.  *)
NamesOutput == nparts = 0
AllFile ==
  /\ op = "uudecode_all" /\ AtBegin /\ (NamesOutput => outpath)
  /\ files' = Append(files, Written(at))
  /\ at' = Stop(at, TRUE) + 1
  /\ nparts' = nparts + 1
  /\ outpath' = FALSE
  /\ UNCHANGED <<stream, part_end, op, items, overran, index, rest>>
(* The temporary file cannot be created: the lines behind the begin line   *)
(* are left for the loop to read.                                          *)
AllNoTempFile ==
  /\ op = "uudecode_all" /\ AtBegin /\ (NamesOutput => outpath)
  /\ at' = at + 1
  /\ outpath' = FALSE
  /\ UNCHANGED <<stream, part_end, op, nparts, items, overran, index, files,
                 rest>>
AllReleasedPath ==
  /\ op = "uudecode_all" /\ AtBegin /\ NamesOutput /\ ~outpath
  /\ op' = "crashed"
  /\ UNCHANGED <<stream, part_end, at, nparts, items, overran, index, files,
                 rest, outpath>>
AllOther ==
  /\ op = "uudecode_all" /\ AtOther
  /\ rest' = Append(rest, at)
  /\ at' = at + 1
  /\ UNCHANGED <<stream, part_end, op, nparts, items, overran, index, files,
                 outpath>>

EndOfStream ==
  /\ op \in {"enum_uue", "extract_uue", "uudecode_all"} /\ at > Lines
  /\ Return
  /\ UNCHANGED <<stream, part_end, at, nparts, items, overran, index, files,
                 rest, outpath>>

(* the second call                                                         *)
Call ==
  /\ op = "listed"
  /\ \/ op' = "extract_uue" /\ index' \in 0 .. MaxIndex
     \/ op' = "uudecode_all" /\ UNCHANGED index
  /\ at' = 1 /\ nparts' = 0
  /\ outpath' = (op' = "uudecode_all")
  /\ UNCHANGED <<stream, part_end, items, overran, files, rest>>

(* The newline before a boundary is not in the body of a part inside.      *)
Init ==
  /\ \E body \in Bodies :
       \/ stream = body /\ part_end = Pos(Len(body))
       \/ stream = body \o Behind /\ part_end = Pos(Len(body)) - 1
  /\ op = "enum_uue" /\ at = 1 /\ nparts = 0
  /\ items = <<>> /\ overran = NoFile /\ index = 0
  /\ files = <<>> /\ rest = <<>> /\ outpath = FALSE

Next == EnumItem \/ ExtractSkip \/ ExtractFile \/ OtherLine
        \/ AllFile \/ AllNoTempFile \/ AllReleasedPath \/ AllOther
        \/ EndOfStream \/ Call

Spec == Init /\ [][Next]_vars

-----------------------------------------------------------------------------
(* begin, data lines, a tick and end: how an encoder writes a file         *)
Complete(begin, end) ==
  /\ begin + 1 < end /\ end <= Lines
  /\ stream[end] = "end" /\ stream[end - 1] = "tick"
  /\ \A j \in begin + 1 .. end - 2 : stream[j] = "data"

(* enum_uue numbers the files by measuring all of them, extract_uue by     *)
(* measuring those in front: what it writes under a number is the file     *)
(* listed there, at most cut off at an end line that measuring has passed. *)
ExtractsWhatIsListed ==
  op = "extracted" /\ index < Len(items) =>
    /\ Len(files) = 1
    /\ LET listed == items[index + 1]
           got    == files[1] IN
       /\ got.begin = listed.file.begin
       /\ got.stop <= listed.file.stop
       /\ got.stop # listed.file.stop => Ends(got.begin, got.stop)
       /\ Size(got) <= listed.filesize

(* mailparse_uudecode_all reads on where the decoder has stopped: every    *)
(* line ends up in one file or is left over, in its order, but for a begin *)
(* line without a temporary file; a complete file ends where it says, and  *)
(* the number that is returned is that of the files (FALSE for none).      *)
EveryLineDecodedOnce ==
  op = "decoded" =>
    LET Taken(k) == files[k].begin .. files[k].stop
        Left     == {rest[k] : k \in DOMAIN rest} IN
    /\ nparts = Len(files)
    /\ \A k \in DOMAIN rest : k > 1 => rest[k - 1] < rest[k]
    /\ \A k \in DOMAIN files :
         /\ Taken(k) \cap Left = {}
         /\ k > 1 => files[k - 1].stop < files[k].begin
         /\ \A end \in 1 .. Lines :
              Complete(files[k].begin, end) => files[k].stop = end
    /\ \A j \in 1 .. Lines :
         \/ j \in Left
         \/ \E k \in DOMAIN files : j \in Taken(k)
         \/ stream[j] = "begin"

(* enum_uue "tells you about any uuencoded attachments that are present in *)
(* this part": it cancels an item, for which it blames the message, only   *)
(* when the file does not end inside the part.                             *)
TellsOfEveryFile ==
  op = "listed" /\ overran # NoFile =>
    \A end \in 1 .. Lines :
      Complete(overran.begin, end) => Pos(end) > part_end
=============================================================================
