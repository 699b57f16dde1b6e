---------------------------- MODULE StreamEncode ----------------------------
(***************************************************************************)
(* mailparse_determine_best_xfer_encoding and mailparse_stream_encode: a   *)
(* source stream is scanned for the encoding that fits it, and read piece  *)
(* by piece through an encoding filter into a destination stream, which    *)
(* is filter.out here.  A quoted-printable source is read by lines, so     *)
(* that lines beginning with "From " can be escaped.                       *)
(***************************************************************************)
EXTENDS Codec, FiniteSetsExt

CONSTANTS
  Sources,    \* contents of the source stream
  Requested,  \* encodings that user code asks for
  BufSize,    \* size of the read buffer, 2048 in the code
  Memory,     \* what the memory from the read buffer on may hold
  LongLine    \* length of a line that needs quoting, 200 in the code

ASSUME SourcesAssumption == Sources \subseteq Seq(Byte)
ASSUME MemoryAssumption == Memory \subseteq Seq(Byte)
ASSUME SizesAssumption ==
  BufSize \in Nat \ {0, 1} /\ LongLine \in Nat /\ Requested \subseteq Encodings

VARIABLES
  src, encoding,
  pos,     \* bytes of src that have been read
  seen,    \* the bytes the filter has been given, escaped ones included
  filter,
  status   \* "reading", "done", "crashed" on a NULL filter, or "overrun"

vars == <<src, encoding, pos, seen, filter, status>>

-----------------------------------------------------------------------------
(* mailparse_determine_best_xfer_encoding                                  *)
HasLongLine(s) ==
  \E i \in DOMAIN s : /\ i + LongLine <= Len(s)
                      /\ LF \notin ToSet(SubSeq(s, i, i + LongLine))
BestEncoding(s) ==
  CASE NUL \in ToSet(s) -> "base64"
    [] NUL \notin ToSet(s) /\ HasLongLine(s) -> "quoted-printable"
    [] OTHER -> IF \E i \in DOMAIN s : s[i] > 128 THEN "8bit" ELSE "7bit"

-----------------------------------------------------------------------------
From        == <<70, 114, 111, 109, SP>>
EscapedFrom == <<EQ, 52, 54, 114, 111, 109, SP>>

Rest == SubSeq(src, pos + 1, Len(src))

(* php_stream_gets: a line, or as much of it as the buffer holds           *)
NextLine(s) ==
  LET ends == {i \in DOMAIN s : s[i] = LF} \cup {Len(s), BufSize - 1}
  IN SubSeq(s, 1, Min(ends))

(* strlen: what follows a NUL is not seen                                  *)
UpToNul(s) ==
  SubSeq(s, 1, Min({i - 1 : i \in {j \in DOMAIN s : s[j] = NUL}}
                   \cup {Len(s)}))

(* strncmp(buf, "From ", 5)                                                *)
BeginsFrom_Once(text) == pos = 0 /\ IsPrefix(From, text)     \* mutant
BeginsFrom(text) == IsPrefix(From, text)

(* The escape goes to the destination directly, after the filter has been  *)
(* flushed.                                                                *)
Escape_NoFlush == Emit(filter, EscapedFrom)                  \* mutant
Escape == Emit(FlushEncoder(encoding, filter), EscapedFrom)

(* One round of the quoted-printable loop.                                 *)
FeedLine ==
  LET line == NextLine(Rest)
      text == UpToNul(line)
  IN
  /\ encoding = "quoted-printable"
  /\ pos < Len(src)
  /\ filter' = IF BeginsFrom(text)
               THEN EncodeBytes(encoding, Escape, SubSeq(text, 6, Len(text)))
               ELSE EncodeBytes(encoding, filter, text)
  /\ pos' = pos + Len(line)
  /\ seen' = seen \o text
  /\ UNCHANGED <<src, encoding, status>>

(* One round of the loop for the other encodings, with a read of n bytes.  *)
FeedBlock(n) ==
  /\ encoding = "base64"
  /\ pos + n <= Len(src)
  /\ filter' = EncodeBytes(encoding, filter, SubSeq(Rest, 1, n))
  /\ pos' = pos + n
  /\ seen' = seen \o SubSeq(Rest, 1, n)
  /\ UNCHANGED <<src, encoding, status>>

(* A read that fails with -1, which the size_t len takes for a count of    *)
(* bytes: the filter is given memory, to the first page that is not there. *)
ReadError ==
  /\ encoding = "base64"
  /\ \E bytes \in Memory :
       /\ filter' = EncodeBytes(encoding, filter, bytes)
       /\ seen' = seen \o bytes
  /\ status' = "overrun"
  /\ UNCHANGED <<src, encoding, pos>>

Finish ==
  /\ HasFilter(encoding)
  /\ pos = Len(src)
  /\ filter' = FlushEncoder(encoding, filter)
  /\ status' = "done"
  /\ UNCHANGED <<src, encoding, pos, seen>>

(* Without a filter the first byte, or the flush, goes through NULL.       *)
NoFilter ==
  /\ ~HasFilter(encoding)
  /\ status' = "crashed"
  /\ UNCHANGED <<src, encoding, pos, seen, filter>>

Init ==
  /\ src \in Sources
  /\ encoding \in Requested
  /\ pos = 0
  /\ seen = << >>
  /\ filter = Filter
  /\ status = "reading"

Next ==
  /\ status = "reading"
  /\ \/ FeedLine
     \/ \E n \in 1 .. BufSize : FeedBlock(n)
     \/ ReadError
     \/ Finish
     \/ NoFilter

(* The call has returned, or the process is gone.                          *)
Returned == status # "reading" /\ UNCHANGED vars

Spec == Init /\ [][Next \/ Returned]_vars

-----------------------------------------------------------------------------
(* Quoted-printable text has its line ends written as CR LF.               *)
WithNewLines(s) ==
  FlattenSeq([i \in DOMAIN s |->
    CASE s[i] = LF -> NewLine
      [] s[i] = CR -> IF i < Len(s) /\ s[i + 1] = LF THEN << >> ELSE NewLine
      [] OTHER -> <<s[i]>>])

Canonical(s) == IF encoding = "quoted-printable" THEN WithNewLines(s) ELSE s

dest == filter.out

(* the lines of the encoded text, without their ends, and the escapes      *)
LineStarts == {1} \cup {i + 1 : i \in {j \in DOMAIN dest : dest[j] = LF}}
LineEnd(i) ==
  Min({j - 2 : j \in {k \in DOMAIN dest : k >= i /\ dest[k] = LF}}
      \cup {Len(dest)})
LineFrom(i) == SubSeq(dest, i, LineEnd(i))

EscapeStarts ==
  {i \in DOMAIN dest : IsPrefix(EscapedFrom, SubSeq(dest, i, Len(dest)))}
EscapeEnds == {i + Len(EscapedFrom) : i \in EscapeStarts}

TypeOK ==
  /\ encoding \in Requested
  /\ pos \in 0 .. Len(src)
  /\ \A i \in DOMAIN dest : dest[i] \in Byte
  /\ filter.state \in 0 .. 3 /\ filter.column \in 0 .. Width + 4
  /\ filter.cache \in Nat /\ filter.cache < 16777216        \* 24 bits
  /\ seen \in Seq(Byte)
  /\ status \in {"reading", "done", "crashed", "overrun"}

(* What the destination holds decodes to the bytes the filter was given,   *)
(* whatever the sizes of the reads; and what is there before the end       *)
(* decodes to a beginning of them.  Base64 gives them back as they are,    *)
(* quoted-printable with every CR, LF and CR LF as CR LF.  The bytes are   *)
(* all that was read, but for two losses: of a line that is read for       *)
(* quoted-printable nothing counts from its first NUL on, its end least of *)
(* all, and after a failed read they are not the source's.  The encoding   *)
(* that mailparse_determine_best_xfer_encoding chooses avoids the first.   *)
RoundTrip ==
  HasFilter(encoding) =>
    /\ IF status = "done"
       THEN Decoded(encoding, dest) = Canonical(seen)
       ELSE IsPrefix(DecodeBlock(encoding, Filter, dest).out, Canonical(seen))
    /\ status # "overrun"
       /\ (encoding = "base64" \/ NUL \notin ToSet(src)
                               \/ BestEncoding(src) = encoding) =>
         seen = SubSeq(src, 1, pos)

(* Encoded text can go through any mail system: seven bits, and no more    *)
(* than the encoder's limit, which 72 keeps at 76, from the beginning of a *)
(* line or the end of an escaped "From " to the end of the line or the     *)
(* next escape.  An escape goes past the filter and the flush before it    *)
(* sets the column back, so that a line with escapes may be longer: at     *)
(* most by the limit and the seven letters for every one it holds.  It     *)
(* holds one where the read buffer was full in the middle of a line, and   *)
(* any number where NULs took the line ends.                               *)
FitForMail ==
  /\ \A i \in DOMAIN dest : dest[i] < 128
  /\ \A i \in LineStarts \cup EscapeEnds :
       Min({k - 1 : k \in {e \in EscapeStarts : e >= i}} \cup {LineEnd(i)}) - i
         < Width + 4

(* Lines that begin with "From " are escaped wherever they are in the      *)
(* source.  A line of encoded text that begins with it is one the encoder  *)
(* began itself, with a soft line break ("=" ends the line before) or for  *)
(* a lone CR, which does not end a line for the reader.  A NUL takes the   *)
(* end of its line with it: "Fr", NUL, LF, "om " is joined unescaped.      *)
FromEscaped ==
  encoding = "quoted-printable" /\ {CR, NUL} \cap ToSet(src) = {} =>
    \A i \in LineStarts :
      IsPrefix(From, LineFrom(i)) => i > 3 /\ dest[i - 3] = EQ
=============================================================================
