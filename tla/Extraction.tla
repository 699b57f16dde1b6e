----------------------------- MODULE Extraction -----------------------------
(***************************************************************************)
(* extract_part with the decoder functions it drives: a stretch of the     *)
(* source stream is read piece by piece, decoded into the part's work      *)
(* buffer and handed to a callback.  The work buffer is also where         *)
(* php_mimepart_parse keeps a line that is not complete yet, and user code *)
(* runs in callbacks and in the streams it implements: while an extraction *)
(* runs it may parse more of the message and extract other parts.          *)
(*                                                                         *)
(* Root is the handle that is parsed into.  The message is a chain of last *)
(* children, whose headers have been parsed: every further line is a body  *)
(* line of the innermost part and moves the ends of the whole chain        *)
(* (MimeParse has the other lines).  Warnings and return values to PHP are *)
(* left out.  A read returns some bytes, none, or, when the stream reports *)
(* a failure, a negative count: php_stream_read does so since PHP 7.4.     *)
(***************************************************************************)
EXTENDS Codec, FiniteSetsExt

CONSTANTS
  Parts, Root,
  Messages,   \* contents of the message, for the parser and as the source
  StartPos,   \* part -> startpos
  BodyStart,  \* part -> bodystart
  PartEncodings,  \* choices of part -> content_transfer_encoding
  BufSize,    \* MAILPARSE_BUFSIZ, 4096 in the code
  MaxDepth    \* bound: extractions inside one another

Modes == {"headers", "body", "whole"}
Innermost == Max({BodyStart[p] : p \in Parts})

ASSUME PartsAssumption ==
  /\ Root \in Parts /\ IsFiniteSet(Parts)
  /\ StartPos \in [Parts -> Nat] /\ BodyStart \in [Parts -> Nat]
  /\ \A p \in Parts : StartPos[p] <= BodyStart[p]
  /\ PartEncodings \subseteq [Parts -> Encodings]
ASSUME MessagesAssumption ==
  Messages \subseteq {m \in Seq(Byte) : Len(m) >= Innermost}
ASSUME BoundsAssumption == BufSize \in Nat \ {0, 1} /\ MaxDepth \in Nat

VARIABLES
  msg,
  encoding, \* part -> content_transfer_encoding
  fed,      \* bytes of msg that the parser has been given
  endpos,   \* of all parts of the chain, as bodyend
  bodyend,
  workbuf,  \* part -> contents of parsedata.workbuf
  filter,   \* part -> extract_filter, {} for NULL and {f} for a filter
  frames,   \* running extractions, the innermost last
  last,     \* history: {the extraction that has just returned}, or {}
  overrun   \* a negative count has been taken for a size

vars == <<msg, encoding, fed, endpos, bodyend, workbuf, filter, frames, last,
          overrun>>
parsed == <<msg, encoding, fed, endpos, bodyend>>

Extracting(p) == \E i \in DOMAIN frames : frames[i].part = p

-----------------------------------------------------------------------------
(* php_mimepart_parse: complete lines move the ends, with the terminator   *)
(* belonging to the boundary that may follow, and the rest is kept.        *)
LineEnds(s)   == {i \in DOMAIN s : s[i] = LF}
Terminator(s) == IF Len(s) > 1 /\ s[Len(s) - 1] = CR /\ s[Len(s)] = LF
                 THEN 2 ELSE 1
LastLine(s) ==
  SubSeq(s, Max({0} \cup (LineEnds(s) \ {Len(s)})) + 1, Len(s))

Parse(n) ==
  LET text  == workbuf[Root] \o SubSeq(msg, fed + 1, fed + n)
      done  == Max({0} \cup LineEnds(text))
      lines == SubSeq(text, 1, done)
  IN
  /\ ~overrun /\ ~Extracting(Root)
  /\ fed + n <= Len(msg)
  /\ fed' = fed + n
  /\ workbuf' = [workbuf EXCEPT ![Root] = SubSeq(text, done + 1, Len(text))]
  /\ endpos' = endpos + done
  /\ bodyend' = IF done = 0 THEN bodyend
                ELSE endpos + done - Terminator(LastLine(lines))
  /\ last' = {}
  /\ UNCHANGED <<msg, encoding, filter, frames, overrun>>

-----------------------------------------------------------------------------
Decodes(mode) == mode = "body"

(* The stretch of the source, fixed when the extraction begins.            *)
From(p, mode) == IF mode = "body" THEN BodyStart[p] ELSE StartPos[p]
To_EndPos(p, mode) ==                                        \* mutant
  IF mode = "headers" THEN BodyStart[p] ELSE fed
To(p, mode) ==
  IF mode = "headers" THEN BodyStart[p]
  ELSE IF p = Root THEN endpos ELSE bodyend

(* php_mimepart_decoder_prepare: the filter is not touched unless the      *)
(* extraction decodes.                                                     *)
Prepared(p, mode) ==
  IF ~Decodes(mode) THEN filter[p]
  ELSE IF HasFilter(encoding[p]) THEN {Filter} ELSE {}

Begin(p, mode) ==
  /\ ~overrun /\ ~Extracting(p)
  /\ Len(frames) < MaxDepth
  /\ workbuf' = [workbuf EXCEPT ![p] = << >>]
  /\ filter' = [filter EXCEPT ![p] = Prepared(p, mode)]
  /\ frames' = Append(frames,
       [part |-> p, mode |-> mode, from |-> From(p, mode),
        pos |-> From(p, mode), end |-> To(p, mode), delivered |-> << >>])
  /\ last' = {}
  /\ UNCHANGED <<parsed, overrun>>

top == Last(frames)
SetTop(frame) == frames' = Append(Front(frames), frame)

(* php_mimepart_decoder_feed: f passes its bytes to the work buffer, which *)
(* is delivered when it holds a buffer's worth.                            *)
Full_Late(buf) == Len(buf) >= 2 * BufSize                    \* mutant
Full(buf) == Len(buf) >= BufSize

Feed(chunk) ==
  LET p == top.part
      moved == [top EXCEPT !.pos = @ + Len(chunk)]
  IN
  \/ /\ filter[p] = {}
     /\ SetTop([moved EXCEPT !.delivered = @ \o chunk])
     /\ UNCHANGED <<workbuf, filter>>
  \/ \E f \in filter[p] :
       LET g == DecodeBlock(encoding[p], [f EXCEPT !.out = workbuf[p]], chunk)
       IN
       /\ filter' = [filter EXCEPT ![p] = {[g EXCEPT !.out = << >>]}]
       /\ \/ /\ Full(g.out)
             /\ SetTop([moved EXCEPT !.delivered = @ \o g.out])
             /\ workbuf' = [workbuf EXCEPT ![p] = << >>]
          \/ /\ ~Full(g.out)
             /\ SetTop(moved)
             /\ workbuf' = [workbuf EXCEPT ![p] = g.out]

(* One round of the loop: a read returns n bytes of those asked for.       *)
Read(n) ==
  /\ ~overrun /\ frames # << >>
  /\ n <= top.end - top.pos
  /\ top.pos + n <= Len(msg)
  /\ Feed(SubSeq(msg, top.pos + 1, top.pos + n))
  /\ last' = {}
  /\ UNCHANGED <<parsed, overrun>>

(* A negative count, kept in a size_t, is not 0: a NUL is written in front *)
(* of the read buffer, and all memory from the buffer on is the chunk.     *)
(* What follows is undefined.  The process is gone at once, or a callback  *)
(* of an extraction without a filter has been given some of the memory.    *)
Memory == 256             \* stands for any byte that no stream has returned
ReadError ==
  /\ ~overrun /\ frames # << >> /\ top.pos < top.end
  /\ overrun' = TRUE
  /\ \/ UNCHANGED frames
     \/ /\ filter[top.part] = {}
        /\ SetTop([top EXCEPT !.delivered = Append(@, Memory)])
  /\ last' = {}
  /\ UNCHANGED <<parsed, workbuf, filter>>

(* php_mimepart_decoder_finish: what the filter and the work buffer still  *)
(* hold is delivered, and the part is free for the next extraction.        *)
Flushed_KeepsRest(p) == workbuf[p]                           \* mutant
Flushed(p) ==
  IF filter[p] = {} THEN workbuf[p]
  ELSE LET f == CHOOSE f \in filter[p] : TRUE
       IN FlushDecoder(encoding[p], [f EXCEPT !.out = workbuf[p]]).out

NoFilter_Kept(p) == filter[p]                                \* mutant
NoFilter(p) == {}

Finish(ok) ==
  LET p == top.part IN
  /\ ~overrun
  /\ last' = {[part |-> p, mode |-> top.mode, from |-> top.from,
               end |-> top.end, data |-> top.delivered \o Flushed(p),
               ok |-> ok]}
  /\ workbuf' = [workbuf EXCEPT ![p] = << >>]
  /\ filter' = [filter EXCEPT ![p] = NoFilter(p)]
  /\ frames' = Front(frames)
  /\ UNCHANGED <<parsed, overrun>>

Complete == frames # << >> /\ top.pos >= top.end /\ Finish(TRUE)

(* The seek fails, or a read returns no bytes.                             *)
ReadFails == frames # << >> /\ (top.pos < top.end \/ top.pos = top.from)
             /\ Finish(FALSE)

Init ==
  /\ msg \in Messages /\ encoding \in PartEncodings
  /\ fed = Innermost /\ endpos = Innermost /\ bodyend = Innermost
  /\ workbuf = [p \in Parts |-> << >>]
  /\ filter = [p \in Parts |-> {}]
  /\ frames = << >>
  /\ last = {}
  /\ overrun = FALSE

Next ==
  \/ \E n \in 1 .. Len(msg) : Parse(n)
  \/ \E p \in Parts, mode \in Modes : Begin(p, mode)
  \/ \E n \in 1 .. BufSize - 1 : Read(n)
  \/ ReadError
  \/ Complete
  \/ ReadFails

Spec == Init /\ [][Next]_vars

-----------------------------------------------------------------------------
(* What an extraction should deliver of the source between two places.     *)
Encoded(p, mode) == Decodes(mode) /\ HasFilter(encoding[p])
Stretch(from, to) == SubSeq(msg, from + 1, to)
Contents(p, mode, from, to) ==
  IF Encoded(p, mode) THEN Decoded(encoding[p], Stretch(from, to))
  ELSE Stretch(from, to)

(* Types; and the work buffer is delivered before it holds more than the   *)
(* code's buffer size.                                                     *)
TypeOK ==
  /\ fed \in 0 .. Len(msg) /\ endpos \in 0 .. Len(msg)
  /\ bodyend \in 0 .. Len(msg)
  /\ \A p \in Parts : /\ \A i \in DOMAIN workbuf[p] : workbuf[p][i] \in Byte
                      /\ Extracting(p) => Len(workbuf[p]) < BufSize
                      /\ Cardinality(filter[p]) <= 1
  /\ Len(frames) <= MaxDepth /\ Cardinality(last) <= 1

(* While an extraction runs, what it has delivered and what waits in the   *)
(* work buffer are what its part of the source decodes to so far, however  *)
(* many bytes the reads returned and whatever else was parsed and extracted*)
(* meanwhile.  A read that reports a failure by a negative count ends that. *)
DeliveredSoFar ==
  ~overrun => \A i \in DOMAIN frames :
    LET f == frames[i] IN
    f.delivered \o workbuf[f.part] =
      IF Encoded(f.part, f.mode)
      THEN DecodeBlock(encoding[f.part], Filter, Stretch(f.from, f.pos)).out
      ELSE Stretch(f.from, f.pos)

(* An extraction that succeeds has delivered the whole stretch, decoded in *)
(* one piece; one that returns a failure, because the seek failed or a read*)
(* returned no bytes, has delivered a beginning of the stretch, decoded.   *)
(* An extraction whose read reports a failure does not return by any rule  *)
(* of C, and this says nothing of it.                                      *)
ExtractedContents ==
  \A e \in last :
    IF e.ok THEN e.data = Contents(e.part, e.mode, e.from, e.end)
    ELSE \E to \in e.from .. e.end :
           e.data = Contents(e.part, e.mode, e.from, to)

(* A part has a filter exactly while an extraction that decodes it runs:   *)
(* extract_part with MAILPARSE_DECODE_NONE relies on it being NULL.        *)
FilterOwned ==
  \A p \in Parts :
    filter[p] # {} <=>
      \E i \in DOMAIN frames :
        frames[i].part = p /\ Encoded(p, frames[i].mode)

(* What the parser still holds: an extraction of the root has taken        *)
(* workbuf over, and what it decodes into it is not the parser's.          *)
Unparsed == IF Extracting(Root) THEN << >> ELSE workbuf[Root]
NothingLost == endpos + Len(Unparsed) = fed

(* Extraction never reads past the lines that were complete when it began: *)
(* no callback sees a line before its terminator is known, and a body      *)
(* inside a multipart stops at a terminator.  Once the parser has lost     *)
(* bytes (BufferedBytesKept) the ends are no longer those of lines.        *)
CompleteLinesOnly ==
  NothingLost =>
    \A i \in DOMAIN frames :
      LET f == frames[i] IN
      f.mode # "headers" /\ f.end > Innermost =>
        \/ f.part = Root /\ msg[f.end] = LF
        \/ f.part # Root /\ f.end < fed /\ msg[f.end + 1] \in {CR, LF}

(* The comment in php_mimepart_parse: without an end of line, buffer the   *)
(* remainder for the next call.                                            *)
BufferedBytesKept == ~Extracting(Root) => NothingLost
=============================================================================
