------------------------------- MODULE Codec -------------------------------
(***************************************************************************)
(* The filters of mailparse_encoding.c: base64 and quoted-printable, in    *)
(* both directions.  A filter takes one byte at a time, keeps what it      *)
(* cannot pass on yet in status and cache, and is flushed at the end.      *)
(*                                                                         *)
(* A filter is a record: state and cache as in the code, column (which the *)
(* code keeps in the second byte of status) and out, everything it has     *)
(* passed on.  Bytes are numbers.                                          *)
(***************************************************************************)
EXTENDS Naturals, SequencesExt

CONSTANT Width    \* the column that ends an encoded line, 72 in the code

ASSUME WidthAssumption == Width \in Nat \ {0} /\ Width % 4 = 0

Byte == 0 .. 255
NUL == 0
HT  == 9
LF  == 10
CR  == 13
SP  == 32
EQ  == 61    \* "="

Encodings == {"7bit", "8bit", "base64", "quoted-printable"}

(* mb_filt_conv_common_ctor                                                *)
Filter == [state |-> 0, cache |-> 0, column |-> 0, out |-> << >>]

Emit(f, bytes) == [f EXCEPT !.out = @ \o bytes]
Reset(f)       == [f EXCEPT !.state = 0, !.cache = 0, !.column = 0]

-----------------------------------------------------------------------------
(* base64: three bytes are four digits of six bits                         *)
Digit(n) == CASE n < 26 -> n + 65
              [] n \in 26 .. 51 -> n + 71
              [] n \in 52 .. 61 -> n - 4
              [] n = 62 -> 43
              [] n = 63 -> 47

IsDigit(c) == c \in (65 .. 90) \cup (97 .. 122) \cup (48 .. 57) \cup {43, 47}

DigitValue(c) == CHOOSE n \in 0 .. 63 : Digit(n) = c

(* the i-th of the four digits of a group of three bytes: shifts by 18, 12,*)
(* 6 and 0 bits                                                            *)
Weight == <<262144, 4096, 64, 1>>
DigitOf(group, i) == Digit((group \div Weight[i]) % 64)

NewLine == <<CR, LF>>

(* Encoded lines are ended before the group that would be too long.        *)
LineBreak_OneLate(f) ==                                      \* mutant
  IF f.column > Width + 4 THEN NewLine ELSE << >>
LineBreak(f) == IF f.column > Width THEN NewLine ELSE << >>

EncodeBase64(f, c) ==
  CASE f.state = 0 -> [f EXCEPT !.state = 1, !.cache = c * 65536]
    [] f.state = 1 -> [f EXCEPT !.state = 2, !.cache = @ + c * 256]
    [] OTHER ->
         [Emit(f, LineBreak(f) \o
                  [i \in 1 .. 4 |-> DigitOf(f.cache + c, i)])
          EXCEPT !.state = 0,
                 !.column = 4 + IF LineBreak(f) = << >> THEN f.column ELSE 0]

(* A last group of one or two bytes is filled up with "=".                 *)
FlushBase64(f) ==
  LET last == [i \in 1 .. 4 |-> IF i <= f.state + 1 THEN DigitOf(f.cache, i)
                                                    ELSE EQ]
  IN Reset(Emit(f, IF f.state = 0 THEN << >> ELSE LineBreak(f) \o last))

(* Whatever is no digit is skipped, "=" included.                          *)
DecodeBase64_Padding(f, c) ==                                \* mutant
  CASE ~IsDigit(c) /\ c # EQ -> f
    [] c = EQ -> [f EXCEPT !.state = 0]
    [] IsDigit(c) /\ f.state < 3 ->
         [f EXCEPT !.state = @ + 1,
                   !.cache = (IF f.state = 0 THEN 0 ELSE @)
                             + DigitValue(c) * Weight[f.state + 1]]
    [] OTHER ->
         LET group == f.cache + DigitValue(c) IN
         [Emit(f, <<group \div 65536, (group \div 256) % 256, group % 256>>)
          EXCEPT !.state = 0]
DecodeBase64(f, c) ==
  CASE ~IsDigit(c) -> f
    [] IsDigit(c) /\ f.state < 3 ->
         [f EXCEPT !.state = @ + 1,
                   !.cache = (IF f.state = 0 THEN 0 ELSE @)
                             + DigitValue(c) * Weight[f.state + 1]]
    [] OTHER ->
         LET group == f.cache + DigitValue(c) IN
         [Emit(f, <<group \div 65536, (group \div 256) % 256, group % 256>>)
          EXCEPT !.state = 0]

(* The bytes that an incomplete last group of digits holds.                *)
FlushDecodeBase64(f) ==
  Reset(Emit(f, CASE f.state = 2 -> <<f.cache \div 65536>>
                  [] f.state = 3 -> <<f.cache \div 65536,
                                      (f.cache \div 256) % 256>>
                  [] OTHER -> << >>))

-----------------------------------------------------------------------------
(* quoted-printable: a byte is passed on when the next one is known        *)
HexDigit(n) == IF n < 10 THEN n + 48 ELSE n + 55
IsHex(c)    == c \in (48 .. 57) \cup (65 .. 70) \cup (97 .. 102)
HexValue(c) == CASE c \in 48 .. 57  -> c - 48
                 [] c \in 65 .. 70  -> c - 55
                 [] c \in 97 .. 102 -> c - 87

Quoted_OffByOne(c) == c > 128 \/ c = EQ                     \* mutant
Quoted(c) == c >= 128 \/ c = EQ
Quote(c)  == <<EQ, HexDigit(c \div 16), HexDigit(c % 16)>>

EncodeQuoted(f, c) ==
  LET s    == f.cache
      soft == f.column >= Width
      next == [f EXCEPT !.cache = c]
  IN
  CASE f.state = 0 -> [next EXCEPT !.state = 1]
    [] f.state # 0 /\ s = NUL ->
         [Emit(next, <<s>>) EXCEPT !.column = 0]
    [] f.state # 0 /\ (s = LF \/ (s = CR /\ c # LF)) ->
         [Emit(next, NewLine) EXCEPT !.column = 0]
    [] f.state # 0 /\ s = CR /\ c = LF -> next
    [] OTHER ->
         [Emit(next, (IF soft THEN <<EQ>> \o NewLine ELSE << >>) \o
                     (IF Quoted(s) THEN Quote(s) ELSE <<s>>))
          EXCEPT !.column = (IF soft THEN 0 ELSE @)
                            + (IF Quoted(s) THEN 3 ELSE 1)]

(* The flush feeds a NUL to get the last byte out.                         *)
FlushQuoted_Drops(f) == Reset(f)                             \* mutant
FlushQuoted(f) == Reset(EncodeQuoted(f, NUL))

(* state 1 is after "=", 2 after a hex digit, 3 after "=" and CR           *)
DecodeQuoted(f, c) ==
  CASE f.state = 1 /\ IsHex(c) -> [f EXCEPT !.state = 2, !.cache = c]
    [] f.state = 1 /\ c = CR   -> [f EXCEPT !.state = 3]
    [] f.state = 1 /\ c = LF   -> [f EXCEPT !.state = 0]
    [] f.state = 1 /\ ~IsHex(c) /\ c \notin {CR, LF} ->
         [Emit(f, <<EQ, c>>) EXCEPT !.state = 0]
    [] f.state = 2 /\ IsHex(c) ->
         [Emit(f, <<HexValue(f.cache) * 16 + HexValue(c)>>)
          EXCEPT !.state = 0]
    [] f.state = 2 /\ ~IsHex(c) ->
         [Emit(f, <<EQ, f.cache, c>>) EXCEPT !.state = 0]
    [] f.state = 3 ->
         [Emit(f, IF c = LF THEN << >> ELSE <<c>>) EXCEPT !.state = 0]
    [] f.state = 0 /\ c = EQ -> [f EXCEPT !.state = 1]
    [] OTHER -> Emit(f, <<c>>)

FlushDecodeQuoted(f) ==
  Reset(Emit(f, CASE f.state = 1 -> <<EQ>>
                  [] f.state = 2 -> <<EQ, f.cache>>
                  [] OTHER -> << >>))

-----------------------------------------------------------------------------
(* mb_convert_filter_new has a filter from and to 8bit for these only, and *)
(* returns NULL for the others.                                            *)
HasFilter(encoding) == encoding \in {"base64", "quoted-printable"}

EncodeByte(encoding, f, c) ==
  IF encoding = "base64" THEN EncodeBase64(f, c) ELSE EncodeQuoted(f, c)
FlushEncoder(encoding, f) ==
  IF encoding = "base64" THEN FlushBase64(f) ELSE FlushQuoted(f)
EncodeBytes(encoding, f, bytes) ==
  FoldLeft(LAMBDA g, c : EncodeByte(encoding, g, c), f, bytes)

DecodeByte(encoding, f, c) ==
  IF encoding = "base64" THEN DecodeBase64(f, c) ELSE DecodeQuoted(f, c)

(* The block decoders: the same steps in a loop, on a filter whose status  *)
(* and cache carry over from the block before.                             *)
DecodeBlock_Fresh(encoding, f, block) ==                     \* mutant
  FoldLeft(LAMBDA g, c : DecodeByte(encoding, g, c),
           [f EXCEPT !.state = 0], block)
DecodeBlock(encoding, f, block) ==
  FoldLeft(LAMBDA g, c : DecodeByte(encoding, g, c), f, block)
FlushDecoder(encoding, f) ==
  IF encoding = "base64" THEN FlushDecodeBase64(f) ELSE FlushDecodeQuoted(f)

(* What a text decodes to, read in one block.                              *)
Decoded(encoding, text) ==
  IF HasFilter(encoding)
  THEN FlushDecoder(encoding, DecodeBlock(encoding, Filter, text)).out
  ELSE text
=============================================================================
