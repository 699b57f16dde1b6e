------------------------- MODULE StreamEncodeProofs -------------------------
(* What mailparse_stream_encode writes, for every source, width of lines,  *)
(* size of the buffer and choice of reads: it decodes to the source, fits  *)
(* for mail, and hides what looks like the separator of a mailbox.         *)
EXTENDS StreamEncode, DataProofs

(* x is the encoder f after it has passed on bytes, field by field.        *)
Put(x, f, s, k, col, bytes) ==
  /\ x \in Coders
  /\ x.state = s /\ x.cache = k /\ x.column = col /\ x.out = f.out \o bytes

(* base64 holds back what there is of a group of three bytes.              *)
Group(a, b, c) == a * 65536 + b * 256 + c
HoldsGroup(f) ==
  /\ f.state = 1 => \E a \in Byte : f.cache = Group(a, 0, 0)
  /\ f.state = 2 => \E a, b \in Byte : f.cache = Group(a, b, 0)
Encoder(enc) ==
  {f \in Coders : /\ f.state <= 2 /\ f.column <= Width + 4 /\ f.cache < 16777216
                  /\ enc = "base64" => HoldsGroup(f)
                  /\ enc # "base64" => f.state <= 1 /\ f.cache \in Byte}

LEMMA Widths == Width \in Nat /\ Width > 0
  BY WidthAssumption

LEMMA ByteFacts ==
  /\ NUL \in Byte /\ LF \in Byte /\ CR \in Byte /\ EQ \in Byte /\ SP \in Byte
  /\ NUL # LF /\ NUL # CR /\ LF # CR /\ EQ \notin {NUL, LF, CR, SP} /\ SP \notin {NUL, LF, CR}
  /\ << >> \in Seq(Byte) /\ <<NUL>> \in Seq(Byte) /\ <<EQ>> \in Seq(Byte)
  /\ NewLine \in Seq(Byte) /\ <<EQ>> \o NewLine \in Seq(Byte)
<1>1. NUL \in Byte /\ LF \in Byte /\ CR \in Byte /\ EQ \in Byte /\ SP \in Byte
  BY SMT DEF NUL, LF, CR, EQ, SP, Byte
<1>2. NUL # LF /\ NUL # CR /\ LF # CR /\ EQ \notin {NUL, LF, CR, SP} /\ SP \notin {NUL, LF, CR}
  BY SMT DEF NUL, LF, CR, EQ, SP
<1>3. << >> \in Seq(Byte) /\ <<NUL>> \in Seq(Byte) /\ <<EQ>> \in Seq(Byte)
  BY <1>1
<1>4. NewLine \in Seq(Byte)
  BY <1>1 DEF NewLine
<1> QED BY <1>1, <1>2, <1>3, <1>4, ConcatProperties

(* Digits are letters: they decode to what they stand for, and are no line *)
(* ends.                                                                   *)
LEMMA DigitOfFacts ==
  ASSUME NEW n \in 0 .. 63
  PROVE  /\ Digit(n) \in 0 .. 127 /\ Digit(n) \in Byte
         /\ Digit(n) \notin {CR, LF, EQ, NUL}
         /\ IsDigit(Digit(n)) /\ DigitValue(Digit(n)) = n
<1>1. \A m \in 0 .. 63 :
        /\ m < 26 => Digit(m) = m + 65
        /\ m \in 26 .. 51 => Digit(m) = m + 71
        /\ m \in 52 .. 61 => Digit(m) = m - 4
        /\ m = 62 => Digit(m) = 43
        /\ m = 63 => Digit(m) = 47
  BY SMT DEF Digit
<1>2. \A m \in 0 .. 63 : Digit(m) = Digit(n) => m = n
  BY SMT, <1>1
<1>3. DigitValue(Digit(n)) = n
  <2> DEFINE v == DigitValue(Digit(n))
  <2>1. v \in 0 .. 63 /\ Digit(v) = Digit(n)
    BY DEF DigitValue
  <2> HIDE DEF v
  <2> QED BY <1>2, <2>1 DEF v
<1> QED BY SMT, <1>1, <1>3 DEF IsDigit, Byte, CR, LF, EQ, NUL

(* A group of three bytes in four digits.                                  *)
Digits(n) == [i \in 1 .. 4 |-> DigitOf(n, i)]

LEMMA DigitsFacts ==
  ASSUME NEW n \in Nat
  PROVE  /\ Digits(n) \in Seq(Byte) /\ Len(Digits(n)) = 4
         /\ \A i \in 1 .. 4 : /\ DigitOf(n, i) = Digit((n \div Weight[i]) % 64)
                              /\ (n \div Weight[i]) % 64 \in 0 .. 63
                              /\ Digits(n)[i] = DigitOf(n, i)
<1>1. \A i \in 1 .. 4 : Weight[i] \in Nat /\ Weight[i] > 0
  BY SMT DEF Weight
<1>2. ASSUME NEW i \in 1 .. 4
      PROVE  (n \div Weight[i]) % 64 \in 0 .. 63
  <2> DEFINE w == Weight[i]
             q == n \div w
  <2>1. w \in Nat /\ w > 0
    BY <1>1
  <2> HIDE DEF w
  <2>2. q \in Nat
    BY <2>1
  <2> HIDE DEF q
  <2>3. q % 64 \in 0 .. 63
    BY <2>2
  <2> QED BY <2>3 DEF q, w
<1>3. \A i \in 1 .. 4 : DigitOf(n, i) \in Byte
  BY <1>2, DigitOfFacts DEF DigitOf
<1>4. Digits(n) \in [1 .. 4 -> Byte]
  BY <1>3 DEF Digits
<1>5. Digits(n) \in Seq(Byte) /\ Len(Digits(n)) = 4
  BY <1>4, FunctionIsSeq
<1> QED BY <1>2, <1>5 DEF Digits, DigitOf
(* The ways in which the code sets the fields of a filter.                 *)
Kept(f, s, k)             == [f EXCEPT !.state = s, !.cache = k]
Stored(f, k)              == [f EXCEPT !.cache = k]
Started(f, s, k)          == [Stored(f, k) EXCEPT !.state = s]
Grouped(f, s, col, bytes) == [Emit(f, bytes) EXCEPT !.state = s, !.column = col]
Lined(f, k, col, bytes)   == [Emit(Stored(f, k), bytes) EXCEPT !.column = col]

LEMMA PutForms ==
  ASSUME NEW f \in Coders, NEW s \in 0 .. 3, NEW k \in Nat, NEW col \in Nat,
         NEW bytes \in Seq(Byte)
  PROVE  /\ Put(Kept(f, s, k), f, s, k, f.column, << >>)
         /\ Put(Stored(f, k), f, f.state, k, f.column, << >>)
         /\ Put(Started(f, s, k), f, s, k, f.column, << >>)
         /\ Put(Grouped(f, s, col, bytes), f, s, f.cache, col, bytes)
         /\ Put(Lined(f, k, col, bytes), f, f.state, k, col, bytes)
<1>1. f.out \in Seq(Byte) /\ f.out \o << >> = f.out /\ f.out \o bytes \in Seq(Byte)
  BY ConcatEmptySeq, ConcatProperties DEF Coders
<1>2. Put(Kept(f, s, k), f, s, k, f.column, << >>)
  BY <1>1 DEF Put, Coders, Kept
<1>3. Put(Stored(f, k), f, f.state, k, f.column, << >>)
  BY <1>1 DEF Put, Coders, Stored
<1>4. Put(Started(f, s, k), f, s, k, f.column, << >>)
  BY <1>1 DEF Put, Coders, Stored, Started
<1>5. Put(Grouped(f, s, col, bytes), f, s, f.cache, col, bytes)
  BY <1>1 DEF Put, Coders, Emit, Grouped
<1>6. Put(Lined(f, k, col, bytes), f, f.state, k, col, bytes)
  BY <1>1 DEF Put, Coders, Emit, Stored, Lined
<1> QED BY <1>2, <1>3, <1>4, <1>5, <1>6

(* What the encoders do with a byte, one case after another.               *)
BaseColumn(f) == 4 + IF LineBreak(f) = << >> THEN f.column ELSE 0

LEMMA EncodeBase64Is ==
  ASSUME NEW f \in Encoder("base64"), NEW c \in Byte, NEW x, x = EncodeBase64(f, c)
  PROVE  /\ f.state = 0 => Put(x, f, 1, c * 65536, f.column, << >>)
         /\ f.state = 1 => Put(x, f, 2, f.cache + c * 256, f.column, << >>)
         /\ f.state = 2 => Put(x, f, 0, f.cache, BaseColumn(f),
                               LineBreak(f) \o Digits(f.cache + c))
<1> DEFINE k0 == c * 65536
           k1 == f.cache + c * 256
           bytes == LineBreak(f) \o Digits(f.cache + c)
           col == BaseColumn(f)
<1>1. f \in Coders /\ f.cache \in Nat /\ f.column \in Nat /\ c \in Nat
  BY DEF Encoder, Coders, Byte
<1>2. k0 \in Nat /\ k1 \in Nat /\ f.cache + c \in Nat
  BY SMT, <1>1
<1>3. bytes \in Seq(Byte) /\ col \in Nat
  <2>1. LineBreak(f) \in Seq(Byte)
    BY ByteFacts DEF LineBreak
  <2>2. Digits(f.cache + c) \in Seq(Byte)
    BY <1>2, DigitsFacts
  <2> QED BY <1>1, <2>1, <2>2, ConcatProperties DEF BaseColumn
<1>4. /\ f.state = 0 => x = Kept(f, 1, k0)
      /\ f.state = 1 => x = Kept(f, 2, k1)
      /\ f.state = 2 => x = Grouped(f, 0, col, bytes)
  BY DEF EncodeBase64, Digits, Kept, Grouped, BaseColumn
<1> HIDE DEF k0, k1, bytes, col
<1>5. /\ Put(Kept(f, 1, k0), f, 1, k0, f.column, << >>)
      /\ Put(Kept(f, 2, k1), f, 2, k1, f.column, << >>)
      /\ Put(Grouped(f, 0, col, bytes), f, 0, f.cache, col, bytes)
  BY <1>1, <1>2, <1>3, PutForms
<1> QED BY <1>4, <1>5 DEF k0, k1, bytes, col

SoftBreak(f) == IF f.column >= Width THEN <<EQ>> \o NewLine ELSE << >>
Written(c)   == IF Quoted(c) THEN Quote(c) ELSE <<c>>

QuotedColumn(f) == (IF f.column >= Width THEN 0 ELSE f.column)
                   + (IF Quoted(f.cache) THEN 3 ELSE 1)

LEMMA WrittenFacts ==
  ASSUME NEW c \in Byte
  PROVE  /\ Written(c) \in Seq(Byte)
         /\ Len(Written(c)) = IF Quoted(c) THEN 3 ELSE 1
         /\ Quoted(c) => /\ c \div 16 \in 0 .. 15 /\ c % 16 \in 0 .. 15
                         /\ (c \div 16) * 16 + (c % 16) = c
                         /\ Written(c) = <<EQ, HexDigit(c \div 16), HexDigit(c % 16)>>
         /\ ~Quoted(c) => Written(c) = <<c>> /\ c < 128 /\ c # EQ
<1>1. c \in 0 .. 255
  BY DEF Byte
<1>2. c \div 16 \in 0 .. 15 /\ c % 16 \in 0 .. 15 /\ (c \div 16) * 16 + (c % 16) = c
  BY SMT, <1>1
<1>3. \A n \in 0 .. 15 : HexDigit(n) \in Byte
  BY SMT DEF HexDigit, Byte
<1>4. EQ \in Byte
  BY DEF EQ, Byte
<1>5. HexDigit(c \div 16) \in Byte /\ HexDigit(c % 16) \in Byte
  BY <1>2, <1>3
<1>6. CASE Quoted(c)
  <2>1. Written(c) = <<EQ, HexDigit(c \div 16), HexDigit(c % 16)>>
    BY <1>6 DEF Written, Quote
  <2> QED BY <1>2, <1>4, <1>5, <1>6, <2>1
<1>7. CASE ~Quoted(c)
  BY <1>1, <1>7 DEF Written, Quoted
<1> QED BY <1>6, <1>7

LEMMA EncodeQuotedIs ==
  ASSUME NEW f \in Encoder("quoted-printable"), NEW c \in Byte,
         NEW x, x = EncodeQuoted(f, c)
  PROVE  /\ f.state = 0 => Put(x, f, 1, c, f.column, << >>)
         /\ f.state = 1 /\ f.cache = NUL => Put(x, f, 1, c, 0, <<NUL>>)
         /\ f.state = 1 /\ (f.cache = LF \/ (f.cache = CR /\ c # LF)) =>
              Put(x, f, 1, c, 0, NewLine)
         /\ f.state = 1 /\ f.cache = CR /\ c = LF => Put(x, f, 1, c, f.column, << >>)
         /\ f.state = 1 /\ f.cache \notin {NUL, LF, CR} =>
              Put(x, f, 1, c, QuotedColumn(f), SoftBreak(f) \o Written(f.cache))
<1> DEFINE s == f.cache
           bytes == SoftBreak(f) \o Written(s)
           col == QuotedColumn(f)
<1>1. f \in Coders /\ s \in Byte /\ f.column \in Nat /\ c \in Nat
  BY DEF Encoder, Coders, Byte
<1>2. NUL # LF /\ NUL # CR /\ LF # CR
  BY ByteFacts
<1>3. bytes \in Seq(Byte) /\ col \in Nat /\ NewLine \in Seq(Byte) /\ <<NUL>> \in Seq(Byte)
  <2>1. SoftBreak(f) \in Seq(Byte) /\ NewLine \in Seq(Byte) /\ <<NUL>> \in Seq(Byte)
    BY ByteFacts DEF SoftBreak
  <2>2. Written(s) \in Seq(Byte)
    BY <1>1, WrittenFacts
  <2> HIDE DEF s
  <2> QED BY <1>1, <2>1, <2>2, ConcatProperties DEF QuotedColumn
<1>4. f.state = 0 => x = Started(f, 1, c)
  BY DEF EncodeQuoted, Started, Stored
<1>5. f.state = 1 /\ s = NUL => x = Lined(f, c, 0, <<NUL>>)
  BY <1>2 DEF EncodeQuoted, Lined, Stored
<1>6. f.state = 1 /\ (s = LF \/ (s = CR /\ c # LF)) => x = Lined(f, c, 0, NewLine)
  BY <1>2 DEF EncodeQuoted, Lined, Stored
<1>7. f.state = 1 /\ s = CR /\ c = LF => x = Stored(f, c)
  BY <1>2 DEF EncodeQuoted, Stored
<1>8. f.state = 1 /\ s \notin {NUL, LF, CR} => x = Lined(f, c, col, bytes)
  <2>1. Emit(Stored(f, c), bytes).column = f.column
    BY <1>1 DEF Emit, Coders, Stored
  <2> SUFFICES ASSUME f.state = 1, s \notin {NUL, LF, CR} PROVE x = Lined(f, c, col, bytes)
    OBVIOUS
  <2>2. x = [Emit(Stored(f, c), bytes) EXCEPT
               !.column = (IF f.column >= Width THEN 0 ELSE @)
                          + (IF Quoted(s) THEN 3 ELSE 1)]
    BY DEF EncodeQuoted, SoftBreak, Written, Stored
  <2> QED BY <2>1, <2>2 DEF Lined, QuotedColumn
<1> HIDE DEF bytes, col
<1>9. f.state \in 0 .. 3 /\ 1 \in 0 .. 3 /\ 0 \in Nat
  BY <1>1 DEF Coders
<1>10. /\ Put(Started(f, 1, c), f, 1, c, f.column, << >>)
       /\ Put(Stored(f, c), f, f.state, c, f.column, << >>)
       /\ Put(Lined(f, c, 0, <<NUL>>), f, f.state, c, 0, <<NUL>>)
  BY <1>1, <1>3, <1>9, PutForms
<1>11. Put(Lined(f, c, 0, NewLine), f, f.state, c, 0, NewLine)
  BY <1>1, <1>3, <1>9, PutForms
<1>12. Put(Lined(f, c, col, bytes), f, f.state, c, col, bytes)
  BY <1>1, <1>3, <1>9, PutForms
<1> QED BY <1>4, <1>5, <1>6, <1>7, <1>8, <1>10, <1>11, <1>12 DEF col, bytes

(* An encoder stays one, whatever byte it is given.                        *)
LEMMA BreakFacts ==
  ASSUME NEW f \in Coders
  PROVE  /\ LineBreak(f) \in {<< >>, NewLine} /\ NewLine # << >>
         /\ (LineBreak(f) = << >>) = (f.column <= Width)
         /\ BaseColumn(f) <= Width + 4 /\ BaseColumn(f) \in Nat
<1>1. NewLine # << >>
  BY DEF NewLine
<1>2. f.column \in Nat /\ Width \in Nat
  BY Widths DEF Coders
<1>3. LineBreak(f) = IF f.column <= Width THEN << >> ELSE NewLine
  BY <1>2 DEF LineBreak
<1>4. CASE f.column <= Width
  <2>1. BaseColumn(f) = 4 + f.column
    BY <1>3, <1>4 DEF BaseColumn
  <2> QED BY <1>1, <1>2, <1>3, <1>4, <2>1
<1>5. CASE ~(f.column <= Width)
  <2>1. BaseColumn(f) = 4
    BY <1>1, <1>3, <1>5 DEF BaseColumn
  <2> QED BY <1>1, <1>2, <1>3, <1>5, <2>1
<1> QED BY <1>4, <1>5

LEMMA EncodeBase64Facts ==
  ASSUME NEW f \in Encoder("base64"), NEW c \in Byte
  PROVE  EncodeBase64(f, c) \in Encoder("base64")
<1> DEFINE x == EncodeBase64(f, c)
<1>1. /\ f \in Coders /\ f.state \in {0, 1, 2} /\ f.column <= Width + 4
      /\ f.cache < 16777216 /\ HoldsGroup(f)
  BY SMT DEF Encoder, Coders
<1>2. c \in 0 .. 255 /\ 0 \in Byte
  BY DEF Byte
<1>3. CASE f.state = 0
  <2>1. Put(x, f, 1, c * 65536, f.column, << >>)
    BY <1>3, EncodeBase64Is
  <2>2. c * 65536 = Group(c, 0, 0) /\ c * 65536 < 16777216
    BY SMT, <1>2 DEF Group
  <2> HIDE DEF x
  <2>3. x \in Coders /\ x.state = 1 /\ x.cache = Group(c, 0, 0) /\ x.column = f.column
    BY SMT, <2>1, <2>2 DEF Put
  <2>4. HoldsGroup(x)
    BY SMT, <2>3 DEF HoldsGroup
  <2>5. x.cache < 16777216
    BY SMT, <2>2, <2>3
  <2> HIDE DEF HoldsGroup, Group
  <2> QED BY SMT, <1>1, <2>3, <2>4, <2>5 DEF Encoder, x
<1>4. CASE f.state = 1
  <2>1. Put(x, f, 2, f.cache + c * 256, f.column, << >>)
    BY <1>4, EncodeBase64Is
  <2>2. PICK a \in Byte : f.cache = Group(a, 0, 0)
    BY <1>1, <1>4 DEF HoldsGroup
  <2>3. f.cache + c * 256 = Group(a, c, 0) /\ Group(a, c, 0) < 16777216
    BY SMT, <1>2, <2>2 DEF Group, Byte
  <2> HIDE DEF x
  <2>4. x \in Coders /\ x.state = 2 /\ x.cache = Group(a, c, 0) /\ x.column = f.column
    BY SMT, <2>1, <2>3 DEF Put
  <2>5. HoldsGroup(x)
    BY SMT, <2>4 DEF HoldsGroup
  <2> QED BY SMT, <1>1, <2>3, <2>4, <2>5 DEF Encoder, x
<1>5. CASE f.state = 2
  <2>1. Put(x, f, 0, f.cache, BaseColumn(f), LineBreak(f) \o Digits(f.cache + c))
    BY <1>5, EncodeBase64Is
  <2> HIDE DEF x
  <2>2. x \in Coders /\ x.state = 0 /\ x.cache = f.cache /\ x.column = BaseColumn(f)
    BY <2>1 DEF Put
  <2>3. HoldsGroup(x)
    BY SMT, <2>2 DEF HoldsGroup
  <2>4. BaseColumn(f) <= Width + 4
    BY <1>1, BreakFacts
  <2> QED BY SMT, <1>1, <2>2, <2>3, <2>4 DEF Encoder, x
<1> QED BY <1>1, <1>3, <1>4, <1>5

LEMMA QuotedColumnFacts ==
  ASSUME NEW f \in Coders
  PROVE  QuotedColumn(f) \in Nat /\ QuotedColumn(f) <= Width + 4
  BY Widths DEF Coders, QuotedColumn

LEMMA EncodeQuotedFacts ==
  ASSUME NEW f \in Encoder("quoted-printable"), NEW c \in Byte
  PROVE  /\ EncodeQuoted(f, c) \in Encoder("quoted-printable")
         /\ EncodeQuoted(f, c).state = 1 /\ EncodeQuoted(f, c).cache = c
<1> DEFINE x == EncodeQuoted(f, c)
<1>1. f \in Coders /\ f.state \in {0, 1} /\ f.column <= Width + 4
  BY DEF Encoder, Coders
<1>2. c < 16777216
  BY SMT DEF Byte
<1>3. \E col \in Nat : col <= Width + 4 /\ \E bytes : Put(x, f, 1, c, col, bytes)
  <2>1. \/ Put(x, f, 1, c, f.column, << >>)
        \/ Put(x, f, 1, c, 0, <<NUL>>)
        \/ Put(x, f, 1, c, 0, NewLine)
        \/ Put(x, f, 1, c, QuotedColumn(f), SoftBreak(f) \o Written(f.cache))
    <3> HIDE DEF x
    <3>1. x = x /\ (f.cache = CR => c = LF \/ c # LF)
      OBVIOUS
    <3>2. CASE f.state = 0
      BY <3>2, EncodeQuotedIs DEF x
    <3>3. CASE f.state = 1 /\ f.cache \in {NUL, LF, CR}
      BY <3>3, EncodeQuotedIs DEF x
    <3>4. CASE f.state = 1 /\ f.cache \notin {NUL, LF, CR}
      BY <3>4, EncodeQuotedIs DEF x
    <3> QED BY <1>1, <3>2, <3>3, <3>4
  <2>2. f.column \in Nat /\ 0 \in Nat /\ 0 <= Width + 4
    BY <1>1, Widths DEF Coders
  <2>3. QuotedColumn(f) \in Nat /\ QuotedColumn(f) <= Width + 4
    BY <1>1, QuotedColumnFacts
  <2> HIDE DEF x
  <2> QED BY <1>1, <2>1, <2>2, <2>3
<1>4. PICK col \in Nat : col <= Width + 4 /\ \E bytes : Put(x, f, 1, c, col, bytes)
  BY <1>3
<1> HIDE DEF x
<1>5. x \in Coders /\ x.state = 1 /\ x.cache = c /\ x.column = col
  BY <1>4 DEF Put
<1>6. x \in Encoder("quoted-printable")
  BY SMT, <1>2, <1>4, <1>5 DEF Encoder
<1> QED BY <1>5, <1>6 DEF x

LEMMA EncodeByteFacts ==
  ASSUME NEW enc \in {"base64", "quoted-printable"},
         NEW f \in Encoder(enc), NEW c \in Byte
  PROVE  EncodeByte(enc, f, c) \in Encoder(enc)
  BY EncodeBase64Facts, EncodeQuotedFacts DEF EncodeByte

(* The encoder from one byte of a text to the next.                        *)
EncodesOver(enc, f, s, g) ==
  /\ g \in [0 .. Len(s) -> Encoder(enc)]
  /\ g[0] = f
  /\ \A i \in 1 .. Len(s) : g[i] = EncodeByte(enc, g[i - 1], s[i])

LEMMA EncodeRun ==
  ASSUME NEW enc \in {"base64", "quoted-printable"},
         NEW f \in Encoder(enc), NEW s \in Seq(Byte)
  PROVE  \E g : EncodesOver(enc, f, s, g) /\ EncodeBytes(enc, f, s) = g[Len(s)]
<1> DEFINE U == DOMAIN s
           T == Encoder(enc)
           step == [x \in T |-> [b \in Byte |-> EncodeByte(enc, x, b)]]
<1>1. U = 1 .. Len(s) /\ Len(s) \in Nat /\ s \in [U -> Byte] /\ IsFiniteSet(U)
  BY LenProperties, FS_Interval
<1>2. \A S \in SUBSET U : S # {} => Max(S) \in S
  BY <1>1, MaxOfPositions
<1>3. \A x \in T, b \in Byte : EncodeByte(enc, x, b) \in T
  BY EncodeByteFacts
<1>4. step \in [T -> [Byte -> T]] /\ \A x \in T, b \in Byte : step[x][b] = EncodeByte(enc, x, b)
  BY <1>3
<1> HIDE DEF step, T
<1>5. PICK h, g : Feeds(step, f, s, h, g, T)
  BY <1>4, FeedExists DEF T
<1>6. h \in [SUBSET U -> T] /\ h[{}] = f /\ h[U] = g[Len(s)]
  BY <1>5 DEF Feeds
<1>7. ASSUME NEW S \in SUBSET U, S # {}
      PROVE  h[S] = EncodeByte(enc, h[S \ {Max(S)}], s[Max(S)])
  <2>1. h[S] = step[h[S \ {Max(S)}]][s[Max(S)]]
    BY <1>5, <1>7 DEF Feeds
  <2>2. h[S \ {Max(S)}] \in T /\ s[Max(S)] \in Byte
    BY <1>1, <1>2, <1>6, <1>7
  <2> QED BY <1>4, <2>1, <2>2
<1> HIDE DEF U
<1>8. EncodeBytes(enc, f, s) = h[U]
  <2> DEFINE Adds(k) == k = [S \in SUBSET U |->
                               IF S = {} THEN f
                               ELSE EncodeByte(enc, k[S \ {Max(S)}], s[Max(S)])]
             iter == CHOOSE k : Adds(k)
  <2>1. EncodeBytes(enc, f, s) = iter[U]
    BY DEF EncodeBytes, FoldLeft, MapThenFoldSet, U
  <2>2. Adds(h)
    <3>1. \A S \in SUBSET U : h[S] = IF S = {} THEN f
                               ELSE EncodeByte(enc, h[S \ {Max(S)}], s[Max(S)])
      BY <1>6, <1>7
    <3>2. h = [S \in SUBSET U |-> h[S]]
      BY <1>6
    <3> QED BY <3>1, <3>2
  <2>3. Adds(iter)
    BY <2>2
  <2>4. \A S \in SUBSET U : iter[S] = IF S = {} THEN f
                               ELSE EncodeByte(enc, iter[S \ {Max(S)}], s[Max(S)])
    <3> HIDE DEF iter
    <3> QED BY <2>3
  <2> HIDE DEF iter, Adds
  <2> DEFINE D == SUBSET U
             r == [S \in D |-> Cardinality(S)]
  <2>5. r \in [D -> Nat]
    BY <1>1, SizeFacts
  <2>6. ASSUME NEW S \in D, \A e \in D : r[e] < r[S] => iter[e] = h[e]
        PROVE  iter[S] = h[S]
    <3>1. CASE S = {}
      BY <1>6, <2>4, <3>1
    <3>2. CASE S # {}
      <4>1. Max(S) \in S /\ S \ {Max(S)} \in SUBSET U
        BY <1>2, <3>2
      <4>2. r[S \ {Max(S)}] < r[S]
        BY <1>1, <4>1, SizeFacts
      <4>3. iter[S \ {Max(S)}] = h[S \ {Max(S)}]
        BY <2>6, <4>1, <4>2
      <4> QED BY <1>7, <2>4, <3>2, <4>3
    <3> QED BY <3>1, <3>2
  <2>7. U \in D
    OBVIOUS
  <2> HIDE DEF r, D
  <2>8. \A S \in D : iter[S] = h[S]
    BY <2>5, <2>6, Unique
  <2> QED BY <2>1, <2>7, <2>8
<1>9. EncodesOver(enc, f, s, g)
  <2>1. /\ g \in [0 .. Len(s) -> T] /\ g[0] = f
        /\ \A i \in 1 .. Len(s) : g[i] = step[g[i - 1]][s[i]]
    BY <1>5 DEF Feeds
  <2>2. ASSUME NEW i \in 1 .. Len(s) PROVE g[i] = EncodeByte(enc, g[i - 1], s[i])
    <3>1. i - 1 \in 0 .. Len(s) /\ i \in U
      BY <1>1
    <3> QED BY <1>1, <1>4, <2>1, <3>1
  <2> QED BY <2>1, <2>2 DEF EncodesOver, T
<1> QED BY <1>6, <1>8, <1>9

(* What holds of an encoder at every byte of a text holds at its end: I[i]   *)
(* is what is known after i bytes.                                         *)
Carries(enc, s, I) ==
  \A i \in 1 .. Len(s) : \A x \in Encoder(enc) :
    x \in I[i - 1] => EncodeByte(enc, x, s[i]) \in I[i]

LEMMA EncodeInduct ==
  ASSUME NEW enc \in {"base64", "quoted-printable"},
         NEW f \in Encoder(enc), NEW s \in Seq(Byte), NEW I,
         f \in I[0], Carries(enc, s, I)
  PROVE  /\ EncodeBytes(enc, f, s) \in Encoder(enc)
         /\ EncodeBytes(enc, f, s) \in I[Len(s)]
<1>1. PICK g : EncodesOver(enc, f, s, g) /\ EncodeBytes(enc, f, s) = g[Len(s)]
  BY EncodeRun
<1>2. /\ g \in [0 .. Len(s) -> Encoder(enc)] /\ g[0] = f
      /\ \A i \in 1 .. Len(s) : g[i] = EncodeByte(enc, g[i - 1], s[i])
  BY <1>1 DEF EncodesOver
<1>3. Len(s) \in Nat
  BY LenProperties
<1> DEFINE N == {n \in Nat : n <= Len(s) => g[n] \in I[n]}
<1>4. 0 \in N
  BY <1>2
<1>5. ASSUME NEW n \in Nat, n \in N PROVE n + 1 \in N
  <2> SUFFICES ASSUME n + 1 <= Len(s) PROVE g[n + 1] \in I[n + 1]
    OBVIOUS
  <2> DEFINE i == n + 1
  <2>1. i \in 1 .. Len(s) /\ i - 1 = n /\ n \in 0 .. Len(s) /\ n <= Len(s)
    BY <1>3
  <2>2. g[n] \in Encoder(enc) /\ g[n] \in I[n]
    BY <1>2, <1>5, <2>1
  <2> HIDE DEF i
  <2>3. g[i] = EncodeByte(enc, g[n], s[i])
    BY <1>2, <2>1
  <2>4. EncodeByte(enc, g[n], s[i]) \in I[i]
    BY <2>1, <2>2 DEF Carries
  <2> QED BY <2>3, <2>4 DEF i
<1>6. Nat \subseteq N
  <2> HIDE DEF N
  <2> QED BY <1>4, <1>5, Induct
<1>7. g[Len(s)] \in I[Len(s)] /\ g[Len(s)] \in Encoder(enc)
  BY <1>2, <1>3, <1>6
<1> QED BY <1>1, <1>7

-----------------------------------------------------------------------------
(* What a flush leaves: an encoder that holds nothing back.                *)
LastGroup(f) == [i \in 1 .. 4 |-> IF i <= f.state + 1 THEN DigitOf(f.cache, i) ELSE EQ]

LEMMA ResetFacts ==
  ASSUME NEW f \in Coders
  PROVE  /\ Reset(f) \in Coders /\ Reset(f).state = 0 /\ Reset(f).cache = 0
         /\ Reset(f).column = 0 /\ Reset(f).out = f.out
         /\ \A enc : Reset(f) \in Encoder(enc)
<1> DEFINE x == Reset(f)
<1>1. x \in Coders /\ x.state = 0 /\ x.cache = 0 /\ x.column = 0 /\ x.out = f.out
  <2>1. 0 \in 0 .. 3 /\ 0 \in Nat
    OBVIOUS
  <2>2. x \in Coders
    BY <2>1 DEF Reset, Coders
  <2>3. x.state = 0
    BY DEF Reset, Coders
  <2>4. x.cache = 0
    BY DEF Reset, Coders
  <2>5. x.column = 0
    BY DEF Reset, Coders
  <2>6. x.out = f.out
    BY DEF Reset, Coders
  <2> QED BY <2>2, <2>3, <2>4, <2>5, <2>6
<1> HIDE DEF x
<1>2. HoldsGroup(x)
  BY SMT, <1>1 DEF HoldsGroup
<1>3. \A enc : x \in Encoder(enc)
  BY SMT, <1>1, <1>2, Widths DEF Encoder, Byte
<1> QED BY <1>1, <1>3 DEF x

LEMMA LastFacts ==
  ASSUME NEW f \in Coders
  PROVE  /\ LastGroup(f) \in Seq(Byte) /\ Len(LastGroup(f)) = 4
         /\ \A i \in 1 .. 4 : LastGroup(f)[i] = IF i <= f.state + 1 THEN Digits(f.cache)[i] ELSE EQ
<1>1. f.cache \in Nat
  BY DEF Coders
<1>2. ASSUME NEW i \in 1 .. 4
      PROVE  DigitOf(f.cache, i) \in Byte /\ Digits(f.cache)[i] = DigitOf(f.cache, i)
  <2> DEFINE n == (f.cache \div Weight[i]) % 64
  <2>1. /\ DigitOf(f.cache, i) = Digit(n) /\ n \in 0 .. 63
        /\ Digits(f.cache)[i] = DigitOf(f.cache, i)
    BY <1>1, DigitsFacts
  <2> HIDE DEF n
  <2> QED BY <2>1, DigitOfFacts
<1>3. LastGroup(f) \in [1 .. 4 -> Byte]
  BY <1>2, ByteFacts DEF LastGroup
<1>4. LastGroup(f) \in Seq(Byte) /\ Len(LastGroup(f)) = 4
  BY <1>3, FunctionIsSeq
<1> QED BY <1>2, <1>4 DEF LastGroup

LEMMA FlushIs ==
  ASSUME NEW enc \in {"base64", "quoted-printable"}, NEW f \in Encoder(enc),
         NEW x, x = FlushEncoder(enc, f)
  PROVE  /\ x \in Encoder(enc) /\ x \in Coders
         /\ x.state = 0 /\ x.cache = 0 /\ x.column = 0
         /\ enc = "base64" =>
              x.out = f.out \o (IF f.state = 0 THEN << >> ELSE LineBreak(f) \o LastGroup(f))
         /\ enc = "quoted-printable" => x.out = EncodeQuoted(f, NUL).out
<1>1. f \in Coders
  BY DEF Encoder
<1>2. CASE enc = "base64"
  <2> DEFINE bytes == IF f.state = 0 THEN << >> ELSE LineBreak(f) \o LastGroup(f)
             y == Emit(f, bytes)
  <2>1. bytes \in Seq(Byte)
    BY <1>1, BreakFacts, LastFacts, ByteFacts, ConcatProperties
  <2>2. x = Reset(y)
    BY <1>2 DEF FlushEncoder, FlushBase64, LastGroup
  <2> HIDE DEF bytes
  <2>3. y \in Coders /\ y.out = f.out \o bytes
    BY <1>1, <2>1, EmitFacts, ByteFacts DEF Emit, Coders
  <2> HIDE DEF y
  <2> QED BY <1>2, <2>2, <2>3, ResetFacts DEF bytes
<1>3. CASE enc = "quoted-printable"
  <2> DEFINE y == EncodeQuoted(f, NUL)
  <2>1. y \in Coders
    BY <1>3, EncodeQuotedFacts, ByteFacts DEF Encoder
  <2>2. x = Reset(y)
    BY <1>3 DEF FlushEncoder, FlushQuoted
  <2> HIDE DEF y
  <2> QED BY <1>3, <2>1, <2>2, ResetFacts DEF y
<1> QED BY <1>2, <1>3

LEMMA BytesTyped ==
  ASSUME NEW enc \in {"base64", "quoted-printable"},
         NEW f \in Encoder(enc), NEW s \in Seq(Byte)
  PROVE  EncodeBytes(enc, f, s) \in Encoder(enc)
<1>1. PICK g : EncodesOver(enc, f, s, g) /\ EncodeBytes(enc, f, s) = g[Len(s)]
  BY EncodeRun
<1>2. Len(s) \in 0 .. Len(s)
  BY LenProperties
<1> QED BY <1>1, <1>2 DEF EncodesOver

-----------------------------------------------------------------------------
(* What is read of the source.                                             *)
LEMMA NextLineFacts ==
  ASSUME NEW s \in Seq(Byte), s # << >>
  PROVE  \E n \in 1 .. Len(s) :
           /\ NextLine(s) = SubSeq(s, 1, n) /\ n <= BufSize - 1
           /\ \A i \in 1 .. n - 1 : s[i] # LF
           /\ s[n] = LF \/ n = Len(s) \/ n = BufSize - 1
<1> DEFINE ends == {i \in DOMAIN s : s[i] = LF} \cup {Len(s), BufSize - 1}
           n == Min(ends)
<1>1. Len(s) \in Nat /\ Len(s) > 0 /\ DOMAIN s = 1 .. Len(s)
  BY LenProperties, EmptySeq
<1>2. BufSize - 1 \in Nat /\ BufSize - 1 > 0
  BY SizesAssumption
<1>3. ends \in SUBSET Nat /\ ends # {} /\ \A i \in ends : i > 0
  BY <1>1, <1>2
<1>4. n \in ends /\ n \in Nat /\ \A i \in ends : n <= i
  BY <1>3, MinFacts
<1>5. NextLine(s) = SubSeq(s, 1, n)
  BY DEF NextLine
<1>6. s[n] = LF \/ n = Len(s) \/ n = BufSize - 1
  BY <1>4
<1>7. n \in Nat /\ n <= Len(s) /\ n <= BufSize - 1 /\ n > 0
  BY <1>3, <1>4
<1>8. ASSUME NEW i \in 1 .. n - 1 PROVE s[i] # LF
  <2>1. i \in DOMAIN s /\ i < n
    BY <1>1, <1>4, <1>7
  <2>2. i \in Nat /\ ~(n <= i)
    BY <1>4, <2>1
  <2> QED BY <1>4, <2>1, <2>2
<1> HIDE DEF n, ends
<1>9. n \in 1 .. Len(s)
  BY <1>1, <1>7
<1> QED BY <1>5, <1>6, <1>7, <1>8, <1>9

LEMMA UpToNulFacts ==
  ASSUME NEW s \in Seq(Byte)
  PROVE  \E m \in 0 .. Len(s) :
           /\ UpToNul(s) = SubSeq(s, 1, m)
           /\ \A i \in 1 .. m : s[i] # NUL
           /\ NUL \notin ToSet(s) => m = Len(s)
<1> DEFINE E == {i - 1 : i \in {j \in DOMAIN s : s[j] = NUL}} \cup {Len(s)}
           m == Min(E)
<1>1. Len(s) \in Nat /\ DOMAIN s = 1 .. Len(s)
  BY LenProperties
<1>2. E \in SUBSET Nat /\ Len(s) \in E
  BY <1>1
<1>3. m \in E /\ m \in Nat /\ \A i \in E : m <= i
  BY <1>2, MinFacts
<1>4. UpToNul(s) = SubSeq(s, 1, m)
  BY DEF UpToNul
<1>5. NUL \notin ToSet(s) => E = {Len(s)}
  BY DEF ToSet
<1>6. ASSUME NEW i \in 1 .. m PROVE s[i] # NUL
  <2> SUFFICES ASSUME s[i] = NUL PROVE FALSE
    OBVIOUS
  <2>1. m <= Len(s)
    BY <1>2, <1>3
  <2>2. i \in DOMAIN s
    BY <1>1, <1>3, <2>1
  <2>3. i - 1 \in E
    BY <2>2
  <2>4. m <= i - 1 /\ i <= m /\ i \in Nat
    BY <1>3, <2>3
  <2> HIDE DEF m
  <2> QED BY <1>3, <2>4
<1>7. m \in Nat /\ m <= Len(s)
  BY <1>2, <1>3
<1>8. NUL \notin ToSet(s) => m = Len(s)
  BY <1>3, <1>5
<1> HIDE DEF m, E
<1>9. m \in 0 .. Len(s)
  BY <1>1, <1>7
<1> QED BY <1>4, <1>6, <1>8, <1>9

LEMMA SubFacts ==
  ASSUME NEW S, NEW s \in Seq(S), NEW a \in 0 .. Len(s), NEW b \in a .. Len(s)
  PROVE  /\ SubSeq(s, a + 1, b) \in Seq(S) /\ Len(SubSeq(s, a + 1, b)) = b - a
         /\ \A i \in 1 .. b - a : SubSeq(s, a + 1, b)[i] = s[a + i]
<1>1. Len(s) \in Nat /\ s \in [1 .. Len(s) -> S]
  BY LenProperties
<1> DEFINE m == a + 1
<1>2. m \in Int /\ b \in Int /\ (\A i \in m .. b : s[i] \in S)
  BY <1>1
<1>3. /\ (IF m <= b THEN b - m + 1 ELSE 0) = b - a /\ b - m + 1 = b - a
      /\ \A i \in 1 .. b - a : m + i - 1 = a + i
  BY <1>1
<1> HIDE DEF m
<1>4. /\ SubSeq(s, m, b) \in Seq(S)
      /\ Len(SubSeq(s, m, b)) = IF m <= b THEN b - m + 1 ELSE 0
      /\ \A i \in 1 .. b - m + 1 : SubSeq(s, m, b)[i] = s[m + i - 1]
  BY <1>2, SubSeqProperties
<1> QED BY <1>3, <1>4 DEF m

LEMMA SubOfSub ==
  ASSUME NEW S, NEW s \in Seq(S), NEW a \in 0 .. Len(s), NEW b \in a .. Len(s),
         NEW c \in 0 .. b - a, NEW d \in c .. b - a
  PROVE  SubSeq(SubSeq(s, a + 1, b), c + 1, d) = SubSeq(s, (a + c) + 1, a + d)
<1> DEFINE t == SubSeq(s, a + 1, b)
           u == SubSeq(t, c + 1, d)
           v == SubSeq(s, (a + c) + 1, a + d)
<1>1. Len(s) \in Nat
  BY LenProperties
<1>2. t \in Seq(S) /\ Len(t) = b - a /\ \A i \in 1 .. b - a : t[i] = s[a + i]
  BY SubFacts
<1>3. a + c \in 0 .. Len(s) /\ a + d \in (a + c) .. Len(s) /\ (a + d) - (a + c) = d - c
  BY <1>1
<1>4. /\ v \in Seq(S) /\ Len(v) = d - c
      /\ \A i \in 1 .. d - c : v[i] = s[(a + c) + i]
  <2> DEFINE x == a + c
             y == a + d
  <2>1. x \in 0 .. Len(s) /\ y \in x .. Len(s) /\ y - x = d - c
    BY <1>3
  <2> HIDE DEF x, y
  <2>2. /\ SubSeq(s, x + 1, y) \in Seq(S) /\ Len(SubSeq(s, x + 1, y)) = y - x
        /\ \A i \in 1 .. y - x : SubSeq(s, x + 1, y)[i] = s[x + i]
    BY <2>1, SubFacts
  <2> QED BY <2>1, <2>2 DEF x, y
<1> HIDE DEF t
<1>5. c \in 0 .. Len(t) /\ d \in c .. Len(t)
  BY <1>1, <1>2
<1>6. u \in Seq(S) /\ Len(u) = d - c /\ \A i \in 1 .. d - c : u[i] = t[c + i]
  BY <1>2, <1>5, SubFacts
<1> HIDE DEF u, v
<1>7. ASSUME NEW i \in 1 .. d - c PROVE u[i] = v[i]
  <2>1. c + i \in 1 .. b - a /\ a + (c + i) = (a + c) + i
    BY <1>1
  <2>2. u[i] = t[c + i] /\ t[c + i] = s[a + (c + i)] /\ v[i] = s[(a + c) + i]
    BY <1>2, <1>4, <1>6, <2>1
  <2> QED BY <2>1, <2>2
<1>8. u = v
  BY <1>4, <1>6, <1>7, SeqEqual
<1> QED BY <1>8 DEF t, u, v

(* A round of the quoted-printable loop takes n bytes and encodes m.       *)
Takes(n, m) ==
  /\ n \in 1 .. Len(src) - pos /\ m \in 0 .. n
  /\ Len(NextLine(Rest)) = n
  /\ UpToNul(NextLine(Rest)) = SubSeq(src, pos + 1, pos + m)
  /\ \A i \in 1 .. n - 1 : src[pos + i] # LF
  /\ src[pos + n] = LF \/ pos + n = Len(src) \/ n = BufSize - 1
  /\ \A i \in 1 .. m : src[pos + i] # NUL
  /\ NUL \notin ToSet(src) => m = n

LEMMA LineRead ==
  ASSUME src \in Seq(Byte), pos \in 0 .. Len(src), pos < Len(src)
  PROVE  \E n, m : Takes(n, m)
<1> DEFINE s == Rest
           L == Len(src)
<1>1. L \in Nat /\ pos \in Nat /\ L - pos \in Nat /\ L - pos > 0
      /\ src \in [1 .. L -> Byte] /\ DOMAIN src = 1 .. L
  BY LenProperties
<1>2. L \in pos .. L
  BY <1>1
<1>3. s \in Seq(Byte) /\ Len(s) = L - pos /\ \A i \in 1 .. L - pos : s[i] = src[pos + i]
  BY <1>2, SubFacts DEF Rest
<1>4. s # << >>
  BY <1>1, <1>3, EmptySeq
<1>5. PICK n \in 1 .. Len(s) :
           /\ NextLine(s) = SubSeq(s, 1, n) /\ n <= BufSize - 1
           /\ \A i \in 1 .. n - 1 : s[i] # LF
           /\ s[n] = LF \/ n = Len(s) \/ n = BufSize - 1
  BY <1>3, <1>4, NextLineFacts
<1> DEFINE line == NextLine(s)
<1>6. n \in Nat /\ n >= 1 /\ n <= L - pos /\ n \in 1 .. L - pos
  <2> DEFINE r == L - pos
  <2>0. Len(s) = r
    BY <1>3
  <2>. n \in 1 .. Len(s)
    BY <1>5
  <2>. r \in Nat
    BY <1>1
  <2> HIDE DEF r, s
  <2>1. n \in 1 .. r /\ r \in Nat
    BY <2>0
  <2>2. n \in Nat /\ n >= 1 /\ n <= r /\ n \in 1 .. r
    BY <2>1
  <2> QED BY <2>2 DEF r
<1>7. line = SubSeq(src, pos + 1, pos + n)
  <2>1. 0 \in 0 .. L - pos /\ n \in 0 .. L - pos /\ pos + 0 = pos
    BY <1>1, <1>6
  <2>2. SubSeq(SubSeq(src, pos + 1, L), 0 + 1, n) = SubSeq(src, (pos + 0) + 1, pos + n)
    BY <1>2, <2>1, SubOfSub
  <2> HIDE DEF L
  <2>3. 0 + 1 = 1
    OBVIOUS
  <2> QED BY <1>5, <2>1, <2>2, <2>3 DEF Rest, L
<1>8. /\ line \in Seq(Byte) /\ Len(line) = n
      /\ \A i \in 1 .. n : line[i] = src[pos + i]
  <2> DEFINE b == pos + n
  <2>1. b \in pos .. Len(src) /\ b - pos = n
    BY <1>1, <1>6
  <2> HIDE DEF b
  <2>2. /\ SubSeq(src, pos + 1, b) \in Seq(Byte) /\ Len(SubSeq(src, pos + 1, b)) = b - pos
        /\ \A i \in 1 .. b - pos : SubSeq(src, pos + 1, b)[i] = src[pos + i]
    BY <2>1, SubFacts
  <2> HIDE DEF line
  <2> QED BY <1>7, <2>1, <2>2 DEF b
<1> HIDE DEF line
<1>9. PICK m \in 0 .. Len(line) :
           /\ UpToNul(line) = SubSeq(line, 1, m)
           /\ \A i \in 1 .. m : line[i] # NUL
           /\ NUL \notin ToSet(line) => m = Len(line)
  BY <1>8, UpToNulFacts
<1>10. m \in 0 .. n /\ m \in Nat /\ m <= n
  BY <1>6, <1>8, <1>9
<1>11. UpToNul(line) = SubSeq(src, pos + 1, pos + m)
  <2> DEFINE b == pos + n
  <2>1. b \in pos .. Len(src) /\ b - pos = n
    BY <1>1, <1>6
  <2>2. 0 \in 0 .. n /\ m \in 0 .. n /\ pos + 0 = pos
    BY <1>1, <1>6, <1>10
  <2> HIDE DEF b
  <2>3. SubSeq(SubSeq(src, pos + 1, b), 0 + 1, m) = SubSeq(src, (pos + 0) + 1, pos + m)
    BY <2>1, <2>2, SubOfSub
  <2>4. 0 + 1 = 1
    OBVIOUS
  <2> QED BY <1>7, <1>9, <2>2, <2>3, <2>4 DEF b
<1>12. ASSUME NEW i \in 1 .. n - 1 PROVE src[pos + i] # LF
  <2>1. i \in 1 .. L - pos
    BY <1>1, <1>6
  <2>2. s[i] = src[pos + i]
    BY <1>3, <2>1
  <2>3. s[i] # LF
    BY <1>5
  <2> QED BY <2>2, <2>3
<1>13. src[pos + n] = LF \/ pos + n = Len(src) \/ n = BufSize - 1
  <2>1. s[n] = src[pos + n]
    BY <1>3, <1>6
  <2>2. CASE s[n] = LF
    BY <2>1, <2>2
  <2>3. CASE n = Len(s)
    <3>1. n = L - pos
      BY <1>3, <2>3
    <3> HIDE DEF s
    <3>2. pos + n = L
      BY <1>1, <3>1
    <3> QED BY <3>2
  <2>4. CASE n = BufSize - 1
    BY <2>4
  <2> QED BY <1>5, <2>2, <2>3, <2>4
<1>14. \A i \in 1 .. m : src[pos + i] # NUL
  <2> SUFFICES ASSUME NEW i \in 1 .. m PROVE src[pos + i] # NUL
    OBVIOUS
  <2>1. i \in 1 .. n
    BY <1>10
  <2> QED BY <1>8, <1>9, <2>1
<1>15. NUL \notin ToSet(src) => m = n
  <2> SUFFICES ASSUME NUL \in ToSet(line) PROVE NUL \in ToSet(src)
    BY <1>8, <1>9
  <2>1. PICK i \in DOMAIN line : line[i] = NUL
    BY DEF ToSet
  <2>2. i \in 1 .. n
    BY <1>8, <2>1, LenProperties
  <2>3. pos + i \in DOMAIN src /\ src[pos + i] = NUL
    BY <1>1, <1>6, <1>8, <2>1, <2>2
  <2> QED BY <2>3 DEF ToSet
<1>16. Takes(n, m)
  BY <1>6, <1>8, <1>10, <1>11, <1>12, <1>13, <1>14, <1>15 DEF Takes, line
<1> QED BY <1>16

-----------------------------------------------------------------------------
(* The steps of the loops, in terms of the bytes of the source that they   *)
(* give to the encoder.                                                    *)
LEMMA PrefixIs ==
  ASSUME NEW p \in Seq(Byte), NEW t \in Seq(Byte)
  PROVE  IsPrefix(p, t) = (Len(p) <= Len(t) /\ \A i \in 1 .. Len(p) : p[i] = t[i])
<1>1. Len(p) \in Nat /\ Len(t) \in Nat
  BY LenProperties
<1> SUFFICES ASSUME Len(p) <= Len(t)
             PROVE  (SubSeq(p, 1, Len(p)) = SubSeq(t, 1, Len(p)))
                      = (\A i \in 1 .. Len(p) : p[i] = t[i])
  BY DEF IsPrefix
<1> DEFINE n == Len(p)
           u == SubSeq(t, 0 + 1, n)
<1>2. 0 \in 0 .. Len(t) /\ n \in 0 .. Len(t) /\ n - 0 = n /\ 0 + 1 = 1
  BY <1>1
<1>3. SubSeq(p, 1, n) = p
  BY <1>1, SubSeqProperties
<1>4. u \in Seq(Byte) /\ Len(u) = n - 0 /\ \A i \in 1 .. n - 0 : u[i] = t[0 + i]
  BY <1>2, SubFacts
<1>5. Len(u) = n /\ \A i \in 1 .. n : u[i] = t[i]
  BY <1>1, <1>2, <1>4
<1>6. SubSeq(t, 1, n) = u
  BY <1>2
<1> HIDE DEF u
<1>7. (\A i \in 1 .. n : p[i] = u[i]) => p = u
  BY <1>4, <1>5, SeqEqual
<1> QED BY <1>3, <1>5, <1>6, <1>7

Typed ==
  /\ src \in Seq(Byte) /\ encoding \in Requested
  /\ pos \in 0 .. Len(src) /\ filter \in Encoder(encoding)
  /\ seen \in Seq(Byte) /\ status \in {"reading", "done", "crashed", "overrun"}

IsFrom(s, a) == \A i \in 1 .. 5 : s[a + i] = From[i]

(* A round of the quoted-printable loop that escapes e bytes, none or the  *)
(* five of "From ", and encodes the rest.                                  *)
Start(e) == IF e = 0 THEN filter ELSE Escape
Round(n, m, e) ==
  /\ Takes(n, m) /\ e \in {0, 5} /\ e <= m
  /\ (e = 5) = (m >= 5 /\ IsFrom(src, pos))
  /\ filter' = EncodeBytes(encoding, Start(e), SubSeq(src, (pos + e) + 1, pos + m))
  /\ pos' = pos + n
  /\ seen' = seen \o SubSeq(src, pos + 1, pos + m)

LEMMA FromFacts ==
  /\ From \in Seq(Byte) /\ Len(From) = 5
  /\ From[1] = 70 /\ From[2] = 114 /\ From[3] = 111 /\ From[4] = 109 /\ From[5] = SP
  /\ EscapedFrom \in Seq(Byte) /\ Len(EscapedFrom) = 7
  /\ EscapedFrom = <<EQ, 52, 54>> \o <<114, 111, 109, SP>>
<1>1. {70, 114, 111, 109, 52, 54, SP, EQ} \subseteq Byte
  BY SMT DEF SP, EQ, Byte
<1>2. From \in Seq(Byte) /\ Len(From) = 5
  BY <1>1 DEF From
<1>3. From[1] = 70 /\ From[2] = 114 /\ From[3] = 111 /\ From[4] = 109 /\ From[5] = SP
  BY DEF From
<1>4. EscapedFrom \in Seq(Byte) /\ Len(EscapedFrom) = 7
  BY <1>1 DEF EscapedFrom
<1>5. EscapedFrom = <<EQ, 52, 54>> \o <<114, 111, 109, SP>>
  BY DEF EscapedFrom
<1> QED BY <1>2, <1>3, <1>4, <1>5

LEMMA RoundIs ==
  ASSUME Typed, FeedLine
  PROVE  \E n, m, e : Round(n, m, e)
<1>1. /\ src \in Seq(Byte) /\ pos \in 0 .. Len(src) /\ pos < Len(src)
      /\ encoding = "quoted-printable" /\ Len(src) \in Nat
  BY LenProperties DEF Typed, FeedLine
<1>2. PICK n, m : Takes(n, m)
  BY <1>1, LineRead
<1> DEFINE line == NextLine(Rest)
           text == UpToNul(line)
           b == pos + m
<1>3. /\ Len(line) = n /\ text = SubSeq(src, pos + 1, b)
      /\ n \in 1 .. Len(src) - pos /\ m \in 0 .. n
  BY <1>2 DEF Takes
<1>4. /\ pos \in Nat /\ n \in Nat /\ m \in Nat /\ n <= Len(src) - pos /\ m <= n
      /\ b \in pos .. Len(src) /\ b - pos = m
  BY <1>1, <1>3
<1>5. pos' = pos + n /\ seen' = seen \o SubSeq(src, pos + 1, pos + m)
  <2>1. seen' = seen \o text
    BY DEF FeedLine
  <2> QED BY <1>3, <2>1 DEF FeedLine
<1>6. filter' = IF BeginsFrom(text)
                THEN EncodeBytes(encoding, Escape, SubSeq(text, 6, Len(text)))
                ELSE EncodeBytes(encoding, filter, text)
  BY DEF FeedLine
<1> HIDE DEF line, b
<1>7. /\ SubSeq(src, pos + 1, b) \in Seq(Byte) /\ Len(SubSeq(src, pos + 1, b)) = b - pos
      /\ \A i \in 1 .. b - pos : SubSeq(src, pos + 1, b)[i] = src[pos + i]
  BY <1>1, <1>4, SubFacts
<1>8. text \in Seq(Byte) /\ Len(text) = m /\ \A i \in 1 .. m : text[i] = src[pos + i]
  BY <1>3, <1>4, <1>7
<1> HIDE DEF text
<1>9. BeginsFrom(text) = (m >= 5 /\ IsFrom(src, pos))
  <2>0. /\ From \in Seq(Byte) /\ Len(From) = 5
    BY FromFacts
  <2>1. IsPrefix(From, text) = (Len(From) <= Len(text) /\ \A i \in 1 .. Len(From) : From[i] = text[i])
    BY <1>8, <2>0, PrefixIs
  <2>3. BeginsFrom(text) = (5 <= m /\ \A i \in 1 .. 5 : From[i] = text[i])
    BY <1>8, <2>0, <2>1 DEF BeginsFrom
  <2>2. ASSUME 5 <= m, NEW i \in 1 .. 5 PROVE text[i] = src[pos + i]
    <3>1. i \in 1 .. m
      BY <1>4, <2>2
    <3> QED BY <1>8, <3>1
  <2>4. m >= 5 <=> 5 <= m
    BY <1>4
  <2> QED BY <2>2, <2>3, <2>4 DEF IsFrom
<1>10. CASE BeginsFrom(text)
  <2>1. m >= 5
    BY <1>9, <1>10
  <2>2. 5 \in 0 .. m /\ m \in 5 .. m
    BY <1>4, <2>1
  <2>3. SubSeq(SubSeq(src, pos + 1, b), 5 + 1, m) = SubSeq(src, (pos + 5) + 1, pos + m)
    BY <1>1, <1>4, <2>2, SubOfSub
  <2>4. SubSeq(text, 6, Len(text)) = SubSeq(src, (pos + 5) + 1, pos + m)
    <3>1. 5 + 1 = 6
      OBVIOUS
    <3> QED BY <1>3, <1>8, <2>3, <3>1
  <2>5. filter' = EncodeBytes(encoding, Start(5), SubSeq(src, (pos + 5) + 1, pos + m))
    <3>1. Start(5) = Escape
      BY DEF Start
    <3> QED BY <1>6, <1>10, <2>4, <3>1
  <2>6. Round(n, m, 5)
    <3>1. m >= 5 /\ IsFrom(src, pos)
      BY <1>9, <1>10
    <3>2. 5 <= m
      BY <1>4, <2>1
    <3> QED BY <1>2, <1>5, <2>5, <3>1, <3>2 DEF Round
  <2> QED BY <2>6
<1>11. CASE ~BeginsFrom(text)
  <2>1. text = SubSeq(src, (pos + 0) + 1, pos + m)
    <3>1. pos + 0 = pos
      BY <1>4
    <3> QED BY <1>3, <3>1 DEF b
  <2>2. filter' = EncodeBytes(encoding, Start(0), SubSeq(src, (pos + 0) + 1, pos + m))
    BY <1>6, <1>11, <2>1 DEF Start
  <2>3. Round(n, m, 0)
    <3>1. ~(m >= 5 /\ IsFrom(src, pos))
      BY <1>9, <1>11
    <3>2. 0 <= m
      BY <1>4
    <3> QED BY <1>2, <1>5, <2>2, <3>1, <3>2 DEF Round
  <2> QED BY <2>3
<1> QED BY <1>10, <1>11

LEMMA BlockIs ==
  ASSUME Typed, NEW n \in 1 .. BufSize, FeedBlock(n)
  PROVE  /\ pos + n \in pos .. Len(src)
         /\ seen' = seen \o SubSeq(src, pos + 1, pos + n)
         /\ filter' = EncodeBytes(encoding, filter, SubSeq(src, pos + 1, pos + n))
<1>1. /\ src \in Seq(Byte) /\ pos \in 0 .. Len(src) /\ Len(src) \in Nat
      /\ pos + n <= Len(src) /\ n \in Nat
  BY LenProperties, SizesAssumption DEF Typed, FeedBlock
<1>2. pos + n \in pos .. Len(src)
  BY <1>1
<1>3. Len(src) \in pos .. Len(src) /\ 0 \in 0 .. Len(src) - pos /\ n \in 0 .. Len(src) - pos
      /\ pos + 0 = pos /\ 0 + 1 = 1
  BY <1>1
<1>4. SubSeq(SubSeq(src, pos + 1, Len(src)), 0 + 1, n) = SubSeq(src, (pos + 0) + 1, pos + n)
  BY <1>1, <1>3, SubOfSub
<1>5. SubSeq(Rest, 1, n) = SubSeq(src, pos + 1, pos + n)
  BY <1>3, <1>4 DEF Rest
<1> QED BY <1>2, <1>5 DEF FeedBlock

LEMMA ErrorIs ==
  ASSUME ReadError
  PROVE  /\ encoding = "base64" /\ status' = "overrun" /\ UNCHANGED <<src, encoding, pos>>
         /\ \E t \in Seq(Byte) :
              /\ filter' = EncodeBytes(encoding, filter, SubSeq(t, 0 + 1, Len(t)))
              /\ seen' = seen \o t
<1>1. PICK t \in Memory : filter' = EncodeBytes(encoding, filter, t) /\ seen' = seen \o t
  BY DEF ReadError
<1>2. t \in Seq(Byte)
  BY MemoryAssumption
<1>3. SubSeq(t, 0 + 1, Len(t)) = t
  <2>1. 0 + 1 = 1 /\ SubSeq(t, 1, Len(t)) = t
    BY <1>2, SubSeqProperties
  <2> QED BY <2>1
<1> QED BY <1>1, <1>2, <1>3 DEF ReadError

(* What holds of the encoder when it has had a bytes of a text, and keeps  *)
(* holding for each further one, holds when it has had b.                  *)
CarriesFrom(enc, s, a, b, I) ==
  \A i \in a + 1 .. b : \A x \in Encoder(enc) :
    x \in I[i - 1] => EncodeByte(enc, x, s[i]) \in I[i]

LEMMA PartInduct ==
  ASSUME NEW enc \in {"base64", "quoted-printable"}, NEW s \in Seq(Byte),
         NEW a \in 0 .. Len(s), NEW b \in a .. Len(s),
         NEW f \in Encoder(enc), NEW I, f \in I[a], CarriesFrom(enc, s, a, b, I)
  PROVE  /\ EncodeBytes(enc, f, SubSeq(s, a + 1, b)) \in Encoder(enc)
         /\ EncodeBytes(enc, f, SubSeq(s, a + 1, b)) \in I[b]
<1> DEFINE t == SubSeq(s, a + 1, b)
           n == b - a
           J == [i \in 0 .. n |-> I[a + i]]
<1>1. Len(s) \in Nat /\ a \in Nat /\ b \in Nat /\ n \in Nat /\ a + n = b /\ a + 0 = a
  BY LenProperties
<1>2. t \in Seq(Byte) /\ Len(t) = n /\ \A i \in 1 .. n : t[i] = s[a + i]
  BY SubFacts
<1>3. 0 \in 0 .. n /\ n \in 0 .. n /\ J[0] = I[a] /\ J[n] = I[b]
  BY <1>1
<1>4. ASSUME NEW i \in 1 .. n, NEW x \in Encoder(enc), x \in J[i - 1]
      PROVE  EncodeByte(enc, x, t[i]) \in J[i]
  <2> DEFINE k == a + i
  <2>1. /\ k \in a + 1 .. b /\ k - 1 = a + (i - 1)
        /\ i - 1 \in 0 .. n /\ i \in 0 .. n
    BY <1>1
  <2>2. J[i - 1] = I[k - 1] /\ J[i] = I[k] /\ t[i] = s[k]
    BY <1>2, <2>1
  <2> HIDE DEF k, J, t
  <2> QED BY <1>4, <2>1, <2>2 DEF CarriesFrom
<1> HIDE DEF t, J
<1>5. Carries(enc, t, J)
  <2> HIDE DEF n
  <2> QED BY <1>2, <1>4 DEF Carries
<1>6. EncodeBytes(enc, f, t) \in Encoder(enc) /\ EncodeBytes(enc, f, t) \in J[Len(t)]
  BY <1>2, <1>3, <1>5, EncodeInduct
<1> QED BY <1>2, <1>3, <1>6 DEF t

LEMMA EscapeFacts ==
  ASSUME Typed, encoding = "quoted-printable"
  PROVE  /\ Escape \in Encoder(encoding) /\ Escape.state = 0 /\ Escape.column = 0
         /\ Escape.out = FlushEncoder(encoding, filter).out \o EscapedFrom
<1> DEFINE x == FlushEncoder(encoding, filter)
           y == Emit(x, EscapedFrom)
<1>1. filter \in Encoder(encoding)
  BY DEF Typed
<1>2. x \in Coders /\ x.state = 0 /\ x.cache = 0 /\ x.column = 0
  BY <1>1, FlushIs
<1> HIDE DEF x
<1>3. y \in Coders /\ y.state = 0 /\ y.cache = 0
  <2>1. EscapedFrom \in Seq(Byte) /\ << >> \in Seq(Byte)
    BY FromFacts, ByteFacts
  <2> QED BY <1>2, <2>1, EmitFacts
<1>4. y.column = 0 /\ y.out = x.out \o EscapedFrom
  BY <1>2 DEF Emit, Coders
<1> HIDE DEF y
<1>5. y \in Encoder(encoding)
  BY SMT, <1>3, <1>4, Widths DEF Encoder, Byte
<1>6. y = Escape
  BY DEF Escape, x, y
<1> QED BY <1>3, <1>4, <1>5, <1>6 DEF x

LEMMA StartTyped ==
  ASSUME Typed, encoding = "quoted-printable", NEW e \in {0, 5}
  PROVE  Start(e) \in Encoder(encoding)
  BY EscapeFacts DEF Start, Typed

LEMMA FeedLineTyped ==
  ASSUME Typed, FeedLine
  PROVE  Typed'
<1>1. PICK n, m, e : Round(n, m, e)
  BY RoundIs
<1>2. /\ src \in Seq(Byte) /\ pos \in 0 .. Len(src) /\ Len(src) \in Nat
      /\ encoding = "quoted-printable"
  BY LenProperties DEF Typed, FeedLine
<1>3. /\ n \in 1 .. Len(src) - pos /\ m \in 0 .. n /\ e \in {0, 5} /\ e <= m
      /\ filter' = EncodeBytes(encoding, Start(e), SubSeq(src, (pos + e) + 1, pos + m))
      /\ pos' = pos + n
  BY <1>1 DEF Round, Takes
<1> DEFINE a == pos + e
           b == pos + m
<1>4. a \in 0 .. Len(src) /\ b \in a .. Len(src) /\ pos + n \in 0 .. Len(src)
  BY <1>2, <1>3
<1> HIDE DEF a, b
<1>5. SubSeq(src, a + 1, b) \in Seq(Byte)
  BY <1>2, <1>4, SubFacts
<1>6. filter' \in Encoder(encoding)
  BY <1>2, <1>3, <1>5, StartTyped, BytesTyped DEF a, b
<1>7. seen' \in Seq(Byte)
  <2>1. seen' = seen \o SubSeq(src, pos + 1, b)
    BY <1>1 DEF Round, b
  <2>2. b \in pos .. Len(src) /\ seen \in Seq(Byte)
    <3>1. b \in Nat /\ pos <= b /\ b <= Len(src)
      BY <1>2, <1>3, <1>4 DEF b
    <3> QED BY <1>2, <3>1 DEF Typed
  <2>3. SubSeq(src, pos + 1, b) \in Seq(Byte)
    BY <1>2, <2>2, SubFacts
  <2> QED BY <2>1, <2>2, <2>3, ConcatProperties
<1> QED BY <1>3, <1>4, <1>6, <1>7 DEF Typed, FeedLine

LEMMA FilterFacts ==
  ASSUME NEW enc
  PROVE  /\ Filter \in Encoder(enc) /\ Filter.state = 0 /\ Filter.column = 0
         /\ Filter.out = << >>
<1>1. Filter \in Coders
  BY ByteFacts DEF Filter, Coders
<1>2. Filter.state = 0 /\ Filter.cache = 0 /\ Filter.column = 0 /\ Filter.out = << >>
  BY DEF Filter
<1>3. HoldsGroup(Filter)
  BY SMT, <1>2 DEF HoldsGroup
<1>4. 0 \in Byte
  BY DEF Byte
<1> QED BY SMT, <1>1, <1>2, <1>3, <1>4, Widths DEF Encoder

LEMMA InitTyped ==
  ASSUME Init
  PROVE  Typed
<1>1. src \in Seq(Byte)
  BY SourcesAssumption DEF Init
<1>2. Len(src) \in Nat /\ pos = 0
  BY <1>1, LenProperties DEF Init
<1>3. filter \in Encoder(encoding)
  BY FilterFacts DEF Init
<1> QED BY <1>1, <1>2, <1>3 DEF Typed, Init

LEMMA NextTyped ==
  ASSUME Typed, Next
  PROVE  Typed'
<1>1. CASE FeedLine
  BY <1>1, FeedLineTyped
<1>2. CASE \E n \in 1 .. BufSize : FeedBlock(n)
  <2>1. PICK n \in 1 .. BufSize : FeedBlock(n)
    BY <1>2
  <2>2. /\ encoding = "base64" /\ src \in Seq(Byte) /\ pos \in 0 .. Len(src)
        /\ filter \in Encoder(encoding) /\ pos' = pos + n
        /\ UNCHANGED <<src, encoding, status>> /\ Len(src) \in Nat
    BY <2>1, LenProperties DEF FeedBlock, Typed
  <2> DEFINE b == pos + n
  <2>3. /\ b \in pos .. Len(src) /\ seen' = seen \o SubSeq(src, pos + 1, b)
        /\ filter' = EncodeBytes(encoding, filter, SubSeq(src, pos + 1, b))
    BY <2>1, BlockIs
  <2>4. pos' = b
    BY <2>2
  <2> HIDE DEF b
  <2>5. SubSeq(src, pos + 1, b) \in Seq(Byte)
    BY <2>2, <2>3, SubFacts
  <2>6. filter' \in Encoder(encoding)
    BY <2>2, <2>3, <2>5, BytesTyped
  <2>7. pos' \in 0 .. Len(src)
    BY <2>2, <2>3, <2>4
  <2>8. seen' \in Seq(Byte)
    BY <2>3, <2>5, ConcatProperties DEF Typed
  <2> QED BY <2>2, <2>6, <2>7, <2>8 DEF Typed
<1>3. CASE Finish
  <2>1. filter' \in Encoder(encoding)
    BY <1>3, FlushIs DEF Finish, HasFilter, Typed
  <2> QED BY <1>3, <2>1 DEF Finish, Typed
<1>4. CASE NoFilter
  BY <1>4 DEF NoFilter, Typed
<1>5. CASE ReadError
  <2>1. /\ encoding = "base64" /\ status' = "overrun" /\ UNCHANGED <<src, encoding, pos>>
    BY <1>5, ErrorIs
  <2>2. PICK t \in Seq(Byte) :
          /\ filter' = EncodeBytes(encoding, filter, SubSeq(t, 0 + 1, Len(t)))
          /\ seen' = seen \o t
    BY <1>5, ErrorIs
  <2>3. SubSeq(t, 0 + 1, Len(t)) \in Seq(Byte)
    <3>1. 0 \in 0 .. Len(t) /\ Len(t) \in 0 .. Len(t)
      BY LenProperties
    <3> QED BY <3>1, SubFacts
  <2>4. filter' \in Encoder(encoding)
    BY <2>1, <2>2, <2>3, BytesTyped DEF Typed
  <2>5. seen' \in Seq(Byte)
    BY <2>2, ConcatProperties DEF Typed
  <2> QED BY <2>1, <2>4, <2>5 DEF Typed
<1> QED BY <1>1, <1>2, <1>3, <1>4, <1>5 DEF Next

LEMMA Stutters ==
  ASSUME UNCHANGED vars
  PROVE  UNCHANGED src /\ UNCHANGED encoding /\ UNCHANGED pos /\ UNCHANGED filter
         /\ UNCHANGED status /\ UNCHANGED seen
  BY DEF vars

THEOREM TypedAlways == Spec => []Typed
<1>1. Init => Typed
  BY InitTyped
<1>2. Typed /\ [Next \/ Returned]_vars => Typed'
  <2> SUFFICES ASSUME Typed, [Next \/ Returned]_vars PROVE Typed'
    OBVIOUS
  <2>1. CASE Next
    BY <2>1, NextTyped
  <2>2. CASE UNCHANGED vars
    BY <2>2, Stutters DEF Typed
  <2> QED BY <2>1, <2>2 DEF Returned
<1> QED BY <1>1, <1>2, PTL DEF Spec

LEMMA TypedMeans ==
  ASSUME Typed
  PROVE  TypeOK
<1>1. /\ filter \in Coders /\ filter.state <= 2 /\ filter.column <= Width + 4
      /\ filter.cache < 16777216
  BY SMT DEF Typed, Encoder
<1>2. /\ dest \in Seq(Byte) /\ filter.state \in 0 .. 3 /\ filter.cache \in Nat
      /\ filter.column \in Nat
  BY <1>1 DEF Coders, dest
<1>3. \A i \in DOMAIN dest : dest[i] \in Byte
  <2>1. dest \in [1 .. Len(dest) -> Byte]
    BY <1>2, LenProperties
  <2> QED BY <2>1
<1>4. filter.column \in 0 .. Width + 4
  BY <1>1, <1>2, Widths
<1> HIDE DEF dest
<1> QED BY SMT, <1>1, <1>2, <1>3, <1>4 DEF TypeOK, Typed

(* TypeOK: what the encoders keep stays in range, the column within the    *)
(* limit of a line (FlushBase64 and EncodeQuoted break it in time), for    *)
(* every width and every choice of reads.                                  *)
THEOREM EncoderTyped == Spec => []TypeOK
  BY TypedAlways, TypedMeans, PTL
-----------------------------------------------------------------------------
(* Encoded text: k begins an escape, i a line or what follows an escape, i *)
(* to e is a piece of a line, with the beginning of an escape in it.       *)
EscapeAt(o, k) == k \in 1 .. Len(o) /\ k + 6 <= Len(o)
                  /\ \A j \in 0 .. 6 : o[k + j] = EscapedFrom[j + 1]
Begins(o, i)   == \/ i = 1
                  \/ i - 1 \in 1 .. Len(o) /\ o[i - 1] = LF
                  \/ EscapeAt(o, i - 7)
NoLF(o, i, e)  == \A k \in i .. e : o[k] # LF
EscapeIn(o, i, e) == \E k \in i .. e : EscapeAt(o, k)

(* Lines are short enough up to their ends, or to the next escape; the     *)
(* last one, that goes on, is no longer than lim.                          *)
LinesAreShort(o) ==
  \A i \in 1 .. Len(o) : Begins(o, i) =>
    \A e \in i .. Len(o) : NoLF(o, i, e) /\ ~EscapeIn(o, i, e) /\ o[e] # CR =>
      e - i + 1 <= Width + 4
LastIsShort(o, lim) ==
  \A i \in 1 .. Len(o) : Begins(o, i) /\ NoLF(o, i, Len(o)) /\ ~EscapeIn(o, i, Len(o)) =>
    Len(o) - i + 1 <= lim
EndsArePairs(o) ==
  /\ \A i \in 1 .. Len(o) : o[i] = LF => i > 1 /\ o[i - 1] = CR
  /\ \A i \in 1 .. Len(o) : o[i] = CR => i < Len(o) /\ o[i + 1] = LF
Fits(o, lim) ==
  /\ \A i \in 1 .. Len(o) : o[i] < 128
  /\ EndsArePairs(o)
  /\ LinesAreShort(o)
  /\ LastIsShort(o, lim)

LEMMA ConcatIs ==
  ASSUME NEW o \in Seq(Byte), NEW b \in Seq(Byte)
  PROVE  /\ o \o b \in Seq(Byte) /\ Len(o \o b) = Len(o) + Len(b)
         /\ Len(o) \in Nat /\ Len(b) \in Nat
         /\ \A i \in 1 .. Len(o) : (o \o b)[i] = o[i]
         /\ \A i \in 1 .. Len(b) : (o \o b)[Len(o) + i] = b[i]
         /\ \A i \in Len(o) + 1 .. Len(o) + Len(b) :
              i - Len(o) \in 1 .. Len(b) /\ (o \o b)[i] = b[i - Len(o)]
<1> DEFINE p == o \o b
           L == Len(o)
           M == Len(b)
<1>1. L \in Nat /\ M \in Nat
  BY LenProperties
<1>2. /\ p \in Seq(Byte) /\ Len(p) = L + M
      /\ \A i \in 1 .. L + M : p[i] = IF i <= L THEN o[i] ELSE b[i - L]
  BY ConcatProperties
<1> HIDE DEF p, L, M
<1>3. ASSUME NEW i \in 1 .. L PROVE p[i] = o[i]
  BY <1>1, <1>2
<1>4. ASSUME NEW i \in L + 1 .. L + M PROVE i - L \in 1 .. M /\ p[i] = b[i - L]
  <2>1. i \in 1 .. L + M /\ ~(i <= L) /\ i - L \in 1 .. M
    BY <1>1
  <2> QED BY <1>2, <2>1
<1>5. ASSUME NEW i \in 1 .. M PROVE p[L + i] = b[i]
  <2> DEFINE k == L + i
  <2>1. k \in L + 1 .. L + M /\ k - L = i
    BY <1>1
  <2> HIDE DEF k
  <2> QED BY <1>4, <2>1 DEF k
<1> QED BY <1>1, <1>2, <1>3, <1>4, <1>5 DEF p, L, M

(* p has o in front; i to e is a piece of o.                               *)
Extends(o, p)     == Len(o) \in Nat /\ Len(p) \in Nat /\ Len(o) <= Len(p)
                     /\ \A k \in 1 .. Len(o) : p[k] = o[k]
PieceOf(o, i, e) == i \in 1 .. Len(o) + 1 /\ e \in 0 .. Len(o)

LEMMA EscapeStays ==
  ASSUME NEW o, NEW p, Extends(o, p), NEW k \in Int
  PROVE  /\ EscapeAt(o, k) => EscapeAt(p, k)
         /\ k + 6 <= Len(o) => EscapeAt(p, k) <=> EscapeAt(o, k)
<1>1. /\ Len(o) \in Nat /\ Len(p) \in Nat /\ Len(o) <= Len(p)
      /\ \A j \in 1 .. Len(o) : p[j] = o[j]
  BY DEF Extends
<1>2. ASSUME k >= 1, k + 6 <= Len(o) PROVE EscapeAt(p, k) <=> EscapeAt(o, k)
  <2>1. \A j \in 0 .. 6 : k + j \in 1 .. Len(o)
    BY <1>1, <1>2
  <2>2. \A j \in 0 .. 6 : p[k + j] = o[k + j]
    BY <1>1, <2>1
  <2>3. k \in 1 .. Len(o) /\ k \in 1 .. Len(p) /\ k + 6 <= Len(p)
    BY <1>1, <1>2
  <2> QED BY <1>2, <2>2, <2>3 DEF EscapeAt
<1>3. ~(k >= 1) => ~EscapeAt(p, k) /\ ~EscapeAt(o, k)
  BY <1>1 DEF EscapeAt
<1>4. EscapeAt(o, k) => k >= 1 /\ k + 6 <= Len(o)
  BY <1>1 DEF EscapeAt
<1> QED BY <1>2, <1>3, <1>4

LEMMA ExtendFacts ==
  ASSUME NEW o, NEW p, NEW i, NEW e, Extends(o, p), PieceOf(o, i, e)
  PROVE  /\ NoLF(p, i, e) = NoLF(o, i, e)
         /\ EscapeIn(o, i, e) => EscapeIn(p, i, e)
         /\ Begins(p, i) = Begins(o, i)
<1>1. /\ Len(o) \in Nat /\ Len(p) \in Nat /\ Len(o) <= Len(p)
      /\ i \in 1 .. Len(o) + 1 /\ e \in 0 .. Len(o)
      /\ \A k \in 1 .. Len(o) : p[k] = o[k]
  BY DEF Extends, PieceOf
<1>2. \A k \in i .. e : k \in 1 .. Len(o)
  BY <1>1
<1>3. NoLF(p, i, e) = NoLF(o, i, e)
  BY <1>1, <1>2 DEF NoLF
<1>4. ASSUME EscapeIn(o, i, e) PROVE EscapeIn(p, i, e)
  <2>1. PICK k \in i .. e : EscapeAt(o, k)
    BY <1>4 DEF EscapeIn
  <2>2. k \in Int
    BY <1>1
  <2> QED BY <2>1, <2>2, EscapeStays DEF EscapeIn
<1>5. Begins(p, i) = Begins(o, i)
  <2>1. i # 1 => i - 1 \in 1 .. Len(o) /\ i - 1 \in 1 .. Len(p)
    BY <1>1
  <2>2. i - 7 \in Int /\ (i - 7) + 6 <= Len(o)
    BY <1>1
  <2>3. EscapeAt(p, i - 7) <=> EscapeAt(o, i - 7)
    BY <2>2, EscapeStays
  <2> QED BY <1>1, <2>1, <2>3 DEF Begins
<1> QED BY <1>3, <1>4, <1>5

(* A stretch at the end of o is no longer than lim, or that of the text    *)
(* that o begins has an end or an escape in it.                            *)
LEMMA LastStretch ==
  ASSUME NEW o, NEW p, Extends(o, p), NEW lim, LastIsShort(o, lim),
         NEW i \in 1 .. Len(o), Begins(p, i), NEW e \in Len(o) .. Len(p),
         NoLF(p, i, e), ~EscapeIn(p, i, e)
  PROVE  Len(o) - i + 1 <= lim
<1> DEFINE L == Len(o)
<1>1. L \in Nat /\ Len(p) \in Nat /\ i \in 1 .. L /\ e \in Nat /\ L <= e
  BY DEF Extends
<1> HIDE DEF L
<1>2. PieceOf(o, i, L)
  <2>1. i \in 1 .. L + 1 /\ L \in 0 .. L
    BY <1>1
  <2> QED BY <2>1 DEF PieceOf, L
<1>3. \A k \in i .. L : k \in i .. e
  BY <1>1
<1>4. NoLF(p, i, L) /\ ~EscapeIn(p, i, L)
  BY <1>3 DEF NoLF, EscapeIn
<1>5. NoLF(o, i, L) /\ ~EscapeIn(o, i, L) /\ Begins(o, i)
  BY <1>2, <1>4, ExtendFacts
<1>6. NoLF(o, i, Len(o)) /\ ~EscapeIn(o, i, Len(o)) /\ Begins(o, i)
  BY <1>5 DEF L
<1> QED BY <1>6 DEF LastIsShort

(* A stretch that ends in o is as short as it was in o.                    *)
LEMMA InnerStretch ==
  ASSUME NEW o, NEW p, Extends(o, p), LinesAreShort(o),
         NEW i \in 1 .. Len(o), Begins(p, i), NEW e \in i .. Len(o),
         NoLF(p, i, e), ~EscapeIn(p, i, e), p[e] # CR
  PROVE  e - i + 1 <= Width + 4
<1>1. /\ Len(o) \in Nat /\ i \in 1 .. Len(o) + 1 /\ e \in 0 .. Len(o)
      /\ e \in 1 .. Len(o) /\ \A k \in 1 .. Len(o) : p[k] = o[k]
  BY DEF Extends
<1>2. PieceOf(o, i, e)
  BY <1>1 DEF PieceOf
<1>3. NoLF(o, i, e) /\ ~EscapeIn(o, i, e) /\ Begins(o, i) /\ o[e] # CR
  BY <1>1, <1>2, ExtendFacts
<1> QED BY <1>3 DEF LinesAreShort

(* Bytes that do not end a line make the last one longer.                  *)
Plain(b) == \A i \in 1 .. Len(b) : b[i] < 128 /\ b[i] # CR /\ b[i] # LF

LEMMA KeepsEnds ==
  ASSUME NEW o \in Seq(Byte), NEW b \in Seq(Byte),
         \A i \in 1 .. Len(o) : o[i] < 128, EndsArePairs(o), Plain(b), NEW p, p = o \o b
  PROVE  /\ \A i \in 1 .. Len(p) : p[i] < 128
         /\ EndsArePairs(p)
<1> DEFINE L == Len(o)
           M == Len(b)
<1>1. /\ L \in Nat /\ M \in Nat /\ Len(p) = L + M
      /\ \A i \in 1 .. L : p[i] = o[i]
      /\ \A i \in L + 1 .. L + M : i - L \in 1 .. M /\ p[i] = b[i - L]
  BY ConcatIs
<1>2. \A i \in 1 .. L + M : i \in 1 .. L \/ i \in L + 1 .. L + M
  BY <1>1
<1>3. \A i \in L + 1 .. L + M : p[i] < 128 /\ p[i] # CR /\ p[i] # LF
  BY <1>1 DEF Plain
<1>4. /\ \A i \in 1 .. L : o[i] < 128
      /\ \A i \in 1 .. L : o[i] = LF => i > 1 /\ o[i - 1] = CR
      /\ \A i \in 1 .. L : o[i] = CR => i < L /\ o[i + 1] = LF
  BY DEF EndsArePairs
<1> HIDE DEF L, M
<1>5. ASSUME NEW i \in 1 .. L + M PROVE p[i] < 128
  BY <1>1, <1>2, <1>3, <1>4
<1>6. ASSUME NEW i \in 1 .. L + M, p[i] = LF PROVE i > 1 /\ p[i - 1] = CR
  <2>1. i \in 1 .. L
    BY <1>2, <1>3, <1>6
  <2>2. i > 1 /\ o[i - 1] = CR
    BY <1>1, <1>4, <1>6, <2>1
  <2>3. i - 1 \in 1 .. L
    BY <1>1, <2>1, <2>2
  <2> QED BY <1>1, <2>2, <2>3
<1>7. ASSUME NEW i \in 1 .. L + M, p[i] = CR PROVE i < L + M /\ p[i + 1] = LF
  <2>1. i \in 1 .. L
    BY <1>2, <1>3, <1>7
  <2>2. i < L /\ o[i + 1] = LF
    BY <1>1, <1>4, <1>7, <2>1
  <2>3. i + 1 \in 1 .. L /\ i < L + M
    BY <1>1, <2>1, <2>2
  <2> QED BY <1>1, <2>2, <2>3
<1> QED BY <1>1, <1>5, <1>6, <1>7 DEF EndsArePairs

LEMMA AddPlain ==
  ASSUME NEW o \in Seq(Byte), NEW b \in Seq(Byte), NEW lim \in Nat,
         Fits(o, lim), Plain(b), lim + Len(b) <= Width + 4
  PROVE  Fits(o \o b, lim + Len(b))
<1> DEFINE p == o \o b
           L == Len(o)
           M == Len(b)
<1>1. /\ L \in Nat /\ M \in Nat /\ Len(p) = L + M
      /\ \A i \in 1 .. L : p[i] = o[i]
      /\ \A i \in L + 1 .. L + M : i - L \in 1 .. M /\ p[i] = b[i - L]
  BY ConcatIs
<1>2. (\A i \in 1 .. Len(p) : p[i] < 128) /\ EndsArePairs(p)
  BY KeepsEnds DEF Fits
<1>3. Extends(o, p)
  <2>1. Len(o) \in Nat /\ Len(p) \in Nat /\ Len(o) <= Len(p)
    BY <1>1
  <2> QED BY <1>1, <2>1 DEF Extends
<1>4. \A i \in L + 1 .. L + M : p[i] # LF
  BY <1>1 DEF Plain
<1>5. lim + M <= Width + 4 /\ Width \in Nat /\ LinesAreShort(o) /\ LastIsShort(o, lim)
  BY Widths DEF Fits
<1> HIDE DEF p
<1>6. ASSUME NEW i \in 1 .. L + M, Begins(p, i), i > L
      PROVE  i <= L + M /\ (L + M) - i + 1 <= M
  BY <1>1, <1>6
<1>7. ASSUME NEW i \in 1 .. L + M, Begins(p, i), NEW e \in i .. L + M, e >= L,
             NoLF(p, i, e), ~EscapeIn(p, i, e)
      PROVE  e - i + 1 <= lim + (e - L)
  <2>1. CASE i > L
    <3>1. i \in Nat /\ e \in Nat /\ L \in Nat
      BY <1>1
    <3> QED BY <2>1, <3>1
  <2>2. CASE ~(i > L)
    <3>1. i \in 1 .. Len(o) /\ e \in Len(o) .. Len(p)
      BY <1>1, <1>7, <2>2
    <3>2. Len(o) - i + 1 <= lim
      BY <1>3, <1>5, <1>7, <3>1, LastStretch
    <3> QED BY <1>1, <3>2
  <2> QED BY <2>1, <2>2
<1>8. ASSUME NEW i \in 1 .. L + M, Begins(p, i), NEW e \in i .. L + M,
             NoLF(p, i, e), ~EscapeIn(p, i, e), p[e] # CR
      PROVE  e - i + 1 <= Width + 4
  <2>1. CASE e >= L
    <3>1. e - i + 1 <= lim + (e - L)
      BY <1>7, <1>8, <2>1
    <3> QED BY <1>1, <1>5, <3>1
  <2>2. CASE ~(e >= L)
    <3>1. i \in 1 .. Len(o) /\ e \in i .. Len(o)
      BY <1>1, <2>2
    <3> QED BY <1>3, <1>5, <1>8, <3>1, InnerStretch
  <2> QED BY <2>1, <2>2
<1>9. ASSUME NEW i \in 1 .. L + M, Begins(p, i), NoLF(p, i, L + M), ~EscapeIn(p, i, L + M)
      PROVE  (L + M) - i + 1 <= lim + M
  <2>1. L + M \in i .. L + M /\ L + M >= L /\ (L + M) - L = M
    BY <1>1
  <2> QED BY <1>7, <1>9, <2>1
<1>10. LinesAreShort(p)
  BY <1>1, <1>8 DEF LinesAreShort
<1>11. LastIsShort(p, lim + M)
  BY <1>1, <1>9 DEF LastIsShort
<1> QED BY <1>2, <1>10, <1>11 DEF Fits, p

(* No escape begins within another: only its first byte is an equals sign. *)
LEMMA NoOverlap ==
  ASSUME NEW p, NEW k \in Int, EscapeAt(p, k), NEW j \in Int, EscapeAt(p, j)
  PROVE  ~(j < k /\ k <= j + 6)
<1> SUFFICES ASSUME j < k, k <= j + 6 PROVE FALSE
  OBVIOUS
<1>1. k - j \in 1 .. 6 /\ k - j \in 0 .. 6 /\ j + (k - j) = k
  OBVIOUS
<1> DEFINE d == k - j
<1>2. p[j + d] = EscapedFrom[d + 1] /\ j + d = k /\ d \in 1 .. 6
  BY <1>1 DEF EscapeAt
<1> HIDE DEF d
<1>3. p[k + 0] = EscapedFrom[0 + 1]
  BY DEF EscapeAt
<1>4. p[k] = EscapedFrom[1]
  BY <1>3
<1>5. \A n \in 1 .. 6 : EscapedFrom[n + 1] # EscapedFrom[1]
  <2>1. /\ EscapedFrom[1] = 61 /\ EscapedFrom[2] = 52 /\ EscapedFrom[3] = 54
        /\ EscapedFrom[4] = 114 /\ EscapedFrom[5] = 111 /\ EscapedFrom[6] = 109
        /\ EscapedFrom[7] = 32
    BY DEF EscapedFrom, EQ, SP
  <2>2. \A n \in 1 .. 6 : n = 1 \/ n = 2 \/ n = 3 \/ n = 4 \/ n = 5 \/ n = 6
    OBVIOUS
  <2>3. /\ 1 + 1 = 2 /\ 2 + 1 = 3 /\ 3 + 1 = 4 /\ 4 + 1 = 5 /\ 5 + 1 = 6 /\ 6 + 1 = 7
    OBVIOUS
  <2> QED BY <2>1, <2>2, <2>3
<1> QED BY <1>2, <1>4, <1>5

LEMMA AddEscape ==
  ASSUME NEW o \in Seq(Byte), NEW lim \in Nat, Fits(o, lim)
  PROVE  Fits(o \o EscapedFrom, 0)
<1> DEFINE p == o \o EscapedFrom
           L == Len(o)
<1>1. EscapedFrom \in Seq(Byte) /\ Len(EscapedFrom) = 7
  BY FromFacts
<1>2. Plain(EscapedFrom)
  BY SMT DEF Plain, EscapedFrom, EQ, SP, CR, LF
<1>3. /\ L \in Nat /\ Len(p) = L + 7
      /\ \A i \in 1 .. L : p[i] = o[i]
      /\ \A i \in 1 .. 7 : p[L + i] = EscapedFrom[i]
      /\ (\A i \in 1 .. Len(p) : p[i] < 128) /\ EndsArePairs(p)
  <2> DEFINE b == EscapedFrom
  <2>1. b \in Seq(Byte) /\ Len(b) = 7 /\ Plain(b)
    BY <1>1, <1>2
  <2> HIDE DEF b
  <2>2. /\ Len(o) \in Nat /\ Len(o \o b) = Len(o) + Len(b)
        /\ \A i \in 1 .. Len(o) : (o \o b)[i] = o[i]
        /\ \A i \in 1 .. Len(b) : (o \o b)[Len(o) + i] = b[i]
    BY <2>1, ConcatIs
  <2>3. (\A i \in 1 .. Len(o \o b) : (o \o b)[i] < 128) /\ EndsArePairs(o \o b)
    BY <2>1, KeepsEnds DEF Fits
  <2> QED BY <2>1, <2>2, <2>3 DEF b
<1>4. Extends(o, p)
  <2>1. Len(o) \in Nat /\ Len(p) \in Nat /\ Len(o) <= Len(p)
    BY <1>3
  <2> QED BY <1>3, <2>1 DEF Extends
<1>5. LinesAreShort(o)
  BY DEF Fits
<1> HIDE DEF p, L
<1>6. EscapeAt(p, L + 1)
  <2>1. L + 1 \in 1 .. L + 7 /\ (L + 1) + 6 <= L + 7
    BY <1>3
  <2>2. ASSUME NEW j \in 0 .. 6 PROVE p[(L + 1) + j] = EscapedFrom[j + 1]
    <3>1. (L + 1) + j = L + (j + 1) /\ j + 1 \in 1 .. 7
      BY <1>3
    <3> QED BY <1>3, <3>1
  <2> QED BY <1>3, <2>1, <2>2 DEF EscapeAt
<1>7. ASSUME NEW i \in 1 .. L + 7, i > L + 1 PROVE ~Begins(p, i)
  <2>1. i # 1 /\ i - 1 \in L + 1 .. L + 6 /\ i - 7 < L + 1 /\ L + 1 <= (i - 7) + 6
        /\ i - 7 \in Int /\ L + 1 \in Int
    BY <1>3, <1>7
  <2>2. ~EscapeAt(p, i - 7)
    BY <1>6, <2>1, NoOverlap
  <2>3. p[i - 1] # LF
    <3>1. (i - 1) - L \in 1 .. 7 /\ L + ((i - 1) - L) = i - 1
      BY <1>3, <2>1
    <3>2. p[i - 1] = EscapedFrom[(i - 1) - L]
      BY <1>3, <3>1
    <3> QED BY <1>1, <1>2, <3>1, <3>2 DEF Plain
  <2> QED BY <2>1, <2>2, <2>3 DEF Begins
<1>8. ASSUME NEW i \in 1 .. L + 1, NEW e \in L + 1 .. L + 7 PROVE EscapeIn(p, i, e)
  <2>1. L + 1 \in i .. e
    BY <1>3
  <2> QED BY <1>6, <2>1 DEF EscapeIn
<1>9. ASSUME NEW i \in 1 .. L + 7, Begins(p, i), NEW e \in i .. L + 7,
             NoLF(p, i, e), ~EscapeIn(p, i, e)
      PROVE  e <= L
  <2>1. i \in 1 .. L + 1
    BY <1>3, <1>7, <1>9
  <2>2. ~(e <= L) => e \in L + 1 .. L + 7
    BY <1>3
  <2> QED BY <1>8, <1>9, <2>1, <2>2
<1>10. ASSUME NEW i \in 1 .. L + 7, Begins(p, i), NEW e \in i .. L + 7,
             NoLF(p, i, e), ~EscapeIn(p, i, e), p[e] # CR
      PROVE  e - i + 1 <= Width + 4
  <2>1. e <= L
    BY <1>9, <1>10
  <2>2. i \in 1 .. Len(o) /\ e \in i .. Len(o)
    BY <1>3, <2>1 DEF L
  <2> QED BY <1>4, <1>5, <1>10, <2>2, InnerStretch
<1>11. ASSUME NEW i \in 1 .. L + 7, Begins(p, i), NoLF(p, i, L + 7), ~EscapeIn(p, i, L + 7)
       PROVE  FALSE
  <2>1. L + 7 \in i .. L + 7 /\ ~(L + 7 <= L)
    BY <1>3
  <2> QED BY <1>9, <1>11, <2>1
<1>12. LinesAreShort(p)
  BY <1>3, <1>10 DEF LinesAreShort
<1>13. LastIsShort(p, 0)
  BY <1>3, <1>11 DEF LastIsShort
<1> QED BY <1>3, <1>12, <1>13 DEF Fits, p

LEMMA AddNewLine ==
  ASSUME NEW o \in Seq(Byte), NEW lim \in Nat, Fits(o, lim)
  PROVE  Fits(o \o NewLine, 0)
<1> DEFINE p == o \o NewLine
           L == Len(o)
<1>1. NewLine \in Seq(Byte) /\ Len(NewLine) = 2 /\ NewLine[1] = CR /\ NewLine[2] = LF
  BY ByteFacts DEF NewLine
<1>2. /\ L \in Nat /\ Len(p) = L + 2
      /\ \A i \in 1 .. L : p[i] = o[i]
      /\ \A i \in 1 .. 2 : p[L + i] = NewLine[i]
  <2> DEFINE b == NewLine
  <2>1. b \in Seq(Byte) /\ Len(b) = 2
    BY <1>1
  <2> HIDE DEF b
  <2>2. /\ Len(o) \in Nat /\ Len(o \o b) = Len(o) + Len(b)
        /\ \A i \in 1 .. Len(o) : (o \o b)[i] = o[i]
        /\ \A i \in 1 .. Len(b) : (o \o b)[Len(o) + i] = b[i]
    BY <2>1, ConcatIs
  <2> QED BY <2>1, <2>2 DEF b
<1>3. p[L + 1] = CR /\ p[L + 2] = LF
  BY <1>1, <1>2
<1>4. /\ \A i \in 1 .. L : o[i] < 128
      /\ \A i \in 1 .. L : o[i] = LF => i > 1 /\ o[i - 1] = CR
      /\ \A i \in 1 .. L : o[i] = CR => i < L /\ o[i + 1] = LF
      /\ LinesAreShort(o)
  BY DEF Fits, EndsArePairs
<1>5. \A i \in 1 .. L + 2 : i \in 1 .. L \/ i = L + 1 \/ i = L + 2
  BY <1>2
<1>6. CR < 128 /\ LF < 128 /\ CR # LF
  BY DEF CR, LF
<1>7. Extends(o, p)
  <2>1. Len(o) \in Nat /\ Len(p) \in Nat /\ Len(o) <= Len(p)
    BY <1>2
  <2> QED BY <1>2, <2>1 DEF Extends
<1> HIDE DEF p, L
<1>8. ASSUME NEW i \in 1 .. L + 2 PROVE p[i] < 128
  BY <1>2, <1>3, <1>4, <1>5, <1>6
<1>9. ASSUME NEW i \in 1 .. L + 2, p[i] = LF PROVE i > 1 /\ p[i - 1] = CR
  <2>1. CASE i \in 1 .. L
    <3>1. i > 1 /\ o[i - 1] = CR
      BY <1>2, <1>4, <1>9, <2>1
    <3>2. i - 1 \in 1 .. L
      BY <1>2, <2>1, <3>1
    <3> QED BY <1>2, <3>1, <3>2
  <2>2. CASE i = L + 2
    <3>1. i > 1 /\ i - 1 = L + 1
      BY <1>2, <2>2
    <3> QED BY <1>3, <3>1
  <2> QED BY <1>3, <1>5, <1>6, <1>9, <2>1, <2>2
<1>10. ASSUME NEW i \in 1 .. L + 2, p[i] = CR PROVE i < L + 2 /\ p[i + 1] = LF
  <2>1. CASE i \in 1 .. L
    <3>1. i < L /\ o[i + 1] = LF
      BY <1>2, <1>4, <1>10, <2>1
    <3>2. i + 1 \in 1 .. L /\ i < L + 2
      BY <1>2, <2>1, <3>1
    <3> QED BY <1>2, <3>1, <3>2
  <2>2. CASE i = L + 1
    <3>1. i < L + 2 /\ i + 1 = L + 2
      BY <1>2, <2>2
    <3> QED BY <1>3, <3>1
  <2> QED BY <1>3, <1>5, <1>6, <1>10, <2>1, <2>2
<1>11. ASSUME NEW i \in 1 .. L + 2, Begins(p, i), NEW e \in i .. L + 2,
              NoLF(p, i, e), ~EscapeIn(p, i, e), p[e] # CR
       PROVE  e - i + 1 <= Width + 4
  <2>1. e \in 1 .. L + 2 /\ e \in i .. e
    BY <1>2
  <2>2. e # L + 2
    BY <1>3, <1>11, <2>1 DEF NoLF
  <2>3. e \in 1 .. L
    BY <1>3, <1>5, <1>11, <2>1, <2>2
  <2>4. i \in 1 .. Len(o) /\ e \in i .. Len(o)
    BY <1>2, <2>3 DEF L
  <2> QED BY <1>4, <1>7, <1>11, <2>4, InnerStretch
<1>12. ASSUME NEW i \in 1 .. L + 2 PROVE ~NoLF(p, i, L + 2)
  <2>1. L + 2 \in i .. L + 2
    BY <1>2
  <2> QED BY <1>3, <2>1 DEF NoLF
<1>13. LinesAreShort(p)
  BY <1>2, <1>11 DEF LinesAreShort
<1>14. LastIsShort(p, 0)
  BY <1>2, <1>12 DEF LastIsShort
<1>15. EndsArePairs(p)
  BY <1>2, <1>9, <1>10 DEF EndsArePairs
<1> QED BY <1>2, <1>8, <1>13, <1>14, <1>15 DEF Fits, p
LEMMA PlainFacts ==
  /\ Plain(<<EQ>>)
  /\ \A n \in Nat : Plain(Digits(n))
  /\ \A f \in Coders : Plain(LastGroup(f))
  /\ \A c \in Byte \ {CR, LF} : Plain(Written(c))
<1>0. EQ < 128 /\ EQ # CR /\ EQ # LF
  BY DEF EQ, CR, LF
<1>1. Plain(<<EQ>>)
  BY <1>0 DEF Plain
<1>2. ASSUME NEW n \in Nat, NEW i \in 1 .. 4
      PROVE  Digits(n)[i] < 128 /\ Digits(n)[i] # CR /\ Digits(n)[i] # LF
  <2> DEFINE v == (n \div Weight[i]) % 64
  <2>1. Digits(n)[i] = Digit(v) /\ v \in 0 .. 63
    BY <1>2, DigitsFacts
  <2> HIDE DEF v
  <2>2. Digit(v) \in 0 .. 127 /\ Digit(v) \notin {CR, LF, EQ, NUL}
    BY <2>1, DigitOfFacts
  <2> QED BY <2>1, <2>2
<1>3. ASSUME NEW n \in Nat PROVE Plain(Digits(n))
  <2>1. Len(Digits(n)) = 4
    BY DigitsFacts
  <2> QED BY <1>2, <2>1 DEF Plain
<1>4. ASSUME NEW f \in Coders PROVE Plain(LastGroup(f))
  <2>1. /\ Len(LastGroup(f)) = 4
        /\ \A i \in 1 .. 4 : LastGroup(f)[i] = Digits(f.cache)[i] \/ LastGroup(f)[i] = EQ
    BY LastFacts
  <2>2. f.cache \in Nat
    BY DEF Coders
  <2> QED BY <1>0, <1>2, <2>1, <2>2 DEF Plain
<1>5. ASSUME NEW c \in Byte \ {CR, LF} PROVE Plain(Written(c))
  <2>1. CASE Quoted(c)
    <3> DEFINE a == c \div 16
               b == c % 16
    <3>1. a \in 0 .. 15 /\ b \in 0 .. 15 /\ Written(c) = <<EQ, HexDigit(a), HexDigit(b)>>
      BY <2>1, WrittenFacts
    <3> HIDE DEF a, b
    <3>2. \A n \in 0 .. 15 : HexDigit(n) < 128 /\ HexDigit(n) # CR /\ HexDigit(n) # LF
      BY DEF HexDigit, CR, LF
    <3> DEFINE x == HexDigit(a)
               y == HexDigit(b)
    <3>3. x < 128 /\ x # CR /\ x # LF /\ y < 128 /\ y # CR /\ y # LF
      BY <3>1, <3>2
    <3> HIDE DEF x, y
    <3>4. Written(c) = <<EQ, x, y>>
      BY <3>1 DEF x, y
    <3>5. Plain(<<EQ, x, y>>)
      BY <1>0, <3>3 DEF Plain
    <3> QED BY <3>4, <3>5
  <2>2. CASE ~Quoted(c)
    <3>1. Written(c) = <<c>> /\ c < 128 /\ c # CR /\ c # LF
      BY <2>2, WrittenFacts
    <3>2. Plain(<<c>>)
      BY <3>1 DEF Plain
    <3> QED BY <3>1, <3>2
  <2> QED BY <2>1, <2>2
<1> QED BY <1>1, <1>3, <1>4, <1>5

(* An encoder whose output fits for mail so far, with the line it is in no *)
(* longer than its column; a quoted-printable encoder holds no NUL, which  *)
(* would set the column back.                                              *)
Limit(enc) == Width + (IF enc = "base64" THEN 4 ELSE 2)
Mail(enc) ==
  {x \in Encoder(enc) : /\ Fits(x.out, x.column) /\ x.column <= Limit(enc)
                        /\ enc # "base64" /\ x.state = 1 => x.cache # NUL}

LEMMA Regroup ==
  ASSUME NEW a \in Seq(Byte), NEW b \in Seq(Byte), NEW c \in Seq(Byte)
  PROVE  a \o (b \o c) = (a \o b) \o c
  BY ConcatAssociative

LEMMA BrokenFits ==
  ASSUME NEW f \in Coders, Fits(f.out, f.column), f.column <= Width + 4,
         NEW b \in Seq(Byte), Len(b) = 4, Plain(b)
  PROVE  Fits(f.out \o (LineBreak(f) \o b), BaseColumn(f))
<1> DEFINE o == f.out
<1>1. o \in Seq(Byte) /\ f.column \in Nat /\ Width \in Nat
  BY Widths DEF Coders
<1>2. CASE f.column <= Width
  <2>1. LineBreak(f) = << >> /\ BaseColumn(f) = f.column + 4
    BY <1>1, <1>2, BreakFacts DEF BaseColumn
  <2>2. << >> \o b = b
    BY ConcatEmptySeq
  <2> HIDE DEF o
  <2>3. Fits(o, f.column)
    BY DEF o
  <2>4. Fits(o \o b, f.column + Len(b))
    <3>1. f.column + Len(b) <= Width + 4
      BY <1>1, <1>2
    <3> QED BY <1>1, <2>3, <3>1, AddPlain
  <2> QED BY <2>1, <2>2, <2>4 DEF o
<1>3. CASE ~(f.column <= Width)
  <2>1. LineBreak(f) = NewLine /\ BaseColumn(f) = 4
    BY <1>1, <1>3, BreakFacts DEF BaseColumn
  <2>2. NewLine \in Seq(Byte)
    BY ByteFacts
  <2> HIDE DEF o
  <2>3. Fits(o, f.column)
    BY DEF o
  <2>4. Fits(o \o NewLine, 0)
    BY <1>1, <2>3, AddNewLine
  <2>5. o \o NewLine \in Seq(Byte) /\ o \o (NewLine \o b) = (o \o NewLine) \o b
    <3>1. o \in Seq(Byte)
      BY <1>1
    <3>2. o \o NewLine \in Seq(Byte)
      BY <2>2, <3>1, ConcatProperties
    <3>3. o \o (NewLine \o b) = (o \o NewLine) \o b
      BY <2>2, <3>1, Regroup
    <3> QED BY <3>2, <3>3
  <2>6. Fits((o \o NewLine) \o b, 0 + Len(b))
    <3>1. 0 + Len(b) <= Width + 4
      BY <1>1
    <3> QED BY <2>4, <2>5, <3>1, AddPlain
  <2> QED BY <2>1, <2>5, <2>6 DEF o
<1> QED BY <1>2, <1>3

LEMMA MailBase64 ==
  ASSUME NEW f \in Mail("base64"), NEW c \in Byte
  PROVE  EncodeBase64(f, c) \in Mail("base64")
<1> DEFINE x == EncodeBase64(f, c)
<1>1. /\ f \in Encoder("base64") /\ f \in Coders /\ Fits(f.out, f.column)
      /\ f.column <= Width + 4 /\ f.state \in {0, 1, 2}
      /\ f.out \in Seq(Byte) /\ f.cache \in Nat /\ c \in Nat
  BY SMT DEF Mail, Encoder, Coders, Byte, Limit
<1>2. x \in Encoder("base64")
  BY <1>1, EncodeBase64Facts
<1>3. /\ f.state = 0 => Put(x, f, 1, c * 65536, f.column, << >>)
      /\ f.state = 1 => Put(x, f, 2, f.cache + c * 256, f.column, << >>)
      /\ f.state = 2 => Put(x, f, 0, f.cache, BaseColumn(f), LineBreak(f) \o Digits(f.cache + c))
  BY <1>1, EncodeBase64Is
<1> HIDE DEF x
<1>4. Fits(x.out, x.column)
  <2>1. f.out \o << >> = f.out
    BY <1>1, ConcatEmptySeq
  <2>2. CASE f.state = 0 \/ f.state = 1
    BY <1>1, <1>3, <2>1, <2>2 DEF Put
  <2>3. CASE f.state = 2
    <3> DEFINE b == Digits(f.cache + c)
    <3>1. f.cache + c \in Nat
      BY <1>1
    <3>2. b \in Seq(Byte) /\ Len(b) = 4 /\ Plain(b)
      BY <3>1, DigitsFacts, PlainFacts
    <3> HIDE DEF b
    <3>3. Fits(f.out \o (LineBreak(f) \o b), BaseColumn(f))
      BY <1>1, <3>2, BrokenFits
    <3>4. Put(x, f, 0, f.cache, BaseColumn(f), LineBreak(f) \o b)
      BY <1>3, <2>3 DEF b
    <3>5. x.out = f.out \o (LineBreak(f) \o b) /\ x.column = BaseColumn(f)
      BY <3>4 DEF Put
    <3> QED BY <3>3, <3>5
  <2> QED BY <1>1, <2>2, <2>3
<1>5. x.column <= Width + 4
  BY <1>2 DEF Encoder
<1> QED BY <1>2, <1>4, <1>5 DEF Mail, Limit, x

LEMMA MailQuoted ==
  ASSUME NEW f \in Mail("quoted-printable"), NEW c \in Byte
  PROVE  /\ Fits(EncodeQuoted(f, c).out, EncodeQuoted(f, c).column)
         /\ EncodeQuoted(f, c).column <= Width + 2
         /\ EncodeQuoted(f, c) \in Coders
<1> DEFINE x == EncodeQuoted(f, c)
           o == f.out
           col == f.column
<1>1. /\ f \in Encoder("quoted-printable") /\ f \in Coders /\ Fits(o, col)
      /\ col <= Width + 2 /\ f.state \in {0, 1} /\ (f.state = 1 => f.cache # NUL)
      /\ f.cache \in Byte
  BY DEF Mail, Encoder, Coders, Limit
<1>2. o \in Seq(Byte) /\ col \in Nat /\ Width \in Nat /\ Width > 0
  BY <1>1, Widths DEF Coders
<1>3. o \o << >> = o /\ NewLine \in Seq(Byte) /\ o \o NewLine \in Seq(Byte)
  BY <1>2, ByteFacts, ConcatEmptySeq, ConcatProperties
<1>4. /\ f.state = 0 => Put(x, f, 1, c, col, << >>)
      /\ f.state = 1 /\ (f.cache = LF \/ (f.cache = CR /\ c # LF)) => Put(x, f, 1, c, 0, NewLine)
      /\ f.state = 1 /\ f.cache = CR /\ c = LF => Put(x, f, 1, c, col, << >>)
      /\ f.state = 1 /\ f.cache \notin {NUL, LF, CR} =>
           Put(x, f, 1, c, QuotedColumn(f), SoftBreak(f) \o Written(f.cache))
  BY <1>1, EncodeQuotedIs
<1>5. x \in Coders
  BY <1>1, EncodeQuotedFacts DEF Encoder
<1> HIDE DEF x, o, col
<1>6. CASE Put(x, f, 1, c, col, << >>)
  BY <1>1, <1>2, <1>3, <1>5, <1>6 DEF Put, x, o
<1>7. CASE Put(x, f, 1, c, 0, NewLine)
  <2>1. Fits(o \o NewLine, 0)
    BY <1>1, <1>2, AddNewLine
  <2>2. x.out = o \o NewLine /\ x.column = 0
    BY <1>7 DEF Put, o
  <2>3. 0 <= Width + 2
    BY <1>2
  <2> QED BY <1>5, <2>1, <2>2, <2>3 DEF x
<1>8. CASE f.cache \notin {NUL, LF, CR} /\ Put(x, f, 1, c, QuotedColumn(f), SoftBreak(f) \o Written(f.cache))
  <2> DEFINE w == Written(f.cache)
             n == IF Quoted(f.cache) THEN 3 ELSE 1
  <2>1. w \in Seq(Byte) /\ Len(w) = n /\ Plain(w) /\ n \in {1, 3}
    BY <1>1, <1>8, WrittenFacts, PlainFacts
  <2>2. QuotedColumn(f) = (IF col >= Width THEN 0 ELSE col) + n
    BY DEF QuotedColumn, col
  <2>3. SoftBreak(f) = IF col >= Width THEN <<EQ>> \o NewLine ELSE << >>
    BY DEF SoftBreak, col
  <2>4. x.out = o \o (SoftBreak(f) \o w) /\ x.column = QuotedColumn(f)
    BY <1>8 DEF Put, o
  <2> HIDE DEF w, n
  <2>5. x.column <= Width + 2
    BY <1>2, <2>1, <2>2, <2>4
  <2>6. CASE col >= Width
    <3>1. <<EQ>> \in Seq(Byte) /\ Len(<<EQ>>) = 1 /\ Plain(<<EQ>>)
      BY ByteFacts, PlainFacts
    <3> DEFINE q == <<EQ>>
               o1 == o \o q
               o2 == o1 \o NewLine
    <3>q. q \in Seq(Byte) /\ Len(q) = 1 /\ Plain(q)
      BY <3>1
    <3> HIDE DEF q
    <3>2. o1 \in Seq(Byte) /\ o2 \in Seq(Byte)
      BY <1>2, <1>3, <3>q, ConcatProperties
    <3>3. o \o ((q \o NewLine) \o w) = o2 \o w
      <4>1. (q \o NewLine) \o w = q \o (NewLine \o w) /\ NewLine \o w \in Seq(Byte)
        BY <1>3, <2>1, <3>q, ConcatAssociative, ConcatProperties
      <4>2. o \o (q \o (NewLine \o w)) = o1 \o (NewLine \o w)
        BY <1>2, <3>q, <4>1, ConcatAssociative
      <4>3. o1 \o (NewLine \o w) = o2 \o w
        <5> HIDE DEF o1
        <5>1. o1 \in Seq(Byte) /\ NewLine \in Seq(Byte) /\ w \in Seq(Byte)
          BY <1>3, <2>1, <3>2
        <5> QED BY <5>1, ConcatAssociative
      <4> QED BY <4>1, <4>2, <4>3
    <3>4. Fits(o1, col + Len(q))
      <4>1. col + Len(q) <= Width + 4
        BY <1>1, <1>2, <3>q
      <4> QED BY <1>1, <1>2, <3>q, <4>1, AddPlain
    <3> DEFINE l == col + 1
    <3>5. l \in Nat /\ Fits(o1, l)
      BY <1>1, <1>2, <3>q, <3>4
    <3> HIDE DEF o1, l
    <3>6. Fits(o2, 0)
      BY <3>2, <3>5, AddNewLine
    <3> HIDE DEF o2
    <3>7. Fits(o2 \o w, 0 + Len(w))
      <4>1. 0 + Len(w) <= Width + 4
        BY <1>2, <2>1
      <4> QED BY <2>1, <3>2, <3>6, <4>1, AddPlain
    <3>8. x.out = o2 \o w /\ x.column = 0 + Len(w)
      BY <2>1, <2>2, <2>3, <2>4, <2>6, <3>3 DEF q
    <3> QED BY <1>5, <2>5, <3>7, <3>8 DEF x
  <2>7. CASE ~(col >= Width)
    <3>1. << >> \o w = w
      BY <2>1, ConcatEmptySeq
    <3>2. x.out = o \o w /\ x.column = col + Len(w)
      BY <2>1, <2>2, <2>3, <2>4, <2>7, <3>1
    <3>3. Fits(o \o w, col + Len(w))
      <4>1. col + Len(w) <= Width + 4
        BY <1>1, <1>2, <2>1, <2>7
      <4> QED BY <1>1, <1>2, <2>1, <4>1, AddPlain
    <3> QED BY <1>5, <2>5, <3>2, <3>3 DEF x
  <2> QED BY <2>6, <2>7
<1>9. \/ Put(x, f, 1, c, col, << >>)
      \/ Put(x, f, 1, c, 0, NewLine)
      \/ f.cache \notin {NUL, LF, CR} /\ Put(x, f, 1, c, QuotedColumn(f), SoftBreak(f) \o Written(f.cache))
  BY <1>1, <1>4
<1> QED BY <1>6, <1>7, <1>8, <1>9
LEMMA FitsWider ==
  ASSUME NEW o \in Seq(Byte), NEW a \in Nat, NEW b \in Nat, a <= b, Fits(o, a)
  PROVE  Fits(o, b)
<1>1. Len(o) \in Nat
  BY LenProperties
<1>2. LastIsShort(o, b)
  BY <1>1 DEF Fits, LastIsShort
<1> QED BY <1>2 DEF Fits

LEMMA EscapeSeen ==
  ASSUME NEW o \in Seq(Byte), NEW k \in 1 .. Len(o)
  PROVE  IsPrefix(EscapedFrom, SubSeq(o, k, Len(o))) <=> EscapeAt(o, k)
<1> DEFINE a == k - 1
           n == Len(o)
           t == SubSeq(o, a + 1, n)
           p == EscapedFrom
<1>1. n \in Nat /\ a \in 0 .. n /\ n \in a .. n /\ a + 1 = k
  BY LenProperties
<1>2. t \in Seq(Byte) /\ Len(t) = n - a /\ \A j \in 1 .. n - a : t[j] = o[a + j]
  BY <1>1, SubFacts
<1>3. p \in Seq(Byte) /\ Len(p) = 7
  BY FromFacts
<1>4. t = SubSeq(o, k, Len(o))
  BY <1>1
<1> HIDE DEF t, p, a, n
<1>5. IsPrefix(p, t) <=> (Len(p) <= Len(t) /\ \A j \in 1 .. Len(p) : p[j] = t[j])
  BY <1>2, <1>3, PrefixIs
<1>6. Len(p) <= Len(t) <=> k + 6 <= n
  BY <1>1, <1>2, <1>3
<1>7. ASSUME k + 6 <= n
      PROVE  (\A j \in 1 .. 7 : p[j] = t[j]) <=> \A j \in 0 .. 6 : o[k + j] = p[j + 1]
  <2>1. ASSUME NEW j \in 1 .. 7 PROVE t[j] = o[k + (j - 1)] /\ j - 1 \in 0 .. 6 /\ (j - 1) + 1 = j
    <3>1. j \in 1 .. n - a /\ a + j = k + (j - 1)
      BY <1>1, <1>7
    <3> QED BY <1>2, <3>1
  <2>2. ASSUME NEW j \in 0 .. 6 PROVE j + 1 \in 1 .. 7 /\ t[j + 1] = o[k + j]
    <3>1. j + 1 \in 1 .. 7 /\ (j + 1) - 1 = j
      OBVIOUS
    <3> QED BY <2>1, <3>1
  <2>3. ASSUME \A j \in 1 .. 7 : p[j] = t[j], NEW j \in 0 .. 6 PROVE o[k + j] = p[j + 1]
    BY <2>2, <2>3
  <2>4. ASSUME \A j \in 0 .. 6 : o[k + j] = p[j + 1], NEW j \in 1 .. 7 PROVE p[j] = t[j]
    BY <2>1, <2>4
  <2> QED BY <2>3, <2>4
<1>8. EscapeAt(o, k) <=> k + 6 <= n /\ \A j \in 0 .. 6 : o[k + j] = p[j + 1]
  BY DEF EscapeAt, n, p
<1>9. IsPrefix(p, t) <=> (7 <= Len(t) /\ \A j \in 1 .. 7 : p[j] = t[j])
  BY <1>3, <1>5
<1>10. 7 <= Len(t) <=> k + 6 <= n
  BY <1>3, <1>6
<1>11. IsPrefix(p, t) <=> EscapeAt(o, k)
  BY <1>7, <1>8, <1>9, <1>10
<1> QED BY <1>4, <1>11 DEF p, n

LEMMA EndIs ==
  ASSUME dest \in Seq(Byte), EndsArePairs(dest), NEW i \in Nat
  PROVE  /\ LineEnd(i) \in 0 .. Len(dest)
         /\ \A k \in 1 .. Len(dest) : k >= i /\ dest[k] = LF => LineEnd(i) <= k - 2
<1> DEFINE o == dest
           L == Len(o)
           marks == {k \in DOMAIN o : k >= i /\ o[k] = LF}
           ends == {j - 2 : j \in marks} \cup {L}
           n == Min(ends)
<1>1. L \in Nat /\ DOMAIN o = 1 .. L
  BY LenProperties
<1>2. \A j \in 1 .. L : o[j] = LF => j > 1
  BY DEF EndsArePairs
<1>3. LineEnd(i) = n
  BY DEF LineEnd
<1> HIDE DEF o, L
<1>4. ASSUME NEW j \in marks PROVE j - 2 \in Nat
  BY <1>1, <1>2
<1>5. ends \in SUBSET Nat /\ ends # {} /\ L \in ends
  BY <1>1, <1>4
<1>6. n \in Nat /\ \A x \in ends : n <= x
  BY <1>5, MinFacts
<1>7. ASSUME NEW k \in 1 .. L, k >= i, o[k] = LF PROVE n <= k - 2
  <2>1. k - 2 \in ends
    BY <1>1, <1>7
  <2> QED BY <1>6, <2>1
<1>8. n \in 0 .. L
  BY <1>1, <1>5, <1>6
<1> QED BY <1>3, <1>7, <1>8 DEF o, L

(* A stretch of FitForMail begins, has no end and no escape in it.         *)
LEMMA FitsMeans ==
  ASSUME dest \in Seq(Byte), Fits(dest, Width + 4)
  PROVE  FitForMail
<1> DEFINE o == dest
           L == Len(o)
<1>1. L \in Nat /\ DOMAIN o = 1 .. L /\ o \in Seq(Byte) /\ Width \in Nat
  BY LenProperties, Widths
<1>2. /\ \A i \in 1 .. L : o[i] < 128
      /\ \A i \in 1 .. L : o[i] = CR => i < L /\ o[i + 1] = LF
      /\ EndsArePairs(o) /\ LinesAreShort(o)
  BY DEF Fits, EndsArePairs
<1>3. EscapeStarts = {k \in 1 .. L : EscapeAt(o, k)}
  <2>1. ASSUME NEW k \in 1 .. L
        PROVE  IsPrefix(EscapedFrom, SubSeq(dest, k, Len(dest))) <=> EscapeAt(o, k)
    BY <1>1, EscapeSeen
  <2>2. EscapeStarts = {k \in 1 .. L : IsPrefix(EscapedFrom, SubSeq(dest, k, Len(dest)))}
    BY <1>1 DEF EscapeStarts
  <2> HIDE DEF o, L
  <2> QED BY <2>1, <2>2
<1>4. ASSUME NEW i \in LineStarts \cup EscapeEnds
      PROVE  Min({k - 1 : k \in {e \in EscapeStarts : e >= i}} \cup {LineEnd(i)}) - i < Width + 4
  <2> DEFINE marks == {e \in EscapeStarts : e >= i}
             ends == {k - 1 : k \in marks} \cup {LineEnd(i)}
             m == Min(ends)
  <2>1. i \in Nat /\ i >= 1 /\ i <= L + 1 /\ Begins(o, i)
    <3>1. CASE i = 1
      BY <1>1, <3>1 DEF Begins
    <3>2. CASE i # 1 /\ i \in LineStarts
      <4>1. PICK j \in DOMAIN dest : dest[j] = LF /\ i = j + 1
        BY <3>2 DEF LineStarts
      <4>2. j \in 1 .. L
        BY <1>1, <4>1
      <4> HIDE DEF L
      <4>3. i \in Nat /\ i >= 1 /\ i <= L + 1 /\ i - 1 = j
        BY <1>1, <4>1, <4>2
      <4> QED BY <4>1, <4>2, <4>3 DEF Begins, L
    <3>3. CASE i \in EscapeEnds
      <4>1. PICK k \in EscapeStarts : i = k + Len(EscapedFrom)
        BY <3>3 DEF EscapeEnds
      <4>2. k \in 1 .. L /\ EscapeAt(o, k) /\ i = k + 7
        <5> HIDE DEF o, L
        <5> QED BY <1>3, <4>1, FromFacts
      <4>3. k + 6 <= L
        BY <4>2 DEF EscapeAt
      <4> HIDE DEF o, L
      <4>4. i \in Nat /\ i >= 1 /\ i <= L + 1 /\ i - 7 = k
        BY <1>1, <4>2, <4>3
      <4> QED BY <4>2, <4>4 DEF Begins
    <3> QED BY <1>4, <3>1, <3>2, <3>3
  <2>2. LineEnd(i) \in 0 .. L /\ \A k \in 1 .. L : k >= i /\ o[k] = LF => LineEnd(i) <= k - 2
    BY <1>2, <2>1, EndIs
  <2> HIDE DEF o, L
  <2>3. ends \in SUBSET Nat /\ ends # {} /\ LineEnd(i) \in ends
    <3>1. \A k \in marks : k - 1 \in Nat
      BY <1>1, <1>3
    <3> QED BY <1>1, <2>2, <3>1
  <2>4. m \in Nat /\ \A x \in ends : m <= x
    BY <2>3, MinFacts
  <2>5. m <= LineEnd(i) /\ m <= L
    BY <1>1, <2>2, <2>3, <2>4
  <2>6. ASSUME NEW k \in 1 .. L, k >= i, EscapeAt(o, k) PROVE m <= k - 1
    <3>1. k - 1 \in ends
      BY <1>3, <2>6
    <3> QED BY <2>4, <3>1
  <2> HIDE DEF m, ends, marks
  <2>7. CASE ~(m >= i)
    <3>1. m - i < Width + 4
      BY <1>1, <2>1, <2>4, <2>7
    <3> QED BY <3>1 DEF m, ends, marks
  <2>8. CASE m >= i
    <3>1. m \in i .. L /\ i \in 1 .. L
      BY <1>1, <2>1, <2>4, <2>5, <2>8
    <3>2. NoLF(o, i, m)
      <4>1. ASSUME NEW k \in i .. m, o[k] = LF PROVE FALSE
        <5>1. k \in 1 .. L /\ k >= i /\ k <= m
          BY <1>1, <2>1, <2>5, <3>1
        <5>2. LineEnd(i) <= k - 2
          BY <2>2, <4>1, <5>1
        <5> QED BY <1>1, <2>2, <2>4, <2>5, <5>1, <5>2
      <4> QED BY <4>1 DEF NoLF
    <3>3. ~EscapeIn(o, i, m)
      <4>1. ASSUME NEW k \in i .. m, EscapeAt(o, k) PROVE FALSE
        <5>1. k \in 1 .. L /\ k >= i /\ k <= m
          BY <1>1, <2>1, <2>5, <3>1
        <5>2. m <= k - 1
          BY <2>6, <4>1, <5>1
        <5> QED BY <2>4, <5>1, <5>2
      <4> QED BY <4>1 DEF EscapeIn
    <3>4. o[m] # CR
      <4> SUFFICES ASSUME o[m] = CR PROVE FALSE
        OBVIOUS
      <4>1. m \in 1 .. L
        BY <1>1, <3>1
      <4>2. m < L /\ o[m + 1] = LF
        BY <1>2, <4>1
      <4>3. m + 1 \in 1 .. L /\ m + 1 >= i
        BY <1>1, <2>8, <4>1, <4>2, <2>1
      <4>4. LineEnd(i) <= (m + 1) - 2
        BY <2>2, <4>2, <4>3
      <4> QED BY <2>2, <2>4, <2>5, <4>4
    <3>5. m - i + 1 <= Width + 4
      BY <1>2, <2>1, <3>1, <3>2, <3>3, <3>4 DEF LinesAreShort, L
    <3>6. m - i < Width + 4
      BY <1>1, <2>1, <2>4, <3>5
    <3> QED BY <3>6 DEF m, ends, marks
  <2> QED BY <2>7, <2>8
<1>5. \A i \in DOMAIN dest : dest[i] < 128
  BY <1>1, <1>2
<1> QED BY <1>4, <1>5 DEF FitForMail
LEMMA MailFilter ==
  ASSUME NEW enc
  PROVE  Filter \in Mail(enc)
<1>1. /\ Filter \in Encoder(enc) /\ Filter.state = 0 /\ Filter.column = 0
      /\ Filter.out = << >>
  BY FilterFacts
<1>2. Fits(<< >>, 0)
  <2>1. Len(<< >>) = 0
    OBVIOUS
  <2>2. \A i \in 1 .. Len(<< >>) : FALSE
    BY <2>1
  <2> QED BY <2>2 DEF Fits, EndsArePairs, LinesAreShort, LastIsShort
<1>3. 0 <= Limit(enc)
  BY Widths DEF Limit
<1> HIDE DEF Filter
<1> QED BY <1>1, <1>2, <1>3 DEF Mail, Filter

(* What is flushed is the end of a line that fits.                         *)
LEMMA FlushFits ==
  ASSUME NEW enc \in {"base64", "quoted-printable"}, NEW f \in Mail(enc)
  PROVE  Fits(FlushEncoder(enc, f).out, Width + 4)
<1> DEFINE x == FlushEncoder(enc, f)
<1>1. /\ f \in Encoder(enc) /\ f \in Coders /\ Fits(f.out, f.column)
      /\ f.out \in Seq(Byte) /\ f.column \in Nat /\ Width \in Nat /\ Width + 4 \in Nat
      /\ f.column <= Limit(enc)
  BY Widths DEF Mail, Encoder, Coders
<1>2. CASE enc = "base64"
  <2>1. x.out = f.out \o (IF f.state = 0 THEN << >> ELSE LineBreak(f) \o LastGroup(f))
    BY <1>1, <1>2, FlushIs
  <2> HIDE DEF x
  <2>2. f.column <= Width + 4
    BY <1>1, <1>2 DEF Limit
  <2>3. CASE f.state = 0
    <3>1. x.out = f.out
      BY <1>1, <2>1, <2>3, ConcatEmptySeq
    <3>2. Fits(f.out, Width + 4)
      BY <1>1, <2>2, FitsWider
    <3> QED BY <3>1, <3>2 DEF x
  <2>4. CASE f.state # 0
    <3> DEFINE b == LastGroup(f)
               o == f.out \o (LineBreak(f) \o b)
    <3>1. b \in Seq(Byte) /\ Len(b) = 4 /\ Plain(b)
      BY <1>1, LastFacts, PlainFacts
    <3> HIDE DEF b
    <3>2. Fits(o, BaseColumn(f))
      BY <1>1, <2>2, <3>1, BrokenFits
    <3>3. o \in Seq(Byte)
      <4>1. LineBreak(f) \in Seq(Byte)
        BY <1>1, BreakFacts, ByteFacts
      <4> QED BY <1>1, <3>1, <4>1, ConcatProperties
    <3>4. BaseColumn(f) \in Nat /\ BaseColumn(f) <= Width + 4
      BY <1>1, BreakFacts
    <3>5. x.out = o
      BY <2>1, <2>4 DEF b
    <3> HIDE DEF o
    <3>6. Fits(o, Width + 4)
      BY <1>1, <3>2, <3>3, <3>4, FitsWider
    <3> QED BY <3>5, <3>6 DEF x
  <2> QED BY <2>3, <2>4
<1>3. CASE enc = "quoted-printable"
  <2> DEFINE y == EncodeQuoted(f, NUL)
  <2>1. x.out = y.out
    BY <1>1, <1>3, FlushIs
  <2>2. Fits(y.out, y.column) /\ y.column <= Width + 2 /\ y \in Coders
    BY <1>3, MailQuoted, ByteFacts
  <2> HIDE DEF x, y
  <2>3. y.out \in Seq(Byte) /\ y.column \in Nat /\ y.column <= Width + 4
    BY <1>1, <2>2 DEF Coders
  <2>4. Fits(y.out, Width + 4)
    BY <1>1, <2>2, <2>3, FitsWider
  <2> QED BY <2>1, <2>4 DEF x
<1> QED BY <1>2, <1>3

LEMMA StartMail ==
  ASSUME Typed, encoding = "quoted-printable", filter \in Mail(encoding), NEW e \in {0, 5}
  PROVE  Start(e) \in Mail(encoding)
<1>1. Escape \in Mail(encoding)
  <2> DEFINE x == FlushEncoder(encoding, filter)
             y == Escape
  <2>1. y \in Encoder(encoding) /\ y.state = 0 /\ y.column = 0 /\ y.out = x.out \o EscapedFrom
    BY EscapeFacts
  <2>2. filter \in Encoder(encoding)
    BY DEF Typed
  <2>3. x \in Coders
    BY <2>2, FlushIs
  <2>4. Fits(x.out, Width + 4)
    BY FlushFits
  <2> HIDE DEF x, y
  <2>5. x.out \in Seq(Byte) /\ Width + 4 \in Nat /\ 0 <= Limit(encoding)
    BY <2>3, Widths DEF Coders, Limit
  <2>6. Fits(x.out \o EscapedFrom, 0)
    BY <2>4, <2>5, AddEscape
  <2>7. /\ Fits(y.out, y.column) /\ y.column <= Limit(encoding)
        /\ encoding # "base64" /\ y.state = 1 => y.cache # NUL
    BY <2>1, <2>5, <2>6
  <2>8. y \in Mail(encoding)
    BY <2>1, <2>7 DEF Mail
  <2> QED BY <2>8 DEF y
<1> QED BY <1>1 DEF Start

LEMMA MailByte ==
  ASSUME NEW enc \in {"base64", "quoted-printable"}, NEW f \in Mail(enc),
         NEW c \in Byte, enc # "base64" => c # NUL
  PROVE  EncodeByte(enc, f, c) \in Mail(enc)
<1>1. CASE enc = "base64"
  BY <1>1, MailBase64 DEF EncodeByte
<1>2. CASE enc = "quoted-printable"
  <2> DEFINE x == EncodeQuoted(f, c)
  <2>1. x \in Encoder("quoted-printable") /\ x.state = 1 /\ x.cache = c
    BY <1>2, EncodeQuotedFacts DEF Mail
  <2>2. Fits(x.out, x.column) /\ x.column <= Width + 2
    BY <1>2, MailQuoted
  <2>3. EncodeByte(enc, f, c) = x
    BY <1>2 DEF EncodeByte
  <2> HIDE DEF x
  <2>4. x \in Mail("quoted-printable")
    BY <1>2, <2>1, <2>2 DEF Mail, Limit
  <2> QED BY <1>2, <2>3, <2>4
<1> QED BY <1>1, <1>2

(* Bytes of the source that are no NULs keep the encoder so.               *)
LEMMA MailPart ==
  ASSUME NEW enc \in {"base64", "quoted-printable"}, NEW s \in Seq(Byte),
         NEW a \in 0 .. Len(s), NEW b \in a .. Len(s), NEW f \in Mail(enc),
         enc # "base64" => \A i \in a + 1 .. b : s[i] # NUL
  PROVE  EncodeBytes(enc, f, SubSeq(s, a + 1, b)) \in Mail(enc)
<1> DEFINE I == [i \in 0 .. Len(s) |-> Mail(enc)]
<1>1. Len(s) \in Nat /\ f \in Encoder(enc) /\ \A i \in 1 .. Len(s) : s[i] \in Byte
  BY LenProperties DEF Mail
<1>2. \A i \in 0 .. Len(s) : I[i] = Mail(enc)
  OBVIOUS
<1>3. b \in 0 .. Len(s)
  BY <1>1
<1> HIDE DEF I
<1>4. CarriesFrom(enc, s, a, b, I)
  <2> SUFFICES ASSUME NEW i \in a + 1 .. b, NEW x \in Encoder(enc), x \in I[i - 1]
               PROVE  EncodeByte(enc, x, s[i]) \in I[i]
    BY DEF CarriesFrom
  <2>1. i - 1 \in 0 .. Len(s) /\ i \in 0 .. Len(s) /\ i \in 1 .. Len(s)
    BY <1>1, <1>3
  <2>2. x \in Mail(enc) /\ s[i] \in Byte /\ (enc # "base64" => s[i] # NUL)
    BY <1>1, <1>2, <2>1
  <2>3. EncodeByte(enc, x, s[i]) \in Mail(enc)
    BY <2>2, MailByte
  <2> QED BY <1>2, <2>1, <2>3
<1>5. f \in I[a]
  BY <1>2
<1>6. EncodeBytes(enc, f, SubSeq(s, a + 1, b)) \in I[b]
  BY <1>1, <1>4, <1>5, PartInduct
<1> QED BY <1>2, <1>3, <1>6

Mailed ==
  /\ Typed
  /\ status # "done" => filter \in Mail(encoding)
  /\ status = "done" => Fits(dest, Width + 4)

LEMMA NextMailed ==
  ASSUME Mailed, Next
  PROVE  Mailed'
<1>1. Typed /\ Typed' /\ status = "reading" /\ filter \in Mail(encoding)
  BY NextTyped DEF Mailed, Next
<1>2. /\ src \in Seq(Byte) /\ pos \in 0 .. Len(src) /\ Len(src) \in Nat
  BY <1>1, LenProperties DEF Typed
<1>3. CASE FeedLine
  <2>1. PICK n, m, e : Round(n, m, e)
    BY <1>1, <1>3, RoundIs
  <2>2. encoding = "quoted-printable" /\ UNCHANGED <<encoding, status>>
    BY <1>3 DEF FeedLine
  <2>3. /\ n \in 1 .. Len(src) - pos /\ m \in 0 .. n /\ e \in {0, 5} /\ e <= m
        /\ filter' = EncodeBytes(encoding, Start(e), SubSeq(src, (pos + e) + 1, pos + m))
        /\ \A i \in 1 .. m : src[pos + i] # NUL
    BY <2>1 DEF Round, Takes
  <2> DEFINE a == pos + e
             b == pos + m
  <2>4. a \in 0 .. Len(src) /\ b \in a .. Len(src)
    BY <1>2, <2>3
  <2>5. ASSUME NEW i \in a + 1 .. b PROVE src[i] # NUL
    <3>1. i - pos \in 1 .. m /\ pos + (i - pos) = i
      BY <1>2, <2>3
    <3> QED BY <2>3, <3>1
  <2> HIDE DEF a, b
  <2>6. Start(e) \in Mail("quoted-printable")
    BY <1>1, <2>2, <2>3, StartMail
  <2>7. EncodeBytes("quoted-printable", Start(e), SubSeq(src, a + 1, b)) \in Mail("quoted-printable")
    BY <1>2, <2>4, <2>5, <2>6, MailPart
  <2>8. filter' \in Mail(encoding)'
    BY <2>2, <2>3, <2>7 DEF a, b, Mail, Limit, Encoder
  <2> QED BY <1>1, <2>2, <2>8 DEF Mailed
<1>4. CASE \E n \in 1 .. BufSize : FeedBlock(n)
  <2>1. PICK n \in 1 .. BufSize : FeedBlock(n)
    BY <1>4
  <2>2. encoding = "base64" /\ UNCHANGED <<encoding, status>>
    BY <2>1 DEF FeedBlock
  <2> DEFINE b == pos + n
  <2>3. /\ b \in pos .. Len(src)
        /\ filter' = EncodeBytes(encoding, filter, SubSeq(src, pos + 1, b))
    BY <1>1, <2>1, BlockIs
  <2> HIDE DEF b
  <2>4. filter \in Mail("base64")
    BY <1>1, <2>2
  <2>5. EncodeBytes("base64", filter, SubSeq(src, pos + 1, b)) \in Mail("base64")
    BY <1>2, <2>3, <2>4, MailPart
  <2>6. filter' \in Mail(encoding)'
    BY <2>2, <2>3, <2>5
  <2> QED BY <1>1, <2>2, <2>6 DEF Mailed
<1>5. CASE Finish
  <2>1. encoding \in {"base64", "quoted-printable"} /\ status' = "done"
        /\ filter' = FlushEncoder(encoding, filter)
    BY <1>5 DEF Finish, HasFilter
  <2>2. Fits(FlushEncoder(encoding, filter).out, Width + 4)
    BY <1>1, <2>1, FlushFits
  <2>3. Fits(dest, Width + 4)'
    BY <2>1, <2>2 DEF dest
  <2> QED BY <1>1, <2>1, <2>3 DEF Mailed
<1>6. CASE NoFilter
  BY <1>1, <1>6 DEF NoFilter, Mailed
<1>7. CASE ReadError
  <2>1. encoding = "base64" /\ encoding' = encoding /\ status' = "overrun"
    BY <1>7, ErrorIs
  <2>2. PICK t \in Seq(Byte) : filter' = EncodeBytes(encoding, filter, SubSeq(t, 0 + 1, Len(t)))
    BY <1>7, ErrorIs
  <2>3. 0 \in 0 .. Len(t) /\ Len(t) \in 0 .. Len(t)
    BY LenProperties
  <2>4. EncodeBytes("base64", filter, SubSeq(t, 0 + 1, Len(t))) \in Mail("base64")
    BY <1>1, <2>1, <2>3, MailPart
  <2>5. filter' \in Mail(encoding)'
    BY <2>1, <2>2, <2>4
  <2> QED BY <1>1, <2>1, <2>5 DEF Mailed
<1> QED BY <1>3, <1>4, <1>5, <1>6, <1>7 DEF Next

LEMMA InitMailed ==
  ASSUME Init
  PROVE  Mailed
  BY InitTyped, MailFilter DEF Mailed, Init

LEMMA MailedStays ==
  ASSUME Mailed, [Next \/ Returned]_vars
  PROVE  Mailed'
<1>1. CASE Next
  BY <1>1, NextMailed
<1>2. CASE UNCHANGED vars
  BY <1>2, Stutters DEF Mailed, Typed, dest
<1> QED BY <1>1, <1>2 DEF Returned

(* FitForMail: whatever is encoded, and however it is read, is seven bits, *)
(* and from the beginning of a line or the end of an escaped "From " to    *)
(* the end of the line or the next escape no longer than the limit of the  *)
(* encoder (mailparse_stream_encode with mbfl's filters).                  *)
THEOREM EncodedFits == Spec => []FitForMail
<1>1. Init => Mailed
  BY InitMailed
<1>2. Mailed /\ [Next \/ Returned]_vars => Mailed'
  BY MailedStays
<1>3. Mailed => FitForMail
  <2> SUFFICES ASSUME Mailed PROVE FitForMail
    OBVIOUS
  <2>1. filter \in Encoder(encoding) /\ filter \in Coders
    BY DEF Mailed, Typed, Encoder
  <2>2. dest \in Seq(Byte)
    BY <2>1 DEF Coders, dest
  <2>3. Fits(dest, Width + 4)
    <3>1. CASE status = "done"
      BY <3>1 DEF Mailed
    <3>2. CASE status # "done"
      <4>1. Fits(dest, filter.column) /\ filter.column <= Limit(encoding)
        BY <3>2 DEF Mailed, Mail, dest
      <4>2. filter.column \in Nat /\ Width + 4 \in Nat /\ filter.column <= Width + 4
        BY <2>1, <4>1, Widths DEF Coders, Limit
      <4> QED BY <2>2, <4>1, <4>2, FitsWider
    <3> QED BY <3>1, <3>2
  <2> QED BY <2>2, <2>3, FitsMeans
<1> QED BY <1>1, <1>2, <1>3, PTL DEF Spec
-----------------------------------------------------------------------------
(* Decoding what has been encoded.  A text spells another one if a decoder *)
(* that holds nothing back passes on just that and holds nothing back      *)
(* again; texts that do can be put together.                               *)
Spells(enc, b, v) ==
  /\ b \in Seq(Byte) /\ v \in Seq(Byte)
  /\ \A g \in Decoder(enc) : g.state = 0 =>
       /\ DecodeBlock(enc, g, b).state = 0
       /\ DecodeBlock(enc, g, b).out = g.out \o v

LEMMA SpellsNothing ==
  ASSUME NEW enc \in {"base64", "quoted-printable"}
  PROVE  Spells(enc, << >>, << >>)
<1>1. << >> \in Seq(Byte)
  BY ByteFacts
<1>2. ASSUME NEW g \in Decoder(enc)
      PROVE  DecodeBlock(enc, g, << >>) = g /\ g.out \o << >> = g.out
  <2>1. g.out \in Seq(Byte)
    BY DEF Decoder, Coders
  <2>2. DecodeBlock(enc, g, << >>) = g
    BY <1>1, BlockFacts
  <2> QED BY <2>1, <2>2, ConcatEmptySeq
<1> QED BY <1>1, <1>2 DEF Spells

LEMMA SpellsBoth ==
  ASSUME NEW enc \in {"base64", "quoted-printable"}, NEW a, NEW b, NEW v, NEW w,
         Spells(enc, a, v), Spells(enc, b, w)
  PROVE  Spells(enc, a \o b, v \o w)
<1>1. a \in Seq(Byte) /\ b \in Seq(Byte) /\ v \in Seq(Byte) /\ w \in Seq(Byte)
  BY DEF Spells
<1>2. a \o b \in Seq(Byte) /\ v \o w \in Seq(Byte)
  BY <1>1, ConcatProperties
<1>3. ASSUME NEW g \in Decoder(enc), g.state = 0
      PROVE  /\ DecodeBlock(enc, g, a \o b).state = 0
             /\ DecodeBlock(enc, g, a \o b).out = g.out \o (v \o w)
  <2> DEFINE x == DecodeBlock(enc, g, a)
             y == DecodeBlock(enc, x, b)
  <2>1. x \in Decoder(enc)
    BY <1>1, BlockFacts
  <2>2. x.state = 0 /\ x.out = g.out \o v
    BY <1>3 DEF Spells
  <2>3. DecodeBlock(enc, g, a \o b) = y
    BY <1>1, TwoBlocks
  <2> HIDE DEF x
  <2>4. y.state = 0 /\ y.out = x.out \o w
    BY <2>1, <2>2 DEF Spells
  <2> HIDE DEF y
  <2>5. g.out \in Seq(Byte)
    BY DEF Decoder, Coders
  <2>6. g.out \o (v \o w) = (g.out \o v) \o w
    BY <1>1, <2>5, Regroup
  <2> QED BY <2>2, <2>3, <2>4, <2>6
<1> QED BY <1>2, <1>3 DEF Spells

LEMMA Joined ==
  ASSUME NEW a \in Byte, NEW b \in Byte, NEW c \in Byte
  PROVE  <<a>> \o <<b>> = <<a, b>> /\ (<<a>> \o <<b>>) \o <<c>> = <<a, b, c>>
         /\ <<a, b>> \in Seq(Byte) /\ <<a, b, c>> \in Seq(Byte)
<1> DEFINE x == <<a>>
           y == <<b>>
           z == <<c>>
           u == <<a, b>>
           v == <<a, b, c>>
<1>1. /\ x \in Seq(Byte) /\ Len(x) = 1 /\ x[1] = a
      /\ y \in Seq(Byte) /\ Len(y) = 1 /\ y[1] = b
      /\ z \in Seq(Byte) /\ Len(z) = 1 /\ z[1] = c
  OBVIOUS
<1>2. /\ u \in Seq(Byte) /\ Len(u) = 2 /\ u[1] = a /\ u[2] = b
      /\ v \in Seq(Byte) /\ Len(v) = 3 /\ v[1] = a /\ v[2] = b /\ v[3] = c
  OBVIOUS
<1> HIDE DEF x, y, z, u, v
<1>3. /\ x \o y \in Seq(Byte) /\ Len(x \o y) = 2
      /\ (x \o y)[1] = a /\ (x \o y)[2] = b
  BY <1>1, ConcatProperties
<1>4. x \o y = u
  <2>1. \A i \in 1 .. 2 : (x \o y)[i] = u[i]
    BY <1>2, <1>3
  <2> QED BY <1>2, <1>3, <2>1, SeqEqual
<1>5. /\ u \o z \in Seq(Byte) /\ Len(u \o z) = 3
      /\ (u \o z)[1] = a /\ (u \o z)[2] = b /\ (u \o z)[3] = c
  <2>1. u \in Seq(Byte) /\ Len(u) = 2 /\ z \in Seq(Byte) /\ Len(z) = 1
    BY <1>1, <1>2
  <2>2. /\ u \o z \in Seq(Byte) /\ Len(u \o z) = 3
        /\ \A i \in 1 .. 2 : (u \o z)[i] = u[i]
        /\ \A i \in 1 .. 1 : (u \o z)[2 + i] = z[i]
    BY <2>1, ConcatIs
  <2>3. 1 \in 1 .. 2 /\ 2 \in 1 .. 2 /\ 1 \in 1 .. 1 /\ 2 + 1 = 3
    OBVIOUS
  <2> QED BY <1>1, <1>2, <2>2, <2>3
<1>6. u \o z = v
  <2>1. \A i \in 1 .. 3 : (u \o z)[i] = v[i]
    BY <1>2, <1>5
  <2> QED BY <1>2, <1>5, <2>1, SeqEqual
<1> QED BY <1>2, <1>4, <1>6 DEF x, y, z, u, v

LEMMA OneByte ==
  ASSUME NEW enc \in {"base64", "quoted-printable"},
         NEW f \in Decoder(enc), NEW c \in Byte
  PROVE  DecodeBlock(enc, f, <<c>>) = DecodeByte(enc, f, c)
<1> DEFINE s == <<c>>
<1>1. s \in Seq(Byte) /\ Len(s) = 1 /\ s[1] = c
  OBVIOUS
<1> HIDE DEF s
<1>2. PICK g : RunOf(enc, f, s, g) /\ DecodeBlock(enc, f, s) = g[Len(s)]
  BY <1>1, DecodeRun
<1>3. g[0] = f /\ g[1] = DecodeByte(enc, g[1 - 1], s[1])
  <2>1. 1 \in 1 .. Len(s)
    BY <1>1
  <2> QED BY <1>2, <2>1 DEF RunOf
<1> QED BY <1>1, <1>2, <1>3 DEF s

LEMMA OneMore ==
  ASSUME NEW enc \in {"base64", "quoted-printable"},
         NEW f \in Decoder(enc), NEW s \in Seq(Byte), NEW c \in Byte
  PROVE  DecodeBlock(enc, f, s \o <<c>>) = DecodeByte(enc, DecodeBlock(enc, f, s), c)
<1> DEFINE t == <<c>>
           x == DecodeBlock(enc, f, s)
<1>1. t \in Seq(Byte) /\ x \in Decoder(enc)
  BY BlockFacts
<1>2. DecodeBlock(enc, x, t) = DecodeByte(enc, x, c)
  <2> HIDE DEF x
  <2> QED BY <1>1, OneByte
<1> HIDE DEF t
<1>3. DecodeBlock(enc, f, s \o t) = DecodeBlock(enc, x, t)
  BY <1>1, TwoBlocks
<1> QED BY <1>2, <1>3 DEF t

-----------------------------------------------------------------------------
(* quoted-printable, token by token                                        *)
HexOf(k, c) == HexValue(k) * 16 + HexValue(c)

LEMMA DecodeQuotedIs ==
  ASSUME NEW f \in Coders, NEW c \in Byte, NEW x, x = DecodeQuoted(f, c)
  PROVE  /\ f.state = 0 /\ c = EQ => x.state = 1 /\ x.out = f.out
         /\ f.state = 0 /\ c # EQ => x.state = 0 /\ x.out = f.out \o <<c>>
         /\ f.state = 1 /\ IsHex(c) => x.state = 2 /\ x.cache = c /\ x.out = f.out
         /\ f.state = 1 /\ c = CR => x.state = 3 /\ x.out = f.out
         /\ f.state = 2 /\ IsHex(c) =>
              /\ x.state = 0
              /\ x.out = f.out \o <<HexOf(f.cache, c)>>
         /\ f.state = 3 /\ c = LF => x.state = 0 /\ x.out = f.out
<1>1. f.out \in Seq(Byte) /\ f.out \o << >> = f.out
  BY ConcatEmptySeq DEF Coders
<1>2. CR # LF /\ ~IsHex(CR) /\ ~IsHex(LF) /\ EQ # CR
  BY SMT DEF CR, LF, IsHex, EQ
<1>3. ASSUME f.state = 0, c = EQ PROVE x.state = 1 /\ x.out = f.out
  <2>1. x = [f EXCEPT !.state = 1]
    BY <1>3 DEF DecodeQuoted
  <2> QED BY <2>1 DEF Coders
<1>4. ASSUME f.state = 0, c # EQ PROVE x.state = 0 /\ x.out = f.out \o <<c>>
  <2>1. x = Emit(f, <<c>>)
    BY <1>4 DEF DecodeQuoted
  <2> QED BY <1>4, <2>1 DEF Emit, Coders
<1>5. ASSUME f.state = 1, IsHex(c) PROVE x.state = 2 /\ x.cache = c /\ x.out = f.out
  <2>1. x = [f EXCEPT !.state = 2, !.cache = c]
    <3>1. c # CR /\ c # LF /\ f.state # 2 /\ f.state # 3 /\ f.state # 0
      BY <1>2, <1>5
    <3> DEFINE y == [f EXCEPT !.state = 2, !.cache = c]
    <3>2. DecodeQuoted(f, c) = y
      BY <1>5, <3>1 DEF DecodeQuoted
    <3> QED BY <3>2
  <2> QED BY <2>1 DEF Coders
<1>6. ASSUME f.state = 1, c = CR PROVE x.state = 3 /\ x.out = f.out
  <2>1. x = [f EXCEPT !.state = 3]
    BY <1>2, <1>6 DEF DecodeQuoted
  <2> QED BY <2>1 DEF Coders
<1>7. ASSUME f.state = 2, IsHex(c)
      PROVE  x.state = 0 /\ x.out = f.out \o <<HexOf(f.cache, c)>>
  <2> DEFINE b == <<HexOf(f.cache, c)>>
  <2>1. x = [Emit(f, b) EXCEPT !.state = 0]
    BY <1>7 DEF DecodeQuoted, HexOf
  <2> HIDE DEF b
  <2>2. x.state = 0 /\ x.out = f.out \o b
    BY <2>1 DEF Emit, Coders
  <2> QED BY <2>2 DEF b
<1>8. ASSUME f.state = 3, c = LF PROVE x.state = 0 /\ x.out = f.out
  <2>1. x = [Emit(f, << >>) EXCEPT !.state = 0]
    BY <1>8 DEF DecodeQuoted
  <2> QED BY <1>1, <2>1 DEF Emit, Coders
<1> QED BY <1>3, <1>4, <1>5, <1>6, <1>7, <1>8

LEMMA PlainSpells ==
  ASSUME NEW c \in Byte, c # EQ
  PROVE  Spells("quoted-printable", <<c>>, <<c>>)
<1> DEFINE enc == "quoted-printable"
<1>1. <<c>> \in Seq(Byte)
  OBVIOUS
<1>2. ASSUME NEW g \in Decoder(enc), g.state = 0
      PROVE  /\ DecodeBlock(enc, g, <<c>>).state = 0
             /\ DecodeBlock(enc, g, <<c>>).out = g.out \o <<c>>
  <2> DEFINE x == DecodeQuoted(g, c)
  <2>1. DecodeBlock(enc, g, <<c>>) = x
    BY OneByte DEF DecodeByte
  <2>2. g \in Coders
    BY DEF Decoder
  <2>3. x.state = 0 /\ x.out = g.out \o <<c>>
    BY <1>2, <2>2, DecodeQuotedIs
  <2> QED BY <2>1, <2>3
<1> QED BY <1>1, <1>2 DEF Spells

(* Three bytes, of which the first is the "=".                             *)
LEMMA ThreeBytes ==
  ASSUME NEW g \in Decoder("quoted-printable"), g.state = 0,
         NEW c \in Byte, NEW d \in Byte
  PROVE  /\ <<EQ, c, d>> \in Seq(Byte)
         /\ \E x \in Coders, y \in Coders :
              /\ x.state = 1 /\ x.out = g.out /\ y = DecodeQuoted(x, c)
              /\ DecodeBlock("quoted-printable", g, <<EQ, c, d>>) = DecodeQuoted(y, d)
<1> DEFINE enc == "quoted-printable"
           q == <<EQ>>
           qc == q \o <<c>>
           qcd == qc \o <<d>>
           x == DecodeBlock(enc, g, q)
           y == DecodeBlock(enc, g, qc)
           z == DecodeBlock(enc, g, qcd)
<1>0. EQ \in Byte /\ q \in Seq(Byte)
  BY ByteFacts
<1>1. EQ \in Byte /\ q \in Seq(Byte) /\ qc \in Seq(Byte) /\ qcd = <<EQ, c, d>>
  <2>1. qc = <<EQ, c>> /\ qc \in Seq(Byte) /\ qcd = <<EQ, c, d>>
    BY <1>0, Joined
  <2> QED BY <1>0, <2>1
<1>2. <<EQ, c, d>> \in Seq(Byte)
  BY <1>0, Joined
<1>3. x = DecodeQuoted(g, EQ)
  BY <1>1, OneByte DEF DecodeByte
<1> HIDE DEF q
<1>4. y = DecodeQuoted(x, c)
  BY <1>1, OneMore DEF DecodeByte
<1>5. x \in Decoder(enc) /\ y \in Decoder(enc)
  BY <1>1, BlockFacts
<1> HIDE DEF qc
<1>6. z = DecodeQuoted(y, d)
  BY <1>1, OneMore DEF DecodeByte
<1> HIDE DEF x, y, z
<1>7. x \in Coders /\ y \in Coders /\ g \in Coders
  BY <1>5 DEF Decoder
<1>8. x.state = 1 /\ x.out = g.out
  BY <1>1, <1>3, <1>7, DecodeQuotedIs
<1>9. DecodeBlock(enc, g, <<EQ, c, d>>) = DecodeQuoted(y, d)
  BY <1>1, <1>6 DEF z
<1> QED BY <1>2, <1>4, <1>7, <1>8, <1>9

LEMMA HexFacts ==
  ASSUME NEW n \in 0 .. 15
  PROVE  HexDigit(n) \in Byte /\ IsHex(HexDigit(n)) /\ HexValue(HexDigit(n)) = n
<1>1. CASE n < 10
  <2>1. HexDigit(n) = n + 48
    BY <1>1 DEF HexDigit
  <2> QED BY SMT, <1>1, <2>1 DEF Byte, IsHex, HexValue
<1>2. CASE ~(n < 10)
  <2>1. HexDigit(n) = n + 55
    BY <1>2 DEF HexDigit
  <2> QED BY SMT, <1>2, <2>1 DEF Byte, IsHex, HexValue
<1> QED BY <1>1, <1>2

LEMMA HexSpells ==
  ASSUME NEW a \in 0 .. 15, NEW b \in 0 .. 15
  PROVE  Spells("quoted-printable", <<EQ, HexDigit(a), HexDigit(b)>>, <<a * 16 + b>>)
<1> DEFINE enc == "quoted-printable"
           c == HexDigit(a)
           d == HexDigit(b)
           v == a * 16 + b
<1>1. c \in Byte /\ IsHex(c) /\ HexValue(c) = a /\ d \in Byte /\ IsHex(d) /\ HexValue(d) = b
  BY HexFacts
<1>2. v \in Byte
  BY SMT DEF Byte
<1> HIDE DEF c, d
<1>3. ASSUME NEW g \in Decoder(enc), g.state = 0
      PROVE  /\ DecodeBlock(enc, g, <<EQ, c, d>>).state = 0
             /\ DecodeBlock(enc, g, <<EQ, c, d>>).out = g.out \o <<v>>
  <2>1. PICK x \in Coders, y \in Coders :
              /\ x.state = 1 /\ x.out = g.out /\ y = DecodeQuoted(x, c)
              /\ DecodeBlock(enc, g, <<EQ, c, d>>) = DecodeQuoted(y, d)
    BY <1>1, <1>3, ThreeBytes
  <2>2. y.state = 2 /\ y.cache = c /\ y.out = x.out
    BY <1>1, <2>1, DecodeQuotedIs
  <2> DEFINE z == DecodeQuoted(y, d)
  <2>s. y.state = 2 /\ y \in Coders
    BY <2>2
  <2>3. z.state = 0 /\ z.out = y.out \o <<HexOf(y.cache, d)>>
    <3>1. z = DecodeQuoted(y, d) /\ d \in Byte /\ IsHex(d)
      BY <1>1
    <3> HIDE DEF z
    <3> QED BY <2>s, <3>1, DecodeQuotedIs
  <2> HIDE DEF z
  <2>5. HexOf(y.cache, d) = v
    BY <1>1, <2>2 DEF HexOf
  <2>4. z.out = g.out \o <<v>>
    BY <2>1, <2>2, <2>3, <2>5
  <2> QED BY <2>1, <2>3, <2>4 DEF z
<1>4. <<EQ, c, d>> \in Seq(Byte) /\ <<v>> \in Seq(Byte)
  BY <1>1, <1>2, ByteFacts
<1> QED BY <1>3, <1>4 DEF Spells, c, d

LEMMA WrittenSpells ==
  ASSUME NEW c \in Byte
  PROVE  Spells("quoted-printable", Written(c), <<c>>)
<1>1. CASE Quoted(c)
  <2> DEFINE a == c \div 16
             b == c % 16
  <2>1. a \in 0 .. 15 /\ b \in 0 .. 15 /\ a * 16 + b = c
        /\ Written(c) = <<EQ, HexDigit(a), HexDigit(b)>>
    BY <1>1, WrittenFacts
  <2> HIDE DEF a, b
  <2>2. Spells("quoted-printable", <<EQ, HexDigit(a), HexDigit(b)>>, <<a * 16 + b>>)
    BY <2>1, HexSpells
  <2> QED BY <2>1, <2>2
<1>2. CASE ~Quoted(c)
  BY <1>2, WrittenFacts, PlainSpells
<1> QED BY <1>1, <1>2

LEMMA BreakSpells ==
  ASSUME NEW f
  PROVE  /\ Spells("quoted-printable", SoftBreak(f), << >>)
         /\ Spells("quoted-printable", NewLine, NewLine)
<1> DEFINE enc == "quoted-printable"
<1>0. CR \in Byte /\ LF \in Byte /\ EQ # CR /\ EQ # LF /\ << >> \in Seq(Byte)
  BY ByteFacts
<1>1. ASSUME NEW g \in Decoder(enc), g.state = 0
      PROVE  /\ DecodeBlock(enc, g, <<EQ, CR, LF>>).state = 0
             /\ DecodeBlock(enc, g, <<EQ, CR, LF>>).out = g.out \o << >>
  <2>1. PICK x \in Coders, y \in Coders :
              /\ x.state = 1 /\ x.out = g.out /\ y = DecodeQuoted(x, CR)
              /\ DecodeBlock(enc, g, <<EQ, CR, LF>>) = DecodeQuoted(y, LF)
    BY <1>0, <1>1, ThreeBytes
  <2>2. y.state = 3 /\ y.out = x.out
    BY <1>0, <2>1, DecodeQuotedIs
  <2> DEFINE z == DecodeQuoted(y, LF)
  <2>3. z.state = 0 /\ z.out = y.out
    BY <1>0, <2>2, DecodeQuotedIs
  <2>4. g.out \o << >> = g.out
    BY ConcatEmptySeq DEF Decoder, Coders
  <2> HIDE DEF z
  <2> QED BY <2>1, <2>2, <2>3, <2>4 DEF z
<1>2. <<EQ, CR, LF>> = <<EQ>> \o NewLine /\ <<EQ>> \o NewLine \in Seq(Byte)
  BY ByteFacts DEF NewLine
<1>3. Spells(enc, <<EQ>> \o NewLine, << >>)
  BY <1>0, <1>1, <1>2 DEF Spells
<1>4. Spells(enc, << >>, << >>)
  BY SpellsNothing
<1>5. Spells(enc, SoftBreak(f), << >>)
  BY <1>3, <1>4 DEF SoftBreak
<1>6. Spells(enc, <<CR>>, <<CR>>) /\ Spells(enc, <<LF>>, <<LF>>)
  BY <1>0, PlainSpells
<1>7. Spells(enc, <<CR>> \o <<LF>>, <<CR>> \o <<LF>>)
  BY <1>6, SpellsBoth
<1>8. <<CR>> \o <<LF>> = NewLine
  BY <1>0, Joined DEF NewLine
<1> QED BY <1>5, <1>7, <1>8
-----------------------------------------------------------------------------
(* Text with its line ends written out, byte by byte: w[i] is what the     *)
(* first i bytes become.                                                   *)
Piece(s, i) ==
  CASE s[i] = LF -> NewLine
    [] s[i] = CR -> IF i < Len(s) /\ s[i + 1] = LF THEN << >> ELSE NewLine
    [] OTHER -> <<s[i]>>
Grows(s, w) ==
  /\ w \in [0 .. Len(s) -> Seq(Byte)] /\ w[0] = << >>
  /\ \A i \in 1 .. Len(s) : w[i] = w[i - 1] \o Piece(s, i)

LEMMA PieceFacts ==
  ASSUME NEW s \in Seq(Byte), NEW i \in 1 .. Len(s)
  PROVE  Piece(s, i) \in Seq(Byte)
<1>1. s[i] \in Byte
  BY LenProperties
<1>2. <<s[i]>> \in Seq(Byte)
  BY <1>1
<1>3. NewLine \in Seq(Byte) /\ << >> \in Seq(Byte)
  BY ByteFacts
<1>4. CASE s[i] \in {LF, CR}
  BY <1>3, <1>4 DEF Piece
<1>5. CASE s[i] \notin {LF, CR}
  BY <1>2, <1>5 DEF Piece
<1> QED BY <1>4, <1>5

LEMMA GrowthExists ==
  ASSUME NEW s \in Seq(Byte)
  PROVE  \E w : Grows(s, w)
<1> DEFINE n == Len(s)
           D == 0 .. n
           T == Seq(Byte)
           q == [i \in 1 .. n |-> Piece(s, i)]
           r == [d \in D |-> d]
           F == [d \in D |-> [g \in [D -> T] |-> IF d = 0 THEN << >> ELSE g[d - 1] \o q[d]]]
<1>1. n \in Nat /\ << >> \in T /\ T # {}
  BY LenProperties, ByteFacts
<1>2. q \in [1 .. n -> T]
  BY PieceFacts
<1> HIDE DEF n
<1>3. r \in [D -> Nat] /\ \A d \in D : r[d] <= n /\ r[d] = d
  BY <1>1
<1>4. ASSUME NEW d \in D, d # 0 PROVE d - 1 \in D /\ d \in 1 .. n /\ d - 1 < d
  BY <1>1, <1>4
<1> HIDE DEF q, r
<1>5. F \in [D -> [[D -> T] -> T]]
  <2>1. ASSUME NEW d \in D, NEW g \in [D -> T], d # 0 PROVE g[d - 1] \o q[d] \in T
    <3>1. g[d - 1] \in T /\ q[d] \in T
      BY <1>2, <1>4, <2>1
    <3> QED BY <3>1, ConcatProperties
  <2> HIDE DEF T, D
  <2> QED BY <1>1, <2>1
<1>6. \A d \in D, g \in [D -> T] : F[d][g] = IF d = 0 THEN << >> ELSE g[d - 1] \o q[d]
  <2> HIDE DEF T, D
  <2> QED OBVIOUS
<1> HIDE DEF F
<1>7. ASSUME NEW d \in D, NEW g \in [D -> T], NEW h \in [D -> T],
             \A e \in D : r[e] < r[d] => g[e] = h[e]
      PROVE  F[d][g] = F[d][h]
  <2>1. d # 0 => g[d - 1] = h[d - 1]
    BY <1>3, <1>4, <1>7
  <2> QED BY <1>6, <2>1
<1>8. RankedBy(F, r, n, D, T)
  <2> HIDE DEF T, D
  <2> QED BY <1>1, <1>3, <1>5, <1>7 DEF RankedBy
<1>9. PICK w \in [D -> T] : \A d \in D : w[d] = F[d][w]
  <2> HIDE DEF T, D
  <2> QED BY <1>8, Recursion
<1>10. w[0] = << >>
  <2>1. 0 \in D
    BY <1>1
  <2> QED BY <1>6, <1>9, <2>1
<1>11. ASSUME NEW i \in 1 .. n PROVE w[i] = w[i - 1] \o Piece(s, i)
  <2>1. i \in D /\ i # 0
    BY <1>1
  <2>2. w[i] = w[i - 1] \o q[i]
    BY <1>6, <1>9, <2>1
  <2> QED BY <2>2 DEF q
<1> QED BY <1>9, <1>10, <1>11 DEF Grows, n

LEMMA GrowthIs ==
  ASSUME NEW s \in Seq(Byte), NEW w, Grows(s, w)
  PROVE  WithNewLines(s) = w[Len(s)]
<1> DEFINE n == Len(s)
           q == [i \in DOMAIN s |-> Piece(s, i)]
<1>1. n \in Nat /\ DOMAIN s = 1 .. n
  BY LenProperties
<1>2. /\ w \in [0 .. n -> Seq(Byte)] /\ w[0] = << >>
      /\ \A i \in 1 .. n : w[i] = w[i - 1] \o Piece(s, i)
  BY DEF Grows
<1>3. WithNewLines(s) = FlattenSeq(q)
  BY DEF WithNewLines, Piece
<1>4. q \in Seq(Seq(Byte)) /\ Len(q) = n /\ \A i \in 1 .. n : q[i] = Piece(s, i)
  <2>1. q \in [1 .. n -> Seq(Byte)]
    BY <1>1, PieceFacts
  <2>2. q \in Seq(Seq(Byte)) /\ Len(q) = n
    <3> HIDE DEF q, n
    <3> QED BY <1>1, <2>1, FunctionIsSeq
  <2> QED BY <1>1, <2>2
<1> HIDE DEF n, q
<1>5. CASE n = 0
  <2>1. q = << >>
    BY <1>4, <1>5, EmptySeq
  <2> QED BY <1>2, <1>3, <1>4, <1>5, <2>1 DEF FlattenSeq, n
<1>6. CASE n # 0
  <2> DEFINE Adds(f) == f = [i \in 1 .. Len(q) |-> IF i = 1 THEN q[i] ELSE f[i - 1] \o q[i]]
             flat == CHOOSE f : Adds(f)
             v == [i \in 1 .. n |-> w[i]]
  <2>1. FlattenSeq(q) = flat[n]
    BY <1>4, <1>6 DEF FlattenSeq
  <2>2. Adds(v)
    <3>1. ASSUME NEW i \in 1 .. n PROVE w[i] = IF i = 1 THEN q[i] ELSE v[i - 1] \o q[i]
      <4>0. q[i] = Piece(s, i)
        BY <1>4
      <4>1. w[i] = w[i - 1] \o q[i]
        BY <1>2, <4>0
      <4>2. CASE i = 1
        <5>1. w[i - 1] = << >> /\ q[i] \in Seq(Byte)
          BY <1>2, <4>0, <4>2, PieceFacts DEF n
        <5> QED BY <4>1, <4>2, <5>1, ConcatEmptySeq
      <4>3. CASE i # 1
        <5>1. i - 1 \in 1 .. n
          BY <1>1, <4>3
        <5>2. v[i - 1] = w[i - 1]
          BY <5>1
        <5> QED BY <4>1, <4>3, <5>2
      <4> QED BY <4>2, <4>3
    <3>2. v = [i \in 1 .. n |-> IF i = 1 THEN q[i] ELSE v[i - 1] \o q[i]]
      BY <3>1
    <3> QED BY <1>4, <3>2
  <2>3. Adds(flat)
    BY <2>2
  <2>4. \A i \in 1 .. n : flat[i] = IF i = 1 THEN q[i] ELSE flat[i - 1] \o q[i]
    <3> HIDE DEF flat
    <3> QED BY <1>4, <2>3
  <2>5. \A i \in 1 .. n : v[i] = IF i = 1 THEN q[i] ELSE v[i - 1] \o q[i]
    <3> HIDE DEF v
    <3> QED BY <1>4, <2>2
  <2>6. \A i \in 1 .. n : v[i] = w[i]
    OBVIOUS
  <2> HIDE DEF flat, v
  <2> DEFINE D == 1 .. n
             r == [d \in D |-> d]
  <2>7. r \in [D -> Nat] /\ \A d \in D : r[d] = d
    BY <1>1
  <2>8. ASSUME NEW d \in D, \A e \in D : r[e] < r[d] => flat[e] = v[e]
        PROVE  flat[d] = v[d]
    <3>1. d # 1 => d - 1 \in D /\ d - 1 < d
      BY <1>1
    <3>2. d # 1 => flat[d - 1] = v[d - 1]
      BY <2>7, <2>8, <3>1
    <3> QED BY <2>4, <2>5, <3>2
  <2> HIDE DEF r, D
  <2>9. \A d \in D : flat[d] = v[d]
    BY <2>7, <2>8, Unique
  <2>10. n \in 1 .. n
    BY <1>1, <1>6
  <2> QED BY <1>3, <2>1, <2>6, <2>9, <2>10 DEF n, D
<1> QED BY <1>5, <1>6

LEMMA GrowthPrefix ==
  ASSUME NEW s \in Seq(Byte), NEW w, Grows(s, w), NEW i \in 0 .. Len(s)
  PROVE  IsPrefix(w[i], w[Len(s)])
<1> DEFINE n == Len(s)
           N == {k \in Nat : i + k <= n => \E u \in Seq(Byte) : w[i + k] = w[i] \o u}
<1>1. /\ n \in Nat /\ i \in Nat /\ i <= n
      /\ w \in [0 .. n -> Seq(Byte)]
      /\ \A j \in 1 .. n : w[j] = w[j - 1] \o Piece(s, j)
  BY LenProperties DEF Grows
<1>2. 0 \in N
  <2>1. i + 0 = i /\ w[i] \in Seq(Byte)
    BY <1>1
  <2>2. w[i] = w[i] \o << >> /\ << >> \in Seq(Byte)
    BY <2>1, ConcatEmptySeq, ByteFacts
  <2> QED BY <2>1, <2>2
<1>3. ASSUME NEW k \in Nat, k \in N PROVE k + 1 \in N
  <2> SUFFICES ASSUME i + (k + 1) <= n PROVE \E u \in Seq(Byte) : w[i + (k + 1)] = w[i] \o u
    OBVIOUS
  <2> DEFINE j == i + (k + 1)
  <2>1. j \in 1 .. n /\ j - 1 = i + k /\ i + k <= n
    BY <1>1
  <2>2. PICK u \in Seq(Byte) : w[i + k] = w[i] \o u
    BY <1>3, <2>1
  <2> HIDE DEF j
  <2>3. w[j] = w[i + k] \o Piece(s, j) /\ Piece(s, j) \in Seq(Byte)
    BY <1>1, <2>1, PieceFacts
  <2>4. w[i] \in Seq(Byte)
    BY <1>1
  <2>5. w[j] = w[i] \o (u \o Piece(s, j)) /\ u \o Piece(s, j) \in Seq(Byte)
    <3> DEFINE a == w[i]
               b == Piece(s, j)
    <3>1. a \in Seq(Byte) /\ b \in Seq(Byte) /\ w[j] = (a \o u) \o b
      BY <2>2, <2>3, <2>4
    <3> HIDE DEF a, b
    <3>2. a \o (u \o b) = (a \o u) \o b /\ u \o b \in Seq(Byte)
      BY <3>1, Regroup, ConcatProperties
    <3> QED BY <3>1, <3>2 DEF a, b
  <2> QED BY <2>5 DEF j
<1>4. n - i \in N
  <2> HIDE DEF N
  <2>1. Nat \subseteq N
    BY <1>2, <1>3, Induct
  <2> QED BY <1>1, <2>1
<1>5. PICK u \in Seq(Byte) : w[n] = w[i] \o u
  <2>1. i + (n - i) = n /\ i + (n - i) <= n
    BY <1>1
  <2> QED BY <1>4, <2>1
<1> DEFINE a == w[i]
           b == w[n]
<1>6. a \in Seq(Byte) /\ b \in Seq(Byte)
  <2>1. i \in 0 .. n /\ n \in 0 .. n
    BY <1>1
  <2> HIDE DEF n
  <2> QED BY <1>1, <2>1
<1>7. b = a \o u
  BY <1>5
<1> HIDE DEF a, b
<1>8. Len(a) <= Len(b) /\ \A j \in 1 .. Len(a) : a[j] = b[j]
  BY <1>6, <1>7, ConcatIs
<1>9. IsPrefix(a, b)
  BY <1>6, <1>8, PrefixIs
<1> QED BY <1>9 DEF a, b
(* A quoted-printable encoder that has had i bytes of s: its output spells *)
(* what they become, up to the byte it holds.                              *)
QuotedUpTo(s, w, i) ==
  {x \in Encoder("quoted-printable") :
     /\ x.state = 0 => /\ i # 0 => s[i] # CR
                       /\ Spells("quoted-printable", x.out, w[i])
     /\ x.state = 1 => /\ i # 0 /\ x.cache = s[i]
                       /\ Spells("quoted-printable", x.out, w[i - 1])}

LEMMA QuotedOut ==
  ASSUME NEW s \in Seq(Byte), NUL \notin ToSet(s), NEW w, Grows(s, w),
         NEW i \in 0 .. Len(s), NEW x \in QuotedUpTo(s, w, i),
         NEW c \in Byte, (c = LF) = (i < Len(s) /\ s[i + 1] = LF)
  PROVE  Spells("quoted-printable", EncodeQuoted(x, c).out, w[i])
<1> DEFINE enc == "quoted-printable"
           y == EncodeQuoted(x, c)
           p == x.cache
<1>1. /\ x \in Encoder(enc) /\ x \in Coders /\ x.state \in {0, 1}
      /\ x.out \in Seq(Byte) /\ p \in Byte
  BY DEF QuotedUpTo, Encoder, Coders
<1>2. /\ x.state = 0 => Put(y, x, 1, c, x.column, << >>)
      /\ x.state = 1 /\ (p = LF \/ (p = CR /\ c # LF)) => Put(y, x, 1, c, 0, NewLine)
      /\ x.state = 1 /\ p = CR /\ c = LF => Put(y, x, 1, c, x.column, << >>)
      /\ x.state = 1 /\ p \notin {NUL, LF, CR} =>
           Put(y, x, 1, c, QuotedColumn(x), SoftBreak(x) \o Written(p))
  BY <1>1, EncodeQuotedIs
<1> HIDE DEF y, p
<1>3. CASE x.state = 0
  <2>1. y.out = x.out
    BY <1>1, <1>2, <1>3, ConcatEmptySeq DEF Put
  <2>2. Spells(enc, x.out, w[i])
    BY <1>3 DEF QuotedUpTo
  <2> QED BY <2>1, <2>2 DEF y
<1>4. CASE x.state = 1
  <2>1. i # 0 /\ p = s[i] /\ Spells(enc, x.out, w[i - 1])
    BY <1>4 DEF QuotedUpTo, p
  <2>2. i \in 1 .. Len(s) /\ Len(s) \in Nat
    BY <2>1, LenProperties
  <2>3. p # NUL
    <3>1. i \in DOMAIN s
      BY <2>2, LenProperties
    <3> QED BY <2>1, <3>1 DEF ToSet
  <2>4. w[i] = w[i - 1] \o Piece(s, i)
    BY <2>2 DEF Grows
  <2>5. ASSUME NEW col, NEW b, Put(y, x, 1, c, col, b), Spells(enc, b, Piece(s, i))
        PROVE  Spells(enc, y.out, w[i])
    <3> DEFINE u == w[i - 1]
               v == Piece(s, i)
    <3>1. Spells(enc, x.out, u) /\ Spells(enc, b, v) /\ w[i] = u \o v
      BY <2>1, <2>4, <2>5
    <3> HIDE DEF u, v
    <3>2. Spells(enc, x.out \o b, u \o v)
      BY <3>1, SpellsBoth
    <3>3. y.out = x.out \o b
      BY <2>5 DEF Put
    <3> QED BY <3>1, <3>2, <3>3
  <2>6. CASE p = LF
    <3>0. LF # CR
      BY ByteFacts
    <3>1. Piece(s, i) = NewLine
      BY <2>1, <2>6, <3>0 DEF Piece
    <3>2. Spells(enc, NewLine, NewLine)
      BY BreakSpells
    <3>3. Put(y, x, 1, c, 0, NewLine)
      BY <1>2, <1>4, <2>6
    <3> QED BY <2>5, <3>1, <3>2, <3>3 DEF y
  <2>7. CASE p = CR /\ c # LF
    <3>0. LF # CR
      BY ByteFacts
    <3>1. Piece(s, i) = NewLine
      BY <2>1, <2>7, <3>0 DEF Piece
    <3>2. Spells(enc, NewLine, NewLine)
      BY BreakSpells
    <3>3. Put(y, x, 1, c, 0, NewLine)
      BY <1>2, <1>4, <2>7
    <3> QED BY <2>5, <3>1, <3>2, <3>3 DEF y
  <2>8. CASE p = CR /\ c = LF
    <3>0. LF # CR
      BY ByteFacts
    <3>1. Piece(s, i) = << >>
      BY <2>1, <2>8, <3>0 DEF Piece
    <3>2. Spells(enc, << >>, << >>)
      BY SpellsNothing
    <3>3. Put(y, x, 1, c, x.column, << >>)
      BY <1>2, <1>4, <2>8
    <3> QED BY <2>5, <3>1, <3>2, <3>3 DEF y
  <2>9. CASE p \notin {LF, CR}
    <3>1. Piece(s, i) = <<p>>
      BY <2>1, <2>9 DEF Piece
    <3> DEFINE a == SoftBreak(x)
               b == Written(p)
    <3>2. Spells(enc, a, << >>) /\ Spells(enc, b, <<p>>)
      BY <1>1, BreakSpells, WrittenSpells
    <3>3. Put(y, x, 1, c, QuotedColumn(x), a \o b)
      BY <1>2, <1>4, <2>3, <2>9
    <3> HIDE DEF a, b
    <3>4. Spells(enc, a \o b, << >> \o <<p>>)
      BY <3>2, SpellsBoth
    <3>5. << >> \o <<p>> = <<p>>
      <4>1. <<p>> \in Seq(Byte)
        BY <1>1
      <4> QED BY <4>1, ConcatEmptySeq
    <3>6. Spells(enc, a \o b, Piece(s, i))
      BY <3>1, <3>4, <3>5
    <3> QED BY <2>5, <3>3, <3>6 DEF y
  <2> QED BY <2>6, <2>7, <2>8, <2>9
<1> QED BY <1>1, <1>3, <1>4

LEMMA QuotedStep ==
  ASSUME NEW s \in Seq(Byte), NUL \notin ToSet(s), NEW w, Grows(s, w),
         NEW i \in 1 .. Len(s), NEW x \in QuotedUpTo(s, w, i - 1)
  PROVE  EncodeQuoted(x, s[i]) \in QuotedUpTo(s, w, i)
<1> DEFINE y == EncodeQuoted(x, s[i])
           j == i - 1
           c == s[i]
<1>1. /\ Len(s) \in Nat /\ c \in Byte /\ j \in 0 .. Len(s) /\ j < Len(s) /\ j + 1 = i /\ i # 0
  BY LenProperties
<1>2. x \in Encoder("quoted-printable") /\ x \in QuotedUpTo(s, w, j)
  BY DEF QuotedUpTo
<1>3. y \in Encoder("quoted-printable") /\ y.state = 1 /\ y.cache = c
  BY <1>1, <1>2, EncodeQuotedFacts
<1>4. (c = LF) = (j < Len(s) /\ s[j + 1] = LF)
  BY <1>1
<1> HIDE DEF j, c
<1>5. Spells("quoted-printable", EncodeQuoted(x, c).out, w[j])
  BY <1>1, <1>2, <1>4, QuotedOut
<1>6. y = EncodeQuoted(x, c)
  BY DEF c
<1> HIDE DEF y
<1>7. y \in QuotedUpTo(s, w, i)
  BY <1>1, <1>3, <1>5, <1>6 DEF QuotedUpTo, j, c
<1> QED BY <1>7 DEF y

(* A flush in the middle of the text must not come between a CR and its LF.*)
LEMMA QuotedFlush ==
  ASSUME NEW s \in Seq(Byte), NUL \notin ToSet(s), NEW w, Grows(s, w),
         NEW i \in 0 .. Len(s), NEW x \in QuotedUpTo(s, w, i),
         i < Len(s) => s[i + 1] # LF
  PROVE  Spells("quoted-printable", FlushEncoder("quoted-printable", x).out, w[i])
<1>1. x \in Encoder("quoted-printable")
  BY DEF QuotedUpTo
<1>2. NUL \in Byte /\ NUL # LF
  BY ByteFacts
<1>3. (NUL = LF) = (i < Len(s) /\ s[i + 1] = LF)
  BY <1>2
<1>4. Spells("quoted-printable", EncodeQuoted(x, NUL).out, w[i])
  BY <1>2, <1>3, QuotedOut
<1>5. FlushEncoder("quoted-printable", x).out = EncodeQuoted(x, NUL).out
  BY <1>1, FlushIs
<1> QED BY <1>4, <1>5

(* The escape spells "From ".                                              *)
OneLonger(p, c, t) ==
  /\ p \in Seq(Byte) /\ c \in Byte /\ t \in Seq(Byte)
  /\ Len(t) = Len(p) + 1 /\ t[Len(p) + 1] = c
  /\ \A i \in 1 .. Len(p) : p[i] = t[i]

LEMMA Appended ==
  ASSUME NEW p, NEW c, NEW t, OneLonger(p, c, t)
  PROVE  p \o <<c>> = t
<1> DEFINE z == <<c>>
           u == p \o z
           n == Len(p)
<1>0. /\ p \in Seq(Byte) /\ c \in Byte /\ t \in Seq(Byte) /\ n \in Nat
      /\ Len(p) = n /\ Len(t) = n + 1 /\ t[n + 1] = c /\ \A i \in 1 .. n : p[i] = t[i]
  BY LenProperties DEF OneLonger
<1> HIDE DEF n
<1>1. z \in Seq(Byte) /\ Len(z) = 1 /\ z[1] = c
  BY <1>0
<1> HIDE DEF z
<1>2. /\ u \in Seq(Byte) /\ Len(u) = n + 1
      /\ \A i \in 1 .. n : u[i] = p[i]
      /\ \A i \in 1 .. 1 : u[n + i] = z[i]
  BY <1>0, <1>1, ConcatIs
<1> HIDE DEF u
<1>3. u[n + 1] = c
  BY <1>1, <1>2
<1>4. ASSUME NEW i \in 1 .. n + 1 PROVE u[i] = t[i]
  <2>1. i \in 1 .. n \/ i = n + 1
    BY <1>0
  <2> QED BY <1>0, <1>2, <1>3, <2>1
<1>5. u = t
  BY <1>0, <1>2, <1>4, SeqEqual
<1> QED BY <1>5 DEF u, z

LEMMA EscapeGrows ==
  ASSUME NEW s \in Seq(Byte), NEW w, Grows(s, w), NEW a \in Nat, a + 5 <= Len(s),
         IsFrom(s, a), NEW o, Spells("quoted-printable", o, w[a])
  PROVE  Spells("quoted-printable", o \o EscapedFrom, w[a + 5])
<1> DEFINE enc == "quoted-printable"
           e3 == <<EQ, 52, 54>>
           e4 == <<EQ, 52, 54, 114>>
           e5 == <<EQ, 52, 54, 114, 111>>
           e6 == <<EQ, 52, 54, 114, 111, 109>>
           e7 == EscapedFrom
<1>0. /\ EQ \in Byte /\ 52 \in Byte /\ 54 \in Byte /\ 114 \in Byte /\ 111 \in Byte
      /\ 109 \in Byte /\ SP \in Byte /\ 70 \in Byte
  BY SMT DEF EQ, SP, Byte
<1>1. /\ e3 \in Seq(Byte) /\ e4 \in Seq(Byte) /\ e5 \in Seq(Byte) /\ e6 \in Seq(Byte)
      /\ e7 \in Seq(Byte)
      /\ Len(e3) = 3 /\ Len(e4) = 4 /\ Len(e5) = 5 /\ Len(e6) = 6 /\ Len(e7) = 7
  BY <1>0 DEF EscapedFrom
<1>2. /\ e4[4] = 114 /\ \A i \in 1 .. 3 : e3[i] = e4[i]
      /\ e5[5] = 111 /\ \A i \in 1 .. 4 : e4[i] = e5[i]
  OBVIOUS
<1>3. /\ e6[6] = 109 /\ \A i \in 1 .. 5 : e5[i] = e6[i]
      /\ e7[7] = SP /\ \A i \in 1 .. 6 : e6[i] = e7[i]
  BY DEF EscapedFrom
<1> HIDE DEF e3, e4, e5, e6, e7
<1>4. /\ OneLonger(e3, 114, e4) /\ OneLonger(e4, 111, e5)
      /\ OneLonger(e5, 109, e6) /\ OneLonger(e6, SP, e7)
  BY <1>0, <1>1, <1>2, <1>3 DEF OneLonger
<1>5. e3 \o <<114>> = e4
  BY <1>4, Appended
<1>6. e4 \o <<111>> = e5
  BY <1>4, Appended
<1>7. e5 \o <<109>> = e6
  BY <1>4, Appended
<1>8. e6 \o <<SP>> = e7
  BY <1>4, Appended
<1>9. ASSUME NEW k \in 1 .. 5
      PROVE  /\ Piece(s, a + k) = <<From[k]>>
             /\ w[a + k] = w[(a + k) - 1] \o Piece(s, a + k)
             /\ From[k] \in Byte /\ From[k] # EQ
  <2>1. From[k] \in Byte /\ From[k] # EQ /\ From[k] # LF /\ From[k] # CR
    <3>1. k = 1 \/ k = 2 \/ k = 3 \/ k = 4 \/ k = 5
      OBVIOUS
    <3>2. 70 # EQ /\ 114 # EQ /\ 111 # EQ /\ 109 # EQ /\ SP # EQ
      BY DEF EQ, SP
    <3>3. /\ 70 # LF /\ 114 # LF /\ 111 # LF /\ 109 # LF /\ SP # LF
          /\ 70 # CR /\ 114 # CR /\ 111 # CR /\ 109 # CR /\ SP # CR
      BY DEF LF, CR, SP
    <3> QED BY <1>0, <3>1, <3>2, <3>3, FromFacts
  <2>2. s[a + k] = From[k]
    BY DEF IsFrom
  <2>3. Piece(s, a + k) = <<From[k]>>
    BY <2>1, <2>2 DEF Piece
  <2>4. a + k \in 1 .. Len(s)
    BY LenProperties
  <2> DEFINE j == a + k
  <2> HIDE DEF j
  <2>5. w[j] = w[j - 1] \o Piece(s, j)
    BY <2>4 DEF Grows, j
  <2> QED BY <2>1, <2>3, <2>5 DEF j
<1>10. ASSUME NEW k \in 1 .. 5, NEW p, NEW b, Spells(enc, p, w[(a + k) - 1]),
              Spells(enc, b, <<From[k]>>)
       PROVE  Spells(enc, p \o b, w[a + k])
  <2> DEFINE u == w[(a + k) - 1]
             v == <<From[k]>>
  <2>1. Spells(enc, p, u) /\ Spells(enc, b, v) /\ w[a + k] = u \o v
    BY <1>9, <1>10
  <2> HIDE DEF u, v
  <2> QED BY <2>1, SpellsBoth
<1>11. /\ From[1] = 70 /\ From[2] = 114 /\ From[3] = 111 /\ From[4] = 109 /\ From[5] = SP
  BY FromFacts
<1>12. Spells(enc, e3, <<70>>)
  <2>1. HexDigit(4) = 52 /\ HexDigit(6) = 54 /\ 4 * 16 + 6 = 70 /\ 4 \in 0 .. 15 /\ 6 \in 0 .. 15
    BY DEF HexDigit
  <2> DEFINE m == 4
             n == 6
  <2>2. HexDigit(m) = 52 /\ HexDigit(n) = 54 /\ m * 16 + n = 70 /\ m \in 0 .. 15 /\ n \in 0 .. 15
    BY <2>1
  <2> HIDE DEF m, n
  <2>3. Spells(enc, <<EQ, HexDigit(m), HexDigit(n)>>, <<m * 16 + n>>)
    BY <2>2, HexSpells
  <2> QED BY <2>2, <2>3 DEF e3
<1>13. /\ Spells(enc, <<114>>, <<From[2]>>) /\ Spells(enc, <<111>>, <<From[3]>>)
       /\ Spells(enc, <<109>>, <<From[4]>>) /\ Spells(enc, <<SP>>, <<From[5]>>)
  <2>1. ASSUME NEW k \in 1 .. 5 PROVE Spells(enc, <<From[k]>>, <<From[k]>>)
    <3> DEFINE c == From[k]
    <3>1. c \in Byte /\ c # EQ
      BY <1>9
    <3> HIDE DEF c
    <3>2. Spells(enc, <<c>>, <<c>>)
      BY <3>1, PlainSpells
    <3> QED BY <3>2 DEF c
  <2>2. 2 \in 1 .. 5 /\ 3 \in 1 .. 5 /\ 4 \in 1 .. 5 /\ 5 \in 1 .. 5
    OBVIOUS
  <2>3. /\ Spells(enc, <<From[2]>>, <<From[2]>>) /\ Spells(enc, <<From[3]>>, <<From[3]>>)
        /\ Spells(enc, <<From[4]>>, <<From[4]>>) /\ Spells(enc, <<From[5]>>, <<From[5]>>)
    BY <2>1, <2>2
  <2> QED BY <1>11, <2>3
<1>14. /\ (a + 1) - 1 = a /\ (a + 2) - 1 = a + 1 /\ (a + 3) - 1 = a + 2
       /\ (a + 4) - 1 = a + 3 /\ (a + 5) - 1 = a + 4
       /\ 1 \in 1 .. 5 /\ 2 \in 1 .. 5 /\ 3 \in 1 .. 5 /\ 4 \in 1 .. 5 /\ 5 \in 1 .. 5
  OBVIOUS
<1> DEFINE p1 == o \o e3
           p2 == p1 \o <<114>>
           p3 == p2 \o <<111>>
           p4 == p3 \o <<109>>
           p5 == p4 \o <<SP>>
<1>15. Spells(enc, p1, w[a + 1])
  BY <1>10, <1>11, <1>12, <1>14
<1> HIDE DEF p1
<1>16. Spells(enc, p2, w[a + 2])
  BY <1>10, <1>13, <1>14, <1>15
<1> HIDE DEF p2
<1>17. Spells(enc, p3, w[a + 3])
  BY <1>10, <1>13, <1>14, <1>16
<1> HIDE DEF p3
<1>18. Spells(enc, p4, w[a + 4])
  BY <1>10, <1>13, <1>14, <1>17
<1> HIDE DEF p4
<1>19. Spells(enc, p5, w[a + 5])
  BY <1>10, <1>13, <1>14, <1>18
<1> HIDE DEF p5
<1>20. o \in Seq(Byte)
  BY DEF Spells
<1>21. ASSUME NEW p \in Seq(Byte), NEW c \in Byte
       PROVE  <<c>> \in Seq(Byte) /\ (o \o p) \o <<c>> = o \o (p \o <<c>>)
  <2>1. <<c>> \in Seq(Byte)
    OBVIOUS
  <2> QED BY <1>20, <2>1, Regroup
<1>22. p2 = o \o e4
  BY <1>0, <1>1, <1>5, <1>21 DEF p1, p2
<1>23. p3 = o \o e5
  BY <1>0, <1>1, <1>6, <1>21, <1>22 DEF p3
<1>24. p4 = o \o e6
  BY <1>0, <1>1, <1>7, <1>21, <1>23 DEF p4
<1>25. p5 = o \o e7
  BY <1>0, <1>1, <1>8, <1>21, <1>24 DEF p5
<1> QED BY <1>19, <1>25 DEF e7

(* A text that spells another one decodes to it, from the start or at last.*)
LEMMA SpellsWhole ==
  ASSUME NEW enc \in {"base64", "quoted-printable"}, NEW b, NEW v, Spells(enc, b, v)
  PROVE  DecodeBlock(enc, Filter, b).out = v /\ Decoded(enc, b) = v
<1> DEFINE x == DecodeBlock(enc, Filter, b)
<1>1. Filter \in Coders /\ Filter.state = 0 /\ Filter.out = << >>
  BY DEF Filter, Coders
<1>2. Filter \in Decoder(enc)
  BY <1>1 DEF Decoder, CacheFits
<1>3. b \in Seq(Byte) /\ v \in Seq(Byte)
  BY DEF Spells
<1>4. x \in Decoder(enc)
  BY <1>2, <1>3, BlockFacts
<1>5. x.state = 0 /\ x.out = Filter.out \o v
  BY <1>1, <1>2 DEF Spells
<1>6. Decoded(enc, b) = FlushDecoder(enc, x).out
  BY DEF Decoded, HasFilter
<1> HIDE DEF x
<1>7. << >> \o v = v /\ v \o << >> = v
  BY <1>3, ConcatEmptySeq
<1>8. x.out = v
  BY <1>1, <1>5, <1>7
<1>10. << >> \in Seq(Byte)
  BY ByteFacts
<1>11. FlushDecoder(enc, x).out = x.out \o LeftOver(enc, x)
  BY <1>4, <1>10, FlushFacts
<1>12. LeftOver(enc, x) = << >>
  BY <1>5 DEF LeftOver
<1> QED BY <1>6, <1>7, <1>8, <1>11, <1>12 DEF x

LEMMA QuotedPart ==
  ASSUME NEW s \in Seq(Byte), NUL \notin ToSet(s), NEW w, Grows(s, w),
         NEW a \in 0 .. Len(s), NEW b \in a .. Len(s), NEW f \in QuotedUpTo(s, w, a)
  PROVE  EncodeBytes("quoted-printable", f, SubSeq(s, a + 1, b)) \in QuotedUpTo(s, w, b)
<1> DEFINE enc == "quoted-printable"
           I == [i \in 0 .. Len(s) |-> QuotedUpTo(s, w, i)]
<1>1. Len(s) \in Nat /\ f \in Encoder(enc) /\ b \in 0 .. Len(s)
  BY LenProperties DEF QuotedUpTo
<1>2. \A i \in 0 .. Len(s) : I[i] = QuotedUpTo(s, w, i)
  OBVIOUS
<1> HIDE DEF I
<1>3. CarriesFrom(enc, s, a, b, I)
  <2> SUFFICES ASSUME NEW i \in a + 1 .. b, NEW x \in Encoder(enc), x \in I[i - 1]
               PROVE  EncodeByte(enc, x, s[i]) \in I[i]
    BY DEF CarriesFrom
  <2>1. i - 1 \in 0 .. Len(s) /\ i \in 0 .. Len(s) /\ i \in 1 .. Len(s)
    BY <1>1
  <2>2. x \in QuotedUpTo(s, w, i - 1)
    BY <1>2, <2>1
  <2>3. EncodeQuoted(x, s[i]) \in QuotedUpTo(s, w, i)
    BY <2>1, <2>2, QuotedStep
  <2>4. EncodeByte(enc, x, s[i]) = EncodeQuoted(x, s[i])
    BY DEF EncodeByte
  <2> QED BY <1>2, <2>1, <2>3, <2>4
<1>4. f \in I[a]
  BY <1>2
<1>5. EncodeBytes(enc, f, SubSeq(s, a + 1, b)) \in I[b]
  BY <1>1, <1>3, <1>4, PartInduct
<1> QED BY <1>1, <1>2, <1>5

LEMMA QuotedStart ==
  ASSUME Typed, encoding = "quoted-printable",
         NEW s \in Seq(Byte), NUL \notin ToSet(s), NEW a \in 0 .. Len(s),
         NEW w, Grows(s, w), filter \in QuotedUpTo(s, w, a),
         NEW e \in {0, 5}, e = 5 => a + 5 <= Len(s) /\ IsFrom(s, a)
  PROVE  Start(e) \in QuotedUpTo(s, w, a + e)
<1>1. a \in Nat /\ Len(s) \in Nat
  BY LenProperties
<1>2. CASE e = 0
  BY <1>1, <1>2 DEF Start
<1>3. CASE e = 5
  <2> DEFINE o == FlushEncoder(encoding, filter).out
             y == Escape
             j == a + 5
  <2>1. s[a + 1] # LF /\ s[a + 5] # CR
    <3>1. 1 \in 1 .. 5 /\ 5 \in 1 .. 5
      OBVIOUS
    <3>2. s[a + 1] = 70 /\ s[a + 5] = SP
      BY <1>3, <3>1, FromFacts DEF IsFrom
    <3> QED BY <3>2 DEF LF, CR, SP
  <2>2. Spells("quoted-printable", o, w[a])
    BY <1>1, <2>1, QuotedFlush
  <2>3. y \in Encoder("quoted-printable") /\ y.state = 0 /\ y.out = o \o EscapedFrom
    BY EscapeFacts
  <2> HIDE DEF o, y
  <2>4. Spells("quoted-printable", o \o EscapedFrom, w[a + 5])
    BY <1>1, <1>3, <2>2, EscapeGrows
  <2>5. Spells("quoted-printable", y.out, w[j]) /\ s[j] # CR
    BY <2>1, <2>3, <2>4 DEF j
  <2> HIDE DEF j
  <2>6. y \in QuotedUpTo(s, w, j)
    <3>1. /\ y.state = 0 => /\ j # 0 => s[j] # CR
                            /\ Spells("quoted-printable", y.out, w[j])
          /\ y.state = 1 => /\ j # 0 /\ y.cache = s[j]
                            /\ Spells("quoted-printable", y.out, w[j - 1])
      BY <2>3, <2>5
    <3> QED BY ONLY <2>3, <3>1 DEF QuotedUpTo
  <2>7. Start(e) = y
    BY <1>3 DEF Start, y
  <2> QED BY <1>3, <2>6, <2>7 DEF j
<1> QED BY <1>2, <1>3

(* What an encoder has had stays what it is when the text goes on.         *)
Begun(s, z) == /\ s \in Seq(Byte) /\ z \in Seq(Byte) /\ Len(s) <= Len(z)
               /\ \A i \in 1 .. Len(s) : z[i] = s[i]

LEMMA GrowthStays ==
  ASSUME NEW s, NEW z, Begun(s, z), NEW w, Grows(s, w), NEW v, Grows(z, v)
  PROVE  /\ \A i \in 0 .. Len(s) - 1 : v[i] = w[i]
         /\ Len(s) # 0 /\ s[Len(s)] # CR => v[Len(s)] = w[Len(s)]
         /\ v[0] = w[0]
<1> DEFINE n == Len(s)
           N == {k \in Nat : k < n => v[k] = w[k]}
<1>1. /\ s \in Seq(Byte) /\ z \in Seq(Byte) /\ n \in Nat /\ Len(z) \in Nat /\ n <= Len(z)
      /\ \A i \in 1 .. n : z[i] = s[i]
  BY LenProperties DEF Begun
<1>2. /\ w[0] = << >> /\ v[0] = << >>
      /\ \A i \in 1 .. n : w[i] = w[i - 1] \o Piece(s, i)
      /\ \A i \in 1 .. Len(z) : v[i] = v[i - 1] \o Piece(z, i)
  BY DEF Grows
<1> HIDE DEF n
<1>3. ASSUME NEW i \in 1 .. n, i < n \/ s[i] # CR PROVE Piece(z, i) = Piece(s, i)
  <2>1. z[i] = s[i] /\ (i < n => i + 1 \in 1 .. n /\ i < Len(z))
    BY <1>1
  <2>2. i < n => z[i + 1] = s[i + 1]
    BY <1>1, <2>1
  <2>3. CASE s[i] = CR /\ s[i] # LF
    <3>1. i < Len(s) /\ i < Len(z) /\ z[i + 1] = s[i + 1]
      BY <1>3, <2>1, <2>2, <2>3 DEF n
    <3> QED BY <2>1, <2>3, <3>1 DEF Piece
  <2>4. CASE s[i] = LF
    BY <2>1, <2>4, ByteFacts DEF Piece
  <2>5. CASE s[i] # CR /\ s[i] # LF
    BY <2>1, <2>5 DEF Piece
  <2> QED BY <2>3, <2>4, <2>5
<1>4. 0 \in N
  BY <1>2
<1>5. ASSUME NEW k \in Nat, k \in N PROVE k + 1 \in N
  <2> SUFFICES ASSUME k + 1 < n PROVE v[k + 1] = w[k + 1]
    OBVIOUS
  <2> DEFINE j == k + 1
  <2>1. j \in 1 .. n /\ j \in 1 .. Len(z) /\ j - 1 = k /\ k < n /\ j < n
    BY <1>1
  <2>2. v[k] = w[k]
    BY <1>5, <2>1
  <2> HIDE DEF j
  <2>3. Piece(z, j) = Piece(s, j)
    BY <1>3, <2>1
  <2>4. v[j] = v[j - 1] \o Piece(z, j) /\ w[j] = w[j - 1] \o Piece(s, j)
    BY <1>2, <2>1
  <2> QED BY <2>1, <2>2, <2>3, <2>4 DEF j
<1>6. Nat \subseteq N
  <2> HIDE DEF N
  <2> QED BY <1>4, <1>5, Induct
<1>7. \A i \in 0 .. n - 1 : v[i] = w[i]
  BY <1>1, <1>6
<1>8. ASSUME n # 0, s[n] # CR PROVE v[n] = w[n]
  <2>1. n \in 1 .. n /\ n \in 1 .. Len(z) /\ n - 1 \in 0 .. n - 1
    BY <1>1, <1>8
  <2>2. Piece(z, n) = Piece(s, n)
    BY <1>3, <1>8, <2>1
  <2>3. v[n] = v[n - 1] \o Piece(z, n) /\ w[n] = w[n - 1] \o Piece(s, n)
    BY <1>2, <2>1
  <2> QED BY <1>7, <2>1, <2>2, <2>3
<1> QED BY <1>2, <1>7, <1>8 DEF n

LEMMA QuotedStays ==
  ASSUME NEW s, NEW z, Begun(s, z), NEW w, Grows(s, w),
         NEW x \in QuotedUpTo(s, w, Len(s))
  PROVE  \E v : Grows(z, v) /\ x \in QuotedUpTo(z, v, Len(s))
<1> DEFINE n == Len(s)
<1>1. /\ s \in Seq(Byte) /\ z \in Seq(Byte) /\ n \in Nat /\ \A i \in 1 .. n : z[i] = s[i]
  BY LenProperties DEF Begun
<1>2. PICK v : Grows(z, v)
  BY <1>1, GrowthExists
<1>3. /\ \A i \in 0 .. n - 1 : v[i] = w[i]
      /\ n # 0 /\ s[n] # CR => v[n] = w[n]
      /\ v[0] = w[0]
  BY <1>2, GrowthStays
<1>4. /\ x \in Encoder("quoted-printable")
      /\ x.state = 0 => /\ n # 0 => s[n] # CR
                        /\ Spells("quoted-printable", x.out, w[n])
      /\ x.state = 1 => /\ n # 0 /\ x.cache = s[n]
                        /\ Spells("quoted-printable", x.out, w[n - 1])
  BY DEF QuotedUpTo
<1>5. n # 0 => z[n] = s[n] /\ v[n - 1] = w[n - 1]
  BY <1>1, <1>3
<1> HIDE DEF n
<1>6. x.state = 0 => /\ n # 0 => z[n] # CR
                     /\ Spells("quoted-printable", x.out, v[n])
  <2>1. CASE n = 0
    BY <1>3, <1>4, <2>1
  <2>2. CASE n # 0
    BY <1>3, <1>4, <1>5, <2>2
  <2> QED BY <2>1, <2>2
<1>7. x.state = 1 => /\ n # 0 /\ x.cache = z[n]
                     /\ Spells("quoted-printable", x.out, v[n - 1])
  BY <1>4, <1>5
<1>8. x \in QuotedUpTo(z, v, n)
  BY ONLY <1>4, <1>6, <1>7 DEF QuotedUpTo
<1> QED BY <1>2, <1>8 DEF n

(* A text that goes on with a piece of another one.                        *)
LEMMA GoesOn ==
  ASSUME NEW s \in Seq(Byte), NEW t \in Seq(Byte), NEW a \in 0 .. Len(t), NEW b \in a .. Len(t)
  PROVE  LET z == s \o SubSeq(t, a + 1, b)
         IN  /\ Begun(s, z) /\ Len(z) = Len(s) + (b - a) /\ Len(s) \in Nat
             /\ \A i \in 1 .. b - a : z[Len(s) + i] = t[a + i]
<1> DEFINE u == SubSeq(t, a + 1, b)
           z == s \o u
<1>1. u \in Seq(Byte) /\ Len(u) = b - a /\ \A i \in 1 .. b - a : u[i] = t[a + i]
  BY SubFacts
<1>2. Len(t) \in Nat
  BY LenProperties
<1> HIDE DEF u
<1>3. /\ z \in Seq(Byte) /\ Len(z) = Len(s) + Len(u) /\ Len(s) \in Nat /\ Len(u) \in Nat
      /\ \A i \in 1 .. Len(s) : z[i] = s[i]
      /\ \A i \in 1 .. Len(u) : z[Len(s) + i] = u[i]
  BY <1>1, ConcatIs
<1> HIDE DEF z
<1>4. Len(s) <= Len(z)
  BY <1>3
<1>5. Begun(s, z)
  BY <1>3, <1>4 DEF Begun
<1>6. Len(z) = Len(s) + (b - a) /\ \A i \in 1 .. b - a : z[Len(s) + i] = t[a + i]
  BY <1>1, <1>3
<1> QED BY <1>3, <1>5, <1>6 DEF z, u

LEMMA SamePiece ==
  ASSUME NEW s \in Seq(Byte), NEW t \in Seq(Byte),
         NEW a \in Nat, NEW b \in Nat, NEW n \in Nat, a + n <= Len(s), b + n <= Len(t),
         \A i \in 1 .. n : s[a + i] = t[b + i]
  PROVE  SubSeq(s, a + 1, a + n) = SubSeq(t, b + 1, b + n)
<1> DEFINE c == a + n
           d == b + n
           u == SubSeq(s, a + 1, c)
           v == SubSeq(t, b + 1, d)
<1>1. /\ a \in 0 .. Len(s) /\ c \in a .. Len(s) /\ c - a = n
      /\ b \in 0 .. Len(t) /\ d \in b .. Len(t) /\ d - b = n
  BY LenProperties
<1> HIDE DEF c, d
<1>2. u \in Seq(Byte) /\ Len(u) = c - a /\ \A i \in 1 .. c - a : u[i] = s[a + i]
  BY <1>1, SubFacts
<1>3. v \in Seq(Byte) /\ Len(v) = d - b /\ \A i \in 1 .. d - b : v[i] = t[b + i]
  BY <1>1, SubFacts
<1> HIDE DEF u, v
<1>4. Len(u) = Len(v) /\ \A i \in 1 .. Len(u) : u[i] = v[i]
  BY <1>1, <1>2, <1>3
<1>5. u = v
  BY <1>2, <1>3, <1>4, SeqEqual
<1> QED BY <1>5 DEF u, v, c, d

(* What is there before the end decodes to a beginning of it.              *)
LEMMA QuotedReads ==
  ASSUME NEW s \in Seq(Byte), NEW w, Grows(s, w), NEW i \in 0 .. Len(s),
         NEW x \in QuotedUpTo(s, w, i)
  PROVE  IsPrefix(DecodeBlock("quoted-printable", Filter, x.out).out, WithNewLines(s))
<1>1. WithNewLines(s) = w[Len(s)]
  BY GrowthIs
<1>2. PICK k \in 0 .. Len(s) : Spells("quoted-printable", x.out, w[k])
  <2>1. x.state \in {0, 1} /\ Len(s) \in Nat
    BY LenProperties DEF QuotedUpTo, Encoder, Coders
  <2>2. CASE x.state = 0
    BY <2>2 DEF QuotedUpTo
  <2>3. CASE x.state = 1
    <3>1. i # 0 /\ Spells("quoted-printable", x.out, w[i - 1])
      BY <2>3 DEF QuotedUpTo
    <3>2. i - 1 \in 0 .. Len(s)
      BY <2>1, <3>1
    <3> QED BY <3>1, <3>2
  <2> QED BY <2>1, <2>2, <2>3
<1>3. DecodeBlock("quoted-printable", Filter, x.out).out = w[k]
  BY <1>2, SpellsWhole
<1>4. IsPrefix(w[k], w[Len(s)])
  BY GrowthPrefix
<1> QED BY <1>1, <1>3, <1>4
-----------------------------------------------------------------------------
(* base64, group by group: the four numbers of six bits that a group is    *)
(* made of, and the three bytes that it stands for.                        *)
Sextet(n, i)  == (n \div Weight[i]) % 64
GroupBytes(n) == <<n \div 65536, (n \div 256) % 256, n % 256>>

LEMMA SextetFacts ==
  ASSUME NEW n \in Nat, n < 16777216
  PROVE  /\ \A i \in 1 .. 4 : Sextet(n, i) \in 0 .. 63
         /\ Sextet(n, 1) * 262144 + Sextet(n, 2) * 4096 + Sextet(n, 3) * 64 + Sextet(n, 4) = n
         /\ n % 64 = 0 => Sextet(n, 4) = 0
         /\ n % 4096 = 0 => Sextet(n, 3) = 0
<1> DEFINE a == n \div 262144
           b == n \div 4096
           c == n \div 64
<1>2. a \in Nat /\ b \in Nat /\ c \in Nat
  BY SMT
<1>3. a < 64 /\ a = b \div 64 /\ b = c \div 64
  BY SMT
<1>4. /\ Sextet(n, 1) = a % 64 /\ Sextet(n, 2) = b % 64 /\ Sextet(n, 3) = c % 64
      /\ Sextet(n, 4) = n % 64
  <2>1. n \div 1 = n
    BY SMT
  <2> QED BY SMT, <2>1 DEF Sextet, Weight
<1>1. ASSUME NEW i \in 1 .. 4 PROVE Sextet(n, i) \in 0 .. 63
  <2>1. i = 1 \/ i = 2 \/ i = 3 \/ i = 4
    BY SMT
  <2>2. /\ Sextet(n, 1) \in 0 .. 63 /\ Sextet(n, 2) \in 0 .. 63 /\ Sextet(n, 3) \in 0 .. 63
        /\ Sextet(n, 4) \in 0 .. 63
    BY SMT, <1>2, <1>4
  <2> QED BY <2>1, <2>2
<1>5. c = 64 * (c \div 64) + (c % 64) /\ b = 64 * (b \div 64) + (b % 64) /\ n = 64 * c + (n % 64)
  BY SMT, <1>2
<1>6. a % 64 = a
  BY SMT, <1>2, <1>3
<1>7. n % 4096 = 0 => c % 64 = 0
  BY SMT
<1> HIDE DEF a, b, c
<1>8. a * 262144 + (b % 64) * 4096 + (c % 64) * 64 + (n % 64) = n
  BY SMT, <1>2, <1>3, <1>5
<1> QED BY SMT, <1>1, <1>4, <1>6, <1>7, <1>8

LEMMA GroupFacts ==
  ASSUME NEW a \in Byte, NEW b \in Byte, NEW c \in Byte, NEW n, n = Group(a, b, c)
  PROVE  /\ n \in Nat /\ n < 16777216
         /\ n \div 65536 = a /\ (n \div 256) % 256 = b /\ n % 256 = c
         /\ c = 0 => n % 64 = 0
         /\ b = 0 /\ c = 0 => n % 4096 = 0
<1>1. n = a * 65536 + b * 256 + c /\ a \in 0 .. 255 /\ b \in 0 .. 255 /\ c \in 0 .. 255
  BY SMT DEF Group, Byte
<1>2. n \in Nat /\ n < 16777216
  BY SMT, <1>1
<1>3. n \div 65536 = a /\ n % 256 = c
  BY SMT, <1>1
<1>4. n \div 256 = a * 256 + b
  BY SMT, <1>1
<1>5. (n \div 256) % 256 = b
  BY SMT, <1>1, <1>4
<1>6. (c = 0 => n % 64 = 0) /\ (b = 0 /\ c = 0 => n % 4096 = 0)
  BY SMT, <1>1
<1> QED BY SMT, <1>2, <1>3, <1>5, <1>6

(* What the decoder does with a byte, state after state.                   *)
LEMMA DecodeSkips ==
  ASSUME NEW f \in Decoder("base64"), NEW c \in Byte, ~IsDigit(c)
  PROVE  DecodeBase64(f, c) = f
  BY DEF DecodeBase64

(* The cache with the next digit in it; x is the decoder f after a digit   *)
(* that is not the last of a group, and after one that is.                 *)
Adds(f, v) == (IF f.state = 0 THEN 0 ELSE f.cache) + v * Weight[f.state + 1]
Gathers(f, x, v) == x.state = f.state + 1 /\ x.cache = Adds(f, v) /\ x.out = f.out
Completes(f, x, v) == x.state = 0 /\ x.out = f.out \o GroupBytes(f.cache + v)

LEMMA DecodeDigit ==
  ASSUME NEW f \in Decoder("base64"), NEW c \in Byte, IsDigit(c),
         NEW x, x = DecodeBase64(f, c), NEW v, v = DigitValue(c)
  PROVE  /\ f.state \in {0, 1, 2} => Gathers(f, x, v)
         /\ f.state = 3 => Completes(f, x, v)
<1>1. f \in Coders /\ v \in 0 .. 63
  BY DigitFacts DEF Decoder
<1>2. ASSUME f.state \in {0, 1, 2} PROVE Gathers(f, x, v)
  <2> DEFINE k == Adds(f, v)
             t == f.state + 1
  <2>1. x = [f EXCEPT !.state = t, !.cache = k]
    BY SMT, <1>2 DEF DecodeBase64, Adds
  <2> HIDE DEF t, k
  <2>2. x.state = t /\ x.cache = k /\ x.out = f.out
    BY SMT, <1>1, <2>1 DEF Coders
  <2> QED BY <2>2 DEF t, k, Gathers
<1>3. ASSUME f.state = 3 PROVE Completes(f, x, v)
  <2> DEFINE bytes == GroupBytes(f.cache + v)
  <2>1. x = [Emit(f, bytes) EXCEPT !.state = 0]
    BY SMT, <1>3 DEF DecodeBase64, GroupBytes
  <2> HIDE DEF bytes
  <2>2. x.state = 0 /\ x.out = f.out \o bytes
    BY <1>1, <2>1 DEF Emit, Coders
  <2> QED BY <2>2 DEF bytes, Completes
<1> QED BY <1>2, <1>3

(* The digits of a group, one after another.                               *)
GroupUpTo(g, n, i) == DecodeBlock("base64", g, SubSeq(Digits(n), 1, i))
TakesDigit(x, y, c, v) ==
  /\ x \in Decoder("base64") /\ y = DecodeBase64(x, c)
  /\ c \in Byte /\ IsDigit(c) /\ DigitValue(c) = v

LEMMA GroupStep ==
  ASSUME NEW g \in Decoder("base64"), NEW n \in Nat, NEW i \in 1 .. 4, NEW m, m = i - 1
  PROVE  TakesDigit(GroupUpTo(g, n, m), GroupUpTo(g, n, i), DigitOf(n, i), Sextet(n, i))
<1> DEFINE d == Digits(n)
           a == SubSeq(d, 0 + 1, m)
           b == SubSeq(d, 0 + 1, i)
           c == DigitOf(n, i)
<1>1. d \in Seq(Byte) /\ Len(d) = 4 /\ d[i] = c /\ c = Digit(Sextet(n, i)) /\ Sextet(n, i) \in 0 .. 63
  BY DigitsFacts DEF Sextet
<1>2. c \in Byte /\ IsDigit(c) /\ DigitValue(c) = Sextet(n, i)
  BY <1>1, DigitOfFacts
<1> HIDE DEF d, c
<1>3. 0 \in 0 .. Len(d) /\ m \in 0 .. Len(d) /\ i \in 0 .. Len(d) /\ m \in Nat /\ i = m + 1
  BY <1>1
<1>4. ASSUME NEW k \in 0 .. Len(d)
      PROVE  /\ SubSeq(d, 0 + 1, k) \in Seq(Byte) /\ Len(SubSeq(d, 0 + 1, k)) = k
             /\ \A j \in 1 .. k : SubSeq(d, 0 + 1, k)[j] = d[j]
  <2> DEFINE z == SubSeq(d, 0 + 1, k)
  <2>1. /\ z \in Seq(Byte) /\ Len(z) = k - 0 /\ \A j \in 1 .. k - 0 : z[j] = d[0 + j]
    BY <1>1, <1>3, SubFacts
  <2> HIDE DEF z
  <2>2. k \in Nat /\ k - 0 = k /\ \A j \in 1 .. k : 0 + j = j
    BY <1>1
  <2>3. z \in Seq(Byte) /\ Len(z) = k /\ \A j \in 1 .. k : z[j] = d[j]
    BY <2>1, <2>2
  <2> QED BY <2>3 DEF z
<1>5. /\ a \in Seq(Byte) /\ Len(a) = m /\ \A k \in 1 .. m : a[k] = d[k]
      /\ b \in Seq(Byte) /\ Len(b) = i /\ \A k \in 1 .. i : b[k] = d[k]
  BY <1>3, <1>4
<1> HIDE DEF a, b
<1>6. OneLonger(a, c, b)
  BY <1>1, <1>2, <1>3, <1>5 DEF OneLonger
<1>7. a \o <<c>> = b
  BY <1>6, Appended
<1>8. DecodeBlock("base64", g, b) = DecodeByte("base64", DecodeBlock("base64", g, a), c)
  BY <1>2, <1>5, <1>7, OneMore
<1>9. DecodeBlock("base64", g, a) \in Decoder("base64")
  BY <1>5, BlockFacts
<1>10. GroupUpTo(g, n, m) = DecodeBlock("base64", g, a) /\ GroupUpTo(g, n, i) = DecodeBlock("base64", g, b)
  BY DEF GroupUpTo, a, b, d
<1>11. DecodeByte("base64", DecodeBlock("base64", g, a), c) = DecodeBase64(DecodeBlock("base64", g, a), c)
  BY DEF DecodeByte
<1> QED BY <1>2, <1>8, <1>9, <1>10, <1>11 DEF c, TakesDigit

(* x is the decoder g with the digits of n that there are in state s.      *)
HasDigits(g, x, s, n) ==
  x \in Decoder("base64") /\ x.state = s /\ x.out = g.out /\ x.cache = n
PassesGroup(g, x, n) == x.state = 0 /\ x.out = g.out \o GroupBytes(n)

LEMMA GroupDecodes ==
  ASSUME NEW g \in Decoder("base64"), g.state = 0, NEW n \in Nat, n < 16777216
  PROVE  /\ n % 4096 = 0 /\ n % 64 = 0 => HasDigits(g, GroupUpTo(g, n, 2), 2, n)
         /\ n % 64 = 0 => HasDigits(g, GroupUpTo(g, n, 3), 3, n)
         /\ PassesGroup(g, DecodeBlock("base64", g, Digits(n)), n)
<1> DEFINE x0 == GroupUpTo(g, n, 0)
           x1 == GroupUpTo(g, n, 1)
           x2 == GroupUpTo(g, n, 2)
           x3 == GroupUpTo(g, n, 3)
           x4 == GroupUpTo(g, n, 4)
           v1 == Sextet(n, 1)
           v2 == Sextet(n, 2)
           v3 == Sextet(n, 3)
           v4 == Sextet(n, 4)
<1>1. /\ v1 \in 0 .. 63 /\ v2 \in 0 .. 63 /\ v3 \in 0 .. 63 /\ v4 \in 0 .. 63
  BY SMT, SextetFacts
<1>2. /\ v1 * 262144 + v2 * 4096 + v3 * 64 + v4 = n
      /\ n % 64 = 0 => v4 = 0
      /\ n % 4096 = 0 => v3 = 0
  BY SextetFacts
<1>3. x0 = g
  <2> DEFINE z == SubSeq(Digits(n), 1, 0)
  <2>1. Digits(n) \in Seq(Byte) /\ z = << >> /\ << >> \in Seq(Byte)
    BY DigitsFacts, ByteFacts
  <2>2. x0 = DecodeBlock("base64", g, z)
    BY DEF GroupUpTo
  <2> HIDE DEF x0, z
  <2>3. DecodeBlock("base64", g, << >>) = g
    BY <2>1, BlockFacts
  <2> QED BY <2>1, <2>2, <2>3
<1>4. x4 = DecodeBlock("base64", g, Digits(n))
  <2> DEFINE d == Digits(n)
             z == SubSeq(d, 1, 4)
  <2>1. d \in Seq(Byte) /\ Len(d) = 4
    BY DigitsFacts
  <2>2. x4 = DecodeBlock("base64", g, z)
    BY DEF GroupUpTo
  <2> HIDE DEF d, x4
  <2>3. z = d
    BY <2>1
  <2> HIDE DEF z
  <2> QED BY <2>2, <2>3 DEF d
<1>5. ASSUME NEW i \in 1 .. 4, NEW m, m = i - 1, NEW v, v = Sextet(n, i),
             NEW x, x = GroupUpTo(g, n, m), NEW y, y = GroupUpTo(g, n, i)
      PROVE  /\ x \in Decoder("base64")
             /\ x.state \in {0, 1, 2} => Gathers(x, y, v)
             /\ x.state = 3 => Completes(x, y, v)
  <2> DEFINE c == DigitOf(n, i)
  <2>0. TakesDigit(GroupUpTo(g, n, m), GroupUpTo(g, n, i), DigitOf(n, i), Sextet(n, i))
    BY <1>5, GroupStep
  <2>2. TakesDigit(x, y, c, v)
    BY <1>5, <2>0
  <2> HIDE DEF c
  <2>1. /\ x \in Decoder("base64") /\ c \in Byte /\ IsDigit(c) /\ v = DigitValue(c)
        /\ y = DecodeBase64(x, c)
    BY <2>2 DEF TakesDigit
  <2> QED BY <2>1, DecodeDigit
<1> HIDE DEF v1, v2, v3, v4, x0, x1, x2, x3, x4
<1>6. /\ 2 - 1 = 1 /\ 3 - 1 = 2 /\ 4 - 1 = 3 /\ 1 - 1 = 0
      /\ 0 + 1 = 1 /\ 1 + 1 = 2 /\ 2 + 1 = 3
  OBVIOUS
<1>7. x1.state = 1 /\ x1.cache = Adds(x0, v1) /\ x1.out = g.out
  <2>1. Gathers(x0, x1, v1)
    BY <1>3, <1>5, <1>6 DEF x0, x1, v1
  <2> QED BY <1>3, <1>6, <2>1 DEF Gathers
<1>8. x2.state = 2 /\ x2.cache = Adds(x1, v2) /\ x2.out = x1.out
  <2>1. Gathers(x1, x2, v2)
    BY <1>5, <1>6, <1>7 DEF x1, x2, v2
  <2> QED BY <1>6, <1>7, <2>1 DEF Gathers
<1>9. x2 \in Decoder("base64") /\ x3.state = 3 /\ x3.cache = Adds(x2, v3) /\ x3.out = x2.out
  <2>1. x2 \in Decoder("base64") /\ Gathers(x2, x3, v3)
    BY <1>5, <1>6, <1>8 DEF x2, x3, v3
  <2> QED BY <1>6, <1>8, <2>1 DEF Gathers
<1>10. /\ x3 \in Decoder("base64") /\ x4.state = 0
       /\ x4.out = x3.out \o GroupBytes(x3.cache + v4)
  <2>1. x3 \in Decoder("base64") /\ Completes(x3, x4, v4)
    BY <1>5, <1>6, <1>9 DEF x3, x4, v4
  <2> QED BY <2>1 DEF Completes
<1>11. /\ x3.cache + v4 = n
       /\ n % 64 = 0 => x3.cache = n
       /\ n % 4096 = 0 /\ n % 64 = 0 => x2.cache = n
  <2>1. Adds(x0, v1) = v1 * 262144
    BY SMT, <1>1, <1>3 DEF Adds, Weight
  <2>2. Adds(x1, v2) = v1 * 262144 + v2 * 4096
    BY SMT, <1>1, <1>7, <2>1 DEF Adds, Weight
  <2>3. Adds(x2, v3) = v1 * 262144 + v2 * 4096 + v3 * 64
    BY SMT, <1>1, <1>8, <2>2 DEF Adds, Weight
  <2> QED BY SMT, <1>1, <1>2, <1>8, <1>9, <2>2, <2>3
<1>12. x4.out = g.out \o GroupBytes(n)
  <2> DEFINE z == x3.cache + v4
  <2>1. x4.out = x3.out \o GroupBytes(z)
    BY <1>10
  <2>2. z = n
    BY <1>11
  <2> HIDE DEF z
  <2>3. x3.out = g.out
    BY <1>7, <1>8, <1>9
  <2> QED BY <2>1, <2>2, <2>3
<1>13. n % 4096 = 0 /\ n % 64 = 0 => HasDigits(g, x2, 2, n)
  BY <1>7, <1>8, <1>9, <1>11 DEF HasDigits
<1>14. n % 64 = 0 => HasDigits(g, x3, 3, n)
  BY <1>7, <1>8, <1>9, <1>10, <1>11 DEF HasDigits
<1>15. PassesGroup(g, x4, n)
  <2>1. x4.state = 0
    BY <1>10
  <2> QED BY <1>12, <2>1 DEF PassesGroup
<1> QED BY <1>4, <1>13, <1>14, <1>15 DEF x2, x3

LEMMA GroupSpells ==
  ASSUME NEW a \in Byte, NEW b \in Byte, NEW c \in Byte
  PROVE  Spells("base64", Digits(Group(a, b, c)), <<a, b, c>>)
<1> DEFINE n == Group(a, b, c)
           d == Digits(n)
<1>1. n \in Nat /\ n < 16777216 /\ n \div 65536 = a /\ (n \div 256) % 256 = b /\ n % 256 = c
  BY GroupFacts
<1> HIDE DEF n
<1>2. GroupBytes(n) = <<a, b, c>>
  BY SMT, <1>1 DEF GroupBytes
<1>3. d \in Seq(Byte) /\ <<a, b, c>> \in Seq(Byte)
  BY <1>1, DigitsFacts
<1>4. ASSUME NEW g \in Decoder("base64"), g.state = 0
      PROVE  /\ DecodeBlock("base64", g, d).state = 0
             /\ DecodeBlock("base64", g, d).out = g.out \o <<a, b, c>>
  <2>1. PassesGroup(g, DecodeBlock("base64", g, d), n)
    BY <1>1, <1>4, GroupDecodes
  <2> QED BY <1>2, <2>1 DEF PassesGroup
<1>5. Spells("base64", d, <<a, b, c>>)
  BY <1>3, <1>4 DEF Spells
<1> QED BY <1>5 DEF n

(* Bytes that are no digits are skipped, line breaks for one.              *)
LEMMA SkipSpells ==
  ASSUME NEW c \in Byte, ~IsDigit(c)
  PROVE  Spells("base64", <<c>>, << >>)
<1>1. <<c>> \in Seq(Byte) /\ << >> \in Seq(Byte)
  BY ByteFacts
<1>2. ASSUME NEW g \in Decoder("base64"), g.state = 0
      PROVE  /\ DecodeBlock("base64", g, <<c>>).state = 0
             /\ DecodeBlock("base64", g, <<c>>).out = g.out \o << >>
  <2>1. DecodeBlock("base64", g, <<c>>) = DecodeBase64(g, c)
    BY OneByte DEF DecodeByte
  <2>2. DecodeBase64(g, c) = g
    BY DecodeSkips
  <2>3. g.out \o << >> = g.out
    BY ConcatEmptySeq DEF Decoder, Coders
  <2> QED BY <1>2, <2>1, <2>2, <2>3
<1> QED BY <1>1, <1>2 DEF Spells

LEMMA LineBreakSpells ==
  ASSUME NEW f
  PROVE  Spells("base64", LineBreak(f), << >>)
<1>1. CR \in Byte /\ LF \in Byte /\ ~IsDigit(CR) /\ ~IsDigit(LF)
  BY SMT DEF CR, LF, Byte, IsDigit
<1>2. Spells("base64", <<CR>>, << >>) /\ Spells("base64", <<LF>>, << >>)
  BY <1>1, SkipSpells
<1> DEFINE a == <<CR>>
           b == <<LF>>
           e == << >>
<1>3. Spells("base64", a, e) /\ Spells("base64", b, e)
  BY <1>2
<1>4. e \in Seq(Byte)
  BY ByteFacts
<1>5. e \o e = e
  BY <1>4, ConcatEmptySeq
<1>6. a \o b = NewLine
  BY <1>1, Joined DEF NewLine
<1> HIDE DEF a, b, e
<1>7. Spells("base64", a \o b, e \o e)
  BY <1>3, SpellsBoth
<1>8. Spells("base64", NewLine, e)
  BY <1>5, <1>6, <1>7
<1>9. Spells("base64", << >>, << >>)
  BY SpellsNothing
<1> QED BY <1>8, <1>9 DEF LineBreak, e

(* A base64 encoder that has had i bytes of s: its output spells all but   *)
(* the one or two that it holds of the next group.                         *)
BaseUpTo(s, i) ==
  {x \in Encoder("base64") :
     /\ x.state <= i
     /\ Spells("base64", x.out, SubSeq(s, 1, i - x.state))
     /\ x.state = 1 => x.cache = Group(s[i], 0, 0)
     /\ x.state = 2 => x.cache = Group(s[i - 1], s[i], 0)}

(* The first bytes of s with the next one, two or three.                   *)
LEMMA FirstBytes ==
  ASSUME NEW s \in Seq(Byte), NEW j \in 0 .. Len(s)
  PROVE  /\ SubSeq(s, 1, j) \in Seq(Byte)
         /\ j + 1 <= Len(s) => SubSeq(s, 1, j) \o <<s[j + 1]>> = SubSeq(s, 1, j + 1)
<1> DEFINE a == SubSeq(s, 0 + 1, j)
<1>1. Len(s) \in Nat /\ 0 \in 0 .. Len(s) /\ 0 + 1 = 1 /\ j \in Nat
  BY LenProperties
<1>2. ASSUME NEW k \in 0 .. Len(s)
      PROVE  /\ SubSeq(s, 0 + 1, k) \in Seq(Byte) /\ Len(SubSeq(s, 0 + 1, k)) = k
             /\ \A i \in 1 .. k : SubSeq(s, 0 + 1, k)[i] = s[i]
  <2> DEFINE z == SubSeq(s, 0 + 1, k)
  <2>1. /\ z \in Seq(Byte) /\ Len(z) = k - 0 /\ \A i \in 1 .. k - 0 : z[i] = s[0 + i]
    BY <1>1, SubFacts
  <2> HIDE DEF z
  <2>2. k \in Nat /\ k - 0 = k /\ \A i \in 1 .. k : 0 + i = i
    BY <1>1
  <2>3. z \in Seq(Byte) /\ Len(z) = k /\ \A i \in 1 .. k : z[i] = s[i]
    BY <2>1, <2>2
  <2> QED BY <2>3 DEF z
<1>3. ASSUME j + 1 <= Len(s)
      PROVE  SubSeq(s, 1, j) \o <<s[j + 1]>> = SubSeq(s, 1, j + 1)
  <2> DEFINE c == s[j + 1]
             t == SubSeq(s, 0 + 1, j + 1)
  <2>1. j + 1 \in 0 .. Len(s) /\ j + 1 \in 1 .. Len(s) /\ c \in Byte
    BY <1>1, <1>3, LenProperties
  <2>2. a \in Seq(Byte) /\ Len(a) = j /\ \A i \in 1 .. j : a[i] = s[i]
    BY <1>2
  <2>3. t \in Seq(Byte) /\ Len(t) = j + 1 /\ \A i \in 1 .. j + 1 : t[i] = s[i]
    BY <1>2, <2>1
  <2> HIDE DEF a, t
  <2>4. t[j + 1] = c /\ \A i \in 1 .. j : a[i] = t[i]
    BY <1>1, <2>2, <2>3
  <2> HIDE DEF c
  <2>5. OneLonger(a, c, t)
    BY <2>1, <2>2, <2>3, <2>4 DEF OneLonger
  <2>6. a \o <<c>> = t
    BY <2>5, Appended
  <2> QED BY <2>6, <1>1 DEF a, c, t
<1>4. SubSeq(s, 1, j) \in Seq(Byte)
  BY <1>1, <1>2
<1> QED BY <1>3, <1>4

LEMMA ThreeMore ==
  ASSUME NEW s \in Seq(Byte), NEW j \in Nat, j + 3 <= Len(s)
  PROVE  SubSeq(s, 1, j) \o <<s[j + 1], s[j + 2], s[j + 3]>> = SubSeq(s, 1, j + 3)
<1> DEFINE p == SubSeq(s, 1, j)
           a == s[j + 1]
           b == s[j + 2]
           c == s[j + 3]
<1>1. Len(s) \in Nat /\ j \in 0 .. Len(s) /\ j + 1 \in 0 .. Len(s) /\ j + 2 \in 0 .. Len(s)
  BY LenProperties
<1>2. (j + 1) + 1 = j + 2 /\ (j + 2) + 1 = j + 3 /\ j + 1 <= Len(s) /\ j + 2 <= Len(s)
  BY <1>1
<1>3. a \in Byte /\ b \in Byte /\ c \in Byte
  BY <1>1, LenProperties
<1>4. p \in Seq(Byte) /\ p \o <<a>> = SubSeq(s, 1, j + 1)
  BY <1>1, <1>2, FirstBytes
<1>5. SubSeq(s, 1, j + 1) \o <<b>> = SubSeq(s, 1, j + 2)
  BY <1>1, <1>2, FirstBytes
<1>6. SubSeq(s, 1, j + 2) \o <<c>> = SubSeq(s, 1, j + 3)
  BY <1>1, <1>2, FirstBytes
<1> HIDE DEF p, a, b, c
<1>7. ((p \o <<a>>) \o <<b>>) \o <<c>> = SubSeq(s, 1, j + 3)
  BY <1>4, <1>5, <1>6
<1>8. <<a>> \in Seq(Byte) /\ <<b>> \in Seq(Byte) /\ <<c>> \in Seq(Byte) /\ <<a, b>> \in Seq(Byte)
  BY <1>3
<1>9. (p \o <<a>>) \o <<b>> = p \o <<a, b>>
  <2>1. <<a>> \o <<b>> = <<a, b>>
    BY <1>3, Joined
  <2> DEFINE u == <<a>>
             v == <<b>>
  <2>2. p \in Seq(Byte) /\ u \in Seq(Byte) /\ v \in Seq(Byte)
    BY <1>4, <1>8
  <2> HIDE DEF u, v
  <2>3. p \o (u \o v) = (p \o u) \o v
    BY <2>2, Regroup
  <2> QED BY <2>1, <2>3 DEF u, v
<1>10. <<a, b>> \o <<c>> = <<a, b, c>>
  BY <1>3, Joined
<1>11. (p \o <<a, b>>) \o <<c>> = p \o <<a, b, c>>
  BY <1>4, <1>8, <1>10, Regroup
<1> QED BY <1>7, <1>9, <1>11 DEF p, a, b, c

LEMMA GroupSums ==
  ASSUME NEW a \in Byte, NEW b \in Byte, NEW c \in Byte
  PROVE  /\ a * 65536 = Group(a, 0, 0)
         /\ Group(a, 0, 0) + b * 256 = Group(a, b, 0)
         /\ Group(a, b, 0) + c = Group(a, b, c)
  BY SMT DEF Group, Byte

LEMMA BaseStep ==
  ASSUME NEW s \in Seq(Byte), NEW i \in 1 .. Len(s), NEW x \in BaseUpTo(s, i - 1)
  PROVE  EncodeBase64(x, s[i]) \in BaseUpTo(s, i)
<1> DEFINE c == s[i]
           y == EncodeBase64(x, c)
<1>1. /\ Len(s) \in Nat /\ i \in Nat /\ c \in Byte /\ x \in Encoder("base64")
      /\ x.state \in {0, 1, 2} /\ x.state <= i - 1 /\ x \in Coders
  BY LenProperties DEF BaseUpTo, Encoder, Coders
<1>2. y \in Encoder("base64")
  BY <1>1, EncodeBase64Facts
<1>3. /\ x.state = 0 => Put(y, x, 1, c * 65536, x.column, << >>)
      /\ x.state = 1 => Put(y, x, 2, x.cache + c * 256, x.column, << >>)
      /\ x.state = 2 => Put(y, x, 0, x.cache, BaseColumn(x), LineBreak(x) \o Digits(x.cache + c))
  BY <1>1, EncodeBase64Is
<1>4. x.out \in Seq(Byte) /\ x.out \o << >> = x.out
  BY <1>1, ConcatEmptySeq DEF Coders
<1> HIDE DEF y
<1>5. CASE x.state = 0
  <2>1. y.state = 1 /\ y.cache = c * 65536 /\ y.out = x.out
    BY <1>3, <1>4, <1>5 DEF Put
  <2>2. c * 65536 = Group(c, 0, 0)
    <3> HIDE DEF c
    <3> QED BY SMT, <1>1, GroupSums
  <2>3. Spells("base64", x.out, SubSeq(s, 1, (i - 1) - x.state)) /\ (i - 1) - x.state = i - 1
    BY <1>1, <1>5 DEF BaseUpTo
  <2>4. Spells("base64", y.out, SubSeq(s, 1, i - y.state)) /\ y.state <= i
    BY <1>1, <2>1, <2>3
  <2>5. y \in BaseUpTo(s, i)
    BY <1>2, <2>1, <2>2, <2>4 DEF BaseUpTo
  <2> QED BY <2>5 DEF y
<1>6. CASE x.state = 1
  <2> DEFINE a == s[i - 1]
  <2>1. y.state = 2 /\ y.cache = x.cache + c * 256 /\ y.out = x.out
    BY <1>3, <1>4, <1>6 DEF Put
  <2>2. i >= 2 /\ i - 1 \in 1 .. Len(s)
    BY <1>1, <1>6
  <2>3. x.cache = Group(a, 0, 0) /\ a \in Byte
    BY <1>6, <2>2, LenProperties DEF BaseUpTo
  <2> HIDE DEF a
  <2>4. x.cache + c * 256 = Group(a, c, 0)
    <3> HIDE DEF c
    <3>1. Group(a, 0, 0) + c * 256 = Group(a, c, 0)
      BY SMT, <1>1, <2>3, GroupSums
    <3> QED BY SMT, <2>3, <3>1
  <2>5. Spells("base64", x.out, SubSeq(s, 1, (i - 1) - x.state)) /\ (i - 1) - x.state = i - 2
    BY <1>1, <1>6 DEF BaseUpTo
  <2>6. Spells("base64", y.out, SubSeq(s, 1, i - y.state)) /\ y.state <= i
    BY <1>1, <2>1, <2>2, <2>5
  <2>7. y.cache = Group(s[i - 1], s[i], 0)
    BY <2>1, <2>4 DEF a
  <2>8. y \in BaseUpTo(s, i)
    BY <1>2, <2>1, <2>6, <2>7 DEF BaseUpTo
  <2> QED BY <2>8 DEF y
<1>7. CASE x.state = 2
  <2>0. Put(y, x, 0, x.cache, BaseColumn(x), LineBreak(x) \o Digits(x.cache + c))
    BY SMT, <1>3, <1>7
  <2> DEFINE j == i - 3
             a == s[j + 1]
             b == s[j + 2]
             v == SubSeq(s, 1, j)
             n == x.cache + c
             d == Digits(n)
             k == LineBreak(x)
  <2>1. y.state = 0 /\ y.out = x.out \o (k \o d)
    BY <2>0 DEF Put
  <2>2. /\ j \in Nat /\ j + 3 = i /\ j + 3 <= Len(s) /\ j + 1 = (i - 1) - 1 /\ j + 2 = i - 1
        /\ (i - 1) - x.state = j /\ j + 1 \in 1 .. Len(s) /\ j + 2 \in 1 .. Len(s)
    BY <1>1, <1>7
  <2>3. x.cache = Group(s[(i - 1) - 1], s[i - 1], 0) /\ a \in Byte /\ b \in Byte
    BY <1>7, <2>2, LenProperties DEF BaseUpTo
  <2>4. x.cache = Group(a, b, 0) /\ c = s[j + 3]
    BY <2>2, <2>3
  <2>5. Spells("base64", x.out, v)
    BY <2>2 DEF BaseUpTo
  <2>6. v \o <<a, b, c>> = SubSeq(s, 1, i)
    BY <2>2, <2>4, ThreeMore
  <2> HIDE DEF j, a, b, v
  <2> HIDE DEF c
  <2>7. n = Group(a, b, c)
    <3>1. Group(a, b, 0) + c = Group(a, b, c)
      BY SMT, <1>1, <2>3, GroupSums
    <3> QED BY SMT, <2>4, <3>1
  <2> HIDE DEF n
  <2> DEFINE e == << >>
             t == <<a, b, c>>
  <2>8. Spells("base64", d, t)
    BY <1>1, <2>3, <2>7, GroupSpells
  <2>9. Spells("base64", k, e)
    BY LineBreakSpells
  <2>10. e \o t = t
    <3>1. t \in Seq(Byte)
      BY <1>1, <2>3
    <3> QED BY <3>1, ConcatEmptySeq
  <2> HIDE DEF d, k, e, t
  <2>11. Spells("base64", k \o d, e \o t)
    BY <2>8, <2>9, SpellsBoth
  <2> DEFINE p == k \o d
             u == SubSeq(s, 1, i)
  <2>12. Spells("base64", p, t)
    BY <2>10, <2>11
  <2>13. u = v \o t /\ y.out = x.out \o p
    BY <2>1, <2>6 DEF t
  <2> HIDE DEF p, u
  <2>14. Spells("base64", x.out \o p, v \o t)
    BY <2>5, <2>12, SpellsBoth
  <2>15. Spells("base64", y.out, u)
    BY <2>13, <2>14
  <2>16. i - y.state = i /\ y.state <= i
    BY <1>1, <2>1
  <2>17. y \in BaseUpTo(s, i)
    <3>1. /\ y.state <= i /\ Spells("base64", y.out, SubSeq(s, 1, i - y.state))
          /\ y.state # 1 /\ y.state # 2
      BY <2>1, <2>15, <2>16 DEF u
    <3> QED BY ONLY <1>2, <3>1 DEF BaseUpTo
  <2> QED BY <2>17 DEF y, c
<1> QED BY <1>1, <1>5, <1>6, <1>7

LEMMA BasePart ==
  ASSUME NEW s \in Seq(Byte), NEW a \in 0 .. Len(s), NEW b \in a .. Len(s),
         NEW f \in BaseUpTo(s, a)
  PROVE  EncodeBytes("base64", f, SubSeq(s, a + 1, b)) \in BaseUpTo(s, b)
<1> DEFINE enc == "base64"
           I == [i \in 0 .. Len(s) |-> BaseUpTo(s, i)]
<1>1. Len(s) \in Nat /\ f \in Encoder(enc) /\ b \in 0 .. Len(s)
  BY LenProperties DEF BaseUpTo
<1>2. \A i \in 0 .. Len(s) : I[i] = BaseUpTo(s, i)
  OBVIOUS
<1> HIDE DEF I
<1>3. CarriesFrom(enc, s, a, b, I)
  <2> SUFFICES ASSUME NEW i \in a + 1 .. b, NEW x \in Encoder(enc), x \in I[i - 1]
               PROVE  EncodeByte(enc, x, s[i]) \in I[i]
    BY DEF CarriesFrom
  <2>1. i - 1 \in 0 .. Len(s) /\ i \in 0 .. Len(s) /\ i \in 1 .. Len(s)
    BY <1>1
  <2>2. x \in BaseUpTo(s, i - 1)
    BY <1>2, <2>1
  <2>3. EncodeBase64(x, s[i]) \in BaseUpTo(s, i)
    BY <2>1, <2>2, BaseStep
  <2>4. EncodeByte(enc, x, s[i]) = EncodeBase64(x, s[i])
    BY DEF EncodeByte
  <2> QED BY <1>2, <2>1, <2>3, <2>4
<1>4. f \in I[a]
  BY <1>2
<1>5. EncodeBytes(enc, f, SubSeq(s, a + 1, b)) \in I[b]
  BY <1>1, <1>3, <1>4, PartInduct
<1> QED BY <1>1, <1>2, <1>5

LEMMA BaseReads ==
  ASSUME NEW s \in Seq(Byte), NEW i \in 0 .. Len(s), NEW x \in BaseUpTo(s, i)
  PROVE  IsPrefix(DecodeBlock("base64", Filter, x.out).out, s)
<1> DEFINE j == i - x.state
           v == SubSeq(s, 0 + 1, j)
<1>1. x.state \in {0, 1, 2} /\ x.state <= i /\ Len(s) \in Nat
  BY LenProperties DEF BaseUpTo, Encoder, Coders
<1>2. j \in 0 .. Len(s) /\ 0 \in 0 .. Len(s) /\ 0 + 1 = 1
  BY <1>1
<1>3. Spells("base64", x.out, v)
  BY <1>2 DEF BaseUpTo
<1> HIDE DEF j
<1>4. v \in Seq(Byte) /\ Len(v) = j - 0 /\ \A k \in 1 .. j - 0 : v[k] = s[0 + k]
  BY <1>2, SubFacts
<1> HIDE DEF v
<1>5. Len(v) <= Len(s) /\ \A k \in 1 .. Len(v) : v[k] = s[k]
  BY <1>2, <1>4
<1>6. IsPrefix(v, s)
  BY <1>4, <1>5, PrefixIs
<1>7. DecodeBlock("base64", Filter, x.out).out = v
  BY <1>3, SpellsWhole
<1> QED BY <1>6, <1>7

(* A last group of one or two bytes is digits and padding.                 *)
LEMMA LastIs ==
  ASSUME NEW f \in Coders, f.state \in {1, 2}, NEW d, d = Digits(f.cache)
  PROVE  /\ f.state = 1 => LastGroup(f) = (SubSeq(d, 1, 2) \o <<EQ>>) \o <<EQ>>
         /\ f.state = 2 => LastGroup(f) = SubSeq(d, 1, 3) \o <<EQ>>
         /\ SubSeq(d, 1, 2) \in Seq(Byte) /\ SubSeq(d, 1, 3) \in Seq(Byte)
<1> DEFINE l == LastGroup(f)
           a == SubSeq(d, 0 + 1, 2)
           b == SubSeq(d, 0 + 1, 3)
           m == SubSeq(l, 0 + 1, 3)
<1>1. /\ l \in Seq(Byte) /\ Len(l) = 4
      /\ \A i \in 1 .. 4 : l[i] = IF i <= f.state + 1 THEN d[i] ELSE EQ
  BY LastFacts
<1>2. f.cache \in Nat
  BY DEF Coders
<1>3. d \in Seq(Byte) /\ Len(d) = 4 /\ EQ \in Byte
  BY <1>2, DigitsFacts, ByteFacts
<1> HIDE DEF l
<1>4. ASSUME NEW s \in Seq(Byte), Len(s) = 4, NEW k \in 0 .. 4
      PROVE  /\ SubSeq(s, 0 + 1, k) \in Seq(Byte) /\ Len(SubSeq(s, 0 + 1, k)) = k
             /\ \A j \in 1 .. k : SubSeq(s, 0 + 1, k)[j] = s[j]
  <2> DEFINE z == SubSeq(s, 0 + 1, k)
  <2>1. k \in 0 .. Len(s) /\ 0 \in 0 .. Len(s)
    BY <1>4
  <2>2. /\ z \in Seq(Byte) /\ Len(z) = k - 0 /\ \A j \in 1 .. k - 0 : z[j] = s[0 + j]
    BY <2>1, SubFacts
  <2> HIDE DEF z
  <2>3. k \in Nat /\ k - 0 = k /\ \A j \in 1 .. k : 0 + j = j
    OBVIOUS
  <2>4. z \in Seq(Byte) /\ Len(z) = k /\ \A j \in 1 .. k : z[j] = s[j]
    BY <2>2, <2>3
  <2> QED BY <2>4 DEF z
<1>5. /\ a \in Seq(Byte) /\ Len(a) = 2 /\ \A j \in 1 .. 2 : a[j] = d[j]
      /\ b \in Seq(Byte) /\ Len(b) = 3 /\ \A j \in 1 .. 3 : b[j] = d[j]
  BY <1>3, <1>4
<1>6. m \in Seq(Byte) /\ Len(m) = 3 /\ \A j \in 1 .. 3 : m[j] = l[j]
  BY <1>1, <1>4
<1>7. 0 + 1 = 1
  OBVIOUS
<1> HIDE DEF a, b, m
<1>8. ASSUME f.state = 1 PROVE l = (a \o <<EQ>>) \o <<EQ>>
  <2>1. OneLonger(a, EQ, m)
    BY <1>1, <1>3, <1>5, <1>6, <1>8 DEF OneLonger
  <2>2. OneLonger(m, EQ, l)
    BY <1>1, <1>3, <1>6, <1>8 DEF OneLonger
  <2>3. a \o <<EQ>> = m /\ m \o <<EQ>> = l
    BY <2>1, <2>2, Appended
  <2> QED BY <2>3
<1>9. ASSUME f.state = 2 PROVE l = b \o <<EQ>>
  <2>1. OneLonger(b, EQ, l)
    BY <1>1, <1>3, <1>5, <1>9 DEF OneLonger
  <2> QED BY <2>1, Appended
<1> QED BY <1>5, <1>7, <1>8, <1>9 DEF a, b, l

LEMMA LastDecodes ==
  ASSUME NEW f \in Encoder("base64"), f.state \in {1, 2},
         f.cache % 64 = 0, f.state = 1 => f.cache % 4096 = 0,
         NEW g \in Decoder("base64"), g.state = 0
  PROVE  HasDigits(g, DecodeBlock("base64", g, LastGroup(f)), f.state + 1, f.cache)
<1> DEFINE n == f.cache
           d == Digits(n)
           p == <<EQ>>
           a == SubSeq(d, 1, 2)
           b == SubSeq(d, 1, 3)
<1>1. f \in Coders /\ n \in Nat /\ n < 16777216
  BY SMT DEF Encoder, Coders
<1>2. /\ f.state = 1 => LastGroup(f) = (a \o p) \o p
      /\ f.state = 2 => LastGroup(f) = b \o p
      /\ a \in Seq(Byte) /\ b \in Seq(Byte)
  BY <1>1, LastIs
<1>3. EQ \in Byte /\ ~IsDigit(EQ) /\ p \in Seq(Byte)
  <2>1. EQ \in Byte /\ ~IsDigit(EQ)
    BY SMT DEF EQ, Byte, IsDigit
  <2> QED BY <2>1
<1>4. /\ f.state = 1 => HasDigits(g, GroupUpTo(g, n, 2), 2, n)
      /\ f.state = 2 => HasDigits(g, GroupUpTo(g, n, 3), 3, n)
  BY <1>1, GroupDecodes
<1>5. DecodeBlock("base64", g, a) = GroupUpTo(g, n, 2)
      /\ DecodeBlock("base64", g, b) = GroupUpTo(g, n, 3)
  BY DEF GroupUpTo
<1> HIDE DEF a, b, d, p
<1>6. ASSUME NEW t \in Seq(Byte)
      PROVE  DecodeBlock("base64", g, t \o p) = DecodeBlock("base64", g, t)
  <2> DEFINE x == DecodeBlock("base64", g, t)
  <2>1. x \in Decoder("base64")
    BY BlockFacts
  <2>2. DecodeBlock("base64", g, t \o p) = DecodeByte("base64", x, EQ)
    BY <1>3, OneMore DEF p
  <2> HIDE DEF x
  <2>3. DecodeByte("base64", x, EQ) = x
    BY <1>3, <2>1, DecodeSkips DEF DecodeByte
  <2> QED BY <2>2, <2>3 DEF x
<1>7. a \o p \in Seq(Byte)
  BY <1>2, <1>3, ConcatProperties
<1> HIDE DEF n
<1>8. CASE f.state = 1
  <2>1. DecodeBlock("base64", g, LastGroup(f)) = GroupUpTo(g, n, 2)
    <3> DEFINE q == a \o p
    <3>1. a \in Seq(Byte) /\ q \in Seq(Byte)
      BY <1>2, <1>7
    <3>2. LastGroup(f) = q \o p
      BY <1>2, <1>8
    <3>3. DecodeBlock("base64", g, q) = DecodeBlock("base64", g, a)
      BY <1>6, <3>1
    <3> HIDE DEF q
    <3>4. DecodeBlock("base64", g, q \o p) = DecodeBlock("base64", g, q)
      BY <1>6, <3>1
    <3> QED BY <1>5, <3>2, <3>3, <3>4
  <2>2. f.state + 1 = 2
    BY <1>8
  <2> QED BY <1>4, <1>8, <2>1, <2>2 DEF n
<1>9. CASE f.state = 2
  <2>1. DecodeBlock("base64", g, LastGroup(f)) = GroupUpTo(g, n, 3)
    <3>1. b \in Seq(Byte)
      BY <1>2
    <3>2. LastGroup(f) = b \o p
      BY <1>2, <1>9
    <3>3. DecodeBlock("base64", g, b \o p) = DecodeBlock("base64", g, b)
      BY <1>6, <3>1
    <3> QED BY <1>5, <3>2, <3>3
  <2>2. f.state + 1 = 3
    BY <1>9
  <2> QED BY <1>4, <1>9, <2>1, <2>2 DEF n
<1> QED BY <1>8, <1>9

(* What an incomplete group leaves to the flush of the decoder.            *)
LEMMA HeldBytes ==
  ASSUME NEW g, NEW x, NEW a \in Byte, NEW b \in Byte
  PROVE  /\ HasDigits(g, x, 2, Group(a, 0, 0)) => LeftOver("base64", x) = <<a>>
         /\ HasDigits(g, x, 3, Group(a, b, 0)) => LeftOver("base64", x) = <<a, b>>
<1> DEFINE m == Group(a, 0, 0)
           n == Group(a, b, 0)
<1>0. 0 \in Byte
  BY SMT DEF Byte
<1>1. m \div 65536 = a
  BY <1>0, GroupFacts
<1>2. n \div 65536 = a /\ (n \div 256) % 256 = b
  BY <1>0, GroupFacts
<1> HIDE DEF m, n
<1>3. ASSUME HasDigits(g, x, 2, m) PROVE LeftOver("base64", x) = <<a>>
  <2>1. x.state = 2 /\ x.cache = m
    BY <1>3 DEF HasDigits
  <2>2. x.cache \div 65536 = a
    BY SMT, <1>1, <2>1
  <2> QED BY SMT, <2>1, <2>2 DEF LeftOver
<1>4. ASSUME HasDigits(g, x, 3, n) PROVE LeftOver("base64", x) = <<a, b>>
  <2>1. x.state = 3 /\ x.cache = n
    BY <1>4 DEF HasDigits
  <2>2. x.cache \div 65536 = a /\ (x.cache \div 256) % 256 = b
    BY SMT, <1>2, <2>1
  <2> QED BY SMT, <2>1, <2>2 DEF LeftOver
<1> QED BY <1>3, <1>4 DEF m, n

LEMMA BaseEnds ==
  ASSUME NEW s \in Seq(Byte), NEW f \in BaseUpTo(s, Len(s))
  PROVE  Decoded("base64", FlushEncoder("base64", f).out) = s
<1> DEFINE L == Len(s)
           o == FlushEncoder("base64", f).out
           v == SubSeq(s, 1, L - f.state)
<1>1. /\ L \in Nat /\ f \in Encoder("base64") /\ f \in Coders
      /\ f.state \in {0, 1, 2} /\ f.state <= L /\ Spells("base64", f.out, v)
  BY LenProperties DEF BaseUpTo, Encoder, Coders
<1>2. o = f.out \o (IF f.state = 0 THEN << >> ELSE LineBreak(f) \o LastGroup(f))
  BY <1>1, FlushIs
<1>3. f.out \in Seq(Byte) /\ v \in Seq(Byte)
  BY <1>1 DEF Spells
<1> HIDE DEF o
<1>4. CASE f.state = 0
  <2>1. o = f.out
    BY <1>2, <1>3, <1>4, ConcatEmptySeq
  <2>2. v = s
    <3>1. L - f.state = L
      BY <1>1, <1>4
    <3> QED BY <3>1
  <2>3. Decoded("base64", f.out) = v
    BY <1>1, SpellsWhole
  <2> QED BY <2>1, <2>2, <2>3 DEF o
<1>5. CASE f.state \in {1, 2}
  <2> DEFINE k == LineBreak(f)
             l == LastGroup(f)
             y == DecodeBlock("base64", Filter, f.out \o k)
             x == DecodeBlock("base64", y, l)
             e == << >>
             q == f.out \o k
  <2>1. Filter \in Decoder("base64") /\ Filter.state = 0 /\ Filter.out = << >>
    BY DEF Filter, Coders, Decoder, CacheFits
  <2>2. Spells("base64", k, e)
    BY LineBreakSpells
  <2>3. l \in Seq(Byte) /\ k \in Seq(Byte) /\ q \in Seq(Byte)
    <3>1. l \in Seq(Byte)
      BY <1>1, LastFacts
    <3>2. k \in Seq(Byte)
      BY <2>2 DEF Spells
    <3> HIDE DEF k, l
    <3> QED BY <1>3, <3>1, <3>2, ConcatProperties
  <2>4. o = q \o l
    <3> DEFINE t == k \o l
    <3>0. o = f.out \o (IF f.state = 0 THEN << >> ELSE t)
      BY <1>2
    <3> HIDE DEF k, l, t
    <3> DEFINE u == IF f.state = 0 THEN << >> ELSE t
    <3>2. o = f.out \o u
      BY <3>0
    <3>3. u = t
      BY <1>5
    <3> HIDE DEF u
    <3>1. o = f.out \o (k \o l)
      BY <3>2, <3>3 DEF t
    <3> QED BY <1>3, <2>3, <3>1, Regroup
  <2>5. v \o e = v /\ e \o v = v
    BY <1>3, ConcatEmptySeq
  <2> HIDE DEF k, l, e, v
  <2>6. Spells("base64", q, v)
    <3>1. Spells("base64", f.out \o k, v \o e)
      BY <1>1, <2>2, SpellsBoth
    <3> QED BY <2>5, <3>1
  <2>7. y = DecodeBlock("base64", Filter, q)
    OBVIOUS
  <2> HIDE DEF q, y
  <2>8. y \in Decoder("base64") /\ y.state = 0 /\ y.out = v
    <3>1. y \in Decoder("base64")
      BY <2>1, <2>3, <2>7, BlockFacts
    <3>2. y.state = 0 /\ y.out = Filter.out \o v
      BY <2>1, <2>6, <2>7 DEF Spells
    <3> QED BY <2>1, <2>5, <3>1, <3>2 DEF e
  <2>9. DecodeBlock("base64", Filter, o) = x
    BY <2>1, <2>3, <2>4, <2>7, TwoBlocks
  <2> DEFINE n == f.cache
  <2>10. f.state = 1 => /\ s[L] \in Byte /\ n = Group(s[L], 0, 0)
    <3>1. L \in 1 .. L \/ f.state # 1
      BY <1>1
    <3> QED BY <3>1, LenProperties DEF BaseUpTo
  <2>11. f.state = 2 => /\ s[L - 1] \in Byte /\ s[L] \in Byte /\ n = Group(s[L - 1], s[L], 0)
    <3>1. (L \in 1 .. L /\ L - 1 \in 1 .. L) \/ f.state # 2
      BY <1>1
    <3> QED BY <3>1, LenProperties DEF BaseUpTo
  <2>12. n % 64 = 0 /\ (f.state = 1 => n % 4096 = 0)
    <3> HIDE DEF n
    <3>0. 0 \in Byte
      BY SMT DEF Byte
    <3>1. CASE f.state = 1
      <4>1. n % 64 = 0 /\ n % 4096 = 0
        BY <2>10, <3>0, <3>1, GroupFacts
      <4> QED BY <4>1
    <3>2. CASE f.state = 2
      <4> DEFINE a == s[L - 1]
                 b == s[L]
      <4>1. a \in Byte /\ b \in Byte /\ n = Group(a, b, 0)
        BY <2>11, <3>2
      <4> HIDE DEF a, b
      <4>2. n % 64 = 0
        BY <3>0, <4>1, GroupFacts
      <4> QED BY <3>2, <4>2
    <3> QED BY <1>5, <3>1, <3>2
  <2>13. HasDigits(y, x, f.state + 1, n)
    BY <1>1, <1>5, <2>8, <2>12, LastDecodes DEF l
  <2>14. Decoded("base64", o) = x.out \o LeftOver("base64", x)
    <3>1. x \in Decoder("base64") /\ << >> \in Seq(Byte)
      BY <2>13, ByteFacts DEF HasDigits
    <3>2. Decoded("base64", o) = FlushDecoder("base64", x).out
      BY <2>9 DEF Decoded, HasFilter
    <3> HIDE DEF x
    <3> QED BY <3>1, <3>2, FlushFacts
  <2>15. x.out = v
    BY <2>8, <2>13 DEF HasDigits
  <2> HIDE DEF x, n, o
  <2>16. CASE f.state = 1
    <3> DEFINE a == s[L]
               j == L - 1
    <3>1. a \in Byte /\ n = Group(a, 0, 0)
      BY <2>10, <2>16
    <3>2. j \in 0 .. L /\ j + 1 = L /\ j + 1 <= L /\ L - f.state = j /\ a = s[j + 1]
      BY <1>1, <2>16
    <3> HIDE DEF j
    <3>3. SubSeq(s, 1, j) \o <<s[j + 1]>> = SubSeq(s, 1, j + 1)
      BY <3>2, FirstBytes
    <3>4. v \o <<a>> = s
      <4>1. v = SubSeq(s, 1, j) /\ SubSeq(s, 1, L) = s
        BY <3>2 DEF v
      <4> QED BY <3>2, <3>3, <4>1
    <3> HIDE DEF a
    <3>5. HasDigits(y, x, 2, Group(a, 0, 0))
      <4>1. f.state + 1 = 2
        BY <2>16
      <4> QED BY <2>13, <3>1, <4>1
    <3>6. LeftOver("base64", x) = <<a>>
      BY <3>1, <3>5, HeldBytes
    <3> QED BY <2>14, <2>15, <3>4, <3>6 DEF o
  <2>17. CASE f.state = 2
    <3> DEFINE a == s[L - 1]
               b == s[L]
               j == L - 2
    <3>1. a \in Byte /\ b \in Byte /\ n = Group(a, b, 0)
      BY <2>11, <2>17
    <3>2. /\ j \in 0 .. L /\ j + 1 \in 0 .. L /\ (j + 1) + 1 = L /\ j + 1 <= L
          /\ (j + 1) + 1 <= L /\ L - f.state = j /\ a = s[j + 1] /\ b = s[(j + 1) + 1]
      BY <1>1, <2>17
    <3> HIDE DEF j
    <3>3. SubSeq(s, 1, j) \o <<s[j + 1]>> = SubSeq(s, 1, j + 1)
      BY <3>2, FirstBytes
    <3>4. SubSeq(s, 1, j + 1) \o <<s[(j + 1) + 1]>> = SubSeq(s, 1, (j + 1) + 1)
      BY <3>2, FirstBytes
    <3> DEFINE g == <<a>>
               h == <<b>>
    <3>5. (v \o g) \o h = s
      <4>1. v = SubSeq(s, 1, j) /\ SubSeq(s, 1, L) = s
        BY <3>2 DEF v
      <4> QED BY <3>2, <3>3, <3>4, <4>1
    <3> HIDE DEF a, b
    <3>6. g \in Seq(Byte) /\ h \in Seq(Byte) /\ g \o h = <<a, b>>
      BY <3>1, Joined
    <3> HIDE DEF g, h
    <3>7. v \o <<a, b>> = s
      <4>1. v \o (g \o h) = (v \o g) \o h
        BY <1>3, <3>6, Regroup
      <4> QED BY <3>5, <3>6, <4>1
    <3>8. HasDigits(y, x, 3, Group(a, b, 0))
      <4>1. f.state + 1 = 3
        BY <2>17
      <4> QED BY <2>13, <3>1, <4>1
    <3>9. LeftOver("base64", x) = <<a, b>>
      BY <3>1, <3>8, HeldBytes
    <3> QED BY <2>14, <2>15, <3>7, <3>9 DEF o
  <2> QED BY <1>5, <2>16, <2>17
<1> QED BY <1>1, <1>4, <1>5

-----------------------------------------------------------------------------
(* What the destination holds decodes to what the filter was given, which  *)
(* is what was read of the source.                                         *)
LEMMA BaseStays ==
  ASSUME NEW s, NEW z, Begun(s, z), NEW x \in BaseUpTo(s, Len(s))
  PROVE  x \in BaseUpTo(z, Len(s))
<1> DEFINE n == Len(s)
           k == n - x.state
<1>1. /\ s \in Seq(Byte) /\ z \in Seq(Byte) /\ n \in Nat /\ Len(z) \in Nat /\ n <= Len(z)
      /\ \A i \in 1 .. n : z[i] = s[i]
  BY LenProperties DEF Begun
<1>2. /\ x \in Encoder("base64") /\ x.state <= n /\ x.state \in {0, 1, 2}
      /\ Spells("base64", x.out, SubSeq(s, 1, k))
      /\ x.state = 1 => x.cache = Group(s[n], 0, 0)
      /\ x.state = 2 => x.cache = Group(s[n - 1], s[n], 0)
  BY DEF BaseUpTo, Encoder, Coders
<1>3. SubSeq(s, 1, k) = SubSeq(z, 1, k)
  <2>1. k \in Nat /\ 0 + k = k /\ 0 + 1 = 1 /\ k <= n /\ k <= Len(z)
    BY <1>1, <1>2
  <2>2. \A i \in 1 .. k : s[0 + i] = z[0 + i]
    BY <1>1, <2>1
  <2> HIDE DEF k
  <2>3. SubSeq(s, 0 + 1, 0 + k) = SubSeq(z, 0 + 1, 0 + k)
    BY <1>1, <2>1, <2>2, SamePiece
  <2> QED BY <2>1, <2>3
<1>4. x.state # 0 => z[n] = s[n]
  BY <1>1, <1>2
<1>5. x.state = 2 => z[n - 1] = s[n - 1]
  BY <1>1, <1>2
<1>6. Spells("base64", x.out, SubSeq(z, 1, n - x.state))
  BY <1>2, <1>3
<1>7. /\ x.state = 1 => x.cache = Group(z[n], 0, 0)
      /\ x.state = 2 => x.cache = Group(z[n - 1], z[n], 0)
  BY <1>2, <1>4, <1>5
<1> HIDE DEF n, k
<1>8. x \in BaseUpTo(z, n)
  BY ONLY <1>2, <1>6, <1>7 DEF BaseUpTo
<1> QED BY <1>8 DEF n

(* More of a text is given to a base64 encoder that has had all of it.     *)
LEMMA BaseGoesOn ==
  ASSUME NEW s \in Seq(Byte), NEW x \in BaseUpTo(s, Len(s)),
         NEW t \in Seq(Byte), NEW a \in 0 .. Len(t), NEW b \in a .. Len(t),
         NEW z, z = s \o SubSeq(t, a + 1, b)
  PROVE  EncodeBytes("base64", x, SubSeq(t, a + 1, b)) \in BaseUpTo(z, Len(z))
<1> DEFINE n == Len(s)
           m == b - a
           u == SubSeq(t, a + 1, b)
<1>1. /\ Begun(s, z) /\ Len(z) = n + m /\ n \in Nat
      /\ \A i \in 1 .. m : z[n + i] = t[a + i]
  BY GoesOn
<1>2. z \in Seq(Byte)
  BY <1>1 DEF Begun
<1>3. /\ m \in Nat /\ a + m = b /\ a \in Nat /\ b <= Len(t) /\ n + m <= Len(z)
      /\ n \in 0 .. Len(z) /\ n + m \in n .. Len(z)
  BY <1>1, LenProperties
<1>4. x \in BaseUpTo(z, n)
  BY <1>1, BaseStays
<1> HIDE DEF n, m
<1>5. SubSeq(z, n + 1, n + m) = SubSeq(t, a + 1, a + m)
  BY <1>1, <1>2, <1>3, SamePiece
<1>6. u = SubSeq(z, n + 1, n + m)
  BY <1>3, <1>5
<1> HIDE DEF u
<1>7. EncodeBytes("base64", x, u) \in BaseUpTo(z, n + m)
  <2> DEFINE c == n + m
  <2>1. c \in n .. Len(z) /\ u = SubSeq(z, n + 1, c)
    BY <1>3, <1>6
  <2> HIDE DEF c
  <2>2. EncodeBytes("base64", x, SubSeq(z, n + 1, c)) \in BaseUpTo(z, c)
    BY <1>2, <1>3, <1>4, <2>1, BasePart
  <2> QED BY <2>1, <2>2 DEF c
<1> QED BY <1>1, <1>7 DEF u

(* More of a text without NULs is given to a quoted-printable encoder: a   *)
(* line, or its rest behind an escape.                                     *)
LEMMA QuotedGoesOn ==
  ASSUME Typed, encoding = "quoted-printable", NUL \notin ToSet(seen),
         NEW w, Grows(seen, w), filter \in QuotedUpTo(seen, w, Len(seen)),
         NEW n, NEW m, NEW e, Round(n, m, e)
  PROVE  /\ NUL \notin ToSet(seen')
         /\ \E v : Grows(seen', v) /\ filter' \in QuotedUpTo(seen', v, Len(seen'))
<1> DEFINE z == seen'
           L == Len(seen)
           b == pos + m
           x == Start(e)
<1>1. /\ n \in 1 .. Len(src) - pos /\ m \in 0 .. n
      /\ e \in {0, 5} /\ e <= m
      /\ (e = 5) = (m >= 5 /\ IsFrom(src, pos))
      /\ filter' = EncodeBytes(encoding, x, SubSeq(src, (pos + e) + 1, b))
      /\ z = seen \o SubSeq(src, pos + 1, b)
      /\ \A i \in 1 .. m : src[pos + i] # NUL
  BY DEF Round, Takes
<1>2. /\ src \in Seq(Byte) /\ pos \in 0 .. Len(src) /\ Len(src) \in Nat /\ pos \in Nat
      /\ seen \in Seq(Byte)
  BY LenProperties DEF Typed
<1>3. /\ b \in pos .. Len(src) /\ b - pos = m /\ m \in Nat /\ b = pos + m
      /\ e \in {0, 5} /\ e <= m /\ e \in Nat
  <2>1. n \in 1 .. Len(src) - pos /\ m \in 0 .. n /\ e \in {0, 5} /\ e <= m
    BY <1>1
  <2> QED BY <1>2, <2>1
<1> HIDE DEF z, b, x
<1>4. /\ Begun(seen, z) /\ Len(z) = L + m /\ L \in Nat
      /\ \A i \in 1 .. m : z[L + i] = src[pos + i]
  BY <1>1, <1>2, <1>3, GoesOn
<1>4n. Len(z) = L + m /\ L \in Nat
  BY <1>4
<1>5. z \in Seq(Byte) /\ \A i \in 1 .. L : z[i] = seen[i]
  BY <1>4 DEF Begun
<1> HIDE DEF L
<1>6. NUL \notin ToSet(z)
  <2>1. ASSUME NEW i \in DOMAIN z PROVE z[i] # NUL
    <3>1. i \in 1 .. L + m
      BY <1>4, <1>5, <2>1, LenProperties
    <3>2. CASE i \in 1 .. L
      <4>1. i \in DOMAIN seen
        BY <1>2, <3>2, LenProperties DEF L
      <4> QED BY <1>5, <3>2, <4>1 DEF ToSet
    <3>3. CASE ~(i \in 1 .. L)
      <4> DEFINE k == i - L
      <4>1. k \in 1 .. m /\ L + k = i
        BY <1>3, <1>4n, <3>1, <3>3
      <4> HIDE DEF k
      <4>2. z[L + k] = src[pos + k]
        BY <1>4, <4>1
      <4>3. src[pos + k] # NUL
        BY <1>1, <4>1
      <4> QED BY <4>1, <4>2, <4>3
    <3> QED BY <3>2, <3>3
  <2> QED BY <2>1 DEF ToSet
<1>7. PICK v : Grows(z, v) /\ filter \in QuotedUpTo(z, v, L)
  BY <1>4, QuotedStays DEF L
<1>8. L \in 0 .. Len(z) /\ e \in Nat /\ L + e \in 0 .. Len(z) /\ L + m \in L + e .. Len(z)
  BY <1>3, <1>4n
<1>9. e = 5 => L + 5 <= Len(z) /\ IsFrom(z, L)
  <2> SUFFICES ASSUME e = 5 PROVE L + 5 <= Len(z) /\ IsFrom(z, L)
    OBVIOUS
  <2>1. 5 <= m /\ IsFrom(src, pos)
    BY <1>1, <1>3
  <2>2. L + 5 <= Len(z)
    BY <1>3, <1>4, <2>1
  <2>3. ASSUME NEW i \in 1 .. 5 PROVE z[L + i] = From[i]
    <3>1. i \in 1 .. m
      BY <1>3, <2>1
    <3> QED BY <1>4, <2>1, <3>1 DEF IsFrom
  <2> QED BY <2>2, <2>3 DEF IsFrom
<1>10. x \in QuotedUpTo(z, v, L + e)
  BY <1>1, <1>5, <1>6, <1>7, <1>8, <1>9, QuotedStart DEF x
<1> DEFINE a == L + e
           c == L + m
           u == SubSeq(src, (pos + e) + 1, b)
<1>11. u = SubSeq(z, a + 1, c)
  <2> DEFINE p == pos + e
             k == m - e
  <2>1. /\ p \in Nat /\ k \in Nat /\ a \in Nat /\ p + k = b /\ a + k = c
        /\ p + k <= Len(src) /\ a + k <= Len(z)
    BY <1>2, <1>3, <1>4n
  <2>2. ASSUME NEW i \in 1 .. k PROVE z[a + i] = src[p + i]
    <3>1. e + i \in 1 .. m /\ a + i = L + (e + i) /\ p + i = pos + (e + i)
      BY <1>2, <1>3, <1>4n
    <3> QED BY <1>4, <3>1
  <2> HIDE DEF p, k, a, c
  <2>3. SubSeq(z, a + 1, a + k) = SubSeq(src, p + 1, p + k)
    <3>1. src \in Seq(Byte) /\ z \in Seq(Byte)
      BY <1>2, <1>5
    <3>2. /\ p \in Nat /\ a \in Nat /\ k \in Nat
          /\ p + k <= Len(src) /\ a + k <= Len(z)
      BY <2>1
    <3> QED BY <3>1, <3>2, <2>2, SamePiece
  <2> QED BY <2>1, <2>3 DEF p
<1>12. a \in 0 .. Len(z) /\ c \in a .. Len(z) /\ x \in QuotedUpTo(z, v, a) /\ Len(z) = c
  BY <1>4, <1>8, <1>10
<1> HIDE DEF a, c, u
<1>13. EncodeBytes("quoted-printable", x, SubSeq(z, a + 1, c)) \in QuotedUpTo(z, v, c)
  BY <1>5, <1>6, <1>7, <1>12, QuotedPart
<1>14. filter' \in QuotedUpTo(z, v, Len(z))
  <2>1. filter' = EncodeBytes("quoted-printable", x, u)
    BY <1>1 DEF u
  <2> QED BY <1>11, <1>12, <1>13, <2>1
<1> QED BY <1>6, <1>7, <1>14 DEF z

(* The two parts of a source that is read on.                              *)
LEMMA PiecesJoin ==
  ASSUME NEW s \in Seq(Byte), NEW a \in 0 .. Len(s), NEW b \in a .. Len(s)
  PROVE  SubSeq(s, 1, a) \o SubSeq(s, a + 1, b) = SubSeq(s, 1, b)
<1> DEFINE u == SubSeq(s, 0 + 1, a)
           z == u \o SubSeq(s, a + 1, b)
           v == SubSeq(s, 0 + 1, b)
<1>1. /\ Len(s) \in Nat /\ 0 \in 0 .. Len(s) /\ a \in 0 .. Len(s) /\ b \in 0 .. Len(s)
      /\ 0 + 1 = 1 /\ a - 0 = a /\ b - 0 = b /\ \A i \in Nat : 0 + i = i
  BY LenProperties
<1>2. u \in Seq(Byte) /\ Len(u) = a /\ \A i \in 1 .. a : u[i] = s[i]
  BY <1>1, SubFacts
<1>3. v \in Seq(Byte) /\ Len(v) = b /\ \A i \in 1 .. b : v[i] = s[i]
  BY <1>1, SubFacts
<1> HIDE DEF u, v
<1>4. /\ Begun(u, z) /\ Len(z) = Len(u) + (b - a)
      /\ \A i \in 1 .. b - a : z[Len(u) + i] = s[a + i]
  BY <1>2, GoesOn
<1> HIDE DEF z
<1>5. z \in Seq(Byte) /\ Len(z) = b /\ \A i \in 1 .. a : z[i] = u[i]
  BY <1>1, <1>2, <1>4 DEF Begun
<1>6. ASSUME NEW i \in 1 .. b PROVE z[i] = v[i]
  <2>1. CASE i \in 1 .. a
    BY <1>2, <1>3, <1>5, <2>1
  <2>2. CASE ~(i \in 1 .. a)
    <3>1. i - a \in 1 .. b - a /\ a + (i - a) = i
      BY <1>1, <2>2
    <3> QED BY <1>2, <1>3, <1>4, <3>1
  <2> QED BY <2>1, <2>2
<1>7. z = v
  BY <1>3, <1>5, <1>6, SeqEqual
<1> QED BY <1>1, <1>7 DEF z, u, v

(* Nothing of the source is lost: no read fails, no line has a NUL.        *)
Complete == status # "overrun" /\ (encoding = "base64" \/ NUL \notin ToSet(src))
Faithful ==
  /\ Typed
  /\ status \in {"reading", "overrun"} /\ encoding = "base64" =>
       filter \in BaseUpTo(seen, Len(seen))
  /\ status = "reading" /\ encoding = "quoted-printable" =>
       /\ NUL \notin ToSet(seen)
       /\ \E w : Grows(seen, w) /\ filter \in QuotedUpTo(seen, w, Len(seen))
  /\ status = "done" /\ HasFilter(encoding) => Decoded(encoding, dest) = Canonical(seen)
  /\ status = "crashed" => ~HasFilter(encoding)
  /\ status = "overrun" => encoding = "base64"
  /\ Complete => seen = SubSeq(src, 1, pos)

LEMMA InitFaithful ==
  ASSUME Init
  PROVE  Faithful
<1>1. Typed /\ pos = 0 /\ filter = Filter /\ status = "reading" /\ seen = << >>
  BY InitTyped DEF Init
<1>2. Filter.state = 0 /\ Filter.out = << >> /\ \A enc : Filter \in Encoder(enc)
  BY FilterFacts
<1>3. seen \in Seq(Byte) /\ Len(seen) = 0 /\ src \in Seq(Byte)
  BY <1>1 DEF Typed
<1>4. \A enc \in {"base64", "quoted-printable"} : Spells(enc, << >>, << >>)
  BY SpellsNothing
<1>5. Filter \in BaseUpTo(seen, 0)
  <2>1. SubSeq(seen, 1, 0 - Filter.state) = << >>
    BY <1>2, <1>3
  <2>2. Spells("base64", Filter.out, SubSeq(seen, 1, 0 - Filter.state))
    BY <1>2, <1>4, <2>1
  <2>3. Filter.state <= 0 /\ Filter.state # 1 /\ Filter.state # 2 /\ Filter \in Encoder("base64")
    BY <1>2
  <2> QED BY ONLY <2>2, <2>3 DEF BaseUpTo
<1>6. \E w : Grows(seen, w) /\ Filter \in QuotedUpTo(seen, w, 0)
  <2>1. PICK w : Grows(seen, w)
    BY <1>3, GrowthExists
  <2>2. Spells("quoted-printable", Filter.out, w[0])
    BY <1>2, <1>4, <2>1 DEF Grows
  <2>3. Filter.state # 1 /\ Filter \in Encoder("quoted-printable") /\ ~(0 # 0)
    BY <1>2
  <2>4. Filter \in QuotedUpTo(seen, w, 0)
    BY ONLY <2>2, <2>3 DEF QuotedUpTo
  <2> QED BY <2>1, <2>4
<1>7. NUL \notin ToSet(seen)
  BY <1>1 DEF ToSet
<1>8. seen = SubSeq(src, 1, pos)
  BY <1>1, <1>3
<1> HIDE DEF Filter
<1> QED BY <1>1, <1>3, <1>5, <1>6, <1>7, <1>8 DEF Faithful

LEMMA NextFaithful ==
  ASSUME Faithful, Next
  PROVE  Faithful'
<1>1. Typed /\ Typed' /\ status = "reading"
  BY NextTyped DEF Faithful, Next
<1>2. /\ src \in Seq(Byte) /\ pos \in 0 .. Len(src) /\ Len(src) \in Nat /\ pos \in Nat
      /\ seen \in Seq(Byte)
  BY <1>1, LenProperties DEF Typed
<1>3. CASE FeedLine
  <2>1. PICK n, m, e : Round(n, m, e)
    BY <1>1, <1>3, RoundIs
  <2>2. encoding = "quoted-printable" /\ UNCHANGED <<src, encoding, status>>
    BY <1>3 DEF FeedLine
  <2>3. PICK w : Grows(seen, w) /\ filter \in QuotedUpTo(seen, w, Len(seen))
    BY <1>1, <2>2 DEF Faithful
  <2>4. NUL \notin ToSet(seen)
    BY <1>1, <2>2 DEF Faithful
  <2>5. /\ NUL \notin ToSet(seen')
        /\ \E v : Grows(seen', v) /\ filter' \in QuotedUpTo(seen', v, Len(seen'))
    BY <1>1, <2>1, <2>2, <2>3, <2>4, QuotedGoesOn
  <2>6. ASSUME Complete' PROVE (seen = SubSeq(src, 1, pos))'
    <3>1. NUL \notin ToSet(src) /\ Complete
      BY <1>1, <2>2, <2>6 DEF Complete
    <3>2. seen = SubSeq(src, 1, pos)
      BY <3>1 DEF Faithful
    <3> DEFINE b == pos + n
    <3>3. n \in 1 .. Len(src) - pos /\ m = n /\ pos' = b
          /\ seen' = seen \o SubSeq(src, pos + 1, b)
      BY <2>1, <3>1 DEF Round, Takes
    <3>4. b \in pos .. Len(src)
      BY <1>2, <3>3
    <3> HIDE DEF b
    <3>5. seen' = SubSeq(src, 1, b)
      BY <1>2, <3>2, <3>3, <3>4, PiecesJoin
    <3> QED BY <2>2, <3>3, <3>5
  <2>7. status' = "reading" /\ encoding' = "quoted-printable"
    BY <1>1, <2>2
  <2> QED BY <1>1, <2>5, <2>6, <2>7 DEF Faithful
<1>4. CASE \E n \in 1 .. BufSize : FeedBlock(n)
  <2>1. PICK n \in 1 .. BufSize : FeedBlock(n)
    BY <1>4
  <2>2. encoding = "base64" /\ UNCHANGED <<src, encoding, status>> /\ pos' = pos + n
    BY <2>1 DEF FeedBlock
  <2> DEFINE b == pos + n
  <2>3. /\ b \in pos .. Len(src) /\ seen' = seen \o SubSeq(src, pos + 1, b)
        /\ filter' = EncodeBytes(encoding, filter, SubSeq(src, pos + 1, b))
    BY <1>1, <2>1, BlockIs
  <2>4. pos' = b
    BY <2>2
  <2> HIDE DEF b
  <2>5. filter \in BaseUpTo(seen, Len(seen))
    BY <1>1, <2>2 DEF Faithful
  <2>6. EncodeBytes("base64", filter, SubSeq(src, pos + 1, b)) \in BaseUpTo(seen', Len(seen'))
    BY <1>2, <2>3, <2>5, BaseGoesOn
  <2>7. filter' \in BaseUpTo(seen', Len(seen'))
    BY <2>2, <2>3, <2>6
  <2>8. status' = "reading" /\ encoding' = "base64"
    BY <1>1, <2>2
  <2>9. (seen = SubSeq(src, 1, pos))'
    <3>1. seen = SubSeq(src, 1, pos)
      BY <1>1, <2>2 DEF Faithful, Complete
    <3>2. seen' = SubSeq(src, 1, b)
      BY <1>2, <2>3, <3>1, PiecesJoin
    <3> QED BY <2>2, <2>4, <3>2
  <2> QED BY <1>1, <2>7, <2>8, <2>9 DEF Faithful
<1>5. CASE ReadError
  <2>1. encoding = "base64" /\ status' = "overrun" /\ UNCHANGED <<src, encoding, pos>>
    BY <1>5, ErrorIs
  <2>2. PICK t \in Seq(Byte) :
          /\ filter' = EncodeBytes(encoding, filter, SubSeq(t, 0 + 1, Len(t)))
          /\ seen' = seen \o t
    BY <1>5, ErrorIs
  <2>3. /\ 0 \in 0 .. Len(t) /\ Len(t) \in 0 .. Len(t) /\ SubSeq(t, 0 + 1, Len(t)) = t
    <3>1. 0 + 1 = 1 /\ Len(t) \in Nat /\ SubSeq(t, 1, Len(t)) = t
      BY LenProperties, SubSeqProperties
    <3> QED BY <3>1
  <2>4. filter \in BaseUpTo(seen, Len(seen))
    BY <1>1, <2>1 DEF Faithful
  <2>5. seen' = seen \o SubSeq(t, 0 + 1, Len(t))
    BY <2>2, <2>3
  <2>6. EncodeBytes("base64", filter, SubSeq(t, 0 + 1, Len(t))) \in BaseUpTo(seen', Len(seen'))
    BY <1>2, <2>3, <2>4, <2>5, BaseGoesOn
  <2>7. filter' \in BaseUpTo(seen', Len(seen'))
    BY <2>1, <2>2, <2>6
  <2>8. encoding' = "base64" /\ ~Complete'
    BY <2>1 DEF Complete
  <2> QED BY <1>1, <2>1, <2>7, <2>8 DEF Faithful
<1>6. CASE Finish
  <2>1. /\ encoding \in {"base64", "quoted-printable"} /\ status' = "done"
        /\ filter' = FlushEncoder(encoding, filter) /\ UNCHANGED <<src, encoding, pos, seen>>
    BY <1>6 DEF Finish, HasFilter
  <2>2. Decoded(encoding, FlushEncoder(encoding, filter).out) = Canonical(seen)
    <3>1. CASE encoding = "base64"
      <4>1. filter \in BaseUpTo(seen, Len(seen))
        BY <1>1, <3>1 DEF Faithful
      <4>2. Decoded("base64", FlushEncoder("base64", filter).out) = seen
        BY <1>2, <4>1, BaseEnds
      <4>3. Canonical(seen) = seen
        BY <3>1 DEF Canonical
      <4> QED BY <3>1, <4>2, <4>3
    <3>2. CASE encoding = "quoted-printable"
      <4>1. PICK w : Grows(seen, w) /\ filter \in QuotedUpTo(seen, w, Len(seen))
        BY <1>1, <3>2 DEF Faithful
      <4>2. NUL \notin ToSet(seen)
        BY <1>1, <3>2 DEF Faithful
      <4> DEFINE L == Len(seen)
                 o == FlushEncoder("quoted-printable", filter).out
      <4>3. L \in 0 .. Len(seen) /\ ~(L < Len(seen))
        BY <1>2, LenProperties
      <4>4. Spells("quoted-printable", o, w[L])
        BY <1>2, <4>1, <4>2, <4>3, QuotedFlush
      <4> HIDE DEF o
      <4>5. Decoded("quoted-printable", o) = w[L]
        BY <4>4, SpellsWhole
      <4>6. WithNewLines(seen) = w[L]
        BY <1>2, <4>1, GrowthIs
      <4>7. Canonical(seen) = WithNewLines(seen)
        BY <3>2 DEF Canonical
      <4> QED BY <3>2, <4>5, <4>6, <4>7 DEF o
    <3> QED BY <2>1, <3>1, <3>2
  <2>3. (Decoded(encoding, dest) = Canonical(seen))'
    <3>1. dest' = FlushEncoder(encoding, filter).out
      BY <2>1 DEF dest
    <3>2. Canonical(seen)' = Canonical(seen) /\ encoding' = encoding
      BY <2>1 DEF Canonical
    <3> QED BY <2>2, <3>1, <3>2
  <2>4. (Complete => seen = SubSeq(src, 1, pos))'
    BY <1>1, <2>1 DEF Faithful, Complete
  <2> QED BY <1>1, <2>1, <2>3, <2>4 DEF Faithful
<1>7. CASE NoFilter
  <2>1. ~HasFilter(encoding)' /\ status' = "crashed" /\ UNCHANGED <<src, encoding, pos, seen>>
    BY <1>7 DEF NoFilter, HasFilter
  <2>2. (Complete => seen = SubSeq(src, 1, pos))'
    BY <1>1, <2>1 DEF Faithful, Complete
  <2> QED BY <1>1, <2>1, <2>2 DEF Faithful
<1> QED BY <1>3, <1>4, <1>5, <1>6, <1>7 DEF Next

LEMMA FaithfulMeans ==
  ASSUME Faithful
  PROVE  RoundTrip
<1> SUFFICES ASSUME HasFilter(encoding)
             PROVE  /\ IF status = "done"
                       THEN Decoded(encoding, dest) = Canonical(seen)
                       ELSE IsPrefix(DecodeBlock(encoding, Filter, dest).out, Canonical(seen))
                    /\ status # "overrun"
                       /\ (encoding = "base64" \/ NUL \notin ToSet(src)
                                               \/ BestEncoding(src) = encoding) =>
                         seen = SubSeq(src, 1, pos)
  BY DEF RoundTrip
<1>1. /\ seen \in Seq(Byte) /\ status \in {"reading", "done", "overrun"}
      /\ encoding \in {"base64", "quoted-printable"}
  BY DEF Faithful, Typed, HasFilter
<1>2. ASSUME status # "done", encoding = "base64"
      PROVE  IsPrefix(DecodeBlock(encoding, Filter, dest).out, Canonical(seen))
  <2>1. filter \in BaseUpTo(seen, Len(seen)) /\ Len(seen) \in 0 .. Len(seen)
    BY <1>1, <1>2, LenProperties DEF Faithful
  <2>2. IsPrefix(DecodeBlock("base64", Filter, filter.out).out, seen)
    BY <1>1, <2>1, BaseReads
  <2> QED BY <1>2, <2>2 DEF dest, Canonical
<1>3. ASSUME status # "done", encoding = "quoted-printable"
      PROVE  IsPrefix(DecodeBlock(encoding, Filter, dest).out, Canonical(seen))
  <2>0. status = "reading" /\ Len(seen) \in 0 .. Len(seen)
    BY <1>1, <1>3, LenProperties DEF Faithful
  <2>1. PICK w : Grows(seen, w) /\ filter \in QuotedUpTo(seen, w, Len(seen))
    BY <1>3, <2>0 DEF Faithful
  <2>2. IsPrefix(DecodeBlock("quoted-printable", Filter, filter.out).out, WithNewLines(seen))
    BY <1>1, <2>0, <2>1, QuotedReads
  <2> QED BY <1>3, <2>2 DEF dest, Canonical
<1>4. ASSUME status = "done" PROVE Decoded(encoding, dest) = Canonical(seen)
  BY <1>4 DEF Faithful
<1>5. ASSUME status # "overrun",
             encoding = "base64" \/ NUL \notin ToSet(src) \/ BestEncoding(src) = encoding
      PROVE  seen = SubSeq(src, 1, pos)
  <2>1. BestEncoding(src) = "quoted-printable" => NUL \notin ToSet(src)
    BY DEF BestEncoding
  <2>2. Complete
    BY <1>1, <1>5, <2>1 DEF Complete
  <2> QED BY <2>2 DEF Faithful
<1> QED BY <1>1, <1>2, <1>3, <1>4, <1>5

(* RoundTrip: what mailparse_stream_encode writes decodes to the bytes it  *)
(* has given the filter, line ends as CR LF in quoted-printable, at any    *)
(* time before the end to a beginning of them; and these are all that was  *)
(* read of the source, unless a read failed or, in quoted-printable, the   *)
(* source has NULs.  For every source, width of lines and choice of reads. *)
THEOREM EncodedDecodes == Spec => []RoundTrip
<1>1. Init => Faithful
  BY InitFaithful
<1>2. Faithful /\ [Next \/ Returned]_vars => Faithful'
  <2>1. ASSUME Faithful, UNCHANGED vars PROVE Faithful'
    <3>1. /\ UNCHANGED src /\ UNCHANGED encoding /\ UNCHANGED pos /\ UNCHANGED filter
          /\ UNCHANGED status /\ UNCHANGED seen
      BY <2>1, Stutters
    <3>2. Typed' /\ Complete' = Complete /\ Canonical(seen)' = Canonical(seen) /\ dest' = dest
      BY <2>1, <3>1 DEF Faithful, Typed, Complete, Canonical, dest
    <3> QED BY <2>1, <3>1, <3>2 DEF Faithful
  <2> QED BY <2>1, NextFaithful DEF Returned
<1>3. Faithful => RoundTrip
  BY FaithfulMeans
<1> QED BY <1>1, <1>2, <1>3, PTL DEF Spec
-----------------------------------------------------------------------------
(* Lines that look like the separator of a mailbox.  In the encoded text,  *)
(* a line begins after a bytes, and not for a soft line break; in the      *)
(* source it begins after q.                                               *)
Hard(o, a)       == a = 0 \/ (o[a] = LF /\ ~(a > 2 /\ o[a - 2] = EQ))
Matches(o, a, m) == \A k \in 1 .. m : o[a + k] = From[k]
NoFrom(o)        == \A a \in 0 .. Len(o) :
                      Hard(o, a) /\ a + 5 <= Len(o) => ~Matches(o, a, 5)
LineStart(s, q)  == q = 0 \/ s[q] = LF
FromAt(s, q)     == q + 5 <= Len(s) /\ IsFrom(s, q)

(* o is what e bytes of s were encoded to, i of them read: a beginning of  *)
(* "From " at its end stands for the one in the source, which is a line    *)
(* that has been looked at and does not go on like that.                   *)
EndsIn(o, a, m) == m <= 4 /\ Hard(o, a) /\ Matches(o, a, m)
StandsFor(s, q, m, i) ==
  q \in Nat /\ LineStart(s, q) /\ Matches(s, q, m) /\ (q < i => ~FromAt(s, q))
Hidden(o, s, e, i) ==
  /\ NoFrom(o)
  /\ \A a \in 0 .. Len(o) : EndsIn(o, a, Len(o) - a) =>
       StandsFor(s, e - (Len(o) - a), Len(o) - a, i)

LEMMA FromBytes ==
  \A k \in 1 .. 5 : From[k] \in Byte /\ From[k] \notin {EQ, LF, CR}
<1>1. From[1] = 70 /\ From[2] = 114 /\ From[3] = 111 /\ From[4] = 109 /\ From[5] = SP
  BY FromFacts
<1>2. \A k \in 1 .. 5 : k = 1 \/ k = 2 \/ k = 3 \/ k = 4 \/ k = 5
  OBVIOUS
<1> QED BY SMT, <1>1, <1>2 DEF EQ, LF, CR, SP, Byte

(* A line of the text in front is one of the text.                         *)
LEMMA HardBefore ==
  ASSUME NEW o \in Seq(Byte), NEW b \in Seq(Byte), NEW a \in 0 .. Len(o)
  PROVE  Hard(o \o b, a) = Hard(o, a)
<1> DEFINE p == o \o b
<1>1. Len(o) \in Nat /\ \A i \in 1 .. Len(o) : p[i] = o[i]
  BY ConcatIs
<1> HIDE DEF p
<1>2. a = 0 \/ p[a] = o[a]
  BY <1>1
<1>3. a > 2 => p[a - 2] = o[a - 2]
  <2>1. a > 2 => a - 2 \in 1 .. Len(o)
    BY <1>1
  <2> QED BY <1>1, <2>1
<1> QED BY <1>2, <1>3 DEF Hard, p

(* Bytes that begin with "=" and have no other line ends than those of     *)
(* soft line breaks cut off what has been there.                           *)
Softly(b) ==
  /\ b # << >> /\ b[1] = EQ
  /\ \A j \in 1 .. Len(b) : b[j] = LF => j > 2 /\ b[j - 2] = EQ

LEMMA SoftlyHides ==
  ASSUME NEW o \in Seq(Byte), NEW b \in Seq(Byte), NoFrom(o), Softly(b),
         NEW s, NEW e, NEW i
  PROVE  Hidden(o \o b, s, e, i)
<1> DEFINE p == o \o b
           L == Len(o)
           n == Len(b)
<1>1. /\ L \in Nat /\ n \in Nat /\ Len(p) = L + n
      /\ \A k \in 1 .. L : p[k] = o[k]
      /\ \A k \in 1 .. n : p[L + k] = b[k]
      /\ \A k \in L + 1 .. L + n : k - L \in 1 .. n /\ p[k] = b[k - L]
  BY ConcatIs
<1>2. n > 0
  BY <1>1, EmptySeq DEF Softly
<1>3. \A a \in 0 .. L : Hard(p, a) = Hard(o, a)
  BY HardBefore
<1> HIDE DEF p, n
<1>4. p[L + 1] = EQ
  <2>1. 1 \in 1 .. n
    BY <1>1, <1>2
  <2> QED BY <1>1, <2>1 DEF Softly
<1>5. ASSUME NEW a \in L + 1 .. L + n PROVE ~Hard(p, a)
  <2> DEFINE j == a - L
  <2>1. j \in 1 .. n /\ p[a] = b[j] /\ a # 0 /\ a = L + j
    BY <1>1
  <2> SUFFICES ASSUME p[a] = LF PROVE a > 2 /\ p[a - 2] = EQ
    BY <2>1 DEF Hard
  <2> HIDE DEF j
  <2>2. j > 2 /\ b[j - 2] = EQ
    BY <2>1 DEF Softly, n
  <2>3. j - 2 \in 1 .. n /\ L + (j - 2) = a - 2
    BY <1>1, <2>1, <2>2
  <2> QED BY <1>1, <2>1, <2>2, <2>3
<1>6. ASSUME NEW a \in 0 .. L, NEW m \in Nat, m <= 5, Matches(p, a, m) PROVE a + m <= L
  <2> DEFINE k == L + 1 - a
  <2>1. k \in Nat /\ k >= 1 /\ a + k = L + 1
    BY <1>1
  <2> HIDE DEF k
  <2>2. k <= m => k \in 1 .. m /\ k \in 1 .. 5
    BY <1>6, <2>1
  <2>3. k <= m => p[a + k] = From[k]
    BY <1>6, <2>2 DEF Matches
  <2>4. ~(k <= m)
    BY <1>4, <2>1, <2>2, <2>3, FromBytes
  <2> QED BY <1>1, <1>6, <2>1, <2>4
<1>7. NoFrom(p)
  <2> SUFFICES ASSUME NEW a \in 0 .. Len(p), Hard(p, a), a + 5 <= Len(p), Matches(p, a, 5)
               PROVE  FALSE
    BY DEF NoFrom
  <2>1. a \in 0 .. L
    BY <1>1, <1>5
  <2>2. a + 5 <= L
    BY <1>6, <2>1
  <2>3. ASSUME NEW k \in 1 .. 5 PROVE o[a + k] = From[k]
    <3>1. a + k \in 1 .. L
      BY <1>1, <2>1, <2>2
    <3> QED BY <1>1, <3>1 DEF Matches
  <2> QED BY <1>3, <2>1, <2>2, <2>3 DEF NoFrom, Matches
<1>8. ASSUME NEW a \in 0 .. Len(p), EndsIn(p, a, Len(p) - a) PROVE FALSE
  <2> DEFINE m == Len(p) - a
  <2>1. m \in Nat /\ a + m = L + n
    BY <1>1
  <2>2. m <= 4 /\ Hard(p, a) /\ Matches(p, a, m)
    BY <1>8 DEF EndsIn
  <2>3. a \in 0 .. L
    BY <1>1, <1>5, <2>2
  <2> HIDE DEF m
  <2>4. a + m <= L
    BY <1>6, <2>1, <2>2, <2>3
  <2> QED BY <1>1, <1>2, <2>1, <2>4
<1> QED BY <1>7, <1>8 DEF Hidden, p

(* A line end of the encoder's own begins the line of the source.          *)
LEMMA NewLineHides ==
  ASSUME NEW o \in Seq(Byte), NoFrom(o), NEW s, NEW e \in Nat, LineStart(s, e)
  PROVE  Hidden(o \o NewLine, s, e, e)
<1> DEFINE b == NewLine
           p == o \o b
           L == Len(o)
<1>0. b \in Seq(Byte) /\ Len(b) = 2 /\ b[1] = CR /\ b[2] = LF
  BY ByteFacts DEF NewLine
<1> HIDE DEF b
<1>1. /\ L \in Nat /\ Len(p) = L + 2
      /\ \A k \in 1 .. L : p[k] = o[k]
      /\ p[L + 1] = CR /\ p[L + 2] = LF
  BY <1>0, ConcatIs
<1>2. \A a \in 0 .. L : Hard(p, a) = Hard(o, a)
  BY <1>0, HardBefore
<1> HIDE DEF p
<1>3. ~Hard(p, L + 1)
  BY <1>1, ByteFacts DEF Hard
<1>4. ASSUME NEW a \in 0 .. L, NEW k \in 1 .. 5, p[a + k] = From[k], a + k > L, a + k <= L + 2
      PROVE  FALSE
  <2>1. a + k = L + 1 \/ a + k = L + 2
    BY <1>1, <1>4
  <2> QED BY <1>1, <1>4, <2>1, FromBytes
<1>5. NoFrom(p)
  <2> SUFFICES ASSUME NEW a \in 0 .. Len(p), Hard(p, a), a + 5 <= Len(p), Matches(p, a, 5)
               PROVE  FALSE
    BY DEF NoFrom
  <2>1. a \in 0 .. L /\ 5 \in 1 .. 5
    BY <1>1
  <2>2. p[a + 5] = From[5]
    BY <2>1 DEF Matches
  <2>3. a + 5 <= L
    BY <1>1, <1>4, <2>1, <2>2
  <2>4. ASSUME NEW k \in 1 .. 5 PROVE o[a + k] = From[k]
    <3>1. a + k \in 1 .. L
      BY <1>1, <2>1, <2>3
    <3> QED BY <1>1, <3>1 DEF Matches
  <2> QED BY <1>2, <2>1, <2>3, <2>4 DEF NoFrom, Matches
<1>6. ASSUME NEW a \in 0 .. Len(p), EndsIn(p, a, Len(p) - a)
      PROVE  StandsFor(s, e - (Len(p) - a), Len(p) - a, e)
  <2> DEFINE m == Len(p) - a
  <2>1. m \in Nat /\ a + m = L + 2
    BY <1>1
  <2>2. m <= 4 /\ Hard(p, a) /\ Matches(p, a, m)
    BY <1>6 DEF EndsIn
  <2> HIDE DEF m
  <2>3. a = L + 2 /\ m = 0
    <3>1. a # L + 1
      BY <1>3, <2>2
    <3>2. ASSUME a \in 0 .. L PROVE FALSE
      <4>1. m \in 1 .. m /\ m \in 1 .. 5
        BY <1>1, <2>1, <2>2, <3>2
      <4>2. p[a + m] = From[m]
        BY <2>2, <4>1 DEF Matches
      <4> QED BY <1>1, <1>4, <2>1, <3>2, <4>1, <4>2
    <3> QED BY <1>1, <2>1, <3>1, <3>2
  <2>4. e - m = e /\ ~(e < e) /\ \A k \in 1 .. m : FALSE
    BY <2>3
  <2>5. StandsFor(s, e - m, m, e)
    BY <2>4 DEF StandsFor, Matches
  <2> QED BY <2>5 DEF m
<1> QED BY <1>5, <1>6 DEF Hidden, p, b

(* A byte that stands for itself goes on with what has begun.              *)
LEMMA ByteHides ==
  ASSUME NEW o \in Seq(Byte), NEW s \in Seq(Byte), NEW i \in 1 .. Len(s),
         Hidden(o, s, i - 1, i), s[i] # LF
  PROVE  Hidden(o \o <<s[i]>>, s, i, i)
<1> DEFINE c == s[i]
           b == <<c>>
           p == o \o b
           L == Len(o)
<1>0. c \in Byte /\ c # LF /\ Len(s) \in Nat
  BY LenProperties
<1> HIDE DEF c
<1>1. b \in Seq(Byte) /\ Len(b) = 1 /\ b[1] = c
  BY <1>0
<1> HIDE DEF b
<1>2. /\ L \in Nat /\ Len(p) = L + 1 /\ p[L + 1] = c
      /\ \A k \in 1 .. L : p[k] = o[k]
  <2>1. 1 \in 1 .. Len(b)
    BY <1>1
  <2>2. p[L + 1] = b[1]
    BY <1>1, <2>1, ConcatIs
  <2> QED BY <1>1, <2>2, ConcatIs
<1>3. \A a \in 0 .. L : Hard(p, a) = Hard(o, a)
  BY <1>1, HardBefore
<1> HIDE DEF p
<1>4. ~Hard(p, L + 1)
  BY <1>0, <1>2 DEF Hard
<1>5. NoFrom(o) /\ \A a \in 0 .. L : EndsIn(o, a, L - a) =>
                     StandsFor(s, (i - 1) - (L - a), L - a, i)
  BY DEF Hidden
<1> HIDE DEF L
(* what is at the end of p is at the end of o, but for the last byte *)
<1>6. ASSUME NEW a \in 0 .. L, NEW m \in 1 .. 5, a + m = L + 1, Hard(p, a), Matches(p, a, m)
      PROVE  StandsFor(s, i - m, m - 1, i) /\ c = From[m]
  <2> DEFINE l == m - 1
  <2>1. l \in Nat /\ l <= 4 /\ a + l = L /\ l = L - a /\ (i - 1) - l = i - m
    BY <1>2, <1>6
  <2>2. ASSUME NEW k \in 1 .. l PROVE o[a + k] = From[k]
    <3>1. k \in 1 .. m /\ a + k \in 1 .. L
      BY <1>2, <1>6, <2>1
    <3> QED BY <1>2, <1>6, <3>1 DEF Matches
  <2>3. c = From[m]
    <3>1. m \in 1 .. m
      OBVIOUS
    <3> QED BY <1>2, <1>6, <3>1 DEF Matches
  <2> HIDE DEF l
  <2>4. EndsIn(o, a, l)
    BY <1>3, <1>6, <2>1, <2>2 DEF EndsIn, Matches
  <2>5. StandsFor(s, (i - 1) - l, l, i)
    BY <1>5, <2>1, <2>4
  <2> QED BY <2>1, <2>3, <2>5 DEF l
<1>7. ASSUME NEW m \in 1 .. 5, StandsFor(s, i - m, m - 1, i), c = From[m]
      PROVE  /\ i - m \in Nat /\ LineStart(s, i - m) /\ Matches(s, i - m, m)
             /\ ~FromAt(s, i - m)
  <2>1. /\ i - m \in Nat /\ LineStart(s, i - m) /\ Matches(s, i - m, m - 1)
        /\ i - m < i => ~FromAt(s, i - m)
    BY <1>7 DEF StandsFor
  <2>2. ASSUME NEW k \in 1 .. m PROVE s[(i - m) + k] = From[k]
    <3>1. CASE k = m
      <4>1. (i - m) + m = i
        OBVIOUS
      <4> QED BY <1>7, <3>1, <4>1 DEF c
    <3>2. CASE k # m
      <4>1. k \in 1 .. m - 1
        BY <3>2
      <4> QED BY <2>1, <4>1 DEF Matches
    <3> QED BY <3>1, <3>2
  <2>3. i - m < i
    OBVIOUS
  <2> QED BY <2>1, <2>2, <2>3 DEF Matches
<1>8. NoFrom(p)
  <2> SUFFICES ASSUME NEW a \in 0 .. Len(p), Hard(p, a), a + 5 <= Len(p), Matches(p, a, 5)
               PROVE  FALSE
    BY DEF NoFrom
  <2>1. a \in 0 .. L /\ (a + 5 <= L \/ a + 5 = L + 1)
    BY <1>2
  <2>2. CASE a + 5 <= L
    <3>1. ASSUME NEW k \in 1 .. 5 PROVE o[a + k] = From[k]
      <4>1. a + k \in 1 .. L
        BY <1>2, <2>1, <2>2
      <4> QED BY <1>2, <4>1 DEF Matches
    <3> QED BY <1>3, <1>5, <2>1, <2>2, <3>1 DEF NoFrom, Matches, L
  <2>3. CASE a + 5 = L + 1
    <3>1. 5 \in 1 .. 5
      OBVIOUS
    <3>2. StandsFor(s, i - 5, 5 - 1, i) /\ c = From[5]
      BY <1>6, <2>1, <2>3, <3>1
    <3>3. i - 5 \in Nat /\ Matches(s, i - 5, 5) /\ ~FromAt(s, i - 5)
      BY <1>7, <3>1, <3>2
    <3>4. (i - 5) + 5 <= Len(s)
      BY <1>0
    <3>5. IsFrom(s, i - 5)
      BY <3>3 DEF Matches, IsFrom
    <3> QED BY <3>3, <3>4, <3>5 DEF FromAt
  <2> QED BY <2>1, <2>2, <2>3
<1>9. ASSUME NEW a \in 0 .. Len(p), EndsIn(p, a, Len(p) - a)
      PROVE  StandsFor(s, i - (Len(p) - a), Len(p) - a, i)
  <2> DEFINE m == Len(p) - a
  <2>1. m \in Nat /\ a + m = L + 1 /\ a \in 0 .. L + 1
    BY <1>2
  <2>2. m <= 4 /\ Hard(p, a) /\ Matches(p, a, m)
    BY <1>9 DEF EndsIn
  <2> HIDE DEF m
  <2>3. a \in 0 .. L /\ m \in 1 .. 5
    <3>1. a # L + 1
      BY <1>4, <2>2
    <3> QED BY <1>2, <2>1, <2>2, <3>1
  <2>4. StandsFor(s, i - m, m - 1, i) /\ c = From[m]
    BY <1>6, <2>1, <2>2, <2>3
  <2>5. StandsFor(s, i - m, m, i)
    BY <1>7, <2>3, <2>4 DEF StandsFor
  <2> QED BY <2>5 DEF m
<1> QED BY <1>8, <1>9 DEF Hidden, p, b, c

(* An encoder that has read i bytes hides the separators among them.       *)
Hides(s, i) ==
  {x \in Encoder("quoted-printable") :
     /\ x.state = 0 => Hidden(x.out, s, i, i)
     /\ x.state = 1 => i > 0 /\ x.cache = s[i] /\ Hidden(x.out, s, i - 1, i)}

LEMMA BreakSoftly ==
  ASSUME NEW v \in Seq(Byte), \A k \in 1 .. Len(v) : v[k] # LF
  PROVE  Softly((<<EQ>> \o NewLine) \o v)
<1> DEFINE e == <<EQ>>
           n == NewLine
           t == e \o n
           b == t \o v
<1>1. /\ e \in Seq(Byte) /\ Len(e) = 1 /\ e[1] = EQ
      /\ n \in Seq(Byte) /\ Len(n) = 2 /\ n[1] = CR /\ n[2] = LF
  BY ByteFacts DEF NewLine
<1> HIDE DEF e, n
<1>2. t \in Seq(Byte) /\ Len(t) = 3 /\ t[1] = EQ /\ t[2] = CR /\ t[3] = LF
  <2>1. 1 \in 1 .. Len(e) /\ 1 \in 1 .. Len(n) /\ 2 \in 1 .. Len(n)
    BY <1>1
  <2>2. t[1] = e[1] /\ t[Len(e) + 1] = n[1] /\ t[Len(e) + 2] = n[2]
    BY <1>1, <2>1, ConcatIs
  <2>3. t \in Seq(Byte) /\ Len(t) = Len(e) + Len(n)
    BY <1>1, ConcatIs
  <2> QED BY <1>1, <2>2, <2>3
<1> HIDE DEF t
<1>3. /\ Len(b) = 3 + Len(v) /\ Len(v) \in Nat
      /\ b[1] = EQ /\ b[2] = CR /\ b[3] = LF
      /\ \A k \in 4 .. 3 + Len(v) : k - 3 \in 1 .. Len(v) /\ b[k] = v[k - 3]
  <2>1. 1 \in 1 .. Len(t) /\ 2 \in 1 .. Len(t) /\ 3 \in 1 .. Len(t)
    BY <1>2
  <2>2. b[1] = t[1] /\ b[2] = t[2] /\ b[3] = t[3]
    BY <1>2, <2>1, ConcatIs
  <2>3. /\ Len(b) = Len(t) + Len(v) /\ Len(v) \in Nat
        /\ \A k \in Len(t) + 1 .. Len(t) + Len(v) :
             k - Len(t) \in 1 .. Len(v) /\ b[k] = v[k - Len(t)]
    BY <1>2, ConcatIs
  <2> QED BY <1>2, <2>2, <2>3
<1>4. b # << >>
  BY <1>3
<1> HIDE DEF b
<1>5. ASSUME NEW k \in 1 .. Len(b), b[k] = LF PROVE k > 2 /\ b[k - 2] = EQ
  <2>1. k = 1 \/ k = 2 \/ k = 3 \/ k \in 4 .. 3 + Len(v)
    BY <1>3
  <2>2. k = 3
    BY <1>3, <1>5, <2>1, ByteFacts
  <2> QED BY <1>3, <2>2
<1> QED BY <1>3, <1>4, <1>5 DEF Softly, b, t, e, n

LEMMA SoftFacts ==
  ASSUME NEW x \in Encoder("quoted-printable"), NEW c \in Byte, c # LF,
         NEW b, b = SoftBreak(x) \o Written(c)
  PROVE  b \in Seq(Byte) /\ (Softly(b) \/ b = <<c>>)
<1>1. Written(c) \in Seq(Byte) /\ SoftBreak(x) \in Seq(Byte)
  BY WrittenFacts, ByteFacts DEF SoftBreak
<1>2. b \in Seq(Byte)
  BY <1>1, ConcatProperties
<1>3. /\ \A k \in 1 .. Len(Written(c)) : Written(c)[k] # LF
      /\ Softly(Written(c)) \/ Written(c) = <<c>>
  <2> DEFINE h == c \div 16
             l == c % 16
             u == HexDigit(h)
             v == HexDigit(l)
  <2>1. CASE Quoted(c)
    <3>1. Written(c) = <<EQ, HexDigit(h), HexDigit(l)>> /\ h \in 0 .. 15 /\ l \in 0 .. 15
      BY <2>1, WrittenFacts
    <3>2. \A n \in 0 .. 15 : HexDigit(n) # LF
      BY SMT DEF HexDigit, LF
    <3> HIDE DEF h, l
    <3>3. u # LF /\ v # LF /\ Written(c) = <<EQ, u, v>>
      BY <3>1, <3>2
    <3> HIDE DEF u, v
    <3> QED BY <3>3, ByteFacts DEF Softly
  <2>2. CASE ~Quoted(c)
    BY <2>2, WrittenFacts
  <2> QED BY <2>1, <2>2
<1>4. CASE SoftBreak(x) = << >>
  <2>1. b = Written(c)
    BY <1>1, <1>4, ConcatEmptySeq
  <2> QED BY <1>2, <1>3, <2>1
<1>5. CASE SoftBreak(x) = <<EQ>> \o NewLine
  <2>1. Softly((<<EQ>> \o NewLine) \o Written(c))
    BY <1>1, <1>3, BreakSoftly
  <2> QED BY <1>2, <1>5, <2>1
<1> QED BY <1>4, <1>5 DEF SoftBreak

(* What becomes of the byte that an encoder holds.                         *)
LEMMA HeldHides ==
  ASSUME NEW s \in Seq(Byte), {CR, NUL} \cap ToSet(s) = {}, NEW i \in 0 .. Len(s),
         NEW x \in Hides(s, i), NEW c \in Byte
  PROVE  Hidden(EncodeQuoted(x, c).out, s, i, i)
<1> DEFINE y == EncodeQuoted(x, c)
           o == x.out
           d == x.cache
<1>1. /\ x \in Encoder("quoted-printable") /\ x.state \in {0, 1}
      /\ o \in Seq(Byte) /\ d \in Byte /\ Len(s) \in Nat
  BY LenProperties DEF Hides, Encoder, Coders
<1>2. /\ x.state = 0 => Put(y, x, 1, c, x.column, << >>)
      /\ x.state = 1 /\ d = LF => Put(y, x, 1, c, 0, NewLine)
      /\ x.state = 1 /\ d \notin {NUL, LF, CR} =>
           Put(y, x, 1, c, QuotedColumn(x), SoftBreak(x) \o Written(d))
  BY <1>1, EncodeQuotedIs
<1> HIDE DEF y
<1>3. CASE x.state = 0
  <2>1. y.out = o /\ Hidden(o, s, i, i)
    BY <1>1, <1>2, <1>3, ConcatEmptySeq DEF Put, Hides
  <2> QED BY <2>1 DEF y
<1>4. CASE x.state = 1
  <2>1. i > 0 /\ d = s[i] /\ Hidden(o, s, i - 1, i)
    BY <1>4 DEF Hides
  <2>2. i \in 1 .. Len(s) /\ d \notin {CR, NUL} /\ NoFrom(o)
    <3>1. i \in 1 .. Len(s) /\ i \in DOMAIN s
      BY <1>1, <2>1, LenProperties
    <3>2. s[i] \in ToSet(s)
      BY <3>1 DEF ToSet
    <3> QED BY <2>1, <3>1, <3>2 DEF Hidden
  <2> HIDE DEF o, d
  <2>3. CASE d = LF
    <3>1. y.out = o \o NewLine
      BY <1>2, <1>4, <2>3 DEF Put, o
    <3>2. i \in Nat /\ LineStart(s, i)
      BY <2>1, <2>3 DEF LineStart
    <3> QED BY <1>1, <2>2, <3>1, <3>2, NewLineHides DEF y
  <2>4. CASE d # LF
    <3> DEFINE b == SoftBreak(x) \o Written(d)
    <3>1. y.out = o \o b
      BY <1>2, <1>4, <2>2, <2>4 DEF Put, o
    <3>2. b \in Seq(Byte) /\ (Softly(b) \/ b = <<d>>)
      BY <1>1, <2>4, SoftFacts
    <3> HIDE DEF b
    <3>3. Softly(b) => Hidden(o \o b, s, i, i)
      BY <1>1, <2>2, <3>2, SoftlyHides
    <3>4. Hidden(o \o <<s[i]>>, s, i, i)
      BY <1>1, <2>1, <2>2, <2>4, ByteHides
    <3> QED BY <2>1, <3>1, <3>2, <3>3, <3>4 DEF y
  <2> QED BY <2>3, <2>4
<1> QED BY <1>1, <1>3, <1>4

(* The next byte may begin a line of the source that is no separator.      *)
LEMMA StepHides ==
  ASSUME NEW s \in Seq(Byte), {CR, NUL} \cap ToSet(s) = {}, NEW i \in 1 .. Len(s),
         NEW x \in Hides(s, i - 1), LineStart(s, i - 1) => ~FromAt(s, i - 1)
  PROVE  EncodeQuoted(x, s[i]) \in Hides(s, i)
<1> DEFINE c == s[i]
           y == EncodeQuoted(x, c)
           j == i - 1
<1>1. Len(s) \in Nat /\ c \in Byte /\ j \in 0 .. Len(s) /\ i = j + 1
  BY LenProperties
<1>2. x \in Encoder("quoted-printable")
  BY DEF Hides
<1>3. y \in Encoder("quoted-printable") /\ y.state = 1 /\ y.cache = c
  BY <1>1, <1>2, EncodeQuotedFacts
<1> HIDE DEF c, j
<1>4. Hidden(y.out, s, j, j)
  BY <1>1, HeldHides DEF j
<1> HIDE DEF y
<1>5. Hidden(y.out, s, j, i)
  <2> DEFINE o == y.out
  <2> SUFFICES ASSUME NEW a \in 0 .. Len(o), EndsIn(o, a, Len(o) - a)
               PROVE  StandsFor(s, j - (Len(o) - a), Len(o) - a, i)
    BY <1>4 DEF Hidden
  <2> DEFINE q == j - (Len(o) - a)
             m == Len(o) - a
  <2>1. StandsFor(s, q, m, j)
    BY <1>4 DEF Hidden
  <2>2. o \in Seq(Byte) /\ m \in Nat /\ q = j - m
    BY <1>3, LenProperties DEF Encoder, Coders
  <2> HIDE DEF o, m, q
  <2>3. q \in Nat /\ LineStart(s, q) /\ Matches(s, q, m) /\ (q < j => ~FromAt(s, q))
    BY <2>1 DEF StandsFor
  <2>4. q < j \/ q = j
    BY <1>1, <2>2, <2>3
  <2>5. q = j => ~FromAt(s, q)
    BY <2>3 DEF j
  <2> QED BY <2>3, <2>4, <2>5 DEF StandsFor, m, q
<1>6. i > 0 /\ i - 1 = j
  BY DEF j
<1>7. y \in Hides(s, i)
  BY <1>3, <1>5, <1>6 DEF Hides, c
<1> QED BY <1>7 DEF y, c

LEMMA PartHides ==
  ASSUME NEW s \in Seq(Byte), {CR, NUL} \cap ToSet(s) = {},
         NEW a \in 0 .. Len(s), NEW b \in a .. Len(s), NEW f \in Hides(s, a),
         \A q \in a .. b - 1 : LineStart(s, q) => ~FromAt(s, q)
  PROVE  EncodeBytes("quoted-printable", f, SubSeq(s, a + 1, b)) \in Hides(s, b)
<1> DEFINE enc == "quoted-printable"
           I == [i \in 0 .. Len(s) |-> Hides(s, i)]
<1>1. Len(s) \in Nat /\ f \in Encoder(enc) /\ b \in 0 .. Len(s)
  BY LenProperties DEF Hides
<1>2. \A i \in 0 .. Len(s) : I[i] = Hides(s, i)
  OBVIOUS
<1> HIDE DEF I
<1>3. CarriesFrom(enc, s, a, b, I)
  <2> SUFFICES ASSUME NEW i \in a + 1 .. b, NEW x \in Encoder(enc), x \in I[i - 1]
               PROVE  EncodeByte(enc, x, s[i]) \in I[i]
    BY DEF CarriesFrom
  <2>1. i - 1 \in 0 .. Len(s) /\ i \in 0 .. Len(s) /\ i \in 1 .. Len(s) /\ i - 1 \in a .. b - 1
    BY <1>1
  <2>2. x \in Hides(s, i - 1) /\ (LineStart(s, i - 1) => ~FromAt(s, i - 1))
    BY <1>2, <2>1
  <2>3. EncodeQuoted(x, s[i]) \in Hides(s, i)
    BY <2>1, <2>2, StepHides
  <2>4. EncodeByte(enc, x, s[i]) = EncodeQuoted(x, s[i])
    BY DEF EncodeByte
  <2> QED BY <1>2, <2>1, <2>3, <2>4
<1>4. f \in I[a]
  BY <1>2
<1>5. EncodeBytes(enc, f, SubSeq(s, a + 1, b)) \in I[b]
  BY <1>1, <1>3, <1>4, PartInduct
<1> QED BY <1>1, <1>2, <1>5

(* The escape of a "From " of the source is a soft one.                    *)
LEMMA StartHides ==
  ASSUME Typed, encoding = "quoted-printable", {CR, NUL} \cap ToSet(src) = {},
         filter \in Hides(src, pos), NEW e \in {0, 5}
  PROVE  Start(e) \in Hides(src, pos + e)
<1>1. src \in Seq(Byte) /\ pos \in 0 .. Len(src) /\ pos \in Nat
  BY LenProperties DEF Typed
<1>2. CASE e = 0
  BY <1>1, <1>2 DEF Start
<1>3. CASE e = 5
  <2> DEFINE o == FlushEncoder(encoding, filter).out
             b == EscapedFrom
             y == Escape
             j == pos + 5
  <2>1. y \in Encoder("quoted-printable") /\ y.state = 0 /\ y.out = o \o b
    BY EscapeFacts
  <2>2. filter \in Encoder("quoted-printable")
    BY DEF Hides
  <2>3. o = EncodeQuoted(filter, NUL).out /\ o \in Seq(Byte)
    <3>1. o = EncodeQuoted(filter, NUL).out
      BY <2>2, FlushIs
    <3>2. o \in Seq(Byte)
      BY <2>2, FlushIs DEF Coders
    <3> QED BY <3>1, <3>2
  <2>4. Hidden(EncodeQuoted(filter, NUL).out, src, pos, pos)
    BY <1>1, ByteFacts, HeldHides
  <2>5. NoFrom(o)
    BY <2>3, <2>4 DEF Hidden
  <2>6. b \in Seq(Byte) /\ Softly(b)
    <3>1. b \in Seq(Byte)
      BY FromFacts
    <3>2. b # << >> /\ b[1] = EQ /\ \A k \in 1 .. Len(b) : b[k] # LF
      BY SMT DEF EscapedFrom, EQ, LF, SP
    <3> QED BY <3>1, <3>2 DEF Softly
  <2> HIDE DEF o, b, y, j
  <2>7. Hidden(o \o b, src, j, j)
    BY <2>3, <2>5, <2>6, SoftlyHides
  <2>8. y \in Hides(src, j)
    <3>1. /\ y.state = 0 => Hidden(y.out, src, j, j)
          /\ y.state = 1 => j > 0 /\ y.cache = src[j] /\ Hidden(y.out, src, j - 1, j)
      BY <2>1, <2>7
    <3> QED BY ONLY <2>1, <3>1 DEF Hides
  <2>9. Start(e) = y
    BY <1>3 DEF Start, y
  <2> QED BY <1>3, <2>8, <2>9 DEF j
<1> QED BY <1>2, <1>3

(* Only the first byte of what a round reads may begin a line, and then it *)
(* is looked at: five bytes are, when the buffer holds that many.          *)
LEMMA RoundLooks ==
  ASSUME Typed, BufSize > 5, {CR, NUL} \cap ToSet(src) = {}, NEW n, NEW m, NEW e, Round(n, m, e)
  PROVE  /\ m = n /\ n \in 1 .. Len(src) - pos
         /\ \A q \in pos + e .. pos + n - 1 : LineStart(src, q) => ~FromAt(src, q)
<1>1. src \in Seq(Byte) /\ pos \in Nat /\ Len(src) \in Nat /\ pos <= Len(src) /\ BufSize \in Nat
  BY LenProperties, SizesAssumption DEF Typed
<1>2. /\ n \in 1 .. Len(src) - pos /\ e \in {0, 5}
      /\ \A i \in 1 .. n - 1 : src[pos + i] # LF
      /\ src[pos + n] = LF \/ pos + n = Len(src) \/ n = BufSize - 1
      /\ NUL \notin ToSet(src) => m = n
      /\ (e = 5) = (m >= 5 /\ IsFrom(src, pos))
  BY DEF Round, Takes
<1>3. m = n /\ n \in Nat /\ n >= 1 /\ pos + n <= Len(src)
  BY <1>1, <1>2
<1>4. ASSUME NEW q \in pos + e .. pos + n - 1, LineStart(src, q), FromAt(src, q) PROVE FALSE
  <2>1. q \in Nat /\ q >= pos + e /\ q <= pos + n - 1
    BY <1>1, <1>2, <1>3
  <2>2. q = pos
    <3> SUFFICES ASSUME q # pos PROVE FALSE
      OBVIOUS
    <3> DEFINE k == q - pos
    <3>1. k \in 1 .. n - 1 /\ pos + k = q /\ q # 0
      BY <1>1, <1>2, <1>3, <2>1
    <3> HIDE DEF k
    <3>2. src[q] # LF
      BY <1>2, <3>1
    <3> QED BY <1>4, <3>1, <3>2 DEF LineStart
  <2>3. e = 0
    BY <1>1, <1>2, <2>1, <2>2
  <2>4. pos + 5 <= Len(src) /\ IsFrom(src, pos)
    BY <1>4, <2>2 DEF FromAt
  <2>5. n >= 5
    <3> SUFFICES ASSUME n < 5 PROVE FALSE
      BY <1>3
    <3>1. n \in 1 .. 5
      BY <1>3
    <3>2. src[pos + n] # LF
      BY <2>4, <3>1, FromBytes DEF IsFrom
    <3>3. pos + n # Len(src) /\ n # BufSize - 1
      BY <1>1, <1>3, <2>4
    <3> QED BY <1>2, <3>2, <3>3
  <2> QED BY <1>2, <1>3, <2>3, <2>4, <2>5
<1> QED BY <1>2, <1>3, <1>4

(* While the source is read the encoder hides what it has read of it, and  *)
(* what it has written keeps no separator.                                 *)
NoneLeft == {CR, NUL} \cap ToSet(src) = {} /\ encoding = "quoted-printable"
Escaped ==
  /\ Typed
  /\ NoneLeft /\ status = "reading" => filter \in Hides(src, pos)
  /\ NoneLeft => NoFrom(dest)

LEMMA HidesMeans ==
  ASSUME NEW s, NEW i, NEW x \in Hides(s, i)
  PROVE  NoFrom(x.out)
<1>1. x.state = 0 \/ x.state = 1
  BY DEF Hides, Encoder, Coders
<1> QED BY <1>1 DEF Hides, Hidden

LEMMA InitEscaped ==
  ASSUME Init
  PROVE  Escaped
<1>1. Typed /\ pos = 0 /\ filter = Filter
  BY InitTyped DEF Init
<1>2. Filter.state = 0 /\ Filter.out = << >> /\ Filter \in Encoder("quoted-printable")
  BY FilterFacts
<1>3. Hidden(<< >>, src, 0, 0)
  <2> DEFINE o == << >>
  <2>1. Len(o) = 0
    OBVIOUS
  <2> HIDE DEF o
  <2>2. NoFrom(o)
    BY <2>1 DEF NoFrom
  <2>3. ASSUME NEW a \in 0 .. Len(o)
        PROVE  StandsFor(src, 0 - (Len(o) - a), Len(o) - a, 0)
    <3>1. Len(o) - a = 0 /\ 0 - (Len(o) - a) = 0 /\ ~(0 < 0)
      <4>1. a = 0
        BY <2>1
      <4> QED BY <2>1, <4>1
    <3>2. \A k \in 1 .. 0 : FALSE
      OBVIOUS
    <3>3. StandsFor(src, 0, 0, 0)
      BY <3>2 DEF StandsFor, LineStart, Matches
    <3> QED BY <3>1, <3>3
  <2> QED BY <2>2, <2>3 DEF Hidden, o
<1>4. Filter \in Hides(src, 0)
  BY <1>2, <1>3 DEF Hides
<1>5. NoFrom(dest)
  BY <1>1, <1>4, HidesMeans DEF dest
<1> QED BY <1>1, <1>4, <1>5 DEF Escaped

LEMMA NextEscaped ==
  ASSUME Escaped, Next, BufSize > 5
  PROVE  Escaped'
<1>1. Typed /\ Typed' /\ status = "reading"
  BY NextTyped DEF Escaped, Next
<1>2. src \in Seq(Byte) /\ pos \in 0 .. Len(src) /\ Len(src) \in Nat
  BY <1>1, LenProperties DEF Typed
<1>3. CASE FeedLine
  <2>1. PICK n, m, e : Round(n, m, e)
    BY <1>1, <1>3, RoundIs
  <2>2. encoding = "quoted-printable" /\ UNCHANGED <<src, encoding, status>>
    BY <1>3 DEF FeedLine
  <2>3. /\ e \in {0, 5} /\ e <= m
        /\ filter' = EncodeBytes(encoding, Start(e), SubSeq(src, (pos + e) + 1, pos + m))
        /\ pos' = pos + n
    BY <2>1 DEF Round
  <2>4. ASSUME NoneLeft PROVE filter' \in Hides(src, pos')
    <3>1. {CR, NUL} \cap ToSet(src) = {} /\ filter \in Hides(src, pos)
      BY <1>1, <2>4 DEF Escaped, NoneLeft
    <3>2. /\ m = n /\ n \in 1 .. Len(src) - pos
          /\ \A q \in pos + e .. pos + n - 1 : LineStart(src, q) => ~FromAt(src, q)
      BY <1>1, <2>1, <3>1, RoundLooks
    <3> DEFINE a == pos + e
               b == pos + n
               x == Start(e)
    <3>3. a \in 0 .. Len(src) /\ b \in a .. Len(src)
      BY <1>2, <2>3, <3>2
    <3>4. x \in Hides(src, a)
      BY <1>1, <2>2, <2>3, <3>1, StartHides
    <3>5. filter' = EncodeBytes("quoted-printable", x, SubSeq(src, a + 1, b))
      BY <2>2, <2>3, <3>2
    <3> HIDE DEF a, b, x
    <3>6. \A q \in a .. b - 1 : LineStart(src, q) => ~FromAt(src, q)
      <4>1. pos \in Int /\ n \in Int
        BY <1>2, <3>2
      <4>2. b - 1 = pos + n - 1 /\ a = pos + e
        BY <4>1 DEF a, b
      <4> QED BY <3>2, <4>2
    <3>7. filter' \in Hides(src, b)
      BY <1>2, <3>1, <3>3, <3>4, <3>5, <3>6, PartHides
    <3> QED BY <2>3, <3>7 DEF b
  <2>5. NoneLeft' = NoneLeft /\ src' = src
    BY <2>2 DEF NoneLeft
  <2>6. NoneLeft' => filter' \in Hides(src', pos')
    BY <2>4, <2>5
  <2>7. NoneLeft' => NoFrom(dest')
    BY <2>6, HidesMeans DEF dest
  <2> QED BY <1>1, <2>6, <2>7 DEF Escaped
<1>4. CASE \E n \in 1 .. BufSize : FeedBlock(n)
  <2>1. encoding' = "base64"
    BY <1>4 DEF FeedBlock
  <2> QED BY <1>1, <2>1 DEF Escaped, NoneLeft
<1>5. CASE Finish
  <2>1. /\ status' = "done" /\ pos = Len(src)
        /\ filter' = FlushEncoder(encoding, filter) /\ UNCHANGED <<src, encoding, pos>>
    BY <1>5 DEF Finish
  <2>2. ASSUME NoneLeft PROVE NoFrom(dest')
    <3>1. /\ {CR, NUL} \cap ToSet(src) = {} /\ filter \in Hides(src, pos)
          /\ encoding = "quoted-printable"
      BY <1>1, <2>2 DEF Escaped, NoneLeft
    <3>2. Hidden(EncodeQuoted(filter, NUL).out, src, pos, pos)
      BY <1>2, <3>1, ByteFacts, HeldHides
    <3>3. filter \in Encoder("quoted-printable")
      BY <3>1 DEF Hides
    <3>4. FlushEncoder("quoted-printable", filter).out = EncodeQuoted(filter, NUL).out
      BY <3>3, FlushIs
    <3>5. dest' = FlushEncoder("quoted-printable", filter).out
      BY <2>1, <3>1 DEF dest
    <3> QED BY <3>2, <3>4, <3>5 DEF Hidden
  <2>3. NoneLeft' = NoneLeft
    BY <2>1 DEF NoneLeft
  <2> QED BY <1>1, <2>1, <2>2, <2>3 DEF Escaped
<1>6. CASE NoFilter
  <2>1. NoneLeft' = NoneLeft /\ dest' = dest /\ status' = "crashed"
    BY <1>6 DEF NoFilter, NoneLeft, dest
  <2> QED BY <1>1, <2>1 DEF Escaped
<1>7. CASE ReadError
  <2>1. encoding' = "base64" /\ status' = "overrun"
    BY <1>7, ErrorIs
  <2> QED BY <1>1, <2>1 DEF Escaped, NoneLeft
<1> QED BY <1>3, <1>4, <1>5, <1>6, <1>7 DEF Next

LEMMA EscapedMeans ==
  ASSUME Escaped, \A k \in 1 .. Len(dest) : dest[k] = LF => k > 1
  PROVE  FromEscaped
<1> SUFFICES ASSUME NoneLeft, NEW i \in LineStarts, IsPrefix(From, LineFrom(i))
             PROVE  i > 3 /\ dest[i - 3] = EQ
  BY DEF FromEscaped, NoneLeft
<1> DEFINE o == dest
           L == Len(o)
           marks == {k \in DOMAIN o : k >= i /\ o[k] = LF}
           ends == {j - 2 : j \in marks} \cup {L}
           n == Min(ends)
           a == i - 1
           t == SubSeq(o, i, n)
<1>1. NoFrom(o) /\ o \in Seq(Byte)
  BY DEF Escaped, Typed, Encoder, Coders, dest
<1>2. L \in Nat /\ DOMAIN o = 1 .. L /\ o \in [1 .. L -> Byte]
  BY <1>1, LenProperties
<1>3. a \in 0 .. L /\ i = a + 1 /\ (a = 0 \/ o[a] = LF)
  <2>1. i = 1 \/ \E j \in DOMAIN o : o[j] = LF /\ i = j + 1
    BY DEF LineStarts
  <2> HIDE DEF o, L
  <2>2. CASE i = 1
    BY <1>2, <2>2
  <2>3. CASE i # 1
    <3>1. PICK j \in 1 .. L : o[j] = LF /\ i = j + 1
      BY <1>2, <2>1, <2>3
    <3> QED BY <1>2, <3>1
  <2> QED BY <2>2, <2>3
<1>4. LineFrom(i) = t
  BY DEF LineFrom, LineEnd
<1>5. n \in Nat /\ n <= L
  <2>1. ends \in SUBSET Nat /\ L \in ends
    <3>1. ASSUME NEW j \in marks PROVE j - 2 \in Nat
      <4>1. j \in 1 .. L /\ j > 1
        BY <1>2, <3>1
      <4> QED BY <1>2, <4>1
    <3> QED BY <1>2, <3>1
  <2> HIDE DEF ends, o, L
  <2> QED BY <1>2, <2>1, MinFacts
<1> HIDE DEF n, L, a, ends, marks
<1>6. t \in Seq(Byte) /\ (Len(t) > 0 => Len(t) = n - a /\ \A k \in 1 .. n - a : t[k] = o[a + k])
  <2>1. CASE a <= n
    <3>1. n \in a .. L
      BY <1>3, <1>5, <2>1
    <3> QED BY <1>1, <1>3, <3>1, SubFacts DEF L
  <2>2. CASE ~(a <= n)
    <3>1. i \in Int /\ n \in Int /\ ~(i <= n) /\ \A k \in i .. n : o[k] \in Byte
      BY <1>3, <1>5, <2>2
    <3>2. t \in Seq(Byte) /\ Len(t) = 0
      BY <3>1, SubSeqProperties
    <3> QED BY <3>2
  <2> QED BY <2>1, <2>2
<1> HIDE DEF t, o
<1>7. 5 <= Len(t) /\ \A k \in 1 .. 5 : From[k] = t[k]
  <2>1. From \in Seq(Byte) /\ Len(From) = 5
    BY FromFacts
  <2>2. IsPrefix(From, t)
    BY <1>4
  <2> QED BY <1>6, <2>1, <2>2, PrefixIs
<1>8. a + 5 <= L /\ Matches(o, a, 5)
  <2>1. Len(t) \in Nat /\ a \in Nat /\ Len(t) > 0
    BY <1>2, <1>3, <1>6, <1>7, LenProperties
  <2>2. n - a >= 5 /\ \A k \in 1 .. 5 : k \in 1 .. n - a
    BY <1>5, <1>6, <1>7, <2>1
  <2>3. \A k \in 1 .. 5 : o[a + k] = From[k]
    BY <1>6, <1>7, <2>1, <2>2
  <2> QED BY <1>2, <1>5, <2>1, <2>2, <2>3 DEF Matches
<1>9. ~Hard(o, a)
  BY <1>1, <1>3, <1>8 DEF NoFrom, L
<1>10. a > 2 /\ o[a - 2] = EQ
  BY <1>3, <1>9 DEF Hard
<1>11. i > 3 /\ i - 3 = a - 2
  BY <1>2, <1>3, <1>10
<1> QED BY <1>10, <1>11 DEF o

(* FromEscaped: no line of the text that is written begins with "From ",   *)
(* but one that a soft line break begins (mailparse_stream_encode escapes  *)
(* them), when five bytes fit in the buffer, which has 2048.               *)
THEOREM SeparatorsEscaped ==
  ASSUME BufSize > 5
  PROVE  Spec => []FromEscaped
<1>1. Init => Escaped /\ Mailed
  BY InitEscaped, InitMailed
<1>2. Escaped /\ [Next \/ Returned]_vars => Escaped'
  <2> SUFFICES ASSUME Escaped, [Next \/ Returned]_vars PROVE Escaped'
    OBVIOUS
  <2>1. CASE Next
    BY <2>1, NextEscaped
  <2>2. CASE UNCHANGED vars
    <3>1. UNCHANGED src /\ UNCHANGED encoding /\ UNCHANGED pos /\ UNCHANGED filter
          /\ UNCHANGED status /\ UNCHANGED seen
      BY <2>2, Stutters
    <3> QED BY <3>1 DEF Escaped, Typed, NoneLeft, dest
  <2> QED BY <2>1, <2>2 DEF Returned
<1>3. Mailed /\ [Next \/ Returned]_vars => Mailed'
  BY MailedStays
<1>4. Escaped /\ Mailed => FromEscaped
  <2> SUFFICES ASSUME Escaped, Mailed PROVE FromEscaped
    OBVIOUS
  <2>1. \A k \in 1 .. Len(dest) : dest[k] = LF => k > 1
    BY DEF Mailed, Mail, Fits, EndsArePairs, dest
  <2> QED BY <2>1, EscapedMeans
<1> QED BY <1>1, <1>2, <1>3, <1>4, PTL DEF Spec
=============================================================================
