-------------------------- MODULE ExtractionProofs --------------------------
(* What holds of every extraction, for all messages, parts and encodings   *)
(* and every size of the buffer: the invariants of Extraction.             *)
EXTENDS Extraction, DataProofs

(* Stretches of a message.                                                 *)
LEMMA Cut ==
  ASSUME NEW m \in Seq(Byte), NEW a \in Nat, NEW b \in Nat, a <= b, b <= Len(m)
  PROVE  /\ SubSeq(m, a + 1, b) \in Seq(Byte)
         /\ Len(SubSeq(m, a + 1, b)) = b - a
         /\ \A i \in 1 .. b - a : SubSeq(m, a + 1, b)[i] = m[a + i]
<1>1. Len(m) \in Nat /\ \A i \in (a + 1) .. b : m[i] \in Byte
  <2>1. Len(m) \in Nat /\ m \in [1 .. Len(m) -> Byte]
    BY LenProperties
  <2> QED BY <2>1
<1>2. /\ SubSeq(m, a + 1, b) \in Seq(Byte)
      /\ Len(SubSeq(m, a + 1, b)) = IF a + 1 <= b THEN b - (a + 1) + 1 ELSE 0
      /\ \A i \in 1 .. b - (a + 1) + 1 : SubSeq(m, a + 1, b)[i] = m[(a + 1) + i - 1]
  <2> DEFINE k == a + 1
  <2>1. k \in Int /\ b \in Int /\ \A i \in k .. b : m[i] \in Byte
    BY <1>1
  <2> HIDE DEF k
  <2>2. /\ SubSeq(m, k, b) \in Seq(Byte)
        /\ Len(SubSeq(m, k, b)) = IF k <= b THEN b - k + 1 ELSE 0
        /\ \A i \in 1 .. b - k + 1 : SubSeq(m, k, b)[i] = m[k + i - 1]
    BY <2>1, SubSeqProperties
  <2> QED BY <2>2 DEF k
<1>3. Len(SubSeq(m, a + 1, b)) = b - a
  BY <1>2
<1>4. ASSUME NEW i \in 1 .. b - a PROVE SubSeq(m, a + 1, b)[i] = m[a + i]
  <2>1. i \in 1 .. b - (a + 1) + 1 /\ (a + 1) + i - 1 = a + i
    OBVIOUS
  <2> QED BY <1>2, <2>1
<1> QED BY <1>2, <1>3, <1>4

LEMMA CutTwice ==
  ASSUME NEW m \in Seq(Byte), NEW a \in Nat, NEW b \in Nat, NEW c \in Nat,
         a <= b, b <= c, c <= Len(m)
  PROVE  /\ SubSeq(m, a + 1, b) \o SubSeq(m, b + 1, c) = SubSeq(m, a + 1, c)
         /\ SubSeq(SubSeq(m, a + 1, c), (b - a) + 1, c - a) = SubSeq(m, b + 1, c)
<1>1. Len(m) \in Nat
  BY LenProperties
<1>2. SubSeq(m, a + 1, b) \o SubSeq(m, b + 1, c) = SubSeq(m, a + 1, c)
  <2>1. a + 1 \in 1 .. Len(m) + 1 /\ b \in (a + 1) - 1 .. Len(m) /\ c \in b .. Len(m)
    BY <1>1
  <2> QED BY <2>1, ConcatAdjacentSubSeq
<1> DEFINE s == SubSeq(m, a + 1, c)
           d == b - a
           n == c - a
           left == SubSeq(s, d + 1, n)
           right == SubSeq(m, b + 1, c)
<1>3. s \in Seq(Byte) /\ Len(s) = n /\ \A i \in 1 .. n : s[i] = m[a + i]
  BY <1>1, Cut
<1>4. d \in Nat /\ n \in Nat /\ d <= n /\ n - d = c - b
  BY <1>1
<1>5. right \in Seq(Byte) /\ Len(right) = c - b /\ \A i \in 1 .. c - b : right[i] = m[b + i]
  BY <1>1, Cut
<1> HIDE DEF s
<1>6. left \in Seq(Byte) /\ Len(left) = n - d /\ \A i \in 1 .. n - d : left[i] = s[d + i]
  <2> HIDE DEF d, n
  <2> QED BY <1>3, <1>4, Cut
<1> HIDE DEF left, right
<1>7. ASSUME NEW i \in 1 .. Len(left) PROVE left[i] = right[i]
  <2>1. i \in 1 .. c - b /\ d + i \in 1 .. n /\ a + (d + i) = b + i
    BY <1>4, <1>6
  <2>2. left[i] = s[d + i] /\ right[i] = m[b + i]
    BY <1>4, <1>5, <1>6, <2>1
  <2>3. s[d + i] = m[a + (d + i)]
    BY <1>3, <2>1
  <2> QED BY <2>1, <2>2, <2>3
<1>8. left = right
  <2>1. Len(left) = Len(right)
    BY <1>4, <1>5, <1>6
  <2> QED BY <1>5, <1>6, <1>7, <2>1, SeqEqual
<1> QED BY <1>2, <1>8 DEF left, right, s

(* The parser starts at the innermost body, and every part before it.      *)
LEMMA PlaceFacts ==
  /\ Innermost \in Nat
  /\ \A p \in Parts : /\ StartPos[p] \in Nat /\ BodyStart[p] \in Nat
                      /\ StartPos[p] <= BodyStart[p] /\ BodyStart[p] <= Innermost
<1> DEFINE c == [S \in SUBSET Parts |-> CHOOSE x \in S : TRUE]
           B == {BodyStart[p] : p \in Parts}
<1>1. Summand(BodyStart, c, Parts)
  <2>1. \A S \in SUBSET Parts : S # {} => c[S] \in S
    OBVIOUS
  <2> HIDE DEF c
  <2> QED BY <2>1, PartsAssumption DEF Summand
<1> HIDE DEF c
<1>2. PICK g : AddsUp(g, BodyStart, c, Parts)
  BY <1>1, SumExists
<1>3. AnyOrder(g, BodyStart, Parts)
  BY <1>1, <1>2, SumAny
<1>4. \A p \in Parts : BodyStart[p] \in 0 .. g[Parts]
  <2> SUFFICES ASSUME NEW p \in Parts PROVE BodyStart[p] \in 0 .. g[Parts]
    OBVIOUS
  <2>1. Parts \in SUBSET Parts /\ Parts \ {p} \in SUBSET Parts
    OBVIOUS
  <2>2. g[Parts] = BodyStart[p] + g[Parts \ {p}]
    BY <1>3, <2>1 DEF AnyOrder
  <2>3. g[Parts] \in Nat /\ g[Parts \ {p}] \in Nat /\ BodyStart[p] \in Nat
    BY <1>2, <2>1, PartsAssumption DEF AddsUp
  <2> QED BY <2>2, <2>3
<1>5. g[Parts] \in Nat
  <2>1. Parts \in SUBSET Parts
    OBVIOUS
  <2> QED BY <1>2, <2>1 DEF AddsUp
<1>6. B \in SUBSET (0 .. g[Parts]) /\ B # {}
  BY <1>4, PartsAssumption
<1> HIDE DEF B
<1>7. Max(B) \in B /\ \A x \in B : x <= Max(B)
  <2> DEFINE n == g[Parts]
  <2> HIDE DEF n
  <2>1. n \in Nat /\ B \in SUBSET (0 .. n) /\ B # {}
    BY <1>5, <1>6 DEF n
  <2> QED BY <2>1, MaxFacts
<1>8. Innermost = Max(B)
  BY DEF Innermost, B
<1>9. Innermost \in Nat /\ \A p \in Parts : BodyStart[p] <= Innermost
  BY <1>5, <1>6, <1>7, <1>8 DEF B
<1> QED BY <1>9, PartsAssumption

-----------------------------------------------------------------------------
Frame == [part : Parts, mode : Modes, from : Nat, pos : Nat, end : Nat,
          delivered : Seq(Byte)]

Types ==
  /\ msg \in Messages /\ encoding \in PartEncodings
  /\ fed \in Nat /\ endpos \in Nat /\ bodyend \in Nat
  /\ workbuf \in [Parts -> Seq(Byte)] /\ filter \in [Parts -> SUBSET Coders]
  /\ frames \in Seq(Frame) /\ Len(frames) <= MaxDepth

(* The ends are those of lines that have come in completely.               *)
Offsets ==
  /\ Innermost <= bodyend /\ bodyend <= endpos
  /\ endpos + Len(Unparsed) <= fed /\ fed <= Len(msg)

OnePerPart == \A i, j \in DOMAIN frames : frames[i].part = frames[j].part => i = j

(* What a frame f has decoded: the filter, had it run over the whole       *)
(* stretch in one block.  The part's filter has its state and cache, and   *)
(* its bytes are those delivered and those in the work buffer.             *)
With(f, out)   == [f EXCEPT !.out = out]
Whole(f, m)    == SubSeq(m, f.from + 1, f.pos)
Run(f, m, enc) == DecodeBlock(enc, Filter, Whole(f, m))
Reached(f, m, enc, flt, buf) ==
  /\ f.from <= f.pos /\ f.pos <= f.end /\ f.end <= Len(m)
  /\ IF Decodes(f.mode) /\ HasFilter(enc)
     THEN /\ flt = {With(Run(f, m, enc), << >>)}
          /\ f.delivered \o buf = Run(f, m, enc).out
          /\ Len(buf) < BufSize
     ELSE flt = {} /\ buf = << >> /\ f.delivered = Whole(f, m)
ReachedNow(f) == Reached(f, msg, encoding[f.part], filter[f.part], workbuf[f.part])
Running == \A i \in DOMAIN frames : ReachedNow(frames[i])

Idle == \A p \in Parts : ~Extracting(p) => filter[p] = {}

(* As long as the parser has lost nothing, it holds the bytes after the    *)
(* last complete line.                                                     *)
LinesKnown ==
  NothingLost =>
    /\ Unparsed = Stretch(endpos, fed)
    /\ endpos > Innermost => msg[endpos] = LF
    /\ bodyend > Innermost => bodyend < endpos /\ msg[bodyend + 1] \in {CR, LF}

Results == ExtractedContents /\ (last = {} \/ \E e \in last : last = {e})

IInv == /\ Types /\ Offsets /\ OnePerPart /\ Running /\ Idle
        /\ LinesKnown /\ CompleteLinesOnly /\ Results

-----------------------------------------------------------------------------
(* The frames: the innermost extraction moves, returns or starts.          *)
LEMMA TopFacts ==
  ASSUME Types, frames # << >>
  PROVE  /\ Len(frames) \in Nat \ {0} /\ DOMAIN frames = 1 .. Len(frames)
         /\ top = frames[Len(frames)] /\ top \in Frame
         /\ Len(frames) \in DOMAIN frames
         /\ Front(frames) \in Seq(Frame) /\ Len(Front(frames)) = Len(frames) - 1
         /\ DOMAIN Front(frames) = 1 .. Len(frames) - 1
         /\ \A i \in 1 .. Len(frames) - 1 : Front(frames)[i] = frames[i]
<1>1. frames \in Seq(Frame)
  BY DEF Types
<1>2. /\ Len(frames) \in Nat \ {0} /\ DOMAIN frames = 1 .. Len(frames)
      /\ frames \in [1 .. Len(frames) -> Frame]
  BY <1>1, LenProperties, EmptySeq
<1>3. top = frames[Len(frames)]
  BY DEF top, Last
<1> DEFINE n == Len(frames) - 1
<1>4. /\ n \in Int /\ 1 \in Int /\ \A i \in 1 .. n : frames[i] \in Frame
      /\ n - 1 + 1 = n /\ n \in Nat
  BY <1>2
<1> HIDE DEF n
<1>5. /\ SubSeq(frames, 1, n) \in Seq(Frame)
      /\ Len(SubSeq(frames, 1, n)) = IF 1 <= n THEN n - 1 + 1 ELSE 0
      /\ \A i \in 1 .. n - 1 + 1 : SubSeq(frames, 1, n)[i] = frames[1 + i - 1]
  BY <1>4, SubSeqProperties
<1>6. /\ Len(SubSeq(frames, 1, n)) = n
      /\ \A i \in 1 .. n : SubSeq(frames, 1, n)[i] = frames[i]
  <2>1. \A i \in 1 .. n : 1 + i - 1 = i
    OBVIOUS
  <2> QED BY <1>4, <1>5, <2>1
<1>7. Front(frames) = SubSeq(frames, 1, n)
  BY DEF Front, n
<1>8. DOMAIN Front(frames) = 1 .. n
  BY <1>5, <1>6, <1>7, LenProperties
<1> QED BY <1>2, <1>3, <1>5, <1>6, <1>7, <1>8 DEF n

LEMMA TopMoves ==
  ASSUME Types, frames # << >>, NEW frame \in Frame, SetTop(frame),
         frame.part = top.part
  PROVE  /\ frames' \in Seq(Frame) /\ Len(frames') = Len(frames)
         /\ DOMAIN frames' = DOMAIN frames
         /\ \A i \in DOMAIN frames :
              frames'[i] = IF i = Len(frames) THEN frame ELSE frames[i]
         /\ \A i \in DOMAIN frames : frames'[i].part = frames[i].part
         /\ \A p : Extracting(p)' <=> Extracting(p)
         /\ OnePerPart => OnePerPart'
<1> DEFINE g == Front(frames)
           n == Len(frames)
<1>1. /\ n \in Nat \ {0} /\ DOMAIN frames = 1 .. n /\ top = frames[n]
      /\ g \in Seq(Frame) /\ Len(g) = n - 1
      /\ \A i \in 1 .. n - 1 : g[i] = frames[i]
  BY TopFacts
<1>2. frames' = Append(g, frame)
  BY DEF SetTop
<1> HIDE DEF g, n
<1>3. /\ Append(g, frame) \in Seq(Frame) /\ Len(Append(g, frame)) = n
      /\ \A i \in 1 .. n : Append(g, frame)[i] = IF i = n THEN frame ELSE g[i]
  <2>1. /\ Append(g, frame) \in Seq(Frame)
        /\ Len(Append(g, frame)) = Len(g) + 1
        /\ \A i \in 1 .. Len(g) : Append(g, frame)[i] = g[i]
        /\ Append(g, frame)[Len(g) + 1] = frame
    BY <1>1, AppendProperties
  <2>2. Len(g) + 1 = n /\ \A i \in 1 .. n : i # n => i \in 1 .. Len(g)
    BY <1>1
  <2> QED BY <1>1, <2>1, <2>2
<1>4. /\ frames' \in Seq(Frame) /\ Len(frames') = n /\ DOMAIN frames' = 1 .. n
  BY <1>2, <1>3, LenProperties
<1>5. \A i \in 1 .. n : frames'[i] = IF i = n THEN frame ELSE frames[i]
  <2>1. \A i \in 1 .. n : i # n => i \in 1 .. n - 1
    BY <1>1
  <2> QED BY <1>1, <1>2, <1>3, <2>1
<1>6. \A i \in 1 .. n : frames'[i].part = frames[i].part
  BY <1>1, <1>5
<1>7. \A p : Extracting(p)' <=> Extracting(p)
  BY <1>1, <1>4, <1>6 DEF Extracting
<1>8. OnePerPart => OnePerPart'
  BY <1>1, <1>4, <1>6 DEF OnePerPart
<1> QED BY <1>1, <1>4, <1>5, <1>6, <1>7, <1>8 DEF n

LEMMA TopGoes ==
  ASSUME Types, OnePerPart, frames # << >>, frames' = Front(frames)
  PROVE  /\ frames' \in Seq(Frame) /\ Len(frames') = Len(frames) - 1
         /\ DOMAIN frames' \subseteq DOMAIN frames
         /\ \A i \in DOMAIN frames' : /\ frames'[i] = frames[i]
                                       /\ frames[i].part # top.part
         /\ \A p : Extracting(p)' <=> Extracting(p) /\ p # top.part
         /\ OnePerPart'
<1> DEFINE n == Len(frames)
<1>1. /\ n \in Nat \ {0} /\ DOMAIN frames = 1 .. n /\ top = frames[n]
      /\ frames' \in Seq(Frame) /\ Len(frames') = n - 1
      /\ DOMAIN frames' = 1 .. n - 1
      /\ \A i \in 1 .. n - 1 : frames'[i] = frames[i]
  BY TopFacts
<1> HIDE DEF n
<1>2. \A i \in 1 .. n - 1 : i \in 1 .. n /\ i # n /\ n \in 1 .. n
  BY <1>1
<1>3. \A i \in 1 .. n - 1 : frames[i].part # frames[n].part
  BY <1>1, <1>2 DEF OnePerPart
<1>4. \A i \in 1 .. n : i # n => i \in 1 .. n - 1
  BY <1>1
<1>5. ASSUME NEW p PROVE Extracting(p)' <=> Extracting(p) /\ p # top.part
  <2>1. ASSUME Extracting(p)' PROVE Extracting(p) /\ p # top.part
    BY <1>1, <1>2, <1>3, <2>1 DEF Extracting
  <2>2. ASSUME Extracting(p), p # top.part PROVE Extracting(p)'
    BY <1>1, <1>4, <2>2 DEF Extracting
  <2> QED BY <2>1, <2>2
<1>6. OnePerPart'
  BY <1>1, <1>2 DEF OnePerPart
<1> QED BY <1>1, <1>2, <1>3, <1>5, <1>6 DEF n

LEMMA TopComes ==
  ASSUME Types, OnePerPart, NEW frame \in Frame, ~Extracting(frame.part),
         frames' = Append(frames, frame)
  PROVE  /\ frames' \in Seq(Frame) /\ Len(frames') = Len(frames) + 1
         /\ \A i \in DOMAIN frames' :
              \/ i \in DOMAIN frames /\ frames'[i] = frames[i] /\ frames[i].part # frame.part
              \/ frames'[i] = frame
         /\ \A p : Extracting(p)' <=> Extracting(p) \/ p = frame.part
         /\ OnePerPart'
<1> DEFINE n == Len(frames)
<1>1. /\ n \in Nat /\ DOMAIN frames = 1 .. n
      /\ frames' \in Seq(Frame) /\ Len(frames') = n + 1
      /\ \A i \in 1 .. n : frames'[i] = frames[i]
      /\ frames'[n + 1] = frame
  <2>1. frames \in Seq(Frame)
    BY DEF Types
  <2> QED BY <2>1, AppendProperties, LenProperties
<1>2. DOMAIN frames' = 1 .. n + 1
  BY <1>1, LenProperties
<1> HIDE DEF n
<1>3. \A i \in 1 .. n : frames[i].part # frame.part
  BY <1>1 DEF Extracting
<1>4. /\ \A i \in 1 .. n + 1 : i \in 1 .. n \/ i = n + 1
      /\ \A i \in 1 .. n : i \in 1 .. n + 1
      /\ n + 1 \in 1 .. n + 1
  BY <1>1
<1>5. ASSUME NEW p PROVE Extracting(p)' <=> Extracting(p) \/ p = frame.part
  <2>1. ASSUME Extracting(p)' PROVE Extracting(p) \/ p = frame.part
    BY <1>1, <1>2, <1>4, <2>1 DEF Extracting
  <2>2. ASSUME Extracting(p) PROVE Extracting(p)'
    BY <1>1, <1>2, <1>4, <2>2 DEF Extracting
  <2>3. ASSUME p = frame.part PROVE Extracting(p)'
    BY <1>1, <1>2, <1>4, <2>3 DEF Extracting
  <2> QED BY <2>1, <2>2, <2>3
<1>6. OnePerPart'
  <2> SUFFICES ASSUME NEW i \in 1 .. n + 1, NEW j \in 1 .. n + 1,
                      frames'[i].part = frames'[j].part
               PROVE  i = j
    BY <1>2 DEF OnePerPart
  <2> QED BY <1>1, <1>3, <1>4 DEF OnePerPart
<1>7. \A i \in DOMAIN frames' :
         \/ i \in DOMAIN frames /\ frames'[i] = frames[i] /\ frames[i].part # frame.part
         \/ frames'[i] = frame
  BY <1>1, <1>2, <1>3, <1>4
<1> QED BY <1>1, <1>5, <1>6, <1>7 DEF n

-----------------------------------------------------------------------------
(* What the parser finds in a text: the complete lines end at a line feed, *)
(* and the terminator of the last one is in the text.                      *)
LEMMA LineFacts ==
  ASSUME NEW s \in Seq(Byte), NEW done, done = Max({0} \cup LineEnds(s)),
         NEW T, T = Terminator(LastLine(SubSeq(s, 1, done)))
  PROVE  /\ done \in 0 .. Len(s) /\ T \in Nat
         /\ done # 0 => /\ s[done] = LF
                        /\ 1 <= T /\ T <= done
                        /\ s[done - T + 1] \in {CR, LF}
<1>1. Len(s) \in Nat /\ DOMAIN s = 1 .. Len(s)
  BY LenProperties
<1>2. done \in {0} \cup LineEnds(s)
  <2> DEFINE E == {0} \cup LineEnds(s)
  <2>1. E \in SUBSET (0 .. Len(s)) /\ E # {}
    BY <1>1 DEF LineEnds
  <2> HIDE DEF E
  <2>2. Max(E) \in E
    BY <1>1, <2>1, MaxFacts
  <2> QED BY <2>2 DEF E
<1>3. done \in 0 .. Len(s) /\ (done # 0 => s[done] = LF)
  BY <1>1, <1>2 DEF LineEnds
<1>4. T \in {1, 2}
  BY DEF Terminator
<1>5. ASSUME done # 0
      PROVE  1 <= T /\ T <= done /\ s[done - T + 1] \in {CR, LF}
  <2> DEFINE lines == SubSeq(s, 1, done)
             E == {0} \cup (LineEnds(lines) \ {Len(lines)})
             k == Max(E)
             L == SubSeq(lines, k + 1, done)
  <2>1. /\ lines \in Seq(Byte) /\ Len(lines) = done
        /\ \A i \in 1 .. done : lines[i] = s[i]
    <3>1. 0 \in Nat /\ done \in Nat /\ 0 <= done /\ done <= Len(s) /\ 0 + 1 = 1 /\ done - 0 = done
      BY <1>1, <1>3
    <3>2. /\ SubSeq(s, 0 + 1, done) \in Seq(Byte)
          /\ Len(SubSeq(s, 0 + 1, done)) = done - 0
          /\ \A i \in 1 .. done - 0 : SubSeq(s, 0 + 1, done)[i] = s[0 + i]
      BY <3>1, Cut
    <3>3. \A i \in 1 .. done : 0 + i = i
      OBVIOUS
    <3> QED BY <3>1, <3>2, <3>3
  <2> HIDE DEF lines
  <2>2. k \in 0 .. done /\ k # done
    <3>1. DOMAIN lines = 1 .. done
      BY <2>1, LenProperties
    <3>4. done \in Nat /\ 0 \in 0 .. done /\ 1 .. done \subseteq 0 .. done
      BY <1>3
    <3>5. LineEnds(lines) \subseteq 1 .. done
      BY <3>1 DEF LineEnds
    <3>6. E \subseteq 0 .. done /\ E # {}
      BY <3>4, <3>5
    <3>7. done \notin E
      BY <1>5, <2>1
    <3>2. E \in SUBSET (0 .. done) /\ E # {} /\ done \notin E /\ done \in Nat
      BY <3>4, <3>6, <3>7
    <3> HIDE DEF E
    <3>3. Max(E) \in E
      BY <3>2, MaxFacts
    <3> QED BY <3>2, <3>3
  <2> HIDE DEF k
  <2>3. LastLine(lines) = L
    BY <2>1 DEF LastLine, k
  <2>4. Len(L) = done - k /\ \A i \in 1 .. done - k : L[i] = lines[k + i]
    <3>1. k \in Nat /\ done \in Nat /\ k <= done /\ done <= Len(lines)
      BY <1>3, <2>1, <2>2
    <3> QED BY <2>1, <3>1, Cut
  <2> HIDE DEF L
  <2>5. T = IF Len(L) > 1 /\ L[Len(L) - 1] = CR /\ L[Len(L)] = LF THEN 2 ELSE 1
    BY <2>3 DEF Terminator, lines
  <2>6. CASE T = 2
    <3>1. Len(L) > 1 /\ L[Len(L) - 1] = CR
      BY <2>5, <2>6
    <3>2. /\ Len(L) - 1 \in 1 .. done - k /\ k + (Len(L) - 1) = done - 1
          /\ done - 1 \in 1 .. done
      BY <1>3, <2>2, <2>4, <3>1
    <3>3. L[Len(L) - 1] = lines[done - 1] /\ lines[done - 1] = s[done - 1]
      BY <2>1, <2>4, <3>2
    <3>4. done - T + 1 = done - 1 /\ T <= done
      BY <1>3, <2>6, <3>2
    <3> QED BY <2>6, <3>1, <3>3, <3>4
  <2>7. CASE T = 1
    <3>1. done - T + 1 = done /\ T <= done
      BY <1>3, <1>5, <2>7
    <3> QED BY <1>3, <1>5, <2>7, <3>1
  <2> QED BY <1>4, <2>6, <2>7
<1> QED BY <1>3, <1>4, <1>5

LEMMA MessageFacts ==
  ASSUME Types
  PROVE  /\ msg \in Seq(Byte) /\ Len(msg) \in Nat /\ Innermost <= Len(msg)
         /\ \A p \in Parts : encoding[p] \in Encodings
         /\ Root \in Parts /\ BufSize \in Nat \ {0, 1} /\ MaxDepth \in Nat
  BY MessagesAssumption, PartsAssumption, BoundsAssumption, LenProperties DEF Types

LEMMA FrameFacts ==
  ASSUME Types
  PROVE  \A i \in DOMAIN frames :
           /\ frames[i] \in Frame
           /\ frames[i].part \in Parts /\ frames[i].mode \in Modes
           /\ frames[i].from \in Nat /\ frames[i].pos \in Nat /\ frames[i].end \in Nat
           /\ frames[i].delivered \in Seq(Byte)
<1>1. frames \in Seq(Frame)
  BY DEF Types
<1>2. \A i \in DOMAIN frames : frames[i] \in Frame
  BY <1>1, LenProperties
<1>3. ASSUME NEW f \in Frame
      PROVE  /\ f.part \in Parts /\ f.mode \in Modes
             /\ f.from \in Nat /\ f.pos \in Nat /\ f.end \in Nat
             /\ f.delivered \in Seq(Byte)
  BY DEF Frame
<1> QED BY <1>2, <1>3

LEMMA InitStep == ASSUME Init PROVE IInv
<1>1. Types
  <2>1. Innermost \in Nat /\ MaxDepth \in Nat
    BY PlaceFacts, BoundsAssumption
  <2>2. << >> \in Seq(Byte) /\ << >> \in Seq(Frame) /\ Len(<< >>) = 0
    OBVIOUS
  <2> QED BY <2>1, <2>2 DEF Init, Types
<1>2. Root \in Parts /\ frames = << >> /\ DOMAIN frames = {} /\ workbuf[Root] = << >>
  BY PartsAssumption DEF Init
<1>3. Unparsed = << >> /\ \A p : ~Extracting(p)
  BY <1>2 DEF Unparsed, Extracting
<1>4. Offsets
  BY <1>1, <1>3, MessageFacts, PlaceFacts DEF Offsets, Init
<1>5. OnePerPart /\ Running /\ CompleteLinesOnly
  BY <1>2 DEF OnePerPart, Running, CompleteLinesOnly
<1>6. Idle /\ Results
  BY DEF Idle, Results, ExtractedContents, Init
<1>7. LinesKnown
  <2>1. Stretch(endpos, fed) = << >>
    BY PlaceFacts, SubSeqEmpty DEF Stretch, Init
  <2> QED BY <1>3, <2>1, PlaceFacts DEF LinesKnown, Init
<1> QED BY <1>1, <1>4, <1>5, <1>6, <1>7 DEF IInv

-----------------------------------------------------------------------------
LEMMA ParseStep ==
  ASSUME IInv, NEW n \in 1 .. Len(msg), Parse(n)
  PROVE  IInv'
<1> DEFINE more == SubSeq(msg, fed + 1, fed + n)
           text == workbuf[Root] \o more
           done == Max({0} \cup LineEnds(text))
           rest == SubSeq(text, done + 1, Len(text))
           T == Terminator(LastLine(SubSeq(text, 1, done)))
<1>1. /\ Types /\ Offsets /\ OnePerPart /\ Running /\ Idle
      /\ LinesKnown /\ CompleteLinesOnly
  BY DEF IInv
<1>2. /\ ~Extracting(Root) /\ fed + n <= Len(msg) /\ fed' = fed + n
      /\ workbuf' = [workbuf EXCEPT ![Root] = rest]
      /\ endpos' = endpos + done
      /\ bodyend' = IF done = 0 THEN bodyend ELSE endpos + done - T
      /\ last' = {} /\ msg' = msg /\ encoding' = encoding /\ filter' = filter
      /\ frames' = frames
  BY DEF Parse
<1>3. /\ msg \in Seq(Byte) /\ Len(msg) \in Nat /\ Root \in Parts /\ n \in Nat
      /\ fed \in Nat /\ endpos \in Nat /\ bodyend \in Nat
      /\ workbuf[Root] \in Seq(Byte) /\ Len(workbuf[Root]) \in Nat
  BY <1>1, MessageFacts, LenProperties DEF Types
<1>4. Unparsed = workbuf[Root]
  BY <1>2 DEF Unparsed
<1>5. /\ Innermost \in Nat /\ Innermost <= bodyend /\ bodyend <= endpos
      /\ endpos + Len(workbuf[Root]) <= fed
  BY <1>1, <1>4, PlaceFacts DEF Offsets
<1>6. more \in Seq(Byte) /\ Len(more) = n
  <2>1. fed + n \in Nat /\ fed <= fed + n /\ (fed + n) - fed = n
    BY <1>3
  <2> QED BY <1>2, <1>3, <2>1, Cut
<1> HIDE DEF more
<1>7. text \in Seq(Byte) /\ Len(text) = Len(workbuf[Root]) + n
  BY <1>3, <1>6, ConcatProperties
<1> HIDE DEF text
<1>8. /\ done \in 0 .. Len(text) /\ T \in Nat
      /\ done # 0 => /\ text[done] = LF /\ 1 <= T /\ T <= done
                     /\ text[done - T + 1] \in {CR, LF}
  BY <1>7, LineFacts
<1> HIDE DEF done, T
<1>9. rest \in Seq(Byte) /\ Len(rest) = Len(text) - done
  <2>1. done \in Nat /\ Len(text) \in Nat /\ done <= Len(text)
    BY <1>3, <1>7, <1>8
  <2> QED BY <1>7, <2>1, Cut
<1> HIDE DEF rest
<1>10. workbuf' \in [Parts -> Seq(Byte)] /\ workbuf'[Root] = rest
       /\ \A p \in Parts : p # Root => workbuf'[p] = workbuf[p]
  BY <1>1, <1>2, <1>3, <1>9 DEF Types
<1>11. /\ bodyend' \in Nat /\ Innermost <= bodyend' /\ bodyend' <= endpos'
       /\ done # 0 => endpos <= bodyend' /\ bodyend' + 1 = endpos + (done - T + 1)
  BY <1>2, <1>3, <1>5, <1>8
<1>12. Types'
  BY <1>1, <1>2, <1>3, <1>8, <1>10, <1>11 DEF Types
<1>13. \A p : Extracting(p)' <=> Extracting(p)
  BY <1>2 DEF Extracting
<1>14. Unparsed' = rest
  BY <1>2, <1>10, <1>13 DEF Unparsed
<1>15. endpos' + Len(rest) = endpos + Len(workbuf[Root]) + n
  <2> DEFINE w == Len(workbuf[Root])
             r == Len(rest)
             t == Len(text)
  <2>1. /\ w \in Nat /\ n \in Nat /\ endpos \in Nat /\ t = w + n /\ done \in 0 .. t
        /\ r = t - done /\ endpos' = endpos + done
    BY <1>2, <1>3, <1>7, <1>8, <1>9
  <2> HIDE DEF w, r, t
  <2>2. endpos' + r = endpos + w + n
    BY <2>1
  <2> QED BY <2>2 DEF w, r
<1>16. Offsets'
  <2>1. /\ Innermost <= bodyend' /\ bodyend' <= endpos'
        /\ endpos' + Len(rest) <= fed' /\ fed' <= Len(msg)
    BY <1>2, <1>3, <1>5, <1>11, <1>15
  <2> QED BY <1>2, <1>14, <2>1 DEF Offsets, Innermost
<1>17. OnePerPart'
  BY <1>1, <1>2 DEF OnePerPart
<1>18. \A i \in DOMAIN frames : frames[i].part \in Parts /\ frames[i].part # Root
  BY <1>1, <1>2, FrameFacts DEF Extracting
<1>19. Running'
  <2> SUFFICES ASSUME NEW i \in DOMAIN frames
               PROVE  Reached(frames[i], msg, encoding[frames[i].part],
                              filter[frames[i].part], workbuf'[frames[i].part])
    BY <1>2 DEF Running, ReachedNow
  <2>1. workbuf'[frames[i].part] = workbuf[frames[i].part]
    BY <1>10, <1>18
  <2> QED BY <1>1, <2>1 DEF Running, ReachedNow
<1>20. Idle'
  BY <1>1, <1>2, <1>13 DEF Idle
<1>21. Results'
  BY <1>2 DEF Results, ExtractedContents
<1>22. NothingLost' => NothingLost
  <2>1. NothingLost' <=> endpos' + Len(rest) = fed'
    BY <1>14 DEF NothingLost
  <2>2. NothingLost <=> endpos + Len(workbuf[Root]) = fed
    BY <1>4 DEF NothingLost
  <2> DEFINE w == endpos + Len(workbuf[Root])
  <2>3. w \in Nat /\ fed \in Nat /\ n \in Nat
    BY <1>3
  <2>4. endpos' + Len(rest) = w + n
    BY <1>15
  <2> HIDE DEF w
  <2>5. w + n = fed + n => w = fed
    BY <2>3
  <2> QED BY <1>2, <2>1, <2>2, <2>4, <2>5 DEF w
<1>23. LinesKnown'
  <2> SUFFICES ASSUME NothingLost
               PROVE  /\ rest = SubSeq(msg, endpos' + 1, fed')
                      /\ endpos' > Innermost => msg[endpos'] = LF
                      /\ bodyend' > Innermost => /\ bodyend' < endpos'
                                                 /\ msg[bodyend' + 1] \in {CR, LF}
    BY <1>2, <1>14, <1>22 DEF LinesKnown, Stretch, Innermost
  <2>1. /\ workbuf[Root] = SubSeq(msg, endpos + 1, fed)
        /\ endpos > Innermost => msg[endpos] = LF
        /\ bodyend > Innermost => bodyend < endpos /\ msg[bodyend + 1] \in {CR, LF}
        /\ endpos + Len(workbuf[Root]) = fed
    BY <1>1, <1>4 DEF LinesKnown, Stretch, NothingLost
  <2> DEFINE end == fed + n
             mid == endpos + done
  <2>2. /\ end \in Nat /\ endpos <= fed /\ fed <= end /\ end <= Len(msg)
        /\ Len(text) = end - endpos
        /\ mid \in Nat /\ endpos <= mid /\ mid <= end /\ mid - endpos = done
    BY <1>2, <1>3, <1>5, <1>7, <1>8, <2>1
  <2>3. text = SubSeq(msg, endpos + 1, end)
    <3> HIDE DEF end
    <3>1. SubSeq(msg, endpos + 1, fed) \o SubSeq(msg, fed + 1, end) = SubSeq(msg, endpos + 1, end)
      BY <1>3, <2>2, CutTwice
    <3> QED BY <2>1, <3>1 DEF text, more, end
  <2> HIDE DEF end, mid
  <2>4. rest = SubSeq(msg, mid + 1, end)
    <3>1. SubSeq(SubSeq(msg, endpos + 1, end), (mid - endpos) + 1, end - endpos)
            = SubSeq(msg, mid + 1, end)
      BY <1>3, <2>2, CutTwice
    <3> QED BY <2>2, <2>3, <3>1 DEF rest
  <2>5. \A i \in 1 .. end - endpos : text[i] = msg[endpos + i]
    BY <1>3, <2>2, <2>3, Cut
  <2>6. endpos' > Innermost => msg[endpos'] = LF
    <3>1. CASE done = 0
      BY <1>2, <1>3, <2>1, <3>1
    <3>2. CASE done # 0
      <4>1. done \in 1 .. end - endpos
        BY <1>3, <1>7, <1>8, <2>2, <3>2
      <4> QED BY <1>2, <1>8, <2>5, <3>2, <4>1
    <3> QED BY <3>1, <3>2
  <2>7. bodyend' > Innermost => bodyend' < endpos' /\ msg[bodyend' + 1] \in {CR, LF}
    <3>1. CASE done = 0
      BY <1>2, <1>3, <2>1, <3>1
    <3>2. CASE done # 0
      <4>1. /\ done - T + 1 \in 1 .. end - endpos /\ bodyend' < endpos'
            /\ bodyend' + 1 = endpos + (done - T + 1)
        BY <1>2, <1>3, <1>7, <1>8, <1>11, <2>2, <3>2
      <4>2. text[done - T + 1] = msg[endpos + (done - T + 1)]
        BY <2>5, <4>1
      <4> QED BY <1>8, <3>2, <4>1, <4>2
    <3> QED BY <3>1, <3>2
  <2> QED BY <1>2, <2>4, <2>6, <2>7 DEF end, mid
<1>24. CompleteLinesOnly'
  <2> SUFFICES ASSUME NothingLost, NEW i \in DOMAIN frames,
                      frames[i].mode # "headers", frames[i].end > Innermost
               PROVE  \/ frames[i].part = Root /\ msg[frames[i].end] = LF
                      \/ /\ frames[i].part # Root /\ frames[i].end < fed + n
                         /\ msg[frames[i].end + 1] \in {CR, LF}
    BY <1>2, <1>22 DEF CompleteLinesOnly, Innermost
  <2>1. frames[i].end < fed /\ msg[frames[i].end + 1] \in {CR, LF}
    BY <1>1, <1>18 DEF CompleteLinesOnly
  <2>2. frames[i].end \in Nat
    BY <1>1, FrameFacts
  <2> QED BY <1>3, <1>18, <2>1, <2>2
<1> QED BY <1>12, <1>16, <1>17, <1>19, <1>20, <1>21, <1>23, <1>24 DEF IInv

-----------------------------------------------------------------------------
(* The filter of an extraction against one that ran over all it has read.  *)
LEMMA FreshFilter ==
  ASSUME NEW enc \in {"base64", "quoted-printable"}
  PROVE  /\ Filter \in Decoder(enc) /\ Filter.out = << >>
         /\ DecodeBlock(enc, Filter, << >>) = Filter
         /\ With(Filter, << >>) = Filter
<1>1. Filter \in Coders /\ Filter.state = 0 /\ Filter.out = << >>
  BY DEF Filter, Coders
<1>2. Filter \in Decoder(enc)
  BY <1>1 DEF Decoder, CacheFits
<1>3. << >> \in Seq(Byte)
  OBVIOUS
<1>4. DecodeBlock(enc, Filter, << >>) = Filter
  BY <1>2, <1>3, BlockFacts
<1>5. With(Filter, << >>) = Filter
  BY DEF With, Filter
<1> QED BY <1>1, <1>2, <1>4, <1>5

(* d has been delivered of what a decodes to and buf has not, f is the     *)
(* filter that is fed the chunk, g the filter after that, and G a filter   *)
(* that is given all of it at once.                                        *)
Feeding(enc, a, chunk, d, buf, f, g, G) ==
  /\ enc \in {"base64", "quoted-printable"}
  /\ a \in Seq(Byte) /\ chunk \in Seq(Byte) /\ d \in Seq(Byte) /\ buf \in Seq(Byte)
  /\ DecodeBlock(enc, Filter, a).out = d \o buf
  /\ f = With(With(DecodeBlock(enc, Filter, a), << >>), buf)
  /\ g = DecodeBlock(enc, f, chunk)
  /\ G = DecodeBlock(enc, Filter, a \o chunk)
Continues(enc, a, d, f, g, G) ==
  /\ f \in Decoder(enc) /\ g \in Coders /\ g.out \in Seq(Byte)
  /\ With(g, << >>) = With(G, << >>)
  /\ G.out = d \o g.out
  /\ d \o FlushDecoder(enc, f).out = FlushDecoder(enc, DecodeBlock(enc, Filter, a)).out

LEMMA FeedFacts ==
  ASSUME NEW enc, NEW a, NEW chunk, NEW d, NEW buf, NEW f, NEW g, NEW G,
         Feeding(enc, a, chunk, d, buf, f, g, G)
  PROVE  Continues(enc, a, d, f, g, G)
<1>0. /\ enc \in {"base64", "quoted-printable"}
      /\ a \in Seq(Byte) /\ chunk \in Seq(Byte) /\ d \in Seq(Byte) /\ buf \in Seq(Byte)
      /\ g = DecodeBlock(enc, f, chunk)
      /\ G = DecodeBlock(enc, Filter, a \o chunk)
  BY DEF Feeding
<1> DEFINE F == DecodeBlock(enc, Filter, a)
<1>1. F \in Decoder(enc)
  BY <1>0, FreshFilter, BlockFacts
<1>2. G = DecodeBlock(enc, F, chunk)
  BY <1>0, FreshFilter, TwoBlocks
<1>3. f = With(With(F, << >>), buf) /\ F.out = d \o buf
  BY DEF Feeding
<1> HIDE DEF F
<1>4. F \in Coders /\ CacheFits(enc, F)
  BY <1>1 DEF Decoder
<1>5. f \in Coders /\ f.state = F.state /\ f.cache = F.cache /\ f.out = buf
  BY <1>0, <1>3, <1>4 DEF Coders, With
<1>6. F = Led(d, f)
  BY <1>0, <1>3, <1>4, <1>5 DEF Coders, With, Led
<1>7. f \in Decoder(enc)
  <2>1. CacheFits(enc, f)
    BY SMT, <1>4, <1>5 DEF CacheFits
  <2> QED BY <1>5, <2>1 DEF Decoder
<1>8. g \in Decoder(enc) /\ G = Led(d, g)
  <2>1. g \in Decoder(enc)
    BY <1>0, <1>7, BlockFacts
  <2>2. DecodeBlock(enc, Led(d, f), chunk) = Led(d, DecodeBlock(enc, f, chunk))
    BY <1>0, <1>7, LedBlock
  <2> QED BY <1>0, <1>2, <1>6, <2>1, <2>2
<1>9. g \in Coders /\ g.out \in Seq(Byte)
  BY <1>8 DEF Decoder, Coders
<1>10. G.out = d \o g.out
  <2>1. Led(d, g).out = d \o g.out
    BY <1>0, <1>9, LedFacts
  <2> QED BY <1>8, <2>1
<1>11. With(g, << >>) = With(G, << >>)
  BY <1>8, <1>9 DEF With, Led, Coders
<1>12. FlushDecoder(enc, Led(d, f)).out = d \o FlushDecoder(enc, f).out
  BY <1>0, <1>7, FlushFacts
<1> QED BY <1>6, <1>7, <1>9, <1>10, <1>11, <1>12 DEF F, Continues

LEMMA Coded ==
  \A enc : HasFilter(enc) <=> enc \in {"base64", "quoted-printable"}
  BY DEF HasFilter

-----------------------------------------------------------------------------
LEMMA BeginStep ==
  ASSUME IInv, NEW p \in Parts, NEW mode \in Modes, Begin(p, mode)
  PROVE  IInv'
<1> DEFINE frame == [part |-> p, mode |-> mode, from |-> From(p, mode),
                     pos |-> From(p, mode), end |-> To(p, mode), delivered |-> << >>]
<1>1. /\ Types /\ Offsets /\ OnePerPart /\ Running /\ Idle
      /\ LinesKnown /\ CompleteLinesOnly
  BY DEF IInv
<1>2. /\ ~Extracting(p) /\ Len(frames) < MaxDepth
      /\ workbuf' = [workbuf EXCEPT ![p] = << >>]
      /\ filter' = [filter EXCEPT ![p] = Prepared(p, mode)]
      /\ frames' = Append(frames, frame)
      /\ last' = {} /\ msg' = msg /\ encoding' = encoding /\ fed' = fed
      /\ endpos' = endpos /\ bodyend' = bodyend
  BY DEF Begin, parsed
<1>3. /\ msg \in Seq(Byte) /\ Len(msg) \in Nat /\ Innermost <= Len(msg)
      /\ fed \in Nat /\ endpos \in Nat /\ bodyend \in Nat /\ Innermost \in Nat
      /\ BufSize \in Nat \ {0, 1} /\ MaxDepth \in Nat /\ Root \in Parts
  BY <1>1, MessageFacts, PlaceFacts DEF Types
<1>4. Unparsed \in Seq(Byte) /\ Len(Unparsed) \in Nat
  <2>1. Unparsed \in Seq(Byte)
    BY <1>1, <1>3 DEF Unparsed, Types
  <2> QED BY <2>1, LenProperties
<1>5. /\ Innermost <= bodyend /\ bodyend <= endpos
      /\ endpos + Len(Unparsed) <= fed /\ fed <= Len(msg)
  BY <1>1 DEF Offsets
<1>6. /\ From(p, mode) \in Nat /\ To(p, mode) \in Nat
      /\ From(p, mode) <= To(p, mode) /\ To(p, mode) <= Len(msg)
  <2>1. /\ StartPos[p] \in Nat /\ BodyStart[p] \in Nat
        /\ StartPos[p] <= BodyStart[p] /\ BodyStart[p] <= Innermost
    BY PlaceFacts
  <2>2. bodyend <= Len(msg) /\ endpos <= Len(msg)
    BY <1>3, <1>4, <1>5
  <2> QED BY <1>3, <1>5, <2>1, <2>2 DEF From, To
<1>7. frame \in Frame /\ frame.part = p
  BY <1>6 DEF Frame
<1> HIDE DEF frame
<1>8. /\ frames' \in Seq(Frame) /\ Len(frames') = Len(frames) + 1
      /\ \A i \in DOMAIN frames' :
           \/ i \in DOMAIN frames /\ frames'[i] = frames[i] /\ frames[i].part # p
           \/ frames'[i] = frame
      /\ \A q : Extracting(q)' <=> Extracting(q) \/ q = p
      /\ OnePerPart'
  BY <1>1, <1>2, <1>7, TopComes
<1>9. \A i \in DOMAIN frames : frames[i] \in Frame /\ frames[i].part \in Parts
  BY <1>1, FrameFacts
<1>10. Prepared(p, mode) = IF Decodes(mode) /\ HasFilter(encoding[p]) THEN {Filter} ELSE {}
  BY <1>1, <1>2 DEF Prepared, Idle
<1>11. /\ workbuf' \in [Parts -> Seq(Byte)] /\ workbuf'[p] = << >>
       /\ filter' \in [Parts -> SUBSET Coders] /\ filter'[p] = Prepared(p, mode)
       /\ \A q \in Parts : q # p => workbuf'[q] = workbuf[q] /\ filter'[q] = filter[q]
  <2>1. << >> \in Seq(Byte) /\ Prepared(p, mode) \in SUBSET Coders
    BY <1>10, FreshFilter DEF Decoder
  <2> QED BY <1>1, <1>2, <2>1 DEF Types
<1>12. Types'
  <2>1. Len(frames) \in Nat
    BY <1>1, LenProperties DEF Types
  <2> QED BY <1>1, <1>2, <1>3, <1>8, <1>11, <2>1 DEF Types
<1>13. /\ Unparsed' = IF p = Root THEN << >> ELSE Unparsed
       /\ Len(Unparsed') \in Nat /\ Len(Unparsed') <= Len(Unparsed)
       /\ Len(Unparsed) = 0 => Unparsed = Unparsed'
  <2>1. Unparsed' = IF p = Root THEN << >> ELSE Unparsed
    BY <1>2, <1>3, <1>8, <1>11 DEF Unparsed
  <2>2. Len(<< >>) = 0 /\ (Len(Unparsed) = 0 => Unparsed = << >>)
    BY <1>4, EmptySeq
  <2> QED BY <1>4, <2>1, <2>2
<1>14. Offsets'
  <2>1. endpos + Len(Unparsed') <= fed
    BY <1>3, <1>4, <1>5, <1>13
  <2> QED BY <1>2, <1>5, <2>1 DEF Offsets, Innermost
<1>15. Running'
  <2> SUFFICES ASSUME NEW i \in DOMAIN frames'
               PROVE  Reached(frames'[i], msg, encoding[frames'[i].part],
                              filter'[frames'[i].part], workbuf'[frames'[i].part])
    BY <1>2 DEF Running, ReachedNow
  <2>1. CASE i \in DOMAIN frames /\ frames'[i] = frames[i] /\ frames[i].part # p
    <3>1. /\ workbuf'[frames[i].part] = workbuf[frames[i].part]
          /\ filter'[frames[i].part] = filter[frames[i].part]
      BY <1>9, <1>11, <2>1
    <3> QED BY <1>1, <2>1, <3>1 DEF Running, ReachedNow
  <2>2. CASE frames'[i] = frame
    <3>1. Reached(frame, msg, encoding[p], filter'[p], << >>)
      <4>1. /\ frame.from = From(p, mode) /\ frame.pos = From(p, mode)
            /\ frame.end = To(p, mode) /\ frame.mode = mode /\ frame.delivered = << >>
        BY DEF frame
      <4>2. Whole(frame, msg) = << >>
        <5>1. From(p, mode) < From(p, mode) + 1 /\ From(p, mode) + 1 \in Int
          BY <1>6
        <5> QED BY <1>6, <4>1, <5>1, SubSeqEmpty DEF Whole
      <4>3. HasFilter(encoding[p]) =>
              Run(frame, msg, encoding[p]) = Filter /\ With(Filter, << >>) = Filter
              /\ Filter.out = << >>
        BY <4>2, FreshFilter, Coded DEF Run
      <4>4. << >> \o << >> = << >> /\ Len(<< >>) < BufSize
        BY <1>3
      <4>5. filter'[p] = IF Decodes(mode) /\ HasFilter(encoding[p]) THEN {Filter} ELSE {}
        BY <1>10, <1>11
      <4>6. /\ frame.from <= frame.pos /\ frame.pos <= frame.end
            /\ frame.end <= Len(msg)
        BY <1>6, <4>1
      <4> QED BY <4>1, <4>2, <4>3, <4>4, <4>5, <4>6 DEF Reached
    <3> QED BY <1>7, <1>11, <2>2, <3>1
  <2> QED BY <1>8, <2>1, <2>2
<1>16. Idle'
  BY <1>1, <1>8, <1>11 DEF Idle
<1>17. Results'
  BY <1>2 DEF Results, ExtractedContents
<1>18. NothingLost' => NothingLost /\ Unparsed' = Unparsed
  <2>1. NothingLost' <=> endpos + Len(Unparsed') = fed
    BY <1>2 DEF NothingLost
  <2> DEFINE u == Len(Unparsed')
             v == Len(Unparsed)
  <2>2. /\ u \in Nat /\ v \in Nat /\ u <= v /\ endpos + v <= fed
        /\ u = IF p = Root THEN 0 ELSE v
    <3>1. Len(<< >>) = 0
      OBVIOUS
    <3> QED BY <1>4, <1>5, <1>13, <3>1
  <2> HIDE DEF u, v
  <2>3. endpos + u = fed => endpos + v = fed /\ u = v
    BY <1>3, <2>2
  <2>4. u = v => Unparsed' = Unparsed
    BY <1>13, <2>2 DEF v, u
  <2> QED BY <2>1, <2>3, <2>4 DEF NothingLost, u, v
<1>19. LinesKnown'
  BY <1>1, <1>2, <1>18 DEF LinesKnown, Stretch, Innermost
<1>20. CompleteLinesOnly'
  <2> SUFFICES ASSUME NothingLost, NEW i \in DOMAIN frames',
                      frames'[i].mode # "headers", frames'[i].end > Innermost
               PROVE  \/ frames'[i].part = Root /\ msg[frames'[i].end] = LF
                      \/ /\ frames'[i].part # Root /\ frames'[i].end < fed
                         /\ msg[frames'[i].end + 1] \in {CR, LF}
    BY <1>2, <1>18 DEF CompleteLinesOnly, Innermost
  <2>1. CASE i \in DOMAIN frames /\ frames'[i] = frames[i] /\ frames[i].part # p
    BY <1>1, <2>1 DEF CompleteLinesOnly
  <2>2. CASE frames'[i] = frame
    <3>1. frame.end = IF p = Root THEN endpos ELSE bodyend
      BY <2>2 DEF frame, To
    <3>2. /\ endpos > Innermost => msg[endpos] = LF
          /\ bodyend > Innermost => bodyend < endpos /\ msg[bodyend + 1] \in {CR, LF}
      BY <1>1 DEF LinesKnown
    <3>3. endpos <= fed
      BY <1>3, <1>4, <1>5
    <3>4. bodyend < endpos => bodyend < fed
      BY <1>3, <3>3
    <3> QED BY <1>7, <2>2, <3>1, <3>2, <3>4
  <2> QED BY <1>8, <2>1, <2>2
<1> QED BY <1>8, <1>12, <1>14, <1>15, <1>16, <1>17, <1>19, <1>20 DEF IInv

-----------------------------------------------------------------------------
LEMMA FinishStep ==
  ASSUME IInv, frames # << >>, NEW ok \in BOOLEAN, Finish(ok), ok => top.pos = top.end
  PROVE  IInv'
<1> DEFINE t == top
           p == t.part
           enc == encoding[p]
           data == t.delivered \o Flushed(p)
           e == [part |-> p, mode |-> t.mode, from |-> t.from, end |-> t.end,
                 data |-> data, ok |-> ok]
<1>1. /\ Types /\ Offsets /\ OnePerPart /\ Running /\ Idle
      /\ LinesKnown /\ CompleteLinesOnly
  BY DEF IInv
<1>2. /\ last' = {e}
      /\ workbuf' = [workbuf EXCEPT ![p] = << >>]
      /\ filter' = [filter EXCEPT ![p] = {}]
      /\ frames' = Front(frames)
      /\ msg' = msg /\ encoding' = encoding /\ fed' = fed
      /\ endpos' = endpos /\ bodyend' = bodyend
  BY DEF Finish, parsed, NoFilter
<1>3. /\ t = frames[Len(frames)] /\ Len(frames) \in DOMAIN frames
      /\ Len(frames) \in Nat \ {0}
  BY <1>1, TopFacts
<1>4. /\ p \in Parts /\ t.mode \in Modes /\ t.delivered \in Seq(Byte)
      /\ t.from \in Nat /\ t.pos \in Nat /\ t.end \in Nat
  BY <1>1, <1>3, FrameFacts
<1>5. Reached(t, msg, enc, filter[p], workbuf[p])
  BY <1>1, <1>3 DEF Running, ReachedNow
<1>6. Extracting(p) /\ Root \in Parts
  BY <1>3, PartsAssumption DEF Extracting
<1> HIDE DEF t, enc
<1>7. /\ frames' \in Seq(Frame) /\ Len(frames') = Len(frames) - 1
      /\ DOMAIN frames' \subseteq DOMAIN frames
      /\ \A i \in DOMAIN frames' : frames'[i] = frames[i] /\ frames[i].part # p
      /\ \A q : Extracting(q)' <=> Extracting(q) /\ q # p
      /\ OnePerPart'
  BY <1>1, <1>2, TopGoes DEF t
<1>8. /\ workbuf' \in [Parts -> Seq(Byte)] /\ workbuf'[p] = << >>
      /\ filter' \in [Parts -> SUBSET Coders] /\ filter'[p] = {}
      /\ \A q \in Parts : q # p => workbuf'[q] = workbuf[q] /\ filter'[q] = filter[q]
  <2>1. << >> \in Seq(Byte) /\ {} \in SUBSET Coders
    OBVIOUS
  <2> QED BY <1>1, <1>2, <1>4, <2>1 DEF Types
<1>9. Types'
  <2>1. MaxDepth \in Nat
    BY <1>1, MessageFacts
  <2> QED BY <1>1, <1>2, <1>3, <1>7, <1>8, <2>1 DEF Types
<1>10. Unparsed' = Unparsed
  BY <1>2, <1>6, <1>7, <1>8 DEF Unparsed
<1>11. Offsets'
  BY <1>1, <1>2, <1>10 DEF Offsets, Innermost
<1>12. Running'
  <2> SUFFICES ASSUME NEW i \in DOMAIN frames'
               PROVE  Reached(frames[i], msg, encoding[frames[i].part],
                              filter'[frames[i].part], workbuf'[frames[i].part])
    BY <1>2, <1>7 DEF Running, ReachedNow
  <2>1. i \in DOMAIN frames /\ frames[i].part # p /\ frames[i].part \in Parts
    BY <1>1, <1>7, FrameFacts
  <2>2. /\ workbuf'[frames[i].part] = workbuf[frames[i].part]
        /\ filter'[frames[i].part] = filter[frames[i].part]
    BY <1>8, <2>1
  <2> QED BY <1>1, <2>1, <2>2 DEF Running, ReachedNow
<1>13. Idle'
  BY <1>1, <1>7, <1>8 DEF Idle
<1>14. LinesKnown'
  BY <1>1, <1>2, <1>10 DEF LinesKnown, Stretch, NothingLost, Innermost
<1>15. CompleteLinesOnly'
  BY <1>1, <1>2, <1>7, <1>10 DEF CompleteLinesOnly, NothingLost, Innermost
<1>16. data = Contents(p, t.mode, t.from, t.pos)
  <2> DEFINE a == SubSeq(msg, t.from + 1, t.pos)
  <2>1. a \in Seq(Byte)
    BY <1>1, <1>4, <1>5, MessageFacts, Cut DEF Reached
  <2>2. a = Whole(t, msg) /\ a = Stretch(t.from, t.pos)
    BY DEF Whole, Stretch
  <2> HIDE DEF a
  <2>3. CASE ~(Decodes(t.mode) /\ HasFilter(enc))
    <3>1. filter[p] = {} /\ workbuf[p] = << >> /\ t.delivered = a
      BY <1>5, <2>2, <2>3 DEF Reached
    <3>2. Flushed(p) = << >>
      BY <3>1 DEF Flushed
    <3>3. Contents(p, t.mode, t.from, t.pos) = a
      BY <2>2, <2>3 DEF Contents, Encoded, enc
    <3>4. a \o << >> = a
      BY <2>1, ConcatEmptySeq
    <3> QED BY <3>1, <3>2, <3>3, <3>4
  <2>4. CASE Decodes(t.mode) /\ HasFilter(enc)
    <3> DEFINE F == DecodeBlock(enc, Filter, a)
               buf == workbuf[p]
    <3>1. /\ filter[p] = {With(F, << >>)} /\ t.delivered \o buf = F.out
          /\ enc \in {"base64", "quoted-printable"} /\ buf \in Seq(Byte)
      BY <1>1, <1>4, <1>5, <2>2, <2>4, Coded DEF Reached, Run, Types
    <3>2. Flushed(p) = FlushDecoder(enc, With(With(F, << >>), buf)).out
      <4>1. (CHOOSE f \in filter[p] : TRUE) = With(F, << >>) /\ filter[p] # {}
        BY <3>1
      <4> QED BY <4>1 DEF Flushed, With, enc
    <3>3. t.delivered \o Flushed(p) = FlushDecoder(enc, F).out
      <4> DEFINE d == t.delivered
                 f == With(With(DecodeBlock(enc, Filter, a), << >>), buf)
                 none == << >>
                 g == DecodeBlock(enc, f, none)
                 G == DecodeBlock(enc, Filter, a \o none)
      <4>1. /\ none \in Seq(Byte) /\ d \in Seq(Byte) /\ buf \in Seq(Byte)
            /\ DecodeBlock(enc, Filter, a).out = d \o buf
            /\ f = With(With(DecodeBlock(enc, Filter, a), << >>), buf)
            /\ g = DecodeBlock(enc, f, none)
            /\ G = DecodeBlock(enc, Filter, a \o none)
        BY <1>4, <3>1
      <4> HIDE DEF buf, d, f, none, g, G
      <4>2. d \o FlushDecoder(enc, f).out
              = FlushDecoder(enc, DecodeBlock(enc, Filter, a)).out
        <5>1. Feeding(enc, a, none, d, buf, f, g, G)
          BY <2>1, <3>1, <4>1 DEF Feeding
        <5>2. Continues(enc, a, d, f, g, G)
          BY <5>1, FeedFacts
        <5> QED BY <5>2 DEF Continues
      <4> QED BY <3>2, <4>2 DEF d, f
    <3>4. Contents(p, t.mode, t.from, t.pos) = FlushDecoder(enc, F).out
      BY <2>2, <2>4 DEF Contents, Encoded, Decoded, enc
    <3> QED BY <3>3, <3>4
  <2> QED BY <2>3, <2>4
<1> HIDE DEF data
<1>17. Results'
  <2>1. e.ok = ok /\ e.data = data /\ e.part = p /\ e.mode = t.mode /\ e.from = t.from
        /\ e.end = t.end
    OBVIOUS
  <2>2. t.pos \in t.from .. t.end
    BY <1>4, <1>5 DEF Reached
  <2>3. ok => t.pos = t.end
    BY DEF t
  <2>4. Contents(p, t.mode, t.from, t.pos)
          = IF Decodes(t.mode) /\ HasFilter(encoding'[p])
            THEN Decoded(encoding'[p], SubSeq(msg', t.from + 1, t.pos))
            ELSE SubSeq(msg', t.from + 1, t.pos)
    BY <1>2 DEF Contents, Encoded, Stretch
  <2> HIDE DEF e, p
  <2>5. CASE ok
    BY <1>2, <1>16, <2>1, <2>3, <2>4, <2>5
       DEF Results, ExtractedContents, Contents, Encoded, Stretch
  <2>6. CASE ~ok
    BY <1>2, <1>16, <2>1, <2>2, <2>4, <2>6
       DEF Results, ExtractedContents, Contents, Encoded, Stretch
  <2> QED BY <2>5, <2>6
<1> QED BY <1>7, <1>9, <1>11, <1>12, <1>13, <1>14, <1>15, <1>17 DEF IInv

-----------------------------------------------------------------------------
(* A round of the loop, for the frame that it moves.                       *)
LEMMA FeedStep ==
  ASSUME Types, NEW t \in Frame, t = top, NEW n \in Nat,
         NEW chunk, chunk = SubSeq(msg, t.pos + 1, t.pos + n),
         n <= t.end - t.pos, t.pos + n <= Len(msg),
         Reached(t, msg, encoding[t.part], filter[t.part], workbuf[t.part]),
         Feed(chunk)
  PROVE  \E frame \in Frame :
           /\ SetTop(frame) /\ frame.part = t.part
           /\ frame.mode = t.mode /\ frame.end = t.end
           /\ workbuf' \in [Parts -> Seq(Byte)] /\ filter' \in [Parts -> SUBSET Coders]
           /\ \A q \in Parts : q # t.part => /\ workbuf'[q] = workbuf[q]
                                            /\ filter'[q] = filter[q]
           /\ Reached(frame, msg, encoding[t.part], filter'[t.part], workbuf'[t.part])
<1> DEFINE p == t.part
           enc == encoding[p]
           a == SubSeq(msg, t.from + 1, t.pos)
           b == SubSeq(msg, t.from + 1, t.pos + n)
           pos == t.pos + n
           moved == [t EXCEPT !.pos = pos]
<1>1. /\ p \in Parts /\ t.mode \in Modes /\ t.delivered \in Seq(Byte)
      /\ t.from \in Nat /\ t.pos \in Nat /\ t.end \in Nat /\ pos \in Nat
  BY DEF Frame
<1>2. /\ t.from <= t.pos /\ t.pos <= t.end /\ t.end <= Len(msg)
  BY DEF Reached
<1>3. t.pos <= pos /\ pos <= t.end /\ t.from <= pos /\ pos <= Len(msg) /\ pos - t.pos = n
  <2>1. msg \in Seq(Byte) /\ Len(msg) \in Nat
    BY MessageFacts
  <2> QED BY <1>1, <1>2, <2>1
<1>4. /\ a \in Seq(Byte) /\ chunk \in Seq(Byte) /\ Len(chunk) = n /\ a \o chunk = b
  <2>1. msg \in Seq(Byte)
    BY MessageFacts
  <2>2. a \in Seq(Byte)
    BY <1>1, <1>2, <1>3, <2>1, Cut
  <2> HIDE DEF pos
  <2> DEFINE m == msg
             x == t.from
             y == t.pos
  <2>3. /\ m \in Seq(Byte) /\ x \in Nat /\ y \in Nat /\ pos \in Nat
        /\ x <= y /\ y <= pos /\ pos <= Len(m) /\ pos - y = n
    BY <1>1, <1>2, <1>3, <2>1
  <2> HIDE DEF m, x, y
  <2>4. SubSeq(m, y + 1, pos) \in Seq(Byte) /\ Len(SubSeq(m, y + 1, pos)) = pos - y
    BY <2>3, Cut
  <2>5. SubSeq(m, x + 1, y) \o SubSeq(m, y + 1, pos) = SubSeq(m, x + 1, pos)
    BY <2>3, CutTwice
  <2> QED BY <2>2, <2>3, <2>4, <2>5 DEF pos, m, x, y
<1>5. a = Whole(t, msg)
  BY DEF Whole
<1> HIDE DEF a, b, pos
<1>6. ASSUME NEW d \in Seq(Byte)
      PROVE  LET frame == [moved EXCEPT !.delivered = d] IN
             /\ frame \in Frame /\ frame.part = p /\ frame.mode = t.mode
             /\ frame.end = t.end /\ frame.from = t.from /\ frame.pos = pos
             /\ frame.delivered = d
             /\ frame.from <= frame.pos /\ frame.pos <= frame.end /\ frame.end <= Len(msg)
             /\ Whole(frame, msg) = b
  <2> DEFINE frame == [moved EXCEPT !.delivered = d]
  <2>1. /\ frame \in Frame /\ frame.part = p /\ frame.mode = t.mode
        /\ frame.end = t.end /\ frame.from = t.from /\ frame.pos = pos
        /\ frame.delivered = d
    BY <1>1 DEF Frame
  <2> HIDE DEF frame
  <2>2. Whole(frame, msg) = b
    BY <2>1 DEF Whole, b, pos
  <2> QED BY <1>2, <1>3, <2>1, <2>2 DEF frame
<1>7. /\ workbuf \in [Parts -> Seq(Byte)] /\ filter \in [Parts -> SUBSET Coders]
      /\ workbuf[p] \in Seq(Byte)
  BY <1>1 DEF Types
<1>8. [top EXCEPT !.pos = @ + Len(chunk)] = moved
  BY <1>4 DEF pos
<1>9. CASE ~(Decodes(t.mode) /\ HasFilter(enc))
  <2>1. filter[p] = {} /\ workbuf[p] = << >> /\ t.delivered = a
    BY <1>5, <1>9 DEF Reached
  <2> DEFINE frame == [moved EXCEPT !.delivered = b]
  <2>2. SetTop(frame) /\ workbuf' = workbuf /\ filter' = filter
    <3>1. SetTop([moved EXCEPT !.delivered = @ \o chunk]) /\ workbuf' = workbuf /\ filter' = filter
      BY <1>8, <2>1 DEF Feed
    <3>2. [moved EXCEPT !.delivered = @ \o chunk] = frame
      BY <1>4, <2>1
    <3> QED BY <3>1, <3>2
  <2>3. b \in Seq(Byte)
    BY <1>4, ConcatProperties
  <2>4. /\ frame \in Frame /\ frame.part = p /\ frame.mode = t.mode
        /\ frame.end = t.end /\ frame.delivered = b
        /\ frame.from <= frame.pos /\ frame.pos <= frame.end /\ frame.end <= Len(msg)
        /\ Whole(frame, msg) = b
    BY <1>6, <2>3
  <2> HIDE DEF frame
  <2>5. Reached(frame, msg, enc, filter'[p], workbuf'[p])
    BY <1>9, <2>1, <2>2, <2>4 DEF Reached
  <2> QED BY <1>7, <2>2, <2>4, <2>5
<1>10. CASE Decodes(t.mode) /\ HasFilter(enc)
  <2> DEFINE F == DecodeBlock(enc, Filter, a)
             buf == workbuf[p]
             d == t.delivered
             f == With(With(F, << >>), buf)
             g == DecodeBlock(enc, f, chunk)
             G == DecodeBlock(enc, Filter, a \o chunk)
             empty == With(g, << >>)
  <2>1. filter[p] = {With(F, << >>)} /\ d \o buf = F.out
    BY <1>5, <1>10 DEF Reached, Run
  <2>2. /\ filter' = [filter EXCEPT ![p] = {empty}]
        /\ \/ /\ Full(g.out)
              /\ SetTop([moved EXCEPT !.delivered = @ \o g.out])
              /\ workbuf' = [workbuf EXCEPT ![p] = << >>]
           \/ /\ ~Full(g.out)
              /\ SetTop(moved)
              /\ workbuf' = [workbuf EXCEPT ![p] = g.out]
    BY <1>8, <2>1 DEF Feed, With
  <2> HIDE DEF F, f, g, G, empty
  <2>3. Feeding(enc, a, chunk, d, buf, f, g, G)
    BY <1>1, <1>4, <1>7, <1>10, <2>1, Coded DEF Feeding, F, f, g, G
  <2>4. Continues(enc, a, d, f, g, G)
    BY <2>3, FeedFacts
  <2>5. /\ g \in Coders /\ g.out \in Seq(Byte) /\ empty = With(G, << >>)
        /\ G.out = d \o g.out
    BY <2>4 DEF Continues, empty
  <2>6. empty \in Coders
    <3>1. g.out \in Seq(Byte) /\ << >> \in Seq(Byte)
      BY <2>5
    <3>2. With(g, << >>) \in Coders
      BY <2>5, <3>1 DEF With, Coders
    <3> QED BY <3>2 DEF empty
  <2>7. /\ filter' \in [Parts -> SUBSET Coders] /\ filter'[p] = {empty}
        /\ \A q \in Parts : q # p => filter'[q] = filter[q]
    <3>1. {empty} \in SUBSET Coders
      BY <2>6
    <3> QED BY <1>1, <1>7, <2>2, <3>1
  <2>8. G = DecodeBlock(enc, Filter, b)
    BY <1>4 DEF G
  <2>9. Len(g.out) \in Nat /\ BufSize \in Nat \ {0, 1} /\ << >> \in Seq(Byte)
    BY <2>5, LenProperties, BoundsAssumption
  <2>10. CASE Full(g.out)
    <3> DEFINE frame == [moved EXCEPT !.delivered = d \o g.out]
    <3>1. SetTop(frame) /\ workbuf' = [workbuf EXCEPT ![p] = << >>]
      <4>1. [moved EXCEPT !.delivered = @ \o g.out] = frame
        OBVIOUS
      <4> QED BY <2>2, <2>10, <4>1
    <3>2. d \o g.out \in Seq(Byte)
      BY <1>1, <2>5, ConcatProperties
    <3>3. /\ frame \in Frame /\ frame.part = p /\ frame.mode = t.mode
          /\ frame.end = t.end /\ frame.delivered = d \o g.out
          /\ frame.from <= frame.pos /\ frame.pos <= frame.end /\ frame.end <= Len(msg)
          /\ Whole(frame, msg) = b
      BY <1>6, <3>2
    <3>4. /\ workbuf' \in [Parts -> Seq(Byte)] /\ workbuf'[p] = << >>
          /\ \A q \in Parts : q # p => workbuf'[q] = workbuf[q]
      BY <1>1, <1>7, <2>9, <3>1
    <3> HIDE DEF frame
    <3>5. (d \o g.out) \o << >> = d \o g.out /\ Len(<< >>) < BufSize
      BY <2>9, <3>2, ConcatEmptySeq
    <3>6. Reached(frame, msg, enc, filter'[p], workbuf'[p])
      <4>1. Run(frame, msg, enc) = G
        BY <2>8, <3>3 DEF Run
      <4> QED BY <1>10, <2>5, <2>7, <3>3, <3>4, <3>5, <4>1 DEF Reached
    <3> QED BY <2>7, <3>1, <3>3, <3>4, <3>6
  <2>11. CASE ~Full(g.out)
    <3> DEFINE frame == [moved EXCEPT !.delivered = d]
    <3>1. SetTop(frame) /\ workbuf' = [workbuf EXCEPT ![p] = g.out]
      <4>1. moved = frame
        BY DEF Frame
      <4> QED BY <2>2, <2>11, <4>1
    <3>3. /\ frame \in Frame /\ frame.part = p /\ frame.mode = t.mode
          /\ frame.end = t.end /\ frame.delivered = d
          /\ frame.from <= frame.pos /\ frame.pos <= frame.end /\ frame.end <= Len(msg)
          /\ Whole(frame, msg) = b
      BY <1>1, <1>6
    <3>4. /\ workbuf' \in [Parts -> Seq(Byte)] /\ workbuf'[p] = g.out
          /\ \A q \in Parts : q # p => workbuf'[q] = workbuf[q]
      BY <1>1, <1>7, <2>5, <3>1
    <3> HIDE DEF frame
    <3>5. Len(g.out) < BufSize
      BY <2>9, <2>11 DEF Full
    <3>6. Reached(frame, msg, enc, filter'[p], workbuf'[p])
      <4>1. Run(frame, msg, enc) = G
        BY <2>8, <3>3 DEF Run
      <4> QED BY <1>10, <2>5, <2>7, <3>3, <3>4, <3>5, <4>1 DEF Reached
    <3> QED BY <2>7, <3>1, <3>3, <3>4, <3>6
  <2> QED BY <2>10, <2>11
<1> QED BY <1>9, <1>10

LEMMA ReadStep ==
  ASSUME IInv, NEW n \in 1 .. BufSize - 1, Read(n)
  PROVE  IInv'
<1> DEFINE t == top
           p == t.part
           chunk == SubSeq(msg, t.pos + 1, t.pos + n)
<1>1. /\ Types /\ Offsets /\ OnePerPart /\ Running /\ Idle
      /\ LinesKnown /\ CompleteLinesOnly
  BY DEF IInv
<1>2. /\ frames # << >> /\ n <= t.end - t.pos /\ t.pos + n <= Len(msg)
      /\ Feed(chunk)
      /\ last' = {} /\ msg' = msg /\ encoding' = encoding /\ fed' = fed
      /\ endpos' = endpos /\ bodyend' = bodyend
  BY DEF Read, parsed
<1>3. /\ t = frames[Len(frames)] /\ Len(frames) \in DOMAIN frames /\ t \in Frame
      /\ Len(frames) \in Nat \ {0}
  BY <1>1, <1>2, TopFacts
<1>4. p \in Parts /\ n \in Nat /\ Root \in Parts
  BY <1>1, <1>3, FrameFacts, PartsAssumption, BoundsAssumption
<1>5. Reached(t, msg, encoding[p], filter[p], workbuf[p])
  BY <1>1, <1>3 DEF Running, ReachedNow
<1>6. Extracting(p)
  BY <1>3 DEF Extracting
<1>7. PICK frame \in Frame :
        /\ SetTop(frame) /\ frame.part = p /\ frame.mode = t.mode /\ frame.end = t.end
        /\ workbuf' \in [Parts -> Seq(Byte)] /\ filter' \in [Parts -> SUBSET Coders]
        /\ \A q \in Parts : q # p => workbuf'[q] = workbuf[q] /\ filter'[q] = filter[q]
        /\ Reached(frame, msg, encoding[p], filter'[p], workbuf'[p])
  <2> DEFINE c == chunk
             u == t
  <2>1. u = top /\ c = SubSeq(msg, u.pos + 1, u.pos + n) /\ Feed(c) /\ u \in Frame
    BY <1>2, <1>3
  <2>2. /\ n <= u.end - u.pos /\ u.pos + n <= Len(msg)
        /\ Reached(u, msg, encoding[u.part], filter[u.part], workbuf[u.part])
    BY <1>2, <1>5
  <2> HIDE DEF c, u
  <2>3. \E frame \in Frame :
        /\ SetTop(frame) /\ frame.part = u.part /\ frame.mode = u.mode /\ frame.end = u.end
        /\ workbuf' \in [Parts -> Seq(Byte)] /\ filter' \in [Parts -> SUBSET Coders]
        /\ \A q \in Parts : q # u.part => workbuf'[q] = workbuf[q] /\ filter'[q] = filter[q]
        /\ Reached(frame, msg, encoding[u.part], filter'[u.part], workbuf'[u.part])
    BY <1>1, <1>4, <2>1, <2>2, FeedStep
  <2> QED BY <2>3 DEF u
<1>8. /\ frames' \in Seq(Frame) /\ Len(frames') = Len(frames)
      /\ DOMAIN frames' = DOMAIN frames
      /\ \A i \in DOMAIN frames : frames'[i] = IF i = Len(frames) THEN frame ELSE frames[i]
      /\ \A i \in DOMAIN frames : frames'[i].part = frames[i].part
      /\ \A q : Extracting(q)' <=> Extracting(q)
      /\ OnePerPart'
  <2>1. frame.part = top.part /\ SetTop(frame)
    BY <1>7
  <2> QED BY <1>1, <1>2, <2>1, TopMoves
<1>9. Types'
  BY <1>1, <1>2, <1>7, <1>8 DEF Types
<1>10. Unparsed' = Unparsed
  <2>1. CASE p = Root
    BY <1>6, <1>8, <2>1 DEF Unparsed
  <2>2. CASE p # Root
    BY <1>4, <1>7, <1>8, <2>2 DEF Unparsed
  <2> QED BY <2>1, <2>2
<1>11. Offsets'
  BY <1>1, <1>2, <1>10 DEF Offsets, Innermost
<1>12. \A i \in DOMAIN frames : i # Len(frames) =>
         frames[i].part # p /\ frames[i].part \in Parts
  BY <1>1, <1>3, FrameFacts DEF OnePerPart
<1>13. Running'
  <2> SUFFICES ASSUME NEW i \in DOMAIN frames
               PROVE  Reached(frames'[i], msg, encoding[frames'[i].part],
                              filter'[frames'[i].part], workbuf'[frames'[i].part])
    BY <1>2, <1>8 DEF Running, ReachedNow
  <2>1. CASE i = Len(frames)
    BY <1>7, <1>8, <2>1
  <2>2. CASE i # Len(frames)
    <3>1. frames'[i] = frames[i]
      BY <1>8, <2>2
    <3>2. /\ workbuf'[frames[i].part] = workbuf[frames[i].part]
          /\ filter'[frames[i].part] = filter[frames[i].part]
      BY <1>7, <1>12, <2>2
    <3> QED BY <1>1, <3>1, <3>2 DEF Running, ReachedNow
  <2> QED BY <2>1, <2>2
<1>14. Idle'
  BY <1>1, <1>6, <1>7, <1>8 DEF Idle
<1>15. LinesKnown'
  BY <1>1, <1>2, <1>10 DEF LinesKnown, Stretch, NothingLost, Innermost
<1>16. CompleteLinesOnly'
  <2>1. \A i \in DOMAIN frames : /\ frames'[i].mode = frames[i].mode
                                /\ frames'[i].end = frames[i].end
                                /\ frames'[i].part = frames[i].part
    BY <1>3, <1>7, <1>8
  <2> QED BY <1>1, <1>2, <1>8, <1>10, <2>1 DEF CompleteLinesOnly, NothingLost, Innermost
<1>17. Results'
  BY <1>2 DEF Results, ExtractedContents
<1> QED BY <1>8, <1>9, <1>11, <1>13, <1>14, <1>15, <1>16, <1>17 DEF IInv

LEMMA StutterStep == ASSUME IInv, UNCHANGED vars PROVE IInv'
<1>1. /\ msg' = msg /\ encoding' = encoding /\ fed' = fed /\ endpos' = endpos
      /\ bodyend' = bodyend /\ workbuf' = workbuf /\ filter' = filter
      /\ frames' = frames /\ last' = last
  BY DEF vars
<1>2. Types' /\ Offsets' /\ OnePerPart'
  BY <1>1 DEF IInv, Types, Offsets, OnePerPart, Unparsed, Extracting, Innermost
<1>3. Running' /\ Idle'
  BY <1>1 DEF IInv, Running, ReachedNow, Idle, Extracting
<1>4. LinesKnown' /\ CompleteLinesOnly'
  BY <1>1 DEF IInv, LinesKnown, CompleteLinesOnly, NothingLost, Unparsed, Extracting,
              Stretch, Innermost
<1>5. Results'
  BY <1>1 DEF IInv, Results, ExtractedContents, Contents, Encoded, Stretch
<1> QED BY <1>2, <1>3, <1>4, <1>5 DEF IInv

LEMMA NextStep ==
  ASSUME IInv, [Next]_vars, ~ReadError PROVE IInv'
<1>1. ASSUME NEW n \in 1 .. Len(msg), Parse(n) PROVE IInv'
  BY <1>1, ParseStep
<1>2. ASSUME NEW p \in Parts, NEW mode \in Modes, Begin(p, mode) PROVE IInv'
  BY <1>2, BeginStep
<1>3. ASSUME NEW n \in 1 .. BufSize - 1, Read(n) PROVE IInv'
  BY <1>3, ReadStep
<1>4. ASSUME Complete PROVE IInv'
  <2>1. frames # << >> /\ top.pos >= top.end /\ Finish(TRUE)
    BY <1>4 DEF Complete
  <2>2. top.pos = top.end
    <3>1. /\ Types /\ Running
      BY DEF IInv
    <3>2. top = frames[Len(frames)] /\ Len(frames) \in DOMAIN frames
      BY <2>1, <3>1, TopFacts
    <3>3. top.pos \in Nat /\ top.end \in Nat /\ top.pos <= top.end
      BY <3>1, <3>2, FrameFacts DEF Running, ReachedNow, Reached
    <3> QED BY <2>1, <3>3
  <2> QED BY <2>1, <2>2, FinishStep
<1>5. ASSUME ReadFails PROVE IInv'
  BY <1>5, FinishStep DEF ReadFails
<1>6. ASSUME UNCHANGED vars PROVE IInv'
  BY <1>6, StutterStep
<1> QED BY <1>1, <1>2, <1>3, <1>4, <1>5, <1>6 DEF Next

LEMMA TypeMeans == ASSUME IInv PROVE TypeOK
<1>1. Types /\ Offsets /\ Running /\ Idle /\ Results
  BY DEF IInv
<1>2. /\ msg \in Seq(Byte) /\ Len(msg) \in Nat /\ BufSize \in Nat \ {0, 1}
      /\ fed \in Nat /\ endpos \in Nat /\ bodyend \in Nat /\ Innermost \in Nat
  BY <1>1, MessageFacts, PlaceFacts DEF Types
<1>3. Len(Unparsed) \in Nat
  <2>1. Unparsed \in Seq(Byte)
    BY <1>1, PartsAssumption DEF Unparsed, Types
  <2> QED BY <2>1, LenProperties
<1>4. fed \in 0 .. Len(msg) /\ endpos \in 0 .. Len(msg) /\ bodyend \in 0 .. Len(msg)
  BY <1>1, <1>2, <1>3 DEF Offsets
<1>5. Cardinality({}) = 0 /\ \A x : Cardinality({x}) = 1
  BY FS_EmptySet, FS_Singleton
<1>6. ASSUME NEW p \in Parts
      PROVE  /\ \A i \in DOMAIN workbuf[p] : workbuf[p][i] \in Byte
             /\ Extracting(p) => Len(workbuf[p]) < BufSize
             /\ Cardinality(filter[p]) <= 1
  <2>1. \A i \in DOMAIN workbuf[p] : workbuf[p][i] \in Byte
    <3>1. workbuf[p] \in Seq(Byte)
      BY <1>1 DEF Types
    <3> QED BY <3>1, LenProperties
  <2>2. CASE ~Extracting(p)
    <3>1. filter[p] = {}
      BY <1>1, <2>2 DEF Idle
    <3> QED BY <1>5, <2>1, <2>2, <3>1
  <2>3. CASE Extracting(p)
    <3>1. PICK i \in DOMAIN frames : frames[i].part = p
      BY <2>3 DEF Extracting
    <3>2. Reached(frames[i], msg, encoding[p], filter[p], workbuf[p])
      BY <1>1, <3>1 DEF Running, ReachedNow
    <3>3. /\ Len(workbuf[p]) < BufSize
          /\ filter[p] = {} \/ \E x : filter[p] = {x}
      <4>1. Len(<< >>) < BufSize
        BY <1>2
      <4> QED BY <3>2, <4>1 DEF Reached
    <3>4. Cardinality(filter[p]) <= 1
      <4>1. CASE filter[p] = {}
        BY <1>5, <4>1
      <4>2. CASE filter[p] # {}
        <5>1. PICK x : filter[p] = {x}
          BY <3>3, <4>2
        <5>2. Cardinality(filter[p]) = 1
          BY <1>5, <5>1
        <5> QED BY <5>2
      <4> QED BY <4>1, <4>2
    <3> QED BY <2>1, <3>3, <3>4
  <2> QED BY <2>2, <2>3
<1>7. Cardinality(last) <= 1
  <2>1. CASE last = {}
    BY <1>5, <2>1
  <2>2. ASSUME NEW x, last = {x} PROVE Cardinality(last) <= 1
    BY <1>5, <2>2
  <2> QED BY <1>1, <2>1, <2>2 DEF Results
<1>8. Len(frames) <= MaxDepth
  BY <1>1 DEF Types
<1> QED BY <1>4, <1>6, <1>7, <1>8 DEF TypeOK

LEMMA FilterMeans == ASSUME IInv PROVE FilterOwned
<1>1. Running /\ Idle
  BY DEF IInv
<1>2. \A i \in DOMAIN frames :
        filter[frames[i].part] # {} <=> Encoded(frames[i].part, frames[i].mode)
  <2> SUFFICES ASSUME NEW i \in DOMAIN frames
               PROVE  filter[frames[i].part] # {} <=> Encoded(frames[i].part, frames[i].mode)
    OBVIOUS
  <2>1. Reached(frames[i], msg, encoding[frames[i].part], filter[frames[i].part],
                workbuf[frames[i].part])
    BY <1>1 DEF Running, ReachedNow
  <2> QED BY <2>1 DEF Reached, Encoded
<1> QED BY <1>1, <1>2 DEF FilterOwned, Idle, Extracting

-----------------------------------------------------------------------------
(* A negative count: the frames are those before, but for what the         *)
(* innermost has delivered, and nothing happens any more.                  *)
Spoilt == TypeOK /\ FilterOwned /\ CompleteLinesOnly /\ last = {}
Safe   == IF overrun THEN Spoilt ELSE IInv

LEMMA TopSpoilt ==
  ASSUME Types, frames # << >>, NEW data,
         SetTop([top EXCEPT !.delivered = data])
  PROVE  /\ Len(frames') = Len(frames) /\ DOMAIN frames' = DOMAIN frames
         /\ \A i \in DOMAIN frames : /\ frames'[i].part = frames[i].part
                                     /\ frames'[i].mode = frames[i].mode
                                     /\ frames'[i].end = frames[i].end
<1> DEFINE g == Front(frames)
           n == Len(frames)
           frame == [top EXCEPT !.delivered = data]
           S == Frame \cup {frame}
<1>1. /\ n \in Nat \ {0} /\ DOMAIN frames = 1 .. n /\ top = frames[n] /\ top \in Frame
      /\ g \in Seq(Frame) /\ Len(g) = n - 1
      /\ \A i \in 1 .. n - 1 : g[i] = frames[i]
  BY TopFacts
<1>2. frame.part = top.part /\ frame.mode = top.mode /\ frame.end = top.end
  BY <1>1 DEF Frame
<1>3. frames' = Append(g, frame)
  BY DEF SetTop
<1>4. g \in Seq(S) /\ frame \in S
  <2>1. Frame \subseteq S
    OBVIOUS
  <2> HIDE DEF g, n, frame, S
  <2>2. /\ Len(g) \in Nat /\ g \in [1 .. Len(g) -> Frame]
    BY <1>1, LenProperties
  <2>3. g \in [1 .. Len(g) -> S]
    BY <2>1, <2>2
  <2>4. g \in Seq(S)
    BY <2>2, <2>3, FunctionIsSeq
  <2> QED BY <2>4 DEF S
<1> HIDE DEF g, n, frame, S
<1>5. /\ Append(g, frame) \in Seq(S)
      /\ Len(Append(g, frame)) = Len(g) + 1
      /\ \A i \in 1 .. Len(g) : Append(g, frame)[i] = g[i]
      /\ Append(g, frame)[Len(g) + 1] = frame
  BY <1>4, AppendProperties
<1>6. Len(frames') = n /\ DOMAIN frames' = 1 .. n
  <2>1. Len(g) + 1 = n
    BY <1>1
  <2> QED BY <1>3, <1>5, <2>1, LenProperties
<1>7. \A i \in 1 .. n : frames'[i] = IF i = n THEN frame ELSE frames[i]
  <2>1. Len(g) + 1 = n /\ \A i \in 1 .. n : i # n => i \in 1 .. Len(g) /\ i \in 1 .. n - 1
    BY <1>1
  <2> QED BY <1>1, <1>3, <1>5, <2>1
<1> QED BY <1>1, <1>2, <1>6, <1>7 DEF n

LEMMA ErrorStep == ASSUME IInv, ReadError PROVE Spoilt'
<1>1. Types /\ TypeOK /\ FilterOwned /\ CompleteLinesOnly
  BY TypeMeans, FilterMeans DEF IInv
<1>2. /\ frames # << >> /\ last' = {}
      /\ msg' = msg /\ encoding' = encoding /\ fed' = fed /\ endpos' = endpos
      /\ bodyend' = bodyend /\ workbuf' = workbuf /\ filter' = filter
      /\ frames' = frames \/ SetTop([top EXCEPT !.delivered = Append(@, Memory)])
  BY DEF ReadError, parsed
<1>3. /\ Len(frames') = Len(frames) /\ DOMAIN frames' = DOMAIN frames
      /\ \A i \in DOMAIN frames : /\ frames'[i].part = frames[i].part
                                  /\ frames'[i].mode = frames[i].mode
                                  /\ frames'[i].end = frames[i].end
  <2>1. CASE frames' = frames
    BY <2>1
  <2>2. CASE SetTop([top EXCEPT !.delivered = Append(@, Memory)])
    <3> DEFINE data == Append(top.delivered, Memory)
    <3>1. SetTop([top EXCEPT !.delivered = data])
      BY <2>2
    <3> HIDE DEF data
    <3> QED BY <1>1, <1>2, <3>1, TopSpoilt
  <2> QED BY <1>2, <2>1, <2>2
<1>4. \A p : Extracting(p)' <=> Extracting(p)
  BY <1>3 DEF Extracting
<1>5. TypeOK'
  <2>1. Cardinality({}) = 0
    BY FS_EmptySet
  <2>2. \A p \in Parts : /\ \A i \in DOMAIN workbuf[p] : workbuf[p][i] \in Byte
                        /\ Extracting(p)' => Len(workbuf[p]) < BufSize
                        /\ Cardinality(filter[p]) <= 1
    BY <1>1, <1>4 DEF TypeOK
  <2>3. Cardinality(last') <= 1
    BY <1>2, <2>1
  <2> QED BY <1>1, <1>2, <1>3, <2>2, <2>3 DEF TypeOK
<1>6. FilterOwned'
  BY <1>1, <1>2, <1>3 DEF FilterOwned, Encoded
<1>7. CompleteLinesOnly'
  <2>1. NothingLost' <=> NothingLost
    <3>1. Unparsed' = Unparsed
      BY <1>2, <1>4 DEF Unparsed
    <3> QED BY <1>2, <3>1 DEF NothingLost
  <2> QED BY <1>1, <1>2, <1>3, <2>1 DEF CompleteLinesOnly, Innermost
<1> QED BY <1>2, <1>5, <1>6, <1>7 DEF Spoilt

LEMMA SafeStep == ASSUME Safe, [Next]_vars PROVE Safe'
<1>1. CASE UNCHANGED vars
  <2>1. CASE overrun
    <3>1. /\ msg' = msg /\ encoding' = encoding /\ fed' = fed /\ endpos' = endpos
          /\ bodyend' = bodyend /\ workbuf' = workbuf /\ filter' = filter
          /\ frames' = frames /\ last' = last /\ overrun' = overrun
      BY <1>1 DEF vars
    <3>2. Spoilt
      BY <2>1 DEF Safe
    <3>3. TypeOK'
      BY <3>1, <3>2 DEF Spoilt, TypeOK, Extracting
    <3>4. FilterOwned'
      BY <3>1, <3>2 DEF Spoilt, FilterOwned, Encoded
    <3>5. CompleteLinesOnly'
      BY <3>1, <3>2 DEF Spoilt, CompleteLinesOnly, NothingLost, Unparsed,
                        Extracting, Innermost
    <3>6. Spoilt'
      BY <3>1, <3>2, <3>3, <3>4, <3>5 DEF Spoilt
    <3> QED BY <2>1, <3>1, <3>6 DEF Safe
  <2>2. CASE ~overrun
    <3>1. overrun' = overrun /\ IInv'
      BY <1>1, <2>2, StutterStep DEF vars, Safe
    <3> QED BY <2>2, <3>1 DEF Safe
  <2> QED BY <2>1, <2>2
<1>2. CASE ReadError
  <2>1. ~overrun /\ overrun' = TRUE
    BY <1>2 DEF ReadError
  <2>2. Spoilt'
    BY <1>2, <2>1, ErrorStep DEF Safe
  <2> QED BY <2>1, <2>2 DEF Safe
<1>3. CASE Next /\ ~ReadError
  <2>1. ~overrun /\ overrun' = overrun
    <3>1. ASSUME NEW n, Parse(n) PROVE ~overrun /\ overrun' = overrun
      BY <3>1 DEF Parse
    <3>2. ASSUME NEW p, NEW mode, Begin(p, mode) PROVE ~overrun /\ overrun' = overrun
      BY <3>2 DEF Begin
    <3>3. ASSUME NEW n, Read(n) PROVE ~overrun /\ overrun' = overrun
      BY <3>3 DEF Read
    <3>4. ASSUME NEW ok, Finish(ok) PROVE ~overrun /\ overrun' = overrun
      BY <3>4 DEF Finish
    <3> QED BY <1>3, <3>1, <3>2, <3>3, <3>4 DEF Next, Complete, ReadFails
  <2>2. IInv'
    BY <1>3, <2>1, NextStep DEF Safe
  <2> QED BY <2>1, <2>2 DEF Safe
<1> QED BY <1>1, <1>2, <1>3

LEMMA SafeAlways == Spec => []Safe
<1>1. Init => Safe
  BY InitStep DEF Safe, Init
<1> QED BY <1>1, SafeStep, PTL DEF Spec

-----------------------------------------------------------------------------
(* Extraction keeps its types, and a work buffer is delivered before it    *)
(* holds as much as the code's buffer.                                     *)
THEOREM ExtractionTyped == Spec => []TypeOK
<1>1. Safe => TypeOK
  BY TypeMeans DEF Safe, Spoilt
<1> QED BY <1>1, SafeAlways, PTL

(* What a running extraction has delivered and what waits in the work      *)
(* buffer are what it has read so far decodes to, for all the parsing and  *)
(* the other extractions that its callbacks start.                         *)
THEOREM DeliveryCorrect == Spec => []DeliveredSoFar
<1>1. ASSUME Safe, ~overrun PROVE DeliveredSoFar
  <2>1. Types /\ Running
    BY <1>1 DEF IInv, Safe
  <2> SUFFICES ASSUME NEW i \in DOMAIN frames
               PROVE  frames[i].delivered \o workbuf[frames[i].part] =
                        IF Encoded(frames[i].part, frames[i].mode)
                        THEN DecodeBlock(encoding[frames[i].part], Filter,
                                         Stretch(frames[i].from, frames[i].pos)).out
                        ELSE Stretch(frames[i].from, frames[i].pos)
    BY DEF DeliveredSoFar
  <2>2. Reached(frames[i], msg, encoding[frames[i].part], filter[frames[i].part],
                workbuf[frames[i].part])
    BY <2>1 DEF Running, ReachedNow
  <2>3. Whole(frames[i], msg) = Stretch(frames[i].from, frames[i].pos)
    BY DEF Whole, Stretch
  <2>4. CASE Encoded(frames[i].part, frames[i].mode)
    BY <2>2, <2>3, <2>4 DEF Reached, Run, Encoded
  <2>5. CASE ~Encoded(frames[i].part, frames[i].mode)
    <3>1. workbuf[frames[i].part] = << >> /\ frames[i].delivered = Whole(frames[i], msg)
      BY <2>2, <2>5 DEF Reached, Encoded
    <3>2. frames[i].delivered \in Seq(Byte)
      BY <2>1, FrameFacts
    <3>3. frames[i].delivered \o << >> = frames[i].delivered
      BY <3>2, ConcatEmptySeq
    <3> QED BY <2>3, <2>5, <3>1, <3>3
  <2> QED BY <2>4, <2>5
<1>2. Safe => DeliveredSoFar
  BY <1>1 DEF DeliveredSoFar
<1> QED BY <1>2, SafeAlways, PTL

(* An extraction that returns success has delivered what its whole stretch *)
(* decodes to, and one that returns a failure what a beginning of it       *)
(* decodes to.  Whether it returns is not said: after a read that reports  *)
(* a failure it need not.                                                  *)
THEOREM ContentsCorrect == Spec => []ExtractedContents
<1>1. Safe => ExtractedContents
  BY DEF Safe, Spoilt, IInv, Results, ExtractedContents
<1> QED BY <1>1, SafeAlways, PTL

(* A part has a filter exactly while an extraction that decodes it runs.   *)
THEOREM FiltersOwned == Spec => []FilterOwned
<1>1. Safe => FilterOwned
  BY FilterMeans DEF Safe, Spoilt
<1> QED BY <1>1, SafeAlways, PTL

(* No extraction delivers a line before its terminator is known, as long   *)
(* as the parser has lost nothing.                                         *)
THEOREM LinesComplete == Spec => []CompleteLinesOnly
<1>1. Safe => CompleteLinesOnly
  BY DEF Safe, Spoilt, IInv
<1> QED BY <1>1, SafeAlways, PTL
=============================================================================
