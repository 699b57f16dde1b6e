--------------------------- MODULE UuencodeProofs ---------------------------
(* What holds of every stream that is scanned for uuencoded files: every   *)
(* line is decoded once, and what is extracted is what is listed.          *)
EXTENDS Uuencode, DataProofs

-----------------------------------------------------------------------------
(* The stream is a sequence of lines.                                      *)
StreamOK == stream \in Seq(Kind)

LEMMA StreamFacts ==
  ASSUME StreamOK
  PROVE  /\ Lines \in Nat /\ DOMAIN stream = 1 .. Lines
         /\ \A j \in 1 .. Lines : stream[j] \in Kind
  BY LenProperties DEF StreamOK, Lines

(* A file ends behind its begin line: at the first blank line, the first   *)
(* end that counts if it is being written, or behind the last line.        *)
LEMMA StopFacts ==
  ASSUME StreamOK, NEW begin \in 1 .. Lines, NEW writes \in BOOLEAN
  PROVE  /\ Stop(begin, writes) \in begin + 1 .. Lines + 1
         /\ \/ Stop(begin, writes) = Lines + 1
            \/ /\ Stop(begin, writes) \in begin + 1 .. Lines
               /\ \/ stream[Stop(begin, writes)] = "blank"
                  \/ writes /\ Ends(begin, Stop(begin, writes))
         /\ \A j \in begin + 1 .. Lines :
              (stream[j] = "blank" \/ (writes /\ Ends(begin, j)))
                => Stop(begin, writes) <= j
<1> DEFINE S == {j \in begin + 1 .. Lines :
                   stream[j] = "blank" \/ (writes /\ Ends(begin, j))} \cup {Lines + 1}
<1>0. Lines \in Nat /\ begin \in Nat /\ begin <= Lines
  BY StreamFacts
<1>1. S \in SUBSET Nat /\ S # {} /\ S \in SUBSET (begin + 1 .. Lines + 1)
  BY <1>0
<1>2. Stop(begin, writes) = Min(S)
  BY DEF Stop
<1>3. Min(S) \in S /\ \A n \in S : Min(S) <= n
  <2> HIDE DEF S
  <2> QED BY <1>1, MinFacts
<1> QED BY <1>0, <1>1, <1>2, <1>3

LEMMA CompleteStops ==
  ASSUME StreamOK, NEW begin \in 1 .. Lines, NEW end \in 1 .. Lines,
         Complete(begin, end)
  PROVE  Stop(begin, TRUE) = end
<1> DEFINE s == Stop(begin, TRUE)
<1>0. Lines \in Nat /\ begin \in Nat /\ end \in Nat
  BY StreamFacts
<1>1. /\ s \in begin + 1 .. Lines + 1
      /\ \/ s = Lines + 1
         \/ s \in begin + 1 .. Lines /\ (stream[s] = "blank" \/ Ends(begin, s))
      /\ \A j \in begin + 1 .. Lines : (stream[j] = "blank" \/ Ends(begin, j)) => s <= j
  BY StopFacts
<1>2. /\ begin + 1 < end /\ end <= Lines
      /\ stream[end] = "end" /\ stream[end - 1] = "tick"
      /\ \A j \in begin + 1 .. end - 2 : stream[j] = "data"
  BY DEF Complete
<1> HIDE DEF s
<1>3. s <= end
  <2>1. Ends(begin, end) /\ end \in begin + 1 .. Lines
    BY <1>0, <1>2 DEF Ends
  <2> QED BY <1>1, <2>1
<1>4. s \in Int /\ s >= begin + 1
  BY <1>0, <1>1
<1>5. ~(s < end)
  <2> SUFFICES ASSUME s < end PROVE FALSE
    OBVIOUS
  <2>1. stream[s] = "blank" \/ stream[s] = "end"
    BY <1>0, <1>1, <1>2 DEF Ends
  <2>2. CASE s = end - 1
    BY <1>2, <2>1, <2>2
  <2>3. CASE s # end - 1
    <3>1. s \in begin + 1 .. end - 2
      BY <1>0, <1>4, <2>3
    <3> QED BY <1>2, <2>1, <3>1
  <2> QED BY <2>2, <2>3
<1>6. s = end
  BY <1>0, <1>3, <1>4, <1>5
<1> QED BY <1>6 DEF s

(* What measuring counts grows with the file.                              *)
LEMMA SizeGrows ==
  ASSUME StreamOK, NEW begin \in 1 .. Lines,
         NEW s \in begin + 1 .. Lines + 1, NEW t \in begin + 1 .. Lines + 1, s <= t
  PROVE  /\ Size(File(begin, s)) \in Nat
         /\ Size(File(begin, s)) <= Size(File(begin, t))
<1>0. Lines \in Nat /\ begin \in Nat /\ \A j \in 1 .. Lines : stream[j] \in Kind
  BY StreamFacts
<1> DEFINE U == begin + 1 .. Lines
           f == [j \in U |-> Bytes[stream[j]]]
           c == [S \in SUBSET U |-> CHOOSE x \in S : TRUE]
<1>1. IsFiniteSet(U)
  BY <1>0, FS_Interval
<1>2. f \in [U -> Nat] /\ \A j \in U : f[j] = Bytes[stream[j]]
  BY <1>0, BytesAssumption
<1>3. \A S \in SUBSET U : c[S] = CHOOSE x \in S : TRUE
  OBVIOUS
<1>4. \A S \in SUBSET U : S # {} => c[S] \in S
  BY <1>3
<1> HIDE DEF U, f, c
<1>5. Summand(f, c, U)
  BY <1>1, <1>2, <1>4 DEF Summand
<1>6. PICK g : AddsUp(g, f, c, U)
  BY <1>5, SumExists
<1>7. ASSUME NEW S \in SUBSET U
      PROVE  MapThenSumSet(LAMBDA j : Bytes[stream[j]], S) = g[S]
  <2>1. /\ g \in [SUBSET U -> Nat] /\ g[{}] = 0
        /\ \A T \in SUBSET U : T # {} => g[T] = f[c[T]] + g[T \ {c[T]}]
    BY <1>6 DEF AddsUp
  <2> DEFINE Adds(k) == k = [T \in SUBSET S |->
                 IF T = {} THEN 0
                 ELSE LET x == CHOOSE x \in T : TRUE
                      IN  Bytes[stream[x]] + k[T \ {x}]]
             iter == CHOOSE k : Adds(k)
             h == [T \in SUBSET S |-> g[T]]
  <2>2. MapThenSumSet(LAMBDA j : Bytes[stream[j]], S) = iter[S]
    BY DEF MapThenSumSet, MapThenFoldSet
  <2>3. Adds(h)
    <3>1. ASSUME NEW T \in SUBSET S, T # {}
          PROVE  h[T] = Bytes[stream[CHOOSE x \in T : TRUE]]
                          + h[T \ {CHOOSE x \in T : TRUE}]
      <4>1. T \in SUBSET U /\ c[T] \in T /\ c[T] = CHOOSE x \in T : TRUE
        BY <1>3, <1>4, <3>1
      <4>2. g[T] = f[c[T]] + g[T \ {c[T]}] /\ f[c[T]] = Bytes[stream[c[T]]]
        BY <1>2, <2>1, <3>1, <4>1
      <4> QED BY <4>1, <4>2
    <3>2. h[{}] = 0
      BY <2>1
    <3> QED BY <3>1, <3>2
  <2>4. Adds(iter)
    BY <2>3
  <2>5. \A T \in SUBSET S : iter[T] = IF T = {} THEN 0
                 ELSE LET x == CHOOSE x \in T : TRUE
                      IN  Bytes[stream[x]] + iter[T \ {x}]
    <3> HIDE DEF iter
    <3> QED BY <2>4
  <2>6. \A T \in SUBSET S : h[T] = IF T = {} THEN 0
                 ELSE LET x == CHOOSE x \in T : TRUE
                      IN  Bytes[stream[x]] + h[T \ {x}]
    <3> HIDE DEF h
    <3> QED BY <2>3
  <2> HIDE DEF iter, Adds, h
  <2> DEFINE D == SUBSET S
             r == [T \in D |-> Cardinality(T)]
  <2>7. r \in [D -> Nat] /\ \A T \in D : \A x \in T : r[T \ {x}] < r[T]
    <3>1. IsFiniteSet(S)
      BY <1>1, FS_Subset
    <3> QED BY <3>1, SizeFacts
  <2>8. ASSUME NEW T \in D, \A e \in D : r[e] < r[T] => iter[e] = h[e]
        PROVE  iter[T] = h[T]
    <3>1. CASE T = {}
      BY <2>5, <2>6, <3>1
    <3>2. CASE T # {}
      <4> DEFINE x == CHOOSE x \in T : TRUE
      <4>1. x \in T /\ T \ {x} \in D
        BY <3>2
      <4>2. iter[T \ {x}] = h[T \ {x}]
        BY <2>7, <2>8, <4>1
      <4> QED BY <2>5, <2>6, <3>2, <4>2
    <3> QED BY <3>1, <3>2
  <2>9. S \in D
    OBVIOUS
  <2> HIDE DEF r, D
  <2>10. \A T \in D : iter[T] = h[T]
    BY <2>7, <2>8, Unique
  <2> QED BY <2>2, <2>9, <2>10 DEF h
<1>8. /\ begin + 1 .. s - 1 \in SUBSET U /\ begin + 1 .. t - 1 \in SUBSET U
      /\ begin + 1 .. s - 1 \in SUBSET (begin + 1 .. t - 1)
  BY <1>0 DEF U
<1>9. g[begin + 1 .. s - 1] <= g[begin + 1 .. t - 1]
  BY <1>5, <1>6, <1>8, SumOfPart
<1>10. Size(File(begin, s)) = g[begin + 1 .. s - 1]
  BY <1>7, <1>8 DEF Size, File
<1>11. Size(File(begin, t)) = g[begin + 1 .. t - 1]
  BY <1>7, <1>8 DEF Size, File
<1>12. g[begin + 1 .. s - 1] \in Nat
  BY <1>6, <1>8 DEF AddsUp
<1> QED BY <1>9, <1>10, <1>11, <1>12
-----------------------------------------------------------------------------
Files == [begin : Nat, stop : Nat]
Items == [file : Files, filesize : Nat]

Typed ==
  /\ StreamOK
  /\ op \in {"enum_uue", "listed", "extract_uue", "extracted", "uudecode_all",
             "decoded", "crashed"}
  /\ at \in Nat \ {0} /\ nparts \in Nat /\ index \in Nat
  /\ items \in Seq(Items) /\ files \in Seq(Files) /\ rest \in Seq(Nat)
  /\ op \in {"enum_uue", "listed", "extract_uue"} => files = <<>>
  /\ op \in {"enum_uue", "listed"} => rest = <<>>

TakenBy(k) == files[k].begin .. files[k].stop
NotTaken   == {rest[k] : k \in DOMAIN rest}

(* While all files are decoded every line in front of at has been dealt    *)
(* with, and nothing behind it.                                            *)
Decoding ==
  op \in {"uudecode_all", "decoded"} =>
    /\ nparts = Len(files)
    /\ \A k \in DOMAIN rest : /\ rest[k] \in 1 .. Lines /\ rest[k] < at
                              /\ k > 1 => rest[k - 1] < rest[k]
    /\ \A k \in DOMAIN files :
         /\ files[k].begin \in 1 .. Lines /\ files[k] = Written(files[k].begin)
         /\ files[k].stop < at
         /\ TakenBy(k) \cap NotTaken = {}
         /\ k > 1 => files[k - 1].stop < files[k].begin
    /\ \A j \in 1 .. Lines : j < at =>
         \/ j \in NotTaken
         \/ \E k \in DOMAIN files : j \in TakenBy(k)
         \/ stream[j] = "begin"
    /\ op = "decoded" => at > Lines

LEMMA FileFacts ==
  ASSUME StreamOK, NEW begin \in 1 .. Lines, NEW writes \in BOOLEAN
  PROVE  /\ File(begin, Stop(begin, writes)) \in Files
         /\ File(begin, Stop(begin, writes)).begin = begin
         /\ File(begin, Stop(begin, writes)).stop = Stop(begin, writes)
         /\ Stop(begin, writes) \in Nat /\ Stop(begin, writes) > begin
         /\ Stop(begin, writes) + 1 \in Nat \ {0}
<1>1. Stop(begin, writes) \in begin + 1 .. Lines + 1 /\ begin \in Nat /\ Lines \in Nat
  BY StopFacts, StreamFacts
<1>2. Stop(begin, writes) \in Nat /\ Stop(begin, writes) > begin
  BY <1>1
<1> QED BY <1>1, <1>2 DEF File, Files

LEMMA SizeIsNat ==
  ASSUME StreamOK, NEW begin \in 1 .. Lines
  PROVE  Size(Measured(begin)) \in Nat
<1>1. Stop(begin, FALSE) \in begin + 1 .. Lines + 1
  BY StopFacts
<1>2. Stop(begin, FALSE) <= Stop(begin, FALSE)
  <2>1. Stop(begin, FALSE) \in Nat
    BY FileFacts
  <2>2. \A x \in Nat : x <= x
    OBVIOUS
  <2> QED BY <2>1, <2>2
<1>3. Size(File(begin, Stop(begin, FALSE))) \in Nat
  BY <1>1, <1>2, SizeGrows
<1> QED BY <1>3 DEF Measured

LEMMA InitTyped == Init => Typed /\ Decoding
<1> SUFFICES ASSUME Init PROVE Typed /\ Decoding
  OBVIOUS
<1>1. StreamOK
  <2>1. PICK body \in Bodies : stream = body \/ stream = body \o Behind
    BY DEF Init
  <2>2. body \in Seq(Kind) /\ Behind \in Seq(Kind)
    BY BodiesAssumption
  <2>3. body \o Behind \in Seq(Kind)
    BY <2>2, ConcatProperties
  <2> QED BY <2>1, <2>2, <2>3 DEF StreamOK
<1> QED BY <1>1 DEF Init, Typed, Decoding

LEMMA TypedStep == Typed /\ [Next]_vars => Typed'
<1> SUFFICES ASSUME Typed, [Next]_vars PROVE Typed'
  OBVIOUS
<1> USE DEF Typed
<1>0. Lines \in Nat /\ BytesAssumption
  BY StreamFacts, BytesAssumption
<1>s. stream' = stream /\ StreamOK'
  BY DEF Next, vars, StreamOK, EnumItem, ExtractSkip, ExtractFile, OtherLine,
         AllFile, AllNoTempFile, AllReleasedPath, AllOther, EndOfStream, Call
<1>b. AtBegin => at \in 1 .. Lines
  BY <1>0 DEF AtBegin
<1>1. CASE EnumItem
  <2>1. at \in 1 .. Lines /\ StreamOK
    BY <1>1, <1>b DEF EnumItem
  <2> DEFINE f == Measured(at)
  <2>2. f \in Files /\ f.stop + 1 \in Nat \ {0}
    BY <2>1, FileFacts DEF Measured
  <2>3. Size(f) \in Nat
    BY <2>1, SizeIsNat
  <2>4. [file |-> f, filesize |-> Size(f)] \in Items
    BY <2>2, <2>3 DEF Items
  <2>5. CASE Tell(f.stop) > part_end
    BY <1>1, <1>s, <2>5 DEF EnumItem, Return
  <2>6. CASE ~(Tell(f.stop) > part_end)
    <3>1. /\ items' = Append(items, [file |-> f, filesize |-> Size(f)])
          /\ nparts' = nparts + 1 /\ at' = f.stop + 1 /\ op' = op
          /\ UNCHANGED <<index, files, rest>>
      BY <1>1, <2>6 DEF EnumItem
    <3> HIDE DEF f
    <3>2. items' \in Seq(Items)
      BY <2>4, <3>1
    <3> QED BY <1>s, <2>2, <3>1, <3>2
  <2> QED BY <2>5, <2>6
<1>2. CASE ExtractSkip
  <2>1. at \in 1 .. Lines /\ StreamOK
    BY <1>2, <1>b DEF ExtractSkip
  <2>2. Stop(at, FALSE) + 1 \in Nat \ {0}
    BY <2>1, FileFacts
  <2>3. UNCHANGED <<op, items, index, files, rest>>
    BY <1>2 DEF ExtractSkip
  <2>4. nparts' \in Nat
    BY <1>2 DEF ExtractSkip
  <2>5. at' = Stop(at, FALSE) + 1
    BY <1>2 DEF ExtractSkip
  <2>6. at' \in Nat \ {0}
    BY <2>2, <2>5
  <2> QED BY <1>s, <2>3, <2>4, <2>6
<1>3. CASE ExtractFile
  <2>1. at \in 1 .. Lines /\ StreamOK
    BY <1>3, <1>b DEF ExtractFile
  <2>2. Written(at) \in Files
    BY <2>1, FileFacts DEF Written
  <2> QED BY <1>3, <1>s, <2>2 DEF ExtractFile, Return
<1>4. CASE OtherLine
  BY <1>4, <1>s DEF OtherLine, Return
<1>5. CASE AllFile
  <2>1. at \in 1 .. Lines /\ StreamOK
    BY <1>5, <1>b DEF AllFile
  <2>2. Written(at) \in Files /\ Stop(at, TRUE) + 1 \in Nat \ {0}
    BY <2>1, FileFacts DEF Written
  <2>3. op = "uudecode_all" /\ UNCHANGED <<op, items, index, rest>>
    BY <1>5 DEF AllFile
  <2>4. nparts' \in Nat
    BY <1>5 DEF AllFile
  <2>6. at' = Stop(at, TRUE) + 1
    BY <1>5 DEF AllFile
  <2>7. at' \in Nat \ {0}
    BY <2>2, <2>6
  <2>5. files' \in Seq(Files)
    BY <1>5, <2>2, AppendProperties DEF AllFile
  <2> QED BY <1>s, <2>3, <2>4, <2>5, <2>7
<1>6. CASE AllNoTempFile
  BY <1>6, <1>s DEF AllNoTempFile
<1>7. CASE AllReleasedPath
  BY <1>7, <1>s DEF AllReleasedPath
<1>8. CASE AllOther
  BY <1>8, <1>s DEF AllOther
<1>9. CASE EndOfStream
  BY <1>9, <1>s DEF EndOfStream, Return
<1>10. CASE Call
  BY <1>0, <1>10, <1>s DEF Call
<1>11. CASE UNCHANGED vars
  BY <1>11, <1>s DEF vars
<1> QED BY <1>1, <1>2, <1>3, <1>4, <1>5, <1>6, <1>7, <1>8, <1>9, <1>10, <1>11 DEF Next

LEMMA DecodingStep == Typed /\ Decoding /\ [Next]_vars => Decoding'
<1> SUFFICES ASSUME Typed, Decoding, [Next]_vars PROVE Decoding'
  OBVIOUS
<1>0. /\ StreamOK /\ Lines \in Nat /\ at \in Nat \ {0} /\ nparts \in Nat
      /\ files \in Seq(Files) /\ rest \in Seq(Nat)
      /\ \A k \in DOMAIN files : files[k].begin \in Nat /\ files[k].stop \in Nat
  <2>1. files \in Seq(Files)
    BY DEF Typed
  <2>2. \A k \in DOMAIN files : files[k] \in Files
    BY <2>1, LenProperties
  <2> QED BY <2>2, StreamFacts DEF Typed, Files
<1>s. stream' = stream
  BY DEF Next, vars, EnumItem, ExtractSkip, ExtractFile, OtherLine,
         AllFile, AllNoTempFile, AllReleasedPath, AllOther, EndOfStream, Call
<1>l. Lines' = Lines /\ \A b, w : (Stop(b, w)' = Stop(b, w)) /\ (Written(b)' = Written(b))
  BY <1>s DEF Lines, Stop, Written, Ends
<1>b. AtBegin => at \in 1 .. Lines
  BY <1>0 DEF AtBegin
<1>1. CASE EnumItem \/ ExtractSkip \/ ExtractFile \/ OtherLine \/ AllReleasedPath
  BY <1>1 DEF Decoding, EnumItem, ExtractSkip, ExtractFile, OtherLine, AllReleasedPath, Return
<1>2. CASE AllFile
  <2>1. /\ at \in 1 .. Lines /\ op = "uudecode_all" /\ op' = op
        /\ files' = Append(files, Written(at)) /\ at' = Stop(at, TRUE) + 1
        /\ nparts' = nparts + 1 /\ rest' = rest
    BY <1>2, <1>b DEF AllFile
  <2> DEFINE s == Stop(at, TRUE)
             f == Written(at)
  <2>2. /\ f \in Files /\ f.begin = at /\ f.stop = s /\ s \in Nat /\ s > at
    BY <1>0, <2>1, FileFacts DEF Written
  <2>w. f = Written(f.begin)
    BY <2>2
  <2> HIDE DEF s, f
  <2>3. /\ files' = Append(files, f) /\ at' = s + 1
    BY <2>1 DEF s, f
  <2>d. /\ nparts = Len(files)
        /\ \A k \in DOMAIN rest : /\ rest[k] \in 1 .. Lines /\ rest[k] < at
                                  /\ k > 1 => rest[k - 1] < rest[k]
        /\ \A k \in DOMAIN files :
             /\ files[k].begin \in 1 .. Lines /\ files[k] = Written(files[k].begin)
             /\ files[k].stop < at
             /\ TakenBy(k) \cap NotTaken = {}
             /\ k > 1 => files[k - 1].stop < files[k].begin
        /\ \A j \in 1 .. Lines : j < at =>
             \/ j \in NotTaken
             \/ \E k \in DOMAIN files : j \in TakenBy(k)
             \/ stream[j] = "begin"
    BY <2>1 DEF Decoding
  <2>n. PICK n : n = Len(files)
    OBVIOUS
  <2>4. /\ n \in Nat /\ DOMAIN files = 1 .. n
        /\ DOMAIN files' = 1 .. n + 1 /\ Len(files') = n + 1
        /\ \A k \in 1 .. n : files'[k] = files[k]
        /\ files'[n + 1] = f
    BY <1>0, <2>2, <2>3, <2>n, AppendProperties, LenProperties
  <2>5. NotTaken' = NotTaken /\ \A k \in 1 .. n : TakenBy(k)' = TakenBy(k)
    BY <2>1, <2>4 DEF NotTaken, TakenBy
  <2>6. \A k \in 1 .. n + 1 :
          k \in 1 .. n \/ k = n + 1
    BY <2>4
  <2>7. TakenBy(n + 1)' = at .. s
    BY <2>2, <2>4 DEF TakenBy
  <2>8. (at .. s) \cap NotTaken = {}
    BY <1>0, <2>2, <2>d DEF NotTaken
  <2>9. ASSUME NEW k \in DOMAIN files'
        PROVE  /\ files'[k].begin \in 1 .. Lines /\ files'[k] = Written(files'[k].begin)
               /\ files'[k].stop < at'
               /\ TakenBy(k)' \cap NotTaken' = {}
               /\ k > 1 => files'[k - 1].stop < files'[k].begin
    <3>1. CASE k \in 1 .. n
      <4>1. files[k].stop < at' /\ files[k].stop \in Nat
        BY <1>0, <2>2, <2>3, <2>4, <2>d, <3>1
      <4>2. k > 1 => k - 1 \in 1 .. n
        BY <2>4, <3>1
      <4> QED BY <2>4, <2>5, <2>d, <3>1, <4>1, <4>2
    <3>2. CASE k = n + 1
      <4>1. k > 1 => k - 1 = n /\ n \in 1 .. n
        BY <2>4, <3>2
      <4>2. s < at' /\ files'[k] = f
        BY <2>2, <2>3, <2>4, <3>2
      <4>3. k > 1 => files'[k - 1].stop < at
        BY <2>4, <2>d, <4>1
      <4> QED BY <2>1, <2>2, <2>w, <2>5, <2>7, <2>8, <3>2, <4>2, <4>3
    <3> QED BY <2>4, <2>6, <3>1, <3>2
  <2>10. ASSUME NEW j \in 1 .. Lines, j < at'
         PROVE  \/ j \in NotTaken'
                \/ \E k \in DOMAIN files' : j \in TakenBy(k)'
                \/ stream[j] = "begin"
    <3>1. CASE j < at
      <4>1. DOMAIN files \subseteq DOMAIN files'
        BY <2>4
      <4> QED BY <2>4, <2>5, <2>d, <3>1, <4>1
    <3>2. CASE ~(j < at)
      <4>1. j \in at .. s
        BY <1>0, <2>2, <2>3, <2>10, <3>2
      <4>2. n + 1 \in DOMAIN files'
        BY <2>4
      <4> QED BY <2>7, <4>1, <4>2
    <3> QED BY <3>1, <3>2
  <2>11. \A k \in DOMAIN rest : rest[k] < at'
    BY <1>0, <2>2, <2>3, <2>d
  <2>12. nparts' = Len(files')
    BY <2>1, <2>4, <2>n, <2>d
  <2> QED BY <1>l, <1>s, <2>1, <2>d, <2>9, <2>10, <2>11, <2>12 DEF Decoding
<1>3. CASE AllNoTempFile
  <2>1. /\ at \in 1 .. Lines /\ op = "uudecode_all" /\ op' = op /\ stream[at] = "begin"
        /\ files' = files /\ at' = at + 1 /\ nparts' = nparts /\ rest' = rest
    BY <1>3, <1>b DEF AllNoTempFile, AtBegin
  <2>2. NotTaken' = NotTaken /\ \A k : TakenBy(k)' = TakenBy(k)
    BY <2>1 DEF NotTaken, TakenBy
  <2>3. /\ \A k \in DOMAIN rest : rest[k] < at => rest[k] < at'
        /\ \A k \in DOMAIN files : files[k].stop < at => files[k].stop < at'
        /\ \A j \in 1 .. Lines : j < at' => j < at \/ j = at
    BY <1>0, <2>1
  <2> QED BY <1>l, <1>s, <2>1, <2>2, <2>3 DEF Decoding
<1>4. CASE AllOther
  <2>1. /\ at \in 1 .. Lines /\ op = "uudecode_all" /\ op' = op
        /\ files' = files /\ at' = at + 1 /\ nparts' = nparts
        /\ rest' = Append(rest, at)
    BY <1>0, <1>4 DEF AllOther, AtOther
  <2>d. /\ nparts = Len(files)
        /\ \A k \in DOMAIN rest : /\ rest[k] \in 1 .. Lines /\ rest[k] < at
                                  /\ k > 1 => rest[k - 1] < rest[k]
        /\ \A k \in DOMAIN files :
             /\ files[k].begin \in 1 .. Lines /\ files[k] = Written(files[k].begin)
             /\ files[k].stop < at
             /\ TakenBy(k) \cap NotTaken = {}
             /\ k > 1 => files[k - 1].stop < files[k].begin
        /\ \A j \in 1 .. Lines : j < at =>
             \/ j \in NotTaken
             \/ \E k \in DOMAIN files : j \in TakenBy(k)
             \/ stream[j] = "begin"
    BY <2>1 DEF Decoding
  <2>2. /\ Len(rest) \in Nat /\ DOMAIN rest = 1 .. Len(rest)
        /\ DOMAIN rest' = 1 .. Len(rest) + 1
        /\ \A k \in 1 .. Len(rest) : rest'[k] = rest[k]
        /\ rest'[Len(rest) + 1] = at
    BY <1>0, <2>1, AppendProperties, LenProperties
  <2>3. NotTaken' = NotTaken \cup {at} /\ \A k : TakenBy(k)' = TakenBy(k)
    <3>1. ASSUME NEW x PROVE x \in NotTaken' <=> x \in NotTaken \cup {at}
      <4>1. x \in NotTaken' <=> \E k \in 1 .. Len(rest) + 1 : x = rest'[k]
        BY <2>2 DEF NotTaken
      <4>2. x \in NotTaken <=> \E k \in 1 .. Len(rest) : x = rest[k]
        BY <2>2 DEF NotTaken
      <4>3. \A k \in 1 .. Len(rest) + 1 : k \in 1 .. Len(rest) \/ k = Len(rest) + 1
        BY <2>2
      <4>4. \A k \in 1 .. Len(rest) : k \in 1 .. Len(rest) + 1
        BY <2>2
      <4>5. Len(rest) + 1 \in 1 .. Len(rest) + 1
        BY <2>2
      <4> QED BY <2>2, <4>1, <4>2, <4>3, <4>4, <4>5
    <3>2. \A k : TakenBy(k)' = TakenBy(k)
      BY <2>1 DEF TakenBy
    <3> QED BY <3>1, <3>2
  <2>4. ASSUME NEW k \in DOMAIN rest'
        PROVE  /\ rest'[k] \in 1 .. Lines /\ rest'[k] < at'
               /\ k > 1 => rest'[k - 1] < rest'[k]
    <3>1. CASE k \in 1 .. Len(rest)
      <4>1. k > 1 => k - 1 \in 1 .. Len(rest)
        BY <2>2, <3>1
      <4>2. rest[k] < at' /\ rest'[k] = rest[k]
        BY <1>0, <2>1, <2>2, <2>d, <3>1
      <4> QED BY <2>2, <2>d, <3>1, <4>1, <4>2
    <3>2. CASE k = Len(rest) + 1
      <4>1. k > 1 => k - 1 = Len(rest) /\ Len(rest) \in 1 .. Len(rest)
        BY <2>2, <3>2
      <4>2. rest'[k] = at /\ at < at'
        BY <1>0, <2>1, <2>2, <3>2
      <4> QED BY <2>1, <2>2, <2>d, <4>1, <4>2
    <3>3. k \in 1 .. Len(rest) \/ k = Len(rest) + 1
      BY <2>2
    <3> QED BY <3>1, <3>2, <3>3
  <2>5. ASSUME NEW k \in DOMAIN files
        PROVE  files[k].stop < at' /\ at \notin TakenBy(k)
    BY <1>0, <2>1, <2>d DEF TakenBy
  <2>6. \A j \in 1 .. Lines : j < at' => j < at \/ j = at
    BY <1>0, <2>1
  <2> QED BY <1>l, <1>s, <2>1, <2>d, <2>3, <2>4, <2>5, <2>6 DEF Decoding
<1>5. CASE EndOfStream
  <2>1. /\ UNCHANGED <<stream, files, rest, at, nparts>> /\ at > Lines
        /\ op' \in {"uudecode_all", "decoded"} => op \in {"uudecode_all", "decoded"}
    BY <1>5 DEF EndOfStream, Return
  <2>2. NotTaken' = NotTaken /\ \A k : TakenBy(k)' = TakenBy(k)
    BY <2>1 DEF NotTaken, TakenBy
  <2> QED BY <1>l, <2>1, <2>2 DEF Decoding
<1>6. CASE Call
  <2>1. at' = 1 /\ nparts' = 0 /\ files' = <<>> /\ rest' = <<>> /\ op' # "decoded"
    BY <1>6 DEF Call, Typed
  <2>2. \A j \in 1 .. Lines : ~(j < 1)
    BY <1>0
  <2>3. DOMAIN files' = {} /\ DOMAIN rest' = {} /\ Len(files') = 0
    BY <2>1
  <2> QED BY <1>l, <2>1, <2>2, <2>3 DEF Decoding
<1>7. CASE UNCHANGED vars
  <2>1. NotTaken' = NotTaken /\ \A k : TakenBy(k)' = TakenBy(k)
    BY <1>7 DEF vars, NotTaken, TakenBy
  <2> QED BY <1>7, <1>l, <2>1 DEF Decoding, vars
<1> QED BY <1>1, <1>2, <1>3, <1>4, <1>5, <1>6, <1>7 DEF Next

LEMMA EveryLine == Typed /\ Decoding => EveryLineDecodedOnce
<1> SUFFICES ASSUME Typed, Decoding, op = "decoded" PROVE EveryLineDecodedOnce
  BY DEF EveryLineDecodedOnce
<1>0. StreamOK /\ Lines \in Nat /\ at \in Nat /\ at > Lines
  BY StreamFacts DEF Typed, Decoding
<1>1. \A j \in 1 .. Lines : j < at
  BY <1>0
<1>2. ASSUME NEW k \in DOMAIN files, NEW end \in 1 .. Lines, Complete(files[k].begin, end)
      PROVE  files[k].stop = end
  <2>1. files[k].begin \in 1 .. Lines /\ files[k] = Written(files[k].begin)
    BY DEF Decoding
  <2>2. files[k].stop = Stop(files[k].begin, TRUE)
    BY <1>0, <2>1, FileFacts DEF Written
  <2> QED BY <1>0, <1>2, <2>1, <2>2, CompleteStops
<1> QED BY <1>1, <1>2 DEF Decoding, EveryLineDecodedOnce, TakenBy, NotTaken

(* mailparse_uudecode_all takes every line once.                           *)
THEOREM LinesDecodedOnce == Spec => []EveryLineDecodedOnce
<1>1. Init => Typed /\ Decoding
  BY InitTyped
<1>2. Typed /\ Decoding /\ [Next]_vars => (Typed /\ Decoding)'
  BY TypedStep, DecodingStep
<1>3. Typed /\ Decoding => EveryLineDecodedOnce
  BY EveryLine
<1> QED BY <1>1, <1>2, <1>3, PTL DEF Spec
-----------------------------------------------------------------------------
(* Lines between two others that a call leaves behind: no file begins on   *)
(* them, and none of them is where it finds the end of the part.           *)
Passed(from, to) ==
  \A j \in 1 .. Lines : from < j /\ j < to => stream[j] # "begin"
                                              /\ ~(Tell(j) >= part_end)
Until(k) == IF k = 1 THEN 0 ELSE items[k - 1].file.stop

(* Each file that is listed is the next one behind the file before it.     *)
Listing ==
  \A k \in DOMAIN items :
    LET begin == items[k].file.begin IN
    /\ begin \in 1 .. Lines /\ stream[begin] = "begin"
    /\ items[k].file = Measured(begin)
    /\ items[k].filesize = Size(Measured(begin))
    /\ Until(k) < begin
    /\ Passed(Until(k), begin)
Listed ==
  op = "enum_uue" =>
    /\ nparts = Len(items)
    /\ Until(nparts + 1) < at
    /\ Passed(Until(nparts + 1), at)

(* What is extracted is looked for in front of the file that is listed.    *)
Extracting ==
  /\ op = "extract_uue" =>
       /\ nparts <= index
       /\ nparts < Len(items) => /\ Until(nparts + 1) < at
                                 /\ at <= items[nparts + 1].file.begin
  /\ op = "extracted" /\ index < Len(items) =>
       files = <<Written(items[index + 1].file.begin)>>

ExtractInv == Typed /\ Listing /\ Listed /\ Extracting

LEMMA ItemFacts ==
  ASSUME Typed, Listing
  PROVE  /\ Len(items) \in Nat /\ DOMAIN items = 1 .. Len(items)
         /\ \A k \in DOMAIN items :
              /\ items[k].file.begin \in 1 .. Lines
              /\ items[k].file.begin \in Nat /\ items[k].file.begin >= 1
              /\ items[k].file.stop = Stop(items[k].file.begin, FALSE)
              /\ items[k].file.stop \in Nat
         /\ \A k \in 1 .. Len(items) + 1 : Until(k) \in Nat
<1>0. StreamOK /\ items \in Seq(Items)
  BY DEF Typed
<1>1. /\ Len(items) \in Nat /\ DOMAIN items = 1 .. Len(items)
  BY <1>0, LenProperties
<1>2. ASSUME NEW k \in DOMAIN items
      PROVE  /\ items[k].file.begin \in 1 .. Lines
             /\ items[k].file.begin \in Nat /\ items[k].file.begin >= 1
             /\ items[k].file.stop = Stop(items[k].file.begin, FALSE)
             /\ items[k].file.stop \in Nat
  <2>1. items[k].file.begin \in 1 .. Lines /\ items[k].file = Measured(items[k].file.begin)
    BY DEF Listing
  <2>2. items[k].file.begin \in Nat /\ items[k].file.begin >= 1
    BY <1>0, <2>1, StreamFacts
  <2> QED BY <1>0, <2>1, <2>2, FileFacts DEF Measured
<1>3. ASSUME NEW k \in 1 .. Len(items) + 1 PROVE Until(k) \in Nat
  <2>1. k # 1 => k - 1 \in DOMAIN items
    BY <1>1
  <2> QED BY <1>2, <2>1 DEF Until
<1> QED BY <1>1, <1>2, <1>3

LEMMA InitExtract == Init => ExtractInv
<1> SUFFICES ASSUME Init PROVE ExtractInv
  OBVIOUS
<1>1. Typed
  BY InitTyped
<1>2. items = <<>> /\ nparts = 0 /\ at = 1 /\ op = "enum_uue"
  BY DEF Init
<1>3. Listing
  BY <1>2 DEF Listing
<1>4. Lines \in Nat
  BY <1>1, StreamFacts DEF Typed
<1>5. Until(nparts + 1) = 0
  BY <1>2 DEF Until
<1>6. Passed(0, 1)
  BY <1>4 DEF Passed
<1>7. Listed
  BY <1>2, <1>5, <1>6 DEF Listed
<1>8. Extracting
  BY <1>2 DEF Extracting
<1> QED BY <1>1, <1>3, <1>7, <1>8 DEF ExtractInv

LEMMA Still ==
  ASSUME [Next]_vars
  PROVE  /\ stream' = stream /\ part_end' = part_end /\ Lines' = Lines
         /\ ~EnumItem => items' = items /\ overran' = overran
  BY DEF Next, vars, EnumItem, ExtractSkip, ExtractFile, OtherLine, Lines,
         AllFile, AllNoTempFile, AllReleasedPath, AllOther, EndOfStream, Call

LEMMA SamePassed ==
  ASSUME [Next]_vars
  PROVE  /\ \A a, b : Passed(a, b)' <=> Passed(a, b)
         /\ \A b : Measured(b)' = Measured(b) /\ Written(b)' = Written(b)
         /\ \A b : Size(Measured(b))' = Size(Measured(b))
         /\ \A b : Stop(b, FALSE)' = Stop(b, FALSE)
<1>1. stream' = stream /\ part_end' = part_end /\ Lines' = Lines
  BY Still
<1>2. \A b : Stop(b, FALSE)' = Stop(b, FALSE) /\ Stop(b, TRUE)' = Stop(b, TRUE)
  BY <1>1 DEF Stop, Ends
<1>3. \A b : Measured(b)' = Measured(b) /\ Written(b)' = Written(b)
  BY <1>2 DEF Measured, Written
<1>4. \A f : Size(f)' = Size(f)
  BY <1>1, Zenon DEF Size, MapThenSumSet, MapThenFoldSet
<1>5. \A j : Tell(j)' = Tell(j)
  BY <1>1 DEF Tell, Pos
<1>6. \A a, b : Passed(a, b)' <=> Passed(a, b)
  BY <1>1, <1>5 DEF Passed
<1> QED BY <1>2, <1>3, <1>4, <1>6

LEMMA ListingStep == ExtractInv /\ [Next]_vars => Listing' /\ Listed'
<1> SUFFICES ASSUME ExtractInv, [Next]_vars PROVE Listing' /\ Listed'
  OBVIOUS
<1>0. Typed /\ Listing /\ Listed /\ StreamOK /\ Lines \in Nat /\ at \in Nat /\ nparts \in Nat
  BY StreamFacts DEF ExtractInv, Typed
<1>i. /\ Len(items) \in Nat /\ DOMAIN items = 1 .. Len(items)
      /\ \A k \in 1 .. Len(items) + 1 : Until(k) \in Nat
  BY <1>0, ItemFacts
<1>s. /\ stream' = stream /\ part_end' = part_end /\ Lines' = Lines
      /\ \A a, b : Passed(a, b)' <=> Passed(a, b)
      /\ \A b : Measured(b)' = Measured(b) /\ Size(Measured(b))' = Size(Measured(b))
  BY Still, SamePassed
<1>f. items' = items => \A k : Until(k)' = Until(k)
  BY DEF Until
<1>k. items' = items => Listing'
  <2> SUFFICES ASSUME items' = items, NEW k \in DOMAIN items
               PROVE  LET begin == items[k].file.begin IN
                      /\ begin \in 1 .. Lines /\ stream[begin] = "begin"
                      /\ items[k].file = Measured(begin)'
                      /\ items[k].filesize = Size(Measured(begin))'
                      /\ Until(k)' < begin
                      /\ Passed(Until(k), begin)'
    BY <1>s DEF Listing
  <2>1. Until(k)' = Until(k)
    BY <1>f
  <2> QED BY <1>0, <1>s, <2>1 DEF Listing
<1>1. CASE EnumItem /\ op' = op
  <2> DEFINE f == Measured(at)
             n == nparts
             item == [file |-> f, filesize |-> Size(f)]
  <2>1. /\ op = "enum_uue" /\ at \in 1 .. Lines /\ stream[at] = "begin"
        /\ op' # "enum_uue" \/
           (items' = Append(items, item) /\ n' = n + 1 /\ at' = f.stop + 1)
    <3>1. op = "enum_uue" /\ AtBegin
      BY <1>1 DEF EnumItem
    <3>2. Tell(f.stop) > part_end => op' = "listed"
      BY <1>1, <3>1 DEF EnumItem, Return
    <3>3. ~(Tell(f.stop) > part_end) =>
             (items' = Append(items, item) /\ n' = n + 1 /\ at' = f.stop + 1)
      BY <1>1 DEF EnumItem
    <3>4. at \in 1 .. Lines /\ stream[at] = "begin"
      BY <1>0, <3>1 DEF AtBegin, Typed
    <3> QED BY <3>1, <3>2, <3>3, <3>4
  <2>2. items' = Append(items, item) /\ n' = n + 1 /\ at' = f.stop + 1
    BY <1>1, <2>1
  <2>3. f.begin = at /\ f.stop \in Nat /\ f.stop > at /\ f = Measured(f.begin)
    BY <1>0, <2>1, FileFacts DEF Measured
  <2>4. n = Len(items) /\ Until(n + 1) < at /\ Passed(Until(n + 1), at)
    BY <1>0, <2>1 DEF Listed
  <2>5. PICK m : m = n
    OBVIOUS
  <2>6. item.file = f /\ item.filesize = Size(f)
    OBVIOUS
  <2>7. items \in Seq(Items) /\ item \in Items
    <3>1. f \in Files /\ Size(f) \in Nat
      BY <1>0, <2>1, FileFacts, SizeIsNat DEF Measured
    <3> QED BY <1>0, <3>1 DEF Items, Typed
  <2>8. PICK new : new = item
    OBVIOUS
  <2>h. PICK g : g = f
    OBVIOUS
  <2>9. /\ m \in Nat /\ DOMAIN items' = 1 .. m + 1 /\ DOMAIN items = 1 .. m
        /\ \A k \in 1 .. m : items'[k] = items[k]
        /\ items'[m + 1] = new
    <3> HIDE DEF item, f, n
    <3> QED BY <1>i, <2>2, <2>4, <2>5, <2>7, <2>8, AppendProperties
  <2>10. \A k \in 1 .. m + 1 : Until(k)' = Until(k)
    <3>1. \A k \in 1 .. m + 1 : k # 1 => k - 1 \in 1 .. m
      BY <2>9
    <3> QED BY <2>9, <3>1 DEF Until
  <2>11. Until(m + 2)' = g.stop
    <3>1. m + 2 # 1 /\ (m + 2) - 1 = m + 1
      BY <2>9
    <3> QED BY <2>6, <2>8, <2>9, <2>h, <3>1 DEF Until
  <2> HIDE DEF f, item
  <2>12. Listing'
    <3> SUFFICES ASSUME NEW k \in 1 .. m + 1
                 PROVE  (LET begin == items[k].file.begin IN
                         /\ begin \in 1 .. Lines /\ stream[begin] = "begin"
                         /\ items[k].file = Measured(begin)
                         /\ items[k].filesize = Size(Measured(begin))
                         /\ Until(k) < begin
                         /\ Passed(Until(k), begin))'
      BY <2>9 DEF Listing
    <3>1. CASE k \in 1 .. m
      <4>1. /\ items'[k] = items[k] /\ Until(k)' = Until(k)
        BY <2>9, <2>10, <3>1
      <4>2. PICK b : b = items[k].file.begin
        OBVIOUS
      <4>3. /\ b \in 1 .. Lines /\ stream[b] = "begin"
            /\ items[k].file = Measured(b) /\ items[k].filesize = Size(Measured(b))
            /\ Until(k) < b /\ Passed(Until(k), b)
        BY <1>0, <2>9, <3>1, <4>2 DEF Listing
      <4>4. items'[k].file.begin = b
        BY <4>1, <4>2
      <4>5. Passed(Until(k), b)'
        <5>1. Passed(Until(k), b)' = Passed(Until(k), b)
          BY <1>s, <4>1
        <5> QED BY <4>3, <5>1
      <4>6. Measured(b)' = Measured(b) /\ Size(Measured(b))' = Size(Measured(b))
        BY <1>s
      <4> QED BY <1>s, <4>1, <4>3, <4>4, <4>5, <4>6
    <3>2. CASE k = m + 1
      <4>1. /\ items'[k].file = g /\ items'[k].filesize = Size(g) /\ Until(k)' = Until(m + 1)
        BY <2>6, <2>8, <2>9, <2>10, <2>h, <3>2
      <4>2. PICK b : b = at
        OBVIOUS
      <4>3. /\ b \in 1 .. Lines /\ stream[b] = "begin" /\ g.begin = b /\ g = Measured(b)
            /\ Until(m + 1) < b /\ Passed(Until(m + 1), b)
        BY <2>1, <2>3, <2>4, <2>5, <2>h, <4>2
      <4>4. items'[k].file.begin = b
        BY <4>1, <4>3
      <4>5. Passed(Until(k), b)'
        <5>1. Passed(Until(k), b)' = Passed(Until(m + 1), b)
          BY <1>s, <4>1
        <5> QED BY <4>3, <5>1
      <4>6. Measured(b)' = Measured(b) /\ Size(Measured(b))' = Size(Measured(b))
        BY <1>s
      <4> QED BY <1>s, <4>1, <4>3, <4>4, <4>5, <4>6
    <3>3. k \in 1 .. m \/ k = m + 1
      BY <2>9
    <3> QED BY <3>1, <3>2, <3>3
  <2>13. Listed'
    <3>1. Len(items') = m + 1 /\ nparts' = m + 1 /\ nparts' + 1 = m + 2
      BY <2>2, <2>5, <2>7, <2>9, AppendProperties
    <3>2. PICK to : to = at'
      OBVIOUS
    <3>3. to = g.stop + 1 /\ g.stop \in Nat
      BY <2>2, <2>3, <2>h, <3>2
    <3>4. Passed(g.stop, to)
      BY <1>0, <3>3 DEF Passed
    <3>5. Passed(Until(nparts + 1), at)'
      <4>1. Passed(Until(nparts + 1), at)' = Passed(g.stop, to)'
        BY <2>11, <3>1, <3>2
      <4> QED BY <1>s, <3>4, <4>1
    <3>6. Until(nparts + 1)' < at'
      BY <2>11, <3>1, <3>2, <3>3
    <3> QED BY <3>1, <3>5, <3>6 DEF Listed
  <2> QED BY <2>12, <2>13
<1>2. CASE OtherLine /\ op' = "enum_uue"
  <2>1. /\ op = "enum_uue" /\ at \in 1 .. Lines /\ stream[at] # "begin" /\ at' = at + 1
        /\ ~(Tell(at) >= part_end) /\ items' = items /\ nparts' = nparts
    <3>1. op = "enum_uue" \/ op = "extract_uue"
      BY <1>2 DEF OtherLine
    <3>2. ~(Tell(at) >= part_end) /\ op' = op
      BY <1>2, <3>1 DEF OtherLine, Return
    <3> QED BY <1>0, <1>2, <3>2 DEF OtherLine, AtOther, Typed
  <2>2. PICK m : m = nparts + 1
    OBVIOUS
  <2>3. Until(m)' = Until(m) /\ Until(m) \in Nat
    BY <1>f, <1>i, <1>0, <2>1, <2>2 DEF Listed
  <2>4. PICK to : to = at'
    OBVIOUS
  <2>5. nparts = Len(items) /\ Until(m) < at /\ Passed(Until(m), at)
    BY <1>0, <2>1, <2>2 DEF Listed
  <2>6. Passed(Until(m), to)
    BY <1>0, <2>1, <2>4, <2>5, <2>3 DEF Passed
  <2>7. (nparts + 1)' = m
    BY <2>1, <2>2
  <2>8. Passed(Until(nparts + 1), at)'
    <3>1. Passed(Until(nparts + 1), at)' = Passed(Until(m), to)'
      BY <2>3, <2>4, <2>7
    <3> QED BY <1>s, <2>3, <2>6, <3>1
  <2>9. Until(nparts + 1)' < at'
    BY <1>0, <2>1, <2>3, <2>5, <2>7
  <2> QED BY <1>k, <2>1, <2>5, <2>8, <2>9 DEF Listed
<1>3. CASE EnumItem /\ op' # op
  <2>1. items' = items /\ op' = "listed"
    BY <1>3 DEF EnumItem, Return
  <2> QED BY <1>k, <2>1 DEF Listed
<1>4. CASE ~EnumItem /\ op' # "enum_uue"
  BY <1>4, <1>k, Still DEF Listed
<1>5. CASE UNCHANGED vars
  <2>1. items' = items /\ op' = op /\ nparts' = nparts /\ at' = at
    BY <1>5 DEF vars
  <2>2. Until(nparts + 1)' = Until(nparts + 1)
    BY <1>f, <2>1
  <2>3. Passed(Until(nparts + 1), at)' = Passed(Until(nparts + 1), at)
    BY <1>s, <2>1, <2>2
  <2> QED BY <1>0, <1>k, <2>1, <2>2, <2>3 DEF Listed
<1>6. op' = "enum_uue" => EnumItem \/ OtherLine \/ UNCHANGED vars
  BY DEF Next, vars, ExtractSkip, ExtractFile, AllFile, AllNoTempFile,
         AllReleasedPath, AllOther, EndOfStream, Call, Return
<1> QED BY <1>1, <1>2, <1>3, <1>4, <1>5, <1>6
LEMMA ExtractingStep == ExtractInv /\ [Next]_vars => Extracting'
<1> SUFFICES ASSUME ExtractInv, [Next]_vars PROVE Extracting'
  OBVIOUS
<1>0. /\ Typed /\ Listing /\ Extracting /\ StreamOK /\ Lines \in Nat
      /\ at \in Nat /\ nparts \in Nat /\ index \in Nat
  BY StreamFacts DEF ExtractInv, Typed
<1>i. /\ Len(items) \in Nat /\ DOMAIN items = 1 .. Len(items)
      /\ \A k \in DOMAIN items : /\ items[k].file.begin \in Nat
                                 /\ items[k].file.begin >= 1
                                 /\ items[k].file.stop = Stop(items[k].file.begin, FALSE)
                                 /\ items[k].file.stop \in Nat
      /\ \A k \in 1 .. Len(items) + 1 : Until(k) \in Nat
  BY <1>0, ItemFacts
<1>s. /\ stream' = stream /\ Lines' = Lines
      /\ \A b : Written(b)' = Written(b)
      /\ ~EnumItem => items' = items
  BY Still, SamePassed
<1>f. items' = items => \A k : Until(k)' = Until(k)
  BY DEF Until
(* the file that is listed there is the next one                           *)
<1>n. ASSUME op = "extract_uue", nparts < Len(items)
      PROVE  /\ nparts <= index
             /\ AtBegin => at = items[nparts + 1].file.begin
             /\ AtOther => at < items[nparts + 1].file.begin /\ ~(Tell(at) >= part_end)
             /\ at <= Lines
  <2>1. nparts + 1 \in DOMAIN items
    BY <1>0, <1>i, <1>n
  <2> DEFINE b == items[nparts + 1].file.begin
             a == Until(nparts + 1)
  <2>2. /\ b \in 1 .. Lines /\ stream[b] = "begin" /\ a < b /\ Passed(a, b)
    BY <1>0, <2>1 DEF Listing
  <2>3. nparts <= index /\ a < at /\ at <= b
    BY <1>0, <1>n DEF Extracting
  <2>4. a \in Nat
    BY <1>0, <1>i, <1>n
  <2> HIDE DEF a, b
  <2>5. at < b => at \in 1 .. Lines /\ stream[at] # "begin" /\ ~(Tell(at) >= part_end)
    BY <1>0, <2>2, <2>3, <2>4 DEF Passed
  <2>6. AtBegin => at = b
    BY <1>0, <2>2, <2>3, <2>5 DEF AtBegin
  <2>7. AtOther => at < b
    BY <1>0, <2>2, <2>3 DEF AtOther
  <2> QED BY <1>0, <2>2, <2>3, <2>5, <2>6, <2>7 DEF b
<1>1. CASE EnumItem
  <2>1. op' \in {"enum_uue", "listed"}
    BY <1>1 DEF EnumItem, Return
  <2> QED BY <2>1 DEF Extracting
<1>2. CASE ExtractSkip
  <2>1. /\ op = "extract_uue" /\ AtBegin /\ nparts # index /\ op' = op
        /\ nparts' = nparts + 1 /\ index' = index /\ items' = items
    BY <1>2 DEF ExtractSkip
  <2>2. at' = Stop(at, FALSE) + 1
    BY <1>2 DEF ExtractSkip
  <2>3. nparts' <= index
    BY <1>0, <2>1 DEF Extracting
  <2>4. ASSUME nparts + 1 < Len(items)
        PROVE  Until(nparts + 2) < at' /\ at' <= items[nparts + 2].file.begin
    <3>1. at = items[nparts + 1].file.begin /\ nparts + 1 \in DOMAIN items
          /\ nparts + 2 \in DOMAIN items
      BY <1>0, <1>i, <1>n, <2>1, <2>4
    <3>2. Until(nparts + 2) = items[nparts + 1].file.stop
      <4>1. nparts + 2 # 1 /\ (nparts + 2) - 1 = nparts + 1
        BY <1>0
      <4> QED BY <4>1 DEF Until
    <3>3. Until(nparts + 2) = Stop(at, FALSE) /\ Until(nparts + 2) \in Nat
      BY <1>i, <3>1, <3>2
    <3>4. Until(nparts + 2) < items[nparts + 2].file.begin
      BY <1>0, <3>1 DEF Listing
    <3>5. items[nparts + 2].file.begin \in Nat
      BY <1>0, <1>i, <3>1
    <3>6. PICK stop : stop = Stop(at, FALSE)
      OBVIOUS
    <3>7. at' = stop + 1 /\ Until(nparts + 2) = stop
      BY <2>2, <3>3, <3>6
    <3> QED BY <3>3, <3>4, <3>5, <3>7
  <2>5. PICK m : m = nparts + 2
    OBVIOUS
  <2>6. nparts' + 1 = m /\ nparts' \in Nat
    BY <1>0, <2>1, <2>5
  <2>7. Until(nparts + 1)' = Until(m)
    <3>1. Until(m)' = Until(m)
      BY <1>f, <2>1
    <3>2. Until(nparts + 1)' = Until(m)'
      BY <2>6
    <3> QED BY <3>1, <3>2
  <2> QED BY <2>1, <2>3, <2>4, <2>5, <2>6, <2>7 DEF Extracting
<1>3. CASE ExtractFile
  <2>1. /\ op = "extract_uue" /\ AtBegin /\ nparts = index /\ op' = "extracted"
        /\ index' = index /\ items' = items /\ files' = <<Written(at)>>
    BY <1>3 DEF ExtractFile, Return
  <2>2. ASSUME index < Len(items) PROVE at = items[index + 1].file.begin
    BY <1>n, <2>1, <2>2
  <2>3. ASSUME index < Len(items)
        PROVE  files' = <<Written(items[index + 1].file.begin)>>
    BY <2>1, <2>2, <2>3
  <2>4. PICK b : b = items[index + 1].file.begin
    OBVIOUS
  <2>5. Written(items[index + 1].file.begin)' = Written(b)
    BY <1>s, <2>1, <2>4
  <2> QED BY <2>1, <2>3, <2>4, <2>5 DEF Extracting
<1>4. CASE OtherLine
  <2>0. /\ op \in {"enum_uue", "extract_uue"} /\ AtOther /\ at' = at + 1
        /\ nparts' = nparts /\ index' = index /\ items' = items
        /\ Tell(at) >= part_end => Return
        /\ ~(Tell(at) >= part_end) => op' = op
    BY <1>4 DEF OtherLine
  <2>1. CASE op = "enum_uue"
    BY <2>0, <2>1 DEF Extracting, Return
  <2>2. CASE op = "extract_uue"
    <3>1. CASE nparts < Len(items)
      <4>1. at < items[nparts + 1].file.begin /\ ~(Tell(at) >= part_end)
        BY <1>n, <2>0, <2>2, <3>1
      <4>2. op' = op
        BY <2>0, <4>1
      <4>3. Until(nparts + 1) < at /\ nparts <= index
        BY <1>0, <2>2, <3>1 DEF Extracting
      <4>4. Until(nparts + 1) \in Nat /\ items[nparts + 1].file.begin \in Nat
        <5>1. nparts + 1 \in DOMAIN items
          BY <1>0, <1>i, <3>1
        <5>2. nparts + 1 \in 1 .. Len(items) + 1
          BY <1>0, <1>i, <3>1
        <5> QED BY <1>i, <5>1, <5>2
      <4>5. Until(nparts + 1) < at' /\ at' <= items[nparts + 1].file.begin
        BY <1>0, <2>0, <4>1, <4>3, <4>4
      <4>6. PICK m : m = nparts + 1
        OBVIOUS
      <4>7. Until(nparts + 1)' = Until(nparts + 1)
        BY <1>f, <2>0, <4>6
      <4> QED BY <2>0, <2>2, <4>2, <4>3, <4>5, <4>7 DEF Extracting
    <3>2. CASE ~(nparts < Len(items))
      <4>1. nparts <= index
        BY <1>0, <2>2 DEF Extracting
      <4>2. ~(index < Len(items))
        BY <1>0, <1>i, <3>2, <4>1
      <4>3. items' = items /\ index' = index /\ nparts' = nparts
        BY <2>0
      <4> QED BY <3>2, <4>1, <4>2, <4>3 DEF Extracting
    <3> QED BY <3>1, <3>2
  <2> QED BY <2>0, <2>1, <2>2
<1>5. CASE EndOfStream
  <2>1. /\ at > Lines /\ nparts' = nparts /\ index' = index /\ items' = items
        /\ op' = "extracted" => op = "extract_uue"
        /\ op' # "extract_uue"
    BY <1>5 DEF EndOfStream, Return
  <2>2. op = "extract_uue" => nparts <= index /\ ~(nparts < Len(items))
    BY <1>0, <1>n, <2>1 DEF Extracting
  <2>3. op = "extract_uue" => ~(index < Len(items))
    BY <1>0, <1>i, <2>2
  <2> QED BY <2>1, <2>3 DEF Extracting
<1>6. CASE Call
  <2>1. /\ at' = 1 /\ nparts' = 0 /\ items' = items
        /\ op' \in {"extract_uue", "uudecode_all"}
        /\ op' = "extract_uue" => index' \in Nat
    BY <1>6, BytesAssumption DEF Call
  <2>2. Len(items) > 0 => items[1].file.begin >= 1
    <3>1. Len(items) > 0 => 1 \in DOMAIN items
      BY <1>i
    <3> QED BY <1>0, <1>i, <3>1
  <2>3. PICK m : m = 0 + 1
    OBVIOUS
  <2>4. m = 1 /\ Until(m)' = 0
    BY <2>3 DEF Until
  <2>5. Until(nparts + 1)' = Until(m)'
    BY <2>1, <2>3
  <2>6. 0 + 1 = 1 /\ 0 < 1
    OBVIOUS
  <2> QED BY <2>1, <2>2, <2>4, <2>5, <2>6 DEF Extracting
<1>7. CASE AllFile \/ AllNoTempFile \/ AllReleasedPath \/ AllOther
  <2>1. op' \in {"uudecode_all", "crashed"}
    BY <1>7 DEF AllFile, AllNoTempFile, AllReleasedPath, AllOther
  <2> QED BY <2>1 DEF Extracting
<1>8. CASE UNCHANGED vars
  <2>1. /\ op' = op /\ nparts' = nparts /\ index' = index /\ items' = items
        /\ at' = at /\ files' = files
    BY <1>8 DEF vars
  <2>2. Until(nparts + 1)' = Until(nparts + 1)
    BY <2>1 DEF Until
  <2>3. PICK b : b = items[index + 1].file.begin
    OBVIOUS
  <2>4. Written(items[index + 1].file.begin)' = Written(b)
    BY <1>s, <2>1, <2>3
  <2> QED BY <1>0, <2>1, <2>2, <2>3, <2>4 DEF Extracting
<1> QED BY <1>1, <1>2, <1>3, <1>4, <1>5, <1>6, <1>7, <1>8 DEF Next

LEMMA WhatIsListed == ExtractInv => ExtractsWhatIsListed
<1> SUFFICES ASSUME ExtractInv, op = "extracted", index < Len(items)
             PROVE  ExtractsWhatIsListed
  BY DEF ExtractsWhatIsListed
<1>0. Typed /\ Listing /\ Extracting /\ StreamOK /\ Lines \in Nat /\ index \in Nat
  BY StreamFacts DEF ExtractInv, Typed
<1>1. index + 1 \in DOMAIN items
  BY <1>0, ItemFacts
<1> DEFINE listed == items[index + 1]
           b      == listed.file.begin
           s      == Stop(b, TRUE)
           t      == Stop(b, FALSE)
<1>2. b \in 1 .. Lines /\ listed.file = Measured(b) /\ listed.filesize = Size(Measured(b))
  BY <1>0, <1>1 DEF Listing
<1>3. files = <<Written(b)>>
  BY <1>0 DEF Extracting
<1>4. /\ s \in b + 1 .. Lines + 1 /\ t \in b + 1 .. Lines + 1
      /\ s = Lines + 1 \/ (s \in b + 1 .. Lines /\ (stream[s] = "blank" \/ Ends(b, s)))
      /\ t = Lines + 1 \/ (t \in b + 1 .. Lines /\ stream[t] = "blank")
      /\ \A j \in b + 1 .. Lines : (stream[j] = "blank" \/ Ends(b, j)) => s <= j
      /\ \A j \in b + 1 .. Lines : stream[j] = "blank" => t <= j
  BY <1>0, <1>2, StopFacts
<1>5. Written(b) = File(b, s) /\ Measured(b) = File(b, t)
  BY DEF Written, Measured
<1> HIDE DEF s, t
<1>6. b \in Nat /\ s \in Nat /\ t \in Nat
  BY <1>0, <1>2, <1>4
<1>7. s <= t
  BY <1>0, <1>4, <1>6
<1>8. s # t => Ends(b, s)
  BY <1>0, <1>4, <1>6, <1>7
<1>9. Size(File(b, s)) <= Size(File(b, t))
  BY <1>0, <1>2, <1>4, <1>7, SizeGrows
<1>10. /\ File(b, s).begin = b /\ File(b, s).stop = s /\ File(b, t).stop = t
  BY DEF File
<1>11. Len(files) = 1 /\ files[1] = File(b, s)
  BY <1>3, <1>5
<1> QED BY <1>2, <1>5, <1>7, <1>8, <1>9, <1>10, <1>11 DEF ExtractsWhatIsListed

(* extract_uue writes the file that enum_uue lists under its number.       *)
THEOREM ExtractedAsListed == Spec => []ExtractsWhatIsListed
<1>1. Init => ExtractInv
  BY InitExtract
<1>2. ExtractInv /\ [Next]_vars => ExtractInv'
  <2>1. ExtractInv /\ [Next]_vars => Typed' /\ Listing' /\ Listed' /\ Extracting'
    BY TypedStep, ListingStep, ExtractingStep DEF ExtractInv
  <2> QED BY <2>1 DEF ExtractInv
<1>3. ExtractInv => ExtractsWhatIsListed
  BY WhatIsListed
<1> QED BY <1>1, <1>2, <1>3, PTL DEF Spec
=============================================================================
