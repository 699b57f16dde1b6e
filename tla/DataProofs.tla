----------------------------- MODULE DataProofs -----------------------------
(* Facts about data that proofs need: induction over numbers, functions    *)
(* that are defined by recursion, folds and sums; and what the operators   *)
(* of Codec and Rfc822 keep, find and put together.                        *)
EXTENDS Codec, Rfc822, SequenceTheorems, FiniteSetTheorems,
        WellFoundedInduction, TLAPS

(* Induction over data, with sets and functions as parameters: the library *)
(* states it for operators, which cannot be given here.                    *)

(* A set of numbers that is not empty has a least element.                 *)
LEMMA Least ==
  ASSUME NEW S \in SUBSET Nat, S # {}
  PROVE  \E m \in S : \A n \in S : m <= n
<1>1. IsWellFoundedOn(OpToRel(<, Nat), Nat)
  BY NatLessThanWellFounded
<1>2. PICK m \in S : \A n \in S : ~(<<n, m>> \in OpToRel(<, Nat))
  BY <1>1, WFMin
<1>3. \A n \in S : ~(n < m)
  BY <1>2 DEF OpToRel
<1> QED BY <1>3

(* ... which Min chooses.                                                   *)
LEMMA MinFacts ==
  ASSUME NEW S \in SUBSET Nat, S # {}
  PROVE  Min(S) \in S /\ Min(S) \in Nat /\ \A n \in S : Min(S) <= n
<1>1. PICK m \in S : \A n \in S : m <= n
  BY Least
<1> QED BY <1>1 DEF Min

(* A function on 1 .. n is a sequence.                                      *)
LEMMA FunctionIsSeq ==
  ASSUME NEW n \in Nat, NEW S, NEW g \in [1 .. n -> S]
  PROVE  g \in Seq(S) /\ Len(g) = n
<1>1. g \in Seq(S)
  BY SeqDef
<1>2. Len(g) \in Nat /\ 1 .. n = 1 .. Len(g)
  <2>1. Len(g) \in Nat /\ DOMAIN g = 1 .. Len(g)
    BY <1>1, LenProperties
  <2> QED BY <2>1
<1> QED BY <1>1, <1>2

(* So a set of numbers is all numbers if it has 0 and with a number the    *)
(* next.                                                                   *)
LEMMA Induct ==
  ASSUME NEW S, 0 \in S, \A n \in Nat : n \in S => n + 1 \in S
  PROVE  Nat \subseteq S
<1> DEFINE Bad == {n \in Nat : n \notin S}
<1> SUFFICES ASSUME Bad # {} PROVE FALSE
  OBVIOUS
<1>1. PICK m \in Bad : \A n \in Bad : m <= n
  BY Least
<1>2. m # 0 /\ m - 1 \in Nat /\ m - 1 < m
  BY <1>1
<1>3. m - 1 \in S
  BY <1>1, <1>2
<1> QED BY <1>1, <1>2, <1>3

(* F says what a function g has to be at d; it looks at g only where the   *)
(* rank r is less, and ranks go up to M.                                   *)
RankedBy(F, r, M, D, T) ==
  /\ T # {}
  /\ M \in Nat /\ r \in [D -> Nat] /\ \A d \in D : r[d] <= M
  /\ F \in [D -> [[D -> T] -> T]]
  /\ \A d \in D : \A g, h \in [D -> T] :
       (\A e \in D : r[e] < r[d] => g[e] = h[e]) => F[d][g] = F[d][h]

(* Then there is such a function ...                                       *)
LEMMA Recursion ==
  ASSUME NEW F, NEW r, NEW M, NEW D, NEW T, RankedBy(F, r, M, D, T)
  PROVE  \E g \in [D -> T] : \A d \in D : g[d] = F[d][g]
<1> USE DEF RankedBy
<1> DEFINE S == {n \in Nat : \E g \in [D -> T] :
                   \A d \in D : r[d] < n => g[d] = F[d][g]}
<1>1. 0 \in S
  <2>1. PICK t \in T : TRUE
    OBVIOUS
  <2>3. [d \in D |-> t] \in [D -> T]
    OBVIOUS
  <2>2. \A d \in D : ~(r[d] < 0)
    OBVIOUS
  <2> QED BY <2>2, <2>3
<1>2. ASSUME NEW n \in Nat, n \in S PROVE n + 1 \in S
  <2>1. PICK g \in [D -> T] : \A d \in D : r[d] < n => g[d] = F[d][g]
    BY <1>2
  <2> DEFINE h == [d \in D |-> F[d][g]]
  <2>2. h \in [D -> T] /\ \A d \in D : h[d] = F[d][g]
    OBVIOUS
  <2>3. \A d \in D : r[d] < n => g[d] = h[d]
    BY <2>1, <2>2
  <2> HIDE DEF h
  <2>4. ASSUME NEW d \in D, r[d] < n + 1 PROVE h[d] = F[d][h]
    <3>1. \A e \in D : r[e] < r[d] => r[e] < n
      BY <2>4
    <3>2. \A e \in D : r[e] < r[d] => g[e] = h[e]
      BY <2>3, <3>1
    <3>3. F[d][g] = F[d][h]
      BY <2>2, <3>2
    <3> QED BY <2>2, <3>3
  <2> QED BY <2>2, <2>4
<1>3. M + 1 \in S
  <2> HIDE DEF S
  <2> QED BY <1>1, <1>2, Induct
<1>4. PICK g \in [D -> T] : \A d \in D : r[d] < M + 1 => g[d] = F[d][g]
  BY <1>3
<1>5. \A d \in D : r[d] < M + 1
  OBVIOUS
<1> QED BY <1>4, <1>5

(* ... and only one.                                                       *)
LEMMA Unique ==
  ASSUME NEW D, NEW r \in [D -> Nat], NEW g, NEW h,
         \A d \in D : (\A e \in D : r[e] < r[d] => g[e] = h[e]) => g[d] = h[d]
  PROVE  \A d \in D : g[d] = h[d]
<1> DEFINE S == {n \in Nat : \A d \in D : r[d] < n => g[d] = h[d]}
<1>1. 0 \in S
  OBVIOUS
<1>2. ASSUME NEW n \in Nat, n \in S PROVE n + 1 \in S
  <2> SUFFICES ASSUME NEW d \in D, r[d] < n + 1 PROVE g[d] = h[d]
    OBVIOUS
  <2>1. \A e \in D : r[e] < r[d] => g[e] = h[e]
    BY <1>2
  <2> QED BY <2>1
<1>3. Nat \subseteq S
  <2> HIDE DEF S
  <2> QED BY <1>1, <1>2, Induct
<1>4. ASSUME NEW d \in D PROVE g[d] = h[d]
  <2>1. r[d] + 1 \in S /\ r[d] < r[d] + 1
    BY <1>3
  <2> QED BY <2>1
<1> QED BY <1>4

(* What holds at every place if it holds where it holds at all of less     *)
(* rank.                                                                   *)
Carried(D, r, g, P) ==
  /\ r \in [D -> Nat]
  /\ \A d \in D : (\A e \in D : r[e] < r[d] => g[e] \in P[e]) => g[d] \in P[d]

LEMMA Ranked ==
  ASSUME NEW D, NEW r, NEW g, NEW P, Carried(D, r, g, P)
  PROVE  \A d \in D : g[d] \in P[d]
<1> USE DEF Carried
<1> DEFINE S == {n \in Nat : \A d \in D : r[d] < n => g[d] \in P[d]}
<1>1. 0 \in S
  OBVIOUS
<1>2. ASSUME NEW n \in Nat, n \in S PROVE n + 1 \in S
  <2> SUFFICES ASSUME NEW d \in D, r[d] < n + 1 PROVE g[d] \in P[d]
    OBVIOUS
  <2>1. \A e \in D : r[e] < r[d] => g[e] \in P[e]
    BY <1>2
  <2> QED BY <2>1
<1>3. Nat \subseteq S
  <2> HIDE DEF S
  <2> QED BY <1>1, <1>2, Induct
<1>4. ASSUME NEW d \in D PROVE g[d] \in P[d]
  <2>1. r[d] + 1 \in S /\ r[d] < r[d] + 1
    BY <1>3
  <2> QED BY <2>1
<1> QED BY <1>4

-----------------------------------------------------------------------------
(* Folds.  h[S] takes step for the elements of S, from f on, in an order   *)
(* that c chooses: the last is c[S].                                       *)
Foldable(step, f, s, c, U, T, C) ==
  /\ IsFiniteSet(U)
  /\ step \in [T -> [C -> T]] /\ f \in T /\ s \in [U -> C]
  /\ \A S \in SUBSET U : S # {} => c[S] \in S
FoldedBy(h, step, f, s, c, U, T) ==
  /\ h \in [SUBSET U -> T]
  /\ h[{}] = f
  /\ \A S \in SUBSET U : S # {} => h[S] = step[h[S \ {c[S]}]][s[c[S]]]

LEMMA SizeFacts ==
  ASSUME NEW U, IsFiniteSet(U)
  PROVE  /\ [S \in SUBSET U |-> Cardinality(S)] \in [SUBSET U -> Nat]
         /\ Cardinality(U) \in Nat
         /\ \A S \in SUBSET U : /\ Cardinality(S) <= Cardinality(U)
                                /\ Cardinality(S) \in Nat
                                /\ \A x \in S : Cardinality(S \ {x}) < Cardinality(S)
<1>1. \A S \in SUBSET U : /\ IsFiniteSet(S) /\ Cardinality(S) \in Nat
                          /\ Cardinality(S) <= Cardinality(U)
  BY FS_Subset, FS_CardinalityType
<1>2. ASSUME NEW S \in SUBSET U, NEW x \in S
      PROVE  Cardinality(S \ {x}) < Cardinality(S)
  <2>1. Cardinality(S \ {x}) = Cardinality(S) - 1
    BY <1>1, FS_RemoveElement
  <2> QED BY <1>1, <2>1
<1> QED BY <1>1, <1>2, FS_CardinalityType

LEMMA FoldExists ==
  ASSUME NEW step, NEW f, NEW s, NEW c, NEW U, NEW T, NEW C,
         Foldable(step, f, s, c, U, T, C)
  PROVE  \E h : FoldedBy(h, step, f, s, c, U, T)
<1>0. /\ IsFiniteSet(U) /\ step \in [T -> [C -> T]] /\ f \in T /\ s \in [U -> C]
      /\ \A S \in SUBSET U : S # {} => c[S] \in S
  BY DEF Foldable
<1> DEFINE D == SUBSET U
           r == [S \in D |-> Cardinality(S)]
           F == [S \in D |-> [g \in [D -> T] |->
                   IF S = {} THEN f ELSE step[g[S \ {c[S]}]][s[c[S]]]]]
<1>1. /\ r \in [D -> Nat] /\ Cardinality(U) \in Nat
      /\ \A S \in D : r[S] <= Cardinality(U)
      /\ \A S \in D : \A x \in S : r[S \ {x}] < r[S]
  BY <1>0, SizeFacts
<1>2. F \in [D -> [[D -> T] -> T]]
  <2>1. ASSUME NEW S \in D, NEW g \in [D -> T], S # {}
        PROVE  step[g[S \ {c[S]}]][s[c[S]]] \in T
    <3>1. c[S] \in U /\ S \ {c[S]} \in D
      BY <1>0, <2>1
    <3>2. g[S \ {c[S]}] \in T /\ s[c[S]] \in C
      BY <1>0, <3>1
    <3>3. step[g[S \ {c[S]}]] \in [C -> T]
      BY <1>0, <3>2
    <3> QED BY <3>2, <3>3
  <2> QED BY <1>0, <2>1
<1>3. ASSUME NEW S \in D, NEW g \in [D -> T], NEW h \in [D -> T],
             \A e \in D : r[e] < r[S] => g[e] = h[e]
      PROVE  F[S][g] = F[S][h]
  <2>1. S # {} => c[S] \in S /\ S \ {c[S]} \in D
    BY <1>0
  <2>2. S # {} => g[S \ {c[S]}] = h[S \ {c[S]}]
    <3> HIDE DEF r
    <3> QED BY <1>1, <1>3, <2>1
  <2> QED BY <2>2
<1>4. \A S \in D, g \in [D -> T] :
        F[S][g] = IF S = {} THEN f ELSE step[g[S \ {c[S]}]][s[c[S]]]
  OBVIOUS
<1> HIDE DEF r, F
<1>5. PICK g \in [D -> T] : \A S \in D : g[S] = F[S][g]
  <2>0. T # {}
    BY <1>0
  <2>1. RankedBy(F, r, Cardinality(U), D, T)
    BY <1>1, <1>2, <1>3, <2>0 DEF RankedBy
  <2> HIDE DEF D
  <2> QED BY <2>1, Recursion
<1>6. FoldedBy(g, step, f, s, c, U, T)
  <2>1. {} \in D /\ \A S \in D : S # {} => g[S] = step[g[S \ {c[S]}]][s[c[S]]]
    BY <1>4, <1>5
  <2>2. g[{}] = f
    BY <1>4, <1>5, <2>1
  <2> QED BY <1>5, <2>1, <2>2 DEF FoldedBy
<1> QED BY <1>6

(* g adds up f over the parts of a finite set.                             *)
Summand(f, c, U) ==
  /\ IsFiniteSet(U) /\ f \in [U -> Nat]
  /\ \A S \in SUBSET U : S # {} => c[S] \in S
AddsUp(g, f, c, U) ==
  /\ g \in [SUBSET U -> Nat]
  /\ g[{}] = 0
  /\ \A S \in SUBSET U : S # {} => g[S] = f[c[S]] + g[S \ {c[S]}]
AnyOrder(g, f, U) ==
  \A S \in SUBSET U : \A x \in S : g[S] = f[x] + g[S \ {x}]

LEMMA SumExists ==
  ASSUME NEW f, NEW c, NEW U, Summand(f, c, U)
  PROVE  \E g : AddsUp(g, f, c, U)
<1> DEFINE step == [a \in Nat |-> [b \in Nat |-> b + a]]
<1>1. /\ IsFiniteSet(U) /\ f \in [U -> Nat] /\ step \in [Nat -> [Nat -> Nat]]
      /\ \A S \in SUBSET U : S # {} => c[S] \in S
      /\ \A a, b \in Nat : step[a][b] = b + a
  BY DEF Summand
<1> HIDE DEF step
<1>2. Foldable(step, 0, f, c, U, Nat, Nat)
  BY <1>1 DEF Foldable
<1>3. PICK g : FoldedBy(g, step, 0, f, c, U, Nat)
  BY <1>2, FoldExists
<1>4. AddsUp(g, f, c, U)
  <2>1. /\ g \in [SUBSET U -> Nat] /\ g[{}] = 0
        /\ \A S \in SUBSET U : S # {} => g[S] = step[g[S \ {c[S]}]][f[c[S]]]
    BY <1>3 DEF FoldedBy
  <2>2. ASSUME NEW S \in SUBSET U, S # {} PROVE g[S] = f[c[S]] + g[S \ {c[S]}]
    <3>1. S \ {c[S]} \in SUBSET U /\ c[S] \in U
      BY <1>1, <2>2
    <3> QED BY <1>1, <2>1, <2>2, <3>1
  <2> QED BY <2>1, <2>2 DEF AddsUp
<1> QED BY <1>4

(* The order does not matter.                                              *)
LEMMA SumAny ==
  ASSUME NEW f, NEW c, NEW U, NEW g, Summand(f, c, U), AddsUp(g, f, c, U)
  PROVE  AnyOrder(g, f, U)
<1>g. /\ IsFiniteSet(U) /\ f \in [U -> Nat] /\ g \in [SUBSET U -> Nat]
      /\ \A S \in SUBSET U : S # {} => c[S] \in S
      /\ \A S \in SUBSET U : S # {} => g[S] = f[c[S]] + g[S \ {c[S]}]
  BY DEF Summand, AddsUp
<1> DEFINE N == {n \in Nat : \A S \in SUBSET U : Cardinality(S) < n =>
                   \A x \in S : g[S] = f[x] + g[S \ {x}]}
<1>0. \A S \in SUBSET U : Cardinality(S) \in Nat
        /\ \A x \in S : Cardinality(S \ {x}) < Cardinality(S)
  BY <1>g, SizeFacts
<1>1. 0 \in N
  BY <1>0
<1>2. ASSUME NEW n \in Nat, n \in N PROVE n + 1 \in N
  <2> SUFFICES ASSUME NEW S \in SUBSET U, Cardinality(S) < n + 1, NEW x \in S
               PROVE  g[S] = f[x] + g[S \ {x}]
    OBVIOUS
  <2> DEFINE y == c[S]
  <2>1. y \in S /\ g[S] = f[y] + g[S \ {y}]
    BY <1>g
  <2>2. CASE x = y
    BY <2>1, <2>2
  <2>3. CASE x # y
    <3>1. /\ S \ {x} \in SUBSET U /\ S \ {y} \in SUBSET U
          /\ Cardinality(S \ {x}) < n /\ Cardinality(S \ {y}) < n
      BY <1>0, <2>1
    <3>2. x \in S \ {y} /\ y \in S \ {x}
      BY <2>1, <2>3
    <3>3. g[S \ {y}] = f[x] + g[(S \ {y}) \ {x}]
      BY <1>2, <3>1, <3>2
    <3>4. g[S \ {x}] = f[y] + g[(S \ {x}) \ {y}]
      BY <1>2, <3>1, <3>2
    <3>5. (S \ {x}) \ {y} = (S \ {y}) \ {x} /\ (S \ {x}) \ {y} \in SUBSET U
      OBVIOUS
    <3>6. f[x] \in Nat /\ f[y] \in Nat /\ g[(S \ {x}) \ {y}] \in Nat
      BY <1>g, <2>1, <3>5
    <3> DEFINE k == g[(S \ {x}) \ {y}]
    <3>7. \A a, b, d \in Nat : a + (b + d) = b + (a + d)
      OBVIOUS
    <3>8. g[S] = f[y] + (f[x] + k) /\ g[S \ {x}] = f[y] + k
      BY <2>1, <3>3, <3>4, <3>5
    <3> HIDE DEF y, k
    <3> QED BY <3>6, <3>7, <3>8 DEF k
  <2> QED BY <2>2, <2>3
<1>3. Nat \subseteq N
  <2> HIDE DEF N
  <2> QED BY <1>1, <1>2, Induct
<1>4. ASSUME NEW S \in SUBSET U, NEW x \in S PROVE g[S] = f[x] + g[S \ {x}]
  <2>1. Cardinality(S) + 1 \in N /\ Cardinality(S) < Cardinality(S) + 1
    BY <1>0, <1>3
  <2> QED BY <2>1
<1> QED BY <1>4 DEF AnyOrder

(* A part of a finite set does not add up to more than the set.            *)
LEMMA SumOfPart ==
  ASSUME NEW f, NEW c, NEW U, NEW g, Summand(f, c, U), AddsUp(g, f, c, U)
  PROVE  \A T \in SUBSET U : \A S \in SUBSET T : g[S] <= g[T]
<1>g. IsFiniteSet(U) /\ f \in [U -> Nat] /\ g \in [SUBSET U -> Nat]
  BY DEF Summand, AddsUp
<1>a. \A S \in SUBSET U : \A x \in S : g[S] = f[x] + g[S \ {x}]
  <2>1. AnyOrder(g, f, U)
    BY SumAny
  <2> QED BY <2>1 DEF AnyOrder
<1> DEFINE N == {n \in Nat : \A T \in SUBSET U : Cardinality(T) < n =>
                   \A S \in SUBSET T : g[S] <= g[T]}
<1>0. \A S \in SUBSET U : Cardinality(S) \in Nat
        /\ \A x \in S : Cardinality(S \ {x}) < Cardinality(S)
  BY <1>g, SizeFacts
<1>1. 0 \in N
  BY <1>0
<1>2. ASSUME NEW n \in Nat, n \in N PROVE n + 1 \in N
  <2> SUFFICES ASSUME NEW T \in SUBSET U, Cardinality(T) < n + 1,
                      NEW S \in SUBSET T
               PROVE  g[S] <= g[T]
    OBVIOUS
  <2>0. g[S] \in Nat /\ g[T] \in Nat
    BY <1>g
  <2>1. CASE S = T
    BY <2>0, <2>1
  <2>2. CASE S # T
    <3>1. PICK x \in T : x \notin S
      BY <2>2
    <3>2. T \ {x} \in SUBSET U /\ S \in SUBSET (T \ {x}) /\ Cardinality(T \ {x}) < n
      BY <1>0, <3>1
    <3>3. g[S] <= g[T \ {x}]
      BY <1>2, <3>2
    <3>4. g[T] = f[x] + g[T \ {x}] /\ f[x] \in Nat /\ g[T \ {x}] \in Nat
      BY <1>a, <1>g, <3>1, <3>2
    <3> QED BY <2>0, <3>3, <3>4
  <2> QED BY <2>1, <2>2
<1>3. Nat \subseteq N
  <2> HIDE DEF N
  <2> QED BY <1>1, <1>2, Induct
<1> QED
  <2> SUFFICES ASSUME NEW T \in SUBSET U, NEW S \in SUBSET T PROVE g[S] <= g[T]
    OBVIOUS
  <2>1. Cardinality(T) + 1 \in N /\ Cardinality(T) < Cardinality(T) + 1
    BY <1>0, <1>3
  <2> QED BY <2>1

-----------------------------------------------------------------------------
(* What the block decoders of mailparse_encoding.c keep: a text that comes *)
(* in blocks is decoded as in one piece, wherever it is cut, and a decoder *)
(* adds to what it has passed on without looking at it.                    *)

LEMMA MaxFacts ==
  ASSUME NEW n \in Nat, NEW S \in SUBSET (0 .. n), S # {}
  PROVE  Max(S) \in S /\ \A x \in S : x <= Max(S)
<1> DEFINE U == {n - x : x \in S}
<1>1. U \in SUBSET Nat /\ U # {}
  <2>1. \A x \in S : x \in Nat /\ n - x \in Nat
    OBVIOUS
  <2> QED BY <2>1
<1>2. PICK m \in U : \A k \in U : m <= k
  <2> HIDE DEF U
  <2> QED BY <1>1, Least
<1>3. PICK y \in S : m = n - y
  BY <1>2
<1>4. \A x \in S : n - y <= n - x /\ x \in Nat /\ y \in Nat
  BY <1>2, <1>3
<1>5. \A x \in S : y >= x
  BY <1>4
<1>6. Max(S) \in S /\ \A x \in S : Max(S) >= x
  BY <1>3, <1>5 DEF Max
<1> QED BY <1>4, <1>6

-----------------------------------------------------------------------------
(* A decoder between two bytes: what is in the cache has room for what is  *)
(* still to come.                                                          *)
CacheFits(encoding, f) ==
  IF encoding = "base64"
  THEN /\ f.state = 1 => f.cache <= 16515072
       /\ f.state = 2 => f.cache <= 16773120
       /\ f.state = 3 => f.cache <= 16777152
  ELSE f.state = 2 => IsHex(f.cache)
Coders == [state : 0 .. 3, cache : Nat, column : Nat, out : Seq(Byte)]
Decoder(encoding) == {f \in Coders : CacheFits(encoding, f)}

(* The filter with p in front of what it has passed on.                    *)
Led(p, f) == [f EXCEPT !.out = p \o @]

LEMMA DigitFacts ==
  \A c \in Byte : IsDigit(c) => DigitValue(c) \in 0 .. 63
<1> SUFFICES ASSUME NEW c \in Byte, IsDigit(c) PROVE \E n \in 0 .. 63 : Digit(n) = c
  BY DEF DigitValue
<1>1. CASE c \in 65 .. 90
  <2>1. c - 65 \in 0 .. 63 /\ c - 65 < 26 /\ (c - 65) + 65 = c
    BY <1>1
  <2> QED BY <2>1 DEF Digit
<1>2. CASE c \in 97 .. 122
  <2>1. c - 71 \in 0 .. 63 /\ c - 71 \in 26 .. 51 /\ (c - 71) + 71 = c
    BY <1>2
  <2> QED BY <2>1 DEF Digit
<1>3. CASE c \in 48 .. 57
  <2>1. c + 4 \in 0 .. 63 /\ c + 4 \in 52 .. 61 /\ (c + 4) - 4 = c
    BY <1>3
  <2> QED BY <2>1 DEF Digit
<1>4. Digit(62) = 43 /\ Digit(63) = 47
  BY DEF Digit
<1> QED BY <1>1, <1>2, <1>3, <1>4 DEF IsDigit

LEMMA EmitFacts ==
  ASSUME NEW f \in Coders, NEW p \in Seq(Byte), NEW bytes \in Seq(Byte)
  PROVE  /\ Emit(f, bytes) \in Coders
         /\ Emit(f, bytes).state = f.state /\ Emit(f, bytes).cache = f.cache
         /\ Emit(Led(p, f), bytes) = Led(p, Emit(f, bytes))
<1>1. /\ f.out \in Seq(Byte) /\ f.out \o bytes \in Seq(Byte)
      /\ p \o (f.out \o bytes) = (p \o f.out) \o bytes
  BY ConcatProperties, ConcatAssociative DEF Coders
<1>2. Emit(f, bytes) = [f EXCEPT !.out = f.out \o bytes]
  BY DEF Emit
<1> QED BY <1>1, <1>2 DEF Emit, Led, Coders

(* Status and cache have nothing to do with what has been passed on.       *)
At(f, s)        == [f EXCEPT !.state = s]
Holds(f, s, k)  == [f EXCEPT !.state = s, !.cache = k]

LEMMA LedFacts ==
  ASSUME NEW f \in Coders, NEW p \in Seq(Byte)
  PROVE  /\ Led(p, f) \in Coders /\ Led(p, f).out = p \o f.out
         /\ Led(p, f).state = f.state /\ Led(p, f).cache = f.cache
<1>1. f.out \in Seq(Byte) /\ p \o f.out \in Seq(Byte)
  BY ConcatProperties DEF Coders
<1>2. Led(p, f) = [f EXCEPT !.out = p \o f.out]
  BY DEF Led
<1> QED BY <1>1, <1>2 DEF Coders

LEMMA AtFacts ==
  ASSUME NEW f \in Coders, NEW p \in Seq(Byte), NEW s \in 0 .. 3
  PROVE  /\ At(f, s) \in Coders
         /\ At(f, s).state = s /\ At(f, s).cache = f.cache
         /\ At(Led(p, f), s) = Led(p, At(f, s))
<1>1. f.out \in Seq(Byte) /\ p \o f.out \in Seq(Byte)
  BY ConcatProperties DEF Coders
<1> QED BY <1>1 DEF Coders, At, Led

LEMMA HoldsFacts ==
  ASSUME NEW f \in Coders, NEW p \in Seq(Byte), NEW s \in 0 .. 3, NEW k \in Nat
  PROVE  /\ Holds(f, s, k) \in Coders
         /\ Holds(f, s, k).state = s /\ Holds(f, s, k).cache = k
         /\ Holds(Led(p, f), s, k) = Led(p, Holds(f, s, k))
<1>1. f.out \in Seq(Byte) /\ p \o f.out \in Seq(Byte)
  BY ConcatProperties DEF Coders
<1> QED BY <1>1 DEF Coders, Holds, Led

LEMMA DecodeBase64Facts ==
  ASSUME NEW f \in Decoder("base64"), NEW c \in Byte, NEW p \in Seq(Byte)
  PROVE  /\ DecodeBase64(f, c) \in Decoder("base64")
         /\ DecodeBase64(Led(p, f), c) = Led(p, DecodeBase64(f, c))
<1>1. f \in Coders /\ CacheFits("base64", f) /\ f.state \in 0 .. 3 /\ f.cache \in Nat
  BY DEF Decoder, Coders
<1>2. Led(p, f).state = f.state /\ Led(p, f).cache = f.cache
  BY <1>1, LedFacts
<1>3. CASE ~IsDigit(c)
  BY SMT, <1>3 DEF DecodeBase64
<1>4. CASE IsDigit(c) /\ f.state < 3
  <2> DEFINE v == DigitValue(c)
             k == (IF f.state = 0 THEN 0 ELSE f.cache) + v * Weight[f.state + 1]
  <2>1. v \in 0 .. 63 /\ f.state \in {0, 1, 2} /\ f.cache \in Nat
    BY SMT, <1>1, <1>4, DigitFacts
  <2>2. /\ f.state = 0 => k = v * 262144
        /\ f.state = 1 => k = f.cache + v * 4096
        /\ f.state = 2 => k = f.cache + v * 64
    <3> HIDE DEF v
    <3> QED BY SMT, <2>1 DEF Weight
  <2>4. /\ DecodeBase64(f, c) = Holds(f, f.state + 1, k)
        /\ DecodeBase64(Led(p, f), c)
             = Holds(Led(p, f), f.state + 1, k)
    BY SMT, <1>2, <1>4 DEF DecodeBase64, Holds
  <2> HIDE DEF v, k
  <2>3. /\ f.state = 1 => f.cache <= 16515072
        /\ f.state = 2 => f.cache <= 16773120
    BY SMT, <1>1 DEF CacheFits
  <2>5. /\ k \in Nat
        /\ f.state = 0 => k <= 16515072
        /\ f.state = 1 => k <= 16773120
        /\ f.state = 2 => k <= 16777152
    BY SMT, <2>1, <2>2, <2>3
  <2> DEFINE t == f.state + 1
             g == Holds(f, t, k)
  <2>6. t \in 0 .. 3 /\ k \in Nat
    BY SMT, <2>1, <2>5
  <2> HIDE DEF t
  <2>7. /\ g \in Coders /\ g.state = t /\ g.cache = k
        /\ Holds(Led(p, f), t, k) = Led(p, g)
    <3>1. f.out \in Seq(Byte) /\ p \o f.out \in Seq(Byte)
      BY <1>1, ConcatProperties DEF Coders
    <3>2. g \in Coders /\ g.state = t /\ g.cache = k
      BY <1>1, <2>6 DEF Coders, Holds
    <3> QED BY <1>1, <2>6, <3>1, <3>2 DEF Coders, Holds, Led
  <2> HIDE DEF g
  <2>8. CacheFits("base64", g)
    BY SMT, <2>1, <2>5, <2>7 DEF CacheFits, t
  <2> QED BY SMT, <2>4, <2>7, <2>8 DEF Decoder, g, t
<1>5. CASE IsDigit(c) /\ ~(f.state < 3)
  <2> DEFINE v == DigitValue(c)
             group == f.cache + v
             bytes == <<group \div 65536, (group \div 256) % 256, group % 256>>
  <2>1. f.state = 3 /\ v \in 0 .. 63 /\ f.cache \in Nat
    BY SMT, <1>1, <1>5, DigitFacts
  <2>2. f.cache <= 16777152
    BY SMT, <1>1, <2>1 DEF CacheFits
  <2>3. /\ DecodeBase64(f, c) = At(Emit(f, bytes), 0)
        /\ DecodeBase64(Led(p, f), c) = At(Emit(Led(p, f), bytes), 0)
    BY SMT, <1>2, <1>5, <2>1 DEF DecodeBase64, At
  <2> HIDE DEF v
  <2>4. bytes \in Seq(Byte)
    <3> HIDE DEF bytes
    <3>1. group \in Nat /\ group <= 16777215
      BY SMT, <2>1, <2>2
    <3> HIDE DEF group
    <3>2. /\ group \div 65536 \in 0 .. 255 /\ (group \div 256) % 256 \in 0 .. 255
          /\ group % 256 \in 0 .. 255
      BY SMT, <3>1
    <3> QED BY SMT, <3>2 DEF Byte, bytes
  <2> HIDE DEF group, bytes
  <2> DEFINE g == Emit(f, bytes)
  <2>5. g \in Coders /\ Emit(Led(p, f), bytes) = Led(p, g)
    BY <1>1, <2>4, EmitFacts
  <2> HIDE DEF g
  <2>6. /\ At(Led(p, g), 0) = Led(p, At(g, 0))
        /\ At(g, 0) \in Coders /\ At(g, 0).state = 0
    BY <2>5, AtFacts
  <2> QED BY SMT, <2>3, <2>5, <2>6 DEF Decoder, CacheFits, g
<1> QED BY SMT, <1>3, <1>4, <1>5

(* A decoder that passes bytes on and goes to a state without a cache.     *)
Passes(f, s, bytes) == At(Emit(f, bytes), s)

LEMMA PassesFacts ==
  ASSUME NEW f \in Coders, NEW p \in Seq(Byte), NEW s \in 0 .. 3,
         NEW bytes \in Seq(Byte)
  PROVE  /\ Passes(f, s, bytes) \in Coders /\ Passes(f, s, bytes).state = s
         /\ Passes(Led(p, f), s, bytes) = Led(p, Passes(f, s, bytes))
<1> DEFINE g == Emit(f, bytes)
<1>1. g \in Coders /\ Emit(Led(p, f), bytes) = Led(p, g)
  BY EmitFacts
<1> HIDE DEF g
<1>2. At(g, s) \in Coders /\ At(g, s).state = s /\ At(Led(p, g), s) = Led(p, At(g, s))
  BY <1>1, AtFacts
<1> QED BY <1>1, <1>2 DEF Passes, g

LEMMA DecodeQuotedFacts ==
  ASSUME NEW f \in Decoder("quoted-printable"), NEW c \in Byte, NEW p \in Seq(Byte)
  PROVE  /\ DecodeQuoted(f, c) \in Decoder("quoted-printable")
         /\ DecodeQuoted(Led(p, f), c) = Led(p, DecodeQuoted(f, c))
<1>1. /\ f \in Coders /\ f.state \in 0 .. 3 /\ f.cache \in Nat
      /\ f.state = 2 => IsHex(f.cache)
  BY DEF Decoder, Coders, CacheFits
<1>2. Led(p, f).state = f.state /\ Led(p, f).cache = f.cache
  BY <1>1, LedFacts
<1>3. ASSUME NEW s \in {0, 1, 3}, NEW bytes \in Seq(Byte),
             DecodeQuoted(f, c) = Passes(f, s, bytes),
             DecodeQuoted(Led(p, f), c) = Passes(Led(p, f), s, bytes)
      PROVE  /\ DecodeQuoted(f, c) \in Decoder("quoted-printable")
             /\ DecodeQuoted(Led(p, f), c) = Led(p, DecodeQuoted(f, c))
  <2>1. s \in 0 .. 3
    OBVIOUS
  <2>2. /\ Passes(f, s, bytes) \in Coders /\ Passes(f, s, bytes).state = s
        /\ Passes(Led(p, f), s, bytes) = Led(p, Passes(f, s, bytes))
    BY <1>1, <2>1, PassesFacts
  <2> QED BY <1>3, <2>2 DEF Decoder, CacheFits
<1>4. ASSUME NEW s \in {0, 1, 3},
             DecodeQuoted(f, c) = At(f, s),
             DecodeQuoted(Led(p, f), c) = At(Led(p, f), s)
      PROVE  /\ DecodeQuoted(f, c) \in Decoder("quoted-printable")
             /\ DecodeQuoted(Led(p, f), c) = Led(p, DecodeQuoted(f, c))
  <2>1. s \in 0 .. 3
    OBVIOUS
  <2>2. At(f, s) \in Coders /\ At(f, s).state = s /\ At(Led(p, f), s) = Led(p, At(f, s))
    BY <1>1, <2>1, AtFacts
  <2> QED BY <1>4, <2>2 DEF Decoder, CacheFits
<1>5. IsHex(c) => c \notin {CR, LF}
  BY SMT DEF IsHex, CR, LF
<1>6. EQ \in Byte /\ c \in Nat
  BY SMT DEF EQ, Byte
<1>7. CASE f.state = 1
  <2>1. CASE IsHex(c)
    <3>1. /\ DecodeQuoted(f, c) = Holds(f, 2, c)
          /\ DecodeQuoted(Led(p, f), c) = Holds(Led(p, f), 2, c)
      BY <1>2, <1>5, <1>7, <2>1 DEF DecodeQuoted, Holds
    <3>2. /\ Holds(f, 2, c) \in Coders
          /\ Holds(f, 2, c).state = 2 /\ Holds(f, 2, c).cache = c
          /\ Holds(Led(p, f), 2, c) = Led(p, Holds(f, 2, c))
      BY <1>1, <1>6, HoldsFacts
    <3> QED BY <2>1, <3>1, <3>2 DEF Decoder, CacheFits
  <2>2. CASE c = CR
    <3>1. /\ DecodeQuoted(f, c) = At(f, 3)
          /\ DecodeQuoted(Led(p, f), c) = At(Led(p, f), 3)
      BY <1>2, <1>5, <1>7, <2>2 DEF DecodeQuoted, At, CR, LF
    <3> QED BY <3>1, <1>4
  <2>3. CASE c = LF
    <3>1. /\ DecodeQuoted(f, c) = At(f, 0)
          /\ DecodeQuoted(Led(p, f), c) = At(Led(p, f), 0)
      BY <1>2, <1>5, <1>7, <2>3 DEF DecodeQuoted, At, CR, LF
    <3> QED BY <3>1, <1>4
  <2>4. CASE ~IsHex(c) /\ c \notin {CR, LF}
    <3>1. <<EQ, c>> \in Seq(Byte)
      BY <1>6
    <3>2. /\ DecodeQuoted(f, c) = Passes(f, 0, <<EQ, c>>)
          /\ DecodeQuoted(Led(p, f), c) = Passes(Led(p, f), 0, <<EQ, c>>)
      BY <1>2, <1>7, <2>4 DEF DecodeQuoted, At, Passes
    <3> QED BY <3>1, <3>2, <1>3
  <2> QED BY <2>1, <2>2, <2>3, <2>4
<1>8. CASE f.state = 2
  <2>1. CASE IsHex(c)
    <3> DEFINE b == HexValue(f.cache) * 16 + HexValue(c)
    <3>1. ASSUME NEW h, IsHex(h)
          PROVE  HexValue(h) \in 0 .. 15
      BY SMT, <3>1 DEF IsHex, HexValue
    <3>2. HexValue(f.cache) \in 0 .. 15 /\ HexValue(c) \in 0 .. 15
      BY <3>1, <2>1, <1>1, <1>8
    <3>3. \A x, y \in 0 .. 15 : x * 16 + y \in 0 .. 255
      BY SMT
    <3>6. HexValue(f.cache) * 16 + HexValue(c) \in 0 .. 255
      BY <3>2, <3>3
    <3>7. b \in Byte
      BY <3>6 DEF Byte
    <3> HIDE DEF b
    <3>4. <<b>> \in Seq(Byte)
      BY <3>7
    <3>5. /\ DecodeQuoted(f, c) = Passes(f, 0, <<b>>)
          /\ DecodeQuoted(Led(p, f), c) = Passes(Led(p, f), 0, <<b>>)
      BY <1>2, <1>8, <2>1 DEF DecodeQuoted, At, Passes, b
    <3> QED BY <3>4, <3>5, <1>3
  <2>2. CASE ~IsHex(c)
    <3>1. f.cache \in Byte
      BY SMT, <1>1, <1>8 DEF IsHex, Byte
    <3>2. <<EQ, f.cache, c>> \in Seq(Byte)
      BY <3>1, <1>6
    <3>3. /\ DecodeQuoted(f, c) = Passes(f, 0, <<EQ, f.cache, c>>)
          /\ DecodeQuoted(Led(p, f), c) = Passes(Led(p, f), 0, <<EQ, f.cache, c>>)
      BY <1>2, <1>8, <2>2 DEF DecodeQuoted, At, Passes
    <3> QED BY <3>2, <3>3, <1>3
  <2> QED BY <2>1, <2>2
<1>9. CASE f.state = 3
  <2> DEFINE bytes == IF c = LF THEN << >> ELSE <<c>>
  <2>1. bytes \in Seq(Byte)
    OBVIOUS
  <2>2. /\ DecodeQuoted(f, c) = Passes(f, 0, bytes)
        /\ DecodeQuoted(Led(p, f), c) = Passes(Led(p, f), 0, bytes)
    BY <1>2, <1>9 DEF DecodeQuoted, At, Passes
  <2> HIDE DEF bytes
  <2> QED BY <2>1, <2>2, <1>3
<1>10. CASE f.state = 0 /\ c = EQ
  <2>1. /\ DecodeQuoted(f, c) = At(f, 1)
        /\ DecodeQuoted(Led(p, f), c) = At(Led(p, f), 1)
    BY <1>2, <1>10 DEF DecodeQuoted, At
  <2> QED BY <2>1, <1>4
<1>11. CASE f.state = 0 /\ c # EQ
  <2>1. /\ DecodeQuoted(f, c) = Emit(f, <<c>>)
        /\ DecodeQuoted(Led(p, f), c) = Emit(Led(p, f), <<c>>)
    BY <1>2, <1>11 DEF DecodeQuoted
  <2>2. <<c>> \in Seq(Byte)
    OBVIOUS
  <2>3. /\ Emit(f, <<c>>) \in Coders
        /\ Emit(f, <<c>>).state = f.state
        /\ Emit(Led(p, f), <<c>>) = Led(p, Emit(f, <<c>>))
    BY <1>1, <2>2, EmitFacts
  <2> QED BY <1>11, <2>1, <2>3 DEF Decoder, CacheFits
<1> QED BY <1>1, <1>7, <1>8, <1>9, <1>10, <1>11

LEMMA DecodeByteFacts ==
  ASSUME NEW encoding \in {"base64", "quoted-printable"},
         NEW f \in Decoder(encoding), NEW c \in Byte, NEW p \in Seq(Byte)
  PROVE  /\ DecodeByte(encoding, f, c) \in Decoder(encoding)
         /\ DecodeByte(encoding, Led(p, f), c) = Led(p, DecodeByte(encoding, f, c))
  BY DecodeBase64Facts, DecodeQuotedFacts DEF DecodeByte

LEMMA MaxOfPositions ==
  ASSUME NEW n \in Nat, NEW S \in SUBSET (1 .. n), S # {}
  PROVE  Max(S) \in S /\ \A x \in S : x <= Max(S)
<1>1. S \in SUBSET (0 .. n)
  OBVIOUS
<1> QED BY <1>1, MaxFacts

(* A text is fed byte by byte: step[x][b] is what comes of the filter x, h  *)
(* the fold over the positions of the text, g the filters one after another.*)
Feeds(step, f, s, h, g, T) ==
  /\ h \in [SUBSET DOMAIN s -> T] /\ h[{}] = f
  /\ \A S \in SUBSET DOMAIN s :
       S # {} => h[S] = step[h[S \ {Max(S)}]][s[Max(S)]]
  /\ g \in [0 .. Len(s) -> T] /\ g[0] = f
  /\ \A i \in 1 .. Len(s) : g[i] = step[g[i - 1]][s[i]]
  /\ h[DOMAIN s] = g[Len(s)]

LEMMA FeedExists ==
  ASSUME NEW T, NEW step \in [T -> [Byte -> T]], NEW f \in T, NEW s \in Seq(Byte)
  PROVE  \E h, g : Feeds(step, f, s, h, g, T)
<1> DEFINE U == DOMAIN s
           c == [S \in SUBSET U |-> Max(S)]
<1>0. Len(s) \in Nat /\ s \in [1 .. Len(s) -> Byte] /\ DOMAIN s = 1 .. Len(s)
  BY LenProperties
<1>1. U = 1 .. Len(s) /\ Len(s) \in Nat /\ s \in [U -> Byte] /\ IsFiniteSet(U)
  <2>1. IsFiniteSet(1 .. Len(s))
    BY <1>0, FS_Interval
  <2> QED BY <1>0, <2>1
<1>2. \A S \in SUBSET U : S # {} => c[S] = Max(S) /\ c[S] \in S
  BY <1>1, MaxOfPositions
<1> HIDE DEF c, U
<1>3. Foldable(step, f, s, c, U, T, Byte)
  BY <1>1, <1>2 DEF Foldable
<1>4. PICK h : FoldedBy(h, step, f, s, c, U, T)
  BY <1>3, FoldExists
<1>5. h \in [SUBSET U -> T] /\ h[{}] = f
  BY <1>4 DEF FoldedBy
<1>6. \A S \in SUBSET U : S # {} => h[S] = step[h[S \ {Max(S)}]][s[Max(S)]]
  BY <1>2, <1>4 DEF FoldedBy
<1> DEFINE g == [i \in 0 .. Len(s) |-> h[1 .. i]]
<1>7. \A i \in 0 .. Len(s) : 1 .. i \in SUBSET U
  BY <1>1
<1>8. g \in [0 .. Len(s) -> T]
  BY <1>5, <1>7
<1>9. g[0] = f
  <2>1. 1 .. 0 = {} /\ 0 \in 0 .. Len(s)
    BY <1>1
  <2> QED BY <1>5, <2>1
<1>10. ASSUME NEW i \in 1 .. Len(s)
       PROVE  g[i] = step[g[i - 1]][s[i]]
  <2>1. /\ i \in Nat /\ i \in 0 .. Len(s) /\ i - 1 \in 0 .. Len(s)
        /\ 1 .. i \in SUBSET U /\ 1 .. i # {}
    <3>1. i \in Nat /\ i >= 1 /\ i <= Len(s)
      BY <1>0
    <3>2. i \in 0 .. Len(s) /\ i - 1 \in 0 .. Len(s)
      BY <1>0, <3>1
    <3>3. 1 .. i \in SUBSET U /\ 1 \in 1 .. i
      BY <1>0, <1>7, <3>1, <3>2
    <3> QED BY <3>1, <3>2, <3>3
  <2>2. Max(1 .. i) = i
    <3>1. Max(1 .. i) \in 1 .. i /\ \A x \in 1 .. i : x <= Max(1 .. i)
      BY <2>1, MaxOfPositions
    <3> QED BY <3>1
  <2>3. (1 .. i) \ {i} = 1 .. i - 1
    OBVIOUS
  <2>4. h[1 .. i] = step[h[(1 .. i) \ {Max(1 .. i)}]][s[Max(1 .. i)]]
    BY <1>6, <2>1
  <2> QED BY <2>1, <2>2, <2>3, <2>4
<1>11. g[Len(s)] = h[U]
  BY <1>1
<1> HIDE DEF g
<1>12. Feeds(step, f, s, h, g, T)
  BY <1>5, <1>6, <1>8, <1>9, <1>10, <1>11 DEF Feeds, U
<1> QED BY <1>12

(* The filters from one byte of a block to the next.                       *)
RunOf(encoding, f, s, g) ==
  /\ g \in [0 .. Len(s) -> Decoder(encoding)]
  /\ g[0] = f
  /\ \A i \in 1 .. Len(s) : g[i] = DecodeByte(encoding, g[i - 1], s[i])

LEMMA DecodeRun ==
  ASSUME NEW encoding \in {"base64", "quoted-printable"},
         NEW f \in Decoder(encoding), NEW s \in Seq(Byte)
  PROVE  \E g : RunOf(encoding, f, s, g) /\ DecodeBlock(encoding, f, s) = g[Len(s)]
<1> DEFINE U == DOMAIN s
           T == Decoder(encoding)
           step == [x \in T |-> [b \in Byte |-> DecodeByte(encoding, x, b)]]
<1>1. U = 1 .. Len(s) /\ Len(s) \in Nat /\ s \in [U -> Byte] /\ IsFiniteSet(U)
  BY LenProperties, FS_Interval
<1>2. \A S \in SUBSET U : S # {} => Max(S) \in S
  BY <1>1, MaxOfPositions
<1>3. \A x \in T, b \in Byte : DecodeByte(encoding, x, b) \in T
  BY EmptySeq, DecodeByteFacts
<1>4. step \in [T -> [Byte -> T]] /\ \A x \in T, b \in Byte : step[x][b] = DecodeByte(encoding, x, b)
  BY <1>3
<1> HIDE DEF step, T
<1>5. PICK h, g : Feeds(step, f, s, h, g, T)
  BY <1>4, FeedExists DEF T
<1>6. h \in [SUBSET U -> T] /\ h[{}] = f /\ h[U] = g[Len(s)]
  BY <1>5 DEF Feeds
<1>7. ASSUME NEW S \in SUBSET U, S # {}
      PROVE  h[S] = DecodeByte(encoding, h[S \ {Max(S)}], s[Max(S)])
  <2>1. h[S] = step[h[S \ {Max(S)}]][s[Max(S)]]
    BY <1>5, <1>7 DEF Feeds
  <2>2. h[S \ {Max(S)}] \in T /\ s[Max(S)] \in Byte
    BY <1>1, <1>2, <1>6, <1>7
  <2> QED BY <1>4, <2>1, <2>2
<1> HIDE DEF U
<1>8. DecodeBlock(encoding, f, s) = h[U]
  <2> DEFINE Adds(k) == k = [S \in SUBSET U |->
                               IF S = {} THEN f
                               ELSE DecodeByte(encoding, k[S \ {Max(S)}], s[Max(S)])]
             iter == CHOOSE k : Adds(k)
  <2>1. DecodeBlock(encoding, f, s) = iter[U]
    BY DEF DecodeBlock, FoldLeft, MapThenFoldSet, U
  <2>2. Adds(h)
    <3>1. \A S \in SUBSET U : h[S] = IF S = {} THEN f
                               ELSE DecodeByte(encoding, h[S \ {Max(S)}], s[Max(S)])
      BY <1>6, <1>7
    <3>2. h = [S \in SUBSET U |-> h[S]]
      BY <1>6
    <3> QED BY <3>1, <3>2
  <2>3. Adds(iter)
    BY <2>2
  <2>4. \A S \in SUBSET U : iter[S] = IF S = {} THEN f
                               ELSE DecodeByte(encoding, iter[S \ {Max(S)}], s[Max(S)])
    <3> HIDE DEF iter
    <3> QED BY <2>3
  <2> HIDE DEF iter, Adds
  <2> DEFINE D == SUBSET U
             r == [S \in D |-> Cardinality(S)]
  <2>5. r \in [D -> Nat]
    BY <1>1, SizeFacts
  <2>6. ASSUME NEW S \in D, \A e \in D : r[e] < r[S] => iter[e] = h[e]
        PROVE  iter[S] = h[S]
    <3>1. CASE S = {}
      BY <1>6, <2>4, <3>1
    <3>2. CASE S # {}
      <4>1. Max(S) \in S /\ S \ {Max(S)} \in SUBSET U
        BY <1>2, <3>2
      <4>2. r[S \ {Max(S)}] < r[S]
        BY <1>1, <4>1, SizeFacts
      <4>3. iter[S \ {Max(S)}] = h[S \ {Max(S)}]
        BY <2>6, <4>1, <4>2
      <4> QED BY <1>7, <2>4, <3>2, <4>3
    <3> QED BY <3>1, <3>2
  <2>7. U \in D
    OBVIOUS
  <2> HIDE DEF r, D
  <2>8. \A S \in D : iter[S] = h[S]
    BY <2>5, <2>6, Unique
  <2> QED BY <2>1, <2>7, <2>8
<1>9. RunOf(encoding, f, s, g)
  <2>1. /\ g \in [0 .. Len(s) -> T] /\ g[0] = f
        /\ \A i \in 1 .. Len(s) : g[i] = step[g[i - 1]][s[i]]
    BY <1>5 DEF Feeds
  <2>2. ASSUME NEW i \in 1 .. Len(s) PROVE g[i] = DecodeByte(encoding, g[i - 1], s[i])
    <3>1. i - 1 \in 0 .. Len(s) /\ i \in U
      BY <1>1
    <3> QED BY <1>1, <1>4, <2>1, <3>1
  <2> QED BY <2>1, <2>2 DEF RunOf, T
<1> QED BY <1>6, <1>8, <1>9

LEMMA OneRun ==
  ASSUME NEW encoding, NEW f, NEW s \in Seq(Byte), NEW g, NEW h,
         RunOf(encoding, f, s, g), RunOf(encoding, f, s, h)
  PROVE  g[Len(s)] = h[Len(s)]
<1> DEFINE S == {i \in Nat : i <= Len(s) => g[i] = h[i]}
<1>1. Len(s) \in Nat
  BY LenProperties
<1>2. 0 \in S
  BY DEF RunOf
<1>3. ASSUME NEW n \in Nat, n \in S PROVE n + 1 \in S
  <2> SUFFICES ASSUME n + 1 <= Len(s) PROVE g[n + 1] = h[n + 1]
    OBVIOUS
  <2> DEFINE i == n + 1
  <2>1. i \in 1 .. Len(s) /\ i - 1 = n /\ n <= Len(s)
    BY <1>1
  <2>2. g[n] = h[n]
    BY <1>3, <2>1
  <2> HIDE DEF i
  <2>3. /\ g[i] = DecodeByte(encoding, g[i - 1], s[i])
        /\ h[i] = DecodeByte(encoding, h[i - 1], s[i])
    BY <2>1 DEF RunOf
  <2>4. g[i] = h[i]
    BY <2>1, <2>2, <2>3
  <2> QED BY <2>4 DEF i
<1> HIDE DEF S
<1>4. Nat \subseteq S
  BY <1>2, <1>3, Induct
<1> QED BY <1>1, <1>4 DEF S

LEMMA LedDecoder ==
  ASSUME NEW encoding, NEW f \in Decoder(encoding), NEW p \in Seq(Byte)
  PROVE  Led(p, f) \in Decoder(encoding)
<1>1. f \in Coders /\ CacheFits(encoding, f)
  BY DEF Decoder
<1>2. /\ Led(p, f) \in Coders
      /\ Led(p, f).state = f.state /\ Led(p, f).cache = f.cache
  BY <1>1, LedFacts
<1>3. CacheFits(encoding, Led(p, f))
  BY SMT, <1>1, <1>2 DEF CacheFits
<1> QED BY <1>2, <1>3 DEF Decoder

LEMMA BlockFacts ==
  ASSUME NEW encoding \in {"base64", "quoted-printable"},
         NEW f \in Decoder(encoding), NEW s \in Seq(Byte)
  PROVE  /\ DecodeBlock(encoding, f, s) \in Decoder(encoding)
         /\ DecodeBlock(encoding, f, << >>) = f
<1>1. PICK g : RunOf(encoding, f, s, g) /\ DecodeBlock(encoding, f, s) = g[Len(s)]
  BY DecodeRun
<1>2. DecodeBlock(encoding, f, s) \in Decoder(encoding)
  <2>1. Len(s) \in 0 .. Len(s)
    BY LenProperties
  <2> QED BY <1>1, <2>1 DEF RunOf
<1>3. << >> \in Seq(Byte) /\ Len(<< >>) = 0
  BY EmptySeq
<1>4. PICK h : RunOf(encoding, f, << >>, h) /\ DecodeBlock(encoding, f, << >>) = h[Len(<< >>)]
  BY <1>3, DecodeRun
<1>5. DecodeBlock(encoding, f, << >>) = f
  BY <1>3, <1>4 DEF RunOf
<1> QED BY <1>2, <1>5

(* A text that comes in two blocks is decoded as in one.                   *)
THEOREM TwoBlocks ==
  ASSUME NEW encoding \in {"base64", "quoted-printable"},
         NEW f \in Decoder(encoding), NEW a \in Seq(Byte), NEW b \in Seq(Byte)
  PROVE  DecodeBlock(encoding, f, a \o b)
           = DecodeBlock(encoding, DecodeBlock(encoding, f, a), b)
<1> DEFINE T == Decoder(encoding)
           s == a \o b
<1>1. PICK g : RunOf(encoding, f, a, g) /\ DecodeBlock(encoding, f, a) = g[Len(a)]
  BY DecodeRun
<1>2. DecodeBlock(encoding, f, a) \in T
  BY BlockFacts
<1>3. PICK h : /\ RunOf(encoding, g[Len(a)], b, h)
               /\ DecodeBlock(encoding, DecodeBlock(encoding, f, a), b) = h[Len(b)]
  BY <1>1, <1>2, DecodeRun
<1>4. /\ s \in Seq(Byte) /\ Len(a) \in Nat /\ Len(b) \in Nat
      /\ Len(s) = Len(a) + Len(b)
      /\ \A i \in 1 .. Len(s) : s[i] = IF i <= Len(a) THEN a[i] ELSE b[i - Len(a)]
  BY ConcatProperties, LenProperties
<1>5. PICK k : RunOf(encoding, f, s, k) /\ DecodeBlock(encoding, f, s) = k[Len(s)]
  BY <1>4, DecodeRun
<1> DEFINE j == [i \in 0 .. Len(s) |-> IF i <= Len(a) THEN g[i] ELSE h[i - Len(a)]]
<1> HIDE DEF T, s
<1>6. /\ g \in [0 .. Len(a) -> T] /\ g[0] = f
      /\ \A i \in 1 .. Len(a) : g[i] = DecodeByte(encoding, g[i - 1], a[i])
      /\ h \in [0 .. Len(b) -> T] /\ h[0] = g[Len(a)]
      /\ \A i \in 1 .. Len(b) : h[i] = DecodeByte(encoding, h[i - 1], b[i])
  BY <1>1, <1>3 DEF RunOf, T
<1>7. j \in [0 .. Len(s) -> T]
  <2> SUFFICES ASSUME NEW i \in 0 .. Len(s) PROVE j[i] \in T
    OBVIOUS
  <2>1. CASE i <= Len(a)
    <3>1. i \in 0 .. Len(a) /\ j[i] = g[i]
      BY <2>1
    <3> QED BY <1>6, <3>1
  <2>2. CASE ~(i <= Len(a))
    <3>1. i - Len(a) \in 0 .. Len(b) /\ j[i] = h[i - Len(a)]
      BY <1>4, <2>2
    <3> QED BY <1>6, <3>1
  <2> QED BY <2>1, <2>2
<1>8. j[0] = f
  BY <1>4, <1>6
<1>9. ASSUME NEW i \in 1 .. Len(s) PROVE j[i] = DecodeByte(encoding, j[i - 1], s[i])
  <2>1. /\ i \in 0 .. Len(s) /\ i - 1 \in 0 .. Len(s)
        /\ s[i] = IF i <= Len(a) THEN a[i] ELSE b[i - Len(a)]
    BY <1>4
  <2>2. CASE i <= Len(a)
    <3>1. i \in 1 .. Len(a) /\ i - 1 <= Len(a)
      BY <1>4, <2>2
    <3>2. j[i] = g[i] /\ j[i - 1] = g[i - 1] /\ s[i] = a[i]
      BY <2>1, <2>2, <3>1
    <3>3. g[i] = DecodeByte(encoding, g[i - 1], a[i])
      BY <1>6, <3>1
    <3> HIDE DEF j
    <3> QED BY <3>2, <3>3
  <2>3. CASE ~(i <= Len(a))
    <3> DEFINE m == i - Len(a)
    <3>1. m \in 1 .. Len(b) /\ (i - 1) - Len(a) = m - 1
      BY <1>4, <2>3
    <3>2. j[i] = h[m] /\ s[i] = b[m]
      BY <2>1, <2>3
    <3>3. j[i - 1] = h[m - 1]
      <4>1. CASE i - 1 <= Len(a)
        <5>1. i - 1 = Len(a) /\ m - 1 = 0
          BY <1>4, <2>3, <4>1
        <5>2. j[i - 1] = g[i - 1]
          BY <2>1, <4>1
        <5> HIDE DEF j, m
        <5> QED BY <1>6, <5>1, <5>2
      <4>2. CASE ~(i - 1 <= Len(a))
        BY <2>1, <3>1, <4>2
      <4> QED BY <4>1, <4>2
    <3> HIDE DEF j, m
    <3>4. h[m] = DecodeByte(encoding, h[m - 1], b[m])
      BY <1>6, <3>1
    <3> QED BY <3>2, <3>3, <3>4
  <2> QED BY <2>2, <2>3
<1>10. j[Len(s)] = h[Len(b)]
  <2>1. CASE Len(b) = 0
    <3>1. Len(s) = Len(a) /\ j[Len(s)] = g[Len(a)]
      BY <1>4, <2>1
    <3> HIDE DEF j
    <3> QED BY <1>6, <2>1, <3>1
  <2>2. CASE Len(b) # 0
    BY <1>4, <2>2
  <2> QED BY <2>1, <2>2
<1> HIDE DEF j
<1>11. RunOf(encoding, f, s, j)
  BY <1>7, <1>8, <1>9 DEF RunOf, T
<1>12. j[Len(s)] = k[Len(s)]
  <2>1. s \in Seq(Byte) /\ RunOf(encoding, f, s, j) /\ RunOf(encoding, f, s, k)
    BY <1>4, <1>5, <1>11
  <2> QED BY <2>1, OneRun
<1> QED BY <1>3, <1>5, <1>10, <1>12 DEF s

LEMMA LedBlock ==
  ASSUME NEW encoding \in {"base64", "quoted-printable"},
         NEW f \in Decoder(encoding), NEW s \in Seq(Byte), NEW p \in Seq(Byte)
  PROVE  DecodeBlock(encoding, Led(p, f), s) = Led(p, DecodeBlock(encoding, f, s))
<1> DEFINE T == Decoder(encoding)
<1>1. PICK g : RunOf(encoding, f, s, g) /\ DecodeBlock(encoding, f, s) = g[Len(s)]
  BY DecodeRun
<1>2. Led(p, f) \in T
  BY LedDecoder
<1>3. PICK k : /\ RunOf(encoding, Led(p, f), s, k)
               /\ DecodeBlock(encoding, Led(p, f), s) = k[Len(s)]
  BY <1>2, DecodeRun
<1> DEFINE j == [i \in 0 .. Len(s) |-> Led(p, g[i])]
<1> HIDE DEF T
<1>4. /\ g \in [0 .. Len(s) -> T] /\ g[0] = f
      /\ \A i \in 1 .. Len(s) : g[i] = DecodeByte(encoding, g[i - 1], s[i])
  BY <1>1 DEF RunOf, T
<1>5. Len(s) \in Nat /\ \A i \in 1 .. Len(s) : s[i] \in Byte
  BY LenProperties
<1>6. \A i \in 0 .. Len(s) : Led(p, g[i]) \in T
  BY <1>4, LedDecoder DEF T
<1>7. ASSUME NEW i \in 1 .. Len(s) PROVE j[i] = DecodeByte(encoding, j[i - 1], s[i])
  <2>1. i \in 0 .. Len(s) /\ i - 1 \in 0 .. Len(s)
    BY <1>5
  <2>2. g[i - 1] \in T
    BY <1>4, <2>1
  <2>3. DecodeByte(encoding, Led(p, g[i - 1]), s[i]) = Led(p, DecodeByte(encoding, g[i - 1], s[i]))
    BY <1>5, <2>2, DecodeByteFacts DEF T
  <2> QED BY <1>4, <2>1, <2>3
<1>8. RunOf(encoding, Led(p, f), s, j)
  <2>1. j \in [0 .. Len(s) -> T] /\ j[0] = Led(p, f)
    BY <1>4, <1>5, <1>6
  <2> HIDE DEF j
  <2> QED BY <1>7, <2>1 DEF RunOf, T
<1>9. j[Len(s)] = Led(p, g[Len(s)])
  BY <1>5
<1> HIDE DEF j
<1>10. j[Len(s)] = k[Len(s)]
  <2> DEFINE q == Led(p, f)
  <2>1. RunOf(encoding, q, s, j) /\ RunOf(encoding, q, s, k)
    BY <1>3, <1>8
  <2> HIDE DEF q
  <2> QED BY <2>1, OneRun
<1> QED BY <1>1, <1>3, <1>9, <1>10

-----------------------------------------------------------------------------
(* Neither does the flush look at what has been passed on: it adds the     *)
(* bytes that state and cache stand for.                                   *)
LeftOver(encoding, f) ==
  IF encoding = "base64"
  THEN CASE f.state = 2 -> <<f.cache \div 65536>>
         [] f.state = 3 -> <<f.cache \div 65536, (f.cache \div 256) % 256>>
         [] OTHER -> << >>
  ELSE CASE f.state = 1 -> <<EQ>>
         [] f.state = 2 -> <<EQ, f.cache>>
         [] OTHER -> << >>

LEMMA RestFacts ==
  ASSUME NEW encoding \in {"base64", "quoted-printable"},
         NEW f \in Decoder(encoding)
  PROVE  LeftOver(encoding, f) \in Seq(Byte)
<1>1. f.state \in 0 .. 3 /\ f.cache \in Nat
  BY DEF Decoder, Coders
<1> DEFINE k == f.cache
<1>2. CASE encoding = "base64"
  <2>1. f.state \in {2, 3} => k \in Nat /\ k <= 16777215
    BY SMT, <1>1, <1>2 DEF Decoder, CacheFits
  <2>2. f.state \in {2, 3} => k \div 65536 \in Byte /\ (k \div 256) % 256 \in Byte
    <3> HIDE DEF k
    <3> QED BY SMT, <2>1 DEF Byte
  <2> QED BY SMT, <1>2, <2>2 DEF LeftOver
<1>3. CASE encoding = "quoted-printable"
  <2>1. EQ \in Byte /\ (f.state = 2 => f.cache \in Byte)
    BY SMT, <1>1, <1>3 DEF Decoder, CacheFits, IsHex, Byte, EQ
  <2> QED BY SMT, <1>3, <2>1 DEF LeftOver
<1> QED BY <1>2, <1>3

LEMMA FlushFacts ==
  ASSUME NEW encoding \in {"base64", "quoted-printable"},
         NEW f \in Decoder(encoding), NEW p \in Seq(Byte)
  PROVE  /\ FlushDecoder(encoding, f).out = f.out \o LeftOver(encoding, f)
         /\ FlushDecoder(encoding, f).out \in Seq(Byte)
         /\ FlushDecoder(encoding, Led(p, f)).out = p \o FlushDecoder(encoding, f).out
<1>1. Led(p, f) \in Decoder(encoding) /\ f \in Coders
  BY LedDecoder DEF Decoder
<1>2. ASSUME NEW g \in Decoder(encoding)
      PROVE  FlushDecoder(encoding, g).out = g.out \o LeftOver(encoding, g)
  <2>1. ASSUME NEW bytes PROVE Reset(Emit(g, bytes)).out = g.out \o bytes
    BY DEF Reset, Emit, Decoder, Coders
  <2>2. CASE encoding = "base64"
    <3>1. FlushDecoder(encoding, g) = Reset(Emit(g, LeftOver(encoding, g)))
      BY <2>2 DEF FlushDecoder, FlushDecodeBase64, LeftOver
    <3> QED BY <2>1, <3>1
  <2>3. CASE encoding = "quoted-printable"
    <3>1. FlushDecoder(encoding, g) = Reset(Emit(g, LeftOver(encoding, g)))
      BY <2>3 DEF FlushDecoder, FlushDecodeQuoted, LeftOver
    <3> QED BY <2>1, <3>1
  <2> QED BY <2>2, <2>3
<1>3. LeftOver(encoding, f) \in Seq(Byte) /\ f.out \in Seq(Byte)
  BY <1>1, RestFacts DEF Coders
<1>4. Led(p, f).out = p \o f.out /\ LeftOver(encoding, Led(p, f)) = LeftOver(encoding, f)
  <2>1. /\ Led(p, f).out = p \o f.out
        /\ Led(p, f).state = f.state /\ Led(p, f).cache = f.cache
    BY <1>1, LedFacts
  <2> QED BY <2>1 DEF LeftOver
<1>5. (p \o f.out) \o LeftOver(encoding, f) = p \o (f.out \o LeftOver(encoding, f))
  <2> DEFINE x == f.out
             y == LeftOver(encoding, f)
  <2>1. x \in Seq(Byte) /\ y \in Seq(Byte)
    BY <1>3
  <2> HIDE DEF x, y
  <2>2. (p \o x) \o y = p \o (x \o y)
    BY <2>1, ConcatAssociative
  <2> QED BY <2>2 DEF x, y
<1>6. f.out \o LeftOver(encoding, f) \in Seq(Byte)
  BY <1>3, ConcatProperties
<1> QED BY <1>1, <1>2, <1>4, <1>5, <1>6

-----------------------------------------------------------------------------
(* The bytes with names are none of the others.                            *)
LEMMA MarksDiffer ==
  /\ Dquote \notin Atom \cup {"(", ")", "<", ">"} /\ Backslash # Dquote
  /\ Backslash \notin Atom \cup {"(", ")", "<", ">"}
  /\ "(" \notin Atom /\ "<" \notin Atom /\ ">" \notin Atom
BY Zenon DEF Dquote, Backslash, Atom

(* The comment at i: what CommentEnd computes at a place and depth.        *)
EndIn(h) == (1 .. Len(h) + 2) \X (Nat \ {0})
EndOf(h, G, at) ==
  LET n == Len(h)
      j     == at[1]
      depth == at[2]
  IN CASE j > n                -> 0
       [] j <= n /\ h[j] = "(" -> G[<<j + 1, depth + 1>>]
       [] j <= n /\ h[j] = ")" -> IF depth = 1 THEN j
                                  ELSE G[<<j + 1, depth - 1>>]
       [] j < n /\ h[j] = Backslash -> G[<<j + 2, depth>>]
       [] OTHER                -> G[<<j + 1, depth>>]

LEMMA CommentEndUnfolds ==
  ASSUME NEW h, NEW i
  PROVE  CommentEnd(h, i)
           = (CHOOSE G : G = [at \in EndIn(h) |-> EndOf(h, G, at)])[<<i + 1, 1>>]
BY DEF CommentEnd, EndIn, EndOf

(* It is known there, or comes from one place behind.                      *)
LEMMA EndShape ==
  ASSUME NEW h, Len(h) \in Nat, NEW at \in EndIn(h)
  PROVE  \/ \E k \in {0} \cup (at[1] .. Len(h)) : \A G : EndOf(h, G, at) = k
         \/ \E e \in EndIn(h) : e[1] > at[1] /\ \A G : EndOf(h, G, at) = G[e]
<1> DEFINE n == Len(h)
           j == at[1]
           d == at[2]
<1>0. n \in Nat /\ j \in 1 .. n + 2 /\ d \in Nat \ {0} /\ at = <<j, d>>
  BY DEF EndIn
<1>1. CASE j > n
  <2>1. \A G : EndOf(h, G, at) = 0
    BY <1>0, <1>1 DEF EndOf
  <2> QED BY <2>1
<1>2. CASE j <= n /\ h[j] = "("
  <2>1. \A G : EndOf(h, G, at) = G[<<j + 1, d + 1>>]
    BY <1>0, <1>2, MarksDiffer DEF EndOf
  <2>2. <<j + 1, d + 1>> \in EndIn(h) /\ j + 1 > j
    BY <1>0, <1>2 DEF EndIn
  <2> QED BY <2>1, <2>2
<1>3. CASE j <= n /\ h[j] = ")" /\ d = 1
  <2>1. \A G : EndOf(h, G, at) = j
    BY <1>0, <1>3, MarksDiffer DEF EndOf
  <2> QED BY <1>0, <1>3, <2>1
<1>4. CASE j <= n /\ h[j] = ")" /\ d # 1
  <2>1. \A G : EndOf(h, G, at) = G[<<j + 1, d - 1>>]
    BY <1>0, <1>4, MarksDiffer DEF EndOf
  <2>2. <<j + 1, d - 1>> \in EndIn(h) /\ j + 1 > j
    BY <1>0, <1>4 DEF EndIn
  <2> QED BY <2>1, <2>2
<1>5. CASE j < n /\ h[j] = Backslash
  <2>1. \A G : EndOf(h, G, at) = G[<<j + 2, d>>]
    BY <1>0, <1>5, MarksDiffer DEF EndOf
  <2>2. <<j + 2, d>> \in EndIn(h) /\ j + 2 > j
    BY <1>0, <1>5 DEF EndIn
  <2> QED BY <2>1, <2>2
<1>6. CASE j <= n /\ h[j] \notin {"(", ")"} /\ ~(j < n /\ h[j] = Backslash)
  <2>1. \A G : EndOf(h, G, at) = G[<<j + 1, d>>]
    BY <1>0, <1>6, MarksDiffer DEF EndOf
  <2>2. <<j + 1, d>> \in EndIn(h) /\ j + 1 > j
    BY <1>0, <1>6 DEF EndIn
  <2> QED BY <2>1, <2>2
<1> QED BY <1>0, <1>1, <1>2, <1>3, <1>4, <1>5, <1>6

(* So a comment ends behind its start and in the header.                   *)
LEMMA CommentEndFacts ==
  ASSUME NEW h, Len(h) \in Nat, NEW i \in 1 .. Len(h)
  PROVE  CommentEnd(h, i) \in {0} \cup (i + 1 .. Len(h))
<1> DEFINE n == Len(h)
           D == EndIn(h)
           r == [at \in D |-> n + 2 - at[1]]
           F == [at \in D |-> [G \in [D -> Nat] |-> EndOf(h, G, at)]]
<1>0. \A at \in D : at[1] \in 1 .. n + 2
  BY DEF EndIn
<1>1. /\ r \in [D -> Nat] /\ \A at \in D : r[at] <= n + 2
      /\ \A at, e \in D : e[1] > at[1] => r[e] < r[at]
  BY <1>0
<1>2. \A at \in D, G \in [D -> Nat] : F[at][G] = EndOf(h, G, at)
  OBVIOUS
<1> HIDE DEF D, r
<1>3. \A at \in D, G \in [D -> Nat] : EndOf(h, G, at) \in Nat
  <2> TAKE at \in D, G \in [D -> Nat]
  <2>1. CASE \E k \in {0} \cup (at[1] .. n) : \A H : EndOf(h, H, at) = k
    BY <1>0, <2>1
  <2>2. CASE \E e \in D : e[1] > at[1] /\ \A H : EndOf(h, H, at) = H[e]
    BY <2>2
  <2> QED BY <2>1, <2>2, EndShape DEF D
<1>4. F \in [D -> [[D -> Nat] -> Nat]]
  BY <1>3
<1> HIDE DEF F
<1>5. ASSUME NEW at \in D, NEW G \in [D -> Nat], NEW H \in [D -> Nat],
             \A e \in D : r[e] < r[at] => G[e] = H[e]
      PROVE  F[at][G] = F[at][H]
  <2>1. CASE \E k \in {0} \cup (at[1] .. n) : \A J : EndOf(h, J, at) = k
    BY <1>2, <2>1
  <2>2. CASE \E e \in D : e[1] > at[1] /\ \A J : EndOf(h, J, at) = J[e]
    BY <1>1, <1>2, <1>5, <2>2
  <2> QED BY <2>1, <2>2, EndShape DEF D
<1>6. PICK g \in [D -> Nat] : \A at \in D : g[at] = F[at][g]
  <2>1. RankedBy(F, r, n + 2, D, Nat)
    <3>1. n + 2 \in Nat /\ Nat # {}
      OBVIOUS
    <3> QED BY <3>1, <1>1, <1>4, <1>5 DEF RankedBy
  <2> QED BY <2>1, Recursion
<1>7. g = [at \in D |-> EndOf(h, g, at)]
  BY <1>2, <1>6
<1>8. PICK G : /\ G = [at \in D |-> EndOf(h, G, at)]
               /\ CommentEnd(h, i) = G[<<i + 1, 1>>]
  <2>1. CommentEnd(h, i) = (CHOOSE G : G = [at \in D |-> EndOf(h, G, at)])[<<i + 1, 1>>]
    BY CommentEndUnfolds DEF D
  <2> QED BY <1>7, <2>1
<1> DEFINE P == [at \in D |-> {0} \cup (at[1] .. n)]
<1>9. \A at \in D : (\A e \in D : r[e] < r[at] => G[e] \in P[e]) => G[at] \in P[at]
  <2> SUFFICES ASSUME NEW at \in D, \A e \in D : r[e] < r[at] => G[e] \in P[e]
               PROVE  G[at] \in P[at]
    OBVIOUS
  <2>0. G[at] = EndOf(h, G, at)
    BY <1>8
  <2>1. CASE \E k \in {0} \cup (at[1] .. n) : \A J : EndOf(h, J, at) = k
    BY <2>0, <2>1
  <2>2. ASSUME NEW e \in D, e[1] > at[1], \A J : EndOf(h, J, at) = J[e]
        PROVE  G[at] \in P[at]
    <3>1. G[at] \in {0} \cup (e[1] .. n)
      BY <1>1, <2>0, <2>2
    <3> QED BY <1>0, <2>2, <3>1
  <2> QED BY <2>1, <2>2, EndShape DEF D
<1>10. \A at \in D : G[at] \in P[at]
  <2> HIDE DEF P
  <2>1. Carried(D, r, G, P)
    BY <1>1, <1>9 DEF Carried
  <2> QED BY <2>1, Ranked
<1>11. <<i + 1, 1>> \in D
  BY DEF D, EndIn
<1> QED BY <1>8, <1>10, <1>11

-----------------------------------------------------------------------------
(* The backslashes of an open comment, in the same way.                    *)
CountOf(h, G, j) ==
  LET n == Len(h)
  IN CASE j > n                -> 0
       [] j < n /\ h[j] = Backslash -> 1 + G[j + 2]
       [] OTHER                -> G[j + 1]

LEMMA EscapesUnfolds ==
  ASSUME NEW h, NEW i
  PROVE  Escapes(h, i)
           = (CHOOSE G : G = [j \in 1 .. Len(h) + 2 |-> CountOf(h, G, j)])[i + 1]
BY DEF Escapes, CountOf

LEMMA CountShape ==
  ASSUME NEW h, Len(h) \in Nat, NEW j \in 1 .. Len(h) + 2
  PROVE  \/ j > Len(h) /\ \A G : CountOf(h, G, j) = 0
         \/ j < Len(h) /\ \A G : CountOf(h, G, j) = 1 + G[j + 2]
         \/ j <= Len(h) /\ \A G : CountOf(h, G, j) = G[j + 1]
<1>1. CASE j > Len(h)
  BY <1>1 DEF CountOf
<1>2. CASE j < Len(h) /\ h[j] = Backslash
  BY <1>2 DEF CountOf
<1>3. CASE j <= Len(h) /\ ~(j < Len(h) /\ h[j] = Backslash)
  BY <1>3 DEF CountOf
<1> QED BY <1>1, <1>2, <1>3

(* There are no more of them than symbols behind the "(".                  *)
LEMMA EscapesFacts ==
  ASSUME NEW h, Len(h) \in Nat, NEW i \in 1 .. Len(h)
  PROVE  Escapes(h, i) \in 0 .. Len(h) - i
<1> DEFINE n == Len(h)
           D == 1 .. n + 2
           r == [j \in D |-> n + 2 - j]
           F == [j \in D |-> [G \in [D -> Nat] |-> CountOf(h, G, j)]]
<1>1. /\ r \in [D -> Nat] /\ \A j \in D : r[j] <= n + 2
      /\ \A j, e \in D : e > j => r[e] < r[j]
      /\ \A j \in D : j < n => j + 2 \in D /\ j + 2 > j
      /\ \A j \in D : j <= n => j + 1 \in D /\ j + 1 > j
  OBVIOUS
<1>2. \A j \in D, G \in [D -> Nat] : F[j][G] = CountOf(h, G, j)
  OBVIOUS
<1>c. \A j \in D : \/ j > n /\ \A G : CountOf(h, G, j) = 0
                   \/ j < n /\ \A G : CountOf(h, G, j) = 1 + G[j + 2]
                   \/ j <= n /\ \A G : CountOf(h, G, j) = G[j + 1]
  BY CountShape
<1> HIDE DEF r
<1>3. ASSUME NEW j \in D, NEW G \in [D -> Nat] PROVE CountOf(h, G, j) \in Nat
  <2>1. CASE j > n /\ \A H : CountOf(h, H, j) = 0
    BY <2>1
  <2>2. CASE j < n /\ \A H : CountOf(h, H, j) = 1 + H[j + 2]
    <3>1. G[j + 2] \in Nat /\ CountOf(h, G, j) = 1 + G[j + 2]
      BY <1>1, <2>2
    <3> QED BY <3>1
  <2>3. CASE j <= n /\ \A H : CountOf(h, H, j) = H[j + 1]
    BY <1>1, <2>3
  <2> QED BY <1>c, <2>1, <2>2, <2>3
<1>4. F \in [D -> [[D -> Nat] -> Nat]]
  BY <1>3
<1> HIDE DEF F
<1>5. ASSUME NEW j \in D, NEW G \in [D -> Nat], NEW H \in [D -> Nat],
             \A e \in D : r[e] < r[j] => G[e] = H[e]
      PROVE  F[j][G] = F[j][H]
  <2>1. CASE j > n /\ \A J : CountOf(h, J, j) = 0
    BY <1>2, <2>1
  <2>2. CASE j < n /\ \A J : CountOf(h, J, j) = 1 + J[j + 2]
    <3>1. G[j + 2] = H[j + 2]
      BY <1>1, <1>5, <2>2
    <3> QED BY <1>2, <2>2, <3>1
  <2>3. CASE j <= n /\ \A J : CountOf(h, J, j) = J[j + 1]
    <3>1. G[j + 1] = H[j + 1]
      BY <1>1, <1>5, <2>3
    <3> QED BY <1>2, <2>3, <3>1
  <2> QED BY <1>c, <2>1, <2>2, <2>3
<1>6. PICK g \in [D -> Nat] : \A j \in D : g[j] = F[j][g]
  <2>1. RankedBy(F, r, n + 2, D, Nat)
    <3>1. n + 2 \in Nat /\ Nat # {}
      OBVIOUS
    <3> QED BY <3>1, <1>1, <1>4, <1>5 DEF RankedBy
  <2> HIDE DEF D
  <2> QED BY <2>1, Recursion
<1>7. g = [j \in D |-> CountOf(h, g, j)]
  BY <1>2, <1>6
<1>8. PICK G : G = [j \in D |-> CountOf(h, G, j)] /\ Escapes(h, i) = G[i + 1]
  <2>1. Escapes(h, i) = (CHOOSE G : G = [j \in D |-> CountOf(h, G, j)])[i + 1]
    BY EscapesUnfolds
  <2> QED BY <1>7, <2>1
<1> DEFINE P == [j \in D |-> {k \in Nat : k = 0 \/ k <= n + 1 - j}]
<1>9. ASSUME NEW j \in D, \A e \in D : r[e] < r[j] => G[e] \in P[e]
      PROVE  G[j] \in P[j]
  <2>0. G[j] = CountOf(h, G, j)
    BY <1>8
  <2>1. CASE j > n /\ \A J : CountOf(h, J, j) = 0
    BY <2>0, <2>1
  <2>2. CASE j < n /\ \A J : CountOf(h, J, j) = 1 + J[j + 2]
    <3>1. G[j + 2] \in P[j + 2] /\ j + 2 \in D
      BY <1>1, <1>9, <2>2
    <3>2. G[j] = 1 + G[j + 2] /\ G[j + 2] \in Nat /\ (G[j + 2] = 0 \/ G[j + 2] <= n + 1 - (j + 2))
      BY <2>0, <2>2, <3>1
    <3> QED BY <2>2, <3>2
  <2>3. CASE j <= n /\ \A J : CountOf(h, J, j) = J[j + 1]
    <3>1. G[j + 1] \in P[j + 1] /\ j + 1 \in D
      BY <1>1, <1>9, <2>3
    <3>2. G[j] = G[j + 1] /\ G[j + 1] \in Nat /\ (G[j + 1] = 0 \/ G[j + 1] <= n + 1 - (j + 1))
      BY <2>0, <2>3, <3>1
    <3> QED BY <2>3, <3>2
  <2> QED BY <1>c, <2>1, <2>2, <2>3
<1>10. \A j \in D : G[j] \in P[j]
  <2> HIDE DEF P
  <2>1. Carried(D, r, G, P)
    BY <1>1, <1>9 DEF Carried
  <2> QED BY <2>1, Ranked
<1>11. i + 1 \in D /\ G[i + 1] \in P[i + 1]
  BY <1>10
<1> QED BY <1>8, <1>11

-----------------------------------------------------------------------------
(* The places of a header that a token takes up, and lists of tokens that  *)
(* lie between two places, one behind the other; marks have no words.      *)
Span(t) == t.from .. t.from + t.len - 1
Mark    == Atom \cup {"<", ">"}
Laid(h, lo, hi) ==
  {toks \in Seq(Token) :
     /\ \A k \in DOMAIN toks : Span(toks[k]) \subseteq lo .. hi
     /\ \A k \in DOMAIN toks : toks[k].token \in Mark =>
          \A i \in Span(toks[k]) : h[i] \notin Word
     /\ \A j, k \in DOMAIN toks : j < k =>
          \A x \in Span(toks[j]), y \in Span(toks[k]) : x < y}

LEMMA LaidNone ==
  ASSUME NEW h, NEW lo, NEW hi
  PROVE  << >> \in Laid(h, lo, hi)
BY DEF Laid

LEMMA LaidOne ==
  ASSUME NEW h, NEW lo, NEW hi, NEW t \in Token, Span(t) \subseteq lo .. hi,
         t.token \in Mark => \A i \in Span(t) : h[i] \notin Word
  PROVE  << t >> \in Laid(h, lo, hi)
<1>1. << t >> \in Seq(Token) /\ DOMAIN << t >> = {1} /\ << t >>[1] = t
  OBVIOUS
<1> QED BY <1>1 DEF Laid

LEMMA LaidOver ==
  ASSUME NEW h, NEW lo \in Nat, NEW m \in Nat, NEW n \in Nat, lo <= m, m <= n + 1,
         NEW toks \in Laid(h, lo, m - 1), NEW more \in Laid(h, m, n)
  PROVE  toks \o more \in Laid(h, lo, n)
<1> DEFINE all == toks \o more
           a == Len(toks)
           b == Len(more)
<1>1. /\ toks \in Seq(Token) /\ more \in Seq(Token) /\ a \in Nat /\ b \in Nat
      /\ DOMAIN toks = 1 .. a /\ DOMAIN more = 1 .. b
  BY LenProperties DEF Laid
<1>2. /\ all \in Seq(Token) /\ Len(all) = a + b /\ DOMAIN all = 1 .. a + b
      /\ \A k \in 1 .. a + b : all[k] = IF k <= a THEN toks[k] ELSE more[k - a]
  BY <1>1, ConcatProperties, LenProperties
<1> HIDE DEF all, a, b
<1>3. \A k \in 1 .. a : Span(toks[k]) \subseteq lo .. m - 1
  BY <1>1 DEF Laid
<1>4. \A k \in 1 .. b : Span(more[k]) \subseteq m .. n
  BY <1>1 DEF Laid
<1>5. ASSUME NEW k \in 1 .. a + b PROVE Span(all[k]) \subseteq lo .. n
  <2>1. CASE k <= a
    <3>1. k \in 1 .. a /\ all[k] = toks[k]
      BY <1>1, <1>2, <2>1
    <3> QED BY <1>3, <3>1
  <2>2. CASE ~(k <= a)
    <3>1. k - a \in 1 .. b /\ all[k] = more[k - a]
      BY <1>1, <1>2, <2>2
    <3> QED BY <1>4, <3>1
  <2> QED BY <2>1, <2>2
<1>6. ASSUME NEW j \in 1 .. a + b, NEW k \in 1 .. a + b, j < k,
             NEW x \in Span(all[j]), NEW y \in Span(all[k])
      PROVE  x < y
  <2>1. CASE k <= a
    <3>1. j \in 1 .. a /\ k \in 1 .. a /\ all[j] = toks[j] /\ all[k] = toks[k]
      BY <1>1, <1>2, <1>6, <2>1
    <3>2. x \in Span(toks[j]) /\ y \in Span(toks[k])
      BY <3>1
    <3> QED BY <1>1, <1>6, <3>1, <3>2 DEF Laid
  <2>2. CASE j <= a /\ ~(k <= a)
    <3>1. /\ j \in 1 .. a /\ k - a \in 1 .. b
          /\ all[j] = toks[j] /\ all[k] = more[k - a]
      BY <1>1, <1>2, <1>6, <2>2
    <3>2. x \in lo .. m - 1 /\ y \in m .. n
      BY <1>3, <1>4, <3>1
    <3> QED BY <3>2
  <2>3. CASE ~(j <= a)
    <3>1. /\ j - a \in 1 .. b /\ k - a \in 1 .. b /\ j - a < k - a
          /\ all[j] = more[j - a] /\ all[k] = more[k - a]
      BY <1>1, <1>2, <1>6, <2>3
    <3>2. x \in Span(more[j - a]) /\ y \in Span(more[k - a])
      BY <3>1
    <3> QED BY <1>1, <3>1, <3>2 DEF Laid
  <2> QED BY <1>1, <1>6, <2>1, <2>2, <2>3
<1>7. ASSUME NEW k \in 1 .. a + b, all[k].token \in Mark, NEW i \in Span(all[k])
      PROVE  h[i] \notin Word
  <2>1. CASE k <= a
    <3>1. k \in 1 .. a /\ all[k] = toks[k]
      BY <1>1, <1>2, <2>1
    <3> QED BY <1>1, <1>7, <3>1 DEF Laid
  <2>2. CASE ~(k <= a)
    <3>1. k - a \in 1 .. b /\ all[k] = more[k - a]
      BY <1>1, <1>2, <2>2
    <3> QED BY <1>1, <1>7, <3>1 DEF Laid
  <2> QED BY <2>1, <2>2
<1> QED BY <1>2, <1>5, <1>6, <1>7 DEF Laid, all

-----------------------------------------------------------------------------
(* The scanner: what Tokenize computes at a place and with a bracket.      *)
ScanIn(h) == (1 .. Len(h) + 1) \X BOOLEAN
ScanOf(h, G, at) ==
  LET n == Len(h)
      i       == at[1]
      bracket == at[2]
  IN
  CASE i > n -> << >>
    [] IsIn(h, i, Word) \/ (IsIn(h, i, {Backslash}) /\ IsIn(h, i + 1, Other)) ->
         <<Made(Text, i, WordEnd(h, i) - i)>> \o G[<<WordEnd(h, i), bracket>>]
    [] IsIn(h, i, Atom) -> <<Made(h[i], i, 1)>> \o G[<<i + 1, bracket>>]
    [] IsIn(h, i, {Dquote}) ->
         IF Quotes(h, i) = {} THEN <<Made(Dquote, i, 0)>>
         ELSE <<Made(Dquote, i + 1, Min(Quotes(h, i)) - i - 1)>>
              \o G[<<Min(Quotes(h, i)) + 1, bracket>>]
    [] IsIn(h, i, {"("}) ->
         IF CommentEnd(h, i) = 0 THEN <<Made(Dquote, i, Escapes(h, i))>>
         ELSE <<Made("(", i, CommentEnd(h, i) - i + 1)>>
              \o G[<<CommentEnd(h, i) + 1, bracket>>]
    [] IsIn(h, i, {"<"}) /\ IsIn(h, i + 1, {">"}) ->
         <<Made("<", i, 1), Made(Text, i, 0), Made(">", i + 1, 1)>>
         \o G[<<i + 2, bracket>>]
    [] IsIn(h, i, {"<"}) /\ ~IsIn(h, i + 1, {">"}) /\ ~bracket ->
         <<Made("<", i, 1)>> \o G[<<i + 1, TRUE>>]
    [] IsIn(h, i, {">"}) /\ bracket -> <<Made(">", i, 1)>> \o G[<<i + 1, FALSE>>]
    [] OTHER -> G[<<i + 1, bracket>>]

LEMMA TokenizeUnfolds ==
  ASSUME NEW h
  PROVE  Tokenize(h)
           = (CHOOSE G : G = [at \in ScanIn(h) |-> ScanOf(h, G, at)])[<<1, FALSE>>]
BY DEF Tokenize, ScanIn, ScanOf

(* What tokens there are.                                                  *)
Kinds == {Text, Dquote, "(", "<", ">"} \cup Atom

LEMMA KindFacts ==
  /\ Text \in Kinds /\ Dquote \in Kinds
  /\ "(" \in Kinds /\ "<" \in Kinds /\ ">" \in Kinds
  /\ Atom \subseteq Kinds
  /\ Token = [token : Kinds, from : Nat, len : Nat]
  /\ Text \notin Mark /\ Dquote \notin Mark /\ "(" \notin Mark
  /\ \A x \in Mark : x \notin Word
<1>1. /\ Text \in Kinds /\ Dquote \in Kinds
      /\ "(" \in Kinds /\ "<" \in Kinds /\ ">" \in Kinds
      /\ Atom \subseteq Kinds
      /\ Token = [token : Kinds, from : Nat, len : Nat]
  BY DEF Kinds, Token
<1>2. Text \notin Mark /\ Dquote \notin Mark /\ "(" \notin Mark
  BY Zenon DEF Text, Dquote, Mark, Atom
<1>3. \A x \in Mark : x \notin Word
  BY WordAssumption DEF Mark
<1> QED BY <1>1, <1>2, <1>3

(* A token at a place.                                                     *)
LEMMA MadeFacts ==
  ASSUME NEW h, NEW token \in Kinds, NEW from \in Nat,
         NEW len \in Nat, NEW lo \in Nat, NEW hi \in Nat,
         len > 0 => lo <= from /\ from + len - 1 <= hi,
         token \in Mark => len = 1 /\ h[from] \in Mark
  PROVE  /\ Made(token, from, len) \in Token
         /\ <<Made(token, from, len)>> \in Laid(h, lo, hi)
<1>1. Made(token, from, len) \in Token
  BY KindFacts DEF Made
<1>2. Span(Made(token, from, len)) \subseteq lo .. hi
  <2>1. Span(Made(token, from, len)) = from .. from + len - 1
    BY DEF Made, Span
  <2>2. ASSUME NEW x \in from .. from + len - 1 PROVE x \in lo .. hi
    <3>1. len > 0
      OBVIOUS
    <3> QED BY <3>1
  <2> QED BY <2>1, <2>2
<1>3. ASSUME token \in Mark, NEW i \in Span(Made(token, from, len)) PROVE h[i] \notin Word
  <2>1. i = from
    BY <1>3 DEF Made, Span
  <2> QED BY <1>3, <2>1, KindFacts
<1>4. Made(token, from, len).token = token
  BY DEF Made
<1> QED BY <1>1, <1>2, <1>3, <1>4, LaidOne

LEMMA WordEndFacts ==
  ASSUME NEW h, Len(h) \in Nat, NEW i \in 1 .. Len(h), h[i] \in Other
  PROVE  WordEnd(h, i) \in i + 1 .. Len(h) + 1
<1> DEFINE S == {j \in i .. Len(h) + 1 : ~IsIn(h, j, Other)}
<1>1. S \in SUBSET Nat /\ Len(h) + 1 \in S /\ i \notin S
  BY DEF IsIn
<1>2. Min(S) \in S
  <2> HIDE DEF S
  <2> QED BY <1>1, MinFacts
<1>3. WordEnd(h, i) = Min(S)
  BY DEF WordEnd
<1>4. Min(S) \in i .. Len(h) + 1 /\ Min(S) # i
  BY <1>1, <1>2
<1> HIDE DEF S
<1> QED BY <1>3, <1>4

(* What the scanner sees.                                                  *)
WordAt(h, i)    == \/ IsIn(h, i, Word)
                   \/ IsIn(h, i, {Backslash}) /\ IsIn(h, i + 1, Other)
EmptyAt(h, i)   == IsIn(h, i, {"<"}) /\ IsIn(h, i + 1, {">"})
OpenAt(h, i, b) == IsIn(h, i, {"<"}) /\ ~IsIn(h, i + 1, {">"}) /\ ~b
ShutAt(h, i, b) == IsIn(h, i, {">"}) /\ b
NoneAt(h, i, b) ==
  /\ i <= Len(h) /\ ~WordAt(h, i) /\ ~IsIn(h, i, Atom) /\ ~IsIn(h, i, {Dquote})
  /\ ~IsIn(h, i, {"("}) /\ ~EmptyAt(h, i) /\ ~OpenAt(h, i, b) /\ ~ShutAt(h, i, b)

(* It is one of these at a time, and decides what it does.                 *)
LEMMA ScanBranches ==
  ASSUME NEW h \in Seq(Symbol), NEW i \in 1 .. Len(h) + 1, NEW b \in BOOLEAN, NEW G
  PROVE  /\ i > Len(h) => ScanOf(h, G, <<i, b>>) = << >>
         /\ WordAt(h, i) => ScanOf(h, G, <<i, b>>)
              = <<Made(Text, i, WordEnd(h, i) - i)>> \o G[<<WordEnd(h, i), b>>]
         /\ IsIn(h, i, Atom) => ScanOf(h, G, <<i, b>>)
              = <<Made(h[i], i, 1)>> \o G[<<i + 1, b>>]
         /\ IsIn(h, i, {Dquote}) /\ Quotes(h, i) = {} =>
              ScanOf(h, G, <<i, b>>) = <<Made(Dquote, i, 0)>>
         /\ IsIn(h, i, {Dquote}) /\ Quotes(h, i) # {} => ScanOf(h, G, <<i, b>>)
              = <<Made(Dquote, i + 1, Min(Quotes(h, i)) - i - 1)>>
                \o G[<<Min(Quotes(h, i)) + 1, b>>]
         /\ IsIn(h, i, {"("}) /\ CommentEnd(h, i) = 0 =>
              ScanOf(h, G, <<i, b>>) = <<Made(Dquote, i, Escapes(h, i))>>
         /\ IsIn(h, i, {"("}) /\ CommentEnd(h, i) # 0 => ScanOf(h, G, <<i, b>>)
              = <<Made("(", i, CommentEnd(h, i) - i + 1)>>
                \o G[<<CommentEnd(h, i) + 1, b>>]
         /\ EmptyAt(h, i) => ScanOf(h, G, <<i, b>>)
              = <<Made("<", i, 1), Made(Text, i, 0), Made(">", i + 1, 1)>>
                \o G[<<i + 2, b>>]
         /\ OpenAt(h, i, b) => ScanOf(h, G, <<i, b>>)
              = <<Made("<", i, 1)>> \o G[<<i + 1, TRUE>>]
         /\ ShutAt(h, i, b) => ScanOf(h, G, <<i, b>>)
              = <<Made(">", i, 1)>> \o G[<<i + 1, FALSE>>]
         /\ NoneAt(h, i, b) => ScanOf(h, G, <<i, b>>) = G[<<i + 1, b>>]
<1> DEFINE n == Len(h)
           at == <<i, b>>
           word  == WordAt(h, i)
           atom  == IsIn(h, i, Atom)
           quote == IsIn(h, i, {Dquote})
           paren == IsIn(h, i, {"("})
           empty == EmptyAt(h, i)
           open  == OpenAt(h, i, b)
           shut  == ShutAt(h, i, b)
<1>0. n \in Nat /\ i \in Nat /\ at[1] = i /\ at[2] = b
  BY LenProperties
<1>s. \A S : IsIn(h, i, S) <=> i <= n /\ h[i] \in S
  BY DEF IsIn
<1>w. word => i <= n /\ h[i] \in Other /\ h[i] \notin Atom \cup {Dquote, "(", "<", ">"}
  BY WordAssumption, MarksDiffer DEF WordAt, Other, IsIn
<1>t. /\ word \in BOOLEAN /\ atom \in BOOLEAN /\ quote \in BOOLEAN /\ paren \in BOOLEAN
      /\ empty \in BOOLEAN /\ open \in BOOLEAN /\ shut \in BOOLEAN
  BY <1>0 DEF WordAt, EmptyAt, OpenAt, ShutAt, IsIn
<1>a. /\ atom => i <= n /\ h[i] \in Atom
      /\ quote => i <= n /\ h[i] = Dquote
      /\ paren => i <= n /\ h[i] = "("
      /\ empty => i <= n /\ h[i] = "<"
      /\ open => i <= n /\ h[i] = "<"
      /\ shut => i <= n /\ h[i] = ">"
      /\ ~(empty /\ open)
  BY <1>0, <1>s DEF EmptyAt, OpenAt, ShutAt
<1>n. i <= n => ~(i > n)
  BY <1>0
<1> DEFINE Only(g, e, s, t, u, v, y) == g /\ ~(i > n) /\ ~e /\ ~s /\ ~t /\ ~u /\ ~v /\ ~y
<1>g. /\ i > n => ~word /\ ~atom /\ ~quote /\ ~paren /\ ~empty /\ ~open /\ ~shut
      /\ word => Only(word, atom, quote, paren, empty, open, shut)
      /\ atom => Only(atom, word, quote, paren, empty, open, shut)
      /\ quote => Only(quote, word, atom, paren, empty, open, shut)
      /\ paren => Only(paren, word, atom, quote, empty, open, shut)
      /\ empty => Only(empty, word, atom, quote, paren, open, shut)
      /\ open => Only(open, word, atom, quote, paren, empty, shut)
      /\ shut => Only(shut, word, atom, quote, paren, empty, open)
  <2> HIDE DEF word, atom, quote, paren, empty, open, shut
  <2>1. i > n => ~word /\ ~atom /\ ~quote /\ ~paren /\ ~empty /\ ~open /\ ~shut
    BY Zenon, <1>n, <1>w, <1>a, MarksDiffer
  <2>2. word => Only(word, atom, quote, paren, empty, open, shut)
    BY Zenon, <1>n, <1>w, <1>a, MarksDiffer
  <2>3. atom => Only(atom, word, quote, paren, empty, open, shut)
    BY Zenon, <1>n, <1>w, <1>a, MarksDiffer
  <2>4. quote => Only(quote, word, atom, paren, empty, open, shut)
    BY Zenon, <1>n, <1>w, <1>a, MarksDiffer
  <2>5. paren => Only(paren, word, atom, quote, empty, open, shut)
    BY Zenon, <1>n, <1>w, <1>a, MarksDiffer
  <2>6. empty => Only(empty, word, atom, quote, paren, open, shut)
    BY Zenon, <1>n, <1>w, <1>a, MarksDiffer
  <2>7. open => Only(open, word, atom, quote, paren, empty, shut)
    BY Zenon, <1>n, <1>w, <1>a, MarksDiffer
  <2>8. shut => Only(shut, word, atom, quote, paren, empty, open)
    BY Zenon, <1>n, <1>w, <1>a, MarksDiffer
  <2> QED BY <2>1, <2>2, <2>3, <2>4, <2>5, <2>6, <2>7, <2>8
<1>o. ScanOf(h, G, at) =
        CASE i > n -> << >>
          [] word -> <<Made(Text, i, WordEnd(h, i) - i)>> \o G[<<WordEnd(h, i), b>>]
          [] atom -> <<Made(h[i], i, 1)>> \o G[<<i + 1, b>>]
          [] quote ->
               IF Quotes(h, i) = {} THEN <<Made(Dquote, i, 0)>>
               ELSE <<Made(Dquote, i + 1, Min(Quotes(h, i)) - i - 1)>>
                    \o G[<<Min(Quotes(h, i)) + 1, b>>]
          [] paren ->
               IF CommentEnd(h, i) = 0 THEN <<Made(Dquote, i, Escapes(h, i))>>
               ELSE <<Made("(", i, CommentEnd(h, i) - i + 1)>>
                    \o G[<<CommentEnd(h, i) + 1, b>>]
          [] empty -> <<Made("<", i, 1), Made(Text, i, 0), Made(">", i + 1, 1)>>
                      \o G[<<i + 2, b>>]
          [] open -> <<Made("<", i, 1)>> \o G[<<i + 1, TRUE>>]
          [] shut -> <<Made(">", i, 1)>> \o G[<<i + 1, FALSE>>]
          [] OTHER -> G[<<i + 1, b>>]
  BY Zenon, <1>0 DEF ScanOf, WordAt, EmptyAt, OpenAt, ShutAt
<1> HIDE DEF word, atom, quote, paren, empty, open, shut
<1>1. i > n => ScanOf(h, G, at) = << >>
  BY Zenon, <1>g, <1>o
<1>2. word => ScanOf(h, G, at) = <<Made(Text, i, WordEnd(h, i) - i)>> \o G[<<WordEnd(h, i), b>>]
  BY Zenon, <1>g, <1>o
<1>3. atom => ScanOf(h, G, at) = <<Made(h[i], i, 1)>> \o G[<<i + 1, b>>]
  BY Zenon, <1>g, <1>o
<1>4. quote => ScanOf(h, G, at) =
        IF Quotes(h, i) = {} THEN <<Made(Dquote, i, 0)>>
        ELSE <<Made(Dquote, i + 1, Min(Quotes(h, i)) - i - 1)>>
             \o G[<<Min(Quotes(h, i)) + 1, b>>]
  BY Zenon, <1>g, <1>o
<1>5. paren => ScanOf(h, G, at) =
        IF CommentEnd(h, i) = 0 THEN <<Made(Dquote, i, Escapes(h, i))>>
        ELSE <<Made("(", i, CommentEnd(h, i) - i + 1)>> \o G[<<CommentEnd(h, i) + 1, b>>]
  BY Zenon, <1>g, <1>o
<1>6. empty => ScanOf(h, G, at)
        = <<Made("<", i, 1), Made(Text, i, 0), Made(">", i + 1, 1)>> \o G[<<i + 2, b>>]
  BY Zenon, <1>g, <1>o
<1>7. open => ScanOf(h, G, at) = <<Made("<", i, 1)>> \o G[<<i + 1, TRUE>>]
  BY Zenon, <1>g, <1>o
<1>8. shut => ScanOf(h, G, at) = <<Made(">", i, 1)>> \o G[<<i + 1, FALSE>>]
  BY Zenon, <1>g, <1>o
<1>9. NoneAt(h, i, b) => ScanOf(h, G, at) = G[<<i + 1, b>>]
  <2>1. NoneAt(h, i, b) => /\ ~(i > n) /\ ~word /\ ~atom /\ ~quote /\ ~paren
                           /\ ~empty /\ ~open /\ ~shut
    BY Zenon, <1>n DEF NoneAt, word, atom, quote, paren, empty, open, shut
  <2> QED BY Zenon, <2>1, <1>o
<1> QED
  BY Zenon, <1>1, <1>2, <1>3, <1>4, <1>5, <1>6, <1>7, <1>8, <1>9
     DEF word, atom, quote, paren, empty, open, shut

(* It is known what follows, or comes from one place behind.               *)
LEMMA ScanShape ==
  ASSUME NEW h \in Seq(Symbol), NEW i \in 1 .. Len(h) + 1, NEW b \in BOOLEAN
  PROVE  \/ \E toks \in Laid(h, i, Len(h)) : \A G : ScanOf(h, G, <<i, b>>) = toks
         \/ \E e \in ScanIn(h) : \E toks \in Laid(h, i, e[1] - 1) :
              e[1] > i /\ \A G : ScanOf(h, G, <<i, b>>) = toks \o G[e]
         \/ \E e \in ScanIn(h) :
              e[1] > i /\ \A G : ScanOf(h, G, <<i, b>>) = G[e]
<1> DEFINE n == Len(h)
           at == <<i, b>>
           word  == WordAt(h, i)
           atom  == IsIn(h, i, Atom)
           quote == IsIn(h, i, {Dquote})
           paren == IsIn(h, i, {"("})
           empty == EmptyAt(h, i)
           open  == OpenAt(h, i, b)
           shut  == ShutAt(h, i, b)
<1>0. /\ n \in Nat
      /\ \A k \in 1 .. n : h[k] \in Symbol
      /\ \A k \in 1 .. n + 1, z \in BOOLEAN : << k, z >> \in ScanIn(h) /\ << k, z >>[1] = k
  BY LenProperties DEF ScanIn
<1>b. \A k \in 1 .. n + 1 : /\ << k, TRUE >> \in ScanIn(h) /\ << k, TRUE >>[1] = k
                           /\ << k, FALSE >> \in ScanIn(h) /\ << k, FALSE >>[1] = k
  <2>1. TRUE \in BOOLEAN /\ FALSE \in BOOLEAN
    OBVIOUS
  <2> QED BY Zenon, <1>0, <2>1
<1>s. \A S : IsIn(h, i, S) <=> i <= n /\ h[i] \in S
  BY DEF IsIn
<1>w. word => i <= n /\ h[i] \in Other
  BY WordAssumption DEF WordAt, Other, IsIn
<1>a. /\ atom => i <= n /\ h[i] \in Atom
      /\ quote => i <= n /\ h[i] = Dquote
      /\ paren => i <= n /\ h[i] = "("
      /\ empty => i <= n /\ i + 1 <= n /\ h[i] = "<" /\ h[i + 1] = ">"
      /\ open => i <= n /\ h[i] = "<"
      /\ shut => i <= n /\ h[i] = ">"
  BY <1>0, <1>s DEF EmptyAt, OpenAt, ShutAt, IsIn
<1>1. CASE i > n
  <2>1. \A G : ScanOf(h, G, at) = << >>
    BY Zenon, <1>0, <1>1, ScanBranches
  <2> QED BY <2>1, LaidNone
<1>2. CASE word
  <2> DEFINE k == WordEnd(h, i)
  <2>1. h[i] \in Other
    BY <1>2, <1>w
  <2>2. k \in i + 1 .. n + 1
    BY <1>0, <1>2, <1>w, <2>1, WordEndFacts
  <2>3. \A G : ScanOf(h, G, at) = <<Made(Text, i, k - i)>> \o G[<<k, b>>]
    BY Zenon, <1>0, <1>2, ScanBranches
  <2> HIDE DEF k
  <2>4. <<Made(Text, i, k - i)>> \in Laid(h, i, k - 1)
    <3>1. k - i \in Nat /\ i \in Nat /\ k - 1 \in Nat /\ i + (k - i) - 1 <= k - 1 /\ i <= i
      BY <1>0, <2>2
    <3> DEFINE len == k - i
               hi == k - 1
    <3>2. len \in Nat /\ hi \in Nat /\ i \in Nat /\ (len > 0 => i <= i /\ i + len - 1 <= hi)
      BY <3>1
    <3> HIDE DEF len, hi
    <3>3. <<Made(Text, i, len)>> \in Laid(h, i, hi)
      BY <3>2, KindFacts, MadeFacts
    <3> QED BY <3>3 DEF len, hi
  <2>5. <<k, b>> \in ScanIn(h) /\ <<k, b>>[1] = k /\ k > i
    BY <1>0, <2>2
  <2> QED BY <2>3, <2>4, <2>5
<1>3. CASE atom
  <2>1. \A G : ScanOf(h, G, at) = <<Made(h[i], i, 1)>> \o G[<<i + 1, b>>]
    BY Zenon, <1>0, <1>3, ScanBranches
  <2>2. <<Made(h[i], i, 1)>> \in Laid(h, i, (i + 1) - 1)
    <3>1. h[i] \in Mark /\ h[i] \in Kinds /\ i \in Nat /\ (i + 1) - 1 \in Nat /\ i + 1 - 1 = i
      BY <1>0, <1>3, <1>a, KindFacts DEF Mark
    <3> QED BY <3>1, MadeFacts
  <2>3. <<i + 1, b>> \in ScanIn(h) /\ <<i + 1, b>>[1] = i + 1 /\ i + 1 > i
    BY <1>0, <1>3, <1>a
  <2> QED BY <2>1, <2>2, <2>3
<1>4. CASE quote /\ Quotes(h, i) = {}
  <2>1. \A G : ScanOf(h, G, at) = <<Made(Dquote, i, 0)>>
    BY Zenon, <1>0, <1>4, ScanBranches
  <2>2. <<Made(Dquote, i, 0)>> \in Laid(h, i, n)
    BY <1>0, KindFacts, MadeFacts
  <2> QED BY <2>1, <2>2
<1>5. CASE quote /\ Quotes(h, i) # {}
  <2> DEFINE k == Min(Quotes(h, i))
  <2>1. \A G : ScanOf(h, G, at) = <<Made(Dquote, i + 1, k - i - 1)>> \o G[<<k + 1, b>>]
    BY Zenon, <1>0, <1>5, ScanBranches
  <2>2. Quotes(h, i) \subseteq i + 1 .. n /\ Quotes(h, i) \in SUBSET Nat
    BY <1>0 DEF Quotes
  <2>3. k \in i + 1 .. n
    BY <1>5, <2>2, MinFacts
  <2> HIDE DEF k
  <2>4. <<Made(Dquote, i + 1, k - i - 1)>> \in Laid(h, i, (k + 1) - 1)
    <3> DEFINE from == i + 1
               len  == k - i - 1
               hi   == (k + 1) - 1
    <3>1. /\ from \in Nat /\ len \in Nat /\ hi \in Nat /\ i \in Nat
          /\ len > 0 => i <= from /\ from + len - 1 <= hi
      BY <1>0, <2>3
    <3> HIDE DEF from, len, hi
    <3>2. <<Made(Dquote, from, len)>> \in Laid(h, i, hi)
      BY <3>1, KindFacts, MadeFacts
    <3> QED BY <3>2 DEF from, len, hi
  <2>5. <<k + 1, b>> \in ScanIn(h) /\ <<k + 1, b>>[1] = k + 1 /\ k + 1 > i
    BY <1>0, <2>3
  <2> QED BY <2>1, <2>4, <2>5
<1>6. CASE paren /\ CommentEnd(h, i) = 0
  <2>1. \A G : ScanOf(h, G, at) = <<Made(Dquote, i, Escapes(h, i))>>
    <3> SUFFICES ASSUME NEW G PROVE ScanOf(h, G, at) = <<Made(Dquote, i, Escapes(h, i))>>
      OBVIOUS
    <3>1. IsIn(h, i, {"("}) /\ CommentEnd(h, i) = 0 =>
            ScanOf(h, G, <<i, b>>) = <<Made(Dquote, i, Escapes(h, i))>>
      BY ScanBranches
    <3> QED BY Zenon, <1>6, <3>1
  <2>2. Escapes(h, i) \in 0 .. n - i
    BY <1>0, <1>6, <1>a, EscapesFacts
  <2>3. <<Made(Dquote, i, Escapes(h, i))>> \in Laid(h, i, n)
    BY <1>0, <2>2, KindFacts, MadeFacts
  <2> QED BY <2>1, <2>3
<1>7. CASE paren /\ CommentEnd(h, i) # 0
  <2> DEFINE k == CommentEnd(h, i)
  <2>1. \A G : ScanOf(h, G, at) = <<Made("(", i, k - i + 1)>> \o G[<<k + 1, b>>]
    BY Zenon, <1>0, <1>7, ScanBranches
  <2>2. k \in i + 1 .. n
    BY <1>0, <1>7, <1>a, CommentEndFacts
  <2> HIDE DEF k
  <2>3. <<Made("(", i, k - i + 1)>> \in Laid(h, i, (k + 1) - 1)
    <3> DEFINE from == i
               len  == k - i + 1
               hi   == (k + 1) - 1
    <3>1. /\ from \in Nat /\ len \in Nat /\ hi \in Nat /\ i \in Nat
          /\ len > 0 => i <= from /\ from + len - 1 <= hi
      BY <1>0, <2>2
    <3> HIDE DEF from, len, hi
    <3>2. <<Made("(", from, len)>> \in Laid(h, i, hi)
      BY <3>1, KindFacts, MadeFacts
    <3> QED BY <3>2 DEF from, len, hi
  <2>4. <<k + 1, b>> \in ScanIn(h) /\ <<k + 1, b>>[1] = k + 1 /\ k + 1 > i
    BY <1>0, <2>2
  <2> QED BY <2>1, <2>3, <2>4
<1>8. CASE empty
  <2> DEFINE toks == <<Made("<", i, 1), Made(Text, i, 0), Made(">", i + 1, 1)>>
  <2>1. \A G : ScanOf(h, G, at) = toks \o G[<<i + 2, b>>]
    BY Zenon, <1>0, <1>8, ScanBranches
  <2>2. i + 1 <= n
    BY <1>8, <1>a
  <2>3. toks \in Laid(h, i, (i + 2) - 1)
    <3>1. Made("<", i, 1) \in Token /\ Made(Text, i, 0) \in Token /\ Made(">", i + 1, 1) \in Token
      BY <1>0, <2>2, KindFacts DEF Made
    <3>2. /\ Span(Made("<", i, 1)) = i .. i /\ Span(Made(Text, i, 0)) = {}
          /\ Span(Made(">", i + 1, 1)) = i + 1 .. i + 1
      BY <1>0 DEF Made, Span
    <3>3. /\ toks \in Seq(Token) /\ DOMAIN toks = {1, 2, 3}
          /\ Span(toks[1]) = i .. i /\ Span(toks[2]) = {}
          /\ Span(toks[3]) = i + 1 .. i + 1
      BY <3>1, <3>2
    <3>m. /\ toks[1].token = "<" /\ toks[2].token = Text /\ toks[3].token = ">"
          /\ h[i] = "<" /\ h[i + 1] = ">"
      BY <1>8, <1>a DEF Made
    <3> HIDE DEF toks
    <3>6. \A k \in {1, 2, 3} : toks[k].token \in Mark =>
            \A y \in Span(toks[k]) : h[y] \notin Word
      <4>1. h[i] \notin Word /\ h[i + 1] \notin Word
        BY <3>m, KindFacts DEF Mark
      <4>2. \A y \in Span(toks[1]) : y = i
        BY <1>0, <3>3
      <4>3. \A y \in Span(toks[3]) : y = i + 1
        BY <1>0, <3>3
      <4> QED BY <3>3, <4>1, <4>2, <4>3
    <3>4. \A k \in {1, 2, 3} : Span(toks[k]) \subseteq i .. (i + 2) - 1
      BY <1>0, <3>3
    <3>5. \A j, k \in {1, 2, 3} : j < k =>
            \A y \in Span(toks[j]), z \in Span(toks[k]) : y < z
      BY <1>0, <3>3
    <3> QED BY <3>3, <3>4, <3>5, <3>6 DEF Laid
  <2>4. <<i + 2, b>> \in ScanIn(h) /\ <<i + 2, b>>[1] = i + 2 /\ i + 2 > i
    BY <1>0, <2>2
  <2> HIDE DEF toks
  <2> QED BY <2>1, <2>3, <2>4
<1>9. CASE open
  <2>1. \A G : ScanOf(h, G, at) = <<Made("<", i, 1)>> \o G[<<i + 1, TRUE>>]
    BY Zenon, <1>0, <1>9, ScanBranches
  <2>2. <<Made("<", i, 1)>> \in Laid(h, i, (i + 1) - 1)
    <3>1. h[i] \in Mark /\ i \in Nat /\ (i + 1) - 1 \in Nat /\ i + 1 - 1 = i
      BY <1>0, <1>9, <1>a DEF Mark
    <3> QED BY <3>1, KindFacts, MadeFacts
  <2>3. <<i + 1, TRUE>> \in ScanIn(h) /\ <<i + 1, TRUE>>[1] = i + 1 /\ i + 1 > i
    <3>1. i + 1 \in 1 .. n + 1 /\ i + 1 > i
      BY <1>0, <1>9, <1>a
    <3> QED BY Zenon, <3>1, <1>b
  <2> QED BY <2>1, <2>2, <2>3
<1>10. CASE shut
  <2>1. \A G : ScanOf(h, G, at) = <<Made(">", i, 1)>> \o G[<<i + 1, FALSE>>]
    BY Zenon, <1>0, <1>10, ScanBranches
  <2>2. <<Made(">", i, 1)>> \in Laid(h, i, (i + 1) - 1)
    <3>1. h[i] \in Mark /\ i \in Nat /\ (i + 1) - 1 \in Nat /\ i + 1 - 1 = i
      BY <1>0, <1>10, <1>a DEF Mark
    <3> QED BY <3>1, KindFacts, MadeFacts
  <2>3. <<i + 1, FALSE>> \in ScanIn(h) /\ <<i + 1, FALSE>>[1] = i + 1 /\ i + 1 > i
    <3>1. i + 1 \in 1 .. n + 1 /\ i + 1 > i
      BY <1>0, <1>10, <1>a
    <3> QED BY Zenon, <3>1, <1>b
  <2> QED BY <2>1, <2>2, <2>3
<1>11. CASE NoneAt(h, i, b)
  <2>1. \A G : ScanOf(h, G, at) = G[<<i + 1, b>>]
    BY Zenon, <1>0, <1>11, ScanBranches
  <2>2. <<i + 1, b>> \in ScanIn(h) /\ <<i + 1, b>>[1] = i + 1 /\ i + 1 > i
    BY <1>0, <1>11 DEF NoneAt
  <2> QED BY <2>1, <2>2
<1>12. i > n \/ word \/ atom \/ quote \/ paren \/ empty \/ open \/ shut \/ NoneAt(h, i, b)
  <2>1. i > n \/ i <= n
    BY <1>0
  <2> QED BY Zenon, <2>1 DEF NoneAt
<1> QED BY <1>1, <1>2, <1>3, <1>4, <1>5, <1>6, <1>7, <1>8, <1>9, <1>10, <1>11, <1>12

(* The scanner gives well-formed tokens that take their symbols from the   *)
(* header in order, none twice, from wherever it is.                       *)
LEMMA TokenizeRuns ==
  ASSUME NEW h \in Seq(Symbol)
  PROVE  \E G : /\ \A at \in ScanIn(h) : /\ G[at] = ScanOf(h, G, at)
                                         /\ G[at] \in Laid(h, at[1], Len(h))
               /\ Tokenize(h) = G[<<1, FALSE>>]
<1> DEFINE n == Len(h)
           D == ScanIn(h)
           T == Seq(Token)
           r == [at \in D |-> n + 1 - at[1]]
           F == [at \in D |-> [G \in [D -> T] |-> ScanOf(h, G, at)]]
<1>0. n \in Nat /\ \A at \in D : at[1] \in 1 .. n + 1
  BY LenProperties DEF ScanIn
<1>1. /\ r \in [D -> Nat] /\ \A at \in D : r[at] <= n + 1
      /\ \A at, e \in D : e[1] > at[1] => r[e] < r[at]
  BY <1>0
<1>2. \A at \in D, G \in [D -> T] : F[at][G] = ScanOf(h, G, at)
  OBVIOUS
<1>l. \A lo, hi : Laid(h, lo, hi) \subseteq T
  BY DEF Laid
<1>s. \A at \in D :
        \/ \E toks \in Laid(h, at[1], n) : \A G : ScanOf(h, G, at) = toks
        \/ \E e \in D : \E toks \in Laid(h, at[1], e[1] - 1) :
             e[1] > at[1] /\ \A G : ScanOf(h, G, at) = toks \o G[e]
        \/ \E e \in D :
             e[1] > at[1] /\ \A G : ScanOf(h, G, at) = G[e]
  <2> SUFFICES ASSUME NEW at \in D
               PROVE  \/ \E toks \in Laid(h, at[1], n) : \A G : ScanOf(h, G, at) = toks
                      \/ \E e \in D : \E toks \in Laid(h, at[1], e[1] - 1) :
                           e[1] > at[1] /\ \A G : ScanOf(h, G, at) = toks \o G[e]
                      \/ \E e \in D :
                           e[1] > at[1] /\ \A G : ScanOf(h, G, at) = G[e]
    OBVIOUS
  <2>1. PICK i \in 1 .. n + 1, b \in BOOLEAN : at = <<i, b>>
    BY DEF ScanIn
  <2>2. at[1] = i
    BY <2>1
  <2>3. \/ \E toks \in Laid(h, i, n) : \A G : ScanOf(h, G, <<i, b>>) = toks
        \/ \E e \in D : \E toks \in Laid(h, i, e[1] - 1) :
             e[1] > i /\ \A G : ScanOf(h, G, <<i, b>>) = toks \o G[e]
        \/ \E e \in D :
             e[1] > i /\ \A G : ScanOf(h, G, <<i, b>>) = G[e]
    BY ScanShape
  <2> HIDE DEF n, D
  <2> QED BY <2>1, <2>2, <2>3
<1> HIDE DEF D, r, T
<1>3. ASSUME NEW at \in D, NEW G \in [D -> T] PROVE ScanOf(h, G, at) \in T
  <2>1. CASE \E toks \in Laid(h, at[1], n) : \A H : ScanOf(h, H, at) = toks
    BY <1>l, <2>1
  <2>2. ASSUME NEW e \in D, NEW toks \in Laid(h, at[1], e[1] - 1),
               \A H : ScanOf(h, H, at) = toks \o H[e]
        PROVE  ScanOf(h, G, at) \in T
    <3>1. toks \in T /\ G[e] \in T
      BY <1>l
    <3>2. toks \o G[e] \in T
      BY <3>1, ConcatProperties DEF T
    <3> QED BY <2>2, <3>2
  <2>3. CASE \E e \in D : e[1] > at[1] /\ \A H : ScanOf(h, H, at) = H[e]
    BY <2>3
  <2> QED BY <1>s, <2>1, <2>2, <2>3
<1>4. F \in [D -> [[D -> T] -> T]]
  BY <1>3
<1> HIDE DEF F
<1>5. ASSUME NEW at \in D, NEW G \in [D -> T], NEW H \in [D -> T],
             \A e \in D : r[e] < r[at] => G[e] = H[e]
      PROVE  F[at][G] = F[at][H]
  <2>1. CASE \E toks \in Laid(h, at[1], n) : \A J : ScanOf(h, J, at) = toks
    BY <1>2, <2>1
  <2>2. ASSUME NEW e \in D, NEW toks, e[1] > at[1],
               \A J : ScanOf(h, J, at) = toks \o J[e]
        PROVE  F[at][G] = F[at][H]
    <3>1. G[e] = H[e]
      BY <1>1, <1>5, <2>2
    <3> QED BY <1>2, <2>2, <3>1
  <2>3. CASE \E e \in D : e[1] > at[1] /\ \A J : ScanOf(h, J, at) = J[e]
    BY <1>1, <1>2, <1>5, <2>3
  <2> QED BY <1>s, <2>1, <2>2, <2>3
<1>6. PICK g \in [D -> T] : \A at \in D : g[at] = F[at][g]
  <2>1. RankedBy(F, r, n + 1, D, T)
    <3>0. << >> \in T
      BY EmptySeq DEF T
    <3>1. n + 1 \in Nat /\ T # {}
      BY <1>0, <3>0
    <3> QED BY <3>1, <1>1, <1>4, <1>5 DEF RankedBy
  <2> QED BY <2>1, Recursion
<1>7. g = [at \in D |-> ScanOf(h, g, at)]
  BY <1>2, <1>6
<1>8. PICK G : G = [at \in D |-> ScanOf(h, G, at)] /\ Tokenize(h) = G[<<1, FALSE>>]
  <2>1. Tokenize(h) = (CHOOSE G : G = [at \in D |-> ScanOf(h, G, at)])[<<1, FALSE>>]
    BY TokenizeUnfolds DEF D
  <2> DEFINE C == CHOOSE G : G = [at \in D |-> ScanOf(h, G, at)]
  <2>2. C = [at \in D |-> ScanOf(h, C, at)]
    BY Zenon, <1>7
  <2>3. Tokenize(h) = C[<<1, FALSE>>]
    BY Zenon, <2>1
  <2> HIDE DEF C
  <2> QED BY Zenon, <2>2, <2>3
<1> DEFINE P == [at \in D |-> Laid(h, at[1], n)]
<1>9. ASSUME NEW at \in D, \A e \in D : r[e] < r[at] => G[e] \in P[e]
      PROVE  G[at] \in P[at]
  <2>0. G[at] = ScanOf(h, G, at)
    BY <1>8
  <2>1. CASE \E toks \in Laid(h, at[1], n) : \A J : ScanOf(h, J, at) = toks
    BY <2>0, <2>1
  <2>2. ASSUME NEW e \in D, NEW toks \in Laid(h, at[1], e[1] - 1), e[1] > at[1],
               \A J : ScanOf(h, J, at) = toks \o J[e]
        PROVE  G[at] \in P[at]
    <3>1. G[e] \in Laid(h, e[1], n)
      BY <1>1, <1>9, <2>2
    <3>2. at[1] \in Nat /\ e[1] \in Nat /\ at[1] <= e[1] /\ e[1] <= n + 1 /\ n \in Nat
      BY <1>0, <2>2
    <3>3. toks \o G[e] \in Laid(h, at[1], n)
      BY <3>1, <3>2, LaidOver
    <3> QED BY <2>0, <2>2, <3>3
  <2>3. ASSUME NEW e \in D, e[1] > at[1], \A J : ScanOf(h, J, at) = J[e]
        PROVE  G[at] \in P[at]
    <3>1. G[e] \in Laid(h, e[1], n)
      BY <1>1, <1>9, <2>3
    <3>2. at[1] \in Nat /\ e[1] \in Nat /\ at[1] <= e[1] /\ e[1] <= n + 1 /\ n \in Nat
      BY <1>0, <2>3
    <3>3. << >> \o G[e] \in Laid(h, at[1], n)
      BY <3>1, <3>2, LaidOver, LaidNone
    <3>4. << >> \o G[e] = G[e]
      BY <1>l, <3>1, ConcatEmptySeq DEF T
    <3> QED BY <2>0, <2>3, <3>3, <3>4
  <2> QED BY <1>s, <2>1, <2>2, <2>3
<1>10. \A at \in D : G[at] \in P[at]
  <2> HIDE DEF P
  <2>1. Carried(D, r, G, P)
    BY <1>1, <1>9 DEF Carried
  <2> QED BY <2>1, Ranked
<1>11. \A at \in D : G[at] = ScanOf(h, G, at) /\ G[at] \in Laid(h, at[1], n)
  BY <1>8, <1>10
<1> QED BY <1>8, <1>11 DEF D

LEMMA TokenizeFacts ==
  ASSUME NEW h \in Seq(Symbol)
  PROVE  Tokenize(h) \in Laid(h, 1, Len(h))
<1>1. PICK G : /\ \A at \in ScanIn(h) : /\ G[at] = ScanOf(h, G, at)
                                       /\ G[at] \in Laid(h, at[1], Len(h))
               /\ Tokenize(h) = G[<<1, FALSE>>]
  BY TokenizeRuns
<1>2. 1 \in 1 .. Len(h) + 1
  BY LenProperties
<1> DEFINE start == <<1, FALSE>>
<1>3. start \in ScanIn(h) /\ start[1] = 1 /\ Tokenize(h) = G[start]
  BY Zenon, <1>1, <1>2 DEF ScanIn
<1> HIDE DEF start
<1>4. G[start] \in Laid(h, start[1], Len(h))
  BY <1>1, <1>3
<1> QED BY <1>3, <1>4

-----------------------------------------------------------------------------
(* What stands in sequences that are put together.                         *)
LEMMA RangeOfConcat ==
  ASSUME NEW S, NEW s \in Seq(S), NEW t \in Seq(S)
  PROVE  s \o t \in Seq(S) /\ Range(s \o t) = Range(s) \cup Range(t)
<1>1. /\ s \o t \in Seq(S) /\ Len(s) \in Nat /\ Len(t) \in Nat
      /\ DOMAIN s = 1 .. Len(s) /\ DOMAIN t = 1 .. Len(t)
      /\ DOMAIN (s \o t) = 1 .. Len(s) + Len(t)
      /\ \A i \in 1 .. Len(s) + Len(t) :
           (s \o t)[i] = IF i <= Len(s) THEN s[i] ELSE t[i - Len(s)]
  BY ConcatProperties, LenProperties
<1> DEFINE all == s \o t
<1>2. ASSUME NEW i \in DOMAIN all PROVE all[i] \in Range(s) \cup Range(t)
  <2>1. CASE i <= Len(s)
    BY <1>1, <2>1 DEF Range
  <2>2. CASE ~(i <= Len(s))
    <3>1. i - Len(s) \in DOMAIN t /\ all[i] = t[i - Len(s)]
      BY <1>1, <2>2
    <3> QED BY <3>1 DEF Range
  <2> QED BY <2>1, <2>2
<1>3. ASSUME NEW i \in DOMAIN s PROVE s[i] \in Range(all)
  <2>1. i \in DOMAIN all /\ all[i] = s[i]
    BY <1>1
  <2> QED BY <2>1 DEF Range
<1>4. ASSUME NEW i \in DOMAIN t PROVE t[i] \in Range(all)
  <2>1. i + Len(s) \in DOMAIN all /\ all[i + Len(s)] = t[(i + Len(s)) - Len(s)]
    BY <1>1
  <2>2. (i + Len(s)) - Len(s) = i
    BY <1>1
  <2> QED BY <2>1, <2>2 DEF Range
<1> HIDE DEF all
<1>5. Range(all) = Range(s) \cup Range(t)
  BY <1>2, <1>3, <1>4 DEF Range
<1> QED BY <1>1, <1>5 DEF all

LEMMA RangeOfSubSeq ==
  ASSUME NEW S, NEW s \in Seq(S), NEW m \in Int, NEW n \in Int, m .. n \subseteq 1 .. Len(s)
  PROVE  SubSeq(s, m, n) \in Seq(S) /\ Range(SubSeq(s, m, n)) = {s[i] : i \in m .. n}
<1> DEFINE t == SubSeq(s, m, n)
<1>0. \A i \in m .. n : s[i] \in S
  BY LenProperties
<1>1. /\ t \in Seq(S) /\ Len(t) = IF m <= n THEN n - m + 1 ELSE 0
      /\ \A i \in 1 .. n - m + 1 : t[i] = s[m + i - 1]
      /\ DOMAIN t = 1 .. Len(t)
  BY <1>0, SubSeqProperties, LenProperties
<1> HIDE DEF t
<1>2. DOMAIN t = 1 .. n - m + 1
  BY <1>1
<1>3. ASSUME NEW i \in 1 .. n - m + 1 PROVE t[i] \in {s[j] : j \in m .. n}
  <2>1. m + i - 1 \in m .. n /\ t[i] = s[m + i - 1]
    BY <1>1
  <2> QED BY <2>1
<1>4. ASSUME NEW j \in m .. n PROVE s[j] \in Range(t)
  <2>1. j - m + 1 \in 1 .. n - m + 1
    OBVIOUS
  <2>2. t[j - m + 1] = s[m + (j - m + 1) - 1] /\ m + (j - m + 1) - 1 = j
    BY <1>1, <2>1
  <2> QED BY <1>2, <2>1, <2>2 DEF Range
<1>5. Range(t) = {s[i] : i \in m .. n}
  BY <1>2, <1>3, <1>4 DEF Range
<1> QED BY <1>1, <1>5 DEF t

(* A function on the first numbers is a sequence.                          *)
LEMMA FirstNumbers ==
  ASSUME NEW S, NEW n \in Int, NEW f \in [1 .. n -> S]
  PROVE  f \in Seq(S)
<1> DEFINE m == IF n \in Nat THEN n ELSE 0
<1>1. m \in Nat /\ 1 .. m = 1 .. n
  OBVIOUS
<1>2. f \in [1 .. m -> S]
  BY <1>1
<1> QED BY <1>1, <1>2, SeqDef

LEMMA RangeOfOne ==
  ASSUME NEW S, NEW x \in S
  PROVE  /\ << x >> \in Seq(S) /\ Range(<< x >>) = {x}
         /\ << >> \in Seq(S) /\ Range(<< >>) = {}
<1>1. << x >> \in Seq(S) /\ DOMAIN << x >> = {1} /\ << x >>[1] = x
  OBVIOUS
<1>2. << >> \in Seq(S) /\ DOMAIN << >> = {}
  BY EmptySeq, LenProperties
<1> QED BY <1>1, <1>2 DEF Range

(* What FlattenSeq puts together.                                          *)
FlatOf(seqs, G, i) == IF i = 1 THEN seqs[i] ELSE G[i - 1] \o seqs[i]

LEMMA FlattenUnfolds ==
  ASSUME NEW seqs, Len(seqs) # 0
  PROVE  FlattenSeq(seqs)
           = (CHOOSE G : G = [i \in 1 .. Len(seqs) |-> FlatOf(seqs, G, i)])[Len(seqs)]
BY DEF FlattenSeq, FlatOf

(* FlattenSeq computes step by step ...                                    *)
LEMMA FlattenRuns ==
  ASSUME NEW S, NEW seqs \in Seq(Seq(S)), Len(seqs) # 0
  PROVE  \E G \in [1 .. Len(seqs) -> Seq(S)] :
           /\ \A i \in 1 .. Len(seqs) : G[i] = FlatOf(seqs, G, i)
           /\ FlattenSeq(seqs) = G[Len(seqs)]
<1> DEFINE n == Len(seqs)
           D == 1 .. n
           T == Seq(S)
           r == [i \in D |-> i]
           F == [i \in D |-> [G \in [D -> T] |-> FlatOf(seqs, G, i)]]
<1>0. n \in Nat /\ DOMAIN seqs = D /\ \A i \in D : seqs[i] \in T
  BY LenProperties
<1>1. r \in [D -> Nat] /\ (\A i \in D : r[i] <= n) /\ \A i \in D : r[i] = i
  BY <1>0
<1>2. \A i \in D, G \in [D -> T] : F[i][G] = FlatOf(seqs, G, i)
  OBVIOUS
<1>s. \A i \in D : i # 1 => i - 1 \in D /\ i - 1 < i
  BY <1>0
<1>3. ASSUME NEW i \in D, NEW G \in [D -> T] PROVE FlatOf(seqs, G, i) \in T
  <2>1. CASE i = 1
    BY <1>0, <2>1 DEF FlatOf
  <2>2. CASE i # 1
    <3>1. G[i - 1] \in T /\ seqs[i] \in T
      BY <1>0, <1>s, <2>2
    <3>2. G[i - 1] \o seqs[i] \in T
      BY <3>1, ConcatProperties
    <3> QED BY <2>2, <3>2 DEF FlatOf
  <2> QED BY <2>1, <2>2
<1> HIDE DEF T
<1>4. F \in [D -> [[D -> T] -> T]]
  BY <1>3
<1> HIDE DEF F, r, D
<1>5. ASSUME NEW i \in D, NEW G \in [D -> T], NEW H \in [D -> T],
             \A e \in D : r[e] < r[i] => G[e] = H[e]
      PROVE  F[i][G] = F[i][H]
  <2>1. CASE i = 1
    BY <1>2, <2>1 DEF FlatOf
  <2>2. CASE i # 1
    <3>1. G[i - 1] = H[i - 1]
      BY <1>1, <1>s, <1>5, <2>2
    <3>2. FlatOf(seqs, G, i) = FlatOf(seqs, H, i)
      BY Zenon, <3>1 DEF FlatOf
    <3> QED BY <1>2, <3>2
  <2> QED BY <2>1, <2>2
<1>6. PICK g \in [D -> T] : \A i \in D : g[i] = F[i][g]
  <2>0. << >> \in T
    BY EmptySeq DEF T
  <2>1. RankedBy(F, r, n, D, T)
    BY <1>0, <1>1, <1>4, <1>5, <2>0 DEF RankedBy
  <2> QED BY <2>1, Recursion
<1>7. g = [i \in D |-> FlatOf(seqs, g, i)]
  BY <1>2, <1>6
<1>8. PICK G : G = [i \in D |-> FlatOf(seqs, G, i)] /\ FlattenSeq(seqs) = G[n]
  <2>1. FlattenSeq(seqs) = (CHOOSE G : G = [i \in D |-> FlatOf(seqs, G, i)])[n]
    BY FlattenUnfolds DEF D
  <2> DEFINE C == CHOOSE G : G = [i \in D |-> FlatOf(seqs, G, i)]
  <2>2. C = [i \in D |-> FlatOf(seqs, C, i)]
    BY Zenon, <1>7
  <2>3. FlattenSeq(seqs) = C[n]
    BY Zenon, <2>1
  <2> HIDE DEF C
  <2> QED BY Zenon, <2>2, <2>3
<1>9. \A i \in D : G[i] = FlatOf(seqs, G, i)
  BY <1>8
<1> DEFINE P == [i \in D |-> T]
<1>10. ASSUME NEW i \in D, \A e \in D : r[e] < r[i] => G[e] \in P[e]
       PROVE  G[i] \in P[i]
  <2>1. CASE i = 1
    BY <1>0, <1>9, <2>1 DEF FlatOf
  <2>2. CASE i # 1
    <3>1. G[i - 1] \in T /\ seqs[i] \in T
      BY <1>0, <1>1, <1>s, <1>10, <2>2
    <3>2. G[i - 1] \o seqs[i] \in T
      BY <3>1, ConcatProperties DEF T
    <3> QED BY <1>9, <2>2, <3>2 DEF FlatOf
  <2> QED BY <2>1, <2>2
<1>11. \A i \in D : G[i] \in P[i]
  <2> HIDE DEF P
  <2>1. Carried(D, r, G, P)
    BY <1>1, <1>10 DEF Carried
  <2> QED BY <2>1, Ranked
<1>12. G \in [D -> T]
  BY <1>8, <1>11
<1> QED BY <1>8, <1>9, <1>12 DEF T, D

(* ... and leaves nothing out,                                             *)
LEMMA FlattenFacts ==
  ASSUME NEW S, NEW seqs \in Seq(Seq(S))
  PROVE  /\ FlattenSeq(seqs) \in Seq(S)
         /\ \A x : x \in Range(FlattenSeq(seqs)) <=> \E i \in DOMAIN seqs : x \in Range(seqs[i])
<1> DEFINE n == Len(seqs)
           D == 1 .. n
           T == Seq(S)
<1>0. n \in Nat /\ DOMAIN seqs = D /\ \A i \in D : seqs[i] \in T
  BY LenProperties
<1>e. CASE n = 0
  <2>1. seqs = << >> /\ FlattenSeq(seqs) = seqs /\ DOMAIN seqs = {}
    BY <1>0, <1>e, EmptySeq DEF FlattenSeq
  <2>2. << >> \in T /\ Range(seqs) = {}
    BY <2>1, EmptySeq DEF Range
  <2> QED BY <2>1, <2>2
<1>n. ASSUME n # 0
      PROVE  /\ FlattenSeq(seqs) \in Seq(S)
             /\ \A x : x \in Range(FlattenSeq(seqs)) <=> \E i \in DOMAIN seqs : x \in Range(seqs[i])
  <2>1. PICK G \in [D -> T] : /\ \A i \in D : G[i] = FlatOf(seqs, G, i)
                               /\ FlattenSeq(seqs) = G[n]
    BY <1>n, FlattenRuns
  <2> DEFINE M == {m \in Nat : m < n => \A x : x \in Range(G[m + 1])
                                          <=> \E k \in 1 .. m + 1 : x \in Range(seqs[k])}
  <2>2. 0 \in M
    <3>1. 1 \in D /\ 0 + 1 = 1 /\ 1 .. 1 = {1}
      BY <1>0, <1>n
    <3>2. G[1] = seqs[1]
      BY <2>1, <3>1 DEF FlatOf
    <3> QED BY <3>1, <3>2
  <2>3. ASSUME NEW m \in Nat, m \in M PROVE m + 1 \in M
    <3> SUFFICES ASSUME m + 1 < n
                 PROVE  \A x : x \in Range(G[(m + 1) + 1])
                          <=> \E k \in 1 .. (m + 1) + 1 : x \in Range(seqs[k])
      OBVIOUS
    <3>1. PICK i \in D : i = (m + 1) + 1
      BY <1>0
    <3>2. i - 1 = m + 1 /\ m < n /\ i # 1 /\ i - 1 \in D
      BY <1>0, <3>1
    <3>3. G[i] = G[i - 1] \o seqs[i] /\ G[i - 1] \in Seq(S) /\ seqs[i] \in Seq(S)
      BY <1>0, <2>1, <3>2 DEF FlatOf
    <3>4. Range(G[i]) = Range(G[i - 1]) \cup Range(seqs[i])
      <4> HIDE DEF D, T
      <4> QED BY <3>3, RangeOfConcat
    <3>5. \A x : x \in Range(G[i - 1]) <=> \E k \in 1 .. i - 1 : x \in Range(seqs[k])
      BY <2>3, <3>2
    <3>6. \A k : k \in 1 .. i <=> k \in 1 .. i - 1 \/ k = i
      BY <1>0
    <3>7. \A x : x \in Range(G[i]) <=> \E k \in 1 .. i : x \in Range(seqs[k])
      BY <3>4, <3>5, <3>6
    <3> QED BY <3>1, <3>7
  <2>4. Nat \subseteq M
    <3> HIDE DEF M
    <3> QED BY <2>2, <2>3, Induct
  <2>5. n - 1 \in Nat /\ n - 1 < n /\ (n - 1) + 1 = n /\ n \in D
    BY <1>0, <1>n
  <2>6. n - 1 \in M
    BY <2>4, <2>5
  <2>7. \A x : x \in Range(G[n]) <=> \E k \in 1 .. n : x \in Range(seqs[k])
    BY <2>5, <2>6
  <2> QED BY <1>0, <2>1, <2>5, <2>7
<1> QED BY <1>e, <1>n

(* ... so that one more sequence comes behind the others,                  *)
LEMMA FlattenMore ==
  ASSUME NEW S, NEW seqs \in Seq(Seq(S)), NEW x \in Seq(S)
  PROVE  /\ seqs \o << x >> \in Seq(Seq(S))
         /\ FlattenSeq(seqs \o << x >>) = FlattenSeq(seqs) \o x
<1> DEFINE n == Len(seqs)
           T == Seq(S)
           more == seqs \o << x >>
<1>0. n \in Nat /\ DOMAIN seqs = 1 .. n /\ \A i \in 1 .. n : seqs[i] \in T
  BY LenProperties
<1>1. << x >> \in Seq(T) /\ Len(<< x >>) = 1 /\ << x >>[1] = x
  OBVIOUS
<1>2. /\ more \in Seq(T) /\ Len(more) = n + 1
      /\ \A i \in 1 .. n : more[i] = seqs[i]
      /\ more[n + 1] = x
  <2>1. /\ more \in Seq(T) /\ Len(more) = n + 1
        /\ \A i \in 1 .. n + 1 : more[i] = IF i <= n THEN seqs[i] ELSE << x >>[i - n]
    BY <1>0, <1>1, ConcatProperties
  <2>2. \A i \in 1 .. n : i \in 1 .. n + 1 /\ i <= n
    BY <1>0
  <2>3. n + 1 \in 1 .. n + 1 /\ ~(n + 1 <= n) /\ n + 1 - n = 1
    BY <1>0
  <2> HIDE DEF more
  <2> QED BY <1>1, <2>1, <2>2, <2>3
<1> HIDE DEF more
<1>3. PICK H \in [1 .. n + 1 -> T] : /\ \A i \in 1 .. n + 1 : H[i] = FlatOf(more, H, i)
                                     /\ FlattenSeq(more) = H[n + 1]
  <2>1. more \in Seq(Seq(S)) /\ Len(more) # 0
    BY <1>0, <1>2
  <2>2. \E H \in [1 .. Len(more) -> Seq(S)] :
           /\ \A i \in 1 .. Len(more) : H[i] = FlatOf(more, H, i)
           /\ FlattenSeq(more) = H[Len(more)]
    BY <2>1, FlattenRuns
  <2> QED BY <1>2, <2>2
<1>4. CASE n = 0
  <2>1. seqs = << >> /\ FlattenSeq(seqs) = << >>
    BY <1>0, <1>4, EmptySeq DEF FlattenSeq
  <2>2. FlattenSeq(more) = x
    <3>1. H[1] = more[1] /\ more[1] = x /\ n + 1 = 1
      BY <1>2, <1>3, <1>4 DEF FlatOf
    <3> QED BY <1>3, <3>1
  <2>3. << >> \o x = x
    BY ConcatEmptySeq
  <2> QED BY <1>2, <2>1, <2>2, <2>3 DEF more
<1>5. CASE n # 0
  <2>1. PICK G \in [1 .. n -> T] : /\ \A i \in 1 .. n : G[i] = FlatOf(seqs, G, i)
                                   /\ FlattenSeq(seqs) = G[n]
    BY <1>5, FlattenRuns
  <2> DEFINE M == {m \in Nat : m < n => G[m + 1] = H[m + 1]}
  <2>2. ASSUME NEW i \in 1 .. n, i # 1 => G[i - 1] = H[i - 1] PROVE G[i] = H[i]
    <3>1. G[i] = FlatOf(seqs, G, i) /\ H[i] = FlatOf(more, H, i) /\ more[i] = seqs[i]
      <4>1. i \in 1 .. n + 1
        BY <1>0
      <4> QED BY <1>2, <1>3, <2>1, <4>1
    <3> QED BY Zenon, <2>2, <3>1 DEF FlatOf
  <2>3. 0 \in M
    <3>1. 1 \in 1 .. n /\ 0 + 1 = 1
      BY <1>0, <1>5
    <3> QED BY <2>2, <3>1
  <2>4. ASSUME NEW m \in Nat, m \in M PROVE m + 1 \in M
    <3> SUFFICES ASSUME m + 1 < n PROVE G[(m + 1) + 1] = H[(m + 1) + 1]
      OBVIOUS
    <3>1. PICK i \in 1 .. n : i = (m + 1) + 1
      BY <1>0
    <3>2. i - 1 = m + 1 /\ m < n
      BY <1>0, <3>1
    <3>3. G[i - 1] = H[i - 1]
      BY <2>4, <3>2
    <3> QED BY <2>2, <3>1, <3>3
  <2>s. Nat \subseteq M
    <3> HIDE DEF M
    <3> QED BY <2>3, <2>4, Induct
  <2>5. G[n] = H[n]
    <3>1. n - 1 \in Nat /\ n - 1 < n /\ (n - 1) + 1 = n
      BY <1>0, <1>5
    <3>2. n - 1 \in M
      BY <2>s, <3>1
    <3> QED BY <3>1, <3>2
  <2>6. H[n + 1] = H[n] \o x
    <3>1. H[n + 1] = FlatOf(more, H, n + 1) /\ n + 1 # 1 /\ (n + 1) - 1 = n
      BY <1>0, <1>3, <1>5
    <3> QED BY <1>2, <3>1 DEF FlatOf
  <2> QED BY <1>2, <1>3, <2>1, <2>5, <2>6 DEF more
<1> QED BY <1>4, <1>5

(* ... what is alone stays as it is,                                       *)
LEMMA FlattenOne ==
  ASSUME NEW S, NEW x \in Seq(S)
  PROVE  /\ FlattenSeq(<< >>) = << >>
         /\ FlattenSeq(<< x >>) = x
<1>1. << >> \in Seq(Seq(S)) /\ Len(<< >>) = 0
  BY EmptySeq
<1>2. FlattenSeq(<< >>) = << >>
  BY <1>1 DEF FlattenSeq
<1>3. << >> \o << x >> = << x >> /\ << >> \o x = x
  <2>1. << x >> \in Seq(Seq(S))
    OBVIOUS
  <2> QED BY <2>1, ConcatEmptySeq
<1>4. FlattenSeq(<< >> \o << x >>) = FlattenSeq(<< >>) \o x
  BY <1>1, FlattenMore
<1> QED BY <1>2, <1>3, <1>4

(* ... and what is flattened in two parts is one behind the other.         *)
LEMMA FlattenConcat ==
  ASSUME NEW S, NEW s \in Seq(Seq(S)), NEW t \in Seq(Seq(S))
  PROVE  FlattenSeq(s \o t) = FlattenSeq(s) \o FlattenSeq(t)
<1> DEFINE T == Seq(S)
           N == {m \in Nat : \A u \in Seq(T) : Len(u) = m =>
                               FlattenSeq(s \o u) = FlattenSeq(s) \o FlattenSeq(u)}
<1>1. 0 \in N
  <2> SUFFICES ASSUME NEW u \in Seq(T), Len(u) = 0
               PROVE  FlattenSeq(s \o u) = FlattenSeq(s) \o FlattenSeq(u)
    OBVIOUS
  <2>1. u = << >>
    BY EmptySeq
  <2>2. s \o << >> = s
    BY ConcatEmptySeq
  <2>3. FlattenSeq(u) = << >>
    BY <2>1, EmptySeq, FlattenOne
  <2>4. FlattenSeq(s) \in T
    BY FlattenFacts
  <2>5. FlattenSeq(s) \o << >> = FlattenSeq(s)
    BY <2>4, ConcatEmptySeq
  <2> QED BY <2>1, <2>2, <2>3, <2>5
<1>2. ASSUME NEW m \in Nat, m \in N PROVE m + 1 \in N
  <2> SUFFICES ASSUME NEW u \in Seq(T), Len(u) = m + 1
               PROVE  FlattenSeq(s \o u) = FlattenSeq(s) \o FlattenSeq(u)
    BY <1>2
  <2> DEFINE front == SubSeq(u, 1, m)
             x == u[m + 1]
  <2>1. x \in T /\ \A i \in 1 .. m : u[i] \in T
    <3>1. m + 1 \in 1 .. Len(u) /\ \A i \in 1 .. m : i \in 1 .. Len(u)
      BY <1>2
    <3> QED BY <3>1, ElementOfSeq
  <2>2. front \in Seq(T) /\ Len(front) = m
    <3>1. /\ front \in Seq(T)
          /\ Len(front) = IF 1 <= m THEN m - 1 + 1 ELSE 0
      BY <2>1, SubSeqProperties
    <3> QED BY <3>1
  <2>3. u = front \o << x >>
    <3>1. 1 \in 1 .. Len(u) /\ m + 1 \in 1 .. Len(u) /\ (m + 1) - 1 = m
      BY <1>2
    <3>2. SubSeq(u, 1, m + 1) = SubSeq(u, 1, (m + 1) - 1) \o << u[m + 1] >>
      BY <3>1, SubSeqRecursiveSecond
    <3>3. SubSeq(u, 1, Len(u)) = u
      BY SubSeqFull
    <3> QED BY <3>1, <3>2, <3>3
  <2> HIDE DEF front, x
  <2>4. << x >> \in Seq(T)
    BY <2>1
  <2>5. s \o u = (s \o front) \o << x >>
    BY <2>2, <2>3, <2>4, ConcatAssociative
  <2>6. s \o front \in Seq(T)
    BY <2>2, ConcatProperties
  <2>7. FlattenSeq(s \o u) = FlattenSeq(s \o front) \o x
    BY <2>1, <2>5, <2>6, FlattenMore
  <2>8. FlattenSeq(s \o front) = FlattenSeq(s) \o FlattenSeq(front)
    BY <1>2, <2>2
  <2>9. FlattenSeq(u) = FlattenSeq(front) \o x
    BY <2>1, <2>2, <2>3, FlattenMore
  <2>10. FlattenSeq(s) \in T /\ FlattenSeq(front) \in T
    BY <2>2, FlattenFacts
  <2>11. (FlattenSeq(s) \o FlattenSeq(front)) \o x = FlattenSeq(s) \o (FlattenSeq(front) \o x)
    BY <2>1, <2>10, ConcatAssociative
  <2> QED BY <2>7, <2>8, <2>9, <2>11
<1>3. Nat \subseteq N
  <2> HIDE DEF N
  <2> QED BY <1>1, <1>2, Induct
<1>4. Len(t) \in N
  <2>1. Len(t) \in Nat
    BY LenProperties
  <2> QED BY <1>3, <2>1
<1> QED BY <1>4

(* Where the parts of what is flattened are.                               *)
LEMMA FlattenPlaces ==
  ASSUME NEW S, NEW seqs \in Seq(Seq(S))
  PROVE  \E off \in [1 .. Len(seqs) + 1 -> Nat] :
           /\ off[1] = 0 /\ off[Len(seqs) + 1] = Len(FlattenSeq(seqs))
           /\ \A k \in 1 .. Len(seqs) :
                /\ off[k + 1] = off[k] + Len(seqs[k])
                /\ off[k + 1] <= Len(FlattenSeq(seqs))
                /\ \A j \in 1 .. Len(seqs[k]) : FlattenSeq(seqs)[off[k] + j] = seqs[k][j]
<1> DEFINE n == Len(seqs)
           T == Seq(S)
           P(k) == FlattenSeq(SubSeq(seqs, 1, k - 1))
           off == [k \in 1 .. n + 1 |-> Len(P(k))]
           text == FlattenSeq(seqs)
<1>0. n \in Nat /\ \A i \in 1 .. n : seqs[i] \in T
  BY LenProperties
<1>1. \A k \in 1 .. n + 1 : SubSeq(seqs, 1, k - 1) \in Seq(T)
  <2> SUFFICES ASSUME NEW k \in 1 .. n + 1 PROVE SubSeq(seqs, 1, k - 1) \in Seq(T)
    OBVIOUS
  <2>1. 1 \in Int /\ k - 1 \in Int /\ \A i \in 1 .. k - 1 : seqs[i] \in T
    BY <1>0
  <2> QED BY <2>1, SubSeqProperties
<1>2. \A k \in 1 .. n + 1 : P(k) \in T
  BY <1>1, FlattenFacts
<1>3. P(1) = << >>
  <2>1. 1 \in Int /\ 1 - 1 \in Int /\ 1 - 1 < 1
    OBVIOUS
  <2>2. SubSeq(seqs, 1, 1 - 1) = << >>
    BY <2>1, SubSeqEmpty
  <2> QED BY <2>2, EmptySeq, FlattenOne
<1>4. P(n + 1) = text
  <2>1. (n + 1) - 1 = n /\ SubSeq(seqs, 1, n) = seqs
    BY <1>0, SubSeqFull
  <2> QED BY <2>1
<1>5. ASSUME NEW k \in 1 .. n PROVE P(k + 1) = P(k) \o seqs[k]
  <2>1. 1 \in 1 .. n /\ k \in 1 .. n /\ (k + 1) - 1 = k /\ k \in 1 .. n + 1
    BY <1>0
  <2>2. SubSeq(seqs, 1, k) = SubSeq(seqs, 1, k - 1) \o << seqs[k] >>
    BY <2>1, SubSeqRecursiveSecond
  <2> QED BY <1>0, <1>1, <2>1, <2>2, FlattenMore
<1>6. ASSUME NEW k \in 1 .. n PROVE \E more \in T : text = P(k + 1) \o more
  <2> DEFINE rest == SubSeq(seqs, k + 1, n)
  <2>1. /\ 1 \in 1 .. n + 1 /\ k \in 1 - 1 .. n /\ n \in k .. n
        /\ (k + 1) - 1 = k /\ k + 1 \in 1 .. n + 1
    BY <1>0
  <2>2. SubSeq(seqs, 1, k) \o rest = SubSeq(seqs, 1, n)
    BY <2>1, ConcatAdjacentSubSeq
  <2>3. rest \in Seq(T)
    <3>1. k + 1 \in Int /\ n \in Int /\ \A i \in k + 1 .. n : seqs[i] \in T
      BY <1>0
    <3> QED BY <3>1, SubSeqProperties
  <2> HIDE DEF rest
  <2>4. SubSeq(seqs, 1, k) \in Seq(T)
    BY <1>1, <2>1
  <2>5. FlattenSeq(SubSeq(seqs, 1, k) \o rest)
          = FlattenSeq(SubSeq(seqs, 1, k)) \o FlattenSeq(rest)
    BY <2>3, <2>4, FlattenConcat
  <2>6. FlattenSeq(rest) \in T
    BY <2>3, FlattenFacts
  <2> QED BY <2>1, <2>2, <2>5, <2>6, SubSeqFull
<1> HIDE DEF P
<1>7. off \in [1 .. n + 1 -> Nat]
  <2>1. \A k \in 1 .. n + 1 : Len(P(k)) \in Nat
    BY <1>2, LenProperties
  <2> QED BY <2>1
<1>8. off[1] = 0 /\ off[n + 1] = Len(text)
  BY <1>0, <1>3, <1>4, EmptySeq
<1>9. ASSUME NEW k \in 1 .. n
      PROVE  /\ off[k + 1] = off[k] + Len(seqs[k]) /\ off[k + 1] <= Len(text)
             /\ \A j \in 1 .. Len(seqs[k]) : text[off[k] + j] = seqs[k][j]
  <2>1. k \in 1 .. n + 1 /\ k + 1 \in 1 .. n + 1
    BY <1>0
  <2>2. PICK more \in T : text = P(k + 1) \o more
    BY <1>6
  <2>3. P(k) \in T /\ seqs[k] \in T /\ P(k + 1) \in T
    BY <1>0, <1>2, <2>1
  <2>4. off[k] = Len(P(k)) /\ off[k + 1] = Len(P(k + 1))
    BY <2>1
  <2>5. /\ Len(P(k)) \in Nat /\ Len(seqs[k]) \in Nat /\ Len(more) \in Nat
        /\ Len(P(k + 1)) \in Nat
    BY <2>3, LenProperties
  <2>6. /\ Len(P(k + 1)) = Len(P(k)) + Len(seqs[k])
        /\ \A i \in 1 .. Len(P(k)) + Len(seqs[k]) :
             P(k + 1)[i] = IF i <= Len(P(k)) THEN P(k)[i] ELSE seqs[k][i - Len(P(k))]
    BY <1>5, <2>3, ConcatProperties
  <2>7. /\ Len(text) = Len(P(k + 1)) + Len(more)
        /\ \A i \in 1 .. Len(P(k + 1)) + Len(more) :
             text[i] = IF i <= Len(P(k + 1)) THEN P(k + 1)[i] ELSE more[i - Len(P(k + 1))]
    BY <2>2, <2>3, ConcatProperties
  <2> HIDE DEF off, text
  <2>8. ASSUME NEW j \in 1 .. Len(seqs[k]) PROVE text[off[k] + j] = seqs[k][j]
    <3>1. PICK a \in Nat, b \in Nat, c \in Nat : a = Len(P(k)) /\ b = Len(seqs[k]) /\ c = Len(more)
      BY <2>5
    <3>2. j \in 1 .. b
      BY <3>1
    <3>3. /\ a + j \in 1 .. a + b /\ ~(a + j <= a) /\ (a + j) - a = j
          /\ a + j \in 1 .. (a + b) + c /\ a + j <= a + b
      BY <3>2
    <3>4. P(k + 1)[a + j] = seqs[k][j]
      BY <2>6, <3>1, <3>3
    <3>5. text[a + j] = P(k + 1)[a + j]
      BY <2>6, <2>7, <3>1, <3>3
    <3> QED BY <2>4, <3>1, <3>4, <3>5
  <2> QED BY <2>4, <2>5, <2>6, <2>7, <2>8
<1> HIDE DEF off, text
<1> QED BY <1>7, <1>8, <1>9 DEF text

-----------------------------------------------------------------------------
(* The smaller of two numbers.                                             *)
LEMMA MinPair ==
  ASSUME NEW a \in Int, NEW b \in Int
  PROVE  Min({a, b}) \in {a, b} /\ Min({a, b}) <= a /\ Min({a, b}) <= b
<1>1. \E x \in {a, b} : \A y \in {a, b} : x <= y
  OBVIOUS
<1>2. Min({a, b}) \in {a, b} /\ \A y \in {a, b} : Min({a, b}) <= y
  BY <1>1 DEF Min
<1> QED BY <1>2

(* What one token says, and what may be put around it.                     *)
LEMMA ValueFacts ==
  ASSUME NEW h \in Seq(Symbol), NEW t \in Token, Span(t) \subseteq 1 .. Len(h),
         NEW flags
  PROVE  /\ Value(h, t, flags) \in Seq(Symbol)
         /\ Range(Value(h, t, flags)) \subseteq {h[i] : i \in Span(t)}
         /\ ~Unwrapped(t, flags) => Range(Value(h, t, flags)) = {h[i] : i \in Span(t)}
<1>1. t.from \in Nat /\ t.len \in Nat
  BY DEF Token
<1>2. \A i \in Span(t) : h[i] \in Symbol
  BY LenProperties
<1>3. CASE Unwrapped(t, flags)
  <2> DEFINE m == t.from + 1
             n == t.from + t.len - 2
  <2>1. m \in Int /\ n \in Int /\ m .. n \subseteq Span(t)
    BY <1>1 DEF Span
  <2>2. Value(h, t, flags) = SubSeq(h, m, n)
    BY <1>3 DEF Value
  <2> HIDE DEF m, n
  <2>3. m .. n \subseteq 1 .. Len(h)
    BY <2>1
  <2>4. SubSeq(h, m, n) \in Seq(Symbol) /\ Range(SubSeq(h, m, n)) = {h[i] : i \in m .. n}
    BY <2>1, <2>3, RangeOfSubSeq
  <2> QED BY <1>3, <2>1, <2>2, <2>4
<1>4. CASE ~Unwrapped(t, flags)
  <2> DEFINE m == t.from
             n == t.from + t.len - 1
  <2>1. m \in Int /\ n \in Int /\ m .. n = Span(t)
    BY <1>1 DEF Span
  <2>2. Value(h, t, flags) = SubSeq(h, m, n)
    BY <1>4 DEF Value
  <2> HIDE DEF m, n
  <2>3. m .. n \subseteq 1 .. Len(h)
    BY <2>1
  <2>4. SubSeq(h, m, n) \in Seq(Symbol) /\ Range(SubSeq(h, m, n)) = {h[i] : i \in m .. n}
    BY <2>1, <2>3, RangeOfSubSeq
  <2> QED BY <2>1, <2>2, <2>4
<1> QED BY <1>3, <1>4

LEMMA QuoteMarkFacts ==
  ASSUME NEW t, NEW flags
  PROVE  QuoteMark(t, flags) \in Seq(Symbol) /\ Range(QuoteMark(t, flags)) \cap Word = {}
<1>1. Dquote \in Symbol /\ Dquote \notin Word
  BY WordAssumption DEF Symbol
<1>2. /\ << Dquote >> \in Seq(Symbol) /\ Range(<< Dquote >>) = {Dquote}
      /\ << >> \in Seq(Symbol) /\ Range(<< >>) = {}
  BY <1>1, RangeOfOne
<1>3. QuoteMark(t, flags) \in {<< Dquote >>, << >>}
  BY DEF QuoteMark
<1> QED BY <1>1, <1>2, <1>3

(* The words of a text are those of the tokens first .. last that are      *)
(* kept, all of them but where a comment has been unwrapped.               *)
Recombines(h, tokens, first, last, flags, text) ==
  /\ text \in Seq(Symbol)
  /\ \A w \in Word : w \in Range(text) =>
       \E k \in first .. last : IsKept(tokens[k], flags)
                                /\ \E i \in Span(tokens[k]) : h[i] = w
  /\ \A k \in first .. last :
       IsKept(tokens[k], flags) /\ ~Unwrapped(tokens[k], flags) =>
         \A i \in Span(tokens[k]) : h[i] \in Range(text)

(* The words that Recombine puts together are those of the tokens it is    *)
(* given, as far as there are so many, but of the comments it leaves out.  *)
LEMMA RecombineFacts ==
  ASSUME NEW h \in Seq(Symbol), NEW tokens \in Laid(h, 1, Len(h)),
         NEW first \in Nat \ {0}, NEW count \in Int, NEW flags,
         "STRTOLOWER" \notin flags
  PROVE  Recombines(h, tokens, first, Min({first + count - 1, Len(tokens)}), flags,
                    Recombine(h, tokens, first, count, flags))
<1> DEFINE text == Recombine(h, tokens, first, count, flags)
           last == Min({first + count - 1, Len(tokens)})
<1> DEFINE kept == {k \in first .. last : IsKept(tokens[k], flags)}
           lead(k) == IF Spaced(tokens, kept, k, flags) THEN << " " >> ELSE << >>
           mark(k) == QuoteMark(tokens[k], flags)
           said(k) == Value(h, tokens[k], flags)
           piece(k) == IF k \in kept THEN lead(k) \o mark(k) \o said(k) \o mark(k)
                       ELSE << >>
           n == last - first + 1
           pieces == [k \in 1 .. n |-> piece(first + k - 1)]
<1>0. /\ tokens \in Seq(Token) /\ Len(tokens) \in Nat /\ DOMAIN tokens = 1 .. Len(tokens)
      /\ Len(h) \in Nat
      /\ \A k \in 1 .. Len(tokens) : tokens[k] \in Token /\ Span(tokens[k]) \subseteq 1 .. Len(h)
  BY LenProperties DEF Laid
<1>1. last \in Int /\ last <= Len(tokens)
  <2>1. first + count - 1 \in Int /\ Len(tokens) \in Int
    BY <1>0
  <2> QED BY <2>1, MinPair
<1>2. text = FlattenSeq(pieces)
  BY Zenon DEF Recombine
<1> HIDE DEF text, last
<1> HIDE DEF kept
<1>3. ASSUME NEW k \in kept
      PROVE  /\ piece(k) \in Seq(Symbol)
             /\ \A w \in Word : w \in Range(piece(k)) => \E i \in Span(tokens[k]) : h[i] = w
             /\ ~Unwrapped(tokens[k], flags) =>
                  \A i \in Span(tokens[k]) : h[i] \in Range(piece(k))
  <2>1. k \in 1 .. Len(tokens)
    BY <1>0, <1>1 DEF kept
  <2>2. /\ said(k) \in Seq(Symbol)
        /\ Range(said(k)) \subseteq {h[i] : i \in Span(tokens[k])}
        /\ ~Unwrapped(tokens[k], flags) => Range(said(k)) = {h[i] : i \in Span(tokens[k])}
    BY <1>0, <2>1, ValueFacts
  <2>3. mark(k) \in Seq(Symbol) /\ Range(mark(k)) \cap Word = {}
    BY QuoteMarkFacts
  <2>4. lead(k) \in Seq(Symbol) /\ Range(lead(k)) \cap Word = {}
    <3>1. " " \in Symbol /\ " " \notin Word
      BY WordAssumption DEF Symbol
    <3>2. /\ << " " >> \in Seq(Symbol) /\ Range(<< " " >>) = {" "}
          /\ << >> \in Seq(Symbol) /\ Range(<< >>) = {}
      BY <3>1, RangeOfOne
    <3> QED BY <3>1, <3>2
  <2> HIDE DEF said, mark, lead
  <2>5. /\ lead(k) \o mark(k) \in Seq(Symbol)
        /\ Range(lead(k) \o mark(k)) = Range(lead(k)) \cup Range(mark(k))
    BY <2>3, <2>4, RangeOfConcat
  <2> DEFINE a == lead(k) \o mark(k)
  <2>6. a \in Seq(Symbol) /\ Range(a) \cap Word = {}
    BY <2>3, <2>4, <2>5
  <2>7. piece(k) = a \o said(k) \o mark(k)
    OBVIOUS
  <2> HIDE DEF a, piece
  <2>8. a \o said(k) \in Seq(Symbol) /\ Range(a \o said(k)) = Range(a) \cup Range(said(k))
    BY <2>2, <2>6, RangeOfConcat
  <2> DEFINE b == a \o said(k)
  <2> HIDE DEF b
  <2>9. b \o mark(k) \in Seq(Symbol) /\ Range(b \o mark(k)) = Range(b) \cup Range(mark(k))
    BY <2>3, <2>8, RangeOfConcat DEF b
  <2>10. piece(k) \in Seq(Symbol)
         /\ Range(piece(k)) = Range(a) \cup Range(said(k)) \cup Range(mark(k))
    BY <2>7, <2>8, <2>9 DEF b
  <2> QED BY <2>2, <2>3, <2>6, <2>10
<1>4. \A k : k \notin kept => piece(k) = << >>
  OBVIOUS
<1> HIDE DEF lead, mark, said, piece
<1>5. << >> \in Seq(Symbol) /\ \A x : x \notin Range(<< >>)
  <2>1. \A S : \A x \in S : << >> \in Seq(S) /\ Range(<< >>) = {}
    BY RangeOfOne
  <2>2. " " \in Symbol
    BY DEF Symbol
  <2> QED BY <2>1, <2>2
<1>6. ASSUME NEW k PROVE piece(k) \in Seq(Symbol)
  <2>1. CASE k \in kept
    BY <1>3, <2>1
  <2>2. CASE k \notin kept
    BY <1>4, <1>5, <2>2
  <2> QED BY <2>1, <2>2
<1>7. n \in Int
  BY <1>1
<1>8. pieces \in Seq(Seq(Symbol)) /\ DOMAIN pieces = 1 .. n
  <2>1. \A k \in 1 .. n : piece(first + k - 1) \in Seq(Symbol)
    BY <1>6
  <2> HIDE DEF n
  <2>2. pieces \in [1 .. n -> Seq(Symbol)]
    BY <2>1
  <2> HIDE DEF pieces
  <2> QED BY <1>7, <2>2, FirstNumbers
<1>9. /\ text \in Seq(Symbol)
      /\ \A x : x \in Range(text) <=> \E i \in 1 .. n : x \in Range(pieces[i])
  BY <1>2, <1>8, FlattenFacts
<1>10. \A i \in 1 .. n : first + i - 1 \in first .. last /\ pieces[i] = piece(first + i - 1)
  BY <1>1
<1>11. \A k \in first .. last : k - first + 1 \in 1 .. n /\ pieces[k - first + 1] = piece(k)
  <2> SUFFICES ASSUME NEW k \in first .. last
               PROVE  k - first + 1 \in 1 .. n /\ pieces[k - first + 1] = piece(k)
    OBVIOUS
  <2>1. k - first + 1 \in 1 .. n /\ first + (k - first + 1) - 1 = k
    BY <1>1
  <2> QED BY <2>1
<1> HIDE DEF pieces, n
<1>12. ASSUME NEW w \in Word, w \in Range(text)
       PROVE  \E k \in first .. last : IsKept(tokens[k], flags)
                                       /\ \E i \in Span(tokens[k]) : h[i] = w
  <2>1. PICK i \in 1 .. n : w \in Range(pieces[i])
    BY <1>9, <1>12
  <2>2. PICK k \in first .. last : w \in Range(piece(k))
    BY <1>10, <2>1
  <2>3. k \in kept
    BY <1>4, <1>5, <2>2
  <2> QED BY <1>3, <2>2, <2>3 DEF kept
<1>13. ASSUME NEW k \in first .. last, IsKept(tokens[k], flags),
              ~Unwrapped(tokens[k], flags), NEW i \in Span(tokens[k])
       PROVE  h[i] \in Range(text)
  <2>1. k \in kept
    BY <1>13 DEF kept
  <2>2. h[i] \in Range(piece(k))
    BY <1>3, <1>13, <2>1
  <2> QED BY <1>9, <1>11, <2>2
<1> QED BY <1>9, <1>12, <1>13 DEF Recombines, text, last
=============================================================================
