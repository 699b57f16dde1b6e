--------------------------- MODULE AttributesProofs ---------------------------
(* What php_mimeheader_alloc_from_tok makes of the attributes of a header,  *)
(* and what mailparse_msg_get_part_data tells of the headers of a part: a   *)
(* name is freed once, values are joined as they are written, encoded words *)
(* are paired, no field is lost and none hides another.                     *)
EXTENDS PartData, DataProofs

(* The sets are all of positions.                                          *)
LEMMA SetFacts ==
  ASSUME NEW b \in Nat, NEW S \in SUBSET (0 .. b)
  PROVE  /\ IsFiniteSet(S) /\ Cardinality(S) \in Nat /\ S \in SUBSET Nat
         /\ S # {} => Max(S) \in S /\ \A x \in S : x <= Max(S)
<1>1. IsFiniteSet(0 .. b)
  BY FS_Interval
<1>2. S # {} => Max(S) \in S /\ \A x \in S : x <= Max(S)
  BY MaxFacts
<1>3. IsFiniteSet(S)
  BY <1>1, FS_Subset
<1> QED BY <1>2, <1>3, FS_CardinalityType

(* A set in order, with one more behind the others.                        *)
LEMMA OneMore ==
  ASSUME NEW S \in SUBSET Nat, IsFiniteSet(S), NEW m \in Nat, \A x \in S : x < m
  PROVE  /\ IsFiniteSet(S \cup {m}) /\ Cardinality(S) \in Nat
         /\ Cardinality(S \cup {m}) = Cardinality(S) + 1
         /\ InOrder(S \cup {m}) =
              [k \in 1 .. Cardinality(S) + 1 |->
                 IF k = Cardinality(S) + 1 THEN m ELSE InOrder(S)[k]]
<1> DEFINE c == Cardinality(S)
           T == S \cup {m}
           Has(U, k) == {y \in U : Cardinality({z \in U : z < y}) = k - 1}
<1>1. m \notin S
  OBVIOUS
<1>2. /\ IsFiniteSet(T) /\ c \in Nat /\ Cardinality(T) = c + 1
      /\ \A U \in SUBSET S : IsFiniteSet(U) /\ Cardinality(U) \in Nat /\ Cardinality(U) <= c
  BY <1>1, FS_AddElement, FS_CardinalityType, FS_Subset
<1>3. \A y \in S : {z \in T : z < y} = {z \in S : z < y}
  OBVIOUS
<1>4. {z \in T : z < m} = S
  <2>1. \A z \in S : z \in T /\ z < m
    OBVIOUS
  <2>2. ~(m < m)
    OBVIOUS
  <2>3. \A z \in T : z < m => z \in S
    BY <2>2
  <2> HIDE DEF T
  <2> QED BY <2>1, <2>3
<1>5. \A y \in S : Cardinality({z \in S : z < y}) < c
  <2> SUFFICES ASSUME NEW y \in S PROVE Cardinality({z \in S : z < y}) < c
    OBVIOUS
  <2>1. {z \in S : z < y} \in SUBSET (S \ {y})
    OBVIOUS
  <2>2. IsFiniteSet(S \ {y}) /\ Cardinality(S \ {y}) = c - 1
    BY FS_RemoveElement
  <2>3. Cardinality({z \in S : z < y}) <= c - 1 /\ Cardinality({z \in S : z < y}) \in Nat
    BY <2>1, <2>2, <1>2, FS_Subset
  <2> QED BY <2>3, <1>2
<1>6. ASSUME NEW k \in 1 .. c PROVE Has(T, k) = Has(S, k)
  <2>1. c # k - 1
    BY <1>2
  <2> QED BY <1>3, <1>4, <2>1
<1>7. Has(T, c + 1) = {m}
  <2>1. (c + 1) - 1 = c
    BY <1>2
  <2>2. \A y \in S : Cardinality({z \in S : z < y}) # c
    BY <1>5, <1>2
  <2> QED BY <1>3, <1>4, <2>1, <2>2
<1>8. InOrder(T) = [k \in 1 .. c + 1 |-> CHOOSE x \in Has(T, k) : TRUE]
  BY <1>2 DEF InOrder
<1>9. InOrder(S) = [k \in 1 .. c |-> CHOOSE x \in Has(S, k) : TRUE]
  BY <1>2 DEF InOrder
<1> HIDE DEF Has, c
<1>10. ASSUME NEW k \in 1 .. c + 1
       PROVE  (CHOOSE x \in Has(T, k) : TRUE) = IF k = c + 1 THEN m ELSE InOrder(S)[k]
  <2>1. CASE k = c + 1
    <3>1. (CHOOSE x \in {m} : TRUE) = m
      OBVIOUS
    <3> QED BY <1>7, <2>1, <3>1
  <2>2. CASE k # c + 1
    <3>1. k \in 1 .. c
      BY <1>2, <2>2
    <3>2. InOrder(S)[k] = CHOOSE x \in Has(S, k) : TRUE
      BY <1>9, <3>1
    <3>3. Has(T, k) = Has(S, k)
      BY <1>6, <3>1
    <3>4. (CHOOSE x \in Has(T, k) : TRUE) = CHOOSE x \in Has(S, k) : TRUE
      BY Zenon, <3>3
    <3> QED BY <2>2, <3>2, <3>4
  <2> QED BY <2>1, <2>2
<1>11. InOrder(T) = [k \in 1 .. c + 1 |-> IF k = c + 1 THEN m ELSE InOrder(S)[k]]
  BY <1>8, <1>10
<1> QED BY <1>2, <1>11 DEF c

(* All of the set is in order, and nothing else.                           *)
LEMMA OrderFacts ==
  ASSUME NEW b \in Nat, NEW S \in SUBSET (0 .. b)
  PROVE  /\ InOrder(S) \in [1 .. Cardinality(S) -> S] /\ Cardinality(S) \in Nat
         /\ InOrder(S) \in Seq(S) /\ Len(InOrder(S)) = Cardinality(S)
<1> DEFINE Good(n) == \A U \in SUBSET (0 .. b) : Cardinality(U) = n =>
                        InOrder(U) \in [1 .. n -> U]
           All == {n \in Nat : Good(n)}
<1>1. 0 \in All
  <2> SUFFICES ASSUME NEW U \in SUBSET (0 .. b), Cardinality(U) = 0
               PROVE  InOrder(U) \in [1 .. 0 -> U]
    OBVIOUS
  <2> QED BY DEF InOrder
<1>2. ASSUME NEW n \in Nat, n \in All PROVE n + 1 \in All
  <2> SUFFICES ASSUME NEW U \in SUBSET (0 .. b), Cardinality(U) = n + 1
               PROVE  InOrder(U) \in [1 .. n + 1 -> U]
    BY <1>2
  <2>1. U # {}
    BY FS_EmptySet
  <2>4. PICK m \in U : \A x \in U : x <= m
    BY <2>1, MaxFacts
  <2> DEFINE V == U \ {m}
  <2>5. IsFiniteSet(V) /\ Cardinality(V) = n /\ V \in SUBSET (0 .. b)
    <3>1. IsFiniteSet(U)
      BY SetFacts
    <3>2. IsFiniteSet(U \ {m}) /\ Cardinality(U \ {m}) = Cardinality(U) - 1
      BY <3>1, FS_RemoveElement
    <3> QED BY <3>2
  <2>6. InOrder(V) \in [1 .. n -> V]
    BY <1>2, <2>5
  <2>7. \A x \in V : x < m
    BY <2>4
  <2>8. V \cup {m} = U /\ m \in Nat
    BY <2>4
  <2> HIDE DEF V
  <2>9. InOrder(U) = [k \in 1 .. n + 1 |-> IF k = n + 1 THEN m ELSE InOrder(V)[k]]
    <3>1. /\ V \in SUBSET Nat /\ IsFiniteSet(V) /\ m \in Nat /\ \A x \in V : x < m
          /\ Cardinality(V) = n
      BY <2>5, <2>7, <2>8, SetFacts
    <3>2. InOrder(V \cup {m}) =
            [k \in 1 .. Cardinality(V) + 1 |->
               IF k = Cardinality(V) + 1 THEN m ELSE InOrder(V)[k]]
      BY <3>1, OneMore
    <3> QED BY <2>8, <3>1, <3>2
  <2>10. ASSUME NEW k \in 1 .. n + 1
         PROVE  (IF k = n + 1 THEN m ELSE InOrder(V)[k]) \in U
    <3>1. k # n + 1 => k \in 1 .. n
      OBVIOUS
    <3> QED BY <2>6, <2>8, <3>1
  <2> QED BY <2>9, <2>10
<1>3. Nat \subseteq All
  <2> HIDE DEF All
  <2> QED BY <1>1, <1>2, Induct
<1>4. Cardinality(S) \in Nat
  BY SetFacts
<1>5. InOrder(S) \in [1 .. Cardinality(S) -> S]
  BY <1>3, <1>4
<1> QED BY <1>4, <1>5, FirstNumbers, LenProperties

(* ... as a sequence that is appended to.                                  *)
LEMMA OrderAppends ==
  ASSUME NEW b \in Nat, NEW S \in SUBSET (0 .. b), NEW m \in Nat, \A x \in S : x < m
  PROVE  /\ IsFiniteSet(S \cup {m}) /\ Cardinality(S) \in Nat
         /\ Cardinality(S \cup {m}) = Cardinality(S) + 1
         /\ InOrder(S \cup {m}) = Append(InOrder(S), m)
<1>1. /\ InOrder(S) \in Seq(Nat) /\ Len(InOrder(S)) = Cardinality(S)
      /\ Cardinality(S) \in Nat /\ InOrder(S) \in [1 .. Cardinality(S) -> S]
  <2>1. InOrder(S) \in Seq(S)
    BY OrderFacts
  <2>2. InOrder(S) \in [1 .. Cardinality(S) -> Nat] /\ Cardinality(S) \in Int
    <3>1. \A x \in S : x \in Nat
      OBVIOUS
    <3>2. InOrder(S) \in [1 .. Cardinality(S) -> S] /\ Cardinality(S) \in Nat
      BY OrderFacts
    <3>3. \A q, c : q \in [1 .. c -> S] => q \in [1 .. c -> Nat]
      BY <3>1
    <3> QED BY <3>2, <3>3
  <2>3. InOrder(S) \in Seq(Nat)
    BY <2>2, FirstNumbers
  <2> QED BY <2>3, OrderFacts
<1>2. InOrder(S \cup {m}) =
        [k \in 1 .. Cardinality(S) + 1 |->
           IF k = Cardinality(S) + 1 THEN m ELSE InOrder(S)[k]]
  BY SetFacts, OneMore
<1> DEFINE q == InOrder(S)
           c == Cardinality(S)
<1>4. q \in Seq(Nat) /\ Len(q) = c /\ c \in Nat
  BY <1>1
<1> HIDE DEF q, c
<1>5. Append(q, m) = [k \in 1 .. c + 1 |-> IF k = c + 1 THEN m ELSE q[k]]
  <2>1. /\ Append(q, m) \in Seq(Nat) /\ Len(Append(q, m)) = c + 1
        /\ \A k \in 1 .. c : Append(q, m)[k] = q[k]
        /\ Append(q, m)[c + 1] = m
    BY <1>4, AppendProperties
  <2>2. Append(q, m) = [k \in 1 .. c + 1 |-> Append(q, m)[k]]
    BY <2>1, LenProperties
  <2>3. \A k \in 1 .. c + 1 : Append(q, m)[k] = IF k = c + 1 THEN m ELSE q[k]
    <3>1. \A k \in 1 .. c + 1 : k = c + 1 \/ k \in 1 .. c
      BY <1>4
    <3>2. \A k \in 1 .. c : k # c + 1
      BY <1>4
    <3> QED BY <2>1, <3>1, <3>2
  <2> QED BY <2>2, <2>3
<1>3. Append(InOrder(S), m) =
        [k \in 1 .. Cardinality(S) + 1 |->
           IF k = Cardinality(S) + 1 THEN m ELSE InOrder(S)[k]]
  BY <1>5 DEF q, c
<1> QED BY <1>2, <1>3, SetFacts, OneMore

(* Nothing is in order.                                                    *)
LEMMA NoneInOrder == InOrder({}) = <<>> /\ IsFiniteSet({}) /\ Cardinality({}) = 0
BY FS_EmptySet DEF InOrder

(* ... with the least one first.                                           *)
LEMMA FirstInOrder ==
  ASSUME NEW b \in Nat, NEW S \in SUBSET (0 .. b), S # {}
  PROVE  InOrder(S)[1] = Min(S)
<1>1. /\ IsFiniteSet(S) /\ Cardinality(S) \in Nat /\ S \in SUBSET Nat
      /\ Min(S) \in S /\ \A n \in S : Min(S) <= n
  BY SetFacts, MinFacts
<1>2. 1 \in 1 .. Cardinality(S)
  <2>1. Cardinality(S) # 0
    BY <1>1, FS_EmptySet
  <2> QED BY <1>1, <2>1
<1> DEFINE Before(y) == {z \in S : z < y}
           First == {y \in S : Cardinality(Before(y)) = 0}
<1>3. \A y \in S : (Cardinality(Before(y)) = 0) <=> (Before(y) = {})
  <2> SUFFICES ASSUME NEW y \in S PROVE (Cardinality(Before(y)) = 0) <=> (Before(y) = {})
    OBVIOUS
  <2>1. Before(y) \in SUBSET S
    OBVIOUS
  <2> HIDE DEF Before
  <2>2. IsFiniteSet(Before(y))
    BY <1>1, <2>1, FS_Subset
  <2> QED BY <2>2, FS_EmptySet
<1>4. \A y \in S : (Before(y) = {}) <=> (y = Min(S))
  <2> SUFFICES ASSUME NEW y \in S PROVE (Before(y) = {}) <=> (y = Min(S))
    OBVIOUS
  <2>1. PICK m \in S : m = Min(S) /\ m \in Nat /\ \A n \in S : m <= n
    BY <1>1
  <2>2. y # m => m \in Before(y)
    <3>1. y \in Nat /\ m <= y
      BY <1>1, <2>1
    <3>2. y # m => m < y
      BY <2>1, <3>1
    <3> QED BY <3>2
  <2>3. y = m => Before(y) = {}
    <3>1. \A z \in S : ~(z < m)
      BY <1>1, <2>1
    <3> QED BY <3>1
  <2> HIDE DEF Before
  <2> QED BY <2>1, <2>2, <2>3
<1>5. First = {Min(S)}
  <2> HIDE DEF Before
  <2> QED BY <1>1, <1>3, <1>4
<1>6. InOrder(S)[1] = CHOOSE x \in First : TRUE
  <2>1. InOrder(S)[1] = CHOOSE x \in {y \in S : Cardinality({z \in S : z < y}) = 1 - 1} : TRUE
    BY <1>2 DEF InOrder
  <2>2. 1 - 1 = 0
    OBVIOUS
  <2> QED BY <2>1, <2>2
<1> HIDE DEF First
<1> QED BY <1>5, <1>6

-----------------------------------------------------------------------------
(* What the table holds after k fields.                                    *)
UpTo(fields, k, key) == {j \in 1 .. k : fields[j] = key}
KeysTo(fields, k)    == {fields[j] : j \in 1 .. k}
EntryTo(fields, k, key) ==
  [kind |-> IF \/ Cardinality(UpTo(fields, k, key)) = 1
               \/ key \in {"to", "cc"} \cup Numbers
            THEN "string" ELSE "array",
   at   |-> IF key \in Numbers THEN <<Max(UpTo(fields, k, key))>>
            ELSE InOrder(UpTo(fields, k, key))]
TableTo(fields, k) == [key \in KeysTo(fields, k) |-> EntryTo(fields, k, key)]

(* The k-th field adds one to the places of its name, and to no others.    *)
LEMMA OneField ==
  ASSUME NEW fields, NEW k \in Nat \ {0}
  PROVE  /\ KeysTo(fields, k) = KeysTo(fields, k - 1) \cup {fields[k]}
         /\ \A key : key # fields[k] => UpTo(fields, k, key) = UpTo(fields, k - 1, key)
         /\ UpTo(fields, k, fields[k]) = UpTo(fields, k - 1, fields[k]) \cup {k}
         /\ Max(UpTo(fields, k, fields[k])) = k
         /\ InOrder(UpTo(fields, k, fields[k]))
              = Append(InOrder(UpTo(fields, k - 1, fields[k])), k)
         /\ Cardinality(UpTo(fields, k - 1, fields[k])) \in Nat
         /\ Cardinality(UpTo(fields, k, fields[k]))
              = Cardinality(UpTo(fields, k - 1, fields[k])) + 1
         /\ (fields[k] \in KeysTo(fields, k - 1)) <=>
              (Cardinality(UpTo(fields, k - 1, fields[k])) # 0)
<1> DEFINE old == UpTo(fields, k - 1, fields[k])
           new == UpTo(fields, k, fields[k])
<1>1. k - 1 \in Nat /\ k \in Nat /\ \A j \in 1 .. k : j = k \/ j \in 1 .. k - 1
  OBVIOUS
<1>2. \A j \in 1 .. k - 1 : j \in 1 .. k /\ j # k /\ j < k /\ j \in Nat
  OBVIOUS
<1>3. k \in 1 .. k
  OBVIOUS
<1>4. KeysTo(fields, k) = KeysTo(fields, k - 1) \cup {fields[k]}
  BY <1>1, <1>2, <1>3 DEF KeysTo
<1>5. \A key : key # fields[k] => UpTo(fields, k, key) = UpTo(fields, k - 1, key)
  BY <1>1, <1>2, <1>3 DEF UpTo
<1>6. new = old \cup {k}
  BY <1>1, <1>2, <1>3 DEF UpTo
<1>7. old \in SUBSET (0 .. k - 1) /\ \A x \in old : x < k
  BY <1>1, <1>2 DEF UpTo
<1>8. new \in SUBSET (0 .. k) /\ k \in new /\ \A x \in new : x <= k
  BY <1>1, <1>2, <1>3 DEF UpTo
<1>9. (fields[k] \in KeysTo(fields, k - 1)) <=> (old # {})
  BY DEF KeysTo, UpTo
<1> HIDE DEF old, new
<1>10. Max(new) = k
  <2>1. Max(new) \in new /\ \A x \in new : x <= Max(new)
    BY <1>1, <1>8, SetFacts
  <2>2. PICK m \in new : m = Max(new) /\ \A x \in new : x <= m
    BY <2>1
  <2>3. m \in Nat /\ m <= k /\ k <= m
    BY <1>8, <2>2
  <2> QED BY <2>2, <2>3
<1>11. /\ InOrder(new) = Append(InOrder(old), k)
       /\ Cardinality(old) \in Nat /\ Cardinality(new) = Cardinality(old) + 1
  BY <1>1, <1>6, <1>7, OrderAppends
<1>12. (Cardinality(old) # 0) <=> (old # {})
  BY <1>1, <1>7, SetFacts, FS_EmptySet
<1> QED BY <1>4, <1>5, <1>6, <1>9, <1>10, <1>11, <1>12 DEF old, new

(* So entering the fields one by one makes that table.                     *)
LEMMA EnterFacts ==
  ASSUME NEW fields, NEW k \in Nat \ {0}
  PROVE  Enter(fields, TableTo(fields, k - 1), k) = TableTo(fields, k)
<1> DEFINE table == TableTo(fields, k - 1)
           key   == fields[k]
           again == key \in DOMAIN table \ Numbers
           kind  == IF again /\ key \notin {"to", "cc"} THEN "array" ELSE "string"
           old   == IF again THEN table[key].at ELSE <<>>
           entry == [kind |-> kind, at |-> Append(old, k)]
           was   == UpTo(fields, k - 1, key)
           is    == UpTo(fields, k, key)
<1>1. Enter(fields, table, k) = Set(table, key, entry)
  BY DEF Enter
<1>2. /\ KeysTo(fields, k) = KeysTo(fields, k - 1) \cup {key}
      /\ \A x : x # key => UpTo(fields, k, x) = UpTo(fields, k - 1, x)
      /\ Max(is) = k /\ InOrder(is) = Append(InOrder(was), k)
      /\ Cardinality(was) \in Nat /\ Cardinality(is) = Cardinality(was) + 1
      /\ (key \in KeysTo(fields, k - 1)) <=> (Cardinality(was) # 0)
  BY OneField
<1>3. DOMAIN table = KeysTo(fields, k - 1)
      /\ \A x \in KeysTo(fields, k - 1) : table[x] = EntryTo(fields, k - 1, x)
  BY DEF TableTo
<1> HIDE DEF table
<1>4. again <=> (key \notin Numbers /\ Cardinality(was) # 0)
  BY <1>2, <1>3
<1>5. kind = IF Cardinality(is) = 1 \/ key \in {"to", "cc"} \cup Numbers
             THEN "string" ELSE "array"
  <2>1. (Cardinality(is) = 1) <=> (Cardinality(was) = 0)
    BY <1>2
  <2> HIDE DEF again
  <2> QED BY <1>4, <2>1
<1>6. Append(old, k) = IF key \in Numbers THEN <<Max(is)>> ELSE InOrder(is)
  <2>1. CASE again
    <3>1. key \in KeysTo(fields, k - 1) /\ key \notin Numbers
      BY <1>3, <2>1
    <3>2. table[key].at = InOrder(was)
      BY <1>3, <3>1 DEF EntryTo
    <3>3. old = InOrder(was)
      BY <2>1, <3>2
    <3> QED BY <1>2, <3>1, <3>3
  <2>2. CASE ~again
    <3>1. old = <<>>
      BY <2>2
    <3>2. Append(old, k) = <<k>>
      <4>1. Append(<<>>, k) = <<k>>
        OBVIOUS
      <4> HIDE DEF old
      <4> QED BY <3>1, <4>1
    <3>3. CASE key \in Numbers
      BY <1>2, <3>2, <3>3
    <3>4. CASE key \notin Numbers
      <4>1. Cardinality(was) = 0
        BY <1>4, <2>2, <3>4
      <4>2. was = {}
        <5>1. was \in SUBSET (0 .. k - 1) /\ k - 1 \in Nat
          BY DEF UpTo
        <5> HIDE DEF was
        <5> QED BY <4>1, <5>1, SetFacts, FS_EmptySet
      <4>3. InOrder(was) = <<>>
        BY <4>2, NoneInOrder
      <4> QED BY <1>2, <3>1, <3>4, <4>3
    <3> QED BY <3>3, <3>4
  <2> QED BY <2>1, <2>2
<1>7. entry = EntryTo(fields, k, key)
  <2> HIDE DEF kind, old
  <2> QED BY <1>5, <1>6 DEF EntryTo
<1>8. \A x \in KeysTo(fields, k - 1) : x # key =>
        EntryTo(fields, k, x) = EntryTo(fields, k - 1, x)
  BY <1>2 DEF EntryTo
<1> HIDE DEF entry, key
<1>9. Set(table, key, entry) = [x \in KeysTo(fields, k) |->
                                  IF x = key THEN entry ELSE table[x]]
  BY <1>2, <1>3 DEF Set
<1>10. ASSUME NEW x \in KeysTo(fields, k)
       PROVE  (IF x = key THEN entry ELSE table[x]) = EntryTo(fields, k, x)
  BY <1>2, <1>3, <1>7, <1>8
<1>11. Set(table, key, entry) = TableTo(fields, k)
  BY <1>9, <1>10 DEF TableTo
<1> QED BY <1>1, <1>11 DEF table, key

(* What starts alike and goes on alike stays alike.                        *)
LEMMA Climb ==
  ASSUME NEW n \in Nat, NEW C, NEW G, C[0] = G[0],
         \A k \in Nat : k < n /\ C[k] = G[k] => C[k + 1] = G[k + 1]
  PROVE  C[n] = G[n]
<1> DEFINE Good == {k \in Nat : k <= n => C[k] = G[k]}
<1>1. 0 \in Good
  OBVIOUS
<1>2. ASSUME NEW k \in Nat, k \in Good PROVE k + 1 \in Good
  <2>1. k + 1 <= n => k < n /\ k <= n
    OBVIOUS
  <2> QED BY <1>2, <2>1
<1>3. Nat \subseteq Good
  <2> HIDE DEF Good
  <2> QED BY <1>1, <1>2, Induct
<1> QED BY <1>3

(* The table has every field of the list.                                  *)
TableOf(fields, G, k) == IF k = 0 THEN <<>> ELSE Enter(fields, G[k - 1], k)

(* The header table after k fields, as HeaderTable computes it.            *)
LEMMA TableUnfolds ==
  ASSUME NEW fields
  PROVE  HeaderTable(fields)
           = (CHOOSE G : G = [k \in 0 .. Len(fields) |-> TableOf(fields, G, k)])[Len(fields)]
BY DEF HeaderTable, TableOf

(* ... is the one the fields up to there call for.                         *)
LEMMA TableFacts ==
  ASSUME NEW fields, Len(fields) \in Nat
  PROVE  HeaderTable(fields) = TableTo(fields, Len(fields))
<1> DEFINE n == Len(fields)
           G == [k \in 0 .. n |-> TableTo(fields, k)]
           C == CHOOSE H : H = [k \in 0 .. n |-> TableOf(fields, H, k)]
<1>1. TableTo(fields, 0) = <<>>
  <2>1. KeysTo(fields, 0) = {}
    BY DEF KeysTo
  <2> QED BY <2>1 DEF TableTo
<1>2. ASSUME NEW k \in 0 .. n, NEW H, k # 0 => H[k - 1] = TableTo(fields, k - 1)
      PROVE  TableOf(fields, H, k) = TableTo(fields, k)
  <2>1. CASE k = 0
    BY <1>1, <2>1 DEF TableOf
  <2>2. CASE k # 0
    <3>1. k \in Nat \ {0}
      BY <2>2
    <3>2. Enter(fields, TableTo(fields, k - 1), k) = TableTo(fields, k)
      BY <3>1, EnterFacts
    <3> QED BY <1>2, <2>2, <3>2 DEF TableOf
  <2> QED BY <2>1, <2>2
<1>3. G = [k \in 0 .. n |-> TableOf(fields, G, k)]
  <2>1. ASSUME NEW k \in 0 .. n PROVE TableOf(fields, G, k) = TableTo(fields, k)
    <3>1. k # 0 => k - 1 \in 0 .. n
      OBVIOUS
    <3>2. k # 0 => G[k - 1] = TableTo(fields, k - 1)
      BY <3>1
    <3> HIDE DEF G
    <3> QED BY <1>2, <3>2
  <2>2. [k \in 0 .. n |-> TableOf(fields, G, k)] = [k \in 0 .. n |-> TableTo(fields, k)]
    <3> HIDE DEF G
    <3> QED BY <2>1
  <2> QED BY <2>2
<1>4. C = [k \in 0 .. n |-> TableOf(fields, C, k)]
  <2> HIDE DEF G
  <2> QED BY Zenon, <1>3
<1>5. HeaderTable(fields) = C[n]
  BY TableUnfolds
<1> HIDE DEF C
<1>6. \A k \in 0 .. n : C[k] = TableOf(fields, C, k)
  <2> DEFINE R == [k \in 0 .. n |-> TableOf(fields, C, k)]
  <2>1. \A k \in 0 .. n : R[k] = TableOf(fields, C, k)
    OBVIOUS
  <2>2. C = R
    BY <1>4
  <2> HIDE DEF R
  <2> QED BY <2>1, <2>2
<1>7. C[0] = G[0]
  <2>1. 0 \in 0 .. n
    OBVIOUS
  <2>2. TableOf(fields, C, 0) = TableTo(fields, 0)
    BY <1>2, <2>1
  <2> QED BY <1>6, <2>1, <2>2
<1>8. ASSUME NEW k \in Nat, k < n, C[k] = G[k] PROVE C[k + 1] = G[k + 1]
  <2>1. k \in 0 .. n /\ k + 1 \in 0 .. n /\ (k + 1) - 1 = k
    BY <1>8
  <2>2. C[(k + 1) - 1] = TableTo(fields, (k + 1) - 1)
    BY <1>8, <2>1
  <2>3. TableOf(fields, C, k + 1) = TableTo(fields, k + 1)
    BY <1>2, <2>1, <2>2
  <2> QED BY <1>6, <2>1, <2>3
<1>9. C[n] = G[n]
  <2> HIDE DEF G
  <2> QED BY <1>7, <1>8, Climb
<1> QED BY <1>5, <1>9

(* The same for the copies.                                                *)
CopiesTo(fields, k) ==
  [key \in KeysTo(fields, k) \cap Copied |-> FromFields(<<Max(UpTo(fields, k, key))>>)]
CopyOf(fields, G, k) ==
  CASE k = 0 -> <<>>
    [] k > 0 /\ fields[k] \in Copied ->
         Set(G[k - 1], fields[k], FromFields(<<k>>))
    [] OTHER -> G[k - 1]

(* The copies after k fields, as Copies computes them.                     *)
LEMMA CopiesUnfold ==
  ASSUME NEW fields
  PROVE  Copies(fields)
           = (CHOOSE G : G = [k \in 0 .. Len(fields) |-> CopyOf(fields, G, k)])[Len(fields)]
BY DEF Copies, CopyOf

(* One more field is copied over an earlier one of its name, or is not     *)
(* one that is copied.                                                     *)
LEMMA OneCopy ==
  ASSUME NEW fields, NEW k \in Nat, NEW H, k # 0 => H[k - 1] = CopiesTo(fields, k - 1)
  PROVE  CopyOf(fields, H, k) = CopiesTo(fields, k)
<1>1. CASE k = 0
  <2>1. KeysTo(fields, 0) = {}
    BY DEF KeysTo
  <2>2. CopiesTo(fields, 0) = <<>>
    BY <2>1 DEF CopiesTo
  <2>3. CopyOf(fields, H, 0) = <<>>
    BY DEF CopyOf
  <2> QED BY <1>1, <2>2, <2>3
<1>2. CASE k # 0
  <2> DEFINE key == fields[k]
  <2>0. k \in Nat \ {0} /\ k > 0
    BY <1>2
  <2>1. /\ KeysTo(fields, k) = KeysTo(fields, k - 1) \cup {key}
        /\ \A x : x # key => UpTo(fields, k, x) = UpTo(fields, k - 1, x)
        /\ Max(UpTo(fields, k, key)) = k
    BY <2>0, OneField
  <2>2. H[k - 1] = CopiesTo(fields, k - 1)
    BY <1>2
  <2>3. CASE key \notin Copied
    <3>1. CopyOf(fields, H, k) = H[k - 1]
      BY <2>0, <2>3 DEF CopyOf
    <3>2. KeysTo(fields, k) \cap Copied = KeysTo(fields, k - 1) \cap Copied
      BY <2>1, <2>3
    <3>3. \A x \in KeysTo(fields, k - 1) \cap Copied :
            UpTo(fields, k, x) = UpTo(fields, k - 1, x)
      BY <2>1, <2>3
    <3>4. CopiesTo(fields, k) = CopiesTo(fields, k - 1)
      BY <3>2, <3>3 DEF CopiesTo
    <3> QED BY <2>2, <3>1, <3>4
  <2>4. CASE key \in Copied
    <3> DEFINE old == CopiesTo(fields, k - 1)
               new == FromFields(<<k>>)
    <3>1. CopyOf(fields, H, k) = Set(old, key, new)
      BY <2>0, <2>2, <2>4 DEF CopyOf
    <3>2. DOMAIN old = KeysTo(fields, k - 1) \cap Copied
          /\ \A x \in DOMAIN old : old[x] = FromFields(<<Max(UpTo(fields, k - 1, x))>>)
      BY DEF CopiesTo
    <3>3. DOMAIN old \cup {key} = KeysTo(fields, k) \cap Copied
      BY <2>1, <2>4, <3>2
    <3> HIDE DEF old
    <3>4. Set(old, key, new) = [x \in KeysTo(fields, k) \cap Copied |->
                                  IF x = key THEN new ELSE old[x]]
      BY <3>3 DEF Set
    <3>5. ASSUME NEW x \in KeysTo(fields, k) \cap Copied
          PROVE  (IF x = key THEN new ELSE old[x]) = FromFields(<<Max(UpTo(fields, k, x))>>)
      <4>1. CASE x = key
        BY <2>1, <4>1
      <4>2. CASE x # key
        <5>1. x \in DOMAIN old
          BY <3>3, <4>2
        <5> HIDE DEF key
        <5> QED BY <2>1, <3>2, <4>2, <5>1
      <4> QED BY <4>1, <4>2
    <3> HIDE DEF new, key
    <3>6. Set(old, key, new) = CopiesTo(fields, k)
      BY <3>4, <3>5 DEF CopiesTo
    <3> QED BY <3>1, <3>6
  <2> QED BY <2>3, <2>4
<1> QED BY <1>1, <1>2

(* So the last field of each name is what is kept besides.                 *)
LEMMA CopiesFacts ==
  ASSUME NEW fields, Len(fields) \in Nat
  PROVE  Copies(fields) = CopiesTo(fields, Len(fields))
<1> DEFINE n == Len(fields)
           G == [k \in 0 .. n |-> CopiesTo(fields, k)]
           C == CHOOSE H : H = [k \in 0 .. n |-> CopyOf(fields, H, k)]
<1>1. G = [k \in 0 .. n |-> CopyOf(fields, G, k)]
  <2>1. ASSUME NEW k \in 0 .. n PROVE CopyOf(fields, G, k) = CopiesTo(fields, k)
    <3>1. k # 0 => k - 1 \in 0 .. n
      OBVIOUS
    <3>2. k \in Nat /\ (k # 0 => G[k - 1] = CopiesTo(fields, k - 1))
      BY <3>1
    <3> HIDE DEF G
    <3> QED BY <3>2, OneCopy
  <2>2. [k \in 0 .. n |-> CopyOf(fields, G, k)] = [k \in 0 .. n |-> CopiesTo(fields, k)]
    <3> HIDE DEF G
    <3> QED BY <2>1
  <2> QED BY <2>2
<1>2. C = [k \in 0 .. n |-> CopyOf(fields, C, k)]
  <2> HIDE DEF G
  <2> QED BY Zenon, <1>1
<1>3. Copies(fields) = C[n]
  BY CopiesUnfold
<1> HIDE DEF C
<1>4. \A k \in 0 .. n : C[k] = CopyOf(fields, C, k)
  <2> DEFINE R == [k \in 0 .. n |-> CopyOf(fields, C, k)]
  <2>1. \A k \in 0 .. n : R[k] = CopyOf(fields, C, k)
    OBVIOUS
  <2>2. C = R
    BY <1>2
  <2> HIDE DEF R
  <2> QED BY <2>1, <2>2
<1>5. C[0] = G[0]
  <2>1. 0 \in 0 .. n /\ CopyOf(fields, C, 0) = CopiesTo(fields, 0)
    BY OneCopy
  <2> QED BY <1>4, <2>1
<1>6. ASSUME NEW k \in Nat, k < n, C[k] = G[k] PROVE C[k + 1] = G[k + 1]
  <2>1. k \in 0 .. n /\ k + 1 \in 0 .. n /\ (k + 1) - 1 = k /\ k + 1 \in Nat
    BY <1>6
  <2>2. C[(k + 1) - 1] = CopiesTo(fields, (k + 1) - 1)
    BY <1>6, <2>1
  <2>3. CopyOf(fields, C, k + 1) = CopiesTo(fields, k + 1)
    BY <2>1, <2>2, OneCopy
  <2> QED BY <1>4, <2>1, <2>3
<1>7. C[n] = G[n]
  <2> HIDE DEF G
  <2> QED BY <1>5, <1>6, Climb
<1> QED BY <1>3, <1>7

-----------------------------------------------------------------------------
(* The fields of a part with one of the headers.                           *)
LEMMA FieldsFacts ==
  ASSUME header \in Headers, NEW fields \in Fields(header)
  PROVE  /\ Len(fields) \in Nat
         /\ Range(fields) = KeysTo(fields, Len(fields))
         /\ \A key : Places(fields, key) = UpTo(fields, Len(fields), key)
         /\ \A key \in Range(fields) :
              /\ Places(fields, key) # {}
              /\ Places(fields, key) \in SUBSET (0 .. Len(fields))
<1>1. fields \in Seq(Range(fields))
  BY FieldsAssumption
<1>2. Len(fields) \in Nat /\ DOMAIN fields = 1 .. Len(fields)
  BY <1>1, LenProperties
<1>3. Range(fields) = KeysTo(fields, Len(fields))
  BY <1>2 DEF Range, KeysTo
<1>4. \A key : Places(fields, key) = UpTo(fields, Len(fields), key)
  BY <1>2 DEF Places, UpTo
<1>5. \A key \in Range(fields) : Places(fields, key) # {}
  BY DEF Range, Places
<1>6. \A key : Places(fields, key) \in SUBSET (0 .. Len(fields))
  BY <1>2 DEF Places
<1> QED BY <1>2, <1>3, <1>4, <1>5, <1>6

(* FieldsKept of the header table of any list of fields.                   *)
LEMMA TableKeeps ==
  ASSUME header \in Headers
  PROVE  FieldsKept
<1> SUFFICES ASSUME NEW fields \in Fields(header)
             PROVE  /\ DOMAIN HeaderTable(fields) = Range(fields)
                    /\ \A key \in DOMAIN HeaderTable(fields) :
                         HeaderTable(fields)[key] = EntryTo(fields, Len(fields), key)
  <2>1. ASSUME NEW fields \in Fields(header),
               DOMAIN HeaderTable(fields) = Range(fields),
               NEW key \in DOMAIN HeaderTable(fields),
               HeaderTable(fields)[key] = EntryTo(fields, Len(fields), key)
        PROVE  /\ HeaderTable(fields)[key].at =
                    IF key \in Numbers THEN <<Max(Places(fields, key))>>
                    ELSE InOrder(Places(fields, key))
               /\ (HeaderTable(fields)[key].kind = "string") <=>
                    (Cardinality(Places(fields, key)) = 1 \/ key \in {"to", "cc"} \cup Numbers)
    <3>1. Places(fields, key) = UpTo(fields, Len(fields), key)
      BY FieldsFacts
    <3> QED BY <2>1, <3>1 DEF EntryTo
  <2> QED BY <2>1 DEF FieldsKept
<1>1. /\ HeaderTable(fields) = TableTo(fields, Len(fields))
      /\ Range(fields) = KeysTo(fields, Len(fields))
  BY FieldsFacts, TableFacts
<1> QED BY <1>1 DEF TableTo

(* What is entered last is found.                                          *)
LEMMA OverFacts ==
  ASSUME NEW late, NEW early, NEW key
  PROVE  /\ key \in DOMAIN late => Over(late, early)[key] = late[key]
                                   /\ key \in DOMAIN Over(late, early)
         /\ key \notin DOMAIN late /\ key \in DOMAIN early =>
              Over(late, early)[key] = early[key] /\ key \in DOMAIN Over(late, early)
BY DEF Over

(* An entry is found where it was set, and the others where they were.     *)
LEMMA SetFinds ==
  ASSUME NEW table, NEW base, NEW pieces, NEW key
  PROVE  /\ Set(table, base, pieces)[base] = pieces
         /\ base \in DOMAIN Set(table, base, pieces)
         /\ key # base /\ key \in DOMAIN table =>
              Set(table, base, pieces)[key] = table[key]
              /\ key \in DOMAIN Set(table, base, pieces)
BY DEF Set

(* HeadersNotHidden of any list of fields, whatever the attributes are.    *)
LEMMA DataTell ==
  ASSUME header \in Headers
  PROVE  HeadersNotHidden
<1> SUFFICES ASSUME NEW fields \in Fields(header), NEW label, NEW key \in Range(fields)
             PROVE  LET data   == PartData(fields, label)
                        places == Places(fields, key)
                    IN /\ key = "content-type" => data[key] = FromType
                       /\ key = "content-id" => data[key] = FromFields(<<Min(places)>>)
                       /\ key \in Copied \ {"content-transfer-encoding"} =>
                            data[key] = FromFields(<<Max(places)>>)
                       /\ key = "content-description" =>
                            data[key] = FromFields(InOrder(places))
  BY DEF HeadersNotHidden
<1> DEFINE n      == Len(fields)
           table  == HeaderTable(fields)
           copies == Copies(fields)
           places == Places(fields, key)
           Copy(k) == IF k \in DOMAIN copies THEN copies[k] ELSE Default
           encoded == Set(<<>>, "transfer-encoding", Copy("content-transfer-encoding"))
           own     == IF "content-type" \in DOMAIN table THEN TypeData(label)
                      ELSE Set(<<>>, "content-type", Default)
           typed   == Over(own, encoded)
           placed  == [k \in {"content-location", "content-disposition"}
                             \cap DOMAIN copies |-> copies[k]]
           located == Over(placed, typed)
           based   == Set(located, "content-base", Copy("content-base"))
           id      == [k \in {"content-id"} \cap DOMAIN table |->
                         FromFields(<<table[k].at[1]>>)]
           named   == Over(id, based)
           last    == [k \in {"content-description", "content-language", "content-md5"}
                             \cap DOMAIN table |-> FromFields(table[k].at)]
           data    == Over(last, named)
<1>1. PartData(fields, label) = data
  BY DEF PartData
<1>2. /\ key \in DOMAIN table /\ table[key] = EntryTo(fields, n, key)
      /\ key \in Copied => key \in DOMAIN copies /\ copies[key] = FromFields(<<Max(places)>>)
      /\ places = UpTo(fields, n, key)
      /\ places # {} /\ places \in SUBSET (0 .. n) /\ n \in Nat
  <2>1. /\ n \in Nat /\ Range(fields) = KeysTo(fields, n)
        /\ places = UpTo(fields, n, key) /\ places # {} /\ places \in SUBSET (0 .. n)
    BY FieldsFacts
  <2>2. table = TableTo(fields, n) /\ copies = CopiesTo(fields, n)
    BY <2>1, TableFacts, CopiesFacts
  <2> HIDE DEF table, copies, places, n
  <2> QED BY <2>1, <2>2 DEF TableTo, CopiesTo
<1>3. /\ DOMAIN placed = {"content-location", "content-disposition"} \cap DOMAIN copies
      /\ \A k \in DOMAIN placed : placed[k] = copies[k]
      /\ DOMAIN id = {"content-id"} \cap DOMAIN table
      /\ \A k \in DOMAIN id : id[k] = FromFields(<<table[k].at[1]>>)
      /\ DOMAIN last = {"content-description", "content-language", "content-md5"}
                       \cap DOMAIN table
      /\ \A k \in DOMAIN last : last[k] = FromFields(table[k].at)
  OBVIOUS
<1> HIDE DEF table, copies, places, placed, id, last, n
<1>4. CASE key = "content-type"
  <2>1. "content-type" \in DOMAIN own /\ own["content-type"] = FromType
    BY <1>2, <1>4, SetFinds DEF TypeData
  <2> HIDE DEF own
  <2>2. "content-type" \in DOMAIN typed /\ typed["content-type"] = FromType
    BY <2>1, OverFacts
  <2> HIDE DEF typed
  <2>3. "content-type" \in DOMAIN located /\ located["content-type"] = FromType
    BY <1>3, <2>2, OverFacts
  <2> HIDE DEF located
  <2>4. "content-type" \in DOMAIN based /\ based["content-type"] = FromType
    BY <2>3, SetFinds
  <2> HIDE DEF based
  <2>5. "content-type" \in DOMAIN named /\ named["content-type"] = FromType
    BY <1>3, <2>4, OverFacts
  <2> HIDE DEF named
  <2>6. data["content-type"] = FromType
    BY <1>3, <2>5, OverFacts
  <2> QED BY <1>1, <1>4, <2>6 DEF Copied
<1>5. CASE key = "content-id"
  <2>1. table[key].at[1] = Min(places)
    <3>1. key \notin Numbers
      BY <1>5, NumbersAssumption
    <3>2. table[key].at = InOrder(places)
      BY <1>2, <3>1 DEF EntryTo
    <3> QED BY <1>2, <3>2, FirstInOrder
  <2>2. key \in DOMAIN id /\ id[key] = FromFields(<<Min(places)>>)
    BY <1>2, <1>3, <1>5, <2>1
  <2> HIDE DEF based
  <2>3. key \in DOMAIN named /\ named[key] = FromFields(<<Min(places)>>)
    BY <2>2, OverFacts
  <2> HIDE DEF named
  <2>4. data[key] = FromFields(<<Min(places)>>)
    <3>1. key \notin DOMAIN last
      BY <1>3, <1>5
    <3> QED BY <2>3, <3>1, OverFacts
  <2> QED BY <1>1, <1>5, <2>4 DEF Copied, places
<1>6. CASE key \in {"content-location", "content-disposition"}
  <2>1. key \in DOMAIN placed /\ placed[key] = FromFields(<<Max(places)>>)
    BY <1>2, <1>3, <1>6 DEF Copied
  <2> HIDE DEF typed
  <2>2. key \in DOMAIN located /\ located[key] = FromFields(<<Max(places)>>)
    BY <2>1, OverFacts
  <2> HIDE DEF located
  <2>3. key \in DOMAIN based /\ based[key] = FromFields(<<Max(places)>>)
    BY <1>6, <2>2, SetFinds
  <2> HIDE DEF based
  <2>4. key \notin DOMAIN id /\ key \notin DOMAIN last
    BY <1>3, <1>6
  <2>5. key \in DOMAIN named /\ named[key] = FromFields(<<Max(places)>>)
    BY <2>3, <2>4, OverFacts
  <2> HIDE DEF named
  <2>6. data[key] = FromFields(<<Max(places)>>)
    BY <2>4, <2>5, OverFacts
  <2> QED BY <1>1, <1>6, <2>6 DEF Copied, places
<1>7. CASE key = "content-base"
  <2>1. Copy("content-base") = FromFields(<<Max(places)>>)
    BY <1>2, <1>7 DEF Copied
  <2> HIDE DEF located
  <2>2. key \in DOMAIN based /\ based[key] = FromFields(<<Max(places)>>)
    BY <1>7, <2>1, SetFinds
  <2> HIDE DEF based
  <2>4. key \notin DOMAIN id /\ key \notin DOMAIN last
    BY <1>3, <1>7
  <2>5. key \in DOMAIN named /\ named[key] = FromFields(<<Max(places)>>)
    BY <2>2, <2>4, OverFacts
  <2> HIDE DEF named
  <2>6. data[key] = FromFields(<<Max(places)>>)
    BY <2>4, <2>5, OverFacts
  <2> QED BY <1>1, <1>7, <2>6 DEF Copied, places
<1>8. CASE key = "content-description"
  <2>1. key \notin Numbers
    BY <1>8, NumbersAssumption
  <2>2. key \in DOMAIN last /\ last[key] = FromFields(InOrder(places))
    <3>1. table[key].at = InOrder(places)
      BY <1>2, <2>1 DEF EntryTo
    <3> QED BY <1>2, <1>3, <1>8, <3>1
  <2> HIDE DEF named
  <2>3. data[key] = FromFields(InOrder(places))
    BY <2>2, OverFacts
  <2> QED BY <1>1, <1>8, <2>3 DEF Copied, places
<1> QED BY <1>4, <1>5, <1>6, <1>7, <1>8 DEF Copied

-----------------------------------------------------------------------------
(* The header has been scanned, and is not touched.                        *)
HeaderRead == header \in Headers /\ tokens = Tokenize(header)
Positioned ==
  /\ first_semi \in Nat \ {0} /\ first_semi <= ntokens + 1
  /\ first_semi <= ntokens => first_semi >= 4 /\ tokens[first_semi - 1].token = ";"

(* The tokens are laid in the header, one behind the other.                *)
LEMMA ReadFacts ==
  ASSUME HeaderRead
  PROVE  /\ header \in Seq(Symbol) /\ tokens \in Laid(header, 1, Len(header))
         /\ ntokens \in Nat /\ DOMAIN tokens = 1 .. ntokens
<1>1. header \in Seq(Symbol)
  BY StarAssumption DEF HeaderRead
<1>2. tokens \in Laid(header, 1, Len(header))
  BY <1>1, TokenizeFacts DEF HeaderRead
<1>3. tokens \in Seq(Token)
  BY <1>2 DEF Laid
<1> QED BY <1>1, <1>2, <1>3, LenProperties DEF ntokens

(* The next ";", or the end.                                               *)
LEMMA SemiFacts ==
  ASSUME HeaderRead, NEW from \in Nat \ {0}
  PROVE  /\ NextSemi(from) \in Nat /\ from <= NextSemi(from)
         /\ NextSemi(from) <= ntokens => tokens[NextSemi(from)].token = ";"
         /\ \A j \in from .. ntokens : tokens[j].token = ";" => NextSemi(from) <= j
         /\ NextSemi(from) <= ntokens \/ NextSemi(from) <= from \/ NextSemi(from) = ntokens + 1
<1>0. ntokens \in Nat
  BY ReadFacts
<1> DEFINE Semis == {j \in from .. ntokens : tokens[j].token = ";"}
           end   == Max({from, ntokens + 1})
           All   == Semis \cup {end}
<1>1. /\ end \in {from, ntokens + 1} /\ from <= end /\ ntokens + 1 <= end
  <2>1. from + (ntokens + 1) \in Nat
        /\ {from, ntokens + 1} \in SUBSET (0 .. from + (ntokens + 1))
        /\ {from, ntokens + 1} # {}
    BY <1>0
  <2>2. end \in {from, ntokens + 1} /\ \A x \in {from, ntokens + 1} : x <= end
    BY <2>1, MaxFacts
  <2> QED BY <2>2
<1>2. end \in Nat
  BY <1>0, <1>1
<1> HIDE DEF end
<1>3. Semis \in SUBSET Nat /\ \A j \in Semis : from <= j /\ j <= ntokens
  <2>1. \A j \in from .. ntokens : j \in Nat /\ from <= j /\ j <= ntokens
    BY <1>0
  <2> QED BY <2>1
<1>4. NextSemi(from) = Min(All)
  BY DEF NextSemi, end
<1>5. Min(All) \in All /\ Min(All) \in Nat /\ \A n \in All : Min(All) <= n
  <2>1. All \in SUBSET Nat /\ All # {}
    BY <1>2, <1>3
  <2> HIDE DEF All
  <2> QED BY <2>1, MinFacts
<1>6. PICK m \in Nat : m = NextSemi(from)
  BY <1>4, <1>5
<1>7. m \in All /\ \A n \in All : m <= n
  BY <1>4, <1>5, <1>6
<1>8. from <= m
  BY <1>1, <1>3, <1>7
<1>9. m \in Semis \/ m = end
  BY <1>7
<1>10. m <= ntokens => m \in Semis
  <2>1. m <= ntokens => m # end
    BY <1>0, <1>1, <1>6
  <2> QED BY <1>9, <2>1
<1>11. m <= ntokens \/ m <= from \/ m = ntokens + 1
  <2> HIDE DEF Semis
  <2> QED BY <1>0, <1>1, <1>3, <1>9
<1>12. \A j \in Semis : m <= j
  BY <1>7
<1> QED BY <1>6, <1>8, <1>10, <1>11, <1>12

(* An attribute has its "=" somewhere, or 0 says that it has none ...      *)
LEMMA EqualsFacts ==
  ASSUME HeaderRead, NEW from \in Nat \ {0}
  PROVE  Equals(from) \in Nat
<1> DEFINE next == {j \in from + 1 .. NextSemi(from) - 1 : tokens[j].token # "("}
<1>1. NextSemi(from) \in Nat
  BY SemiFacts
<1>2. next \in SUBSET Nat
  BY <1>1
<1>3. next # {} => Min(next) \in Nat
  <2> HIDE DEF next
  <2> QED BY <1>2, MinFacts
<1>4. Equals(from) = IF next # {} /\ tokens[Min(next)].token = "=" THEN Min(next) ELSE 0
  BY DEF Equals
<1> HIDE DEF next
<1> QED BY <1>3, <1>4

(* ... with the text of its value.                                         *)
LEMMA ValueTextFacts ==
  ASSUME HeaderRead, NEW from \in Nat \ {0}
  PROVE  ValueText(from) \in Seq(Symbol)
<1>1. Equals(from) \in Nat /\ NextSemi(from) \in Nat
  BY EqualsFacts, SemiFacts
<1>2. PICK first \in Nat \ {0} : first = Equals(from) + 1
  BY <1>1
<1>3. PICK count \in Int : count = NextSemi(from) - Equals(from) - 1
  BY <1>1
<1>4. header \in Seq(Symbol) /\ tokens \in Laid(header, 1, Len(header))
  BY ReadFacts
<1>5. "STRTOLOWER" \notin {"IGNORE_COMMENTS"}
  OBVIOUS
<1>6. Recombines(header, tokens, first, Min({first + count - 1, Len(tokens)}),
                 {"IGNORE_COMMENTS"},
                 Recombine(header, tokens, first, count, {"IGNORE_COMMENTS"}))
  BY <1>4, <1>5, RecombineFacts
<1>7. Recombine(header, tokens, first, count, {"IGNORE_COMMENTS"}) \in Seq(Symbol)
  BY <1>6 DEF Recombines
<1> QED BY <1>2, <1>3, <1>7 DEF ValueText

(* The attributes that have been read.                                     *)
Read         == {s \in Written : s < first_semi}
CalledAs(s)  == BaseOf(NameText(s))
IsStarred(s) == Starred(NameText(s)) # {}

(* Pieces that say the values of S, with encoded words that open and close.*)
Balanced(pieces, open) ==
  /\ \A k \in DOMAIN pieces :
       Depth(pieces, k) = IF pieces[k].kind \in {"open", "quoted"} THEN 1 ELSE 0
  /\ Depth(pieces, Len(pieces)) = IF open THEN 1 ELSE 0
OnePiece == [kind : {"open", "quoted", "close", "text"}, text : Seq(Symbol)]
Pieces   == Seq(OnePiece)
Tells(pieces, S, open) ==
  /\ pieces \in Pieces
  /\ Texts(pieces) = Values(S)
  /\ (\A s \in S : ~Unintroduced(s, S)) => Balanced(pieces, open)

(* What has been read of R is in the table, but for what is being joined.  *)
Entered(R, table, joining) ==
  /\ DOMAIN table \cup joining = {CalledAs(s) : s \in R}
  /\ \A b \in DOMAIN table \ joining : Tells(table[b], Sources(R, b), FALSE)

(* An attribute is being joined: everything since it began is called as it *)
(* is, and its segments are those of the last run of its name.             *)
Segments(R, at) == {s \in R : s >= at /\ IsStarred(s)}
Joining(R, buf, pieces, prev, table) ==
  /\ buf.at \in R /\ IsStarred(buf.at)
  /\ \A s \in R : s >= buf.at => CalledAs(s) = buf.base
  /\ \A s \in LastRun(R, buf.base) : IsStarred(s) => s >= buf.at
  /\ Entered(R, table, {buf.base})
  /\ Tells(pieces, Segments(R, buf.at), prev)
  /\ prev = IsEncoded(NameText(Max(Segments(R, buf.at))))

(* Nothing is being joined: there is no segment in the run the next        *)
(* attribute may go on with.                                               *)
PlainRun(R, b) == \A s \in LastRun(R, b) : ~IsStarred(s)
Idle(R, table, prev, more) ==
  /\ Entered(R, table, {})
  /\ more => ~prev /\ (R # {} => PlainRun(R, CalledAs(Max(R))))

Joins ==
  /\ is_rfc2231_name \in BOOLEAN /\ prevcharset_p \in BOOLEAN
  /\ is_rfc2231_name =>
       /\ Joining(Read, name_buf, value_buf, prevcharset_p, attributes)
       /\ live = {name_buf.at}
  /\ ~is_rfc2231_name =>
       /\ Idle(Read, attributes, prevcharset_p, first_semi <= ntokens)
       /\ name_buf = NoName /\ value_buf = <<>> /\ live = {}
IInv == HeaderRead /\ Positioned /\ Joins

(* Nothing of this changes while the header stays.                         *)
LEMMA Unmoved ==
  ASSUME header' = header, tokens' = tokens
  PROVE  /\ ntokens' = ntokens
         /\ \A s : NextSemi(s)' = NextSemi(s)
         /\ \A s : Equals(s)' = Equals(s)
         /\ \A s : NameText(s)' = NameText(s)
         /\ \A s : ValueText(s)' = ValueText(s)
         /\ Written' = Written
<1>1. ntokens' = ntokens
  BY DEF ntokens
<1>2. \A s : NextSemi(s)' = NextSemi(s)
  BY <1>1 DEF NextSemi
<1>3. \A s : Equals(s)' = Equals(s)
  BY <1>2 DEF Equals
<1>4. \A s : NameText(s)' = NameText(s)
  BY DEF NameText
<1>5. \A s : ValueText(s)' = ValueText(s)
  BY <1>2, <1>3 DEF ValueText
<1>6. Written' = Written
  BY <1>1, <1>3 DEF Written
<1> QED BY <1>1, <1>2, <1>3, <1>4, <1>5, <1>6

(* ... nor what is defined of the attributes.                              *)
LEMMA RunsUnmoved ==
  ASSUME header' = header, tokens' = tokens
  PROVE  /\ HeaderRead => HeaderRead'
         /\ \A s : CalledAs(s)' = CalledAs(s)
         /\ \A s : IsStarred(s)' = IsStarred(s)
         /\ \A W, b : LastRun(W, b)' = LastRun(W, b)
         /\ \A W, b : Sources(W, b)' = Sources(W, b)
         /\ \A s, S : Unintroduced(s, S)' = Unintroduced(s, S)
         /\ \A S : Values(S)' = Values(S)
<1>0. /\ \A s : NameText(s)' = NameText(s)
      /\ \A s : ValueText(s)' = ValueText(s)
  BY Unmoved
<1>1. HeaderRead => HeaderRead'
  BY DEF HeaderRead
<1>2. \A s : CalledAs(s)' = CalledAs(s)
  BY <1>0 DEF CalledAs
<1>3. \A s : IsStarred(s)' = IsStarred(s)
  BY <1>0 DEF IsStarred
<1>4. \A W, b : Called(W, b)' = Called(W, b)
  BY <1>0 DEF Called
<1>5. \A W, b : LastRun(W, b)' = LastRun(W, b)
  BY <1>4 DEF LastRun
<1>6. ASSUME NEW W, NEW b PROVE Sources(W, b)' = Sources(W, b)
  <2> DEFINE starred == {s \in LastRun(W, b) : Starred(NameText(s)) # {}}
  <2>1. LastRun(W, b)' = LastRun(W, b)
    BY <1>5
  <2>2. starred' = starred
    BY <1>0, <2>1
  <2>3. Sources(W, b) = IF starred = {} THEN {Max(LastRun(W, b))} ELSE starred
    BY DEF Sources
  <2>4. Sources(W, b)' = IF starred' = {} THEN {Max(LastRun(W, b)')} ELSE starred'
    BY DEF Sources
  <2> HIDE DEF starred
  <2> QED BY <2>1, <2>2, <2>3, <2>4
<1>7. \A s, S : Unintroduced(s, S)' = Unintroduced(s, S)
  BY <1>0 DEF Unintroduced
<1>8. ASSUME NEW S PROVE Values(S)' = Values(S)
  <2> DEFINE kept == InOrder({s \in S : ~Unintroduced(s, S)})
  <2>1. kept' = kept
    BY <1>7
  <2>2. PICK q : q = kept
    OBVIOUS
  <2>3. kept' = q
    BY <2>1, <2>2
  <2>4. Values(S) = [k \in DOMAIN q |-> ValueText(q[k])]
    BY <2>2 DEF Values
  <2>5. Values(S)' = [k \in DOMAIN q |-> ValueText(q[k])']
    BY <2>3 DEF Values
  <2> HIDE DEF kept
  <2> QED BY <1>0, <2>4, <2>5
<1> QED BY <1>1, <1>2, <1>3, <1>5, <1>6, <1>7, <1>8

(* The attributes that have been read are in front of the next one.        *)
LEMMA ReadBounds ==
  ASSUME HeaderRead, Positioned
  PROVE  /\ Read \in SUBSET (0 .. ntokens) /\ Written \in SUBSET (4 .. ntokens)
         /\ ntokens \in Nat /\ first_semi \in Nat \ {0}
         /\ \A s \in Read : s \in Nat \ {0} /\ s < first_semi
<1>1. ntokens \in Nat /\ first_semi \in Nat \ {0}
  BY ReadFacts DEF Positioned
<1>2. Written \in SUBSET (4 .. ntokens)
  BY DEF Written
<1>3. \A s \in 4 .. ntokens : s \in 0 .. ntokens /\ s \in Nat \ {0}
  BY <1>1
<1>4. Read \in SUBSET Written /\ \A s \in Read : s < first_semi
  BY DEF Read
<1>5. Read \in SUBSET (4 .. ntokens)
  BY <1>2, <1>4
<1>6. Read \in SUBSET (0 .. ntokens) /\ \A s \in Read : s \in Nat \ {0}
  BY <1>3, <1>5
<1> QED BY <1>1, <1>2, <1>4, <1>6

(* A step reads the attribute where it starts, if it is one, and no other. *)
LEMMA NextRead ==
  ASSUME HeaderRead, Positioned, first_semi <= ntokens, Resume,
         header' = header, tokens' = tokens
  PROVE  /\ HeaderRead' /\ Positioned'
         /\ Read' = IF Equals(first_semi) # 0 THEN Read \cup {first_semi} ELSE Read
<1>0. PICK n \in Nat : n = ntokens
  BY ReadFacts
<1>1. PICK f \in Nat \ {0} : f = first_semi
  BY DEF Positioned
<1>2. PICK m \in Nat : m = NextSemi(f)
  BY SemiFacts
<1>a. f <= m /\ f <= n /\ f >= 4
  BY <1>0, <1>1, <1>2, SemiFacts DEF Positioned
<1>3. /\ tokens[f - 1].token = ";"
      /\ m <= n => tokens[m].token = ";"
      /\ \A j \in f .. n : tokens[j].token = ";" => m <= j
  BY <1>0, <1>1, <1>2, SemiFacts DEF Positioned
<1>4. PICK g : g = Min({m, n}) + 1
  OBVIOUS
<1>5. first_semi' = g
  BY <1>0, <1>1, <1>2, <1>4 DEF Resume
<1>6. \/ m <= n /\ g = m + 1
      \/ m > n /\ g = n + 1
  <2>1. Min({m, n}) \in {m, n} /\ Min({m, n}) <= m /\ Min({m, n}) <= n
    BY MinPair
  <2>2. PICK x \in {m, n} : x = Min({m, n}) /\ x <= m /\ x <= n
    BY <2>1
  <2> QED BY <1>4, <2>2
<1>7. /\ ntokens' = n /\ tokens' = tokens /\ Written' = Written /\ HeaderRead'
  BY <1>0, Unmoved, RunsUnmoved
<1>8. /\ g \in Nat \ {0} /\ g <= n + 1 /\ f < g
      /\ g <= n => g >= 4 /\ g - 1 = m /\ m <= n
  BY <1>a, <1>6
<1>9. Positioned'
  <2>1. g <= n => tokens[g - 1].token = ";"
    BY <1>3, <1>8
  <2> QED BY <1>5, <1>7, <1>8, <2>1 DEF Positioned
<1>10. Written = {s \in 4 .. n : tokens[s - 1].token = ";" /\ Equals(s) # 0}
  BY <1>0 DEF Written
<1>11. ASSUME NEW s \in Written PROVE (s < g) <=> (s < f \/ s = f)
  <2>1. s \in 4 .. n
    BY <1>10
  <2>2. tokens[s - 1].token = ";"
    BY <1>10
  <2>3. s > f => s - 1 \in f .. n
    BY <2>1
  <2>4. s > f => m <= s - 1
    BY <1>3, <2>2, <2>3
  <2>5. s > f => ~(s < g)
    BY <1>6, <2>1, <2>4
  <2> QED BY <1>8, <2>1, <2>5
<1>12. Read' = {s \in Written : s < g}
  BY <1>5, <1>7 DEF Read
<1>13. Read = {s \in Written : s < f}
  BY <1>1 DEF Read
<1>14. (f \in Written) <=> (Equals(f) # 0)
  <2>1. f \in 4 .. n
    BY <1>a
  <2> QED BY <1>3, <1>10, <2>1
<1>15. Read' = {s \in Written : s < f \/ s = f}
  BY <1>11, <1>12
<1>16. Read' = IF Equals(f) # 0 THEN Read \cup {f} ELSE Read
  BY <1>13, <1>14, <1>15
<1> QED BY <1>1, <1>7, <1>9, <1>16

-----------------------------------------------------------------------------
(* One more attribute leaves the runs of other names, and joins or starts  *)
(* that of its own.                                                        *)
LEMMA OtherRun ==
  ASSUME NEW W \in SUBSET Nat, NEW f \in Nat, \A s \in W : s < f,
         NEW b, b # CalledAs(f)
  PROVE  LastRun(W \cup {f}, b) = LastRun(W, b) /\ Sources(W \cup {f}, b) = Sources(W, b)
<1>1. Called(W \cup {f}, b) = Called(W, b)
  BY DEF Called, CalledAs
<1>2. Called(W, b) \subseteq W
  BY DEF Called
<1>3. ASSUME NEW s \in Called(W, b)
      PROVE  (\E t \in (W \cup {f}) \ Called(W, b) : s < t /\ \E r \in Called(W, b) : t < r)
             <=> (\E t \in W \ Called(W, b) : s < t /\ \E r \in Called(W, b) : t < r)
  <2>1. \A r \in Called(W, b) : ~(f < r)
    <3>1. \A r \in W : r \in Nat /\ r < f
      OBVIOUS
    <3>2. \A r \in W : ~(f < r)
      BY <3>1
    <3> QED BY <1>2, <3>2
  <2> QED BY <2>1
<1>4. LastRun(W \cup {f}, b) = LastRun(W, b)
  BY <1>1, <1>3 DEF LastRun
<1> QED BY <1>4 DEF Sources

(* ... that of its own goes on if the attribute before had the same        *)
(* name, or else starts there.                                             *)
LEMMA OwnRun ==
  ASSUME NEW n \in Nat, NEW W \in SUBSET (0 .. n), NEW f \in Nat, \A s \in W : s < f
  PROVE  /\ f \in LastRun(W \cup {f}, CalledAs(f))
         /\ \A s \in LastRun(W \cup {f}, CalledAs(f)) :
              s = f \/ /\ s \in LastRun(W, CalledAs(f))
                       /\ W # {} /\ CalledAs(Max(W)) = CalledAs(f)
<1> DEFINE b == CalledAs(f)
           U == W \cup {f}
<1>1. f \in Called(U, b) /\ Called(W, b) \subseteq W /\ W \subseteq Nat
      /\ Called(U, b) = Called(W, b) \cup {f}
  BY DEF Called, CalledAs
<1>2. U \ Called(U, b) = W \ Called(W, b)
  BY <1>1 DEF Called
<1>3. f \in LastRun(U, b)
  <2>1. \A t \in U \ Called(U, b) : ~(f < t)
    BY <1>1, <1>2
  <2> QED BY <1>1, <2>1 DEF LastRun
<1>4. ASSUME NEW s \in LastRun(U, b), s # f
      PROVE  s \in LastRun(W, b) /\ W # {} /\ CalledAs(Max(W)) = b
  <2>1. /\ s \in Called(U, b)
        /\ \A t \in U \ Called(U, b), r \in Called(U, b) : ~(s < t /\ t < r)
    BY DEF LastRun
  <2>2. s \in Called(W, b) /\ s \in W
    BY <1>1, <1>4, <2>1
  <2>3. \A t \in W \ Called(W, b), r \in Called(W, b) : ~(s < t /\ t < r)
    BY <1>1, <1>2, <2>1
  <2>4. \A t \in W \ Called(W, b) : ~(s < t /\ t < f)
    BY <1>1, <1>2, <2>1
  <2>5. s \in LastRun(W, b)
    BY <2>2, <2>3 DEF LastRun
  <2>6. PICK m \in W : m = Max(W) /\ \A x \in W : x <= m
    BY <2>2, MaxFacts
  <2>7. m \in Called(W, b)
    <3>1. m \notin Called(W, b) => s # m /\ s <= m /\ m < f
      BY <2>2, <2>6
    <3>2. m \notin Called(W, b) => s < m
      BY <3>1, <2>2, <2>6
    <3> QED BY <2>4, <3>1, <3>2
  <2> QED BY <2>2, <2>5, <2>6, <2>7 DEF Called, CalledAs
<1> HIDE DEF b, U
<1> QED BY <1>3, <1>4 DEF b, U

(* A plain attribute that comes after no segment of its name is all there  *)
(* is of it.                                                               *)
LEMMA PlainSource ==
  ASSUME NEW n \in Nat, NEW W \in SUBSET (0 .. n), NEW f \in Nat, \A s \in W : s < f,
         ~IsStarred(f),
         W # {} /\ CalledAs(Max(W)) = CalledAs(f) =>
           \A s \in LastRun(W, CalledAs(f)) : ~IsStarred(s)
  PROVE  /\ Sources(W \cup {f}, CalledAs(f)) = {f}
         /\ \A s \in LastRun(W \cup {f}, CalledAs(f)) : ~IsStarred(s)
         /\ CalledAs(Max(W \cup {f})) = CalledAs(f)
<1> DEFINE R == LastRun(W \cup {f}, CalledAs(f))
           m == n + f
<1>1. f \in R /\ \A s \in R : ~IsStarred(s)
  BY OwnRun
<1>2. R \subseteq W \cup {f}
  BY DEF LastRun, Called
<1> HIDE DEF R
<1>3. W \cup {f} \in SUBSET (0 .. m) /\ R \in SUBSET (0 .. m) /\ m \in Nat
  BY <1>2
<1>4. \A x \in W \cup {f} : x <= f
  OBVIOUS
<1>5. Max(R) = f
  <2>1. PICK x \in R : x = Max(R) /\ \A y \in R : y <= x
    BY <1>1, <1>3, MaxFacts
  <2>2. x \in Nat /\ x <= f /\ f <= x
    BY <1>1, <1>2, <1>3, <1>4, <2>1
  <2> QED BY <2>1, <2>2
<1>6. Max(W \cup {f}) = f
  <2>1. PICK x \in W \cup {f} : x = Max(W \cup {f}) /\ \A y \in W \cup {f} : y <= x
    BY <1>3, MaxFacts
  <2>2. x \in Nat /\ x <= f /\ f <= x
    BY <1>3, <1>4, <2>1
  <2> QED BY <2>1, <2>2
<1>7. {s \in R : Starred(NameText(s)) # {}} = {}
  BY <1>1 DEF IsStarred
<1>8. Sources(W \cup {f}, CalledAs(f)) = {Max(R)}
  BY <1>7 DEF Sources, R
<1> QED BY <1>1, <1>5, <1>6, <1>8 DEF R

-----------------------------------------------------------------------------
(* The values of a set of segments with one more behind them.              *)
LEMMA MoreIntroduced ==
  ASSUME NEW n \in Nat, NEW S \in SUBSET (0 .. n), NEW f \in Nat, \A s \in S : s < f,
         NEW prev \in BOOLEAN, prev <=> (S # {} /\ IsEncoded(NameText(Max(S))))
  PROVE  /\ \A s \in S : Unintroduced(s, S \cup {f}) <=> Unintroduced(s, S)
         /\ Unintroduced(f, S \cup {f}) <=>
              /\ IsEncoded(NameText(f)) /\ ~prev
              /\ Range(ValueText(f)) \cap CharsetWord = {}
<1>1. \A s \in S : {r \in S \cup {f} : r < s} = {r \in S : r < s}
  <2>1. \A s \in S : ~(f < s)
    <3>1. \A s \in S : s \in Nat /\ s < f
      OBVIOUS
    <3> QED BY <3>1
  <2> QED BY <2>1
<1>2. {r \in S \cup {f} : r < f} = S
  <2>1. ~(f < f)
    OBVIOUS
  <2> QED BY <2>1
<1>3. \A s \in S : Unintroduced(s, S \cup {f}) <=> Unintroduced(s, S)
  BY <1>1 DEF Unintroduced
<1>4. Unintroduced(f, S \cup {f}) <=>
        /\ IsEncoded(NameText(f))
        /\ S = {} \/ ~IsEncoded(NameText(Max(S)))
        /\ Range(ValueText(f)) \cap CharsetWord = {}
  BY <1>2 DEF Unintroduced
<1> QED BY <1>3, <1>4

(* What is said of a set in order, with one more behind the others.        *)
Mapped(S, V) == [i \in DOMAIN InOrder(S) |-> V[InOrder(S)[i]]]

(* ... is what was said of the others, and then of that one.               *)
LEMMA MappedMore ==
  ASSUME NEW n \in Nat, NEW K \in SUBSET (0 .. n), NEW f \in Nat, \A s \in K : s < f,
         NEW T, NEW V \in [K \cup {f} -> T]
  PROVE  /\ Mapped(K, V) \in Seq(T)
         /\ Mapped(K \cup {f}, V) = Append(Mapped(K, V), V[f])
<1> DEFINE k == InOrder(K)
           c == Cardinality(K)
           v == Mapped(K, V)
           a == Append(k, f)
<1>1. k \in [1 .. c -> K] /\ c \in Nat
  BY OrderFacts
<1>2. InOrder(K \cup {f}) = a
  BY OrderAppends
<1> HIDE DEF k, c
<1>3. /\ DOMAIN a = 1 .. c + 1 /\ a[c + 1] = f
      /\ \A i \in 1 .. c : a[i] = k[i]
  <2>1. k \in Seq(Nat) /\ Len(k) = c
    <3>1. \A x \in K : x \in Nat
      OBVIOUS
    <3>2. \A q : q \in [1 .. c -> K] => q \in [1 .. c -> Nat]
      BY <3>1
    <3>3. k \in [1 .. c -> Nat] /\ c \in Int
      BY <1>1, <3>2
    <3> QED BY <1>1, <3>3, FirstNumbers, LenProperties
  <2>2. /\ Append(k, f) \in Seq(Nat) /\ Len(Append(k, f)) = c + 1
        /\ \A i \in 1 .. c : Append(k, f)[i] = k[i]
        /\ Append(k, f)[c + 1] = f
    BY <1>1, <2>1, AppendProperties
  <2> QED BY <2>2, LenProperties
<1>4. v = [i \in 1 .. c |-> V[k[i]]]
  BY <1>1 DEF Mapped, k
<1>5. Mapped(K \cup {f}, V) = [i \in 1 .. c + 1 |-> V[a[i]]]
  BY <1>2, <1>3 DEF Mapped
<1>6. v \in Seq(T) /\ Len(v) = c
  <2>3. \A i \in 1 .. c : V[k[i]] \in T
    BY <1>1
  <2>1. v \in [1 .. c -> T] /\ c \in Int
    BY <1>1, <1>4, <2>3
  <2> HIDE DEF v
  <2>2. v \in Seq(T)
    BY <2>1, FirstNumbers
  <2> QED BY <1>1, <2>1, <2>2, LenProperties
<1> HIDE DEF v, a
<1>7. /\ \A i \in 1 .. c : Append(v, V[f])[i] = v[i]
      /\ Append(v, V[f])[c + 1] = V[f]
      /\ Append(v, V[f]) = [i \in 1 .. c + 1 |-> Append(v, V[f])[i]]
  <2>1. PICK t \in T : t = V[f]
    OBVIOUS
  <2>2. /\ Append(v, t) \in Seq(T) /\ Len(Append(v, t)) = c + 1
        /\ \A i \in 1 .. c : Append(v, t)[i] = v[i]
        /\ Append(v, t)[c + 1] = t
    BY <1>6, AppendProperties
  <2>3. Append(v, t) = [i \in 1 .. c + 1 |-> Append(v, t)[i]]
    BY <2>2, LenProperties
  <2> QED BY <2>1, <2>2, <2>3
<1>8. ASSUME NEW i \in 1 .. c + 1 PROVE Append(v, V[f])[i] = V[a[i]]
  <2>1. CASE i = c + 1
    BY <1>3, <1>7, <2>1
  <2>2. CASE i # c + 1
    <3>1. i \in 1 .. c
      BY <1>1, <2>2
    <3>2. v[i] = V[k[i]]
      BY <1>4, <3>1
    <3> QED BY <1>3, <1>7, <3>1, <3>2
  <2> QED BY <2>1, <2>2
<1>9. Mapped(K \cup {f}, V) = Append(v, V[f])
  BY <1>5, <1>7, <1>8
<1> QED BY <1>6, <1>9 DEF v

(* The values of segments and of one more that is behind them.             *)
LEMMA MoreValues ==
  ASSUME HeaderRead,
         NEW n \in Nat, NEW S \in SUBSET (0 .. n), NEW f \in Nat \ {0},
         \A s \in S : s < f /\ s \in Nat \ {0},
         \A s \in S : Unintroduced(s, S \cup {f}) <=> Unintroduced(s, S)
  PROVE  /\ Values(S) \in Seq(Seq(Symbol))
         /\ Values(S \cup {f}) = IF Unintroduced(f, S \cup {f}) THEN Values(S)
                                 ELSE Append(Values(S), ValueText(f))
<1> DEFINE K == {s \in S : ~Unintroduced(s, S)}
           L == {s \in S \cup {f} : ~Unintroduced(s, S \cup {f})}
           T == Seq(Symbol)
           V == [s \in K \cup {f} |-> ValueText(s)]
<1>1. K \in SUBSET (0 .. n) /\ \A s \in K : s < f /\ s \in Nat \ {0}
  OBVIOUS
<1>2. L = IF Unintroduced(f, S \cup {f}) THEN K ELSE K \cup {f}
  OBVIOUS
<1>3. /\ Values(S) = [i \in DOMAIN InOrder(K) |-> ValueText(InOrder(K)[i])]
      /\ Values(S \cup {f}) = [i \in DOMAIN InOrder(L) |-> ValueText(InOrder(L)[i])]
  BY DEF Values
<1> HIDE DEF K, L
<1>4. V \in [K \cup {f} -> T] /\ V[f] = ValueText(f)
  <2>1. \A s \in K \cup {f} : ValueText(s) \in T
    BY <1>1, ValueTextFacts
  <2> QED BY <2>1
<1>5. Values(S) = Mapped(K, V)
  <2>1. \A i \in DOMAIN InOrder(K) : V[InOrder(K)[i]] = ValueText(InOrder(K)[i])
    BY <1>1, OrderFacts
  <2> QED BY <1>3, <2>1 DEF Mapped
<1>6. [i \in DOMAIN InOrder(K \cup {f}) |-> ValueText(InOrder(K \cup {f})[i])]
        = Mapped(K \cup {f}, V)
  <2>1. K \cup {f} \in SUBSET (0 .. n + f) /\ n + f \in Nat
    BY <1>1
  <2>2. InOrder(K \cup {f}) \in [1 .. Cardinality(K \cup {f}) -> K \cup {f}]
    BY <2>1, OrderFacts
  <2>3. \A i \in DOMAIN InOrder(K \cup {f}) :
          V[InOrder(K \cup {f})[i]] = ValueText(InOrder(K \cup {f})[i])
    BY <2>2
  <2> QED BY <2>3 DEF Mapped
<1> HIDE DEF V, T
<1>7. Mapped(K, V) \in Seq(T) /\ Mapped(K \cup {f}, V) = Append(Mapped(K, V), V[f])
  BY <1>1, <1>4, MappedMore
<1>8. CASE Unintroduced(f, S \cup {f})
  BY <1>2, <1>3, <1>5, <1>7, <1>8 DEF T
<1>9. CASE ~Unintroduced(f, S \cup {f})
  <2>1. L = K \cup {f}
    BY <1>2, <1>9
  <2>2. Values(S \cup {f}) = Append(Values(S), ValueText(f))
    BY <1>3, <1>4, <1>5, <1>6, <1>7, <2>1
  <2> QED BY <1>5, <1>7, <1>9, <2>2 DEF T
<1> QED BY <1>8, <1>9

(* Without segments there are no values.                                   *)
LEMMA NoValues == Values({}) = <<>>
<1>1. {s \in {} : ~Unintroduced(s, {})} = {}
  OBVIOUS
<1>2. Values({}) = [i \in DOMAIN InOrder({}) |-> ValueText(InOrder({})[i])]
  BY <1>1 DEF Values
<1>3. DOMAIN <<>> = {}
  OBVIOUS
<1> QED BY <1>2, <1>3, NoneInOrder

-----------------------------------------------------------------------------
(* The texts of pieces with one more behind them.                          *)
LEMMA MorePieces ==
  ASSUME NEW p \in Pieces, NEW x \in OnePiece
  PROVE  /\ p \o <<x>> \in Pieces /\ Len(p) \in Nat
         /\ DOMAIN p = 1 .. Len(p)
         /\ Len(p \o <<x>>) = Len(p) + 1
         /\ DOMAIN (p \o <<x>>) = 1 .. Len(p) + 1
         /\ \A i \in 1 .. Len(p) : (p \o <<x>>)[i] = p[i]
         /\ (p \o <<x>>)[Len(p) + 1] = x
<1>1. p \in Seq(OnePiece)
  BY DEF Pieces, OnePiece
<1>2. p \o <<x>> = Append(p, x)
  BY <1>1, AppendIsConcat
<1>3. /\ Append(p, x) \in Seq(OnePiece) /\ Len(Append(p, x)) = Len(p) + 1
      /\ \A i \in 1 .. Len(p) : Append(p, x)[i] = p[i]
      /\ Append(p, x)[Len(p) + 1] = x
  BY <1>1, AppendProperties
<1>4. Len(p) \in Nat /\ DOMAIN p = 1 .. Len(p) /\ DOMAIN Append(p, x) = 1 .. Len(p) + 1
  BY <1>1, <1>3, LenProperties
<1>5. Append(p, x) \in Pieces
  BY <1>3 DEF Pieces, OnePiece
<1> QED BY <1>2, <1>3, <1>4, <1>5

(* What a piece says comes behind what those before it say, if it says     *)
(* anything.                                                               *)
LEMMA MoreTexts ==
  ASSUME NEW p \in Pieces, NEW x \in OnePiece
  PROVE  Texts(p \o <<x>>) = IF x.kind = "close" THEN Texts(p)
                             ELSE Append(Texts(p), x.text)
<1> DEFINE q == p \o <<x>>
           n == Len(p)
           K == {k \in DOMAIN p : p[k].kind # "close"}
           L == {k \in DOMAIN q : q[k].kind # "close"}
           T == {q[k].text : k \in 1 .. n + 1}
           V == [k \in K \cup {n + 1} |-> q[k].text]
<1>1. /\ n \in Nat /\ DOMAIN p = 1 .. n /\ DOMAIN q = 1 .. n + 1
      /\ \A i \in 1 .. n : q[i] = p[i]
      /\ q[n + 1] = x
  BY MorePieces
<1>2. Texts(p) = [i \in DOMAIN InOrder(K) |-> p[InOrder(K)[i]].text]
  BY DEF Texts
<1>3. Texts(q) = [i \in DOMAIN InOrder(L) |-> q[InOrder(L)[i]].text]
  BY DEF Texts
<1> HIDE DEF q, n
<1>4. /\ K \in SUBSET (1 .. n) /\ \A k \in K : k < n + 1
      /\ K \in SUBSET (0 .. n) /\ n + 1 \in Nat /\ K \cup {n + 1} \in SUBSET (0 .. n + 1)
  <2>1. \A k \in 1 .. n : k < n + 1 /\ k \in 0 .. n /\ k \in 0 .. n + 1
    BY <1>1
  <2>2. n + 1 \in Nat /\ n + 1 \in 0 .. n + 1
    BY <1>1
  <2>3. K \in SUBSET (1 .. n)
    BY <1>1
  <2> HIDE DEF K
  <2> QED BY <2>1, <2>2, <2>3
<1>5. L = IF x.kind = "close" THEN K ELSE K \cup {n + 1}
  <2>1. \A k \in 1 .. n + 1 : k \in 1 .. n \/ k = n + 1
    BY <1>1
  <2>2. \A k \in 1 .. n : k \in 1 .. n + 1 /\ k # n + 1
    BY <1>1
  <2>3. n + 1 \in 1 .. n + 1
    BY <1>1
  <2> QED BY <1>1, <2>1, <2>2, <2>3
<1> HIDE DEF K, L
<1>6. V \in [K \cup {n + 1} -> T] /\ V[n + 1] = x.text
  <2>1. \A k \in K \cup {n + 1} : k \in 1 .. n + 1
    BY <1>1, <1>4
  <2> QED BY <1>1, <2>1
<1>7. Texts(p) = Mapped(K, V)
  <2>1. InOrder(K) \in [1 .. Cardinality(K) -> K]
    BY <1>1, <1>4, OrderFacts
  <2>2. \A i \in DOMAIN InOrder(K) : V[InOrder(K)[i]] = p[InOrder(K)[i]].text
    BY <1>1, <1>4, <2>1
  <2> QED BY <1>2, <2>2 DEF Mapped
<1>8. [i \in DOMAIN InOrder(K \cup {n + 1}) |-> q[InOrder(K \cup {n + 1})[i]].text]
        = Mapped(K \cup {n + 1}, V)
  <2>1. InOrder(K \cup {n + 1}) \in [1 .. Cardinality(K \cup {n + 1}) -> K \cup {n + 1}]
    BY <1>1, <1>4, OrderFacts
  <2>2. \A i \in DOMAIN InOrder(K \cup {n + 1}) :
          V[InOrder(K \cup {n + 1})[i]] = q[InOrder(K \cup {n + 1})[i]].text
    BY <2>1
  <2> QED BY <2>2 DEF Mapped
<1> HIDE DEF V, T
<1>9. Mapped(K \cup {n + 1}, V) = Append(Mapped(K, V), V[n + 1])
  BY <1>1, <1>4, <1>6, MappedMore
<1>10. CASE x.kind = "close"
  <2>1. L = K
    BY <1>5, <1>10
  <2>2. InOrder(K) \in [1 .. Cardinality(K) -> K]
    BY <1>1, <1>4, OrderFacts
  <2>3. \A i \in DOMAIN InOrder(K) : q[InOrder(K)[i]] = p[InOrder(K)[i]]
    BY <1>1, <1>4, <2>2
  <2>4. Texts(q) = Texts(p)
    BY <1>2, <1>3, <2>1, <2>3
  <2> QED BY <1>10, <2>4 DEF q
<1>11. CASE x.kind # "close"
  <2>1. L = K \cup {n + 1}
    BY <1>5, <1>11
  <2>2. Texts(q) = Append(Texts(p), x.text)
    BY <1>3, <1>6, <1>7, <1>8, <1>9, <2>1
  <2> QED BY <1>11, <2>2 DEF q
<1> QED BY <1>10, <1>11

(* No pieces say nothing.                                                  *)
LEMMA NoTexts == Texts(<<>>) = <<>> /\ <<>> \in Pieces
<1>1. DOMAIN <<>> = {}
  OBVIOUS
<1>2. {k \in DOMAIN <<>> : <<>>[k].kind # "close"} = {}
  BY <1>1
<1>3. Texts(<<>>) = [i \in DOMAIN InOrder({}) |-> <<>>[InOrder({})[i]].text]
  BY <1>2 DEF Texts
<1>4. Texts(<<>>) = <<>>
  BY <1>1, <1>3, NoneInOrder
<1> QED BY <1>4 DEF Pieces

(* How deep it is behind one more piece.                                   *)
LEMMA MoreDepth ==
  ASSUME NEW p \in Pieces, NEW x \in OnePiece
  PROVE  /\ \A k \in 0 .. Len(p) : Depth(p \o <<x>>, k) = Depth(p, k)
         /\ Depth(p, Len(p)) \in Int
         /\ Depth(p \o <<x>>, Len(p) + 1) =
              CASE x.kind = "open"  -> Depth(p, Len(p)) + 1
                [] x.kind = "close" -> Depth(p, Len(p)) - 1
                [] OTHER            -> Depth(p, Len(p))
<1> DEFINE q == p \o <<x>>
           n == Len(p)
           Kind(s, kind, k) == {j \in 1 .. k : s[j].kind = kind}
<1>1. /\ n \in Nat /\ DOMAIN p = 1 .. n /\ DOMAIN q = 1 .. n + 1
      /\ \A i \in 1 .. n : q[i] = p[i]
      /\ q[n + 1] = x
  BY MorePieces
<1> HIDE DEF q, n
<1>2. ASSUME NEW k \in 0 .. n, NEW kind PROVE Kind(q, kind, k) = Kind(p, kind, k)
  <2>1. \A j \in 1 .. k : j \in 1 .. n
    BY <1>1
  <2> QED BY <1>1, <2>1
<1>3. ASSUME NEW kind
      PROVE  /\ IsFiniteSet(Kind(p, kind, n)) /\ Cardinality(Kind(p, kind, n)) \in Nat
             /\ n + 1 \notin Kind(p, kind, n)
             /\ Kind(q, kind, n + 1) = IF x.kind = kind THEN Kind(p, kind, n) \cup {n + 1}
                                     ELSE Kind(p, kind, n)
  <2>1. Kind(p, kind, n) \in SUBSET (1 .. n)
    OBVIOUS
  <2>2. 1 .. n \subseteq 0 .. n
    BY <1>1
  <2>3. Kind(p, kind, n) \in SUBSET (0 .. n)
    BY <2>1, <2>2
  <2>4. /\ n + 1 \notin 1 .. n /\ n + 1 \in 1 .. n + 1
        /\ \A j \in 1 .. n + 1 : (j = n + 1 \/ j \in 1 .. n)
        /\ \A j \in 1 .. n : (j \in 1 .. n + 1 /\ j # n + 1)
    BY <1>1
  <2>5. Kind(q, kind, n + 1) = IF x.kind = kind THEN Kind(p, kind, n) \cup {n + 1}
                             ELSE Kind(p, kind, n)
    BY <1>1, <2>4
  <2>6. n + 1 \notin Kind(p, kind, n)
    BY <2>1, <2>4
  <2> HIDE DEF Kind
  <2> QED BY <1>1, <2>3, <2>5, <2>6, SetFacts
<1>4. ASSUME NEW kind
      PROVE  /\ Cardinality(Kind(p, kind, n)) \in Nat
             /\ Cardinality(Kind(q, kind, n + 1)) =
                  IF x.kind = kind THEN Cardinality(Kind(p, kind, n)) + 1
                  ELSE Cardinality(Kind(p, kind, n))
  <2>1. /\ IsFiniteSet(Kind(p, kind, n)) /\ Cardinality(Kind(p, kind, n)) \in Nat
        /\ n + 1 \notin Kind(p, kind, n)
        /\ Kind(q, kind, n + 1) = IF x.kind = kind THEN Kind(p, kind, n) \cup {n + 1}
                                ELSE Kind(p, kind, n)
    BY <1>3
  <2> HIDE DEF Kind
  <2>2. Cardinality(Kind(p, kind, n) \cup {n + 1}) = Cardinality(Kind(p, kind, n)) + 1
    BY <2>1, FS_AddElement
  <2> QED BY <2>1, <2>2
<1>5. \A s, k : Depth(s, k) = Cardinality(Kind(s, "open", k)) - Cardinality(Kind(s, "close", k))
  BY DEF Depth, Count
<1> HIDE DEF Kind
<1>6. \A k \in 0 .. n : Depth(q, k) = Depth(p, k)
  BY <1>2, <1>5
<1>7. /\ Cardinality(Kind(p, "open", n)) \in Nat /\ Cardinality(Kind(p, "close", n)) \in Nat
      /\ Cardinality(Kind(q, "open", n + 1)) =
           IF x.kind = "open" THEN Cardinality(Kind(p, "open", n)) + 1
           ELSE Cardinality(Kind(p, "open", n))
      /\ Cardinality(Kind(q, "close", n + 1)) =
           IF x.kind = "close" THEN Cardinality(Kind(p, "close", n)) + 1
           ELSE Cardinality(Kind(p, "close", n))
  BY <1>4
<1>8. /\ Depth(p, n) = Cardinality(Kind(p, "open", n)) - Cardinality(Kind(p, "close", n))
      /\ Depth(q, n + 1) = Cardinality(Kind(q, "open", n + 1))
                           - Cardinality(Kind(q, "close", n + 1))
  BY <1>5
<1>9. /\ Depth(p, n) \in Int
      /\ x.kind = "open" => Depth(q, n + 1) = Depth(p, n) + 1
      /\ x.kind = "close" => Depth(q, n + 1) = Depth(p, n) - 1
      /\ x.kind # "open" /\ x.kind # "close" => Depth(q, n + 1) = Depth(p, n)
  <2>1. PICK o \in Nat, c \in Nat :
          o = Cardinality(Kind(p, "open", n)) /\ c = Cardinality(Kind(p, "close", n))
    BY <1>7
  <2>2. "open" # "close"
    OBVIOUS
  <2>3. Depth(p, n) = o - c
    BY <1>8, <2>1
  <2>4. x.kind = "open" => Depth(q, n + 1) = (o + 1) - c
    BY <1>7, <1>8, <2>1, <2>2
  <2>5. x.kind = "close" => Depth(q, n + 1) = o - (c + 1)
    BY <1>7, <1>8, <2>1, <2>2
  <2>6. x.kind # "open" /\ x.kind # "close" => Depth(q, n + 1) = o - c
    BY <1>7, <1>8, <2>1
  <2>7. (o + 1) - c = (o - c) + 1 /\ o - (c + 1) = (o - c) - 1 /\ o - c \in Int
    OBVIOUS
  <2> QED BY <2>3, <2>4, <2>5, <2>6, <2>7
<1> QED BY <1>6, <1>9 DEF q, n

-----------------------------------------------------------------------------
(* An encoded word opens, goes on, or closes with one more piece.          *)
LEMMA BalancedMore ==
  ASSUME NEW p \in Pieces, NEW x \in OnePiece, NEW prev \in BOOLEAN, Balanced(p, prev),
         prev <=> x.kind \in {"quoted", "close"}
  PROVE  Balanced(p \o <<x>>, x.kind \in {"open", "quoted"})
<1> DEFINE q == p \o <<x>>
<1>1. /\ Len(p) \in Nat /\ DOMAIN p = 1 .. Len(p) /\ DOMAIN q = 1 .. Len(p) + 1
      /\ Len(q) = Len(p) + 1
      /\ \A i \in 1 .. Len(p) : q[i] = p[i]
      /\ q[Len(p) + 1] = x
  BY MorePieces
<1>2. /\ \A k \in 0 .. Len(p) : Depth(q, k) = Depth(p, k)
      /\ Depth(q, Len(p) + 1) =
           CASE x.kind = "open"  -> Depth(p, Len(p)) + 1
             [] x.kind = "close" -> Depth(p, Len(p)) - 1
             [] OTHER            -> Depth(p, Len(p))
  BY MoreDepth
<1>3. /\ \A k \in DOMAIN p :
           Depth(p, k) = IF p[k].kind \in {"open", "quoted"} THEN 1 ELSE 0
      /\ Depth(p, Len(p)) = IF prev THEN 1 ELSE 0
  BY DEF Balanced
<1> HIDE DEF q
<1>4. PICK n \in Nat : n = Len(p)
  BY <1>1
<1>5. x.kind \in {"open", "quoted", "close", "text"}
  BY DEF OnePiece
<1>6. Depth(q, n + 1) = IF x.kind \in {"open", "quoted"} THEN 1 ELSE 0
  <2>1. CASE x.kind = "open"
    BY <1>2, <1>3, <1>4, <2>1
  <2>2. CASE x.kind = "quoted"
    BY <1>2, <1>3, <1>4, <2>2
  <2>3. CASE x.kind = "close"
    BY <1>2, <1>3, <1>4, <2>3
  <2>4. CASE x.kind = "text"
    BY <1>2, <1>3, <1>4, <2>4
  <2> QED BY <1>5, <2>1, <2>2, <2>3, <2>4
<1>7. ASSUME NEW k \in DOMAIN q
      PROVE  Depth(q, k) = IF q[k].kind \in {"open", "quoted"} THEN 1 ELSE 0
  <2>1. k = n + 1 \/ (k \in 1 .. n /\ k \in 0 .. n)
    BY <1>1, <1>4
  <2>2. CASE k = n + 1
    BY <1>1, <1>4, <1>6, <2>2
  <2>3. CASE k \in 1 .. n /\ k \in 0 .. n
    BY <1>1, <1>2, <1>3, <1>4, <2>3
  <2> QED BY <2>1, <2>2, <2>3
<1>8. Depth(q, Len(q)) = IF x.kind \in {"open", "quoted"} THEN 1 ELSE 0
  BY <1>1, <1>4, <1>6
<1>9. Balanced(q, x.kind \in {"open", "quoted"})
  BY <1>7, <1>8 DEF Balanced
<1> QED BY <1>9 DEF q

(* Nothing says nothing.                                                   *)
LEMMA TellsNone == Tells(<<>>, {}, FALSE)
<1>1. Texts(<<>>) = Values({}) /\ <<>> \in Pieces
  BY NoTexts, NoValues
<1>2. \A kind : Count(<<>>, kind, 0) = 0
  <2>1. \A kind : {k \in 1 .. 0 : <<>>[k].kind = kind} = {}
    OBVIOUS
  <2> QED BY <2>1, NoneInOrder DEF Count
<1>3. Len(<<>>) = 0 /\ DOMAIN <<>> = {}
  OBVIOUS
<1>4. Depth(<<>>, 0) = 0
  BY <1>2 DEF Depth
<1>5. Balanced(<<>>, FALSE)
  BY <1>3, <1>4 DEF Balanced
<1> QED BY <1>1, <1>5 DEF Tells

(* What closes an encoded word adds nothing to what is said.               *)
LEMMA TellsClosed ==
  ASSUME NEW p, NEW S, NEW prev \in BOOLEAN, Tells(p, S, prev)
  PROVE  Tells(p \o CloseWord(prev), S, FALSE)
<1>1. p \in Pieces /\ Texts(p) = Values(S)
      /\ ((\A s \in S : ~Unintroduced(s, S)) => Balanced(p, prev))
  BY DEF Tells
<1>2. CASE ~prev
  <2>1. p \o CloseWord(prev) = p
    BY <1>1, <1>2, ConcatEmptySeq DEF CloseWord, Pieces
  <2>2. prev = FALSE
    BY <1>2
  <2> QED BY <2>1, <2>2
<1>3. CASE prev
  <2> DEFINE x == Piece("close", <<>>)
  <2>1. x \in OnePiece /\ x.kind = "close"
    BY DEF Piece, OnePiece
  <2>2. CloseWord(prev) = <<x>>
    BY <1>3 DEF CloseWord
  <2> HIDE DEF x
  <2>3. p \o <<x>> \in Pieces /\ Texts(p \o <<x>>) = Texts(p)
    BY <1>1, <2>1, MorePieces, MoreTexts
  <2>4. Balanced(p, prev) => Balanced(p \o <<x>>, FALSE)
    <3>1. ASSUME Balanced(p, prev) PROVE Balanced(p \o <<x>>, x.kind \in {"open", "quoted"})
      <4>1. prev <=> x.kind \in {"quoted", "close"}
        BY <1>3, <2>1
      <4> QED BY <1>1, <2>1, <3>1, <4>1, BalancedMore
    <3>2. (x.kind \in {"open", "quoted"}) = FALSE
      BY <2>1
    <3> QED BY <3>1, <3>2
  <2> QED BY <1>1, <2>2, <2>3, <2>4 DEF Tells
<1> QED BY <1>2, <1>3

(* A piece behind the others says one value more.                          *)
LEMMA TellsOneMore ==
  ASSUME HeaderRead, NEW n \in Nat, NEW S \in SUBSET (0 .. n), NEW f \in Nat \ {0},
         \A s \in S : s < f /\ s \in Nat \ {0},
         NEW p, NEW prev \in BOOLEAN, Tells(p, S, prev),
         NEW kind \in {"open", "quoted", "text"}, prev <=> kind = "quoted",
         \A s \in S : Unintroduced(s, S \cup {f}) <=> Unintroduced(s, S),
         ~Unintroduced(f, S \cup {f})
  PROVE  Tells(p \o <<Piece(kind, ValueText(f))>>, S \cup {f}, kind \in {"open", "quoted"})
<1> DEFINE x == Piece(kind, ValueText(f))
<1>1. p \in Pieces /\ Texts(p) = Values(S)
      /\ ((\A s \in S : ~Unintroduced(s, S)) => Balanced(p, prev))
  BY DEF Tells
<1>2. x \in OnePiece /\ x.kind = kind /\ x.text = ValueText(f)
  BY ValueTextFacts DEF Piece, OnePiece
<1> HIDE DEF x
<1>3. p \o <<x>> \in Pieces /\ Texts(p \o <<x>>) = Append(Texts(p), ValueText(f))
  <2>1. p \o <<x>> \in Pieces
    BY <1>1, <1>2, MorePieces
  <2>2. x.kind # "close"
    BY <1>2
  <2>3. Texts(p \o <<x>>) = IF x.kind = "close" THEN Texts(p) ELSE Append(Texts(p), x.text)
    BY <1>1, <1>2, MoreTexts
  <2> QED BY <1>2, <2>1, <2>2, <2>3
<1>4. Values(S \cup {f}) = Append(Values(S), ValueText(f))
  BY MoreValues
<1>5. ASSUME \A s \in S \cup {f} : ~Unintroduced(s, S \cup {f})
      PROVE  Balanced(p \o <<x>>, x.kind \in {"open", "quoted"})
  <2>1. Balanced(p, prev)
    BY <1>1, <1>5
  <2>2. prev <=> x.kind \in {"quoted", "close"}
    BY <1>2
  <2> QED BY <1>1, <1>2, <2>1, <2>2, BalancedMore
<1>6. Tells(p \o <<x>>, S \cup {f}, kind \in {"open", "quoted"})
  BY <1>1, <1>2, <1>3, <1>4, <1>5 DEF Tells
<1> QED BY <1>6 DEF x

(* A segment joins those before it, as rfc2231_to_mime makes it.           *)
LEMMA TellsMore ==
  ASSUME HeaderRead, NEW n \in Nat, NEW S \in SUBSET (0 .. n), NEW f \in Nat \ {0},
         \A s \in S : s < f /\ s \in Nat \ {0},
         NEW p, NEW prev \in BOOLEAN, Tells(p, S, prev),
         prev <=> (S # {} /\ IsEncoded(NameText(Max(S))))
  PROVE  Tells(p \o Rfc2231ToMime(ValueText(f), IsEncoded(NameText(f)), prev),
               S \cup {f}, IsEncoded(NameText(f)))
<1> DEFINE e == IsEncoded(NameText(f))
           v == ValueText(f)
           more == Rfc2231ToMime(v, e, prev)
<1>0. e \in BOOLEAN
  BY DEF IsEncoded
<1>1. p \in Pieces
  BY DEF Tells
<1>2. /\ \A s \in S : Unintroduced(s, S \cup {f}) <=> Unintroduced(s, S)
      /\ Unintroduced(f, S \cup {f}) <=> (e /\ ~prev /\ Range(v) \cap CharsetWord = {})
  BY MoreIntroduced
<1>3. CASE e /\ prev
  <2>1. more = <<Piece("quoted", v)>>
    BY <1>3 DEF Rfc2231ToMime
  <2>2. ~Unintroduced(f, S \cup {f})
    BY <1>2, <1>3
  <2>3. Tells(p \o <<Piece("quoted", v)>>, S \cup {f}, "quoted" \in {"open", "quoted"})
    <3>1. prev <=> "quoted" = "quoted"
      BY <1>3
    <3> QED BY <1>2, <2>2, <3>1, TellsOneMore
  <2>4. ("quoted" \in {"open", "quoted"}) = e
    BY <1>0, <1>3
  <2> QED BY <2>1, <2>3, <2>4
<1>4. CASE e /\ ~prev /\ Range(v) \cap CharsetWord # {}
  <2>1. more = <<Piece("open", v)>>
    BY <1>4 DEF Rfc2231ToMime
  <2>2. ~Unintroduced(f, S \cup {f})
    BY <1>2, <1>4
  <2>3. Tells(p \o <<Piece("open", v)>>, S \cup {f}, "open" \in {"open", "quoted"})
    <3>1. prev <=> "open" = "quoted"
      BY <1>4
    <3> QED BY <1>2, <2>2, <3>1, TellsOneMore
  <2>4. ("open" \in {"open", "quoted"}) = e
    BY <1>0, <1>4
  <2> QED BY <2>1, <2>3, <2>4
<1>5. CASE e /\ ~prev /\ Range(v) \cap CharsetWord = {}
  <2>1. more = <<>>
    BY <1>5 DEF Rfc2231ToMime
  <2>2. p \o more = p
    BY <1>1, <2>1, ConcatEmptySeq DEF Pieces
  <2>3. Unintroduced(f, S \cup {f})
    BY <1>2, <1>5
  <2>4. Values(S \cup {f}) = Values(S)
    BY <1>2, <2>3, MoreValues
  <2>5. Tells(p, S \cup {f}, e)
    BY <2>3, <2>4 DEF Tells
  <2> QED BY <2>2, <2>5
<1>6. CASE ~e
  <2> DEFINE x == Piece("text", v)
             c == CloseWord(prev)
  <2>1. more = c \o <<x>>
    BY <1>6 DEF Rfc2231ToMime
  <2>2. Tells(p \o c, S, FALSE)
    BY TellsClosed
  <2>3. ~Unintroduced(f, S \cup {f})
    BY <1>2, <1>6
  <2>4. Tells((p \o c) \o <<x>>, S \cup {f}, "text" \in {"open", "quoted"})
    <3>1. FALSE <=> "text" = "quoted"
      OBVIOUS
    <3>2. FALSE \in BOOLEAN
      OBVIOUS
    <3> HIDE DEF c
    <3> QED BY <1>2, <2>2, <2>3, <3>1, <3>2, TellsOneMore
  <2>5. p \o more = (p \o c) \o <<x>>
    <3>1. x \in OnePiece
      BY ValueTextFacts DEF Piece, OnePiece
    <3>2. c \in Seq(OnePiece)
      <4>1. Piece("close", <<>>) \in OnePiece
        BY DEF Piece, OnePiece
      <4> QED BY <4>1 DEF CloseWord
    <3>3. <<x>> \in Seq(OnePiece) /\ p \in Seq(OnePiece)
      BY <1>1, <3>1 DEF Pieces
    <3> HIDE DEF x, c
    <3> QED BY <2>1, <3>2, <3>3, ConcatAssociative
  <2>6. ("text" \in {"open", "quoted"}) = e
    BY <1>0, <1>6
  <2> HIDE DEF x, c
  <2> QED BY <2>4, <2>5, <2>6
<1>7. \/ e /\ prev
      \/ e /\ ~prev /\ Range(v) \cap CharsetWord # {}
      \/ e /\ ~prev /\ Range(v) \cap CharsetWord = {}
      \/ ~e
  <2> HIDE DEF e, v
  <2> QED OBVIOUS
<1> QED BY Zenon, <1>3, <1>4, <1>5, <1>6, <1>7

(* A plain value is there alone.                                           *)
LEMMA TellsPlain ==
  ASSUME HeaderRead, NEW f \in Nat \ {0}, ~IsStarred(f)
  PROVE  Tells(<<Piece("text", ValueText(f))>>, {f}, FALSE)
<1> DEFINE x == Piece("text", ValueText(f))
<1>1. ~IsEncoded(NameText(f))
  BY DEF IsEncoded, IsStarred
<1>2. ~Unintroduced(f, {} \cup {f})
  BY <1>1 DEF Unintroduced
<1>3. Tells(<<>>, {}, FALSE)
  BY TellsNone
<1>4. Tells(<<>> \o <<x>>, {} \cup {f}, "text" \in {"open", "quoted"})
  <2>1. /\ FALSE <=> "text" = "quoted"
        /\ FALSE \in BOOLEAN /\ {} \in SUBSET (0 .. 0) /\ 0 \in Nat
    OBVIOUS
  <2> QED BY <1>2, <1>3, <2>1, TellsOneMore
<1>5. x \in OnePiece
  BY ValueTextFacts DEF Piece, OnePiece
<1> HIDE DEF x
<1>6. <<>> \o <<x>> = <<x>> /\ {} \cup {f} = {f}
      /\ ("text" \in {"open", "quoted"}) = FALSE
  <2>1. <<x>> \in Seq(OnePiece)
    BY <1>5
  <2> QED BY <2>1, ConcatEmptySeq
<1>7. Tells(<<x>>, {f}, FALSE)
  BY <1>4, <1>6
<1> QED BY <1>7 DEF x

(* What pieces tell does not change while the header stays.                *)
LEMMA TellsUnmoved ==
  ASSUME header' = header, tokens' = tokens
  PROVE  \A p, S, open : Tells(p, S, open)' <=> Tells(p, S, open)
<1>1. /\ \A s, S : Unintroduced(s, S)' = Unintroduced(s, S)
      /\ \A S : Values(S)' = Values(S)
  BY RunsUnmoved
<1> SUFFICES ASSUME NEW p, NEW S, NEW open PROVE Tells(p, S, open)' <=> Tells(p, S, open)
  OBVIOUS
<1>2. Tells(p, S, open)' <=> /\ p \in Pieces
                             /\ Texts(p) = Values(S)'
                             /\ (\A s \in S : ~Unintroduced(s, S)') => Balanced(p, open)
  BY DEF Tells
<1> QED BY <1>1, <1>2 DEF Tells

-----------------------------------------------------------------------------
(* The attributes read, and one more.                                      *)
Before(n, R, f) ==
  /\ n \in Nat /\ R \in SUBSET (0 .. n) /\ f \in Nat \ {0}
  /\ \A s \in R : s < f /\ s \in Nat \ {0}

(* ... and the one more is the last.                                       *)
LEMMA MaxOfMore ==
  ASSUME NEW n, NEW R, NEW f, Before(n, R, f)
  PROVE  /\ Max(R \cup {f}) = f /\ R \in SUBSET Nat
         /\ R \cup {f} \in SUBSET (0 .. n + f) /\ n + f \in Nat
<1>0. n \in Nat /\ R \in SUBSET (0 .. n) /\ f \in Nat \ {0} /\ \A s \in R : s < f
  BY DEF Before
<1>1. R \cup {f} \in SUBSET (0 .. n + f) /\ n + f \in Nat
  BY <1>0
<1>2. PICK x \in R \cup {f} : x = Max(R \cup {f}) /\ \A y \in R \cup {f} : y <= x
  BY <1>1, MaxFacts
<1>3. \A y \in R \cup {f} : y \in Nat /\ y <= f
  BY <1>0
<1>4. x \in Nat /\ x <= f /\ f <= x
  BY <1>2, <1>3
<1>5. x = f
  BY <1>0, <1>4
<1> QED BY <1>0, <1>1, <1>2, <1>5

(* What is being joined is what the table is to have of its name.          *)
LEMMA SourcesJoined ==
  ASSUME NEW R \in SUBSET Nat, NEW buf, NEW pieces, NEW prev, NEW table,
         Joining(R, buf, pieces, prev, table)
  PROVE  Sources(R, buf.base) = Segments(R, buf.at)
<1> DEFINE b == buf.base
           starred == {s \in LastRun(R, b) : Starred(NameText(s)) # {}}
<1>1. /\ buf.at \in R /\ IsStarred(buf.at)
      /\ \A s \in R : s >= buf.at => CalledAs(s) = b
      /\ \A s \in LastRun(R, b) : IsStarred(s) => s >= buf.at
  BY DEF Joining
<1>2. LastRun(R, b) \subseteq R
  BY DEF LastRun, Called
<1>3. ASSUME NEW s \in R, s >= buf.at PROVE s \in LastRun(R, b)
  <2>1. s \in Called(R, b)
    BY <1>1, <1>3 DEF Called, CalledAs
  <2>2. ASSUME NEW t \in R \ Called(R, b) PROVE ~(s < t)
    <3>1. CalledAs(t) # b
      BY <2>2 DEF Called, CalledAs
    <3>2. ~(t >= buf.at)
      BY <1>1, <2>2, <3>1
    <3>3. s \in Nat /\ t \in Nat /\ buf.at \in Nat
      BY <1>1, <1>3, <2>2
    <3> QED BY <1>3, <3>2, <3>3
  <2> QED BY <2>1, <2>2 DEF LastRun
<1>4. starred = Segments(R, buf.at)
  BY <1>1, <1>2, <1>3 DEF Segments, IsStarred
<1>5. starred # {}
  <2>1. buf.at \in Nat
    BY <1>1
  <2>2. buf.at >= buf.at
    BY <2>1
  <2> QED BY <1>1, <1>4, <2>2 DEF Segments
<1> QED BY <1>4, <1>5 DEF Sources

(* When the joined attribute goes into the table, it has all that was read.*)
LEMMA EntersJoined ==
  ASSUME NEW R \in SUBSET Nat, NEW buf, NEW pieces, NEW prev \in BOOLEAN, NEW table,
         Joining(R, buf, pieces, prev, table)
  PROVE  Entered(R, Set(table, buf.base, pieces \o CloseWord(prev)), {})
<1> DEFINE b == buf.base
           p == pieces \o CloseWord(prev)
           new == Set(table, b, p)
<1>1. /\ DOMAIN table \cup {b} = {CalledAs(s) : s \in R}
      /\ \A x \in DOMAIN table \ {b} : Tells(table[x], Sources(R, x), FALSE)
  BY DEF Joining, Entered
<1>2. Tells(pieces, Segments(R, buf.at), prev)
  BY DEF Joining
<1>3. Tells(p, Sources(R, b), FALSE)
  BY <1>2, TellsClosed, SourcesJoined
<1> HIDE DEF p
<1>4. /\ DOMAIN new = DOMAIN table \cup {b}
      /\ \A x \in DOMAIN new : new[x] = IF x = b THEN p ELSE table[x]
  BY DEF Set
<1> HIDE DEF new
<1>5. ASSUME NEW x \in DOMAIN new PROVE Tells(new[x], Sources(R, x), FALSE)
  <2>1. CASE x = b
    BY <1>3, <1>4, <2>1
  <2>2. CASE x # b
    BY <1>1, <1>4, <2>2
  <2> QED BY <2>1, <2>2
<1>6. Entered(R, new, {})
  BY <1>1, <1>4, <1>5 DEF Entered
<1> QED BY <1>6 DEF new, p

(* What is read of another name changes nothing of the others.             *)
LEMMA OthersStay ==
  ASSUME NEW n, NEW R, NEW f, Before(n, R, f), NEW table, NEW joining,
         Entered(R, table, joining)
  PROVE  /\ DOMAIN table \cup joining \cup {CalledAs(f)} = {CalledAs(s) : s \in R \cup {f}}
         /\ \A x \in DOMAIN table \ (joining \cup {CalledAs(f)}) :
              Tells(table[x], Sources(R \cup {f}, x), FALSE)
<1>1. R \in SUBSET Nat /\ f \in Nat /\ \A s \in R : s < f
  BY MaxOfMore DEF Before
<1>2. \A x : x # CalledAs(f) => Sources(R \cup {f}, x) = Sources(R, x)
  BY <1>1, OtherRun
<1>3. /\ DOMAIN table \cup joining = {CalledAs(s) : s \in R}
      /\ \A x \in DOMAIN table \ joining : Tells(table[x], Sources(R, x), FALSE)
  BY DEF Entered
<1>4. DOMAIN table \cup joining \cup {CalledAs(f)} = {CalledAs(s) : s \in R \cup {f}}
  BY <1>3
<1>5. ASSUME NEW x \in DOMAIN table \ (joining \cup {CalledAs(f)})
      PROVE  Tells(table[x], Sources(R \cup {f}, x), FALSE)
  <2>1. x # CalledAs(f) /\ Tells(table[x], Sources(R, x), FALSE)
    BY <1>3
  <2> QED BY <1>2, <2>1
<1> QED BY <1>4, <1>5

-----------------------------------------------------------------------------
(* A plain attribute is entered.                                           *)
LEMMA PlainEnters ==
  ASSUME HeaderRead, NEW n, NEW R, NEW f, Before(n, R, f), NEW table,
         Entered(R, table, {}), ~IsStarred(f),
         R # {} /\ CalledAs(Max(R)) = CalledAs(f) => PlainRun(R, CalledAs(f))
  PROVE  \A more \in BOOLEAN :
           Idle(R \cup {f},
                Set(table, CalledAs(f), <<Piece("text", ValueText(f))>>), FALSE, more)
<1> DEFINE b == CalledAs(f)
           U == R \cup {f}
           p == <<Piece("text", ValueText(f))>>
           new == Set(table, b, p)
<1>0. n \in Nat /\ R \in SUBSET (0 .. n) /\ f \in Nat \ {0} /\ f \in Nat /\ \A s \in R : s < f
  BY DEF Before
<1>1. Sources(U, b) = {f} /\ PlainRun(U, b) /\ CalledAs(Max(U)) = b
  <2>1. R # {} /\ CalledAs(Max(R)) = CalledAs(f) =>
           \A s \in LastRun(R, CalledAs(f)) : ~IsStarred(s)
    BY DEF PlainRun
  <2> QED BY <1>0, <2>1, PlainSource DEF PlainRun
<1>2. /\ DOMAIN table \cup {} \cup {b} = {CalledAs(s) : s \in U}
      /\ \A x \in DOMAIN table \ ({} \cup {b}) : Tells(table[x], Sources(U, x), FALSE)
  BY OthersStay
<1>3. Tells(p, {f}, FALSE)
  BY <1>0, TellsPlain
<1> HIDE DEF p, U, b
<1>4. /\ DOMAIN new = DOMAIN table \cup {b}
      /\ \A x \in DOMAIN new : new[x] = IF x = b THEN p ELSE table[x]
  BY DEF Set
<1> HIDE DEF new
<1>5. ASSUME NEW x \in DOMAIN new PROVE Tells(new[x], Sources(U, x), FALSE)
  <2>1. CASE x = b
    BY <1>1, <1>3, <1>4, <2>1
  <2>2. CASE x # b
    BY <1>2, <1>4, <2>2
  <2> QED BY <2>1, <2>2
<1>6. Entered(U, new, {})
  BY <1>2, <1>4, <1>5 DEF Entered
<1>7. ASSUME NEW more \in BOOLEAN PROVE Idle(U, new, FALSE, more)
  BY <1>1, <1>6 DEF Idle
<1> QED BY <1>7 DEF new, p, U, b

(* A segment begins an attribute that goes on after it.                    *)
LEMMA SegmentBegins ==
  ASSUME HeaderRead, NEW n, NEW R, NEW f, Before(n, R, f), NEW table,
         Entered(R, table, {}), IsStarred(f),
         R # {} /\ CalledAs(Max(R)) = CalledAs(f) => PlainRun(R, CalledAs(f))
  PROVE  Joining(R \cup {f}, [base |-> CalledAs(f), at |-> f],
                 Rfc2231ToMime(ValueText(f), IsEncoded(NameText(f)), FALSE),
                 IsEncoded(NameText(f)), table)
<1> DEFINE b == CalledAs(f)
           U == R \cup {f}
           buf == [base |-> b, at |-> f]
           e == IsEncoded(NameText(f))
           p == Rfc2231ToMime(ValueText(f), e, FALSE)
<1>0. n \in Nat /\ R \in SUBSET (0 .. n) /\ f \in Nat \ {0} /\ f \in Nat
      /\ \A s \in R : s < f /\ s \in Nat
  BY DEF Before
<1>1. buf.base = b /\ buf.at = f
  OBVIOUS
<1>2. f \in U /\ \A s \in U : s >= f => s = f
  <2>1. \A s \in R : ~(s >= f)
    BY <1>0
  <2> QED BY <2>1
<1>3. ASSUME NEW s \in LastRun(U, b), IsStarred(s) PROVE s = f
  <2>1. s # f => /\ s \in LastRun(R, b)
                 /\ R # {} /\ CalledAs(Max(R)) = b
    BY <1>0, OwnRun
  <2>2. s # f => ~IsStarred(s)
    BY <2>1 DEF PlainRun
  <2> QED BY <1>3, <2>2
<1>4. Entered(U, table, {b})
  <2>1. /\ DOMAIN table \cup {} \cup {b} = {CalledAs(s) : s \in U}
        /\ \A x \in DOMAIN table \ ({} \cup {b}) : Tells(table[x], Sources(U, x), FALSE)
    BY OthersStay
  <2> HIDE DEF U, b
  <2> QED BY <2>1 DEF Entered
<1>5. Segments(U, f) = {f}
  <2>1. f >= f
    BY <1>0
  <2> QED BY <1>2, <2>1 DEF Segments
<1>6. Tells(p, {f}, e)
  <2>1. Tells(<<>>, {}, FALSE) /\ FALSE \in BOOLEAN /\ {} \in SUBSET (0 .. 0) /\ 0 \in Nat
    BY TellsNone
  <2>2. FALSE <=> ({} # {} /\ IsEncoded(NameText(Max({}))))
    OBVIOUS
  <2>3. Tells(<<>> \o p, {} \cup {f}, e)
    BY <1>0, <2>1, <2>2, TellsMore
  <2>4. p \in Seq(OnePiece)
    <3>1. \A kind \in {"open", "quoted", "text"} : Piece(kind, ValueText(f)) \in OnePiece
      BY <1>0, ValueTextFacts DEF Piece, OnePiece
    <3>2. CloseWord(FALSE) = <<>>
      BY DEF CloseWord
    <3>3. p = <<>> \/ p = <<Piece("open", ValueText(f))>>
          \/ p = <<>> \o <<Piece("text", ValueText(f))>>
      <4>1. e \/ ~e
        OBVIOUS
      <4> HIDE DEF e
      <4> QED BY <3>2, <4>1 DEF Rfc2231ToMime
    <3>4. <<Piece("text", ValueText(f))>> \in Seq(OnePiece)
          /\ <<Piece("open", ValueText(f))>> \in Seq(OnePiece)
      BY <3>1
    <3>5. <<>> \o <<Piece("text", ValueText(f))>> = <<Piece("text", ValueText(f))>>
      BY <3>4, ConcatEmptySeq
    <3> HIDE DEF p
    <3>6. <<>> \in Seq(OnePiece)
      OBVIOUS
    <3> QED BY <3>3, <3>4, <3>5, <3>6
  <2> HIDE DEF p, e
  <2>5. <<>> \o p = p /\ {} \cup {f} = {f}
    BY <2>4, ConcatEmptySeq
  <2> QED BY <2>3, <2>5
<1>7. Max({f}) = f
  <2>1. Before(0, {}, f)
    BY <1>0 DEF Before
  <2>2. Max({} \cup {f}) = f
    BY <2>1, MaxOfMore
  <2>3. {} \cup {f} = {f}
    OBVIOUS
  <2> QED BY <2>2, <2>3
<1> HIDE DEF p, e, b, U, buf
<1>9. /\ buf.at \in U /\ IsStarred(buf.at)
      /\ \A s \in U : s >= buf.at => CalledAs(s) = buf.base
      /\ \A s \in LastRun(U, buf.base) : IsStarred(s) => s >= buf.at
  <2>1. CalledAs(f) = b /\ f >= f
    BY <1>0 DEF b
  <2> QED BY <1>1, <1>2, <1>3, <2>1
<1>8. Joining(U, buf, p, e, table)
  <2>1. e = IsEncoded(NameText(Max(Segments(U, buf.at))))
    BY <1>1, <1>5, <1>7 DEF e
  <2>2. Tells(p, Segments(U, buf.at), e) /\ Entered(U, table, {buf.base})
    BY <1>1, <1>4, <1>5, <1>6
  <2> QED BY <1>9, <2>1, <2>2 DEF Joining
<1> QED BY <1>8 DEF p, e, b, U, buf

(* A segment of the attribute being joined goes behind the others.         *)
LEMMA SegmentJoins ==
  ASSUME HeaderRead, NEW n, NEW R, NEW f, Before(n, R, f), NEW buf, NEW pieces,
         NEW prev \in BOOLEAN, NEW table, Joining(R, buf, pieces, prev, table),
         IsStarred(f), CalledAs(f) = buf.base
  PROVE  Joining(R \cup {f}, buf,
                 pieces \o Rfc2231ToMime(ValueText(f), IsEncoded(NameText(f)), prev),
                 IsEncoded(NameText(f)), table)
<1> DEFINE b == buf.base
           U == R \cup {f}
           e == IsEncoded(NameText(f))
           p == pieces \o Rfc2231ToMime(ValueText(f), e, prev)
           S == Segments(R, buf.at)
<1>0. n \in Nat /\ R \in SUBSET (0 .. n) /\ f \in Nat \ {0} /\ f \in Nat
      /\ \A s \in R : s < f /\ s \in Nat \ {0}
  BY DEF Before
<1>1. /\ buf.at \in R /\ IsStarred(buf.at)
      /\ \A s \in R : s >= buf.at => CalledAs(s) = b
      /\ \A s \in LastRun(R, b) : IsStarred(s) => s >= buf.at
      /\ Entered(R, table, {b})
      /\ Tells(pieces, S, prev)
      /\ prev = IsEncoded(NameText(Max(S)))
  BY DEF Joining
<1>2. f >= buf.at /\ buf.at \in Nat
  <2>1. buf.at \in Nat /\ buf.at < f
    BY <1>0, <1>1
  <2> QED BY <1>0, <2>1
<1>3. Segments(U, buf.at) = S \cup {f}
  BY <1>2 DEF Segments
<1>4. S # {} /\ S \subseteq R
  <2>1. buf.at >= buf.at
    BY <1>2
  <2> QED BY <1>1, <2>1 DEF Segments
<1>5. Before(n, S, f)
  BY <1>0, <1>4 DEF Before
<1>6. Max(S \cup {f}) = f
  BY <1>5, MaxOfMore
<1> HIDE DEF S
<1>7. Tells(p, S \cup {f}, e)
  <2>1. prev <=> (S # {} /\ IsEncoded(NameText(Max(S))))
    BY <1>1, <1>4
  <2>2. S \in SUBSET (0 .. n) /\ \A s \in S : s < f /\ s \in Nat \ {0}
    BY <1>0, <1>4
  <2> QED BY <1>0, <1>1, <2>1, <2>2, TellsMore
<1>8. ASSUME NEW s \in LastRun(U, b), IsStarred(s) PROVE s >= buf.at
  <2>1. s # f => s \in LastRun(R, b)
    BY <1>0, OwnRun
  <2> QED BY <1>1, <1>2, <1>8, <2>1
<1>9. Entered(U, table, {b})
  <2>1. /\ DOMAIN table \cup {b} \cup {CalledAs(f)} = {CalledAs(s) : s \in U}
        /\ \A x \in DOMAIN table \ ({b} \cup {CalledAs(f)}) :
             Tells(table[x], Sources(U, x), FALSE)
    <3> HIDE DEF b
    <3> QED BY <1>1, OthersStay
  <2>2. CalledAs(f) = b
    OBVIOUS
  <2> HIDE DEF U, b
  <2> QED BY <2>1, <2>2 DEF Entered
<1>10. /\ buf.at \in U /\ IsStarred(buf.at)
       /\ \A s \in U : s >= buf.at => CalledAs(s) = buf.base
       /\ \A s \in LastRun(U, buf.base) : IsStarred(s) => s >= buf.at
  BY <1>1, <1>8
<1> HIDE DEF p, e, U
<1>11. Joining(U, buf, p, e, table)
  <2>1. e = IsEncoded(NameText(Max(Segments(U, buf.at))))
    BY <1>3, <1>6 DEF e
  <2>2. Tells(p, Segments(U, buf.at), e)
    BY <1>3, <1>7
  <2> QED BY <1>9, <1>10, <2>1, <2>2 DEF Joining
<1> QED BY <1>11 DEF p, e, U

(* A plain attribute of the name being joined is left out.                 *)
LEMMA PlainIsDropped ==
  ASSUME HeaderRead, NEW n, NEW R, NEW f, Before(n, R, f), NEW buf, NEW pieces,
         NEW prev \in BOOLEAN, NEW table, Joining(R, buf, pieces, prev, table),
         ~IsStarred(f), CalledAs(f) = buf.base
  PROVE  Joining(R \cup {f}, buf, pieces, prev, table)
<1> DEFINE b == buf.base
           U == R \cup {f}
<1>0. n \in Nat /\ R \in SUBSET (0 .. n) /\ f \in Nat /\ \A s \in R : s < f
  BY DEF Before
<1>1. /\ buf.at \in R /\ IsStarred(buf.at)
      /\ \A s \in R : s >= buf.at => CalledAs(s) = b
      /\ \A s \in LastRun(R, b) : IsStarred(s) => s >= buf.at
      /\ Entered(R, table, {b})
      /\ Tells(pieces, Segments(R, buf.at), prev)
      /\ prev = IsEncoded(NameText(Max(Segments(R, buf.at))))
  BY DEF Joining
<1>2. Segments(U, buf.at) = Segments(R, buf.at)
  BY DEF Segments
<1>3. ASSUME NEW s \in LastRun(U, b), IsStarred(s) PROVE s >= buf.at
  <2>1. s # f => s \in LastRun(R, b)
    BY <1>0, OwnRun
  <2> QED BY <1>1, <1>3, <2>1
<1>4. Entered(U, table, {b})
  <2>1. /\ DOMAIN table \cup {b} \cup {CalledAs(f)} = {CalledAs(s) : s \in U}
        /\ \A x \in DOMAIN table \ ({b} \cup {CalledAs(f)}) :
             Tells(table[x], Sources(U, x), FALSE)
    <3> HIDE DEF b
    <3> QED BY <1>1, OthersStay
  <2>2. CalledAs(f) = b
    OBVIOUS
  <2> HIDE DEF U, b
  <2> QED BY <2>1, <2>2 DEF Entered
<1>5. /\ buf.at \in U /\ IsStarred(buf.at)
      /\ \A s \in U : s >= buf.at => CalledAs(s) = buf.base
      /\ \A s \in LastRun(U, buf.base) : IsStarred(s) => s >= buf.at
  BY <1>1, <1>3
<1> HIDE DEF U
<1>6. Joining(U, buf, pieces, prev, table)
  BY <1>1, <1>2, <1>4, <1>5 DEF Joining
<1> QED BY <1>6 DEF U

(* The last attribute read is of the name being joined.                    *)
LEMMA LastIsJoined ==
  ASSUME NEW n, NEW R, NEW f, Before(n, R, f), NEW buf, NEW pieces,
         NEW prev, NEW table, Joining(R, buf, pieces, prev, table)
  PROVE  R # {} /\ CalledAs(Max(R)) = buf.base
<1>1. buf.at \in R /\ \A s \in R : s >= buf.at => CalledAs(s) = buf.base
  BY DEF Joining
<1>2. n \in Nat /\ R \in SUBSET (0 .. n) /\ \A s \in R : s \in Nat
  BY DEF Before
<1>3. PICK m \in R : m = Max(R) /\ \A x \in R : x <= m
  BY <1>1, <1>2, MaxFacts
<1>4. buf.at <= m /\ m \in Nat /\ buf.at \in Nat
  BY <1>1, <1>2, <1>3
<1>5. m >= buf.at
  BY <1>4
<1> QED BY <1>1, <1>3, <1>5

-----------------------------------------------------------------------------
(* Nor does what it means to be joining, or idle.                          *)
LEMMA JoiningUnmoved ==
  ASSUME header' = header, tokens' = tokens
  PROVE  /\ \A R, table, joining : Entered(R, table, joining)' <=> Entered(R, table, joining)
         /\ \A R, buf, pieces, prev, table :
              Joining(R, buf, pieces, prev, table)' <=> Joining(R, buf, pieces, prev, table)
         /\ \A R, table, prev, more :
              Idle(R, table, prev, more)' <=> Idle(R, table, prev, more)
<1>1. /\ \A s : CalledAs(s)' = CalledAs(s)
      /\ \A s : IsStarred(s)' = IsStarred(s)
      /\ \A W, b : LastRun(W, b)' = LastRun(W, b)
      /\ \A W, b : Sources(W, b)' = Sources(W, b)
      /\ \A p, S, open : Tells(p, S, open)' <=> Tells(p, S, open)
      /\ \A s : NameText(s)' = NameText(s)
  BY RunsUnmoved, TellsUnmoved, Unmoved
<1>2. ASSUME NEW R, NEW table, NEW joining
      PROVE  Entered(R, table, joining)' <=> Entered(R, table, joining)
  <2>1. {CalledAs(s)' : s \in R} = {CalledAs(s) : s \in R}
    BY <1>1
  <2>2. \A b : Tells(table[b], Sources(R, b), FALSE)' <=> Tells(table[b], Sources(R, b), FALSE)
    <3> SUFFICES ASSUME NEW b
                 PROVE  Tells(table[b], Sources(R, b), FALSE)'
                        <=> Tells(table[b], Sources(R, b), FALSE)
      OBVIOUS
    <3>1. PICK S : S = Sources(R, b)
      OBVIOUS
    <3>2. Sources(R, b)' = S
      BY <1>1, <3>1
    <3>3. Tells(table[b], S, FALSE)' <=> Tells(table[b], S, FALSE)
      BY <1>1
    <3>4. Tells(table[b], Sources(R, b), FALSE)' <=> Tells(table[b], S, FALSE)'
      BY <3>2 DEF Tells
    <3> QED BY <3>1, <3>3, <3>4
  <2>3. Entered(R, table, joining)' <=>
          /\ DOMAIN table \cup joining = {CalledAs(s)' : s \in R}
          /\ \A b \in DOMAIN table \ joining : Tells(table[b], Sources(R, b), FALSE)'
    BY DEF Entered
  <2> QED BY <2>1, <2>2, <2>3 DEF Entered
<1>3. \A R, at : Segments(R, at)' = Segments(R, at)
  BY <1>1 DEF Segments
<1>4. ASSUME NEW R, NEW buf, NEW pieces, NEW prev, NEW table
      PROVE  Joining(R, buf, pieces, prev, table)' <=> Joining(R, buf, pieces, prev, table)
  <2>1. PICK S : S = Segments(R, buf.at)
    OBVIOUS
  <2>2. Segments(R, buf.at)' = S
    BY <1>3, <2>1
  <2>3. Tells(pieces, Segments(R, buf.at), prev)' <=> Tells(pieces, Segments(R, buf.at), prev)
    <3>1. Tells(pieces, S, prev)' <=> Tells(pieces, S, prev)
      BY <1>1
    <3>2. Tells(pieces, Segments(R, buf.at), prev)' <=> Tells(pieces, S, prev)'
      BY <2>2 DEF Tells
    <3> QED BY <2>1, <3>1, <3>2
  <2>4. PICK m : m = Max(S)
    OBVIOUS
  <2>5. NameText(Max(Segments(R, buf.at)))' = NameText(m)
    BY <1>1, <2>2, <2>4
  <2>6. NameText(Max(Segments(R, buf.at))) = NameText(m)
    BY <2>1, <2>4
  <2>7. PICK t : t = NameText(m)
    OBVIOUS
  <2>8. Joining(R, buf, pieces, prev, table)' <=>
          /\ buf.at \in R /\ IsStarred(buf.at)'
          /\ \A s \in R : s >= buf.at => CalledAs(s)' = buf.base
          /\ \A s \in LastRun(R, buf.base)' : IsStarred(s)' => s >= buf.at
          /\ Entered(R, table, {buf.base})'
          /\ Tells(pieces, Segments(R, buf.at), prev)'
          /\ prev = IsEncoded(t)
    BY <2>5, <2>7 DEF Joining
  <2> QED BY <1>1, <1>2, <2>3, <2>6, <2>7, <2>8 DEF Joining
<1>5. ASSUME NEW R, NEW table, NEW prev, NEW more
      PROVE  Idle(R, table, prev, more)' <=> Idle(R, table, prev, more)
  <2>1. \A b : PlainRun(R, b)' <=> PlainRun(R, b)
    BY <1>1 DEF PlainRun
  <2>2. PICK c : c = CalledAs(Max(R))
    OBVIOUS
  <2>3. CalledAs(Max(R))' = c
    BY <1>1, <2>2
  <2>4. PlainRun(R, CalledAs(Max(R)))' <=> PlainRun(R, c)'
    BY <2>3 DEF PlainRun
  <2>5. Idle(R, table, prev, more)' <=>
          /\ Entered(R, table, {})'
          /\ more => ~prev /\ (R # {} => PlainRun(R, CalledAs(Max(R)))')
    BY DEF Idle
  <2> QED BY <1>2, <2>1, <2>2, <2>4, <2>5 DEF Idle
<1> QED BY <1>2, <1>4, <1>5

(* To be idle, or to be joining, after a step.                             *)
LEMMA IdleNext ==
  ASSUME header' = header, tokens' = tokens, HeaderRead', Positioned',
         NEW U, Read' = U, NEW table, attributes' = table,
         NEW prev \in BOOLEAN, prevcharset_p' = prev,
         \A more \in BOOLEAN : Idle(U, table, prev, more),
         is_rfc2231_name' = FALSE, name_buf' = NoName, value_buf' = <<>>, live' = {}
  PROVE  IInv'
<1>1. PICK more \in BOOLEAN : more <=> (first_semi <= ntokens)'
  OBVIOUS
<1>2. Idle(U, table, prev, more)'
  BY JoiningUnmoved
<1>3. Idle(Read, attributes, prevcharset_p, first_semi <= ntokens)'
  BY <1>1, <1>2 DEF Idle, Entered, PlainRun
<1> QED BY <1>3 DEF IInv, Joins, NoName

(* ... and to be joining after it.                                         *)
LEMMA JoiningNext ==
  ASSUME header' = header, tokens' = tokens, HeaderRead', Positioned',
         NEW U, Read' = U, NEW table, attributes' = table,
         NEW prev \in BOOLEAN, prevcharset_p' = prev,
         NEW buf, name_buf' = buf, NEW pieces, value_buf' = pieces,
         Joining(U, buf, pieces, prev, table),
         is_rfc2231_name' = TRUE, live' = {buf.at}
  PROVE  IInv'
<1>1. Joining(U, buf, pieces, prev, table)'
  BY JoiningUnmoved
<1>2. Joining(Read, name_buf, value_buf, prevcharset_p, attributes)'
  BY <1>1 DEF Joining, Entered, Tells, Segments
<1> QED BY <1>2 DEF IInv, Joins

-----------------------------------------------------------------------------
(* What a step starts from.                                                *)
LEMMA Standing ==
  ASSUME IInv
  PROVE  /\ HeaderRead /\ Positioned /\ Joins
         /\ Before(ntokens, Read, first_semi)
         /\ Read \in SUBSET Nat
         /\ is_rfc2231_name => name_buf # NoName
<1>1. HeaderRead /\ Positioned /\ Joins
  BY DEF IInv
<1>2. Before(ntokens, Read, first_semi)
  BY <1>1, ReadBounds DEF Before
<1>3. ASSUME is_rfc2231_name PROVE name_buf # NoName
  <2>1. name_buf.at \in Read
    BY <1>1, <1>3 DEF Joins, Joining
  <2>2. name_buf.at \in Nat \ {0}
    BY <1>2, <2>1 DEF Before
  <2> QED BY <2>2 DEF NoName
<1>4. Read \in SUBSET Nat
  BY <1>2 DEF Before
<1> QED BY <1>1, <1>2, <1>3, <1>4

(* After an attribute, it has been read too.                               *)
LEMMA OneRead ==
  ASSUME IInv, first_semi <= ntokens, Resume, header' = header, tokens' = tokens
  PROVE  /\ HeaderRead' /\ Positioned'
         /\ Read' = IF Equals(first_semi) # 0 THEN Read \cup {first_semi} ELSE Read
BY Standing, NextRead

(* Each action keeps the invariant: what is no attribute is passed over,   *)
LEMMA UnnamedKeeps ==
  ASSUME IInv, Unnamed
  PROVE  IInv'
<1> USE DEF Unnamed
<1>1. HeaderRead' /\ Positioned' /\ Read' = Read /\ Joins
  BY OneRead, Standing
<1>2. CASE is_rfc2231_name
  <2>1. Joining(Read, name_buf, value_buf, prevcharset_p, attributes)
    BY <1>1, <1>2 DEF Joins
  <2>2. PICK U, buf, pieces, prev, table :
          U = Read /\ buf = name_buf /\ pieces = value_buf /\ prev = prevcharset_p
          /\ table = attributes
    OBVIOUS
  <2>3. is_rfc2231_name = TRUE /\ prev \in BOOLEAN /\ live = {buf.at}
    BY <1>1, <1>2, <2>2 DEF Joins
  <2> QED BY <1>1, <2>1, <2>2, <2>3, JoiningNext
<1>3. CASE ~is_rfc2231_name
  <2>1. Idle(Read, attributes, prevcharset_p, TRUE)
    BY <1>1, <1>3 DEF Joins, Idle
  <2>2. PICK U, prev, table : U = Read /\ prev = prevcharset_p /\ table = attributes
    OBVIOUS
  <2>3. /\ is_rfc2231_name = FALSE /\ prev \in BOOLEAN /\ live = {}
        /\ name_buf = NoName /\ value_buf = <<>>
    BY <1>1, <1>3, <2>2 DEF Joins
  <2>4. \A more \in BOOLEAN : Idle(U, table, prev, more)
    BY <2>1, <2>2 DEF Idle
  <2>5. NoName' = NoName
    BY DEF NoName
  <2> QED BY <1>1, <2>2, <2>3, <2>4, IdleNext
<1> QED BY <1>2, <1>3

(* What the guards of the other actions say of the next attribute.         *)
LEMMA GuardFacts ==
  ASSUME NEW star \in BOOLEAN, Is(star)
  PROVE  /\ first_semi <= ntokens /\ Equals(first_semi) # 0
         /\ star <=> IsStarred(first_semi)
         /\ Here = [base |-> CalledAs(first_semi), at |-> first_semi]
         /\ Here.base = CalledAs(first_semi)
  BY DEF Is, IsStarred, Here, CalledAs

(* ... a plain attribute is entered,                                       *)
LEMMA PlainAttributeKeeps ==
  ASSUME IInv, PlainAttribute
  PROVE  IInv'
<1>1. /\ first_semi <= ntokens /\ Equals(first_semi) # 0 /\ ~IsStarred(first_semi)
      /\ Here.base = CalledAs(first_semi)
  BY GuardFacts DEF PlainAttribute
<1>2. /\ Resume /\ header' = header /\ tokens' = tokens /\ ~is_rfc2231_name
      /\ attributes' = Plain(attributes)
      /\ UNCHANGED <<name_buf, value_buf, is_rfc2231_name, prevcharset_p, live>>
  BY DEF PlainAttribute
<1>3. HeaderRead' /\ Positioned' /\ Read' = Read \cup {first_semi}
  BY <1>1, <1>2, OneRead
<1>4. PICK n, R, f, table :
        n = ntokens /\ R = Read /\ f = first_semi /\ table = attributes
  OBVIOUS
<1>5. HeaderRead /\ Before(n, R, f) /\ Joins
  BY <1>4, Standing
<1>6. /\ Idle(R, table, prevcharset_p, TRUE) /\ prevcharset_p = FALSE
      /\ is_rfc2231_name = FALSE /\ name_buf = NoName /\ value_buf = <<>> /\ live = {}
  BY <1>1, <1>2, <1>4, <1>5 DEF Joins, Idle
<1>7. /\ Entered(R, table, {})
      /\ R # {} /\ CalledAs(Max(R)) = CalledAs(f) => PlainRun(R, CalledAs(f))
  <2>1. R # {} => PlainRun(R, CalledAs(Max(R)))
    BY <1>6 DEF Idle
  <2>2. PICK c : c = CalledAs(Max(R))
    OBVIOUS
  <2> QED BY <1>6, <2>1 DEF Idle
<1>8. PICK new : new = Set(table, CalledAs(f), <<Piece("text", ValueText(f))>>)
  OBVIOUS
<1>9. \A more \in BOOLEAN : Idle(R \cup {f}, new, FALSE, more)
  BY <1>1, <1>4, <1>5, <1>7, <1>8, PlainEnters
<1>10. attributes' = new
  BY <1>1, <1>2, <1>4, <1>8 DEF Plain
<1>11. Read' = R \cup {f} /\ FALSE \in BOOLEAN
  BY <1>3, <1>4
<1>12. /\ prevcharset_p' = FALSE /\ is_rfc2231_name' = FALSE /\ name_buf' = NoName
       /\ value_buf' = <<>> /\ live' = {}
  BY <1>2, <1>6 DEF NoName
<1> QED BY <1>2, <1>3, <1>9, <1>10, <1>11, <1>12, IdleNext

(* ... or left out when it repeats the name being joined,                  *)
LEMMA PlainRepeatsKeeps ==
  ASSUME IInv, PlainRepeats
  PROVE  IInv'
<1>1. /\ first_semi <= ntokens /\ Equals(first_semi) # 0 /\ ~IsStarred(first_semi)
      /\ Here.base = CalledAs(first_semi)
  BY GuardFacts DEF PlainRepeats
<1>2. /\ Resume /\ header' = header /\ tokens' = tokens /\ is_rfc2231_name
      /\ Here.base = name_buf.base
      /\ UNCHANGED <<name_buf, value_buf, is_rfc2231_name, prevcharset_p, attributes, live>>
  BY DEF PlainRepeats
<1>3. HeaderRead' /\ Positioned' /\ Read' = Read \cup {first_semi}
  BY <1>1, <1>2, OneRead
<1>4. PICK n, R, f, buf, pieces, prev, table :
        n = ntokens /\ R = Read /\ f = first_semi /\ buf = name_buf
        /\ pieces = value_buf /\ prev = prevcharset_p /\ table = attributes
  OBVIOUS
<1>5. HeaderRead /\ Before(n, R, f) /\ Joins
  BY <1>4, Standing
<1>6. /\ Joining(R, buf, pieces, prev, table) /\ prev \in BOOLEAN
      /\ is_rfc2231_name = TRUE /\ live = {buf.at}
  BY <1>2, <1>4, <1>5 DEF Joins
<1>7. Joining(R \cup {f}, buf, pieces, prev, table)
  <2>1. ~IsStarred(f) /\ CalledAs(f) = buf.base
    BY <1>1, <1>2, <1>4
  <2> QED BY <1>5, <1>6, <2>1, PlainIsDropped
<1>8. Read' = R \cup {f}
  BY <1>3, <1>4
<1> QED BY <1>2, <1>3, <1>4, <1>6, <1>7, <1>8, JoiningNext

(* ... or is entered after what was being joined,                          *)
LEMMA PlainEndsJoinedKeeps ==
  ASSUME IInv, PlainEndsJoined
  PROVE  IInv'
<1>1. /\ first_semi <= ntokens /\ Equals(first_semi) # 0 /\ ~IsStarred(first_semi)
      /\ Here.base = CalledAs(first_semi)
  BY GuardFacts DEF PlainEndsJoined
<1>2. /\ Resume /\ header' = header /\ tokens' = tokens /\ is_rfc2231_name
      /\ Here.base # name_buf.base /\ attributes' = Plain(Joined)
      /\ live' = live \ {name_buf.at} /\ name_buf' = NoName /\ value_buf' = <<>>
      /\ is_rfc2231_name' = FALSE /\ prevcharset_p' = FALSE
  BY DEF PlainEndsJoined
<1>3. HeaderRead' /\ Positioned' /\ Read' = Read \cup {first_semi}
  BY <1>1, <1>2, OneRead
<1>4. PICK n, R, f, buf, pieces, prev, table :
        n = ntokens /\ R = Read /\ f = first_semi /\ buf = name_buf
        /\ pieces = value_buf /\ prev = prevcharset_p /\ table = attributes
  OBVIOUS
<1>5. HeaderRead /\ Before(n, R, f) /\ Joins /\ R \in SUBSET Nat
  BY <1>4, Standing
<1>6. /\ Joining(R, buf, pieces, prev, table) /\ prev \in BOOLEAN
      /\ live = {buf.at}
  BY <1>2, <1>4, <1>5 DEF Joins
<1>7. PICK joined : joined = Set(table, buf.base, pieces \o CloseWord(prev))
  OBVIOUS
<1>8. Entered(R, joined, {})
  BY <1>5, <1>6, <1>7, EntersJoined
<1>9. CalledAs(Max(R)) # CalledAs(f)
  BY <1>1, <1>2, <1>4, <1>5, <1>6, LastIsJoined
<1>10. PICK new : new = Set(joined, CalledAs(f), <<Piece("text", ValueText(f))>>)
  OBVIOUS
<1>11. \A more \in BOOLEAN : Idle(R \cup {f}, new, FALSE, more)
  BY <1>1, <1>4, <1>5, <1>8, <1>9, <1>10, PlainEnters
<1>12. attributes' = new
  BY <1>1, <1>2, <1>4, <1>7, <1>10 DEF Plain, Joined
<1>13. Read' = R \cup {f} /\ FALSE \in BOOLEAN /\ live' = {}
  BY <1>2, <1>3, <1>4, <1>6
<1> QED BY <1>2, <1>3, <1>11, <1>12, <1>13, IdleNext

(* A joined value is pieces.                                               *)
LEMMA SegmentsAlone ==
  ASSUME NEW R, NEW buf, NEW pieces, NEW prev, NEW table,
         Joining(R, buf, pieces, prev, table)
  PROVE  pieces \in Seq(OnePiece)
BY DEF Joining, Tells, Pieces

(* ... a segment begins an attribute,                                      *)
LEMMA FirstSegmentKeeps ==
  ASSUME IInv, FirstSegment
  PROVE  IInv'
<1>1. /\ first_semi <= ntokens /\ Equals(first_semi) # 0 /\ IsStarred(first_semi)
      /\ Here = [base |-> CalledAs(first_semi), at |-> first_semi]
  BY GuardFacts DEF FirstSegment
<1>2. /\ Resume /\ header' = header /\ tokens' = tokens /\ name_buf = NoName
      /\ name_buf' = Here /\ live' = live \cup {first_semi}
      /\ value_buf' = value_buf \o Segment(prevcharset_p)
      /\ is_rfc2231_name' = TRUE
      /\ prevcharset_p' = IsEncoded(NameText(first_semi))
      /\ attributes' = attributes
  BY DEF FirstSegment
<1>3. HeaderRead' /\ Positioned' /\ Read' = Read \cup {first_semi}
  BY <1>1, <1>2, OneRead
<1>4. PICK n, R, f, table :
        n = ntokens /\ R = Read /\ f = first_semi /\ table = attributes
  OBVIOUS
<1>5. HeaderRead /\ Before(n, R, f) /\ Joins /\ ~is_rfc2231_name
  BY <1>2, <1>4, Standing
<1>6. /\ Idle(R, table, prevcharset_p, TRUE) /\ prevcharset_p = FALSE
      /\ value_buf = <<>> /\ live = {}
  BY <1>1, <1>4, <1>5 DEF Joins, Idle
<1>7. /\ Entered(R, table, {})
      /\ R # {} /\ CalledAs(Max(R)) = CalledAs(f) => PlainRun(R, CalledAs(f))
  <2>1. R # {} => PlainRun(R, CalledAs(Max(R)))
    BY <1>6 DEF Idle
  <2> QED BY <1>6, <2>1 DEF Idle
<1>8. PICK pieces, e, buf :
        /\ pieces = Rfc2231ToMime(ValueText(f), IsEncoded(NameText(f)), FALSE)
        /\ e = IsEncoded(NameText(f)) /\ buf = [base |-> CalledAs(f), at |-> f]
  OBVIOUS
<1>9. Joining(R \cup {f}, buf, pieces, e, table)
  BY <1>1, <1>4, <1>5, <1>7, <1>8, SegmentBegins
<1>10. value_buf' = pieces
  <2>1. value_buf' = <<>> \o pieces
    BY <1>2, <1>4, <1>6, <1>8 DEF Segment
  <2>2. pieces \in Seq(OnePiece)
    BY <1>9, SegmentsAlone
  <2> QED BY <2>1, <2>2, ConcatEmptySeq
<1>11. Read' = R \cup {f} /\ e \in BOOLEAN /\ live' = {buf.at} /\ name_buf' = buf
       /\ prevcharset_p' = e /\ attributes' = table
  BY <1>1, <1>2, <1>3, <1>4, <1>6, <1>8 DEF IsEncoded
<1> QED BY <1>2, <1>3, <1>9, <1>10, <1>11, JoiningNext

(* ... goes on with it,                                                    *)
LEMMA NextSegmentKeeps ==
  ASSUME IInv, NextSegment
  PROVE  IInv'
<1>1. /\ first_semi <= ntokens /\ Equals(first_semi) # 0 /\ IsStarred(first_semi)
      /\ Here.base = CalledAs(first_semi)
  BY GuardFacts DEF NextSegment
<1>2. /\ Resume /\ header' = header /\ tokens' = tokens /\ name_buf # NoName
      /\ Here.base = name_buf.base
      /\ value_buf' = value_buf \o Segment(prevcharset_p)
      /\ prevcharset_p' = IsEncoded(NameText(first_semi))
      /\ UNCHANGED <<name_buf, is_rfc2231_name, attributes, live>>
  BY DEF NextSegment
<1>3. HeaderRead' /\ Positioned' /\ Read' = Read \cup {first_semi}
  BY <1>1, <1>2, OneRead
<1>4. PICK n, R, f, buf, pieces, prev, table :
        n = ntokens /\ R = Read /\ f = first_semi /\ buf = name_buf
        /\ pieces = value_buf /\ prev = prevcharset_p /\ table = attributes
  OBVIOUS
<1>5. HeaderRead /\ Before(n, R, f) /\ Joins
  BY <1>4, Standing
<1>6. /\ Joining(R, buf, pieces, prev, table) /\ prev \in BOOLEAN
      /\ is_rfc2231_name = TRUE /\ live = {buf.at}
  BY <1>2, <1>4, <1>5 DEF Joins
<1>7. PICK more, e :
        /\ more = pieces \o Rfc2231ToMime(ValueText(f), IsEncoded(NameText(f)), prev)
        /\ e = IsEncoded(NameText(f))
  OBVIOUS
<1>8. Joining(R \cup {f}, buf, more, e, table)
  BY <1>1, <1>2, <1>4, <1>5, <1>6, <1>7, SegmentJoins
<1>9. Read' = R \cup {f} /\ e \in BOOLEAN /\ prevcharset_p' = e /\ value_buf' = more
  BY <1>2, <1>3, <1>4, <1>7 DEF Segment, IsEncoded
<1> QED BY <1>2, <1>3, <1>4, <1>6, <1>8, <1>9, JoiningNext

(* ... or has it entered and begins another,                               *)
LEMMA OtherSegmentKeeps ==
  ASSUME IInv, OtherSegment
  PROVE  IInv'
<1>1. /\ first_semi <= ntokens /\ Equals(first_semi) # 0 /\ IsStarred(first_semi)
      /\ Here = [base |-> CalledAs(first_semi), at |-> first_semi]
      /\ Here.base = CalledAs(first_semi)
  BY GuardFacts DEF OtherSegment
<1>2. /\ Resume /\ header' = header /\ tokens' = tokens /\ name_buf # NoName
      /\ Here.base # name_buf.base /\ attributes' = Joined
      /\ live' = (live \ {name_buf.at}) \cup {first_semi}
      /\ name_buf' = Here /\ value_buf' = Segment(FALSE)
      /\ prevcharset_p' = IsEncoded(NameText(first_semi))
      /\ is_rfc2231_name' = is_rfc2231_name
  BY DEF OtherSegment
<1>3. HeaderRead' /\ Positioned' /\ Read' = Read \cup {first_semi}
  BY <1>1, <1>2, OneRead
<1>4. PICK n, R, f, buf, pieces, prev, table :
        n = ntokens /\ R = Read /\ f = first_semi /\ buf = name_buf
        /\ pieces = value_buf /\ prev = prevcharset_p /\ table = attributes
  OBVIOUS
<1>5. HeaderRead /\ Before(n, R, f) /\ Joins /\ R \in SUBSET Nat
  BY <1>4, Standing
<1>6. /\ Joining(R, buf, pieces, prev, table) /\ prev \in BOOLEAN
      /\ is_rfc2231_name = TRUE /\ live = {buf.at}
  BY <1>2, <1>4, <1>5 DEF Joins
<1>7. PICK joined : joined = Set(table, buf.base, pieces \o CloseWord(prev))
  OBVIOUS
<1>8. Entered(R, joined, {})
  BY <1>5, <1>6, <1>7, EntersJoined
<1>9. CalledAs(Max(R)) # CalledAs(f)
  BY <1>1, <1>2, <1>4, <1>5, <1>6, LastIsJoined
<1>10. PICK segment, e, here :
        /\ segment = Rfc2231ToMime(ValueText(f), IsEncoded(NameText(f)), FALSE)
        /\ e = IsEncoded(NameText(f)) /\ here = [base |-> CalledAs(f), at |-> f]
  OBVIOUS
<1>11. Joining(R \cup {f}, here, segment, e, joined)
  BY <1>1, <1>4, <1>5, <1>8, <1>9, <1>10, SegmentBegins
<1>12. attributes' = joined /\ value_buf' = segment
  BY <1>2, <1>4, <1>7, <1>10 DEF Joined, Segment
<1>13. Read' = R \cup {f} /\ e \in BOOLEAN /\ live' = {here.at} /\ name_buf' = here
       /\ prevcharset_p' = e /\ is_rfc2231_name' = TRUE
  BY <1>1, <1>2, <1>3, <1>4, <1>6, <1>10 DEF IsEncoded
<1>14. header' = header /\ tokens' = tokens /\ HeaderRead' /\ Positioned'
  BY <1>2, <1>3
<1> QED BY <1>11, <1>12, <1>13, <1>14, JoiningNext

(* ... and what is still being joined at the end is entered.               *)
LEMMA FinalizeKeeps ==
  ASSUME IInv, Finalize
  PROVE  IInv'
<1>2. /\ first_semi > ntokens /\ is_rfc2231_name
      /\ attributes' = Joined /\ live' = live \ {name_buf.at} /\ name_buf' = NoName
      /\ value_buf' = <<>> /\ is_rfc2231_name' = FALSE
      /\ UNCHANGED <<header, tokens, first_semi, prevcharset_p>>
  BY DEF Finalize
<1>1. HeaderRead /\ Positioned /\ Joins /\ Read \in SUBSET Nat
  BY Standing
<1>3. HeaderRead' /\ ntokens' = ntokens /\ Written' = Written
  BY <1>1, <1>2, RunsUnmoved, Unmoved
<1>a. Positioned' /\ Read' = Read
  BY <1>1, <1>2, <1>3 DEF Positioned, Read
<1>4. PICK R, buf, pieces, prev, table :
        R = Read /\ buf = name_buf
        /\ pieces = value_buf /\ prev = prevcharset_p /\ table = attributes
  OBVIOUS
<1>6. /\ Joining(R, buf, pieces, prev, table) /\ prev \in BOOLEAN
      /\ live = {buf.at}
  BY <1>1, <1>2, <1>4 DEF Joins
<1>7. PICK joined : joined = Set(table, buf.base, pieces \o CloseWord(prev))
  OBVIOUS
<1>8. Entered(R, joined, {})
  BY <1>1, <1>4, <1>6, <1>7, EntersJoined
<1>9. Idle(R, joined, prev, FALSE)
  BY <1>8 DEF Idle
<1>10. Idle(R, joined, prev, FALSE)'
  BY <1>2, <1>9, JoiningUnmoved
<1>11. attributes' = joined /\ Read' = R /\ prevcharset_p' = prev
  BY <1>2, <1>4, <1>7, <1>a DEF Joined
<1>12. ~(first_semi <= ntokens)'
  <2>1. first_semi \in Nat /\ ntokens \in Nat
    BY <1>1, ReadFacts DEF Positioned
  <2> QED BY <1>2, <1>3, <2>1
<1>13. Idle(Read, attributes, prevcharset_p, first_semi <= ntokens)'
  BY <1>10, <1>11, <1>12 DEF Idle, Entered
<1>14. live' = {} /\ prevcharset_p' \in BOOLEAN
  BY <1>2, <1>4, <1>6
<1> QED BY <1>2, <1>3, <1>a, <1>13, <1>14 DEF IInv, Joins, NoName

-----------------------------------------------------------------------------
(* Nothing has been read at first.                                         *)
LEMMA StartsJoins ==
  ASSUME Init
  PROVE  IInv
<1>1. HeaderRead
  BY DEF Init, HeaderRead
<1>2. PICK n \in Nat : n = ntokens
  BY <1>1, ReadFacts
<1>0. PICK k \in Nat \ {0} : k = 3
  OBVIOUS
<1>a. /\ NextSemi(k) \in Nat /\ k <= NextSemi(k)
      /\ NextSemi(k) <= ntokens => tokens[NextSemi(k)].token = ";"
      /\ \A j \in k .. ntokens : tokens[j].token = ";" => NextSemi(k) <= j
  BY <1>1, SemiFacts
<1>3. PICK m \in Nat : m = NextSemi(k)
  BY <1>a
<1>4. /\ m <= n => tokens[m].token = ";"
      /\ \A j \in 3 .. n : tokens[j].token = ";" => m <= j
  BY <1>0, <1>2, <1>3, <1>a
<1>b. 3 <= m
  BY <1>0, <1>3, <1>a
<1>5. PICK g : g = Min({m, n}) + 1
  OBVIOUS
<1>6. first_semi = g
  BY <1>0, <1>2, <1>3, <1>5 DEF Init
<1>7. \/ m <= n /\ g = m + 1
      \/ m > n /\ g = n + 1
  <2>1. Min({m, n}) \in {m, n} /\ Min({m, n}) <= m /\ Min({m, n}) <= n
    BY MinPair
  <2>2. PICK x \in {m, n} : x = Min({m, n}) /\ x <= m /\ x <= n
    BY <2>1
  <2> QED BY <1>5, <2>2
<1>8. g \in Nat \ {0} /\ g <= n + 1 /\ (g <= n => (g >= 4 /\ g - 1 = m /\ m <= n))
  <2>1. CASE m <= n /\ g = m + 1
    BY <1>b, <2>1
  <2>2. CASE m > n /\ g = n + 1
    BY <2>2
  <2> QED BY <1>7, <2>1, <2>2
<1>9. Positioned
  <2>1. g <= n => tokens[g - 1].token = ";"
    BY <1>4, <1>8
  <2> QED BY <1>2, <1>6, <1>8, <2>1 DEF Positioned
<1>10. Read = {}
  <2>1. ASSUME NEW s \in Written PROVE ~(s < g)
    <3>1. s \in 4 .. n /\ tokens[s - 1].token = ";"
      BY <1>2 DEF Written
    <3>2. s \in 4 .. n
      BY <3>1
    <3>3. s - 1 \in 3 .. n
      BY <3>2
    <3>4. m <= s - 1
      BY <1>4, <3>1, <3>3
    <3> QED BY <1>7, <3>2, <3>4
  <2> QED BY <1>6, <2>1 DEF Read
<1>11. /\ is_rfc2231_name = FALSE /\ prevcharset_p = FALSE /\ attributes = <<>>
       /\ name_buf = NoName /\ value_buf = <<>> /\ live = {}
  BY DEF Init
<1>12. Entered({}, <<>>, {})
  <2>1. DOMAIN <<>> = {}
    OBVIOUS
  <2> QED BY <2>1 DEF Entered
<1>13. Idle(Read, attributes, prevcharset_p, first_semi <= ntokens)
  <2>1. \A more : Idle({}, <<>>, FALSE, more)
    BY <1>12 DEF Idle
  <2> QED BY <1>10, <1>11, <2>1
<1> QED BY <1>1, <1>9, <1>11, <1>13 DEF IInv, Joins

(* No step loses what the loop relies on.                                  *)
LEMMA StepJoins ==
  ASSUME IInv, [Next]_vars
  PROVE  IInv'
<1>1. CASE Unnamed
  BY <1>1, UnnamedKeeps
<1>2. CASE PlainAttribute
  BY <1>2, PlainAttributeKeeps
<1>3. CASE PlainRepeats
  BY <1>3, PlainRepeatsKeeps
<1>4. CASE PlainEndsJoined
  BY <1>4, PlainEndsJoinedKeeps
<1>5. CASE FirstSegment
  BY <1>5, FirstSegmentKeeps
<1>6. CASE NextSegment
  BY <1>6, NextSegmentKeeps
<1>7. CASE OtherSegment
  BY <1>7, OtherSegmentKeeps
<1>8. CASE Finalize
  BY <1>8, FinalizeKeeps
<1>9. CASE UNCHANGED vars
  <2>1. /\ header' = header /\ tokens' = tokens /\ first_semi' = first_semi
        /\ UNCHANGED <<name_buf, value_buf, is_rfc2231_name, prevcharset_p, attributes, live>>
    BY <1>9 DEF vars
  <2>2. HeaderRead /\ Positioned /\ Joins
    BY DEF IInv
  <2>3. HeaderRead' /\ ntokens' = ntokens /\ Written' = Written
    BY <2>1, <2>2, RunsUnmoved, Unmoved
  <2>4. Positioned' /\ Read' = Read
    BY <2>1, <2>2, <2>3 DEF Positioned, Read
  <2>5. CASE is_rfc2231_name
    <3>1. PICK R, buf, pieces, prev, table :
            R = Read /\ buf = name_buf
            /\ pieces = value_buf /\ prev = prevcharset_p /\ table = attributes
      OBVIOUS
    <3>2. /\ Joining(R, buf, pieces, prev, table) /\ prev \in BOOLEAN
          /\ is_rfc2231_name = TRUE /\ live = {buf.at}
      BY <2>2, <2>5, <3>1 DEF Joins
    <3> QED BY <2>1, <2>3, <2>4, <3>1, <3>2, JoiningNext
  <2>6. CASE ~is_rfc2231_name
    <3>1. PICK R, prev, table, more :
            R = Read /\ prev = prevcharset_p /\ table = attributes
            /\ more = (first_semi <= ntokens)
      OBVIOUS
    <3>2. /\ Idle(R, table, prev, more) /\ prev \in BOOLEAN
          /\ is_rfc2231_name = FALSE /\ live = {} /\ name_buf = NoName /\ value_buf = <<>>
      BY <2>2, <2>6, <3>1 DEF Joins
    <3>3. Idle(R, table, prev, more)'
      BY <2>1, <3>2, JoiningUnmoved
    <3>4. (first_semi <= ntokens)' = more
      BY <2>1, <2>3, <3>1
    <3>5. Idle(Read, attributes, prevcharset_p, first_semi <= ntokens)'
      <4>1. Read' = R /\ attributes' = table /\ prevcharset_p' = prev
        BY <2>1, <2>4, <3>1
      <4> QED BY <3>3, <3>4, <4>1 DEF Idle, Entered
    <3>6. /\ is_rfc2231_name' = FALSE /\ prevcharset_p' \in BOOLEAN
          /\ name_buf' = NoName' /\ value_buf' = <<>> /\ live' = {}
      BY <2>1, <3>1, <3>2 DEF NoName
    <3> QED BY <2>3, <2>4, <3>5, <3>6 DEF IInv, Joins
  <2> QED BY <2>5, <2>6
<1> QED BY <1>1, <1>2, <1>3, <1>4, <1>5, <1>6, <1>7, <1>8, <1>9 DEF Next

(* At the end, all that is written has been read.                          *)
LEMMA EndFacts ==
  ASSUME IInv, AtEnd
  PROVE  /\ DOMAIN attributes = {BaseOf(NameText(s)) : s \in Written}
         /\ \A b \in DOMAIN attributes : Tells(attributes[b], Sources(Written, b), FALSE)
<1>1. HeaderRead /\ Positioned /\ Joins
  BY Standing
<1>2. Read = Written
  <2>1. Written \in SUBSET (4 .. ntokens) /\ ntokens \in Nat /\ first_semi \in Nat
    BY <1>1, ReadBounds
  <2>2. \A s \in 4 .. ntokens : s < first_semi
    BY <2>1 DEF AtEnd
  <2> QED BY <2>1, <2>2 DEF Read
<1>3. Entered(Written, attributes, {})
  BY <1>1, <1>2 DEF Joins, Idle, AtEnd
<1> QED BY <1>3 DEF Entered, CalledAs

(* So what JoinedAsWritten says holds at the end,                          *)
LEMMA EndJoined ==
  ASSUME IInv
  PROVE  JoinedAsWritten
<1> SUFFICES ASSUME AtEnd
             PROVE  /\ DOMAIN attributes = {BaseOf(NameText(s)) : s \in Written}
                    /\ \A b \in DOMAIN attributes :
                         Texts(attributes[b]) = Values(Sources(Written, b))
  BY DEF JoinedAsWritten
<1> QED BY EndFacts DEF Tells

(* ... as does what EncodedWordsPaired says,                               *)
LEMMA EndPaired ==
  ASSUME IInv
  PROVE  EncodedWordsPaired
<1> SUFFICES ASSUME AtEnd, NEW b \in DOMAIN attributes,
                    \A s \in Sources(Written, b) : ~Unintroduced(s, Sources(Written, b))
             PROVE  LET pieces == attributes[b] IN
                    /\ \A k \in DOMAIN pieces :
                         pieces[k].kind \in {"open", "quoted"} <=> Depth(pieces, k) = 1
                    /\ Depth(pieces, Len(pieces)) = 0
  BY DEF EncodedWordsPaired
<1>1. Balanced(attributes[b], FALSE)
  BY EndFacts DEF Tells
<1> QED BY <1>1 DEF Balanced

(* ... and what NamesReleasedOnce says holds all along.                    *)
LEMMA Released ==
  ASSUME IInv
  PROVE  NamesReleasedOnce
BY Standing DEF Joins, NamesReleasedOnce

-----------------------------------------------------------------------------
(* The loop of php_mimeheader_alloc_from_tok keeps IInv: either it is      *)
(* joining an attribute, and value_buf tells the segments of the last      *)
(* run of its name so far, or it is not, and the table has what has been   *)
(* read.                                                                   *)
THEOREM JoinsAlways == Spec => []IInv
<1>1. Init => IInv
  BY StartsJoins
<1>2. IInv /\ [Next]_vars => IInv'
  BY StepJoins
<1> QED BY <1>1, <1>2, PTL DEF Spec

(* Of every header, with any words, the loop of                            *)
(* php_mimeheader_alloc_from_tok leaves each name with the segments of     *)
(* its last run, all and in order, or its last plain value, and nothing    *)
(* of another name.                                                        *)
THEOREM JoinedCorrectly == Spec => []JoinedAsWritten
<1>1. IInv => JoinedAsWritten
  BY EndJoined
<1> QED BY <1>1, JoinsAlways, PTL

(* Of every header, in each attribute whose encoded segments have their    *)
(* charset, every encoded word rfc2231_to_mime opens is closed before      *)
(* plain text and at the end, and holds all that is quoted, though it      *)
(* knows only of the segment before.                                       *)
THEOREM WordsArePaired == Spec => []EncodedWordsPaired
<1>1. IInv => EncodedWordsPaired
  BY EndPaired
<1> QED BY <1>1, JoinsAlways, PTL

(* php_mimeheader_alloc_from_tok frees every name it allocates once: the   *)
(* only one that lives is the one in name_buf.                             *)
THEOREM NamesFreedOnce == Spec => []NamesReleasedOnce
<1>1. IInv => NamesReleasedOnce
  BY Released
<1> QED BY <1>1, JoinsAlways, PTL

(* Whatever the fields of a part, php_mimepart_process_header keeps them   *)
(* all in headerhash, under their names and in the order of the message.   *)
THEOREM FieldsStay == Spec => []FieldsKept
<1>1. IInv => FieldsKept
  BY TableKeeps DEF IInv, HeaderRead
<1> QED BY <1>1, JoinsAlways, PTL

(* Whatever the attributes of the content type are called, none of them    *)
(* hides a header from who reads mailparse_get_part_data.                  *)
THEOREM HeadersFound == Spec => []HeadersNotHidden
<1>1. IInv => HeadersNotHidden
  BY DataTell DEF IInv, HeaderRead
<1> QED BY <1>1, JoinsAlways, PTL
=============================================================================
