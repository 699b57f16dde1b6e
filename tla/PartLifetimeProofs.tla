------------------------- MODULE PartLifetimeProofs -------------------------
(***************************************************************************)
(* What holds of the parts of messages for every number of parts,          *)
(* references and nested extractions.  First, that every part is freed     *)
(* exactly once.                                                           *)
(***************************************************************************)
EXTENDS PartLifetime, FiniteSetTheorems, WellFoundedInduction, TLAPS

(* Parts are positive numbers, which NULL is not.                          *)
LEMMA PartFacts ==
  /\ Part \subseteq Nat /\ Root \in Part
  /\ \A p \in Part : p \in Nat /\ p > 0 /\ p # NoPart
  BY HeapAssumption DEF Part, Root, NoPart

(* The set of parts reached along links: it holds where it starts, follows *)
(* the links, and lies inside every set that does both.                    *)
LEMMA ClosureFacts ==
  ASSUME NEW f \in [Part -> Part \cup {NoPart}], NEW p \in Part
  PROVE  /\ p \in Closure(f, p)
         /\ Closure(f, p) \subseteq Part
         /\ \A q \in Closure(f, p) : f[q] # NoPart => f[q] \in Closure(f, p)
         /\ \A S \in SUBSET Part :
              (p \in S /\ \A r \in S : f[r] \in S \cup {NoPart})
                => Closure(f, p) \subseteq S
  BY DEF Closure

(* The same for links to many parts.                                       *)
LEMMA TreeFacts ==
  ASSUME NEW f \in [Part -> SUBSET Part], NEW p \in Part
  PROVE  /\ p \in Tree(f, p)
         /\ Tree(f, p) \subseteq Part
         /\ \A q \in Tree(f, p) : f[q] \subseteq Tree(f, p)
         /\ \A S \in SUBSET Part :
              (p \in S /\ \A r \in S : f[r] \subseteq S) => Tree(f, p) \subseteq S
  BY DEF Tree

LEMMA TreeLinks ==
  ASSUME NEW f \in [Part -> SUBSET Part], NEW p \in Part,
         NEW q \in Tree(f, p), q # p
  PROVE  \E r \in Tree(f, p) : q \in f[r]
<1> SUFFICES ASSUME \A r \in Tree(f, p) : q \notin f[r] PROVE FALSE
  OBVIOUS
<1> DEFINE S == Tree(f, p) \ {q}
<1>1. S \in SUBSET Part /\ p \in S
  BY TreeFacts
<1>2. \A r \in S : f[r] \subseteq S
  BY TreeFacts
<1>3. Tree(f, p) \subseteq S
  <2> HIDE DEF S
  <2> QED BY <1>1, <1>2, TreeFacts
<1> QED BY <1>3

-----------------------------------------------------------------------------
(* What FreedOnce needs to be inductive: the states and counters have      *)
(* their types, and numbers that are not allocated are unused.             *)
FreedInv ==
  /\ nparts \in Nat
  /\ mem \in [Part -> {"unused", "live", "freed"}]
  /\ res \in [Part -> {"none", "open", "null", "closed", "gone"}]
  /\ frees \in [Part -> Nat]
  /\ \A p \in Part : p > nparts => mem[p] = "unused"
  /\ FreedOnce

(* php_mimepart_free frees the part it is called for, and no part that was *)
(* freed before.                                                           *)
LEMMA FreeOnce ==
  ASSUME FreedInv, nparts' = nparts, NEW p \in Part, NEW count,
         NEW last \in {"closed", "gone"}, Free(p, count, last)
  PROVE  FreedInv'
<1> DEFINE dying == Dying(p)
           freed == {q \in dying : res[q] = "open"}
<1>1. p \in dying
  BY DEF Dying, Tree
<1>2. /\ mem' = [q \in Part |-> IF q \in freed THEN "freed" ELSE mem[q]]
      /\ frees' = [q \in Part |-> IF q \in freed THEN frees[q] + 1
                                                 ELSE frees[q]]
      /\ res' = [q \in Part |-> IF q = p THEN last
                                ELSE IF q \in dying THEN "gone" ELSE res[q]]
  BY DEF Free
<1> HIDE DEF dying
<1>3. /\ mem' \in [Part -> {"unused", "live", "freed"}]
      /\ res' \in [Part -> {"none", "open", "null", "closed", "gone"}]
  BY <1>2 DEF FreedInv
<1>4. frees' \in [Part -> Nat]
  BY <1>2 DEF FreedInv
<1>5. ASSUME NEW q \in Part
      PROVE  /\ res'[q] = "open" <=> mem'[q] = "live"
             /\ frees'[q] = IF mem'[q] = "freed" THEN 1 ELSE 0
  <2>1. CASE q \in freed
    BY <1>2, <2>1 DEF FreedInv, FreedOnce
  <2>2. CASE q \notin freed
    BY <1>1, <1>2, <2>2 DEF FreedInv, FreedOnce
  <2> QED BY <2>1, <2>2
<1>6. ASSUME NEW q \in Part, q > nparts'
      PROVE  mem'[q] = "unused"
  BY <1>2, <1>6 DEF FreedInv, FreedOnce
<1> QED BY <1>3, <1>4, <1>5, <1>6 DEF FreedInv, FreedOnce

(* Dropping a reference frees the part once, or leaves it as it is.        *)
LEMMA DropOnce ==
  ASSUME FreedInv, nparts' = nparts, NEW p \in Part, DropReference(p)
  PROVE  FreedInv'
<1> DEFINE count == [refs EXCEPT ![p] = @ - 1]
<1>1. CASE count[p] = 0
  BY <1>1, FreeOnce DEF DropReference
<1>2. CASE count[p] # 0
  <2> UNCHANGED <<nparts, mem, res, frees>>
    BY <1>2 DEF DropReference
  <2> QED BY DEF FreedInv, FreedOnce
<1> QED BY <1>1, <1>2

(* A new part: it was unused, and is live with an open resource.           *)
LEMMA AllocOnce ==
  ASSUME FreedInv, HeapBound, nparts' = Fresh,
         mem' = [mem EXCEPT ![Fresh] = "live"],
         res' = [res EXCEPT ![Fresh] = "open"],
         UNCHANGED frees
  PROVE  FreedInv'
<1>1. Fresh \in Part /\ mem[Fresh] = "unused" /\ nparts' \in Nat
  BY PartFacts DEF FreedInv, HeapBound, Fresh
<1>2. \A q \in Part : q > nparts' => q > nparts /\ q # Fresh
  BY PartFacts DEF FreedInv, Fresh
<1> QED BY <1>1, <1>2 DEF FreedInv, FreedOnce

(* Every step of the request and of its shutdown.                          *)
LEMMA StepOnce ==
  ASSUME FreedInv, [Next]_vars,
         frames \in Seq(Part)
  PROVE  FreedInv'
<1>1. CASE UNCHANGED vars
  BY <1>1 DEF vars, FreedInv, FreedOnce
<1>2. CASE Create
  BY <1>2, AllocOnce DEF Create
<1>3. CASE ParseFileFails
  <2>1. Fresh \in Part /\ Fresh + 1 \in Part /\ nparts' \in Nat
    BY <1>3, HeapAssumption, PartFacts
    DEF ParseFileFails, FreedInv, Fresh, Part
  <2>2. \A q \in Part : q > nparts' => q > nparts /\ q # Fresh /\ q # Fresh + 1
    BY <1>3, PartFacts DEF ParseFileFails, FreedInv, Fresh
  <2> QED BY <1>3, <2>1, <2>2 DEF ParseFileFails, FreedInv, FreedOnce
<1>4. CASE EndExtract
  <2>1. frames[Len(frames)] \in Part
    BY <1>4 DEF EndExtract
  <2> QED BY <1>4, <2>1, DropOnce DEF EndExtract
<1>5. CASE BeginShutdown
  BY <1>5 DEF BeginShutdown, FreedInv, FreedOnce
<1>6. ASSUME NEW p \in Part, Parse(p) PROVE FreedInv'
  BY <1>6, AllocOnce DEF Parse
<1>7. ASSUME NEW p \in Part, NEW c \in Part, GetPart(p, c) PROVE FreedInv'
  BY <1>7 DEF GetPart, FreedInv, FreedOnce
<1>8. ASSUME NEW p \in Part, GetParent(p) PROVE FreedInv'
  BY <1>8 DEF GetParent, FreedInv, FreedOnce
<1>9. ASSUME NEW p \in Part, Release(p) PROVE FreedInv'
  BY <1>9, DropOnce DEF Release
<1>10. ASSUME NEW p \in Part, MsgFree(p) PROVE FreedInv'
  BY <1>10, FreeOnce DEF MsgFree
<1>11. ASSUME NEW p \in Part, RemoveFromParent(p) PROVE FreedInv'
  BY <1>11 DEF RemoveFromParent, FreedInv, FreedOnce
<1>12. ASSUME NEW p \in Part, BeginExtract(p) PROVE FreedInv'
  BY <1>12 DEF BeginExtract, FreedInv, FreedOnce
<1>13. ASSUME NEW p \in Part, ExtractUueFails(p) PROVE FreedInv'
  BY <1>13 DEF ExtractUueFails, FreedInv, FreedOnce
<1>14. CASE CloseNext
  BY <1>14, FreeOnce DEF CloseNext, Unclosed
<1> QED
  BY <1>1, <1>2, <1>3, <1>4, <1>5, <1>6, <1>7, <1>8, <1>9, <1>10, <1>11,
     <1>12, <1>13, <1>14 DEF Next, Running

(* Extractions are of parts.                                               *)
LEMMA StepFrames ==
  ASSUME frames \in Seq(Part), [Next]_vars
  PROVE  frames' \in Seq(Part)
<1>1. ASSUME NEW p \in Part, BeginExtract(p) PROVE frames' \in Seq(Part)
  BY <1>1 DEF BeginExtract
<1>2. CASE EndExtract
  <2>1. Len(frames) \in Nat /\ Len(frames) # 0
    BY <1>2 DEF EndExtract
  <2>2. \A i \in 1 .. Len(frames) - 1 : frames[i] \in Part
    BY <2>1
  <2> QED BY <1>2, <2>1, <2>2 DEF EndExtract
<1>3. CASE UNCHANGED frames
  BY <1>3
<1> QED
  BY <1>1, <1>2, <1>3
  DEF Next, Running, vars, Create, ParseFileFails, BeginShutdown, Parse,
      GetPart, GetParent, Release, MsgFree, RemoveFromParent, ExtractUueFails,
      CloseNext

(* php_mimepart_free runs at most once on every part, and an open resource *)
(* always points to live memory: whatever order user code, callbacks, a    *)
(* failed parse and the shutdown free things in, "the idempotent           *)
(* mimepart_dtor prevents double-free" (php_mimepart_free).                *)
THEOREM PartsFreedOnce == Spec => []FreedOnce
<1> DEFINE Inv == FreedInv /\ frames \in Seq(Part)
<1>1. Init => Inv
  BY PartFacts, HeapAssumption DEF Init, FreedInv, FreedOnce
<1>2. Inv /\ [Next]_vars => Inv'
  BY StepOnce, StepFrames
<1>3. Inv => FreedOnce
  BY DEF FreedInv
<1> QED
  <2> HIDE DEF Inv
  <2> QED BY <1>1, <1>2, <1>3, PTL DEF Spec

-----------------------------------------------------------------------------
(* Who holds the parts, for every number of parts, references and nested   *)
(* extractions: reference counts are exact, and nothing points to a part   *)
(* that has been freed.                                                    *)
Bit(b) == IF b THEN 1 ELSE 0

InTable(c) == \E q \in Part : c \in children[q]

(* The references there are to a part.                                     *)
Counted(p) == held[p] + Bit(InTable(p)) + Bit(InFrames(p)) + Bit(p \in leaked)

(* Tables and counts, in every phase.  A part is in one table at most, and *)
(* in that of an older part; it is extracted once at a time.               *)
TablesOK ==
  /\ \A p, q, c \in Part : c \in children[p] /\ c \in children[q] => p = q
  /\ \A p, c \in Part : c \in children[p] => p < c /\ mem[p] = "live"
CountsOK ==
  /\ \A p \in Part : refs[p] = Counted(p)
  /\ \A p \in Part : refs[p] = 0 <=> res[p] \in {"none", "gone"}
  /\ \A p \in Part : mem[p] = "unused" => res[p] = "none"
FramesOK == \A i, j \in DOMAIN frames : frames[i] = frames[j] => i = j

(* Pointers, while the request runs.                                       *)
LinksOK ==
  /\ \A p, c \in Part : c \in children[p] <=> parent[c] = p
  /\ \A p \in Part : mem[p] # "live" => lastpart[p] = NoPart /\ parent[p] = NoPart
  /\ \A p \in Part : lastpart[p] # NoPart => lastpart[p] \in children[p]
  /\ \A i \in DOMAIN frames : mem[frames[i]] = "live" /\ extracting[frames[i]]

OwnersInv ==
  /\ TypeOK /\ FreedInv /\ TablesOK /\ CountsOK /\ FramesOK
  /\ phase = "running" => LinksOK

-----------------------------------------------------------------------------
(* The parts that die with p: every one but p is in the table of another,  *)
(* which holds its last reference, and p is in the table of none of them.  *)
LEMMA DyingFacts ==
  ASSUME TypeOK, TablesOK, FreedInv, NEW p \in Part
  PROVE  /\ p \in Dying(p) /\ Dying(p) \subseteq Part
         /\ \A q \in Dying(p) : q # p =>
              refs[q] = 1 /\ \E r \in Dying(p) : q \in children[r]
         /\ \A q \in Dying(p) : \A c \in children[q] :
              refs[c] = 1 => c \in Dying(p)
         /\ \A q \in Dying(p) : p \notin children[q]
         /\ \A q \in Dying(p) : children[q] # {} => res[q] = "open"
<1> DEFINE f == [q \in Part |-> {c \in children[q] : refs[c] = 1}]
<1>1. f \in [Part -> SUBSET Part] /\ Dying(p) = Tree(f, p)
  BY DEF TypeOK, Dying
<1>2. \A q \in Part : f[q] = {c \in children[q] : refs[c] = 1}
  OBVIOUS
<1> HIDE DEF f
<1>3. /\ p \in Dying(p) /\ Dying(p) \subseteq Part
      /\ \A q \in Dying(p) : f[q] \subseteq Dying(p)
  BY <1>1, TreeFacts
<1>4. ASSUME NEW q \in Dying(p), q # p
      PROVE  refs[q] = 1 /\ \E r \in Dying(p) : q \in children[r]
  BY <1>1, <1>2, <1>3, <1>4, TreeLinks
<1>5. \A q \in Dying(p) : p <= q
  <2> DEFINE S == {q \in Part : p <= q}
  <2>1. p \in S /\ S \in SUBSET Part
    BY PartFacts
  <2>2. ASSUME NEW r \in S, NEW c \in f[r] PROVE c \in S
    <3>1. c \in Part /\ c \in children[r]
      BY <1>2, <2>2 DEF TypeOK
    <3>2. r < c /\ r \in Nat /\ c \in Nat /\ p \in Nat
      BY <3>1, PartFacts DEF TablesOK
    <3> QED BY <3>1, <3>2
  <2>3. \A r \in S : f[r] \subseteq S
    BY <2>2
  <2>4. Dying(p) \subseteq S
    <3> HIDE DEF S
    <3> QED BY <1>1, <2>1, <2>3, TreeFacts
  <2> QED BY <2>4
<1>6. ASSUME NEW q \in Dying(p), p \in children[q] PROVE FALSE
  <2>1. q < p /\ p <= q /\ q \in Nat /\ p \in Nat
    BY <1>3, <1>5, <1>6, PartFacts DEF TablesOK
  <2> QED BY <2>1
<1>7. ASSUME NEW q \in Dying(p), children[q] # {} PROVE res[q] = "open"
  <2>1. PICK c \in Part : c \in children[q]
    BY <1>3, <1>7 DEF TypeOK
  <2> QED BY <1>3, <2>1 DEF TablesOK, FreedInv, FreedOnce
<1> QED BY <1>2, <1>3, <1>4, <1>6, <1>7

(* php_mimepart_free empties the tables of the parts that die, and leaves  *)
(* every other table as it is.                                             *)
LEMMA FreeTables ==
  ASSUME TypeOK, TablesOK, FreedInv, NEW p \in Part, NEW count, NEW last,
         Free(p, count, last)
  PROVE  /\ \A q \in Part :
              children'[q] = IF q \in Dying(p) THEN {} ELSE children[q]
         /\ \A c \in Part : InTable(c)' <=>
              InTable(c) /\ \A q \in Dying(p) : c \notin children[q]
         /\ TablesOK'
<1>1. ASSUME NEW q \in Part
      PROVE  children'[q] = IF q \in Dying(p) THEN {} ELSE children[q]
  BY DyingFacts DEF Free
<1>2. ASSUME NEW c \in Part, InTable(c)'
      PROVE  InTable(c) /\ \A q \in Dying(p) : c \notin children[q]
  <2>1. PICK r \in Part : c \in children'[r]
    BY <1>2 DEF InTable
  <2>2. r \notin Dying(p) /\ c \in children[r]
    BY <1>1, <2>1
  <2> QED BY <2>2, DyingFacts DEF InTable, TablesOK
<1>3. ASSUME NEW c \in Part, InTable(c),
             \A q \in Dying(p) : c \notin children[q]
      PROVE  InTable(c)'
  <2>1. PICK r \in Part : c \in children[r]
    BY <1>3 DEF InTable
  <2> QED BY <1>1, <1>3, <2>1 DEF InTable
<1>4. TablesOK'
  <2>1. \A q \in Part : q \notin Dying(p) => mem'[q] = mem[q]
    BY DEF Free, TypeOK
  <2>2. \A q, c \in Part : c \in children'[q] =>
          q \notin Dying(p) /\ c \in children[q]
    BY <1>1
  <2> QED BY <2>1, <2>2 DEF TablesOK
<1> QED BY <1>1, <1>2, <1>3, <1>4

(* What is left of the counts when a part is freed, on closing its         *)
(* resource or with its last reference: every part that dies loses the one *)
(* reference it had, and every other child of a dead part loses one of     *)
(* several.                                                                *)
LEMMA FreeCounts ==
  ASSUME TypeOK, TablesOK, FreedInv, CountsOK,
         NEW p \in Part, NEW count \in [Part -> Nat],
         NEW last \in {"closed", "gone"},
         refs[p] > 0,
         count[p] = 0 <=> last = "gone",
         \A q \in Part : q # p => count[q] = refs[q],
         \A q \in Part : count[q] = held'[q] + Bit(InTable(q))
                            + Bit(InFrames(q)') + Bit(q \in leaked'),
         held' \in [Part -> Nat],
         Free(p, count, last)
  PROVE  refs' \in [Part -> Nat] /\ CountsOK'
<1> DEFINE O(q) == \E r \in Dying(p) : q \in children[r]
<1>1. /\ \A q \in Part : refs'[q] = IF O(q) THEN count[q] - 1 ELSE count[q]
      /\ \A q \in Part : res'[q] = IF q = p THEN last
                        ELSE IF q \in Dying(p) THEN "gone" ELSE res[q]
      /\ \A q \in Part : q \notin Dying(p) => mem'[q] = mem[q]
      /\ \A q \in Dying(p) : mem'[q] = mem[q] \/ mem'[q] = "freed"
      /\ refs' = [q \in Part |-> refs'[q]]
  <2>1. \A q \in Part : O(q) <=>
          q \in UNION {children[r] : r \in {s \in Dying(p) : res[s] = "open"}}
    BY DyingFacts
  <2>2. refs' = [q \in Part |-> IF O(q) THEN count[q] - 1 ELSE count[q]]
    BY <2>1 DEF Free
  <2> HIDE DEF O
  <2> QED BY <2>2, DyingFacts DEF Free
<1>2. ASSUME NEW q \in Part, O(q)
      PROVE  q # p /\ InTable(q) /\ ~InTable(q)' /\ count[q] > 0
  <2>1. q # p /\ InTable(q) /\ ~InTable(q)'
    BY <1>2, DyingFacts, FreeTables DEF InTable
  <2>2. /\ held'[q] \in Nat
        /\ Bit(InTable(q)) = 1
        /\ Bit(InFrames(q)') \in Nat /\ Bit(q \in leaked') \in Nat
    BY <2>1 DEF Bit
  <2> DEFINE a == held'[q]
             b == Bit(InTable(q))
             d == Bit(InFrames(q)')
             e == Bit(q \in leaked')
  <2>3. count[q] = a + b + d + e
    OBVIOUS
  <2>4. a \in Nat /\ b = 1 /\ d \in Nat /\ e \in Nat
    BY <2>2
  <2> HIDE DEF a, b, d, e
  <2>5. count[q] > 0
    BY <2>3, <2>4
  <2> QED BY <2>1, <2>5
<1>3. ASSUME NEW q \in Part, ~O(q) PROVE InTable(q)' <=> InTable(q)
  BY <1>3, FreeTables
<1>4. ASSUME NEW q \in Part PROVE refs'[q] \in Nat
  BY <1>1, <1>2 
<1>5. ASSUME NEW q \in Part PROVE refs'[q] = Counted(q)'
  <2>1. /\ held'[q] \in Nat
        /\ Bit(InFrames(q)') \in Nat /\ Bit(q \in leaked') \in Nat
    BY DEF Bit
  <2>2. CASE O(q)
    <3>1. Bit(InTable(q)) = 1 /\ Bit(InTable(q)') = 0
      BY <1>2, <2>2 DEF Bit
    <3> QED BY <1>1, <2>1, <2>2, <3>1 DEF Counted
  <2>3. CASE ~O(q)
    <3>1. Bit(InTable(q)') = Bit(InTable(q))
      BY <1>3, <2>3 DEF Bit
    <3> QED BY <1>1, <2>1, <2>3, <3>1 DEF Counted
  <2> QED BY <2>2, <2>3
<1>6. ASSUME NEW q \in Part
      PROVE  refs'[q] = 0 <=> res'[q] \in {"none", "gone"}
  <2>1. CASE q = p
    BY <1>1, <1>2, <2>1
  <2>2. CASE q # p /\ q \in Dying(p)
    BY <1>1, <2>2, DyingFacts
  <2>3. CASE q # p /\ q \notin Dying(p) /\ O(q)
    <3>1. refs[q] # 1 /\ refs[q] > 0 /\ refs[q] = count[q] /\ refs[q] \in Nat
      BY <1>2, <2>3, DyingFacts DEF TypeOK
    <3> QED BY <1>1, <2>3, <3>1 DEF CountsOK
  <2>4. CASE q # p /\ q \notin Dying(p) /\ ~O(q)
    BY <1>1, <2>4 DEF CountsOK
  <2> QED BY <2>1, <2>2, <2>3, <2>4
<1>7. ASSUME NEW q \in Part, mem'[q] = "unused" PROVE res'[q] = "none"
  <2>1. mem[q] = "unused" /\ res[q] = "none" /\ refs[q] = 0
    BY <1>1, <1>7 DEF CountsOK
  <2>2. q # p /\ q \notin Dying(p)
    BY <2>1, DyingFacts
  <2> QED BY <1>1, <2>1, <2>2
<1>8. refs' \in [Part -> Nat]
  BY <1>1, <1>4
<1> QED BY <1>5, <1>6, <1>7, <1>8 DEF CountsOK

(* What a small count says of the references there are.                    *)
LEMMA CountedFacts ==
  ASSUME TypeOK, CountsOK, NEW q \in Part
  PROVE  /\ held[q] > 0 \/ InTable(q) \/ InFrames(q) \/ q \in leaked
              <=> refs[q] # 0
         /\ refs[q] = 1 /\ held[q] > 0 =>
              held[q] = 1 /\ ~InTable(q) /\ ~InFrames(q) /\ q \notin leaked
         /\ refs[q] = 1 /\ InTable(q) =>
              held[q] = 0 /\ ~InFrames(q) /\ q \notin leaked
         /\ refs[q] = 1 /\ InFrames(q) =>
              held[q] = 0 /\ ~InTable(q) /\ q \notin leaked
<1> DEFINE a == held[q]
           b == Bit(InTable(q))
           d == Bit(InFrames(q))
           e == Bit(q \in leaked)
<1>1. refs[q] = a + b + d + e
  BY DEF CountsOK, Counted
<1>2. a \in Nat /\ b \in {0, 1} /\ d \in {0, 1} /\ e \in {0, 1}
  BY DEF Bit, TypeOK
<1>3. /\ b = 1 <=> InTable(q)
      /\ d = 1 <=> InFrames(q)
      /\ e = 1 <=> q \in leaked
  BY DEF Bit
<1>4. /\ a > 0 \/ b = 1 \/ d = 1 \/ e = 1 <=> refs[q] # 0
      /\ refs[q] = 1 /\ a > 0 => a = 1 /\ b # 1 /\ d # 1 /\ e # 1
      /\ refs[q] = 1 /\ b = 1 => a = 0 /\ d # 1 /\ e # 1
      /\ refs[q] = 1 /\ d = 1 => a = 0 /\ b # 1 /\ e # 1
  <2> HIDE DEF a, b, d, e
  <2> QED BY <1>1, <1>2
<1> QED BY <1>3, <1>4

(* A part that dies with another one has no reference of user code and is  *)
(* not being extracted: the table holds its only reference.                *)
LEMMA DyingUnused ==
  ASSUME TypeOK, TablesOK, FreedInv, CountsOK, NEW p \in Part,
         NEW q \in Dying(p), q # p
  PROVE  held[q] = 0 /\ ~InFrames(q)
<1>1. q \in Part /\ refs[q] = 1 /\ InTable(q)
  BY DyingFacts DEF InTable
<1> QED BY <1>1, CountedFacts

(* Freeing a part that is in no table leaves no pointer to what is freed.  *)
LEMMA FreeLinks ==
  ASSUME TypeOK, TablesOK, FreedInv, LinksOK, NEW p \in Part, NEW count,
         NEW last, Free(p, count, last),
         parent[p] = NoPart,
         \A i \in DOMAIN frames' :
           /\ mem[frames'[i]] = "live" /\ extracting'[frames'[i]]
           /\ frames'[i] \in Part \ Dying(p)
  PROVE  LinksOK'
<1> DEFINE freed == {q \in Dying(p) : res[q] = "open"}
           O(q) == \E r \in Dying(p) : q \in children[r]
<1>1. /\ \A q \in Part : mem'[q] = IF q \in freed THEN "freed" ELSE mem[q]
      /\ \A q \in Part : lastpart'[q] =
           IF q \in freed THEN NoPart ELSE lastpart[q]
      /\ \A q \in Part : parent'[q] =
           IF q \in freed \/ (O(q) /\ res[q] = "open")
           THEN NoPart ELSE parent[q]
  <2>1. \A q \in Part : O(q) <=>
          q \in UNION {children[r] : r \in {s \in Dying(p) : res[s] = "open"}}
    BY DyingFacts
  <2> HIDE DEF O
  <2> QED BY <2>1 DEF Free
<1>2. \A q \in Part : children'[q] = IF q \in Dying(p) THEN {} ELSE children[q]
  BY FreeTables
<1>3. \A q \in Dying(p) : q \in Part /\ (q \notin freed => mem[q] # "live")
  BY DyingFacts DEF FreedInv, FreedOnce
<1>4. ASSUME NEW r \in Part, NEW c \in Part, c \in children'[r]
      PROVE  parent'[c] = r
  <2>1. r \notin Dying(p) /\ c \in children[r] /\ parent[c] = r
    BY <1>2, <1>4 DEF LinksOK
  <2>2. ~O(c)
    BY <2>1, DyingFacts DEF TablesOK
  <2>3. c # p
    BY <2>1, PartFacts
  <2>4. c \notin Dying(p)
    BY <2>2, <2>3, DyingFacts
  <2> QED BY <1>1, <2>1, <2>2, <2>4
<1>5. ASSUME NEW r \in Part, NEW c \in Part, parent'[c] = r
      PROVE  c \in children'[r]
  <2>1. parent[c] = r /\ ~(O(c) /\ res[c] = "open")
    BY <1>1, <1>5, PartFacts
  <2>2. c \in children[r] /\ mem[c] = "live" /\ res[c] = "open"
    BY <2>1, PartFacts DEF LinksOK, FreedInv, FreedOnce
  <2> QED BY <1>2, <2>1, <2>2
<1>6. ASSUME NEW q \in Part, mem'[q] # "live"
      PROVE  lastpart'[q] = NoPart /\ parent'[q] = NoPart
  BY <1>1, <1>6 DEF LinksOK
<1>7. ASSUME NEW q \in Part, lastpart'[q] # NoPart
      PROVE  lastpart'[q] \in children'[q]
  <2>1. q \notin freed /\ lastpart'[q] = lastpart[q]
    BY <1>1, <1>7
  <2>2. q \notin Dying(p)
    BY <1>3, <1>7, <2>1 DEF LinksOK
  <2> QED BY <1>2, <1>7, <2>1, <2>2 DEF LinksOK
<1>8. ASSUME NEW i \in DOMAIN frames'
      PROVE  mem'[frames'[i]] = "live" /\ extracting'[frames'[i]]
  BY <1>1
<1> QED BY <1>4, <1>5, <1>6, <1>7, <1>8 DEF LinksOK

(* php_mimepart_free keeps the invariant: of a part that no table and no   *)
(* extraction refers to while the request runs, and of any part at its     *)
(* end.                                                                    *)
LEMMA FreeOwners ==
  ASSUME OwnersInv, NEW p \in Part, NEW count \in [Part -> Nat],
         NEW last \in {"closed", "gone"},
         refs[p] > 0,
         count[p] = 0 <=> last = "gone",
         \A q \in Part : q # p => count[q] = refs[q],
         \A q \in Part : count[q] = held'[q] + Bit(InTable(q))
                            + Bit(InFrames(q)') + Bit(q \in leaked'),
         held' \in [Part -> Nat],
         Free(p, count, last),
         UNCHANGED <<nparts, phase, leaked>>,
         extracting' \in [Part -> BOOLEAN], frames' \in Seq(Part),
         \A i \in DOMAIN frames' :
           /\ i \in DOMAIN frames /\ frames'[i] = frames[i]
           /\ phase = "running" =>
                frames'[i] # p /\ extracting'[frames'[i]] = extracting[frames[i]],
         phase = "running" => parent[p] = NoPart
  PROVE  OwnersInv'
<1> USE DEF OwnersInv
<1>1. FreedInv'
  BY FreeOnce
<1>2. TablesOK'
  BY FreeTables
<1>3. CountsOK' /\ refs' \in [Part -> Nat]
  BY FreeCounts
<1>4. FramesOK'
  BY DEF FramesOK
<1>5. TypeOK'
  <2>1. /\ parent' \in [Part -> Part \cup {NoPart}]
        /\ children' \in [Part -> SUBSET Part]
        /\ lastpart' \in [Part -> Part \cup {NoPart}]
    BY DEF Free, TypeOK
  <2> QED BY <1>1, <1>3, <2>1 DEF TypeOK, FreedInv
<1>6. phase' = "running" => LinksOK'
  <2> SUFFICES ASSUME phase = "running" PROVE LinksOK'
    OBVIOUS
  <2>1. ASSUME NEW i \in DOMAIN frames'
        PROVE  /\ mem[frames'[i]] = "live" /\ extracting'[frames'[i]]
               /\ frames'[i] \in Part \ Dying(p)
    <3>1. frames'[i] = frames[i] /\ i \in DOMAIN frames /\ frames[i] # p
      OBVIOUS
    <3>2. frames[i] \in Part /\ InFrames(frames[i])
      BY <3>1 DEF InFrames, TypeOK
    <3>3. frames[i] \notin Dying(p)
      BY <3>1, <3>2, DyingUnused
    <3> QED BY <3>1, <3>2, <3>3 DEF LinksOK
  <2> QED BY <2>1, FreeLinks
<1> QED BY <1>1, <1>2, <1>3, <1>4, <1>5, <1>6

(* Dropping a reference keeps it: of user code or of an extraction.        *)
LEMMA DropOwners ==
  ASSUME OwnersInv, phase = "running", NEW p \in Part, DropReference(p),
         refs[p] > 0,
         \A q \in Part :
           (IF q = p THEN refs[q] - 1 ELSE refs[q])
              = held'[q] + Bit(InTable(q)) + Bit(InFrames(q)') + Bit(q \in leaked),
         held' \in [Part -> Nat],
         UNCHANGED <<nparts, phase, leaked>>,
         extracting' \in [Part -> BOOLEAN], frames' \in Seq(Part),
         \A i \in DOMAIN frames' :
           /\ i \in DOMAIN frames /\ frames'[i] = frames[i]
           /\ extracting'[frames'[i]] = extracting[frames[i]]
           /\ refs[p] = 1 => frames'[i] # p,
         refs[p] = 1 => ~InTable(p)
  PROVE  OwnersInv'
<1> DEFINE count == [refs EXCEPT ![p] = @ - 1]
<1> USE DEF OwnersInv
<1>1. /\ count \in [Part -> Nat]
      /\ \A q \in Part : count[q] = IF q = p THEN refs[q] - 1 ELSE refs[q]
  BY DEF TypeOK
<1>2. CASE count[p] = 0
  <2>1. refs[p] = 1
    BY <1>1, <1>2 DEF TypeOK
  <2>2. Free(p, count, "gone")
    BY <1>2 DEF DropReference
  <2>3. parent[p] = NoPart
    BY <2>1 DEF LinksOK, InTable, TypeOK
  <2> HIDE DEF count, OwnersInv
  <2>4. \A q \in Part : count[q] = held'[q] + Bit(InTable(q))
                            + Bit(InFrames(q)') + Bit(q \in leaked')
    BY <1>1
  <2>5. \A q \in Part : q # p => count[q] = refs[q]
    BY <1>1
  <2>6. \A i \in DOMAIN frames' :
           /\ i \in DOMAIN frames /\ frames'[i] = frames[i]
           /\ phase = "running" =>
                frames'[i] # p /\ extracting'[frames'[i]] = extracting[frames[i]]
    BY <2>1
  <2>7. count[p] = 0 <=> "gone" = "gone"
    BY <1>2
  <2> QED BY <1>1, <2>2, <2>3, <2>4, <2>5, <2>6, <2>7, FreeOwners
<1>3. CASE count[p] # 0
  <2>1. refs' = count /\ UNCHANGED <<mem, res, linkVars, frees>>
    BY <1>3 DEF DropReference
  <2>2. FreedInv'
    BY <2>1 DEF FreedInv, FreedOnce
  <2>3. TablesOK' /\ FramesOK'
    BY <2>1 DEF TablesOK, FramesOK, linkVars
  <2>4. TypeOK'
    BY <1>1, <2>1 DEF TypeOK, linkVars
  <2>5. CountsOK'
    <3> HIDE DEF count
    <3>1. ASSUME NEW q \in Part PROVE refs'[q] = Counted(q)'
      <4>1. InTable(q)' <=> InTable(q)
        BY <2>1 DEF linkVars, InTable
      <4>2. Bit(InTable(q)') = Bit(InTable(q))
        BY <4>1 DEF Bit
      <4> QED BY <1>1, <2>1, <4>2 DEF Counted
    <3>2. ASSUME NEW q \in Part
          PROVE  refs'[q] = 0 <=> res'[q] \in {"none", "gone"}
      BY <1>1, <1>3, <2>1 DEF CountsOK
    <3> QED BY <2>1, <3>1, <3>2 DEF CountsOK
  <2>6. LinksOK'
    BY <2>1 DEF LinksOK, linkVars
  <2> QED BY <2>2, <2>3, <2>4, <2>5, <2>6
<1> QED BY <1>2, <1>3

(* A number that is not allocated yet has no pointers and no references.   *)
LEMMA FreshUnused ==
  ASSUME OwnersInv, NEW p \in Part, p > nparts
  PROVE  /\ refs[p] = 0 /\ held[p] = 0 /\ mem[p] = "unused"
         /\ ~InTable(p) /\ ~InFrames(p) /\ p \notin leaked
         /\ children[p] = {}
         /\ phase = "running" =>
              /\ parent[p] = NoPart /\ lastpart[p] = NoPart
              /\ \A q \in Part : parent[q] # p
<1>1. mem[p] = "unused" /\ res[p] = "none" /\ refs[p] = 0
  BY DEF OwnersInv, FreedInv, CountsOK
<1>2. held[p] = 0 /\ ~InTable(p) /\ ~InFrames(p) /\ p \notin leaked
  BY <1>1, CountedFacts DEF OwnersInv, TypeOK
<1>3. children[p] = {}
  BY <1>1 DEF OwnersInv, TablesOK, TypeOK
<1> QED BY <1>1, <1>2, <1>3 DEF OwnersInv, LinksOK

-----------------------------------------------------------------------------
(* The steps that give a reference, one lemma for each kind.               *)
LEMMA CreateOwners ==
  ASSUME OwnersInv, phase = "running", Create
  PROVE  OwnersInv'
<1> USE DEF OwnersInv
<1>1. Fresh \in Part /\ Fresh > nparts /\ Fresh \in Nat
  BY PartFacts DEF Create, HeapBound, Fresh, FreedInv
<1>2. /\ held[Fresh] = 0 /\ ~InTable(Fresh) /\ ~InFrames(Fresh)
      /\ Fresh \notin leaked /\ mem[Fresh] = "unused"
  BY <1>1, FreshUnused
<1>3. FreedInv'
  BY AllocOnce DEF Create
<1>4. TablesOK' /\ FramesOK'
  BY <1>2 DEF Create, TablesOK, FramesOK, linkVars, TypeOK
<1>5. CountsOK'
  <2>1. ASSUME NEW q \in Part PROVE refs'[q] = Counted(q)'
    <3>1. /\ Bit(InTable(q)') = Bit(InTable(q))
          /\ Bit(InFrames(q)') = Bit(InFrames(q))
          /\ Bit(q \in leaked') = Bit(q \in leaked)
      BY DEF Create, linkVars, InTable, InFrames
    <3>2. CASE q = Fresh
      <4>1. /\ Bit(InTable(q)') = 0 /\ Bit(InFrames(q)') = 0
            /\ Bit(q \in leaked') = 0
        BY <1>2, <3>1, <3>2 DEF Bit
      <4>2. refs'[q] = 1 /\ held'[q] = 1
        BY <1>1, <3>2 DEF Create, TypeOK
      <4> QED BY <4>1, <4>2 DEF Counted
    <3>3. CASE q # Fresh
      <4>1. refs'[q] = refs[q] /\ held'[q] = held[q]
        BY <1>1, <3>3 DEF Create, TypeOK
      <4> QED BY <3>1, <4>1 DEF Counted, CountsOK
    <3> QED BY <3>2, <3>3
  <2>2. /\ \A q \in Part : refs'[q] = 0 <=> res'[q] \in {"none", "gone"}
        /\ \A q \in Part : mem'[q] = "unused" => res'[q] = "none"
    BY <1>1 DEF Create, TypeOK, CountsOK
  <2> QED BY <2>1, <2>2 DEF CountsOK
<1>6. LinksOK'
  BY <1>2 DEF LinksOK, Create, linkVars, TypeOK
<1>7. TypeOK'
  <2>1. nparts' \in 0 .. MaxAlloc
    BY <1>1 DEF Create, Part
  <2> QED BY <1>1, <1>3, <2>1 DEF TypeOK, FreedInv, Create, linkVars
<1> QED BY <1>3, <1>4, <1>5, <1>6, <1>7

LEMMA FailOwners ==
  ASSUME OwnersInv, phase = "running", ParseFileFails
  PROVE  OwnersInv'
<1> USE DEF OwnersInv
<1> DEFINE child == Fresh + 1
<1>1. /\ Fresh \in Part /\ child \in Part /\ Fresh \in Nat /\ Fresh # child
      /\ Fresh > nparts /\ child > nparts /\ child = nparts + 2
  BY HeapAssumption, PartFacts DEF ParseFileFails, FreedInv, Fresh, Part
<1> HIDE DEF child
<1>2. \A p \in {Fresh, child} :
        /\ refs[p] = 0 /\ held[p] = 0 /\ ~InTable(p) /\ ~InFrames(p)
        /\ p \notin leaked
        /\ mem[p] = "unused" /\ children[p] = {}
  BY <1>1, FreshUnused
<1>3. /\ nparts' = child
      /\ mem' = [mem EXCEPT ![Fresh] = "freed", ![child] = "freed"]
      /\ frees' = [frees EXCEPT ![Fresh] = 1, ![child] = 1]
      /\ res' = [res EXCEPT ![Fresh] = "null", ![child] = "gone"]
      /\ refs' = [refs EXCEPT ![Fresh] = 1]
      /\ leaked' = leaked \cup {Fresh}
      /\ UNCHANGED <<parent, children, lastpart, extracting, held, frames, phase>>
  BY DEF ParseFileFails, child, linkVars
<1>4. FreedInv'
  <2>1. frames \in Seq(Part) /\ [Next]_vars
    BY DEF Next, Running, TypeOK
  <2> QED BY <2>1, StepOnce
<1>5. TablesOK' /\ FramesOK'
  BY <1>1, <1>2, <1>3 DEF TablesOK, FramesOK, TypeOK
<1>6. CountsOK'
  <2>1. ASSUME NEW q \in Part PROVE refs'[q] = Counted(q)'
    <3>1. /\ Bit(InTable(q)') = Bit(InTable(q))
          /\ Bit(InFrames(q)') = Bit(InFrames(q))
          /\ held'[q] = held[q]
      BY <1>3 DEF InTable, InFrames
    <3>2. CASE q = Fresh
      <4>1. /\ Bit(InTable(q)') = 0 /\ Bit(InFrames(q)') = 0
            /\ Bit(q \in leaked') = 1 /\ held'[q] = 0
        BY <1>2, <1>3, <3>1, <3>2 DEF Bit
      <4>2. refs'[q] = 1
        BY <1>1, <1>3, <3>2 DEF TypeOK
      <4> QED BY <4>1, <4>2 DEF Counted
    <3>3. CASE q # Fresh
      <4>1. refs'[q] = refs[q] /\ Bit(q \in leaked') = Bit(q \in leaked)
        BY <1>1, <1>3, <3>3 DEF TypeOK
      <4> QED BY <3>1, <4>1 DEF Counted, CountsOK
    <3> QED BY <3>2, <3>3
  <2>2. ASSUME NEW q \in Part
        PROVE  /\ refs'[q] = 0 <=> res'[q] \in {"none", "gone"}
               /\ mem'[q] = "unused" => res'[q] = "none"
    <3>1. CASE q = Fresh
      BY <1>1, <1>3, <3>1 DEF TypeOK
    <3>2. CASE q = child
      BY <1>1, <1>2, <1>3, <3>2 DEF TypeOK
    <3>3. CASE q \notin {Fresh, child}
      BY <1>3, <3>3 DEF TypeOK, CountsOK
    <3> QED BY <3>1, <3>2, <3>3
  <2> QED BY <2>1, <2>2 DEF CountsOK
<1>7. LinksOK'
  <2>1. \A q \in Part : mem[q] = "live" <=> mem'[q] = "live"
    BY <1>1, <1>2, <1>3 DEF TypeOK
  <2>2. \A i \in DOMAIN frames : frames[i] \in Part
    BY DEF TypeOK
  <2> QED BY <1>3, <2>1, <2>2 DEF LinksOK
<1>8. TypeOK'
  <2>1. nparts' \in 0 .. MaxAlloc
    BY <1>1, <1>3 DEF Part
  <2> QED BY <1>1, <1>3, <1>4, <2>1 DEF TypeOK, FreedInv
<1> QED BY <1>4, <1>5, <1>6, <1>7, <1>8

LEMMA ParseOwners ==
  ASSUME OwnersInv, phase = "running", NEW h \in Part, Parse(h)
  PROVE  OwnersInv'
<1> USE DEF OwnersInv
<1>1. Fresh \in Part /\ Fresh > nparts /\ Fresh \in Nat
  BY PartFacts DEF Parse, HeapBound, Fresh, FreedInv
<1>2. /\ held[Fresh] = 0 /\ ~InTable(Fresh) /\ ~InFrames(Fresh)
      /\ Fresh \notin leaked /\ mem[Fresh] = "unused" /\ children[Fresh] = {}
      /\ parent[Fresh] = NoPart /\ lastpart[Fresh] = NoPart
      /\ \A q \in Part : parent[q] # Fresh
  BY <1>1, FreshUnused
<1>3. PICK w \in Down(h) :
        /\ parent' = [parent EXCEPT ![Fresh] = w]
        /\ lastpart' = [lastpart EXCEPT ![w] = Fresh]
        /\ children' = [children EXCEPT ![w] = @ \cup {Fresh}]
  BY DEF Parse
<1>4. w \in Part /\ mem[w] = "live"
  <2> DEFINE S == {q \in Part : mem[q] = "live"}
  <2>1. S \in SUBSET Part /\ h \in S
    BY DEF Parse, Fetched, FreedInv, FreedOnce
  <2>2. ASSUME NEW r \in S, lastpart[r] # NoPart PROVE lastpart[r] \in S
    <3>1. lastpart[r] \in Part /\ parent[lastpart[r]] = r /\ r \in Part
      BY <2>2 DEF LinksOK, TypeOK
    <3>2. parent[lastpart[r]] # NoPart
      BY <3>1, PartFacts
    <3>3. mem[lastpart[r]] = "live"
      BY <3>1, <3>2 DEF LinksOK
    <3> QED BY <3>1, <3>3
  <2>3. \A r \in S : lastpart[r] \in S \cup {NoPart}
    BY <2>2
  <2>4. lastpart \in [Part -> Part \cup {NoPart}]
    BY DEF TypeOK
  <2>5. Closure(lastpart, h) \subseteq S
    <3> HIDE DEF S
    <3> QED BY <2>1, <2>3, <2>4, ClosureFacts
  <2> QED BY <1>3, <2>5 DEF Down
<1>5. w # Fresh /\ w < Fresh
  BY <1>1, <1>2, <1>4, PartFacts DEF FreedInv, Fresh
<1>6. /\ nparts' = Fresh
      /\ mem' = [mem EXCEPT ![Fresh] = "live"]
      /\ res' = [res EXCEPT ![Fresh] = "open"]
      /\ refs' = [refs EXCEPT ![Fresh] = 1]
      /\ UNCHANGED <<extracting, held, frames, frees, phase, leaked>>
  BY DEF Parse
<1>7. FreedInv'
  BY <1>6, AllocOnce DEF Parse
<1>8. \A r, c \in Part : c \in children'[r] <=>
        c \in children[r] \/ (r = w /\ c = Fresh)
  BY <1>1, <1>3, <1>4 DEF TypeOK
<1>9. TablesOK'
  <2>1. \A r, c \in Part : c \in children'[r] => r < c /\ mem'[r] = "live"
    <3>1. \A r \in Part : mem[r] = "live" => mem'[r] = "live"
      BY <1>1, <1>6 DEF TypeOK
    <3>2. mem'[w] = "live"
      BY <1>4, <3>1
    <3>3. ASSUME NEW r \in Part, NEW c \in Part, c \in children[r]
          PROVE  r < c /\ mem'[r] = "live"
      BY <3>1, <3>3 DEF TablesOK
    <3> QED BY <1>5, <1>8, <3>2, <3>3
  <2>2. \A r, q, c \in Part : c \in children'[r] /\ c \in children'[q] => r = q
    BY <1>2, <1>8 DEF TablesOK, InTable
  <2> QED BY <2>1, <2>2 DEF TablesOK
<1>10. FramesOK'
  BY <1>6 DEF FramesOK
<1>11. CountsOK'
  <2>1. ASSUME NEW q \in Part PROVE refs'[q] = Counted(q)'
    <3>1. /\ Bit(InFrames(q)') = Bit(InFrames(q)) /\ held'[q] = held[q]
          /\ Bit(q \in leaked') = Bit(q \in leaked)
      BY <1>6 DEF InFrames
    <3>2. CASE q = Fresh
      <4>1. InTable(q)'
        BY <1>1, <1>4, <1>8, <3>2 DEF InTable
      <4>2. /\ Bit(InTable(q)') = 1 /\ Bit(InFrames(q)') = 0
            /\ Bit(q \in leaked') = 0 /\ held'[q] = 0
        BY <1>2, <3>1, <3>2, <4>1 DEF Bit
      <4>3. refs'[q] = 1
        BY <1>1, <1>6, <3>2 DEF TypeOK
      <4> QED BY <4>2, <4>3 DEF Counted
    <3>3. CASE q # Fresh
      <4>1. InTable(q)' <=> InTable(q)
        BY <1>8, <3>3 DEF InTable
      <4>2. Bit(InTable(q)') = Bit(InTable(q))
        BY <4>1 DEF Bit
      <4>3. refs'[q] = refs[q]
        BY <1>1, <1>6, <3>3 DEF TypeOK
      <4> QED BY <3>1, <4>2, <4>3 DEF Counted, CountsOK
    <3> QED BY <3>2, <3>3
  <2>2. /\ \A q \in Part : refs'[q] = 0 <=> res'[q] \in {"none", "gone"}
        /\ \A q \in Part : mem'[q] = "unused" => res'[q] = "none"
    BY <1>1, <1>6 DEF TypeOK, CountsOK
  <2> QED BY <2>1, <2>2 DEF CountsOK
<1>12. LinksOK'
  <2>1. \A r, c \in Part : c \in children'[r] <=> parent'[c] = r
    <3> SUFFICES ASSUME NEW r \in Part, NEW c \in Part
                 PROVE  c \in children'[r] <=> parent'[c] = r
      OBVIOUS
    <3>1. CASE c = Fresh
      <4>1. parent'[c] = w /\ c \notin children[r]
        BY <1>1, <1>2, <1>3, <3>1 DEF InTable, TypeOK
      <4> QED BY <1>8, <3>1, <4>1
    <3>2. CASE c # Fresh
      <4>1. parent'[c] = parent[c]
        BY <1>3, <3>2 DEF TypeOK
      <4> QED BY <1>8, <3>2, <4>1 DEF LinksOK
    <3> QED BY <3>1, <3>2
  <2>2. \A q \in Part : mem'[q] # "live" =>
          lastpart'[q] = NoPart /\ parent'[q] = NoPart
    BY <1>1, <1>3, <1>4, <1>6 DEF LinksOK, TypeOK
  <2>3. \A q \in Part : lastpart'[q] # NoPart => lastpart'[q] \in children'[q]
    BY <1>1, <1>3, <1>4, <1>8 DEF LinksOK, TypeOK
  <2>4. \A i \in DOMAIN frames' :
          mem'[frames'[i]] = "live" /\ extracting'[frames'[i]]
    BY <1>2, <1>6 DEF LinksOK, TypeOK
  <2> QED BY <2>1, <2>2, <2>3, <2>4 DEF LinksOK
<1>13. TypeOK'
  <2>1. nparts' \in 0 .. MaxAlloc
    BY <1>1, <1>6 DEF Part
  <2>2. /\ parent' \in [Part -> Part \cup {NoPart}]
        /\ children' \in [Part -> SUBSET Part]
        /\ lastpart' \in [Part -> Part \cup {NoPart}]
    BY <1>1, <1>3, <1>4 DEF TypeOK
  <2> QED BY <1>1, <1>6, <1>7, <2>1, <2>2 DEF TypeOK, FreedInv
<1> QED BY <1>7, <1>9, <1>10, <1>11, <1>12, <1>13

(* A reference to a part of the tree is copied to user code.               *)
LEMMA GiveOwners ==
  ASSUME OwnersInv, NEW c \in Part, res[c] = "open",
         refs' = [refs EXCEPT ![c] = @ + 1],
         held' = [held EXCEPT ![c] = @ + 1],
         UNCHANGED <<nparts, mem, res, linkVars, extracting, frames, frees,
                     phase, leaked>>
  PROVE  OwnersInv'
<1> USE DEF OwnersInv
<1>1. FreedInv' /\ TablesOK' /\ FramesOK'
  BY DEF FreedInv, FreedOnce, TablesOK, FramesOK, linkVars
<1>2. TypeOK' /\ (phase' = "running" => LinksOK')
  BY DEF TypeOK, LinksOK, linkVars
<1>3. CountsOK'
  <2>1. ASSUME NEW q \in Part PROVE refs'[q] = Counted(q)'
    <3>1. InTable(q)' = InTable(q) /\ InFrames(q)' = InFrames(q)
      BY DEF InTable, InFrames, linkVars
    <3> DEFINE b == Bit(InTable(q))
               d == Bit(InFrames(q))
               e == Bit(q \in leaked)
    <3>2. refs[q] = held[q] + b + d + e /\ Counted(q)' = held'[q] + b + d + e
      BY <3>1 DEF CountsOK, Counted
    <3>3. /\ held[q] \in Nat /\ b \in Nat /\ d \in Nat /\ e \in Nat
          /\ refs[q] \in Nat
      BY DEF Bit, TypeOK
    <3>4. refs'[q] - refs[q] = held'[q] - held[q] /\ held'[q] \in Nat /\ refs'[q] \in Nat
      BY DEF TypeOK
    <3> HIDE DEF b, d, e
    <3> QED BY <3>2, <3>3, <3>4
  <2>2. \A q \in Part : refs'[q] = 0 <=> res'[q] \in {"none", "gone"}
    BY DEF CountsOK, TypeOK
  <2> QED BY <2>1, <2>2 DEF CountsOK
<1> QED BY <1>1, <1>2, <1>3

(* A child leaves its parent, whose table drops its reference: user code   *)
(* still has another.                                                      *)
LEMMA RemoveOwners ==
  ASSUME OwnersInv, phase = "running", NEW c \in Part, RemoveFromParent(c)
  PROVE  OwnersInv'
<1> USE DEF OwnersInv
<1> DEFINE p == parent[c]
<1>1. /\ p \in Part /\ held[c] > 0 /\ res[c] = "open" /\ mem[c] = "live"
      /\ parent' = [parent EXCEPT ![c] = NoPart]
      /\ lastpart' = [lastpart EXCEPT ![p] = IF @ = c THEN NoPart ELSE @]
      /\ children' = [children EXCEPT ![p] = @ \ {c}]
      /\ refs' = [refs EXCEPT ![c] = @ - 1]
      /\ UNCHANGED <<nparts, mem, res, extracting, held, frames, frees,
                     phase, leaked>>
  BY DEF RemoveFromParent, Fetched, TypeOK, FreedInv, FreedOnce
<1>2. c \in children[p] /\ InTable(c) /\ refs[c] # 1 /\ refs[c] # 0
  BY <1>1, CountedFacts DEF LinksOK, InTable, TypeOK
<1> HIDE DEF p
<1>3. FreedInv' /\ FramesOK'
  BY <1>1 DEF FreedInv, FreedOnce, FramesOK
<1>4. \A r, k \in Part : k \in children'[r] <=> k \in children[r] /\ k # c
  BY <1>1, <1>2 DEF TypeOK, TablesOK
<1>5. TablesOK'
  BY <1>1, <1>4 DEF TablesOK
<1>6. CountsOK'
  <2>1. ASSUME NEW q \in Part PROVE refs'[q] = Counted(q)'
    <3> DEFINE a == held[q]
               b == Bit(InTable(q))
               d == Bit(InFrames(q))
               e == Bit(q \in leaked)
    <3>1. /\ refs[q] = a + b + d + e
          /\ Counted(q)' = a + Bit(InTable(q)') + d + e
      BY <1>1 DEF CountsOK, Counted, InFrames
    <3>2. /\ a \in Nat /\ b \in Nat /\ d \in Nat /\ e \in Nat
          /\ refs[q] \in Nat
      BY DEF Bit, TypeOK
    <3>3. CASE q = c
      <4>1. ~InTable(q)'
        BY <1>4, <3>3 DEF InTable
      <4>2. Bit(InTable(q)') = 0 /\ b = 1 /\ refs'[q] = refs[q] - 1
        BY <1>1, <1>2, <3>3, <4>1 DEF Bit, TypeOK
      <4> HIDE DEF a, b, d, e
      <4> QED BY <3>1, <3>2, <4>2
    <3>4. CASE q # c
      <4>1. InTable(q)' <=> InTable(q)
        BY <1>4, <3>4 DEF InTable
      <4>2. Bit(InTable(q)') = b /\ refs'[q] = refs[q]
        BY <1>1, <3>4, <4>1 DEF Bit, TypeOK
      <4> QED BY <3>1, <4>2
    <3> QED BY <3>3, <3>4
  <2>2. \A q \in Part : refs'[q] = 0 <=> res'[q] \in {"none", "gone"}
    BY <1>1, <1>2 DEF CountsOK, TypeOK
  <2> QED BY <1>1, <2>1, <2>2 DEF CountsOK
<1>7. LinksOK'
  <2>1. \A r, k \in Part : k \in children'[r] <=> parent'[k] = r
    BY <1>1, <1>4, PartFacts DEF LinksOK, TypeOK
  <2>2. \A q \in Part : mem'[q] # "live" =>
          lastpart'[q] = NoPart /\ parent'[q] = NoPart
    BY <1>1 DEF LinksOK, TypeOK
  <2>3. ASSUME NEW q \in Part, lastpart'[q] # NoPart
        PROVE  lastpart'[q] \in children'[q]
    <3>1. /\ lastpart'[q] = lastpart[q] /\ lastpart[q] \in children[q]
          /\ q = p => lastpart[q] # c
      BY <1>1, <2>3 DEF LinksOK, TypeOK
    <3>2. lastpart[q] # c /\ lastpart[q] \in Part
      BY <1>1, <1>2, <3>1 DEF TablesOK, TypeOK
    <3> QED BY <1>4, <3>1, <3>2
  <2> QED BY <1>1, <2>1, <2>2, <2>3 DEF LinksOK
<1>8. TypeOK'
  <2>1. refs' \in [Part -> Nat]
    BY <1>1, <1>2 DEF TypeOK
  <2> QED BY <1>1, <2>1 DEF TypeOK
<1> QED BY <1>3, <1>5, <1>6, <1>7, <1>8

(* An extraction begins with a reference of its own.                       *)
LEMMA BeginOwners ==
  ASSUME OwnersInv, phase = "running", NEW p \in Part, BeginExtract(p)
  PROVE  OwnersInv'
<1> USE DEF OwnersInv
<1> DEFINE n == Len(frames)
<1>1. /\ res[p] = "open" /\ mem[p] = "live" /\ ~extracting[p]
      /\ extracting' = [extracting EXCEPT ![p] = TRUE]
      /\ frames' = Append(frames, p)
      /\ refs' = [refs EXCEPT ![p] = @ + 1]
      /\ UNCHANGED <<nparts, mem, res, parent, children, lastpart, held,
                     frees, phase, leaked>>
  BY DEF BeginExtract, Fetched, FreedInv, FreedOnce, linkVars
<1>2. /\ frames \in Seq(Part) /\ n \in Nat
      /\ DOMAIN frames = 1 .. n /\ DOMAIN frames' = 1 .. n + 1
      /\ frames'[n + 1] = p
      /\ \A i \in 1 .. n : frames'[i] = frames[i] /\ frames[i] \in Part
      /\ frames' \in Seq(Part)
  BY <1>1 DEF TypeOK
<1>3. \A i \in 1 .. n : frames[i] # p
  BY <1>1, <1>2 DEF LinksOK
<1> HIDE DEF n
<1>4. FreedInv' /\ TablesOK'
  BY <1>1 DEF FreedInv, FreedOnce, TablesOK
<1>5. \A i \in 1 .. n + 1 : i \in 1 .. n \/ i = n + 1
  BY <1>2
<1>6. FramesOK'
  BY <1>2, <1>3, <1>5 DEF FramesOK
<1>7. /\ InFrames(p)' /\ ~InFrames(p)
      /\ \A q \in Part : q # p => (InFrames(q)' <=> InFrames(q))
  BY <1>2, <1>3, <1>5 DEF InFrames
<1>8. CountsOK'
  <2>1. ASSUME NEW q \in Part PROVE refs'[q] = Counted(q)'
    <3> DEFINE a == held[q]
               b == Bit(InTable(q))
               d == Bit(InFrames(q))
               e == Bit(q \in leaked)
    <3>1. /\ refs[q] = a + b + d + e
          /\ Counted(q)' = a + b + Bit(InFrames(q)') + e
      BY <1>1 DEF CountsOK, Counted, InTable
    <3>2. /\ a \in Nat /\ b \in Nat /\ d \in Nat /\ e \in Nat
          /\ refs[q] \in Nat
      BY DEF Bit, TypeOK
    <3>3. CASE q = p
      <4>1. Bit(InFrames(q)') = 1 /\ d = 0 /\ refs'[q] = refs[q] + 1
        BY <1>1, <1>7, <3>3 DEF Bit, TypeOK
      <4> HIDE DEF a, b, d, e
      <4> QED BY <3>1, <3>2, <4>1
    <3>4. CASE q # p
      <4>1. Bit(InFrames(q)') = d /\ refs'[q] = refs[q]
        BY <1>1, <1>7, <3>4 DEF Bit, TypeOK
      <4> QED BY <3>1, <4>1
    <3> QED BY <3>3, <3>4
  <2>2. \A q \in Part : refs'[q] = 0 <=> res'[q] \in {"none", "gone"}
    BY <1>1 DEF CountsOK, TypeOK
  <2> QED BY <1>1, <2>1, <2>2 DEF CountsOK
<1>9. LinksOK'
  <2>1. \A i \in DOMAIN frames' :
          mem'[frames'[i]] = "live" /\ extracting'[frames'[i]]
    BY <1>1, <1>2, <1>5 DEF LinksOK, TypeOK
  <2> QED BY <1>1, <2>1 DEF LinksOK
<1>10. TypeOK'
  BY <1>1, <1>2 DEF TypeOK
<1> QED BY <1>4, <1>6, <1>8, <1>9, <1>10

-----------------------------------------------------------------------------
(* The steps that take one back, or free a part.                           *)
LEMMA ReleaseOwners ==
  ASSUME OwnersInv, phase = "running", NEW p \in Part, Release(p)
  PROVE  OwnersInv'
<1>1. /\ held[p] > 0 /\ held' = [held EXCEPT ![p] = @ - 1] /\ DropReference(p)
      /\ UNCHANGED <<nparts, extracting, frames, phase, leaked>>
  BY DEF Release
<1>2. held \in [Part -> Nat] /\ refs \in [Part -> Nat] /\ frames \in Seq(Part)
      /\ extracting \in [Part -> BOOLEAN]
  BY DEF OwnersInv, TypeOK
<1>3. refs[p] > 0 /\ (refs[p] = 1 => ~InTable(p) /\ ~InFrames(p))
  BY <1>1, <1>2, CountedFacts DEF OwnersInv
<1>4. held' \in [Part -> Nat]
  BY <1>1, <1>2
<1>5. ASSUME NEW q \in Part
      PROVE  (IF q = p THEN refs[q] - 1 ELSE refs[q])
               = held'[q] + Bit(InTable(q)) + Bit(InFrames(q)') + Bit(q \in leaked)
  <2> DEFINE a == held[q]
             b == Bit(InTable(q))
             d == Bit(InFrames(q))
             e == Bit(q \in leaked)
  <2>1. refs[q] = a + b + d + e /\ Bit(InFrames(q)') = d
    BY <1>1 DEF OwnersInv, CountsOK, Counted, InFrames
  <2>2. a \in Nat /\ b \in Nat /\ d \in Nat /\ e \in Nat
    BY <1>2 DEF Bit
  <2>3. held'[q] = IF q = p THEN a - 1 ELSE a
    BY <1>1, <1>2
  <2>4. (IF q = p THEN refs[q] - 1 ELSE refs[q]) = held'[q] + b + d + e
    <3> HIDE DEF a, b, d, e
    <3> QED BY <2>1, <2>2, <2>3
  <2> QED BY <2>1, <2>4
<1>6. \A i \in DOMAIN frames' :
        /\ i \in DOMAIN frames /\ frames'[i] = frames[i]
        /\ extracting'[frames'[i]] = extracting[frames[i]]
        /\ refs[p] = 1 => frames'[i] # p
  BY <1>1, <1>3 DEF InFrames
<1>7. extracting' \in [Part -> BOOLEAN] /\ frames' \in Seq(Part)
  BY <1>1, <1>2
<1> QED BY <1>1, <1>3, <1>4, <1>5, <1>6, <1>7, DropOwners

LEMMA EndOwners ==
  ASSUME OwnersInv, phase = "running", EndExtract
  PROVE  OwnersInv'
<1> DEFINE n == Len(frames)
<1>1. /\ held \in [Part -> Nat] /\ refs \in [Part -> Nat]
      /\ frames \in Seq(Part) /\ frames # << >>
      /\ extracting \in [Part -> BOOLEAN]
  BY DEF OwnersInv, TypeOK, EndExtract
<1>2. n \in Nat /\ n # 0 /\ n - 1 \in Nat /\ DOMAIN frames = 1 .. n
  BY <1>1
<1>3. PICK p \in Part : p = frames[n]
  BY <1>1, <1>2
<1>4. /\ extracting' = [extracting EXCEPT ![p] = FALSE]
      /\ frames' = SubSeq(frames, 1, n - 1) /\ DropReference(p)
      /\ UNCHANGED <<nparts, held, phase, leaked>>
  BY <1>3 DEF EndExtract
<1>5. /\ DOMAIN frames' = 1 .. n - 1
      /\ \A i \in 1 .. n - 1 : frames'[i] = frames[i] /\ frames[i] \in Part
  BY <1>1, <1>2, <1>4
<1>6. frames' \in Seq(Part)
  BY StepFrames, <1>1 DEF Next, Running
<1>7. \A i \in 1 .. n - 1 : i \in 1 .. n /\ frames[i] # p
  BY <1>2, <1>3 DEF OwnersInv, FramesOK
<1>8. /\ InFrames(p) /\ ~InFrames(p)'
      /\ \A q \in Part : q # p => (InFrames(q)' <=> InFrames(q))
  <2> HIDE DEF n
  <2>1. n \in 1 .. n /\ \A i \in 1 .. n : i \in 1 .. n - 1 \/ i = n
    BY <1>2
  <2> QED BY <1>2, <1>3, <1>5, <1>7, <2>1 DEF InFrames
<1>9. refs[p] > 0 /\ (refs[p] = 1 => ~InTable(p))
  BY <1>1, <1>8, CountedFacts DEF OwnersInv
<1>10. ASSUME NEW q \in Part
       PROVE  (IF q = p THEN refs[q] - 1 ELSE refs[q])
               = held'[q] + Bit(InTable(q)) + Bit(InFrames(q)') + Bit(q \in leaked)
  <2> DEFINE a == held[q]
             b == Bit(InTable(q))
             d == Bit(InFrames(q))
             e == Bit(q \in leaked)
             x == Bit(InFrames(q)')
  <2>1. refs[q] = a + b + d + e /\ held'[q] = a
    BY <1>4 DEF OwnersInv, CountsOK, Counted
  <2>2. /\ a \in Nat /\ b \in Nat /\ d \in Nat /\ e \in Nat
        /\ q = p => d = 1 /\ x = 0
        /\ q # p => x = d
    BY <1>1, <1>8 DEF Bit
  <2>3. (IF q = p THEN refs[q] - 1 ELSE refs[q]) = a + b + x + e
    <3> HIDE DEF a, b, d, e, x
    <3>1. CASE q = p
      BY <2>1, <2>2, <3>1
    <3>2. CASE q # p
      BY <2>1, <2>2, <3>2
    <3> QED BY <3>1, <3>2
  <2> QED BY <2>1, <2>3
<1>11. \A i \in DOMAIN frames' :
         /\ i \in DOMAIN frames /\ frames'[i] = frames[i]
         /\ extracting'[frames'[i]] = extracting[frames[i]]
         /\ refs[p] = 1 => frames'[i] # p
  BY <1>1, <1>2, <1>4, <1>5, <1>7
<1>12. extracting' \in [Part -> BOOLEAN] /\ held' \in [Part -> Nat]
  BY <1>1, <1>4
<1> QED BY <1>4, <1>6, <1>9, <1>10, <1>11, <1>12, DropOwners

(* mailparse_msg_free of a part without parent that is not being extracted *)
(* and, at the end of the request, of the youngest part that is left.      *)
LEMMA CloseOwners ==
  ASSUME OwnersInv, NEW p \in Part, res[p] \in {"open", "null"},
         Free(p, refs, "closed"),
         UNCHANGED <<nparts, extracting, held, frames, phase, leaked>>,
         phase = "running" => ~extracting[p] /\ parent[p] = NoPart
  PROVE  OwnersInv'
<1>1. /\ refs \in [Part -> Nat] /\ held' \in [Part -> Nat]
      /\ frames' \in Seq(Part) /\ extracting' \in [Part -> BOOLEAN]
  BY DEF OwnersInv, TypeOK
<1>2. refs[p] > 0
  BY <1>1 DEF OwnersInv, CountsOK
<1>3. ASSUME NEW q \in Part
      PROVE  refs[q] = held'[q] + Bit(InTable(q)) + Bit(InFrames(q)')
                         + Bit(q \in leaked')
  <2>1. Bit(InFrames(q)') = Bit(InFrames(q))
    BY DEF InFrames
  <2> QED BY <2>1 DEF OwnersInv, CountsOK, Counted
<1>4. \A i \in DOMAIN frames' :
        /\ i \in DOMAIN frames /\ frames'[i] = frames[i]
        /\ phase = "running" =>
             frames'[i] # p /\ extracting'[frames'[i]] = extracting[frames[i]]
  BY DEF OwnersInv, LinksOK
<1>5. refs[p] = 0 <=> "closed" = "gone"
  BY <1>2, <1>1
<1> QED BY <1>1, <1>2, <1>3, <1>4, <1>5, FreeOwners

(* Every step of the request and of its shutdown.                          *)
LEMMA StepOwners ==
  ASSUME OwnersInv, [Next]_vars
  PROVE  OwnersInv'
<1>1. CASE UNCHANGED vars
  BY <1>1 DEF vars, linkVars, OwnersInv, TypeOK, FreedInv, FreedOnce, TablesOK,
     CountsOK, Counted, InTable, InFrames, FramesOK, LinksOK
<1>2. ASSUME phase = "running", BeginShutdown PROVE OwnersInv'
  BY <1>2
  DEF BeginShutdown, linkVars, OwnersInv, TypeOK, FreedInv, FreedOnce,
      TablesOK, CountsOK, Counted, InTable, InFrames, FramesOK
<1>3. ASSUME phase = "running", NEW p \in Part, NEW c \in Part, GetPart(p, c)
      PROVE  OwnersInv'
  <2>1. mem[c] = "live"
    <3> DEFINE S == {q \in Part : mem[q] = "live"}
    <3>1. children \in [Part -> SUBSET Part] /\ p \in S /\ S \in SUBSET Part
      BY <1>3 DEF GetPart, Fetched, OwnersInv, FreedInv, FreedOnce, TypeOK
    <3>2. ASSUME NEW r \in S, NEW k \in children[r] PROVE k \in S
      <4>1. k \in Part /\ parent[k] # NoPart
        BY <1>3, <3>1, <3>2, PartFacts DEF OwnersInv, LinksOK
      <4> QED BY <1>3, <4>1 DEF OwnersInv, LinksOK
    <3>3. \A r \in S : children[r] \subseteq S
      BY <3>2
    <3>4. Subtree(p) \subseteq S
      <4> HIDE DEF S
      <4> QED BY <3>1, <3>3, TreeFacts DEF Subtree
    <3> QED BY <1>3, <3>4 DEF GetPart
  <2>2. res[c] = "open"
    BY <2>1 DEF OwnersInv, FreedInv, FreedOnce
  <2> QED BY <1>3, <2>2, GiveOwners DEF GetPart
<1>4. ASSUME phase = "running", NEW p \in Part, GetParent(p) PROVE OwnersInv'
  <2>1. PICK q \in Part : q = parent[p]
    BY <1>4 DEF GetParent, OwnersInv, TypeOK
  <2>2. p \in children[q] /\ res[q] = "open"
    BY <1>4, <2>1 DEF OwnersInv, LinksOK, TablesOK, FreedInv, FreedOnce
  <2>3. /\ refs' = [refs EXCEPT ![q] = @ + 1]
        /\ held' = [held EXCEPT ![q] = @ + 1]
        /\ UNCHANGED <<nparts, mem, res, linkVars, extracting, frames, frees,
                       phase, leaked>>
    BY <1>4, <2>1 DEF GetParent
  <2> QED BY <2>2, <2>3, GiveOwners
<1>5. ASSUME phase = "running", NEW p \in Part, ExtractUueFails(p)
      PROVE  OwnersInv'
  <2>1. OwnersInv /\ phase' = phase
    BY <1>5 DEF ExtractUueFails
  <2>2. /\ UNCHANGED <<nparts, mem, res, refs, parent, children, lastpart,
                       held, frames, frees, phase, leaked>>
        /\ extracting' = [extracting EXCEPT ![p] = TRUE]
    BY <1>5 DEF ExtractUueFails, linkVars
  <2>3. TypeOK' /\ FreedInv' /\ TablesOK' /\ CountsOK' /\ FramesOK'
    BY <2>2 DEF OwnersInv, TypeOK, FreedInv, FreedOnce, TablesOK, CountsOK,
       Counted, InTable, InFrames, FramesOK
  <2>4. LinksOK'
    BY <1>5, <2>2 DEF OwnersInv, LinksOK, TypeOK
  <2> QED BY <2>3, <2>4 DEF OwnersInv
<1>6. ASSUME phase = "running", NEW p \in Part, MsgFree(p) PROVE OwnersInv'
  BY <1>6, CloseOwners DEF MsgFree, Fetched
<1>7. ASSUME phase = "closing", CloseNext PROVE OwnersInv'
  <2>1. PICK p \in Unclosed : Free(p, refs, "closed")
    BY <1>7 DEF CloseNext
  <2> QED BY <1>7, <2>1, CloseOwners DEF CloseNext, Unclosed
<1> QED
  BY <1>1, <1>2, <1>3, <1>4, <1>5, <1>6, <1>7, CreateOwners, FailOwners,
     ParseOwners, ReleaseOwners, RemoveOwners, BeginOwners, EndOwners
  DEF Next, Running

(* A part left to nobody by a failed parse has been freed, and stays so.   *)
LeakedFreed == \A p \in leaked : mem[p] = "freed"

LEMMA StepLeaked ==
  ASSUME OwnersInv, LeakedFreed, [Next]_vars
  PROVE  LeakedFreed'
<1>1. leaked \subseteq Part /\ mem \in [Part -> {"unused", "live", "freed"}]
  BY DEF OwnersInv, TypeOK
<1>2. ASSUME NEW p \in Part, NEW count, NEW last, Free(p, count, last),
             UNCHANGED leaked
      PROVE  LeakedFreed'
  BY <1>1, <1>2 DEF Free, LeakedFreed
<1>3. ASSUME NEW p \in Part, DropReference(p), UNCHANGED leaked
      PROVE  LeakedFreed'
  BY <1>2, <1>3 DEF DropReference, LeakedFreed
<1>4. ASSUME HeapBound PROVE Fresh \in Part /\ mem[Fresh] = "unused"
  BY <1>4, FreshUnused, PartFacts DEF HeapBound, Fresh, OwnersInv, FreedInv
<1>5. CASE Create \/ \E h \in Part : Parse(h)
  BY <1>1, <1>4, <1>5 DEF Create, Parse, LeakedFreed
<1>6. CASE ParseFileFails
  <2>1. Fresh \in Part
    BY <1>6, HeapAssumption, PartFacts
    DEF ParseFileFails, OwnersInv, FreedInv, Fresh, Part
  <2> QED BY <1>1, <1>6, <2>1 DEF ParseFileFails, LeakedFreed
<1>7. CASE EndExtract
  <2>1. frames[Len(frames)] \in Part
    BY <1>7 DEF EndExtract, OwnersInv, TypeOK
  <2> QED BY <1>3, <1>7, <2>1 DEF EndExtract
<1>8. CASE UNCHANGED <<mem, leaked>>
  BY <1>8 DEF LeakedFreed
<1> QED
  BY <1>2, <1>3, <1>5, <1>6, <1>7, <1>8
  DEF Next, Running, vars, BeginShutdown, GetPart, GetParent, Release, MsgFree,
      RemoveFromParent, BeginExtract, ExtractUueFails, CloseNext, Unclosed

(* The invariant holds in every state of the request and its shutdown.     *)
LEMMA OwnersAlways == Spec => [](OwnersInv /\ LeakedFreed)
<1>1. Init => OwnersInv /\ LeakedFreed
  BY PartFacts, HeapAssumption
  DEF Init, OwnersInv, TypeOK, FreedInv, FreedOnce, TablesOK, CountsOK,
      Counted, InTable, InFrames, Bit, FramesOK, LinksOK, LeakedFreed
<1>2. OwnersInv /\ LeakedFreed /\ [Next]_vars => (OwnersInv /\ LeakedFreed)'
  BY StepOwners, StepLeaked
<1> QED BY <1>1, <1>2, PTL DEF Spec

(* The variables keep their types.                                         *)
THEOREM OwnersTypes == Spec => []TypeOK
<1>1. OwnersInv => TypeOK
  BY DEF OwnersInv
<1> QED BY <1>1, OwnersAlways, PTL

(* While the request runs, the pointers of live parts lead to live parts   *)
(* and the two ends of each link agree.                                    *)
THEOREM LinksStayLive == Spec => []LinksLive
<1>1. OwnersInv => LinksLive
  <2> SUFFICES ASSUME OwnersInv, phase = "running", NEW p \in Part,
                      mem[p] = "live"
               PROVE  /\ children[p] = {c \in Part : mem[c] = "live" /\ parent[c] = p}
                      /\ lastpart[p] # NoPart => lastpart[p] \in children[p]
                      /\ parent[p] # NoPart => mem[parent[p]] = "live"
    BY DEF LinksLive
  <2>1. ASSUME NEW c \in Part, parent[c] # NoPart
        PROVE  mem[c] = "live" /\ parent[c] \in Part /\ mem[parent[c]] = "live"
    BY <2>1 DEF OwnersInv, LinksOK, TablesOK, TypeOK
  <2>2. children[p] \subseteq Part
    BY DEF OwnersInv, TypeOK
  <2>3. \A c \in Part : c \in children[p] <=> mem[c] = "live" /\ parent[c] = p
    BY <2>1, PartFacts DEF OwnersInv, LinksOK
  <2> QED BY <2>1, <2>2, <2>3 DEF OwnersInv, LinksOK
<1> QED BY <1>1, OwnersAlways, PTL

(* The part an extraction works on is there until the extraction ends.     *)
THEOREM ExtractedStayLive == Spec => []ExtractedPartsLive
<1>1. OwnersInv => ExtractedPartsLive
  BY DEF OwnersInv, LinksOK, ExtractedPartsLive
<1> QED BY <1>1, OwnersAlways, PTL

(* The count of a resource is the number of references there are to it.    *)
THEOREM CountsExact == Spec => []RefcountExact
<1>1. OwnersInv => RefcountExact
  <2> SUFFICES ASSUME OwnersInv, NEW p \in Part
               PROVE  /\ refs[p] = held[p] + Cardinality(Owners(p)) + Pins(p)
                                  + (IF p \in leaked THEN 1 ELSE 0)
                      /\ refs[p] = 0 <=> res[p] \in {"none", "gone"}
    BY DEF RefcountExact
  <2>1. Cardinality(Owners(p)) = Bit(InTable(p))
    <3>1. CASE InTable(p)
      <4>1. PICK q \in Part : p \in children[q]
        BY <3>1 DEF InTable
      <4>2. Owners(p) = {q}
        BY <4>1 DEF Owners, OwnersInv, TablesOK
      <4> QED BY <3>1, <4>2, FS_Singleton DEF Bit
    <3>2. CASE ~InTable(p)
      <4>1. Owners(p) = {}
        BY <3>2 DEF Owners, InTable
      <4> QED BY <3>2, <4>1, FS_EmptySet DEF Bit
    <3> QED BY <3>1, <3>2
  <2>2. Pins(p) = Bit(InFrames(p))
    <3> DEFINE I == {i \in DOMAIN frames : frames[i] = p}
    <3>1. CASE InFrames(p)
      <4>1. PICK j \in DOMAIN frames : frames[j] = p
        BY <3>1 DEF InFrames
      <4>2. I = {j}
        BY <4>1 DEF OwnersInv, FramesOK
      <4> QED BY <3>1, <4>2, FS_Singleton DEF Bit, Pins
    <3>2. CASE ~InFrames(p)
      <4>1. I = {}
        BY <3>2 DEF InFrames
      <4> QED BY <3>2, <4>1, FS_EmptySet DEF Bit, Pins
    <3> QED BY <3>1, <3>2
  <2>3. Bit(p \in leaked) = IF p \in leaked THEN 1 ELSE 0
    BY DEF Bit
  <2> QED BY <2>1, <2>2, <2>3 DEF OwnersInv, CountsOK, Counted
<1> QED BY <1>1, OwnersAlways, PTL

(* A part that user code holds is freed by nothing but a mailparse_msg_free*)
(* of that very part: the parts that go with another have no reference.    *)
THEOREM HeldStay == Spec => HeldPartsSurvive
<1> DEFINE Survive == phase = "running" => \A p \in Part :
             mem[p] = "live" /\ mem'[p] = "freed" /\ held'[p] > 0
               => parent[p] = NoPart /\ res'[p] = "closed"
<1>1. OwnersInv /\ [Next]_vars => Survive
  <2> SUFFICES ASSUME OwnersInv, [Next]_vars, phase = "running",
                      NEW p \in Part, mem[p] = "live", mem'[p] = "freed",
                      held'[p] > 0
               PROVE  parent[p] = NoPart /\ res'[p] = "closed"
    OBVIOUS
  <2>1. held \in [Part -> Nat] /\ mem \in [Part -> {"unused", "live", "freed"}]
    BY DEF OwnersInv, TypeOK
  <2>2. ASSUME NEW q \in Part, NEW count, NEW last, Free(q, count, last), q # p
        PROVE  held[p] = 0
    <3>1. p \in Dying(q)
      BY <2>1, <2>2 DEF Free
    <3> QED BY <2>2, <3>1, DyingUnused DEF OwnersInv
  <2>3. ASSUME NEW q \in Part, DropReference(q)
        PROVE  refs[q] = 1 /\ (q # p => held[p] = 0)
    <3>1. [refs EXCEPT ![q] = @ - 1][q] = 0 /\ Free(q, [refs EXCEPT ![q] = @ - 1], "gone")
      BY <2>3 DEF DropReference
    <3> QED BY <2>2, <3>1 DEF OwnersInv, TypeOK
  <2>4. ASSUME NEW q \in Part, Release(q) PROVE FALSE
    <3>1. /\ held[q] > 0 /\ held' = [held EXCEPT ![q] = @ - 1]
          /\ refs[q] = 1 /\ (q # p => held[p] = 0)
      BY <2>3, <2>4 DEF Release
    <3>2. held[q] = 1
      BY <3>1, CountedFacts DEF OwnersInv
    <3> QED BY <2>1, <3>1, <3>2
  <2>5. ASSUME EndExtract PROVE FALSE
    <3>1. PICK q \in Part : q = frames[Len(frames)]
      BY <2>5 DEF EndExtract, OwnersInv, TypeOK
    <3>2. refs[q] = 1 /\ held' = held /\ (q # p => held[p] = 0)
      BY <2>3, <2>5, <3>1 DEF EndExtract
    <3>3. Len(frames) \in DOMAIN frames
      BY <2>5 DEF EndExtract, OwnersInv, TypeOK
    <3>4. InFrames(q)
      BY <3>1, <3>3 DEF InFrames
    <3>5. held[q] = 0
      BY <3>2, <3>4, CountedFacts DEF OwnersInv, TypeOK
    <3> QED BY <3>2, <3>5
  <2>6. ASSUME NEW q \in Part, MsgFree(q)
        PROVE  parent[p] = NoPart /\ res'[p] = "closed"
    <3>1. q = p
      BY <2>1, <2>2, <2>6 DEF MsgFree
    <3>2. p \in Part /\ res' = [r \in Part |-> IF r = p THEN "closed"
                        ELSE IF r \in Dying(p) THEN "gone" ELSE res[r]]
      BY <2>6, <3>1 DEF MsgFree, Free
    <3> QED BY <2>6, <3>1, <3>2 DEF MsgFree
  <2>7. ASSUME Create \/ \E h \in Part : Parse(h) PROVE FALSE
    BY <2>1, <2>7 DEF Create, Parse, HeapBound
  <2>8. ASSUME ParseFileFails PROVE FALSE
    <3>1. p # Fresh /\ p # Fresh + 1
      BY PartFacts DEF OwnersInv, FreedInv, Fresh
    <3> QED BY <2>1, <2>8, <3>1 DEF ParseFileFails
  <2> QED
    BY <2>1, <2>4, <2>5, <2>6, <2>7, <2>8
    DEF Next, Running, vars, BeginShutdown, GetPart, GetParent,
        RemoveFromParent, BeginExtract, ExtractUueFails
<1>2. OwnersInv /\ LeakedFreed /\ [Next]_vars => [Survive]_vars
  BY <1>1
<1> QED
  <2> HIDE DEF Survive
  <2>1. Spec => [][Survive]_vars
    BY <1>2, OwnersAlways, PTL DEF Spec
  <2> QED BY <2>1 DEF HeldPartsSurvive, Survive

(* Parents are older than their children, so every live part is below one  *)
(* without parent, and that one is there because user code or an           *)
(* extraction refers to it.                                                *)
LEMMA Least ==
  ASSUME NEW S \in SUBSET Nat, S # {}
  PROVE  \E m \in S : \A n \in S : ~(n < m)
<1> DEFINE R == OpToRel(<, Nat)
<1>1. \A n, m \in Nat : n < m => <<n, m>> \in R
  BY DEF OpToRel
<1>2. IsWellFoundedOn(R, Nat)
  BY NatLessThanWellFounded
<1> HIDE DEF R
<1>3. \E m \in S : \A n \in S : ~(<<n, m>> \in R)
  BY <1>2, WFMin
<1> QED BY <1>1, <1>3

THEOREM AllReachable == Spec => []NoUnreachableParts
<1>1. OwnersInv /\ LeakedFreed => NoUnreachableParts
  <2> SUFFICES ASSUME OwnersInv, LeakedFreed, phase = "running",
                      NEW p \in Part, mem[p] = "live"
               PROVE  \E a \in Closure(parent, p) : held[a] > 0 \/ InFrames(a)
    BY DEF NoUnreachableParts
  <2> DEFINE C == Closure(parent, p)
             L == {q \in Part : mem[q] = "live"}
  <2>1. parent \in [Part -> Part \cup {NoPart}]
    BY DEF OwnersInv, TypeOK
  <2>2. /\ p \in C /\ C \subseteq Part
        /\ \A q \in C : parent[q] # NoPart => parent[q] \in C
    BY <2>1, ClosureFacts
  <2>3. ASSUME NEW q \in Part, parent[q] # NoPart
        PROVE  parent[q] \in Part /\ parent[q] < q /\ mem[parent[q]] = "live"
    BY <2>1, <2>3 DEF OwnersInv, LinksOK, TablesOK
  <2>4. C \subseteq L
    <3>1. L \in SUBSET Part /\ p \in L /\ \A r \in L : parent[r] \in L \cup {NoPart}
      BY <2>3
    <3> HIDE DEF L
    <3> QED BY <2>1, <3>1, ClosureFacts
  <2>5. PICK a \in C : \A q \in C : ~(q < a)
    <3>1. C \in SUBSET Nat /\ C # {}
      BY <2>2, PartFacts
    <3> HIDE DEF C
    <3> QED BY <3>1, Least
  <2>6. a \in Part /\ parent[a] = NoPart /\ mem[a] = "live"
    BY <2>2, <2>3, <2>4, <2>5
  <2>7. ~InTable(a) /\ a \notin leaked /\ refs[a] # 0
    BY <2>6, PartFacts
    DEF OwnersInv, LinksOK, InTable, LeakedFreed, FreedInv, FreedOnce, CountsOK
  <2>8. held[a] > 0 \/ InFrames(a)
    BY <2>6, <2>7, CountedFacts DEF OwnersInv
  <2> QED BY <2>5, <2>8
<1> QED BY <1>1, OwnersAlways, PTL
=============================================================================
