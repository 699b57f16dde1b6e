----------------------------- MODULE PartLinks -----------------------------
(* The parts of a message as both the parser and the resource layer see    *)
(* them: php_mimepart structures, numbered in the order php_mimepart_alloc *)
(* makes them, and the pointers between them.                              *)
EXTENDS Naturals, FiniteSets

CONSTANT MaxAlloc    \* bound: parts the model's heap can hold

ASSUME HeapAssumption == MaxAlloc \in Nat \ {0}

Part   == 1 .. MaxAlloc
Root   == 1
NoPart == 0          \* a NULL pointer

(* The smallest set of parts that holds p and follows the pointers f.      *)
Closure(f, p) ==
  LET Closed == {S \in SUBSET Part :
                   p \in S /\ \A r \in S : f[r] \in S \cup {NoPart}}
  IN {q \in Part : \A S \in Closed : q \in S}

(* The same for links to many parts: f[q] is a set.                        *)
Tree(f, p) ==
  LET Closed == {S \in SUBSET Part :
                   p \in S /\ \A r \in S : f[r] \subseteq S}
  IN {q \in Part : \A S \in Closed : q \in S}
=============================================================================
