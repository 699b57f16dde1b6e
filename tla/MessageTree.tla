---------------------------- MODULE MessageTree ----------------------------
(* What the parser promises of a message, whatever its boundaries and      *)
(* headers say: the message read so far is a growing nest of extents.      *)
(*                                                                         *)
(* Only the parts on one path down from the root are open.  All of them    *)
(* reach exactly to the end of what has been read; every other part is     *)
(* closed for good.  Reading more text makes the path shorter (parts are   *)
(* left behind), or longer by one part that begins where the text ends.    *)
EXTENDS PartLinks

VARIABLES
  parts,        \* parts begun so far
  parent,
  from, body, upto,   \* part p is from[p] .. upto[p], its body from body[p]
  settled,      \* parts whose headers have ended
  pos,          \* how much has been read
  open          \* the path of open parts

vars == <<parts, parent, from, body, upto, settled, pos, open>>

Path(p) == Closure(parent, p)

Init ==
  /\ parts = 1
  /\ parent = [p \in Part |-> NoPart]
  /\ from = [p \in Part |-> 0]
  /\ body = [p \in Part |-> 0]
  /\ upto = [p \in Part |-> 0]
  /\ settled = {}
  /\ pos = 0
  /\ open = {Root}

(* More text, up to pos', for w and all that holds it; what is inside w is *)
(* left behind.                                                            *)
Extend(w) ==
  /\ w \in open
  /\ pos' \in Nat
  /\ pos' > pos

EndsAt(w, fresh) ==
  [p \in Part |-> IF p \in Path(w) \cup fresh THEN pos' ELSE upto[p]]
StartsAt(f, new) == [p \in Part |-> IF p \in new THEN pos' ELSE f[p]]

(* A line of w: of its headers, of its body or one that closes what w held *)
Read(w) ==
  /\ Extend(w)
  /\ upto' = EndsAt(w, {})
  /\ open' = Path(w)
  /\ UNCHANGED <<parts, parent, from, body, settled>>

(* The line that ends the headers of w                                     *)
Settle(w) ==
  /\ Extend(w)
  /\ w \notin settled
  /\ upto' = EndsAt(w, {})
  /\ body' = StartsAt(body, {w})
  /\ settled' = settled \cup {w}
  /\ open' = Path(w)
  /\ UNCHANGED <<parts, parent, from>>

(* A line after which w holds one more part, with or without headers: a    *)
(* boundary, or the end of the headers of w.                               *)
Branch(w) ==
  LET fresh == parts + 1
      ended == {w} \ settled IN
  /\ Extend(w)
  /\ fresh \in Part
  /\ parts' = fresh
  /\ parent' = [parent EXCEPT ![fresh] = w]
  /\ from' = StartsAt(from, {fresh})
  /\ body' = StartsAt(body, {fresh} \cup ended)
  /\ upto' = EndsAt(w, {fresh})
  /\ settled' \in {settled \cup ended, settled \cup ended \cup {fresh}}
  /\ open' = Path(w) \cup {fresh}

Next == \E w \in Part : Read(w) \/ Settle(w) \/ Branch(w)

Spec == Init /\ [][Next]_vars
=============================================================================
