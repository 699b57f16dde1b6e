------------------------------ MODULE Sections ------------------------------
(* Section names, "1", "1.2", "1.2.1": how php_mimepart_enum_parts numbers *)
(* the parts of a tree, and how php_mimepart_find_by_name finds one again. *)
(*                                                                         *)
(* A name is the sequence of its numbers.  The enumeration counts the      *)
(* children of a part in the order of its child table, which is the order  *)
(* they were allocated in; under a multipart it counts from 0 and leaves   *)
(* out what has the number 0, its subtree included.                        *)
EXTENDS MimeParse, Sequences

FirstId_UntilRemoved(p) ==                                \* mutant
  IF contentType[p] \in Multipart /\ lastpart[p] # NoPart THEN 0 ELSE 1
FirstId(p) == IF contentType[p] \in Multipart THEN 0 ELSE 1
Elders(c)  == {e \in Children(parent[c]) : e < c}
Id(c)      == FirstId(parent[c]) + Cardinality(Elders(c))

(* the parts from top, exclusive, down to p: its enumerator chain          *)
Below(top, p) == {q \in Up(p) : q > top}
Listed(top)   == {p \in Allocated :
                    top \in Up(p) /\ \A q \in Below(top, p) : Id(q) # 0}

(* get_structure_callback prints the numbers of the chain, top's first.    *)
Name(top, p)  ==
  LET name[q \in Part] == IF q = top \/ parent[q] = NoPart THEN <<1>>
                          ELSE Append(name[parent[q]], Id(q))
  IN name[p]

(* find_part_callback goes down the chain with the name that it was given: *)
(* at every part the next number must be the part's, and the numbers must  *)
(* end with the chain.                                                     *)
Place(top, q) == Cardinality(Below(top, q)) + 1
Agrees(top, p, name) ==
  /\ Len(name) >= Place(top, p)
  /\ name[1] = 1
  /\ \A q \in Below(top, p) : name[Place(top, q)] = Id(q)
Matches_Within(top, p, name) == Agrees(top, p, name)      \* mutant
Matches(top, p, name) == Agrees(top, p, name) /\ Len(name) = Place(top, p)

(* mailparse_msg_get_part; mailparse_msg_get_structure gives the names of  *)
(* Listed(top).                                                            *)
FindByName(top, name) == {p \in Listed(top) : Matches(top, p, name)}

(* What get_structure_callback prints is what find_part_callback looks     *)
(* for: from whatever part a listing starts, the name of a part finds that *)
(* part and no other, and so does a name put together from a listed part's *)
(* and what that part's own listing gives to a part inside it.             *)
NamesIdentify ==
  \A top \in Allocated : \A p \in Listed(top) :
    /\ FindByName(top, Name(top, p)) = {p}
    /\ \A q \in Listed(p) :
         FindByName(top, Name(top, p) \o Tail(Name(p, q))) = {q}

(* enum_parts_recurse numbers parts anew at every call, so that a name     *)
(* kept by user code is as good as the counting: parsing on never gives a  *)
(* name to another part, hides a part or names a hidden one, and remove    *)
(* does so only for what it removes and what follows that in its table.    *)
SectionNamesStable ==
  [][\A p \in {q \in Allocated : Root \in Up(q)} :
       \/ \E c \in Allocated, q \in Up(p) :
            /\ parent[c] # NoPart /\ parent'[c] = NoPart
            /\ parent[q] = parent[c] /\ c <= q
       \/ /\ Name(Root, p)' = Name(Root, p)
          /\ p \in Listed(Root)' <=> p \in Listed(Root)]_vars
=============================================================================
