---------------------------- MODULE PartLifetime ----------------------------
(***************************************************************************)
(* Who owns the parts of a message: php_mimepart structures, the Zend      *)
(* resources that wrap them and the references user code, parent tables    *)
(* and running extractions hold on those resources.                        *)
(*                                                                         *)
(* A part is created with a resource of one reference, which goes to user  *)
(* code for a root and to the children table of its parent for any other   *)
(* part.  The structure is freed when its resource is closed or destroyed, *)
(* and takes the references of its children table with it.                 *)
(*                                                                         *)
(* User code runs between the calls of the extension and, from callbacks   *)
(* and stream wrappers, in the middle of an extraction: frames is the      *)
(* stack of extractions in progress, and every other action may come       *)
(* between the begin and the end of one.                                   *)
(*                                                                         *)
(* The engine's side (closing and destroying resources, the shutdown walk) *)
(* is the Zend engine's, modelled from how the extension relies on it.     *)
(***************************************************************************)
EXTENDS PartLinks, Sequences

CONSTANTS
  MaxHeld,    \* bound: references user code keeps on one part
  Sourceless  \* parts whose source stream is closed or was never opened

ASSUME HeldAssumption == MaxHeld \in Nat \ {0} /\ Sourceless \subseteq Part

VARIABLES
  nparts,     \* parts allocated so far
  mem,        \* the structure of each part
  res,        \* its resource: "open" points to the structure, "null" has a
              \* NULL pointer, "closed" has type -1, "gone" is destroyed
  refs,       \* reference count of the resource
  parent, children, lastpart,
  extracting, \* the extracting flag of each part
  held,       \* references user code has: variables and MimeMessage objects
  frames,     \* extractions in progress, innermost last
  frees,      \* history: calls of php_mimepart_free on each part
  leaked,     \* history: parts with a reference that was returned to nobody
  phase       \* "running", then "closing" for the shutdown of the request

linkVars == <<parent, children, lastpart>>
vars == <<nparts, mem, res, refs, linkVars, extracting, held, frames, frees,
          leaked, phase>>

Fresh     == nparts + 1
HeapBound == Fresh \in Part
HeldBound(p) == held[p] < MaxHeld

(* mailparse_fetch_mimepart_resource on a reference of user code.          *)
Fetched(p) == held[p] > 0 /\ res[p] = "open"

Subtree(p) == Tree(children, p)
Down(p)    == Closure(lastpart, p)

-----------------------------------------------------------------------------
(* php_mimepart_free drops the reference of the children table to every    *)
(* child; a child nobody else refers to is destroyed with it, and so on.   *)
Dying_AllChildren(p) == Subtree(p)                           \* mutant
Dying(p) ==
  Tree([q \in Part |-> {c \in children[q] : refs[c] = 1}], p)

(* php_mimepart_free(p), from count references, when the resource of p     *)
(* ends up in state last.  A child that lives on is detached.  What the    *)
(* freed structures pointed to is forgotten.                               *)
Free_KeepsParent(p, count, last) ==                          \* mutant
  LET dying   == Dying(p)
      freed   == {q \in dying : res[q] = "open"}
      orphans == UNION {children[q] : q \in freed}
  IN
  /\ mem' = [q \in Part |-> IF q \in freed THEN "freed" ELSE mem[q]]
  /\ frees' = [q \in Part |-> IF q \in freed THEN frees[q] + 1 ELSE frees[q]]
  /\ res' = [q \in Part |-> IF q = p THEN last
                            ELSE IF q \in dying THEN "gone" ELSE res[q]]
  /\ refs' = [q \in Part |-> IF q \in orphans THEN count[q] - 1 ELSE count[q]]
  /\ parent' = [q \in Part |-> IF q \in freed THEN NoPart ELSE parent[q]]
  /\ children' = [q \in Part |-> IF q \in freed THEN {} ELSE children[q]]
  /\ lastpart' = [q \in Part |-> IF q \in freed THEN NoPart ELSE lastpart[q]]
Free(p, count, last) ==
  LET dying   == Dying(p)
      freed   == {q \in dying : res[q] = "open"}
      orphans == UNION {children[q] : q \in freed}
  IN
  /\ mem' = [q \in Part |-> IF q \in freed THEN "freed" ELSE mem[q]]
  /\ frees' = [q \in Part |-> IF q \in freed THEN frees[q] + 1 ELSE frees[q]]
  /\ res' = [q \in Part |-> IF q = p THEN last
                            ELSE IF q \in dying THEN "gone" ELSE res[q]]
  /\ refs' = [q \in Part |-> IF q \in orphans THEN count[q] - 1 ELSE count[q]]
  /\ parent' = [q \in Part |->
                  IF q \in freed \/ (q \in orphans /\ res[q] = "open")
                  THEN NoPart ELSE parent[q]]
  /\ children' = [q \in Part |-> IF q \in freed THEN {} ELSE children[q]]
  /\ lastpart' = [q \in Part |-> IF q \in freed THEN NoPart ELSE lastpart[q]]

(* zval_ptr_dtor on a reference to p; the last one destroys the resource,  *)
(* whose destructor frees the structure if there still is one.             *)
DropReference(p) ==
  LET count == [refs EXCEPT ![p] = @ - 1] IN
  IF count[p] = 0
  THEN Free(p, count, "gone")
  ELSE /\ refs' = count
       /\ UNCHANGED <<mem, res, linkVars, frees>>

-----------------------------------------------------------------------------
(* php_mimepart_alloc, by mailparse_msg_create, mailparse_msg_parse_file   *)
(* or new MimeMessage: the new part's only reference goes to the caller.   *)
Create ==
  /\ HeapBound
  /\ nparts' = Fresh
  /\ mem' = [mem EXCEPT ![Fresh] = "live"]
  /\ res' = [res EXCEPT ![Fresh] = "open"]
  /\ refs' = [refs EXCEPT ![Fresh] = 1]
  /\ held' = [held EXCEPT ![Fresh] = 1]
  /\ UNCHANGED <<linkVars, extracting, frames, frees, phase, leaked>>

(* mailparse_msg_parse_file fails: too many or too deep parts.  The root   *)
(* is freed, and its child with it; the resource of the root stays behind, *)
(* with no pointer and a reference that nobody holds.                      *)
ParseFileFails_KeepsPointer ==                               \* mutant
  /\ Fresh + 1 \in Part
  /\ nparts' = Fresh + 1
  /\ mem' = [mem EXCEPT ![Fresh] = "freed", ![Fresh + 1] = "freed"]
  /\ frees' = [frees EXCEPT ![Fresh] = 1, ![Fresh + 1] = 1]
  /\ res' = [res EXCEPT ![Fresh] = "open", ![Fresh + 1] = "gone"]
  /\ refs' = [refs EXCEPT ![Fresh] = 1]
  /\ leaked' = leaked \cup {Fresh}
  /\ UNCHANGED <<linkVars, extracting, held, frames, phase>>
ParseFileFails ==
  /\ Fresh + 1 \in Part
  /\ nparts' = Fresh + 1
  /\ mem' = [mem EXCEPT ![Fresh] = "freed", ![Fresh + 1] = "freed"]
  /\ frees' = [frees EXCEPT ![Fresh] = 1, ![Fresh + 1] = 1]
  /\ res' = [res EXCEPT ![Fresh] = "null", ![Fresh + 1] = "gone"]
  /\ refs' = [refs EXCEPT ![Fresh] = 1]
  /\ leaked' = leaked \cup {Fresh}
  /\ UNCHANGED <<linkVars, extracting, held, frames, phase>>

(* mailparse_msg_parse(h): the parser works on a part w of the chain of    *)
(* last children and gives it a new child, which the table of w owns.      *)
Parse(h) ==
  /\ Fetched(h)
  /\ ~extracting[h]
  /\ HeapBound
  /\ \E w \in Down(h) :
       /\ parent' = [parent EXCEPT ![Fresh] = w]
       /\ lastpart' = [lastpart EXCEPT ![w] = Fresh]
       /\ children' = [children EXCEPT ![w] = @ \cup {Fresh}]
  /\ nparts' = Fresh
  /\ mem' = [mem EXCEPT ![Fresh] = "live"]
  /\ res' = [res EXCEPT ![Fresh] = "open"]
  /\ refs' = [refs EXCEPT ![Fresh] = 1]
  /\ UNCHANGED <<extracting, held, frames, frees, phase, leaked>>

(* mailparse_msg_get_part(h) and MimeMessage::get_child: another reference *)
(* to h or to a part below it.                                             *)
GetPart_NoReference(h, c) ==                                 \* mutant
  /\ Fetched(h)
  /\ c \in Subtree(h)
  /\ HeldBound(c)
  /\ held' = [held EXCEPT ![c] = @ + 1]
  /\ UNCHANGED <<nparts, mem, res, refs, linkVars, extracting, frames, frees,
                 phase, leaked>>
GetPart(h, c) ==
  /\ Fetched(h)
  /\ c \in Subtree(h)
  /\ HeldBound(c)
  /\ refs' = [refs EXCEPT ![c] = @ + 1]
  /\ held' = [held EXCEPT ![c] = @ + 1]
  /\ UNCHANGED <<nparts, mem, res, linkVars, extracting, frames, frees,
                 phase, leaked>>

(* MimeMessage::get_parent                                                 *)
GetParent(h) ==
  /\ Fetched(h)
  /\ parent[h] # NoPart
  /\ HeldBound(parent[h])
  /\ refs' = [refs EXCEPT ![parent[h]] = @ + 1]
  /\ held' = [held EXCEPT ![parent[h]] = @ + 1]
  /\ UNCHANGED <<nparts, mem, res, linkVars, extracting, frames, frees,
                 phase, leaked>>

(* User code drops one of its references.                                  *)
Release(p) ==
  /\ held[p] > 0
  /\ held' = [held EXCEPT ![p] = @ - 1]
  /\ DropReference(p)
  /\ UNCHANGED <<nparts, extracting, frames, phase, leaked>>

(* mailparse_msg_free: a child is left to its parent, a part that is being *)
(* extracted is refused, and a resource that is closed or empty has        *)
(* nothing to free; otherwise the resource is closed under its references. *)
MsgFree_Extracting(p) ==                                     \* mutant
  /\ Fetched(p)
  /\ parent[p] = NoPart
  /\ Free(p, refs, "closed")
  /\ UNCHANGED <<nparts, extracting, held, frames, phase, leaked>>
MsgFree(p) ==
  /\ Fetched(p)
  /\ ~extracting[p]
  /\ parent[p] = NoPart
  /\ Free(p, refs, "closed")
  /\ UNCHANGED <<nparts, extracting, held, frames, phase, leaked>>

(* MimeMessage::remove, and MimeMessage::add_child, which does the same:   *)
(* the part leaves its parent, whose table drops its reference.            *)
RemoveFromParent_KeepsReference(c) ==                        \* mutant
  LET p == parent[c] IN
  /\ Fetched(c)
  /\ p # NoPart
  /\ parent' = [parent EXCEPT ![c] = NoPart]
  /\ lastpart' = [lastpart EXCEPT ![p] = IF @ = c THEN NoPart ELSE @]
  /\ children' = [children EXCEPT ![p] = @ \ {c}]
  /\ UNCHANGED <<nparts, mem, res, refs, extracting, held, frames, frees,
                 phase, leaked>>
RemoveFromParent(c) ==
  LET p == parent[c] IN
  /\ Fetched(c)
  /\ p # NoPart
  /\ parent' = [parent EXCEPT ![c] = NoPart]
  /\ lastpart' = [lastpart EXCEPT ![p] = IF @ = c THEN NoPart ELSE @]
  /\ children' = [children EXCEPT ![p] = @ \ {c}]
  /\ refs' = [refs EXCEPT ![c] = @ - 1]
  /\ UNCHANGED <<nparts, mem, res, extracting, held, frames, frees,
                 phase, leaked>>

(* An extraction begins; the call keeps a reference to its argument.       *)
BeginExtract(p) ==
  /\ Fetched(p)
  /\ ~extracting[p]
  /\ extracting' = [extracting EXCEPT ![p] = TRUE]
  /\ frames' = Append(frames, p)
  /\ refs' = [refs EXCEPT ![p] = @ + 1]
  /\ UNCHANGED <<nparts, mem, res, linkVars, held, frees, phase, leaked>>

(* The innermost extraction ends, and drops that reference.                *)
EndExtract ==
  LET p == frames[Len(frames)] IN
  /\ frames # << >>
  /\ extracting' = [extracting EXCEPT ![p] = FALSE]
  /\ frames' = SubSeq(frames, 1, Len(frames) - 1)
  /\ DropReference(p)
  /\ UNCHANGED <<nparts, held, phase, leaked>>

(* MimeMessage::extract_uue or enum_uue on a part without a stream:        *)
(* php_stream_from_zval returns from the method, past its cleanup.         *)
ExtractUueFails(p) ==
  /\ Fetched(p)
  /\ ~extracting[p]
  /\ p \in Sourceless
  /\ extracting' = [extracting EXCEPT ![p] = TRUE]
  /\ UNCHANGED <<nparts, mem, res, refs, linkVars, held, frames, frees,
                 phase, leaked>>

-----------------------------------------------------------------------------
(* The request ends, in the middle of anything after a fatal error.        *)
BeginShutdown ==
  /\ phase' = "closing"
  /\ UNCHANGED <<nparts, mem, res, refs, linkVars, extracting, held, frames,
                 frees, leaked>>

(* The engine closes the resources that are left, youngest first, through  *)
(* mimepart_dtor.                                                          *)
Unclosed == {p \in Part : res[p] \in {"open", "null"}}

CloseNext_SkipsExtracting ==                                 \* mutant
  /\ \E p \in Unclosed :
       /\ \A q \in Unclosed : q <= p
       /\ ~extracting[p]
       /\ Free(p, refs, "closed")
  /\ UNCHANGED <<nparts, extracting, held, frames, phase, leaked>>
CloseNext ==
  /\ \E p \in Unclosed :
       /\ \A q \in Unclosed : q <= p
       /\ Free(p, refs, "closed")
  /\ UNCHANGED <<nparts, extracting, held, frames, phase, leaked>>

-----------------------------------------------------------------------------
Init ==
  /\ nparts = 0
  /\ mem = [p \in Part |-> "unused"]
  /\ res = [p \in Part |-> "none"]
  /\ refs = [p \in Part |-> 0]
  /\ parent = [p \in Part |-> NoPart]
  /\ children = [p \in Part |-> {}]
  /\ lastpart = [p \in Part |-> NoPart]
  /\ extracting = [p \in Part |-> FALSE]
  /\ held = [p \in Part |-> 0]
  /\ frames = << >>
  /\ frees = [p \in Part |-> 0]
  /\ leaked = {}
  /\ phase = "running"

Running ==
  \/ Create
  \/ ParseFileFails
  \/ EndExtract
  \/ BeginShutdown
  \/ \E p \in Part : \/ Parse(p)
                     \/ \E c \in Part : GetPart(p, c)
                     \/ GetParent(p)
                     \/ Release(p)
                     \/ MsgFree(p)
                     \/ RemoveFromParent(p)
                     \/ BeginExtract(p)
                     \/ ExtractUueFails(p)

Next == \/ phase = "running" /\ Running
        \/ phase = "closing" /\ CloseNext

(* The shutdown walk is a loop of the engine that runs to its end.         *)
Fairness == WF_vars(phase = "closing" /\ CloseNext)

Spec == Init /\ [][Next]_vars /\ Fairness

-----------------------------------------------------------------------------
InFrames(p) == \E i \in DOMAIN frames : frames[i] = p
Pins(p)     == Cardinality({i \in DOMAIN frames : frames[i] = p})
Owners(p)   == {q \in Part : p \in children[q]}

TypeOK ==
  /\ nparts \in 0 .. MaxAlloc
  /\ mem \in [Part -> {"unused", "live", "freed"}]
  /\ res \in [Part -> {"none", "open", "null", "closed", "gone"}]
  /\ refs \in [Part -> Nat]
  /\ parent \in [Part -> Part \cup {NoPart}]
  /\ children \in [Part -> SUBSET Part]
  /\ lastpart \in [Part -> Part \cup {NoPart}]
  /\ extracting \in [Part -> BOOLEAN]
  /\ held \in [Part -> Nat]
  /\ frames \in Seq(Part)
  /\ frees \in [Part -> Nat]
  /\ leaked \subseteq Part
  /\ phase \in {"running", "closing"}

(* php_mimepart_free runs once for every part, whoever frees it first: its *)
(* parent, the user, a failed parse or the shutdown (the "idempotent"      *)
(* mimepart_dtor).  An open resource never points to freed memory.         *)
FreedOnce ==
  \A p \in Part :
    /\ res[p] = "open" <=> mem[p] = "live"
    /\ frees[p] = IF mem[p] = "freed" THEN 1 ELSE 0

(* While the request runs, every pointer of a live part leads to a live    *)
(* part, and the table of a parent, the parent pointer of a child and the  *)
(* parser's lastpart agree.                                                *)
LinksLive ==
  phase = "running" => \A p \in Part : mem[p] = "live" =>
    /\ children[p] = {c \in Part : mem[c] = "live" /\ parent[c] = p}
    /\ lastpart[p] # NoPart => lastpart[p] \in children[p]
    /\ parent[p] # NoPart => mem[parent[p]] = "live"

(* The engine's count is the number of references there are: of user code, *)
(* of the parent's table and of running extractions.  Only a failed        *)
(* mailparse_msg_parse_file leaves one that nobody has.                    *)
RefcountExact ==
  \A p \in Part :
    /\ refs[p] = held[p] + Cardinality(Owners(p)) + Pins(p)
                 + (IF p \in leaked THEN 1 ELSE 0)
    /\ refs[p] = 0 <=> res[p] \in {"none", "gone"}

(* The part an extraction works on is there until it ends, whatever user   *)
(* code parses, frees, removes or drops from its callbacks (the extracting *)
(* checks of mailparse_msg_free and mailparse_msg_parse).                  *)
ExtractedPartsLive ==
  phase = "running" => \A i \in DOMAIN frames :
    /\ mem[frames[i]] = "live"
    /\ extracting[frames[i]]

(* No part outlives its last use: a live part is in a tree that user code  *)
(* or a running extraction still has a reference into.                     *)
NoUnreachableParts ==
  phase = "running" => \A p \in Part : mem[p] = "live" =>
    \E a \in Closure(parent, p) : held[a] > 0 \/ InFrames(a)

(* A part that user code holds survives its parent: it is freed only by a  *)
(* mailparse_msg_free of that part, when it has no parent, or at shutdown. *)
HeldPartsSurvive ==
  [][phase = "running" => \A p \in Part :
       mem[p] = "live" /\ mem'[p] = "freed" /\ held'[p] > 0
         => parent[p] = NoPart /\ res'[p] = "closed"]_vars

(* The shutdown frees every part, those in the middle of an extraction and *)
(* those a failed call left behind included.                               *)
ShutdownFreesAll ==
  phase = "closing" ~> \A p \in Part : mem[p] # "live" /\ res[p] # "null"

(* The warning of the extract methods: a part that refuses to be extracted *)
(* "is already being extracted".                                           *)
RefusedOnlyWhileExtracting ==
  phase = "running" =>
    \A p \in Part : mem[p] = "live" /\ extracting[p] => InFrames(p)
=============================================================================
