-------------------------- MODULE MimeParseProofs --------------------------
(* What holds of the parser for every heap, alphabet and limit: that its   *)
(* state is well typed, that its parts form a tree, that the tree stays in *)
(* its limits, and that only what claims to be MIME has parts; and, when   *)
(* it is always called on the root part, that the offsets kept for the     *)
(* parts are ordered, nested and disjoint, and that bytes and lines are    *)
(* counted once.                                                           *)
EXTENDS MimeParseTree, Sections, DataProofs

(* Facts about parts and the sets of parts that pointers lead to.          *)

(* Parts are positive numbers, which NULL is not.                          *)
LEMMA PartFacts ==
  /\ Part \subseteq Nat /\ Root \in Part
  /\ \A p \in Part : p \in Nat /\ p > 0 /\ p # NoPart
  BY HeapAssumption DEF Part, Root, NoPart

(* The set of parts reached along links: it holds where it starts, follows *)
(* the links, and lies inside every set that does both.                    *)
LEMMA ClosureFacts ==
  ASSUME NEW f \in [Part -> Part \cup {NoPart}], NEW p \in Part
  PROVE  /\ p \in Closure(f, p)
         /\ Closure(f, p) \subseteq Part
         /\ \A q \in Closure(f, p) : f[q] # NoPart => f[q] \in Closure(f, p)
         /\ \A S \in SUBSET Part :
              (p \in S /\ \A r \in S : f[r] \in S \cup {NoPart})
                => Closure(f, p) \subseteq S
  BY DEF Closure

(* ... and every part of it but the first is a link of another one.        *)
LEMMA ClosureLinks ==
  ASSUME NEW f \in [Part -> Part \cup {NoPart}], NEW p \in Part,
         NEW q \in Closure(f, p), q # p
  PROVE  \E r \in Closure(f, p) : f[r] = q
<1> SUFFICES ASSUME \A r \in Closure(f, p) : f[r] # q PROVE FALSE
  OBVIOUS
<1> DEFINE S == Closure(f, p) \ {q}
<1>1. S \in SUBSET Part /\ p \in S
  BY ClosureFacts
<1>2. \A r \in S : f[r] \in S \cup {NoPart}
  BY ClosureFacts
<1>3. Closure(f, p) \subseteq S
  <2> HIDE DEF S
  <2> QED BY <1>1, <1>2, ClosureFacts
<1> QED BY <1>3

-----------------------------------------------------------------------------
USE DEF NoPart

(* Operators of the header data stay within their types.                   *)
LEMMA HeaderTypes ==
  /\ NoHeader \in Header
  /\ OtherHeader \in Header
  /\ \A h \in Header : Indented(h) \in Header
  /\ \A old, new \in Header : Folded(old, new) \in Header
  /\ \A l \in Line : AsHeader(l) \in Header
<1>1. NoHeader \in Header /\ OtherHeader \in Header
  BY DEF NoHeader, OtherHeader, Header, Versions, ContentTypes
<1>2. ASSUME NEW old \in Header, NEW new \in Header
      PROVE  Folded(old, new) \in Header
  BY <1>1 DEF Folded, Indented, Header, Versions
<1>3. ASSUME NEW l \in Line PROVE AsHeader(l) \in Header
  BY <1>1 DEF AsHeader, Line
<1>4. ASSUME NEW h \in Header PROVE Indented(h) \in Header
  BY <1>1 DEF Indented
<1> QED BY <1>1, <1>2, <1>3, <1>4

LEMMA LineTypes ==
  /\ \A l \in Line : Total(l) \in Nat
  /\ \A old, l \in Line : Glue(old, l) \in Line
  /\ NoWork \in [line : Line, got : Nat]
<1>1. \A l \in Line : Total(l) \in Nat
  BY DEF Total, Line
<1>2. ASSUME NEW old \in Line, NEW l \in Line PROVE Glue(old, l) \in Line
  <2>1. Total(old) + l.len \in Nat /\ l.eol \in Nat /\ l.header \in Header
    BY <1>1 DEF Line
  <2>2. Indented(l.header) \in Header
    BY <2>1, HeaderTypes
  <2>3. [old EXCEPT !.len = Total(old) + l.len, !.eol = l.eol] \in Line
    BY <2>1 DEF Line
  <2> QED BY <2>1, <2>2, <2>3 DEF Glue, Line
<1>3. NoWork \in [line : Line, got : Nat]
  BY HeaderTypes DEF NoWork, Line
<1> QED BY <1>1, <1>2, <1>3

(* What comes in is a line with a terminator, or the rest of one that has  *)
(* begun to; and so is what the parser sees, glued to a stale line or not. *)
LEMMA IncomingType ==
  ASSUME TypeOK, NEW h \in Part, NEW l \in Incoming(h)
  PROVE  /\ l \in Line /\ Total(l) \in Nat /\ Total(l) > 0
         /\ IsFragment(h) => workbuf[h].line = l /\ workbuf[h].got < Total(l)
         /\ Missing(h, l) \in Nat /\ Missing(h, l) <= Total(l)
<1>1. workbuf[h].line \in Line /\ workbuf[h].got \in Nat
  BY DEF TypeOK
<1>2. CASE IsFragment(h)
  <2>1. l = workbuf[h].line /\ workbuf[h].got < Total(l)
    BY <1>2 DEF Incoming, IsFragment
  <2>2. l \in Line /\ Total(l) \in Nat
    BY <1>1, <2>1, LineTypes
  <2>3. Missing(h, l) = Total(l) - workbuf[h].got
    BY <1>2 DEF Missing
  <2> QED BY <1>1, <2>1, <2>2, <2>3
<1>3. CASE ~IsFragment(h)
  <2>1. l \in Lines
    BY <1>3 DEF Incoming
  <2>2. l \in Line /\ l.eol > 0 /\ l.eol \in Nat /\ l.len \in Nat
    BY <2>1, LinesAssumption DEF Line
  <2>3. Total(l) \in Nat /\ Total(l) > 0
    BY <2>2 DEF Total
  <2>4. Missing(h, l) = Total(l)
    BY <1>3, <2>3 DEF Missing
  <2> QED BY <1>3, <2>2, <2>3, <2>4
<1> QED BY <1>2, <1>3

LEMMA ReceivedType ==
  ASSUME TypeOK, NEW h \in Part, NEW l \in Incoming(h)
  PROVE  /\ Received(h, l) \in Line
         /\ Received(h, l).len \in Nat
         /\ Total(Received(h, l)) \in Nat
         /\ Received(h, l).len <= Total(Received(h, l))
         /\ Received(h, l).header \in Header
         /\ Total(Received(h, l)) > 0
<1>1. l \in Line /\ Total(l) \in Nat /\ Total(l) > 0 /\ workbuf[h].line \in Line
  BY IncomingType DEF TypeOK
<1>2. Received(h, l) \in Line
  BY <1>1, LineTypes DEF Received
<1>3. Total(Received(h, l)) > 0
  <2>1. CASE IsStale(h)
    <3>1. /\ Total(Received(h, l)) = Total(workbuf[h].line) + Total(l)
      <4>1. /\ Received(h, l).len = Total(workbuf[h].line) + l.len
            /\ Received(h, l).eol = l.eol
        BY <1>1, <2>1 DEF Received, Glue, Line
      <4>2. l.len \in Nat /\ l.eol \in Nat /\ Total(workbuf[h].line) \in Nat
        BY <1>1, LineTypes DEF Line
      <4> QED BY <4>1, <4>2 DEF Total
    <3>2. Total(workbuf[h].line) \in Nat
      BY <1>1, LineTypes
    <3> QED BY <1>1, <3>1, <3>2
  <2>2. CASE ~IsStale(h)
    BY <1>1, <2>2 DEF Received
  <2> QED BY <2>1, <2>2
<1> QED BY <1>2, <1>3, LineTypes DEF Line, Total

(* What php_mimepart_update_positions leaves are offsets and counts.       *)
LEMMA AdvanceType ==
  ASSUME TypeOK, NEW w \in Part, NEW end \in Nat, NEW bodyEnd \in Nat,
         NEW fresh, NEW start \in Nat,
         Advance(w, end, bodyEnd, inHeader, fresh, start)
  PROVE  /\ startpos' \in [Part -> Nat]
         /\ endpos' \in [Part -> Nat] /\ bodyend' \in [Part -> Nat]
         /\ nlines' \in [Part -> Nat] /\ nbodylines' \in [Part -> Nat]
  BY DEF TypeOK, Advance

LEMMA SucceedType ==
  ASSUME TypeOK, NEW h \in Part, NEW l \in Incoming(h),
         Succeed(h, l)
  PROVE  /\ workbuf' \in [Part -> [line : Line, got : Nat]]
         /\ outcome' \in {"SUCCESS", "FAILURE"}
         /\ fed' \in Nat /\ fedLines' \in Nat
<1>1. Missing(h, l) \in Nat
  BY IncomingType
<1>2. fed' \in Nat /\ fedLines' \in Nat
  BY <1>1 DEF Succeed, Consume, TypeOK
<1>3. workbuf' \in [Part -> [line : Line, got : Nat]]
  BY LineTypes DEF Succeed, TypeOK
<1> QED BY <1>2, <1>3 DEF Succeed

LEMMA FailType ==
  ASSUME TypeOK, NEW h \in Part, NEW l \in Incoming(h),
         Fail(h, l)
  PROVE  /\ workbuf' \in [Part -> [line : Line, got : Nat]]
         /\ outcome' \in {"SUCCESS", "FAILURE"}
         /\ fed' \in Nat /\ fedLines' \in Nat
<1>1. Missing(h, l) \in Nat
  BY IncomingType
<1>2. fed' \in Nat /\ fedLines' \in Nat
  BY <1>1 DEF Fail, Consume, TypeOK
<1>3. [line |-> Received(h, l), got |-> Total(Received(h, l))]
        \in [line : Line, got : Nat]
  BY ReceivedType
<1>4. workbuf' \in [Part -> [line : Line, got : Nat]]
  BY <1>3 DEF Fail, TypeOK
<1> QED BY <1>2, <1>4 DEF Fail

(* What a pending header and the end of the headers leave in a part.       *)
LEMMA EffectTypes ==
  ASSUME TypeOK, NEW w \in Part
  PROVE  /\ HeaderVersion(w) \in Versions /\ FinalVersion(w) \in Versions
         /\ HeaderType(w) \in ContentTypes /\ FinalType(w) \in ContentTypes
         /\ HeaderBoundary(w) \in Boundary \cup {NoBoundary}
         /\ FinalBoundaryOf(w) \in Boundary \cup {NoBoundary}
<1>1. headerbuf[w] \in Header BY DEF TypeOK
<1>2. HeaderVersion(w) \in Versions /\ FinalVersion(w) \in Versions
  BY <1>1 DEF HeaderVersion, FinalVersion, Header, TypeOK, Versions
<1>3. HeaderType(w) \in ContentTypes
  BY <1>1 DEF HeaderType, Header, TypeOK
<1>4. FinalType(w) \in ContentTypes
  BY <1>3 DEF FinalType, DefaultType, ContentTypes
<1>5. HeaderBoundary(w) \in Boundary \cup {NoBoundary}
  BY <1>1 DEF HeaderBoundary, Header, TypeOK
<1>6. FinalBoundaryOf(w) \in Boundary \cup {NoBoundary}
  BY <1>5 DEF FinalBoundaryOf
<1> QED BY <1>2, <1>3, <1>4, <1>5, <1>6

LEMMA EndOfHeadersType ==
  ASSUME TypeOK, NEW w \in Part, NEW x, EndOfHeaders(w, x)
  PROVE  /\ completed' \in [Part -> BOOLEAN]
         /\ mimeVersion' \in [Part -> Versions]
         /\ contentType' \in [Part -> ContentTypes]
         /\ boundary' \in [Part -> Boundary \cup {NoBoundary}]
         /\ headerbuf' \in [Part -> Header]
  BY EffectTypes, HeaderTypes DEF EndOfHeaders, TypeOK

LEMMA StartBodyType ==
  ASSUME TypeOK, NEW w \in Part, NEW h \in Part, NEW l \in Incoming(h), NEW fresh,
         StartBody(w, Received(h, l), fresh)
  PROVE  /\ startpos' \in [Part -> Nat] /\ bodystart' \in [Part -> Nat]
         /\ endpos' \in [Part -> Nat] /\ bodyend' \in [Part -> Nat]
         /\ nlines' \in [Part -> Nat] /\ nbodylines' \in [Part -> Nat]
<1> DEFINE start == endpos[w] + Total(Received(h, l))
<1>1. start \in Nat BY ReceivedType DEF TypeOK
<1>2. Advance(w, start, start, inHeader, fresh, start) BY DEF StartBody
<1>3. bodystart' = [p \in Part |-> IF p \in {w, fresh} THEN start
                                   ELSE bodystart[p]]
  BY DEF StartBody
<1>4. bodystart' \in [Part -> Nat] BY <1>1, <1>3 DEF TypeOK
<1> HIDE DEF start
<1> QED BY <1>1, <1>2, <1>4, AdvanceType

LEMMA AddChildType ==
  ASSUME TypeOK, NEW w \in Part, AddChild(w)
  PROVE  /\ nparts' \in Part /\ Fresh \in Part
         /\ parent' \in [Part -> Part \cup {NoPart}]
         /\ lastpart' \in [Part -> Part \cup {NoPart}]
  BY DEF TypeOK, AddChild, HeapBound, Fresh

-----------------------------------------------------------------------------
(* The parser's state is well typed: offsets and line counts never become  *)
(* negative, whatever is fed, glued after a failure or removed.            *)
THEOREM TypeCorrect == Spec => []TypeOK
<1>1. Init => TypeOK
  BY HeapAssumption, HeaderTypes, LineTypes
     DEF Init, TypeOK, Part, Versions, ContentTypes
<1>2. TypeOK /\ [Next]_vars => TypeOK'
  <2> SUFFICES ASSUME TypeOK, [Next]_vars PROVE TypeOK'
    OBVIOUS
  <2>1. ASSUME NEW h \in Part, NEW l \in Incoming(h), NEW n \in Fragments,
               BufferFragment(h, l, n)
        PROVE  TypeOK'
    <3>1. n \in Nat /\ Received(h, l) \in Line
      BY FragmentsAssumption, ReceivedType
    <3>2. workbuf' \in [Part -> [line : Line, got : Nat]] /\ fed' \in Nat
      <4>1. workbuf[h].got + n \in Nat
        BY <3>1 DEF TypeOK
      <4> QED BY <3>1, <4>1, <2>1 DEF BufferFragment, TypeOK
    <3> QED BY <3>2, <2>1 DEF BufferFragment, TypeOK,
                              treeVars, posVars, headerVars, stateVars
  <2>2. ASSUME NEW h \in Part, NEW l \in Incoming(h), ProcessLine(h, l)
        PROVE  TypeOK'
    <3> USE DEF treeVars, posVars, headerVars, stateVars
    <3> DEFINE x == Received(h, l)
    <3>0. x \in Line /\ x.len \in Nat /\ Total(x) \in Nat
      BY ReceivedType
    <3>1. CASE RefuseTooComplex(h, l)
      BY <2>2, <3>1, FailType DEF RefuseTooComplex, TypeOK
    <3>2. ASSUME NEW w \in Part, AfterFinal(h, l, w) PROVE TypeOK'
      <4>1. endpos[w] + Total(x) \in Nat BY <3>0 DEF TypeOK
      <4> QED BY <4>1, <2>2, <3>2, SucceedType, AdvanceType
              DEF AfterFinal, TypeOK
    <3>3. ASSUME NEW w \in Part, FinalBoundary(h, l, w) PROVE TypeOK'
      <4>1. endpos[w] + Total(x) \in Nat BY <3>0 DEF TypeOK
      <4>2. completed' \in [Part -> BOOLEAN] BY <3>3 DEF FinalBoundary, TypeOK
      <4> QED BY <4>1, <4>2, <2>2, <3>3, SucceedType, AdvanceType
              DEF FinalBoundary, TypeOK
    <3>4. ASSUME NEW w \in Part, NextPart(h, l, w) PROVE TypeOK'
      <4>1. endpos[w] + Total(x) \in Nat /\ endpos[w] + x.len \in Nat
        BY <3>0 DEF TypeOK
      <4>2. /\ bodystart' \in [Part -> Nat]
            /\ mimeVersion' \in [Part -> Versions]
        BY <4>1, <3>4 DEF NextPart, Begin, TypeOK
      <4>3. AddChild(w) BY <3>4 DEF NextPart
      <4> QED BY <4>1, <4>2, <4>3, <2>2, <3>4, AddChildType, SucceedType,
                 AdvanceType DEF NextPart, TypeOK
    <3>5. ASSUME NEW w \in Part, BodyLine(h, l, w) PROVE TypeOK'
      <4>1. endpos[w] + Total(x) \in Nat /\ endpos[w] + x.len \in Nat
        BY <3>0 DEF TypeOK
      <4>2. PICK bodyEnd \in Nat :
              Advance(w, endpos[w] + Total(x), bodyEnd, inHeader, NoPart, 0)
        BY <4>1, <3>5 DEF BodyLine
      <4> QED BY <4>1, <4>2, <2>2, <3>5, SucceedType, AdvanceType
              DEF BodyLine, TypeOK
    <3>6. ASSUME NEW w \in Part, IgnoredLine(h, l, w) PROVE TypeOK'
      BY <2>2, <3>6, SucceedType DEF IgnoredLine, TypeOK
    <3>7. ASSUME NEW w \in Part, HeaderLine(h, l, w) PROVE TypeOK'
      <4>1. endpos[w] + Total(x) \in Nat /\ endpos[w] + x.len \in Nat
        BY <3>0 DEF TypeOK
      <4>2. /\ headerbuf' \in [Part -> Header]
            /\ mimeVersion' \in [Part -> Versions]
            /\ contentType' \in [Part -> ContentTypes]
            /\ boundary' \in [Part -> Boundary \cup {NoBoundary}]
        <5>1. x.header \in Header /\ AsHeader(x) \in Header
          BY ReceivedType, HeaderTypes
        <5>2. Folded(headerbuf[w], x.header) \in Header
          BY <5>1, HeaderTypes DEF TypeOK
        <5> QED BY <5>1, <5>2, <3>7, EffectTypes DEF HeaderLine, TypeOK
      <4> QED BY <4>1, <4>2, <2>2, <3>7, SucceedType, AdvanceType
              DEF HeaderLine, TypeOK
    <3>8. ASSUME NEW w \in Part, EndOfHeadersLeaf(h, l, w) PROVE TypeOK'
      <4>1. inHeader' \in [Part -> BOOLEAN]
        BY <3>8 DEF EndOfHeadersLeaf, TypeOK
      <4> QED BY <4>1, <2>2, <3>8, SucceedType, EndOfHeadersType,
                 StartBodyType DEF EndOfHeadersLeaf, TypeOK
    <3>9. ASSUME NEW w \in Part, EndOfHeadersComposite(h, l, w) PROVE TypeOK'
      <4>1. inHeader' \in [Part -> BOOLEAN]
        BY <3>9 DEF EndOfHeadersComposite, TypeOK
      <4> QED BY <4>1, <2>2, <3>9, SucceedType, EndOfHeadersType,
                 StartBodyType, AddChildType DEF EndOfHeadersComposite, TypeOK
    <3>10. ASSUME NEW w \in Part, EndOfHeadersTooDeep(h, l, w) PROVE TypeOK'
      <4>1. inHeader' \in [Part -> BOOLEAN]
        BY <3>10 DEF EndOfHeadersTooDeep, TypeOK
      <4> QED BY <4>1, <2>2, <3>10, FailType, EndOfHeadersType,
                 StartBodyType DEF EndOfHeadersTooDeep, TypeOK
    <3>11. Down(h) \subseteq Part
      BY DEF Down, Closure
    <3> QED BY <2>2, <3>1, <3>2, <3>3, <3>4, <3>5, <3>6, <3>7, <3>8, <3>9,
               <3>10, <3>11 DEF ProcessLine
  <2>3. ASSUME NEW c \in Removable, RemoveFromParent(c) PROVE TypeOK'
    BY <2>3, HandlesAssumption
       DEF RemoveFromParent, TypeOK, posVars, headerVars, stateVars, inputVars
  <2>4. CASE UNCHANGED vars
    BY <2>4 DEF TypeOK, vars, treeVars, posVars, headerVars, stateVars,
                inputVars
  <2> QED BY <2>1, <2>2, <2>3, <2>4, HandlesAssumption DEF Next
<1> QED BY <1>1, <1>2, PTL DEF Spec

-----------------------------------------------------------------------------
(* The types of the tree's links; the allocated parts are 1 .. nparts.     *)
LEMMA TreeTypes ==
  ASSUME TypeOK
  PROVE  /\ nparts \in Part /\ nparts \in Nat
         /\ parent \in [Part -> Part \cup {NoPart}]
         /\ lastpart \in [Part -> Part \cup {NoPart}]
         /\ inHeader \in [Part -> BOOLEAN]
         /\ completed \in [Part -> BOOLEAN]
         /\ Allocated \subseteq Part
         /\ \A p \in Part : p \in Allocated <=> p <= nparts
         /\ Fresh = nparts + 1 /\ Fresh \in Nat /\ Fresh \notin Allocated
<1>1. nparts \in 1 .. MaxAlloc /\ MaxAlloc \in Nat
  BY HeapAssumption DEF TypeOK, Part
<1>2. /\ Allocated \subseteq Part
      /\ \A p \in Part : p \in Allocated <=> p <= nparts
      /\ Fresh = nparts + 1 /\ Fresh \in Nat /\ Fresh \notin Allocated
  BY <1>1 DEF Allocated, Part, Fresh
<1> QED BY <1>1, <1>2 DEF TypeOK

(* The chain of last children of an allocated part is allocated.           *)
LEMMA DownAllocated ==
  ASSUME TypeOK, TreeOK, NEW h \in Part, h \in Allocated
  PROVE  Down(h) \subseteq Part \cap Allocated
<1> DEFINE S == Part \cap Allocated
<1>1. lastpart \in [Part -> Part \cup {NoPart}]
  BY TreeTypes
<1>2. ASSUME NEW r \in S PROVE lastpart[r] \in S \cup {NoPart}
  <2>1. CASE lastpart[r] = NoPart BY <2>1
  <2>2. CASE lastpart[r] # NoPart
    <3>1. lastpart[r] \in Part /\ parent[lastpart[r]] = r
      BY <1>1, <2>2 DEF TreeOK
    <3> QED BY <3>1, PartFacts DEF TreeOK
  <2> QED BY <2>1, <2>2
<1>3. h \in S /\ S \in SUBSET Part
  OBVIOUS
<1> HIDE DEF S
<1> QED BY <1>1, <1>2, <1>3, ClosureFacts DEF Down, S

(* The part to be allocated next is not linked to yet.                     *)
LEMMA FreshUnlinked ==
  ASSUME TypeOK, TreeOK
  PROVE  \A p \in Part : /\ parent[p] # Fresh /\ lastpart[p] # Fresh
                         /\ parent[p] # NoPart => p < Fresh /\ p # Fresh
                         /\ lastpart[p] # NoPart => p # Fresh
<1>1. ASSUME NEW p \in Part
      PROVE  parent[p] # Fresh /\ (parent[p] # NoPart => p < Fresh /\ p # Fresh)
  <2>1. parent[p] # NoPart => parent[p] < p /\ p <= nparts
    BY <1>1, TreeTypes DEF TreeOK
  <2>2. parent[p] # NoPart => parent[p] \in Nat /\ p \in Nat
    BY <1>1, TreeTypes, PartFacts
  <2> QED BY <2>1, <2>2, TreeTypes
<1>2. ASSUME NEW p \in Part, lastpart[p] # NoPart
      PROVE  lastpart[p] # Fresh /\ p # Fresh
  <2>1. lastpart[p] \in Part /\ parent[lastpart[p]] = p
    BY <1>2, TreeTypes DEF TreeOK
  <2> QED BY <1>1, <2>1, PartFacts
<1>3. Fresh # NoPart BY TreeTypes
<1> QED BY <1>1, <1>2, <1>3

(* Adding a child under an allocated part that is out of its headers, or   *)
(* leaves them with it, keeps the tree.                                    *)
LEMMA AddChildTree ==
  ASSUME TypeOK, TreeOK, NEW w \in Part, w \in Allocated, AddChild(w),
         \A p \in Part : inHeader'[p] => inHeader[p] \/ p = Fresh,
         ~inHeader'[w]
  PROVE  TreeOK'
<1>1. Fresh \in Part /\ w < Fresh /\ w # Fresh /\ nparts' = Fresh
  BY TreeTypes, PartFacts DEF AddChild, HeapBound
<1>2. \A p \in Part : /\ parent'[p] = IF p = Fresh THEN w ELSE parent[p]
                      /\ lastpart'[p] = IF p = w THEN Fresh ELSE lastpart[p]
  BY TreeTypes DEF AddChild
<1>3. \A p \in Part : p \in Allocated' <=> p <= Fresh
  BY <1>1, TreeTypes, PartFacts DEF Allocated
<1>4. \A p \in Part : /\ parent[p] # Fresh /\ lastpart[p] # Fresh
                      /\ parent[p] # NoPart => p < Fresh /\ p # Fresh
  BY FreshUnlinked
<1>5. ASSUME NEW p \in Part, parent'[p] # NoPart
      PROVE  parent'[p] < p /\ p \in Allocated' /\ ~inHeader'[parent'[p]]
  <2>1. CASE p = Fresh
    BY <1>1, <1>2, <1>3, <2>1, TreeTypes
  <2>2. CASE p # Fresh
    <3>1. parent'[p] = parent[p] /\ parent[p] \in Part
      BY <1>2, <1>5, <2>2, TreeTypes
    <3>2. parent[p] < p /\ p < Fresh /\ ~inHeader[parent[p]]
          /\ parent[p] # Fresh
      BY <1>4, <1>5, <3>1 DEF TreeOK
    <3>3. p <= Fresh BY <3>2, PartFacts, TreeTypes
    <3>4. ~inHeader'[parent[p]] BY <3>1, <3>2
    <3> QED BY <1>3, <3>1, <3>2, <3>3, <3>4
  <2> QED BY <2>1, <2>2
<1>6. ASSUME NEW p \in Part, lastpart'[p] # NoPart
      PROVE  /\ parent'[lastpart'[p]] = p
             /\ \A c \in Part : parent'[c] = p => c <= lastpart'[p]
  <2>1. CASE p = w
    <3>1. lastpart'[p] = Fresh BY <1>2, <2>1
    <3>2. ASSUME NEW c \in Part, parent'[c] = p PROVE c <= Fresh
      <4>1. c = Fresh \/ parent[c] # NoPart
        BY <1>2, <3>2, PartFacts
      <4>2. c \in Nat BY PartFacts
      <4> QED BY <1>4, <4>1, <4>2, TreeTypes
    <3> QED BY <1>1, <1>2, <2>1, <3>1, <3>2
  <2>2. CASE p # w
    <3>1. lastpart'[p] = lastpart[p] /\ lastpart[p] \in Part
          /\ lastpart[p] # Fresh
      BY <1>2, <1>4, <1>6, <2>2, TreeTypes
    <3>2. parent[lastpart[p]] = p
          /\ \A c \in Part : parent[c] = p => c <= lastpart[p]
      BY <1>6, <3>1 DEF TreeOK, Children
    <3> QED BY <1>2, <2>2, <3>1, <3>2
  <2> QED BY <2>1, <2>2
<1> QED BY <1>5, <1>6 DEF TreeOK, Children

(* The links of the tree are kept by every step, on whichever part the     *)
(* parser is called and whatever parts are removed.                        *)
THEOREM TreeCorrect == Spec => []TreeOK
<1>1. Init => TreeOK
  BY DEF Init, TreeOK
<1>2. TypeOK /\ TreeOK /\ [Next]_vars => TreeOK'
  <2> SUFFICES ASSUME TypeOK, TreeOK, [Next]_vars PROVE TreeOK'
    OBVIOUS
  <2> USE DEF treeVars, stateVars
  <2>1. ASSUME UNCHANGED treeVars,
               \A p \in Part : inHeader'[p] => inHeader[p]
        PROVE  TreeOK'
    <3>1. \A p \in Part : parent[p] \in Part \cup {NoPart}
      BY TreeTypes
    <3> QED BY <2>1, <3>1 DEF TreeOK, Children, Allocated
  <2>2. ASSUME NEW h \in Part, h \in Allocated, NEW l \in Incoming(h),
               ProcessLine(h, l)
        PROVE  TreeOK'
    <3>1. CASE RefuseTooComplex(h, l)
      BY <2>1, <3>1 DEF RefuseTooComplex
    <3>2. ASSUME NEW w \in Part, w \in Allocated, NextPart(h, l, w)
          PROVE  TreeOK'
      <4>1. ~inHeader[w]
        BY <3>2 DEF NextPart, OpensAt, Looks
      <4> QED BY <3>2, <4>1, AddChildTree DEF NextPart
    <3>3. ASSUME NEW w \in Part, w \in Allocated,
                 EndOfHeadersComposite(h, l, w)
          PROVE  TreeOK'
      <4>1. Fresh \in Part /\ Fresh # w
        BY <3>3, TreeTypes DEF EndOfHeadersComposite, AddChild, HeapBound
      <4>2. \A p \in Part : inHeader'[p] => inHeader[p] \/ p = Fresh
        BY <3>3, <4>1, TreeTypes DEF EndOfHeadersComposite
      <4>3. ~inHeader'[w]
        BY <3>3, <4>1, TreeTypes DEF EndOfHeadersComposite
      <4> QED BY <3>3, <4>2, <4>3, AddChildTree DEF EndOfHeadersComposite
    <3>4. ASSUME NEW w \in Part,
                 \/ AfterFinal(h, l, w) \/ FinalBoundary(h, l, w)
                 \/ BodyLine(h, l, w) \/ IgnoredLine(h, l, w)
                 \/ HeaderLine(h, l, w)
          PROVE  TreeOK'
      BY <2>1, <3>4 DEF AfterFinal, FinalBoundary, BodyLine, IgnoredLine,
                        HeaderLine
    <3>5. ASSUME NEW w \in Part,
                 EndOfHeadersLeaf(h, l, w) \/ EndOfHeadersTooDeep(h, l, w)
          PROVE  TreeOK'
      <4>1. \A p \in Part : inHeader'[p] => inHeader[p]
        BY <3>5, TreeTypes DEF EndOfHeadersLeaf, EndOfHeadersTooDeep
      <4> QED BY <2>1, <3>5, <4>1
              DEF EndOfHeadersLeaf, EndOfHeadersTooDeep
    <3>6. Down(h) \subseteq Part \cap Allocated
      BY <2>2, DownAllocated
    <3> QED BY <2>2, <3>1, <3>2, <3>3, <3>4, <3>5, <3>6 DEF ProcessLine
  <2>3. ASSUME NEW c \in Part, RemoveFromParent(c) PROVE TreeOK'
    <3>1. \A p \in Part :
            /\ parent'[p] = IF p = c THEN NoPart ELSE parent[p]
            /\ lastpart'[p] = IF p = parent[c] /\ lastpart[p] = c
                              THEN NoPart ELSE lastpart[p]
      BY <2>3, TreeTypes DEF RemoveFromParent
    <3>2. /\ inHeader' = inHeader /\ nparts' = nparts
          /\ parent[c] # NoPart
      BY <2>3 DEF RemoveFromParent
    <3>3. ASSUME NEW p \in Part, parent'[p] # NoPart
          PROVE  parent'[p] < p /\ p \in Allocated' /\ ~inHeader'[parent'[p]]
      BY <3>1, <3>2, <3>3 DEF TreeOK, Allocated
    <3>4. ASSUME NEW p \in Part, lastpart'[p] # NoPart
          PROVE  /\ parent'[lastpart'[p]] = p
                 /\ \A d \in Part : parent'[d] = p => d <= lastpart'[p]
      <4>1. lastpart'[p] = lastpart[p] /\ lastpart[p] \in Part
        BY <3>1, <3>4, TreeTypes
      <4>2. parent[lastpart[p]] = p
            /\ \A d \in Part : parent[d] = p => d <= lastpart[p]
        BY <3>4, <4>1 DEF TreeOK, Children
      <4>3. lastpart[p] # c
        BY <3>1, <3>4, <4>2
      <4> QED BY <3>1, <4>1, <4>2, <4>3, PartFacts
    <3> QED BY <3>3, <3>4 DEF TreeOK, Children
  <2>4. CASE UNCHANGED vars
    BY <2>1, <2>4 DEF vars
  <2>5. ASSUME NEW h \in Part, NEW l \in Incoming(h), NEW n \in Fragments,
               BufferFragment(h, l, n)
        PROVE  TreeOK'
    BY <2>1, <2>5 DEF BufferFragment
  <2> QED BY <2>2, <2>3, <2>4, <2>5, HandlesAssumption DEF Next
<1> QED BY <1>1, <1>2, TypeCorrect, PTL DEF Spec

(* The root is in nobody's table.                                          *)
LEMMA RootHasNoParent ==
  ASSUME TypeOK, TreeOK
  PROVE  parent[Root] = NoPart /\ Root \in Allocated
<1>1. parent[Root] \in Part \cup {NoPart}
  BY TreeTypes, PartFacts
<1>2. parent[Root] # NoPart => parent[Root] < Root /\ parent[Root] > 0
  BY <1>1, PartFacts DEF TreeOK
<1>3. parent[Root] = NoPart
  <2> SUFFICES ASSUME parent[Root] \in Part, parent[Root] < Root PROVE FALSE
    BY <1>1, <1>2
  <2>1. parent[Root] \in Nat /\ parent[Root] > 0 BY PartFacts
  <2> QED BY <2>1 DEF Root
<1>4. Root <= nparts
  <2>1. nparts \in Nat /\ nparts > 0 BY TreeTypes, PartFacts
  <2> QED BY <2>1 DEF Root
<1> QED BY <1>3, <1>4, TreeTypes, PartFacts

-----------------------------------------------------------------------------
(* MAXLEVELS and MAXPARTS hold for every message, whichever parts it is     *)
(* parsed through and whatever is removed from it meanwhile.                *)

(* The chain above a part: finite, and nothing on it is younger.            *)
LEMMA UpBelow ==
  ASSUME TypeOK, TreeOK, NEW p \in Part
  PROVE  /\ p \in Up(p) /\ Up(p) \subseteq Part
         /\ \A q \in Up(p) : q <= p
         /\ \A q \in Up(p) : parent[q] # NoPart => parent[q] \in Up(p)
         /\ IsFiniteSet(Up(p)) /\ Cardinality(Up(p)) \in Nat
<1>1. \A q \in Up(p) : q <= p
  <2> DEFINE S == {q \in Part : q <= p}
  <2>1. ASSUME NEW r \in S PROVE parent[r] \in S \cup {NoPart}
    <3>1. CASE parent[r] = NoPart BY <3>1
    <3>2. CASE parent[r] # NoPart
      <4>1. parent[r] \in Part /\ parent[r] < r /\ r \in Part /\ r <= p
        BY <3>2, TreeTypes DEF TreeOK
      <4>2. parent[r] \in Nat /\ r \in Nat /\ p \in Nat
        BY <4>1, PartFacts
      <4> QED BY <4>1, <4>2
    <3> QED BY <3>1, <3>2
  <2>2. p \in S /\ S \in SUBSET Part BY PartFacts
  <2>3. Up(p) \subseteq S
    <3> HIDE DEF S
    <3> QED BY <2>1, <2>2, ClosureFacts, TreeTypes DEF Up
  <2> QED BY <2>3
<1>2. Up(p) \subseteq Part
  BY ClosureFacts, TreeTypes DEF Up
<1>3. IsFiniteSet(Part)
  <2>1. 1 \in Int /\ MaxAlloc \in Int BY HeapAssumption
  <2> QED BY <2>1, FS_Interval DEF Part
<1>4. IsFiniteSet(Up(p)) /\ Cardinality(Up(p)) \in Nat
  BY <1>2, <1>3, FS_Subset, FS_CardinalityType
<1> QED BY <1>1, <1>2, <1>4, ClosureFacts, TreeTypes DEF Up

LEMMA ChildrenFinite == \A p : IsFiniteSet(Children(p)) /\ Cardinality(Children(p)) \in Nat
<1>1. IsFiniteSet(Part)
  <2>1. 1 \in Int /\ MaxAlloc \in Int BY HeapAssumption
  <2> QED BY <2>1, FS_Interval DEF Part
<1>2. \A p : Children(p) \in SUBSET Part
  BY DEF Children
<1> QED BY <1>1, <1>2, FS_Subset, FS_CardinalityType

(* A part is as deep as its last child less one.                            *)
LEMMA ParentsAreShallower ==
  ASSUME TypeOK, TreeOK, NEW p \in Part, lastpart[p] # NoPart
  PROVE  Cardinality(Up(p)) < Cardinality(Up(lastpart[p]))
<1> DEFINE c == lastpart[p]
<1>1. c \in Part /\ parent[c] = p /\ p < c /\ p # NoPart
  BY TreeTypes, PartFacts DEF TreeOK
<1> HIDE DEF c
<1>2. p \in Up(c)
  BY <1>1, UpBelow
<1>3. Up(p) \subseteq Up(c)
  <2>1. Up(c) \in SUBSET Part /\ \A r \in Up(c) : parent[r] \in Up(c) \cup {NoPart}
    BY <1>1, UpBelow
  <2> QED BY <1>2, <2>1, ClosureFacts, TreeTypes DEF Up
<1>4. c \in Up(c) /\ c \notin Up(p)
  <2>1. \A q \in Up(p) : q <= p
    BY UpBelow
  <2>2. p \in Nat /\ c \in Nat
    BY <1>1, PartFacts
  <2> QED BY <1>1, <2>1, <2>2, UpBelow
<1>5. /\ IsFiniteSet(Up(c)) /\ IsFiniteSet(Up(p))
      /\ Cardinality(Up(c)) \in Nat /\ Cardinality(Up(p)) \in Nat
  BY <1>1, UpBelow
<1>6. Cardinality(Up(p)) <= Cardinality(Up(c)) /\ Cardinality(Up(p)) # Cardinality(Up(c))
  BY <1>3, <1>4, <1>5, FS_Subset
<1> QED BY <1>5, <1>6 DEF c

-----------------------------------------------------------------------------
DepthsFit == \A p \in Allocated : Cardinality(Up(p)) <= MaxLevels
RootFits  == Cardinality(Children(Root)) <= MaxChildren + 1

(* A part that is added lies one level below w, and no other moves.         *)
LEMMA AddChildDepth ==
  ASSUME TypeOK, TreeOK, TypeOK', TreeOK', DepthsFit,
         NEW w \in Part, w \in Allocated, MayNest(w), AddChild(w)
  PROVE  DepthsFit'
<1>1. /\ Fresh \in Part /\ nparts' = Fresh
      /\ \A p \in Part : parent'[p] = IF p = Fresh THEN w ELSE parent[p]
      /\ \A p \in Part : p \in Allocated' => p \in Allocated \/ p = Fresh
      /\ Allocated' \subseteq Part
  <2>1. Fresh \in Part /\ nparts' = Fresh
    BY DEF AddChild, HeapBound
  <2>2. \A p \in Part : parent'[p] = IF p = Fresh THEN w ELSE parent[p]
    BY TreeTypes DEF AddChild
  <2>3. Allocated' = Allocated \cup {Fresh}
    BY <2>1, TreeTypes, PartFacts DEF Allocated
  <2> QED BY <2>1, <2>2, <2>3, TreeTypes
<1>2. \A p \in Part : Up(p)' = Closure(parent', p)
  BY DEF Up
<1>3. parent' \in [Part -> Part \cup {NoPart}]
  BY DEF TypeOK
<1>4. ASSUME NEW p \in Allocated PROVE Up(p)' \subseteq Up(p) /\ Fresh \notin Up(p)
  <2>1. p \in Part /\ p <= nparts /\ nparts \in Nat /\ Fresh = nparts + 1 /\ p \in Nat
    BY TreeTypes, PartFacts
  <2>2. Fresh \notin Up(p)
    BY <2>1, UpBelow
  <2>3. Up(p) \in SUBSET Part /\ p \in Up(p)
        /\ \A r \in Up(p) : parent'[r] \in Up(p) \cup {NoPart}
    BY <1>1, <2>1, <2>2, UpBelow
  <2> QED BY <1>2, <1>3, <2>1, <2>2, <2>3, ClosureFacts
<1>5. Closure(parent', Fresh) \subseteq Up(w) \cup {Fresh}
  <2> DEFINE S == Up(w) \cup {Fresh}
  <2>1. S \in SUBSET Part /\ Fresh \in S
    BY <1>1, UpBelow
  <2>2. \A r \in S : parent'[r] \in S \cup {NoPart}
    BY <1>1, <1>4, UpBelow
  <2> HIDE DEF S
  <2>3. Closure(parent', Fresh) \subseteq S
    BY <1>1, <1>3, <2>1, <2>2, ClosureFacts
  <2> QED BY <2>3 DEF S
<1>6. MaxLevels \in Nat
  BY BoundsAssumption
<1>7. ASSUME NEW p \in Allocated PROVE Cardinality(Up(p)') <= MaxLevels
  <2>1. /\ IsFiniteSet(Up(p)) /\ Cardinality(Up(p)) \in Nat
        /\ Cardinality(Up(p)) <= MaxLevels
    BY UpBelow, TreeTypes DEF DepthsFit
  <2>2. IsFiniteSet(Up(p)') /\ Cardinality(Up(p)') <= Cardinality(Up(p))
    BY <1>4, <2>1, FS_Subset
  <2>3. Cardinality(Up(p)') \in Nat
    BY <2>2, FS_CardinalityType
  <2> QED BY <1>6, <2>1, <2>2, <2>3
<1>8. Cardinality(Closure(parent', Fresh)) <= MaxLevels
  <2>1. /\ IsFiniteSet(Up(w)) /\ Cardinality(Up(w)) \in Nat
        /\ Cardinality(Up(w)) < MaxLevels
    BY UpBelow DEF MayNest
  <2>2. /\ IsFiniteSet(Up(w) \cup {Fresh})
        /\ Cardinality(Up(w) \cup {Fresh}) = Cardinality(Up(w)) + 1
    BY <1>4, <2>1, FS_AddElement
  <2>3. /\ IsFiniteSet(Closure(parent', Fresh))
        /\ Cardinality(Closure(parent', Fresh)) <= Cardinality(Up(w) \cup {Fresh})
    BY <1>5, <2>2, FS_Subset
  <2>4. Cardinality(Closure(parent', Fresh)) \in Nat
    BY <2>3, FS_CardinalityType
  <2> QED BY <1>6, <2>1, <2>2, <2>3, <2>4
<1>9. \A p \in Allocated' : Cardinality(Closure(parent', p)) <= MaxLevels
  <2> SUFFICES ASSUME NEW p \in Allocated' PROVE Cardinality(Closure(parent', p)) <= MaxLevels
    OBVIOUS
  <2>1. p \in Part /\ (p \in Allocated \/ p = Fresh)
    BY <1>1
  <2>2. CASE p \in Allocated
    BY <1>2, <1>7, <2>1, <2>2
  <2>3. CASE p = Fresh
    BY <1>8, <2>3
  <2> QED BY <2>1, <2>2, <2>3
<1> QED BY <1>9 DEF DepthsFit, Up

(* A step that adds nothing and takes parts away leaves no part deeper.     *)
LEMMA LinksGoDepth ==
  ASSUME TypeOK, TreeOK, TypeOK', DepthsFit, nparts' = nparts,
         \A p \in Part : parent'[p] \in {parent[p], NoPart}
  PROVE  DepthsFit'
<1>1. \A p \in Part : Up(p)' = Closure(parent', p)
  BY DEF Up
<1>2. parent' \in [Part -> Part \cup {NoPart}] /\ MaxLevels \in Nat
  BY BoundsAssumption DEF TypeOK
<1>3. ASSUME NEW p \in Allocated PROVE Cardinality(Up(p)') <= MaxLevels
  <2>1. /\ p \in Part /\ IsFiniteSet(Up(p)) /\ Cardinality(Up(p)) \in Nat
        /\ Cardinality(Up(p)) <= MaxLevels
    BY UpBelow, TreeTypes DEF DepthsFit
  <2>2. Up(p)' \subseteq Up(p)
    <3>1. Up(p) \in SUBSET Part /\ p \in Up(p)
          /\ \A r \in Up(p) : parent'[r] \in Up(p) \cup {NoPart}
      BY <2>1, UpBelow
    <3> QED BY <1>1, <1>2, <2>1, <3>1, ClosureFacts
  <2>3. IsFiniteSet(Up(p)') /\ Cardinality(Up(p)') <= Cardinality(Up(p))
    BY <2>1, <2>2, FS_Subset
  <2>4. Cardinality(Up(p)') \in Nat
    BY <2>3, FS_CardinalityType
  <2> QED BY <1>2, <2>1, <2>3, <2>4
<1>4. Allocated' = Allocated
  BY DEF Allocated
<1> QED BY <1>3, <1>4 DEF DepthsFit

(* The root is worked on only when the parser is called on it: then it has  *)
(* been tested for MAXPARTS.                                                *)
LEMMA RootOnlyFromRoot ==
  ASSUME TypeOK, TreeOK, NEW h \in Part, Root \in Down(h)
  PROVE  h = Root
<1> SUFFICES ASSUME h # Root PROVE FALSE
  OBVIOUS
<1>1. PICK r \in Down(h) : lastpart[r] = Root
  BY ClosureLinks, TreeTypes DEF Down
<1>2. r \in Part /\ r # NoPart /\ Root # NoPart
  BY ClosureFacts, TreeTypes, PartFacts DEF Down
<1>3. parent[Root] = r
  BY <1>1, <1>2 DEF TreeOK
<1> QED BY <1>2, <1>3, RootHasNoParent

LEMMA RootFitsStep ==
  ASSUME TypeOK, TreeOK, RootFits, NEW h \in Part, NEW w \in Down(h),
         ~TooComplex(h), AddChild(w)
  PROVE  RootFits'
<1>1. /\ w \in Part /\ Fresh \in Part /\ Fresh \notin Children(Root)
      /\ \A p \in Part : parent'[p] = IF p = Fresh THEN w ELSE parent[p]
  <2>1. Fresh \in Part /\ \A p \in Part : parent'[p] = IF p = Fresh THEN w ELSE parent[p]
    BY TreeTypes DEF AddChild, HeapBound
  <2>2. w \in Part
    BY ClosureFacts, TreeTypes DEF Down
  <2>3. Fresh \notin Children(Root)
    BY <2>1, FreshUnlinked, PartFacts DEF Children
  <2> QED BY <2>1, <2>2, <2>3
<1>2. IsFiniteSet(Children(Root)) /\ Cardinality(Children(Root)) \in Nat
      /\ MaxChildren \in Nat
  BY ChildrenFinite, BoundsAssumption
<1>3. CASE w = Root
  <2>1. Cardinality(Children(Root)) <= MaxChildren
    BY <1>2, <1>3, RootOnlyFromRoot DEF TooComplex
  <2>2. Children(Root)' = Children(Root) \cup {Fresh}
    BY <1>1, <1>3 DEF Children, Root
  <2>3. Cardinality(Children(Root) \cup {Fresh}) = Cardinality(Children(Root)) + 1
    BY <1>1, <1>2, FS_AddElement
  <2> QED BY <1>2, <2>1, <2>2, <2>3 DEF RootFits
<1>4. CASE w # Root
  <2>1. Children(Root)' = Children(Root)
    BY <1>1, <1>4 DEF Children, Root
  <2> QED BY <2>1 DEF RootFits
<1> QED BY <1>3, <1>4

LEMMA LimitsStep ==
  ASSUME TypeOK, TreeOK, TypeOK', TreeOK', DepthsFit, RootFits, [Next]_vars
  PROVE  DepthsFit' /\ RootFits'
<1>1. ASSUME UNCHANGED treeVars PROVE DepthsFit' /\ RootFits'
  BY <1>1 DEF treeVars, DepthsFit, RootFits, Up, Children, Allocated
<1>2. ASSUME NEW h \in Part, h \in Allocated, NEW l, ProcessLine(h, l)
      PROVE  DepthsFit' /\ RootFits'
  <2>1. Down(h) \subseteq Part \cap Allocated
    BY <1>2, DownAllocated
  <2>2. ASSUME NEW w \in Down(h), ~TooComplex(h), MayNest(w), AddChild(w)
        PROVE  DepthsFit' /\ RootFits'
    BY <1>2, <2>1, <2>2, AddChildDepth, RootFitsStep
  <2> QED BY <1>1, <1>2, <2>2
          DEF ProcessLine, RefuseTooComplex, AfterFinal, FinalBoundary, NextPart,
              BodyLine, IgnoredLine, HeaderLine, EndOfHeadersLeaf,
              EndOfHeadersComposite, EndOfHeadersTooDeep
<1>3. ASSUME NEW h, NEW l, NEW n, BufferFragment(h, l, n)
      PROVE  DepthsFit' /\ RootFits'
  BY <1>1, <1>3 DEF BufferFragment
<1>4. ASSUME NEW c \in Part, RemoveFromParent(c) PROVE DepthsFit' /\ RootFits'
  <2>1. nparts' = nparts /\ \A p \in Part : parent'[p] \in {parent[p], NoPart}
    BY <1>4, TreeTypes DEF RemoveFromParent
  <2>2. Children(Root)' \subseteq Children(Root)
    BY <2>1, PartFacts DEF Children, Root
  <2>3. /\ IsFiniteSet(Children(Root)) /\ Cardinality(Children(Root)) \in Nat
        /\ IsFiniteSet(Children(Root)')
        /\ Cardinality(Children(Root)') <= Cardinality(Children(Root))
    BY <2>2, ChildrenFinite, FS_Subset
  <2>4. Cardinality(Children(Root)') \in Nat /\ MaxChildren \in Nat
    BY <2>3, FS_CardinalityType, BoundsAssumption
  <2>5. RootFits'
    BY <2>3, <2>4 DEF RootFits
  <2> QED BY <2>1, <2>5, LinksGoDepth
<1>5. CASE UNCHANGED vars
  BY <1>1, <1>5 DEF vars
<1> QED BY <1>2, <1>3, <1>4, <1>5, HandlesAssumption DEF Next

(* MAXLEVELS bounds the depth of every part, a part with a child is never   *)
(* too deep for another one, and the root has at most one child more than   *)
(* MAXPARTS.                                                                *)
THEOREM LimitsCorrect == Spec => []LimitsHold
<1>1. Init => DepthsFit /\ RootFits
  <2> SUFFICES ASSUME Init PROVE DepthsFit /\ RootFits
    OBVIOUS
  <2>1. /\ Allocated = {Root} /\ Root \in Part
        /\ parent \in [Part -> Part \cup {NoPart}]
        /\ \A p \in Part : parent[p] = NoPart /\ p # NoPart
    BY PartFacts DEF Init, Allocated, Root
  <2>2. Up(Root) = {Root}
    <3>1. {Root} \in SUBSET Part /\ \A r \in {Root} : parent[r] \in {Root} \cup {NoPart}
      BY <2>1
    <3> QED BY <2>1, <3>1, ClosureFacts DEF Up
  <2>3. Children(Root) = {}
    BY <2>1, PartFacts DEF Children
  <2>4. Cardinality(Up(Root)) = 1 /\ Cardinality(Children(Root)) = 0
    BY <2>2, <2>3, FS_Singleton, FS_EmptySet
  <2>5. MaxLevels \in Nat \ {0} /\ MaxChildren \in Nat
    BY BoundsAssumption
  <2> QED BY <2>1, <2>4, <2>5 DEF DepthsFit, RootFits
<1>2. TypeOK /\ TreeOK /\ TypeOK' /\ TreeOK' /\ DepthsFit /\ RootFits /\ [Next]_vars
        => DepthsFit' /\ RootFits'
  BY LimitsStep
<1>3. TypeOK /\ TreeOK /\ DepthsFit /\ RootFits => LimitsHold
  <2> SUFFICES ASSUME TypeOK, TreeOK, DepthsFit, NEW p \in Part, lastpart[p] # NoPart
               PROVE  Cardinality(Up(p)) < MaxLevels
    BY DEF LimitsHold, DepthsFit, RootFits
  <2>1. lastpart[p] \in Part /\ lastpart[p] \in Allocated
    <3>1. lastpart[p] \in Part /\ parent[lastpart[p]] = p /\ p # NoPart
      BY TreeTypes, PartFacts DEF TreeOK
    <3> QED BY <3>1 DEF TreeOK
  <2>2. /\ Cardinality(Up(p)) < Cardinality(Up(lastpart[p]))
        /\ Cardinality(Up(lastpart[p])) <= MaxLevels
    BY <2>1, ParentsAreShallower DEF DepthsFit
  <2>3. /\ Cardinality(Up(p)) \in Nat /\ Cardinality(Up(lastpart[p])) \in Nat
        /\ MaxLevels \in Nat
    BY <2>1, UpBelow, BoundsAssumption
  <2> QED BY <2>2, <2>3
<1> QED BY <1>1, <1>2, <1>3, TypeCorrect, TreeCorrect, PTL DEF Spec

-----------------------------------------------------------------------------
(* A part that still reads its headers has no parts of its own.            *)
LEMMA HeadersHaveNoParts ==
  ASSUME TypeOK, TreeOK, NEW p \in Part, inHeader[p]
  PROVE  Children(p) = {}
  BY PartFacts DEF TreeOK, Children

(* What the end of the headers makes of the root: without a version, plain *)
(* text that wants no part.                                                *)
LEMMA RootHeaders ==
  ASSUME TypeOK, TreeOK
  PROVE  FinalVersion(Root) = "1.0"
           \/ /\ FinalType(Root) = "text/plain"
              /\ FinalBoundaryOf(Root) = NoBoundary
              /\ ~WantsChild(Root)
<1>1. parent[Root] = NoPart
  BY RootHasNoParent
<1>2. ASSUME FinalVersion(Root) # "1.0"
      PROVE  FinalType(Root) = "text/plain" /\ FinalBoundaryOf(Root) = NoBoundary
  <2>1. ~IsMime1(Root, FinalVersion(Root))
    BY <1>1, <1>2 DEF IsMime1
  <2>2. FinalType(Root) = "text/plain"
    BY <2>1 DEF FinalType
  <2> QED BY <2>1, <2>2 DEF FinalBoundaryOf
<1> QED BY <1>2 DEF WantsChild

(* A step that adds no part, and that changes what headers say only where  *)
(* they are still being read.                                              *)
LEMMA UnderstoodKept ==
  ASSUME TypeOK, TreeOK, UnderstoodOnly,
         \A p \in Part : parent'[p] \in {parent[p], NoPart},
         \A p \in Part : ~inHeader[p] =>
           /\ ~inHeader'[p] /\ mimeVersion'[p] = mimeVersion[p]
           /\ contentType'[p] = contentType[p] /\ boundary'[p] = boundary[p],
         inHeader[Root] =>
           \/ inHeader'[Root]
           \/ mimeVersion'[Root] = "1.0"
           \/ contentType'[Root] = "text/plain" /\ boundary'[Root] = NoBoundary
  PROVE  UnderstoodOnly'
<1>1. ASSUME NEW p \in Part PROVE Children(p)' \subseteq Children(p)
  BY PartFacts DEF Children
<1>2. Root \in Part /\ Children(Root)' \subseteq Children(Root)
  BY <1>1, PartFacts DEF Children, Root
<1>3. ASSUME NEW p \in Part, Children(p)' # {}
      PROVE  contentType'[p] = "message/rfc822" \/ boundary'[p] # NoBoundary
  <2>1. Children(p) # {} BY <1>1, <1>3
  <2>2. ~inHeader[p] BY <2>1, HeadersHaveNoParts
  <2> QED BY <2>1, <2>2 DEF UnderstoodOnly
<1>4. inHeader'[Root] \/ mimeVersion'[Root] = "1.0"
        \/ /\ contentType'[Root] = "text/plain" /\ boundary'[Root] = NoBoundary
           /\ Children(Root)' = {}
  <2>1. CASE inHeader[Root]
    BY <1>2, <2>1, HeadersHaveNoParts
  <2>2. CASE ~inHeader[Root]
    BY <1>2, <2>2 DEF UnderstoodOnly
  <2> QED BY <2>1, <2>2
<1> QED BY <1>3, <1>4 DEF UnderstoodOnly, Children, Root

(* A step that adds a part to w, which is a message or has a boundary.     *)
LEMMA UnderstoodChild ==
  ASSUME TypeOK, TreeOK, UnderstoodOnly, NEW w \in Part, w \in Allocated,
         AddChild(w),
         contentType'[w] = "message/rfc822" \/ boundary'[w] # NoBoundary,
         w = Root => mimeVersion'[Root] = "1.0",
         \A p \in Part : p \notin {w, Fresh} =>
           /\ inHeader'[p] = inHeader[p] /\ mimeVersion'[p] = mimeVersion[p]
           /\ contentType'[p] = contentType[p] /\ boundary'[p] = boundary[p]
  PROVE  UnderstoodOnly'
<1>1. \A p \in Part : parent'[p] = IF p = Fresh THEN w ELSE parent[p]
  BY TreeTypes DEF AddChild
<1>2. \A p \in Part : p # w => Children(p)' \subseteq Children(p)
  BY <1>1, PartFacts DEF Children
<1>3. Root \in Part /\ Root \in Allocated /\ Root # Fresh /\ w # Fresh
  BY RootHasNoParent, PartFacts, TreeTypes
<1>4. Children(Fresh) = {}
  BY FreshUnlinked DEF Children
<1>5. Root # w => Children(Root)' \subseteq Children(Root)
  BY <1>1, PartFacts DEF Children, Root
<1>6. ASSUME NEW p \in Part, Children(p)' # {}
      PROVE  contentType'[p] = "message/rfc822" \/ boundary'[p] # NoBoundary
  <2>1. CASE p = w BY <2>1
  <2>2. CASE p # w
    <3>1. Children(p) # {} BY <1>2, <1>6, <2>2
    <3>2. p # Fresh BY <1>4, <3>1
    <3> QED BY <2>2, <3>1, <3>2 DEF UnderstoodOnly
  <2> QED BY <2>1, <2>2
<1>7. inHeader'[Root] \/ mimeVersion'[Root] = "1.0"
        \/ /\ contentType'[Root] = "text/plain" /\ boundary'[Root] = NoBoundary
           /\ Children(Root)' = {}
  BY <1>3, <1>5 DEF UnderstoodOnly
<1> QED BY <1>6, <1>7 DEF UnderstoodOnly, Children, Root

(* Whatever is parsed through whichever parts: a message without a MIME    *)
(* version stays one piece of plain text, and only messages and what has a *)
(* boundary have parts.                                                    *)
THEOREM OnlyUnderstood == Spec => []UnderstoodOnly
<1>1. Init => UnderstoodOnly
  BY PartFacts DEF Init, UnderstoodOnly, Children
<1>2. TypeOK /\ TreeOK /\ UnderstoodOnly /\ [Next]_vars => UnderstoodOnly'
  <2> SUFFICES ASSUME TypeOK, TreeOK, UnderstoodOnly, [Next]_vars
               PROVE  UnderstoodOnly'
    OBVIOUS
  <2> USE DEF treeVars, headerVars, stateVars
  <2>1. ASSUME UNCHANGED <<parent, inHeader, mimeVersion, contentType, boundary>>
        PROVE  UnderstoodOnly'
    BY <2>1 DEF UnderstoodOnly, Children
  <2>2. ASSUME NEW h \in Part, h \in Allocated, NEW l \in Incoming(h),
               ProcessLine(h, l)
        PROVE  UnderstoodOnly'
    <3>1. CASE RefuseTooComplex(h, l)
      BY <2>1, <3>1 DEF RefuseTooComplex
    <3>2. ASSUME NEW w \in Part, w \in Allocated, NextPart(h, l, w)
          PROVE  UnderstoodOnly'
      <4>1. ~inHeader[w] /\ boundary[w] # NoBoundary /\ lastpart[w] # NoPart
        BY <3>2 DEF NextPart, OpensAt, Looks
      <4>2. AddChild(w) /\ UNCHANGED <<contentType, boundary, inHeader>>
            /\ \A p \in Part : p # Fresh => mimeVersion'[p] = mimeVersion[p]
        BY <3>2, TreeTypes DEF NextPart, TypeOK
      <4>3. w = Root => mimeVersion[Root] = "1.0"
        BY <4>1 DEF UnderstoodOnly
      <4>4. w # Fresh BY <3>2, TreeTypes
      <4> QED BY <3>2, <4>1, <4>2, <4>3, <4>4, UnderstoodChild
    <3>3. ASSUME NEW w \in Part, w \in Allocated,
                 EndOfHeadersComposite(h, l, w)
          PROVE  UnderstoodOnly'
      <4>1. AddChild(w) /\ WantsChild(w) /\ EndOfHeaders(w, Received(h, l))
        BY <3>3 DEF EndOfHeadersComposite
      <4>2. /\ contentType'[w] = FinalType(w)
            /\ boundary'[w] = FinalBoundaryOf(w)
            /\ mimeVersion'[w] = FinalVersion(w)
            /\ \A p \in Part : p # w =>
                 /\ contentType'[p] = contentType[p]
                 /\ boundary'[p] = boundary[p]
                 /\ mimeVersion'[p] = mimeVersion[p]
        BY <4>1 DEF EndOfHeaders, TypeOK
      <4>3. \A p \in Part : p \notin {w, Fresh} => inHeader'[p] = inHeader[p]
        BY <3>3, TreeTypes DEF EndOfHeadersComposite
      <4>4. w = Root => mimeVersion'[Root] = "1.0"
        BY <4>1, <4>2, RootHeaders
      <4> QED BY <3>3, <4>1, <4>2, <4>3, <4>4, UnderstoodChild DEF WantsChild
    <3>4. ASSUME NEW w \in Part,
                 \/ AfterFinal(h, l, w) \/ FinalBoundary(h, l, w)
                 \/ BodyLine(h, l, w) \/ IgnoredLine(h, l, w)
          PROVE  UnderstoodOnly'
      BY <2>1, <3>4 DEF AfterFinal, FinalBoundary, BodyLine, IgnoredLine
    <3>5. ASSUME NEW w \in Part, HeaderLine(h, l, w) PROVE UnderstoodOnly'
      <4>1. inHeader[w] /\ UNCHANGED <<parent, inHeader>>
        BY <3>5 DEF HeaderLine
      <4>2. \A p \in Part : p # w =>
              /\ contentType'[p] = contentType[p]
              /\ boundary'[p] = boundary[p]
              /\ mimeVersion'[p] = mimeVersion[p]
        BY <3>5 DEF HeaderLine, TypeOK
      <4> QED BY <4>1, <4>2, UnderstoodKept
    <3>6. ASSUME NEW w \in Part,
                 EndOfHeadersLeaf(h, l, w) \/ EndOfHeadersTooDeep(h, l, w)
          PROVE  UnderstoodOnly'
      <4>1. EndOfHeaders(w, Received(h, l)) /\ UNCHANGED parent
            /\ inHeader' = [inHeader EXCEPT ![w] = FALSE]
        BY <3>6 DEF EndOfHeadersLeaf, EndOfHeadersTooDeep
      <4>2. /\ contentType'[w] = FinalType(w) /\ inHeader[w]
            /\ boundary'[w] = FinalBoundaryOf(w)
            /\ mimeVersion'[w] = FinalVersion(w)
            /\ \A p \in Part : p # w =>
                 /\ contentType'[p] = contentType[p]
                 /\ boundary'[p] = boundary[p]
                 /\ mimeVersion'[p] = mimeVersion[p]
        BY <4>1 DEF EndOfHeaders, TypeOK
      <4>3. \A p \in Part : p # w => inHeader'[p] = inHeader[p]
        BY <4>1, TreeTypes
      <4>4. \A p \in Part : ~inHeader[p] =>
              /\ ~inHeader'[p] /\ mimeVersion'[p] = mimeVersion[p]
              /\ contentType'[p] = contentType[p] /\ boundary'[p] = boundary[p]
        BY <4>2, <4>3
      <4>5. inHeader[Root] =>
              \/ inHeader'[Root]
              \/ mimeVersion'[Root] = "1.0"
              \/ contentType'[Root] = "text/plain" /\ boundary'[Root] = NoBoundary
        BY <4>2, <4>3, RootHeaders, PartFacts
      <4> QED BY <4>1, <4>4, <4>5, UnderstoodKept
    <3>7. Down(h) \subseteq Part \cap Allocated
      BY <2>2, DownAllocated
    <3> QED BY <2>2, <3>1, <3>2, <3>3, <3>4, <3>5, <3>6, <3>7 DEF ProcessLine
  <2>3. ASSUME NEW c \in Part, RemoveFromParent(c) PROVE UnderstoodOnly'
    <3>1. \A p \in Part : parent'[p] \in {parent[p], NoPart}
      BY <2>3, TreeTypes DEF RemoveFromParent
    <3> QED BY <2>3, <3>1, UnderstoodKept DEF RemoveFromParent
  <2>4. CASE UNCHANGED vars
    BY <2>1, <2>4 DEF vars
  <2>5. ASSUME NEW h \in Part, NEW l \in Incoming(h), NEW n \in Fragments,
               BufferFragment(h, l, n)
        PROVE  UnderstoodOnly'
    BY <2>1, <2>5 DEF BufferFragment
  <2> QED BY <2>2, <2>3, <2>4, <2>5, HandlesAssumption DEF Next
<1> QED BY <1>1, <1>2, TypeCorrect, TreeCorrect, PTL DEF Spec
-----------------------------------------------------------------------------
(* Extents: all that follows is about a parser that is always called on   *)
(* the root part, whichever parts are removed on the way.                  *)

Unborn ==
  \A p \in Part : p \notin Allocated =>
    nlines[p] = 0 /\ endpos[p] = 0 /\ bodyend[p] = 0

OffsetInv ==
  SpineInSync /\ OrderedExtents /\ NestedExtents /\ SiblingsDisjoint /\ Unborn

(* The parts above the one worked on: a chain of last children that have   *)
(* not ended and that agree on how far the input has been read.            *)
OnSpine(w) ==
  /\ w \in Up(w) /\ Up(w) \subseteq Part
  /\ \A q \in Up(w) : q <= w /\ q \in Allocated
  /\ \A q \in Up(w) : parent[q] # NoPart =>
       parent[q] \in Up(w) /\ lastpart[parent[q]] = q
  /\ \A q \in Up(w) : q # w =>
       lastpart[q] # NoPart /\ lastpart[q] \in Up(w) /\ ~Ended(q)
  /\ \A q \in Up(w) : endpos[q] = endpos[w]

LEMMA DownFromRoot ==
  ASSUME TypeOK, TreeOK, NEW q \in Down(Root), q # Root
  PROVE  /\ parent[q] \in Down(Root) /\ parent[q] # NoPart
         /\ lastpart[parent[q]] = q
<1>1. PICK r \in Down(Root) : lastpart[r] = q
  BY ClosureLinks, TreeTypes, PartFacts DEF Down
<1>2. Down(Root) \subseteq Part
  BY ClosureFacts, TreeTypes, PartFacts DEF Down
<1>3. parent[q] = r
  BY <1>1, <1>2, PartFacts DEF TreeOK
<1> QED BY <1>1, <1>2, <1>3, PartFacts

LEMMA UpFacts ==
  ASSUME TypeOK, TreeOK, NEW w \in Down(Root)
  PROVE  /\ w \in Part /\ w \in Up(w) /\ Up(w) \subseteq Down(Root)
         /\ Down(Root) \subseteq Part \cap Allocated
         /\ \A q \in Up(w) : q <= w
         /\ \A q \in Up(w) : parent[q] # NoPart => parent[q] \in Up(w)
<1>1. Down(Root) \subseteq Part \cap Allocated
  BY RootHasNoParent, DownAllocated, PartFacts
<1>2. w \in Part /\ parent \in [Part -> Part \cup {NoPart}]
  BY <1>1, TreeTypes
<1>3. Up(w) \subseteq Down(Root)
  <2>1. \A r \in Down(Root) : parent[r] \in Down(Root) \cup {NoPart}
    BY DownFromRoot, RootHasNoParent
  <2> QED BY <1>1, <1>2, <2>1, ClosureFacts DEF Up
<1>4. \A q \in Up(w) : q <= w
  <2> DEFINE S == {q \in Part : q <= w}
  <2>1. ASSUME NEW r \in S PROVE parent[r] \in S \cup {NoPart}
    <3>1. CASE parent[r] = NoPart BY <3>1
    <3>2. CASE parent[r] # NoPart
      <4>1. parent[r] \in Part /\ parent[r] < r /\ r \in Part /\ r <= w
        BY <1>2, <3>2 DEF TreeOK
      <4>2. parent[r] \in Nat /\ r \in Nat /\ w \in Nat
        BY <4>1, <1>2, PartFacts
      <4>3. parent[r] <= w BY <4>1, <4>2
      <4> QED BY <4>1, <4>3
    <3> QED BY <3>1, <3>2
  <2>2. w \in S /\ S \in SUBSET Part BY <1>2, PartFacts
  <2>3. Up(w) \subseteq S
    <3> HIDE DEF S
    <3> QED BY <1>2, <2>1, <2>2, ClosureFacts DEF Up
  <2> QED BY <2>3
<1> QED BY <1>1, <1>2, <1>3, <1>4, ClosureFacts DEF Up

(* All that the walk comes to is below the root.                           *)
LEMMA RootAbove ==
  ASSUME TypeOK, TreeOK, NEW w \in Down(Root)
  PROVE  Root \in Up(w)
<1> DEFINE S == {p \in Part : Root \in Up(p)}
<1>1. Root \in S
  BY ClosureFacts, TreeTypes, PartFacts DEF Up
<1>2. ASSUME NEW r \in S, lastpart[r] # NoPart PROVE lastpart[r] \in S
  <2> DEFINE c == lastpart[r]
  <2>1. c \in Part /\ parent[c] = r /\ r \in Part
    BY <1>2, TreeTypes DEF TreeOK
  <2>2. /\ r \in Up(c) /\ Up(c) \in SUBSET Part
        /\ \A q \in Up(c) : parent[q] \in Up(c) \cup {NoPart}
    <3> HIDE DEF c
    <3>1. /\ c \in Up(c) /\ Up(c) \subseteq Part
          /\ \A q \in Up(c) : parent[q] # NoPart => parent[q] \in Up(c)
      BY <2>1, ClosureFacts, TreeTypes DEF Up
    <3> QED BY <2>1, <3>1, PartFacts
  <2>3. Up(r) \subseteq Up(c)
    <3> HIDE DEF c
    <3> QED BY <2>1, <2>2, ClosureFacts, TreeTypes DEF Up
  <2> QED BY <1>2, <2>1, <2>3
<1>3. Down(Root) \subseteq S
  <2>1. S \in SUBSET Part /\ \A r \in S : lastpart[r] \in S \cup {NoPart}
    BY <1>2
  <2> HIDE DEF S
  <2> QED BY <1>1, <2>1, ClosureFacts, TreeTypes, PartFacts DEF Down
<1> QED BY <1>3

(* The part that process_line works on is reached along the spine.         *)
LEMMA WorkOnSpine ==
  ASSUME TypeOK, TreeOK, SpineInSync, NEW x, NEW w,
         WorksOn(Down(Root), x, w)
  PROVE  OnSpine(w)
<1>1. w \in Down(Root) /\ \A p \in Down(Root) : p < w => ~StopsAt(p, x)
  BY DEF WorksOn
<1>2. /\ w \in Part /\ w \in Up(w) /\ Up(w) \subseteq Down(Root)
      /\ Up(w) \subseteq Part /\ \A q \in Up(w) : q \in Allocated
      /\ \A q \in Up(w) : q <= w
      /\ \A q \in Up(w) : parent[q] # NoPart => parent[q] \in Up(w)
  BY <1>1, UpFacts
<1>3. \A q \in Up(w) : parent[q] # NoPart => lastpart[parent[q]] = q
  BY <1>2, DownFromRoot, RootHasNoParent
<1>4. ASSUME NEW q \in Up(w), q # w
      PROVE  lastpart[q] # NoPart /\ lastpart[q] \in Up(w) /\ ~Ended(q)
  <2>1. PICK r \in Up(w) : parent[r] = q
    BY <1>2, <1>4, ClosureLinks, TreeTypes DEF Up
  <2>2. lastpart[q] = r
    BY <1>2, <1>3, <2>1, PartFacts
  <2>3. q < w
    <3>1. q \in Nat /\ w \in Nat /\ q <= w BY <1>2, PartFacts
    <3> QED BY <1>4, <3>1
  <2>4. ~Ended(q)
    BY <1>1, <1>2, <2>3 DEF StopsAt
  <2> QED BY <1>2, <2>1, <2>2, <2>4, PartFacts
<1>5. \A q \in Up(w) : endpos[q] = endpos[w]
  <2> DEFINE S == {q \in Up(w) : endpos[q] = endpos[w]}
  <2>1. ASSUME NEW r \in S PROVE parent[r] \in S \cup {NoPart}
    <3>1. CASE parent[r] = NoPart BY <3>1
    <3>2. CASE parent[r] # NoPart
      <4>1. parent[r] \in Up(w) /\ lastpart[parent[r]] = r
        BY <1>2, <1>3, <3>2
      <4>2. r \in Part /\ parent[r] \in Part /\ parent[r] < r /\ r <= w
        BY <1>2, <3>2, <4>1 DEF TreeOK
      <4>3. parent[r] # w
        BY <1>2, <4>2, PartFacts
      <4>4. endpos[lastpart[parent[r]]] = endpos[parent[r]]
        BY <1>4, <4>1, <4>2, <4>3 DEF SpineInSync
      <4> QED BY <4>1, <4>4
    <3> QED BY <3>1, <3>2
  <2>2. w \in S /\ S \in SUBSET Part BY <1>2
  <2>3. Up(w) \subseteq S
    <3> HIDE DEF S
    <3> QED BY <1>2, <2>1, <2>2, ClosureFacts, TreeTypes DEF Up
  <2> QED BY <2>3
<1> QED BY <1>2, <1>3, <1>4, <1>5 DEF OnSpine

-----------------------------------------------------------------------------
(* The effect of a line on the offsets: the parts above w, w included, get *)
(* new ends; a part fresh may be added under w, where the line ends.       *)
Moves(w, end, bodyEnd, fresh) ==
  /\ end \in Nat /\ bodyEnd \in Nat
  /\ endpos[w] <= bodyEnd /\ bodyEnd <= end
  /\ fresh = NoPart \/ (fresh = Fresh /\ Fresh \in Part)
  /\ nparts' = IF fresh = NoPart THEN nparts ELSE Fresh
  /\ \A p \in Part :
       /\ parent'[p] = IF p = fresh THEN w ELSE parent[p]
       /\ lastpart'[p] = IF fresh # NoPart /\ p = w THEN fresh ELSE lastpart[p]
       /\ startpos'[p] = IF p = fresh THEN end ELSE startpos[p]
       /\ endpos'[p] = IF p = fresh \/ p \in Up(w) THEN end ELSE endpos[p]
       /\ bodyend'[p] = IF p = fresh THEN end
                        ELSE IF p \in Up(w) THEN bodyEnd ELSE bodyend[p]
       /\ p = fresh => bodystart'[p] = end
       /\ p \notin {fresh, w} => bodystart'[p] = bodystart[p]
       /\ p \notin Up(w) => nlines'[p] = nlines[p]
       /\ completed[p] => completed'[p]
  /\ bodystart'[w] = bodystart[w]
       \/ (bodystart'[w] = end /\ bodyEnd = end /\ inHeader[w])
  /\ lastpart'[w] = NoPart \/ Ended(w)' \/ fresh # NoPart

LEMMA MovesOffsets ==
  ASSUME TypeOK, TreeOK, OffsetInv, TypeOK', TreeOK',
         NEW w \in Part, OnSpine(w), NEW end, NEW bodyEnd, NEW fresh,
         Moves(w, end, bodyEnd, fresh)
  PROVE  OffsetInv'
<1> DEFINE moved == Up(w)
<1>1. /\ end \in Nat /\ bodyEnd \in Nat /\ endpos[w] \in Nat
      /\ endpos[w] <= bodyEnd /\ bodyEnd <= end
  BY DEF Moves, TypeOK
<1>2. \A p \in Part :
        /\ parent'[p] = IF p = fresh THEN w ELSE parent[p]
        /\ lastpart'[p] = IF fresh # NoPart /\ p = w THEN fresh ELSE lastpart[p]
        /\ startpos'[p] = IF p = fresh THEN end ELSE startpos[p]
        /\ endpos'[p] = IF p = fresh \/ p \in moved THEN end ELSE endpos[p]
        /\ bodyend'[p] = IF p = fresh THEN end
                         ELSE IF p \in moved THEN bodyEnd ELSE bodyend[p]
        /\ p = fresh => bodystart'[p] = end
        /\ p \notin {fresh, w} => bodystart'[p] = bodystart[p]
        /\ p \notin moved => nlines'[p] = nlines[p]
  BY DEF Moves
<1>3. \A p \in Part :
        /\ startpos[p] \in Nat /\ endpos[p] \in Nat
        /\ bodystart[p] \in Nat /\ bodyend[p] \in Nat /\ nlines[p] \in Nat
        /\ parent[p] # NoPart => parent[p] \in Part
        /\ lastpart[p] # NoPart => lastpart[p] \in Part
  BY DEF TypeOK
<1>4. /\ w \in moved /\ moved \subseteq Part
      /\ \A q \in moved : q <= w /\ q \in Allocated /\ endpos[q] = endpos[w]
      /\ \A q \in moved : parent[q] # NoPart =>
           parent[q] \in moved /\ lastpart[parent[q]] = q
      /\ \A q \in moved : q # w =>
           lastpart[q] # NoPart /\ lastpart[q] \in moved /\ ~Ended(q)
  BY DEF OnSpine
<1>5. fresh # NoPart =>
        /\ fresh = Fresh /\ fresh \in Part /\ fresh \notin moved /\ fresh # w
        /\ fresh \notin Allocated
  BY <1>4, TreeTypes DEF Moves
<1>6. \A p \in Part : p # NoPart
  BY PartFacts
<1>7. \A p \in Part : /\ fresh # NoPart => parent[p] # fresh /\ lastpart[p] # fresh
                      /\ parent[p] # NoPart => p # fresh
                      /\ lastpart[p] # NoPart => p # fresh
  BY <1>5, <1>6, FreshUnlinked
<1>8. \A p \in Part : p \in Allocated' => p \in Allocated \/ p = fresh
  <2>1. \A p \in Part : p \in Nat BY PartFacts
  <2> QED BY <1>5, <2>1, TreeTypes DEF Moves, Allocated
<1> HIDE DEF moved
<1>9. SpineInSync'
  <2> SUFFICES ASSUME NEW p \in Part, lastpart'[p] # NoPart, ~Ended(p)'
               PROVE  endpos'[lastpart'[p]] = endpos'[p]
    BY DEF SpineInSync
  <2>1. CASE p = w
    <3>1. fresh # NoPart BY <2>1 DEF Moves
    <3>2. lastpart'[p] = fresh BY <1>2, <2>1, <3>1
    <3> QED BY <1>2, <1>4, <1>5, <2>1, <3>1, <3>2
  <2>2. CASE p # w
    <3>1. lastpart'[p] = lastpart[p] /\ lastpart[p] \in Part
          /\ lastpart[p] # fresh /\ p # fresh
      BY <1>2, <1>3, <1>6, <1>7, <2>2
    <3>2. ~Ended(p)
      BY <3>1 DEF Ended, Moves
    <3>3. CASE p \in moved
      BY <1>2, <1>4, <2>2, <3>1, <3>3
    <3>4. CASE p \notin moved
      <4>1. parent[lastpart[p]] = p
        BY <3>1 DEF TreeOK
      <4>2. lastpart[p] \notin moved
        BY <1>4, <1>6, <3>4, <4>1
      <4>3. endpos[lastpart[p]] = endpos[p]
        BY <3>1, <3>2 DEF SpineInSync, OffsetInv
      <4> QED BY <1>2, <3>1, <3>4, <4>2, <4>3
    <3> QED BY <3>3, <3>4
  <2> QED BY <2>1, <2>2
<1>10. OrderedExtents'
  <2> SUFFICES ASSUME NEW p \in Part, p \in Allocated'
               PROVE  /\ startpos'[p] <= bodystart'[p]
                      /\ bodystart'[p] <= bodyend'[p]
                      /\ bodyend'[p] <= endpos'[p]
    <3>1. nparts' \in 1 .. MaxAlloc /\ MaxAlloc \in Nat
      BY HeapAssumption DEF TypeOK, Part
    <3>2. Allocated' = 1 .. nparts' BY DEF Allocated
    <3>3. Allocated' \subseteq Part BY <3>1, <3>2 DEF Part
    <3> QED BY <3>3 DEF OrderedExtents
  <2>1. CASE p = fresh
    BY <1>1, <1>2, <2>1
  <2>2. CASE p # fresh
    <3>1. /\ startpos[p] <= bodystart[p] /\ bodystart[p] <= bodyend[p]
          /\ bodyend[p] <= endpos[p]
      BY <1>8, <2>2 DEF OrderedExtents, OffsetInv
    <3>2. CASE p \notin moved
      <4>1. p # w BY <1>4, <3>2
      <4> QED BY <1>2, <2>2, <3>1, <3>2, <4>1
    <3>3. CASE p \in moved
      <4>1. /\ startpos'[p] = startpos[p] /\ bodyend'[p] = bodyEnd
            /\ endpos'[p] = end /\ endpos[p] = endpos[w]
        BY <1>2, <1>4, <2>2, <3>3
      <4>2. bodystart'[p] = bodystart[p]
              \/ (bodystart'[p] = end /\ bodyEnd = end)
        BY <1>2, <2>2 DEF Moves
      <4> QED BY <1>1, <1>3, <3>1, <4>1, <4>2
    <3> QED BY <3>2, <3>3
  <2> QED BY <2>1, <2>2
<1>11. NestedExtents'
  <2> SUFFICES ASSUME NEW p \in Part, parent'[p] # NoPart
               PROVE  /\ bodystart'[parent'[p]] <= startpos'[p]
                      /\ endpos'[p] <= endpos'[parent'[p]]
                      /\ nlines'[p] > 0 =>
                           ReportedEnd(p)' <= ReportedEnd(parent[p])'
    BY DEF NestedExtents
  <2>r. \A q \in Part : ReportedEnd(q)' = IF parent'[q] # NoPart
                                          THEN bodyend'[q] ELSE endpos'[q]
    BY DEF ReportedEnd
  <2>1. CASE p = fresh
    <3>1. parent'[p] = w /\ fresh # NoPart /\ w # fresh
      BY <1>2, <1>5, <1>6, <2>1
    <3>2. startpos'[p] = end /\ endpos'[p] = end /\ endpos'[w] = end
      BY <1>2, <1>4, <2>1
    <3>3. bodystart'[w] <= end
      <4>1. bodystart[w] <= bodyend[w] /\ bodyend[w] <= endpos[w]
        BY <1>4 DEF OrderedExtents, OffsetInv
      <4>2. bodystart'[w] = bodystart[w] \/ bodystart'[w] = end
        BY DEF Moves
      <4> QED BY <1>1, <1>3, <4>1, <4>2
    <3>4. nlines'[p] = 0
      BY <1>2, <1>5, <2>1, <3>1 DEF Unborn, OffsetInv
    <3> QED BY <1>1, <3>1, <3>2, <3>3, <3>4
  <2>2. CASE p # fresh
    <3> DEFINE r == parent[p]
    <3>1. parent'[p] = r /\ r \in Part /\ r # fresh /\ r # NoPart
      BY <1>2, <1>3, <1>6, <1>7, <2>2
    <3>2. /\ bodystart[r] <= startpos[p] /\ endpos[p] <= endpos[r]
          /\ nlines[p] > 0 => ReportedEnd(p) <= ReportedEnd(r)
          /\ ~inHeader[r]
      BY <3>1 DEF NestedExtents, OffsetInv, TreeOK
    <3>3. bodystart'[r] = bodystart[r]
      BY <1>2, <3>1, <3>2 DEF Moves
    <3>4. startpos'[p] = startpos[p]
      BY <1>2, <2>2
    <3>5. parent'[r] = parent[r]
      BY <1>2, <3>1
    <3>6. CASE p \in moved
      <4>1. r \in moved BY <1>4, <3>1, <3>6
      <4>2. /\ endpos'[p] = end /\ endpos'[r] = end
            /\ bodyend'[p] = bodyEnd /\ bodyend'[r] = bodyEnd
        BY <1>2, <2>2, <3>1, <3>6, <4>1
      <4>3. ReportedEnd(p)' = bodyEnd
            /\ (ReportedEnd(r)' = bodyEnd \/ ReportedEnd(r)' = end)
        BY <2>r, <3>1, <4>2 DEF ReportedEnd
      <4> QED BY <1>1, <3>1, <3>2, <3>3, <3>4, <4>2, <4>3 DEF ReportedEnd
    <3>7. CASE p \notin moved /\ r \in moved
      <4>1. /\ endpos'[p] = endpos[p] /\ endpos'[r] = end
            /\ bodyend'[p] = bodyend[p] /\ bodyend'[r] = bodyEnd
            /\ endpos[r] = endpos[w]
        BY <1>2, <1>4, <2>2, <3>1, <3>7
      <4>2. bodyend[p] <= endpos[p]
        BY <3>1 DEF OrderedExtents, OffsetInv, TreeOK
      <4>3. ReportedEnd(p)' = bodyend[p]
            /\ (ReportedEnd(r)' = bodyEnd \/ ReportedEnd(r)' = end)
        BY <3>1, <4>1 DEF ReportedEnd
      <4> QED BY <1>1, <1>3, <3>1, <3>2, <3>3, <3>4, <4>1, <4>2, <4>3
              DEF ReportedEnd
    <3>8. CASE p \notin moved /\ r \notin moved
      <4>1. /\ endpos'[p] = endpos[p] /\ endpos'[r] = endpos[r]
            /\ bodyend'[p] = bodyend[p] /\ bodyend'[r] = bodyend[r]
            /\ nlines'[p] = nlines[p]
        BY <1>2, <2>2, <3>1, <3>8
      <4>2. ReportedEnd(p)' = ReportedEnd(p) /\ ReportedEnd(r)' = ReportedEnd(r)
        BY <3>1, <3>5, <4>1 DEF ReportedEnd
      <4> QED BY <3>1, <3>2, <3>3, <3>4, <4>1, <4>2 DEF ReportedEnd
    <3> QED BY <3>6, <3>7, <3>8
  <2> QED BY <2>1, <2>2
<1>12. SiblingsDisjoint'
  <2> SUFFICES ASSUME NEW p \in Part, NEW q \in Part, parent'[p] # NoPart,
                      parent'[p] = parent'[q], p < q
               PROVE  endpos'[p] <= startpos'[q]
    BY DEF SiblingsDisjoint
  <2>0. p \in Nat /\ q \in Nat BY PartFacts
  <2>1. CASE q = fresh
    <3>1. p # fresh /\ fresh # NoPart
      BY <1>6, <2>0, <2>1
    <3>2. parent[p] = w
      BY <1>2, <2>1, <3>1
    <3>3. p \notin moved
      <4>1. w < p BY <3>2, PartFacts DEF TreeOK
      <4>2. w \in Nat BY PartFacts
      <4> QED BY <1>4, <2>0, <4>1, <4>2
    <3>4. endpos'[p] = endpos[p] /\ startpos'[q] = end
      BY <1>2, <2>1, <3>1, <3>3
    <3>5. endpos[p] <= endpos[w]
      BY <1>6, <3>2 DEF NestedExtents, OffsetInv
    <3> QED BY <1>1, <1>3, <3>4, <3>5
  <2>2. CASE q # fresh
    <3>1. parent'[q] = parent[q] /\ parent[q] \in Part /\ parent[q] # NoPart
      BY <1>2, <1>3, <2>2
    <3>2. p # fresh
      <4> SUFFICES ASSUME p = fresh PROVE FALSE
        OBVIOUS
      <4>1. fresh # NoPart BY <1>6
      <4>2. q < Fresh BY <3>1, FreshUnlinked
      <4> QED BY <1>5, <2>0, <4>1, <4>2, TreeTypes
    <3>3. parent[p] = parent[q]
      BY <1>2, <3>1, <3>2
    <3>4. endpos[p] <= startpos[q]
      BY <3>1, <3>3 DEF SiblingsDisjoint, OffsetInv
    <3>5. p \notin moved
      <4> SUFFICES ASSUME p \in moved PROVE FALSE
        OBVIOUS
      <4>1. lastpart[parent[q]] = p BY <1>4, <3>1, <3>3
      <4>2. q <= p BY <3>1, <4>1, <1>6 DEF TreeOK, Children
      <4> QED BY <2>0, <4>2
    <3> QED BY <1>2, <2>2, <3>2, <3>4, <3>5
  <2> QED BY <2>1, <2>2
<1>13. Unborn'
  <2> SUFFICES ASSUME NEW p \in Part, p \notin Allocated'
               PROVE  nlines'[p] = 0 /\ endpos'[p] = 0 /\ bodyend'[p] = 0
    BY DEF Unborn
  <2>1. p \notin Allocated /\ p # fresh
    <3>1. p \in Nat /\ nparts \in Nat /\ Fresh = nparts + 1
      BY PartFacts, TreeTypes
    <3>2. fresh # NoPart => nparts' = Fresh /\ fresh = Fresh
      BY <1>5 DEF Moves
    <3>3. fresh = NoPart => nparts' = nparts
      BY DEF Moves
    <3>4. p > 0 BY PartFacts
    <3> QED BY <1>6, <3>1, <3>2, <3>3, <3>4 DEF Allocated
  <2>2. p \notin moved
    BY <1>4, <2>1
  <2> QED BY <1>2, <2>1, <2>2 DEF Unborn, OffsetInv
<1> QED BY <1>9, <1>10, <1>11, <1>12, <1>13 DEF OffsetInv

-----------------------------------------------------------------------------
(* What the actions that move offsets have in common.                      *)
LEMMA LineMoves ==
  ASSUME TypeOK, NEW w \in Part, OnSpine(w), NEW end \in Nat, NEW bodyEnd \in Nat,
         endpos[w] <= bodyEnd, bodyEnd <= end, NEW start,
         Advance(w, end, bodyEnd, inHeader, NoPart, start), UNCHANGED treeVars,
         \A p \in Part : completed[p] => completed'[p],
         \A p \in Part : p # w => bodystart'[p] = bodystart[p],
         bodystart'[w] = bodystart[w]
           \/ (bodystart'[w] = end /\ bodyEnd = end /\ inHeader[w]),
         lastpart[w] = NoPart \/ Ended(w)'
  PROVE  Moves(w, end, bodyEnd, NoPart)
<1>1. \A p \in Part : p # NoPart
  BY PartFacts
<1> QED BY <1>1, TreeTypes DEF Moves, Advance, TypeOK, treeVars

LEMMA ChildMoves ==
  ASSUME TypeOK, TreeOK, NEW w \in Part, OnSpine(w),
         NEW end \in Nat, NEW bodyEnd \in Nat,
         endpos[w] <= bodyEnd, bodyEnd <= end,
         Advance(w, end, bodyEnd, inHeader, Fresh, end), AddChild(w),
         UNCHANGED completed, bodystart'[Fresh] = end,
         \A p \in Part : p \notin {w, Fresh} => bodystart'[p] = bodystart[p],
         bodystart'[w] = bodystart[w]
           \/ (bodystart'[w] = end /\ bodyEnd = end /\ inHeader[w])
  PROVE  Moves(w, end, bodyEnd, Fresh)
<1>1. Fresh \in Part /\ Fresh # NoPart /\ nparts' = Fresh /\ Fresh \notin Up(w)
  BY PartFacts, TreeTypes DEF AddChild, HeapBound, OnSpine
<1>2. \A p \in Part :
        /\ parent'[p] = IF p = Fresh THEN w ELSE parent[p]
        /\ lastpart'[p] = IF p = w THEN Fresh ELSE lastpart[p]
  BY TreeTypes DEF AddChild
<1> QED BY <1>1, <1>2 DEF Moves, Advance

LEMMA OffsetsKept ==
  ASSUME Handles \subseteq {Root}
  PROVE  Spec => []OffsetInv
<1>1. Init => OffsetInv
  <2> SUFFICES ASSUME Init PROVE OffsetInv
    OBVIOUS
  <2>1. SpineInSync /\ NestedExtents /\ SiblingsDisjoint /\ Unborn
    BY DEF Init, SpineInSync, NestedExtents, SiblingsDisjoint, Unborn
  <2>2. Allocated = {Root} /\ Root \in Part
    BY PartFacts DEF Init, Allocated, Root
  <2>3. OrderedExtents
    BY <2>2 DEF Init, OrderedExtents
  <2> QED BY <2>1, <2>3 DEF OffsetInv
<1>2. TypeOK /\ TreeOK /\ OffsetInv /\ TypeOK' /\ TreeOK' /\ [Next]_vars
        => OffsetInv'
  <2> SUFFICES ASSUME TypeOK, TreeOK, OffsetInv, TypeOK', TreeOK', [Next]_vars
               PROVE  OffsetInv'
    OBVIOUS
  <2> USE DEF treeVars, posVars, stateVars
  <2>1. ASSUME UNCHANGED <<treeVars, posVars, stateVars>> PROVE OffsetInv'
    BY <2>1 DEF OffsetInv, SpineInSync, OrderedExtents, NestedExtents,
                SiblingsDisjoint, Unborn, Allocated, Ended, ReportedEnd
  <2>2. ASSUME NEW l \in Incoming(Root), ProcessLine(Root, l) PROVE OffsetInv'
    <3> DEFINE x == Received(Root, l)
    <3>1. Total(x) \in Nat /\ x.len \in Nat /\ x.len <= Total(x)
      BY ReceivedType, PartFacts
    <3>2. ASSUME NEW w \in Part, OnSpine(w)
          PROVE  /\ endpos[w] + Total(x) \in Nat /\ endpos[w] + x.len \in Nat
                 /\ endpos[w] <= endpos[w] + x.len
                 /\ endpos[w] + x.len <= endpos[w] + Total(x)
                 /\ endpos[w] <= endpos[w] + Total(x)
      <4>1. endpos[w] \in Nat BY DEF TypeOK
      <4> QED BY <3>1, <4>1
    <3>3. CASE RefuseTooComplex(Root, l)
      BY <2>1, <3>3 DEF RefuseTooComplex
    <3>4. ASSUME NEW w \in Part, OnSpine(w), AfterFinal(Root, l, w)
          PROVE  OffsetInv'
      <4> DEFINE end == endpos[w] + Total(x)
      <4>1. Ended(w)' BY <3>4 DEF AfterFinal, Ended
      <4>2. Moves(w, end, end, NoPart)
        BY <3>2, <3>4, <4>1, LineMoves DEF AfterFinal
      <4> QED BY <3>4, <4>2, MovesOffsets
    <3>5. ASSUME NEW w \in Part, OnSpine(w), FinalBoundary(Root, l, w)
          PROVE  OffsetInv'
      <4> DEFINE end == endpos[w] + Total(x)
      <4>1. lastpart[w] \in Part
        BY <3>5, TreeTypes DEF FinalBoundary, ClosesAt, Looks
      <4>2. Ended(w)' /\ \A p \in Part : completed[p] => completed'[p]
        BY <3>5, <4>1, TreeTypes, PartFacts DEF FinalBoundary, Ended
      <4>3. Moves(w, end, end, NoPart)
        BY <3>2, <3>5, <4>2, LineMoves DEF FinalBoundary
      <4> QED BY <3>5, <4>3, MovesOffsets
    <3>6. ASSUME NEW w \in Part, OnSpine(w), NextPart(Root, l, w)
          PROVE  OffsetInv'
      <4> DEFINE end == endpos[w] + Total(x)
      <4>1. Fresh \in Part /\ Fresh # w
        BY <3>6, TreeTypes DEF NextPart, AddChild, HeapBound, OnSpine
      <4>2. /\ bodystart'[Fresh] = end
            /\ \A p \in Part : p # Fresh => bodystart'[p] = bodystart[p]
        BY <3>6, <4>1 DEF NextPart, Begin
      <4>3. Moves(w, end, endpos[w] + x.len, Fresh)
        BY <3>2, <3>6, <4>1, <4>2, ChildMoves DEF NextPart
      <4> QED BY <3>6, <4>3, MovesOffsets
    <3>7. ASSUME NEW w \in Part, OnSpine(w), BodyLine(Root, l, w)
          PROVE  OffsetInv'
      <4> DEFINE end == endpos[w] + Total(x)
      <4>1. PICK bodyEnd \in {end, endpos[w] + x.len} :
              Advance(w, end, bodyEnd, inHeader, NoPart, 0)
        BY <3>7 DEF BodyLine
      <4>2. Moves(w, end, bodyEnd, NoPart)
        BY <3>2, <3>7, <4>1, LineMoves DEF BodyLine, IsLeaf
      <4> QED BY <3>7, <4>2, MovesOffsets
    <3>8. ASSUME NEW w \in Part, IgnoredLine(Root, l, w) PROVE OffsetInv'
      BY <2>1, <3>8 DEF IgnoredLine
    <3>9. ASSUME NEW w \in Part, OnSpine(w), HeaderLine(Root, l, w)
          PROVE  OffsetInv'
      <4>1. Moves(w, endpos[w] + Total(x), endpos[w] + x.len, NoPart)
        BY <3>2, <3>9, LineMoves DEF HeaderLine, IsLeaf
      <4> QED BY <3>9, <4>1, MovesOffsets
    <3>10. ASSUME NEW w \in Part, OnSpine(w),
                  EndOfHeadersLeaf(Root, l, w) \/ EndOfHeadersTooDeep(Root, l, w)
           PROVE  OffsetInv'
      <4> DEFINE end == endpos[w] + Total(x)
      <4>1. EndOfHeaders(w, x) /\ StartBody(w, x, NoPart) /\ UNCHANGED treeVars
        BY <3>10 DEF EndOfHeadersLeaf, EndOfHeadersTooDeep
      <4>2. /\ Advance(w, end, end, inHeader, NoPart, end)
            /\ bodystart'[w] = end /\ inHeader[w] /\ IsLeaf(w)
            /\ \A p \in Part : p # w => bodystart'[p] = bodystart[p]
            /\ UNCHANGED completed
        BY <4>1, PartFacts DEF EndOfHeaders, StartBody
      <4>3. Moves(w, end, end, NoPart)
        BY <3>2, <3>10, <4>1, <4>2, LineMoves DEF IsLeaf
      <4> QED BY <3>10, <4>3, MovesOffsets
    <3>11. ASSUME NEW w \in Part, OnSpine(w), EndOfHeadersComposite(Root, l, w)
           PROVE  OffsetInv'
      <4> DEFINE end == endpos[w] + Total(x)
      <4>1. EndOfHeaders(w, x) /\ StartBody(w, x, Fresh) /\ AddChild(w)
        BY <3>11 DEF EndOfHeadersComposite
      <4>2. Fresh \in Part
        BY <4>1 DEF AddChild, HeapBound
      <4>3. /\ Advance(w, end, end, inHeader, Fresh, end)
            /\ bodystart'[w] = end /\ bodystart'[Fresh] = end /\ inHeader[w]
            /\ \A p \in Part : p \notin {w, Fresh} => bodystart'[p] = bodystart[p]
            /\ UNCHANGED completed
        BY <4>1, <4>2 DEF EndOfHeaders, StartBody
      <4>4. Moves(w, end, end, Fresh)
        BY <3>2, <3>11, <4>1, <4>3, ChildMoves
      <4> QED BY <3>11, <4>4, MovesOffsets
    <3>12. \A w \in Down(Root) : WorksOn(Down(Root), x, w) =>
             w \in Part /\ OnSpine(w)
      BY WorkOnSpine, UpFacts DEF OffsetInv
    <3> QED BY <2>2, <3>3, <3>4, <3>5, <3>6, <3>7, <3>8, <3>9, <3>10, <3>11,
               <3>12 DEF ProcessLine
  <2>3. ASSUME NEW c \in Part, RemoveFromParent(c) PROVE OffsetInv'
    <3>1. \A p \in Part :
            /\ parent'[p] = IF p = c THEN NoPart ELSE parent[p]
            /\ lastpart'[p] = lastpart[p] \/ lastpart'[p] = NoPart
      BY <2>3, TreeTypes DEF RemoveFromParent
    <3>2. UNCHANGED <<nparts, posVars, stateVars>>
      BY <2>3 DEF RemoveFromParent
    <3>3. SpineInSync'
      BY <3>1, <3>2 DEF OffsetInv, SpineInSync, Ended
    <3>4. OrderedExtents' /\ Unborn'
      BY <3>2 DEF OffsetInv, OrderedExtents, Unborn, Allocated
    <3>5. SiblingsDisjoint'
      BY <3>1, <3>2 DEF OffsetInv, SiblingsDisjoint
    <3>6. NestedExtents'
      <4> SUFFICES ASSUME NEW p \in Part, parent'[p] # NoPart
                   PROVE  /\ bodystart[parent[p]] <= startpos[p]
                          /\ endpos[p] <= endpos[parent[p]]
                          /\ nlines[p] > 0 =>
                               ReportedEnd(p)' <= ReportedEnd(parent[p])'
                          /\ parent'[p] = parent[p]
        BY <3>1, <3>2 DEF NestedExtents
      <4> DEFINE r == parent[p]
      <4>1. parent'[p] = r /\ r \in Part /\ r # NoPart
        BY <3>1, TreeTypes
      <4>2. /\ bodystart[r] <= startpos[p] /\ endpos[p] <= endpos[r]
            /\ nlines[p] > 0 => ReportedEnd(p) <= ReportedEnd(r)
        BY <4>1 DEF NestedExtents, OffsetInv
      <4>3. bodyend[r] <= endpos[r]
        <5>1. r \in Allocated
          <6>1. r < p /\ p <= nparts BY <4>1, TreeTypes DEF TreeOK
          <6>2. r \in Nat /\ p \in Nat /\ nparts \in Nat
            BY <4>1, PartFacts, TreeTypes
          <6>3. r <= nparts BY <6>1, <6>2
          <6> QED BY <4>1, <6>3, TreeTypes
        <5> QED BY <5>1 DEF OrderedExtents, OffsetInv
      <4>4. ReportedEnd(p)' = ReportedEnd(p)
        BY <3>2, <4>1 DEF ReportedEnd
      <4>5. ReportedEnd(r)' = ReportedEnd(r) \/ ReportedEnd(r)' = endpos[r]
        BY <3>1, <3>2, <4>1 DEF ReportedEnd
      <4>6. ReportedEnd(r) <= endpos[r] /\ ReportedEnd(r) \in Nat
            /\ ReportedEnd(p) \in Nat /\ endpos[r] \in Nat
        BY <4>1, <4>3 DEF ReportedEnd, TypeOK
      <4>7. nlines[p] > 0 => ReportedEnd(p)' <= ReportedEnd(r)'
        BY <4>2, <4>4, <4>5, <4>6
      <4> QED BY <4>1, <4>2, <4>7
    <3> QED BY <3>3, <3>4, <3>5, <3>6 DEF OffsetInv
  <2>4. CASE UNCHANGED vars
    BY <2>1, <2>4 DEF vars
  <2>5. ASSUME NEW h \in Part, NEW l \in Incoming(h), NEW n \in Fragments,
               BufferFragment(h, l, n)
        PROVE  OffsetInv'
    BY <2>1, <2>5 DEF BufferFragment
  <2> QED BY <2>2, <2>3, <2>4, <2>5, HandlesAssumption DEF Next
<1> QED BY <1>1, <1>2, TypeCorrect, TreeCorrect, PTL DEF Spec

(* The reported extents fit together in every reachable state, and the     *)
(* parts of the open chain agree on the position in the input.             *)
THEOREM OffsetsCorrect ==
  ASSUME Handles \subseteq {Root}
  PROVE  Spec => [](WellNested /\ SpineInSync)
<1>1. OffsetInv => WellNested /\ SpineInSync
  BY DEF OffsetInv, WellNested
<1> QED BY <1>1, OffsetsKept, PTL

-----------------------------------------------------------------------------
(* Where every byte of the input is.                                       *)

(* The root is nobody's last child, so nothing completes it; and workbuf   *)
(* holds no more than the line it is for.                                  *)
ByteInv ==
  /\ ~completed[Root]
  /\ workbuf[Root].got <= Total(workbuf[Root].line)

Kept == endpos[Root] + workbuf[Root].got

(* More is kept than was fed only of a message that nested too deeply.     *)
NothingLost == fed <= Kept

(* A line adds to fed what it has that was not in workbuf before.          *)
LEMMA ConsumeTotals ==
  ASSUME TypeOK, ByteInv, NEW l \in Incoming(Root),
         Consume(Root, l)
  PROVE  fed' = fed + Total(Received(Root, l)) - workbuf[Root].got
<1> DEFINE old == workbuf[Root].line
           got == workbuf[Root].got
<1>1. /\ l \in Line /\ Total(l) \in Nat /\ l.len \in Nat /\ l.eol \in Nat
      /\ old \in Line /\ got \in Nat /\ Total(old) \in Nat
      /\ got <= Total(old) /\ fed \in Nat
  BY IncomingType, LineTypes, PartFacts DEF TypeOK, Line, ByteInv
<1>2. fed' = fed + (Total(l) - (IF IsFragment(Root) THEN got ELSE 0))
  BY DEF Consume, Missing
<1>3. CASE IsStale(Root)
  <2>1. ~IsFragment(Root) /\ got = Total(old)
    BY <1>1, <1>3 DEF IsStale, IsFragment
  <2>2. /\ Received(Root, l).len = Total(old) + l.len
        /\ Received(Root, l).eol = l.eol
    BY <1>1, <1>3 DEF Received, Glue, Line
  <2>3. Total(Received(Root, l)) = Total(old) + l.len + l.eol
    BY <1>1, <2>2 DEF Total
  <2> QED BY <1>1, <1>2, <2>1, <2>3 DEF Total
<1>4. CASE ~IsStale(Root)
  <2>1. Received(Root, l) = l
    BY <1>4 DEF Received
  <2>2. IsFragment(Root) \/ got = 0
    BY <1>1, <1>4 DEF IsStale, IsFragment
  <2> QED BY <1>1, <1>2, <2>1, <2>2
<1> QED BY <1>3, <1>4

(* What is buffered of a line is still less than the line has.             *)
LEMMA FragmentKeeps ==
  ASSUME TypeOK, ByteInv, NEW l \in Incoming(Root), NEW n \in Nat, n < Missing(Root, l)
  PROVE  workbuf[Root].got + n < Total(Received(Root, l))
<1> DEFINE old == workbuf[Root].line
           got == workbuf[Root].got
<1>1. /\ l \in Line /\ Total(l) \in Nat /\ l.len \in Nat /\ l.eol \in Nat
      /\ old \in Line /\ got \in Nat /\ Total(old) \in Nat
      /\ got <= Total(old)
  BY IncomingType, LineTypes, PartFacts DEF TypeOK, Line, ByteInv
<1>2. n < Total(l) - (IF IsFragment(Root) THEN got ELSE 0)
  BY DEF Missing
<1>3. CASE IsStale(Root)
  <2>1. ~IsFragment(Root) /\ got = Total(old)
    BY <1>1, <1>3 DEF IsStale, IsFragment
  <2>2. /\ Received(Root, l).len = Total(old) + l.len
        /\ Received(Root, l).eol = l.eol
    BY <1>1, <1>3 DEF Received, Glue, Line
  <2>3. Total(Received(Root, l)) = Total(old) + l.len + l.eol
    BY <1>1, <2>2 DEF Total
  <2> QED BY <1>1, <1>2, <2>1, <2>3 DEF Total
<1>4. CASE ~IsStale(Root)
  <2>1. Received(Root, l) = l
    BY <1>4 DEF Received
  <2>2. IsFragment(Root) \/ got = 0
    BY <1>1, <1>4 DEF IsStale, IsFragment
  <2> QED BY <1>1, <1>2, <2>1, <2>2
<1> QED BY <1>3, <1>4

(* A line that fails and moves nothing is in workbuf, with what was there. *)
LEMMA FailKeeps ==
  ASSUME TypeOK, ByteInv, NEW l \in Incoming(Root), Fail(Root, l)
  PROVE  /\ workbuf'[Root].got = Total(Received(Root, l))
         /\ workbuf'[Root].got <= Total(workbuf'[Root].line)
         /\ fed' \in Int
         /\ fed' + workbuf[Root].got = fed + workbuf'[Root].got
<1>1. /\ Total(Received(Root, l)) \in Nat /\ fed \in Nat
      /\ workbuf[Root].got \in Nat
      /\ workbuf'[Root] = [line |-> Received(Root, l),
                           got |-> Total(Received(Root, l))]
  BY ReceivedType, PartFacts DEF TypeOK, Fail
<1>2. fed' = fed + Total(Received(Root, l)) - workbuf[Root].got
  BY ConsumeTotals DEF Fail
<1> QED BY <1>1, <1>2

(* A line that succeeds for w lies in the root, with what was in workbuf.  *)
LEMMA SucceedKeeps ==
  ASSUME TypeOK, TreeOK, SpineInSync, ByteInv, NEW l \in Incoming(Root), Succeed(Root, l),
         NEW w \in Down(Root), OnSpine(w), NEW bodyEnd, NEW fresh, NEW start,
         Root # fresh,
         Advance(w, endpos[w] + Total(Received(Root, l)), bodyEnd, inHeader,
                 fresh, start)
  PROVE  /\ workbuf'[Root].got <= Total(workbuf'[Root].line)
         /\ fed' + Kept = fed + Kept'
<1>1. /\ Total(Received(Root, l)) \in Nat /\ fed \in Nat
      /\ workbuf[Root].got \in Nat /\ endpos[Root] \in Nat
      /\ workbuf'[Root] = NoWork
  BY ReceivedType, PartFacts DEF TypeOK, Succeed
<1>2. fed' = fed + Total(Received(Root, l)) - workbuf[Root].got
  BY ConsumeTotals DEF Succeed
<1>3. endpos[w] = endpos[Root] /\ Root \in Up(w)
  BY RootAbove DEF OnSpine
<1>4. endpos'[Root] = endpos[Root] + Total(Received(Root, l))
  BY <1>3, PartFacts DEF Advance
<1>5. NoWork.got = 0 /\ Total(NoWork.line) = 0
  BY DEF NoWork, Total
<1>6. Kept' = endpos'[Root] + workbuf'[Root].got /\ Root' = Root
  BY DEF Kept, Root
<1> QED BY <1>1, <1>2, <1>4, <1>5, <1>6 DEF Kept

LEMMA RootIsNoChild ==
  ASSUME TypeOK, TreeOK, NEW w \in Part, lastpart[w] # NoPart
  PROVE  lastpart[w] # Root /\ lastpart[w] \in Part
<1>1. lastpart[w] \in Part /\ parent[lastpart[w]] = w
  BY TreeTypes DEF TreeOK
<1> QED BY <1>1, RootHasNoParent, PartFacts

(* A line for the root: either it moves the end of the root by what leaves *)
(* workbuf and is new, or it is the end of headers nested too deeply.      *)
LEMMA LineKeeps ==
  ASSUME TypeOK, TreeOK, SpineInSync, ByteInv, NEW l \in Incoming(Root), ProcessLine(Root, l)
  PROVE  /\ ByteInv'
         /\ \/ fed' + Kept = fed + Kept'
            \/ /\ fed' + Kept < fed + Kept'
               /\ outcome' = "FAILURE" /\ fedLines' > fedLines
               /\ inHeader' # inHeader
<1> DEFINE x == Received(Root, l)
<1>0. /\ Root \in Part /\ Root' = Root /\ Total(x) \in Nat /\ fed \in Nat
      /\ endpos[Root] \in Nat /\ workbuf[Root].got \in Nat
      /\ Kept' = endpos'[Root] + workbuf'[Root].got
  BY ReceivedType, PartFacts DEF TypeOK, Kept, Root
<1>1. CASE RefuseTooComplex(Root, l)
  <2>1. Fail(Root, l) /\ endpos' = endpos /\ completed' = completed
    BY <1>1 DEF RefuseTooComplex, posVars, stateVars
  <2>2. /\ workbuf'[Root].got = Total(x)
        /\ workbuf'[Root].got <= Total(workbuf'[Root].line)
        /\ fed' \in Int /\ fed' + workbuf[Root].got = fed + workbuf'[Root].got
    BY <2>1, FailKeeps
  <2>3. Kept = endpos[Root] + workbuf[Root].got
        /\ Kept' = endpos[Root] + workbuf'[Root].got
    BY <1>0, <2>1 DEF Kept
  <2>4. fed' + Kept = fed + Kept'
    <3>1. /\ workbuf'[Root].got \in Nat /\ workbuf[Root].got \in Nat
          /\ fed \in Nat /\ fed' \in Int /\ endpos[Root] \in Nat
          /\ fed' + workbuf[Root].got = fed + workbuf'[Root].got
      BY <1>0, <2>2
    <3> QED BY <2>3, <3>1
  <2> QED BY <1>0, <2>1, <2>2, <2>4 DEF ByteInv
<1>2. ASSUME NEW w \in Down(Root), OnSpine(w), NEW bodyEnd, NEW fresh, NEW start,
             fresh = NoPart \/ fresh = Fresh,
             Advance(w, endpos[w] + Total(x), bodyEnd, inHeader, fresh, start),
             Succeed(Root, l),
             completed'[Root] => completed[Root]
      PROVE  ByteInv' /\ fed' + Kept = fed + Kept'
  <2>1. Root # fresh
    BY <1>2, RootHasNoParent, TreeTypes, PartFacts
  <2> QED BY <1>0, <1>2, <2>1, SucceedKeeps DEF ByteInv
<1>3. ASSUME NEW w \in Down(Root), OnSpine(w), EndOfHeadersTooDeep(Root, l, w)
      PROVE  ByteInv' /\ fed' + Kept < fed + Kept'
             /\ outcome' = "FAILURE" /\ fedLines' > fedLines
             /\ inHeader' # inHeader
  <2>1. /\ Fail(Root, l) /\ completed' = completed /\ w \in Part /\ inHeader[w]
        /\ inHeader' = [inHeader EXCEPT ![w] = FALSE]
        /\ Advance(w, endpos[w] + Total(x), endpos[w] + Total(x), inHeader,
                   NoPart, endpos[w] + Total(x))
    BY <1>3 DEF EndOfHeadersTooDeep, EndOfHeaders, StartBody, OnSpine
  <2>2. endpos[w] = endpos[Root] /\ Root \in Up(w)
    BY <1>3, RootAbove DEF OnSpine
  <2>3. endpos'[Root] = endpos[Root] + Total(x)
    BY <2>1, <2>2, PartFacts DEF Advance
  <2>4. inHeader' # inHeader
    BY <2>1, TreeTypes
  <2>5. outcome' = "FAILURE" /\ fedLines' > fedLines
    BY <2>1 DEF Fail, Consume, TypeOK
  <2>6. Total(x) > 0
    BY ReceivedType, PartFacts
  <2>7. /\ workbuf'[Root].got = Total(x)
        /\ workbuf'[Root].got <= Total(workbuf'[Root].line)
        /\ fed' + workbuf[Root].got = fed + workbuf'[Root].got
    BY <2>1, FailKeeps
  <2>8. fed' \in Int /\ fed' + Kept < fed + Kept'
    <3>1. fed' = fed + Total(x) - workbuf[Root].got
      BY <2>1, ConsumeTotals DEF Fail
    <3> QED BY <1>0, <2>3, <2>6, <2>7, <3>1 DEF Kept
  <2> QED BY <1>0, <2>1, <2>4, <2>5, <2>7, <2>8 DEF ByteInv
<1>4. ASSUME NEW w \in Down(Root), OnSpine(w) PROVE ~IgnoredLine(Root, l, w)
  <2> SUFFICES ASSUME completed[w] PROVE FALSE
    BY DEF IgnoredLine
  <2>1. w # Root
    BY DEF ByteInv
  <2>2. parent[w] # NoPart /\ lastpart[parent[w]] = w /\ parent[w] \in Down(Root)
    BY <2>1, DownFromRoot
  <2>3. w \in Up(w) /\ parent[w] \in Up(w) /\ w \in Part /\ parent[w] < w
    BY <1>4, <2>2 DEF OnSpine, TreeOK
  <2>4. parent[w] # w
    BY <2>3, PartFacts
  <2>5. ~Ended(parent[w])
    BY <1>4, <2>3, <2>4 DEF OnSpine
  <2> QED BY <2>2, <2>3, <2>5, PartFacts DEF Ended
<1>5. ASSUME NEW w \in Down(Root), OnSpine(w), FinalBoundary(Root, l, w)
      PROVE  completed'[Root] => completed[Root]
  <2>1. w \in Part /\ lastpart[w] # NoPart
    BY <1>5 DEF FinalBoundary, ClosesAt, Looks, OnSpine
  <2>2. lastpart[w] # Root
    BY <2>1, RootIsNoChild
  <2> QED BY <1>5, <2>2, TreeTypes, PartFacts DEF FinalBoundary
<1>6. \A w \in Down(Root) : WorksOn(Down(Root), x, w) => OnSpine(w)
  BY WorkOnSpine
<1>7. ASSUME NEW w \in Down(Root), OnSpine(w),
             \/ AfterFinal(Root, l, w) \/ FinalBoundary(Root, l, w)
             \/ NextPart(Root, l, w) \/ BodyLine(Root, l, w)
             \/ HeaderLine(Root, l, w) \/ EndOfHeadersLeaf(Root, l, w)
             \/ EndOfHeadersComposite(Root, l, w)
      PROVE  ByteInv' /\ fed' + Kept = fed + Kept'
  <2>1. CASE AfterFinal(Root, l, w)
    BY <1>2, <1>7, <2>1 DEF AfterFinal, stateVars
  <2>2. CASE FinalBoundary(Root, l, w)
    BY <1>2, <1>5, <1>7, <2>2 DEF FinalBoundary
  <2>3. CASE NextPart(Root, l, w)
    BY <1>2, <1>7, <2>3 DEF NextPart, stateVars
  <2>4. CASE BodyLine(Root, l, w)
    BY <1>2, <1>7, <2>4 DEF BodyLine, stateVars
  <2>5. CASE HeaderLine(Root, l, w)
    BY <1>2, <1>7, <2>5 DEF HeaderLine, stateVars
  <2>6. CASE EndOfHeadersLeaf(Root, l, w)
    BY <1>2, <1>7, <2>6 DEF EndOfHeadersLeaf, EndOfHeaders, StartBody
  <2>7. CASE EndOfHeadersComposite(Root, l, w)
    BY <1>2, <1>7, <2>7 DEF EndOfHeadersComposite, EndOfHeaders, StartBody
  <2> QED BY <1>7, <2>1, <2>2, <2>3, <2>4, <2>5, <2>6, <2>7
<1> QED BY <1>1, <1>3, <1>4, <1>6, <1>7 DEF ProcessLine

LEMMA Balance ==
  \A a, b, c, d \in Nat :
    /\ a + b = c + d \/ a + b < c + d => a + b <= c + d
    /\ a + b <= c + d /\ c <= b => a <= d
OBVIOUS

LEMMA BytesStep ==
  ASSUME Handles \subseteq {Root},
         TypeOK, TypeOK', TreeOK, SpineInSync, ByteInv, [Next]_vars
  PROVE  /\ ByteInv'
         /\ \/ fed' + Kept = fed + Kept'
            \/ /\ fed' + Kept < fed + Kept'
               /\ outcome' = "FAILURE" /\ fedLines' > fedLines
               /\ inHeader' # inHeader
<1>0. Root \in Part /\ Root' = Root /\ Kept' = endpos'[Root] + workbuf'[Root].got
  BY PartFacts DEF Kept, Root
<1>1. ASSUME UNCHANGED <<completed, endpos, workbuf, fed>>
      PROVE  ByteInv' /\ fed' + Kept = fed + Kept'
  BY <1>0, <1>1 DEF ByteInv, Kept
<1>2. ASSUME NEW l \in Incoming(Root), NEW n \in Fragments, BufferFragment(Root, l, n)
      PROVE  ByteInv' /\ fed' + Kept = fed + Kept'
  <2>1. /\ n \in Nat /\ fed \in Nat /\ endpos[Root] \in Nat
        /\ workbuf[Root].got \in Nat /\ Total(Received(Root, l)) \in Nat
    BY <1>0, FragmentsAssumption, ReceivedType DEF TypeOK
  <2>2. /\ n < Missing(Root, l) /\ fed' = fed + n
        /\ workbuf'[Root] = [line |-> Received(Root, l), got |-> workbuf[Root].got + n]
        /\ UNCHANGED <<endpos, completed>>
    BY <1>0, <1>2 DEF BufferFragment, posVars, stateVars, TypeOK
  <2>3. workbuf[Root].got + n < Total(Received(Root, l))
    BY <2>1, <2>2, FragmentKeeps
  <2>4. ByteInv'
    BY <1>0, <2>1, <2>2, <2>3 DEF ByteInv
  <2>5. Kept' = endpos[Root] + (workbuf[Root].got + n)
    BY <1>0, <2>2
  <2> QED BY <2>1, <2>2, <2>4, <2>5 DEF Kept
<1>3. ASSUME NEW c, RemoveFromParent(c)
      PROVE  UNCHANGED <<completed, endpos, workbuf, fed>>
  BY <1>3 DEF RemoveFromParent, posVars, stateVars, inputVars
<1>4. CASE UNCHANGED vars
  BY <1>1, <1>4 DEF vars, posVars, stateVars, inputVars
<1> QED BY <1>1, <1>2, <1>3, <1>4, LineKeeps DEF Next

(* Of what is fed to the root nothing gets lost, whatever fails; and while *)
(* failures do no work, every byte is in the root part or in workbuf, and  *)
(* is there once.                                                          *)
THEOREM BytesCorrect ==
  ASSUME Handles \subseteq {Root}
  PROVE  /\ Spec => []NothingLost
         /\ Spec /\ FailureDoesNoWork => []BytesAccounted
<1> DEFINE Idle == outcome' = "FAILURE" /\ fedLines' > fedLines
                     => UNCHANGED <<treeVars, posVars, headerVars, stateVars>>
<1>1. Init => ByteInv /\ NothingLost /\ BytesAccounted
  BY PartFacts DEF Init, ByteInv, NothingLost, BytesAccounted, Kept, NoWork, Total
<1>2. TypeOK /\ TypeOK' /\ TreeOK /\ SpineInSync /\ ByteInv /\ [Next]_vars
        => ByteInv' /\ (NothingLost => NothingLost')
                    /\ ([Idle]_vars /\ BytesAccounted => BytesAccounted')
  <2> SUFFICES ASSUME TypeOK, TypeOK', TreeOK, SpineInSync, ByteInv, [Next]_vars
               PROVE  ByteInv' /\ (NothingLost => NothingLost')
                    /\ ([Idle]_vars /\ BytesAccounted => BytesAccounted')
    OBVIOUS
  <2>1. /\ Kept \in Nat /\ Kept' \in Nat /\ fed \in Nat /\ fed' \in Nat
        /\ BytesAccounted = (fed = Kept) /\ BytesAccounted' = (fed' = Kept')
    BY PartFacts DEF TypeOK, Kept, BytesAccounted, Root
  <2>2. ByteInv' /\ fed' + Kept <= fed + Kept'
    <3>1. ByteInv' /\ (fed' + Kept = fed + Kept' \/ fed' + Kept < fed + Kept')
      BY BytesStep
    <3>2. fed' + Kept <= fed + Kept'
      BY <2>1, <3>1, Balance
    <3> QED BY <3>1, <3>2
  <2>3. ASSUME [Idle]_vars, fed = Kept PROVE fed' = Kept'
    <3>1. \/ fed' + Kept = fed + Kept'
          \/ outcome' = "FAILURE" /\ fedLines' > fedLines /\ inHeader' # inHeader
      BY BytesStep
    <3>2. ~(outcome' = "FAILURE" /\ fedLines' > fedLines /\ inHeader' # inHeader)
      BY <2>3 DEF vars, stateVars
    <3> QED BY <2>1, <2>3, <3>1, <3>2
  <2>4. NothingLost => NothingLost'
    <3>1. /\ Kept \in Nat /\ Kept' \in Nat /\ fed \in Nat /\ fed' \in Nat
          /\ fed' + Kept <= fed + Kept'
      BY <2>1, <2>2
    <3>2. fed <= Kept => fed' <= Kept'
      BY <3>1, Balance
    <3> QED BY <3>2 DEF NothingLost
  <2> QED BY <2>1, <2>2, <2>3, <2>4
<1>3. Spec => [](WellNested /\ SpineInSync)
  BY OffsetsCorrect
<1>4. Spec => []NothingLost
  BY <1>1, <1>2, <1>3, TypeCorrect, TreeCorrect, PTL DEF Spec
<1>5. Spec /\ FailureDoesNoWork => []BytesAccounted
  BY <1>1, <1>2, <1>3, TypeCorrect, TreeCorrect, PTL DEF Spec, FailureDoesNoWork
<1> QED BY <1>4, <1>5

-----------------------------------------------------------------------------
(* Sums over sets of parts.                                                *)
LEMMA PartSets ==
  /\ IsFiniteSet(Part)
  /\ \A S \in SUBSET Part : /\ Cardinality(S) \in Nat
                            /\ Cardinality(S) = 0 => S = {}
                            /\ \A x \in S : Cardinality(S \ {x}) < Cardinality(S)
<1>1. IsFiniteSet(Part)
  <2>1. 1 \in Int /\ MaxAlloc \in Int BY HeapAssumption
  <2> QED BY <2>1, FS_Interval DEF Part
<1>2. \A S \in SUBSET Part : IsFiniteSet(S) /\ Cardinality(S) \in Nat
  BY <1>1, FS_Subset, FS_CardinalityType
<1>3. \A S \in SUBSET Part : Cardinality(S) = 0 => S = {}
  BY <1>2, FS_EmptySet
<1> QED BY <1>1, <1>2, <1>3, SizeFacts

(* SumOver adds up a set in whatever order.                                *)
LEMMA SumFacts ==
  ASSUME NEW f \in [Part -> Nat]
  PROVE  /\ SumOver(f, {}) = 0
         /\ \A S \in SUBSET Part :
              /\ SumOver(f, S) \in Nat
              /\ \A x \in S : SumOver(f, S) = f[x] + SumOver(f, S \ {x})
<1> DEFINE c == [S \in SUBSET Part |-> CHOOSE x \in S : TRUE]
<1>1. IsFiniteSet(Part)
  BY PartSets
<1>2. \A S \in SUBSET Part : S # {} => c[S] \in S
  OBVIOUS
<1>3. \A S \in SUBSET Part : c[S] = CHOOSE x \in S : TRUE
  OBVIOUS
<1> HIDE DEF c
<1>s. Summand(f, c, Part)
  BY <1>1, <1>2 DEF Summand
<1>4. PICK g : AddsUp(g, f, c, Part)
  BY <1>s, SumExists
<1>5. \A S \in SUBSET Part : \A x \in S : g[S] = f[x] + g[S \ {x}]
  <2>1. AnyOrder(g, f, Part)
    BY <1>s, <1>4, SumAny
  <2> QED BY <2>1 DEF AnyOrder
<1>6. ASSUME NEW S \in SUBSET Part PROVE SumOver(f, S) = g[S]
  <2> DEFINE Adds(h) == h = [s \in SUBSET S |->
                               IF s = {} THEN 0
                               ELSE f[CHOOSE x \in s : TRUE]
                                    + h[s \ {CHOOSE x \in s : TRUE}]]
             iter == CHOOSE h : Adds(h)
  <2>1. SumOver(f, S) = iter[S]
    BY DEF SumOver, FoldFunctionOnSet, MapThenFoldSet
  <2>2. Adds([s \in SUBSET S |-> g[s]])
    BY <1>2, <1>3, <1>4 DEF AddsUp
  <2>3. Adds(iter)
    BY <2>2
  <2>4. \A s \in SUBSET S : iter[s] = IF s = {} THEN 0
                                      ELSE f[c[s]] + iter[s \ {c[s]}]
    <3>1. \A s \in SUBSET S : iter[s] = IF s = {} THEN 0
                                      ELSE f[CHOOSE x \in s : TRUE]
                                           + iter[s \ {CHOOSE x \in s : TRUE}]
      <4> HIDE DEF iter
      <4> QED BY <2>3
    <3> HIDE DEF iter, Adds
    <3>2. \A s \in SUBSET S : s \in SUBSET Part
      OBVIOUS
    <3> QED BY <1>3, <3>1, <3>2
  <2> HIDE DEF iter
  <2>5. ASSUME NEW s \in SUBSET S,
               \A e \in SUBSET S : Cardinality(e) < Cardinality(s) => iter[e] = g[e]
        PROVE  iter[s] = g[s]
    <3>1. CASE s = {}
      BY <1>4, <2>4, <3>1 DEF AddsUp
    <3>2. CASE s # {}
      <4>1. c[s] \in s /\ s \in SUBSET Part
        BY <1>2, <3>2
      <4>2. Cardinality(s \ {c[s]}) < Cardinality(s)
        BY <1>1, <4>1, SizeFacts
      <4> QED BY <1>4, <2>4, <2>5, <3>2, <4>1, <4>2 DEF AddsUp
    <3> QED BY <3>1, <3>2
  <2>6. \A s \in SUBSET S : iter[s] = g[s]
    <3> DEFINE r == [s \in SUBSET S |-> Cardinality(s)]
    <3>1. r \in [SUBSET S -> Nat]
      BY <1>1, SizeFacts
    <3>2. \A s \in SUBSET S : (\A e \in SUBSET S : r[e] < r[s] => iter[e] = g[e])
                              => iter[s] = g[s]
      BY <2>5
    <3> HIDE DEF r
    <3> QED BY <3>1, <3>2, Unique
  <2> QED BY <2>1, <2>6
<1>7. ASSUME NEW S \in SUBSET Part
      PROVE  /\ SumOver(f, S) \in Nat
             /\ \A x \in S : SumOver(f, S) = f[x] + SumOver(f, S \ {x})
  <2>1. \A x \in S : S \ {x} \in SUBSET Part
    OBVIOUS
  <2>2. SumOver(f, S) \in Nat
    BY <1>4, <1>6 DEF AddsUp
  <2>3. ASSUME NEW x \in S PROVE SumOver(f, S) = f[x] + SumOver(f, S \ {x})
    <3>1. SumOver(f, S) = g[S] /\ SumOver(f, S \ {x}) = g[S \ {x}]
      BY <1>6, <2>1
    <3> QED BY <1>5, <3>1
  <2> QED BY <2>2, <2>3
<1>8. SumOver(f, {}) = 0
  BY <1>4, <1>6 DEF AddsUp
<1> QED BY <1>7, <1>8

(* A part of a sum is no more than the sum.                                *)
LEMMA SumMono ==
  ASSUME NEW f \in [Part -> Nat]
  PROVE  \A S \in SUBSET Part : \A T \in SUBSET S : SumOver(f, T) <= SumOver(f, S)
<1> DEFINE N == {n \in Nat : \A S \in SUBSET Part : Cardinality(S) < n =>
                   \A T \in SUBSET S : SumOver(f, T) <= SumOver(f, S)}
<1>0. \A S \in SUBSET Part : /\ Cardinality(S) \in Nat
                             /\ \A x \in S : Cardinality(S \ {x}) < Cardinality(S)
  BY PartSets
<1>1. 0 \in N
  BY <1>0
<1>2. ASSUME NEW n \in Nat, n \in N PROVE n + 1 \in N
  <2> SUFFICES ASSUME NEW S \in SUBSET Part, Cardinality(S) < n + 1,
                      NEW T \in SUBSET S
               PROVE  SumOver(f, T) <= SumOver(f, S)
    OBVIOUS
  <2>0. SumOver(f, S) \in Nat /\ SumOver(f, T) \in Nat
    BY SumFacts
  <2>1. CASE T = S
    BY <2>0, <2>1
  <2>2. CASE T # S
    <3>1. PICK x \in S : x \notin T
      BY <2>2
    <3>2. S \ {x} \in SUBSET Part /\ T \in SUBSET (S \ {x}) /\ Cardinality(S \ {x}) < n
      BY <1>0, <3>1
    <3>3. SumOver(f, T) <= SumOver(f, S \ {x})
      BY <1>2, <3>2
    <3>4. /\ SumOver(f, S) = f[x] + SumOver(f, S \ {x}) /\ f[x] \in Nat
          /\ SumOver(f, S \ {x}) \in Nat
      BY <3>1, <3>2, SumFacts
    <3> QED BY <2>0, <3>3, <3>4
  <2> QED BY <2>1, <2>2
<1>3. Nat \subseteq N
  <2> HIDE DEF N
  <2> QED BY <1>1, <1>2, Induct
<1>4. ASSUME NEW S \in SUBSET Part, NEW T \in SUBSET S
      PROVE  SumOver(f, T) <= SumOver(f, S)
  <2>1. Cardinality(S) + 1 \in N /\ Cardinality(S) < Cardinality(S) + 1
    BY <1>0, <1>3
  <2> QED BY <2>1
<1> QED BY <1>4

(* A sum depends on its summands only.                                     *)
LEMMA SumSame ==
  ASSUME NEW f \in [Part -> Nat], NEW g \in [Part -> Nat]
  PROVE  \A S \in SUBSET Part : (\A x \in S : g[x] = f[x])
                                  => SumOver(g, S) = SumOver(f, S)
<1> DEFINE N == {n \in Nat : \A S \in SUBSET Part :
                   Cardinality(S) < n /\ (\A x \in S : g[x] = f[x])
                     => SumOver(g, S) = SumOver(f, S)}
<1>0. \A S \in SUBSET Part : /\ Cardinality(S) \in Nat
                             /\ \A x \in S : Cardinality(S \ {x}) < Cardinality(S)
  BY PartSets
<1>1. 0 \in N
  BY <1>0
<1>2. ASSUME NEW n \in Nat, n \in N PROVE n + 1 \in N
  <2> SUFFICES ASSUME NEW S \in SUBSET Part, Cardinality(S) < n + 1,
                      \A x \in S : g[x] = f[x]
               PROVE  SumOver(g, S) = SumOver(f, S)
    OBVIOUS
  <2>1. CASE S = {}
    BY <2>1, SumFacts
  <2>2. CASE S # {}
    <3>1. PICK x \in S : TRUE
      BY <2>2
    <3>2. S \ {x} \in SUBSET Part /\ Cardinality(S \ {x}) < n
      BY <1>0, <3>1
    <3>3. SumOver(g, S \ {x}) = SumOver(f, S \ {x})
      BY <1>2, <3>2
    <3>4. /\ SumOver(f, S) = f[x] + SumOver(f, S \ {x})
          /\ SumOver(g, S) = g[x] + SumOver(g, S \ {x})
      BY <3>1, SumFacts
    <3> QED BY <3>3, <3>4
  <2> QED BY <2>1, <2>2
<1>3. Nat \subseteq N
  <2> HIDE DEF N
  <2> QED BY <1>1, <1>2, Induct
<1>4. ASSUME NEW S \in SUBSET Part, \A x \in S : g[x] = f[x]
      PROVE  SumOver(g, S) = SumOver(f, S)
  <2>1. Cardinality(S) + 1 \in N /\ Cardinality(S) < Cardinality(S) + 1
    BY <1>0, <1>3
  <2> QED BY <1>4, <2>1
<1> QED BY <1>4

(* A sum of which one summand grows by one grows by one.                   *)
LEMMA SumGrows ==
  ASSUME NEW f \in [Part -> Nat], NEW g \in [Part -> Nat],
         NEW S \in SUBSET Part, NEW c \in S, g[c] = f[c] + 1,
         \A x \in S \ {c} : g[x] = f[x]
  PROVE  SumOver(g, S) = SumOver(f, S) + 1
<1>1. SumOver(g, S \ {c}) = SumOver(f, S \ {c})
  BY SumSame
<1>2. /\ SumOver(g, S) = g[c] + SumOver(g, S \ {c})
      /\ SumOver(f, S) = f[c] + SumOver(f, S \ {c})
      /\ f[c] \in Nat /\ SumOver(f, S \ {c}) \in Nat
  BY SumFacts
<1> QED BY <1>1, <1>2

-----------------------------------------------------------------------------
(* What is not allocated has no lines: a part starts with none.            *)
LinesInv ==
  /\ LinesFit
  /\ \A p \in Part : p \notin Allocated => nbodylines[p] = 0

(* A line adds one line to the parts above w, w included, and one body     *)
(* line to those of them that are out of their headers.                    *)
Counts(w, end, fresh) ==
  /\ end \in Nat /\ endpos[w] < end
  /\ fresh = NoPart \/ (fresh = Fresh /\ Fresh \in Part)
  /\ nparts' = IF fresh = NoPart THEN nparts ELSE Fresh
  /\ \A p \in Part :
       /\ parent'[p] = IF p = fresh THEN w ELSE parent[p]
       /\ startpos'[p] = IF p = fresh THEN end ELSE startpos[p]
       /\ endpos'[p] = IF p = fresh \/ p \in Up(w) THEN end ELSE endpos[p]
       /\ nlines'[p] = IF p \in Up(w) THEN nlines[p] + 1 ELSE nlines[p]
       /\ nbodylines'[p] = IF p \in Up(w) /\ ~inHeader[p]
                           THEN nbodylines[p] + 1 ELSE nbodylines[p]
       /\ p \notin {w, fresh} => inHeader'[p] = inHeader[p]

(* The lines of the children of p after a line for w.                      *)
LEMMA CountsChildren ==
  ASSUME TypeOK, TreeOK, Unborn, LinesInv, TypeOK',
         NEW w \in Part, OnSpine(w), NEW end, NEW fresh, Counts(w, end, fresh),
         NEW p \in Part, p \in Allocated, ~inHeader'[p]
  PROVE  SumOver(nlines', Children(p)') <= nbodylines'[p]
<1> DEFINE kids == Children(p)
           kids2 == Children(p)'
<1> SUFFICES SumOver(nlines', kids2) <= nbodylines'[p]
  OBVIOUS
<1>0. /\ nlines \in [Part -> Nat] /\ nlines' \in [Part -> Nat]
      /\ nbodylines[p] \in Nat /\ nbodylines'[p] \in Nat
      /\ kids \in SUBSET Part /\ kids2 \in SUBSET Part
      /\ p # fresh
  BY TreeTypes, PartFacts DEF TypeOK, Children, Counts
<1>1. \A c \in Part : /\ c \in kids <=> parent[c] = p
                      /\ c \in kids2 <=> parent'[c] = p
  BY DEF Children
<1>2. \A c \in Part : /\ parent'[c] = IF c = fresh THEN w ELSE parent[c]
                      /\ nlines'[c] = IF c \in Up(w) THEN nlines[c] + 1
                                                     ELSE nlines[c]
  BY DEF Counts
<1>3. nbodylines'[p] = IF p \in Up(w) /\ ~inHeader[p]
                       THEN nbodylines[p] + 1 ELSE nbodylines[p]
  BY DEF Counts
<1>4. /\ \A q \in Up(w) : q <= w /\ q \in Part
      /\ \A q \in Up(w) : parent[q] # NoPart =>
           parent[q] \in Up(w) /\ lastpart[parent[q]] = q
      /\ \A q \in Up(w) : q # w => lastpart[q] # NoPart /\ lastpart[q] \in Up(w)
      /\ w \in Up(w)
  BY DEF OnSpine
<1>5. fresh \in Part => parent[fresh] = NoPart /\ fresh \notin Up(w)
                         /\ nlines[fresh] = 0
  BY FreshUnlinked, PartFacts, TreeTypes DEF Counts, OnSpine, Unborn
<1>6. p # NoPart
  BY PartFacts
<1>k. \A c \in kids : c # fresh /\ c \in Part /\ parent[c] = p /\ p < c
  BY <1>0, <1>1, <1>5, <1>6 DEF TreeOK
<1>7. CASE inHeader[p]
  <2>1. kids = {} /\ p = w
    BY <1>0, <1>7, HeadersHaveNoParts DEF Counts
  <2>2. \A c \in kids2 : c \in Part /\ c = fresh /\ nlines'[c] = 0
    BY <1>0, <1>1, <1>2, <1>5, <2>1
  <2>3. SumOver(nlines', kids2) = 0
    <3>1. CASE kids2 = {}
      BY <1>0, <3>1, SumFacts
    <3>2. CASE kids2 # {}
      <4>1. PICK c \in kids2 : kids2 \ {c} = {}
        BY <2>2, <3>2
      <4>2. SumOver(nlines', kids2) = nlines'[c] + SumOver(nlines', {})
        <5> HIDE DEF kids2
        <5> QED BY <1>0, <4>1, SumFacts
      <4> QED BY <1>0, <2>2, <4>1, <4>2, SumFacts
    <3> QED BY <3>1, <3>2
  <2> QED BY <1>0, <2>3
<1>8. CASE ~inHeader[p]
  <2> HIDE DEF kids, kids2
  <2>1. SumOver(nlines, kids) <= nbodylines[p] /\ SumOver(nlines, kids) \in Nat
    BY <1>0, <1>8, SumFacts DEF LinesInv, LinesFit, kids
  <2>2. CASE p \in Up(w) /\ p # w
    <3> DEFINE c == lastpart[p]
    <3>1. c \in Up(w) /\ c \in Part /\ parent[c] = p
      BY <1>4, <2>2 DEF TreeOK
    <3>2. kids2 = kids
      BY <1>0, <1>1, <1>2, <1>5, <1>6, <2>2
    <3>3. c \in kids /\ nlines'[c] = nlines[c] + 1
      BY <1>1, <1>2, <3>1
    <3>4. \A d \in kids \ {c} : nlines'[d] = nlines[d]
      BY <1>1, <1>2, <1>4, <1>6, <1>k
    <3>5. SumOver(nlines', kids) = SumOver(nlines, kids) + 1
      <4> HIDE DEF c
      <4> QED BY <1>0, <3>3, <3>4, SumGrows
    <3> QED BY <1>0, <1>3, <1>8, <2>1, <2>2, <3>2, <3>5
  <2>3. CASE p \notin Up(w)
    <3>0. p # w
      BY <1>4, <2>3
    <3>1. kids2 = kids
      BY <1>0, <1>1, <1>2, <1>5, <1>6, <3>0
    <3>2. \A d \in kids : nlines'[d] = nlines[d]
      BY <1>2, <1>4, <1>6, <1>k, <2>3
    <3>3. SumOver(nlines', kids) = SumOver(nlines, kids)
      BY <1>0, <3>2, SumSame
    <3> QED BY <1>0, <1>3, <2>1, <2>3, <3>1, <3>3
  <2>4. CASE p = w
    <3>1. \A d \in kids : nlines'[d] = nlines[d] /\ d \in kids2
      <4> SUFFICES ASSUME NEW d \in kids
                   PROVE  nlines'[d] = nlines[d] /\ d \in kids2
        OBVIOUS
      <4>1. d \in Part /\ p < d /\ d # fresh /\ parent[d] = p
        BY <1>k
      <4>2. d \notin Up(w)
        <5>1. d \in Nat /\ w \in Nat /\ w < d
          BY <2>4, <4>1, PartFacts
        <5> QED BY <1>4, <5>1
      <4> QED BY <1>1, <1>2, <4>1, <4>2
    <3>2. SumOver(nlines', kids) = SumOver(nlines, kids)
      BY <1>0, <3>1, SumSame
    <3>3. SumOver(nlines', kids2) = SumOver(nlines', kids)
      <4>1. CASE kids2 = kids
        BY <4>1
      <4>2. CASE kids2 # kids
        <5>1. PICK d \in kids2 : d \notin kids
          BY <3>1, <4>2
        <5>2. d \in Part /\ d = fresh /\ nlines'[d] = 0
          BY <1>0, <1>1, <1>2, <1>5, <5>1
        <5>3. kids2 \ {d} = kids
          BY <1>0, <1>1, <1>2, <1>k, <3>1, <5>1, <5>2
        <5>4. SumOver(nlines', kids2) = nlines'[d] + SumOver(nlines', kids)
          BY <1>0, <5>1, <5>3, SumFacts
        <5>5. SumOver(nlines', kids) \in Nat
          BY <1>0, SumFacts
        <5> QED BY <5>2, <5>4, <5>5
      <4> QED BY <4>1, <4>2
    <3> QED BY <1>0, <1>3, <2>1, <3>2, <3>3
  <2> QED BY <2>2, <2>3, <2>4
<1> QED BY <1>7, <1>8

LEMMA CountsFit ==
  ASSUME TypeOK, TreeOK, Unborn, LinesInv, TypeOK',
         NEW w \in Part, OnSpine(w), NEW end, NEW fresh, Counts(w, end, fresh)
  PROVE  LinesInv'
<1>1. fresh # NoPart => /\ fresh = Fresh /\ fresh \in Part
                        /\ fresh \notin Up(w) /\ fresh \notin Allocated
                        /\ parent[fresh] = NoPart
                        /\ \A p \in Part : parent[p] # fresh
  BY TreeTypes, FreshUnlinked DEF Counts, OnSpine
<1>2. \A p \in Part : /\ p \in Nat /\ p # NoPart
                      /\ p \in Allocated' <=> p \in Allocated \/ p = fresh
  <2>1. \A p \in Part : p \in Nat /\ p > 0 /\ p # NoPart
    BY PartFacts
  <2>2. nparts' = nparts \/ (fresh # NoPart /\ nparts' = nparts + 1 /\ fresh = nparts + 1)
    BY TreeTypes DEF Counts
  <2> QED BY <1>1, <2>1, <2>2, TreeTypes DEF Allocated, Counts
<1>3. Allocated' \subseteq Part /\ Allocated \subseteq Part
  <2>1. nparts' \in 1 .. MaxAlloc /\ nparts \in 1 .. MaxAlloc /\ MaxAlloc \in Nat
    BY HeapAssumption DEF TypeOK, Part
  <2> QED BY <2>1 DEF Allocated, Part
<1>4. \A p \in Part :
        /\ endpos[p] \in Nat /\ startpos[p] \in Nat
        /\ nlines[p] \in Nat /\ nbodylines[p] \in Nat
        /\ startpos'[p] = IF p = fresh THEN end ELSE startpos[p]
        /\ endpos'[p] = IF p = fresh \/ p \in Up(w) THEN end ELSE endpos[p]
        /\ nlines'[p] = IF p \in Up(w) THEN nlines[p] + 1 ELSE nlines[p]
        /\ nbodylines'[p] = IF p \in Up(w) /\ ~inHeader[p]
                            THEN nbodylines[p] + 1 ELSE nbodylines[p]
        /\ p \in Up(w) => endpos[p] = endpos[w] /\ p \in Allocated
        /\ p \notin Allocated => nlines[p] = 0 /\ nbodylines[p] = 0
  BY DEF TypeOK, Counts, OnSpine, Unborn, LinesInv
<1>5. end \in Nat /\ endpos[w] \in Nat /\ endpos[w] < end
  BY DEF Counts, TypeOK
<1>6. \A p \in Part : p \notin Allocated' => nbodylines'[p] = 0
  BY <1>2, <1>4
<1>7. ASSUME NEW p \in Part, p \in Allocated'
      PROVE  /\ nbodylines'[p] <= nlines'[p]
             /\ nlines'[p] <= endpos'[p] - startpos'[p]
  <2>1. CASE p = fresh
    <3>1. p \notin Up(w) /\ p \notin Allocated
      BY <1>1, <1>2, <2>1
    <3>2. nlines'[p] = 0 /\ nbodylines'[p] = 0 /\ endpos'[p] = end /\ startpos'[p] = end
      BY <1>4, <2>1, <3>1
    <3> QED BY <1>5, <3>2
  <2>2. CASE p # fresh
    <3>1. nbodylines[p] <= nlines[p] /\ nlines[p] <= endpos[p] - startpos[p]
      BY <1>2, <1>7, <2>2 DEF LinesInv, LinesFit
    <3>2. CASE p \in Up(w)
      BY <1>4, <1>5, <2>2, <3>1, <3>2
    <3>3. CASE p \notin Up(w)
      BY <1>4, <2>2, <3>1, <3>3
    <3> QED BY <3>2, <3>3
  <2> QED BY <2>1, <2>2
<1>8. ASSUME NEW p \in Part, p \in Allocated', ~inHeader'[p]
      PROVE  SumOver(nlines', Children(p)') <= nbodylines'[p]
  <2>1. CASE p = fresh
    <3>1. Children(p)' = {}
      <4>1. w # fresh
        BY <1>1, <1>2, <2>1 DEF OnSpine
      <4>2. \A c \in Part : parent'[c] # fresh
        BY <1>1, <1>2, <2>1, <4>1 DEF Counts
      <4> QED BY <2>1, <4>2 DEF Children
    <3>2. SumOver(nlines', {}) = 0
      BY SumFacts DEF TypeOK
    <3> QED BY <3>1, <3>2 DEF TypeOK
  <2>2. CASE p # fresh
    BY <1>2, <1>8, <2>2, CountsChildren
  <2> QED BY <2>1, <2>2
<1>9. ASSUME NEW p \in Part, p \in Allocated'
      PROVE  ReportedBodyLines(p)' <= ReportedLines(p)'
  <2>1. nbodylines'[p] <= nlines'[p] /\ nbodylines'[p] \in Nat /\ nlines'[p] \in Nat
    BY <1>7, <1>9 DEF TypeOK
  <2> QED BY <2>1 DEF ReportedBodyLines, ReportedLines, LessOne
<1> QED BY <1>3, <1>6, <1>7, <1>8, <1>9 DEF LinesInv, LinesFit

(* The lines that are counted for a part are the lines of its children and *)
(* more, and no more than it has bytes.                                    *)
THEOREM LinesCorrect ==
  ASSUME Handles \subseteq {Root}
  PROVE  Spec => []LinesFit
<1>1. Init => LinesInv /\ Unborn
  <2> SUFFICES ASSUME Init PROVE LinesInv /\ Unborn
    OBVIOUS
  <2>1. Allocated = {Root} /\ Root \in Part
    BY PartFacts DEF Init, Allocated, Root
  <2>2. /\ \A p \in Part : parent[p] = NoPart /\ p # NoPart
        /\ nlines \in [Part -> Nat]
        /\ \A p \in Part : /\ startpos[p] = 0 /\ endpos[p] = 0 /\ bodyend[p] = 0
                           /\ nlines[p] = 0 /\ nbodylines[p] = 0
    BY PartFacts DEF Init
  <2>3. SumOver(nlines, {}) = 0 /\ Children(Root) = {}
    BY <2>1, <2>2, SumFacts DEF Children
  <2>4. ReportedBodyLines(Root) = 0 /\ ReportedLines(Root) = 0
    BY <2>1, <2>2 DEF ReportedBodyLines, ReportedLines
  <2>5. LinesFit
    BY <2>1, <2>2, <2>3, <2>4 DEF LinesFit
  <2> QED BY <2>2, <2>5 DEF LinesInv, Unborn
<1>2. TypeOK /\ TreeOK /\ SpineInSync /\ Unborn /\ LinesInv /\ TypeOK' /\ [Next]_vars
        => LinesInv'
  <2> SUFFICES ASSUME TypeOK, TreeOK, SpineInSync, Unborn, LinesInv, TypeOK',
                      [Next]_vars
               PROVE  LinesInv'
    OBVIOUS
  <2> USE DEF treeVars, posVars, stateVars
  <2>1. ASSUME UNCHANGED <<nparts, posVars, inHeader>>,
               \A p \in Part : parent'[p] \in {parent[p], NoPart}
        PROVE  LinesInv'
    <3>0. nlines \in [Part -> Nat] /\ nbodylines \in [Part -> Nat]
          /\ Allocated \subseteq Part
      BY TreeTypes DEF TypeOK
    <3>1. ASSUME NEW p \in Allocated, ~inHeader[p]
          PROVE  SumOver(nlines', Children(p)') <= nbodylines[p]
      <4>1. p \in Part /\ p # NoPart
        BY <3>0, PartFacts
      <4>2. Children(p)' \in SUBSET Children(p) /\ Children(p) \in SUBSET Part
        BY <2>1, <4>1 DEF Children
      <4>3. SumOver(nlines, Children(p)) <= nbodylines[p] /\ nlines' = nlines
        BY <2>1, <3>1 DEF LinesInv, LinesFit
      <4>4. SumOver(nlines, Children(p)') <= SumOver(nlines, Children(p))
        BY <3>0, <4>2, SumMono
      <4>5. /\ SumOver(nlines, Children(p)') \in Nat /\ nbodylines[p] \in Nat
            /\ SumOver(nlines, Children(p)) \in Nat
        BY <3>0, <4>1, <4>2, SumFacts
      <4> QED BY <4>3, <4>4, <4>5
    <3>2. ASSUME NEW p \in Allocated
          PROVE  ReportedBodyLines(p)' <= ReportedLines(p)'
      <4>1. nbodylines'[p] <= nlines'[p] /\ nbodylines'[p] \in Nat /\ nlines'[p] \in Nat
        BY <2>1, <3>0 DEF LinesInv, LinesFit
      <4> QED BY <4>1 DEF ReportedBodyLines, ReportedLines, LessOne
    <3> QED BY <2>1, <3>1, <3>2 DEF LinesInv, LinesFit, Allocated
  <2>2. ASSUME NEW l \in Incoming(Root), ProcessLine(Root, l) PROVE LinesInv'
    <3> DEFINE x == Received(Root, l)
    <3>1. Total(x) \in Nat /\ Total(x) > 0
      BY ReceivedType, PartFacts
    <3>2. ASSUME NEW w \in Part, OnSpine(w), NEW bodyEnd, NEW start,
                 Advance(w, endpos[w] + Total(x), bodyEnd, inHeader, NoPart, start),
                 UNCHANGED treeVars,
                 \A p \in Part : p # w => inHeader'[p] = inHeader[p]
          PROVE  LinesInv'
      <4> DEFINE end == endpos[w] + Total(x)
      <4>1. end \in Nat /\ endpos[w] < end
        BY <3>1 DEF TypeOK
      <4>2. Counts(w, end, NoPart)
        <5> HIDE DEF end
        <5> QED BY <3>2, <4>1, PartFacts DEF Counts, Advance, end
      <4> QED BY <3>2, <4>2, CountsFit
    <3>3. ASSUME NEW w \in Part, OnSpine(w), NEW bodyEnd, NEW start,
                 start = endpos[w] + Total(x), AddChild(w),
                 Advance(w, endpos[w] + Total(x), bodyEnd, inHeader, Fresh, start),
                 \A p \in Part : p \notin {w, Fresh} => inHeader'[p] = inHeader[p]
          PROVE  LinesInv'
      <4>1. start \in Nat /\ endpos[w] < start
        BY <3>1, <3>3 DEF TypeOK
      <4>2. Fresh \in Part /\ Fresh # NoPart /\ nparts' = Fresh
            /\ \A p \in Part : parent'[p] = IF p = Fresh THEN w ELSE parent[p]
        BY <3>3, PartFacts, TreeTypes DEF AddChild, HeapBound
      <4>3. Counts(w, start, Fresh)
        BY <3>3, <4>1, <4>2 DEF Counts, Advance
      <4> QED BY <3>3, <4>3, CountsFit
    <3>4. CASE RefuseTooComplex(Root, l)
      BY <2>1, <3>4 DEF RefuseTooComplex
    <3>5. ASSUME NEW w \in Part, IgnoredLine(Root, l, w) PROVE LinesInv'
      BY <2>1, <3>5 DEF IgnoredLine
    <3>6. ASSUME NEW w \in Part, OnSpine(w),
                 \/ AfterFinal(Root, l, w) \/ FinalBoundary(Root, l, w)
                 \/ BodyLine(Root, l, w) \/ HeaderLine(Root, l, w)
          PROVE  LinesInv'
      <4>1. UNCHANGED <<treeVars, inHeader>>
        BY <3>6 DEF AfterFinal, FinalBoundary, BodyLine, HeaderLine
      <4>2. \E bodyEnd :
              Advance(w, endpos[w] + Total(x), bodyEnd, inHeader, NoPart, 0)
        BY <3>6 DEF AfterFinal, FinalBoundary, BodyLine, HeaderLine
      <4> QED BY <3>2, <3>6, <4>1, <4>2
    <3>7. ASSUME NEW w \in Part, OnSpine(w),
                 EndOfHeadersLeaf(Root, l, w) \/ EndOfHeadersTooDeep(Root, l, w)
          PROVE  LinesInv'
      <4>1. StartBody(w, x, NoPart) /\ UNCHANGED treeVars
            /\ inHeader' = [inHeader EXCEPT ![w] = FALSE]
        BY <3>7 DEF EndOfHeadersLeaf, EndOfHeadersTooDeep
      <4> QED BY <3>2, <3>7, <4>1, TreeTypes DEF StartBody
    <3>8. ASSUME NEW w \in Part, OnSpine(w), EndOfHeadersComposite(Root, l, w)
          PROVE  LinesInv'
      <4>1. StartBody(w, x, Fresh) /\ AddChild(w)
        BY <3>8 DEF EndOfHeadersComposite
      <4>2. \A p \in Part : p \notin {w, Fresh} => inHeader'[p] = inHeader[p]
        BY <3>8, TreeTypes DEF EndOfHeadersComposite
      <4> QED BY <3>3, <3>8, <4>1, <4>2 DEF StartBody
    <3>9. ASSUME NEW w \in Part, OnSpine(w), NextPart(Root, l, w)
          PROVE  LinesInv'
      BY <3>3, <3>9 DEF NextPart
    <3>10. \A w \in Down(Root) : WorksOn(Down(Root), x, w) =>
             w \in Part /\ OnSpine(w)
      BY WorkOnSpine, UpFacts
    <3> QED BY <2>2, <3>4, <3>5, <3>6, <3>7, <3>8, <3>9, <3>10 DEF ProcessLine
  <2>3. ASSUME NEW c \in Part, RemoveFromParent(c) PROVE LinesInv'
    <3>1. \A p \in Part : parent'[p] \in {parent[p], NoPart}
      BY <2>3, TreeTypes DEF RemoveFromParent
    <3> QED BY <2>1, <2>3, <3>1 DEF RemoveFromParent
  <2>4. CASE UNCHANGED vars
    BY <2>1, <2>4 DEF vars
  <2>5. ASSUME NEW l \in Incoming(Root), NEW n \in Fragments, BufferFragment(Root, l, n)
        PROVE  LinesInv'
    BY <2>1, <2>5 DEF BufferFragment
  <2> QED BY <2>2, <2>3, <2>4, <2>5, HandlesAssumption DEF Next
<1>3. OffsetInv => SpineInSync /\ Unborn
  BY DEF OffsetInv
<1>4. LinesInv => LinesFit
  BY DEF LinesInv
<1> QED BY <1>1, <1>2, <1>3, <1>4, OffsetsKept, TypeCorrect, TreeCorrect, PTL
        DEF Spec

-----------------------------------------------------------------------------
(* The tree as others see it, for every heap, limit and alphabet: each line *)
(* the parser takes is a step of MessageTree or leaves it unchanged, and    *)
(* section names find their parts.                                          *)

(* A part that is not allocated is not the end of anything.                 *)
UnbornOpen == \A p \in Part : completed[p] => p \in Allocated

(* The part that comes after p on the way down to the open parts.           *)
Onward == [p \in Part |-> IF lastpart[p] # NoPart /\ completed[lastpart[p]]
                          THEN NoPart ELSE lastpart[p]]

LEMMA OpenIsClosure ==
  ASSUME TypeOK
  PROVE  /\ Onward \in [Part -> Part \cup {NoPart}]
         /\ Open(Root) = Closure(Onward, Root)
  BY TreeTypes DEF Onward, Open

(* What the walk of process_line goes through has not ended: all of it is   *)
(* open, and it begins at the root.                                         *)
LEMMA WorkedOnIsOpen ==
  ASSUME TypeOK, TreeOK, NEW w \in Down(Root), OnSpine(w)
  PROVE  w \in Open(Root) /\ Up(w) \subseteq Open(Root) /\ Root \in Up(w)
<1> Root \in Part /\ Down(Root) \subseteq Part
  BY PartFacts, UpFacts
<1>1. w \in Open(Root) /\ Up(w) \subseteq Open(Root)
  <2> DEFINE S == {p \in Part : p \in Up(w) => p \in Open(Root)}
  <2>1. Root \in S
    BY OpenIsClosure, ClosureFacts
  <2>2. ASSUME NEW r \in S, lastpart[r] # NoPart PROVE lastpart[r] \in S
    <3> DEFINE c == lastpart[r]
    <3>0. r \in Part /\ c \in Part
      BY <2>2, TreeTypes
    <3>1. /\ parent[c] = r /\ parent[c] # NoPart /\ r < c
          /\ r \in Nat /\ c \in Nat
      BY <2>2, <3>0, PartFacts DEF TreeOK
    <3>2. ASSUME c \in Up(w) PROVE c \in Open(Root)
      <4>1. r \in Up(w) /\ r # w
        <5>1. c <= w /\ parent[c] \in Up(w)
          BY <3>1, <3>2 DEF OnSpine
        <5> QED BY <3>1, <5>1
      <4>2. r \in Open(Root) /\ ~completed[c]
        BY <2>2, <4>1 DEF OnSpine, Ended
      <4>3. Onward[r] = c
        BY <4>2 DEF Onward
      <4> QED BY <2>2, <4>2, <4>3, OpenIsClosure, ClosureFacts
    <3> QED BY <3>0, <3>2
  <2>3. Down(Root) \subseteq S
    <3>1. S \in SUBSET Part /\ \A r \in S : lastpart[r] \in S \cup {NoPart}
      BY <2>2
    <3> HIDE DEF S
    <3> QED BY <2>1, <3>1, ClosureFacts, TreeTypes DEF Down
  <2> QED BY <2>3, UpFacts DEF OnSpine
<1>2. Root \in Up(w)
  BY RootAbove
<1> QED BY <1>1, <1>2

(* After a line for w the open parts are w, what holds it and the part that *)
(* the line may have added: nothing below w is reached again.               *)
LEMMA OpenAfter ==
  ASSUME TypeOK, TreeOK, UnbornOpen, TypeOK',
         NEW w \in Down(Root), OnSpine(w),
         NEW fresh, fresh = NoPart \/ (fresh = Fresh /\ Fresh \in Part),
         \A p \in Part : lastpart'[p] = IF fresh # NoPart /\ p = w
                                         THEN fresh ELSE lastpart[p],
         \A p \in Part : completed'[p] => completed[p] \/ p = lastpart[w],
         fresh # NoPart \/ lastpart[w] = NoPart \/ Ended(w)'
  PROVE  Open(Root)' = Up(w) \cup ({fresh} \ {NoPart})
<1> DEFINE new == {fresh} \ {NoPart}
<1>1. /\ Root \in Part /\ w \in Part /\ Root \in Up(w) /\ w \in Up(w)
      /\ Up(w) \subseteq Down(Root) /\ Up(w) \subseteq Part
      /\ \A q \in Up(w) : q \in Allocated /\ q <= w
  BY PartFacts, UpFacts, WorkedOnIsOpen DEF OnSpine
<1>2. /\ Onward' \in [Part -> Part \cup {NoPart}]
      /\ Open(Root)' = Closure(Onward', Root)
      /\ \A p \in Part : Onward'[p] = IF lastpart'[p] # NoPart
                                          /\ completed'[lastpart'[p]]
                                       THEN NoPart ELSE lastpart'[p]
  <2>1. lastpart' \in [Part -> Part \cup {NoPart}]
    BY DEF TypeOK
  <2> QED BY <2>1 DEF Onward, Open
<1>3. fresh # NoPart =>
        /\ fresh \in Part /\ fresh \notin Allocated /\ fresh # w
        /\ lastpart[fresh] = NoPart
        /\ \A p \in Part : lastpart[p] # fresh
  BY <1>1, FreshUnlinked, TreeTypes
<1>4. ASSUME NEW q \in Up(w), q # w
      PROVE  Onward'[q] = lastpart[q] /\ lastpart[q] \in Up(w)
  <2>1. /\ lastpart[q] # NoPart /\ lastpart[q] \in Up(w)
        /\ ~completed[lastpart[q]]
    BY <1>4 DEF OnSpine, Ended
  <2>2. lastpart[q] # lastpart[w]
    BY <1>1, <1>4, <2>1, PartFacts DEF TreeOK
  <2>3. lastpart'[q] = lastpart[q]
    BY <1>1, <1>4
  <2>4. ~completed'[lastpart[q]]
    BY <1>1, <2>1, <2>2
  <2> QED BY <1>1, <1>2, <2>1, <2>3, <2>4
<1>5. Onward'[w] = IF fresh = NoPart THEN NoPart ELSE fresh
  <2>1. CASE fresh = NoPart
    <3>1. lastpart[w] = NoPart \/ Ended(w)'
      BY <2>1
    <3> QED BY <1>1, <1>2, <2>1, <3>1 DEF Ended
  <2>2. CASE fresh # NoPart
    <3>1. lastpart'[w] = fresh
      BY <1>1, <2>2
    <3>2. ~completed'[fresh]
      BY <1>1, <1>3, <2>2 DEF UnbornOpen
    <3> QED BY <1>1, <1>2, <2>2, <3>1, <3>2
  <2> QED BY <2>1, <2>2
<1>6. fresh # NoPart => Onward'[fresh] = NoPart
  BY <1>2, <1>3
<1>7. Open(Root)' \subseteq Up(w) \cup new
  <2> DEFINE S == Up(w) \cup new
  <2>1. S \in SUBSET Part /\ Root \in S
    BY <1>1, <1>3
  <2>2. \A r \in S : Onward'[r] \in S \cup {NoPart}
    BY <1>4, <1>5, <1>6
  <2> HIDE DEF S
  <2>3. Closure(Onward', Root) \subseteq S
    BY <1>1, <1>2, <2>1, <2>2, ClosureFacts
  <2> QED BY <1>2, <2>3 DEF S
<1>8. Up(w) \subseteq Open(Root)'
  <2> DEFINE S == {p \in Part : p \in Up(w) => p \in Open(Root)'}
  <2>1. Root \in S
    BY <1>1, <1>2, ClosureFacts
  <2>2. ASSUME NEW r \in S, lastpart[r] # NoPart PROVE lastpart[r] \in S
    <3> DEFINE c == lastpart[r]
    <3>0. r \in Part /\ c \in Part
      BY <2>2, TreeTypes
    <3>1. /\ parent[c] = r /\ parent[c] # NoPart /\ r < c
          /\ r \in Nat /\ c \in Nat
      BY <2>2, <3>0, PartFacts DEF TreeOK
    <3>2. ASSUME c \in Up(w) PROVE c \in Open(Root)'
      <4>1. r \in Up(w) /\ r # w
        <5>1. c <= w /\ parent[c] \in Up(w)
          BY <3>1, <3>2 DEF OnSpine
        <5> QED BY <3>1, <5>1
      <4>2. r \in Open(Root)' /\ Onward'[r] = c
        BY <1>4, <2>2, <4>1
      <4> QED BY <1>1, <1>2, <2>2, <4>2, ClosureFacts
    <3> QED BY <3>0, <3>2
  <2>3. Down(Root) \subseteq S
    <3>1. S \in SUBSET Part /\ \A r \in S : lastpart[r] \in S \cup {NoPart}
      BY <2>2
    <3> HIDE DEF S
    <3> QED BY <2>1, <3>1, ClosureFacts, TreeTypes, PartFacts DEF Down
  <2> QED BY <1>1, <2>3
<1>9. new \subseteq Open(Root)'
  <2> SUFFICES ASSUME fresh # NoPart PROVE fresh \in Open(Root)'
    OBVIOUS
  <2>1. w \in Open(Root)' /\ Onward'[w] = fresh
    BY <1>1, <1>5, <1>8
  <2> QED BY <1>1, <1>2, <2>1, ClosureFacts
<1> QED BY <1>7, <1>8, <1>9

-----------------------------------------------------------------------------
(* The names of MessageTree as those of the parser.                         *)
LEMMA MessageNames ==
  /\ Message!Part = Part /\ Message!Root = Root
  /\ \A p : Message!Path(p) = Up(p)
<1>1. Message!Part = Part /\ Message!Root = Root
  BY DEF Message!Part, Part, Message!Root, Root
<1>2. ASSUME NEW p PROVE Message!Path(p) = Up(p)
  BY <1>1 DEF Message!Path, Message!Closure, Up, Closure, Message!NoPart
<1> QED BY <1>1, <1>2

(* A line for w moves the ends of w and of what holds it to one number,     *)
(* which is more than the number it was before.                             *)
LEMMA ExtendSim ==
  ASSUME TypeOK, TreeOK, NEW w \in Down(Root), OnSpine(w),
         NEW end \in Nat, end > endpos[w], NEW bodyEnd, NEW fresh, NEW start,
         fresh = NoPart \/ (fresh = Fresh /\ start = end),
         Advance(w, end, bodyEnd, inHeader, fresh, start)
  PROVE  /\ Message!Extend(w)
         /\ endpos'[Root] = end
         /\ \A p \in Part :
              /\ endpos'[p] = IF p \in Up(w) \/ p = fresh
                              THEN endpos'[Root] ELSE endpos[p]
              /\ startpos'[p] = IF p = fresh
                                THEN endpos'[Root] ELSE startpos[p]
<1>1. /\ Root \in Part /\ w \in Part /\ w \in Open(Root) /\ Root \in Up(w)
      /\ Root \in Allocated /\ endpos[Root] = endpos[w] /\ endpos[w] \in Nat
      /\ \A p \in Part : p # NoPart
  BY WorkedOnIsOpen, UpFacts, RootHasNoParent, PartFacts DEF OnSpine, TypeOK
<1>2. Root # fresh
  BY <1>1, TreeTypes
<1>3. endpos'[Root] = end
  BY <1>1, <1>2 DEF Advance
<1>4. ASSUME NEW p \in Part
      PROVE  /\ endpos'[p] = IF p \in Up(w) \/ p = fresh
                             THEN endpos'[Root] ELSE endpos[p]
             /\ startpos'[p] = IF p = fresh THEN endpos'[Root] ELSE startpos[p]
  BY <1>1, <1>3 DEF Advance
<1>5. Message!Extend(w)
  BY <1>1, <1>3 DEF Message!Extend
<1> QED BY <1>3, <1>4, <1>5

(* A line that leaves the tree and the headers of w as they are is a Read.  *)
LEMMA ReadSim ==
  ASSUME TypeOK, TreeOK, UnbornOpen, TypeOK',
         NEW w \in Down(Root), OnSpine(w),
         NEW end \in Nat, end > endpos[w], NEW bodyEnd,
         Advance(w, end, bodyEnd, inHeader, NoPart, 0),
         UNCHANGED <<treeVars, bodystart, inHeader>>,
         \A p \in Part : completed'[p] => completed[p] \/ p = lastpart[w],
         lastpart[w] = NoPart \/ Ended(w)'
  PROVE  Message!Read(w)
<1>1. \A p \in Part : p # NoPart
  BY PartFacts
<1>2. /\ Message!Extend(w)
      /\ \A p \in Part :
           /\ endpos'[p] = IF p \in Up(w) THEN endpos'[Root] ELSE endpos[p]
           /\ startpos'[p] = startpos[p]
  BY <1>1, ExtendSim
<1>3. /\ startpos' = startpos
      /\ endpos' = [p \in Part |-> IF p \in Up(w) \cup {}
                                    THEN endpos'[Root] ELSE endpos[p]]
  BY <1>2 DEF TypeOK
<1>4. Open(Root)' = Up(w)
  BY OpenAfter DEF treeVars
<1>5. UNCHANGED <<nparts, parent, bodystart, {p \in Allocated : ~inHeader[p]}>>
  BY DEF treeVars, Allocated
<1> QED BY <1>2, <1>3, <1>4, <1>5, MessageNames DEF Message!Read, Message!EndsAt

(* The end of the headers of a part that stays alone is a Settle.           *)
LEMMA SettleSim ==
  ASSUME TypeOK, TreeOK, UnbornOpen, TypeOK',
         NEW w \in Down(Root), OnSpine(w), NEW h \in Part, NEW l \in Incoming(h),
         Total(Received(h, l)) > 0,
         EndOfHeaders(w, Received(h, l)),
         StartBody(w, Received(h, l), NoPart),
         inHeader' = [inHeader EXCEPT ![w] = FALSE], UNCHANGED treeVars
  PROVE  Message!Settle(w)
<1> DEFINE end == endpos[w] + Total(Received(h, l))
<1>1. /\ end \in Nat /\ end > endpos[w] /\ w \in Part /\ w \in Allocated
      /\ \A p \in Part : p # NoPart
  <2>1. w \in Part /\ w \in Allocated /\ \A p \in Part : p # NoPart
    BY UpFacts, PartFacts
  <2>2. endpos[w] \in Nat /\ Total(Received(h, l)) \in Nat
    BY <2>1, ReceivedType DEF TypeOK
  <2> QED BY <2>1, <2>2
<1>2. Advance(w, end, end, inHeader, NoPart, end)
  BY DEF StartBody
<1>3. /\ Message!Extend(w) /\ endpos'[Root] = end
      /\ \A p \in Part :
           /\ endpos'[p] = IF p \in Up(w) THEN endpos'[Root] ELSE endpos[p]
           /\ startpos'[p] = startpos[p]
  <2> HIDE DEF end
  <2> QED BY <1>1, <1>2, ExtendSim
<1>4. /\ startpos' = startpos
      /\ endpos' = [p \in Part |-> IF p \in Up(w) \cup {}
                                    THEN endpos'[Root] ELSE endpos[p]]
  BY <1>3 DEF TypeOK
<1>5. Open(Root)' = Up(w)
  <2>1. lastpart[w] = NoPart /\ completed' = completed /\ lastpart' = lastpart
    BY DEF EndOfHeaders, IsLeaf, treeVars
  <2> QED BY <2>1, OpenAfter
<1>6. bodystart' = [p \in Part |-> IF p \in {w} THEN endpos'[Root]
                                   ELSE bodystart[p]]
  BY <1>1, <1>3 DEF StartBody
<1>7. /\ w \notin {p \in Allocated : ~inHeader[p]}
      /\ {p \in Allocated : ~inHeader[p]}'
           = {p \in Allocated : ~inHeader[p]} \cup {w}
  <2>1. inHeader[w] /\ Allocated' = Allocated /\ Allocated \subseteq Part
    BY TreeTypes DEF EndOfHeaders, treeVars, Allocated
  <2>2. \A p \in Part : inHeader'[p] <=> inHeader[p] /\ p # w
    BY <1>1, <2>1, TreeTypes
  <2> QED BY <1>1, <2>1, <2>2
<1>8. UNCHANGED <<nparts, parent>>
  BY DEF treeVars
<1> HIDE DEF end
<1> QED BY <1>3, <1>4, <1>5, <1>6, <1>7, <1>8, MessageNames
        DEF Message!Settle, Message!EndsAt, Message!StartsAt

(* A line that adds a part under w is a Branch.                             *)
LEMMA BranchSim ==
  ASSUME TypeOK, TreeOK, UnbornOpen, TypeOK',
         NEW w \in Down(Root), OnSpine(w), NEW end \in Nat, end > endpos[w], NEW bodyEnd,
         Advance(w, end, bodyEnd, inHeader, Fresh, end),
         AddChild(w), UNCHANGED completed,
         bodystart' = [p \in Part |->
                         IF p = Fresh \/ (p = w /\ inHeader[w])
                         THEN end ELSE bodystart[p]],
         \A p \in Part : p # Fresh => (inHeader'[p] <=> inHeader[p] /\ p # w)
  PROVE  Message!Branch(w)
<1>1. /\ Fresh \in Part /\ w \in Part /\ w \in Allocated /\ w # Fresh
      /\ Fresh # NoPart
      /\ \A p \in Part : p # NoPart
  BY TreeTypes, UpFacts, PartFacts DEF AddChild, HeapBound
<1>2. /\ Message!Extend(w) /\ endpos'[Root] = end
      /\ \A p \in Part :
           /\ endpos'[p] = IF p \in Up(w) \/ p = Fresh
                           THEN endpos'[Root] ELSE endpos[p]
           /\ startpos'[p] = IF p = Fresh THEN endpos'[Root] ELSE startpos[p]
  BY ExtendSim
<1>3. /\ startpos' = [p \in Part |-> IF p \in {Fresh}
                                      THEN endpos'[Root] ELSE startpos[p]]
      /\ endpos' = [p \in Part |-> IF p \in Up(w) \cup {Fresh}
                                    THEN endpos'[Root] ELSE endpos[p]]
  BY <1>2 DEF TypeOK
<1>4. Open(Root)' = Up(w) \cup {Fresh}
  <2>1. \A p \in Part : lastpart'[p] = IF p = w THEN Fresh ELSE lastpart[p]
    BY TreeTypes DEF AddChild
  <2>2. Open(Root)' = Up(w) \cup ({Fresh} \ {NoPart})
    BY <1>1, <2>1, OpenAfter
  <2> QED BY <1>1, <2>2
<1> DEFINE Settled == {p \in Allocated : ~inHeader[p]}
           ended == {w} \ Settled
<1>5. bodystart' = [p \in Part |-> IF p \in {Fresh} \cup ended
                                   THEN endpos'[Root] ELSE bodystart[p]]
  <2>1. ended = IF inHeader[w] THEN {w} ELSE {}
    BY <1>1
  <2> HIDE DEF ended
  <2> QED BY <1>2, <2>1
<1>6. Settled' \in {Settled \cup ended, Settled \cup ended \cup {Fresh}}
  <2>1. Allocated' = Allocated \cup {Fresh} /\ Allocated \subseteq Part
    BY <1>1, TreeTypes, PartFacts DEF AddChild, Allocated
  <2>2. Settled' = {p \in Allocated \cup {Fresh} : ~inHeader'[p]}
    BY <2>1
  <2>3. Settled \cup ended = {p \in Allocated : ~inHeader[p] \/ p = w}
    BY <1>1
  <2>4. Fresh \notin Allocated
    BY TreeTypes
  <2>5. \A p \in Allocated : ~inHeader'[p] <=> ~inHeader[p] \/ p = w
    BY <2>1, <2>4
  <2> HIDE DEF Settled, ended
  <2> QED BY <2>2, <2>3, <2>5
<1>7. /\ nparts' = Fresh /\ Fresh = nparts + 1
      /\ parent' = [parent EXCEPT ![Fresh] = w]
  BY DEF AddChild, Fresh
<1> HIDE DEF Settled, ended
<1> QED BY <1>1, <1>2, <1>3, <1>4, <1>5, <1>6, <1>7, MessageNames
        DEF Message!Branch, Message!EndsAt, Message!StartsAt, Settled, ended

-----------------------------------------------------------------------------
(* What process_line does on the part w it has come to is one step of the   *)
(* abstract message, unless it refuses or ignores the line.                 *)
LEMMA WorkSim ==
  ASSUME TypeOK, TreeOK, UnbornOpen, TypeOK',
         NEW l \in Incoming(Root), NEW w \in Down(Root), OnSpine(w),
         \/ AfterFinal(Root, l, w) \/ FinalBoundary(Root, l, w)
         \/ NextPart(Root, l, w) \/ BodyLine(Root, l, w)
         \/ HeaderLine(Root, l, w) \/ EndOfHeadersLeaf(Root, l, w)
         \/ EndOfHeadersComposite(Root, l, w) \/ EndOfHeadersTooDeep(Root, l, w)
  PROVE  Message!Next
<1> USE DEF treeVars, stateVars
<1> DEFINE x == Received(Root, l)
           end == endpos[w] + Total(x)
<1>1. w \in Part /\ w \in Allocated /\ endpos[w] \in Nat /\ Root \in Part
  BY UpFacts, PartFacts DEF TypeOK
<1>2. end \in Nat /\ end > endpos[w] /\ Total(x) > 0
  BY <1>1, ReceivedType
<1>3. ASSUME NEW p \in Part, Message!Read(p) \/ Message!Settle(p) \/ Message!Branch(p)
      PROVE  Message!Next
  BY <1>3, MessageNames DEF Message!Next
<1>4. CASE AfterFinal(Root, l, w)
  <2>1. Ended(w)'
    BY <1>4 DEF AfterFinal, Ended
  <2>2. Message!Read(w)
    <3> HIDE DEF end
    <3>1. Advance(w, end, end, inHeader, NoPart, 0)
      BY <1>4 DEF AfterFinal, end
    <3> QED BY <1>2, <1>4, <2>1, <3>1, ReadSim DEF AfterFinal
  <2> QED BY <1>1, <1>3, <2>2
<1>5. CASE FinalBoundary(Root, l, w)
  <2>1. lastpart[w] \in Part
    BY <1>1, <1>5, TreeTypes DEF FinalBoundary, ClosesAt, Looks
  <2>2. /\ Ended(w)'
        /\ \A p \in Part : completed'[p] => completed[p] \/ p = lastpart[w]
    BY <1>5, <2>1, TreeTypes, PartFacts DEF FinalBoundary, Ended
  <2>3. Message!Read(w)
    <3> HIDE DEF end
    <3>1. Advance(w, end, end, inHeader, NoPart, 0)
      BY <1>5 DEF FinalBoundary, end
    <3> QED BY <1>2, <1>5, <2>2, <3>1, ReadSim DEF FinalBoundary
  <2> QED BY <1>1, <1>3, <2>3
<1>6. CASE BodyLine(Root, l, w)
  <2>1. PICK bodyEnd : Advance(w, end, bodyEnd, inHeader, NoPart, 0)
    BY <1>6 DEF BodyLine
  <2>2. lastpart[w] = NoPart
    BY <1>6 DEF BodyLine, IsLeaf
  <2>3. Message!Read(w)
    <3> HIDE DEF end
    <3> QED BY <1>2, <1>6, <2>1, <2>2, ReadSim DEF BodyLine
  <2> QED BY <1>1, <1>3, <2>3
<1>7. CASE HeaderLine(Root, l, w)
  <2>1. PICK bodyEnd : Advance(w, end, bodyEnd, inHeader, NoPart, 0)
    BY <1>7 DEF HeaderLine
  <2>2. lastpart[w] = NoPart
    BY <1>7 DEF HeaderLine, IsLeaf
  <2>3. Message!Read(w)
    <3> HIDE DEF end
    <3> QED BY <1>2, <1>7, <2>1, <2>2, ReadSim DEF HeaderLine
  <2> QED BY <1>1, <1>3, <2>3
<1>8. CASE EndOfHeadersLeaf(Root, l, w) \/ EndOfHeadersTooDeep(Root, l, w)
  <2>1. Message!Settle(w)
    BY <1>1, <1>2, <1>8, SettleSim DEF EndOfHeadersLeaf, EndOfHeadersTooDeep
  <2> QED BY <1>1, <1>3, <2>1
<1>9. CASE NextPart(Root, l, w)
  <2>1. ~inHeader[w]
    BY <1>9 DEF NextPart, OpensAt, Looks
  <2>2. \A p \in Part : p # Fresh => (inHeader'[p] <=> inHeader[p] /\ p # w)
    BY <1>9, <2>1 DEF NextPart
  <2>3. bodystart' = [p \in Part |->
                        IF p = Fresh \/ (p = w /\ inHeader[w])
                        THEN end ELSE bodystart[p]]
    BY <1>9, <2>1 DEF NextPart, Begin
  <2>4. Advance(w, end, endpos[w] + x.len, inHeader, Fresh, end)
    BY <1>9 DEF NextPart
  <2>5. Message!Branch(w)
    <3> HIDE DEF end
    <3> QED BY <1>2, <1>9, <2>2, <2>3, <2>4, BranchSim DEF NextPart
  <2> QED BY <1>1, <1>3, <2>5
<1>10. CASE EndOfHeadersComposite(Root, l, w)
  <2>1. EndOfHeaders(w, x) /\ StartBody(w, x, Fresh) /\ AddChild(w)
    BY <1>10 DEF EndOfHeadersComposite
  <2>2. inHeader[w] /\ completed' = completed
    BY <2>1 DEF EndOfHeaders
  <2>3. \A p \in Part : p # Fresh => (inHeader'[p] <=> inHeader[p] /\ p # w)
    BY <1>1, <1>10, TreeTypes DEF EndOfHeadersComposite
  <2>4. bodystart' = [p \in Part |->
                        IF p = Fresh \/ (p = w /\ inHeader[w])
                        THEN end ELSE bodystart[p]]
    BY <2>1, <2>2 DEF StartBody
  <2>5. Advance(w, end, end, inHeader, Fresh, end)
    BY <2>1 DEF StartBody
  <2>6. Message!Branch(w)
    <3> HIDE DEF end
    <3> QED BY <1>2, <2>1, <2>2, <2>3, <2>4, <2>5, BranchSim
  <2> QED BY <1>1, <1>3, <2>6
<1> QED BY <1>4, <1>5, <1>6, <1>7, <1>8, <1>9, <1>10

(* Only the last child of a part completes.                                 *)
LEMMA UnbornOpenStep ==
  ASSUME TypeOK, TreeOK, UnbornOpen, [Next]_vars
  PROVE  UnbornOpen'
<1>1. ASSUME nparts' \in Nat, nparts <= nparts',
             \A p \in Part : completed'[p] => completed[p] \/ p \in Allocated
      PROVE  UnbornOpen'
  <2>1. \A p \in Allocated : p \in Allocated'
    BY <1>1, TreeTypes DEF Allocated
  <2> QED BY <1>1, <2>1 DEF UnbornOpen
<1>2. nparts \in Nat /\ nparts <= nparts
  BY TreeTypes
<1>3. ASSUME UNCHANGED <<nparts, completed>> PROVE UnbornOpen'
  BY <1>1, <1>2, <1>3
<1>4. ASSUME NEW h, NEW l, NEW w \in Part, FinalBoundary(h, l, w)
      PROVE  UnbornOpen'
  <2>1. lastpart[w] \in Allocated
    <3>1. lastpart[w] # NoPart /\ lastpart[w] \in Part
      BY <1>4, TreeTypes DEF FinalBoundary, ClosesAt, Looks
    <3>2. parent[lastpart[w]] = w /\ w # NoPart
      BY <3>1, PartFacts DEF TreeOK
    <3> QED BY <3>1, <3>2 DEF TreeOK
  <2>2. \A p \in Part : completed'[p] => completed[p] \/ p = lastpart[w]
    BY <1>4, TreeTypes DEF FinalBoundary
  <2>3. nparts' = nparts
    BY <1>4 DEF FinalBoundary, treeVars
  <2> QED BY <1>1, <1>2, <2>1, <2>2, <2>3
<1>5. ASSUME NEW w \in Part, AddChild(w), completed' = completed PROVE UnbornOpen'
  <2>1. nparts' \in Nat /\ nparts <= nparts'
    BY <1>5, TreeTypes DEF AddChild
  <2> QED BY <1>1, <1>5, <2>1
<1>6. ASSUME NEW h \in Part, h \in Allocated, NEW l, ProcessLine(h, l)
      PROVE  UnbornOpen'
  <2>1. Down(h) \subseteq Part
    BY <1>6, DownAllocated
  <2> QED BY <1>3, <1>4, <1>5, <1>6, <2>1
          DEF ProcessLine, RefuseTooComplex, AfterFinal, NextPart, BodyLine,
              IgnoredLine, HeaderLine, EndOfHeadersLeaf, EndOfHeadersComposite,
              EndOfHeadersTooDeep, EndOfHeaders, treeVars, stateVars
<1>7. ASSUME NEW h, NEW l, NEW n, BufferFragment(h, l, n) PROVE UnbornOpen'
  BY <1>3, <1>7 DEF BufferFragment, treeVars, stateVars
<1>8. ASSUME NEW c, RemoveFromParent(c) PROVE UnbornOpen'
  BY <1>3, <1>8 DEF RemoveFromParent, stateVars
<1>9. CASE UNCHANGED vars
  BY <1>3, <1>9 DEF vars, treeVars, stateVars
<1> QED BY <1>6, <1>7, <1>8, <1>9, HandlesAssumption DEF Next

(* Every step of the parser is a step of the abstract message or none.      *)
LEMMA StepSim ==
  ASSUME Handles \subseteq {Root}, Removable = {},
         TypeOK, TreeOK, SpineInSync, UnbornOpen, TypeOK', [Next]_vars
  PROVE  [Message!Next]_Message!vars
<1> USE DEF treeVars, posVars, stateVars
<1>1. ASSUME UNCHANGED <<treeVars, posVars, stateVars>>
      PROVE  UNCHANGED Message!vars
  BY <1>1 DEF Message!vars, Open, Allocated
<1>2. ASSUME NEW l \in Incoming(Root), ProcessLine(Root, l)
      PROVE  [Message!Next]_Message!vars
  <2>1. CASE RefuseTooComplex(Root, l)
    BY <1>1, <2>1 DEF RefuseTooComplex
  <2>2. ASSUME NEW w, IgnoredLine(Root, l, w) PROVE UNCHANGED Message!vars
    BY <1>1, <2>2 DEF IgnoredLine
  <2>3. ASSUME NEW w \in Down(Root), WorksOn(Down(Root), Received(Root, l), w)
        PROVE  OnSpine(w)
    BY <2>3, WorkOnSpine
  <2> QED BY <1>2, <2>1, <2>2, <2>3, WorkSim DEF ProcessLine
<1>3. ASSUME NEW h, NEW l, NEW n, BufferFragment(h, l, n)
      PROVE  UNCHANGED Message!vars
  BY <1>1, <1>3 DEF BufferFragment
<1>4. CASE UNCHANGED vars
  BY <1>1, <1>4 DEF vars
<1> QED BY <1>2, <1>3, <1>4 DEF Next

LEMMA InitSim == Init => Message!Init /\ UnbornOpen
<1> SUFFICES ASSUME Init PROVE Message!Init /\ UnbornOpen
  OBVIOUS
<1>1. /\ Root \in Part /\ Allocated = {Root}
      /\ \A p \in Part : inHeader[p] /\ ~completed[p]
  BY PartFacts DEF Init, Allocated, Root
<1>2. {p \in Allocated : ~inHeader[p]} = {}
  BY <1>1
<1>3. Open(Root) = {Root}
  <2> DEFINE f == [p \in Part |-> IF lastpart[p] # NoPart
                                     /\ completed[lastpart[p]]
                                  THEN NoPart ELSE lastpart[p]]
  <2>1. f \in [Part -> Part \cup {NoPart}] /\ \A p \in Part : f[p] = NoPart
    BY DEF Init
  <2>2. Open(Root) = Closure(f, Root)
    BY DEF Open
  <2> HIDE DEF f
  <2>3. Root \in Closure(f, Root) /\ Closure(f, Root) \subseteq {Root}
    <3>1. {Root} \in SUBSET Part /\ \A r \in {Root} : f[r] \in {Root} \cup {NoPart}
      BY <1>1, <2>1
    <3> QED BY <1>1, <2>1, <3>1, ClosureFacts
  <2> QED BY <2>2, <2>3
<1>4. UnbornOpen
  BY <1>1 DEF UnbornOpen
<1>5. /\ nparts = 1 /\ endpos[Root] = 0
      /\ parent = [p \in Part |-> NoPart]
      /\ startpos = [p \in Part |-> 0] /\ bodystart = [p \in Part |-> 0]
      /\ endpos = [p \in Part |-> 0]
  BY <1>1 DEF Init
<1>6. Message!NoPart = NoPart
  BY DEF Message!NoPart
<1>7. Message!Init
  BY <1>2, <1>3, <1>5, <1>6, MessageNames DEF Message!Init
<1> QED BY <1>4, <1>7

(* php_mimepart_process_line, called on a message from which nothing is     *)
(* removed, keeps a growing nest of extents: whatever boundaries and        *)
(* headers the lines carry, a line extends the parts of one open path to    *)
(* the end of the text, and what is off that path never changes again.      *)
THEOREM ParserImplementsTree ==
  ASSUME Handles \subseteq {Root}, Removable = {}
  PROVE  Spec => ImplementsMessageTree
<1>1. Init => Message!Init /\ UnbornOpen
  BY InitSim
<1>2. TypeOK /\ TreeOK /\ UnbornOpen /\ [Next]_vars => UnbornOpen'
  BY UnbornOpenStep
<1>3. TypeOK /\ TreeOK /\ WellNested /\ SpineInSync /\ UnbornOpen /\ TypeOK'
        /\ [Next]_vars => [Message!Next]_Message!vars
  BY StepSim
<1>4. Spec => [](WellNested /\ SpineInSync)
  BY OffsetsCorrect
<1> QED BY <1>1, <1>2, <1>3, <1>4, TypeCorrect, TreeCorrect, PTL
        DEF Spec, ImplementsMessageTree, Message!Spec

-----------------------------------------------------------------------------
(* What is known of a part and can change while it is open.                 *)
Known(p) == <<startpos[p], endpos[p], bodystart[p], bodyend[p], nlines[p],
              nbodylines[p], inHeader[p], completed[p], contentType[p],
              boundary[p], mimeVersion[p]>>

(* A line for w changes nothing that is known of a part off the open path.  *)
LEMMA LineFreezes ==
  ASSUME TypeOK, TreeOK, TypeOK', NEW l \in Incoming(Root), NEW w \in Down(Root), OnSpine(w),
         \/ AfterFinal(Root, l, w) \/ FinalBoundary(Root, l, w)
         \/ NextPart(Root, l, w) \/ BodyLine(Root, l, w)
         \/ HeaderLine(Root, l, w) \/ EndOfHeadersLeaf(Root, l, w)
         \/ EndOfHeadersComposite(Root, l, w) \/ EndOfHeadersTooDeep(Root, l, w),
         NEW p \in Allocated \ Open(Root)
  PROVE  UNCHANGED Known(p)
<1> DEFINE x == Received(Root, l)
<1>1. /\ p \in Part /\ p # Fresh /\ p \notin Up(w) /\ p # w /\ p # NoPart
      /\ w \in Part /\ Root \in Part
  BY WorkedOnIsOpen, TreeTypes, UpFacts, PartFacts
<1>2. ASSUME NEW end, NEW bodyEnd, NEW fresh, NEW start, p # fresh,
             Advance(w, end, bodyEnd, inHeader, fresh, start)
      PROVE  UNCHANGED <<startpos[p], endpos[p], bodyend[p], nlines[p],
                         nbodylines[p]>>
  BY <1>1, <1>2 DEF Advance, TypeOK
<1>3. CASE AfterFinal(Root, l, w) \/ BodyLine(Root, l, w)
  BY <1>1, <1>2, <1>3 DEF AfterFinal, BodyLine, Known, headerVars, stateVars
<1>4. CASE FinalBoundary(Root, l, w)
  <2>1. lastpart[w] # NoPart /\ ~completed[lastpart[w]]
    BY <1>4 DEF FinalBoundary, ClosesAt, Looks, Ended
  <2>2. lastpart[w] \in Open(Root)
    <3>1. Onward[w] = lastpart[w]
      BY <1>1, <2>1 DEF Onward
    <3> QED BY <1>1, <2>1, <3>1, WorkedOnIsOpen, OpenIsClosure, ClosureFacts
  <2>3. completed'[p] = completed[p]
    BY <1>1, <1>4, <2>2, TreeTypes DEF FinalBoundary
  <2> QED BY <1>1, <1>2, <1>4, <2>3 DEF FinalBoundary, Known, headerVars
<1>5. CASE NextPart(Root, l, w)
  <2>1. bodystart'[p] = bodystart[p] /\ mimeVersion'[p] = mimeVersion[p]
    BY <1>1, <1>5 DEF NextPart, Begin, TypeOK
  <2> QED BY <1>1, <1>2, <1>5, <2>1 DEF NextPart, Known, stateVars
<1>6. CASE HeaderLine(Root, l, w)
  <2>1. UNCHANGED <<mimeVersion[p], contentType[p], boundary[p]>>
    BY <1>1, <1>6 DEF HeaderLine, TypeOK
  <2> QED BY <1>1, <1>2, <1>6, <2>1 DEF HeaderLine, Known, stateVars
<1>7. ASSUME NEW fresh, p # fresh, EndOfHeaders(w, x), StartBody(w, x, fresh),
             inHeader'[p] = inHeader[p]
      PROVE  UNCHANGED Known(p)
  <2>1. UNCHANGED <<mimeVersion[p], contentType[p], boundary[p], completed[p]>>
    BY <1>1, <1>7 DEF EndOfHeaders, TypeOK
  <2>2. bodystart'[p] = bodystart[p]
    BY <1>1, <1>7 DEF StartBody
  <2>3. UNCHANGED <<startpos[p], endpos[p], bodyend[p], nlines[p], nbodylines[p]>>
    BY <1>2, <1>7 DEF StartBody
  <2> QED BY <1>7, <2>1, <2>2, <2>3 DEF Known
<1>8. CASE EndOfHeadersLeaf(Root, l, w) \/ EndOfHeadersTooDeep(Root, l, w)
  <2>1. inHeader'[p] = inHeader[p]
    BY <1>1, <1>8, TreeTypes DEF EndOfHeadersLeaf, EndOfHeadersTooDeep
  <2> QED BY <1>1, <1>7, <1>8, <2>1 DEF EndOfHeadersLeaf, EndOfHeadersTooDeep
<1>9. CASE EndOfHeadersComposite(Root, l, w)
  <2>1. inHeader'[p] = inHeader[p]
    BY <1>1, <1>9, TreeTypes DEF EndOfHeadersComposite
  <2> QED BY <1>1, <1>7, <1>9, <2>1 DEF EndOfHeadersComposite
<1> QED BY <1>3, <1>4, <1>5, <1>6, <1>8, <1>9

(* A part that the parser has left behind is never touched again, whatever  *)
(* lines follow and whichever parts are removed.                            *)
THEOREM ClosedStayFrozen ==
  ASSUME Handles \subseteq {Root}
  PROVE  Spec => ClosedPartsFrozen
<1> DEFINE Frozen == \A p \in Allocated \ Open(Root) : UNCHANGED Known(p)
<1>1. TypeOK /\ TreeOK /\ SpineInSync /\ TypeOK' /\ [Next]_vars => [Frozen]_vars
  <2> SUFFICES ASSUME TypeOK, TreeOK, SpineInSync, TypeOK', Next
               PROVE  Frozen
    OBVIOUS
  <2>1. ASSUME UNCHANGED <<posVars, stateVars, contentType, boundary, mimeVersion>>
        PROVE  Frozen
    BY <2>1 DEF Known, posVars, stateVars
  <2>2. ASSUME NEW l \in Incoming(Root), ProcessLine(Root, l) PROVE Frozen
    <3>1. CASE RefuseTooComplex(Root, l)
      BY <2>1, <3>1 DEF RefuseTooComplex, headerVars
    <3>2. ASSUME NEW w, IgnoredLine(Root, l, w) PROVE Frozen
      BY <2>1, <3>2 DEF IgnoredLine, headerVars
    <3>3. ASSUME NEW w \in Down(Root), WorksOn(Down(Root), Received(Root, l), w)
          PROVE  OnSpine(w)
      BY <3>3, WorkOnSpine
    <3> QED BY <2>2, <3>1, <3>2, <3>3, LineFreezes DEF ProcessLine
  <2>3. ASSUME NEW h, NEW l, NEW n, BufferFragment(h, l, n) PROVE Frozen
    BY <2>1, <2>3 DEF BufferFragment, headerVars
  <2>4. ASSUME NEW c, RemoveFromParent(c) PROVE Frozen
    BY <2>1, <2>4 DEF RemoveFromParent, headerVars
  <2> QED BY <2>2, <2>3, <2>4 DEF Next
<1>2. Spec => [](WellNested /\ SpineInSync)
  BY OffsetsCorrect
<1>3. [][Frozen]_vars => ClosedPartsFrozen
  <2>1. Frozen => \A p \in Allocated \ Open(Root) :
          UNCHANGED <<startpos[p], endpos[p], bodystart[p], bodyend[p],
                      nlines[p], nbodylines[p], inHeader[p], completed[p],
                      contentType[p], boundary[p], mimeVersion[p]>>
    BY DEF Known
  <2> QED BY <2>1, PTL DEF ClosedPartsFrozen
<1> QED BY <1>1, <1>2, <1>3, TypeCorrect, TreeCorrect, PTL DEF Spec
-----------------------------------------------------------------------------
(* Section names: a name is that of the parent and the part's own number.   *)
LEMMA IdNumber ==
  ASSUME NEW p
  PROVE  Id(p) \in Nat
<1>1. Elders(p) \subseteq Children(parent[p])
  BY DEF Elders
<1>2. Cardinality(Elders(p)) \in Nat
  BY <1>1, ChildrenFinite, FS_Subset, FS_CardinalityType
<1> QED BY <1>2 DEF Id, FirstId

NameStep(top) ==
  [q \in Part |-> [g \in [Part -> Seq(Nat)] |->
     IF q = top \/ parent[q] = NoPart THEN << 1 >>
     ELSE Append(g[parent[q]], Id(q))]]

LEMMA NameIs ==
  ASSUME TypeOK, TreeOK, NEW top \in Part
  PROVE  \A q \in Part :
           /\ Name(top, q) \in Seq(Nat)
           /\ Name(top, q) = IF q = top \/ parent[q] = NoPart THEN << 1 >>
                             ELSE Append(Name(top, parent[q]), Id(q))
<1> DEFINE r == [p \in Part |-> p]
           F == NameStep(top)
           T == Seq(Nat)
<1>1. \A q \in Part : parent[q] # NoPart => parent[q] \in Part /\ r[parent[q]] < r[q]
  BY TreeTypes DEF TreeOK
<1>2. \A q \in Part, g \in [Part -> T] :
        /\ q = top \/ parent[q] = NoPart => F[q][g] = << 1 >>
        /\ ~(q = top \/ parent[q] = NoPart) => F[q][g] = Append(g[parent[q]], Id(q))
  BY DEF NameStep
<1>3. \A q \in Part, g \in [Part -> T] : F[q][g] \in T
  <2> SUFFICES ASSUME NEW q \in Part, NEW g \in [Part -> T] PROVE F[q][g] \in T
    OBVIOUS
  <2>1. << 1 >> \in Seq(Nat)
    OBVIOUS
  <2>2. CASE q = top \/ parent[q] = NoPart
    BY <1>2, <2>1, <2>2
  <2>3. CASE ~(q = top \/ parent[q] = NoPart)
    <3>1. g[parent[q]] \in Seq(Nat) /\ Id(q) \in Nat
      BY <1>1, <2>3, IdNumber
    <3>2. Append(g[parent[q]], Id(q)) \in Seq(Nat)
      BY <3>1
    <3> QED BY <1>2, <2>3, <3>2
  <2> QED BY <2>2, <2>3
<1>4. r \in [Part -> Nat] /\ (\A p \in Part : r[p] <= MaxAlloc) /\ MaxAlloc \in Nat
  BY HeapAssumption DEF Part
<1>5. F \in [Part -> [[Part -> T] -> T]]
  BY <1>3 DEF NameStep
<1>6. ASSUME NEW q \in Part, NEW g \in [Part -> T], NEW h \in [Part -> T],
             \A e \in Part : r[e] < r[q] => g[e] = h[e]
      PROVE  F[q][g] = F[q][h]
  <2>1. CASE q = top \/ parent[q] = NoPart
    BY <1>2, <2>1
  <2>2. CASE ~(q = top \/ parent[q] = NoPart)
    <3>1. g[parent[q]] = h[parent[q]]
      BY <1>1, <1>6, <2>2
    <3>2. /\ F[q][g] = Append(g[parent[q]], Id(q))
          /\ F[q][h] = Append(h[parent[q]], Id(q))
      BY <1>2, <2>2
    <3> QED BY <3>1, <3>2
  <2> QED BY <2>1, <2>2
<1>7. T # {}
  <2>1. << >> \in T
    OBVIOUS
  <2> QED BY <2>1
<1>8. RankedBy(F, r, MaxAlloc, Part, T)
  <2> HIDE DEF r, F, T
  <2>1. \A q \in Part : \A g, h \in [Part -> T] :
          (\A e \in Part : r[e] < r[q] => g[e] = h[e]) => F[q][g] = F[q][h]
    BY <1>6
  <2> QED BY <1>4, <1>5, <1>7, <2>1 DEF RankedBy
<1>9. PICK g : g \in [Part -> T] /\ \A q \in Part : g[q] = F[q][g]
  BY <1>8, Recursion
<1>10. g = [q \in Part |-> IF q = top \/ parent[q] = NoPart THEN << 1 >>
                           ELSE Append(g[parent[q]], Id(q))]
  BY <1>2, <1>9
<1> DEFINE f == CHOOSE name : name = [q \in Part |->
                  IF q = top \/ parent[q] = NoPart THEN << 1 >>
                  ELSE Append(name[parent[q]], Id(q))]
<1>11. f = [q \in Part |-> IF q = top \/ parent[q] = NoPart THEN << 1 >>
                           ELSE Append(f[parent[q]], Id(q))]
  BY <1>10
<1>12. \A p \in Part : Name(top, p) = f[p]
  BY DEF Name
<1> HIDE DEF f
<1>13. \A q \in Part :
         /\ f[q] = IF q = top \/ parent[q] = NoPart THEN << 1 >>
                   ELSE Append(f[parent[q]], Id(q))
         /\ g[q] = IF q = top \/ parent[q] = NoPart THEN << 1 >>
                   ELSE Append(g[parent[q]], Id(q))
  BY <1>10, <1>11
<1>14. ASSUME NEW q \in Part, \A e \in Part : r[e] < r[q] => f[e] = g[e]
       PROVE  f[q] = g[q]
  <2>1. ~(q = top \/ parent[q] = NoPart) => f[parent[q]] = g[parent[q]]
    BY <1>1, <1>14
  <2> QED BY <1>13, <2>1
<1>15. \A q \in Part : f[q] = g[q]
  <2> HIDE DEF r
  <2>1. \A q \in Part : (\A e \in Part : r[e] < r[q] => f[e] = g[e]) => f[q] = g[q]
    BY <1>14
  <2>2. r \in [Part -> Nat]
    BY <1>4
  <2> QED BY <2>1, <2>2, Unique
<1>16. \A q \in Part : Name(top, q) \in Seq(Nat)
  BY <1>9, <1>12, <1>15
<1>17. ASSUME NEW q \in Part
       PROVE  Name(top, q) = IF q = top \/ parent[q] = NoPart THEN << 1 >>
                             ELSE Append(Name(top, parent[q]), Id(q))
  <2>1. ~(q = top \/ parent[q] = NoPart) => Name(top, parent[q]) = f[parent[q]]
    BY <1>1, <1>12
  <2> QED BY <1>12, <1>13, <2>1
<1> QED BY <1>16, <1>17

(* Brothers have different numbers: the younger has one elder more.         *)
LEMMA BrothersDiffer ==
  ASSUME NEW c \in Part, NEW d \in Part, parent[c] = parent[d], c < d
  PROVE  Id(c) < Id(d)
<1>1. /\ Elders(c) \subseteq Elders(d) /\ c \in Elders(d) /\ c \notin Elders(c)
      /\ Elders(d) \subseteq Children(parent[d])
  <2>1. \A e \in Part : e < c => e < d
    BY PartFacts
  <2>2. ~(c < c)
    BY PartFacts
  <2> QED BY <2>1, <2>2 DEF Elders, Children
<1>2. IsFiniteSet(Elders(d))
  BY <1>1, ChildrenFinite, FS_Subset
<1>3. /\ IsFiniteSet(Elders(c)) /\ Cardinality(Elders(c)) < Cardinality(Elders(d))
      /\ Cardinality(Elders(d)) \in Nat /\ Cardinality(Elders(c)) \in Nat
  BY <1>1, <1>2, FS_Subset, FS_CardinalityType
<1>4. FirstId(parent[c]) \in Nat
  BY DEF FirstId
<1> QED BY <1>3, <1>4 DEF Id

(* The ancestors of a part but itself are those of its parent.              *)
LEMMA UpIsParents ==
  ASSUME TypeOK, TreeOK, NEW p \in Part
  PROVE  Up(p) = {p} \cup IF parent[p] = NoPart THEN {} ELSE Up(parent[p])
<1> DEFINE S == {p} \cup IF parent[p] = NoPart THEN {} ELSE Up(parent[p])
<1>1. parent[p] # NoPart => parent[p] \in Part
  BY TreeTypes
<1>2. S \in SUBSET Part /\ p \in S
  BY <1>1, UpBelow
<1>3. \A r \in S : parent[r] \in S \cup {NoPart}
  BY <1>1, UpBelow
<1>4. Up(p) \subseteq S
  <2> HIDE DEF S
  <2> QED BY <1>2, <1>3, ClosureFacts, TreeTypes DEF Up
<1>5. ASSUME parent[p] # NoPart PROVE Up(parent[p]) \subseteq Up(p)
  <2>1. parent[p] \in Up(p) /\ Up(p) \in SUBSET Part
        /\ \A r \in Up(p) : parent[r] \in Up(p) \cup {NoPart}
    BY <1>5, UpBelow
  <2> QED BY <1>1, <1>5, <2>1, ClosureFacts, TreeTypes DEF Up
<1> QED BY <1>4, <1>5, UpBelow

(* One step up from a part below top.                                       *)
LEMMA NextUp ==
  ASSUME TypeOK, TreeOK, NEW top \in Part, NEW p \in Part, top \in Up(p), p # top
  PROVE  /\ parent[p] \in Part /\ parent[p] < p /\ top \in Up(parent[p])
         /\ Name(top, parent[p]) \in Seq(Nat) /\ Id(p) \in Nat
         /\ Name(top, p) = Append(Name(top, parent[p]), Id(p))
         /\ top < p
<1>1. parent[p] # NoPart
  BY UpIsParents
<1>2. parent[p] \in Part /\ parent[p] < p
  BY <1>1, TreeTypes DEF TreeOK
<1>3. top \in Up(parent[p])
  BY <1>1, UpIsParents
<1>4. top < p
  BY UpBelow, PartFacts
<1> QED BY <1>1, <1>2, <1>3, <1>4, NameIs, IdNumber

LEMMA TopName ==
  ASSUME TypeOK, TreeOK, NEW top \in Part
  PROVE  Name(top, top) = << 1 >>
  BY NameIs

(* What lies between top and a part below it has top above it, too.         *)
LEMMA Between ==
  ASSUME TypeOK, TreeOK, NEW top \in Part, NEW p \in Part, top \in Up(p),
         NEW r \in Below(top, p)
  PROVE  r \in Part /\ top \in Up(r) /\ parent[r] # NoPart
<1> DEFINE S == {s \in Part : top \in Up(s)} \cup Up(top)
<1>1. S \in SUBSET Part /\ p \in S
  BY UpBelow
<1>2. ASSUME NEW s \in S PROVE parent[s] \in S \cup {NoPart}
  <2>1. CASE s \in Up(top)
    BY <2>1, UpBelow
  <2>2. CASE s \in Part /\ top \in Up(s) /\ s # top
    BY <2>2, NextUp
  <2> QED BY <2>1, <2>2, UpBelow
<1>3. Up(p) \subseteq S
  <2> HIDE DEF S
  <2> QED BY <1>1, <1>2, ClosureFacts, TreeTypes DEF Up
<1>4. r \in S /\ r > top /\ r \in Part
  BY <1>1, <1>3 DEF Below
<1>5. r \notin Up(top) /\ r # top
  <2>1. \A q \in Up(top) : q <= top /\ q \in Part
    BY UpBelow
  <2> QED BY <1>4, <2>1, PartFacts
<1> QED BY <1>4, <1>5, NextUp, PartFacts

(* The chain down to a part is that down to its parent and the part itself. *)
LEMMA BelowUp ==
  ASSUME TypeOK, TreeOK, NEW top \in Part, NEW p \in Part, top \in Up(p)
  PROVE  /\ Place(top, p) \in Nat /\ Place(top, p) >= 1
         /\ p = top => Below(top, p) = {} /\ Place(top, p) = 1
         /\ p # top => /\ Below(top, p) = Below(top, parent[p]) \cup {p}
                       /\ Place(top, p) = Place(top, parent[p]) + 1
                       /\ Place(top, p) >= 2
<1>1. ASSUME NEW q \in Part
      PROVE  IsFiniteSet(Below(top, q)) /\ Cardinality(Below(top, q)) \in Nat
  <2>1. Below(top, q) \in SUBSET Up(q) /\ IsFiniteSet(Up(q))
    BY UpBelow DEF Below
  <2> QED BY <2>1, FS_Subset, FS_CardinalityType
<1>2. Place(top, p) \in Nat /\ Place(top, p) >= 1
  BY <1>1 DEF Place
<1>3. ASSUME p = top PROVE Below(top, p) = {} /\ Place(top, p) = 1
  <2>1. \A r \in Up(top) : ~(r > top)
    BY UpBelow, PartFacts
  <2>2. Below(top, p) = {}
    BY <1>3, <2>1 DEF Below
  <2> QED BY <2>2, FS_EmptySet DEF Place
<1>4. ASSUME p # top
      PROVE  /\ Below(top, p) = Below(top, parent[p]) \cup {p}
             /\ Place(top, p) = Place(top, parent[p]) + 1
             /\ Place(top, p) >= 2
  <2> DEFINE u == parent[p]
             B == Below(top, u)
  <2>1. u \in Part /\ u < p /\ top < p
    BY <1>4, NextUp
  <2>2. Up(p) = {p} \cup Up(u)
    BY <2>1, UpIsParents, PartFacts
  <2>3. Below(top, p) = B \cup {p}
    BY <2>1, <2>2, PartFacts DEF Below
  <2>4. p \notin B
    <3>1. \A r \in Up(u) : r <= u
      BY <2>1, UpBelow
    <3>2. ~(p <= u)
      <4>1. p \in Nat /\ u \in Nat /\ u < p
        BY <2>1, PartFacts
      <4> QED BY <4>1
    <3> QED BY <3>1, <3>2 DEF Below
  <2>5. IsFiniteSet(B) /\ Cardinality(B) \in Nat
    BY <1>1, <2>1
  <2> HIDE DEF B
  <2>6. Cardinality(B \cup {p}) = Cardinality(B) + 1
    BY <2>4, <2>5, FS_AddElement
  <2>7. Place(top, p) = Cardinality(B) + 1 + 1 /\ Place(top, u) = Cardinality(B) + 1
    BY <2>3, <2>6 DEF Place, B
  <2> QED BY <2>3, <2>5, <2>7 DEF B
<1> QED BY <1>2, <1>3, <1>4

(* What is printed for a part agrees with the walk that looks for it: the   *)
(* name has a number for every part of the chain, at that part's place.     *)
LEMMA NamesMatch ==
  ASSUME TypeOK, TreeOK, NEW top \in Part
  PROVE  \A p \in Part : top \in Up(p) => Matches(top, p, Name(top, p))
<1> DEFINE Fits(q) == Matches(top, q, Name(top, q))
           S == {n \in Nat : \A p \in Part : p <= n /\ top \in Up(p) => Fits(p)}
<1>1. 0 \in S
  BY PartFacts
<1>2. ASSUME NEW n \in Nat, n \in S PROVE n + 1 \in S
  <2> SUFFICES ASSUME NEW p \in Part, p <= n + 1, top \in Up(p) PROVE Fits(p)
    OBVIOUS
  <2>1. CASE p = top
    <3>1. Name(top, p) = << 1 >> /\ Below(top, p) = {} /\ Place(top, p) = 1
      BY <2>1, TopName, BelowUp
    <3>2. Len(<< 1 >>) = 1 /\ << 1 >>[1] = 1
      OBVIOUS
    <3> QED BY <3>1, <3>2 DEF Matches, Agrees
  <2>2. CASE p # top
    <3> DEFINE u == parent[p]
               a == Name(top, u)
               e == Id(p)
               b == Append(a, e)
               k == Place(top, u)
    <3>1. u \in Part /\ u < p /\ top \in Up(u) /\ a \in Seq(Nat) /\ e \in Nat
          /\ Name(top, p) = b
      BY <2>2, NextUp
    <3>2. u <= n
      <4>1. u \in Nat /\ p \in Nat /\ n \in Nat /\ p <= n + 1 /\ u < p
        BY <3>1, PartFacts
      <4> QED BY <4>1
    <3>3. Fits(u)
      BY <1>2, <3>1, <3>2
    <3>4. /\ Below(top, p) = Below(top, u) \cup {p} /\ Place(top, p) = k + 1
          /\ k \in Nat /\ k >= 1
      BY <2>2, <3>1, BelowUp
    <3>5. \A r \in Below(top, u) : Place(top, r) \in Nat /\ Place(top, r) >= 1
                                  /\ Place(top, r) <= k
      <4> SUFFICES ASSUME NEW r \in Below(top, u)
                   PROVE  Place(top, r) \in Nat /\ Place(top, r) >= 1
                          /\ Place(top, r) <= k
        OBVIOUS
      <4>1. r \in Part /\ top \in Up(r)
        BY <3>1, Between
      <4>2. Below(top, r) \in SUBSET Below(top, u)
        <5>1. Up(r) \subseteq Up(u)
          <6>1. r \in Up(u)
            BY DEF Below
          <6>2. Up(u) \in SUBSET Part
                /\ \A t \in Up(u) : parent[t] \in Up(u) \cup {NoPart}
            BY <3>1, UpBelow
          <6> QED BY <4>1, <6>1, <6>2, ClosureFacts, TreeTypes DEF Up
        <5> QED BY <5>1 DEF Below
      <4>3. /\ IsFiniteSet(Below(top, u)) /\ Cardinality(Below(top, u)) \in Nat
        <5>1. Below(top, u) \in SUBSET Up(u) /\ IsFiniteSet(Up(u))
          BY <3>1, UpBelow DEF Below
        <5> QED BY <5>1, FS_Subset, FS_CardinalityType
      <4>4. /\ Cardinality(Below(top, r)) <= Cardinality(Below(top, u))
            /\ Cardinality(Below(top, r)) \in Nat
        BY <4>2, <4>3, FS_Subset, FS_CardinalityType
      <4> QED BY <4>3, <4>4 DEF Place
    <3>6. /\ Len(a) = k /\ a[1] = 1
          /\ \A r \in Below(top, u) : a[Place(top, r)] = Id(r)
      BY <3>3 DEF Matches, Agrees
    <3>7. /\ Len(b) = k + 1 /\ b[k + 1] = e
          /\ \A i \in Nat : i >= 1 /\ i <= k => b[i] = a[i]
      <4> HIDE DEF a, e, k
      <4>1. /\ Len(b) = Len(a) + 1 /\ b[Len(a) + 1] = e
            /\ \A i \in 1 .. Len(a) : b[i] = a[i]
        BY <3>1, AppendProperties
      <4>2. Len(a) = k /\ k \in Nat
        BY <3>4, <3>6
      <4> QED BY <4>1, <4>2
    <3> HIDE DEF a, b, e, k
    <3>8. b[1] = 1
      BY <3>4, <3>6, <3>7
    <3>9. \A r \in Below(top, p) : b[Place(top, r)] = Id(r)
      BY <3>4, <3>5, <3>6, <3>7 DEF e
    <3>10. Len(b) = Place(top, p) /\ Len(b) >= Place(top, p)
      BY <3>4, <3>7
    <3> QED BY <3>1, <3>8, <3>9, <3>10 DEF Matches, Agrees
  <2> QED BY <2>1, <2>2
<1>3. Nat \subseteq S
  <2> HIDE DEF S
  <2> QED BY <1>1, <1>2, Induct
<1> QED BY <1>3, PartFacts

(* A name matches one part: two at the same place whose chains have the     *)
(* numbers of one name have one parent and, there, one number.              *)
LEMMA OneMatch ==
  ASSUME TypeOK, TreeOK, NEW top \in Part, NEW name
  PROVE  \A p, q \in Part :
           /\ top \in Up(p) /\ top \in Up(q) /\ Place(top, p) = Place(top, q)
           /\ Agrees(top, p, name) /\ Agrees(top, q, name)
           => p = q
<1> DEFINE Both(p, q) ==
             /\ top \in Up(p) /\ top \in Up(q) /\ Place(top, p) = Place(top, q)
             /\ \A r \in Below(top, p) : name[Place(top, r)] = Id(r)
             /\ \A r \in Below(top, q) : name[Place(top, r)] = Id(r)
           S == {n \in Nat : \A p, q \in Part : p <= n /\ Both(p, q) => p = q}
<1>1. 0 \in S
  BY PartFacts
<1>2. ASSUME NEW n \in Nat, n \in S PROVE n + 1 \in S
  <2> SUFFICES ASSUME NEW p \in Part, NEW q \in Part, p <= n + 1, Both(p, q)
               PROVE  p = q
    OBVIOUS
  <2>1. p = top <=> q = top
    <3>1. \A x \in {p, q} : /\ Place(top, x) \in Nat
                            /\ x = top => Place(top, x) = 1
                            /\ x # top => Place(top, x) >= 2
      BY BelowUp
    <3> QED BY <3>1
  <2>2. CASE p # top /\ q # top
    <3> DEFINE u == parent[p]
               v == parent[q]
    <3>1. u \in Part /\ u < p /\ top \in Up(u) /\ v \in Part /\ top \in Up(v)
      BY <2>2, NextUp
    <3>2. /\ Below(top, p) = Below(top, u) \cup {p}
          /\ Below(top, q) = Below(top, v) \cup {q}
          /\ Place(top, p) = Place(top, u) + 1 /\ Place(top, u) \in Nat
          /\ Place(top, q) = Place(top, v) + 1 /\ Place(top, v) \in Nat
      <4>1. /\ Below(top, p) = Below(top, u) \cup {p}
            /\ Place(top, p) = Place(top, u) + 1
        BY <2>2, BelowUp
      <4>2. /\ Below(top, q) = Below(top, v) \cup {q}
            /\ Place(top, q) = Place(top, v) + 1
        BY <2>2, BelowUp
      <4>3. Place(top, u) \in Nat /\ Place(top, v) \in Nat
        <5> HIDE DEF u, v
        <5> QED BY <3>1, BelowUp
      <4> QED BY <4>1, <4>2, <4>3
    <3>3. Place(top, u) = Place(top, v)
      <4>1. Place(top, p) = Place(top, q)
        OBVIOUS
      <4> DEFINE a == Place(top, u)
                 b == Place(top, v)
                 c == Place(top, p)
      <4>2. a \in Nat /\ b \in Nat /\ c = a + 1 /\ c = b + 1
        BY <3>2, <4>1
      <4> HIDE DEF a, b, c
      <4>3. a = b
        BY <4>2
      <4> QED BY <4>3 DEF a, b
    <3>4. u <= n
      <4>1. u \in Nat /\ p \in Nat /\ n \in Nat /\ p <= n + 1
        BY <3>1, PartFacts
      <4> QED BY <3>1, <4>1
    <3>5. u = v
      <4>1. Both(u, v)
        BY <3>1, <3>2, <3>3
      <4> QED BY <1>2, <3>1, <3>4, <4>1
    <3>6. Id(p) = Id(q)
      BY <3>2
    <3>7. Id(p) \in Nat /\ ~(p < q) /\ ~(q < p)
      BY <3>5, <3>6, IdNumber, BrothersDiffer
    <3> QED BY <3>7, PartFacts
  <2> QED BY <2>1, <2>2
<1>3. Nat \subseteq S
  <2> HIDE DEF S
  <2> QED BY <1>1, <1>2, Induct
<1>4. \A p, q \in Part : Both(p, q) => p = q
  BY <1>3, PartFacts
<1> QED BY <1>4 DEF Agrees

(* The name of a part below p, seen from further up, begins with that of p *)
(* and goes on as it is seen from p; what p lists is listed from there.     *)
LEMMA NamesContinue ==
  ASSUME TypeOK, TreeOK, NEW top \in Part, NEW p \in Part, top \in Up(p)
  PROVE  \A q \in Part : p \in Up(q) =>
           /\ top \in Up(q)
           /\ Name(top, q) = Name(top, p) \o Tail(Name(p, q))
           /\ \A r \in Below(top, q) : r \in Below(top, p) \/ r \in Below(p, q)
<1> DEFINE Goes(q) ==
             /\ top \in Up(q)
             /\ Name(top, q) = Name(top, p) \o Tail(Name(p, q))
             /\ \A r \in Below(top, q) : r \in Below(top, p) \/ r \in Below(p, q)
           S == {n \in Nat : \A q \in Part : q <= n /\ p \in Up(q) => Goes(q)}
<1>1. 0 \in S
  BY PartFacts
<1>2. Name(top, p) \in Seq(Nat)
  BY NameIs
<1>3. ASSUME NEW n \in Nat, n \in S PROVE n + 1 \in S
  <2> SUFFICES ASSUME NEW q \in Part, q <= n + 1, p \in Up(q) PROVE Goes(q)
    OBVIOUS
  <2>1. CASE q = p
    <3>1. Name(p, q) = << 1 >> /\ Tail(<< 1 >>) = << >>
      BY <2>1, TopName
    <3>2. Name(top, p) \o << >> = Name(top, p)
      BY <1>2, ConcatEmptySeq
    <3> QED BY <2>1, <3>1, <3>2
  <2>2. CASE q # p
    <3> DEFINE u == parent[q]
               a == Name(top, u)
               b == Name(p, u)
               e == Id(q)
               h == Name(top, p)
    <3>1. u \in Part /\ u < q /\ p \in Up(u) /\ p < q
          /\ b \in Seq(Nat) /\ e \in Nat /\ Name(p, q) = Append(b, e)
      BY <2>2, NextUp
    <3>2. u <= n
      <4>1. u \in Nat /\ q \in Nat /\ n \in Nat /\ q <= n + 1 /\ u < q
        BY <3>1, PartFacts
      <4> QED BY <4>1
    <3>3. Goes(u)
      BY <1>3, <3>1, <3>2
    <3>4. Up(q) = {q} \cup Up(u)
      BY <3>1, UpIsParents, PartFacts
    <3>5. top \in Up(q) /\ top # q
      <4>1. top <= p /\ top \in Nat /\ p \in Nat /\ q \in Nat
        BY UpBelow, PartFacts
      <4> QED BY <3>1, <3>3, <3>4, <4>1
    <3>6. a \in Seq(Nat) /\ Name(top, q) = Append(a, e)
      BY <3>5, NextUp
    <3>7. b # << >>
      <4>1. CASE u = p
        <5>1. << 1 >> # << >>
          OBVIOUS
        <5> QED BY <4>1, <5>1, TopName
      <4>2. CASE u # p
        <5>1. /\ b = Append(Name(p, parent[u]), Id(u))
              /\ Name(p, parent[u]) \in Seq(Nat) /\ Id(u) \in Nat
          BY <3>1, <4>2, NextUp
        <5> QED BY <5>1, AppendProperties
      <4> QED BY <4>1, <4>2
    <3>8. a = h \o Tail(b)
      BY <3>3
    <3>9. h \in Seq(Nat)
      BY <1>2
    <3>10. Append(a, e) = h \o Tail(Append(b, e))
      <4> HIDE DEF a, b, e, h
      <4>1. Tail(b) \in Seq(Nat) /\ <<e>> \in Seq(Nat)
        BY <3>1, <3>7, HeadTailProperties
      <4>2. Tail(Append(b, e)) = Append(Tail(b), e)
        BY <3>1, <3>7, HeadTailAppend
      <4>3. Append(a, e) = a \o <<e>> /\ Append(Tail(b), e) = Tail(b) \o <<e>>
        BY <3>1, <3>6, <4>1, AppendIsConcat
      <4>4. (h \o Tail(b)) \o <<e>> = h \o (Tail(b) \o <<e>>)
        <5> DEFINE c == Tail(b)
                   d == <<e>>
        <5>1. h \in Seq(Nat) /\ c \in Seq(Nat) /\ d \in Seq(Nat)
          BY <3>9, <4>1
        <5> HIDE DEF c, d
        <5>2. (h \o c) \o d = h \o (c \o d)
          BY <5>1, ConcatAssociative
        <5> QED BY <5>2 DEF c, d
      <4> QED BY <3>8, <4>2, <4>3, <4>4
    <3>11. Name(top, q) = h \o Tail(Name(p, q))
      BY <3>1, <3>6, <3>10
    <3>12. \A r \in Below(top, q) : r \in Below(top, p) \/ r \in Below(p, q)
      <4>1. q \in Below(p, q)
        BY <3>1, <3>4 DEF Below
      <4>2. \A r \in Below(p, u) : r \in Below(p, q)
        BY <3>4 DEF Below
      <4>3. \A r \in Below(top, q) : r = q \/ r \in Below(top, u)
        BY <3>4 DEF Below
      <4> QED BY <3>3, <4>1, <4>2, <4>3
    <3> QED BY <3>5, <3>11, <3>12
  <2> QED BY <2>1, <2>2
<1>4. Nat \subseteq S
  <2> HIDE DEF S
  <2> QED BY <1>1, <1>3, Induct
<1> QED BY <1>4, PartFacts

(* Whichever handles are parsed through and whatever is removed: what the  *)
(* listing of a part prints is found again, as the part it was printed for *)
(* and no other, and so is a name continued with what a part inside lists. *)
THEOREM NamesFindParts == Spec => []NamesIdentify
<1>1. TypeOK /\ TreeOK => NamesIdentify
  <2> SUFFICES ASSUME TypeOK, TreeOK, NEW top \in Allocated, NEW p \in Listed(top)
               PROVE  /\ FindByName(top, Name(top, p)) = {p}
                      /\ \A q \in Listed(p) :
                           FindByName(top, Name(top, p) \o Tail(Name(p, q))) = {q}
    BY DEF NamesIdentify
  <2>1. top \in Part /\ \A x \in Allocated : x \in Part
    BY TreeTypes
  <2>2. \A x \in Listed(top) : x \in Part /\ top \in Up(x)
    BY <2>1 DEF Listed
  <2>3. ASSUME NEW q \in Listed(top) PROVE FindByName(top, Name(top, q)) = {q}
    <3>1. Matches(top, q, Name(top, q))
      BY <2>1, <2>2, NamesMatch
    <3>2. ASSUME NEW x \in Listed(top), Matches(top, x, Name(top, q)) PROVE x = q
      <4>1. /\ Place(top, x) = Place(top, q)
            /\ Agrees(top, x, Name(top, q)) /\ Agrees(top, q, Name(top, q))
        BY <3>1, <3>2 DEF Matches
      <4> DEFINE name == Name(top, q)
      <4>2. Agrees(top, x, name) /\ Agrees(top, q, name)
        BY <4>1
      <4> HIDE DEF name
      <4> QED BY <2>1, <2>2, <4>1, <4>2, OneMatch
    <3> QED BY <3>1, <3>2 DEF FindByName
  <2>4. ASSUME NEW q \in Listed(p)
        PROVE  FindByName(top, Name(top, p) \o Tail(Name(p, q))) = {q}
    <3>1. /\ p \in Allocated /\ q \in Part /\ q \in Allocated /\ p \in Up(q)
          /\ \A r \in Below(p, q) : Id(r) # 0
          /\ \A r \in Below(top, p) : Id(r) # 0
      BY <2>1 DEF Listed
    <3>2. /\ top \in Up(q)
          /\ Name(top, q) = Name(top, p) \o Tail(Name(p, q))
          /\ \A r \in Below(top, q) : r \in Below(top, p) \/ r \in Below(p, q)
      BY <2>1, <2>2, <3>1, NamesContinue
    <3>3. q \in Listed(top)
      BY <3>1, <3>2 DEF Listed
    <3> QED BY <2>3, <3>2, <3>3
  <2> QED BY <2>3, <2>4
<1> QED BY <1>1, TypeCorrect, TreeCorrect, PTL

-----------------------------------------------------------------------------
(* Names from the root before and after a step: they are made of the        *)
(* parents and the numbers on the way up.                                   *)
Numbers == [q \in Part |-> Id(q)]
Names   == [q \in Part |-> Name(Root, q)]
NamesMade ==
  TypeOK /\ TreeOK =>
    \A q \in Part :
      /\ Names[q] = Name(Root, q) /\ Numbers[q] = Id(q)
      /\ Names[q] = IF q = Root \/ parent[q] = NoPart THEN << 1 >>
                    ELSE Append(Names[parent[q]], Numbers[q])

LEMMA NamesAreMade == NamesMade
<1> SUFFICES ASSUME TypeOK, TreeOK, NEW q \in Part
             PROVE  /\ Names[q] = Name(Root, q) /\ Numbers[q] = Id(q)
                    /\ Names[q] = IF q = Root \/ parent[q] = NoPart THEN << 1 >>
                                  ELSE Append(Names[parent[q]], Numbers[q])
  BY DEF NamesMade
<1>1. parent[q] # NoPart => parent[q] \in Part
  BY TreeTypes
<1>2. Names[q] = Name(Root, q) /\ Numbers[q] = Id(q)
  BY DEF Names, Numbers
<1>3. parent[q] # NoPart => Names[parent[q]] = Name(Root, parent[q])
  BY <1>1 DEF Names
<1>4. Name(Root, q) = IF q = Root \/ parent[q] = NoPart THEN << 1 >>
                      ELSE Append(Name(Root, parent[q]), Id(q))
  BY PartFacts, NameIs
<1> QED BY <1>2, <1>3, <1>4

LEMMA NamesAreMadeThen == NamesMade'
  BY NamesAreMade, PTL

(* A name is as good as before when nothing on the way up to the root has   *)
(* another parent or another number.                                        *)
LEMMA NameStays ==
  ASSUME TypeOK, TreeOK, TypeOK', TreeOK', nparts <= nparts',
         NEW p \in Part, p \in Allocated, Root \in Up(p),
         \A q \in Up(p) : /\ parent'[q] = parent[q]
                          /\ parent[q] # NoPart => Numbers'[q] = Numbers[q]
  PROVE  /\ Name(Root, p)' = Name(Root, p)
         /\ p \in Listed(Root)' <=> p \in Listed(Root)
<1>0. Up(p)' = Closure(parent', p) /\ parent' \in [Part -> Part \cup {NoPart}]
  BY DEF Up, TypeOK
<1>1. Up(p)' = Up(p)
  <2>1. Up(p)' \subseteq Up(p)
    <3>1. p \in Up(p) /\ Up(p) \in SUBSET Part
          /\ \A r \in Up(p) : parent'[r] \in Up(p) \cup {NoPart}
      BY UpBelow
    <3> QED BY <1>0, <3>1, ClosureFacts
  <2>2. Up(p) \subseteq Up(p)'
    <3> DEFINE S == Up(p)'
    <3>1. p \in S /\ S \in SUBSET Part
          /\ \A r \in S : parent'[r] # NoPart => parent'[r] \in S
      BY <1>0, ClosureFacts
    <3>2. \A r \in S : parent[r] \in S \cup {NoPart}
      BY <2>1, <3>1
    <3> HIDE DEF S
    <3>3. Up(p) \subseteq S
      BY <3>1, <3>2, ClosureFacts, TreeTypes DEF Up
    <3> QED BY <3>3 DEF S
  <2> QED BY <2>1, <2>2
<1>2. \A q \in Part :
        /\ Names[q] = Name(Root, q) /\ Numbers[q] = Id(q)
        /\ Names[q] = IF q = Root \/ parent[q] = NoPart THEN << 1 >>
                      ELSE Append(Names[parent[q]], Numbers[q])
  BY NamesAreMade DEF NamesMade
<1>3. \A q \in Part :
        /\ Names'[q] = Name(Root, q)' /\ Numbers'[q] = Id(q)'
        /\ Names'[q] = IF q = Root \/ parent'[q] = NoPart THEN << 1 >>
                       ELSE Append(Names'[parent'[q]], Numbers'[q])
  BY NamesAreMadeThen DEF NamesMade
<1>4. \A q \in Part : q \in Up(p) => Names'[q] = Names[q]
  <2> DEFINE S == {n \in Nat : \A q \in Part : q <= n /\ q \in Up(p) => Names'[q] = Names[q]}
  <2>1. 0 \in S
    BY PartFacts
  <2>2. ASSUME NEW n \in Nat, n \in S PROVE n + 1 \in S
    <3> SUFFICES ASSUME NEW q \in Part, q <= n + 1, q \in Up(p) PROVE Names'[q] = Names[q]
      OBVIOUS
    <3>1. CASE q = Root \/ parent[q] = NoPart
      BY <1>2, <1>3, <3>1
    <3>2. CASE ~(q = Root \/ parent[q] = NoPart)
      <4>1. parent[q] \in Part /\ parent[q] < q /\ parent[q] \in Up(p)
        BY <3>2, TreeTypes, UpBelow DEF TreeOK
      <4>2. parent[q] <= n
        <5>1. parent[q] \in Nat /\ q \in Nat /\ n \in Nat /\ q <= n + 1 /\ parent[q] < q
          BY <4>1, PartFacts
        <5> QED BY <5>1
      <4>3. Names'[parent[q]] = Names[parent[q]] /\ Numbers'[q] = Numbers[q]
        BY <2>2, <3>2, <4>1, <4>2
      <4>4. parent'[q] = parent[q]
        OBVIOUS
      <4>5. Names'[q] = Append(Names'[parent[q]], Numbers'[q])
        BY <1>3, <3>2, <4>4
      <4>6. Names[q] = Append(Names[parent[q]], Numbers[q])
        BY <1>2, <3>2
      <4> QED BY <4>3, <4>5, <4>6
    <3> QED BY <3>1, <3>2
  <2>3. Nat \subseteq S
    <3> HIDE DEF S
    <3> QED BY <2>1, <2>2, Induct
  <2> QED BY <2>3, PartFacts
<1>5. Name(Root, p)' = Name(Root, p)
  BY <1>2, <1>3, <1>4, UpBelow
<1>6. /\ p \in Allocated'
      /\ Below(Root, p)' = Below(Root, p) /\ Root \in Up(p)'
  <2>1. p \in Allocated'
    <3>1. p \in Nat /\ p >= 1 /\ p <= nparts /\ nparts \in Nat /\ nparts' \in Nat
      BY TreeTypes, PartFacts DEF TypeOK, Allocated
    <3> QED BY <3>1 DEF Allocated
  <2> QED BY <1>1, <2>1 DEF Below
<1>7. \A q \in Below(Root, p) : q \in Part /\ Id(q)' = Id(q)
  <2>1. \A q \in Below(Root, p) : q \in Part /\ q \in Up(p) /\ parent[q] # NoPart
    BY Between, PartFacts DEF Below
  <2> QED BY <1>2, <1>3, <2>1
<1>8. p \in Listed(Root) <=> \A q \in Below(Root, p) : Id(q) # 0
  BY DEF Listed
<1>9. p \in Listed(Root)' <=> \A q \in Below(Root, p)' : Id(q)' # 0
  BY <1>6 DEF Listed
<1> QED BY <1>5, <1>6, <1>7, <1>8, <1>9

(* Numbers stay as they are when a step gives no part another parent but a  *)
(* new one, and changes the content type only of a part without children.   *)
LEMMA NumbersStay ==
  ASSUME TypeOK, TreeOK, TypeOK', TreeOK',
         \A q \in Part : q \in Allocated => parent'[q] = parent[q],
         \A q \in Part : Children(q) # {} => contentType'[q] = contentType[q],
         NEW q \in Part, q \in Allocated, parent[q] # NoPart
  PROVE  Numbers'[q] = Numbers[q]
<1>1. parent[q] \in Part /\ parent'[q] = parent[q] /\ q \in Children(parent[q])
  BY TreeTypes DEF Children
<1>2. \A e \in Part : e < q => e \in Allocated
  <2> SUFFICES ASSUME NEW e \in Part, e < q PROVE e \in Allocated
    OBVIOUS
  <2>1. e \in Nat /\ q \in Nat /\ nparts \in Nat /\ q <= nparts /\ e < q
    BY TreeTypes, PartFacts
  <2>2. e <= nparts
    BY <2>1
  <2> QED BY <2>2, TreeTypes
<1>3. Elders(q)' = Elders(q)
  BY <1>1, <1>2 DEF Elders, Children
<1>4. FirstId(parent[q])' = FirstId(parent[q])
  BY <1>1 DEF FirstId
<1>5. Id(q)' = Id(q)
  BY <1>1, <1>3, <1>4 DEF Id, FirstId
<1> QED BY <1>5 DEF Numbers

(* Removing c leaves the elders of those alone that are not in its table    *)
(* behind it.                                                               *)
LEMMA RemovalKeeps ==
  ASSUME TypeOK, TreeOK, NEW c \in Part, RemoveFromParent(c),
         NEW p \in Part, \A q \in Up(p) : ~(parent[q] = parent[c] /\ c <= q)
  PROVE  \A q \in Up(p) : /\ parent'[q] = parent[q]
                          /\ parent[q] # NoPart => Numbers'[q] = Numbers[q]
<1> SUFFICES ASSUME NEW q \in Up(p)
             PROVE  /\ parent'[q] = parent[q]
                    /\ parent[q] # NoPart => Numbers'[q] = Numbers[q]
  OBVIOUS
<1>1. q \in Part /\ q # c
  BY UpBelow, PartFacts
<1>2. /\ \A e \in Part : parent'[e] = IF e = c THEN NoPart ELSE parent[e]
      /\ parent[c] # NoPart /\ contentType' = contentType
  BY TreeTypes DEF RemoveFromParent, headerVars
<1>3. ASSUME parent[q] # NoPart PROVE Numbers'[q] = Numbers[q]
  <2>1. parent[c] = parent[q] => ~(c < q)
    BY <1>1, PartFacts
  <2>2. Elders(q)' = Elders(q)
    BY <1>1, <1>2, <1>3, <2>1 DEF Elders, Children
  <2>3. parent'[q] = parent[q]
    BY <1>1, <1>2
  <2>4. Id(q)' = Id(q)
    BY <1>2, <2>2, <2>3 DEF Id, FirstId
  <2> QED BY <1>1, <2>4 DEF Numbers
<1> QED BY <1>1, <1>2, <1>3

(* What a line does to parents and content types.                           *)
LEMMA LineKeepsNumbers ==
  ASSUME TypeOK, TreeOK, NEW h \in Part, h \in Allocated, NEW l \in Incoming(h),
         ProcessLine(h, l)
  PROVE  /\ nparts <= nparts'
         /\ \A q \in Part : q \in Allocated => parent'[q] = parent[q]
         /\ \A q \in Part : Children(q) # {} => contentType'[q] = contentType[q]
<1> DEFINE Keeps == /\ nparts <= nparts'
                    /\ \A q \in Part : q \in Allocated => parent'[q] = parent[q]
                    /\ \A q \in Part : Children(q) # {} => contentType'[q] = contentType[q]
<1> USE DEF treeVars, headerVars
<1>1. nparts \in Nat /\ Down(h) \subseteq Part \cap Allocated
  BY TreeTypes, DownAllocated
<1>2. ASSUME UNCHANGED <<nparts, parent>>, NEW w \in Part, inHeader[w],
             \A q \in Part : q # w => contentType'[q] = contentType[q]
      PROVE  Keeps
  BY <1>1, <1>2, HeadersHaveNoParts
<1>3. ASSUME UNCHANGED <<nparts, parent, contentType>> PROVE Keeps
  BY <1>1, <1>3
<1>4. ASSUME NEW w \in Part, AddChild(w)
      PROVE  nparts <= nparts' /\ \A q \in Part : q \in Allocated => parent'[q] = parent[q]
  <2>1. nparts' = nparts + 1 /\ nparts <= nparts + 1
    BY <1>1, <1>4 DEF AddChild, Fresh
  <2>2. \A q \in Part : q \in Allocated => q # Fresh
    BY <1>1, TreeTypes, PartFacts DEF Fresh
  <2> QED BY <1>4, <2>1, <2>2, TreeTypes DEF AddChild
<1>5. ASSUME NEW w \in Part, HeaderLine(h, l, w) PROVE Keeps
  <2>1. UNCHANGED <<nparts, parent>> /\ inHeader[w]
        /\ \A q \in Part : q # w => contentType'[q] = contentType[q]
    BY <1>5 DEF HeaderLine, TypeOK
  <2> QED BY <1>2, <2>1
<1>6. ASSUME NEW w \in Part, NEW x, EndOfHeaders(w, x)
      PROVE  inHeader[w] /\ \A q \in Part : q # w => contentType'[q] = contentType[q]
  BY <1>6 DEF EndOfHeaders, TypeOK
<1>7. ASSUME NEW w \in Part, EndOfHeadersLeaf(h, l, w) \/ EndOfHeadersTooDeep(h, l, w)
      PROVE  Keeps
  BY <1>2, <1>6, <1>7 DEF EndOfHeadersLeaf, EndOfHeadersTooDeep
<1>8. ASSUME NEW w \in Part, EndOfHeadersComposite(h, l, w) PROVE Keeps
  <2>1. AddChild(w) /\ inHeader[w]
        /\ \A q \in Part : q # w => contentType'[q] = contentType[q]
    BY <1>6, <1>8 DEF EndOfHeadersComposite
  <2> QED BY <1>4, <2>1, HeadersHaveNoParts
<1>9. ASSUME NEW w \in Part, NextPart(h, l, w) PROVE Keeps
  <2>1. AddChild(w) /\ contentType' = contentType
    BY <1>9 DEF NextPart
  <2> QED BY <1>4, <2>1
<1>10. ASSUME NEW w \in Part, \/ AfterFinal(h, l, w) \/ FinalBoundary(h, l, w)
                             \/ BodyLine(h, l, w) \/ IgnoredLine(h, l, w)
       PROVE  Keeps
  BY <1>3, <1>10 DEF AfterFinal, FinalBoundary, BodyLine, IgnoredLine
<1>11. CASE RefuseTooComplex(h, l)
  BY <1>3, <1>11 DEF RefuseTooComplex
<1> HIDE DEF Keeps
<1>12. ASSUME ~RefuseTooComplex(h, l) PROVE Keeps
  <2>1. PICK w \in Down(h) :
          \/ AfterFinal(h, l, w) \/ FinalBoundary(h, l, w) \/ NextPart(h, l, w)
          \/ BodyLine(h, l, w) \/ IgnoredLine(h, l, w) \/ HeaderLine(h, l, w)
          \/ EndOfHeadersLeaf(h, l, w) \/ EndOfHeadersComposite(h, l, w)
          \/ EndOfHeadersTooDeep(h, l, w)
    BY <1>12 DEF ProcessLine
  <2>2. w \in Part
    BY <1>1
  <2> QED BY <1>5, <1>7, <1>8, <1>9, <1>10, <2>1, <2>2
<1> QED BY <1>11, <1>12 DEF Keeps

(* Section names stay with their parts: no line, through whichever handle,  *)
(* gives a name to another part or hides one, and a removal does so only    *)
(* for what it removes and what follows that in its table.                  *)
THEOREM NamesStayTrue == Spec => SectionNamesStable
<1> DEFINE Stable ==
      \A p \in {q \in Allocated : Root \in Up(q)} :
       \/ \E c \in Allocated, q \in Up(p) :
            /\ parent[c] # NoPart /\ parent'[c] = NoPart
            /\ parent[q] = parent[c] /\ c <= q
       \/ /\ Name(Root, p)' = Name(Root, p)
          /\ p \in Listed(Root)' <=> p \in Listed(Root)
<1>1. TypeOK /\ TreeOK /\ TypeOK' /\ TreeOK' /\ [Next]_vars => [Stable]_vars
  <2> SUFFICES ASSUME TypeOK, TreeOK, TypeOK', TreeOK', Next PROVE Stable
    OBVIOUS
  <2>1. \A p \in Allocated : p \in Part
    BY TreeTypes
  <2>2. ASSUME nparts <= nparts',
               \A q \in Part : q \in Allocated => parent'[q] = parent[q],
               \A q \in Part : Children(q) # {} => contentType'[q] = contentType[q]
        PROVE  Stable
    <3> SUFFICES ASSUME NEW p \in Part, p \in Allocated, Root \in Up(p)
                 PROVE  /\ Name(Root, p)' = Name(Root, p)
                        /\ p \in Listed(Root)' <=> p \in Listed(Root)
      BY <2>1
    <3>1. \A q \in Up(p) : q \in Part /\ q \in Allocated
      <4> SUFFICES ASSUME NEW q \in Up(p) PROVE q \in Part /\ q \in Allocated
        OBVIOUS
      <4>1. q \in Part /\ q <= p /\ p <= nparts
        BY UpBelow, TreeTypes
      <4>2. q \in Nat /\ p \in Nat /\ nparts \in Nat
        BY <4>1, TreeTypes, PartFacts
      <4> QED BY <4>1, <4>2, TreeTypes
    <3>2. \A q \in Up(p) : /\ parent'[q] = parent[q]
                           /\ parent[q] # NoPart => Numbers'[q] = Numbers[q]
      BY <2>2, <3>1, NumbersStay
    <3> QED BY <2>2, <3>2, NameStays
  <2>3. ASSUME UNCHANGED <<nparts, parent, contentType>> PROVE Stable
    BY <2>2, <2>3, TreeTypes
  <2>4. ASSUME NEW h \in Part, h \in Allocated, NEW l \in Incoming(h), ProcessLine(h, l)
        PROVE  Stable
    BY <2>2, <2>4, LineKeepsNumbers
  <2>5. ASSUME NEW h, NEW l, NEW n, BufferFragment(h, l, n) PROVE Stable
    BY <2>3, <2>5 DEF BufferFragment, treeVars, headerVars
  <2>6. ASSUME NEW c \in Part, RemoveFromParent(c) PROVE Stable
    <3> SUFFICES ASSUME NEW p \in Part, p \in Allocated, Root \in Up(p),
                        ~\E q \in Up(p) : parent[q] = parent[c] /\ c <= q
                 PROVE  /\ Name(Root, p)' = Name(Root, p)
                        /\ p \in Listed(Root)' <=> p \in Listed(Root)
      <4>1. c \in Allocated /\ parent[c] # NoPart /\ parent'[c] = NoPart
        BY <2>6, TreeTypes DEF RemoveFromParent
      <4> QED BY <2>1, <4>1
    <3>1. nparts <= nparts'
      BY <2>6, TreeTypes DEF RemoveFromParent
    <3>2. \A q \in Up(p) : /\ parent'[q] = parent[q]
                           /\ parent[q] # NoPart => Numbers'[q] = Numbers[q]
      BY <2>6, RemovalKeeps
    <3> QED BY <3>1, <3>2, NameStays
  <2> HIDE DEF Stable
  <2> QED BY <2>4, <2>5, <2>6, HandlesAssumption DEF Next
<1>2. [][Stable]_vars => SectionNamesStable
  BY PTL DEF SectionNamesStable
<1> QED BY <1>1, <1>2, TypeCorrect, TreeCorrect, PTL DEF Spec
=============================================================================
