----------------------------- MODULE MimeParse -----------------------------
(***************************************************************************)
(* The incremental MIME parser of php_mailparse_mime.c: the tree of parts  *)
(* it builds and the byte and line extents it keeps for every part.        *)
(*                                                                         *)
(* Bytes reach a part through php_mimepart_parse, which cuts them at '\n', *)
(* keeps an incomplete line in parsedata.workbuf and gives every complete  *)
(* line to php_mimepart_process_line.  That function walks down the chain  *)
(* of last children to the part being worked on, looking for a boundary at *)
(* every level, and then does exactly one of the things the actions below  *)
(* are named for.                                                          *)
(*                                                                         *)
(* Parts are numbered in allocation order.  A line is a record that keeps  *)
(* its length, its line terminator and what the parser can tell about it;  *)
(* the header fields that only reach headerhash, charset, transfer         *)
(* encoding and disposition do not steer the parser and are "other" here.  *)
(***************************************************************************)
EXTENDS PartLinks, Functions

CONSTANTS
  MaxFed,       \* bound: lines handed to the parser
  MaxLevels,    \* MAXLEVELS, 20 in the code
  MaxChildren,  \* MAXPARTS, 300 in the code
  Handles,      \* parts that user code passes to mailparse_msg_parse
  Removable,    \* parts that user code passes to MimeMessage::remove
  Boundary,     \* boundary parameters of multipart content types
  NoBoundary,   \* a NULL boundary
  Delimiter,    \* what may follow "--" at the start of a line
  NoDelimiter,  \* the line does not start with "--"
  Opens,        \* Opens[b]: delimiters that start the next part of b
  Closes,       \* Closes[b]: delimiters that end the multipart b
  Lines,        \* the input alphabet
  Fragments     \* bound: bytes of an incomplete line that a chunk may hold

Versions     == {"none", "1.0", "other"}
ContentTypes == {"none", "text/plain", "message/rfc822",
                 "multipart/mixed", "multipart/digest"}
Multipart    == {"multipart/mixed", "multipart/digest"}

(* A header line as far as it steers the parser.  "none" is an empty       *)
(* headerbuf, "other" any header (or unparsable text) without effect here. *)
Header == [key : {"none", "content-type", "mime-version", "other"},
           type : ContentTypes, boundary : Boundary \cup {NoBoundary},
           version : Versions]

NoHeader    == [key |-> "none", type |-> "none", boundary |-> NoBoundary,
                version |-> "none"]
OtherHeader == [NoHeader EXCEPT !.key = "other"]

(* len counts the bytes before the terminator, eol those of "\n" or "\r\n" *)
Line == [kind : {"blank", "field", "fold", "text"}, len : Nat, eol : Nat,
         delim : Delimiter \cup {NoDelimiter}, header : Header]

ASSUME BoundsAssumption ==
  /\ MaxFed \in Nat
  /\ MaxLevels \in Nat \ {0}
  /\ MaxChildren \in Nat

ASSUME HandlesAssumption == Handles \subseteq Part /\ Removable \subseteq Part

ASSUME FragmentsAssumption == Fragments \subseteq Nat

ASSUME DelimiterAssumption ==
  /\ NoBoundary \notin Boundary
  /\ NoDelimiter \notin Delimiter
  /\ Opens \in [Boundary -> SUBSET Delimiter]
  /\ Closes \in [Boundary -> SUBSET Delimiter]
  /\ \A b \in Boundary : Opens[b] \cap Closes[b] = {}

ASSUME LinesAssumption ==
  /\ Lines \subseteq Line
  /\ \A l \in Lines : l.eol > 0 /\ (l.len = 0 <=> l.kind = "blank")

VARIABLES
  nparts,       \* parts allocated so far
  parent, lastpart,
  startpos, endpos, bodystart, bodyend, nlines, nbodylines,
  inHeader, completed,
  mimeVersion, contentType, boundary,
  headerbuf,    \* the header line still open to continuation
  workbuf,      \* the line being assembled and how many bytes of it are in
  outcome,      \* what the last php_mimepart_process_line returned
  fed, fedLines \* history: bytes and lines handed to the parser

treeVars   == <<nparts, parent, lastpart>>
posVars    == <<startpos, endpos, bodystart, bodyend, nlines, nbodylines>>
headerVars == <<mimeVersion, contentType, boundary, headerbuf>>
stateVars  == <<inHeader, completed>>
inputVars  == <<workbuf, outcome, fed, fedLines>>
vars == <<treeVars, posVars, headerVars, stateVars, inputVars>>

-----------------------------------------------------------------------------
Up(p)   == Closure(parent, p)      \* p and its ancestors
Down(h) == Closure(lastpart, h)    \* the chain of last children from h

Children(p) == {c \in Part : parent[c] = p}
Allocated   == 1 .. nparts

IsMime1_Always(p, version) == TRUE                     \* mutant
IsMime1(p, version) == version = "1.0" \/ parent[p] # NoPart

NoWork   == [line |-> [kind |-> "blank", len |-> 0, eol |-> 0,
                       delim |-> NoDelimiter, header |-> NoHeader], got |-> 0]
Total(l) == l.len + l.eol

(* An indented line that continues no header is read as one of its own.    *)
Indented(h) == IF h.key = "none" THEN OtherHeader ELSE h

(* What is left in workbuf after a FAILURE has a newline inside and is     *)
(* taken for the start of the next line.  A lone "\n" or "\r\n" in front   *)
(* hides a boundary and an indent, but not a header: the tokenizer skips   *)
(* line ends.                                                              *)
Glue(old, l) ==
  LET joined == [old EXCEPT !.len = Total(old) + l.len, !.eol = l.eol] IN
  IF old.kind # "blank" THEN joined
  ELSE [joined EXCEPT
          !.kind = IF l.kind = "fold" THEN "field" ELSE l.kind,
          !.header = IF l.kind = "fold" THEN Indented(l.header) ELSE l.header]

(* The lines that may come in next: the rest of one that has begun to, or  *)
(* any, behind what a FAILURE has left; and the bytes still to come.       *)
IsStale(h)     == workbuf[h].got > 0 /\ workbuf[h].got = Total(workbuf[h].line)
IsFragment(h)  == workbuf[h].got > 0 /\ workbuf[h].got < Total(workbuf[h].line)
Incoming(h)    == IF IsFragment(h) THEN {workbuf[h].line} ELSE Lines
Received(h, l) == IF IsStale(h) THEN Glue(workbuf[h].line, l) ELSE l
Missing(h, l)  == Total(l) - (IF IsFragment(h) THEN workbuf[h].got ELSE 0)

-----------------------------------------------------------------------------
(* php_mimepart_process_header: the pending header of w takes effect.      *)
HeaderVersion(w) ==
  IF headerbuf[w].key = "mime-version" THEN headerbuf[w].version
                                       ELSE mimeVersion[w]
HeaderType_Name(w) ==                                     \* mutant
  IF headerbuf[w].key = "content-type" THEN headerbuf[w].key
                                       ELSE contentType[w]
HeaderType(w) ==
  IF headerbuf[w].key = "content-type" THEN headerbuf[w].type
                                       ELSE contentType[w]
(* a content-type without a boundary leaves an earlier boundary in place   *)
HeaderBoundary(w) ==
  IF headerbuf[w].key = "content-type" /\ headerbuf[w].boundary # NoBoundary
  THEN headerbuf[w].boundary ELSE boundary[w]

(* A continuation line: a parameter added to a content-type takes effect,  *)
(* one added to a version makes it another version.                        *)
Folded(old, new) ==
  CASE old.key = "none" -> Indented(new)
    [] old.key = "content-type" /\ new.boundary # NoBoundary ->
         [old EXCEPT !.boundary = new.boundary]
    [] old.key = "mime-version" /\ new.boundary # NoBoundary ->
         [old EXCEPT !.version = "other"]
    [] OTHER -> old

(* A line that is no header field is kept as one and found invalid later.  *)
AsHeader(l) == IF l.kind = "field" THEN l.header ELSE OtherHeader

-----------------------------------------------------------------------------
(* The walk of php_mimepart_process_line to the part it works on.          *)
Ended_Never(p) == FALSE                                   \* mutant
Ended(p)  == lastpart[p] # NoPart /\ completed[lastpart[p]]
Looks(p)  == lastpart[p] # NoPart /\ ~Ended(p)
             /\ boundary[p] # NoBoundary /\ ~inHeader[p]
OpensAt(p, l)  == Looks(p) /\ l.delim \in Opens[boundary[p]]
ClosesAt(p, l) == Looks(p) /\ l.delim \in Closes[boundary[p]]
IsLeaf(p)      == lastpart[p] = NoPart
StopsAt(p, l)  == IsLeaf(p) \/ Ended(p) \/ OpensAt(p, l) \/ ClosesAt(p, l)

(* w is where the walk down the chain of last children stops for line l.   *)
WorksOn(chain, l, w) ==
  /\ w \in chain
  /\ StopsAt(w, l)
  /\ \A p \in chain : p < w => ~StopsAt(p, l)

(* php_mimepart_update_positions(w, end, bodyEnd, 1), with the state of    *)
(* in_header at the time of the call, and the offsets of a part fresh that *)
(* is allocated at start (NoPart when none is).                            *)
Advance_OnlyPart(w, end, bodyEnd, inHdr, fresh, start) ==  \* mutant
  /\ endpos' = [p \in Part |-> IF p = fresh THEN start
                               ELSE IF p = w THEN end ELSE endpos[p]]
  /\ bodyend' = [p \in Part |-> IF p = fresh THEN start
                                ELSE IF p = w THEN bodyEnd ELSE bodyend[p]]
  /\ startpos' = [p \in Part |-> IF p = fresh THEN start ELSE startpos[p]]
  /\ nlines' = [nlines EXCEPT ![w] = @ + 1]
  /\ nbodylines' = [nbodylines EXCEPT ![w] = IF inHdr[w] THEN @ ELSE @ + 1]
Advance_OwnBody(w, end, bodyEnd, inHdr, fresh, start) ==   \* mutant
  LET up == Up(w) IN
  /\ endpos' = [p \in Part |-> IF p = fresh THEN start
                               ELSE IF p \in up THEN end ELSE endpos[p]]
  /\ bodyend' = [p \in Part |-> IF p = fresh THEN start
                                ELSE IF p \in up THEN bodyEnd ELSE bodyend[p]]
  /\ startpos' = [p \in Part |-> IF p = fresh THEN start ELSE startpos[p]]
  /\ nlines' = [p \in Part |-> IF p \in up THEN nlines[p] + 1 ELSE nlines[p]]
  /\ nbodylines' = [nbodylines EXCEPT ![w] = IF inHdr[w] THEN @ ELSE @ + 1]
Advance(w, end, bodyEnd, inHdr, fresh, start) ==
  LET up == Up(w) IN
  /\ endpos' = [p \in Part |-> IF p = fresh THEN start
                               ELSE IF p \in up THEN end ELSE endpos[p]]
  /\ bodyend' = [p \in Part |-> IF p = fresh THEN start
                                ELSE IF p \in up THEN bodyEnd ELSE bodyend[p]]
  /\ startpos' = [p \in Part |-> IF p = fresh THEN start ELSE startpos[p]]
  /\ nlines' = [p \in Part |-> IF p \in up THEN nlines[p] + 1 ELSE nlines[p]]
  /\ nbodylines' = [p \in Part |-> IF p \in up /\ ~inHdr[p]
                                   THEN nbodylines[p] + 1 ELSE nbodylines[p]]

(* alloc_new_child_part under w: refused below MAXLEVELS parts             *)
Fresh          == nparts + 1
MayNest_OneMore(w) == Cardinality(Up(w)) <= MaxLevels    \* mutant
MayNest(w)     == Cardinality(Up(w)) < MaxLevels
HeapBound      == Fresh \in Part
InputBound     == fedLines < MaxFed
AddChild(w)    ==
  /\ HeapBound
  /\ nparts' = Fresh
  /\ parent' = [parent EXCEPT ![Fresh] = w]
  /\ lastpart' = [lastpart EXCEPT ![w] = Fresh]

Begin(f, start) == [p \in Part |-> IF p = Fresh THEN start ELSE f[p]]

(* php_mimepart_parse around the call: what it appends and what it clears. *)
Consume(h, l) ==
  /\ fedLines' = fedLines + 1
  /\ fed' = fed + Missing(h, l)
Succeed(h, l) ==
  /\ Consume(h, l)
  /\ outcome' = "SUCCESS"
  /\ workbuf' = [workbuf EXCEPT ![h] = NoWork]
Fail(h, l) ==
  /\ Consume(h, l)
  /\ outcome' = "FAILURE"
  /\ workbuf' = [workbuf EXCEPT
       ![h] = [line |-> Received(h, l), got |-> Total(Received(h, l))]]

-----------------------------------------------------------------------------
(* No EOL in the chunk: its bytes, the next n of the line, are appended to *)
(* what workbuf holds.                                                     *)
BufferFragment_Anew(h, l, n) ==                           \* mutant
  /\ 0 < n /\ n < Missing(h, l)
  /\ workbuf' = [workbuf EXCEPT ![h] = [line |-> Received(h, l), got |-> n]]
  /\ fed' = fed + n
  /\ UNCHANGED <<treeVars, posVars, headerVars, stateVars, outcome, fedLines>>
BufferFragment(h, l, n) ==
  /\ 0 < n /\ n < Missing(h, l)
  /\ workbuf' = [workbuf EXCEPT
       ![h] = [line |-> Received(h, l), got |-> @.got + n]]
  /\ fed' = fed + n
  /\ UNCHANGED <<treeVars, posVars, headerVars, stateVars, outcome, fedLines>>

(* "MIME message too complex": tested on the part given to the parser.     *)
TooComplex(h) == Cardinality(Children(h)) > MaxChildren
RefuseTooComplex(h, l) ==
  /\ TooComplex(h)
  /\ Fail(h, l)
  /\ UNCHANGED <<treeVars, posVars, headerVars, stateVars>>

(* After the final boundary of w: the line belongs to w itself.            *)
AfterFinal(h, l, w) ==
  LET end == endpos[w] + Total(Received(h, l)) IN
  /\ Ended(w)
  /\ Advance(w, end, end, inHeader, NoPart, 0)
  /\ Succeed(h, l)
  /\ UNCHANGED <<treeVars, bodystart, headerVars, stateVars>>

(* The final boundary of w completes its last child.                       *)
FinalBoundary(h, l, w) ==
  LET end == endpos[w] + Total(Received(h, l)) IN
  /\ ClosesAt(w, Received(h, l))
  /\ completed' = [completed EXCEPT ![lastpart[w]] = TRUE]
  /\ Advance(w, end, end, inHeader, NoPart, 0)
  /\ Succeed(h, l)
  /\ UNCHANGED <<treeVars, bodystart, headerVars, inHeader>>

(* A boundary of w starts its next child, in header mode, after the line.  *)
(* The code also handles a refusal here; LimitsHold says there is none.    *)
NextPart_FromBody(h, l, w) ==                             \* mutant
  LET x == Received(h, l)
      end == endpos[w] + Total(x) IN
  /\ OpensAt(w, x)
  /\ MayNest(w)
  /\ AddChild(w)
  /\ Advance(w, end, endpos[w] + x.len, inHeader, Fresh, bodystart[w])
  /\ bodystart' = Begin(bodystart, bodystart[w])
  /\ mimeVersion' = [mimeVersion EXCEPT ![Fresh] = mimeVersion[w]]
  /\ Succeed(h, l)
  /\ UNCHANGED <<contentType, boundary, headerbuf, stateVars>>
NextPart(h, l, w) ==
  LET x == Received(h, l)
      end == endpos[w] + Total(x) IN
  /\ OpensAt(w, x)
  /\ MayNest(w)
  /\ AddChild(w)
  /\ Advance(w, end, endpos[w] + x.len, inHeader, Fresh, end)
  /\ bodystart' = Begin(bodystart, end)
  /\ mimeVersion' = [mimeVersion EXCEPT ![Fresh] = mimeVersion[w]]
  /\ Succeed(h, l)
  /\ UNCHANGED <<contentType, boundary, headerbuf, stateVars>>

(* A line of the body of w; its newline is left out of the bodies of the   *)
(* parts inside a multipart.                                               *)
BodyLine(h, l, w) ==
  LET x == Received(h, l)
      end == endpos[w] + Total(x)
      inMultipart == parent[w] # NoPart /\ contentType[parent[w]] \in Multipart
  IN
  /\ IsLeaf(w) /\ ~inHeader[w] /\ ~completed[w]
  /\ Advance(w, end, IF inMultipart THEN endpos[w] + x.len ELSE end,
             inHeader, NoPart, 0)
  /\ Succeed(h, l)
  /\ UNCHANGED <<treeVars, bodystart, headerVars, stateVars>>

(* A completed part that is parsed directly ignores the line.              *)
IgnoredLine(h, l, w) ==
  /\ IsLeaf(w) /\ ~inHeader[w] /\ completed[w]
  /\ Succeed(h, l)
  /\ UNCHANGED <<treeVars, posVars, headerVars, stateVars>>

(* A header line: a continuation joins the pending header, any other line  *)
(* makes the pending header take effect and becomes the pending one.       *)
HeaderLine(h, l, w) ==
  LET x == Received(h, l) IN
  /\ IsLeaf(w) /\ inHeader[w] /\ x.len > 0
  /\ Advance(w, endpos[w] + Total(x), endpos[w] + x.len, inHeader, NoPart, 0)
  /\ IF x.kind = "fold"
     THEN /\ headerbuf' = [headerbuf EXCEPT ![w] = Folded(@, x.header)]
          /\ UNCHANGED <<mimeVersion, contentType, boundary>>
     ELSE /\ headerbuf' = [headerbuf EXCEPT ![w] = AsHeader(x)]
          /\ mimeVersion' = [mimeVersion EXCEPT ![w] = HeaderVersion(w)]
          /\ contentType' = [contentType EXCEPT ![w] = HeaderType(w)]
          /\ boundary' = [boundary EXCEPT ![w] = HeaderBoundary(w)]
  /\ Succeed(h, l)
  /\ UNCHANGED <<treeVars, bodystart, stateVars>>

(* The blank line that ends the headers of w: the version, content type    *)
(* and boundary that w keeps.                                              *)
FinalVersion(w) ==
  IF ~IsMime1(w, HeaderVersion(w)) /\ HeaderType(w) # "none"
  THEN "1.0" ELSE HeaderVersion(w)
FinalBoundaryOf(w) ==
  IF IsMime1(w, FinalVersion(w)) THEN HeaderBoundary(w) ELSE NoBoundary
DefaultType(w) ==
  IF parent[w] # NoPart /\ contentType[parent[w]] = "multipart/digest"
  THEN "message/rfc822" ELSE "text/plain"
FinalType(w) ==
  IF ~IsMime1(w, FinalVersion(w)) THEN "text/plain"
  ELSE IF HeaderType(w) = "none"  THEN DefaultType(w)
  ELSE HeaderType(w)

EndOfHeaders(w, x) ==
  /\ IsLeaf(w) /\ inHeader[w] /\ x.len = 0
  /\ headerbuf' = [headerbuf EXCEPT ![w] = NoHeader]
  /\ contentType' = [contentType EXCEPT ![w] = FinalType(w)]
  /\ boundary' = [boundary EXCEPT ![w] = FinalBoundaryOf(w)]
  /\ mimeVersion' = [mimeVersion EXCEPT ![w] = FinalVersion(w)]
  /\ UNCHANGED completed

(* The blank line counts as a body line of the ancestors of w only.        *)
StartBody(w, x, fresh) ==
  LET start == endpos[w] + Total(x) IN
  /\ Advance(w, start, start, inHeader, fresh, start)
  /\ bodystart' = [p \in Part |-> IF p \in {w, fresh} THEN start
                                  ELSE bodystart[p]]

WantsChild(w) ==
  FinalType(w) = "message/rfc822" \/ FinalBoundaryOf(w) # NoBoundary

(* ... and w is a simple part.                                             *)
EndOfHeadersLeaf(h, l, w) ==
  /\ EndOfHeaders(w, Received(h, l))
  /\ ~WantsChild(w)
  /\ StartBody(w, Received(h, l), NoPart)
  /\ inHeader' = [inHeader EXCEPT ![w] = FALSE]
  /\ Succeed(h, l)
  /\ UNCHANGED treeVars

(* ... and w is a message, whose own headers follow, or a multipart, whose *)
(* preamble follows.  A message comes first whatever boundary it names.    *)
EndOfHeadersComposite(h, l, w) ==
  /\ EndOfHeaders(w, Received(h, l))
  /\ WantsChild(w)
  /\ MayNest(w)
  /\ AddChild(w)
  /\ StartBody(w, Received(h, l), Fresh)
  /\ inHeader' = [inHeader EXCEPT ![w] = FALSE,
                                  ![Fresh] = FinalType(w) = "message/rfc822"]
  /\ Succeed(h, l)

(* ... and the part it needs is too deep: everything else has been done.   *)
EndOfHeadersTooDeep(h, l, w) ==
  /\ EndOfHeaders(w, Received(h, l))
  /\ WantsChild(w)
  /\ ~MayNest(w)
  /\ StartBody(w, Received(h, l), NoPart)
  /\ inHeader' = [inHeader EXCEPT ![w] = FALSE]
  /\ Fail(h, l)
  /\ UNCHANGED treeVars

(* php_mimepart_remove_from_parent, by MimeMessage::remove.                *)
RemoveFromParent_KeepsLast(c) ==                          \* mutant
  /\ c \in Allocated
  /\ parent[c] # NoPart
  /\ parent' = [parent EXCEPT ![c] = NoPart]
  /\ UNCHANGED <<nparts, lastpart, posVars, headerVars, stateVars, inputVars>>
RemoveFromParent(c) ==
  /\ c \in Allocated
  /\ parent[c] # NoPart
  /\ parent' = [parent EXCEPT ![c] = NoPart]
  /\ lastpart' = [lastpart EXCEPT
       ![parent[c]] = IF @ = c THEN NoPart ELSE @]
  /\ UNCHANGED <<nparts, posVars, headerVars, stateVars, inputVars>>

-----------------------------------------------------------------------------
Init ==
  /\ nparts = 1
  /\ parent = [p \in Part |-> NoPart]
  /\ lastpart = [p \in Part |-> NoPart]
  /\ startpos = [p \in Part |-> 0]
  /\ endpos = [p \in Part |-> 0]
  /\ bodystart = [p \in Part |-> 0]
  /\ bodyend = [p \in Part |-> 0]
  /\ nlines = [p \in Part |-> 0]
  /\ nbodylines = [p \in Part |-> 0]
  /\ inHeader = [p \in Part |-> TRUE]
  /\ completed = [p \in Part |-> FALSE]
  /\ mimeVersion = [p \in Part |-> "none"]
  /\ contentType = [p \in Part |-> "none"]
  /\ boundary = [p \in Part |-> NoBoundary]
  /\ headerbuf = [p \in Part |-> NoHeader]
  /\ workbuf = [p \in Part |-> NoWork]
  /\ outcome = "SUCCESS"
  /\ fed = 0
  /\ fedLines = 0

ProcessLine(h, l) ==
  \/ RefuseTooComplex(h, l)
  \/ /\ ~TooComplex(h)
     /\ LET chain == Down(h) IN \E w \in chain :
          /\ WorksOn(chain, Received(h, l), w)
          /\ \/ AfterFinal(h, l, w)
             \/ FinalBoundary(h, l, w)
             \/ NextPart(h, l, w)
             \/ BodyLine(h, l, w)
             \/ IgnoredLine(h, l, w)
             \/ HeaderLine(h, l, w)
             \/ EndOfHeadersLeaf(h, l, w)
             \/ EndOfHeadersComposite(h, l, w)
             \/ EndOfHeadersTooDeep(h, l, w)

Next ==
  \/ /\ InputBound
     /\ \E h \in Handles \cap Allocated : \E l \in Incoming(h) :
          \/ \E n \in Fragments : BufferFragment(h, l, n)
          \/ ProcessLine(h, l)
  \/ \E c \in Removable : RemoveFromParent(c)

Spec == Init /\ [][Next]_vars

-----------------------------------------------------------------------------
(* php_mimepart_get_offsets: what scripts are told and what extraction     *)
(* reads; the newline before a boundary is taken off the parts inside.     *)
ReportedEnd(p) == IF parent[p] # NoPart THEN bodyend[p] ELSE endpos[p]
LessOne(n)     == IF n > 0 THEN n - 1 ELSE n
ReportedLines(p) ==
  IF parent[p] # NoPart THEN LessOne(nlines[p]) ELSE nlines[p]
ReportedBodyLines(p) ==
  IF parent[p] # NoPart THEN LessOne(nbodylines[p]) ELSE nbodylines[p]

(* The chain of parts still being fed: completed parts are left out.       *)
Open(h) ==
  Closure([p \in Part |-> IF lastpart[p] # NoPart /\ completed[lastpart[p]]
                          THEN NoPart ELSE lastpart[p]], h)

TypeOK ==
  /\ nparts \in Part
  /\ parent \in [Part -> Part \cup {NoPart}]
  /\ lastpart \in [Part -> Part \cup {NoPart}]
  /\ startpos \in [Part -> Nat] /\ endpos \in [Part -> Nat]
  /\ bodystart \in [Part -> Nat] /\ bodyend \in [Part -> Nat]
  /\ nlines \in [Part -> Nat] /\ nbodylines \in [Part -> Nat]
  /\ inHeader \in [Part -> BOOLEAN] /\ completed \in [Part -> BOOLEAN]
  /\ mimeVersion \in [Part -> Versions]
  /\ contentType \in [Part -> ContentTypes]
  /\ boundary \in [Part -> Boundary \cup {NoBoundary}]
  /\ headerbuf \in [Part -> Header]
  /\ workbuf \in [Part -> [line : Line, got : Nat]]
  /\ outcome \in {"SUCCESS", "FAILURE"}
  /\ fed \in Nat /\ fedLines \in Nat

(* The links of the tree agree: a child is younger than its parent, the    *)
(* last child is a child and the youngest one, and a part that is still    *)
(* reading headers has none (php_mimepart_process_line descends past it).  *)
TreeOK ==
  \A p \in Part :
    /\ parent[p] # NoPart => /\ parent[p] < p
                             /\ p \in Allocated
                             /\ ~inHeader[parent[p]]
    /\ lastpart[p] # NoPart => /\ parent[lastpart[p]] = p
                               /\ \A c \in Children(p) : c <= lastpart[p]

(* A message that does not claim MIME 1.0 is plain text: nothing in it is  *)
(* taken for a boundary and it has no parts; elsewhere, only what the      *)
(* headers call a message, or gave a boundary, has parts.                  *)
UnderstoodOnly ==
  /\ inHeader[Root] \/ mimeVersion[Root] = "1.0"
       \/ /\ contentType[Root] = "text/plain" /\ boundary[Root] = NoBoundary
          /\ Children(Root) = {}
  /\ \A p \in Part : Children(p) # {} =>
       contentType[p] = "message/rfc822" \/ boundary[p] # NoBoundary

(* Parts along the open chain agree on how far the input has been read, so *)
(* that whichever is worked on next computes the same offset.              *)
SpineInSync ==
  \A p \in Part :
    lastpart[p] # NoPart /\ ~Ended(p) => endpos[lastpart[p]] = endpos[p]

(* Every byte given to the parser lies in the root part or in workbuf.     *)
BytesAccounted == fed = endpos[Root] + workbuf[Root].got

(* A part's offsets are ordered and lie inside the body of its parent.  A  *)
(* part that has no line yet starts behind a boundary line whose newline   *)
(* its parent does not report.                                             *)
OrderedExtents ==
  \A p \in Allocated :
    /\ startpos[p] <= bodystart[p]
    /\ bodystart[p] <= bodyend[p]
    /\ bodyend[p] <= endpos[p]
NestedExtents ==
  \A p \in Part : parent[p] # NoPart =>
    /\ bodystart[parent[p]] <= startpos[p]
    /\ endpos[p] <= endpos[parent[p]]
    /\ nlines[p] > 0 => ReportedEnd(p) <= ReportedEnd(parent[p])

(* Siblings cover disjoint stretches of the input, in order.               *)
SiblingsDisjoint ==
  \A p, q \in Part :
    parent[p] # NoPart /\ parent[p] = parent[q] /\ p < q
      => endpos[p] <= startpos[q]

(* The extents reported for parts are ordered, lie inside the body of the  *)
(* parent and are disjoint between siblings, whichever boundary, blank     *)
(* line or end of a chunk php_mimepart_process_line moved them for.        *)
WellNested == OrderedExtents /\ NestedExtents /\ SiblingsDisjoint

SumOver(f, S) == FoldFunctionOnSet(LAMBDA a, b : a + b, 0, f, S)

(* Lines are counted once per level: the lines of the children all are     *)
(* body lines of the parent, and no part has more lines than bytes.        *)
LinesFit ==
  \A p \in Allocated :
    /\ ~inHeader[p] => SumOver(nlines, Children(p)) <= nbodylines[p]
    /\ nbodylines[p] <= nlines[p]
    /\ nlines[p] <= endpos[p] - startpos[p]
    /\ ReportedBodyLines(p) <= ReportedLines(p)

(* MAXLEVELS bounds the depth of every part, and "MIME message too deeply  *)
(* nested" cannot happen at a boundary line: a part that has had one child *)
(* is never too deep for another.  MAXPARTS bounds only the children of    *)
(* the part given to the parser, and can be exceeded by one, as it is      *)
(* tested before the line that adds a part.                                *)
LimitsHold ==
  /\ \A p \in Allocated : Cardinality(Up(p)) <= MaxLevels
  /\ \A p \in Part : lastpart[p] # NoPart => Cardinality(Up(p)) < MaxLevels
  /\ Cardinality(Children(Root)) <= MaxChildren + 1

(* A part that is off the open chain never changes again.                  *)
ClosedPartsFrozen ==
  [][\A p \in Allocated \ Open(Root) :
       UNCHANGED <<startpos[p], endpos[p], bodystart[p], bodyend[p],
                   nlines[p], nbodylines[p], inHeader[p], completed[p],
                   contentType[p], boundary[p], mimeVersion[p]>>]_vars

(* The comment in php_mimepart_parse: a FAILURE comes at the very          *)
(* beginning, before any work has been done on the line.                   *)
FailureDoesNoWork ==
  [][outcome' = "FAILURE" /\ fedLines' > fedLines
       => UNCHANGED <<treeVars, posVars, headerVars, stateVars>>]_vars
=============================================================================
