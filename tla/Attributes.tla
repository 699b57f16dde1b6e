----------------------------- MODULE Attributes -----------------------------
(* php_mimeheader_alloc_from_tok: the value of a header and the attributes *)
(* behind it, with the continuations and encoded segments of RFC 2231      *)
(* joined while they last.  A step is one attribute, up to its ";".        *)
(*                                                                         *)
(* A word may be an attribute name: Base gives it without its "*0*", Star  *)
(* what its "*" says.  A word in CharsetWord has the two quotes that come  *)
(* behind a charset.  Values are joined as pieces.                         *)
EXTENDS Rfc822

CONSTANTS Headers,       \* the headers to parse, their names included
          Base, Star,    \* of the words
          CharsetWord

VARIABLES
  header, tokens,
  first_semi,      \* the first token of the next attribute
  name_buf,        \* attribute being joined, and the name it was given in
  value_buf, is_rfc2231_name, prevcharset_p,
  value, attributes,
  live             \* names that have been allocated and not freed

vars == <<header, tokens, first_semi, name_buf, value_buf, is_rfc2231_name,
          prevcharset_p, value, attributes, live>>

NoName  == [base |-> <<>>, at |-> 0]
ntokens == Len(tokens)
NextSemi(from) == Min({j \in from .. ntokens : tokens[j].token = ";"}
                      \cup {Max({from, ntokens + 1})})

ASSUME StarAssumption ==
  /\ Headers \subseteq Seq(Symbol)
  /\ CharsetWord \subseteq Word
  /\ Base \in [Word -> Word]
  /\ Star \in [Word -> {"none", "continued", "encoded"}]

-----------------------------------------------------------------------------
(* The attribute that starts at token from: a token, "=" and the rest, with*)
(* comments left out.                                                      *)
Equals(from) ==
  LET next == {j \in from + 1 .. NextSemi(from) - 1 : tokens[j].token # "("}
  IN IF next # {} /\ tokens[Min(next)].token = "=" THEN Min(next) ELSE 0
NameText(from) ==
  Recombine(header, tokens, from, 1, {"STRTOLOWER", "IGNORE_COMMENTS"})
ValueText(from) ==
  Recombine(header, tokens, Equals(from) + 1,
            NextSemi(from) - Equals(from) - 1, {"IGNORE_COMMENTS"})

(* strchr for the first "*": what is in front of it, and what it says.     *)
Starred(name)   == {k \in DOMAIN name : name[k] \in Word /\ Star[name[k]] # "none"}
BaseOf(name)    == IF Starred(name) = {} THEN name
                   ELSE LET k == Min(Starred(name)) IN
                        Append(SubSeq(name, 1, k - 1), Base[name[k]])
IsEncoded(name) == /\ Len(name) \in Starred(name)
                   /\ Star[Last(name)] = "encoded"

(* rfc2231_to_mime: a segment joins what is there already.  The first of   *)
(* encoded segments opens an encoded word, if it has a charset, and what   *)
(* is not encoded closes it.                                               *)
Piece(kind, text) == [kind |-> kind, text |-> text]
CloseWord(prev) == IF prev THEN <<Piece("close", <<>>)>> ELSE <<>>
Rfc2231ToMime(text, encoded, prev) ==
  CASE encoded /\ prev  -> <<Piece("quoted", text)>>
    [] encoded /\ ~prev -> IF Range(text) \cap CharsetWord # {}
                           THEN <<Piece("open", text)>> ELSE <<>>
    [] ~encoded         -> CloseWord(prev) \o <<Piece("text", text)>>

(* The joined attribute goes into the table, over one of the same name.    *)
Set(table, base, pieces) ==
  [b \in DOMAIN table \cup {base} |-> IF b = base THEN pieces ELSE table[b]]
Joined == Set(attributes, name_buf.base, value_buf \o CloseWord(prevcharset_p))

-----------------------------------------------------------------------------
Resume == first_semi' = Min({NextSemi(first_semi), ntokens}) + 1
Here   == [base |-> BaseOf(NameText(first_semi)), at |-> first_semi]
Is(star) == /\ first_semi <= ntokens
            /\ Equals(first_semi) # 0
            /\ star <=> Starred(NameText(first_semi)) # {}
Segment(prev) ==
  Rfc2231ToMime(ValueText(first_semi), IsEncoded(NameText(first_semi)), prev)
Plain(table) ==
  Set(table, Here.base, <<Piece("text", ValueText(first_semi))>>)

Unnamed ==
  /\ first_semi <= ntokens
  /\ Equals(first_semi) = 0
  /\ Resume
  /\ UNCHANGED <<header, tokens, name_buf, value_buf, is_rfc2231_name,
                 prevcharset_p, value, attributes, live>>

PlainAttribute ==
  /\ Is(FALSE) /\ ~is_rfc2231_name
  /\ Resume
  /\ attributes' = Plain(attributes)
  /\ UNCHANGED <<header, tokens, name_buf, value_buf, is_rfc2231_name,
                 prevcharset_p, value, live>>

(* A plain attribute ends the one being joined, unless it has its name:    *)
(* then it is dropped.                                                     *)
PlainRepeats_Kept ==                                      \* mutant
  /\ Is(FALSE) /\ is_rfc2231_name /\ Here.base = name_buf.base
  /\ Resume
  /\ live' = live \cup {first_semi}
  /\ UNCHANGED <<header, tokens, name_buf, value_buf, is_rfc2231_name,
                 prevcharset_p, value, attributes>>
PlainRepeats ==
  /\ Is(FALSE) /\ is_rfc2231_name /\ Here.base = name_buf.base
  /\ Resume
  /\ UNCHANGED <<header, tokens, name_buf, value_buf, is_rfc2231_name,
                 prevcharset_p, value, attributes, live>>
PlainEndsJoined_KeepsPrev ==                              \* mutant
  /\ Is(FALSE) /\ is_rfc2231_name /\ Here.base # name_buf.base
  /\ Resume
  /\ attributes' = Plain(Joined)
  /\ live' = live \ {name_buf.at}
  /\ name_buf' = NoName
  /\ value_buf' = <<>>
  /\ is_rfc2231_name' = FALSE
  /\ UNCHANGED <<header, tokens, prevcharset_p, value>>
PlainEndsJoined ==
  /\ Is(FALSE) /\ is_rfc2231_name /\ Here.base # name_buf.base
  /\ Resume
  /\ attributes' = Plain(Joined)
  /\ live' = live \ {name_buf.at}
  /\ name_buf' = NoName
  /\ value_buf' = <<>>
  /\ is_rfc2231_name' = FALSE
  /\ prevcharset_p' = FALSE
  /\ UNCHANGED <<header, tokens, value>>

FirstSegment ==
  /\ Is(TRUE) /\ name_buf = NoName
  /\ Resume
  /\ name_buf' = Here
  /\ live' = live \cup {first_semi}
  /\ value_buf' = value_buf \o Segment(prevcharset_p)
  /\ is_rfc2231_name' = TRUE
  /\ prevcharset_p' = IsEncoded(NameText(first_semi))
  /\ UNCHANGED <<header, tokens, value, attributes>>

NextSegment ==
  /\ Is(TRUE) /\ name_buf # NoName /\ Here.base = name_buf.base
  /\ Resume
  /\ value_buf' = value_buf \o Segment(prevcharset_p)
  /\ prevcharset_p' = IsEncoded(NameText(first_semi))
  /\ UNCHANGED <<header, tokens, name_buf, is_rfc2231_name, value,
                 attributes, live>>

(* A segment of another attribute: one is entered, the other started.      *)
OtherSegment_Appends ==                                   \* mutant
  /\ Is(TRUE) /\ name_buf # NoName /\ Here.base # name_buf.base
  /\ Resume
  /\ attributes' = Joined
  /\ live' = (live \ {name_buf.at}) \cup {first_semi}
  /\ name_buf' = Here
  /\ value_buf' = value_buf \o Segment(FALSE)
  /\ prevcharset_p' = IsEncoded(NameText(first_semi))
  /\ UNCHANGED <<header, tokens, is_rfc2231_name, value>>
OtherSegment ==
  /\ Is(TRUE) /\ name_buf # NoName /\ Here.base # name_buf.base
  /\ Resume
  /\ attributes' = Joined
  /\ live' = (live \ {name_buf.at}) \cup {first_semi}
  /\ name_buf' = Here
  /\ value_buf' = Segment(FALSE)
  /\ prevcharset_p' = IsEncoded(NameText(first_semi))
  /\ UNCHANGED <<header, tokens, is_rfc2231_name, value>>

Finalize ==
  /\ first_semi > ntokens /\ is_rfc2231_name
  /\ attributes' = Joined
  /\ live' = live \ {name_buf.at}
  /\ name_buf' = NoName
  /\ value_buf' = <<>>
  /\ is_rfc2231_name' = FALSE
  /\ UNCHANGED <<header, tokens, first_semi, prevcharset_p, value>>

(* Tokens 1 and 2 are the name of the header and its colon.                *)
Init ==
  /\ header \in Headers
  /\ tokens = Tokenize(header)
  /\ first_semi = Min({NextSemi(3), ntokens}) + 1
  /\ value = Recombine(header, tokens, 3, NextSemi(3) - 3,
                       {"STRTOLOWER", "IGNORE_COMMENTS"})
  /\ name_buf = NoName /\ value_buf = <<>>
  /\ is_rfc2231_name = FALSE /\ prevcharset_p = FALSE
  /\ attributes = <<>>
  /\ live = {}

Next == Unnamed \/ PlainAttribute \/ PlainRepeats \/ PlainEndsJoined
        \/ FirstSegment \/ NextSegment \/ OtherSegment \/ Finalize

Spec == Init /\ [][Next]_vars

-----------------------------------------------------------------------------
(* php_mimeheader_alloc_from_tok frees a name in one of five places, or    *)
(* keeps it in name_buf: the name being joined is the only one that lives. *)
NamesReleasedOnce ==
  live = IF is_rfc2231_name THEN {name_buf.at} ELSE {}

(* The attributes of the header by their first tokens, as they are written *)
Written      == {s \in 4 .. ntokens : tokens[s - 1].token = ";" /\ Equals(s) # 0}
Called(W, b) == {s \in W : BaseOf(NameText(s)) = b}
(* the last ones of W called b with nothing else between them              *)
LastRun(W, b) ==
  {s \in Called(W, b) : ~\E t \in W \ Called(W, b) :
                           s < t /\ \E r \in Called(W, b) : t < r}
Sources(W, b) ==
  LET starred == {s \in LastRun(W, b) : Starred(NameText(s)) # {}} IN
  IF starred = {} THEN {Max(LastRun(W, b))} ELSE starred
(* an encoded segment of S without a charset before it, or in it           *)
Unintroduced(s, S) ==
  LET before == {r \in S : r < s} IN
  /\ IsEncoded(NameText(s))
  /\ before = {} \/ ~IsEncoded(NameText(Max(before)))
  /\ Range(ValueText(s)) \cap CharsetWord = {}

InOrder(S) ==
  [k \in 1 .. Cardinality(S) |->
     CHOOSE x \in {y \in S : Cardinality({z \in S : z < y}) = k - 1} : TRUE]
Values(S) ==
  LET kept == InOrder({s \in S : ~Unintroduced(s, S)})
  IN [k \in DOMAIN kept |-> ValueText(kept[k])]
Texts(pieces) ==
  LET spoken == InOrder({k \in DOMAIN pieces : pieces[k].kind # "close"})
  IN [k \in DOMAIN spoken |-> pieces[spoken[k]].text]
AtEnd == first_semi > ntokens /\ ~is_rfc2231_name

(* The loop of php_mimeheader_alloc_from_tok carries a value over several  *)
(* attributes: each name ends up with the segments of its last run, all    *)
(* and in order, or its last plain value; nothing of another name.         *)
JoinedAsWritten ==
  AtEnd =>
    /\ DOMAIN attributes = {BaseOf(NameText(s)) : s \in Written}
    /\ \A b \in DOMAIN attributes :
         Texts(attributes[b]) = Values(Sources(Written, b))

(* rfc2231_to_mime knows of the segment before only whether it was         *)
(* encoded: still every encoded word it opens is closed before plain text  *)
(* and at the end, and holds all that is quoted.                           *)
Count(pieces, kind, upto) ==
  Cardinality({k \in 1 .. upto : pieces[k].kind = kind})
Depth(pieces, k) == Count(pieces, "open", k) - Count(pieces, "close", k)
EncodedWordsPaired ==
  AtEnd => \A b \in DOMAIN attributes :
    LET pieces  == attributes[b]
        sources == Sources(Written, b)
    IN (\A s \in sources : ~Unintroduced(s, sources)) =>
         /\ \A k \in DOMAIN pieces :
              pieces[k].kind \in {"open", "quoted"} <=> Depth(pieces, k) = 1
         /\ Depth(pieces, Len(pieces)) = 0
=============================================================================
