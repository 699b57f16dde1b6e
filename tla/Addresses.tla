----------------------------- MODULE Addresses -----------------------------
(* parse_address_tokens: a list of addresses is read twice, first to count *)
(* the entries, then to fill as many slots.  A step is one turn from the   *)
(* label mailbox to the next goto, with the look for a group in front.     *)
EXTENDS Rfc822

CONSTANT Headers    \* the address lists to parse

(* No word of a header comes twice, so that it tells where it was taken    *)
(* from; none is taken for a slot that has not been filled.                *)
ASSUME HeadersAssumption ==
  /\ Headers \subseteq Seq(Symbol)
  /\ \A h \in Headers : \A i, j \in DOMAIN h :
       h[i] = h[j] /\ h[i] \in Word => i = j
ASSUME NullAssumption == "NULL" \notin Symbol

VARIABLES
  header, tokens,   \* php_rfc822_tokenized_t
  pass,             \* "count", "fill" or "done"
  start_tok,        \* 1 is the first token
  iaddr,            \* entries so far
  in_group,
  group_lbl,        \* first token of the label of a group, first behind it
  group_addrs,      \* addresses of the open group
  addrs,            \* the slots
  naddrs            \* what the last pass reported

headerVars == <<header, tokens>>
vars == <<headerVars, pass, start_tok, iaddr, in_group, group_lbl,
          group_addrs, addrs, naddrs>>

Null    == <<"NULL">>
NoEntry == [name |-> Null, address |-> Null, is_group |-> FALSE]

ntokens == Len(tokens)
Tok(i) == IF i <= ntokens THEN tokens[i].token ELSE "end"
(* where a loop that starts at i and looks for one of S stops              *)
Seek(i, S) ==
  Min({j \in i .. ntokens : Tok(j) \in S} \cup {Max({i, ntokens + 1})})

-----------------------------------------------------------------------------
(* What the turn that starts at start_tok finds.                           *)
Label       == Seek(start_tok, {"(", "<", ">"} \cup Atom)
StartsGroup == ~in_group /\ Tok(Label) = ":"
Grouped     == in_group \/ StartsGroup
MailboxStart_Spurious == IF StartsGroup THEN Label ELSE start_tok   \* mutant
(* past spurious commas                                                    *)
MailboxStart ==
  LET start == IF StartsGroup THEN Label ELSE start_tok IN
  Min({j \in start .. ntokens : Tok(j) \notin {",", ";"}} \cup {ntokens + 1})
(* the end of the display name, or of an address without one               *)
Stop        == Seek(MailboxStart, {";", ",", "<"})
IsRoute     == Tok(Stop) = "<"
Close       == Seek(Stop, {">"})
Resume_AtSeparator == Seek(Stop, {",", ";"})              \* mutant
Resume      == IF IsRoute THEN Close + 1 ELSE Stop
EndsGroup_PastEnd == Grouped /\ (Tok(Resume) = ";" \/ Resume > ntokens) \* mutant
EndsGroup   == Grouped /\ (Tok(Resume) = ";" \/ Resume = ntokens + 1)

AddressFlags == {"SPACE_ATOMS", "IGNORE_COMMENTS", "INCLUDE_QUOTES"}
AddressValue ==
  IF IsRoute
  THEN Recombine(header, tokens, Stop + 1, Close - Stop - 1, AddressFlags)
  ELSE Recombine(header, tokens, MailboxStart, Stop - MailboxStart, AddressFlags)

(* Without a "<" at its end a text is the display name as well when it     *)
(* has strings; comments alone are the display name of an address.         *)
DisplayName ==
  LET found == {Tok(j) : j \in MailboxStart .. Stop - 1}
      Words(flags) == Recombine(header, tokens, MailboxStart, Stop - MailboxStart,
                                {"SPACE_ATOMS"} \cup flags)
  IN CASE found = {}                              -> Null
       [] found # {} /\ Tok(Stop) # "end"         -> Words({})
       [] Tok(Stop) = "end" /\ Dquote \in found     -> Words({})
       [] Tok(Stop) = "end" /\ Dquote \notin found /\ "(" \in found ->
            Words({"COMMENTS_ONLY", "COMMENTS_TO_QUOTES"})
       [] OTHER                                   -> Null
GroupName ==
  LET first == IF StartsGroup THEN start_tok ELSE group_lbl[1]
      upper == IF StartsGroup THEN Label ELSE group_lbl[2]
  IN Recombine(header, tokens, first, upper - first, {"SPACE_ATOMS"})
GroupAddrs ==
  group_addrs \o (IF group_addrs = <<>> THEN <<>> ELSE <<",">>) \o AddressValue

-----------------------------------------------------------------------------
(* Stores into the slot of the current entry; nothing while counting.      *)
Slot      == iaddr + 1
HasSlot   == pass = "fill" /\ iaddr < Len(addrs)
Name_Display(name) == name                                \* mutant
(* if no display name has been given, use the address                      *)
Name(name) == IF name = Null THEN AddressValue ELSE name
Store(entry) ==
  addrs' = IF HasSlot THEN [addrs EXCEPT ![Slot] = entry] ELSE addrs

Mailbox ==
  /\ pass # "done" /\ start_tok <= ntokens
  /\ ~Grouped
  /\ Store([addrs[Slot] EXCEPT !.name = Name(DisplayName),
                               !.address = AddressValue])
  /\ start_tok' = Resume
  /\ iaddr' = iaddr + 1
  /\ UNCHANGED <<headerVars, pass, in_group, group_lbl, group_addrs, naddrs>>

GroupMailbox ==
  /\ pass # "done" /\ start_tok <= ntokens
  /\ Grouped /\ ~EndsGroup
  /\ Store([addrs[Slot] EXCEPT !.name = Name(@)])
  /\ group_addrs' = IF pass = "fill" THEN GroupAddrs ELSE group_addrs
  /\ group_lbl' = IF StartsGroup THEN <<start_tok, Label>> ELSE group_lbl
  /\ in_group' = TRUE
  /\ start_tok' = Resume
  /\ UNCHANGED <<headerVars, pass, iaddr, naddrs>>

GroupEnd ==
  /\ pass # "done" /\ start_tok <= ntokens
  /\ EndsGroup
  /\ Store([name |-> GroupName, address |-> GroupAddrs \o <<";">>,
            is_group |-> TRUE])
  /\ group_addrs' = <<>>
  /\ group_lbl' = IF StartsGroup THEN <<start_tok, Label>> ELSE group_lbl
  /\ in_group' = FALSE
  /\ start_tok' = Resume + 1
  /\ iaddr' = iaddr + 1
  /\ UNCHANGED <<headerVars, pass, naddrs>>

(* The end of a pass; php_rfc822_parse_address_tokens starts the second    *)
(* when the first has counted something.                                   *)
EndPass ==
  /\ pass # "done" /\ start_tok > ntokens
  /\ naddrs' = iaddr
  /\ pass' = IF pass = "count" /\ iaddr > 0 THEN "fill" ELSE "done"
  /\ addrs' = IF pass = "count" THEN [k \in 1 .. iaddr |-> NoEntry] ELSE addrs
  /\ IF pass' = "fill"
     THEN start_tok' = 1 /\ iaddr' = 0 /\ in_group' = FALSE
          /\ group_lbl' = <<1, 1>> /\ group_addrs' = <<>>
     ELSE UNCHANGED <<start_tok, iaddr, in_group, group_lbl, group_addrs>>
  /\ UNCHANGED headerVars

Init ==
  /\ header \in Headers
  /\ tokens = Tokenize(header)
  /\ pass = "count"
  /\ start_tok = 1
  /\ iaddr = 0
  /\ in_group = FALSE
  /\ group_lbl = <<1, 1>>
  /\ group_addrs = <<>>
  /\ addrs = <<>>
  /\ naddrs = 0

Next == Mailbox \/ GroupMailbox \/ GroupEnd \/ EndPass

Spec == Init /\ [][Next]_vars

-----------------------------------------------------------------------------
Field == Seq(Symbol) \cup {Null}
Entry == [name : Field, address : Field, is_group : BOOLEAN]

TypeOK ==
  /\ \A k \in DOMAIN tokens : tokens[k] \in Token
  /\ pass \in {"count", "fill", "done"}
  /\ start_tok \in 1 .. ntokens + 2
  /\ iaddr \in 0 .. ntokens /\ naddrs \in 0 .. ntokens
  /\ in_group \in BOOLEAN
  /\ group_lbl \in (1 .. ntokens + 1) \X (1 .. ntokens + 1)
  /\ \A k \in DOMAIN addrs : addrs[k] \in Entry

(* Both passes of php_rfc822_parse_address_tokens find the same entries:   *)
(* every slot that was counted is filled, with a name and an address, and  *)
(* nothing is left for a slot that was not.                                *)
SlotsFilled ==
  /\ pass # "count" => /\ iaddr <= Len(addrs)
                       /\ \A k \in 1 .. iaddr : Null \notin {addrs[k].name,
                                                            addrs[k].address}
  /\ pass = "done" => iaddr = Len(addrs) /\ naddrs = Len(addrs)

(* The words of the header that no comment hides, by position.             *)
Spoken ==
  {i \in DOMAIN header : header[i] \in Word /\ \E t \in Range(tokens) :
     t.token # "(" /\ i \in t.from .. t.from + t.len - 1}
WordsOf(k) == {i \in DOMAIN header : header[i] \in Word
                 /\ header[i] \in Range(addrs[k].name \o addrs[k].address)}

(* parse_address_tokens looks ahead for groups, brackets and separators    *)
(* from every position: still the entries take their words from the header *)
(* in order, none from another's, and without groups no word is lost.      *)
WordsKept ==
  pass = "done" =>
    /\ \A k, m \in DOMAIN addrs : k < m =>
         \A v \in WordsOf(k), w \in WordsOf(m) : v < w
    /\ ":" \notin {t.token : t \in Range(tokens)} =>
         Spoken \subseteq UNION {WordsOf(k) : k \in DOMAIN addrs}

(* What tokens say, apart from where they were found; comments and the     *)
(* empty texts that "<>" makes say nothing.                                *)
SaidBy(h, t) ==
  IF t.token = "(" \/ (t.token = Text /\ t.len = 0) THEN <<>>
  ELSE << <<t.token, SubSeq(h, t.from, t.from + t.len - 1)>> >>
Said(h, toks) == FlattenSeq([k \in DOMAIN toks |-> SaidBy(h, toks[k])])
(* The escapes of an open comment may have a quote as their value, which   *)
(* no quoted string has.                                                   *)
QuoteInside ==
  \E t \in Range(tokens) :
    t.token = Dquote /\ Dquote \in {header[i] : i \in t.from .. t.from + t.len - 1}

(* php_rfc822_recombine_tokens, as used for the address part, undoes the   *)
(* scanner: the text it makes has the same tokens, comments apart.         *)
RecombineRestores ==
  pass = "done" /\ ~QuoteInside =>
    LET text == Recombine(header, tokens, 1, ntokens, AddressFlags)
    IN Said(text, Tokenize(text)) = Said(header, tokens)

(* What php_rfc822_recombine_tokens allocates in a first loop is enough    *)
(* for the text its second loop writes and the NUL behind it, for every    *)
(* stretch of tokens and the flags of every call in the library.           *)
FlagsUsed ==
  {AddressFlags, {"SPACE_ATOMS"}, {"IGNORE_COMMENTS"},
   {"IGNORE_COMMENTS", "STRTOLOWER"},
   {"SPACE_ATOMS", "COMMENTS_ONLY", "COMMENTS_TO_QUOTES"}}
TextFits ==
  pass = "done" =>
    \A first \in 1 .. ntokens, flags \in FlagsUsed :
      \A count \in 0 .. ntokens - first + 1 :
        Len(Recombine(header, tokens, first, count, flags))
          < RecombineRoom(tokens, first, count, flags)

(* Whatever the look-aheads find, a goto of parse_address_tokens leads on  *)
(* to later tokens, so that a call ends.                                   *)
EveryTurnAdvances ==
  pass # "done" /\ start_tok <= ntokens =>
    (IF EndsGroup THEN Resume + 1 ELSE Resume) > start_tok
=============================================================================
