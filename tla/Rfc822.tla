------------------------------- MODULE Rfc822 -------------------------------
(* The tokenizer of php_mailparse_rfc822.re and the function that puts     *)
(* tokens together again, as operators on a header.                        *)
(*                                                                         *)
(* A header is a sequence of symbols: the bytes the scanner tells apart,   *)
(* and members of Word, each of which stands for a run of other bytes.  A  *)
(* token says what it is and which symbols of the header are its value.    *)
EXTENDS Integers, FiniteSetsExt, SequencesExt

CONSTANTS
  Word,      \* what the scanner calls "other", the backslash apart
  Lower      \* Lower[w]: the word w in lower case

Dquote    == "\""
Backslash == "\\"
Atom   == {"@", ",", ":", ";", "="}
Other  == Word \cup {Backslash}
Symbol == Other \cup Atom \cup {" ", Dquote, "(", ")", "<", ">"}

ASSUME WordAssumption ==
  Word \cap (Atom \cup {" ", Dquote, "(", ")", "<", ">", Backslash}) = {}
ASSUME LowerAssumption == Lower \in [Word -> Word]

(* The token of a run of other bytes is 0 in the code.                     *)
Text == "text"
Token == [token : {Text, Dquote, "(", "<", ">"} \cup Atom, from : Nat, len : Nat]

Made(token, from, len) == [token |-> token, from |-> from, len |-> len]

(* Where the comment whose "(" is at i ends, 0 if it does not.             *)
CommentEnd(h, i) ==
  LET n == Len(h)
      End[at \in (1 .. n + 2) \X (Nat \ {0})] ==
        LET j     == at[1]
            depth == at[2]
        IN CASE j > n                -> 0
             [] j <= n /\ h[j] = "(" -> End[<<j + 1, depth + 1>>]
             [] j <= n /\ h[j] = ")" -> IF depth = 1 THEN j
                                        ELSE End[<<j + 1, depth - 1>>]
             [] j < n /\ h[j] = Backslash -> End[<<j + 2, depth>>]
             [] OTHER                -> End[<<j + 1, depth>>]
  IN End[<<i + 1, 1>>]

(* Backslashes after i that hide the symbol behind them.                   *)
Escapes(h, i) ==
  LET n == Len(h)
      Count[j \in 1 .. n + 2] ==
        CASE j > n                -> 0
          [] j < n /\ h[j] = Backslash -> 1 + Count[j + 2]
          [] OTHER                -> Count[j + 1]
  IN Count[i + 1]

IsIn(h, i, S)   == i <= Len(h) /\ h[i] \in S
WordEnd(h, i) == Min({j \in i .. Len(h) + 1 : ~IsIn(h, j, Other)})
Quotes(h, i)  == {j \in i + 1 .. Len(h) : h[j] = Dquote}

(* tokenize, from state_ground at i.  A lone "\" and ")" are dropped, and  *)
(* so are "<" inside a bracket and ">" outside; "<>" never opens one.  An  *)
(* open quote or comment becomes an empty quoted string at the end, except *)
(* that the escapes of an open comment have been counted as its length.    *)
Tokenize(h) ==
  LET n == Len(h)
      From[at \in (1 .. n + 1) \X BOOLEAN] ==
        LET i       == at[1]
            bracket == at[2]
        IN
        CASE i > n -> <<>>
          [] IsIn(h, i, Word) \/ (IsIn(h, i, {Backslash}) /\ IsIn(h, i + 1, Other)) ->
               <<Made(Text, i, WordEnd(h, i) - i)>> \o From[<<WordEnd(h, i), bracket>>]
          [] IsIn(h, i, Atom) -> <<Made(h[i], i, 1)>> \o From[<<i + 1, bracket>>]
          [] IsIn(h, i, {Dquote}) ->
               IF Quotes(h, i) = {} THEN <<Made(Dquote, i, 0)>>
               ELSE <<Made(Dquote, i + 1, Min(Quotes(h, i)) - i - 1)>>
                    \o From[<<Min(Quotes(h, i)) + 1, bracket>>]
          [] IsIn(h, i, {"("}) ->
               IF CommentEnd(h, i) = 0 THEN <<Made(Dquote, i, Escapes(h, i))>>
               ELSE <<Made("(", i, CommentEnd(h, i) - i + 1)>>
                    \o From[<<CommentEnd(h, i) + 1, bracket>>]
          [] IsIn(h, i, {"<"}) /\ IsIn(h, i + 1, {">"}) ->
               <<Made("<", i, 1), Made(Text, i, 0), Made(">", i + 1, 1)>>
               \o From[<<i + 2, bracket>>]
          [] IsIn(h, i, {"<"}) /\ ~IsIn(h, i + 1, {">"}) /\ ~bracket ->
               <<Made("<", i, 1)>> \o From[<<i + 1, TRUE>>]
          [] IsIn(h, i, {">"}) /\ bracket -> <<Made(">", i, 1)>> \o From[<<i + 1, FALSE>>]
          [] OTHER -> From[<<i + 1, bracket>>]
  IN From[<<1, FALSE>>]

-----------------------------------------------------------------------------
IsAtom(t) == t.token \in {Text, Dquote, "("}

ToLower(s) == [k \in DOMAIN s |-> IF s[k] \in Word THEN Lower[s[k]] ELSE s[k]]

(* One token of those that are kept, with a space between two atoms.       *)
Spaced_Never(tokens, kept, k, flags) == FALSE             \* mutant
Spaced(tokens, kept, k, flags) ==
  LET before == {j \in kept : j < k} IN
  /\ "SPACE_ATOMS" \in flags /\ before # {}
  /\ IsAtom(tokens[k]) /\ IsAtom(tokens[Max(before)])
IsKept(t, flags) ==
  /\ "IGNORE_COMMENTS" \in flags => t.token # "(" \/ "COMMENTS_TO_QUOTES" \in flags
  /\ "COMMENTS_ONLY" \in flags => t.token = "("
Unwrapped(t, flags) == t.token = "(" /\ "COMMENTS_TO_QUOTES" \in flags
QuoteMark(t, flags) ==
  IF "INCLUDE_QUOTES" \in flags /\ (t.token = Dquote \/ Unwrapped(t, flags))
  THEN <<Dquote>> ELSE <<>>
Value(h, t, flags) ==
  IF Unwrapped(t, flags) THEN SubSeq(h, t.from + 1, t.from + t.len - 2)
  ELSE SubSeq(h, t.from, t.from + t.len - 1)

(* php_rfc822_recombine_tokens: the tokens first .. first + count - 1 of   *)
(* the header h, as far as there are so many.                              *)
Recombine(h, tokens, first, count, flags) ==
  LET last == Min({first + count - 1, Len(tokens)})
      kept == {k \in first .. last : IsKept(tokens[k], flags)}
      Piece(k) ==
        IF k \in kept
        THEN (IF Spaced(tokens, kept, k, flags) THEN <<" ">> ELSE <<>>)
             \o QuoteMark(tokens[k], flags) \o Value(h, tokens[k], flags)
             \o QuoteMark(tokens[k], flags)
        ELSE <<>>
      text == FlattenSeq([k \in 1 .. last - first + 1 |-> Piece(first + k - 1)])
  IN IF "STRTOLOWER" \in flags THEN ToLower(text) ELSE text

(* The same function allocates before it writes: a first loop has its own  *)
(* tests of which tokens to leave out, which to quote and where a space    *)
(* goes.  What it adds for a token it keeps:                               *)
TokEquiv(t, flags) ==
  IF t.token = "(" /\ "COMMENTS_TO_QUOTES" \in flags THEN Dquote ELSE t.token
PassedOver(t, flags) ==
  \/ "IGNORE_COMMENTS" \in flags /\ TokEquiv(t, flags) = "("
  \/ "COMMENTS_ONLY" \in flags /\ t.token # "("
Room_NoSpaces(t, last_was_atom, flags) ==
  t.len + (IF "INCLUDE_QUOTES" \in flags /\ TokEquiv(t, flags) = Dquote
           THEN 2 ELSE 0)                                 \* mutant
Room(t, last_was_atom, flags) ==
  t.len
  + (IF "SPACE_ATOMS" \in flags /\ last_was_atom /\ IsAtom(t) THEN 1 ELSE 0)
  + (IF "INCLUDE_QUOTES" \in flags /\ TokEquiv(t, flags) = Dquote THEN 2 ELSE 0)

(* The bytes it allocates, one for the NUL.                                *)
RecombineRoom(tokens, first, count, flags) ==
  LET toks == SubSeq(tokens, first, Min({first + count - 1, Len(tokens)}))
      Loop[k \in 0 .. Len(toks)] ==
        CASE k = 0 -> [len |-> 1, last_was_atom |-> FALSE]
          [] k > 0 /\ PassedOver(toks[k], flags) -> Loop[k - 1]
          [] OTHER ->
               [len |-> Loop[k - 1].len
                        + Room(toks[k], Loop[k - 1].last_was_atom, flags),
                last_was_atom |-> IsAtom(toks[k])]
  IN Loop[Len(toks)].len
=============================================================================
