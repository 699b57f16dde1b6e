-------------------------- MODULE AddressesProofs --------------------------
(* What holds of the addresses of every header: the slots of the first     *)
(* pass are the ones the second fills, each with its own words in order,   *)
(* no turn of the loop stays where it is, and what Recombine makes of the  *)
(* tokens is scanned as the same tokens.                                   *)
EXTENDS Addresses, DataProofs

(* The header is a list of symbols that has been scanned.                  *)
ReadOK == header \in Headers /\ tokens = Tokenize(header)

(* The scanned tokens are laid in the header, one behind the other.        *)
LEMMA ReadFacts ==
  ASSUME ReadOK
  PROVE  /\ header \in Seq(Symbol) /\ tokens \in Laid(header, 1, Len(header))
         /\ tokens \in Seq(Token) /\ ntokens \in Nat /\ DOMAIN tokens = 1 .. ntokens
         /\ Len(header) \in Nat /\ DOMAIN header = 1 .. Len(header)
         /\ \A k \in 1 .. ntokens : /\ tokens[k] \in Token
                                    /\ Span(tokens[k]) \subseteq 1 .. Len(header)
                                    /\ Tok(k) = tokens[k].token
         /\ \A k \in Nat : k > ntokens => Tok(k) = "end"
<1>1. header \in Seq(Symbol)
  BY HeadersAssumption DEF ReadOK
<1>2. tokens \in Laid(header, 1, Len(header))
  BY <1>1, TokenizeFacts DEF ReadOK
<1>3. tokens \in Seq(Token) /\ \A k \in DOMAIN tokens : Span(tokens[k]) \subseteq 1 .. Len(header)
  BY <1>2 DEF Laid
<1>4. /\ ntokens \in Nat /\ DOMAIN tokens = 1 .. ntokens
      /\ \A k \in 1 .. ntokens : tokens[k] \in Token
  BY <1>3, LenProperties DEF ntokens
<1>5. Len(header) \in Nat /\ DOMAIN header = 1 .. Len(header)
  BY <1>1, LenProperties
<1> QED BY <1>1, <1>2, <1>3, <1>4, <1>5 DEF Tok

(* Seek stops at the first token of a kind, or behind the last one.        *)
LEMMA SeekFacts ==
  ASSUME ReadOK, NEW i \in Nat \ {0}, NEW S
  PROVE  /\ Seek(i, S) \in Nat /\ Seek(i, S) >= i
         /\ i <= ntokens + 1 => Seek(i, S) <= ntokens + 1
         /\ Seek(i, S) <= ntokens => Tok(Seek(i, S)) \in S
         /\ \A j \in i .. ntokens : Tok(j) \in S => Seek(i, S) <= j
<1> DEFINE far == Max({i, ntokens + 1})
           found == {j \in i .. ntokens : Tok(j) \in S}
<1>0. ntokens \in Nat
  BY ReadFacts
<1>1. far \in {i, ntokens + 1} /\ far >= i /\ far >= ntokens + 1
  <2>1. \E x \in {i, ntokens + 1} : \A y \in {i, ntokens + 1} : x >= y
    BY <1>0
  <2>2. far \in {i, ntokens + 1} /\ \A y \in {i, ntokens + 1} : far >= y
    BY <2>1 DEF Max
  <2> QED BY <2>2
<1> HIDE DEF far
<1> DEFINE all == found \cup {far}
<1>2. all \in SUBSET Nat /\ all # {} /\ far \in all
  BY <1>0, <1>1
<1>3. \A x \in all : x >= i
  BY <1>0, <1>1
<1>4. Seek(i, S) = Min(all)
  BY DEF Seek, far
<1>5. Min(all) \in all /\ Min(all) \in Nat /\ \A n \in all : Min(all) <= n
  <2> HIDE DEF all
  <2> QED BY <1>2, MinFacts
<1>6. \A j \in i .. ntokens : Tok(j) \in S => j \in all
  OBVIOUS
<1>7. \A j \in all : j <= ntokens => Tok(j) \in S
  BY <1>0, <1>1
<1>8. i <= ntokens + 1 => far <= ntokens + 1
  BY <1>0, <1>1
<1>9. far \in Nat
  BY <1>0, <1>1
<1> HIDE DEF all
<1> DEFINE s == Min(all)
<1>10. /\ s \in Nat /\ s >= i /\ s <= far
       /\ s <= ntokens => Tok(s) \in S
       /\ \A j \in i .. ntokens : Tok(j) \in S => s <= j
  BY <1>2, <1>3, <1>5, <1>6, <1>7
<1> HIDE DEF s
<1>11. i <= ntokens + 1 => s <= ntokens + 1
  BY <1>0, <1>8, <1>9, <1>10
<1>12. Seek(i, S) = s
  BY <1>4 DEF s
<1> QED BY <1>10, <1>11, <1>12

-----------------------------------------------------------------------------
(* A turn from token s on; g is 1 in a group, 0 outside.                   *)
LabelAt(s)      == Seek(s, {"(", "<", ">"} \cup Atom)
StartsAt(s, g)  == g = 0 /\ Tok(LabelAt(s)) = ":"
GroupedAt(s, g) == g = 1 \/ StartsAt(s, g)
FirstAt(s, g)   == IF StartsAt(s, g) THEN LabelAt(s) ELSE s
MailboxAt(s, g) ==
  Min({j \in FirstAt(s, g) .. ntokens : Tok(j) \notin {",", ";"}} \cup {ntokens + 1})
StopAt(s, g)    == Seek(MailboxAt(s, g), {";", ",", "<"})
RouteAt(s, g)   == Tok(StopAt(s, g)) = "<"
CloseAt(s, g)   == Seek(StopAt(s, g), {">"})
ResumeAt(s, g)  == IF RouteAt(s, g) THEN CloseAt(s, g) + 1 ELSE StopAt(s, g)
EndsAt(s, g)    == GroupedAt(s, g)
                   /\ (Tok(ResumeAt(s, g)) = ";" \/ ResumeAt(s, g) = ntokens + 1)
NextAt(s, g)    == IF EndsAt(s, g) THEN ResumeAt(s, g) + 1 ELSE ResumeAt(s, g)
InGroup         == IF in_group THEN 1 ELSE 0

(* The operators of a turn are these, at the token it starts at.           *)
LEMMA TurnIs ==
  ASSUME in_group \in BOOLEAN
  PROVE  /\ Label = LabelAt(start_tok)
         /\ StartsGroup <=> StartsAt(start_tok, InGroup)
         /\ Grouped <=> GroupedAt(start_tok, InGroup)
         /\ MailboxStart = MailboxAt(start_tok, InGroup)
         /\ Stop = StopAt(start_tok, InGroup)
         /\ IsRoute <=> RouteAt(start_tok, InGroup)
         /\ Close = CloseAt(start_tok, InGroup)
         /\ Resume = ResumeAt(start_tok, InGroup)
         /\ EndsGroup <=> EndsAt(start_tok, InGroup)
         /\ (IF EndsGroup THEN Resume + 1 ELSE Resume) = NextAt(start_tok, InGroup)
<1>0. InGroup \in {0, 1} /\ (InGroup = 1 <=> in_group) /\ (InGroup = 0 <=> ~in_group)
  BY DEF InGroup
<1>1. Label = LabelAt(start_tok)
  BY DEF Label, LabelAt
<1>2. StartsGroup <=> StartsAt(start_tok, InGroup)
  BY <1>0, <1>1 DEF StartsGroup, StartsAt
<1>3. Grouped <=> GroupedAt(start_tok, InGroup)
  BY <1>0, <1>2 DEF Grouped, GroupedAt
<1>4. (IF StartsGroup THEN Label ELSE start_tok) = FirstAt(start_tok, InGroup)
  BY <1>1, <1>2 DEF FirstAt
<1>5. MailboxStart = MailboxAt(start_tok, InGroup)
  BY Zenon, <1>4 DEF MailboxStart, MailboxAt
<1>6. Stop = StopAt(start_tok, InGroup)
  BY <1>5 DEF Stop, StopAt
<1>7. IsRoute <=> RouteAt(start_tok, InGroup)
  BY <1>6 DEF IsRoute, RouteAt
<1>8. Close = CloseAt(start_tok, InGroup)
  BY <1>6 DEF Close, CloseAt
<1>9. Resume = ResumeAt(start_tok, InGroup)
  BY <1>6, <1>7, <1>8 DEF Resume, ResumeAt
<1>10. EndsGroup <=> EndsAt(start_tok, InGroup)
  BY <1>3, <1>9 DEF EndsGroup, EndsAt
<1>11. (IF EndsGroup THEN Resume + 1 ELSE Resume) = NextAt(start_tok, InGroup)
  BY <1>9, <1>10 DEF NextAt
<1> QED BY <1>1, <1>2, <1>3, <1>5, <1>6, <1>7, <1>8, <1>9, <1>10, <1>11

(* The mailbox of a turn starts where the turn does or behind the label.   *)
LEMMA MailboxFacts ==
  ASSUME ReadOK, NEW s \in 1 .. ntokens, NEW g \in {0, 1}
  PROVE  /\ LabelAt(s) \in s .. ntokens + 1
         /\ FirstAt(s, g) \in s .. ntokens
         /\ MailboxAt(s, g) \in FirstAt(s, g) .. ntokens + 1
         /\ MailboxAt(s, g) <= ntokens => Tok(MailboxAt(s, g)) \notin {",", ";"}
         /\ \A j \in FirstAt(s, g) .. MailboxAt(s, g) - 1 : Tok(j) \in {",", ";"}
<1>0. ntokens \in Nat /\ s \in Nat \ {0}
  BY ReadFacts
<1>1. LabelAt(s) \in s .. ntokens + 1
  BY <1>0, SeekFacts DEF LabelAt
<1>2. FirstAt(s, g) \in s .. ntokens
  <2>1. StartsAt(s, g) => LabelAt(s) # ntokens + 1
    BY <1>0, ReadFacts DEF StartsAt
  <2> QED BY <1>0, <1>1, <2>1 DEF FirstAt
<1> DEFINE first == FirstAt(s, g)
           S == {j \in first .. ntokens : Tok(j) \notin {",", ";"}} \cup {ntokens + 1}
<1>3. MailboxAt(s, g) = Min(S)
  BY DEF MailboxAt
<1> HIDE DEF first
<1>f. first \in s .. ntokens /\ first \in Nat
  BY <1>0, <1>2 DEF first
<1>4. S \in SUBSET Nat /\ S # {} /\ (\A x \in S : x \in Nat /\ first <= x /\ x <= ntokens + 1)
  <2>1. \A x \in S : x \in Nat /\ first <= x /\ x <= ntokens + 1
    <3>1. \A x \in first .. ntokens : x \in Nat /\ first <= x /\ x <= ntokens + 1
      BY <1>0, <1>f
    <3>2. ntokens + 1 \in Nat /\ first <= ntokens + 1 /\ ntokens + 1 <= ntokens + 1
      BY <1>0, <1>f
    <3> QED BY Zenon, <3>1, <3>2
  <2>2. ntokens + 1 \in S
    OBVIOUS
  <2> QED BY <2>1, <2>2
<1>5. /\ \A j \in S : j <= ntokens => Tok(j) \notin {",", ";"}
      /\ \A j \in first .. ntokens : j \notin S => Tok(j) \in {",", ";"}
  <2>1. ~(ntokens + 1 <= ntokens)
    BY <1>0
  <2> QED BY <2>1
<1> HIDE DEF S
<1>6. Min(S) \in S /\ Min(S) \in Nat /\ \A n \in S : Min(S) <= n
  BY <1>4, MinFacts
<1> DEFINE m == Min(S)
<1>7. m \in first .. ntokens + 1 /\ (m <= ntokens => Tok(m) \notin {",", ";"})
  <2>1. m \in S
    BY <1>6
  <2> HIDE DEF m
  <2>2. m \in Nat /\ first <= m /\ m <= ntokens + 1
    BY <1>4, <2>1
  <2>3. m \in first .. ntokens + 1
    BY <1>0, <1>f, <2>2
  <2> QED BY <1>5, <2>1, <2>3
<1>8. ASSUME NEW j \in first .. m - 1 PROVE Tok(j) \in {",", ";"}
  <2>1. m \in Nat /\ m <= ntokens + 1 /\ \A n \in S : m <= n
    BY <1>4, <1>6
  <2> HIDE DEF m
  <2>3. j < m /\ j \in Int
    BY <1>f, <2>1
  <2>2. j \notin S /\ j \in first .. ntokens
    BY <1>0, <1>f, <2>1, <2>3
  <2> QED BY <1>5, <2>2
<1> QED BY <1>1, <1>2, <1>3, <1>7, <1>8 DEF first

(* Where a turn stops and resumes: never at or before its start.           *)
LEMMA TurnFacts ==
  ASSUME ReadOK, NEW s \in 1 .. ntokens, NEW g \in {0, 1}
  PROVE  /\ MailboxAt(s, g) \in s .. ntokens + 1
         /\ StopAt(s, g) \in MailboxAt(s, g) .. ntokens + 1
         /\ StopAt(s, g) <= ntokens => Tok(StopAt(s, g)) \in {";", ",", "<"}
         /\ RouteAt(s, g) => /\ StopAt(s, g) <= ntokens
                             /\ CloseAt(s, g) \in StopAt(s, g) + 1 .. ntokens + 1
                             /\ CloseAt(s, g) <= ntokens => Tok(CloseAt(s, g)) = ">"
         /\ ResumeAt(s, g) \in s .. ntokens + 2
         /\ NextAt(s, g) \in s + 1 .. ntokens + 2
<1>0. ntokens \in Nat /\ s \in Nat \ {0}
  BY ReadFacts
<1>b. MailboxAt(s, g) \in s .. ntokens + 1
  <2>1. FirstAt(s, g) \in s .. ntokens /\ MailboxAt(s, g) \in FirstAt(s, g) .. ntokens + 1
    BY MailboxFacts
  <2> QED BY <1>0, <2>1
<1>m. PICK m \in s .. ntokens + 1 : m = MailboxAt(s, g)
  BY <1>b
<1>n. m \in Nat \ {0} /\ m <= ntokens + 1
  BY <1>0, <1>m
<1>1. m <= ntokens => Tok(m) \notin {",", ";"}
  BY <1>m, MailboxFacts
<1>2. /\ StopAt(s, g) \in m .. ntokens + 1
      /\ StopAt(s, g) <= ntokens => Tok(StopAt(s, g)) \in {";", ",", "<"}
  <2> DEFINE p == Seek(m, {";", ",", "<"})
  <2>1. StopAt(s, g) = p
    BY <1>m DEF StopAt
  <2>2. /\ p \in Nat /\ p >= m /\ p <= ntokens + 1
        /\ p <= ntokens => Tok(p) \in {";", ",", "<"}
    BY <1>n, SeekFacts
  <2> HIDE DEF p
  <2>4. p \in Nat /\ p >= m /\ p <= ntokens + 1
    BY <2>2
  <2>3. p \in m .. ntokens + 1
    BY <1>0, <1>n, <2>4
  <2> QED BY <2>1, <2>2, <2>3
<1>p. PICK p \in m .. ntokens + 1 : p = StopAt(s, g)
  BY <1>2
<1>e. \A k \in Nat : k > ntokens => Tok(k) = "end"
  BY ReadFacts
<1>3. RouteAt(s, g) => p <= ntokens
  BY <1>0, <1>p, <1>e DEF RouteAt
<1>4. ASSUME RouteAt(s, g)
      PROVE  CloseAt(s, g) \in p + 1 .. ntokens + 1
             /\ (CloseAt(s, g) <= ntokens => Tok(CloseAt(s, g)) = ">")
  <2>1. CloseAt(s, g) = Seek(p, {">"})
    BY <1>p DEF CloseAt
  <2>2. /\ CloseAt(s, g) \in Nat /\ CloseAt(s, g) >= p /\ CloseAt(s, g) <= ntokens + 1
        /\ CloseAt(s, g) <= ntokens => Tok(CloseAt(s, g)) = ">"
    BY <1>0, <1>3, <1>4, <2>1, SeekFacts
  <2>3. Tok(p) = "<"
    BY <1>p, <1>4 DEF RouteAt
  <2>4. CloseAt(s, g) # p
    BY <1>0, <1>3, <1>4, <2>2, <2>3
  <2> QED BY <1>0, <2>2, <2>4
<1>5. ResumeAt(s, g) \in s .. ntokens + 2
  BY <1>0, <1>3, <1>4, <1>p DEF ResumeAt
<1>6. ASSUME ~EndsAt(s, g) PROVE ResumeAt(s, g) # s
  <2>1. CASE RouteAt(s, g)
    BY <1>0, <1>3, <1>4, <2>1 DEF ResumeAt
  <2>2. CASE ~RouteAt(s, g)
    <3>1. ResumeAt(s, g) = p
      BY <1>p, <2>2 DEF ResumeAt
    <3>2. SUFFICES ASSUME p = s PROVE FALSE
      BY <3>1
    <3>3. m = p /\ p <= ntokens
      BY <1>0, <3>2
    <3>4. Tok(p) \in {";", ",", "<"} /\ Tok(p) \notin {",", ";"}
      BY <1>1, <1>2, <1>p, <3>3
    <3>5. Tok(p) # "<"
      BY <1>p, <2>2 DEF RouteAt
    <3> QED BY <3>4, <3>5
  <2> QED BY <2>1, <2>2
<1>7. EndsAt(s, g) => ResumeAt(s, g) <= ntokens + 1
  <2>1. PICK r \in Nat : r = ResumeAt(s, g)
    BY <1>0, <1>5
  <2>2. EndsAt(s, g) => Tok(r) = ";" \/ r = ntokens + 1
    BY <2>1 DEF EndsAt
  <2>3. Tok(r) = ";" => ~(r > ntokens)
    BY <1>e
  <2>4. EndsAt(s, g) => r = ntokens + 1 \/ ~(r > ntokens)
    BY <2>2, <2>3
  <2>5. r = ntokens + 1 \/ ~(r > ntokens) => r <= ntokens + 1
    BY <1>0
  <2> QED BY <2>1, <2>4, <2>5
<1>8. NextAt(s, g) \in s + 1 .. ntokens + 2
  BY <1>0, <1>5, <1>6, <1>7 DEF NextAt
<1> QED BY <1>2, <1>3, <1>4, <1>5, <1>8, <1>m, <1>p

-----------------------------------------------------------------------------
(* The words that tokens lo .. hi - 1 say, by their places in the header,  *)
(* and those that a text says.                                             *)
Places(lo, hi) ==
  {i \in 1 .. Len(header) : header[i] \in Word
     /\ \E k \in 1 .. ntokens : lo <= k /\ k < hi /\ i \in Span(tokens[k])}
WordsIn(text) ==
  {i \in DOMAIN header : header[i] \in Word /\ header[i] \in Range(text)}

(* Wider bounds take in no fewer places, and tokens that come later have   *)
(* the later places.                                                       *)
LEMMA PlacesFacts ==
  ASSUME ReadOK, NEW a \in Int, NEW b \in Int, NEW c \in Int, NEW d \in Int
  PROVE  /\ c <= a /\ b <= d => Places(a, b) \subseteq Places(c, d)
         /\ b <= c => \A v \in Places(a, b), w \in Places(c, d) : v < w
<1>0. ntokens \in Nat
  BY ReadFacts
<1>1. ASSUME c <= a, b <= d PROVE Places(a, b) \subseteq Places(c, d)
  <2>1. \A k \in 1 .. ntokens : a <= k /\ k < b => c <= k /\ k < d
    BY <1>0, <1>1
  <2> QED BY <2>1 DEF Places
<1>2. ASSUME b <= c, NEW v \in Places(a, b), NEW w \in Places(c, d) PROVE v < w
  <2>1. PICK j \in 1 .. ntokens : a <= j /\ j < b /\ v \in Span(tokens[j])
    BY DEF Places
  <2>2. PICK k \in 1 .. ntokens : c <= k /\ k < d /\ w \in Span(tokens[k])
    BY DEF Places
  <2>3. j < k
    BY <1>0, <1>2, <2>1, <2>2
  <2>4. \A x \in Span(tokens[j]), y \in Span(tokens[k]) : x < y
    BY <2>3, ReadFacts DEF Laid
  <2> QED BY <2>1, <2>2, <2>4
<1> QED BY <1>1, <1>2

(* The words of two texts put together are those of both.                  *)
LEMMA WordsConcat ==
  ASSUME NEW s \in Seq(Symbol), NEW t \in Seq(Symbol)
  PROVE  /\ s \o t \in Seq(Symbol)
         /\ WordsIn(s \o t) = WordsIn(s) \cup WordsIn(t)
<1>1. Range(s \o t) = Range(s) \cup Range(t)
  BY RangeOfConcat
<1>2. s \o t \in Seq(Symbol)
  BY ConcatProperties
<1> QED BY <1>1, <1>2 DEF WordsIn

(* What the tokens from first up to upper make says only words of theirs,  *)
(* and all those of the ones it keeps.                                     *)
SaysOf(text, first, upper, flags) ==
  /\ text \in Seq(Symbol)
  /\ WordsIn(text) \subseteq Places(first, upper)
  /\ \A k \in 1 .. ntokens :
       first <= k /\ k < upper /\ IsKept(tokens[k], flags)
       /\ ~Unwrapped(tokens[k], flags) =>
         \A i \in Span(tokens[k]) : header[i] \in Range(text)

(* What a run of tokens is put together to says its words, and no others.  *)
LEMMA RecombinedFacts ==
  ASSUME ReadOK, NEW first \in Nat \ {0}, NEW upper \in Int, NEW flags,
         "STRTOLOWER" \notin flags
  PROVE  SaysOf(Recombine(header, tokens, first, upper - first, flags),
                first, upper, flags)
<1>0. /\ header \in Seq(Symbol) /\ tokens \in Laid(header, 1, Len(header))
      /\ ntokens \in Nat /\ DOMAIN header = 1 .. Len(header)
      /\ \A k \in 1 .. ntokens : Span(tokens[k]) \subseteq 1 .. Len(header)
  BY ReadFacts
<1> DEFINE count == upper - first
           end   == first + count - 1
           last  == Min({end, Len(tokens)})
           text  == Recombine(header, tokens, first, upper - first, flags)
<1>1. count \in Int /\ end = upper - 1 /\ end \in Int /\ Len(tokens) = ntokens
  BY DEF ntokens
<1>2. last \in {end, Len(tokens)} /\ last <= end /\ last <= Len(tokens)
  <2>1. end \in Int /\ Len(tokens) \in Int
    BY <1>0, <1>1
  <2> HIDE DEF end
  <2> QED BY <2>1, MinPair
<1>3. text = Recombine(header, tokens, first, count, flags)
  OBVIOUS
<1>4. /\ text \in Seq(Symbol)
      /\ \A w \in Word : w \in Range(text) =>
           \E k \in first .. last : IsKept(tokens[k], flags)
                                    /\ \E i \in Span(tokens[k]) : header[i] = w
      /\ \A k \in first .. last :
           IsKept(tokens[k], flags) /\ ~Unwrapped(tokens[k], flags) =>
             \A i \in Span(tokens[k]) : header[i] \in Range(text)
  <2> HIDE DEF count
  <2>1. Recombines(header, tokens, first, Min({first + count - 1, Len(tokens)}), flags,
                   Recombine(header, tokens, first, count, flags))
    BY <1>0, <1>1, RecombineFacts
  <2> HIDE DEF last, text
  <2>2. last = Min({first + count - 1, Len(tokens)})
    BY DEF last
  <2>3. Recombines(header, tokens, first, last, flags, text)
    BY <1>3, <2>1, <2>2
  <2> QED BY <2>3 DEF Recombines
<1> HIDE DEF last, end, count, text
<1>5. ASSUME NEW j \in WordsIn(text) PROVE j \in Places(first, upper)
  <2>1. j \in 1 .. Len(header) /\ header[j] \in Word /\ header[j] \in Range(text)
    BY <1>0 DEF WordsIn
  <2>2. PICK k \in first .. last : \E i \in Span(tokens[k]) : header[i] = header[j]
    BY <1>4, <2>1
  <2>3. k \in 1 .. ntokens /\ first <= k /\ k < upper
    BY <1>0, <1>1, <1>2
  <2>4. PICK i \in Span(tokens[k]) : header[i] = header[j]
    BY <2>2
  <2>5. i \in 1 .. Len(header)
    BY <1>0, <2>3
  <2>6. i = j
    BY <1>0, <2>1, <2>4, <2>5, HeadersAssumption DEF ReadOK
  <2> QED BY <2>1, <2>3, <2>4, <2>6 DEF Places
<1>6. \A k \in 1 .. ntokens : first <= k /\ k < upper => k \in first .. last
  BY <1>0, <1>1, <1>2
<1>7. SaysOf(text, first, upper, flags)
  BY <1>4, <1>5, <1>6 DEF SaysOf
<1> QED BY <1>7 DEF text

-----------------------------------------------------------------------------
(* Where the turn that starts at start_tok looks, in order.                *)
LEMMA TurnValues ==
  ASSUME ReadOK, in_group \in BOOLEAN, start_tok \in 1 .. ntokens
  PROVE  /\ MailboxStart \in start_tok .. ntokens + 1
         /\ Stop \in MailboxStart .. ntokens + 1
         /\ Stop <= ntokens => Tok(Stop) \in {";", ",", "<"}
         /\ IsRoute => /\ Stop <= ntokens
                       /\ Close \in Stop + 1 .. ntokens + 1
                       /\ Close <= ntokens => Tok(Close) = ">"
         /\ Resume = IF IsRoute THEN Close + 1 ELSE Stop
         /\ Resume \in start_tok .. ntokens + 2
         /\ (IF EndsGroup THEN Resume + 1 ELSE Resume) \in start_tok + 1 .. ntokens + 2
         /\ Label \in start_tok .. ntokens + 1
         /\ StartsGroup => MailboxStart >= Label
         /\ ~StartsGroup =>
              \A j \in start_tok .. MailboxStart - 1 : Tok(j) \in {",", ";"}
<1> DEFINE g == InGroup
<1>0. ntokens \in Nat /\ g \in {0, 1}
  BY ReadFacts DEF InGroup
<1> HIDE DEF g
<1>1. PICK s \in 1 .. ntokens : s = start_tok
  OBVIOUS
<1>2. /\ Label = LabelAt(s)
      /\ StartsGroup <=> StartsAt(s, g)
      /\ MailboxStart = MailboxAt(s, g)
      /\ Stop = StopAt(s, g)
      /\ IsRoute <=> RouteAt(s, g)
      /\ Close = CloseAt(s, g)
      /\ Resume = ResumeAt(s, g)
      /\ (IF EndsGroup THEN Resume + 1 ELSE Resume) = NextAt(s, g)
  BY <1>1, TurnIs DEF g
<1>3. /\ LabelAt(s) \in s .. ntokens + 1
      /\ MailboxAt(s, g) \in FirstAt(s, g) .. ntokens + 1
      /\ \A j \in FirstAt(s, g) .. MailboxAt(s, g) - 1 : Tok(j) \in {",", ";"}
  BY <1>0, MailboxFacts
<1>4. /\ MailboxAt(s, g) \in s .. ntokens + 1
      /\ StopAt(s, g) \in MailboxAt(s, g) .. ntokens + 1
      /\ StopAt(s, g) <= ntokens => Tok(StopAt(s, g)) \in {";", ",", "<"}
      /\ RouteAt(s, g) => /\ StopAt(s, g) <= ntokens
                          /\ CloseAt(s, g) \in StopAt(s, g) + 1 .. ntokens + 1
                          /\ CloseAt(s, g) <= ntokens => Tok(CloseAt(s, g)) = ">"
      /\ ResumeAt(s, g) \in s .. ntokens + 2
      /\ NextAt(s, g) \in s + 1 .. ntokens + 2
  BY <1>0, TurnFacts
<1>5. StartsGroup => MailboxStart >= Label
  <2>1. FirstAt(s, g) \in Nat /\ MailboxAt(s, g) >= FirstAt(s, g)
    <3>1. FirstAt(s, g) \in s .. ntokens /\ MailboxAt(s, g) \in FirstAt(s, g) .. ntokens + 1
      BY <1>0, MailboxFacts
    <3> QED BY <1>0, <3>1
  <2>2. StartsAt(s, g) => FirstAt(s, g) = LabelAt(s)
    BY DEF FirstAt
  <2> QED BY <1>2, <2>1, <2>2
<1>6. ~StartsGroup => \A j \in start_tok .. MailboxStart - 1 : Tok(j) \in {",", ";"}
  <2>1. ~StartsAt(s, g) => FirstAt(s, g) = s
    BY DEF FirstAt
  <2> QED BY Zenon, <1>1, <1>2, <1>3, <2>1
<1>7. Resume = IF IsRoute THEN Close + 1 ELSE Stop
  BY DEF Resume
<1>8. /\ MailboxStart \in start_tok .. ntokens + 1
      /\ Stop \in MailboxStart .. ntokens + 1
      /\ Stop <= ntokens => Tok(Stop) \in {";", ",", "<"}
      /\ IsRoute => /\ Stop <= ntokens
                    /\ Close \in Stop + 1 .. ntokens + 1
                    /\ Close <= ntokens => Tok(Close) = ">"
  BY Zenon, <1>1, <1>2, <1>4
<1>9. /\ Resume \in start_tok .. ntokens + 2
      /\ (IF EndsGroup THEN Resume + 1 ELSE Resume) \in start_tok + 1 .. ntokens + 2
      /\ Label \in start_tok .. ntokens + 1
  BY Zenon, <1>1, <1>2, <1>3, <1>4
<1> QED BY Zenon, <1>5, <1>6, <1>7, <1>8, <1>9

(* The text of no token is mistaken for a slot that has not been filled.   *)
LEMMA NullFacts == Null \notin Seq(Symbol)
<1> SUFFICES ASSUME Null \in Seq(Symbol) PROVE FALSE
  OBVIOUS
<1>1. 1 \in DOMAIN Null /\ Null[1] = "NULL"
  BY DEF Null
<1>2. Null[1] \in Symbol
  BY <1>1, LenProperties
<1> QED BY <1>1, <1>2, NullAssumption

(* The address of a turn says words of the tokens the turn passes.         *)
LEMMA AddressFacts ==
  ASSUME ReadOK, in_group \in BOOLEAN, start_tok \in 1 .. ntokens
  PROVE  /\ AddressValue \in Seq(Symbol)
         /\ WordsIn(AddressValue) \subseteq Places(MailboxStart, Resume)
         /\ \A k \in 1 .. ntokens :
              /\ tokens[k].token # "("
              /\ IF IsRoute THEN Stop < k /\ k < Close
                 ELSE MailboxStart <= k /\ k < Stop
              => \A i \in Span(tokens[k]) : header[i] \in Range(AddressValue)
<1>0. ntokens \in Nat /\ start_tok \in Nat \ {0}
  BY ReadFacts
<1>1. /\ MailboxStart \in start_tok .. ntokens + 1
      /\ Stop \in MailboxStart .. ntokens + 1
      /\ IsRoute => Close \in Stop + 1 .. ntokens + 1
      /\ Resume = IF IsRoute THEN Close + 1 ELSE Stop
  BY TurnValues
<1>2. PICK m \in Nat \ {0}, p \in Nat \ {0} : m = MailboxStart /\ p = Stop /\ m <= p
  <2>1. MailboxStart \in Nat \ {0}
    BY <1>0, <1>1
  <2> QED BY <1>0, <1>1, <2>1
<1>3. \A k \in 1 .. ntokens : tokens[k].token # "(" =>
        IsKept(tokens[k], AddressFlags) /\ ~Unwrapped(tokens[k], AddressFlags)
  BY DEF IsKept, Unwrapped, AddressFlags
<1>4. "STRTOLOWER" \notin AddressFlags
  BY DEF AddressFlags
<1>5. CASE IsRoute
  <2>1. PICK c \in Nat : c = Close /\ p < c
    BY <1>0, <1>1, <1>2, <1>5
  <2>2. p + 1 \in Nat \ {0} /\ Close - Stop - 1 = c - (p + 1)
    BY <1>2, <2>1
  <2>3. AddressValue = Recombine(header, tokens, p + 1, c - (p + 1), AddressFlags)
    BY <1>2, <1>5, <2>2 DEF AddressValue
  <2>4. /\ AddressValue \in Seq(Symbol)
        /\ WordsIn(AddressValue) \subseteq Places(p + 1, c)
        /\ \A k \in 1 .. ntokens :
             p + 1 <= k /\ k < c /\ IsKept(tokens[k], AddressFlags)
             /\ ~Unwrapped(tokens[k], AddressFlags) =>
               \A i \in Span(tokens[k]) : header[i] \in Range(AddressValue)
    <3>1. c \in Int /\ p + 1 \in Nat \ {0}
      BY <2>1, <2>2
    <3>2. SaysOf(AddressValue, p + 1, c, AddressFlags)
      BY <1>4, <2>3, <3>1, RecombinedFacts
    <3> QED BY <3>2 DEF SaysOf
  <2>5. Places(p + 1, c) \subseteq Places(m, c + 1)
    BY <1>2, <2>1, PlacesFacts
  <2>6. \A k \in 1 .. ntokens : p < k => p + 1 <= k
    BY <1>0, <1>2
  <2>7. Places(m, c + 1) = Places(MailboxStart, Resume)
    BY <1>1, <1>2, <1>5, <2>1
  <2> QED BY <1>2, <1>3, <1>5, <2>1, <2>4, <2>5, <2>6, <2>7
<1>6. CASE ~IsRoute
  <2>1. AddressValue = Recombine(header, tokens, m, p - m, AddressFlags)
    BY <1>2, <1>6 DEF AddressValue
  <2>2. /\ AddressValue \in Seq(Symbol)
        /\ WordsIn(AddressValue) \subseteq Places(m, p)
        /\ \A k \in 1 .. ntokens :
             m <= k /\ k < p /\ IsKept(tokens[k], AddressFlags)
             /\ ~Unwrapped(tokens[k], AddressFlags) =>
               \A i \in Span(tokens[k]) : header[i] \in Range(AddressValue)
    <3>1. m \in Nat \ {0} /\ p \in Int
      BY <1>2
    <3>2. SaysOf(AddressValue, m, p, AddressFlags)
      BY <1>4, <2>1, <3>1, RecombinedFacts
    <3> QED BY <3>2 DEF SaysOf
  <2>3. Places(m, p) = Places(MailboxStart, Resume)
    BY <1>1, <1>2, <1>6
  <2> QED BY <1>2, <1>3, <1>6, <2>2, <2>3
<1> QED BY <1>5, <1>6

(* So does the display name, where there is one.                           *)
LEMMA DisplayFacts ==
  ASSUME ReadOK, in_group \in BOOLEAN, start_tok \in 1 .. ntokens
  PROVE  /\ DisplayName \in Field
         /\ DisplayName # Null => WordsIn(DisplayName) \subseteq Places(MailboxStart, Stop)
         /\ IsRoute => \A k \in 1 .. ntokens : MailboxStart <= k /\ k < Stop =>
              /\ DisplayName # Null
              /\ \A i \in Span(tokens[k]) : header[i] \in Range(DisplayName)
<1>0. ntokens \in Nat /\ start_tok \in Nat \ {0}
  BY ReadFacts
<1>1. /\ MailboxStart \in start_tok .. ntokens + 1
      /\ Stop \in MailboxStart .. ntokens + 1
  BY TurnValues
<1>2. PICK m \in Nat \ {0}, p \in Nat \ {0} : m = MailboxStart /\ p = Stop /\ m <= p
  <2>1. MailboxStart \in Nat \ {0}
    BY <1>0, <1>1
  <2> QED BY <1>0, <1>1, <2>1
<1> DEFINE found == {Tok(j) : j \in MailboxStart .. Stop - 1}
           said(flags) == Recombine(header, tokens, MailboxStart, Stop - MailboxStart,
                                    {"SPACE_ATOMS"} \cup flags)
           quoted == {"COMMENTS_ONLY", "COMMENTS_TO_QUOTES"}
<1>3. DisplayName = CASE found = {}                              -> Null
       [] found # {} /\ Tok(Stop) # "end"         -> said({})
       [] Tok(Stop) = "end" /\ Dquote \in found     -> said({})
       [] Tok(Stop) = "end" /\ Dquote \notin found /\ "(" \in found -> said(quoted)
       [] OTHER                                   -> Null
  BY Zenon DEF DisplayName
<1>4. \A k \in 1 .. ntokens : IsKept(tokens[k], {"SPACE_ATOMS"} \cup {})
                              /\ ~Unwrapped(tokens[k], {"SPACE_ATOMS"} \cup {})
  BY DEF IsKept, Unwrapped
<1>5. ASSUME NEW flags \in {{}, quoted}
      PROVE  /\ said(flags) \in Seq(Symbol)
             /\ WordsIn(said(flags)) \subseteq Places(m, p)
             /\ \A k \in 1 .. ntokens :
                  m <= k /\ k < p /\ IsKept(tokens[k], {"SPACE_ATOMS"} \cup flags)
                  /\ ~Unwrapped(tokens[k], {"SPACE_ATOMS"} \cup flags) =>
                    \A i \in Span(tokens[k]) : header[i] \in Range(said(flags))
  <2> DEFINE all == {"SPACE_ATOMS"} \cup flags
             text == said(flags)
  <2>1. "STRTOLOWER" \notin all
    OBVIOUS
  <2>2. text = Recombine(header, tokens, m, p - m, all)
    BY <1>2
  <2> HIDE DEF all, text
  <2>3. /\ text \in Seq(Symbol)
        /\ WordsIn(text) \subseteq Places(m, p)
        /\ \A k \in 1 .. ntokens :
             m <= k /\ k < p /\ IsKept(tokens[k], all) /\ ~Unwrapped(tokens[k], all) =>
               \A i \in Span(tokens[k]) : header[i] \in Range(text)
    <3>1. m \in Nat \ {0} /\ p \in Int
      BY <1>2
    <3>2. SaysOf(text, m, p, all)
      BY <2>1, <2>2, <3>1, RecombinedFacts
    <3> QED BY <3>2 DEF SaysOf
  <2> QED BY <2>3 DEF all, text
<1>6. DisplayName \in {Null, said({}), said(quoted)}
  <2> HIDE DEF found, said, quoted
  <2> QED BY Zenon, <1>3
<1>7. ASSUME IsRoute, NEW k \in 1 .. ntokens, MailboxStart <= k, k < Stop
      PROVE  DisplayName = said({})
  <2>1. Tok(Stop) # "end" /\ ~(Tok(Stop) = "end")
    BY <1>7 DEF IsRoute
  <2>2. k \in MailboxStart .. Stop - 1
    BY <1>0, <1>2, <1>7
  <2>3. found # {} /\ ~(found = {})
    BY <2>2
  <2> HIDE DEF found, said, quoted
  <2> QED BY Zenon, <1>3, <2>1, <2>3
<1>8. said({}) # Null /\ said(quoted) # Null
  BY <1>5, NullFacts
<1>9. Places(m, p) = Places(MailboxStart, Stop)
  BY <1>2
<1> HIDE DEF said, quoted, found
<1>10. DisplayName \in Field
  BY <1>5, <1>6 DEF Field
<1>11. DisplayName # Null => WordsIn(DisplayName) \subseteq Places(MailboxStart, Stop)
  BY <1>5, <1>6, <1>9
<1>12. ASSUME IsRoute, NEW k \in 1 .. ntokens, MailboxStart <= k, k < Stop
       PROVE  /\ DisplayName # Null
              /\ \A i \in Span(tokens[k]) : header[i] \in Range(DisplayName)
  BY <1>2, <1>4, <1>5, <1>7, <1>8, <1>12
<1> QED BY <1>10, <1>11, <1>12

-----------------------------------------------------------------------------
(* What holds of the variables on their own: TypeOK, and that there is a   *)
(* token for every entry.                                                  *)
Typed ==
  /\ ReadOK
  /\ pass \in {"count", "fill", "done"}
  /\ start_tok \in 1 .. ntokens + 2
  /\ iaddr \in Nat /\ iaddr < start_tok /\ iaddr <= ntokens
  /\ naddrs \in 0 .. ntokens
  /\ in_group \in BOOLEAN
  /\ group_lbl \in (1 .. ntokens + 1) \X (1 .. ntokens + 1)
  /\ group_addrs \in Seq(Symbol)
  /\ addrs \in Seq(Entry)

(* The typed states are those of the type invariant, and more.             *)
LEMMA TypedIsTypeOK == Typed => TypeOK
<1> SUFFICES ASSUME Typed PROVE TypeOK
  OBVIOUS
<1>1. /\ ntokens \in Nat /\ DOMAIN tokens = 1 .. ntokens
      /\ \A k \in 1 .. ntokens : tokens[k] \in Token
  BY ReadFacts DEF Typed
<1>2. \A k \in DOMAIN addrs : addrs[k] \in Entry
  BY LenProperties DEF Typed
<1>3. iaddr \in 0 .. ntokens
  BY <1>1 DEF Typed
<1> QED BY <1>1, <1>2, <1>3 DEF Typed, TypeOK

(* A slot with a new name and address is a slot.                           *)
LEMMA EntryFacts ==
  ASSUME NEW e \in Entry, NEW name \in Field, NEW address \in Field
  PROVE  /\ [e EXCEPT !.name = name, !.address = address] \in Entry
         /\ [e EXCEPT !.name = name, !.address = address].name = name
         /\ [e EXCEPT !.name = name, !.address = address].address = address
         /\ [e EXCEPT !.name = name] \in Entry
         /\ e.name \in Field /\ e.address \in Field
BY DEF Entry

(* A store changes no slot but that of the current entry, and none at all  *)
(* while counting.                                                         *)
LEMMA StoreFacts ==
  ASSUME Typed, NEW e, HasSlot => e \in Entry, Store(e)
  PROVE  /\ addrs' \in Seq(Entry) /\ Len(addrs') = Len(addrs)
         /\ \A k \in 1 .. Len(addrs) : k # Slot => addrs'[k] = addrs[k]
         /\ HasSlot => Slot \in 1 .. Len(addrs) /\ addrs'[Slot] = e
         /\ pass # "fill" => addrs' = addrs
<1>1. addrs \in Seq(Entry) /\ Len(addrs) \in Nat /\ DOMAIN addrs = 1 .. Len(addrs)
      /\ iaddr \in Nat
  BY LenProperties DEF Typed
<1>2. CASE HasSlot
  <2>1. Slot \in 1 .. Len(addrs) /\ pass = "fill"
    BY <1>1, <1>2 DEF HasSlot, Slot
  <2>2. addrs' = [addrs EXCEPT ![Slot] = e]
    BY <1>2 DEF Store
  <2>3. e \in Entry
    BY <1>2
  <2> QED BY <1>1, <2>1, <2>2, <2>3
<1>3. CASE ~HasSlot
  BY <1>1, <1>3 DEF Store
<1> QED BY <1>2, <1>3

(* What the entries of a group are to start with, and what has been put    *)
(* together for the group that is open.                                    *)
Base == IF in_group THEN group_lbl[1] ELSE start_tok

Labelled ==
  /\ in_group => group_lbl[1] <= group_lbl[2] /\ group_lbl[2] <= start_tok
  /\ ~in_group => group_addrs = << >>
  /\ WordsIn(group_addrs) \subseteq Places(Base, start_tok)

(* The words of an open group are behind a token that is there.            *)
LEMMA BaseFacts ==
  ASSUME Typed, Labelled
  PROVE  Base \in Nat \ {0} /\ Base <= start_tok /\ start_tok \in Nat \ {0}
<1>1. /\ ntokens \in Nat /\ start_tok \in Nat \ {0}
      /\ group_lbl[1] \in Nat \ {0} /\ group_lbl[2] \in Nat
  BY ReadFacts DEF Typed
<1> QED BY <1>1 DEF Labelled, Base

(* The name of a group and the addresses in it say words from its label on.*)
LEMMA GroupFacts ==
  ASSUME Typed, Labelled, start_tok \in 1 .. ntokens, Grouped
  PROVE  /\ GroupName \in Seq(Symbol) /\ GroupAddrs \in Seq(Symbol)
         /\ GroupAddrs \o <<";">> \in Seq(Symbol)
         /\ WordsIn(GroupName) \subseteq Places(Base, MailboxStart)
         /\ WordsIn(GroupAddrs) \subseteq Places(Base, Resume)
         /\ WordsIn(GroupAddrs \o <<";">>) \subseteq Places(Base, Resume)
<1>1. /\ ntokens \in Nat /\ ReadOK /\ in_group \in BOOLEAN /\ group_addrs \in Seq(Symbol)
      /\ group_lbl[1] \in Nat \ {0} /\ group_lbl[2] \in Nat
  BY ReadFacts DEF Typed
<1>2. Base \in Nat \ {0} /\ Base <= start_tok /\ start_tok \in Nat \ {0}
  BY BaseFacts
<1>3. /\ MailboxStart \in Nat /\ MailboxStart >= start_tok
      /\ Resume \in Nat /\ Resume >= start_tok
      /\ Label \in Nat
      /\ StartsGroup => MailboxStart >= Label
  <2>1. /\ MailboxStart \in start_tok .. ntokens + 1
        /\ Resume \in start_tok .. ntokens + 2
        /\ Label \in start_tok .. ntokens + 1
        /\ StartsGroup => MailboxStart >= Label
    BY <1>1, TurnValues
  <2> QED BY <1>1, <1>2, <2>1
<1>4. AddressValue \in Seq(Symbol) /\ WordsIn(AddressValue) \subseteq Places(MailboxStart, Resume)
  BY <1>1, AddressFacts
<1>5. GroupName \in Seq(Symbol) /\ WordsIn(GroupName) \subseteq Places(Base, MailboxStart)
  <2> DEFINE first == IF StartsGroup THEN start_tok ELSE group_lbl[1]
             upper == IF StartsGroup THEN Label ELSE group_lbl[2]
             flags == {"SPACE_ATOMS"}
  <2>1. first \in Nat \ {0} /\ upper \in Nat
    BY <1>1, <1>2, <1>3
  <2>2. first = Base /\ upper <= MailboxStart
    <3>1. CASE StartsGroup
      <4>1. ~in_group
        BY <3>1 DEF StartsGroup
      <4> QED BY <1>3, <3>1, <4>1 DEF Base
    <3>2. CASE ~StartsGroup
      <4>1. in_group
        BY <3>2 DEF Grouped
      <4>2. group_lbl[2] <= start_tok
        BY <4>1 DEF Labelled
      <4>3. group_lbl[2] <= MailboxStart
        BY <1>1, <1>2, <1>3, <4>2
      <4> QED BY <3>2, <4>1, <4>3 DEF Base
    <3> QED BY <3>1, <3>2
  <2>3. GroupName = Recombine(header, tokens, first, upper - first, flags)
    BY DEF GroupName
  <2>4. "STRTOLOWER" \notin flags
    OBVIOUS
  <2> HIDE DEF first, upper, flags
  <2>5. SaysOf(GroupName, first, upper, flags)
    BY <1>1, <2>1, <2>3, <2>4, RecombinedFacts
  <2>6. Places(first, upper) \subseteq Places(Base, MailboxStart)
    BY <1>1, <1>2, <1>3, <2>1, <2>2, PlacesFacts
  <2> QED BY <2>5, <2>6 DEF SaysOf
<1>6. /\ << >> \in Seq(Symbol) /\ << "," >> \in Seq(Symbol) /\ << ";" >> \in Seq(Symbol)
      /\ WordsIn(<< >>) = {} /\ WordsIn(<< "," >>) = {} /\ WordsIn(<< ";" >>) = {}
  <2>1. "," \in Symbol /\ "," \notin Word /\ ";" \in Symbol /\ ";" \notin Word
    BY WordAssumption DEF Symbol, Atom
  <2>2. /\ Range(<< "," >>) = {","} /\ Range(<< ";" >>) = {";"} /\ Range(<< >>) = {}
        /\ << >> \in Seq(Symbol) /\ << "," >> \in Seq(Symbol) /\ << ";" >> \in Seq(Symbol)
    BY <2>1, RangeOfOne
  <2> QED BY <2>1, <2>2 DEF WordsIn
<1>7. Places(Base, start_tok) \subseteq Places(Base, Resume)
      /\ Places(MailboxStart, Resume) \subseteq Places(Base, Resume)
  <2>1. Base \in Int /\ start_tok \in Int /\ Resume \in Int /\ MailboxStart \in Int
        /\ Base <= Base /\ start_tok <= Resume /\ Base <= MailboxStart /\ Resume <= Resume
    BY <1>2, <1>3
  <2> QED BY <1>1, <2>1, PlacesFacts
<1> DEFINE comma == IF group_addrs = << >> THEN << >> ELSE << "," >>
           front == group_addrs \o comma
<1>8. comma \in Seq(Symbol) /\ WordsIn(comma) = {}
  BY <1>6
<1>9. GroupAddrs = front \o AddressValue
  BY DEF GroupAddrs
<1> HIDE DEF comma
<1>10. front \in Seq(Symbol) /\ WordsIn(front) = WordsIn(group_addrs) \cup WordsIn(comma)
  BY <1>1, <1>8, WordsConcat
<1> HIDE DEF front
<1>11. /\ GroupAddrs \in Seq(Symbol)
       /\ WordsIn(GroupAddrs) = WordsIn(front) \cup WordsIn(AddressValue)
  BY <1>4, <1>9, <1>10, WordsConcat
<1>12. WordsIn(GroupAddrs) \subseteq Places(Base, Resume)
  BY <1>4, <1>7, <1>8, <1>10, <1>11 DEF Labelled
<1>13. /\ GroupAddrs \o << ";" >> \in Seq(Symbol)
       /\ WordsIn(GroupAddrs \o << ";" >>) = WordsIn(GroupAddrs) \cup WordsIn(<< ";" >>)
  BY <1>6, <1>11, WordsConcat
<1> QED BY <1>5, <1>6, <1>11, <1>12, <1>13

-----------------------------------------------------------------------------
(* The name and the address that a turn without a group stores.            *)
MailboxEntry ==
  [addrs[Slot] EXCEPT !.name = Name(DisplayName), !.address = AddressValue]
GroupEntry ==
  [name |-> GroupName, address |-> GroupAddrs \o <<";">>, is_group |-> TRUE]

Filled(e) == e.name \in Seq(Symbol) /\ e.address \in Seq(Symbol)
Says(e)   == WordsIn(e.name \o e.address)

(* A stored mailbox is filled, with the words of its own turn.             *)
LEMMA MailboxEntryFacts ==
  ASSUME Typed, start_tok \in 1 .. ntokens, HasSlot
  PROVE  /\ MailboxEntry \in Entry /\ Filled(MailboxEntry)
         /\ Says(MailboxEntry) \subseteq Places(MailboxStart, Resume)
         /\ Says(MailboxEntry) = WordsIn(Name(DisplayName)) \cup WordsIn(AddressValue)
<1>0. /\ ReadOK /\ in_group \in BOOLEAN /\ ntokens \in Nat /\ start_tok \in Nat
      /\ addrs[Slot] \in Entry
  <2>1. addrs \in Seq(Entry) /\ iaddr \in Nat /\ iaddr < Len(addrs)
    BY DEF Typed, HasSlot
  <2>2. Slot \in 1 .. Len(addrs) /\ DOMAIN addrs = 1 .. Len(addrs)
    BY <2>1, LenProperties DEF Slot
  <2> QED BY <2>1, <2>2, ReadFacts DEF Typed
<1>1. AddressValue \in Seq(Symbol) /\ WordsIn(AddressValue) \subseteq Places(MailboxStart, Resume)
  BY <1>0, AddressFacts
<1>2. /\ DisplayName \in Field
      /\ DisplayName # Null => WordsIn(DisplayName) \subseteq Places(MailboxStart, Stop)
  BY <1>0, DisplayFacts
<1>3. Places(MailboxStart, Stop) \subseteq Places(MailboxStart, Resume)
  <2>1. /\ MailboxStart \in start_tok .. ntokens + 1
        /\ Stop \in MailboxStart .. ntokens + 1
        /\ IsRoute => Close \in Stop + 1 .. ntokens + 1
        /\ Resume = IF IsRoute THEN Close + 1 ELSE Stop
    BY <1>0, TurnValues
  <2>2. MailboxStart \in Nat
    BY <1>0, <2>1
  <2>3. Stop \in Nat
    BY <1>0, <2>1, <2>2
  <2>4. Resume \in Nat /\ Stop <= Resume
    BY <1>0, <2>1, <2>3
  <2> QED BY <1>0, <2>2, <2>3, <2>4, PlacesFacts
<1> DEFINE name == Name(DisplayName)
<1>4. name \in Seq(Symbol) /\ name \in Field /\ AddressValue \in Field
      /\ WordsIn(name) \subseteq Places(MailboxStart, Resume)
  <2>1. CASE DisplayName = Null
    BY <1>1, <2>1 DEF Name, Field
  <2>2. CASE DisplayName # Null
    BY <1>1, <1>2, <1>3, <2>2 DEF Name, Field
  <2> QED BY <2>1, <2>2
<1> HIDE DEF name
<1>5. MailboxEntry \in Entry /\ MailboxEntry.name = name /\ MailboxEntry.address = AddressValue
  <2>1. PICK e \in Entry : e = addrs[Slot]
    BY <1>0
  <2>2. MailboxEntry = [e EXCEPT !.name = name, !.address = AddressValue]
    BY <2>1 DEF MailboxEntry, name
  <2>3. name \in Field /\ AddressValue \in Field
    BY <1>4
  <2> HIDE DEF MailboxEntry
  <2> QED BY <2>2, <2>3 DEF Entry
<1>6. WordsIn(name \o AddressValue) = WordsIn(name) \cup WordsIn(AddressValue)
  BY <1>1, <1>4, WordsConcat
<1> QED BY <1>1, <1>4, <1>5, <1>6 DEF Filled, Says, name

(* A stored group is filled, with words from its label on.                 *)
LEMMA GroupEntryFacts ==
  ASSUME Typed, Labelled, start_tok \in 1 .. ntokens, Grouped
  PROVE  /\ GroupEntry \in Entry /\ Filled(GroupEntry)
         /\ Says(GroupEntry) \subseteq Places(Base, Resume)
<1>1. /\ GroupName \in Seq(Symbol) /\ GroupAddrs \o <<";">> \in Seq(Symbol)
      /\ WordsIn(GroupName) \subseteq Places(Base, MailboxStart)
      /\ WordsIn(GroupAddrs \o <<";">>) \subseteq Places(Base, Resume)
  BY GroupFacts
<1> DEFINE all == GroupAddrs \o <<";">>
<1> HIDE DEF all
<1>2. GroupEntry = [name |-> GroupName, address |-> all, is_group |-> TRUE]
  BY DEF GroupEntry, all
<1>3. GroupName \in Field /\ all \in Field /\ all \in Seq(Symbol)
  BY <1>1 DEF Field, all
<1>4. GroupEntry \in Entry /\ GroupEntry.name = GroupName /\ GroupEntry.address = all
  BY <1>2, <1>3 DEF Entry
<1>5. WordsIn(GroupName \o all) = WordsIn(GroupName) \cup WordsIn(all)
  BY <1>1, <1>3, WordsConcat
<1>6. Places(Base, MailboxStart) \subseteq Places(Base, Resume)
  <2>0. ReadOK /\ in_group \in BOOLEAN /\ ntokens \in Nat
    BY ReadFacts DEF Typed
  <2>1. /\ MailboxStart \in start_tok .. ntokens + 1
        /\ Stop \in MailboxStart .. ntokens + 1
        /\ IsRoute => Close \in Stop + 1 .. ntokens + 1
        /\ Resume = IF IsRoute THEN Close + 1 ELSE Stop
    BY <2>0, TurnValues
  <2>2. Base \in Int /\ start_tok \in Nat
    BY <2>0, BaseFacts
  <2>3. MailboxStart \in Nat
    BY <2>0, <2>1, <2>2
  <2>4. Stop \in Nat /\ MailboxStart <= Stop
    BY <2>0, <2>1, <2>3
  <2>5. Resume \in Nat /\ MailboxStart <= Resume
    BY <2>0, <2>1, <2>3, <2>4
  <2> QED BY <2>0, <2>2, <2>3, <2>5, PlacesFacts
<1>7. WordsIn(all) \subseteq Places(Base, Resume)
  BY <1>1 DEF all
<1>8. Says(GroupEntry) = WordsIn(GroupName) \cup WordsIn(all)
  BY <1>4, <1>5 DEF Says
<1>9. Filled(GroupEntry)
  BY <1>1, <1>3, <1>4 DEF Filled
<1> QED BY <1>1, <1>4, <1>6, <1>7, <1>8, <1>9

-----------------------------------------------------------------------------
(* The first states, and the states each action leads to.                  *)
LEMMA InitTyped == Init => Typed /\ Labelled
<1> SUFFICES ASSUME Init PROVE Typed /\ Labelled
  OBVIOUS
<1>1. ReadOK /\ pass = "count" /\ start_tok = 1 /\ iaddr = 0 /\ in_group = FALSE
      /\ group_lbl = << 1, 1 >> /\ group_addrs = << >> /\ addrs = << >> /\ naddrs = 0
  BY DEF Init, ReadOK
<1>2. ntokens \in Nat
  BY <1>1, ReadFacts
<1>3. /\ start_tok \in 1 .. ntokens + 2 /\ naddrs \in 0 .. ntokens
      /\ group_lbl \in (1 .. ntokens + 1) \X (1 .. ntokens + 1)
      /\ iaddr <= ntokens /\ iaddr \in Nat /\ iaddr < start_tok
  BY <1>1, <1>2
<1>4. group_addrs \in Seq(Symbol) /\ addrs \in Seq(Entry) /\ WordsIn(group_addrs) = {}
  <2>1. /\ << >> \in Seq(Symbol) /\ << >> \in Seq(Entry) /\ Range(<< >>) = {}
    <3>1. " " \in Symbol
      BY DEF Symbol
    <3>2. Range(<< >>) = {}
      BY <3>1, RangeOfOne
    <3> QED BY <3>2
  <2> QED BY <1>1, <2>1 DEF WordsIn
<1> QED BY <1>1, <1>3, <1>4 DEF Typed, Labelled

(* What no action changes.                                                 *)
LEMMA Unmoved ==
  ASSUME UNCHANGED headerVars
  PROVE  /\ ReadOK => ReadOK'
         /\ ntokens' = ntokens
         /\ \A lo, hi : Places(lo, hi)' = Places(lo, hi)
         /\ \A text : WordsIn(text)' = WordsIn(text)
<1>1. header' = header /\ tokens' = tokens
  BY DEF headerVars
<1>2. ntokens' = ntokens
  BY <1>1 DEF ntokens
<1>3. \A lo, hi : Places(lo, hi)' = Places(lo, hi)
  BY <1>1, <1>2 DEF Places
<1>4. \A text : WordsIn(text)' = WordsIn(text)
  BY <1>1 DEF WordsIn
<1> QED BY <1>1, <1>2, <1>3, <1>4 DEF ReadOK

(* A turn without a group stores one entry and goes on.                    *)
LEMMA MailboxTyped ==
  ASSUME Typed, Labelled, Mailbox
  PROVE  /\ Typed' /\ Labelled' /\ ~in_group /\ in_group' = FALSE
         /\ start_tok \in 1 .. ntokens /\ iaddr' = iaddr + 1 /\ start_tok' = Resume
         /\ Store(MailboxEntry)
<1>0. /\ ReadOK /\ ReadOK' /\ ntokens \in Nat /\ ntokens' = ntokens
      /\ start_tok \in 1 .. ntokens /\ in_group \in BOOLEAN
      /\ iaddr \in Nat /\ iaddr < start_tok
      /\ pass \in {"count", "fill", "done"} /\ naddrs \in 0 .. ntokens
      /\ group_lbl \in (1 .. ntokens + 1) \X (1 .. ntokens + 1)
      /\ group_addrs \in Seq(Symbol)
  <2>1. ReadOK /\ ntokens \in Nat
    BY ReadFacts DEF Typed
  <2> QED BY <2>1, Unmoved DEF Typed, Mailbox
<1>1. /\ start_tok' = Resume /\ iaddr' = iaddr + 1
      /\ pass' = pass /\ naddrs' = naddrs /\ in_group' = in_group
      /\ group_lbl' = group_lbl /\ group_addrs' = group_addrs
      /\ ~Grouped /\ Store(MailboxEntry)
  BY DEF Mailbox, MailboxEntry
<1>2. ~in_group /\ in_group' = FALSE /\ ~EndsGroup
  BY <1>0, <1>1 DEF Grouped, EndsGroup
<1>3. Resume \in start_tok + 1 .. ntokens + 2
  <2>1. (IF EndsGroup THEN Resume + 1 ELSE Resume) \in start_tok + 1 .. ntokens + 2
    BY <1>0, TurnValues
  <2> QED BY <1>2, <2>1
<1>4. addrs' \in Seq(Entry)
  <2>1. HasSlot => MailboxEntry \in Entry
    BY <1>0, MailboxEntryFacts
  <2> QED BY <1>1, <2>1, StoreFacts
<1>5. /\ start_tok' \in 1 .. ntokens + 2
      /\ iaddr' \in Nat /\ iaddr' < start_tok' /\ iaddr' <= ntokens
  BY <1>0, <1>1, <1>3
<1>6. Typed'
  BY <1>0, <1>1, <1>2, <1>4, <1>5 DEF Typed
<1>7. group_addrs = << >> /\ WordsIn(group_addrs) = {}
  <2>1. group_addrs = << >>
    BY <1>2 DEF Labelled
  <2>2. " " \in Symbol
    BY DEF Symbol
  <2> QED BY <2>1, <2>2, RangeOfOne DEF WordsIn
<1>8. WordsIn(group_addrs)' = {}
  <2>1. WordsIn(group_addrs)' = {i \in DOMAIN header' : header'[i] \in Word /\ header'[i] \in Range(group_addrs')}
    BY DEF WordsIn
  <2>2. header' = header
    BY DEF Mailbox, headerVars
  <2> QED BY <1>1, <1>7, <2>1, <2>2 DEF WordsIn
<1>9. Labelled'
  BY <1>1, <1>2, <1>7, <1>8 DEF Labelled
<1> QED BY <1>0, <1>1, <1>2, <1>6, <1>9

(* The next invariant on the open group, from what the step makes of it.   *)
LEMMA LabelledNext ==
  ASSUME UNCHANGED headerVars,
         NEW base, base = Base', NEW start, start = start_tok',
         NEW all, all = group_addrs',
         in_group' => group_lbl'[1] <= group_lbl'[2] /\ group_lbl'[2] <= start_tok',
         ~in_group' => group_addrs' = << >>,
         WordsIn(all) \subseteq Places(base, start)
  PROVE  Labelled'
<1>1. WordsIn(group_addrs)' = WordsIn(all)
  BY DEF WordsIn, headerVars
<1>2. Places(Base, start_tok)' = Places(base, start)
  BY DEF Places, headerVars, ntokens
<1> QED BY <1>1, <1>2 DEF Labelled

(* A turn inside a group stores nothing, and keeps where the group began.  *)
LEMMA GroupMailboxTyped ==
  ASSUME Typed, Labelled, GroupMailbox
  PROVE  /\ Typed' /\ Labelled' /\ Base' = Base
         /\ start_tok \in 1 .. ntokens /\ Grouped /\ ~EndsGroup
         /\ iaddr' = iaddr /\ start_tok' = Resume /\ in_group' = TRUE
         /\ Len(addrs') = Len(addrs)
         /\ \A k \in 1 .. iaddr : k <= Len(addrs) => addrs'[k] = addrs[k]
<1>0. /\ ReadOK /\ ReadOK' /\ ntokens \in Nat /\ ntokens' = ntokens
      /\ start_tok \in 1 .. ntokens /\ start_tok \in Nat \ {0} /\ in_group \in BOOLEAN
      /\ iaddr \in Nat /\ iaddr < start_tok /\ iaddr <= ntokens
      /\ pass \in {"count", "fill", "done"} /\ naddrs \in 0 .. ntokens
      /\ group_lbl \in (1 .. ntokens + 1) \X (1 .. ntokens + 1)
      /\ group_addrs \in Seq(Symbol)
  <2>1. ReadOK /\ ntokens \in Nat
    BY ReadFacts DEF Typed
  <2> QED BY <2>1, Unmoved DEF Typed, GroupMailbox
<1> DEFINE entry == [addrs[Slot] EXCEPT !.name = Name(@)]
<1>1. /\ start_tok' = Resume /\ iaddr' = iaddr
      /\ pass' = pass /\ naddrs' = naddrs /\ in_group' = TRUE
      /\ group_lbl' = IF StartsGroup THEN <<start_tok, Label>> ELSE group_lbl
      /\ group_addrs' = IF pass = "fill" THEN GroupAddrs ELSE group_addrs
      /\ Grouped /\ ~EndsGroup /\ Store(entry) /\ UNCHANGED headerVars
  BY DEF GroupMailbox
<1>2. Resume \in start_tok + 1 .. ntokens + 2
  <2>1. (IF EndsGroup THEN Resume + 1 ELSE Resume) \in start_tok + 1 .. ntokens + 2
    BY <1>0, TurnValues
  <2> QED BY <1>1, <2>1
<1>3. HasSlot => entry \in Entry
  <2>1. SUFFICES ASSUME HasSlot PROVE entry \in Entry
    OBVIOUS
  <2>2. addrs \in Seq(Entry) /\ Slot \in 1 .. Len(addrs) /\ DOMAIN addrs = 1 .. Len(addrs)
    BY <1>0, <2>1, LenProperties DEF Typed, HasSlot, Slot
  <2>3. PICK e \in Entry : e = addrs[Slot]
    BY <2>2
  <2>4. AddressValue \in Seq(Symbol) /\ e.name \in Field
    BY <1>0, AddressFacts DEF Entry
  <2>5. PICK nm \in Field : nm = Name(e.name)
    BY <2>4 DEF Name, Field
  <2>6. entry = [e EXCEPT !.name = nm]
    BY <2>3, <2>5
  <2> HIDE DEF entry
  <2> QED BY <2>6 DEF Entry
<1> HIDE DEF entry
<1>4. /\ addrs' \in Seq(Entry) /\ Len(addrs') = Len(addrs)
      /\ \A k \in 1 .. Len(addrs) : k # Slot => addrs'[k] = addrs[k]
  BY <1>1, <1>3, StoreFacts
<1>5. \A k \in 1 .. iaddr : k <= Len(addrs) => addrs'[k] = addrs[k]
  <2>1. Len(addrs) \in Nat
    BY LenProperties DEF Typed
  <2>2. \A k \in 1 .. iaddr : k <= Len(addrs) => k \in 1 .. Len(addrs) /\ k # Slot
    BY <1>0, <2>1 DEF Slot
  <2> QED BY <1>4, <2>2
<1>6. /\ Label \in Nat /\ start_tok <= Label /\ Label <= ntokens + 1
      /\ StartsGroup => Label <= Resume
  <2>1. /\ MailboxStart \in start_tok .. ntokens + 1
        /\ Stop \in MailboxStart .. ntokens + 1
        /\ IsRoute => Close \in Stop + 1 .. ntokens + 1
        /\ Resume = IF IsRoute THEN Close + 1 ELSE Stop
        /\ Label \in start_tok .. ntokens + 1
        /\ StartsGroup => MailboxStart >= Label
    BY <1>0, TurnValues
  <2>2. Label \in Nat /\ start_tok <= Label /\ Label <= ntokens + 1 /\ MailboxStart \in Nat
    BY <1>0, <2>1
  <2>3. Stop \in Nat /\ MailboxStart <= Stop
    BY <1>0, <2>1, <2>2
  <2>4. Resume \in Nat /\ MailboxStart <= Resume
    BY <1>0, <2>1, <2>2, <2>3
  <2> QED BY <2>1, <2>2, <2>4
<1>7. /\ group_lbl' \in (1 .. ntokens + 1) \X (1 .. ntokens + 1)
      /\ group_lbl'[1] <= group_lbl'[2] /\ group_lbl'[2] <= start_tok'
      /\ Base' = Base
  <2>1. CASE StartsGroup
    <3>1. group_lbl' = <<start_tok, Label>> /\ ~in_group
      BY <1>1, <2>1 DEF StartsGroup
    <3>2. group_lbl'[1] = start_tok /\ group_lbl'[2] = Label
      BY <3>1
    <3>3. start_tok \in 1 .. ntokens + 1 /\ Label \in 1 .. ntokens + 1
      BY <1>0, <1>6
    <3>4. Base' = group_lbl'[1]
      BY <1>1 DEF Base
    <3> QED BY <1>1, <1>6, <2>1, <3>1, <3>2, <3>3, <3>4 DEF Base
  <2>2. CASE ~StartsGroup
    <3>1. group_lbl' = group_lbl /\ in_group
      BY <1>1, <2>2 DEF Grouped
    <3>2. group_lbl[1] <= group_lbl[2] /\ group_lbl[2] <= start_tok
      BY <3>1 DEF Labelled
    <3>3. group_lbl[2] \in Nat /\ start_tok <= Resume /\ Resume \in Nat
      BY <1>0, <1>2
    <3>4. group_lbl[2] <= Resume
      BY <1>0, <3>2, <3>3
    <3>5. Base' = group_lbl'[1]
      BY <1>1 DEF Base
    <3> QED BY <1>0, <1>1, <3>1, <3>2, <3>4, <3>5 DEF Base
  <2> QED BY <2>1, <2>2
<1>8. GroupAddrs \in Seq(Symbol) /\ WordsIn(GroupAddrs) \subseteq Places(Base, Resume)
  BY <1>0, <1>1, GroupFacts
<1>9. WordsIn(group_addrs) \subseteq Places(Base, Resume)
  <2>1. Base \in Int /\ start_tok \in Int /\ Resume \in Int /\ start_tok <= Resume
    BY <1>0, <1>2, BaseFacts
  <2>2. Places(Base, start_tok) \subseteq Places(Base, Resume)
    BY <1>0, <2>1, PlacesFacts
  <2> QED BY <2>2 DEF Labelled
<1>10. PICK all : all = group_addrs'
  OBVIOUS
<1>11. all \in Seq(Symbol) /\ WordsIn(all) \subseteq Places(Base, Resume)
  <2>1. all = GroupAddrs \/ all = group_addrs
    BY <1>1, <1>10
  <2> QED BY <1>0, <1>8, <1>9, <2>1
<1>12. Labelled'
  <2>1. PICK base : base = Base
    OBVIOUS
  <2>2. PICK start : start = Resume
    OBVIOUS
  <2>3. base = Base' /\ start = start_tok'
    BY <1>1, <1>7, <2>1, <2>2
  <2>4. WordsIn(all) \subseteq Places(base, start)
    BY <1>11, <2>1, <2>2
  <2>5. in_group' /\ group_lbl'[1] <= group_lbl'[2] /\ group_lbl'[2] <= start_tok'
    BY <1>1, <1>7
  <2> QED BY <1>1, <1>10, <2>3, <2>4, <2>5, LabelledNext
<1>13. Typed'
  <2>1. start_tok' \in 1 .. ntokens + 2 /\ iaddr' < start_tok'
    BY <1>0, <1>1, <1>2
  <2>2. group_addrs' \in Seq(Symbol)
    BY <1>10, <1>11
  <2> QED BY <1>0, <1>1, <1>4, <1>7, <2>1, <2>2 DEF Typed
<1> QED BY <1>0, <1>1, <1>4, <1>5, <1>7, <1>12, <1>13

(* The empty text has no words.                                            *)
LEMMA NoWords == WordsIn(<< >>) = {} /\ << >> \in Seq(Symbol)
<1>1. " " \in Symbol
  BY DEF Symbol
<1>2. Range(<< >>) = {}
  BY <1>1, RangeOfOne
<1> QED BY <1>2 DEF WordsIn

(* The turn that ends a group stores it.                                   *)
LEMMA GroupEndTyped ==
  ASSUME Typed, Labelled, GroupEnd
  PROVE  /\ Typed' /\ Labelled' /\ in_group' = FALSE
         /\ start_tok \in 1 .. ntokens /\ Grouped /\ EndsGroup
         /\ iaddr' = iaddr + 1 /\ start_tok' = Resume + 1
         /\ Store(GroupEntry)
<1>0. /\ ReadOK /\ ReadOK' /\ ntokens \in Nat /\ ntokens' = ntokens
      /\ start_tok \in 1 .. ntokens /\ start_tok \in Nat \ {0} /\ in_group \in BOOLEAN
      /\ iaddr \in Nat /\ iaddr < start_tok /\ iaddr <= ntokens
      /\ pass \in {"count", "fill", "done"} /\ naddrs \in 0 .. ntokens
      /\ group_lbl \in (1 .. ntokens + 1) \X (1 .. ntokens + 1)
  <2>1. ReadOK /\ ntokens \in Nat
    BY ReadFacts DEF Typed
  <2>2. UNCHANGED headerVars /\ start_tok <= ntokens
    BY DEF GroupEnd
  <2>3. ReadOK' /\ ntokens' = ntokens
    BY <2>1, <2>2, Unmoved
  <2>4. start_tok \in 1 .. ntokens + 2
    BY DEF Typed
  <2>5. start_tok \in 1 .. ntokens /\ start_tok \in Nat \ {0}
    BY <2>1, <2>2, <2>4
  <2> QED BY <2>1, <2>3, <2>5 DEF Typed
<1>1. /\ start_tok' = Resume + 1 /\ iaddr' = iaddr + 1
      /\ pass' = pass /\ naddrs' = naddrs /\ in_group' = FALSE
      /\ group_lbl' = IF StartsGroup THEN <<start_tok, Label>> ELSE group_lbl
      /\ group_addrs' = << >>
      /\ EndsGroup /\ Store(GroupEntry) /\ UNCHANGED headerVars
  BY DEF GroupEnd, GroupEntry
<1>2. Grouped
  BY <1>1 DEF EndsGroup
<1>3. Resume + 1 \in start_tok + 1 .. ntokens + 2
  <2>1. (IF EndsGroup THEN Resume + 1 ELSE Resume) \in start_tok + 1 .. ntokens + 2
    BY <1>0, TurnValues
  <2> QED BY <1>1, <2>1
<1>4. addrs' \in Seq(Entry)
  <2>1. HasSlot => GroupEntry \in Entry
    BY <1>0, <1>2, GroupEntryFacts
  <2> QED BY <1>1, <2>1, StoreFacts
<1>5. group_lbl' \in (1 .. ntokens + 1) \X (1 .. ntokens + 1)
  <2>1. start_tok \in 1 .. ntokens + 1 /\ Label \in 1 .. ntokens + 1
    <3>1. Label \in start_tok .. ntokens + 1
      BY <1>0, TurnValues
    <3> QED BY <1>0, <3>1
  <2> QED BY <1>0, <1>1, <2>1
<1>6. Labelled'
  <2>1. PICK base : base = Base'
    OBVIOUS
  <2>2. PICK start : start = start_tok'
    OBVIOUS
  <2>3. PICK all : all = group_addrs'
    OBVIOUS
  <2>4. WordsIn(all) \subseteq Places(base, start)
    BY <1>1, <2>3, NoWords
  <2> QED BY <1>1, <2>1, <2>2, <2>3, <2>4, LabelledNext
<1>7. Typed'
  <2>1. start_tok' \in 1 .. ntokens + 2 /\ iaddr' < start_tok' /\ iaddr' \in Nat /\ iaddr' <= ntokens
    BY <1>0, <1>1, <1>3
  <2>2. group_addrs' \in Seq(Symbol)
    BY <1>1, NoWords
  <2> QED BY <1>0, <1>1, <1>4, <1>5, <2>1, <2>2 DEF Typed
<1> QED BY <1>0, <1>1, <1>2, <1>6, <1>7

(* The first pass makes as many slots as it counted, the second ends.      *)
LEMMA EndPassTyped ==
  ASSUME Typed, Labelled, EndPass
  PROVE  /\ Typed' /\ Labelled'
         /\ pass \in {"count", "fill"} /\ start_tok > ntokens /\ naddrs' = iaddr
         /\ pass = "count" => Len(addrs') = iaddr
         /\ pass = "fill" => pass' = "done" /\ addrs' = addrs
         /\ pass = "count" /\ iaddr > 0 =>
              pass' = "fill" /\ start_tok' = 1 /\ iaddr' = 0 /\ in_group' = FALSE
         /\ pass = "count" /\ ~(iaddr > 0) => pass' = "done"
         /\ pass' = "done" => UNCHANGED <<start_tok, iaddr, in_group>> /\ Base' = Base
<1>0. /\ ReadOK /\ ReadOK' /\ ntokens \in Nat /\ ntokens' = ntokens
      /\ start_tok \in 1 .. ntokens + 2 /\ in_group \in BOOLEAN
      /\ iaddr \in Nat /\ iaddr < start_tok /\ iaddr <= ntokens
      /\ naddrs \in 0 .. ntokens
      /\ group_lbl \in (1 .. ntokens + 1) \X (1 .. ntokens + 1)
      /\ group_addrs \in Seq(Symbol) /\ addrs \in Seq(Entry)
  <2>1. ReadOK /\ ntokens \in Nat
    BY ReadFacts DEF Typed
  <2> QED BY <2>1, Unmoved DEF Typed, EndPass
<1>1. /\ start_tok > ntokens /\ naddrs' = iaddr /\ UNCHANGED headerVars
      /\ pass' = IF pass = "count" /\ iaddr > 0 THEN "fill" ELSE "done"
      /\ addrs' = IF pass = "count" THEN [k \in 1 .. iaddr |-> NoEntry] ELSE addrs
      /\ pass' = "fill" => start_tok' = 1 /\ iaddr' = 0 /\ in_group' = FALSE
                           /\ group_lbl' = << 1, 1 >> /\ group_addrs' = << >>
      /\ pass' # "fill" =>
           UNCHANGED <<start_tok, iaddr, in_group, group_lbl, group_addrs>>
  BY DEF EndPass
<1>2. pass \in {"count", "fill"}
  BY DEF EndPass, Typed
<1>3. addrs' \in Seq(Entry) /\ (pass = "count" => Len(addrs') = iaddr)
  <2>1. NoEntry \in Entry
    BY DEF NoEntry, Entry, Field
  <2>2. CASE pass = "count"
    <3>1. addrs' = [k \in 1 .. iaddr |-> NoEntry]
      BY <1>1, <2>2
    <3>2. \A k \in 1 .. iaddr : NoEntry \in Entry
      BY <2>1
    <3> HIDE DEF NoEntry
    <3>3. [k \in 1 .. iaddr |-> NoEntry] \in Seq(Entry)
          /\ Len([k \in 1 .. iaddr |-> NoEntry]) = iaddr
      BY <1>0, <2>1
    <3> QED BY <3>1, <3>3
  <2>3. CASE pass # "count"
    BY <1>0, <1>1, <2>3
  <2> QED BY <2>2, <2>3
<1>4. CASE pass' = "fill"
  <2>1. /\ start_tok' = 1 /\ iaddr' = 0 /\ in_group' = FALSE
        /\ group_lbl' = << 1, 1 >> /\ group_addrs' = << >>
    BY <1>1, <1>4
  <2>2. Labelled'
    <3>1. PICK base : base = Base'
      OBVIOUS
    <3>2. PICK start : start = start_tok'
      OBVIOUS
    <3>3. PICK all : all = group_addrs'
      OBVIOUS
    <3>4. WordsIn(all) \subseteq Places(base, start)
      BY <2>1, <3>3, NoWords
    <3> QED BY <1>1, <2>1, <3>1, <3>2, <3>3, <3>4, LabelledNext
  <2>3. Typed'
    <3>1. /\ start_tok' \in 1 .. ntokens + 2 /\ iaddr' \in Nat /\ iaddr' < start_tok'
          /\ iaddr' <= ntokens /\ naddrs' \in 0 .. ntokens
          /\ group_lbl' \in (1 .. ntokens + 1) \X (1 .. ntokens + 1)
          /\ group_addrs' \in Seq(Symbol)
      BY <1>0, <1>1, <2>1, NoWords
    <3> QED BY <1>0, <1>3, <1>4, <2>1, <3>1 DEF Typed
  <2> QED BY <1>0, <1>1, <1>2, <1>3, <1>4, <2>1, <2>2, <2>3
<1>5. CASE pass' # "fill"
  <2>1. pass' = "done" /\ UNCHANGED <<start_tok, iaddr, in_group, group_lbl, group_addrs>>
    BY <1>1, <1>5
  <2>2. Base' = Base
    BY <2>1 DEF Base
  <2>3. Labelled'
    <3>1. PICK base : base = Base
      OBVIOUS
    <3>2. PICK start : start = start_tok
      OBVIOUS
    <3>3. PICK all : all = group_addrs
      OBVIOUS
    <3>4. WordsIn(all) \subseteq Places(base, start)
      BY <3>1, <3>2, <3>3 DEF Labelled
    <3>5. base = Base' /\ start = start_tok' /\ all = group_addrs'
      BY <2>1, <2>2, <3>1, <3>2, <3>3
    <3>6. /\ in_group' => group_lbl'[1] <= group_lbl'[2] /\ group_lbl'[2] <= start_tok'
          /\ ~in_group' => group_addrs' = << >>
      BY <2>1 DEF Labelled
    <3> QED BY <1>1, <3>4, <3>5, <3>6, LabelledNext
  <2>4. Typed'
    <3>1. naddrs' \in 0 .. ntokens
      BY <1>0, <1>1
    <3> QED BY <1>0, <1>3, <2>1, <3>1 DEF Typed
  <2> QED BY <1>0, <1>1, <1>2, <1>3, <2>1, <2>2, <2>3, <2>4
<1> QED BY <1>4, <1>5

-----------------------------------------------------------------------------
(* Both passes make the same turns: W[<<s, g>>] entries come from a turn   *)
(* that starts at token s, in a group (g = 1) or outside, and from those   *)
(* that follow.                                                            *)
StaysAt(s, g) == IF GroupedAt(s, g) /\ ~EndsAt(s, g) THEN 1 ELSE 0
AddsAt(s, g)  == IF GroupedAt(s, g) /\ ~EndsAt(s, g) THEN 0 ELSE 1
TurnsFrom     == (1 .. ntokens + 2) \X {0, 1}
IsWalk(W) ==
  /\ W \in [TurnsFrom -> Nat]
  /\ \A s \in 1 .. ntokens + 2, g \in {0, 1} :
       W[<<s, g>>] = IF s > ntokens THEN 0
                     ELSE AddsAt(s, g) + W[<<NextAt(s, g), StaysAt(s, g)>>]

(* There is such a walk, since every turn goes forward.                    *)
LEMMA WalkExists == ReadOK => \E W : IsWalk(W)
<1> SUFFICES ASSUME ReadOK PROVE \E W : IsWalk(W)
  OBVIOUS
<1>0. PICK n \in Nat : n = ntokens
  BY ReadFacts
<1> DEFINE D == (1 .. n + 2) \X {0, 1}
           to(d) == <<NextAt(d[1], d[2]), StaysAt(d[1], d[2])>>
           F == [d \in D |-> [W \in [D -> Nat] |->
                  IF d[1] > n THEN 0 ELSE AddsAt(d[1], d[2]) + W[to(d)]]]
           r == [d \in D |-> n + 2 - d[1]]
<1>1. \A d \in D : d[1] \in 1 .. n + 2 /\ d[2] \in {0, 1} /\ d = <<d[1], d[2]>>
  OBVIOUS
<1>2. ASSUME NEW d \in D, ~(d[1] > n) PROVE to(d) \in D /\ r[to(d)] < r[d]
  <2>1. PICK s \in 1 .. n, g \in {0, 1} : s = d[1] /\ g = d[2]
    BY <1>0, <1>1, <1>2
  <2>2. NextAt(s, g) \in s + 1 .. n + 2
    BY <1>0, TurnFacts
  <2>3. StaysAt(s, g) \in {0, 1}
    BY DEF StaysAt
  <2>4. PICK x \in s + 1 .. n + 2, y \in {0, 1} : x = NextAt(s, g) /\ y = StaysAt(s, g)
    BY <2>2, <2>3
  <2>5. to(d) = << x, y >>
    BY <2>1, <2>4
  <2>6. << x, y >> \in D /\ r[<< x, y >>] = n + 2 - x /\ r[d] = n + 2 - s
    BY <1>0, <2>1
  <2>7. n + 2 - x < n + 2 - s
    BY <1>0
  <2> QED BY <2>5, <2>6, <2>7
<1>3. r \in [D -> Nat] /\ \A d \in D : r[d] <= n + 2
  BY <1>0, <1>1
<1>4. \A s, g : AddsAt(s, g) \in Nat
  BY DEF AddsAt
<1> HIDE DEF to, r, D
<1>5. F \in [D -> [[D -> Nat] -> Nat]]
  <2> SUFFICES ASSUME NEW d \in D, NEW W \in [D -> Nat]
               PROVE  (IF d[1] > n THEN 0 ELSE AddsAt(d[1], d[2]) + W[to(d)]) \in Nat
    OBVIOUS
  <2>1. CASE d[1] > n
    BY <2>1
  <2>2. CASE ~(d[1] > n)
    BY <1>2, <1>4, <2>2
  <2> QED BY <2>1, <2>2
<1>6. \A d \in D : \A g, h \in [D -> Nat] :
        (\A e \in D : r[e] < r[d] => g[e] = h[e]) => F[d][g] = F[d][h]
  <2> SUFFICES ASSUME NEW d \in D, NEW g \in [D -> Nat], NEW h \in [D -> Nat],
                      \A e \in D : r[e] < r[d] => g[e] = h[e]
               PROVE  F[d][g] = F[d][h]
    OBVIOUS
  <2>1. ~(d[1] > n) => g[to(d)] = h[to(d)]
    BY <1>2
  <2> QED BY <2>1
<1>7. \A d \in D : \A W \in [D -> Nat] :
        F[d][W] = IF d[1] > n THEN 0 ELSE AddsAt(d[1], d[2]) + W[to(d)]
  OBVIOUS
<1> HIDE DEF F
<1>8. RankedBy(F, r, n + 2, D, Nat)
  <2>1. n + 2 \in Nat /\ Nat # {}
    OBVIOUS
  <2> QED BY <1>3, <1>5, <1>6, <2>1 DEF RankedBy
<1>9. PICK W \in [D -> Nat] : \A d \in D : W[d] = F[d][W]
  BY <1>8, Recursion
<1>10. ASSUME NEW s \in 1 .. n + 2, NEW g \in {0, 1}
       PROVE  W[<<s, g>>] = IF s > n THEN 0
                            ELSE AddsAt(s, g) + W[<<NextAt(s, g), StaysAt(s, g)>>]
  <2>1. PICK d \in D : d = <<s, g>> /\ d[1] = s /\ d[2] = g
    <3>1. <<s, g>> \in D /\ <<s, g>>[1] = s /\ <<s, g>>[2] = g
      BY DEF D
    <3> QED BY <3>1
  <2>2. W[d] = IF d[1] > n THEN 0 ELSE AddsAt(d[1], d[2]) + W[to(d)]
    BY <1>7, <1>9
  <2>3. to(d) = <<NextAt(s, g), StaysAt(s, g)>>
    BY <2>1 DEF to
  <2> QED BY <2>1, <2>2, <2>3
<1>11. D = TurnsFrom
  BY <1>0 DEF D, TurnsFrom
<1>12. IsWalk(W)
  BY <1>0, <1>9, <1>10, <1>11 DEF IsWalk
<1> QED BY <1>12

(* It stays one as long as the header does.                                *)
LEMMA WalkUnmoved ==
  ASSUME UNCHANGED headerVars, NEW W, IsWalk(W)
  PROVE  IsWalk(W)'
<1>1. tokens' = tokens /\ ntokens' = ntokens
  BY Unmoved DEF headerVars
<1>2. \A i : Tok(i)' = Tok(i)
  BY <1>1 DEF Tok
<1>3. \A i, S : Seek(i, S)' = Seek(i, S)
  <2> SUFFICES ASSUME NEW i, NEW S PROVE Seek(i, S)' = Seek(i, S)
    OBVIOUS
  <2>1. {j \in i .. ntokens' : Tok(j)' \in S} = {j \in i .. ntokens : Tok(j) \in S}
    BY <1>1, <1>2
  <2> QED BY Zenon, <1>1, <2>1 DEF Seek
<1>4. ASSUME NEW s, NEW g
      PROVE  /\ AddsAt(s, g)' = AddsAt(s, g) /\ StaysAt(s, g)' = StaysAt(s, g)
             /\ NextAt(s, g)' = NextAt(s, g)
  <2>1. LabelAt(s)' = LabelAt(s)
    BY <1>3 DEF LabelAt
  <2>2. StartsAt(s, g)' <=> StartsAt(s, g)
    <3>1. PICK l : l = LabelAt(s)
      OBVIOUS
    <3>2. Tok(LabelAt(s))' = Tok(l)'
      BY <2>1, <3>1 DEF Tok
    <3> QED BY <1>2, <3>1, <3>2 DEF StartsAt
  <2>3. GroupedAt(s, g)' <=> GroupedAt(s, g)
    BY <2>2 DEF GroupedAt
  <2>4. FirstAt(s, g)' = FirstAt(s, g)
    BY <2>1, <2>2 DEF FirstAt
  <2>5. MailboxAt(s, g)' = MailboxAt(s, g)
    <3>1. PICK f : f = FirstAt(s, g)
      OBVIOUS
    <3>2. {j \in f .. ntokens' : Tok(j)' \notin {",", ";"}}
            = {j \in f .. ntokens : Tok(j) \notin {",", ";"}}
      BY <1>1, <1>2
    <3>3. MailboxAt(s, g)' =
            Min({j \in FirstAt(s, g)' .. ntokens' : Tok(j)' \notin {",", ";"}} \cup {ntokens' + 1})
      BY Zenon DEF MailboxAt
    <3>4. MailboxAt(s, g) =
            Min({j \in f .. ntokens : Tok(j) \notin {",", ";"}} \cup {ntokens + 1})
      BY Zenon, <3>1 DEF MailboxAt
    <3>5. MailboxAt(s, g)' =
            Min({j \in f .. ntokens' : Tok(j)' \notin {",", ";"}} \cup {ntokens' + 1})
      BY Zenon, <2>4, <3>1, <3>3
    <3> QED BY Zenon, <1>1, <3>2, <3>4, <3>5
  <2>6. StopAt(s, g)' = StopAt(s, g)
    <3>1. PICK m : m = MailboxAt(s, g)
      OBVIOUS
    <3>2. Seek(MailboxAt(s, g), {";", ",", "<"})' = Seek(m, {";", ",", "<"})'
      BY <2>5, <3>1 DEF Seek
    <3> QED BY Zenon, <1>3, <3>1, <3>2 DEF StopAt
  <2>7. RouteAt(s, g)' <=> RouteAt(s, g)
    <3>1. PICK p : p = StopAt(s, g)
      OBVIOUS
    <3>2. Tok(StopAt(s, g))' = Tok(p)'
      BY <2>6, <3>1 DEF Tok
    <3> QED BY <1>2, <3>1, <3>2 DEF RouteAt
  <2>8. CloseAt(s, g)' = CloseAt(s, g)
    <3>1. PICK p : p = StopAt(s, g)
      OBVIOUS
    <3>2. Seek(StopAt(s, g), {">"})' = Seek(p, {">"})'
      BY <2>6, <3>1 DEF Seek
    <3> QED BY Zenon, <1>3, <3>1, <3>2 DEF CloseAt
  <2>9. ResumeAt(s, g)' = ResumeAt(s, g)
    BY <2>6, <2>7, <2>8 DEF ResumeAt
  <2>10. EndsAt(s, g)' <=> EndsAt(s, g)
    <3>1. PICK p : p = ResumeAt(s, g)
      OBVIOUS
    <3>2. Tok(ResumeAt(s, g))' = Tok(p)'
      BY <2>9, <3>1 DEF Tok
    <3> QED BY <1>1, <1>2, <2>3, <2>9, <3>1, <3>2 DEF EndsAt
  <2>11. NextAt(s, g)' = NextAt(s, g)
    BY <2>9, <2>10 DEF NextAt
  <2> QED BY <2>3, <2>10, <2>11 DEF AddsAt, StaysAt
<1> QED BY <1>1, <1>4 DEF IsWalk, TurnsFrom

(* The entries of a pass and those that are to come make up the whole.     *)
CountedBy(W) ==
  /\ IsWalk(W)
  /\ pass # "done" => iaddr + W[<<start_tok, InGroup>>] = W[<<1, 0>>]
  /\ pass = "fill" => Len(addrs) = W[<<1, 0>>]
  /\ pass = "done" => iaddr = Len(addrs) /\ naddrs = Len(addrs)
Counted == \E W : CountedBy(W)

(* What a turn adds to the walk.                                           *)
LEMMA TurnCounts ==
  ASSUME Typed, start_tok \in 1 .. ntokens, NEW W, IsWalk(W)
  PROVE  /\ ~Grouped => W[<<start_tok, InGroup>>] = 1 + W[<<Resume, 0>>]
                        /\ W[<<Resume, 0>>] \in Nat
         /\ Grouped /\ ~EndsGroup => W[<<start_tok, InGroup>>] = W[<<Resume, 1>>]
                                     /\ W[<<Resume, 1>>] \in Nat
         /\ EndsGroup => W[<<start_tok, InGroup>>] = 1 + W[<<Resume + 1, 0>>]
                         /\ W[<<Resume + 1, 0>>] \in Nat
<1>0. ReadOK /\ ntokens \in Nat /\ in_group \in BOOLEAN
  BY ReadFacts DEF Typed
<1>1. PICK s \in 1 .. ntokens, g \in {0, 1} : s = start_tok /\ g = InGroup
  BY DEF InGroup
<1>2. /\ Grouped <=> GroupedAt(s, g)
      /\ Resume = ResumeAt(s, g)
      /\ EndsGroup <=> EndsAt(s, g)
      /\ (IF EndsGroup THEN Resume + 1 ELSE Resume) = NextAt(s, g)
  BY <1>0, <1>1, TurnIs
<1>3. EndsGroup => Grouped
  BY DEF EndsGroup
<1>4. ~(s > ntokens) /\ s \in 1 .. ntokens + 2
  BY <1>0
<1>5. NextAt(s, g) \in 1 .. ntokens + 2
  <2>1. NextAt(s, g) \in s + 1 .. ntokens + 2
    BY <1>0, TurnFacts
  <2> QED BY <1>0, <2>1
<1>6. StaysAt(s, g) \in {0, 1}
  BY DEF StaysAt
<1>7. W[<<s, g>>] = AddsAt(s, g) + W[<<NextAt(s, g), StaysAt(s, g)>>]
  BY <1>4 DEF IsWalk
<1>8. W[<<NextAt(s, g), StaysAt(s, g)>>] \in Nat
  BY <1>5, <1>6 DEF IsWalk, TurnsFrom
<1>9. CASE Grouped /\ ~EndsGroup
  <2>1. AddsAt(s, g) = 0 /\ StaysAt(s, g) = 1 /\ NextAt(s, g) = Resume
    BY <1>2, <1>9 DEF AddsAt, StaysAt
  <2> QED BY <1>1, <1>7, <1>8, <1>9, <2>1
<1>10. CASE EndsGroup
  <2>1. AddsAt(s, g) = 1 /\ StaysAt(s, g) = 0 /\ NextAt(s, g) = Resume + 1
    BY <1>2, <1>10 DEF AddsAt, StaysAt
  <2> QED BY <1>1, <1>3, <1>7, <1>8, <1>10, <2>1
<1>11. CASE ~Grouped
  <2>1. AddsAt(s, g) = 1 /\ StaysAt(s, g) = 0 /\ NextAt(s, g) = Resume
    BY <1>2, <1>3, <1>11 DEF AddsAt, StaysAt
  <2> QED BY <1>1, <1>3, <1>7, <1>8, <1>11, <2>1
<1> QED BY <1>9, <1>10, <1>11

(* All entries are to come at first.                                       *)
LEMMA InitCounted == Init => Counted
<1> SUFFICES ASSUME Init PROVE Counted
  OBVIOUS
<1>1. ReadOK /\ pass = "count" /\ start_tok = 1 /\ iaddr = 0 /\ in_group = FALSE
  BY DEF Init, ReadOK
<1>2. PICK W : IsWalk(W)
  BY <1>1, WalkExists
<1>3. W[<< 1, 0 >>] \in Nat
  <2>1. ntokens \in Nat
    BY <1>1, ReadFacts
  <2>2. << 1, 0 >> \in TurnsFrom
    BY <2>1 DEF TurnsFrom
  <2> QED BY <1>2, <2>2 DEF IsWalk
<1>4. InGroup = 0
  BY <1>1 DEF InGroup
<1> QED BY <1>1, <1>2, <1>3, <1>4 DEF Counted, CountedBy

(* A turn keeps the count, and the second pass never runs out of slots.    *)
LEMMA CountedTurn ==
  ASSUME Typed, Labelled, Counted, Mailbox \/ GroupMailbox \/ GroupEnd
  PROVE  /\ Counted'
         /\ pass = "fill" /\ ~GroupMailbox => iaddr < Len(addrs)
<1>1. PICK W : CountedBy(W)
  BY DEF Counted
<1>2. IsWalk(W) /\ IsWalk(W)' /\ UNCHANGED headerVars /\ pass' = pass /\ pass # "done"
      /\ naddrs' = naddrs
  <2>1. UNCHANGED headerVars /\ pass' = pass /\ pass # "done" /\ naddrs' = naddrs
    BY DEF Mailbox, GroupMailbox, GroupEnd
  <2> QED BY <1>1, <2>1, WalkUnmoved DEF CountedBy
<1>3. /\ iaddr + W[<<start_tok, InGroup>>] = W[<<1, 0>>]
      /\ pass = "fill" => Len(addrs) = W[<<1, 0>>]
      /\ iaddr \in Nat
  BY <1>1, <1>2 DEF CountedBy, Typed
<1>4. /\ start_tok \in 1 .. ntokens /\ Len(addrs') = Len(addrs)
      /\ iaddr' + W[<<start_tok', InGroup'>>] = iaddr + W[<<start_tok, InGroup>>]
      /\ ~GroupMailbox => iaddr < iaddr + W[<<start_tok, InGroup>>]
  <2>1. CASE Mailbox
    <3>1. /\ start_tok \in 1 .. ntokens /\ iaddr' = iaddr + 1 /\ start_tok' = Resume
          /\ in_group' = FALSE /\ Store(MailboxEntry)
      BY <2>1, MailboxTyped
    <3>2. ~Grouped
      BY <2>1 DEF Mailbox
    <3>3. Len(addrs') = Len(addrs)
      <4>1. HasSlot => MailboxEntry \in Entry
        BY <3>1, MailboxEntryFacts
      <4> QED BY <3>1, <4>1, StoreFacts
    <3>4. InGroup' = 0
      BY <3>1 DEF InGroup
    <3>5. W[<<start_tok, InGroup>>] = 1 + W[<<Resume, 0>>] /\ W[<<Resume, 0>>] \in Nat
      BY <1>2, <3>1, <3>2, TurnCounts
    <3> QED BY <1>3, <3>1, <3>3, <3>4, <3>5
  <2>2. CASE GroupMailbox
    <3>1. /\ start_tok \in 1 .. ntokens /\ iaddr' = iaddr /\ start_tok' = Resume
          /\ in_group' = TRUE /\ Grouped /\ ~EndsGroup /\ Len(addrs') = Len(addrs)
      BY <2>2, GroupMailboxTyped
    <3>2. InGroup' = 1
      BY <3>1 DEF InGroup
    <3>3. W[<<start_tok, InGroup>>] = W[<<Resume, 1>>] /\ W[<<Resume, 1>>] \in Nat
      BY <1>2, <3>1, TurnCounts
    <3> QED BY <1>3, <2>2, <3>1, <3>2, <3>3
  <2>3. CASE GroupEnd
    <3>1. /\ start_tok \in 1 .. ntokens /\ iaddr' = iaddr + 1 /\ start_tok' = Resume + 1
          /\ in_group' = FALSE /\ Grouped /\ EndsGroup /\ Store(GroupEntry)
      BY <2>3, GroupEndTyped
    <3>2. Len(addrs') = Len(addrs)
      <4>1. HasSlot => GroupEntry \in Entry
        BY <3>1, GroupEntryFacts
      <4> QED BY <3>1, <4>1, StoreFacts
    <3>3. InGroup' = 0
      BY <3>1 DEF InGroup
    <3>4. W[<<start_tok, InGroup>>] = 1 + W[<<Resume + 1, 0>>] /\ W[<<Resume + 1, 0>>] \in Nat
      BY <1>2, <3>1, TurnCounts
    <3> QED BY <1>3, <3>1, <3>2, <3>3, <3>4
  <2> QED BY <2>1, <2>2, <2>3
<1>5. CountedBy(W)'
  BY <1>2, <1>3, <1>4 DEF CountedBy
<1> QED BY <1>3, <1>4, <1>5 DEF Counted

(* The second pass starts over with all entries to come.                   *)
LEMMA CountedEndPass ==
  ASSUME Typed, Labelled, Counted, EndPass
  PROVE  Counted'
<1>1. PICK W : CountedBy(W)
  BY DEF Counted
<1>2. IsWalk(W) /\ IsWalk(W)' /\ ReadOK /\ ntokens \in Nat
  <2>1. UNCHANGED headerVars
    BY DEF EndPass
  <2> QED BY <1>1, <2>1, WalkUnmoved, ReadFacts DEF CountedBy, Typed
<1>3. /\ pass \in {"count", "fill"} /\ start_tok > ntokens /\ naddrs' = iaddr
      /\ pass = "count" => Len(addrs') = iaddr
      /\ pass = "fill" => pass' = "done" /\ addrs' = addrs
      /\ pass = "count" /\ iaddr > 0 =>
           pass' = "fill" /\ start_tok' = 1 /\ iaddr' = 0 /\ in_group' = FALSE
      /\ pass = "count" /\ ~(iaddr > 0) => pass' = "done"
      /\ pass' = "done" => UNCHANGED <<start_tok, iaddr, in_group>>
  BY EndPassTyped
<1>4. iaddr = W[<<1, 0>>] /\ iaddr \in Nat
  <2>1. PICK s \in 1 .. ntokens + 2, g \in {0, 1} : s = start_tok /\ g = InGroup
    BY DEF InGroup, Typed
  <2>2. W[<<s, g>>] = 0
    BY <1>2, <1>3, <2>1 DEF IsWalk
  <2>3. iaddr + W[<<s, g>>] = W[<<1, 0>>]
    BY <1>1, <1>3, <2>1 DEF CountedBy
  <2> QED BY <2>2, <2>3 DEF Typed
<1>5. CASE pass = "count" /\ iaddr > 0
  <2>1. InGroup' = 0
    BY <1>3, <1>5 DEF InGroup
  <2>2. CountedBy(W)'
    BY <1>2, <1>3, <1>4, <1>5, <2>1 DEF CountedBy
  <2> QED BY <2>2 DEF Counted
<1>6. CASE pass = "count" /\ ~(iaddr > 0)
  <2>1. CountedBy(W)'
    BY <1>2, <1>3, <1>6 DEF CountedBy
  <2> QED BY <2>1 DEF Counted
<1>7. CASE pass = "fill"
  <2>1. Len(addrs) = iaddr
    BY <1>1, <1>4, <1>7 DEF CountedBy
  <2>2. CountedBy(W)'
    BY <1>2, <1>3, <1>7, <2>1 DEF CountedBy
  <2> QED BY <2>2 DEF Counted
<1> QED BY <1>3, <1>5, <1>6, <1>7

-----------------------------------------------------------------------------
(* The first n slots are filled, with words that come before token base    *)
(* and that the slots take in order; what they tell of the tokens before   *)
(* start is everything outside comments.                                   *)
TakenBy(slots, n, base) ==
  /\ \A k \in 1 .. n : Filled(slots[k]) /\ Says(slots[k]) \subseteq Places(1, base)
  /\ \A k, m \in 1 .. n : k < m =>
       \A v \in Says(slots[k]), w \in Says(slots[m]) : v < w
Told(slots, n, start) ==
  \A j \in 1 .. ntokens : j < start /\ tokens[j].token # "(" =>
    \A i \in Span(tokens[j]) : header[i] \in Word =>
      \E k \in 1 .. n : i \in Says(slots[k])
Whole == ":" \notin {t.token : t \in Range(tokens)}
Taken ==
  /\ Whole => ~in_group /\ (iaddr = 0 => start_tok = 1)
  /\ pass # "count" => /\ iaddr <= Len(addrs)
                       /\ TakenBy(addrs, iaddr, Base)
                       /\ Whole => Told(addrs, iaddr, start_tok)
  /\ pass = "done" => start_tok > ntokens

(* The next invariant on the slots, from what the step makes of them.      *)
LEMMA TakenNext ==
  ASSUME UNCHANGED headerVars,
         NEW slots, slots = addrs', NEW n, n = iaddr', NEW base, base = Base',
         NEW start, start = start_tok',
         Whole => ~in_group' /\ (n = 0 => start = 1),
         pass' # "count" => /\ n <= Len(slots)
                            /\ TakenBy(slots, n, base)
                            /\ Whole => Told(slots, n, start),
         pass' = "done" => start > ntokens
  PROVE  Taken'
<1>1. header' = header /\ tokens' = tokens /\ ntokens' = ntokens
  BY Unmoved DEF headerVars
<1>2. \A e : Says(e)' = Says(e)
  BY <1>1 DEF Says, WordsIn
<1>3. Places(1, base)' = Places(1, base)
  BY Unmoved
<1>4. TakenBy(slots, n, base) => TakenBy(slots, n, base)'
  BY <1>2, <1>3 DEF TakenBy
<1>5. Told(slots, n, start) => Told(slots, n, start)'
  BY <1>1, <1>2 DEF Told
<1>6. Whole' <=> Whole
  BY <1>1 DEF Whole
<1>7. TakenBy(addrs, iaddr, Base)' <=> TakenBy(slots, n, base)'
  BY DEF TakenBy
<1>8. Told(addrs, iaddr, start_tok)' <=> Told(slots, n, start)'
  BY DEF Told
<1> QED BY <1>1, <1>4, <1>5, <1>6, <1>7, <1>8 DEF Taken

(* One more slot may be filled with words behind the others.               *)
LEMMA TakenMore ==
  ASSUME ReadOK, NEW slots, NEW more, NEW n \in Nat,
         NEW base \in Nat, NEW next \in Nat, NEW lo \in Nat, NEW hi \in Nat,
         base <= lo, base <= next, hi <= next, 1 <= lo,
         TakenBy(slots, n, base),
         \A k \in 1 .. n : more[k] = slots[k],
         Filled(more[n + 1]), Says(more[n + 1]) \subseteq Places(lo, hi)
  PROVE  TakenBy(more, n + 1, next)
<1>1. Places(1, base) \subseteq Places(1, next) /\ Places(lo, hi) \subseteq Places(1, next)
  BY PlacesFacts
<1>2. \A v \in Places(1, base), w \in Places(lo, hi) : v < w
  BY PlacesFacts
<1>3. ASSUME NEW k \in 1 .. n + 1
      PROVE  Filled(more[k]) /\ Says(more[k]) \subseteq Places(1, next)
  <2>1. CASE k \in 1 .. n
    BY <1>1, <2>1 DEF TakenBy
  <2>2. CASE k \notin 1 .. n
    <3>1. k = n + 1
      BY <2>2
    <3> QED BY <1>1, <3>1
  <2> QED BY <2>1, <2>2
<1>4. ASSUME NEW k \in 1 .. n + 1, NEW m \in 1 .. n + 1, k < m,
             NEW v \in Says(more[k]), NEW w \in Says(more[m])
      PROVE  v < w
  <2>0. k \in 1 .. n
    BY <1>4
  <2>1. more[k] = slots[k] /\ Says(slots[k]) \subseteq Places(1, base)
    BY <2>0 DEF TakenBy
  <2>2. CASE m \in 1 .. n
    <3>1. more[m] = slots[m]
      BY <2>2
    <3> QED BY <1>4, <2>0, <2>1, <2>2, <3>1 DEF TakenBy
  <2>3. CASE m \notin 1 .. n
    <3>1. m = n + 1
      BY <2>3
    <3>2. v \in Places(1, base) /\ w \in Places(lo, hi)
      BY <2>1, <3>1, <1>4
    <3> QED BY <1>2, <3>2
  <2> QED BY <2>2, <2>3
<1> QED BY <1>3, <1>4 DEF TakenBy

(* One more slot may tell what the turn has gone over.                     *)
LEMMA ToldMore ==
  ASSUME ReadOK, NEW slots, NEW more, NEW n \in Nat, NEW start \in Nat, NEW next \in Nat,
         Told(slots, n, start),
         \A k \in 1 .. n : more[k] = slots[k],
         \A j \in 1 .. ntokens :
           start <= j /\ j < next /\ tokens[j].token # "(" =>
             \A i \in Span(tokens[j]) : header[i] \in Word => i \in Says(more[n + 1])
  PROVE  Told(more, n + 1, next)
<1> SUFFICES ASSUME NEW j \in 1 .. ntokens, j < next, tokens[j].token # "(",
                    NEW i \in Span(tokens[j]), header[i] \in Word
             PROVE  \E k \in 1 .. n + 1 : i \in Says(more[k])
  BY DEF Told
<1>0. ntokens \in Nat
  BY ReadFacts
<1>1. CASE j < start
  <2>1. PICK k \in 1 .. n : i \in Says(slots[k])
    BY <1>1 DEF Told
  <2>2. k \in 1 .. n + 1 /\ more[k] = slots[k]
    OBVIOUS
  <2> QED BY <2>1, <2>2
<1>2. CASE ~(j < start)
  <2>1. start <= j
    BY <1>0, <1>2
  <2>2. i \in Says(more[n + 1])
    BY <2>1
  <2>3. n + 1 \in 1 .. n + 1
    OBVIOUS
  <2> QED BY <2>2, <2>3
<1> QED BY <1>1, <1>2

(* Outside groups an entry tells all that the turn passes but the comments.*)
LEMMA MailboxTells ==
  ASSUME Typed, start_tok \in 1 .. ntokens, ~Grouped, HasSlot,
         NEW j \in 1 .. ntokens, start_tok <= j, j < Resume, tokens[j].token # "(",
         NEW i \in Span(tokens[j]), header[i] \in Word
  PROVE  i \in Says(MailboxEntry)
<1>0. /\ ReadOK /\ in_group \in BOOLEAN /\ ntokens \in Nat /\ start_tok \in Nat
      /\ Span(tokens[j]) \subseteq 1 .. Len(header) /\ DOMAIN header = 1 .. Len(header)
      /\ tokens \in Laid(header, 1, Len(header)) /\ DOMAIN tokens = 1 .. ntokens
      /\ Tok(j) = tokens[j].token
  <2>1. ReadOK
    BY DEF Typed
  <2>2. /\ ntokens \in Nat /\ DOMAIN tokens = 1 .. ntokens
        /\ tokens \in Laid(header, 1, Len(header)) /\ DOMAIN header = 1 .. Len(header)
        /\ Span(tokens[j]) \subseteq 1 .. Len(header) /\ Tok(j) = tokens[j].token
    BY <2>1, ReadFacts
  <2>3. start_tok \in Nat
    BY <2>2
  <2> QED BY <2>1, <2>2, <2>3 DEF Typed
<1>1. i \in DOMAIN header
  BY <1>0
<1>2. Tok(j) \notin Mark
  BY <1>0 DEF Laid
<1>3. Tok(j) \notin {",", ";", "<", ">"}
  BY <1>2 DEF Mark, Atom
<1>4. Says(MailboxEntry) = WordsIn(Name(DisplayName)) \cup WordsIn(AddressValue)
  BY MailboxEntryFacts
<1>t. /\ MailboxStart \in start_tok .. ntokens + 1
      /\ Stop \in MailboxStart .. ntokens + 1
      /\ IsRoute => /\ Close \in Stop + 1 .. ntokens + 1
                    /\ Close <= ntokens => Tok(Close) = ">"
      /\ Resume = IF IsRoute THEN Close + 1 ELSE Stop
      /\ ~StartsGroup => \A k \in start_tok .. MailboxStart - 1 : Tok(k) \in {",", ";"}
  BY <1>0, TurnValues
<1>n. /\ MailboxStart \in start_tok .. ntokens + 1
      /\ Stop \in MailboxStart .. ntokens + 1
      /\ IsRoute => Close \in Stop + 1 .. ntokens + 1
      /\ Resume = IF IsRoute THEN Close + 1 ELSE Stop
  BY <1>t
<1>s. start_tok \in Nat /\ ntokens \in Nat
  BY <1>0
<1>5. PICK m \in Nat, p \in Nat : m = MailboxStart /\ p = Stop /\ start_tok <= m
  <2>1. MailboxStart \in Nat /\ start_tok <= MailboxStart
    BY <1>s, <1>n
  <2>2. Stop \in Nat
    BY <1>s, <1>n, <2>1
  <2> QED BY <2>1, <2>2
<1>6. m <= j
  <2>1. ~StartsGroup
    BY DEF Grouped
  <2>2. j \notin start_tok .. MailboxStart - 1
    BY <1>3, <1>t, <2>1
  <2> QED BY <1>0, <1>5, <2>2
<1>7. \A k \in 1 .. ntokens :
        /\ tokens[k].token # "("
        /\ IF IsRoute THEN Stop < k /\ k < Close ELSE MailboxStart <= k /\ k < Stop
        => \A x \in Span(tokens[k]) : header[x] \in Range(AddressValue)
  BY <1>0, AddressFacts
<1>8. CASE ~IsRoute
  <2>1. MailboxStart <= j /\ j < Stop
    BY <1>5, <1>6, <1>8, <1>t
  <2>2. header[i] \in Range(AddressValue)
    BY <1>7, <1>8, <2>1
  <2> QED BY <1>1, <1>4, <2>2 DEF WordsIn
<1>9. CASE IsRoute
  <2>1. PICK c \in Nat : c = Close /\ Resume = c + 1
    BY <1>s, <1>5, <1>9, <1>n
  <2>2. j <= c
    BY <2>1, <1>0
  <2>3. j # p
    BY <1>3, <1>5, <1>9 DEF IsRoute
  <2>4. j # c
    <3>1. SUFFICES ASSUME j = c PROVE FALSE
      OBVIOUS
    <3>2. Close <= ntokens
      BY <1>0, <2>1, <3>1
    <3>3. Tok(j) = ">"
      BY <1>9, <1>t, <2>1, <3>1, <3>2
    <3> QED BY <1>3, <3>3
  <2>5. CASE j < p
    <3>1. MailboxStart <= j /\ j < Stop
      BY <1>5, <1>6, <2>5
    <3>2. DisplayName # Null /\ header[i] \in Range(DisplayName)
      BY <1>0, <1>9, <3>1, DisplayFacts
    <3>3. Name(DisplayName) = DisplayName
      BY <3>2 DEF Name
    <3> QED BY <1>1, <1>4, <3>2, <3>3 DEF WordsIn
  <2>6. CASE ~(j < p)
    <3>1. Stop < j /\ j < Close
      BY <1>0, <1>5, <2>1, <2>2, <2>3, <2>4, <2>6
    <3>2. header[i] \in Range(AddressValue)
      BY <1>7, <1>9, <3>1
    <3> QED BY <1>1, <1>4, <3>2 DEF WordsIn
  <2> QED BY <2>5, <2>6
<1> QED BY <1>8, <1>9

(* No slot is filled at first.                                             *)
LEMMA InitTaken == Init => Taken
<1> SUFFICES ASSUME Init PROVE Taken
  OBVIOUS
<1>1. pass = "count" /\ start_tok = 1 /\ iaddr = 0 /\ in_group = FALSE
  BY DEF Init
<1> QED BY <1>1 DEF Taken

(* A turn without a group fills the next slot with its words.              *)
LEMMA TakenMailbox ==
  ASSUME Typed, Labelled, Counted, Taken, Mailbox
  PROVE  Taken'
<1>0. /\ ReadOK /\ ntokens \in Nat /\ iaddr \in Nat /\ in_group \in BOOLEAN
      /\ addrs \in Seq(Entry) /\ Len(addrs) \in Nat
  <2>1. ReadOK /\ addrs \in Seq(Entry)
    BY DEF Typed
  <2> QED BY <2>1, ReadFacts, LenProperties DEF Typed
<1>1. /\ UNCHANGED headerVars /\ pass' = pass /\ pass # "done" /\ ~Grouped
      /\ start_tok \in 1 .. ntokens /\ iaddr' = iaddr + 1 /\ start_tok' = Resume
      /\ ~in_group /\ in_group' = FALSE /\ Store(MailboxEntry)
  <2>1. UNCHANGED headerVars /\ pass' = pass /\ pass # "done" /\ ~Grouped
    BY DEF Mailbox
  <2> QED BY <2>1, MailboxTyped
<1>2. PICK slots : slots = addrs'
  OBVIOUS
<1>3. PICK more \in Nat : more = Resume
  <2>1. Resume \in start_tok .. ntokens + 2
    BY <1>0, <1>1, TurnValues
  <2>2. start_tok \in Nat
    BY <1>1
  <2>3. Resume \in Nat
    BY <1>0, <2>1, <2>2
  <2> QED BY <2>3
<1>4. Base' = more
  BY <1>1, <1>3 DEF Base
<1>5. ASSUME pass # "count"
      PROVE  /\ iaddr + 1 <= Len(slots)
             /\ TakenBy(slots, iaddr + 1, more)
             /\ Whole => Told(slots, iaddr + 1, more)
  <2>1. pass = "fill" /\ iaddr < Len(addrs)
    <3>1. pass = "fill"
      BY <1>1, <1>5 DEF Typed
    <3>2. ~GroupMailbox
      BY <1>1 DEF GroupMailbox
    <3> QED BY <3>1, <3>2, CountedTurn
  <2>2. HasSlot
    BY <2>1 DEF HasSlot
  <2>3. /\ MailboxEntry \in Entry /\ Filled(MailboxEntry)
        /\ Says(MailboxEntry) \subseteq Places(MailboxStart, Resume)
    BY <1>1, <2>2, MailboxEntryFacts
  <2>4. /\ Len(slots) = Len(addrs) /\ slots[iaddr + 1] = MailboxEntry
        /\ \A k \in 1 .. Len(addrs) : k # Slot => slots[k] = addrs[k]
    BY <1>1, <1>2, <2>2, <2>3, StoreFacts DEF Slot
  <2>5. \A k \in 1 .. iaddr : slots[k] = addrs[k]
    <3>1. \A k \in 1 .. iaddr : k \in 1 .. Len(addrs) /\ k # Slot
      BY <1>0, <2>1 DEF Slot
    <3> QED BY <2>4, <3>1
  <2>6. PICK m \in Nat : m = MailboxStart /\ start_tok <= m /\ start_tok <= more
    <3>1. MailboxStart \in start_tok .. ntokens + 1 /\ Resume \in start_tok .. ntokens + 2
      BY <1>0, <1>1, TurnValues
    <3>2. start_tok \in Nat
      BY <1>1
    <3>3. MailboxStart \in Nat /\ start_tok <= MailboxStart /\ start_tok <= Resume
      BY <1>0, <3>1, <3>2
    <3> QED BY <1>3, <3>3
  <2>7. Base = start_tok /\ start_tok \in Nat /\ 1 <= start_tok
    BY <1>1 DEF Base
  <2>8. TakenBy(addrs, iaddr, start_tok)
    BY <1>5, <2>7 DEF Taken
  <2>9. PICK start \in Nat : start = start_tok /\ 1 <= start /\ start <= m /\ start <= more
    BY <2>6, <2>7
  <2>10. Filled(slots[iaddr + 1]) /\ Says(slots[iaddr + 1]) \subseteq Places(m, more)
    BY <1>3, <2>3, <2>4, <2>6
  <2>11. TakenBy(slots, iaddr + 1, more)
    <3>1. 1 <= m /\ more <= more
      BY <2>9
    <3>2. TakenBy(addrs, iaddr, start)
      BY <2>8, <2>9
    <3> QED BY <1>0, <2>5, <2>9, <2>10, <3>1, <3>2, TakenMore
  <2>12. ASSUME Whole PROVE Told(slots, iaddr + 1, more)
    <3>1. Told(addrs, iaddr, start)
      BY <1>5, <2>9, <2>12 DEF Taken
    <3>2. \A j \in 1 .. ntokens :
            start <= j /\ j < more /\ tokens[j].token # "(" =>
              \A i \in Span(tokens[j]) : header[i] \in Word => i \in Says(slots[iaddr + 1])
      <4> SUFFICES ASSUME NEW j \in 1 .. ntokens, start <= j, j < more,
                          tokens[j].token # "(",
                          NEW i \in Span(tokens[j]), header[i] \in Word
                   PROVE  i \in Says(slots[iaddr + 1])
        OBVIOUS
      <4>1. start_tok <= j /\ j < Resume
        BY <1>3, <2>9
      <4>2. i \in Says(MailboxEntry)
        BY <1>1, <2>2, <4>1, MailboxTells
      <4> QED BY <2>4, <4>2
    <3> QED BY <1>0, <2>5, <3>1, <3>2, ToldMore
  <2> QED BY <1>0, <2>1, <2>4, <2>11, <2>12
<1>6. iaddr + 1 # 0
  BY <1>0
<1>7. PICK n : n = iaddr'
  OBVIOUS
<1> QED BY <1>1, <1>2, <1>3, <1>4, <1>5, <1>6, <1>7, TakenNext

(* Without a ":" there are no groups.                                      *)
LEMMA NoGroups ==
  ASSUME Typed, Taken, start_tok \in 1 .. ntokens, Grouped
  PROVE  ~Whole
<1> SUFFICES ASSUME Whole PROVE FALSE
  OBVIOUS
<1>0. ReadOK /\ ntokens \in Nat /\ in_group \in BOOLEAN
  BY ReadFacts DEF Typed
<1>1. Tok(Label) = ":"
  BY DEF Taken, Grouped, StartsGroup
<1>2. Label \in Nat /\ 1 <= Label
  <2>1. Label \in start_tok .. ntokens + 1
    BY <1>0, TurnValues
  <2> QED BY <1>0, <2>1
<1>3. Label \in DOMAIN tokens /\ tokens[Label].token = ":"
  <2>1. /\ DOMAIN tokens = 1 .. ntokens
        /\ \A k \in 1 .. ntokens : Tok(k) = tokens[k].token
        /\ \A k \in Nat : k > ntokens => Tok(k) = "end"
    BY <1>0, ReadFacts
  <2>2. ~(Label > ntokens)
    BY <1>1, <1>2, <2>1
  <2>3. Label \in 1 .. ntokens
    BY <1>0, <1>2, <2>2
  <2> QED BY <1>1, <2>1, <2>3
<1> QED BY <1>3 DEF Whole, Range

(* The turn that ends a group fills the next slot with its words.          *)
LEMMA TakenGroupEnd ==
  ASSUME Typed, Labelled, Counted, Taken, GroupEnd
  PROVE  Taken'
<1>0. /\ ReadOK /\ ntokens \in Nat /\ iaddr \in Nat /\ in_group \in BOOLEAN
      /\ addrs \in Seq(Entry) /\ Len(addrs) \in Nat
  <2>1. ReadOK /\ addrs \in Seq(Entry)
    BY DEF Typed
  <2> QED BY <2>1, ReadFacts, LenProperties DEF Typed
<1>1. /\ UNCHANGED headerVars /\ pass' = pass /\ pass # "done" /\ Grouped
      /\ start_tok \in 1 .. ntokens /\ iaddr' = iaddr + 1 /\ start_tok' = Resume + 1
      /\ in_group' = FALSE /\ Store(GroupEntry)
  <2>1. UNCHANGED headerVars /\ pass' = pass /\ pass # "done"
    BY DEF GroupEnd
  <2> QED BY <2>1, GroupEndTyped
<1>2. PICK slots : slots = addrs'
  OBVIOUS
<1>3. PICK r \in Nat : r = Resume /\ start_tok <= r
  <2>1. Resume \in start_tok .. ntokens + 2
    BY <1>0, <1>1, TurnValues
  <2>2. start_tok \in Nat
    BY <1>1
  <2>3. Resume \in Nat /\ start_tok <= Resume
    BY <1>0, <2>1, <2>2
  <2> QED BY <2>3
<1>4. PICK more \in Nat : more = r + 1 /\ more = Base'
  <2>1. Base' = r + 1
    BY <1>1, <1>3 DEF Base
  <2> QED BY <2>1
<1>5. ~Whole
  BY <1>1, NoGroups
<1>6. ASSUME pass # "count"
      PROVE  iaddr + 1 <= Len(slots) /\ TakenBy(slots, iaddr + 1, more)
  <2>1. pass = "fill" /\ iaddr < Len(addrs)
    <3>1. pass = "fill"
      BY <1>1, <1>6 DEF Typed
    <3>2. ~GroupMailbox
      BY <1>1 DEF GroupMailbox
    <3> QED BY <3>1, <3>2, CountedTurn
  <2>2. HasSlot
    BY <2>1 DEF HasSlot
  <2>3. /\ GroupEntry \in Entry /\ Filled(GroupEntry)
        /\ Says(GroupEntry) \subseteq Places(Base, Resume)
    BY <1>1, GroupEntryFacts
  <2>4. /\ Len(slots) = Len(addrs) /\ slots[iaddr + 1] = GroupEntry
        /\ \A k \in 1 .. Len(addrs) : k # Slot => slots[k] = addrs[k]
    BY <1>1, <1>2, <2>2, <2>3, StoreFacts DEF Slot
  <2>5. \A k \in 1 .. iaddr : slots[k] = addrs[k]
    <3>1. \A k \in 1 .. iaddr : k \in 1 .. Len(addrs) /\ k # Slot
      BY <1>0, <2>1 DEF Slot
    <3> QED BY <2>4, <3>1
  <2>6. PICK base \in Nat : base = Base /\ 1 <= base /\ base <= r
    <3>1. Base \in Nat \ {0} /\ Base <= start_tok /\ start_tok \in Nat \ {0}
      BY BaseFacts
    <3> QED BY <1>3, <3>1
  <2>7. TakenBy(addrs, iaddr, base)
    BY <1>6, <2>6 DEF Taken
  <2>8. Filled(slots[iaddr + 1]) /\ Says(slots[iaddr + 1]) \subseteq Places(base, r)
    BY <1>3, <2>3, <2>4, <2>6
  <2>9. base <= base /\ base <= more /\ r <= more
    BY <1>4, <2>6
  <2>10. TakenBy(slots, iaddr + 1, more)
    BY <1>0, <2>5, <2>6, <2>7, <2>8, <2>9, TakenMore
  <2> QED BY <1>0, <2>1, <2>4, <2>10
<1>7. PICK n : n = iaddr'
  OBVIOUS
<1>8. PICK start : start = start_tok'
  OBVIOUS
<1> QED BY <1>1, <1>2, <1>4, <1>5, <1>6, <1>7, <1>8, TakenNext

(* A turn inside a group fills no slot.                                    *)
LEMMA TakenGroupMailbox ==
  ASSUME Typed, Labelled, Counted, Taken, GroupMailbox
  PROVE  Taken'
<1>1. /\ UNCHANGED headerVars /\ pass' = pass /\ pass # "done" /\ Base' = Base
      /\ start_tok \in 1 .. ntokens /\ Grouped /\ iaddr' = iaddr
      /\ Len(addrs') = Len(addrs)
      /\ \A k \in 1 .. iaddr : k <= Len(addrs) => addrs'[k] = addrs[k]
  <2>1. UNCHANGED headerVars /\ pass' = pass /\ pass # "done"
    BY DEF GroupMailbox
  <2> QED BY <2>1, GroupMailboxTyped
<1>2. ~Whole
  BY <1>1, NoGroups
<1>3. PICK slots : slots = addrs'
  OBVIOUS
<1>4. PICK n \in Nat : n = iaddr
  BY DEF Typed
<1>5. PICK base : base = Base
  OBVIOUS
<1>6. PICK start : start = start_tok'
  OBVIOUS
<1>7. ASSUME pass # "count" PROVE n <= Len(slots) /\ TakenBy(slots, n, base)
  <2>1. n <= Len(addrs) /\ TakenBy(addrs, n, base)
    BY <1>4, <1>5, <1>7 DEF Taken
  <2>2. \A k \in 1 .. n : slots[k] = addrs[k]
    <3>1. Len(addrs) \in Nat
      BY LenProperties DEF Typed
    <3>2. \A k \in 1 .. n : k <= Len(addrs)
      BY <2>1, <3>1
    <3> QED BY <1>1, <1>3, <1>4, <3>2
  <2>3. TakenBy(slots, n, base)
    BY <2>1, <2>2 DEF TakenBy
  <2> QED BY <1>1, <1>3, <2>1, <2>3
<1>8. n = iaddr' /\ base = Base'
  BY <1>1, <1>4, <1>5
<1> QED BY <1>1, <1>2, <1>3, <1>6, <1>7, <1>8, TakenNext

(* The second pass starts with no slot filled, and ends with all.          *)
LEMMA TakenEndPass ==
  ASSUME Typed, Labelled, Counted, Taken, EndPass
  PROVE  Taken'
<1>0. /\ ReadOK /\ ntokens \in Nat /\ iaddr \in Nat
      /\ addrs \in Seq(Entry) /\ Len(addrs) \in Nat /\ start_tok \in 1 .. ntokens + 2
  <2>1. ReadOK /\ addrs \in Seq(Entry)
    BY DEF Typed
  <2> QED BY <2>1, ReadFacts, LenProperties DEF Typed
<1>1. /\ pass \in {"count", "fill"} /\ start_tok > ntokens
      /\ pass = "count" => Len(addrs') = iaddr
      /\ pass = "fill" => pass' = "done" /\ addrs' = addrs
      /\ pass = "count" /\ iaddr > 0 =>
           pass' = "fill" /\ start_tok' = 1 /\ iaddr' = 0 /\ in_group' = FALSE
      /\ pass = "count" /\ ~(iaddr > 0) => pass' = "done"
      /\ pass' = "done" => UNCHANGED <<start_tok, iaddr, in_group>> /\ Base' = Base
  BY EndPassTyped
<1>2. UNCHANGED headerVars
  BY DEF EndPass
<1>3. PICK slots : slots = addrs'
  OBVIOUS
<1>4. PICK n : n = iaddr'
  OBVIOUS
<1>5. PICK base : base = Base'
  OBVIOUS
<1>6. PICK start : start = start_tok'
  OBVIOUS
<1>7. TakenBy(slots, 0, base)
  BY DEF TakenBy
<1>8. CASE pass = "count" /\ iaddr > 0
  <2>1. n = 0 /\ start = 1 /\ ~in_group' /\ n <= Len(slots) /\ pass' = "fill"
    BY <1>0, <1>1, <1>3, <1>4, <1>6, <1>8
  <2>2. Told(slots, 0, 1)
    BY <1>0 DEF Told
  <2> QED BY <1>2, <1>3, <1>4, <1>5, <1>6, <1>7, <2>1, <2>2, TakenNext
<1>9. CASE pass = "count" /\ ~(iaddr > 0)
  <2>1. n = 0 /\ start = start_tok /\ in_group' = in_group /\ n <= Len(slots)
        /\ pass' = "done" /\ start > ntokens
    BY <1>0, <1>1, <1>3, <1>4, <1>6, <1>9
  <2>2. Whole => ~in_group' /\ start = 1
    BY <1>0, <1>9, <2>1 DEF Taken
  <2>3. Whole => Told(slots, n, start)
    <3>1. start = 1 => \A j \in 1 .. ntokens : ~(j < start)
      BY <1>0
    <3> QED BY <2>2, <3>1 DEF Told
  <2>4. TakenBy(slots, n, base)
    BY <1>7, <2>1
  <2> QED BY <1>2, <1>3, <1>4, <1>5, <1>6, <2>1, <2>2, <2>3, <2>4, TakenNext
<1>10. CASE pass = "fill"
  <2>1. /\ n = iaddr /\ start = start_tok /\ in_group' = in_group /\ slots = addrs
        /\ pass' = "done" /\ start > ntokens /\ base = Base
    BY <1>1, <1>3, <1>4, <1>5, <1>6, <1>10
  <2>2. /\ Whole => ~in_group' /\ (n = 0 => start = 1)
        /\ n <= Len(slots) /\ TakenBy(slots, n, base) /\ (Whole => Told(slots, n, start))
    BY <1>10, <2>1 DEF Taken
  <2> QED BY <1>2, <1>3, <1>4, <1>5, <1>6, <2>1, <2>2, TakenNext
<1> QED BY <1>1, <1>8, <1>9, <1>10

-----------------------------------------------------------------------------
(* The inductive invariant, and that every step keeps it.                  *)
IInv == Typed /\ Labelled /\ Counted /\ Taken

(* It holds at first.                                                      *)
LEMMA InitIInv == Init => IInv
BY InitTyped, InitCounted, InitTaken DEF IInv

(* Each action keeps it.                                                   *)
LEMMA StepIInv == IInv /\ [Next]_vars => IInv'
<1> SUFFICES ASSUME IInv, [Next]_vars PROVE IInv'
  OBVIOUS
<1>0. Typed /\ Labelled /\ Counted /\ Taken
  BY DEF IInv
<1>1. CASE Mailbox
  BY <1>0, <1>1, MailboxTyped, CountedTurn, TakenMailbox DEF IInv
<1>2. CASE GroupMailbox
  BY <1>0, <1>2, GroupMailboxTyped, CountedTurn, TakenGroupMailbox DEF IInv
<1>3. CASE GroupEnd
  BY <1>0, <1>3, GroupEndTyped, CountedTurn, TakenGroupEnd DEF IInv
<1>4. CASE EndPass
  BY <1>0, <1>4, EndPassTyped, CountedEndPass, TakenEndPass DEF IInv
<1>5. CASE UNCHANGED vars
  <2>0. /\ UNCHANGED headerVars
        /\ UNCHANGED <<pass, start_tok, iaddr, in_group, group_lbl, group_addrs,
                       addrs, naddrs>>
    BY <1>5 DEF vars
  <2>1. ReadOK' /\ ntokens' = ntokens
    BY <1>0, <2>0, Unmoved DEF Typed
  <2>2. Typed'
    BY <1>0, <2>0, <2>1 DEF Typed
  <2>3. PICK base, start, all, slots, n :
          base = Base /\ start = start_tok /\ all = group_addrs /\ slots = addrs /\ n = iaddr
    OBVIOUS
  <2>4. Base' = Base
    BY <2>0 DEF Base
  <2>5. base = Base' /\ start = start_tok' /\ all = group_addrs' /\ slots = addrs' /\ n = iaddr'
    BY <2>0, <2>3, <2>4
  <2>6. Labelled'
    <3>1. WordsIn(all) \subseteq Places(base, start)
      BY <1>0, <2>3 DEF Labelled
    <3>2. /\ in_group' => group_lbl'[1] <= group_lbl'[2] /\ group_lbl'[2] <= start_tok'
          /\ ~in_group' => group_addrs' = << >>
      BY <1>0, <2>0 DEF Labelled
    <3> QED BY <2>0, <2>5, <3>1, <3>2, LabelledNext
  <2>7. Counted'
    <3>1. PICK W : CountedBy(W)
      BY <1>0 DEF Counted
    <3>2. IsWalk(W)'
      BY <2>0, <3>1, WalkUnmoved DEF CountedBy
    <3>3. InGroup' = InGroup
      BY <2>0 DEF InGroup
    <3>4. CountedBy(W)'
      BY <2>0, <3>1, <3>2, <3>3 DEF CountedBy
    <3> QED BY <3>4 DEF Counted
  <2>8. Taken'
    <3>1. /\ Whole => ~in_group' /\ (n = 0 => start = 1)
          /\ pass' # "count" => /\ n <= Len(slots)
                                /\ TakenBy(slots, n, base)
                                /\ Whole => Told(slots, n, start)
          /\ pass' = "done" => start > ntokens
      BY <1>0, <2>0, <2>3 DEF Taken
    <3> QED BY <2>0, <2>5, <3>1, TakenNext
  <2> QED BY <2>2, <2>6, <2>7, <2>8 DEF IInv
<1> QED BY <1>1, <1>2, <1>3, <1>4, <1>5 DEF Next

(* So it holds in every state.                                             *)
LEMMA Invariance == Spec => []IInv
BY InitIInv, StepIInv, PTL DEF Spec

-----------------------------------------------------------------------------
(* Recombine and the scanner.                                              *)

(* What the tokens of a header say, one after the other.                   *)
Sayings(h) == {<<t.token, SubSeq(h, t.from, t.from + t.len - 1)>> : t \in Token}

(* They are sequences,                                                     *)
LEMMA SaidFacts ==
  ASSUME NEW h, NEW toks \in Seq(Token)
  PROVE  /\ [k \in DOMAIN toks |-> SaidBy(h, toks[k])] \in Seq(Seq(Sayings(h)))
         /\ Said(h, toks) \in Seq(Sayings(h))
<1> DEFINE S == Sayings(h)
           said == [k \in DOMAIN toks |-> SaidBy(h, toks[k])]
<1>1. Len(toks) \in Nat /\ DOMAIN toks = 1 .. Len(toks) /\ \A k \in 1 .. Len(toks) : toks[k] \in Token
  BY LenProperties
<1>2. ASSUME NEW t \in Token PROVE SaidBy(h, t) \in Seq(S)
  <2>1. <<t.token, SubSeq(h, t.from, t.from + t.len - 1)>> \in S
    BY DEF Sayings
  <2> HIDE DEF S
  <2>2. << <<t.token, SubSeq(h, t.from, t.from + t.len - 1)>> >> \in Seq(S) /\ << >> \in Seq(S)
    BY <2>1, RangeOfOne
  <2> QED BY <2>2 DEF SaidBy
<1> HIDE DEF S
<1>3. said \in [1 .. Len(toks) -> Seq(S)]
  BY <1>1, <1>2
<1> HIDE DEF said
<1>4. said \in Seq(Seq(S))
  BY <1>1, <1>3, FirstNumbers
<1>5. FlattenSeq(said) \in Seq(S)
  BY <1>4, FlattenFacts
<1> QED BY <1>4, <1>5 DEF said, S, Said

(* no tokens say nothing, ...                                              *)
LEMMA SaidNone == \A h : Said(h, << >>) = << >>
<1> SUFFICES ASSUME NEW h PROVE Said(h, << >>) = << >>
  OBVIOUS
<1> DEFINE said == [k \in DOMAIN << >> |-> SaidBy(h, << >>[k])]
<1>1. << >> \in Seq(Token)
  BY EmptySeq
<1>2. said \in Seq(Seq(Sayings(h))) /\ DOMAIN said = {}
  BY <1>1, SaidFacts
<1> HIDE DEF said
<1>3. Len(said) = 0
  BY <1>2, LenProperties
<1>4. said = << >>
  BY <1>2, <1>3, EmptySeq
<1>5. FlattenSeq(<< >>) = << >>
  BY <1>1, FlattenOne
<1> QED BY <1>4, <1>5 DEF Said, said

(* ... one token what it says,                                             *)
LEMMA SaidOne ==
  ASSUME NEW h, NEW t \in Token
  PROVE  Said(h, << t >>) = SaidBy(h, t)
<1> DEFINE said == [k \in DOMAIN << t >> |-> SaidBy(h, << t >>[k])]
<1>1. << t >> \in Seq(Token) /\ DOMAIN << t >> = {1} /\ << t >>[1] = t
  OBVIOUS
<1>2. said \in Seq(Seq(Sayings(h))) /\ DOMAIN said = {1} /\ said[1] = SaidBy(h, t)
  BY <1>1, SaidFacts
<1> HIDE DEF said
<1>3. said[1] \in Seq(Sayings(h))
  BY <1>2, LenProperties
<1>4. << said[1] >> \in Seq(Seq(Sayings(h))) /\ Len(<< said[1] >>) = 1 /\ << said[1] >>[1] = said[1]
  BY <1>3
<1>5. Len(said) = 1
  BY <1>2, LenProperties
<1>6. said = << said[1] >>
  BY <1>2, <1>4, <1>5, SeqEqual
<1>7. FlattenSeq(<< said[1] >>) = said[1]
  BY <1>3, FlattenOne
<1> QED BY <1>2, <1>6, <1>7 DEF Said, said

(* ... and one part after the other what both say.                         *)
LEMMA SaidConcat ==
  ASSUME NEW h, NEW a \in Seq(Token), NEW b \in Seq(Token)
  PROVE  a \o b \in Seq(Token) /\ Said(h, a \o b) = Said(h, a) \o Said(h, b)
<1> DEFINE S == Sayings(h)
           of(toks) == [k \in DOMAIN toks |-> SaidBy(h, toks[k])]
           m == Len(a)
           n == Len(b)
           ab == a \o b
<1>1. /\ ab \in Seq(Token) /\ m \in Nat /\ n \in Nat /\ DOMAIN a = 1 .. m /\ DOMAIN b = 1 .. n
      /\ Len(ab) = m + n /\ DOMAIN ab = 1 .. m + n
      /\ \A k \in 1 .. m + n : ab[k] = IF k <= m THEN a[k] ELSE b[k - m]
  BY ConcatProperties, LenProperties
<1> HIDE DEF m, n, ab
<1>2. of(a) \in Seq(Seq(S)) /\ of(b) \in Seq(Seq(S)) /\ of(ab) \in Seq(Seq(S))
  BY <1>1, SaidFacts
<1>3. /\ DOMAIN of(a) = 1 .. m /\ DOMAIN of(b) = 1 .. n /\ DOMAIN of(ab) = 1 .. m + n
      /\ \A k \in 1 .. m : of(a)[k] = SaidBy(h, a[k])
      /\ \A k \in 1 .. n : of(b)[k] = SaidBy(h, b[k])
      /\ \A k \in 1 .. m + n : of(ab)[k] = SaidBy(h, ab[k])
  BY <1>1
<1>4. PICK p, q, pq : p = of(a) /\ q = of(b) /\ pq = of(ab)
  OBVIOUS
<1>s. Said(h, a) = FlattenSeq(p) /\ Said(h, b) = FlattenSeq(q) /\ Said(h, ab) = FlattenSeq(pq)
  BY <1>4 DEF Said
<1> HIDE DEF S, of
<1>5. /\ p \in Seq(Seq(S)) /\ q \in Seq(Seq(S)) /\ pq \in Seq(Seq(S))
      /\ Len(p) = m /\ Len(q) = n /\ Len(pq) = m + n
  <2>1. p \in Seq(Seq(S)) /\ q \in Seq(Seq(S)) /\ pq \in Seq(Seq(S))
    BY <1>2, <1>4
  <2>2. DOMAIN p = 1 .. Len(p) /\ DOMAIN q = 1 .. Len(q) /\ DOMAIN pq = 1 .. Len(pq)
        /\ Len(p) \in Nat /\ Len(q) \in Nat /\ Len(pq) \in Nat
    BY <2>1, LenProperties
  <2>3. \A x \in Nat, y \in Nat : 1 .. x = 1 .. y => x = y
    OBVIOUS
  <2> QED BY <1>1, <1>3, <1>4, <2>1, <2>2, <2>3
<1>6. /\ p \o q \in Seq(Seq(S)) /\ Len(p \o q) = m + n
      /\ \A k \in 1 .. m + n : (p \o q)[k] = IF k <= m THEN p[k] ELSE q[k - m]
  BY <1>5, ConcatProperties
<1>7. ASSUME NEW k \in 1 .. m + n PROVE pq[k] = (p \o q)[k]
  <2>1. CASE k <= m
    <3>1. k \in 1 .. m
      BY <1>1, <2>1
    <3> QED BY <1>1, <1>3, <1>4, <1>6, <2>1, <3>1
  <2>2. CASE ~(k <= m)
    <3>1. k - m \in 1 .. n
      BY <1>1, <2>2
    <3> QED BY <1>1, <1>3, <1>4, <1>6, <2>2, <3>1
  <2> QED BY <2>1, <2>2
<1>8. pq = p \o q
  BY <1>5, <1>6, <1>7, SeqEqual
<1>9. FlattenSeq(p \o q) = FlattenSeq(p) \o FlattenSeq(q)
  BY <1>5, FlattenConcat
<1> QED BY <1>1, <1>s, <1>8, <1>9 DEF ab

(* The same symbols say the same wherever they are.                        *)
LEMMA SaidAgain ==
  ASSUME NEW h \in Seq(Symbol), NEW text \in Seq(Symbol), NEW t \in Token, NEW u \in Token,
         u.token = t.token, u.len = t.len,
         Span(t) \subseteq 1 .. Len(h), Span(u) \subseteq 1 .. Len(text),
         \A j \in 1 .. t.len : text[u.from + j - 1] = h[t.from + j - 1]
  PROVE  SaidBy(text, u) = SaidBy(h, t)
<1> DEFINE a == t.from
           b == t.from + t.len - 1
           c == u.from
           d == u.from + u.len - 1
<1>1. /\ t.from \in Nat /\ t.len \in Nat /\ u.from \in Nat
      /\ a \in Int /\ b \in Int /\ c \in Int /\ d \in Int
      /\ b - a + 1 = t.len /\ d - c + 1 = t.len
      /\ (a <= b <=> t.len > 0) /\ (c <= d <=> t.len > 0)
  BY DEF Token
<1>2. /\ a .. b \subseteq 1 .. Len(h) /\ c .. d \subseteq 1 .. Len(text)
      /\ a .. b = Span(t) /\ c .. d = Span(u)
  BY <1>1 DEF Span
<1>3. (\A i \in a .. b : h[i] \in Symbol) /\ \A i \in c .. d : text[i] \in Symbol
  BY <1>2, ElementOfSeq
<1>4. \A j \in 1 .. t.len : text[c + j - 1] = h[a + j - 1]
  OBVIOUS
<1>5. /\ SubSeq(h, a, b) \in Seq(Symbol) /\ SubSeq(text, c, d) \in Seq(Symbol)
      /\ Len(SubSeq(h, a, b)) = IF a <= b THEN b - a + 1 ELSE 0
      /\ Len(SubSeq(text, c, d)) = IF c <= d THEN d - c + 1 ELSE 0
      /\ \A j \in 1 .. b - a + 1 : SubSeq(h, a, b)[j] = h[a + j - 1]
      /\ \A j \in 1 .. d - c + 1 : SubSeq(text, c, d)[j] = text[c + j - 1]
  <2> HIDE DEF a, b, c, d
  <2> QED BY <1>1, <1>3, SubSeqProperties
<1>6. SubSeq(text, c, d) = SubSeq(h, a, b)
  <2> HIDE DEF a, b, c, d
  <2>1. Len(SubSeq(h, a, b)) = t.len /\ Len(SubSeq(text, c, d)) = t.len
    BY <1>1, <1>5
  <2>2. \A j \in 1 .. t.len : SubSeq(h, a, b)[j] = SubSeq(text, c, d)[j]
    BY <1>1, <1>4, <1>5
  <2> QED BY <1>5, <2>1, <2>2, SeqEqual
<1> QED BY <1>6 DEF SaidBy

(* The flags of the address part: comments are left out, strings have      *)
(* their quotes.                                                           *)
LEMMA FlagFacts ==
  ASSUME NEW t
  PROVE  /\ IsKept(t, AddressFlags) <=> t.token # "("
         /\ ~Unwrapped(t, AddressFlags)
         /\ QuoteMark(t, AddressFlags) = IF t.token = Dquote THEN << Dquote >> ELSE << >>
         /\ "SPACE_ATOMS" \in AddressFlags /\ "STRTOLOWER" \notin AddressFlags
         /\ "(" # Dquote
<1>1. /\ "COMMENTS_TO_QUOTES" \notin AddressFlags /\ "COMMENTS_ONLY" \notin AddressFlags
      /\ "IGNORE_COMMENTS" \in AddressFlags /\ "INCLUDE_QUOTES" \in AddressFlags
      /\ "SPACE_ATOMS" \in AddressFlags /\ "STRTOLOWER" \notin AddressFlags
  BY DEF AddressFlags
<1>2. ~Unwrapped(t, AddressFlags)
  BY Zenon, <1>1 DEF Unwrapped
<1>3. "(" # Dquote
  BY MarksDiffer
<1> QED BY Zenon, <1>1, <1>2, <1>3 DEF IsKept, QuoteMark

(* Whether the token kept before the k-th is an atom.                      *)
AfterAtom(toks, k) ==
  LET before == {j \in 1 .. Len(toks) : toks[j].token # "(" /\ j < k}
  IN before # {} /\ IsAtom(toks[Max(before)])

(* It goes on over comments.                                               *)
LEMMA AfterAtomFacts ==
  ASSUME NEW toks \in Seq(Token)
  PROVE  /\ ~AfterAtom(toks, 1)
         /\ \A k \in 1 .. Len(toks) :
              AfterAtom(toks, k + 1) <=> IF toks[k].token = "(" THEN AfterAtom(toks, k)
                                         ELSE IsAtom(toks[k])
<1> DEFINE n == Len(toks)
           before(k) == {j \in 1 .. n : toks[j].token # "(" /\ j < k}
<1>0. n \in Nat
  BY LenProperties
<1>1. before(1) = {}
  BY <1>0
<1>2. ASSUME NEW k \in 1 .. n
      PROVE  AfterAtom(toks, k + 1) <=> IF toks[k].token = "(" THEN AfterAtom(toks, k)
                                        ELSE IsAtom(toks[k])
  <2>1. CASE toks[k].token = "("
    <3>1. \A j \in 1 .. n : j < k + 1 <=> j < k \/ j = k
      BY <1>0
    <3>2. before(k + 1) = before(k)
      BY <2>1, <3>1
    <3> QED BY Zenon, <2>1, <3>2 DEF AfterAtom
  <2>2. CASE toks[k].token # "("
    <3>1. \A j \in 1 .. n : j < k + 1 => j <= k
      BY <1>0
    <3>2. k \in before(k + 1) /\ before(k + 1) \in SUBSET (0 .. n)
      BY <1>0, <2>2
    <3>3. \A j \in before(k + 1) : j <= k
      BY <3>1
    <3> HIDE DEF before
    <3>4. /\ Max(before(k + 1)) \in before(k + 1)
          /\ \A j \in before(k + 1) : j <= Max(before(k + 1))
      BY <1>0, <3>2, MaxFacts
    <3>5. Max(before(k + 1)) = k
      <4>1. PICK m \in 0 .. n : m = Max(before(k + 1))
        BY <3>2, <3>4
      <4>2. k <= m /\ m <= k
        BY <3>2, <3>3, <3>4, <4>1
      <4> QED BY <4>1, <4>2
    <3>6. before(k + 1) # {}
      BY <3>2
    <3> QED BY Zenon, <2>2, <3>5, <3>6 DEF AfterAtom, before
  <2> QED BY <2>1, <2>2
<1> QED BY <1>1, <1>2 DEF AfterAtom

-----------------------------------------------------------------------------
(* G is what the scanner computes for h, at every place.                   *)
Scanned(h, G) ==
  /\ h \in Seq(Symbol)
  /\ \A at \in ScanIn(h) : G[at] = ScanOf(h, G, at) /\ G[at] \in Laid(h, at[1], Len(h))

(* It finds toks at a place and goes on at another.                        *)
Finds(G, at, toks, to) == G[at] = toks \o G[to]

(* What it is at one place.                                                *)
LEMMA PlaceFacts ==
  ASSUME NEW h \in Seq(Symbol), NEW G, Scanned(h, G),
         NEW i \in 1 .. Len(h) + 1, NEW b \in BOOLEAN
  PROVE  /\ <<i, b>> \in ScanIn(h) /\ G[<<i, b>>] = ScanOf(h, G, <<i, b>>)
         /\ G[<<i, b>>] \in Seq(Token) /\ G[<<i, b>>] \in Laid(h, i, Len(h))
<1>1. <<i, b>> \in ScanIn(h) /\ <<i, b>>[1] = i
  BY DEF ScanIn
<1>2. G[<<i, b>>] = ScanOf(h, G, <<i, b>>) /\ G[<<i, b>>] \in Laid(h, i, Len(h))
  BY <1>1 DEF Scanned
<1> QED BY <1>1, <1>2 DEF Laid

(* Other bytes that the scanner takes for the start of a word.             *)
WordOf(h, q, len) ==
  /\ q \in Nat \ {0} /\ len \in Nat \ {0} /\ q + len <= Len(h) + 1
  /\ \A j \in 1 .. len : h[q + j - 1] \in Other
  /\ h[q] \in Word \/ len > 1

(* They are scanned as one word, when it does not go on behind them ...    *)
LEMMA ScansWord ==
  ASSUME NEW h, NEW G, NEW q, NEW len, NEW b \in BOOLEAN,
         Scanned(h, G), WordOf(h, q, len), ~IsIn(h, q + len, Other)
  PROVE  Finds(G, <<q, b>>, <<Made(Text, q, len)>>, <<q + len, b>>)
<1> DEFINE n == Len(h)
           S == {j \in q .. n + 1 : ~IsIn(h, j, Other)}
<1>h. h \in Seq(Symbol) /\ q \in Nat /\ len \in Nat \ {0}
  BY DEF Scanned, WordOf
<1>0. /\ n \in Nat /\ q \in Nat /\ len \in Nat /\ len > 0
      /\ q \in 1 .. n + 1 /\ q <= n /\ q + len \in q .. n + 1
  <2>1. Len(h) \in Nat
    BY <1>h, LenProperties
  <2>2. q \in Nat \ {0} /\ len \in Nat \ {0} /\ q + len <= Len(h) + 1
    BY DEF WordOf
  <2> QED BY <2>1, <2>2
<1>w. (\A j \in 1 .. len : h[q + j - 1] \in Other) /\ (h[q] \in Word \/ len > 1)
  BY DEF WordOf
<1>1. ASSUME NEW j \in q .. q + len - 1 PROVE h[j] \in Other /\ j <= n
  <2>1. j - q + 1 \in 1 .. len /\ q + (j - q + 1) - 1 = j /\ j <= n
    BY <1>0
  <2> QED BY <1>w, <2>1
<1>2. S \in SUBSET Nat /\ q + len \in S /\ \A j \in S : q + len <= j
  <2>1. \A j \in q .. q + len - 1 : j \notin S
    BY <1>1 DEF IsIn
  <2>2. \A j \in S : j \in q .. n + 1 /\ j \notin q .. q + len - 1
    BY <2>1
  <2>3. \A j \in S : q + len <= j
    BY <1>0, <2>2
  <2> QED BY <1>0, <2>3
<1>3. WordEnd(h, q) = q + len
  <2>1. WordEnd(h, q) = Min(S)
    BY DEF WordEnd
  <2> HIDE DEF S
  <2>2. Min(S) \in S /\ Min(S) \in Nat /\ \A j \in S : Min(S) <= j
    BY <1>2, MinFacts
  <2>3. PICK m \in Nat : m = Min(S)
    BY <2>2
  <2>4. m <= q + len /\ q + len <= m
    BY <1>2, <2>2, <2>3
  <2>5. m = q + len
    BY <1>0, <2>4
  <2> QED BY <2>1, <2>3, <2>5
<1>4. WordAt(h, q)
  <2>1. h[q] \in Other /\ q <= n
    BY <1>0, <1>1
  <2>2. CASE h[q] \in Word
    BY <2>1, <2>2 DEF WordAt, IsIn
  <2>3. CASE h[q] \notin Word
    <3>1. h[q] = Backslash
      BY <2>1, <2>3 DEF Other
    <3>2. h[q + 1] \in Other /\ q + 1 <= n
      BY <1>0, <1>1, <1>w, <2>3
    <3> QED BY <2>1, <3>1, <3>2 DEF WordAt, IsIn
  <2> QED BY <2>2, <2>3
<1> HIDE DEF n, S
<1>5. (q + len) - q = len
  BY <1>h
<1>6. ScanOf(h, G, <<q, b>>) = <<Made(Text, q, len)>> \o G[<<q + len, b>>]
  <2>1. ScanOf(h, G, <<q, b>>) = <<Made(Text, q, WordEnd(h, q) - q)>> \o G[<<WordEnd(h, q), b>>]
    BY <1>0, <1>4, <1>h, ScanBranches DEF n
  <2> QED BY <1>3, <1>5, <2>1
<1>7. G[<<q, b>>] = ScanOf(h, G, <<q, b>>)
  BY <1>0, <1>h, PlaceFacts DEF n
<1> QED BY <1>6, <1>7 DEF Finds

(* ... and what is between two quotes as one string.                       *)
StringOf(h, q, len) ==
  /\ q \in Nat \ {0} /\ len \in Nat /\ q + len + 1 <= Len(h)
  /\ h[q] = Dquote /\ h[q + len + 1] = Dquote
  /\ \A j \in 1 .. len : h[q + j] # Dquote

(* It is scanned as that.                                                  *)
LEMMA ScansString ==
  ASSUME NEW h, NEW G, NEW q, NEW len, NEW b \in BOOLEAN,
         Scanned(h, G), StringOf(h, q, len)
  PROVE  Finds(G, <<q, b>>, <<Made(Dquote, q + 1, len)>>, <<q + len + 2, b>>)
<1> DEFINE n == Len(h)
           S == Quotes(h, q)
<1>h. h \in Seq(Symbol)
  BY DEF Scanned
<1>0. /\ n \in Nat /\ q \in Nat /\ len \in Nat
      /\ q \in 1 .. n + 1 /\ q <= n /\ q + len + 1 \in q + 1 .. n
  <2>1. Len(h) \in Nat
    BY <1>h, LenProperties
  <2>2. q \in Nat \ {0} /\ len \in Nat /\ q + len + 1 <= Len(h)
    BY DEF StringOf
  <2> QED BY <2>1, <2>2
<1>w. h[q] = Dquote /\ h[q + len + 1] = Dquote /\ \A j \in 1 .. len : h[q + j] # Dquote
  BY DEF StringOf
<1>1. S \in SUBSET Nat /\ q + len + 1 \in S /\ \A j \in S : q + len + 1 <= j
  <2>1. S = {j \in q + 1 .. n : h[j] = Dquote}
    BY DEF Quotes
  <2> HIDE DEF S
  <2>2. ASSUME NEW j \in S PROVE q + len + 1 <= j
    <3>1. j \in q + 1 .. n /\ h[j] = Dquote
      BY <2>1
    <3>2. CASE j < q + len + 1
      <4>1. j - q \in 1 .. len /\ q + (j - q) = j
        BY <1>0, <3>1, <3>2
      <4> QED BY <1>w, <3>1, <4>1
    <3> QED BY <1>0, <3>1, <3>2
  <2> QED BY <1>0, <1>w, <2>1, <2>2
<1>2. Min(S) = q + len + 1 /\ S # {}
  <2> HIDE DEF S
  <2>2. Min(S) \in S /\ Min(S) \in Nat /\ \A j \in S : Min(S) <= j
    BY <1>1, MinFacts
  <2>3. PICK m \in Nat : m = Min(S)
    BY <2>2
  <2>4. m <= q + len + 1 /\ q + len + 1 <= m
    BY <1>1, <2>2, <2>3
  <2>5. m = q + len + 1
    BY <1>0, <2>4
  <2> QED BY <1>1, <2>3, <2>5
<1>3. IsIn(h, q, {Dquote})
  BY <1>0, <1>w DEF IsIn
<1> HIDE DEF n
<1>5. (q + len + 1) - q - 1 = len /\ (q + len + 1) + 1 = q + len + 2
  BY <1>0
<1>6. ScanOf(h, G, <<q, b>>) = <<Made(Dquote, q + 1, len)>> \o G[<<q + len + 2, b>>]
  <2>1. ScanOf(h, G, <<q, b>>)
          = <<Made(Dquote, q + 1, Min(Quotes(h, q)) - q - 1)>>
            \o G[<<Min(Quotes(h, q)) + 1, b>>]
    BY <1>0, <1>2, <1>3, <1>h, ScanBranches DEF n
  <2> QED BY <1>2, <1>5, <2>1
<1>7. G[<<q, b>>] = ScanOf(h, G, <<q, b>>)
  BY <1>0, <1>h, PlaceFacts DEF n
<1> QED BY <1>6, <1>7 DEF Finds

(* A space is skipped.                                                     *)
LEMMA ScansSpace ==
  ASSUME NEW h \in Seq(Symbol), NEW G, Scanned(h, G), NEW b \in BOOLEAN,
         NEW i \in 1 .. Len(h)
  PROVE  h[i] = " " => G[<<i, b>>] = G[<<i + 1, b>>] /\ ~IsIn(h, i, Other)
<1>3. i \in 1 .. Len(h) + 1 /\ i <= Len(h)
  BY LenProperties
<1> SUFFICES ASSUME h[i] = " " PROVE G[<<i, b>>] = G[<<i + 1, b>>] /\ ~IsIn(h, i, Other)
  OBVIOUS
<1>1. /\ " " \notin Word /\ " " # Backslash /\ " " \notin Atom /\ " " # Dquote
      /\ " " # "(" /\ " " # "<" /\ " " # ">"
  BY WordAssumption DEF Backslash, Dquote, Atom
<1>n. /\ ~IsIn(h, i, Word) /\ ~IsIn(h, i, {Backslash}) /\ ~IsIn(h, i, Atom)
      /\ ~IsIn(h, i, {Dquote}) /\ ~IsIn(h, i, {"("}) /\ ~IsIn(h, i, {"<"})
      /\ ~IsIn(h, i, {">"}) /\ ~IsIn(h, i, Other)
  BY Zenon, <1>1 DEF IsIn, Other
<1>2. NoneAt(h, i, b)
  BY Zenon, <1>3, <1>n DEF NoneAt, WordAt, EmptyAt, OpenAt, ShutAt
<1>4. ScanOf(h, G, <<i, b>>) = G[<<i + 1, b>>]
  BY <1>2, <1>3, ScanBranches
<1> QED BY <1>n, <1>3, <1>4, PlaceFacts

(* A mark is a token of its own.                                           *)
LEMMA ScansMark ==
  ASSUME NEW h, NEW G, NEW q, Scanned(h, G), q \in 1 .. Len(h)
  PROVE  /\ h[q] \in Atom => \A b \in BOOLEAN :
              Finds(G, <<q, b>>, <<Made(h[q], q, 1)>>, <<q + 1, b>>)
         /\ h[q] = ">" =>
              Finds(G, <<q, TRUE>>, <<Made(">", q, 1)>>, <<q + 1, FALSE>>)
         /\ h[q] = "<" /\ ~IsIn(h, q + 1, {">"}) =>
              Finds(G, <<q, FALSE>>, <<Made("<", q, 1)>>, <<q + 1, TRUE>>)
         /\ h[q] = "<" /\ IsIn(h, q + 1, {">"}) => \A b \in BOOLEAN :
              Finds(G, <<q, b>>, <<Made("<", q, 1), Made(Text, q, 0), Made(">", q + 1, 1)>>,
                    <<q + 2, b>>)
         /\ h[q] \in Mark => ~IsIn(h, q, Other)
<1>h. h \in Seq(Symbol)
  BY DEF Scanned
<1>0. q \in 1 .. Len(h) + 1 /\ q <= Len(h) /\ Len(h) \in Nat
  BY <1>h, LenProperties
<1>p. \A b \in BOOLEAN : G[<<q, b>>] = ScanOf(h, G, <<q, b>>)
  BY <1>0, <1>h, PlaceFacts
<1>b. TRUE \in BOOLEAN /\ FALSE \in BOOLEAN
  OBVIOUS
<1>1. ASSUME h[q] \in Atom, NEW b \in BOOLEAN
      PROVE  Finds(G, <<q, b>>, <<Made(h[q], q, 1)>>, <<q + 1, b>>)
  <2>1. IsIn(h, q, Atom)
    BY Zenon, <1>0, <1>1 DEF IsIn
  <2>2. ScanOf(h, G, <<q, b>>) = <<Made(h[q], q, 1)>> \o G[<<q + 1, b>>]
    BY <1>0, <1>h, <2>1, ScanBranches
  <2> QED BY Zenon, <1>p, <2>2 DEF Finds
<1>2. ASSUME h[q] = ">"
      PROVE  Finds(G, <<q, TRUE>>, <<Made(">", q, 1)>>, <<q + 1, FALSE>>)
  <2>1. ShutAt(h, q, TRUE)
    BY Zenon, <1>0, <1>2 DEF ShutAt, IsIn
  <2>2. ScanOf(h, G, <<q, TRUE>>) = <<Made(">", q, 1)>> \o G[<<q + 1, FALSE>>]
    BY Zenon, <1>0, <1>h, <1>b, <2>1, ScanBranches
  <2> QED BY Zenon, <1>p, <1>b, <2>2 DEF Finds
<1>3. ASSUME h[q] = "<", ~IsIn(h, q + 1, {">"})
      PROVE  Finds(G, <<q, FALSE>>, <<Made("<", q, 1)>>, <<q + 1, TRUE>>)
  <2>1. OpenAt(h, q, FALSE)
    BY Zenon, <1>0, <1>3 DEF OpenAt, IsIn
  <2>2. ScanOf(h, G, <<q, FALSE>>) = <<Made("<", q, 1)>> \o G[<<q + 1, TRUE>>]
    BY Zenon, <1>0, <1>h, <1>b, <2>1, ScanBranches
  <2> QED BY Zenon, <1>p, <1>b, <2>2 DEF Finds
<1>4. ASSUME h[q] = "<", IsIn(h, q + 1, {">"}), NEW b \in BOOLEAN
      PROVE  Finds(G, <<q, b>>, <<Made("<", q, 1), Made(Text, q, 0), Made(">", q + 1, 1)>>,
                   <<q + 2, b>>)
  <2>1. EmptyAt(h, q)
    BY Zenon, <1>0, <1>4 DEF EmptyAt, IsIn
  <2>2. ScanOf(h, G, <<q, b>>)
          = <<Made("<", q, 1), Made(Text, q, 0), Made(">", q + 1, 1)>> \o G[<<q + 2, b>>]
    BY <1>0, <1>h, <2>1, ScanBranches
  <2> QED BY Zenon, <1>p, <2>2 DEF Finds
<1>5. ASSUME h[q] \in Mark PROVE ~IsIn(h, q, Other)
  BY Zenon, <1>5, WordAssumption, MarksDiffer, KindFacts DEF Mark, Other, IsIn
<1> QED BY Zenon, <1>1, <1>2, <1>3, <1>4, <1>5

-----------------------------------------------------------------------------
(* How the text that is made of tokens has them, in order, from off on: an *)
(* atom behind an atom has a space in front, a string its quotes.          *)
Gap(T, k) == IsAtom(T[k]) /\ AfterAtom(T, k)
Start(T, k, off) == off[k] + (IF Gap(T, k) THEN 2 ELSE 1)
Shift(t) == IF t.token = Dquote THEN 1 ELSE 0
Copied(h, t, text, q) ==
  /\ \A j \in 1 .. t.len : text[q + Shift(t) + j - 1] = h[t.from + j - 1]
  /\ t.token = Dquote => text[q] = Dquote /\ text[q + t.len + 1] = Dquote
Restoring(h, T, text, off) ==
  /\ text \in Seq(Symbol)
  /\ off \in [1 .. Len(T) + 1 -> Nat] /\ off[1] = 0 /\ off[Len(T) + 1] = Len(text)
  /\ \A k \in 1 .. Len(T) : T[k].token = "(" => off[k + 1] = off[k]
  /\ \A k \in 1 .. Len(T) : T[k].token # "(" =>
       /\ Gap(T, k) => text[off[k] + 1] = " "
       /\ off[k + 1] + 1 = Start(T, k, off) + T[k].len + 2 * Shift(T[k])
       /\ off[k + 1] <= Len(text)
       /\ Copied(h, T[k], text, Start(T, k, off))

(* Where the elements of four sequences are when they are put together.    *)
InParts(z, a, b, c, d) ==
  /\ Len(z) = Len(a) + Len(b) + Len(c) + Len(d)
  /\ \A j \in 1 .. Len(a) : z[j] = a[j]
  /\ \A j \in 1 .. Len(b) : z[Len(a) + j] = b[j]
  /\ \A j \in 1 .. Len(c) : z[Len(a) + Len(b) + j] = c[j]
  /\ \A j \in 1 .. Len(d) : z[Len(a) + Len(b) + Len(c) + j] = d[j]

(* Four sequences put together.                                            *)
LEMMA FourParts ==
  ASSUME NEW S, NEW a \in Seq(S), NEW b \in Seq(S), NEW c \in Seq(S), NEW d \in Seq(S)
  PROVE  a \o b \o c \o d \in Seq(S) /\ InParts(a \o b \o c \o d, a, b, c, d)
<1>0. Len(a) \in Nat /\ Len(b) \in Nat /\ Len(c) \in Nat /\ Len(d) \in Nat
  BY LenProperties
<1>s. PICK x : x = a \o b
  OBVIOUS
<1>t. PICK y : y = x \o c
  OBVIOUS
<1>u. PICK z : z = y \o d
  OBVIOUS
<1>1. /\ x \in Seq(S) /\ Len(x) = Len(a) + Len(b)
      /\ \A j \in 1 .. Len(a) + Len(b) : x[j] = IF j <= Len(a) THEN a[j] ELSE b[j - Len(a)]
  BY <1>s, ConcatProperties
<1>2. /\ y \in Seq(S) /\ Len(y) = Len(x) + Len(c)
      /\ \A j \in 1 .. Len(x) + Len(c) : y[j] = IF j <= Len(x) THEN x[j] ELSE c[j - Len(x)]
  <2>1. PICK p : p = x
    OBVIOUS
  <2>2. p \in Seq(S) /\ y = p \o c
    BY <1>1, <1>t, <2>1
  <2>3. /\ p \o c \in Seq(S) /\ Len(p \o c) = Len(p) + Len(c)
        /\ \A j \in 1 .. Len(p) + Len(c) :
             (p \o c)[j] = IF j <= Len(p) THEN p[j] ELSE c[j - Len(p)]
    BY <2>2, ConcatProperties
  <2> QED BY <2>1, <2>2, <2>3
<1>3. /\ z \in Seq(S) /\ Len(z) = Len(y) + Len(d)
      /\ \A j \in 1 .. Len(y) + Len(d) : z[j] = IF j <= Len(y) THEN y[j] ELSE d[j - Len(y)]
  <2>1. PICK p : p = y
    OBVIOUS
  <2>2. p \in Seq(S) /\ z = p \o d
    BY <1>2, <1>u, <2>1
  <2>3. /\ p \o d \in Seq(S) /\ Len(p \o d) = Len(p) + Len(d)
        /\ \A j \in 1 .. Len(p) + Len(d) :
             (p \o d)[j] = IF j <= Len(p) THEN p[j] ELSE d[j - Len(p)]
    BY <2>2, ConcatProperties
  <2> QED BY <2>1, <2>2, <2>3
<1>4. Len(z) = Len(a) + Len(b) + Len(c) + Len(d)
  BY <1>0, <1>1, <1>2, <1>3
<1>5. ASSUME NEW j \in 1 .. Len(a) PROVE z[j] = a[j]
  <2>1. /\ j \in 1 .. Len(a) + Len(b) /\ j \in 1 .. Len(x) + Len(c)
        /\ j \in 1 .. Len(y) + Len(d) /\ j <= Len(a) /\ j <= Len(x) /\ j <= Len(y)
    BY <1>0, <1>1, <1>2
  <2> QED BY <1>1, <1>2, <1>3, <2>1
<1>6. ASSUME NEW j \in 1 .. Len(b) PROVE z[Len(a) + j] = b[j]
  <2>1. PICK m : m = Len(a) + j
    OBVIOUS
  <2>2. /\ m \in 1 .. Len(a) + Len(b) /\ m \in 1 .. Len(x) + Len(c)
        /\ m \in 1 .. Len(y) + Len(d) /\ ~(m <= Len(a)) /\ m <= Len(x) /\ m <= Len(y)
        /\ m - Len(a) = j
    BY <1>0, <1>1, <1>2, <2>1
  <2> QED BY <1>1, <1>2, <1>3, <2>1, <2>2
<1>7. ASSUME NEW j \in 1 .. Len(c) PROVE z[Len(a) + Len(b) + j] = c[j]
  <2>1. PICK m : m = Len(a) + Len(b) + j
    OBVIOUS
  <2>2. /\ m \in 1 .. Len(x) + Len(c) /\ m \in 1 .. Len(y) + Len(d)
        /\ ~(m <= Len(x)) /\ m <= Len(y) /\ m - Len(x) = j
    BY <1>0, <1>1, <1>2, <2>1
  <2> QED BY <1>2, <1>3, <2>1, <2>2
<1>8. ASSUME NEW j \in 1 .. Len(d) PROVE z[Len(a) + Len(b) + Len(c) + j] = d[j]
  <2>1. PICK m : m = Len(a) + Len(b) + Len(c) + j
    OBVIOUS
  <2>2. m \in 1 .. Len(y) + Len(d) /\ ~(m <= Len(y)) /\ m - Len(y) = j
    BY <1>0, <1>1, <1>2, <2>1
  <2> QED BY <1>3, <2>1, <2>2
<1>9. InParts(z, a, b, c, d)
  BY <1>4, <1>5, <1>6, <1>7, <1>8 DEF InParts
<1> QED BY <1>s, <1>t, <1>u, <1>3, <1>9

(* Recombine makes such a text for the address part.                       *)
LEMMA Restores ==
  ASSUME NEW h \in Seq(Symbol), NEW T \in Laid(h, 1, Len(h))
  PROVE  \E off : Restoring(h, T, Recombine(h, T, 1, Len(T), AddressFlags), off)
<1> DEFINE n == Len(T)
           flags == AddressFlags
           last == Min({1 + n - 1, Len(T)})
           kept == {k \in 1 .. last : IsKept(T[k], flags)}
           lead(k) == IF Spaced(T, kept, k, flags) THEN << " " >> ELSE << >>
           mark(k) == QuoteMark(T[k], flags)
           said(k) == Value(h, T[k], flags)
           piece(k) == IF k \in kept THEN lead(k) \o mark(k) \o said(k) \o mark(k)
                       ELSE << >>
           pieces == [k \in 1 .. last - 1 + 1 |-> piece(1 + k - 1)]
           text == Recombine(h, T, 1, Len(T), flags)
<1>0. /\ T \in Seq(Token) /\ n \in Nat /\ DOMAIN T = 1 .. n /\ Len(h) \in Nat
      /\ \A k \in 1 .. n : T[k] \in Token /\ Span(T[k]) \subseteq 1 .. Len(h)
  BY LenProperties DEF Laid
<1>1. last = n
  <2>1. 1 + n - 1 = n /\ n \in Int
    BY <1>0
  <2>2. Min({n, n}) = n
    BY <2>1, MinPair
  <2> QED BY <2>1, <2>2
<1>2. text = FlattenSeq(pieces)
  BY Zenon, FlagFacts DEF Recombine
<1> HIDE DEF text, last
<1>3. kept = {k \in 1 .. n : T[k].token # "("}
  BY Zenon, <1>1, FlagFacts
<1>4. \A k : lead(k) = IF Gap(T, k) THEN << " " >> ELSE << >>
  BY Zenon, <1>3, FlagFacts DEF Spaced, Gap, AfterAtom
<1>5. \A k : mark(k) = IF T[k].token = Dquote THEN << Dquote >> ELSE << >>
  BY FlagFacts
<1>6. \A k : said(k) = SubSeq(h, T[k].from, T[k].from + T[k].len - 1)
  BY Zenon, FlagFacts DEF Value
<1>7. ASSUME NEW k \in 1 .. n, T[k].token # "("
      PROVE  LET g == IF Gap(T, k) THEN 1 ELSE 0
                 s == Shift(T[k])
             IN /\ piece(k) \in Seq(Symbol) /\ Len(piece(k)) = g + T[k].len + 2 * s
                /\ Gap(T, k) => piece(k)[1] = " "
                /\ \A j \in 1 .. T[k].len : piece(k)[g + s + j] = h[T[k].from + j - 1]
                /\ s = 1 => /\ piece(k)[g + 1] = Dquote
                            /\ piece(k)[g + s + T[k].len + 1] = Dquote
  <2> DEFINE g == IF Gap(T, k) THEN 1 ELSE 0
             s == Shift(T[k])
  <2>1. " " \in Symbol /\ Dquote \in Symbol
    BY DEF Symbol
  <2>2. /\ << " " >> \in Seq(Symbol) /\ << Dquote >> \in Seq(Symbol) /\ << >> \in Seq(Symbol)
        /\ Len(<< " " >>) = 1 /\ Len(<< Dquote >>) = 1 /\ Len(<< >>) = 0
        /\ << " " >>[1] = " " /\ << Dquote >>[1] = Dquote
    <3>1. /\ << " " >> \in Seq(Symbol) /\ << Dquote >> \in Seq(Symbol) /\ << >> \in Seq(Symbol)
      BY <2>1, RangeOfOne
    <3>2. Len(<< " " >>) = 1 /\ Len(<< Dquote >>) = 1 /\ Len(<< >>) = 0
      OBVIOUS
    <3>3. << " " >>[1] = " " /\ << Dquote >>[1] = Dquote
      OBVIOUS
    <3> QED BY <3>1, <3>2, <3>3
  <2>z. Gap(T, k) => g = 1
    OBVIOUS
  <2>3. lead(k) \in Seq(Symbol) /\ Len(lead(k)) = g /\ (Gap(T, k) => lead(k)[1] = " ")
    <3>1. CASE Gap(T, k)
      <4>1. lead(k) = << " " >> /\ g = 1
        BY Zenon, <1>4, <3>1
      <4> QED BY Zenon, <4>1, <2>2
    <3>2. CASE ~Gap(T, k)
      <4>1. lead(k) = << >> /\ g = 0
        BY Zenon, <1>4, <3>2
      <4> QED BY Zenon, <3>2, <4>1, <2>2
    <3> QED BY Zenon, <3>1, <3>2
  <2>4. mark(k) \in Seq(Symbol) /\ Len(mark(k)) = s /\ (s = 1 => mark(k)[1] = Dquote)
    <3>1. CASE T[k].token = Dquote
      <4>1. mark(k) = << Dquote >> /\ s = 1
        BY Zenon, <1>5, <3>1 DEF Shift
      <4> QED BY Zenon, <4>1, <2>2
    <3>2. CASE T[k].token # Dquote
      <4>1. mark(k) = << >> /\ s = 0 /\ s # 1
        BY <1>5, <3>2 DEF Shift
      <4> QED BY Zenon, <4>1, <2>2
    <3> QED BY Zenon, <3>1, <3>2
  <2>5. /\ said(k) \in Seq(Symbol) /\ Len(said(k)) = T[k].len
        /\ \A j \in 1 .. T[k].len : said(k)[j] = h[T[k].from + j - 1]
    <3> DEFINE c == T[k].from
               d == T[k].from + T[k].len - 1
    <3>0. T[k].from \in Nat /\ T[k].len \in Nat
      BY <1>0 DEF Token
    <3>1. /\ T[k].from \in Nat /\ T[k].len \in Nat /\ c \in Int /\ d \in Int
          /\ d - c + 1 = T[k].len /\ (c <= d <=> T[k].len > 0)
      BY <3>0
    <3>2. \A i \in c .. d : h[i] \in Symbol
      BY <1>0, ElementOfSeq DEF Span
    <3>3. said(k) = SubSeq(h, c, d)
      BY <1>6
    <3> HIDE DEF said
    <3>4. /\ SubSeq(h, c, d) \in Seq(Symbol)
          /\ Len(SubSeq(h, c, d)) = IF c <= d THEN d - c + 1 ELSE 0
          /\ \A j \in 1 .. d - c + 1 : SubSeq(h, c, d)[j] = h[c + j - 1]
      <4> HIDE DEF c, d
      <4> QED BY <3>1, <3>2, SubSeqProperties
    <3> QED BY <3>1, <3>3, <3>4
  <2>6. piece(k) = lead(k) \o mark(k) \o said(k) \o mark(k)
    BY <1>3, <1>7
  <2>7. g \in {0, 1} /\ (Gap(T, k) => g = 1) /\ s \in {0, 1} /\ T[k].len \in Nat
    BY <1>0 DEF Shift, Token
  <2>8. PICK a, b, c : a = lead(k) /\ b = mark(k) /\ c = said(k)
    OBVIOUS
  <2>9. PICK all : all = piece(k)
    OBVIOUS
  <2>10. all = a \o b \o c \o b
    BY <2>6, <2>8, <2>9
  <2> HIDE DEF lead, mark, said, piece, g, s
  <2>11. /\ a \in Seq(Symbol) /\ b \in Seq(Symbol) /\ c \in Seq(Symbol)
         /\ Len(a) = g /\ Len(b) = s /\ Len(c) = T[k].len
    BY <2>3, <2>4, <2>5, <2>8
  <2>l. all \in Seq(Symbol) /\ InParts(all, a, b, c, b)
    BY <2>10, <2>11, FourParts
  <2>12. /\ all \in Seq(Symbol) /\ Len(all) = g + s + T[k].len + s
         /\ \A j \in 1 .. g : all[j] = a[j]
         /\ \A j \in 1 .. s : all[g + j] = b[j]
         /\ \A j \in 1 .. T[k].len : all[g + s + j] = c[j]
         /\ \A j \in 1 .. s : all[g + s + T[k].len + j] = b[j]
    BY Zenon, <2>11, <2>l DEF InParts
  <2>13. g + s + T[k].len + s = g + T[k].len + 2 * s
    BY <2>7
  <2>14. Gap(T, k) => all[1] = " "
    <3>1. Gap(T, k) => 1 \in 1 .. g
      BY <2>7
    <3> QED BY Zenon, <2>3, <2>8, <2>12, <3>1
  <2>15. \A j \in 1 .. T[k].len : all[g + s + j] = h[T[k].from + j - 1]
    BY <2>5, <2>8, <2>12
  <2>16. s = 1 => all[g + 1] = Dquote /\ all[g + s + T[k].len + 1] = Dquote
    BY <2>4, <2>8, <2>12
  <2> QED BY <2>9, <2>12, <2>13, <2>14, <2>15, <2>16 DEF g, s
<1>8. ASSUME NEW k \in 1 .. n, T[k].token = "("
      PROVE  piece(k) = << >> /\ piece(k) \in Seq(Symbol) /\ Len(piece(k)) = 0
  <2>1. piece(k) = << >>
    BY <1>3, <1>8
  <2>2. " " \in Symbol
    BY DEF Symbol
  <2> QED BY <2>1, EmptySeq
<1> HIDE DEF kept, lead, mark, said, piece
<1>9. /\ pieces \in Seq(Seq(Symbol)) /\ Len(pieces) = n
      /\ \A k \in 1 .. n : pieces[k] = piece(k)
  <2>1. last - 1 + 1 = n /\ \A k \in 1 .. n : 1 + k - 1 = k
    BY <1>0, <1>1
  <2>2. DOMAIN pieces = 1 .. n /\ \A k \in 1 .. n : pieces[k] = piece(k)
    BY <2>1
  <2>3. pieces = [k \in 1 .. n |-> piece(k)]
    BY <2>1
  <2>4. pieces \in [1 .. n -> Seq(Symbol)]
    BY <1>7, <1>8, <2>3
  <2> HIDE DEF pieces
  <2>5. pieces \in Seq(Seq(Symbol))
    BY <1>0, <2>4, FirstNumbers
  <2>6. Len(pieces) \in Nat /\ 1 .. Len(pieces) = 1 .. n
    BY <2>2, <2>5, LenProperties
  <2>7. Len(pieces) = n
    BY <1>0, <2>6
  <2> QED BY <2>2, <2>5, <2>7
<1> HIDE DEF pieces
<1>10. text \in Seq(Symbol)
  BY <1>2, <1>9, FlattenFacts
<1>11. PICK off \in [1 .. n + 1 -> Nat] :
         /\ off[1] = 0 /\ off[n + 1] = Len(text)
         /\ \A k \in 1 .. n :
              /\ off[k + 1] = off[k] + Len(pieces[k])
              /\ off[k + 1] <= Len(text)
              /\ \A j \in 1 .. Len(pieces[k]) : text[off[k] + j] = pieces[k][j]
  BY <1>2, <1>9, FlattenPlaces
<1>12. ASSUME NEW k \in 1 .. n, T[k].token = "(" PROVE off[k + 1] = off[k]
  <2>1. off[k] \in Nat
    BY <1>0
  <2>2. Len(pieces[k]) = 0
    <3>1. pieces[k] = piece(k) /\ Len(piece(k)) = 0
      BY <1>8, <1>9, <1>12
    <3> QED BY Zenon, <3>1
  <2>3. off[k + 1] = off[k] + Len(pieces[k])
    BY <1>11
  <2>4. off[k + 1] = off[k] + 0
    BY Zenon, <2>2, <2>3
  <2> QED BY <2>1, <2>4
<1>13. ASSUME NEW k \in 1 .. n, T[k].token # "("
       PROVE  /\ Gap(T, k) => text[off[k] + 1] = " "
              /\ off[k + 1] + 1 = Start(T, k, off) + T[k].len + 2 * Shift(T[k])
              /\ off[k + 1] <= Len(text)
              /\ Copied(h, T[k], text, Start(T, k, off))
  <2> DEFINE g == IF Gap(T, k) THEN 1 ELSE 0
             s == Shift(T[k])
             len == T[k].len
             o == off[k]
             all == pieces[k]
  <2>1. /\ all \in Seq(Symbol) /\ Len(all) = g + len + 2 * s
        /\ Gap(T, k) => all[1] = " "
        /\ \A j \in 1 .. len : all[g + s + j] = h[T[k].from + j - 1]
        /\ s = 1 => all[g + 1] = Dquote /\ all[g + s + len + 1] = Dquote
    BY <1>7, <1>9, <1>13
  <2>2. g \in {0, 1} /\ (Gap(T, k) => g = 1) /\ s \in {0, 1} /\ len \in Nat /\ o \in Nat
    BY <1>0 DEF Shift, Token
  <2>m. Len(all) = g + len + 2 * s
    BY Zenon, <2>1
  <2>n. Len(all) = g + len + 2 * s /\ Len(all) \in Nat
    BY <2>2, <2>m
  <2>3. Start(T, k, off) = o + g + 1
    BY <2>2 DEF Start
  <2>4. /\ off[k + 1] = o + Len(all) /\ off[k + 1] <= Len(text)
        /\ \A j \in 1 .. Len(all) : text[o + j] = all[j]
    BY <1>11
  <2>d. T[k].token = Dquote <=> s = 1
    BY DEF Shift
  <2> HIDE DEF g, s, len, o, all
  <2>5. Gap(T, k) => text[o + 1] = " "
    <3>1. Gap(T, k) => 1 \in 1 .. Len(all)
      BY <2>2, <2>n
    <3> QED BY <2>1, <2>4, <3>1
  <2>6. off[k + 1] + 1 = (o + g + 1) + len + 2 * s
    BY <2>2, <2>4, <2>n
  <2>7. ASSUME NEW j \in 1 .. len
        PROVE  text[(o + g + 1) + s + j - 1] = h[T[k].from + j - 1]
    <3>1. g + s + j \in 1 .. Len(all) /\ o + (g + s + j) = (o + g + 1) + s + j - 1
      BY <2>2, <2>n
    <3> QED BY <2>1, <2>4, <3>1
  <2>8. s = 1 => text[o + g + 1] = Dquote /\ text[(o + g + 1) + len + 1] = Dquote
    <3>1. s = 1 => /\ g + 1 \in 1 .. Len(all) /\ g + s + len + 1 \in 1 .. Len(all)
                   /\ o + (g + 1) = o + g + 1
                   /\ o + (g + s + len + 1) = (o + g + 1) + len + 1
      BY <2>2, <2>n
    <3> QED BY <2>1, <2>4, <3>1
  <2>9. Copied(h, T[k], text, o + g + 1)
    BY <2>7, <2>8, <2>d DEF Copied, s, len
  <2> QED BY <2>3, <2>4, <2>5, <2>6, <2>9 DEF o, s, len
<1>14. Restoring(h, T, text, off)
  BY <1>10, <1>11, <1>12, <1>13 DEF Restoring
<1> QED BY <1>14 DEF text

-----------------------------------------------------------------------------
(* toks are the tokens of T from the k-th on.                              *)
TailOf(T, k, toks) ==
  /\ toks \in Seq(Token) /\ k + Len(toks) = Len(T) + 1
  /\ \A j \in 1 .. Len(toks) : toks[j] = T[k + j - 1]

(* The first of them is the k-th.                                          *)
LEMMA TailMore ==
  ASSUME NEW T \in Seq(Token), NEW k \in 1 .. Len(T) + 1, NEW t \in Token,
         NEW more \in Seq(Token), TailOf(T, k, << t >> \o more)
  PROVE  k \in 1 .. Len(T) /\ T[k] = t /\ TailOf(T, k + 1, more)
<1> DEFINE n == Len(T)
           m == Len(more)
<1>1. PICK toks : toks = << t >> \o more
  OBVIOUS
<1>2. << t >> \in Seq(Token) /\ Len(<< t >>) = 1 /\ << t >>[1] = t
  OBVIOUS
<1>3. n \in Nat /\ m \in Nat
  BY LenProperties
<1>4. /\ Len(toks) = 1 + m
      /\ \A j \in 1 .. 1 + m : toks[j] = IF j <= 1 THEN << t >>[j] ELSE more[j - 1]
  BY <1>1, <1>2, ConcatProperties
<1>5. k + Len(toks) = n + 1 /\ \A j \in 1 .. Len(toks) : toks[j] = T[k + j - 1]
  BY <1>1 DEF TailOf
<1> HIDE DEF n, m
<1>6. k \in 1 .. n /\ (k + 1) + m = n + 1 /\ k + 1 - 1 = k
  BY <1>3, <1>4, <1>5
<1>7. T[k] = t
  <2>1. 1 \in 1 .. 1 + m
    BY <1>3
  <2>2. toks[1] = t
    BY <1>2, <1>4, <2>1
  <2>3. toks[1] = T[k + 1 - 1]
    BY <1>4, <1>5, <2>1
  <2> QED BY <1>6, <2>2, <2>3
<1>8. ASSUME NEW j \in 1 .. m PROVE more[j] = T[(k + 1) + j - 1]
  <2>1. PICK i : i = j + 1
    OBVIOUS
  <2>2. i \in 1 .. 1 + m /\ ~(i <= 1) /\ i - 1 = j /\ k + i - 1 = (k + 1) + j - 1
    BY <1>3, <1>6, <2>1
  <2> QED BY <1>4, <1>5, <2>2
<1> QED BY <1>6, <1>7, <1>8 DEF TailOf, n, m

(* None are behind the last, all are from the first on.                    *)
LEMMA TailNone ==
  ASSUME NEW T \in Seq(Token), NEW k \in 1 .. Len(T) + 1
  PROVE  /\ TailOf(T, k, << >>) => k = Len(T) + 1
         /\ TailOf(T, k, T) => k = 1
         /\ TailOf(T, 1, T)
<1>1. Len(T) \in Nat /\ Len(<< >>) = 0
  BY LenProperties
<1>2. TailOf(T, k, << >>) => k = Len(T) + 1
  BY <1>1 DEF TailOf
<1>3. TailOf(T, k, T) => k = 1
  BY <1>1 DEF TailOf
<1>4. TailOf(T, 1, T)
  BY <1>1 DEF TailOf
<1> QED BY <1>2, <1>3, <1>4

(* One token more is said before what is said anyway.                      *)
LEMMA SaidMore ==
  ASSUME NEW h, NEW text, NEW t \in Token, NEW u \in Token,
         NEW rest \in Seq(Token), NEW more \in Seq(Token),
         SaidBy(text, u) = SaidBy(h, t), Said(text, more) = Said(h, rest)
  PROVE  /\ << u >> \o more \in Seq(Token) /\ << t >> \o rest \in Seq(Token)
         /\ Said(text, << u >> \o more) = Said(h, << t >> \o rest)
<1>1. << t >> \in Seq(Token) /\ << u >> \in Seq(Token)
  OBVIOUS
<1>2. /\ << u >> \o more \in Seq(Token) /\ << t >> \o rest \in Seq(Token)
      /\ Said(text, << u >> \o more) = Said(text, << u >>) \o Said(text, more)
      /\ Said(h, << t >> \o rest) = Said(h, << t >>) \o Said(h, rest)
  BY <1>1, SaidConcat
<1>3. Said(text, << u >>) = SaidBy(text, u) /\ Said(h, << t >>) = SaidBy(h, t)
  BY SaidOne
<1> QED BY Zenon, <1>2, <1>3

(* A token that says nothing.                                              *)
LEMMA SaidAsWell ==
  ASSUME NEW h, NEW t \in Token, NEW rest \in Seq(Token), SaidBy(h, t) = << >>
  PROVE  << t >> \o rest \in Seq(Token) /\ Said(h, << t >> \o rest) = Said(h, rest)
<1>1. << t >> \in Seq(Token)
  OBVIOUS
<1>2. /\ << t >> \o rest \in Seq(Token)
      /\ Said(h, << t >> \o rest) = Said(h, << t >>) \o Said(h, rest)
  BY <1>1, SaidConcat
<1>3. Said(h, << t >>) = << >>
  BY SaidOne
<1>4. Said(h, rest) \in Seq(Sayings(h))
  BY SaidFacts
<1>5. << >> \o Said(h, rest) = Said(h, rest)
  BY <1>4, ConcatEmptySeq
<1> QED BY Zenon, <1>2, <1>3, <1>5

-----------------------------------------------------------------------------
(* What has been read so far of T can be read in the text: what the        *)
(* scanner finds there says the same, and a word would end there.          *)
Restored(h, T, text, off, H, k, b, toks) ==
  /\ AfterAtom(T, k) => ~IsIn(text, off[k] + 1, Other)
  /\ Said(text, H[<<off[k] + 1, b>>]) = Said(h, toks)

(* Where the k-th token is in the text, and what is in front of it.        *)
LEMMA Placed ==
  ASSUME NEW h \in Seq(Symbol), NEW T \in Seq(Token), NEW text, NEW off,
         NEW H, Restoring(h, T, text, off), Scanned(text, H),
         NEW k \in 1 .. Len(T), T[k].token # "("
  PROVE  LET q == Start(T, k, off) IN
         /\ T[k].len \in Nat /\ q \in 1 .. Len(text) + 1 /\ off[k + 1] \in Nat
         /\ off[k + 1] + 1 = q + T[k].len + 2 * Shift(T[k])
         /\ off[k + 1] <= Len(text)
         /\ Copied(h, T[k], text, q)
         /\ \A b \in BOOLEAN : H[<<off[k] + 1, b>>] = H[<<q, b>>]
         /\ Gap(T, k) => ~IsIn(text, off[k] + 1, Other)
         /\ ~Gap(T, k) => q = off[k] + 1
<1> DEFINE q == Start(T, k, off)
           s == Shift(T[k])
           len == T[k].len
<1>0. /\ text \in Seq(Symbol) /\ Len(text) \in Nat /\ Len(T) \in Nat
      /\ off[k] \in Nat /\ off[k + 1] \in Nat /\ len \in Nat /\ s \in {0, 1}
  <2>1. text \in Seq(Symbol) /\ off \in [1 .. Len(T) + 1 -> Nat]
    BY DEF Restoring
  <2>2. Len(text) \in Nat /\ Len(T) \in Nat /\ T[k] \in Token
    BY <2>1, LenProperties
  <2>3. k \in 1 .. Len(T) + 1 /\ k + 1 \in 1 .. Len(T) + 1
    BY <2>2
  <2> QED BY <2>1, <2>2, <2>3 DEF Token, Shift
<1>1. /\ Gap(T, k) => text[off[k] + 1] = " "
      /\ off[k + 1] + 1 = q + len + 2 * s
      /\ off[k + 1] <= Len(text)
      /\ Copied(h, T[k], text, q)
  BY DEF Restoring
<1>2. (Gap(T, k) => q = off[k] + 2) /\ (~Gap(T, k) => q = off[k] + 1)
  BY DEF Start
<1>3. q \in Nat
  BY <1>0, <1>2
<1>d. off[k + 1] + 1 = q + len + 2 * s
  BY <1>1
<1> HIDE DEF q, s, len
<1>4. q \in 1 .. Len(text) + 1 /\ (Gap(T, k) => off[k] + 1 \in 1 .. Len(text))
  <2>1. off[k + 1] <= Len(text)
    BY <1>1
  <2>2. q >= 1
    BY <1>0, <1>2
  <2>3. q <= Len(text) + 1
    BY <1>0, <1>3, <1>d, <2>1
  <2>4. Gap(T, k) => off[k] + 1 <= Len(text)
    BY <1>0, <1>2, <2>3
  <2> QED BY <1>0, <1>3, <2>2, <2>3, <2>4
<1>5. ASSUME Gap(T, k)
      PROVE  /\ \A b \in BOOLEAN : H[<<off[k] + 1, b>>] = H[<<q, b>>]
             /\ ~IsIn(text, off[k] + 1, Other)
  <2>1. PICK i : i = off[k] + 1
    OBVIOUS
  <2>2. i \in 1 .. Len(text) /\ i + 1 = q
    BY <1>0, <1>2, <1>4, <1>5, <2>1
  <2>3. text[i] = " "
    BY <1>1, <1>5, <2>1
  <2>4. ASSUME NEW b \in BOOLEAN
        PROVE  H[<<i, b>>] = H[<<i + 1, b>>] /\ ~IsIn(text, i, Other)
    BY <1>0, <2>2, <2>3, ScansSpace
  <2>5. FALSE \in BOOLEAN
    OBVIOUS
  <2> QED BY <2>1, <2>2, <2>4, <2>5
<1>6. ASSUME NEW b \in BOOLEAN PROVE H[<<off[k] + 1, b>>] = H[<<q, b>>]
  BY <1>2, <1>5
<1> QED BY <1>0, <1>1, <1>2, <1>4, <1>5, <1>6 DEF q, s, len

(* Three in front are one in front of one in front of one.                 *)
LEMMA TripleMore ==
  ASSUME NEW S, NEW u \in S, NEW v \in S, NEW w \in S, NEW z \in Seq(S)
  PROVE  /\ << w >> \o z \in Seq(S) /\ << v >> \o (<< w >> \o z) \in Seq(S)
         /\ << u, v, w >> \o z = << u >> \o (<< v >> \o (<< w >> \o z))
<1>1. << u >> \in Seq(S) /\ << v >> \in Seq(S) /\ << w >> \in Seq(S)
  OBVIOUS
<1>2. << w >> \o z \in Seq(S)
  BY <1>1, ConcatProperties
<1>3. PICK y : y = << w >> \o z
  OBVIOUS
<1>4. << v >> \o y \in Seq(S)
  BY <1>1, <1>2, <1>3, ConcatProperties
<1>6. << v >> \o << w >> \in Seq(S)
  BY <1>1, ConcatProperties
<1>5. << u, v, w >> = << u >> \o (<< v >> \o << w >>)
  <2>1. /\ << u, v, w >> \in Seq(S) /\ Len(<< u, v, w >>) = 3 /\ << u, v, w >>[1] = u
        /\ << u, v, w >>[2] = v /\ << u, v, w >>[3] = w
    OBVIOUS
  <2>2. PICK p : p = << v >> \o << w >>
    OBVIOUS
  <2>3. p \in Seq(S) /\ Len(p) = 2 /\ p[1] = v /\ p[2] = w
    BY <1>1, <1>6, <2>2
  <2>4. PICK x : x = << u >> \o p
    OBVIOUS
  <2>5. /\ x \in Seq(S) /\ Len(x) = 1 + 2
        /\ \A j \in 1 .. 1 + 2 : x[j] = IF j <= 1 THEN << u >>[j] ELSE p[j - 1]
    BY <1>1, <2>3, <2>4, ConcatProperties
  <2>6. Len(x) = 3 /\ x[1] = u /\ x[2] = v /\ x[3] = w
    BY <2>3, <2>5
  <2>7. \A j \in 1 .. 3 : x[j] = << u, v, w >>[j]
    BY <2>1, <2>6
  <2>8. x = << u, v, w >>
    BY <2>1, <2>5, <2>6, <2>7, SeqEqual
  <2> QED BY <2>2, <2>4, <2>8
<1>7. << u, v, w >> \o z = << u >> \o ((<< v >> \o << w >>) \o z)
  BY <1>1, <1>5, <1>6, ConcatAssociative
<1>8. (<< v >> \o << w >>) \o z = << v >> \o (<< w >> \o z)
  BY <1>1, ConcatAssociative
<1> QED BY <1>2, <1>3, <1>4, <1>7, <1>8

(* The text is made of the tokens and H has read it.                       *)
Reading(h, T, text, off, H) ==
  /\ h \in Seq(Symbol) /\ T \in Seq(Token)
  /\ Restoring(h, T, text, off) /\ Scanned(text, H)

(* One token is read again.                                                *)
LEMMA RestoresOne ==
  ASSUME NEW h, NEW T, NEW text, NEW off, NEW H, Reading(h, T, text, off, H),
         NEW k \in 1 .. Len(T), T[k].token # "(", NEW rest \in Seq(Token),
         NEW b \in BOOLEAN, NEW c \in BOOLEAN,
         Restored(h, T, text, off, H, k + 1, c, rest),
         NEW u \in Token, SaidBy(text, u) = SaidBy(h, T[k]),
         Finds(H, <<Start(T, k, off), b>>, << u >>, <<off[k + 1] + 1, c>>),
         IsAtom(T[k]) \/ ~IsIn(text, Start(T, k, off), Other)
  PROVE  Restored(h, T, text, off, H, k, b, << T[k] >> \o rest)
<1>0. h \in Seq(Symbol) /\ T \in Seq(Token) /\ Restoring(h, T, text, off) /\ Scanned(text, H)
  BY DEF Reading
<1>1. T[k] \in Token /\ text \in Seq(Symbol) /\ Len(text) \in Nat
  <2>1. text \in Seq(Symbol)
    BY <1>0 DEF Restoring
  <2> QED BY <1>0, <2>1, LenProperties
<1>2. /\ off[k + 1] \in Nat /\ off[k + 1] <= Len(text)
      /\ \A z \in BOOLEAN : H[<<off[k] + 1, z>>] = H[<<Start(T, k, off), z>>]
      /\ Gap(T, k) => ~IsIn(text, off[k] + 1, Other)
      /\ ~Gap(T, k) => Start(T, k, off) = off[k] + 1
  BY <1>0, Placed
<1>3. off[k + 1] + 1 \in 1 .. Len(text) + 1
  BY <1>1, <1>2
<1>4. H[<<off[k + 1] + 1, c>>] \in Seq(Token)
  BY <1>0, <1>1, <1>3, PlaceFacts
<1>5. Said(text, H[<<off[k + 1] + 1, c>>]) = Said(h, rest)
  BY DEF Restored
<1>6. Said(text, << u >> \o H[<<off[k + 1] + 1, c>>]) = Said(h, << T[k] >> \o rest)
  <2>1. PICK t \in Token, more \in Seq(Token) : t = T[k] /\ more = H[<<off[k + 1] + 1, c>>]
    BY <1>1, <1>4
  <2>2. SaidBy(text, u) = SaidBy(h, t) /\ Said(text, more) = Said(h, rest)
    BY <1>5, <2>1
  <2>3. Said(text, << u >> \o more) = Said(h, << t >> \o rest)
    BY <2>2, SaidMore
  <2> QED BY <2>1, <2>3
<1>7. Said(text, H[<<off[k] + 1, b>>]) = Said(h, << T[k] >> \o rest)
  BY Zenon, <1>2, <1>6 DEF Finds
<1>8. AfterAtom(T, k) => ~IsIn(text, off[k] + 1, Other)
  BY Zenon, <1>2 DEF Gap
<1> QED BY Zenon, <1>7, <1>8 DEF Restored

(* A word is, as what comes behind it does not go on with it ...           *)
LEMMA RestoresWord ==
  ASSUME NEW h, NEW T, NEW text, NEW off, NEW H, Reading(h, T, text, off, H),
         NEW k \in 1 .. Len(T), NEW i, NEW len,
         T[k] = Made(Text, i, len), WordOf(h, i, len),
         NEW rest \in Seq(Token), NEW b \in BOOLEAN,
         Restored(h, T, text, off, H, k + 1, b, rest)
  PROVE  Restored(h, T, text, off, H, k, b, << T[k] >> \o rest)
<1> DEFINE q == Start(T, k, off)
           u == Made(Text, q, len)
<1>0. /\ h \in Seq(Symbol) /\ T \in Seq(Token) /\ Restoring(h, T, text, off) /\ Scanned(text, H)
      /\ text \in Seq(Symbol) /\ Len(text) \in Nat /\ Len(h) \in Nat
  <2>1. text \in Seq(Symbol) /\ h \in Seq(Symbol)
    BY DEF Restoring, Reading
  <2> QED BY <2>1, LenProperties DEF Reading
<1>i. i \in Nat \ {0} /\ len \in Nat \ {0}
  BY DEF WordOf
<1>w. /\ i + len <= Len(h) + 1 /\ \A j \in 1 .. len : h[i + j - 1] \in Other
      /\ h[i] \in Word \/ len > 1
  BY DEF WordOf
<1>1. T[k].token = Text /\ T[k].from = i /\ T[k].len = len /\ T[k] \in Token
  <2>1. Made(Text, i, len).token = Text /\ Made(Text, i, len).from = i /\ Made(Text, i, len).len = len
    BY DEF Made
  <2>2. Made(Text, i, len) \in Token
    BY <1>i, KindFacts DEF Made
  <2> QED BY Zenon, <2>1, <2>2
<1>2. Text # "(" /\ Text # Dquote /\ IsAtom(T[k])
  BY Zenon, <1>1 DEF Text, Dquote, IsAtom
<1>3. T[k].token # "(" /\ Shift(T[k]) = 0
  BY Zenon, <1>1, <1>2 DEF Shift
<1>4. /\ q \in 1 .. Len(text) + 1 /\ off[k + 1] \in Nat
      /\ off[k + 1] + 1 = q + T[k].len + 2 * Shift(T[k])
      /\ off[k + 1] <= Len(text)
      /\ Copied(h, T[k], text, q)
  BY <1>0, <1>3, Placed
<1>5. off[k + 1] + 1 = q + len /\ q \in Nat \ {0} /\ q + len <= Len(text) + 1
  <2>1. off[k + 1] + 1 = q + len + 2 * 0
    BY Zenon, <1>1, <1>3, <1>4
  <2> HIDE DEF q
  <2> QED BY <1>0, <1>4, <1>i, <2>1
<1>6. \A j \in 1 .. len : text[q + j - 1] = h[i + j - 1]
  <2>1. \A j \in 1 .. len : text[q + 0 + j - 1] = h[i + j - 1]
    BY Zenon, <1>1, <1>3, <1>4 DEF Copied
  <2> HIDE DEF q
  <2>2. \A j \in 1 .. len : q + 0 + j - 1 = q + j - 1
    BY <1>5, <1>i
  <2> QED BY <2>1, <2>2
<1>7. text[q] \in Word \/ len > 1
  <2> HIDE DEF q
  <2>1. 1 \in 1 .. len /\ q + 1 - 1 = q /\ i + 1 - 1 = i
    BY <1>5, <1>i
  <2>2. text[q] = h[i]
    BY <1>6, <2>1
  <2> QED BY <1>w, <2>2
<1>8. ~IsIn(text, q + len, Other)
  <2>1. AfterAtom(T, k + 1)
    BY <1>0, <1>2, <1>3, AfterAtomFacts
  <2> QED BY <1>5, <2>1 DEF Restored
<1> HIDE DEF q
<1>9. Finds(H, <<q, b>>, << u >>, <<off[k + 1] + 1, b>>)
  <2>1. \A j \in 1 .. len : text[q + j - 1] \in Other
    BY <1>6, <1>w
  <2>p. PICK p \in Nat \ {0} : p = q
    BY <1>5
  <2>3. p + len <= Len(text) + 1
    BY <1>5, <2>p
  <2>4. WordOf(text, p, len) /\ ~IsIn(text, p + len, Other)
    BY <1>7, <1>8, <1>i, <2>1, <2>3, <2>p DEF WordOf
  <2>5. Finds(H, <<p, b>>, << Made(Text, p, len) >>, <<p + len, b>>)
    BY <1>0, <2>4, ScansWord
  <2> QED BY <1>5, <2>5, <2>p
<1>10. /\ u \in Token /\ u.token = T[k].token /\ u.len = T[k].len /\ u.from = q
       /\ Span(u) \subseteq 1 .. Len(text) /\ Span(T[k]) \subseteq 1 .. Len(h)
  <2>1. u.token = Text /\ u.from = q /\ u.len = len
    BY DEF Made
  <2>2. u \in Token
    BY <1>5, <1>i, KindFacts DEF Made
  <2>3. q .. q + len - 1 \subseteq 1 .. Len(text) /\ i .. i + len - 1 \subseteq 1 .. Len(h)
    BY <1>0, <1>5, <1>i, <1>w
  <2> QED BY Zenon, <1>1, <2>1, <2>2, <2>3 DEF Span
<1>11. SaidBy(text, u) = SaidBy(h, T[k])
  <2>1. \A j \in 1 .. T[k].len : text[u.from + j - 1] = h[T[k].from + j - 1]
    BY <1>1, <1>6, <1>10
  <2> HIDE DEF u
  <2> QED BY <1>0, <1>1, <1>10, <2>1, SaidAgain
<1> QED
  <2> HIDE DEF u
  <2> QED BY <1>2, <1>3, <1>9, <1>10, <1>11, RestoresOne DEF q

(* ... and a string by its quotes.                                         *)
LEMMA RestoresString ==
  ASSUME NEW h, NEW T, NEW text, NEW off, NEW H, Reading(h, T, text, off, H),
         NEW k \in 1 .. Len(T), NEW i \in Nat \ {0}, NEW len \in Nat,
         T[k] = Made(Dquote, i, len), i + len <= Len(h) + 1,
         \A j \in 1 .. len : h[i + j - 1] # Dquote,
         NEW rest \in Seq(Token), NEW b \in BOOLEAN,
         Restored(h, T, text, off, H, k + 1, b, rest)
  PROVE  Restored(h, T, text, off, H, k, b, << T[k] >> \o rest)
<1> DEFINE q == Start(T, k, off)
           u == Made(Dquote, q + 1, len)
<1>0. /\ h \in Seq(Symbol) /\ T \in Seq(Token) /\ Restoring(h, T, text, off) /\ Scanned(text, H)
      /\ text \in Seq(Symbol) /\ Len(text) \in Nat /\ Len(h) \in Nat
  <2>1. text \in Seq(Symbol) /\ h \in Seq(Symbol)
    BY DEF Restoring, Reading
  <2> QED BY <2>1, LenProperties DEF Reading
<1>1. T[k].token = Dquote /\ T[k].from = i /\ T[k].len = len /\ T[k] \in Token
  <2>1. /\ Made(Dquote, i, len).token = Dquote /\ Made(Dquote, i, len).from = i
        /\ Made(Dquote, i, len).len = len
    BY DEF Made
  <2>2. Made(Dquote, i, len) \in Token
    BY KindFacts DEF Made
  <2> QED BY Zenon, <2>1, <2>2
<1>2. T[k].token # "(" /\ IsAtom(T[k]) /\ Shift(T[k]) = 1
  BY Zenon, <1>1, MarksDiffer DEF IsAtom, Shift
<1>4. /\ q \in 1 .. Len(text) + 1 /\ off[k + 1] \in Nat
      /\ off[k + 1] + 1 = q + T[k].len + 2 * Shift(T[k])
      /\ off[k + 1] <= Len(text)
      /\ Copied(h, T[k], text, q)
  BY <1>0, <1>2, Placed
<1>5. off[k + 1] + 1 = q + len + 2 /\ q \in Nat \ {0} /\ q + len + 1 <= Len(text)
  <2>1. off[k + 1] + 1 = q + len + 2 * 1
    BY Zenon, <1>1, <1>2, <1>4
  <2> HIDE DEF q
  <2> QED BY <1>0, <1>4, <2>1
<1>6. /\ \A j \in 1 .. len : text[q + j] = h[i + j - 1]
      /\ text[q] = Dquote /\ text[q + len + 1] = Dquote
  <2>1. /\ \A j \in 1 .. len : text[q + 1 + j - 1] = h[i + j - 1]
        /\ text[q] = Dquote /\ text[q + len + 1] = Dquote
    BY Zenon, <1>1, <1>2, <1>4 DEF Copied
  <2> HIDE DEF q
  <2>2. \A j \in 1 .. len : q + 1 + j - 1 = q + j
    BY <1>5
  <2> QED BY <2>1, <2>2
<1> HIDE DEF q
<1>9. Finds(H, <<q, b>>, << u >>, <<off[k + 1] + 1, b>>)
  <2>1. StringOf(text, q, len)
    BY <1>5, <1>6 DEF StringOf
  <2>2. Finds(H, <<q, b>>, << u >>, <<q + len + 2, b>>)
    BY <1>0, <2>1, ScansString
  <2> QED BY <1>5, <2>2
<1>10. /\ u \in Token /\ u.token = T[k].token /\ u.len = T[k].len /\ u.from = q + 1
       /\ Span(u) \subseteq 1 .. Len(text) /\ Span(T[k]) \subseteq 1 .. Len(h)
  <2>1. u.token = Dquote /\ u.from = q + 1 /\ u.len = len
    BY DEF Made
  <2>2. u \in Token
    BY <1>5, KindFacts DEF Made
  <2>3. /\ q + 1 .. q + 1 + len - 1 \subseteq 1 .. Len(text)
        /\ i .. i + len - 1 \subseteq 1 .. Len(h)
    BY <1>0, <1>5
  <2> QED BY Zenon, <1>1, <2>1, <2>2, <2>3 DEF Span
<1>11. SaidBy(text, u) = SaidBy(h, T[k])
  <2>1. ASSUME NEW j \in 1 .. T[k].len PROVE text[u.from + j - 1] = h[T[k].from + j - 1]
    <3>1. j \in 1 .. len /\ (q + 1) + j - 1 = q + j
      BY <1>1, <1>5
    <3> HIDE DEF u
    <3> QED BY <1>1, <1>6, <1>10, <3>1
  <2> HIDE DEF u
  <2> QED BY <1>0, <1>1, <1>10, <2>1, SaidAgain
<1> QED
  <2> HIDE DEF u
  <2> QED BY <1>2, <1>9, <1>10, <1>11, RestoresOne DEF q

(* Where a mark is in the text.                                            *)
LEMMA MarkPlaced ==
  ASSUME NEW h, NEW T, NEW text, NEW off, NEW H, Reading(h, T, text, off, H),
         NEW k \in 1 .. Len(T), NEW i \in 1 .. Len(h), NEW x \in Mark,
         T[k] = Made(x, i, 1), h[i] = x
  PROVE  /\ T[k] \in Token /\ T[k].token # "(" /\ ~IsAtom(T[k])
         /\ Start(T, k, off) = off[k] + 1
         /\ off[k] + 1 \in 1 .. Len(text) /\ off[k + 1] = off[k] + 1
         /\ text[off[k] + 1] = x
         /\ SaidBy(text, Made(x, off[k] + 1, 1)) = SaidBy(h, T[k])
         /\ Made(x, off[k] + 1, 1) \in Token
<1> DEFINE q == Start(T, k, off)
           u == Made(x, q, 1)
<1>0. /\ h \in Seq(Symbol) /\ T \in Seq(Token) /\ Restoring(h, T, text, off) /\ Scanned(text, H)
      /\ text \in Seq(Symbol) /\ Len(text) \in Nat /\ Len(h) \in Nat
      /\ i \in Nat /\ i >= 1 /\ i <= Len(h)
  <2>1. text \in Seq(Symbol) /\ h \in Seq(Symbol)
    BY DEF Restoring, Reading
  <2> QED BY <2>1, LenProperties DEF Reading
<1>k. x \in Kinds
  BY KindFacts DEF Mark
<1>1. T[k].token = x /\ T[k].from = i /\ T[k].len = 1 /\ T[k] \in Token
  <2>1. Made(x, i, 1).token = x /\ Made(x, i, 1).from = i /\ Made(x, i, 1).len = 1
    BY DEF Made
  <2>2. Made(x, i, 1) \in Token
    BY <1>0, <1>k, KindFacts DEF Made
  <2> QED BY Zenon, <2>1, <2>2
<1>2. T[k].token # "(" /\ ~IsAtom(T[k]) /\ Shift(T[k]) = 0 /\ T[k].token # Dquote
  BY Zenon, <1>1, KindFacts DEF IsAtom, Shift
<1>3. ~Gap(T, k)
  BY <1>2 DEF Gap
<1>4. /\ q \in 1 .. Len(text) + 1 /\ off[k + 1] \in Nat
      /\ off[k + 1] + 1 = q + T[k].len + 2 * Shift(T[k])
      /\ off[k + 1] <= Len(text)
      /\ Copied(h, T[k], text, q)
      /\ q = off[k] + 1
  BY <1>0, <1>2, <1>3, Placed
<1>5. off[k + 1] + 1 = q + 1 /\ q \in Nat \ {0} /\ q <= Len(text) /\ off[k + 1] = q
  <2>1. off[k + 1] + 1 = q + 1 + 2 * 0
    BY Zenon, <1>1, <1>2, <1>4
  <2> HIDE DEF q
  <2> QED BY <1>0, <1>4, <2>1
<1>6. text[q] = x
  <2>1. \A j \in 1 .. 1 : text[q + 0 + j - 1] = h[i + j - 1]
    BY Zenon, <1>1, <1>2, <1>4 DEF Copied
  <2> HIDE DEF q
  <2>2. 1 \in 1 .. 1 /\ q + 0 + 1 - 1 = q /\ i + 1 - 1 = i
    BY <1>0, <1>5
  <2> QED BY <2>1, <2>2
<1> HIDE DEF q
<1>10. /\ u \in Token /\ u.token = T[k].token /\ u.len = T[k].len /\ u.from = q
       /\ Span(u) \subseteq 1 .. Len(text) /\ Span(T[k]) \subseteq 1 .. Len(h)
  <2>1. u.token = x /\ u.from = q /\ u.len = 1
    BY DEF Made
  <2>2. u \in Token
    BY <1>5, <1>k, KindFacts DEF Made
  <2>3. q .. q + 1 - 1 \subseteq 1 .. Len(text) /\ i .. i + 1 - 1 \subseteq 1 .. Len(h)
    BY <1>0, <1>5
  <2> QED BY Zenon, <1>1, <2>1, <2>2, <2>3 DEF Span
<1>11. SaidBy(text, u) = SaidBy(h, T[k])
  <2>1. ASSUME NEW j \in 1 .. T[k].len PROVE text[u.from + j - 1] = h[T[k].from + j - 1]
    <3>1. j = 1
      BY <1>1
    <3>2. q + 1 - 1 = q /\ i + 1 - 1 = i
      BY <1>0, <1>5
    <3> HIDE DEF u
    <3> QED BY <1>1, <1>6, <1>10, <3>1, <3>2
  <2> HIDE DEF u
  <2> QED BY <1>0, <1>1, <1>10, <2>1, SaidAgain
<1> QED BY <1>1, <1>2, <1>4, <1>5, <1>6, <1>10, <1>11 DEF q, u

(* How the bracket is behind a mark that the scanner takes with b.         *)
Bracketed(x, b, c) ==
  \/ x \in Atom /\ c = b
  \/ x = ">" /\ b = TRUE /\ c = FALSE
  \/ x = "<" /\ b = FALSE /\ c = TRUE

(* x says in a what y says in b.                                           *)
Same(a, x, b, y) == x \in Seq(Token) /\ y \in Seq(Token) /\ Said(a, x) = Said(b, y)

(* One token more on both sides is the same again,                         *)
LEMMA SameMore ==
  ASSUME NEW a, NEW b, NEW u, NEW t, NEW x, NEW y, Same(a, x, b, y),
         u \in Token, t \in Token, SaidBy(a, u) = SaidBy(b, t)
  PROVE  Same(a, << u >> \o x, b, << t >> \o y)
<1>1. x \in Seq(Token) /\ y \in Seq(Token) /\ Said(a, x) = Said(b, y)
  BY DEF Same
<1> QED BY <1>1, SaidMore DEF Same

(* a token that says nothing can be left out.                              *)
LEMMA SameAsWell ==
  ASSUME NEW a, NEW v, NEW x, v \in Token, x \in Seq(Token), SaidBy(a, v) = << >>
  PROVE  Same(a, << v >> \o x, a, x)
<1> QED BY SaidAsWell DEF Same

(* The three tokens of "<>" one after another.                             *)
InTurn(u, v, w, z) ==
  /\ << w >> \o z \in Seq(Token) /\ << v >> \o (<< w >> \o z) \in Seq(Token)
  /\ << u, v, w >> \o z = << u >> \o (<< v >> \o (<< w >> \o z))

(* They can be taken so.                                                   *)
LEMMA TokensInTurn ==
  ASSUME NEW u, NEW v, NEW w, NEW z, u \in Token, v \in Token, w \in Token, z \in Seq(Token)
  PROVE  InTurn(u, v, w, z)
<1> QED BY TripleMore DEF InTurn

(* Of two tokens the first and the last say something: the text between    *)
(* the brackets of "<>" is empty.                                          *)
EmptyTokens(p, u, v, w) ==
  p \in Nat /\ u = Made("<", p, 1) /\ v = Made(Text, p, 0) /\ w = Made(">", p + 1, 1)

(* The text between them says nothing.                                     *)
LEMMA SaidEmpty ==
  ASSUME NEW text, NEW p, NEW u, NEW v, NEW w, NEW more, EmptyTokens(p, u, v, w),
         more \in Seq(Token)
  PROVE  /\ Same(text, << u, v, w >> \o more, text, << u >> \o (<< w >> \o more))
         /\ << w >> \o more \in Seq(Token) /\ u \in Token /\ v \in Token /\ w \in Token
<1>0. /\ p \in Nat /\ u = Made("<", p, 1) /\ v = Made(Text, p, 0) /\ w = Made(">", p + 1, 1)
  BY DEF EmptyTokens
<1>1. u \in Token /\ v \in Token /\ w \in Token
  <2>1. p \in Nat /\ p + 1 \in Nat /\ 1 \in Nat /\ 0 \in Nat
    BY <1>0
  <2> QED BY <1>0, <2>1, KindFacts DEF Made
<1>2. SaidBy(text, v) = << >>
  <2>1. v.token = Text /\ v.len = 0
    BY <1>0 DEF Made
  <2> QED BY Zenon, <2>1 DEF SaidBy
<1>3. InTurn(u, v, w, more)
  BY <1>1, TokensInTurn
<1>4. PICK z : z = << w >> \o more
  OBVIOUS
<1>5. PICK y : y = << v >> \o z
  OBVIOUS
<1>6. z \in Seq(Token) /\ y \in Seq(Token) /\ << u, v, w >> \o more = << u >> \o y
  BY Zenon, <1>3, <1>4, <1>5 DEF InTurn
<1>7. Same(text, y, text, z)
  BY Zenon, <1>1, <1>2, <1>5, <1>6, SameAsWell
<1>8. Same(text, << u >> \o y, text, << u >> \o z)
  BY Zenon, <1>1, <1>7, SameMore
<1> QED BY Zenon, <1>1, <1>4, <1>6, <1>8

(* A mark is read again, also a "<" that has come next to the ">".         *)
LEMMA RestoresMark ==
  ASSUME NEW h, NEW T, NEW text, NEW off, NEW H, Reading(h, T, text, off, H),
         NEW k \in 1 .. Len(T), NEW i \in 1 .. Len(h), NEW x \in Mark,
         T[k] = Made(x, i, 1), h[i] = x,
         NEW rest \in Seq(Token), NEW b \in BOOLEAN, NEW c \in BOOLEAN, Bracketed(x, b, c),
         Restored(h, T, text, off, H, k + 1, c, rest)
  PROVE  Restored(h, T, text, off, H, k, b, << T[k] >> \o rest)
<1>0. /\ Scanned(text, H) /\ text \in Seq(Symbol) /\ Len(text) \in Nat
  <2>1. text \in Seq(Symbol) /\ Scanned(text, H)
    BY DEF Restoring, Reading
  <2> QED BY <2>1, LenProperties
<1>1. PICK q : q = off[k] + 1
  OBVIOUS
<1>2. PICK u : u = Made(x, q, 1)
  OBVIOUS
<1>3. /\ T[k] \in Token /\ T[k].token # "(" /\ ~IsAtom(T[k]) /\ Start(T, k, off) = q
      /\ q \in 1 .. Len(text) /\ off[k + 1] = q /\ text[q] = x
      /\ SaidBy(text, u) = SaidBy(h, T[k]) /\ u \in Token
  BY <1>1, <1>2, MarkPlaced
<1>4. ~IsIn(text, q, Other)
  BY <1>0, <1>3, ScansMark
<1>5. CASE x = "<" /\ IsIn(text, q + 1, {">"})
  <2>1. b = FALSE /\ c = TRUE
    BY Zenon, <1>5, MarksDiffer DEF Bracketed
  <2>2. PICK v, w : v = Made(Text, q, 0) /\ w = Made(">", q + 1, 1)
    OBVIOUS
  <2>3. Finds(H, <<q, FALSE>>, << u, v, w >>, <<q + 2, FALSE>>)
    <3>1. FALSE \in BOOLEAN
      OBVIOUS
    <3> QED BY Zenon, <3>1, <1>0, <1>2, <1>3, <1>5, <2>2, ScansMark
  <2>4. q + 1 \in 1 .. Len(text) /\ text[q + 1] = ">" /\ (q + 1) + 1 = q + 2
        /\ q + 2 \in 1 .. Len(text) + 1 /\ q \in Nat
    <3>1. q + 1 <= Len(text) /\ text[q + 1] \in {">"}
      BY Zenon, <1>5 DEF IsIn
    <3>2. q \in Nat /\ q >= 1
      BY <1>0, <1>3
    <3>3. q + 1 \in 1 .. Len(text) /\ (q + 1) + 1 = q + 2 /\ q + 2 \in 1 .. Len(text) + 1
      BY <1>0, <3>1, <3>2
    <3> QED BY <3>1, <3>2, <3>3
  <2>5. Finds(H, <<q + 1, TRUE>>, << w >>, <<q + 2, FALSE>>)
    <3>1. PICK p : p = q + 1
      OBVIOUS
    <3>2. Finds(H, <<p, TRUE>>, <<Made(">", p, 1)>>, <<p + 1, FALSE>>)
      BY Zenon, <1>0, <2>4, <3>1, ScansMark
    <3> QED BY Zenon, <2>2, <2>4, <3>1, <3>2
  <2>6. PICK more \in Seq(Token) : more = H[<<q + 2, FALSE>>]
    <3>1. FALSE \in BOOLEAN
      OBVIOUS
    <3>2. H[<<q + 2, FALSE>>] \in Seq(Token)
      BY <1>0, <2>4, <3>1, PlaceFacts
    <3> QED BY <3>2
  <2>7. /\ << w >> \o more \in Seq(Token)
        /\ Same(text, << u, v, w >> \o more, text, << u >> \o (<< w >> \o more))
    <3>1. EmptyTokens(q, u, v, w)
      BY Zenon, <1>2, <1>5, <2>2, <2>4 DEF EmptyTokens
    <3> QED BY <2>6, <3>1, SaidEmpty
  <2>8. Said(text, << w >> \o more) = Said(h, rest)
    <3>1. Said(text, H[<<off[k + 1] + 1, c>>]) = Said(h, rest)
      BY Zenon DEF Restored
    <3> QED BY Zenon, <1>3, <2>1, <2>5, <2>6, <3>1 DEF Finds
  <2>9. Same(text, << u >> \o (<< w >> \o more), h, << T[k] >> \o rest)
    <3>1. Same(text, << w >> \o more, h, rest)
      BY Zenon, <2>7, <2>8 DEF Same
    <3> QED BY Zenon, <1>3, <3>1, SameMore
  <2>10. Said(text, H[<<off[k] + 1, b>>]) = Said(h, << T[k] >> \o rest)
    BY Zenon, <1>1, <2>1, <2>3, <2>6, <2>7, <2>9 DEF Finds, Same
  <2> QED BY Zenon, <1>1, <1>4, <2>10 DEF Restored
<1>6. CASE ~(x = "<" /\ IsIn(text, q + 1, {">"}))
  <2>1. Finds(H, <<q, b>>, << u >>, <<q + 1, c>>)
    <3>1. CASE x \in Atom /\ c = b
      BY Zenon, <1>0, <1>2, <1>3, <3>1, ScansMark
    <3>2. CASE x = ">" /\ b = TRUE /\ c = FALSE
      BY Zenon, <1>0, <1>2, <1>3, <3>2, ScansMark
    <3>3. CASE x = "<" /\ b = FALSE /\ c = TRUE
      BY Zenon, <1>0, <1>2, <1>3, <1>6, <3>3, ScansMark
    <3> QED BY Zenon, <3>1, <3>2, <3>3 DEF Bracketed
  <2>2. Finds(H, <<Start(T, k, off), b>>, << u >>, <<off[k + 1] + 1, c>>)
    BY Zenon, <1>3, <2>1
  <2> QED BY <1>3, <1>4, <2>2, RestoresOne
<1> QED BY Zenon, <1>5, <1>6

(* "<>" is "<>" again.                                                     *)
LEMMA RestoresEmpty ==
  ASSUME NEW h, NEW T, NEW text, NEW off, NEW H, Reading(h, T, text, off, H),
         NEW k \in 1 .. Len(T), k + 2 <= Len(T),
         NEW i \in 1 .. Len(h), i + 1 <= Len(h), h[i] = "<", h[i + 1] = ">",
         T[k] = Made("<", i, 1), T[k + 1] = Made(Text, i, 0), T[k + 2] = Made(">", i + 1, 1),
         NEW rest \in Seq(Token), NEW b \in BOOLEAN,
         Restored(h, T, text, off, H, k + 3, b, rest)
  PROVE  Restored(h, T, text, off, H, k, b,
                  <<Made("<", i, 1), Made(Text, i, 0), Made(">", i + 1, 1)>> \o rest)
<1>0. /\ Scanned(text, H) /\ text \in Seq(Symbol) /\ Len(text) \in Nat
      /\ T \in Seq(Token) /\ Len(T) \in Nat /\ h \in Seq(Symbol) /\ Restoring(h, T, text, off)
  <2>1. text \in Seq(Symbol) /\ Scanned(text, H) /\ T \in Seq(Token) /\ h \in Seq(Symbol)
    BY DEF Restoring, Reading
  <2> QED BY <2>1, LenProperties DEF Reading
<1>n. /\ k + 1 \in 1 .. Len(T) /\ k + 2 \in 1 .. Len(T) /\ i + 1 \in 1 .. Len(h)
      /\ (k + 1) + 1 = k + 2 /\ (k + 2) + 1 = k + 3 /\ i \in Nat
  <2>1. k + 2 <= Len(T) /\ i + 1 <= Len(h) /\ Len(h) \in Nat
    BY <1>0, LenProperties
  <2> QED BY <1>0, <2>1
<1>m. "<" \in Mark /\ ">" \in Mark
  BY DEF Mark
<1>1. PICK q : q = off[k] + 1
  OBVIOUS
<1>2. PICK u, v, w : u = Made("<", q, 1) /\ v = Made(Text, q, 0) /\ w = Made(">", q + 1, 1)
  OBVIOUS
<1>3. /\ T[k] \in Token /\ ~IsAtom(T[k])
      /\ q \in 1 .. Len(text) /\ off[k + 1] = q /\ text[q] = "<" /\ T[k].token # "("
      /\ SaidBy(text, u) = SaidBy(h, T[k]) /\ u \in Token
  BY <1>1, <1>2, <1>m, MarkPlaced
<1>4. off[k + 2] = q
  <2>1. ~AfterAtom(T, k + 1)
    BY <1>0, <1>3, AfterAtomFacts
  <2>2. /\ T[k + 1].token = Text /\ T[k + 1].len = 0
    BY DEF Made
  <2>3. Text # "(" /\ Text # Dquote
    BY DEF Text, Dquote
  <2>4. ~Gap(T, k + 1) /\ T[k + 1].token # "(" /\ Shift(T[k + 1]) = 0
    BY Zenon, <2>1, <2>2, <2>3 DEF Gap, Shift
  <2>5. PICK l : l = k + 1
    OBVIOUS
  <2>6. /\ off[l + 1] \in Nat
        /\ off[l + 1] + 1 = Start(T, l, off) + T[l].len + 2 * Shift(T[l])
        /\ Start(T, l, off) = off[l] + 1
    BY <1>0, <1>n, <2>4, <2>5, Placed
  <2>7. off[l + 1] + 1 = (q + 1) + 0 + 2 * 0
    BY Zenon, <1>3, <2>2, <2>4, <2>5, <2>6
  <2>8. off[l + 1] = q
    BY <1>0, <1>3, <2>6, <2>7
  <2> QED BY Zenon, <1>n, <2>5, <2>8
<1>5. /\ T[k + 2] \in Token
      /\ q + 1 \in 1 .. Len(text) /\ off[k + 3] = q + 1 /\ text[q + 1] = ">"
      /\ SaidBy(text, w) = SaidBy(h, T[k + 2]) /\ w \in Token
  <2>1. PICK l, j : l = k + 2 /\ j = i + 1
    OBVIOUS
  <2>2. /\ T[l] \in Token
        /\ off[l] + 1 \in 1 .. Len(text) /\ off[l + 1] = off[l] + 1 /\ text[off[l] + 1] = ">"
        /\ SaidBy(text, Made(">", off[l] + 1, 1)) = SaidBy(h, T[l])
        /\ Made(">", off[l] + 1, 1) \in Token
    BY <1>m, <1>n, <2>1, MarkPlaced
  <2> QED BY Zenon, <1>2, <1>4, <1>n, <2>1, <2>2
<1>6. ~IsIn(text, q, Other)
  BY <1>0, <1>3, <1>m, ScansMark
<1>7. Finds(H, <<q, b>>, << u, v, w >>, <<q + 2, b>>)
  <2>1. IsIn(text, q + 1, {">"})
    <3>1. q + 1 <= Len(text)
      BY <1>0, <1>5
    <3> QED BY Zenon, <1>5, <3>1 DEF IsIn
  <2> QED BY Zenon, <1>0, <1>2, <1>3, <2>1, ScansMark
<1>8. q \in Nat /\ off[k + 3] + 1 = q + 2 /\ q + 2 \in 1 .. Len(text) + 1
  BY <1>0, <1>3, <1>5
<1>9. PICK more \in Seq(Token) : more = H[<<q + 2, b>>]
  <2>1. H[<<q + 2, b>>] \in Seq(Token)
    BY <1>0, <1>8, PlaceFacts
  <2> QED BY <2>1
<1>10. Said(text, more) = Said(h, rest)
  BY Zenon, <1>8, <1>9 DEF Restored
<1>11. PICK r, s, t : r = Made("<", i, 1) /\ s = Made(Text, i, 0) /\ t = Made(">", i + 1, 1)
  OBVIOUS
<1>12. /\ << w >> \o more \in Seq(Token)
       /\ Same(text, << u, v, w >> \o more, text, << u >> \o (<< w >> \o more))
  <2>1. EmptyTokens(q, u, v, w)
    BY Zenon, <1>2, <1>8 DEF EmptyTokens
  <2> QED BY <1>9, <2>1, SaidEmpty
<1>13. /\ << t >> \o rest \in Seq(Token) /\ r \in Token /\ t \in Token
       /\ Same(h, << r, s, t >> \o rest, h, << r >> \o (<< t >> \o rest))
  <2>1. EmptyTokens(i, r, s, t)
    BY Zenon, <1>11, <1>n DEF EmptyTokens
  <2> QED BY <2>1, SaidEmpty
<1>14. Same(text, << w >> \o more, h, << t >> \o rest)
  <2>1. SaidBy(text, w) = SaidBy(h, t)
    BY Zenon, <1>5, <1>11
  <2>2. Same(text, more, h, rest)
    BY <1>9, <1>10 DEF Same
  <2> QED BY Zenon, <1>5, <1>13, <2>1, <2>2, SameMore
<1>15. Same(text, << u >> \o (<< w >> \o more), h, << r >> \o (<< t >> \o rest))
  <2>1. SaidBy(text, u) = SaidBy(h, r)
    BY Zenon, <1>3, <1>11
  <2> QED BY Zenon, <1>3, <1>13, <1>14, <2>1, SameMore
<1>16. Said(text, H[<<q, b>>]) = Said(h, << r, s, t >> \o rest)
  BY Zenon, <1>7, <1>9, <1>12, <1>13, <1>15 DEF Finds, Same
<1> QED BY Zenon, <1>1, <1>6, <1>11, <1>16 DEF Restored

(* A comment is not in the text.                                           *)
LEMMA RestoresComment ==
  ASSUME NEW h, NEW T, NEW text, NEW off, NEW H, Reading(h, T, text, off, H),
         NEW k \in 1 .. Len(T), T[k].token = "(",
         NEW rest \in Seq(Token), NEW b \in BOOLEAN,
         Restored(h, T, text, off, H, k + 1, b, rest)
  PROVE  Restored(h, T, text, off, H, k, b, << T[k] >> \o rest)
<1>0. T \in Seq(Token) /\ T[k] \in Token /\ Restoring(h, T, text, off)
  BY LenProperties DEF Reading
<1>1. off[k + 1] = off[k]
  BY DEF Restoring, Reading
<1>2. AfterAtom(T, k + 1) <=> AfterAtom(T, k)
  BY <1>0, AfterAtomFacts
<1>3. SaidBy(h, T[k]) = << >>
  BY DEF SaidBy
<1>4. PICK t \in Token : t = T[k]
  BY <1>0
<1>5. Said(h, << t >> \o rest) = Said(h, rest)
  BY <1>3, <1>4, SaidAsWell
<1> QED BY Zenon, <1>1, <1>2, <1>4, <1>5 DEF Restored

(* The text ends with the tokens.                                          *)
LEMMA RestoresEnd ==
  ASSUME NEW h, NEW T, NEW text, NEW off, NEW H, Reading(h, T, text, off, H),
         NEW b \in BOOLEAN
  PROVE  Restored(h, T, text, off, H, Len(T) + 1, b, << >>)
<1>0. /\ text \in Seq(Symbol) /\ Scanned(text, H) /\ Len(text) \in Nat
      /\ off[Len(T) + 1] = Len(text)
  <2>1. text \in Seq(Symbol) /\ Scanned(text, H) /\ off[Len(T) + 1] = Len(text)
    BY DEF Restoring, Reading
  <2> QED BY <2>1, LenProperties
<1>1. PICK p : p = off[Len(T) + 1] + 1
  OBVIOUS
<1>2. p \in 1 .. Len(text) + 1 /\ p > Len(text) /\ ~(p <= Len(text))
  BY <1>0, <1>1
<1>3. H[<<p, b>>] = << >>
  <2>1. ScanOf(text, H, <<p, b>>) = << >>
    BY <1>0, <1>2, ScanBranches
  <2>2. H[<<p, b>>] = ScanOf(text, H, <<p, b>>)
    BY <1>0, <1>2, PlaceFacts
  <2> QED BY <2>1, <2>2
<1>4. ~IsIn(text, p, Other)
  BY <1>2 DEF IsIn
<1>5. Said(text, << >>) = Said(h, << >>)
  BY SaidNone
<1> QED BY Zenon, <1>1, <1>3, <1>4, <1>5 DEF Restored

(* G has scanned h, T is what it found, and no string of T has a quote.    *)
Rereading(h, T, text, off, H, G) ==
  /\ Reading(h, T, text, off, H) /\ Scanned(h, G)
  /\ \A k \in 1 .. Len(T) : T[k].token = Dquote => \A j \in Span(T[k]) : h[j] # Dquote

(* If toks are the last tokens of T, they can be read again.               *)
Ready(h, T, text, off, H, b, toks) ==
  \A k \in 1 .. Len(T) + 1 :
    TailOf(T, k, toks) => Restored(h, T, text, off, H, k, b, toks)

(* t can be read again in front of rest.                                   *)
Carries(h, T, text, off, H, t, b, c, rest) ==
  \A k \in 1 .. Len(T) :
    T[k] = t /\ Restored(h, T, text, off, H, k + 1, c, rest) =>
      Restored(h, T, text, off, H, k, b, << T[k] >> \o rest)

(* Then t and rest can be read again,                                      *)
LEMMA ReadyMore ==
  ASSUME NEW h, NEW T, NEW text, NEW off, NEW H, T \in Seq(Token),
         NEW t, NEW b, NEW c, NEW rest, t \in Token, rest \in Seq(Token),
         Ready(h, T, text, off, H, c, rest), Carries(h, T, text, off, H, t, b, c, rest)
  PROVE  Ready(h, T, text, off, H, b, << t >> \o rest)
<1> SUFFICES ASSUME NEW k \in 1 .. Len(T) + 1, TailOf(T, k, << t >> \o rest)
             PROVE  Restored(h, T, text, off, H, k, b, << t >> \o rest)
  BY DEF Ready
<1>1. k \in 1 .. Len(T) /\ T[k] = t /\ TailOf(T, k + 1, rest)
  BY TailMore
<1>2. k + 1 \in 1 .. Len(T) + 1
  BY <1>1, LenProperties
<1>3. Restored(h, T, text, off, H, k + 1, c, rest)
  BY <1>1, <1>2 DEF Ready
<1>4. Restored(h, T, text, off, H, k, b, << T[k] >> \o rest)
  BY <1>1, <1>3 DEF Carries
<1> QED BY <1>1, <1>4

(* the end of the text can,                                                *)
LEMMA ReadyEnd ==
  ASSUME NEW h, NEW T, NEW text, NEW off, NEW H, Reading(h, T, text, off, H), NEW b \in BOOLEAN
  PROVE  Ready(h, T, text, off, H, b, << >>)
<1> SUFFICES ASSUME NEW k \in 1 .. Len(T) + 1, TailOf(T, k, << >>)
             PROVE  Restored(h, T, text, off, H, k, b, << >>)
  BY DEF Ready
<1>1. k = Len(T) + 1
  BY TailNone DEF Reading
<1> QED BY <1>1, RestoresEnd

(* The last token need not end with its value.                             *)
LEMMA ReadyLast ==
  ASSUME NEW h, NEW T, NEW text, NEW off, NEW H, Reading(h, T, text, off, H),
         NEW t, NEW b, t \in Token, b \in BOOLEAN,
         Carries(h, T, text, off, H, t, b, b, << >>)
  PROVE  Ready(h, T, text, off, H, b, << t >>)
<1>1. Ready(h, T, text, off, H, b, << >>)
  BY ReadyEnd
<1>2. << t >> \in Seq(Token) /\ << t >> \o << >> = << t >> /\ << >> \in Seq(Token)
  BY ConcatEmptySeq, EmptySeq
<1>3. T \in Seq(Token)
  BY DEF Reading
<1>4. Ready(h, T, text, off, H, b, << t >> \o << >>)
  BY <1>1, <1>2, <1>3, ReadyMore
<1> QED BY <1>2, <1>4

(* and so can "<>".                                                        *)
LEMMA ReadyEmpty ==
  ASSUME NEW h, NEW T, NEW text, NEW off, NEW H, Reading(h, T, text, off, H),
         NEW i, NEW b, NEW rest, i \in 1 .. Len(h), i + 1 <= Len(h), h[i] = "<", h[i + 1] = ">",
         b \in BOOLEAN, rest \in Seq(Token), Ready(h, T, text, off, H, b, rest)
  PROVE  Ready(h, T, text, off, H, b,
               <<Made("<", i, 1), Made(Text, i, 0), Made(">", i + 1, 1)>> \o rest)
<1>0. T \in Seq(Token) /\ Len(T) \in Nat /\ i \in Nat
  <2>1. T \in Seq(Token) /\ h \in Seq(Symbol)
    BY DEF Reading
  <2> QED BY <2>1, LenProperties
<1>1. PICK u, v, w : u = Made("<", i, 1) /\ v = Made(Text, i, 0) /\ w = Made(">", i + 1, 1)
  OBVIOUS
<1>2. u \in Token /\ v \in Token /\ w \in Token
  <2>1. EmptyTokens(i, u, v, w)
    BY Zenon, <1>0, <1>1 DEF EmptyTokens
  <2> QED BY <2>1, SaidEmpty
<1>3. PICK z : z = << w >> \o rest
  OBVIOUS
<1>4. PICK y : y = << v >> \o z
  OBVIOUS
<1>5. z \in Seq(Token) /\ y \in Seq(Token) /\ << u, v, w >> \o rest = << u >> \o y
  <2>1. InTurn(u, v, w, rest)
    BY <1>2, TokensInTurn
  <2> QED BY Zenon, <2>1, <1>3, <1>4 DEF InTurn
<1>6. ASSUME NEW k \in 1 .. Len(T) + 1, TailOf(T, k, << u >> \o y)
      PROVE  Restored(h, T, text, off, H, k, b, << u, v, w >> \o rest)
  <2>1. k \in 1 .. Len(T) /\ T[k] = u /\ TailOf(T, k + 1, << v >> \o z)
    BY <1>0, <1>2, <1>4, <1>5, <1>6, TailMore
  <2>2. PICK l \in 1 .. Len(T) + 1 : l = k + 1
    BY <1>0, <2>1
  <2>3. l \in 1 .. Len(T) /\ T[l] = v /\ TailOf(T, l + 1, << w >> \o rest)
    BY <1>0, <1>2, <1>3, <1>5, <2>1, <2>2, TailMore
  <2>4. PICK m \in 1 .. Len(T) + 1 : m = l + 1
    BY <1>0, <2>3
  <2>5. m \in 1 .. Len(T) /\ T[m] = w /\ TailOf(T, m + 1, rest)
    BY <1>0, <1>2, <2>3, <2>4, TailMore
  <2>6. m = k + 2 /\ m + 1 = k + 3 /\ m + 1 \in 1 .. Len(T) + 1 /\ k + 2 <= Len(T)
    BY <1>0, <2>1, <2>2, <2>4, <2>5
  <2>7. Restored(h, T, text, off, H, k + 3, b, rest)
    BY <2>5, <2>6 DEF Ready
  <2>8. /\ T[k] = Made("<", i, 1) /\ T[k + 1] = Made(Text, i, 0)
        /\ T[k + 2] = Made(">", i + 1, 1)
    BY Zenon, <1>1, <2>1, <2>2, <2>3, <2>5, <2>6
  <2>9. Restored(h, T, text, off, H, k, b,
                 <<Made("<", i, 1), Made(Text, i, 0), Made(">", i + 1, 1)>> \o rest)
    BY <2>1, <2>6, <2>7, <2>8, RestoresEmpty
  <2> QED BY Zenon, <1>1, <2>9
<1> QED BY Zenon, <1>1, <1>5, <1>6 DEF Ready

-----------------------------------------------------------------------------
(* How each kind of token is carried over: a word,                         *)
LEMMA CarriesWord ==
  ASSUME NEW h, NEW T, NEW text, NEW off, NEW H, Reading(h, T, text, off, H),
         NEW i, NEW len, NEW b, NEW rest, WordOf(h, i, len), b \in BOOLEAN, rest \in Seq(Token)
  PROVE  Carries(h, T, text, off, H, Made(Text, i, len), b, b, rest)
<1> QED BY RestoresWord DEF Carries

(* A string, as no quote is in it,                                         *)
LEMMA CarriesString ==
  ASSUME NEW h, NEW T, NEW text, NEW off, NEW H, NEW G, Rereading(h, T, text, off, H, G),
         NEW i, NEW len, NEW b, NEW rest, i \in Nat \ {0}, len \in Nat, i + len <= Len(h) + 1,
         b \in BOOLEAN, rest \in Seq(Token)
  PROVE  Carries(h, T, text, off, H, Made(Dquote, i, len), b, b, rest)
<1> SUFFICES ASSUME NEW k \in 1 .. Len(T), T[k] = Made(Dquote, i, len),
                    Restored(h, T, text, off, H, k + 1, b, rest)
             PROVE  Restored(h, T, text, off, H, k, b, << T[k] >> \o rest)
  BY DEF Carries
<1>1. Reading(h, T, text, off, H)
  BY DEF Rereading
<1>2. T[k].token = Dquote /\ Span(T[k]) = i .. i + len - 1
  BY DEF Made, Span
<1>3. ASSUME NEW j \in 1 .. len PROVE h[i + j - 1] # Dquote
  <2>1. i + j - 1 \in i .. i + len - 1
    OBVIOUS
  <2> QED BY <1>2, <2>1 DEF Rereading
<1> QED BY <1>1, <1>3, RestoresString

(* a mark with the bracket it leaves open or shut,                         *)
LEMMA CarriesMark ==
  ASSUME NEW h, NEW T, NEW text, NEW off, NEW H, Reading(h, T, text, off, H),
         NEW i, NEW x, NEW b, NEW c, NEW rest, i \in 1 .. Len(h), x \in Mark, h[i] = x,
         b \in BOOLEAN, c \in BOOLEAN, Bracketed(x, b, c), rest \in Seq(Token)
  PROVE  Carries(h, T, text, off, H, Made(x, i, 1), b, c, rest)
<1> QED BY RestoresMark DEF Carries

(* and a comment by being left out.                                        *)
LEMMA CarriesComment ==
  ASSUME NEW h, NEW T, NEW text, NEW off, NEW H, Reading(h, T, text, off, H),
         NEW i, NEW len, NEW b, NEW rest, b \in BOOLEAN, rest \in Seq(Token)
  PROVE  Carries(h, T, text, off, H, Made("(", i, len), b, b, rest)
<1> SUFFICES ASSUME NEW k \in 1 .. Len(T), T[k] = Made("(", i, len),
                    Restored(h, T, text, off, H, k + 1, b, rest)
             PROVE  Restored(h, T, text, off, H, k, b, << T[k] >> \o rest)
  BY DEF Carries
<1>1. T[k].token = "("
  BY DEF Made
<1> QED BY <1>1, RestoresComment

(* The word that WordEnd ends.                                             *)
LEMMA WordIsOne ==
  ASSUME NEW h \in Seq(Symbol), NEW i \in 1 .. Len(h), WordAt(h, i)
  PROVE  /\ WordEnd(h, i) \in i + 1 .. Len(h) + 1
         /\ WordOf(h, i, WordEnd(h, i) - i)
<1>0. Len(h) \in Nat
  BY LenProperties
<1>1. h[i] \in Other
  BY DEF WordAt, IsIn, Other
<1> DEFINE k == WordEnd(h, i)
           S == {j \in i .. Len(h) + 1 : ~IsIn(h, j, Other)}
<1>2. k \in i + 1 .. Len(h) + 1
  BY <1>0, <1>1, WordEndFacts
<1>3. ASSUME NEW j \in i .. k - 1 PROVE h[j] \in Other
  <2>1. k = Min(S) /\ S \in SUBSET Nat
    BY DEF WordEnd
  <2> HIDE DEF S, k
  <2>3. j \in i .. Len(h) + 1 /\ ~(k <= j) /\ j <= Len(h)
    BY <1>0, <1>2, <1>3
  <2>4. j \notin S
    <3>1. CASE S = {}
      BY <3>1
    <3>2. CASE S # {}
      <4>1. \A n \in S : Min(S) <= n
        BY <2>1, <3>2, MinFacts
      <4> QED BY <2>1, <2>3, <4>1
    <3> QED BY <3>1, <3>2
  <2> QED BY <2>3, <2>4 DEF IsIn, S
<1>4. h[i] \in Word \/ k - i > 1
  <2>1. CASE h[i] \notin Word
    <3>1. h[i + 1] \in Other /\ i + 1 <= Len(h)
      BY <2>1 DEF WordAt, IsIn
    <3>2. k # i + 1
      <4>1. k = Min(S) /\ S \in SUBSET Nat /\ Len(h) + 1 \in S
        BY <1>0 DEF WordEnd, IsIn
      <4>2. i + 1 \notin S
        BY <3>1 DEF IsIn
      <4> HIDE DEF S, k
      <4>3. Min(S) \in S
        BY <4>1, MinFacts
      <4> QED BY <4>1, <4>2, <4>3
    <3> HIDE DEF k
    <3> QED BY <1>0, <1>2, <3>2
  <2> QED BY <2>1
<1> HIDE DEF k
<1>5. PICK len : len = k - i
  OBVIOUS
<1>6. len \in Nat \ {0} /\ i + len <= Len(h) + 1 /\ i \in Nat \ {0}
  BY <1>0, <1>2, <1>5
<1>7. \A j \in 1 .. len : h[i + j - 1] \in Other
  <2>1. \A j \in 1 .. len : i + j - 1 \in i .. k - 1
    BY <1>0, <1>2, <1>5
  <2> QED BY <1>3, <2>1
<1>8. WordOf(h, i, len)
  BY <1>4, <1>5, <1>6, <1>7 DEF WordOf
<1> QED BY <1>2, <1>5, <1>8 DEF k

(* What the scanner finds at a place can be read again if what it finds    *)
(* behind it can.                                                          *)
LEMMA ReadyStep ==
  ASSUME NEW h, NEW T, NEW text, NEW off, NEW H, NEW G, Rereading(h, T, text, off, H, G),
         NEW i \in 1 .. Len(h) + 1, NEW b \in BOOLEAN,
         \A e \in 1 .. Len(h) + 1, c \in BOOLEAN :
           e > i => Ready(h, T, text, off, H, c, G[<<e, c>>])
  PROVE  Ready(h, T, text, off, H, b, G[<<i, b>>])
<1> DEFINE n == Len(h)
           Fine(c, toks) == Ready(h, T, text, off, H, c, toks)
           Through(t, z, c, rest) == Carries(h, T, text, off, H, t, z, c, rest)
<1>0. /\ h \in Seq(Symbol) /\ T \in Seq(Token) /\ n \in Nat /\ i \in Nat /\ i >= 1 /\ i <= n + 1
      /\ Reading(h, T, text, off, H) /\ Scanned(h, G)
  <2>1. /\ h \in Seq(Symbol) /\ T \in Seq(Token) /\ Reading(h, T, text, off, H)
        /\ Scanned(h, G)
    BY DEF Rereading, Reading
  <2> QED BY <2>1, LenProperties
<1>1. G[<<i, b>>] = ScanOf(h, G, <<i, b>>)
  BY <1>0, PlaceFacts
<1>2. ASSUME NEW e \in i + 1 .. n + 1, NEW c \in BOOLEAN
      PROVE  G[<<e, c>>] \in Seq(Token) /\ Fine(c, G[<<e, c>>])
  <2>1. e \in 1 .. n + 1 /\ e > i
    BY <1>0
  <2> QED BY <1>0, <2>1, PlaceFacts
<1>3. ASSUME NEW t \in Token, NEW e \in i + 1 .. n + 1, NEW c \in BOOLEAN,
             ScanOf(h, G, <<i, b>>) = << t >> \o G[<<e, c>>],
             Through(t, b, c, G[<<e, c>>])
      PROVE  Fine(b, G[<<i, b>>])
  <2>1. Fine(b, << t >> \o G[<<e, c>>])
    BY <1>0, <1>2, <1>3, ReadyMore
  <2> QED BY Zenon, <1>1, <1>3, <2>1
<1> SUFFICES Fine(b, G[<<i, b>>])
  OBVIOUS
<1> HIDE DEF n, Fine, Through
<1>n. Len(h) = n /\ i \in 1 .. n + 1
  BY <1>0 DEF n
<1>4. CASE i > n
  <2>1. ScanOf(h, G, <<i, b>>) = << >>
    BY <1>0, <1>4, <1>n, ScanBranches
  <2>2. Fine(b, << >>)
    BY <1>0, ReadyEnd DEF Fine
  <2> QED BY Zenon, <1>1, <2>1, <2>2
<1>5. CASE i <= n /\ WordAt(h, i)
  <2>1. ScanOf(h, G, <<i, b>>) = <<Made(Text, i, WordEnd(h, i) - i)>> \o G[<<WordEnd(h, i), b>>]
    BY Zenon, <1>0, <1>5, <1>n, ScanBranches
  <2>2. i \in 1 .. Len(h)
    BY <1>0, <1>5, <1>n
  <2>3. WordEnd(h, i) \in i + 1 .. n + 1 /\ WordOf(h, i, WordEnd(h, i) - i)
    BY <1>0, <1>5, <1>n, <2>2, WordIsOne
  <2>4. PICK e \in i + 1 .. n + 1 : e = WordEnd(h, i)
    BY <2>3
  <2>5. Made(Text, i, e - i) \in Token
    <3>1. e - i \in Nat /\ i \in Nat
      BY <1>0
    <3> QED BY <3>1, KindFacts DEF Made
  <2>6. Through(Made(Text, i, e - i), b, b, G[<<e, b>>])
    <3>1. G[<<e, b>>] \in Seq(Token) /\ WordOf(h, i, e - i)
      BY <1>2, <2>3, <2>4
    <3> QED BY <1>0, <3>1, CarriesWord DEF Through
  <2> QED BY Zenon, <1>3, <2>1, <2>4, <2>5, <2>6
<1>6. ASSUME NEW x \in Mark, NEW c \in BOOLEAN, i <= n, h[i] = x, Bracketed(x, b, c),
             ScanOf(h, G, <<i, b>>) = <<Made(x, i, 1)>> \o G[<<i + 1, c>>]
      PROVE  Fine(b, G[<<i, b>>])
  <2>1. i + 1 \in i + 1 .. n + 1 /\ i \in 1 .. Len(h)
    <3>1. i <= n
      BY <1>6
    <3> QED BY <1>0, <1>n, <3>1
  <2>2. Made(x, i, 1) \in Token
    <3>1. i \in Nat /\ 1 \in Nat /\ x \in Kinds
      BY <1>0, KindFacts DEF Mark
    <3> QED BY <3>1, KindFacts DEF Made
  <2>3. G[<<i + 1, c>>] \in Seq(Token)
    BY Zenon, <1>2, <2>1
  <2>4. Through(Made(x, i, 1), b, c, G[<<i + 1, c>>])
    <3>1. PICK rest : rest = G[<<i + 1, c>>]
      OBVIOUS
    <3> QED BY Zenon, <1>0, <1>6, <2>1, <2>3, <3>1, CarriesMark DEF Through
  <2> QED BY Zenon, <1>3, <1>6, <2>1, <2>2, <2>4
<1>m. "<" \in Mark /\ ">" \in Mark /\ TRUE \in BOOLEAN /\ FALSE \in BOOLEAN
  BY DEF Mark
<1>7. CASE IsIn(h, i, Atom)
  <2>1. h[i] \in Atom /\ i <= n /\ h[i] \in Mark
    BY Zenon, <1>7, <1>n DEF IsIn, Mark
  <2>2. ScanOf(h, G, <<i, b>>) = <<Made(h[i], i, 1)>> \o G[<<i + 1, b>>]
    BY Zenon, <1>0, <1>7, <1>n, ScanBranches
  <2>3. Bracketed(h[i], b, b)
    BY Zenon, <2>1 DEF Bracketed
  <2> QED BY Zenon, <1>6, <2>1, <2>2, <2>3
<1>8. CASE OpenAt(h, i, b)
  <2>1. h[i] = "<" /\ i <= n /\ b = FALSE
    BY Zenon, <1>8, <1>n DEF OpenAt, IsIn
  <2>2. ScanOf(h, G, <<i, b>>) = <<Made("<", i, 1)>> \o G[<<i + 1, TRUE>>]
    BY Zenon, <1>0, <1>8, <1>n, ScanBranches
  <2>3. Bracketed("<", b, TRUE)
    BY Zenon, <2>1 DEF Bracketed
  <2> QED BY Zenon, <1>6, <1>m, <2>1, <2>2, <2>3
<1>9. CASE ShutAt(h, i, b)
  <2>1. h[i] = ">" /\ i <= n /\ b = TRUE
    BY Zenon, <1>9, <1>n DEF ShutAt, IsIn
  <2>2. ScanOf(h, G, <<i, b>>) = <<Made(">", i, 1)>> \o G[<<i + 1, FALSE>>]
    BY Zenon, <1>0, <1>9, <1>n, ScanBranches
  <2>3. Bracketed(">", b, FALSE)
    BY Zenon, <2>1 DEF Bracketed
  <2> QED BY Zenon, <1>6, <1>m, <2>1, <2>2, <2>3
<1>10. CASE EmptyAt(h, i)
  <2>1. h[i] = "<" /\ i <= n /\ i + 1 <= n /\ h[i + 1] = ">"
    BY Zenon, <1>10, <1>n DEF EmptyAt, IsIn
  <2>n. i + 2 \in i + 1 .. n + 1 /\ i \in 1 .. Len(h)
    <3>1. i + 1 <= n
      BY <2>1
    <3> QED BY <1>0, <1>n, <3>1
  <2>2. ScanOf(h, G, <<i, b>>)
          = <<Made("<", i, 1), Made(Text, i, 0), Made(">", i + 1, 1)>> \o G[<<i + 2, b>>]
    BY Zenon, <1>0, <1>10, <1>n, ScanBranches
  <2>3. PICK rest : rest = G[<<i + 2, b>>]
    OBVIOUS
  <2>4. rest \in Seq(Token) /\ Ready(h, T, text, off, H, b, rest)
    BY Zenon, <1>2, <2>n, <2>3 DEF Fine
  <2>5. Fine(b, <<Made("<", i, 1), Made(Text, i, 0), Made(">", i + 1, 1)>> \o rest)
    BY Zenon, <1>0, <1>n, <2>1, <2>n, <2>4, ReadyEmpty DEF Fine
  <2> QED BY Zenon, <1>1, <2>2, <2>3, <2>5
<1>11. ASSUME NEW at \in Nat \ {0}, NEW len \in Nat, at + len <= n + 1, NEW rest \in Seq(Token)
       PROVE  Through(Made(Dquote, at, len), b, b, rest) /\ Made(Dquote, at, len) \in Token
  <2>1. Made(Dquote, at, len) \in Token
    BY KindFacts DEF Made
  <2>2. Through(Made(Dquote, at, len), b, b, rest)
    BY <1>11, <1>n, CarriesString DEF Through
  <2> QED BY <2>1, <2>2
<1>12. ASSUME NEW len \in Nat, i + len <= n + 1, ScanOf(h, G, <<i, b>>) = <<Made(Dquote, i, len)>>
       PROVE  Fine(b, G[<<i, b>>])
  <2>1. << >> \in Seq(Token) /\ i \in Nat \ {0}
    BY <1>0, EmptySeq
  <2>2. Through(Made(Dquote, i, len), b, b, << >>) /\ Made(Dquote, i, len) \in Token
    BY <1>11, <1>12, <2>1
  <2>3. PICK t : t = Made(Dquote, i, len)
    OBVIOUS
  <2>4. Fine(b, << t >>)
    BY Zenon, <1>0, <2>2, <2>3, ReadyLast DEF Fine, Through
  <2> QED BY Zenon, <1>1, <1>12, <2>3, <2>4
<1>13. CASE IsIn(h, i, {Dquote}) /\ Quotes(h, i) = {}
  <2>1. ScanOf(h, G, <<i, b>>) = <<Made(Dquote, i, 0)>>
    BY Zenon, <1>0, <1>13, <1>n, ScanBranches
  <2>2. 0 \in Nat /\ i + 0 <= n + 1
    BY <1>0
  <2> QED BY <1>12, <2>1, <2>2
<1>14. CASE IsIn(h, i, {Dquote}) /\ Quotes(h, i) # {}
  <2>1. ScanOf(h, G, <<i, b>>)
          = <<Made(Dquote, i + 1, Min(Quotes(h, i)) - i - 1)>> \o G[<<Min(Quotes(h, i)) + 1, b>>]
    BY Zenon, <1>0, <1>14, <1>n, ScanBranches
  <2>2. Quotes(h, i) \subseteq i + 1 .. n /\ Quotes(h, i) \in SUBSET Nat
    BY <1>0, <1>n DEF Quotes
  <2>3. PICK k \in i + 1 .. n : k = Min(Quotes(h, i))
    BY <1>14, <2>2, MinFacts
  <2>4. PICK at, len, e : at = i + 1 /\ len = k - i - 1 /\ e = k + 1
    OBVIOUS
  <2>5. /\ at \in Nat \ {0} /\ len \in Nat /\ at + len <= n + 1 /\ e \in i + 1 .. n + 1
    BY <1>0, <2>4
  <2>6. ScanOf(h, G, <<i, b>>) = <<Made(Dquote, at, len)>> \o G[<<e, b>>]
    BY Zenon, <2>1, <2>3, <2>4
  <2>7. G[<<e, b>>] \in Seq(Token)
    BY <1>2, <2>5
  <2>8. Through(Made(Dquote, at, len), b, b, G[<<e, b>>]) /\ Made(Dquote, at, len) \in Token
    BY <1>11, <2>5, <2>7
  <2> QED BY Zenon, <1>3, <2>5, <2>6, <2>8
<1>15. CASE IsIn(h, i, {"("}) /\ CommentEnd(h, i) = 0
  <2>1. ScanOf(h, G, <<i, b>>) = <<Made(Dquote, i, Escapes(h, i))>>
    <3>1. IsIn(h, i, {"("}) /\ CommentEnd(h, i) = 0 =>
            ScanOf(h, G, <<i, b>>) = <<Made(Dquote, i, Escapes(h, i))>>
      BY <1>0, <1>n, ScanBranches
    <3> QED BY Zenon, <1>15, <3>1
  <2>2. i \in 1 .. Len(h)
    BY <1>0, <1>15, <1>n DEF IsIn
  <2>3. Escapes(h, i) \in 0 .. n - i
    BY <1>0, <1>n, <2>2, EscapesFacts
  <2>4. PICK len : len = Escapes(h, i)
    OBVIOUS
  <2>5. len \in Nat /\ i + len <= n + 1
    BY <1>0, <2>3, <2>4
  <2> QED BY <1>12, <2>1, <2>4, <2>5
<1>16. CASE IsIn(h, i, {"("}) /\ CommentEnd(h, i) # 0
  <2>1. ScanOf(h, G, <<i, b>>)
          = <<Made("(", i, CommentEnd(h, i) - i + 1)>> \o G[<<CommentEnd(h, i) + 1, b>>]
    BY Zenon, <1>0, <1>16, <1>n, ScanBranches
  <2>2. i \in 1 .. Len(h)
    BY <1>0, <1>16, <1>n DEF IsIn
  <2>3. CommentEnd(h, i) \in i + 1 .. n
    BY <1>0, <1>16, <1>n, <2>2, CommentEndFacts
  <2>4. PICK len, e : len = CommentEnd(h, i) - i + 1 /\ e = CommentEnd(h, i) + 1
    OBVIOUS
  <2>5. len \in Nat /\ e \in i + 1 .. n + 1
    BY <1>0, <2>3, <2>4
  <2>6. G[<<e, b>>] \in Seq(Token)
    BY <1>2, <2>5
  <2>7. Made("(", i, len) \in Token
    BY <1>0, <2>5, KindFacts DEF Made
  <2>8. Through(Made("(", i, len), b, b, G[<<e, b>>])
    <3>1. PICK rest : rest = G[<<e, b>>]
      OBVIOUS
    <3>2. rest \in Seq(Token) /\ b \in BOOLEAN
      BY <2>6, <3>1
    <3>3. Carries(h, T, text, off, H, Made("(", i, len), b, b, rest)
      BY <1>0, <3>2, CarriesComment
    <3> QED BY Zenon, <3>1, <3>3 DEF Through
  <2> QED BY Zenon, <1>3, <2>1, <2>4, <2>5, <2>7, <2>8
<1>17. CASE NoneAt(h, i, b)
  <2>1. ScanOf(h, G, <<i, b>>) = G[<<i + 1, b>>]
    BY Zenon, <1>0, <1>17, <1>n, ScanBranches
  <2>2. i + 1 \in i + 1 .. n + 1
    BY <1>0, <1>17, <1>n DEF NoneAt
  <2>3. Fine(b, G[<<i + 1, b>>])
    BY Zenon, <1>2, <2>2
  <2> QED BY Zenon, <1>1, <2>1, <2>3
<1>18. \/ i > n \/ (i <= n /\ WordAt(h, i)) \/ IsIn(h, i, Atom) \/ IsIn(h, i, {Dquote})
       \/ IsIn(h, i, {"("}) \/ EmptyAt(h, i) \/ OpenAt(h, i, b) \/ ShutAt(h, i, b)
       \/ NoneAt(h, i, b)
  <2>1. i <= n \/ i > n
    BY <1>0
  <2> QED BY Zenon, <1>n, <2>1 DEF NoneAt
<1> QED
  BY Zenon, <1>4, <1>5, <1>7, <1>8, <1>9, <1>10, <1>13, <1>14, <1>15, <1>16, <1>17, <1>18

(* So all tokens can be read again,                                        *)
LEMMA ReadyAll ==
  ASSUME NEW h, NEW T, NEW text, NEW off, NEW H, NEW G, Rereading(h, T, text, off, H, G)
  PROVE  \A i \in 1 .. Len(h) + 1, b \in BOOLEAN : Ready(h, T, text, off, H, b, G[<<i, b>>])
<1> DEFINE n == Len(h)
           D == 1 .. n + 1
           r == [i \in D |-> n + 1 - i]
           Done(i) == \A b \in BOOLEAN : Ready(h, T, text, off, H, b, G[<<i, b>>])
           P == [i \in D |-> {x \in BOOLEAN : Done(i)}]
           g == [i \in D |-> TRUE]
<1>0. n \in Nat
  BY LenProperties DEF Rereading, Reading
<1>1. r \in [D -> Nat] /\ \A i, e \in D : e > i => r[e] < r[i]
  BY <1>0
<1>2. \A i \in D : g[i] \in P[i] <=> Done(i)
  OBVIOUS
<1>3. ASSUME NEW i \in D, \A e \in D : e > i => Done(e) PROVE Done(i)
  BY <1>3, ReadyStep
<1>4. Carried(D, r, g, P)
  <2> SUFFICES ASSUME NEW i \in D, \A e \in D : r[e] < r[i] => g[e] \in P[e]
               PROVE  g[i] \in P[i]
    BY <1>1 DEF Carried
  <2> HIDE DEF r, P, g, Done, D
  <2> QED BY <1>1, <1>2, <1>3
<1>5. \A i \in D : Done(i)
  <2>1. \A i \in D : g[i] \in P[i]
    <3> HIDE DEF r, P, g, Done, D
    <3> QED BY <1>4, Ranked
  <2> QED BY <1>2, <2>1
<1> QED BY <1>5

(* and the text says the same.                                             *)
LEMMA TextSaysTheSame ==
  ASSUME NEW h \in Seq(Symbol),
         \A t \in Range(Tokenize(h)) : t.token = Dquote => \A j \in Span(t) : h[j] # Dquote
  PROVE  LET text == Recombine(h, Tokenize(h), 1, Len(Tokenize(h)), AddressFlags)
         IN Said(text, Tokenize(text)) = Said(h, Tokenize(h))
<1>1. PICK T : T = Tokenize(h)
  OBVIOUS
<1>2. PICK text : text = Recombine(h, T, 1, Len(T), AddressFlags)
  OBVIOUS
<1>3. PICK G : Scanned(h, G) /\ T = G[<<1, FALSE>>]
  <2>1. PICK G : /\ \A at \in ScanIn(h) : /\ G[at] = ScanOf(h, G, at)
                                         /\ G[at] \in Laid(h, at[1], Len(h))
                 /\ Tokenize(h) = G[<<1, FALSE>>]
    BY TokenizeRuns
  <2> QED BY <1>1, <2>1 DEF Scanned
<1>4. T \in Laid(h, 1, Len(h)) /\ T \in Seq(Token)
  BY <1>1, TokenizeFacts DEF Laid
<1>5. PICK off : Restoring(h, T, text, off)
  BY <1>2, <1>4, Restores
<1>6. text \in Seq(Symbol)
  BY <1>5 DEF Restoring
<1>7. PICK H : Scanned(text, H) /\ Tokenize(text) = H[<<1, FALSE>>]
  <2>1. PICK H : /\ \A at \in ScanIn(text) : /\ H[at] = ScanOf(text, H, at)
                                            /\ H[at] \in Laid(text, at[1], Len(text))
                 /\ Tokenize(text) = H[<<1, FALSE>>]
    BY <1>6, TokenizeRuns
  <2> QED BY <1>6, <2>1 DEF Scanned
<1>8. Rereading(h, T, text, off, H, G)
  <2>1. ASSUME NEW k \in 1 .. Len(T), T[k].token = Dquote, NEW j \in Span(T[k])
        PROVE  h[j] # Dquote
    <3>1. k \in DOMAIN T
      BY <1>4, LenProperties
    <3>2. T[k] \in Range(T)
      BY <3>1 DEF Range
    <3> QED BY <1>1, <2>1, <3>2
  <2> QED BY <1>3, <1>4, <1>5, <1>7, <2>1 DEF Rereading, Reading
<1>9. Ready(h, T, text, off, H, FALSE, T)
  <2>1. 1 \in 1 .. Len(h) + 1 /\ FALSE \in BOOLEAN
    BY LenProperties
  <2>2. Ready(h, T, text, off, H, FALSE, G[<<1, FALSE>>])
    BY Zenon, <1>8, <2>1, ReadyAll
  <2> QED BY Zenon, <1>3, <2>2
<1>10. Restored(h, T, text, off, H, 1, FALSE, T)
  <2>1. 1 \in 1 .. Len(T) + 1
    BY <1>4, LenProperties
  <2>2. TailOf(T, 1, T)
    BY <1>4, <2>1, TailNone
  <2> QED BY Zenon, <1>9, <2>1, <2>2 DEF Ready
<1>11. off[1] + 1 = 1
  <2>1. off[1] = 0
    BY <1>5 DEF Restoring
  <2> QED BY <2>1
<1>12. Said(text, H[<<1, FALSE>>]) = Said(h, T)
  BY Zenon, <1>10, <1>11 DEF Restored
<1> QED BY Zenon, <1>1, <1>2, <1>7, <1>12

-----------------------------------------------------------------------------
(* What Recombine needs and what is allocated for it.  One turn of the     *)
(* counting loop, with G as what the turns before have come to:            *)
CountStep(toks, flags, G, k) ==
  CASE k = 0 -> [len |-> 1, last_was_atom |-> FALSE]
    [] k > 0 /\ PassedOver(toks[k], flags) -> G[k - 1]
    [] OTHER -> [len |-> G[k - 1].len + Room(toks[k], G[k - 1].last_was_atom, flags),
                 last_was_atom |-> IsAtom(toks[k])]

CountAll(toks, flags) ==
  (CHOOSE G : G = [k \in 0 .. Len(toks) |-> CountStep(toks, flags, G, k)])[Len(toks)].len

LEMMA AllocatedUnfolds ==
  ASSUME NEW toks, NEW first, NEW count, NEW flags
  PROVE  RecombineRoom(toks, first, count, flags)
           = CountAll(SubSeq(toks, first, Min({first + count - 1, Len(toks)})), flags)
BY DEF RecombineRoom, CountAll, CountStep

LEMMA RoomFacts ==
  ASSUME NEW t \in Token, NEW a, NEW flags
  PROVE  Room(t, a, flags) \in Nat /\ Room(t, a, flags) >= t.len
<1>1. t.len \in Nat
  BY DEF Token
<1> DEFINE x == IF "SPACE_ATOMS" \in flags /\ a /\ IsAtom(t) THEN 1 ELSE 0
           y == IF "INCLUDE_QUOTES" \in flags /\ TokEquiv(t, flags) = Dquote THEN 2 ELSE 0
<1>2. x \in {0, 1} /\ y \in {0, 2} /\ Room(t, a, flags) = t.len + x + y
  BY Zenon DEF Room
<1> HIDE DEF x, y
<1> QED BY <1>1, <1>2

(* It counts turn by turn.                                                 *)
LEMMA AllocatedRuns ==
  ASSUME NEW toks \in Seq(Token), NEW flags
  PROVE  \E G \in [0 .. Len(toks) -> [len : Nat, last_was_atom : BOOLEAN]] :
           /\ \A k \in 0 .. Len(toks) : G[k] = CountStep(toks, flags, G, k)
           /\ CountAll(toks, flags) = G[Len(toks)].len
<1> DEFINE n == Len(toks)
           D == 0 .. n
           T == [len : Nat, last_was_atom : BOOLEAN]
           r == [i \in D |-> i]
           F == [i \in D |-> [G \in [D -> T] |-> CountStep(toks, flags, G, i)]]
<1>0. n \in Nat /\ n \in D /\ \A i \in 1 .. n : toks[i] \in Token
  <2>1. n \in Nat /\ toks \in [1 .. n -> Token]
    BY LenProperties
  <2>2. \A i \in 1 .. n : toks[i] \in Token
    BY Zenon, <2>1
  <2> QED BY <2>1, <2>2
<1>1. r \in [D -> Nat] /\ (\A i \in D : r[i] <= n) /\ \A i \in D : r[i] = i
  BY <1>0
<1>2. \A i \in D, G \in [D -> T] : F[i][G] = CountStep(toks, flags, G, i)
  OBVIOUS
<1>s. \A i \in D : i # 0 => i > 0 /\ i \in 1 .. n /\ i - 1 \in D /\ i - 1 < i
  BY <1>0
<1>t. ASSUME NEW t \in Token, NEW x \in T
      PROVE  [len |-> x.len + Room(t, x.last_was_atom, flags), last_was_atom |-> IsAtom(t)] \in T
  <2>1. Room(t, x.last_was_atom, flags) \in Nat /\ x.len \in Nat
    BY RoomFacts
  <2>2. IsAtom(t) \in BOOLEAN
    BY DEF IsAtom
  <2> QED BY <2>1, <2>2
<1>z. [len |-> 1, last_was_atom |-> FALSE] \in T
  OBVIOUS
<1>3. ASSUME NEW i \in D, NEW G, i # 0 => G[i - 1] \in T
      PROVE  CountStep(toks, flags, G, i) \in T
  <2>1. CASE i = 0
    <3>1. CountStep(toks, flags, G, i) = [len |-> 1, last_was_atom |-> FALSE]
      BY <2>1 DEF CountStep
    <3> QED BY <1>z, <3>1
  <2>2. CASE i # 0 /\ PassedOver(toks[i], flags)
    <3>1. CountStep(toks, flags, G, i) = G[i - 1]
      BY <1>s, <2>2 DEF CountStep
    <3> QED BY <1>3, <2>2, <3>1
  <2>3. CASE i # 0 /\ ~PassedOver(toks[i], flags)
    <3>1. CountStep(toks, flags, G, i)
            = [len |-> G[i - 1].len + Room(toks[i], G[i - 1].last_was_atom, flags),
               last_was_atom |-> IsAtom(toks[i])]
      BY <1>s, <2>3 DEF CountStep
    <3>2. toks[i] \in Token /\ G[i - 1] \in T
      BY <1>0, <1>s, <1>3, <2>3
    <3> HIDE DEF T
    <3> QED BY <1>t, <3>1, <3>2
  <2> QED BY <2>1, <2>2, <2>3
<1>4. F \in [D -> [[D -> T] -> T]]
  <2>1. ASSUME NEW i \in D, NEW G \in [D -> T] PROVE CountStep(toks, flags, G, i) \in T
    <3>1. i # 0 => G[i - 1] \in T
      BY <1>s
    <3> HIDE DEF T, D
    <3> QED BY <1>3, <3>1
  <2> HIDE DEF T, D
  <2> QED BY <2>1
<1> HIDE DEF F, r, D, T
<1>5. ASSUME NEW i \in D, NEW G \in [D -> T], NEW H \in [D -> T],
             \A e \in D : r[e] < r[i] => G[e] = H[e]
      PROVE  F[i][G] = F[i][H]
  <2>1. CASE i = 0
    <3>1. CountStep(toks, flags, G, i) = CountStep(toks, flags, H, i)
      BY <2>1 DEF CountStep
    <3> QED BY <1>2, <3>1
  <2>2. CASE i # 0
    <3>1. G[i - 1] = H[i - 1]
      BY <1>1, <1>s, <1>5, <2>2
    <3>2. CountStep(toks, flags, G, i) = CountStep(toks, flags, H, i)
      BY Zenon, <3>1 DEF CountStep
    <3> QED BY <1>2, <3>2
  <2> QED BY <2>1, <2>2
<1>6. PICK g \in [D -> T] : \A i \in D : g[i] = F[i][g]
  <2>1. RankedBy(F, r, n, D, T)
    BY <1>0, <1>1, <1>4, <1>5, <1>z DEF RankedBy
  <2> QED BY <2>1, Recursion
<1>7. g = [i \in D |-> CountStep(toks, flags, g, i)]
  BY <1>2, <1>6
<1>8. PICK G : /\ G = [i \in D |-> CountStep(toks, flags, G, i)]
               /\ CountAll(toks, flags) = G[n].len
  <2> DEFINE C == CHOOSE G : G = [i \in D |-> CountStep(toks, flags, G, i)]
  <2>1. CountAll(toks, flags) = C[n].len
    BY Zenon DEF CountAll, D
  <2>2. C = [i \in D |-> CountStep(toks, flags, C, i)]
    BY Zenon, <1>7
  <2> HIDE DEF C
  <2> QED BY Zenon, <2>1, <2>2
<1>9. \A i \in D : G[i] = CountStep(toks, flags, G, i)
  BY <1>8
<1> DEFINE P == [i \in D |-> T]
<1>10. ASSUME NEW i \in D, \A e \in D : r[e] < r[i] => G[e] \in P[e]
       PROVE  G[i] \in P[i]
  <2>1. i # 0 => G[i - 1] \in T
    BY <1>1, <1>s, <1>10
  <2> QED BY <1>3, <1>9, <2>1
<1>11. \A i \in D : G[i] \in P[i]
  <2> HIDE DEF P
  <2>1. Carried(D, r, G, P)
    BY <1>1, <1>10 DEF Carried
  <2> QED BY <2>1, Ranked
<1>12. G \in [D -> T]
  BY <1>8, <1>11
<1> QED BY <1>8, <1>9, <1>12 DEF T, D

(* Both loops leave out the same tokens.                                   *)
LEMMA KeptMeans ==
  ASSUME NEW t, NEW flags
  PROVE  IsKept(t, flags) <=> ~PassedOver(t, flags)
<1>1. "(" # Dquote
  BY DEF Dquote
<1> QED BY Zenon, <1>1 DEF IsKept, PassedOver, TokEquiv

(* What a token adds to the text is no more than what is counted for it.   *)
LeadOf(t, a, flags) ==
  IF "SPACE_ATOMS" \in flags /\ a /\ IsAtom(t) THEN << " " >> ELSE << >>
PieceOf(h, t, a, flags) ==
  LeadOf(t, a, flags) \o QuoteMark(t, flags) \o Value(h, t, flags) \o QuoteMark(t, flags)

LEMMA LeadFacts ==
  ASSUME NEW t, NEW a, NEW flags
  PROVE  /\ LeadOf(t, a, flags) \in Seq(Symbol)
         /\ Len(LeadOf(t, a, flags))
              = IF "SPACE_ATOMS" \in flags /\ a /\ IsAtom(t) THEN 1 ELSE 0
<1> DEFINE p == "SPACE_ATOMS" \in flags /\ a /\ IsAtom(t)
           lead == LeadOf(t, a, flags)
<1>1. PICK c \in Symbol : c = " "
  BY Zenon DEF Symbol
<1>2. lead = IF p THEN << c >> ELSE << >>
  BY Zenon, <1>1 DEF LeadOf
<1> HIDE DEF p, lead
<1>3. << c >> \in Seq(Symbol) /\ << >> \in Seq(Symbol)
  BY RangeOfOne
<1>4. Len(<< c >>) = 1 /\ Len(<< >>) = 0
  OBVIOUS
<1>5. lead \in Seq(Symbol) /\ Len(lead) = IF p THEN 1 ELSE 0
  BY <1>2, <1>3, <1>4
<1> QED BY Zenon, <1>5 DEF p, lead

LEMMA MarkFacts ==
  ASSUME NEW t, NEW flags
  PROVE  /\ QuoteMark(t, flags) \in Seq(Symbol)
         /\ Len(QuoteMark(t, flags))
              = IF "INCLUDE_QUOTES" \in flags /\ TokEquiv(t, flags) = Dquote THEN 1 ELSE 0
<1> DEFINE q == "INCLUDE_QUOTES" \in flags /\ TokEquiv(t, flags) = Dquote
           p == "INCLUDE_QUOTES" \in flags /\ (t.token = Dquote \/ Unwrapped(t, flags))
<1>1. q <=> p
  <2>1. CASE Unwrapped(t, flags)
    <3>1. TokEquiv(t, flags) = Dquote
      BY Zenon, <2>1 DEF TokEquiv, Unwrapped
    <3> QED BY Zenon, <2>1, <3>1
  <2>2. CASE ~Unwrapped(t, flags)
    <3>1. TokEquiv(t, flags) = t.token
      BY Zenon, <2>2 DEF TokEquiv, Unwrapped
    <3> QED BY Zenon, <2>2, <3>1
  <2> QED BY <2>1, <2>2
<1> DEFINE mark == QuoteMark(t, flags)
<1>2. mark = IF q THEN << Dquote >> ELSE << >>
  BY Zenon, <1>1 DEF QuoteMark
<1>3. mark \in Seq(Symbol)
  BY QuoteMarkFacts
<1> HIDE DEF q, p, mark
<1>4. mark \in Seq(Symbol) /\ Len(mark) = IF q THEN 1 ELSE 0
  BY <1>2, <1>3
<1> QED BY Zenon, <1>4 DEF q, mark

LEMMA PieceFits ==
  ASSUME NEW h \in Seq(Symbol), NEW t \in Token, Span(t) \subseteq 1 .. Len(h),
         NEW a, NEW flags
  PROVE  /\ PieceOf(h, t, a, flags) \in Seq(Symbol)
         /\ Len(PieceOf(h, t, a, flags)) <= Room(t, a, flags)
<1>1. t.from \in Nat /\ t.len \in Nat
  BY DEF Token
<1>2. \A i \in Span(t) : h[i] \in Symbol
  BY LenProperties
<1> DEFINE lead == LeadOf(t, a, flags)
           mark == QuoteMark(t, flags)
           said == Value(h, t, flags)
           x == IF "SPACE_ATOMS" \in flags /\ a /\ IsAtom(t) THEN 1 ELSE 0
           q == "INCLUDE_QUOTES" \in flags /\ TokEquiv(t, flags) = Dquote
           y == IF q THEN 2 ELSE 0
<1>3. Room(t, a, flags) = t.len + x + y
  BY Zenon DEF Room
<1>4. lead \in Seq(Symbol) /\ Len(lead) = x
  BY Zenon, LeadFacts
<1>5. mark \in Seq(Symbol) /\ Len(mark) = IF q THEN 1 ELSE 0
  BY Zenon, MarkFacts
<1>6. said \in Seq(Symbol) /\ Len(said) <= t.len
  <2>1. CASE Unwrapped(t, flags)
    <3> DEFINE m == t.from + 1
               n == t.from + t.len - 2
    <3>1. m \in Int /\ n \in Int /\ m .. n \subseteq Span(t)
          /\ (IF m <= n THEN n - m + 1 ELSE 0) <= t.len
      BY <1>1 DEF Span
    <3>2. said = SubSeq(h, m, n)
      BY Zenon, <2>1 DEF Value
    <3> HIDE DEF m, n, said
    <3>3. \A i \in m .. n : h[i] \in Symbol
      BY <1>2, <3>1
    <3>4. /\ SubSeq(h, m, n) \in Seq(Symbol)
          /\ Len(SubSeq(h, m, n)) = IF m <= n THEN n - m + 1 ELSE 0
      BY <3>1, <3>3, SubSeqProperties
    <3> QED BY <3>1, <3>2, <3>4
  <2>2. CASE ~Unwrapped(t, flags)
    <3> DEFINE m == t.from
               n == t.from + t.len - 1
    <3>1. m \in Int /\ n \in Int /\ m .. n \subseteq Span(t)
          /\ (IF m <= n THEN n - m + 1 ELSE 0) <= t.len
      BY <1>1 DEF Span
    <3>2. said = SubSeq(h, m, n)
      BY Zenon, <2>2 DEF Value
    <3> HIDE DEF m, n, said
    <3>3. \A i \in m .. n : h[i] \in Symbol
      BY <1>2, <3>1
    <3>4. /\ SubSeq(h, m, n) \in Seq(Symbol)
          /\ Len(SubSeq(h, m, n)) = IF m <= n THEN n - m + 1 ELSE 0
      BY <3>1, <3>3, SubSeqProperties
    <3> QED BY <3>1, <3>2, <3>4
  <2> QED BY <2>1, <2>2
<1> HIDE DEF lead, mark, said, q
<1>7. /\ lead \o mark \o said \o mark \in Seq(Symbol)
      /\ Len(lead \o mark \o said \o mark) = Len(lead) + Len(mark) + Len(said) + Len(mark)
  <2>1. PICK l : l = lead
    OBVIOUS
  <2>2. l \in Seq(Symbol)
    BY <1>4, <2>1
  <2>3. l \o mark \o said \o mark \in Seq(Symbol) /\ InParts(l \o mark \o said \o mark, l, mark, said, mark)
    BY <1>5, <1>6, <2>2, FourParts
  <2> QED BY Zenon, <2>1, <2>3 DEF InParts
<1>8. Len(lead) + Len(mark) + Len(said) + Len(mark) <= t.len + x + y
  <2>1. Len(said) \in Nat /\ x \in {0, 1}
    BY <1>6, LenProperties
  <2>2. Len(mark) = IF q THEN 1 ELSE 0
    BY <1>5
  <2>3. Len(lead) = x /\ Len(said) <= t.len
    BY <1>4, <1>6
  <2> HIDE DEF x
  <2> QED BY ONLY <1>1, <2>1, <2>2, <2>3
<1>9. Len(lead \o mark \o said \o mark) <= t.len + x + y
  BY Zenon, <1>7, <1>8
<1> QED BY Zenon, <1>3, <1>7, <1>9 DEF PieceOf, lead, mark, said

(* Whether the last token before the j-th that is kept is an atom.         *)
EndsInAtom(toks, kept, j) ==
  {i \in kept : i < j} # {} /\ IsAtom(toks[Max({i \in kept : i < j})])

LEMMA EndsInAtomFacts ==
  ASSUME NEW toks, NEW n \in Nat, NEW kept \in SUBSET (1 .. n), NEW j \in 1 .. n
  PROVE  EndsInAtom(toks, kept, j + 1) <=> IF j \in kept THEN IsAtom(toks[j])
                                           ELSE EndsInAtom(toks, kept, j)
<1> DEFINE before(k) == {i \in kept : i < k}
<1>1. CASE j \notin kept
  <2>1. \A i \in kept : i < j + 1 <=> i < j
    BY <1>1
  <2>2. before(j + 1) = before(j)
    BY <2>1
  <2>3. EndsInAtom(toks, kept, j + 1) <=> EndsInAtom(toks, kept, j)
    <3>1. PICK A, B : A = before(j + 1) /\ B = before(j)
      OBVIOUS
    <3>2. EndsInAtom(toks, kept, j + 1) <=> A # {} /\ IsAtom(toks[Max(A)])
      BY Zenon, <3>1 DEF EndsInAtom
    <3>3. EndsInAtom(toks, kept, j) <=> B # {} /\ IsAtom(toks[Max(B)])
      BY Zenon, <3>1 DEF EndsInAtom
    <3>4. A = B
      BY Zenon, <2>2, <3>1
    <3> HIDE DEF before
    <3> QED BY Zenon, <3>2, <3>3, <3>4
  <2> QED BY <1>1, <2>3
<1>2. CASE j \in kept
  <2>0. j < j + 1 /\ \A i \in kept : i \in 1 .. n
    OBVIOUS
  <2>a. j \in before(j + 1)
    BY Zenon, <1>2, <2>0
  <2>b. before(j + 1) \in SUBSET (1 .. n)
    BY Zenon, <2>0
  <2>1. j \in before(j + 1) /\ before(j + 1) \in SUBSET (1 .. n)
    BY Zenon, <2>a, <2>b
  <2>2. \A i \in before(j + 1) : i <= j
    OBVIOUS
  <2> HIDE DEF before
  <2>3. /\ Max(before(j + 1)) \in before(j + 1)
        /\ \A i \in before(j + 1) : i <= Max(before(j + 1))
    BY <2>1, MaxOfPositions
  <2>4. PICK m \in 1 .. n : m = Max(before(j + 1))
    BY <2>1, <2>3
  <2>5. m = j
    BY <2>1, <2>2, <2>3, <2>4
  <2>6. before(j + 1) # {}
    BY <2>1
  <2> QED BY Zenon, <1>2, <2>4, <2>5, <2>6 DEF EndsInAtom, before
<1> QED BY <1>1, <1>2

(* For every stretch of the tokens of a header and all flags, what is      *)
(* allocated is enough for the text and the NUL behind it.                 *)
LEMMA AllocatedIsEnough ==
  ASSUME NEW h \in Seq(Symbol), NEW T \in Laid(h, 1, Len(h)),
         NEW first \in Nat \ {0}, NEW count \in Int, NEW flags
  PROVE  Len(Recombine(h, T, first, count, flags))
           < RecombineRoom(T, first, count, flags)
<1> DEFINE last == Min({first + count - 1, Len(T)})
           kept == {k \in first .. last : IsKept(T[k], flags)}
           lead(k) == IF Spaced(T, kept, k, flags) THEN << " " >> ELSE << >>
           piece(k) == IF k \in kept
                       THEN lead(k) \o QuoteMark(T[k], flags) \o Value(h, T[k], flags)
                            \o QuoteMark(T[k], flags)
                       ELSE << >>
           pieces == [k \in 1 .. last - first + 1 |-> piece(first + k - 1)]
           flat == FlattenSeq(pieces)
           toks == SubSeq(T, first, last)
           N == Len(T)
<1>0. /\ T \in Seq(Token) /\ N \in Nat /\ Len(h) \in Nat
      /\ \A k \in 1 .. N : T[k] \in Token /\ Span(T[k]) \subseteq 1 .. Len(h)
  BY LenProperties DEF Laid
<1>1. last \in Int /\ last <= N
  <2>1. first + count - 1 \in Int /\ N \in Int
    BY <1>0
  <2> QED BY <2>1, MinPair
<1>2. Recombine(h, T, first, count, flags) = IF "STRTOLOWER" \in flags THEN ToLower(flat) ELSE flat
  BY Zenon DEF Recombine
<1>3. RecombineRoom(T, first, count, flags) = CountAll(toks, flags)
  BY Zenon, AllocatedUnfolds
<1> HIDE DEF last
<1>4. \A k : k \notin kept => piece(k) = << >>
  OBVIOUS
<1>5. ASSUME NEW k \in kept
      PROVE  piece(k) = PieceOf(h, T[k], EndsInAtom(T, kept, k), flags)
  <2>1. Spaced(T, kept, k, flags)
          <=> "SPACE_ATOMS" \in flags /\ EndsInAtom(T, kept, k) /\ IsAtom(T[k])
    BY Zenon DEF Spaced, EndsInAtom
  <2>2. lead(k) = LeadOf(T[k], EndsInAtom(T, kept, k), flags)
    <3>1. CASE Spaced(T, kept, k, flags)
      <4>1. lead(k) = << " " >>
        BY Zenon, <3>1
      <4>2. LeadOf(T[k], EndsInAtom(T, kept, k), flags) = << " " >>
        BY Zenon, <2>1, <3>1 DEF LeadOf
      <4> QED BY Zenon, <4>1, <4>2
    <3>2. CASE ~Spaced(T, kept, k, flags)
      <4>1. lead(k) = << >>
        BY Zenon, <3>2
      <4>2. LeadOf(T[k], EndsInAtom(T, kept, k), flags) = << >>
        BY Zenon, <2>1, <3>2 DEF LeadOf
      <4> QED BY Zenon, <4>1, <4>2
    <3> QED BY Zenon, <3>1, <3>2
  <2>3. piece(k) = lead(k) \o QuoteMark(T[k], flags) \o Value(h, T[k], flags)
                   \o QuoteMark(T[k], flags)
    BY Zenon, <1>5
  <2> QED BY Zenon, <2>2, <2>3 DEF PieceOf
<1>6. kept \in SUBSET (1 .. N) /\ \A k \in kept : k >= first /\ k <= last
  BY <1>0, <1>1
<1>7. \A k \in first .. last : k \in kept <=> ~PassedOver(T[k], flags)
  BY KeptMeans
<1> DEFINE room(k) == Room(T[k], EndsInAtom(T, kept, k), flags)
<1> HIDE DEF kept, lead, piece
<1>8. ASSUME NEW k \in kept
      PROVE  /\ piece(k) \in Seq(Symbol) /\ Len(piece(k)) <= room(k)
  <2>1. k \in 1 .. N /\ T[k] \in Token /\ Span(T[k]) \subseteq 1 .. Len(h)
    BY <1>0, <1>6
  <2>2. /\ PieceOf(h, T[k], EndsInAtom(T, kept, k), flags) \in Seq(Symbol)
        /\ Len(PieceOf(h, T[k], EndsInAtom(T, kept, k), flags)) <= room(k)
    BY <2>1, PieceFits
  <2> QED BY Zenon, <1>5, <2>2
<1>9. << >> \in Seq(Symbol) /\ Len(<< >>) = 0
  <2>1. Dquote \in Symbol
    BY Zenon DEF Symbol
  <2> QED BY <2>1, EmptySeq
<1>10. \A k : piece(k) \in Seq(Symbol)
  BY <1>4, <1>8, <1>9
<1> DEFINE m == last - first + 1
           n == IF m \in Nat THEN m ELSE 0
<1>11. m \in Int /\ n \in Nat /\ 1 .. m = 1 .. n /\ (n > 0 => n = m)
  BY <1>1
<1>12. /\ pieces \in Seq(Seq(Symbol)) /\ Len(pieces) = n
       /\ \A k \in 1 .. n : pieces[k] = piece(first + k - 1)
  <2>1. pieces = [k \in 1 .. n |-> piece(first + k - 1)]
    BY <1>11
  <2> HIDE DEF pieces, n
  <2>2. pieces \in [1 .. n -> Seq(Symbol)]
    BY <1>10, <2>1
  <2> QED BY <1>11, <2>1, <2>2, FunctionIsSeq
<1>13. /\ toks \in Seq(Token) /\ Len(toks) = n
       /\ \A k \in 1 .. n : toks[k] = T[first + k - 1]
  <2>1. first \in Int /\ last \in Int /\ \A i \in first .. last : T[i] \in Token
    BY <1>0, <1>1
  <2>2. /\ toks \in Seq(Token)
        /\ Len(toks) = IF first <= last THEN last - first + 1 ELSE 0
        /\ \A i \in 1 .. last - first + 1 : toks[i] = T[first + i - 1]
    BY <2>1, SubSeqProperties
  <2> HIDE DEF toks
  <2>3. Len(toks) = n /\ \A i \in 1 .. n : i \in 1 .. last - first + 1
    BY <1>1, <2>2
  <2> QED BY <2>2, <2>3
<1>14. \A k \in 1 .. n : first + k - 1 \in first .. last /\ first + k - 1 \in 1 .. N
  BY <1>0, <1>1, <1>11
<1> HIDE DEF pieces, toks, n, m, flat
<1>15. PICK off \in [1 .. n + 1 -> Nat] :
         /\ off[1] = 0 /\ off[n + 1] = Len(flat)
         /\ \A k \in 1 .. n : off[k + 1] = off[k] + Len(pieces[k])
  BY <1>12, FlattenPlaces DEF flat
<1>16. PICK G \in [0 .. n -> [len : Nat, last_was_atom : BOOLEAN]] :
         /\ \A k \in 0 .. n : G[k] = CountStep(toks, flags, G, k)
         /\ CountAll(toks, flags) = G[n].len
  BY <1>13, AllocatedRuns
<1> DEFINE Ends(j) == EndsInAtom(T, kept, j)
           S == {k \in Nat : k <= n => /\ off[k + 1] < G[k].len
                                       /\ G[k].last_was_atom <=> Ends(first + k)}
<1>17. 0 \in S
  <2>1. G[0] = [len |-> 1, last_was_atom |-> FALSE]
    BY <1>11, <1>16 DEF CountStep
  <2>2. ~Ends(first)
    <3>0. \A i \in kept : i \in 1 .. N /\ i >= first /\ ~(i < first)
      BY <1>0, <1>6
    <3>1. {i \in kept : i < first} = {}
      BY Zenon, <3>0
    <3> QED BY Zenon, <3>1 DEF EndsInAtom
  <2>3. off[0 + 1] = 0 /\ first + 0 = first
    BY <1>15
  <2> HIDE DEF Ends
  <2> QED BY <2>1, <2>2, <2>3
<1>18. ASSUME NEW k \in Nat, k \in S PROVE k + 1 \in S
  <2> SUFFICES ASSUME k + 1 <= n
               PROVE  /\ off[(k + 1) + 1] < G[k + 1].len
                      /\ G[k + 1].last_was_atom <=> Ends(first + (k + 1))
    OBVIOUS
  <2> DEFINE i == k + 1
             j == first + k
  <2>1. /\ i \in 1 .. n /\ i \in 0 .. n /\ k \in 0 .. n /\ i > 0 /\ i # 0 /\ i - 1 = k
        /\ first + i - 1 = j /\ first + (k + 1) = j + 1 /\ i + 1 \in 1 .. n + 1 /\ i \in 1 .. n + 1
    BY <1>11
  <2>2. /\ off[i] < G[k].len /\ (G[k].last_was_atom <=> Ends(j))
        /\ off[i] \in Nat /\ off[i + 1] \in Nat
    BY <1>15, <1>18, <2>1
  <2>3. G[k] \in [len : Nat, last_was_atom : BOOLEAN] /\ G[i] = CountStep(toks, flags, G, i)
    BY <1>16, <2>1
  <2>4. off[i + 1] = off[i] + Len(piece(j))
    BY <1>12, <1>15, <2>1
  <2>5. toks[i] = T[j] /\ j \in 1 .. N /\ j \in first .. last /\ T[j] \in Token
    BY <1>0, <1>13, <1>14, <2>1
  <2>6. Ends(j + 1) <=> IF j \in kept THEN IsAtom(T[j]) ELSE Ends(j)
    BY <1>0, <1>6, <2>5, EndsInAtomFacts
  <2> HIDE DEF Ends, S, i, j
  <2>7. CASE j \notin kept
    <3>1. G[i] = G[k]
      BY <1>7, <2>1, <2>3, <2>5, <2>7 DEF CountStep
    <3>2. Len(piece(j)) = 0
      BY Zenon, <1>4, <1>9, <2>7
    <3>3. off[i + 1] = off[i]
      BY <2>2, <2>4, <3>2
    <3>4. off[i + 1] < G[i].len
      BY Zenon, <2>2, <3>1, <3>3
    <3> QED BY Zenon, <2>1, <2>2, <2>6, <2>7, <3>1, <3>4 DEF i
  <2>8. CASE j \in kept
    <3>1. G[i] = [len |-> G[k].len + Room(T[j], G[k].last_was_atom, flags),
                  last_was_atom |-> IsAtom(T[j])]
      BY <1>7, <2>1, <2>3, <2>5, <2>8 DEF CountStep
    <3>2. PICK a \in Nat, b \in Nat, c \in Nat :
            a = off[i] /\ b = G[k].len /\ c = Len(piece(j))
      BY <1>8, <2>2, <2>3, <2>8, LenProperties
    <3>3. Room(T[j], Ends(j), flags) = Room(T[j], G[k].last_was_atom, flags)
      BY <2>2, <2>3 DEF Room
    <3>4. PICK d \in Nat : d = Room(T[j], G[k].last_was_atom, flags)
      BY <2>5, RoomFacts
    <3>5. c <= d
      BY Zenon, <1>8, <2>8, <3>2, <3>3, <3>4 DEF Ends
    <3>6. G[i].len = b + d /\ off[i + 1] = a + c /\ a < b
      BY <2>2, <2>4, <3>1, <3>2, <3>4
    <3>7. off[i + 1] < G[i].len
      BY <3>5, <3>6
    <3>8. G[i].last_was_atom = IsAtom(T[j])
      BY <3>1
    <3> QED BY <2>1, <2>6, <2>8, <3>7, <3>8 DEF i
  <2> QED BY <2>7, <2>8
<1>19. n \in S
  <2> HIDE DEF S
  <2> QED BY <1>11, <1>17, <1>18, Induct
<1>20. Len(flat) < CountAll(toks, flags)
  BY <1>11, <1>15, <1>16, <1>19
<1>21. Len(ToLower(flat)) = Len(flat)
  <2>1. flat \in Seq(Seq(Symbol)) \/ flat \in Seq(Symbol)
    BY <1>12, FlattenFacts DEF flat
  <2>2. Len(flat) \in Nat /\ DOMAIN flat = 1 .. Len(flat)
    BY <2>1, LenProperties
  <2>3. ToLower(flat) = [k \in 1 .. Len(flat) |-> ToLower(flat)[k]]
    BY Zenon, <2>2 DEF ToLower
  <2> DEFINE g == ToLower(flat)
             R == {g[k] : k \in 1 .. Len(flat)}
  <2>4. g \in [1 .. Len(flat) -> R]
    BY <2>3
  <2> HIDE DEF g, R
  <2> QED BY <2>2, <2>4, FunctionIsSeq DEF g
<1>22. Len(Recombine(h, T, first, count, flags)) = Len(flat)
  BY Zenon, <1>2, <1>21
<1> QED BY Zenon, <1>3, <1>20, <1>22

-----------------------------------------------------------------------------
(* Type correctness.                                                       *)
THEOREM AddressesTyped == Spec => []TypeOK
<1>1. IInv => TypeOK
  BY TypedIsTypeOK DEF IInv
<1> QED BY <1>1, Invariance, PTL

(* Whatever the look-aheads find, a goto of parse_address_tokens leads on  *)
(* to later tokens, so that a call ends.                                   *)
THEOREM TurnsAdvance == Spec => []EveryTurnAdvances
<1>1. IInv => EveryTurnAdvances
  <2> SUFFICES ASSUME IInv, start_tok <= ntokens
               PROVE  (IF EndsGroup THEN Resume + 1 ELSE Resume) > start_tok
    BY DEF EveryTurnAdvances
  <2>1. ReadOK /\ ntokens \in Nat /\ start_tok \in 1 .. ntokens + 2 /\ in_group \in BOOLEAN
    BY ReadFacts DEF IInv, Typed
  <2>2. start_tok \in 1 .. ntokens /\ start_tok \in Nat
    BY <2>1
  <2>3. (IF EndsGroup THEN Resume + 1 ELSE Resume) \in start_tok + 1 .. ntokens + 2
    BY <2>1, <2>2, TurnValues
  <2> QED BY <2>1, <2>2, <2>3
<1> QED BY <1>1, Invariance, PTL

(* The two passes of php_rfc822_parse_address_tokens find the same entries:*)
(* no slot that was counted is left without a name or an address, and no   *)
(* entry is found without a slot.                                          *)
THEOREM SlotsAreFilled == Spec => []SlotsFilled
<1>1. IInv => SlotsFilled
  <2> SUFFICES ASSUME IInv PROVE SlotsFilled
    OBVIOUS
  <2>1. ASSUME pass # "count"
        PROVE  /\ iaddr <= Len(addrs)
               /\ \A k \in 1 .. iaddr : Null \notin {addrs[k].name, addrs[k].address}
    BY <2>1, NullFacts DEF IInv, Taken, TakenBy, Filled
  <2>2. pass = "done" => iaddr = Len(addrs) /\ naddrs = Len(addrs)
    BY DEF IInv, Counted, CountedBy
  <2> QED BY <2>1, <2>2 DEF SlotsFilled
<1> QED BY <1>1, Invariance, PTL

(* The entries take their words from the header in order, none from        *)
(* another's, and without groups no word outside comments is lost.         *)
THEOREM WordsAreKept == Spec => []WordsKept
<1>1. IInv => WordsKept
  <2> SUFFICES ASSUME IInv, pass = "done" PROVE WordsKept
    BY DEF WordsKept
  <2>0. /\ ReadOK /\ ntokens \in Nat /\ start_tok \in Nat
        /\ DOMAIN tokens = 1 .. ntokens /\ DOMAIN addrs = 1 .. iaddr
    <3>1. ReadOK /\ addrs \in Seq(Entry) /\ iaddr = Len(addrs)
      BY DEF IInv, Typed, Counted, CountedBy
    <3>2. ntokens \in Nat /\ DOMAIN tokens = 1 .. ntokens
      BY <3>1, ReadFacts
    <3> QED BY <3>1, <3>2, LenProperties DEF IInv, Typed
  <2>1. \A k : WordsOf(k) = Says(addrs[k])
    BY DEF WordsOf, Says, WordsIn
  <2>2. \A k, m \in DOMAIN addrs : k < m =>
          \A v \in WordsOf(k), w \in WordsOf(m) : v < w
    BY <2>0, <2>1 DEF IInv, Taken, TakenBy
  <2>3. ASSUME Whole, NEW i \in Spoken PROVE \E k \in DOMAIN addrs : i \in WordsOf(k)
    <3>1. PICK t \in Range(tokens) : t.token # "(" /\ i \in t.from .. t.from + t.len - 1
      BY DEF Spoken
    <3>2. PICK j \in 1 .. ntokens : t = tokens[j]
      BY <2>0 DEF Range
    <3>3. i \in Span(tokens[j]) /\ tokens[j].token # "(" /\ header[i] \in Word
      BY <3>1, <3>2 DEF Spoken, Span
    <3>4. Told(addrs, iaddr, start_tok) /\ j < start_tok
      BY <2>0, <2>3 DEF IInv, Taken
    <3>5. \E k \in 1 .. iaddr : i \in Says(addrs[k])
      BY <3>3, <3>4 DEF Told
    <3> QED BY <2>0, <2>1, <3>5
  <2>4. Whole => Spoken \subseteq UNION {WordsOf(k) : k \in DOMAIN addrs}
    BY <2>3
  <2> QED BY <2>2, <2>4 DEF WordsKept, Whole
<1> QED BY <1>1, Invariance, PTL

(* php_rfc822_recombine_tokens undoes the scanner: the text it makes for   *)
(* the address part of any header, scanned again, says the same in the     *)
(* same order, comments apart.                                             *)
THEOREM TextsAreRestored == Spec => []RecombineRestores
<1>1. IInv => RecombineRestores
  <2> SUFFICES ASSUME IInv, ~QuoteInside
               PROVE  LET text == Recombine(header, tokens, 1, ntokens, AddressFlags)
                      IN Said(text, Tokenize(text)) = Said(header, tokens)
    BY DEF RecombineRestores
  <2>1. tokens = Tokenize(header) /\ header \in Seq(Symbol) /\ DOMAIN header = 1 .. Len(header)
    BY ReadFacts DEF IInv, Typed, ReadOK
  <2>2. ASSUME NEW t \in Range(tokens), t.token = Dquote, NEW j \in Span(t)
        PROVE  header[j] # Dquote
    BY <2>2 DEF QuoteInside, Span
  <2> QED BY <2>1, <2>2, TextSaysTheSame DEF ntokens
<1> QED BY <1>1, Invariance, PTL

(* What php_rfc822_recombine_tokens allocates is enough for the text it    *)
(* writes and the NUL, for every header, every stretch of its tokens and   *)
(* the flags of every call.                                                *)
THEOREM TextsFit == Spec => []TextFits
<1>1. IInv => TextFits
  <2> SUFFICES ASSUME IInv, NEW first \in 1 .. ntokens, NEW flags,
                      NEW count \in 0 .. ntokens - first + 1
               PROVE  Len(Recombine(header, tokens, first, count, flags))
                        < RecombineRoom(tokens, first, count, flags)
    BY DEF TextFits
  <2>1. /\ header \in Seq(Symbol) /\ tokens \in Laid(header, 1, Len(header))
        /\ ntokens \in Nat
    BY ReadFacts, TokenizeFacts DEF IInv, Typed, ReadOK
  <2>2. first \in Nat \ {0} /\ count \in Int
    BY <2>1
  <2> QED BY <2>1, <2>2, AllocatedIsEnough
<1> QED BY <1>1, Invariance, PTL
=============================================================================
