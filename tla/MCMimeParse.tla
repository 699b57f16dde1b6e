---------------------------- MODULE MCMimeParse ----------------------------
(* Instances of MimeParse for TLC: two boundaries, one a prefix of the     *)
(* other, and small input alphabets for the runs.                          *)
EXTENDS MimeParseTree, Sections, TLC

MCBoundary  == {"a", "ab"}
MCDelimiter == {"a", "ab", "a--", "ab--"}
MCOpens     == ("a" :> {"a", "ab", "ab--"}) @@ ("ab" :> {"ab"})
MCCloses    == ("a" :> {"a--"}) @@ ("ab" :> {"ab--"})

Plain(kind, len, eol) == [kind |-> kind, len |-> len, eol |-> eol,
                          delim |-> NoDelimiter, header |-> NoHeader]
Blank         == Plain("blank", 0, 1)
Text          == Plain("text", 1, 2)
Dashes(d, n)  == [Plain("text", n, 1) EXCEPT !.delim = d]
Field(h, n)   == [Plain("field", n, 1) EXCEPT !.header = h]
Fold(b, n)    == [Plain("fold", n, 1) EXCEPT !.header.boundary = b]
Type(t, b)    == [NoHeader EXCEPT !.key = "content-type", !.type = t,
                                  !.boundary = b]
MimeVersion(v) == [NoHeader EXCEPT !.key = "mime-version", !.version = v]

Mixed   == Field(Type("multipart/mixed", "a"), 2)
MixedAB == Field(Type("multipart/mixed", "ab"), 2)
Digest  == Field(Type("multipart/digest", "a"), 2)
MessageT == Field(Type("message/rfc822", NoBoundary), 2)
Indent  == [Fold(NoBoundary, 2) EXCEPT !.header = Mixed.header]
Bare    == Field(Type("multipart/mixed", NoBoundary), 2)

NestingLines == {Blank, Text, Mixed, MixedAB, MessageT,
                 Dashes("a", 1), Dashes("ab", 1), Dashes("a--", 1)}
LimitLines   == {Blank, Text, Mixed, MessageT, Dashes("a", 1), Dashes("a--", 1)}
ApiLines     == LimitLines \cup
                {Bare, Digest, Indent, Fold("a", 2), Fold(NoBoundary, 2),
                 Field(MimeVersion("1.0"), 2), Field(MimeVersion("other"), 2),
                 Field(OtherHeader, 2)}
=============================================================================
