---------------------------- MODULE MCAttributes ----------------------------
(* Headers for PartData: a value and up to four attributes.  The value   *)
(* of the k-th attribute is the word tk, or ck, which has a charset.       *)
EXTENDS PartData

Names    == {"h", "a", "b", "a*0", "A*1", "a*1", "a*2*", "b*0*", "b*1"}
Ordinary == <<"t1", "t2", "t3", "t4">>
Charsets == <<"c1", "c2", "c3", "c4">>

MCWord  == Names \cup Range(Ordinary) \cup Range(Charsets)
MCLower == [w \in MCWord |-> IF w = "A*1" THEN "a*1" ELSE w]
MCBase  == [w \in MCWord |-> CASE w \in {"a*0", "a*1", "a*2*"} -> "a"
                              [] w \in {"b*0*", "b*1"}         -> "b"
                              [] OTHER                         -> w]
MCStar  == [w \in MCWord |-> CASE w \in {"a*0", "a*1", "b*1"} -> "continued"
                              [] w \in {"a*2*", "b*0*"}       -> "encoded"
                              [] OTHER                        -> "none"]

Attribute(k) == LET t == Ordinary[k]
                    c == Charsets[k] IN
  {<<";", name, "=", t>> : name \in {"a", "b", "a*0", "A*1", "a*2*", "b*1"}}
  \cup {<<";", "a*2*", "=", c>>, <<";", "b*0*", "=", c>>,
        <<";", "a", "(", t, ")", "=", "\"", c, "\"", t>>,
        <<";", "(", c, ")", "b", "=", t>>, <<";", t>>, <<";">>}

WithAttributes[k \in 0 .. 4] ==
  IF k = 0 THEN {<<"h", ":", "t1">>}
  ELSE {h \o a : h \in WithAttributes[k - 1], a \in Attribute(k)}
MCHeaders == UNION {WithAttributes[k] : k \in 0 .. 4}

(* The other fields of a part with that header: every list of up to three  *)
(* for a content type with up to one attribute, and a few for two.         *)
Keys == {"to", "x", "7", "content-type", "content-id", "content-base",
         "content-description", "content-disposition"}
FewFields == {<<"content-type">>, <<"content-id", "content-type", "content-id">>,
              <<"content-type", "content-disposition", "content-base">>}
MCFields(h) == CASE Len(h) <= 7       -> UNION {[1 .. n -> Keys] : n \in 0 .. 3}
                 [] Len(h) \in 8 .. 11 -> FewFields
                 [] OTHER             -> {<<"content-type">>}
MCLabels ==
  {label \in [{<<"a">>, <<"b">>} ->
               {"content-type", "content-id", "content-base", "content-x"}] :
     label[<<"a">>] # label[<<"b">>]}
=============================================================================
