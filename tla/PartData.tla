------------------------------ MODULE PartData ------------------------------
(* The header table of a part and what mailparse_msg_get_part_data tells   *)
(* of it, on top of Attributes, which parses the content type.             *)
(*                                                                         *)
(* The header fields of a part are the sequence of their names, in lower   *)
(* case; a value is where it comes from: the k-th field, the content type  *)
(* in front of its attributes, an attribute, or a default.                 *)
EXTENDS Attributes

CONSTANTS
  Fields(_),   \* lists of fields a part may have with that content type
  Numbers,     \* names of fields that are numbers
  Labels       \* what the attributes may be called, with their "content-"

(* "content-id" and "content-description" are no numbers.                  *)
ASSUME FieldsAssumption ==
  \A h \in Headers : \A fields \in Fields(h) : fields \in Seq(Range(fields))
ASSUME NumbersAssumption ==
  Numbers \cap {"content-id", "content-description"} = {}

FromFields(places) == <<"fields", places>>
FromAttribute(b)   == <<"attribute", b>>
FromType           == <<"type">>
Default            == <<"default">>

-----------------------------------------------------------------------------
(* php_mimepart_process_header enters the k-th field into headerhash: to   *)
(* and cc are joined, other names that come back have their values in an   *)
(* array.  PHP makes an index of a name that is a number, under which the  *)
(* name is not found.                                                      *)
Enter(fields, table, k) ==
  LET key   == fields[k]
      again == key \in DOMAIN table \ Numbers
      kind  == IF again /\ key \notin {"to", "cc"} THEN "array" ELSE "string"
      old   == IF again THEN table[key].at ELSE <<>>
  IN Set(table, key, [kind |-> kind, at |-> Append(old, k)])
HeaderTable(fields) ==
  LET After[k \in 0 .. Len(fields)] ==
        IF k = 0 THEN <<>> ELSE Enter(fields, After[k - 1], k)
  IN After[Len(fields)]

(* Of some fields it keeps a copy besides, of the last one of each name.   *)
Copied == {"content-transfer-encoding", "content-location", "content-base",
           "content-disposition"}
Copies(fields) ==
  LET After[k \in 0 .. Len(fields)] ==
        CASE k = 0 -> <<>>
          [] k > 0 /\ fields[k] \in Copied ->
               Set(After[k - 1], fields[k], FromFields(<<k>>))
          [] OTHER -> After[k - 1]
  IN After[Len(fields)]

(* mailparse_get_part_data: what it enters is written over what it entered *)
(* before.  The attributes of the content type come before its value, and  *)
(* an entry of the table goes in as it is, but the content id, which is    *)
(* the first one.                                                          *)
Over(late, early) ==
  [key \in DOMAIN late \cup DOMAIN early |->
     IF key \in DOMAIN late THEN late[key] ELSE early[key]]
TypeData_ValueFirst(label) ==                             \* mutant
  Over([key \in {label[b] : b \in DOMAIN attributes} |->
          FromAttribute(CHOOSE b \in DOMAIN attributes : label[b] = key)],
       Set(<<>>, "content-type", FromType))
TypeData(label) ==
  Set([key \in {label[b] : b \in DOMAIN attributes} |->
         FromAttribute(CHOOSE b \in DOMAIN attributes : label[b] = key)],
      "content-type", FromType)
PartData(fields, label) ==
  LET table  == HeaderTable(fields)
      copies == Copies(fields)
      Copy(key) == IF key \in DOMAIN copies THEN copies[key] ELSE Default
      encoded == Set(<<>>, "transfer-encoding", Copy("content-transfer-encoding"))
      typed   == Over(IF "content-type" \in DOMAIN table THEN TypeData(label)
                      ELSE Set(<<>>, "content-type", Default), encoded)
      located == Over([key \in {"content-location", "content-disposition"}
                               \cap DOMAIN copies |-> copies[key]], typed)
      based   == Set(located, "content-base", Copy("content-base"))
      named   == Over([key \in {"content-id"} \cap DOMAIN table |->
                         FromFields(<<table[key].at[1]>>)], based)
  IN Over([key \in {"content-description", "content-language", "content-md5"}
                   \cap DOMAIN table |-> FromFields(table[key].at)], named)

-----------------------------------------------------------------------------
Places(fields, key) == {k \in DOMAIN fields : fields[k] = key}

(* The header table keeps every field, under its name and in the order of  *)
(* the message, though one insertion creates an entry, one joins it and    *)
(* one turns it into an array; a name that is a number has its last value. *)
FieldsKept ==
  AtEnd => \A fields \in Fields(header) :
    LET table == HeaderTable(fields) IN
    /\ DOMAIN table = Range(fields)
    /\ \A key \in DOMAIN table :
         LET places == Places(fields, key) IN
         /\ table[key].at = IF key \in Numbers THEN <<Max(places)>>
                            ELSE InOrder(places)
         /\ table[key].kind = "string" <=>
              Cardinality(places) = 1 \/ key \in {"to", "cc"} \cup Numbers

(* Attributes are entered as "content-" and their names, next to headers   *)
(* of such names.  Still none hides a header: "a bogus set of headers" does *)
(* not "overwrite content-type" (add_attr_header_to_zval), and where a     *)
(* header came more than once, each key has the one it is about.           *)
HeadersNotHidden ==
  AtEnd => \A fields \in Fields(header), label \in Labels :
    LET data == PartData(fields, label) IN
    \A key \in Range(fields) :
      LET places == Places(fields, key) IN
      CASE key = "content-type" -> data[key] = FromType
        [] key = "content-id"   -> data[key] = FromFields(<<Min(places)>>)
        [] key \in Copied \ {"content-transfer-encoding"} ->
             data[key] = FromFields(<<Max(places)>>)
        [] key = "content-description" ->
             data[key] = FromFields(InOrder(places))
        [] OTHER -> TRUE
=============================================================================
