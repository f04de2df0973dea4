-------------------------------- MODULE Wire --------------------------------
(***************************************************************************)
(* How the generated message classes travel: what serializeBinaryToWriter  *)
(* puts on the wire for a message, and what deserializeBinaryFromReader of *)
(* the same or of another generation of the class makes of it.             *)
(*                                                                         *)
(* A class is its schema, a function from field numbers to fields; classes *)
(* numbered 1, 2, ... are written as tuples.  A message is a function from *)
(* field names to values.  What is on the wire is a function from the      *)
(* numbers of the fields that were written to what was written.  The value *)
(* of a field of message type is {} where it is not set and otherwise      *)
(* {w}, w being what that message's own class wrote.                       *)
(***************************************************************************)

Field(name, type, shape) == [name |-> name, type |-> type, shape |-> shape]

Str(name)    == Field(name, "string", "one")
Bool(name)   == Field(name, "bool", "one")
Enum(name)   == Field(name, "enum", "one")
Int32(name)  == Field(name, "int32", "one")
Int64(name)  == Field(name, "int64", "one")
Uint32(name) == Field(name, "uint32", "one")
Double(name) == Field(name, "double", "one")
Sub(name)    == Field(name, "message", "one")
Strs(name)   == Field(name, "string", "many")
Enums(name)  == Field(name, "enum", "many")
Subs(name)   == Field(name, "message", "many")
StrMap(name) == Field(name, "string", "map")

Names(S) == {S[n].name : n \in DOMAIN S}

\* No two fields of a class share a name (or a number, S being a function).
WellFormed(S) == \A i, j \in DOMAIN S : S[i].name = S[j].name => i = j

Number(S, x) == CHOOSE n \in DOMAIN S : S[n].name = x

Message(S, m) == m = [x \in Names(S) |-> m[x]]

\* What a getter returns of a field that was never set.
Default(f) ==
  CASE f.shape # "one"     -> <<>>
    [] f.type = "string"   -> ""
    [] f.type = "bool"     -> FALSE
    [] f.type = "message"  -> {}
    [] OTHER               -> 0

\* A new message, as the constructor makes it.
New(S) == [x \in Names(S) |-> Default(S[Number(S, x)])]

\* The three ways bytes follow a tag: a varint, eight bytes, a length and bytes.
WireType(f) ==
  CASE f.shape = "one" /\ f.type \in {"bool", "enum", "int32", "int64", "uint32"} -> 0
    [] f.shape = "one" /\ f.type = "double" -> 1
    [] OTHER -> 2

\* A field is written unless it has its default.
Written(S, m) == {n \in DOMAIN S : m[S[n].name] # Default(S[n])}

Write(S, m) ==
  [n \in Written(S, m) |->
     [type |-> S[n].type, shape |-> S[n].shape, wire |-> WireType(S[n]), value |-> m[S[n].name]]]

\* The readers check the wire type of every field they know and throw where it
\* is another; they skip the fields they do not know.
Readable(S, w) == \A n \in DOMAIN S \cap DOMAIN w : w[n].wire = WireType(S[n])

\* Bytes read as another type than they were written as: some value or an
\* exception of the field's reader, which no part of this project tells apart.
Garbled == "garbled"

ReadField(f, b) == IF b.type = f.type /\ b.shape = f.shape THEN b.value ELSE Garbled

Read(S, w) ==
  [x \in Names(S) |->
     LET n == Number(S, x) IN
       IF n \in DOMAIN w THEN ReadField(S[n], w[n]) ELSE Default(S[n])]

\* Two generations of a class that give a number they share the same type.
\* They may call it differently: names are not on the wire.
Agree(S, T) ==
  \A n \in DOMAIN S \cap DOMAIN T : S[n].type = T[n].type /\ S[n].shape = T[n].shape
=============================================================================
