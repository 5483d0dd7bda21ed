------------------------------- MODULE Syntax -------------------------------
(***************************************************************************)
(* Syntax elements and the tables that list them.                          *)
(*                                                                         *)
(* The functions that write a header (TEncCavlc, SEIWriter) and those that *)
(* parse it (TDecCavlc, SEIReader) are each a table: the sequence of       *)
(* syntax elements, with the field every element carries.  A writer's      *)
(* table depends on the object being written.  A reader's table depends    *)
(* on what has been read so far, so the reader computes it again whenever  *)
(* a field changes.                                                        *)
(*                                                                         *)
(* An object (a parameter set, a slice, an SEI message) is a function from *)
(* keys to integers; a key is the name of a field and its indices, a field *)
(* that is missing is 0.  What is written is the sequence of items, and,   *)
(* for the elements the codec keeps out of the stream, a file of integers. *)
(***************************************************************************)
EXTENDS Integers, Sequences, SequencesExt, TLC

o $$ key == IF key \in DOMAIN o THEN o[key] ELSE 0
o $ name == o $$ <<name>>

(* An object from a TLA+ record; a sequence is an array indexed from 0.    *)
Fields(rec) == [key \in {<<f>> : f \in DOMAIN rec} |-> rec[key[1]]]
Array(name, seq) == [key \in {<<name, i - 1>> : i \in DOMAIN seq} |-> seq[key[2] + 1]]

When(condition, table) == IF condition THEN table ELSE << >>

-----------------------------------------------------------------------------
(* Elements.  An element with a key carries (field \div unit) - offset; one *)
(* with the empty key carries the value v.                                  *)

Element(kind, w, key, v) ==
  [kind |-> kind, w |-> w, key |-> key, v |-> v, offset |-> 0, unit |-> 1]

u(w, name) == Element("u", w, <<name>>, 0)
flag(name) == Element("u", 1, <<name>>, 0)
ue(name)   == Element("ue", 0, <<name>>, 0)
se(name)   == Element("se", 0, <<name>>, 0)
int(name)  == Element("file", 0, <<name>>, 0)

uOf(w, v)  == Element("u", w, << >>, v)
flagOf(v)  == Element("u", 1, << >>, v)
ueOf(v)    == Element("ue", 0, << >>, v)
seOf(v)    == Element("se", 0, << >>, v)
intOf(v)   == Element("file", 0, << >>, v)

e ** i == [e EXCEPT !.key = Append(@, i)]
e -- n == [e EXCEPT !.offset = n]
e // n == [e EXCEPT !.unit = n]

(* An element of which the object keeps nothing, but the rest of the table  *)
(* depends on it.                                                           *)
syntax(e) == [e EXCEPT !.key = <<"syntax">> \o @]

(* What a reader does between two elements: assign fields, assert, read     *)
(* the rest of the stream as extension data.                                *)
rest            == Element("rest", 0, << >>, 0)
set(fields)     == Element("set", 0, fields, 0)
assign(name, v) == set(<<name>> :> v)
check(b)        == Element("check", 0, << >>, IF b THEN 1 ELSE 0)

Flags(names) == [i \in 1..Len(names) |-> flag(names[i])]

-----------------------------------------------------------------------------
(* Writing.                                                                *)

(* xConvertToUInt *)
ToUInt(v)   == IF v <= 0 THEN -v * 2 ELSE (v * 2) - 1
FromUInt(c) == IF c % 2 = 1 THEN (c + 1) \div 2 ELSE -(c \div 2)

Carried(o, e) == IF e.key = << >> THEN e.v ELSE ((o $$ e.key) \div e.unit) - e.offset

(* TComOutputBitstream::write asserts that the value has no more than w    *)
(* bits, xWriteUvlc that the value plus one is not 0 in 32 bits.           *)
Writes(o, e) ==
  LET v == Carried(o, e)
  IN  CASE e.kind = "u"     -> v >= 0 /\ e.w > 0 /\ (e.w >= 31 \/ v < 2^e.w)
        [] e.kind = "ue"    -> v >= 0
        [] e.kind = "check" -> v = 1
        [] OTHER            -> TRUE

Item(o, e) ==
  CASE e.kind = "se" -> [kind |-> "ue", w |-> 0, code |-> ToUInt(Carried(o, e))]
    [] OTHER         -> [kind |-> e.kind, w |-> e.w, code |-> Carried(o, e)]

CanWrite(o, table) == \A i \in DOMAIN table : Writes(o, table[i])

Items(o, table) ==
  LET InStream(e) == e.kind \in {"u", "ue", "se", "align"}
      elements    == SelectSeq(table, InStream)
  IN  [i \in DOMAIN elements |-> Item(o, elements[i])]

FileItems(o, table) ==
  LET InFile(e) == e.kind = "file"
      elements  == SelectSeq(table, InFile)
  IN  [i \in DOMAIN elements |-> Carried(o, elements[i])]

-----------------------------------------------------------------------------
(* Reading one element.  s.o is what is known of the object, s.at the place *)
(* in the table, s.next the next item, s.int the next integer of the file.  *)

Store(s, e, code) ==
  IF e.key = << >> THEN s.o ELSE (e.key :> ((code + e.offset) * e.unit)) @@ s.o

SameElement(item, e) ==
  /\ item.kind = (IF e.kind = "se" THEN "ue" ELSE e.kind)
  /\ item.w = e.w

ReadElement(s, e, items, file) ==
  CASE e.kind = "set"   -> [s EXCEPT !.o = e.key @@ @, !.at = @ + 1]
    [] e.kind = "check" -> [s EXCEPT !.failed = (e.v = 0), !.at = @ + 1]
    [] e.kind = "rest"  -> [s EXCEPT !.next = Len(items) + 1, !.at = @ + 1]
    [] e.kind = "file"  ->
         IF s.int > Len(file) THEN [s EXCEPT !.failed = TRUE]
         ELSE [s EXCEPT !.o = Store(s, e, file[s.int]), !.at = @ + 1, !.int = @ + 1]
    [] OTHER ->
         IF s.next > Len(items) THEN [s EXCEPT !.failed = TRUE]
         ELSE IF ~SameElement(items[s.next], e) THEN [s EXCEPT !.failed = TRUE]
         ELSE LET code == items[s.next].code
                  v    == IF e.kind = "se" THEN FromUInt(code) ELSE code
              IN  [s EXCEPT !.o = Store(s, e, v), !.at = @ + 1, !.next = @ + 1]

(* Where a reader starts, knowing the fields of o.                         *)
Start(o) == [o |-> o, at |-> 1, next |-> 1, int |-> 1, failed |-> FALSE]
=============================================================================
