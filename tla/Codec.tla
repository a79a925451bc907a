-------------------------------- MODULE Codec -------------------------------
(***************************************************************************)
(* Packing and parsing of OpenFlow objects (ofagent/loxi): what pack()     *)
(* and unpack() of the generated classes do with the items of a class,     *)
(* the OFReader they use, and parse_message().                             *)
(*                                                                         *)
(* An object is a class and a value for each of its fields: a number, a    *)
(* byte string, a set of bit numbers, an object or a list of objects.  A   *)
(* behaviour takes one object, packs it and parses the bytes.              *)
(***************************************************************************)
EXTENDS Layout, SequencesExt

CONSTANTS
    Protocols,      \* wire version -> set of classes of the library for it
    Depth,          \* nesting of the lists in the objects enumerated
    Omitted         \* versions and classes that are not enumerated

VARIABLES
    version,
    obj,            \* the object packed
    top,            \* the class whose unpack() parses it
    buf,            \* its bytes
    back,           \* what the parser returned
    phase

vars == <<version, obj, top, buf, back, phase>>

\* A library as the operators below use it: its classes by name, the
\* dictionaries `subtypes' (class name -> key -> name of the subclass), the
\* class whose unpack() is called for objects of a class, and the classes of
\* which such an unpack() returns objects, those with subclasses left out.
ByName(classes) ==
    [n \in {c.name : c \in classes} |-> CHOOSE c \in classes : c.name = n]

SubtypesOf(own) ==
    [k \in {c.key : c \in own} |-> (CHOOSE c \in own : c.key = k).name]

RECURSIVE Top(_, _)
Top(table, n) ==
    IF table[n].parent = "" THEN n ELSE Top(table, table[n].parent)

Members(table, tops, parents) ==
    [n \in {m \in DOMAIN table : table[m].parent = ""} |->
        {m \in DOMAIN table : m \notin parents /\ tops[m] = n}]

WithTops(classes, table, tops) ==
    [table |-> table, top |-> tops,
     members |-> Members(table, tops, {c.parent : c \in classes}),
     subtypes |-> [n \in {m \in DOMAIN table : table[m].peek # NoPeek} |->
                    SubtypesOf({c \in classes : c.parent = n})]]

WithTable(classes, table) ==
    WithTops(classes, table, [n \in DOMAIN table |-> Top(table, n)])

Library(classes) == WithTable(classes, ByName(classes))

Libraries == [v \in DOMAIN Protocols |-> Library(Protocols[v])]

-----------------------------------------------------------------------------
(***************************************************************************)
(* Bytes                                                                   *)
(***************************************************************************)

ZeroBytes(n) == [i \in 1..n |-> 0]

\* struct.pack and struct.unpack of numbers, big-endian.  TLC's numbers have
\* 31 bits: the upper bytes of wider fields are zero.
ToBytes(n, size) ==
    [i \in 1..size |->
        IF size - i > 3 THEN 0 ELSE (n \div 256^(size - i)) % 256]

FromBytes(bytes) ==
    FoldLeft(LAMBDA n, b : 256 * n + b, 0, bytes)

\* struct.pack("!<n>s"): cut off or filled with zero bytes; rstrip('\x00').
ToText(bytes, size) ==
    [i \in 1..size |-> IF i <= Len(bytes) THEN bytes[i] ELSE 0]

Stripped(bytes) ==
    LET used == {i \in 1..Len(bytes) : bytes[i] # 0} IN
    SubSeq(bytes, 1, IF used = {} THEN 0
                     ELSE CHOOSE i \in used : \A j \in used : j <= i)

\* pack_bitmap_128 and pack_bitmap_512, and back.
BitmapBytes(bits, size) ==
    [i \in 1..size |->
        LET own == {b \in 0..7 : 8 * (size - i) + b \in bits} IN
        FoldLeft(LAMBDA n, b : n + IF b \in own THEN 2^b ELSE 0, 0,
                 <<0, 1, 2, 3, 4, 5, 6, 7>>)]

BitmapOf(bytes) ==
    {b \in 0..(8 * Len(bytes) - 1) :
        (bytes[Len(bytes) - (b \div 8)] \div 2^(b % 8)) % 2 = 1}

\* pad_to(8, length).
PadTo8(length) == ZeroBytes(((length + 7) \div 8) * 8 - length)

-----------------------------------------------------------------------------
(***************************************************************************)
(* pack()                                                                  *)
(***************************************************************************)

RECURSIVE PackObject(_, _)

PackList(lib, os) == FlattenSeq([i \in 1..Len(os) |-> PackObject(lib, os[i])])

\* What pack() appends for an item; a length is filled in at the end.
PackItem(lib, it, fields) ==
    CASE it.kind = "const" -> it.bytes
      [] it.kind = "num" -> ToBytes(fields[it.name], it.size)
      [] it.kind = "zeros" -> ZeroBytes(it.size)
      [] it.kind = "length" -> ZeroBytes(2)
      [] it.kind = "lengthof" -> H(Len(PackList(lib, fields[it.name])))
      [] it.kind \in {"text", "raw"} -> ToText(fields[it.name], it.size)
      [] it.kind = "bitmap" -> BitmapBytes(fields[it.name], it.size)
      [] it.kind = "rest" -> fields[it.name]
      [] it.kind = "object" -> PackObject(lib, fields[it.name])
      [] it.kind \in {"list", "listin"} -> PackList(lib, fields[it.name])
      [] it.kind \in {"align", "fill"} -> <<>>

Has(items, kind) == \E i \in 1..Len(items) : items[i].kind = kind

\* Mutant: the length is taken before the lists are packed.
PackObject_ShortLength(lib, o) ==
    LET items == lib.table[o.class].layout
        packed == [i \in 1..Len(items) |-> PackItem(lib, items[i], o.fields)]
        size == Len(FlattenSeq([i \in 1..Len(items) |->
                    IF items[i].kind = "list" THEN <<>> ELSE packed[i]]))
        tail == IF Has(items, "align") \/ Has(items, "fill")
                THEN PadTo8(size) ELSE <<>>
    IN  FlattenSeq([i \in 1..Len(items) |->
            IF items[i].kind = "length" THEN H(size) ELSE packed[i]]) \o tail

\* Mutant: the length counts the padding in every class.
PackObject_CountsPadding(lib, o) ==
    LET items == lib.table[o.class].layout
        packed == [i \in 1..Len(items) |-> PackItem(lib, items[i], o.fields)]
        size == Len(FlattenSeq(packed))
        tail == IF Has(items, "align") \/ Has(items, "fill")
                THEN PadTo8(size) ELSE <<>>
    IN  FlattenSeq([i \in 1..Len(items) |->
            IF items[i].kind = "length" THEN H(size + Len(tail))
            ELSE packed[i]]) \o tail

\* pack(): the items, then the padding and the length, in the order of the
\* class: a Fill is counted and an Align is not.
PackObject(lib, o) ==
    LET items == lib.table[o.class].layout
        packed == [i \in 1..Len(items) |-> PackItem(lib, items[i], o.fields)]
        size == Len(FlattenSeq(packed))
        fill == IF Has(items, "fill") THEN PadTo8(size) ELSE <<>>
        length == size + Len(fill)
        tail == IF Has(items, "align") THEN PadTo8(length) ELSE fill
    IN  FlattenSeq([i \in 1..Len(items) |->
            IF items[i].kind = "length" THEN H(length) ELSE packed[i]]) \o tail

-----------------------------------------------------------------------------
(***************************************************************************)
(* OFReader: a window of `length' bytes of the buffer and an offset in it. *)
(* Methods return the reader they leave; one that would go beyond the      *)
(* window raises (ok is FALSE).                                            *)
(***************************************************************************)

Reader(start, length) ==
    [start |-> start, length |-> length, offset |-> 0, ok |-> TRUE]

skip(r, n) ==
    IF r.offset + n > r.length THEN [r EXCEPT !.ok = FALSE]
    ELSE [r EXCEPT !.offset = @ + n]

\* The bytes read() returns; the reader moves by skip().
Bytes(bytes, r, n) ==
    SubSeq(bytes, r.start + r.offset + 1, r.start + r.offset + n)

CanPeek(r, peek) == r.offset + peek.offset + peek.size <= r.length
PeekAt(bytes, r, peek) ==
    Bytes(bytes, [r EXCEPT !.offset = @ + peek.offset], peek.size)

skip_align(r) == skip(r, ((r.offset + 7) \div 8) * 8 - r.offset)

is_empty(r) == r.offset = r.length

\* slice(length, rewind): the new reader; the old one moves by skip().
slice(r, length, rewind) ==
    skip(Reader(r.start + r.offset - rewind, length), rewind)

-----------------------------------------------------------------------------
(***************************************************************************)
(* unpack().  Its state is the reader in use, the one around the slice,    *)
(* whether there is a slice, the fields found and a length kept for later. *)
(***************************************************************************)

RECURSIVE UnpackObject(_, _, _, _)

RECURSIVE UnpackList(_, _, _, _, _)
\* unpack_list(): objects of class n until the reader is empty.
UnpackList(lib, bytes, r, n, found) ==
    IF ~r.ok \/ is_empty(r) THEN [value |-> found, reader |-> r]
    ELSE LET u == UnpackObject(lib, bytes, r, n)
         IN UnpackList(lib, bytes, u.reader, n, Append(found, u.value))

\* The reader moved on to r, and field `name' has the value.
Found(s, r, name, value) ==
    [s EXCEPT !.reader = r,
              !.fields = [f \in DOMAIN @ \cup {name} |->
                            IF f = name THEN value ELSE @[f]]]

\* An item of fixed size and what is made of its bytes.
Fixed(s, bytes, it) ==
    LET here == Bytes(bytes, s.reader, it.size)
        next == skip(s.reader, it.size)
    IN CASE it.kind = "num" -> Found(s, next, it.name, FromBytes(here))
         [] it.kind = "text" -> Found(s, next, it.name, Stripped(here))
         [] it.kind = "raw" -> Found(s, next, it.name, here)
         [] it.kind = "bitmap" -> Found(s, next, it.name, BitmapOf(here))
         [] it.kind = "lengthof" ->
                [s EXCEPT !.reader = next, !.kept = FromBytes(here)]
         [] it.kind = "zeros" -> [s EXCEPT !.reader = next]
         [] it.kind = "const" ->
                [s EXCEPT !.reader = [next EXCEPT !.ok = here = it.bytes]]

\* The length is read and the rest of the object is a slice.
Sliced(s, bytes, it) ==
    LET length == FromBytes(Bytes(bytes, s.reader, 2))
        outer == skip(s.reader, 2)
    IN [s EXCEPT !.sliced = TRUE,
                 !.around = skip(outer, length - it.size),
                 !.reader = slice(outer, length, it.size)]

UnpackItem(lib, bytes, it, s) ==
    CASE it.kind = "length" ->
            IF skip(s.reader, 2).ok THEN Sliced(s, bytes, it)
            ELSE [s EXCEPT !.reader.ok = FALSE]
      [] it.kind = "rest" ->
            LET n == s.reader.length - s.reader.offset IN
            Found(s, skip(s.reader, n), it.name, Bytes(bytes, s.reader, n))
      [] it.kind = "object" ->
            LET u == UnpackObject(lib, bytes, s.reader, it.of) IN
            Found(s, u.reader, it.name, u.value)
      [] it.kind = "list" ->
            LET u == UnpackList(lib, bytes, s.reader, it.of, <<>>) IN
            Found(s, u.reader, it.name, u.value)
      [] it.kind = "listin" ->
            LET inner == slice(s.reader, s.kept, 0)
                u == UnpackList(lib, bytes, inner, it.of, <<>>)
                next == skip(s.reader, s.kept)
            IN Found(s, [next EXCEPT !.ok = @ /\ u.reader.ok], it.name, u.value)
      [] it.kind = "align" ->
            [s EXCEPT !.around = skip_align(@)]
      [] it.kind = "fill" -> s
      [] OTHER ->
            IF skip(s.reader, it.size).ok THEN Fixed(s, bytes, it)
            ELSE [s EXCEPT !.reader.ok = FALSE]

\* Items are read until one raises.
UnpackItems(lib, bytes, items, s) ==
    FoldLeft(LAMBDA t, it : IF t.reader.ok /\ t.around.ok
                            THEN UnpackItem(lib, bytes, it, t) ELSE t, s, items)

\* What an exception leaves.
Raised(n, r) ==
    [value |-> [class |-> n, fields |-> <<>>],
     reader |-> [r EXCEPT !.ok = FALSE]]

\* unpack() of class n: a subclass registered for the bytes peeked at does it,
\* or the class itself.
UnpackObject(lib, bytes, r, n) ==
    LET c == lib.table[n] IN
    IF c.peek # NoPeek /\ ~CanPeek(r, c.peek)
    THEN Raised(n, r)
    ELSE IF c.peek # NoPeek
            /\ PeekAt(bytes, r, c.peek) \in DOMAIN lib.subtypes[n]
    THEN UnpackObject(lib, bytes, r, lib.subtypes[n][PeekAt(bytes, r, c.peek)])
    ELSE LET s == UnpackItems(lib, bytes, c.layout,
                    [reader |-> r, around |-> r, sliced |-> FALSE,
                     fields |-> <<>>, kept |-> 0])
             end == IF s.sliced THEN s.around ELSE s.reader
         IN [value |-> [class |-> n, fields |-> s.fields],
             reader |-> [end EXCEPT !.ok = s.reader.ok /\ s.around.ok]]

\* parse_header(): version, type, length and xid.
parse_header(bytes) ==
    <<bytes[1], bytes[2], FromBytes(SubSeq(bytes, 3, 4)),
      FromBytes(SubSeq(bytes, 5, 8))>>

\* A reader of all the bytes.
Whole(bytes) == Reader(0, Len(bytes))

OFPT_HELLO == 0

parse_message(v, lib, bytes) ==
    LET h == parse_header(bytes) IN
    IF (h[1] # v /\ h[2] # OFPT_HELLO) \/ h[3] # Len(bytes)
    THEN Raised("message.message", Whole(bytes))
    ELSE UnpackObject(lib, bytes, Whole(bytes), "message.message")

-----------------------------------------------------------------------------
(***************************************************************************)
(* The objects enumerated: for every class, the least, the greatest and    *)
(* mixed values of its fields, and lists that begin with each class that   *)
(* may occur in them.                                                      *)
(***************************************************************************)

Variants == {"least", "mixed", "greatest"}

Sub(it) == it.kind \in {"object", "list", "listin"}

\* The choices for the first element of lists of class n.
Elements(lib, n) ==
    LET items == lib.table[n].layout IN
    {""} \cup UNION {lib.members[items[i].of] : i \in
                        {j \in 1..Len(items) : Sub(items[j])}}

Number(var, i, size) ==
    CASE var = "least" -> 0
      [] var = "mixed" -> IF size = 1 THEN 100 + i ELSE 256 * (100 + i) + i
      [] var = "greatest" -> IF size = 1 THEN 255 ELSE
                             IF size = 2 THEN 65535 ELSE 2147483647

ByteString(var, i, size) ==
    CASE var = "least" -> ZeroBytes(size)
      [] var = "mixed" -> [k \in 1..size |-> (i + k) % 256]
      [] var = "greatest" -> [k \in 1..size |-> 255]

\* Padding that is counted cannot be told from data: a class with Fill has
\* data of a multiple of 8 bytes.  A string does not end with a zero byte.
Data(var, i, size, filled) ==
    CASE var = "least" -> <<>>
      [] filled -> ByteString(var, i, 8)
      [] var = "mixed" -> <<65, 0, 100 + i>>
      [] var = "greatest" -> [k \in 1..size |-> 255]

RECURSIVE Sample(_, _, _, _, _)

Value(lib, items, i, var, e, d) ==
    LET it == items[i]
        some == CHOOSE m \in lib.members[it.of] : TRUE
        own == e \in lib.members[it.of]
    IN CASE it.kind = "num" -> Number(var, i, it.size)
         [] it.kind = "raw" -> ByteString(var, i, it.size)
         [] it.kind = "text" -> Data(var, i, it.size, FALSE)
         [] it.kind = "rest" -> Data(var, i, 12, Has(items, "fill"))
         [] it.kind = "bitmap" ->
                (CASE var = "least" -> {}
                   [] var = "mixed" -> {0, 9}
                   [] var = "greatest" -> {7, 8 * it.size - 1})
         [] it.kind = "object" ->
                Sample(lib, IF own THEN e ELSE some, var, "", d - 1)
         [] d = 0 -> <<>>
         [] own -> <<Sample(lib, e, var, "", d - 1),
                     Sample(lib, some, "mixed", "", d - 1)>>
         [] e = "" /\ var = "least" -> <<>>
         [] OTHER -> <<Sample(lib, some, var, "", d - 1)>>

Sample(lib, n, var, e, d) ==
    LET items == lib.table[n].layout
        named == {i \in 1..Len(items) : items[i].name # ""
                                       /\ items[i].kind # "lengthof"}
    IN [class |-> n,
        fields |-> [f \in {items[i].name : i \in named} |->
                     Value(lib, items,
                           CHOOSE i \in named : items[i].name = f, var, e, d)]]

\* An object of a class with subclasses has a key that none of them has.
Proper(lib, o) ==
    LET c == lib.table[o.class]
        bytes == PackObject(lib, o)
    IN IF c.peek = NoPeek THEN TRUE
       ELSE PeekAt(bytes, Whole(bytes), c.peek)
                \notin DOMAIN lib.subtypes[o.class]

-----------------------------------------------------------------------------

None == [value |-> [class |-> "", fields |-> <<>>], reader |-> Reader(0, 0)]

Init ==
    /\ version \in DOMAIN Libraries
    /\ \E lib \in {Libraries[version]} :
        /\ \E n \in DOMAIN lib.table, var \in Variants :
            /\ \E e \in Elements(lib, n) : obj = Sample(lib, n, var, e, Depth)
            /\ top = lib.top[n]
        /\ Proper(lib, obj)
        /\ <<version, obj.class>> \notin Omitted
    /\ buf = <<>> /\ back = None /\ phase = "given"

Pack ==
    /\ phase = "given" /\ phase' = "packed"
    /\ \E lib \in {Libraries[version]} : buf' = PackObject(lib, obj)
    /\ UNCHANGED <<version, obj, top, back>>

\* parse_message() for messages, unpack() for other objects.
Parse ==
    /\ phase = "packed" /\ phase' = "parsed"
    /\ \E lib \in {Libraries[version]} :
        back' = IF top = "message.message" THEN parse_message(version, lib, buf)
                ELSE UnpackObject(lib, buf, Whole(buf), top)
    /\ UNCHANGED <<version, obj, top, buf>>

Next == Pack \/ Parse

Spec == Init /\ [][Next]_vars

-----------------------------------------------------------------------------

\* Parsing what was packed gives the object back: its class, through every
\* look-up of a subclass, and each of its fields, however nested; and it reads
\* the object to its end, with the padding behind it, and not further.
RoundTrip ==
    phase = "parsed" =>
        /\ back.reader.ok
        /\ is_empty(back.reader)
        /\ back.value.class = obj.class
        /\ back.value.fields = obj.fields

\* The header of a message tells its length, by which the connection cuts the
\* stream, the protocol version, and the xid by which replies are found.
HeaderTrue ==
    phase = "packed" /\ top = "message.message" =>
        LET h == parse_header(buf) IN
        h[1] = version /\ h[3] = Len(buf) /\ h[4] = obj.fields["xid"]
=============================================================================
