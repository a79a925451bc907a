------------------------------- MODULE Layout -------------------------------
(***************************************************************************)
(* How the classes of the OpenFlow library (ofagent/loxi) are written down *)
(* in the modules OF10... to OF14...; each holds one or several of its     *)
(* files.  A definition there is the set of the classes from one to        *)
(* another, in the order of the file.                                      *)
(*                                                                         *)
(* pack() and unpack() of a class go through the same items in the same    *)
(* order; a class is the sequence of these items, its place in the         *)
(* `subtypes' dictionary of another class, and, where unpack() begins by   *)
(* looking for a subclass, the bytes it peeks at.                          *)
(***************************************************************************)
EXTENDS Integers, Sequences

\* Constants as big-endian bytes, as struct.pack("!B"), "!H" and "!L" make
\* them; LL takes the halves of a constant of more than 31 bits.
B(n) == <<n>>
H(n) == <<n \div 256, n % 256>>
L(n) == H(n \div 65536) \o H(n % 65536)
LL(hi, lo) == H(hi) \o H(lo)

Item(kind, name, size, of) ==
    [kind |-> kind, name |-> name, size |-> size, of |-> of, bytes |-> <<>>]

\* struct.pack of a class attribute; asserted on the way back.
Const(bytes) ==
    [kind |-> "const", name |-> "", size |-> Len(bytes), of |-> "",
     bytes |-> bytes]
\* A number of `size' bytes.
Num(name, size) == Item("num", name, size, "")
\* Zero bytes that unpack() skips.
Zeros(size) == Item("zeros", "", size, "")
\* The length of the object, filled in last; unpack() goes on in a slice of
\* that length, `rewind' bytes of which it has already read.
Length(rewind) == Item("length", "", rewind, "")
\* The length of the packed list `name' that follows later.
LengthOf(name) == Item("lengthof", name, 2, "")
\* A string padded with zero bytes, which unpack() strips, and one of which
\* it strips nothing.
Text(name, size) == Item("text", name, size, "")
Raw(name, size) == Item("raw", name, size, "")
\* Six bytes given as a list.
Mac(name) == Item("raw", name, 6, "")
\* A set of bit numbers.
Bitmap(name, size) == Item("bitmap", name, size, "")
\* Whatever is left in the slice.
Rest(name) == Item("rest", name, 0, "")
\* An object of class `of', a list of them up to the end of the slice, and one
\* whose length is given by LengthOf.
Object(name, of) == Item("object", name, 0, of)
List(name, of) == Item("list", name, 0, of)
ListIn(name, of) == Item("listin", name, 0, of)
\* Zero bytes up to a multiple of 8 that the length does not count, and that
\* unpack() skips in the enclosing reader (Align) or that it counts (Fill).
Align == Item("align", "", 8, "")
Fill == Item("fill", "", 8, "")

Peek(size, offset) == [size |-> size, offset |-> offset]
NoPeek == Peek(0, 0)

\* A class with subclasses, and one without.
Node(name, parent, key, peek, layout) ==
    [name |-> name, parent |-> parent, key |-> key, peek |-> peek,
     layout |-> layout]
Leaf(name, parent, key, layout) == Node(name, parent, key, NoPeek, layout)
\* The same for classes that are not registered with another one.
Root(name, peek, layout) == Node(name, "", <<>>, peek, layout)
Plain(name, layout) == Node(name, "", <<>>, NoPeek, layout)
=============================================================================
