----------------------------- MODULE TermFormats -----------------------------
(***************************************************************************)
(* The two encodings of terms in a BEAM file: operands of instructions in  *)
(* the compact term format (beam/loader/compact_term.rs) and literals in   *)
(* the external term format (rt_util/ext_term_format.rs).  A stream that   *)
(* the compiler wrote is read byte by byte, one term after another, as the *)
(* loader does: a term that is read a byte too short or too long spoils    *)
(* every term after it.                                                    *)
(***************************************************************************)
EXTENDS Integers, Sequences, SequencesExt

CONSTANTS
    Numbers,   \* numbers that occur as operands
    Integers32 \* integers that occur in literals
ASSUME TermFormatsAssumption == Numbers \subseteq Nat /\ Integers32 \subseteq Int

VARIABLES
    zMeant,   \* what the compiler encoded: a sequence of operands or of literals
    zKind,    \* "operands" or "literals"
    zTable,   \* do lists become jump tables (select_val) or tuples (put_tuple2)
    zBytes,   \* the bytes that are left
    zRead,    \* the terms read so far
    zPhase    \* "read", "error": not a term, "panic"
zVars == <<zMeant, zKind, zTable, zBytes, zRead, zPhase>>

-----------------------------------------------------------------------------
(* The encoder of the Erlang compiler and of term_to_binary (external).    *)

TagU == 0
TagI == 1
TagA == 2
TagX == 3
TagY == 4
TagF == 5
TagH == 6
Num(tag, n) == [k |-> "num", tag |-> tag, n |-> n]
Items(s) == [k |-> "list", items |-> s]
Typed(reg, type) == [k |-> "typed", reg |-> reg, type |-> type]
Alloc(pairs) == [k |-> "alloc", pairs |-> pairs]
FReg(n) == [k |-> "fpreg", n |-> n]
LitIndex(n) == [k |-> "literal", n |-> n]
BigNum(bytes) == [k |-> "big", bytes |-> bytes]

\* Big-endian bytes with room for a sign bit; negative numbers (of two bytes) are two's complement.
ToBytes(n) ==
    IF n < 0 THEN <<(n + 65536) \div 256, n % 256>>
    ELSE IF n < 32768 THEN <<n \div 256, n % 256>>
    ELSE IF n < 8388608 THEN <<n \div 65536, (n \div 256) % 256, n % 256>>
    ELSE <<n \div 16777216, (n \div 65536) % 256, (n \div 256) % 256, n % 256>>
EncodeBytes(tag, bytes) ==
    IF Len(bytes) <= 8 THEN <<(Len(bytes) - 2) * 32 + 24 + tag>> \o bytes
                       ELSE <<248 + tag, (Len(bytes) - 9) * 16 + TagU>> \o bytes
EncodeNum(tag, n) ==
    IF n < 0 THEN EncodeBytes(tag, ToBytes(n))
    ELSE IF n < 16 THEN <<n * 16 + tag>>
    ELSE IF n < 2048 THEN <<(n \div 256) * 32 + 8 + tag, n % 256>>
    ELSE EncodeBytes(tag, ToBytes(n))
RECURSIVE Encode(_)
Encode(o) ==
    CASE o.k = "num" -> EncodeNum(o.tag, o.n)
      [] o.k = "big" -> EncodeBytes(TagI, o.bytes)
      [] o.k = "fpreg" -> <<39>> \o EncodeNum(TagU, o.n)
      [] o.k = "literal" -> <<71>> \o EncodeNum(TagU, o.n)
      [] o.k = "typed" -> <<87>> \o Encode(o.reg) \o EncodeNum(TagU, o.type)
      [] o.k = "list" -> <<23>> \o EncodeNum(TagU, Len(o.items)) \o FoldLeft(LAMBDA b, i : b \o Encode(i), << >>, o.items)
      [] o.k = "alloc" -> <<55>> \o EncodeNum(TagU, Len(o.pairs))
                          \o FoldLeft(LAMBDA b, p : b \o EncodeNum(TagU, p[1]) \o EncodeNum(TagU, p[2]), << >>, o.pairs)

IntLit(n) == [k |-> "int", n |-> n]
AtomLit(name) == [k |-> "atom", name |-> name]
ListLit(s, tail) == [k |-> "list", items |-> s, tail |-> tail]
TupleLit(s) == [k |-> "tuple", items |-> s]
NilLit == [k |-> "nil"]
IsByte(t) == t.k = "int" /\ t.n \in 0..255
U16(n) == <<n \div 256, n % 256>>
U32(n) == <<0, 0>> \o U16(n)
S32(n) == LET m == IF n < 0 THEN n + 2147483647 + 1 ELSE n IN
          <<(m \div 16777216) + (IF n < 0 THEN 128 ELSE 0), (m \div 65536) % 256, (m \div 256) % 256, m % 256>>
RECURSIVE Etf(_)
Etf(t) ==
    CASE t.k = "int" -> (IF t.n \in 0..255 THEN <<97, t.n>> ELSE <<98>> \o S32(t.n))
      [] t.k = "atom" -> <<119, Len(t.name)>> \o t.name
      [] t.k = "nil" -> <<106>>
      [] t.k = "tuple" -> <<104, Len(t.items)>> \o FoldLeft(LAMBDA b, i : b \o Etf(i), << >>, t.items)
      [] t.k = "list" -> IF t.tail = NilLit /\ \A i \in 1..Len(t.items) : IsByte(t.items[i])
                         THEN <<107>> \o U16(Len(t.items)) \o [i \in 1..Len(t.items) |-> t.items[i].n]
                         ELSE <<108>> \o U32(Len(t.items))
                              \o FoldLeft(LAMBDA b, i : b \o Etf(i), << >>, t.items) \o Etf(t.tail)

-----------------------------------------------------------------------------
(* The readers.  A reader returns its term and the bytes it left.          *)

Read(v, rest) == [v |-> v, rest |-> rest]
Panicked == [k |-> "panic"]
NotATerm == [k |-> "error"]
From(bytes, i) == SubSeq(bytes, i, Len(bytes))
SmallInt(n) == [k |-> "small", n |-> n]
WordBytes == 8

BytesToNat(bytes) == FoldLeft(LAMBDA n, d : n * 256 + d, 0, bytes)
\* bytes_to_small: the magnitude is the bytes themselves, also when the sign bit is set.
BytesToSmall(bytes) == SmallInt(IF bytes[1] >= 128 THEN -BytesToNat(bytes) ELSE BytesToNat(bytes))

\* read_word: 4 bits, 11 bits, or a number of bytes, which from nine on is itself a number.
\* Big numbers are made only on a machine of the stream's byte order: make_limbs_from_bytes
\* asserts it, and the stream is big-endian.
RECURSIVE ReadWord(_, _)
ReadWord(b, bytes) ==
    IF (b \div 8) % 2 = 0 THEN Read(SmallInt(b \div 16), bytes)
    ELSE IF (b \div 16) % 2 = 0 THEN Read(SmallInt((b \div 32) * 256 + bytes[1]), Tail(bytes))
    ELSE LET nested == ReadWord(bytes[1], Tail(bytes))
             long == b \div 32 = 7
             n == IF long THEN nested.v.n + 9 ELSE b \div 32 + 2
             data == IF long THEN nested.rest ELSE bytes
         IN  IF Len(data) < n THEN Read(NotATerm, << >>)
             ELSE IF n < WordBytes THEN Read(BytesToSmall(SubSeq(data, 1, n)), From(data, n + 1))
             ELSE Read(Panicked, From(data, n + 1))

\* read_int: a literal number, whose tag is asserted.
ReadInt(bytes) == ReadWord(Head(bytes), Tail(bytes))

Tagged(tag, w) ==
    CASE w.k # "small" -> w
      [] tag \in {TagU, TagI, TagH} -> w
      [] tag = TagA -> (IF w.n = 0 THEN [k |-> "nil"] ELSE [k |-> "ltatom", n |-> w.n])
      [] tag = TagX -> [k |-> "x", n |-> w.n]
      [] tag = TagY -> [k |-> "y", n |-> w.n]
      [] tag = TagF -> [k |-> "ltlabel", n |-> w.n]

RECURSIVE ReadTerm(_, _)
RECURSIVE ReadMany(_, _, _)
\* parse_ext_typed_register: the type is read and dropped.
ParseTyped(reg) == Read(reg.v, ReadTerm(reg.rest, FALSE).rest)
ReadMany(n, bytes, table) ==
    IF n = 0 THEN Read(<< >>, bytes)
    ELSE LET first == ReadTerm(bytes, table)
             others == ReadMany(n - 1, first.rest, table)
         IN  Read(<<first.v>> \o others.v, others.rest)
\* CompactTermReader::read and parse_ext_tag.
ReadTerm(bytes, table) ==
    LET b == Head(bytes)
        rest == Tail(bytes)
    IN  IF b % 8 # 7 THEN LET w == ReadWord(b, rest) IN Read(Tagged(b % 8, w.v), w.rest)
        ELSE CASE b = 23 -> LET n == ReadInt(rest)
                                items == ReadMany(IF table THEN 2 * (n.v.n \div 2) ELSE n.v.n, n.rest, table)
                            IN  Read(IF table THEN [k |-> "table", items |-> items.v]
                                     ELSE IF items.v = << >> THEN [k |-> "nil"]
                                     ELSE [k |-> "tuple", items |-> items.v], items.rest)
               [] b = 39 -> LET n == ReadInt(rest) IN Read([k |-> "fpreg", n |-> n.v.n], n.rest)
               [] b = 55 -> LET n == ReadInt(rest)
                                words == ReadMany(2 * n.v.n, n.rest, FALSE)
                                amounts == [i \in 1..(Len(words.v) \div 2) |-> words.v[2 * i].n]
                            IN  Read(SmallInt(FoldLeft(LAMBDA s, w : s + w, 0, amounts)), words.rest)
               [] b = 71 -> LET n == ReadInt(rest) IN Read([k |-> "ltliteral", n |-> n.v.n], n.rest)
               [] b = 87 -> ParseTyped(ReadTerm(rest, table))
               [] OTHER -> Read(NotATerm, rest)

\* Faulty variant: the bytes are taken for an unsigned number.
DecodeS32Unsigned(d) == ((d[1] % 128) * 256 + d[2]) * 65536 + d[3] * 256 + d[4]
\* decode_s32: 32 bits, two's complement.
DecodeS32(d) == ((IF d[1] >= 128 THEN d[1] - 256 ELSE d[1]) * 256 + d[2]) * 65536 + d[3] * 256 + d[4]

RECURSIVE DecodeNaked(_)
RECURSIVE DecodeMany(_, _)
DecodeMany(n, bytes) ==
    IF n = 0 THEN Read(<< >>, bytes)
    ELSE LET first == DecodeNaked(bytes)
             others == DecodeMany(n - 1, first.rest)
         IN  Read(<<first.v>> \o others.v, others.rest)
\* decode_list: the elements, then the tail; an empty one has no tail to read.
DecodeList(bytes) ==
    LET n == BytesToNat(SubSeq(bytes, 3, 4))
        items == DecodeMany(n, From(bytes, 5))
        tail == DecodeNaked(items.rest)
    IN  IF n = 0 THEN Read(NilLit, From(bytes, 5)) ELSE Read(ListLit(items.v, tail.v), tail.rest)
DecodeString(bytes) ==
    LET n == BytesToNat(SubSeq(bytes, 1, 2)) IN
    Read(IF n = 0 THEN NilLit ELSE ListLit([i \in 1..n |-> IntLit(bytes[2 + i])], NilLit), From(bytes, 3 + n))
DecodeTuple(size, bytes) == LET items == DecodeMany(size, bytes) IN Read(TupleLit(items.v), items.rest)
\* decode_naked.
DecodeNaked(bytes) ==
    LET tag == Head(bytes)
        rest == Tail(bytes)
    IN  CASE tag = 97 -> Read(IntLit(rest[1]), Tail(rest))
          [] tag = 98 -> Read(IntLit(DecodeS32(SubSeq(rest, 1, 4))), From(rest, 5))
          [] tag = 104 -> DecodeTuple(rest[1], Tail(rest))
          [] tag = 106 -> Read(NilLit, rest)
          [] tag = 107 -> DecodeString(rest)
          [] tag = 108 -> DecodeList(rest)
          [] tag = 119 -> Read(AtomLit(SubSeq(rest, 2, rest[1] + 1)), From(rest, rest[1] + 2))
          [] OTHER -> Read(NotATerm, rest)

-----------------------------------------------------------------------------
(* Streams of up to two terms.                                             *)

Simple == {Num(tag, n) : tag \in {TagU, TagA, TagY, TagF}, n \in Numbers}
Operands ==
    Simple \cup {Items(<<a, Num(TagF, n)>>) : a \in {Num(TagA, 3), LitIndex(2)}, n \in {1, 20}}
    \cup {Items(<< >>), Items(<<Num(TagI, 1), Num(TagF, 1), Num(TagH, 2), Num(TagF, 300)>>)}
    \cup {Typed(Num(TagX, n), t) : n \in {1, 20}, t \in {0, 3000}}
    \cup {Alloc(<< <<0, 20>>, <<2, 3000>> >>), FReg(1), LitIndex(16),
          Num(TagI, 70000), Num(TagI, -1), Num(TagI, -300),
          BigNum(<<1, 0, 0, 0, 0, 0, 0, 0>>), BigNum(<<1, 2, 3, 4, 5, 6, 7, 8, 9, 10>>)}
Literals ==
    LET leaf == {IntLit(n) : n \in Integers32} \cup {NilLit, AtomLit(<< >>), AtomLit(<<111, 107>>)}
        one == {TupleLit(<< >>), TupleLit(<<IntLit(1), NilLit>>), ListLit(<<IntLit(9)>>, NilLit),
                ListLit(<<IntLit(9), IntLit(256)>>, NilLit), ListLit(<<IntLit(9)>>, IntLit(1))}
    IN  leaf \cup one \cup {TupleLit(<<a, b>>) : a \in one, b \in leaf}
        \cup {ListLit(<<a, b>>, NilLit) : a \in one, b \in {NilLit, AtomLit(<<111, 107>>)}}

FormatsInit ==
    /\ zKind \in {"operands", "literals"} /\ zTable \in BOOLEAN /\ (zKind = "literals" => ~zTable)
    /\ zMeant \in (IF zKind = "operands" THEN Operands \X Operands ELSE Literals \X Literals)
    /\ zBytes = (IF zKind = "operands" THEN Encode(zMeant[1]) \o Encode(zMeant[2])
                                       ELSE Etf(zMeant[1]) \o Etf(zMeant[2]))
    /\ zRead = << >> /\ zPhase = "read"
ReadNext ==
    /\ zPhase = "read" /\ zBytes # << >>
    /\ LET r == IF zKind = "operands" THEN ReadTerm(zBytes, zTable) ELSE DecodeNaked(zBytes) IN
       /\ zRead' = Append(zRead, r.v) /\ zBytes' = r.rest
       /\ zPhase' = (IF r.v = Panicked THEN "panic" ELSE IF r.v = NotATerm THEN "error" ELSE "read")
    /\ UNCHANGED <<zMeant, zKind, zTable>>
FormatsNext == ReadNext
FormatsSpec == FormatsInit /\ [][FormatsNext]_zVars

-----------------------------------------------------------------------------
(* Properties.                                                             *)

RECURSIVE OperandTerm(_, _)
OperandTerm(o, table) ==
    LET terms(s) == [i \in 1..Len(s) |-> OperandTerm(s[i], table)] IN
    CASE o.k = "num" -> Tagged(o.tag, SmallInt(o.n))
      [] o.k = "fpreg" -> [k |-> "fpreg", n |-> o.n]
      [] o.k = "literal" -> [k |-> "ltliteral", n |-> o.n]
      [] o.k = "typed" -> OperandTerm(o.reg, table)
      [] o.k = "alloc" -> SmallInt(FoldLeft(LAMBDA s, p : s + p[2], 0, o.pairs))
      [] o.k = "list" /\ table -> [k |-> "table", items |-> terms(o.items)]
      [] o.k = "list" /\ ~table -> IF o.items = << >> THEN [k |-> "nil"]
                                   ELSE [k |-> "tuple", items |-> terms(o.items)]

\* Integers that the loader does not read as what they are: negative ones, and those of
\* eight bytes and more.
Negative(o) == o.k = "num" /\ o.n < 0
Big(o) == o.k = "big"

\* The loader reads the operands the compiler wrote, one after another, whatever the length
\* of each encoding (CompactTermReader::read): nothing is left over and nothing is misread but a
\* negative integer, after which it goes on with the next operand.  It stops at a big
\* integer and nowhere else.
OperandsReadBack ==
    zKind = "operands" =>
        /\ \A i \in 1..Len(zRead) :
              ~Negative(zMeant[i]) /\ ~Big(zMeant[i]) => zRead[i] = OperandTerm(zMeant[i], zTable)
        /\ zPhase = "panic" <=> \E i \in 1..Len(zRead) : Big(zMeant[i])
        /\ zPhase # "error"
        /\ zBytes = << >> /\ zPhase = "read" => Len(zRead) = 2

\* A literal table is decoded into the terms that were encoded, nested ones included (decode).
LiteralsReadBack ==
    zKind = "literals" =>
        /\ zPhase = "read"
        /\ \A i \in 1..Len(zRead) : zRead[i] = zMeant[i]
        /\ zBytes = << >> => Len(zRead) = 2

(***************************************************************************)
(* What the compiler wrote is what the loader reads, but for negative      *)
(* operands, which it takes for other numbers, and operands of eight bytes *)
(* and more, at which it panics: compact operands, and literals of the     *)
(* external term format with integers of either sign.                      *)
(***************************************************************************)
ReadsBack == OperandsReadBack /\ LiteralsReadBack
=============================================================================
