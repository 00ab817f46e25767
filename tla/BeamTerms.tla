------------------------------- MODULE BeamTerms -------------------------------
(***************************************************************************)
(* The order of terms in the BEAM emulator (term/compare.rs and            *)
(* term/classify.rs), the comparison functions and opcodes that rest on it *)
(* (native_fun/erlang/compare.rs, op_predicates.rs) and select_val.  A     *)
(* state holds three terms and what comparing them gave.                   *)
(*                                                                         *)
(* A term is a kind, a number and the terms it is made of.  Terms on the   *)
(* heap are never shared, so that two words are the same only if both are  *)
(* the same immediate.                                                     *)
(***************************************************************************)
EXTENDS Integers, Sequences, FiniteSets

Term(kind, n, parts) == [kind |-> kind, n |-> n, parts |-> parts]
Small(n) == Term("small", n, << >>)
Atom(n) == Term("atom", n, << >>)
Pid(n) == Term("pid", n, << >>)
FloatOf(n) == Term("float", n, << >>)
Bin(n) == Term("binary", n, << >>)
TupleTerm(parts) == Term("tuple", 0, parts)
ConsTerm(hd, tl) == Term("cons", 0, <<hd, tl>>)
\* The constants, by the value of their word.
EmptyTuple == Term("special", 0, << >>)
Nil == Term("special", 1, << >>)
EmptyBinary == Term("special", 2, << >>)
EmptyMap == Term("special", 3, << >>)

Leaves == {Small(-1), Small(0), Atom(1), Atom(2), Atom(3), Pid(0)}
Terms ==
    Leaves \cup {EmptyTuple, Nil, EmptyBinary, EmptyMap, FloatOf(0), FloatOf(1), Bin(1), Bin(2)}
    \cup {TupleTerm(<<x>>) : x \in {Small(0), Atom(3), Nil}}
    \cup {TupleTerm(<<x, y>>) : x \in {Small(0), Atom(1)}, y \in {Small(-1), Pid(0)}}
    \cup {ConsTerm(x, Nil) : x \in {Small(0), TupleTerm(<<Small(0)>>)}}
    \cup {ConsTerm(TupleTerm(<<Small(0)>>), ConsTerm(y, Nil)) : y \in {Small(0), Small(-1), Atom(1)}}
    \cup {ConsTerm(Small(0), ConsTerm(Small(-1), Nil)), ConsTerm(Small(0), ConsTerm(TupleTerm(<<Atom(2)>>), Nil)),
          ConsTerm(Small(0), Atom(1)), ConsTerm(Small(0), Atom(2))}

VARIABLES
    tIn,   \* three terms
    tOut   \* << >>, or the orders of the first and second, second and first, second and
           \* third, first and third, and the label that select_val jumps to
tVars == <<tIn, tOut>>

-----------------------------------------------------------------------------
Rank(order) == IF order = "Less" THEN -1 ELSE IF order = "Greater" THEN 1 ELSE 0
OrderOf(m, n) == IF m < n THEN "Less" ELSE IF m > n THEN "Greater" ELSE "Equal"
Reverse3(order) == IF order = "Less" THEN "Greater" ELSE IF order = "Greater" THEN "Less" ELSE order

Tag(t) ==
    CASE t.kind = "small" -> "SMALL_INT" [] t.kind = "atom" -> "ATOM" [] t.kind = "pid" -> "LOCAL_PID"
      [] t.kind = "special" -> "SPECIAL" [] t.kind = "cons" -> "CONS_PTR" [] OTHER -> "BOX_PTR"
IsSame(a, b) == a = b /\ Tag(a) \notin {"BOX_PTR", "CONS_PTR"}

Classify(t) ==
    CASE t.kind \in {"small", "float"} -> 10 [] t.kind = "atom" -> 20 [] t.kind = "pid" -> 60
      [] t.kind = "tuple" \/ t = EmptyTuple -> 70 [] t.kind = "cons" \/ t = Nil -> 90
      [] t.kind = "binary" \/ t = EmptyBinary -> 100 [] t = EmptyMap -> 500

\* Names of the atoms 1, 2 and 3: one letter, one letter after it, and two letters before it.
AtomLen == <<1, 1, 2>>
AtomRank == <<2, 3, 1>>
CmpAtoms(a, b) ==
    IF AtomLen[a.n] = AtomLen[b.n] THEN OrderOf(AtomRank[a.n], AtomRank[b.n])
    ELSE OrderOf(AtomLen[a.n], AtomLen[b.n])

CmpTypeOrder(a, b) ==
    IF \/ a.kind = "cons" /\ b = Nil
       \/ (a.kind = "tuple" \/ a = EmptyTuple) /\ b = EmptyTuple
       \/ (a.kind = "binary" \/ a = EmptyBinary) /\ b = EmptyBinary
    THEN "Greater" ELSE OrderOf(Classify(a), Classify(b))

\* unimplemented!(), and a read of the cell nil does not point to.
Panic == "Panic"
Wild == "Wild"

Concluded(order) == [done |-> TRUE, order |-> order]
CompareNested(a, b, next) == [done |-> FALSE, a |-> a, b |-> b, next |-> next]

\* Faulty variant: the tails are forgotten when the heads are compared.
RECURSIVE CmpConsHeads(_, _)
CmpConsHeads(a, b) ==
    LET ahd == a.parts[1]   bhd == b.parts[1]   atl == a.parts[2]   btl == b.parts[2] IN
    IF ~IsSame(ahd, bhd) THEN CompareNested(ahd, bhd, <<Nil, Nil>>)
    ELSE IF IsSame(atl, btl) THEN Concluded("Equal")
    ELSE IF {atl.kind, btl.kind} = {"cons"} THEN CmpConsHeads(atl, btl)
    ELSE IF {atl, btl} \subseteq {t \in {atl, btl} : t.kind = "cons" \/ t = Nil} THEN Concluded(Wild)
    ELSE CompareNested(atl, btl, <<atl, btl>>)
\* cmp_cons: down the cells while the heads are the same words.
RECURSIVE CmpCons(_, _)
CmpCons(a, b) ==
    LET ahd == a.parts[1]   bhd == b.parts[1]   atl == a.parts[2]   btl == b.parts[2] IN
    IF ~IsSame(ahd, bhd) THEN CompareNested(ahd, bhd, <<atl, btl>>)
    ELSE IF IsSame(atl, btl) THEN Concluded("Equal")
    ELSE IF {atl.kind, btl.kind} = {"cons"} THEN CmpCons(atl, btl)
    ELSE IF {atl, btl} \subseteq {t \in {atl, btl} : t.kind = "cons" \/ t = Nil} THEN Concluded(Wild)
    ELSE CompareNested(atl, btl, <<atl, btl>>)

\* cmp_terms_immed, for two terms of the same tag: pids, or two constants.
CmpImmed(a, b) == OrderOf(a.n, b.n)

RECURSIVE CmpTerms(_, _, _), CmpLoop(_, _, _, _)

\* cmp_terms_immed_box: tuples by arity, then by elements; binaries by size, then bytes;
\* two kinds of boxes are not implemented.
CmpBox(a, b) ==
    IF a.kind # b.kind THEN Panic
    ELSE IF a.kind = "binary" THEN OrderOf(a.n, b.n)
    ELSE IF Len(a.parts) # Len(b.parts) THEN OrderOf(Len(a.parts), Len(b.parts))
    ELSE LET at == [i \in 1..Len(a.parts) |-> CmpTerms(a.parts[i], b.parts[i], TRUE)]
             differ == {i \in 1..Len(at) : at[i] # "Equal"}
         IN  IF differ = {} THEN "Equal" ELSE at[CHOOSE i \in differ : \A j \in differ : i <= j]

\* cmp_terms_any_type and cmp_terms_primary.
CmpAny(a, b, exact) ==
    LET numbers == {a.kind, b.kind} \subseteq {"small", "float"} IN
    IF {a.kind, b.kind} = {"atom"} THEN Concluded(CmpAtoms(a, b))
    ELSE IF {a.kind, b.kind} = {"small"} THEN Concluded(OrderOf(a.n, b.n))
    ELSE IF ~exact /\ numbers THEN Concluded(Panic)
    ELSE IF {a.kind, b.kind} = {"float"} THEN Concluded(OrderOf(a.n, b.n))
    ELSE IF Tag(a) # Tag(b) THEN Concluded(CmpTypeOrder(a, b))
    ELSE IF Tag(a) = "BOX_PTR" THEN Concluded(CmpBox(a, b))
    ELSE IF Tag(a) = "CONS_PTR" THEN CmpCons(a, b)
    ELSE Concluded(CmpImmed(a, b))

\* cmp_terms_1: pairs that are still to be compared wait on a stack.
CmpLoop(a, b, stack, exact) ==
    LET r == CmpAny(a, b, exact) IN
    IF ~r.done THEN CmpLoop(r.a, r.b, <<r.next>> \o stack, exact)
    ELSE IF r.order = "Equal" /\ stack # << >>
         THEN CmpLoop(Head(stack)[1], Head(stack)[2], Tail(stack), exact)
         ELSE r.order

CmpTerms(a, b, exact) == IF IsSame(a, b) THEN "Equal" ELSE CmpLoop(a, b, << >>, exact)

-----------------------------------------------------------------------------
(* What rests on the order.                                                *)

\* shared_eq: is the order the wanted one, inverted or not.
SharedEq(order, wanted, invert) == (order = wanted) # invert
\* The opcodes is_eq_exact to is_ne fall through where the function of the same name is true.
GenericComparison(order, desired, not) == ~((order # desired) # not)

Max2(a, b) == IF CmpTerms(a, b, FALSE) = "Less" THEN b ELSE a
Min2(a, b) == IF CmpTerms(a, b, FALSE) = "Greater" THEN b ELSE a

\* select_val: the first of the values that is exactly equal, or the fail label 0.
SelectVal(val, values) ==
    LET hits == {i \in 1..Len(values) : CmpTerms(val, values[i], TRUE) = "Equal"} IN
    IF hits = {} THEN 0 ELSE CHOOSE i \in hits : \A j \in hits : i <= j

TermsInit == tIn \in Terms \X Terms \X Terms /\ tOut = << >>
Compare ==
    /\ tOut = << >>
    /\ tOut' = <<CmpTerms(tIn[1], tIn[2], TRUE), CmpTerms(tIn[2], tIn[1], TRUE),
                 CmpTerms(tIn[2], tIn[3], TRUE), CmpTerms(tIn[1], tIn[3], TRUE),
                 SelectVal(tIn[1], <<tIn[2], tIn[3]>>)>>
    /\ UNCHANGED tIn
TermsNext == Compare

-----------------------------------------------------------------------------
\* Pairs of terms the comparison is made for.  Outside it are: an empty list, tuple or
\* binary and one that is not empty; an integer and a float; two different kinds of boxes;
\* lists of different lengths.
RECURSIVE Supported(_, _)
Supported(a, b) ==
    CASE {a.kind, b.kind} = {"small", "float"} -> FALSE
      [] Tag(a) # Tag(b) -> Classify(a) # Classify(b)
      [] Tag(a) = "CONS_PTR" -> Supported(a.parts[1], b.parts[1]) /\ Supported(a.parts[2], b.parts[2])
      [] Tag(a) = "BOX_PTR" ->
            /\ a.kind = b.kind
            /\ Len(a.parts) = Len(b.parts) => \A i \in 1..Len(a.parts) : Supported(a.parts[i], b.parts[i])
      [] OTHER -> TRUE

(***************************************************************************)
(* Where it is supported the comparison is a total order on the structure  *)
(* of terms: comparing the other way round reverses it, only equal terms   *)
(* are Equal, Less is transitive, through nested tuples and lists whose    *)
(* comparison is put off on the stack.                                     *)
(***************************************************************************)
OrderIsTotal ==
    LET a == tIn[1]   b == tIn[2]   c == tIn[3] IN
    tOut # << >> /\ Supported(a, b) =>
        /\ tOut[1] \in {"Less", "Equal", "Greater"}
        /\ tOut[2] = Reverse3(tOut[1])
        /\ tOut[1] = "Equal" <=> a = b
        /\ Supported(b, c) /\ Supported(a, c) /\ Rank(tOut[1]) <= 0 /\ Rank(tOut[3]) < 0 => tOut[4] = "Less"

(***************************************************************************)
(* select_val takes the branch of the pattern that is the value, whichever *)
(* other patterns were compared with it before, and the fail label if none *)
(* is.                                                                     *)
(***************************************************************************)
SelectsItsValue ==
    tOut # << >> /\ Supported(tIn[1], tIn[2]) /\ Supported(tIn[1], tIn[3]) =>
        tOut[5] = IF tIn[1] = tIn[2] THEN 1 ELSE IF tIn[1] = tIn[3] THEN 2 ELSE 0

(***************************************************************************)
(* The functions and opcodes agree with each other: exactly one of <, ==   *)
(* and > is true, =< and >= are their negations, an opcode falls through   *)
(* where the function is true, and max/2 and min/2 give both arguments.    *)
(***************************************************************************)
RelationsAgree ==
    LET a == tIn[1]   b == tIn[2]   order == CmpTerms(a, b, FALSE)
        less == SharedEq(order, "Less", FALSE)   greater == SharedEq(order, "Greater", FALSE)
    IN  tOut # << >> /\ Supported(a, b) /\ {a.kind, b.kind} # {"float"} =>
            /\ Cardinality({r \in {"Less", "Equal", "Greater"} : SharedEq(order, r, FALSE)}) = 1
            /\ SharedEq(order, "Greater", TRUE) <=> (less \/ SharedEq(order, "Equal", FALSE))
            /\ GenericComparison(order, "Less", FALSE) <=> less
            /\ GenericComparison(order, "Less", TRUE) <=> (greater \/ a = b)
            /\ {Max2(a, b), Min2(a, b)} = {a, b} /\ (greater => Max2(a, b) = a)

(***************************************************************************)
(* Comparison can be relied on where it returns: one total order, the same *)
(* in select_val, in the guards and in max and min.                        *)
(***************************************************************************)
ComparisonSound == OrderIsTotal /\ SelectsItsValue /\ RelationsAgree

(***************************************************************************)
(* "Compare two terms for equality, fail if types are different" and "nil  *)
(* is less than list" (cmp_terms, TermClass): exactly equal terms are the  *)
(* same, for those pairs that a comparison answers.                        *)
(***************************************************************************)
ExactlyEqualIsSame == tOut # << >> /\ tOut[1] = "Equal" => tIn[1] = tIn[2]
=============================================================================
