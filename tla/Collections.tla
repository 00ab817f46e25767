------------------------------ MODULE Collections ------------------------------
(***************************************************************************)
(* What the standard library's collections do: HashMap::insert and remove, *)
(* for maps as functions whose domain is the set of their keys, and        *)
(* Iterator::filter and Vec::retain, which leave the rest of a sequence in *)
(* its order.                                                              *)
(***************************************************************************)
EXTENDS Naturals, Sequences

With(f, k, v) == [x \in DOMAIN f \union {k} |-> IF x = k THEN v ELSE f[x]]
Without(f, k) == [x \in DOMAIN f \ {k} |-> f[x]]

Only(s, S) ==
    LET kept[n \in 0..Len(s)] ==
            IF n = 0 THEN << >>
            ELSE IF s[n] \in S THEN Append(kept[n - 1], s[n]) ELSE kept[n - 1]
    IN  kept[Len(s)]
=============================================================================
