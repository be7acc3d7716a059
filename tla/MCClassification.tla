-------------------------- MODULE MCClassification --------------------------
(* A tree three directories deep, and rules for it.                        *)
EXTENDS Classification

r == <<"r">>
x == <<"r", "x">>
xy == <<"r", "x", "y">>
y == <<"r", "y">>

Dirs == {r, x, xy, y}
Files == {<<"r", "f">>, <<"r", "x", "f">>, <<"r", "x", "y", "f">>, <<"r", "x", "z">>, <<"r", "y", "f">>}
Order == <<r, <<"r", "f">>, x, <<"r", "x", "f">>, xy, <<"r", "x", "y", "f">>, <<"r", "x", "z">>, y, <<"r", "y", "f">>>>

Names == {"r", "x", "y", "z", "f"}

Nested == {<<r>>, <<r, x>>, <<x, r>>, <<r, y>>}

Pattern(name, dirOnly, anchored, negated) ==
  [name |-> name, dirOnly |-> dirOnly, anchored |-> anchored, negated |-> negated]
AnyX == Pattern("x", TRUE, FALSE, FALSE)
AnyY == Pattern("y", TRUE, FALSE, FALSE)
AnyF == Pattern("f", FALSE, FALSE, FALSE)
OwnF == Pattern("f", FALSE, TRUE, FALSE)
NotF == Pattern("f", FALSE, FALSE, TRUE)

Rules(ignored, cataloged) == [ignored |-> ignored, cataloged |-> cataloged]
NoRules == Rules(<<>>, <<>>)
Menu == {Rules(<<p>>, <<>>) : p \in {AnyX, AnyY, AnyF, OwnF, NotF}}
          \cup {Rules(<<>>, <<p>>) : p \in {AnyX, AnyY, AnyF}}
          \cup {Rules(<<AnyF, NotF>>, <<>>), Rules(<<NotF>>, <<AnyF>>)}

Holders == {S \in SUBSET {r, x, xy} : Cardinality(S) <= 2}
Books == [layer : UNION {[S -> Menu] : S \in Holders},
          defaults : {NoRules, Rules(<<>>, <<AnyY>>)},
          user : {NoRules, Rules(<<AnyX>>, <<>>), Rules(<<NotF>>, <<AnyF>>)}]
=============================================================================
