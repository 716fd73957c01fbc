------------------------------ MODULE MCQueries ------------------------------
(* Queries with up to three rows and every filter on one or two clauses.    *)
EXTENDS Queries

MCChars == {"a", "A", "N", "_"}
MCLower == [c \in MCChars |-> CASE c = "A" -> "a" [] c = "N" -> "n" [] OTHER -> c]
MCFoldedChars == MCChars \cup {"n"}
MCFoldedLower == [c \in MCFoldedChars |-> IF c \in {"n", "_"} THEN c ELSE MCLower[c]]
MCNoneText == {"N", "n"}
MCNames == {{"a"}, {"A", "_"}}
MCLevels == {1, 2}

Text(c) == [char |-> c, number |-> Null]
Number(n) == [char |-> "a", number |-> n]
Clause(field, op, raws) == [field |-> field, op |-> op, raws |-> raws]

MCClauses ==
    {Clause("name", op, {raw}) :
        op \in {"eq", "contains", "icontains"}, raw \in {Text("a"), Text("n"), Text("_")}}
    \cup {Clause("power_level", op, {raw}) : op \in {"eq", "min", "max"}, raw \in {Number(1), Number(9)}}
    \cup {Clause("power_level", "contains", {Text("a")}), Clause("power_level", "min", {Text("a")}),
          Clause("power_level", "in", {Number(1), Number(2)}), Clause("id", "min", {Number(2)}),
          Clause("superpower", "eq", {Text("a")})}

MCFilterLists == {<<>>} \cup {<<clause>> : clause \in MCClauses}
    \cup {<<Clause("id", "min", {Number(2)}), clause>> : clause \in MCClauses}

By(field, descending) == [field |-> field, descending |-> descending]
MCSorts == {<<>>, <<By("power_level", FALSE)>>, <<By("power_level", TRUE)>>,
            <<By("power_level", TRUE), By("id", TRUE)>>, <<By("superpower", FALSE)>>}
MCSkips == {-1, 0, 1}
MCLimits == {2}

=============================================================================
