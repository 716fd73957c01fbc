------------------------------- MODULE Queries -------------------------------
(***************************************************************************)
(* One GET of a list of heroes, from its query string to the page it gets, *)
(* under both repositories: crud_query parses it against the schema of the *)
(* route's version, InMemoryRepository evaluates it in Python (where None  *)
(* has no order and str(None) is a text) and SQLAlchemyRepository in SQL   *)
(* (where NULL matches nothing, LIKE has wildcards and an INTEGER a width).*)
(*                                                                         *)
(* A name stands for the set of its characters, and what a string filter   *)
(* looks for is one character.  The visibility of rows and the scope of    *)
(* their owners are HeroRecords'.  Postgres and its driver are modelled    *)
(* from how SQLAlchemyRepository uses them.                                *)
(***************************************************************************)
EXTENDS Table, Integers, Sequences, FiniteSets, SequencesExt

CONSTANTS
    Chars,          \* characters of names
    Lower,          \* their case folding, a function on Chars
    NoneText,       \* the characters of str(None)
    Wildcard,       \* the character that LIKE takes for any one
    Names,
    Widest,         \* the largest Postgres INTEGER
    FilterLists,    \* filters of the queries asked
    Sorts, Skips, Limits

Views == {"v1", "v2"}
Queries == [view : Views, filters : FilterLists, sort : Sorts, skip : Skips, limit : Limits]

\* A list is sorted by numbers here: names, which are sets, have no order.
ASSUME QueriesAssumption ==
    /\ Lower \in [Chars -> Chars] /\ Wildcard \in Chars /\ NoneText \subseteq Chars
    /\ Names \subseteq (SUBSET Chars) \ {{}}
    /\ Widest \in Nat /\ Levels \subseteq 0..Widest
    /\ MaxRows \in Nat /\ Null \notin 1..MaxRows
    /\ Sorts \subseteq Seq([field : STRING \ {"name"}, descending : BOOLEAN])

VARIABLES           \* rows is also the dict of the mock
    asked,      \* the query being answered
    memory,     \* what InMemoryRepository makes of it
    sql         \* what SQLAlchemyRepository makes of it

queriesVars == <<rows, asked, memory, sql>>

Entry == [name : Names \cup {Null}, power_level : Levels \cup {Null}]

\* refused: 422; crash: an exception nobody catches, 500.
Answer == [kind : {"none", "rows", "refused", "crash"}, ids : Seq(1..MaxRows)]
NoAnswer == [kind |-> "none", ids |-> <<>>]
Refusal == [kind |-> "refused", ids |-> <<>>]
Crash == [kind |-> "crash", ids |-> <<>>]
Page(ids) == [kind |-> "rows", ids |-> ids]

QueriesTypeOK ==
    /\ rows \in Seq(Entry) /\ Len(rows) <= MaxRows
    /\ asked \in Queries \cup {Null}
    /\ memory \in Answer /\ sql \in Answer

QueriesInit ==
    /\ rows = <<>>
    /\ asked = Null
    /\ memory = NoAnswer /\ sql = NoAnswer

-----------------------------------------------------------------------------
(***************************************************************************)
(* crud_query: a clause is [field, op, raws], its raw values [char, number]*)
(* with number Null if int() refuses the text.                             *)
(***************************************************************************)

Columns == {"id", "name", "power_level"}
Schema(view) == IF view = "v1" THEN {"id", "name", "superpower"} ELSE Columns
NumberFields == {"id", "power_level"}

\* _OPS_BY_KIND.  The regex of strings is left out.
Ops(field) == IF field \in NumberFields THEN {"eq", "min", "max", "in"}
                                        ELSE {"eq", "contains", "icontains"}

Parses(view, clause) ==
    /\ clause.field \in Schema(view)
    /\ clause.op \in Ops(clause.field)
    /\ clause.field \in NumberFields => \A raw \in clause.raws : raw.number # Null

\* parse_filters and parse_sort collect their errors and refuse all of it.
Refused(q) ==
    \/ \E clause \in ToSet(q.filters) : ~Parses(q.view, clause)
    \/ \E term \in ToSet(q.sort) : term.field \notin Schema(q.view)

\* _cast: what a column is compared with.
Targets(clause) ==
    IF clause.field \in NumberFields THEN {raw.number : raw \in clause.raws}
                                     ELSE {{raw.char} : raw \in clause.raws}

Value(i, field) == IF field = "id" THEN i ELSE rows[i][field]

-----------------------------------------------------------------------------
(***************************************************************************)
(* InMemoryRepository.list.                                                *)
(***************************************************************************)

\* An unknown field raises ValueError, None >= 1 raises TypeError.
Evaluates(i, clause) ==
    /\ clause.field \in Columns
    /\ clause.op \in {"min", "max"} => Value(i, clause.field) # Null

MemoryHolds(i, clause) ==
    LET value == Value(i, clause.field)
        text  == IF value = Null THEN NoneText ELSE value
    IN  CASE clause.op \in {"eq", "in"} -> value \in Targets(clause)
          [] clause.op = "min" -> \E target \in Targets(clause) : value >= target
          [] clause.op = "max" -> \E target \in Targets(clause) : value <= target
          [] clause.op = "contains" -> \E raw \in clause.raws : raw.char \in text
          [] clause.op = "icontains" ->
                \E raw \in clause.raws : Lower[raw.char] \in {Lower[c] : c \in text}

\* all() stops at the first clause that does not hold.
Breaks(i, filters) ==
    \E k \in DOMAIN filters :
        /\ ~Evaluates(i, filters[k])
        /\ \A j \in 1..(k - 1) : MemoryHolds(i, filters[j])

\* sorted() reads every key, and compares as soon as there are two.
SortBreaks(ids, sort) ==
    \E term \in ToSet(sort) :
        \/ ids # {} /\ term.field \notin Columns
        \/ Cardinality(ids) > 1 /\ \E i \in ids : Value(i, term.field) = Null

\* Two keys in ORDER BY, NULL above every value.  sorted() orders numbers
\* alike, and never gets to compare a None (SortBreaks).
KeyLess(x, y) == IF x = Null THEN FALSE ELSE IF y = Null THEN TRUE ELSE x < y

\* Rows i and j in the order of the terms.
Precedes(i, j, sort) ==
    \E k \in DOMAIN sort :
        /\ LET x == Value(i, sort[k].field)
               y == Value(j, sort[k].field)
           IN  IF sort[k].descending THEN KeyLess(y, x) ELSE KeyLess(x, y)
        /\ \A l \in 1..(k - 1) : Value(i, sort[l].field) = Value(j, sort[l].field)

\* sorted() is stable, whatever `reverse` says: rows that tie stay in the
\* order of their ids.
Sorted(ids, sort) ==
    LET before(i, j) == Precedes(i, j, sort) \/ (~Precedes(j, i, sort) /\ i < j)
    IN  CHOOSE order \in SetToSeqs(ids) :
            \A j, k \in DOMAIN order : j < k => before(order[j], order[k])

\* Python's s[from : to].
Slice(s, from, to) ==
    LET bound(n) == IF n >= 0 THEN n ELSE IF Len(s) + n < 0 THEN 0 ELSE Len(s) + n
        end == IF bound(to) < Len(s) THEN bound(to) ELSE Len(s)
    IN  SubSeq(s, bound(from) + 1, end)

MemoryAnswer(q) ==
    LET matching == {i \in DOMAIN rows :
            \A clause \in ToSet(q.filters) : Evaluates(i, clause) /\ MemoryHolds(i, clause)}
    IN  IF Refused(q) THEN Refusal
        ELSE IF \E i \in DOMAIN rows : Breaks(i, q.filters) THEN Crash
        ELSE IF SortBreaks(matching, q.sort) THEN Crash
        ELSE Page(Slice(Sorted(matching, q.sort), q.skip, q.skip + q.limit))

-----------------------------------------------------------------------------
(***************************************************************************)
(* SQLAlchemyRepository.list.                                              *)
(***************************************************************************)

\* _column knows columns only, the driver refuses a wide number and Postgres
\* a negative OFFSET or LIMIT.
Unanswerable(q) ==
    \/ \E clause \in ToSet(q.filters) :
          \/ clause.field \notin Columns
          \/ clause.field \in NumberFields /\ \E t \in Targets(clause) : t > Widest
    \/ \E term \in ToSet(q.sort) : term.field \notin Columns
    \/ q.skip < 0 \/ q.limit < 0

\* Slip: > for >=.
SqlHoldsStrict(i, clause) ==
    LET value == Value(i, clause.field) IN
    /\ value # Null
    /\ CASE clause.op \in {"eq", "in"} -> value \in Targets(clause)
         [] clause.op = "min" -> \E target \in Targets(clause) : value > target
         [] clause.op = "max" -> \E target \in Targets(clause) : value <= target
         [] clause.op = "contains" -> \E raw \in clause.raws : raw.char \in value
         [] clause.op = "icontains" ->
               \E raw \in clause.raws : Lower[raw.char] \in {Lower[c] : c \in value}

\* _where_clauses.
SqlHolds(i, clause) ==
    LET value == Value(i, clause.field) IN
    /\ value # Null
    /\ CASE clause.op \in {"eq", "in"} -> value \in Targets(clause)
         [] clause.op = "min" -> \E target \in Targets(clause) : value >= target
         [] clause.op = "max" -> \E target \in Targets(clause) : value <= target
         [] clause.op = "contains" ->
               \E raw \in clause.raws : raw.char = Wildcard \/ raw.char \in value
         [] clause.op = "icontains" ->
               \E raw \in clause.raws :
                  raw.char = Wildcard \/ Lower[raw.char] \in {Lower[c] : c \in value}

\* ORDER BY: rows that tie come in any order.
SqlOrders(ids, sort) ==
    LET terms == IF sort = <<>> THEN <<[field |-> "id", descending |-> FALSE]>> ELSE sort
    IN  {order \in SetToSeqs(ids) :
            \A j, k \in DOMAIN order : j < k => ~Precedes(order[k], order[j], terms)}

SqlAnswers(q) ==
    IF Refused(q) THEN {Refusal}
    ELSE IF Unanswerable(q) THEN {Crash}
    ELSE LET ids == {i \in DOMAIN rows : \A clause \in ToSet(q.filters) : SqlHolds(i, clause)}
         IN  {Page(Slice(order, q.skip, q.skip + q.limit)) : order \in SqlOrders(ids, q.sort)}

-----------------------------------------------------------------------------
Create(row) ==
    /\ asked = Null /\ Len(rows) < MaxRows
    /\ rows' = Append(rows, row)
    /\ UNCHANGED <<asked, memory, sql>>

\* resolve_list_or_get without an id.
Ask(q) ==
    /\ asked = Null
    /\ asked' = q
    /\ memory' = MemoryAnswer(q)
    /\ sql' \in SqlAnswers(q)
    /\ UNCHANGED rows

Forget ==
    /\ asked # Null
    /\ asked' = Null
    /\ memory' = NoAnswer /\ sql' = NoAnswer
    /\ UNCHANGED rows

QueriesNext ==
    \/ \E row \in Entry : Create(row)
    \/ \E q \in Queries : Ask(q)
    \/ Forget

QueriesSpec == QueriesInit /\ [][QueriesNext]_queriesVars

-----------------------------------------------------------------------------
\* A query that reads columns no row leaves empty, looks for no wildcard and
\* stays within the numbers of a Postgres INTEGER.
Ordinary(q) ==
    /\ ~Unanswerable(q)
    /\ \A clause \in ToSet(q.filters) :
          /\ \A i \in DOMAIN rows : Value(i, clause.field) # Null
          /\ clause.op \in {"contains", "icontains"} => \A raw \in clause.raws : raw.char # Wildcard
    /\ \A term \in ToSet(q.sort), i \in DOMAIN rows : Value(i, term.field) # Null

\* The mock answers an ordinary query as the database may answer it: the same
\* rows, in an order ORDER BY allows, on the same page (the two list methods
\* of the Repository protocol).
BackendsAgree ==
    asked # Null => (Refused(asked) \/ Ordinary(asked) => memory \in SqlAnswers(asked))

-----------------------------------------------------------------------------
(***************************************************************************)
(* What the repository says of itself and the code does not keep.          *)
(***************************************************************************)

\* "None of this app's routes raise an unhandled exception on any real input"
\* (problem_details): no query is answered with a 500.
QueriesAreAnswered == memory.kind # "crash" /\ sql.kind # "crash"

\* parse_filters and parse_sort validate against the schema, so "an unknown
\* field name can never actually arrive here" (memory._known_field).
OnlyColumnsArrive ==
    asked # Null /\ memory.kind # "refused" =>
        \A part \in ToSet(asked.filters) \cup ToSet(asked.sort) : part.field \in Columns

\* "A string field gets substring operators" (crud_query): a row is found by
\* contains or icontains only if the text is in it, in some case.
ContainsIsSubstring ==
    asked # Null =>
        \A i \in ToSet(memory.ids) \cup ToSet(sql.ids), clause \in ToSet(asked.filters) :
            clause.op \in {"contains", "icontains"} =>
                /\ Value(i, clause.field) # Null
                /\ \E raw \in clause.raws :
                      Lower[raw.char] \in {Lower[c] : c \in Value(i, clause.field)}

=============================================================================
