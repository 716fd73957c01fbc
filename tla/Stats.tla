-------------------------------- MODULE Stats --------------------------------
(***************************************************************************)
(* GET /stats and GET /predict.  SQLAlchemyRepository.stats runs one       *)
(* statement after another under READ COMMITTED, so that other requests    *)
(* may commit between two of them, and leaves the aggregation to SQL;      *)
(* InMemoryRepository.stats goes through its list in Python, all at once.  *)
(* forecast fits a line by least squares, here in exact fractions.         *)
(*                                                                         *)
(* An instant is a day, a bucket a number of them; the publication window  *)
(* is left out, is_locked stands for both categorical fields, and an       *)
(* average is the quotient of the total and the count.                     *)
(***************************************************************************)
EXTENDS Table, Integers, Sequences, FiniteSets, FiniteSetsExt, SequencesExt

CONSTANTS
    Locks,          \* values of is_locked
    MaxDay,         \* bound on the days that pass
    MaxOvertaking,  \* bound on the commits during one stats request
    Width,          \* days in a bucket
    MaxHistory,     \* MAX_HISTORY_RECORDS
    Periods         \* buckets to predict

ASSUME StatsAssumption ==
    /\ Levels \subseteq Nat /\ Locks \subseteq BOOLEAN
    /\ {MaxRows, MaxDay, MaxOvertaking} \subseteq Nat
    /\ {Width, MaxHistory, Periods} \subseteq Nat \ {0}

VARIABLES           \* rows are the committed ones
    today,
    request,        \* the statement a stats request runs next
    whole,          \* its include_archived
    stats,          \* what it has computed
    seen,           \* the tables committed since it began, to compare it with
    prediction      \* the answer of the last predict request

statsVars == <<today, rows, request, whole, stats, seen, prediction>>

Row == [level : Levels \cup {Null}, locked : Locks, archived : BOOLEAN, created : 0..MaxDay]

Tables == {r \in Seq(Row) : Len(r) <= MaxRows}

\* The parts of the answer in the order of their statements.
Parts == <<"total", "numeric", "categorical", "series", "lifecycle">>

\* Nothing computed yet.
Blank == [total |-> Null, numeric |-> Null, categorical |-> Null, series |-> Null, lifecycle |-> Null]

NoPrediction == [history |-> <<>>, predictions |-> <<>>]

Point == [start : Nat, value : Nat]
Fraction == [start : Nat, num : Int, den : Int]

StatsTypeOK ==
    /\ today \in 0..MaxDay
    /\ rows \in Tables
    /\ request \in {"idle", "answered"} \cup ToSet(Parts)
    /\ whole \in BOOLEAN
    /\ stats.total \in 0..MaxRows \cup {Null}
    /\ DOMAIN stats = DOMAIN Blank
    /\ seen \in Seq(Tables)
    /\ prediction.history \in Seq(Point)
    /\ prediction.predictions \in Seq(Fraction)

StatsInit ==
    /\ today = 0
    /\ rows = <<>>
    /\ request = "idle"
    /\ whole = FALSE
    /\ stats = Blank
    /\ seen = <<>>
    /\ prediction = NoPrediction

\* The rows of the table r that count, by their ids (_visibility_clauses,
\* _is_visible).
Visible(r, all) == {i \in DOMAIN r : all \/ ~r[i].archived}

WithLevel(r, ids) == {i \in ids : r[i].level # Null}

\* The entries of d by their keys: ORDER BY, and sorted() of a dict's items.
OldestFirst(d) ==
    LET nth(k) == CHOOSE start \in DOMAIN d :
                      Cardinality({s \in DOMAIN d : s < start}) = k - 1
    IN  [k \in 1..Cardinality(DOMAIN d) |-> [start |-> nth(k), value |-> d[nth(k)]]]

-----------------------------------------------------------------------------
(***************************************************************************)
(* What the statements of SQLAlchemyRepository.stats select from the rows  *)
(* `where` of r.                                                           *)
(***************************************************************************)

\* Slip: COUNT of the rows in place of the column's.
NumericOfRows(r, where) ==
    LET with   == WithLevel(r, where)
        levels == {r[i].level : i \in with}
    IN  [count   |-> Cardinality(where),
         minimum |-> IF with = {} THEN Null ELSE Min(levels),
         maximum |-> IF with = {} THEN Null ELSE Max(levels),
         total   |-> IF with = {} THEN Null ELSE MapThenSumSet(LAMBDA i : r[i].level, with)]

\* The aggregates of a column skip NULL; without a value COUNT is 0 and the
\* others are NULL.
Numeric(r, where) ==
    LET with   == WithLevel(r, where)
        levels == {r[i].level : i \in with}
    IN  [count   |-> Cardinality(with),
         minimum |-> IF with = {} THEN Null ELSE Min(levels),
         maximum |-> IF with = {} THEN Null ELSE Max(levels),
         total   |-> IF with = {} THEN Null ELSE MapThenSumSet(LAMBDA i : r[i].level, with)]

\* SELECT key, COUNT(.) ... GROUP BY key.
Grouped(where, key) ==
    [k \in {key[i] : i \in where} |-> Cardinality({i \in where : key[i] = k})]

Categorical(r, where) == Grouped(where, [i \in where |-> r[i].locked])

DateTrunc(day) == (day \div Width) * Width

CreatedSeries(r, where) ==
    OldestFirst(Grouped(where, [i \in where |-> DateTrunc(r[i].created)]))

\* COUNT(.) FILTER (WHERE ...).
Lifecycle(r, where) == [archived |-> Cardinality({i \in where : r[i].archived}),
                        locked   |-> Cardinality({i \in where : r[i].locked})]

-----------------------------------------------------------------------------
(***************************************************************************)
(* InMemoryRepository.stats and bucket_field_sums: loops over records with *)
(* ids of 1..MaxRows, in the order of their ids.                           *)
(***************************************************************************)

\* sum(weight[i] for i in ids).
PySum(ids, weight) ==
    LET sum[n \in 0..MaxRows] ==
            IF n = 0 THEN 0 ELSE IF n \in ids THEN sum[n - 1] + weight[n] ELSE sum[n - 1]
    IN  sum[MaxRows]

\* d[k] = d.get(k, 0) + w
Credit(d, k, w) ==
    [x \in DOMAIN d \cup {k} |->
        IF x # k THEN d[x] ELSE IF k \in DOMAIN d THEN d[k] + w ELSE w]

\* The dict of the sums of the weights of equal keys, made record by record.
Tally(ids, key, weight) ==
    LET dict[n \in 0..MaxRows] ==
            IF n = 0 THEN <<>>
            ELSE IF n \in ids THEN Credit(dict[n - 1], key[n], weight[n]) ELSE dict[n - 1]
    IN  dict[MaxRows]

Ones(ids) == [i \in ids |-> 1]

\* _bucket_start: the day less the days since the bucket began (weekday).
BucketStart(day) == day - (day % Width)

MemoryNumeric(r, matching) ==
    LET numbers == WithLevel(r, matching)
        levels  == {r[i].level : i \in numbers}
    IN  [count   |-> PySum(numbers, Ones(numbers)),
         minimum |-> IF numbers # {} THEN Min(levels) ELSE Null,
         maximum |-> IF numbers # {} THEN Max(levels) ELSE Null,
         total   |-> IF numbers # {} THEN PySum(numbers, [i \in numbers |-> r[i].level]) ELSE Null]

\* The answer of the mock for the table r.
MemoryStats(r, all) ==
    LET matching     == Visible(r, all)
        tally(key)   == Tally(matching, key, Ones(matching))
        ones(chosen) == PySum(chosen, Ones(chosen))
    IN  [total       |-> ones(matching),
         numeric     |-> MemoryNumeric(r, matching),
         categorical |-> tally([i \in matching |-> r[i].locked]),
         series      |-> OldestFirst(tally([i \in matching |-> BucketStart(r[i].created)])),
         lifecycle   |-> [archived |-> ones({i \in matching : r[i].archived}),
                          locked   |-> ones({i \in matching : r[i].locked})]]

-----------------------------------------------------------------------------
(***************************************************************************)
(* The other requests.                                                     *)
(***************************************************************************)

Commit(table) ==
    /\ rows' = table
    /\ IF request = "idle" THEN UNCHANGED seen
                           ELSE Len(seen) <= MaxOvertaking /\ seen' = Append(seen, table)
    /\ UNCHANGED <<today, request, whole, stats, prediction>>

\* A create commits.
Insert(level, locked) ==
    /\ Len(rows) < MaxRows
    /\ Commit(Append(rows, [level |-> level, locked |-> locked,
                            archived |-> FALSE, created |-> today]))

\* A delete or a restore commits.
SetArchived(i, archived) ==
    /\ rows[i].archived # archived
    /\ Commit([rows EXCEPT ![i].archived = archived])

Tick ==
    /\ today < MaxDay
    /\ today' = today + 1
    /\ UNCHANGED <<rows, request, whole, stats, seen, prediction>>

-----------------------------------------------------------------------------
(***************************************************************************)
(* SQLAlchemyRepository.stats.                                             *)
(***************************************************************************)

\* One request at a time will do: stats and predict only read.
Begin(all) ==
    /\ request = "idle" /\ prediction = NoPrediction
    /\ request' = "total"
    /\ whole' = all
    /\ seen' = <<rows>>
    /\ UNCHANGED <<today, rows, stats, prediction>>

Where == Visible(rows, whole)

\* The statement `part` sets its part of the result to value and hands over
\* to `next`.
Statement(part, value, next) ==
    /\ request = part
    /\ stats' = [stats EXCEPT ![part] = value]
    /\ request' = next
    /\ UNCHANGED <<today, rows, whole, seen, prediction>>

Count == Statement("total", Cardinality(Where), "numeric")

NumericStats == Statement("numeric", Numeric(rows, Where), "categorical")

CategoricalStats == Statement("categorical", Categorical(rows, Where), "series")

TimeSeries == Statement("series", CreatedSeries(rows, Where), "lifecycle")

LifecycleStatistics == Statement("lifecycle", Lifecycle(rows, Where), "answered")

\* The answer is out and the session closed.
Answered ==
    /\ request = "answered" \/ prediction # NoPrediction
    /\ request' = "idle"
    /\ whole' = FALSE
    /\ stats' = Blank
    /\ seen' = <<>>
    /\ prediction' = NoPrediction
    /\ UNCHANGED <<today, rows>>

-----------------------------------------------------------------------------
(***************************************************************************)
(* _resolve_predict.                                                       *)
(***************************************************************************)

\* _advance.
Advance(start, steps) == start + steps * Width

\* Slip: x starts at 1 in the fit and at 0 in the projection.
ForecastShifted(history) ==
    LET n    == Len(history)
        X    == 1..n
        y(x) == history[x].value
        sx   == SumSet(X)
        sy   == MapThenSumSet(y, X)
        den  == n * MapThenSumSet(LAMBDA x : x * x, X) - sx * sx
        slope == n * MapThenSumSet(LAMBDA x : x * y(x), X) - sx * sy
    IN  [step \in 1..Periods |->
            [start |-> Advance(history[n].start, step),
             num   |-> n * slope * (n - 1 + step) + sy * den - slope * sx,
             den   |-> n * den]]

\* forecast: with x in 0..n-1, den = n*Sum(x^2) - Sum(x)^2 and slope the
\* slope times den, the line is slope*x/den + (Sum(y) - slope*Sum(x)/den)/n.
Forecast(history) ==
    LET n    == Len(history)
        X    == 0..(n - 1)
        y(x) == history[x + 1].value
        sx   == SumSet(X)
        sy   == MapThenSumSet(y, X)
        den  == n * MapThenSumSet(LAMBDA x : x * x, X) - sx * sx
        slope == n * MapThenSumSet(LAMBDA x : x * y(x), X) - sx * sy
    IN  [step \in 1..Periods |->
            [start |-> Advance(history[n].start, step),
             num   |-> n * slope * (n - 1 + step) + sy * den - slope * sx,
             den   |-> n * den]]

\* list(limit=MAX_HISTORY_RECORDS, sort=[created_at]): the oldest records.
Oldest ==
    LET visible == Visible(rows, FALSE) IN
    {i \in visible : Cardinality({j \in visible : j < i}) < MaxHistory}

\* bucket_field_sums of the power level.
FieldHistory ==
    LET records == WithLevel(rows, Oldest) IN
    OldestFirst(Tally(records, [i \in records |-> BucketStart(rows[i].created)],
                               [i \in records |-> rows[i].level]))

\* count_series_as_values.
CountHistory == CreatedSeries(rows, Visible(rows, FALSE))

\* Fewer than two buckets of history are a 422.
Predict(history) ==
    /\ request = "idle"
    /\ Len(history) >= 2
    /\ prediction' = [history |-> history, predictions |-> Forecast(history)]
    /\ UNCHANGED <<today, rows, request, whole, stats, seen>>

StatsNext ==
    \/ \E level \in Levels \cup {Null}, locked \in Locks : Insert(level, locked)
    \/ \E i \in DOMAIN rows, archived \in BOOLEAN : SetArchived(i, archived)
    \/ Tick
    \/ \E all \in BOOLEAN : Begin(all)
    \/ Count \/ NumericStats \/ CategoricalStats \/ TimeSeries \/ LifecycleStatistics
    \/ Answered
    \/ Predict(CountHistory)
    \/ Predict(FieldHistory)

StatsSpec == StatsInit /\ [][StatsNext]_statsVars

-----------------------------------------------------------------------------
\* Whatever is committed between the five statements of the SQL repository,
\* each part of its answer is the one the mock computes from the table as it
\* was at some moment during the request, and no part is of an earlier moment
\* than the part before it (SQLAlchemyRepository.stats and its aggregates,
\* InMemoryRepository.stats and its loops).
StatsAreOfTheirTime ==
    request = "answered" =>
        LET mock == [m \in DOMAIN seen |-> MemoryStats(seen[m], whole)] IN
        \E moment \in [DOMAIN Parts -> DOMAIN seen] :
            /\ \A j, k \in DOMAIN Parts : j <= k => moment[j] <= moment[k]
            /\ \A k \in DOMAIN Parts : stats[Parts[k]] = mock[moment[k]][Parts[k]]

\* A forecast is a line: the history that is let through always gives the fit
\* a slope (forecast's fallback for a denominator of 0 is never taken), and
\* when the value changes by the same amount from each bucket to the next, the
\* forecast goes on with it, bucket after bucket (forecast, _advance).
LinesAreContinued ==
    LET history == prediction.history
        n == Len(history)
        change == history[2].value - history[1].value
        isLine == \A k \in 2..n : history[k].value - history[k - 1].value = change
    IN  \A step \in DOMAIN prediction.predictions :
            LET p == prediction.predictions[step] IN
            /\ p.den > 0
            /\ isLine => /\ p.num = p.den * (history[n].value + step * change)
                         /\ p.start = history[n].start + step * Width

-----------------------------------------------------------------------------
\* count counts values "among the records the stats query matched (may be
\* less than the resource's total)" (NumericFieldStats): it is never more.
CountsWithinTotal == request = "answered" => stats.numeric.count <= stats.total

=============================================================================
