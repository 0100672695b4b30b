------------------------------ MODULE EvalScores ------------------------------
(***************************************************************************)
(* From what an agent has said to what a report says of it: whether a table  *)
(* matches the one a golden case expects (`warble eval compare`,             *)
(* eval/compare/src/lib.rs); and how an answer is extracted from the text,   *)
(* scored against the case, the samples of a case folded into one result,    *)
(* the results of a binding into one report, and the report put into words   *)
(* (eval/runner/src/lib.rs).                                                 *)
(*                                                                          *)
(* A text is a sequence of pieces: fences, line ends, JSON objects, braces   *)
(* that are no JSON, words.  Pass rates are twelfths, so that those of up to *)
(* four samples, and the mean of two of them over up to three, are exact.    *)
(***************************************************************************)
EXTENDS Integers, Sequences, SequencesExt, FiniteSets, FiniteSetsExt, Functions, Bags, Selections

-------------------------------------------------------------------------------
(* Comparing tables.  A table is a sequence of rows, a row a sequence of     *)
(* cells.  Numbers are whole units, and so is a tolerance; a unit is as small *)
(* as the constants make it.  A string that parses as a number is the cell of *)
(* that number, "nan" and "inf" too, and other strings are numbered by their *)
(* trimmed text.  What f64 itself rounds off is left out.                    *)

CONSTANTS
    Grids,      \* 1, 1/10, 1/100, ... in units, down to the unit itself
    Finest,     \* the step of no tolerance: nine decimals in the code
    Largest     \* i64::MAX

ASSUME GridAssumption ==
    /\ Grids \subseteq Nat \ {0} /\ {1, Finest} \subseteq Grids
    /\ Largest \in Nat

MatchModes == {"scalar", "set", "ordered"}

Null == [is |-> "null", of |-> 0]
Num(n) == [is |-> "num", of |-> n]
NaN == [is |-> "nan", of |-> 0]
Infinite(sign) == [is |-> "inf", of |-> sign]
Str(s) == [is |-> "str", of |-> s]
Cells == [is : {"null", "num", "str"}, of : Int] \cup {NaN, Infinite(1), Infinite(-1)}

as_number(c) == c.is \in {"num", "nan", "inf"}
AbsOf(n) == IF n < 0 THEN -n ELSE n

\* NaN is equal to nothing, and the difference of two infinities is NaN.
cells_equal(a, b, tol) ==
    IF as_number(a) /\ as_number(b)
    THEN a.is = "num" /\ b.is = "num" /\ AbsOf(a.of - b.of) <= tol
    ELSE a = b

-------------------------------------------------------------------------------
(* The grid.  Its step is the largest power of ten that is neither above the *)
(* tolerance nor above one.                                                  *)

CoarserGrid(tol) == 10 * (IF tol <= 0 THEN Finest ELSE Max({u \in Grids : u <= tol}))

GridStep(tol) == IF tol <= 0 THEN Finest ELSE Max({u \in Grids : u <= tol})

\* f64::round() takes a half away from zero.
Rounded(n, u) ==
    LET r == (2 * AbsOf(n) + u) \div (2 * u) IN IF n < 0 THEN -r ELSE r

\* `as i64` saturates.
AsI64(r) == IF r > Largest THEN Largest ELSE IF r < -Largest - 1 THEN -Largest - 1 ELSE r

\* The place of a numeric cell on the grid; `as i64` makes a NaN a zero.
round_to_grid(c, u) ==
    CASE c.is = "num" -> AsI64(Rounded(c.of, u))
      [] c.is = "nan" -> 0
      [] c.is = "inf" -> IF c.of < 0 THEN -Largest - 1 ELSE Largest

normalize_cell(c, u) == IF as_number(c) THEN Num(round_to_grid(c, u)) ELSE c

\* A row without the order of its columns: its cells, each as often as it occurs.
normalize_row(row, u) == ToBag([i \in DOMAIN row |-> normalize_cell(row[i], u)])

row_multiset(table, u) == ToBag([i \in DOMAIN table |-> normalize_row(table[i], u)])

-------------------------------------------------------------------------------
(* The three comparisons.                                                    *)

OneByOne(table) == Len(table) = 1 /\ Len(table[1]) = 1

non_null_cells(table) ==
    LET cells == FlattenSeq(table) IN Picked(cells, {i \in DOMAIN cells : cells[i] # Null})

\* The one cell a scalar answer comes down to, in a sequence of its own.
ScalarOf(table) == IF OneByOne(table) THEN table[1] ELSE non_null_cells(table)

compare_scalar(expected, actual, tol) ==
    /\ OneByOne(expected)
    /\ Len(ScalarOf(actual)) = 1
    /\ cells_equal(expected[1][1], ScalarOf(actual)[1], tol)

compare_set(expected, actual, tol) ==
    row_multiset(expected, GridStep(tol)) = row_multiset(actual, GridStep(tol))

compare_ordered(expected, actual, tol) ==
    /\ Len(expected) = Len(actual)
    /\ \A i \in DOMAIN expected :
           normalize_row(expected[i], GridStep(tol)) = normalize_row(actual[i], GridStep(tol))

compare(mode, tol, expected, actual) ==
    CASE mode = "scalar" -> compare_scalar(expected, actual, tol)
      [] mode = "set" -> compare_set(expected, actual, tol)
      [] mode = "ordered" -> compare_ordered(expected, actual, tol)

\* The command passes, and exits zero, exactly on a match; what cannot be read
\* is no match.
run_eval_compare(asked) ==
    asked.readable /\ compare(asked.mode, asked.tol, asked.expected, asked.actual)

-------------------------------------------------------------------------------
(* What a match is for: the two tables hold the same answer, cell for cell   *)
(* within the tolerance, whatever the columns are called.  On a grid, no     *)
(* tolerance is its finest step, and a number that has no place of its own   *)
(* there is as good as the place it is given: one beyond an end is any other *)
(* beyond that end, and NaN is zero.                                         *)

HasPlace(c, u) == c.is = "num" /\ AsI64(Rounded(c.of, u)) = Rounded(c.of, u)

OnePlace(a, b, u) ==
    /\ as_number(a) /\ as_number(b)
    /\ ~HasPlace(a, u) \/ ~HasPlace(b, u)
    /\ round_to_grid(a, u) = round_to_grid(b, u)

CellsAgree(a, b, tol) ==
    \/ cells_equal(a, b, IF tol <= 0 THEN Finest ELSE tol)
    \/ OnePlace(a, b, GridStep(tol))

RowsAgree(r, s, tol) ==
    /\ Len(r) = Len(s)
    /\ \E p \in Bijection(DOMAIN r, DOMAIN s) :
           \A i \in DOMAIN r : CellsAgree(r[i], s[p[i]], tol)

TablesAgree(mode, tol, expected, actual) ==
    CASE mode = "scalar" ->
             \E i \in DOMAIN actual : \E j \in DOMAIN actual[i] :
                 cells_equal(expected[1][1], actual[i][j], tol)
      [] mode = "set" ->
             /\ Len(expected) = Len(actual)
             /\ \E p \in Bijection(DOMAIN expected, DOMAIN actual) :
                    \A i \in DOMAIN expected : RowsAgree(expected[i], actual[p[i]], tol)
      [] mode = "ordered" ->
             /\ Len(expected) = Len(actual)
             /\ \A i \in DOMAIN expected : RowsAgree(expected[i], actual[i], tol)

-------------------------------------------------------------------------------
(* Answers and their scores.                                                 *)

Whole == 12
Absent == -1        \* a cost or a number of turns that the backend does not report

Piece(is, of) == [is |-> is, of |-> of]
IsFence(p) == p.is = "fence"
HasBraces(p) == p.is \in {"table", "verdict", "braces"}

\* A verdict envelope: whether it is fresh, its severity in the status block and
\* in the verdict, the words of its cause, and where its text sorts; "" is a field
\* that is missing or of another type.
NoEnvelope == [fresh |-> "", status |-> "", severity |-> "", causes |-> {}, verified |-> FALSE,
               rank |-> 0]

\* A result is a table, known by its number, an envelope, or text as it came.
Result(is, table, envelope, text) ==
    [is |-> is, table |-> table, envelope |-> envelope, text |-> text]
Table(n) == Result("table", n, NoEnvelope, <<>>)
Verdict(e) == Result("verdict", 0, e, <<>>)
Raw(text) == Result("raw", 0, NoEnvelope, text)
NoResult == Result("none", 0, NoEnvelope, <<>>)

-------------------------------------------------------------------------------
(* Extraction.                                                               *)

\* The inside of the first fenced block, or everything if it is not closed.
strip_fence(text) ==
    LET open == SelectInSeq(text, IsFence)
        ends == {i \in open + 1 .. Len(text) : text[i].is = "newline"}
        start == Min(ends) + 1
        closes == {i \in start .. Len(text) : IsFence(text[i])}
    IN  IF open = 0 \/ ends = {} \/ closes = {} THEN text
        ELSE SubSeq(text, start, Min(closes) - 1)

\* From the first brace to the last: an object only if nothing else is between.
Outermost(text) ==
    LET S == {i \in DOMAIN text : HasBraces(text[i])}
    IN  IF S = {} THEN <<>> ELSE SubSeq(text, Min(S), Max(S))

ExtractedAs(text, is) ==
    LET found == Outermost(strip_fence(text))
    IN  IF Len(found) = 1 /\ found[1].is = is THEN found[1].of ELSE NoResult

extract_result_json(text) == ExtractedAs(text, "table")
extract_verdict_json(text) == ExtractedAs(text, "verdict")

SeverityOf(e) == IF e.status # "" THEN e.status ELSE e.severity

project_verdict_field(e, field) ==
    CASE field = "fresh" -> e.fresh
      [] field = "severity" -> SeverityOf(e)
      [] OTHER -> ""

GoldenCase(id, kind, tags, field, expected) ==
    [id |-> id, kind |-> kind, tags |-> tags, field |-> field, expected |-> expected]

\* What the comparison has to say of a result; no verdict if the result does not
\* have the shape of the case.  The expectation of a case is a table or a field.
score_value(result, case) ==
    CASE case.kind = "table" ->
             IF result.is # "table" THEN "none"
             ELSE IF result.table = case.expected.table THEN "match" ELSE "other table"
      [] case.kind = "verdict" ->
             LET field == project_verdict_field(result.envelope, case.field)
             IN  IF result.is # "verdict" \/ field = "" THEN "none"
                 ELSE IF field = case.expected.field THEN "match" ELSE "other value"

\* One sample: what the adapter has brought back, made into an outcome.  `said` is
\* whether the answer is kept, and a text that nothing can be read from is kept raw.
SampleOutcome(inv, case, record) ==
    LET result == IF case.kind = "table" THEN extract_result_json(inv.text)
                  ELSE extract_verdict_json(inv.text)
        verdict == score_value(result, case)
        answer == IF result = NoResult THEN Raw(inv.text) ELSE result
    IN  [pass |-> inv.ok /\ verdict = "match",
         reason |-> IF ~inv.ok THEN "backend invocation failed"
                    ELSE IF result = NoResult THEN "no parseable result"
                    ELSE IF verdict = "none" THEN "missing the expected field" ELSE verdict,
         cost |-> IF inv.ok THEN inv.cost ELSE Absent,
         turns |-> IF inv.ok THEN inv.turns ELSE Absent,
         hit |-> inv.hit,
         answers |-> IF record /\ inv.ok THEN {answer} ELSE {}]

\* A text whose tables and envelopes are what they are taken for, what an adapter
\* can bring back, and a case that was asked n times.
IsText(text) ==
    /\ text \in Seq(ToSet(text))
    /\ \A i \in DOMAIN text : text[i].is \in {"table", "verdict"} => text[i].of.is = text[i].is

IsInvocation(inv) ==
    inv.ok \in BOOLEAN /\ inv.hit \in BOOLEAN /\ inv.cost \in Nat \cup {Absent} /\ IsText(inv.text)

IsSampled(c, n) ==
    /\ c.case.kind \in {"table", "verdict"}
    /\ c.samples \in Seq(ToSet(c.samples)) /\ Len(c.samples) = n
    /\ \A k \in DOMAIN c.samples : IsInvocation(c.samples[k])

-------------------------------------------------------------------------------
(* The fold of one case.                                                     *)

AddPresent(a, b) == IF b = Absent THEN a ELSE a + b

\* One missing summand makes the sum missing.
TryAdd(a, b) == IF a = Absent \/ b = Absent THEN Absent ELSE a + b
TrySum(s) == LET upto[n \in 0 .. Len(s)] == IF n = 0 THEN 0 ELSE TryAdd(upto[n - 1], s[n])
             IN  upto[Len(s)]
TryMean(s) == IF s = <<>> THEN 0 ELSE IF TrySum(s) = Absent THEN Absent ELSE TrySum(s) \div Len(s)

Times(s, x) == Quantify(DOMAIN s, LAMBDA i : s[i] = x)

\* The most common reason, the earliest of them if there are several.
modal_reason(reasons) ==
    LET best == {i \in DOMAIN reasons :
                     \A j \in DOMAIN reasons : Times(reasons, reasons[j]) <= Times(reasons, reasons[i])}
    IN  IF best = {} THEN "" ELSE reasons[Min(best)]

MapSeq(s, Op(_)) == [i \in DOMAIN s |-> Op(s[i])]

\* A case that was sampled, and how often it passed.
CaseResult(id, tags, samples, passes) ==
    [id |-> id, tags |-> tags, samples |-> samples, passes |-> passes,
     pass_rate |-> IF samples = 0 THEN 0 ELSE (Whole * passes) \div samples,
     pass |-> samples > 0 /\ passes = samples,
     flaky |-> 0 < passes /\ passes < samples,
     reason |-> "", cost |-> 0, turns |-> 0, cache_hits |-> 0, cache_misses |-> samples,
     recorded |-> FALSE, answer_dist |-> EmptyBag]

fold_samples(case, outcomes, record) ==
    LET samples == Len(outcomes)
        passes == Quantify(DOMAIN outcomes, LAMBDA i : outcomes[i].pass)
        hits == Quantify(DOMAIN outcomes, LAMBDA i : outcomes[i].hit)
        failed == Picked(outcomes, {i \in DOMAIN outcomes : ~outcomes[i].pass})
        answered == Picked(outcomes, {i \in DOMAIN outcomes : outcomes[i].answers # {}})
    IN  [CaseResult(case.id, case.tags, samples, passes) EXCEPT
            !.reason = IF passes = samples THEN "match"
                       ELSE modal_reason(MapSeq(failed, LAMBDA o : o.reason)),
            !.cost = TrySum(MapSeq(outcomes, LAMBDA o : o.cost)),
            !.turns = TryMean(MapSeq(outcomes, LAMBDA o : o.turns)),
            !.cache_hits = hits, !.cache_misses = samples - hits,
            !.recorded = record,
            !.answer_dist = ToBag(MapSeq(answered, LAMBDA o : CHOOSE a \in o.answers : TRUE))]

\* How many answers a distribution holds.
AnswersIn(dist) == MapThenSumSet(LAMBDA a : dist[a], DOMAIN dist)

output_stability(c) ==
    IF ~c.recorded \/ c.samples <= 1 THEN "not measured"
    ELSE IF AnswersIn(c.answer_dist) < c.samples THEN "incomplete"
    ELSE IF Cardinality(DOMAIN c.answer_dist) > 1 THEN "unstable" ELSE "stable"

OutputUnstable(c) == output_stability(c) \in {"unstable", "incomplete"}

-------------------------------------------------------------------------------
(* The report of one binding.                                                *)

Sum(s) == LET upto[n \in 0 .. Len(s)] == IF n = 0 THEN 0 ELSE upto[n - 1] + s[n]
          IN  upto[Len(s)]
Tags(rows) == UNION {rows[i].tags : i \in DOMAIN rows}

TagStat(rows, tag) ==
    LET tagged == Picked(rows, {i \in DOMAIN rows : tag \in rows[i].tags})
    IN  [n |-> Len(tagged), pass |-> Quantify(DOMAIN tagged, LAMBDA i : tagged[i].pass),
         pass_rate_sum |-> Sum(MapSeq(tagged, LAMBDA r : r.pass_rate))]

aggregate(model, rows) ==
    [model |-> model, n |-> Len(rows),
     accuracy |-> IF rows = <<>> THEN 0
                  ELSE Sum(MapSeq(rows, LAMBDA r : r.pass_rate)) \div Len(rows),
     cost_total_usd |-> TrySum(MapSeq(rows, LAMBDA r : r.cost)),
     turns_avg |-> TryMean(MapSeq(rows, LAMBDA r : r.turns)),
     cache_hits |-> Sum(MapSeq(rows, LAMBDA r : r.cache_hits)),
     cache_misses |-> Sum(MapSeq(rows, LAMBDA r : r.cache_misses)),
     flaky_cases |-> Quantify(DOMAIN rows, LAMBDA i : rows[i].flaky),
     output_unstable_cases |-> Quantify(DOMAIN rows, LAMBDA i : OutputUnstable(rows[i])),
     by_tag |-> [t \in Tags(rows) |-> TagStat(rows, t)],
     cases |-> rows]

effective_record_answers(explicit, samples) == explicit \/ samples > 1

\* What the table of a run says beyond its numbers.
format_pareto(report) ==
    LET configs == ToSet(report.configs)
        cases(c) == ToSet(c.cases)
    IN  [subset |-> report.selected_cases < report.total_cases,
         not_measured |-> configs # {} /\ \A c \in configs : \A k \in cases(c) : k.samples <= 1,
         cached |-> IF \A c \in configs : c.cache_hits = 0 THEN {}
                    ELSE {[model |-> c.model,
                           rescore_only |-> c.cache_misses = 0,
                           replay |-> c.cache_misses = 0 /\ \E k \in cases(c) : k.samples > 1] :
                              c \in configs},
         unstable |-> UNION {{[model |-> c.model, id |-> k.id, flaky |-> k.flaky,
                               output |-> output_stability(k)] :
                                  k \in {r \in cases(c) : r.flaky \/ OutputUnstable(r)}} :
                                      c \in configs},
         no_cost |-> {c.model : c \in {d \in configs : d.cost_total_usd = Absent}}]
===============================================================================
