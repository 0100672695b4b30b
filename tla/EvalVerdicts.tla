----------------------------- MODULE EvalVerdicts -----------------------------
(***************************************************************************)
(* What is decided from the reports of EvalScores: the regression gate       *)
(* (gate.rs), the tiers an ablation recommends (ablation.rs), the pair of    *)
(* runs of a monitor (monitor.rs) -- and, before any of them, which of the   *)
(* golden cases are run at all (filter.rs).                                  *)
(***************************************************************************)
EXTENDS EvalScores

-------------------------------------------------------------------------------
(* The selection.  `asked` is what --sample says: its form and its number,   *)
(* -1 if that is none, and in hundredths for a percentage and a fraction.    *)

NoSample == [is |-> "all", n |-> 0]
Refused == [is |-> "refused", n |-> 0]
Sample(is, n) == [is |-> is, n |-> n]

SampleParse(asked) ==
    CASE asked.form = "" -> NoSample
      [] asked.form = "per-tag" ->
             IF asked.n <= 0 THEN Refused ELSE Sample("per-tag", asked.n)
      [] asked.form \in {"percent", "fraction"} ->
             IF asked.n <= 0 \/ asked.n > 100 \/ (asked.form = "fraction" /\ asked.n = 100)
             THEN Refused ELSE Sample("ratio", asked.n)
      [] asked.form = "integer" -> IF asked.n <= 0 THEN Refused ELSE Sample("count", asked.n)
      [] OTHER -> Refused

from_flags(tags, asked) == [tags |-> tags, sample |-> SampleParse(asked)]
is_active(filter) == filter.tags # {} \/ filter.sample # NoSample

\* k of the pool at an even stride.
even_pick(pool, k) ==
    IF k >= Len(pool) THEN pool
    ELSE [i \in 1 .. k |-> pool[((i - 1) * Len(pool)) \div k + 1]]

Buckets(case) == IF case.tags = {} THEN {""} ELSE case.tags

\* How many of the cases are in bucket b.
Had(cases, b) == Quantify(DOMAIN cases, LAMBDA i : b \in Buckets(cases[i]))

\* In their order, the cases that some bucket of theirs has had fewer than k of.
per_tag_pick(pool, k) ==
    LET upto[n \in 0 .. Len(pool)] ==
            IF n = 0 THEN <<>>
            ELSE IF \E b \in Buckets(pool[n]) : Had(upto[n - 1], b) < k
                 THEN Append(upto[n - 1], pool[n]) ELSE upto[n - 1]
    IN  upto[Len(pool)]

\* The share of the pool, rounded up, at least one if there is one.
RatioOf(pool, percent) == (Len(pool) * percent + 99) \div 100

select_cases(cases, filter) ==
    LET pool == IF filter.tags = {} THEN cases
                ELSE Picked(cases, {i \in DOMAIN cases : cases[i].tags \cap filter.tags # {}})
    IN  CASE filter.sample.is = "all" -> pool
          [] filter.sample.is = "count" -> even_pick(pool, filter.sample.n)
          [] filter.sample.is = "ratio" -> even_pick(pool, RatioOf(pool, filter.sample.n))
          [] filter.sample.is = "per-tag" -> per_tag_pick(pool, filter.sample.n)

\* A filter that selects nothing is an error, and so is a sample that is not one.
select_and_subset(cases, filter) ==
    IF filter.sample = Refused \/ (is_active(filter) /\ select_cases(cases, filter) = <<>>)
    THEN [ok |-> FALSE, cases |-> <<>>]
    ELSE [ok |-> TRUE, cases |-> select_cases(cases, filter)]

-------------------------------------------------------------------------------
(* The gate.  A tolerance is in twelfths, like a rate.                       *)

CanPass(c) == c.pass \/ c.passes > 0

\* A case as a report has it: counted from its samples, or from before there were any.
IsCaseResult(c) ==
    /\ {"id", "tags", "samples", "passes", "pass_rate", "pass"} \subseteq DOMAIN c
    /\ c.samples \in Nat /\ c.passes \in Nat /\ c.pass_rate \in Nat /\ c.pass \in BOOLEAN
    /\ IF c.samples = 0 THEN c.passes = 0
       ELSE (c.pass_rate > 0 <=> c.passes > 0) /\ (c.pass => c.passes > 0)

IsReport(r) ==
    /\ {"backend", "configs"} \subseteq DOMAIN r /\ r.configs \in Seq(ToSet(r.configs))
    /\ \A i \in DOMAIN r.configs :
           LET c == r.configs[i]
           IN  /\ {"model", "cases", "by_tag"} \subseteq DOMAIN c /\ c.cases \in Seq(ToSet(c.cases))
               /\ \A k \in DOMAIN c.cases : IsCaseResult(c.cases[k])

RateOf(config, id) ==
    LET S == {i \in DOMAIN config.cases : config.cases[i].id = id}
    IN  IF S = {} THEN Absent ELSE config.cases[Max(S)].pass_rate

case_pass_rate_map(config) ==
    [id \in {config.cases[i].id : i \in DOMAIN config.cases} |-> RateOf(config, id)]

TaggedCases(config, tag) ==
    Picked(config.cases, {i \in DOMAIN config.cases : tag = "" \/ tag \in config.cases[i].tags})

\* How many cases of the baseline either report can still pass at least once.
nonzero_pass_coverage(base, cur, tag) ==
    LET cases == TaggedCases(base, tag)
    IN  [n |-> Len(cases),
         base |-> Quantify(DOMAIN cases, LAMBDA i : cases[i].pass_rate > 0),
         cur |-> Quantify(DOMAIN cases, LAMBDA i : RateOf(cur, cases[i].id) > 0)]

Drops(coverage, tol) == coverage.cur * Whole < coverage.base * Whole - tol * coverage.n

Matching(base_cfg, current) ==
    Picked(current.configs, {i \in DOMAIN current.configs : current.configs[i].model = base_cfg.model})

\* The regressions of one binding: of all cases, of a tag, of a case by name.
RegressionsOf(base, cur, tol) ==
    (IF Drops(nonzero_pass_coverage(base, cur, ""), tol)
     THEN {[config |-> base.model, kind |-> "overall", of |-> ""]} ELSE {})
    \cup {[config |-> base.model, kind |-> "tag", of |-> t] :
         t \in {u \in DOMAIN base.by_tag : Drops(nonzero_pass_coverage(base, cur, u), tol)}}
    \cup {[config |-> base.model, kind |-> "case", of |-> id] :
         id \in {base.cases[i].id : i \in {j \in DOMAIN base.cases :
                     base.cases[j].pass_rate > 0 /\ RateOf(cur, base.cases[j].id) <= 0}}}

FlakyOf(base, cur) ==
    {[config |-> base.model, id |-> base.cases[i].id] : i \in {j \in DOMAIN base.cases :
         base.cases[j].pass /\ RateOf(cur, base.cases[j].id) \in 1 .. Whole - 1}}

\* Reports of two backends are not compared; a binding that the candidate lacks
\* is a note.
run_gate(baseline, current, tol) ==
    LET compared == {i \in DOMAIN baseline.configs : Matching(baseline.configs[i], current) # <<>>}
        cur(i) == Matching(baseline.configs[i], current)[1]
        regressions ==
            IF baseline.backend # current.backend
            THEN {[config |-> "*", kind |-> "backend", of |-> ""]}
            ELSE UNION {RegressionsOf(baseline.configs[i], cur(i), tol) : i \in compared}
    IN  [passed |-> regressions = {}, regressions |-> regressions,
         flaky |-> IF baseline.backend # current.backend THEN {}
                   ELSE UNION {FlakyOf(baseline.configs[i], cur(i)) : i \in compared},
         notes |-> IF baseline.backend # current.backend THEN {}
                   ELSE {baseline.configs[i].model : i \in DOMAIN baseline.configs \ compared}]

KeptCase(c) == c

\* A case from before repeated sampling becomes one sample of what it was.
BackfilledCase(c) ==
    IF c.samples # 0 THEN c
    ELSE [c EXCEPT !.samples = 1, !.passes = IF c.pass THEN 1 ELSE 0,
                   !.pass_rate = IF c.pass THEN Whole ELSE 0,
                   !.cache_hits = 0, !.cache_misses = 1]

backfill_legacy(report) ==
    [report EXCEPT !.configs = MapSeq(report.configs, LAMBDA c :
        LET cases == MapSeq(c.cases, BackfilledCase)
            touched == Tags(Picked(c.cases, {i \in DOMAIN c.cases : c.cases[i].samples = 0}))
        IN  [c EXCEPT !.cases = cases,
                      !.by_tag = [t \in DOMAIN c.by_tag |->
                          IF t \in touched
                          THEN [c.by_tag[t] EXCEPT !.pass_rate_sum = TagStat(cases, t).pass_rate_sum]
                          ELSE c.by_tag[t]]])]

\* The command: both reports brought forward, and both of the backend that was
\* named, if one was.
run_eval_gate(baseline, current, tol, backend) ==
    IF backend # "" /\ (baseline.backend # backend \/ current.backend # backend)
    THEN [passed |-> FALSE, regressions |-> {}, flaky |-> {}, notes |-> {}]
    ELSE run_gate(backfill_legacy(baseline), backfill_legacy(current), tol)

-------------------------------------------------------------------------------
(* The ablation.                                                             *)

\* The steps of an IR, in order: each has its label and its tier.
enumerate_steps(ir) == FlattenSeq(ir)

\* Every step at the base tier, but for the one that is moved.
rebind_tiers(ir, base_tier, focus, focus_tier) ==
    [c \in DOMAIN ir |-> [l \in DOMAIN ir[c] |->
        [ir[c][l] EXCEPT !.tier = IF <<c, l>> = focus THEN focus_tier ELSE base_tier]]]

\* The candidates for a step: the baseline, and the points that bear its label.
CandidatesFor(label, base_tier, baseline, points) ==
    <<[tier |-> base_tier, accuracy |-> baseline.accuracy, cost |-> baseline.cost]>>
    \o MapSeq(Picked(points, {i \in DOMAIN points : points[i].step = label}),
              LAMBDA p : [tier |-> p.tier, accuracy |-> p.accuracy, cost |-> p.cost])

\* The first of the cheapest that hold the floor; of equal ones, a tier that is
\* not the base.
recommend(label, base_tier, baseline, points, tol) ==
    LET floor == baseline.accuracy - tol
        options == CandidatesFor(label, base_tier, baseline, points)
        q == Picked(options, {i \in DOMAIN options : options[i].accuracy >= floor})
        Better(a, b) == \/ a.cost < b.cost
                        \/ a.cost = b.cost /\ a.tier # base_tier /\ b.tier = base_tier
        best == {i \in DOMAIN q : \A j \in DOMAIN q : ~Better(q[j], q[i])}
    IN  IF q = <<>> THEN [tier |-> base_tier, accuracy |-> baseline.accuracy, cost |-> baseline.cost]
        ELSE q[Min(best)]

-------------------------------------------------------------------------------
(* The monitor: a run over clean data and one over data with an injection.   *)

Failed(why) == [ok |-> FALSE, fresh |-> "", severity |-> "", causes |-> {}, verified |-> FALSE,
                runner_pass |-> FALSE, why |-> why]

\* What the answer given most often says, of equals the one that sorts first.
observation(report, case_id) ==
    LET cases == report.configs[1].cases
        rows == Picked(cases, {i \in DOMAIN cases : cases[i].id = case_id})
        dist == rows[1].answer_dist
        top == {a \in DOMAIN dist : \A b \in DOMAIN dist : dist[b] <= dist[a]}
        e == (CHOOSE a \in top : \A b \in top : a.envelope.rank <= b.envelope.rank).envelope
    IN  IF Len(report.configs) # 1 THEN Failed("configs")
        ELSE IF rows = <<>> THEN Failed("no such case")
        ELSE IF ~rows[1].recorded \/ top = {} THEN Failed("not recorded")
        ELSE IF e.fresh = "" THEN Failed("no verdict")
        ELSE [ok |-> TRUE, fresh |-> e.fresh, severity |-> SeverityOf(e), causes |-> e.causes,
              verified |-> e.verified, runner_pass |-> rows[1].pass, why |-> ""]

\* At least half of what is expected, and something is.
cause_matches(causes, keywords) ==
    keywords # {} /\ 2 * Cardinality(causes \cap keywords) >= Cardinality(keywords)

score_monitor_pair(manifest, clean_report, injected_report) ==
    LET clean == observation(clean_report, manifest.id)
        injected == observation(injected_report, manifest.id)
        found == injected.fresh = "false"
        alarm == clean.fresh = "false"
        claims == (IF found THEN 1 ELSE 0) + (IF alarm THEN 1 ELSE 0)
    IN  IF ~manifest.supported \/ ~clean.ok \/ ~injected.ok
        THEN [ok |-> FALSE, passed |-> FALSE, recall |-> FALSE, precision |-> <<0, 0>>,
              false_alarm |-> FALSE, attributed |-> FALSE]
        ELSE [ok |-> TRUE, recall |-> found, false_alarm |-> alarm,
              precision |-> <<IF found THEN 1 ELSE 0, claims>>,
              attributed |-> found /\ cause_matches(injected.causes, manifest.keywords),
              passed |-> /\ clean.runner_pass /\ injected.runner_pass
                         /\ clean.verified /\ injected.verified /\ ~alarm /\ found
                         /\ manifest.severity \in {"", injected.severity}]
===============================================================================
