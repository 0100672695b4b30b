-------------------------------- MODULE EvalCli --------------------------------
(***************************************************************************)
(* `warble eval <subcommand>` (cli/src/main.rs): one process runs one        *)
(* subcommand.  Most of them read their input and give their verdict, which  *)
(* is one step here; `compliance`, `verify-context` and `run` are the        *)
(* machines of Compliance, EvalContext and EvalRun.                          *)
(***************************************************************************)
EXTENDS EvalVerdicts, EvalBackends, Compliance, EvalContext, EvalRun

CONSTANTS
    CompareAsked,   \* requests of `eval compare`
    ReportAsked,    \* cases with the invocations of their samples
    GateAsked,      \* pairs of reports
    SelectAsked,    \* filters over golden cases
    AblateAsked,    \* measured points of an ablation
    MonitorAsked,   \* pairs of monitor runs
    BindingAsked    \* model flags, a backend and what it finds

ASSUME CompareAssumption ==
    \A a \in CompareAsked : /\ a.mode \in MatchModes /\ a.tol \in Int /\ a.readable \in BOOLEAN
                           /\ a.expected \in Seq(Seq(Cells)) /\ a.actual \in Seq(Seq(Cells))

ASSUME ReportAssumption ==
    \A a \in ReportAsked : /\ a.cases \in Seq(ToSet(a.cases)) /\ a.cases # <<>>
                          /\ a.samples \in Nat \ {0} /\ a.explicit \in BOOLEAN
                          /\ \A i \in DOMAIN a.cases : IsSampled(a.cases[i], a.samples)

ASSUME GateAssumption ==
    \A a \in GateAsked : a.tol \in Int /\ IsReport(a.baseline) /\ IsReport(a.current)

ASSUME SelectAssumption ==
    \A a \in SelectAsked : /\ a.cases \in Seq(ToSet(a.cases)) /\ a.sample.n \in Int
                          /\ \A i \in DOMAIN a.cases : a.cases[i].id = i

ASSUME AblateAssumption ==
    \A a \in AblateAsked :
        /\ a.ir \in Seq(Seq([label : STRING, tier : STRING])) /\ a.sweep \in Seq(ToSet(a.sweep))
        /\ a.tol \in Int /\ a.baseline.cost \in Nat /\ a.baseline.accuracy \in Int
        /\ \A s \in DOMAIN enumerate_steps(a.ir), t \in ToSet(a.sweep) \ {a.base_tier} :
               a.measured[<<s, t>>].cost \in Nat /\ a.measured[<<s, t>>].accuracy \in Int

ASSUME MonitorAssumption ==
    \A a \in MonitorAsked : \A run \in {a.clean, a.injected} :
        /\ run.cases \in Seq(ToSet(run.cases))
        /\ \A i \in DOMAIN run.cases : run.cases[i].samples \in Seq(ToSet(run.cases[i].samples))

ASSUME BindingAssumption ==
    \A a \in BindingAsked : /\ a.flags = [t \in Tiers |-> a.flags[t]] /\ a.backend \in Backends
                           /\ a.file.given \in BOOLEAN /\ {"columns", "rows"} \subseteq DOMAIN a.process.out

VARIABLES cmd, asked, answered, verdict

cliVars == <<cmd, asked, answered, verdict>>

PureInput ==
    \/ cmd = "compare" /\ asked \in CompareAsked
    \/ cmd = "report" /\ asked \in ReportAsked
    \/ cmd = "gate" /\ asked \in GateAsked
    \/ cmd = "select" /\ asked \in SelectAsked
    \/ cmd = "ablate" /\ asked \in AblateAsked
    \/ cmd = "monitor" /\ asked \in MonitorAsked
    \/ cmd = "binding" /\ asked \in BindingAsked

Machines == {"compliance", "context", "run"}

EvalInit ==
    /\ answered = FALSE /\ verdict = <<>>
    /\ \/ PureInput
       \/ cmd \in Machines /\ asked = <<>>
    /\ IF cmd = "compliance" THEN ComplianceInit ELSE ComplianceIdle
    /\ IF cmd = "context" THEN ContextInit ELSE ContextIdle
    /\ RunInit

-------------------------------------------------------------------------------
(* The commands that read and answer.                                        *)

\* The report of one binding: every case with its samples, in golden order.
ReportOf(a) ==
    LET record == effective_record_answers(a.explicit, a.samples)
        row(c) == fold_samples(c.case, MapSeq(c.samples,
                      LAMBDA inv : SampleOutcome(inv, c.case, record)), record)
    IN  aggregate(a.model, MapSeq(a.cases, row))

FullReport(a) ==
    [configs |-> <<ReportOf(a)>>, backend |-> DefaultBackend,
     selected_cases |-> Len(a.cases), total_cases |-> a.total]

\* A swept step is moved in the IR, the point measured there bears its label, and
\* the base tier is not swept again.
run_ablation(a) ==
    LET steps == enumerate_steps(a.ir)
        points == FlattenSeq([s \in DOMAIN steps |->
                      MapSeq(Picked(a.sweep, {i \in DOMAIN a.sweep : a.sweep[i] # a.base_tier}),
                             LAMBDA t : [step |-> steps[s].label, tier |-> t,
                                         accuracy |-> a.measured[<<s, t>>].accuracy,
                                         cost |-> a.measured[<<s, t>>].cost])])
    IN  [s \in DOMAIN steps |->
            recommend(steps[s].label, a.base_tier, a.baseline, points, a.tol)]

VerdictOn(a) ==
    CASE cmd = "compare" -> run_eval_compare(a)
      [] cmd = "report" -> format_pareto(FullReport(a))
      [] cmd = "gate" -> run_eval_gate(a.baseline, a.current, a.tol, a.backend)
      [] cmd = "select" -> select_and_subset(a.cases, from_flags(a.tags, a.sample))
      [] cmd = "ablate" -> run_ablation(a)
      [] cmd = "monitor" ->
             score_monitor_pair(a.manifest, FullReport(a.clean), FullReport(a.injected))
      [] cmd = "binding" ->
             IF Honourable(a)
             THEN [p \in DOMAIN model_overrides(a) |->
                      LET args == InvocationArgs(a, model_overrides(a)[p])
                      IN  [args |-> args, result |-> AdapterResult(a, args, a.process)]]
             ELSE <<>>

Answer ==
    /\ cmd \notin Machines /\ ~answered
    /\ answered' = TRUE /\ verdict' = VerdictOn(asked)
    /\ UNCHANGED <<cmd, asked, complianceVars, contextVars, runVars>>

EvalNext ==
    \/ Answer
    \/ cmd = "compliance" /\ ComplianceNext /\ UNCHANGED <<cliVars, contextVars, runVars>>
    \/ cmd = "context" /\ ContextNext /\ UNCHANGED <<cliVars, complianceVars, runVars>>
    \/ cmd = "run" /\ RunNext /\ UNCHANGED <<cliVars, complianceVars, contextVars>>

EvalSpec == EvalInit /\ [][EvalNext]_<<cliVars, complianceVars, contextVars, runVars>>

-------------------------------------------------------------------------------

Gave(command) == answered /\ cmd = command

\* `eval compare`: what passes is the expected answer, cell for cell within the
\* tolerance, although it is found by rounding to a grid and comparing multisets.
\* Two numbers further apart pass in one case only: one of them has no place on the
\* grid, since it is not a number or its place is beyond the ends of an i64 (from
\* 9.2e9 up where no tolerance is given), and the other is given the same place.
PassIsWithinTolerance ==
    Gave("compare") /\ verdict =>
        TablesAgree(asked.mode, asked.tol, asked.expected, asked.actual)

\* `eval run`: what the printed report claims is true of the single invocations:
\* which case flipped its verdict, whose answers differed or were missing, which
\* runs made no call at all, and that a cost is the sum of the costs or is left out.
ReportTellsTheTruth ==
    Gave("report") =>
        LET report == ReportOf(asked)
            outcomes(c) == MapSeq(c.samples, LAMBDA inv : SampleOutcome(inv, c.case, TRUE))
            all == FlattenSeq(MapSeq(asked.cases, LAMBDA c : c.samples))
            passes(c) == {outcomes(c)[i].pass : i \in DOMAIN c.samples}
            answers(c) == {outcomes(c)[i].answers : i \in DOMAIN c.samples}
            named(id) == {c \in ToSet(asked.cases) : c.case.id = id}
            shown(id) == {u \in verdict.unstable : u.id = id}
        IN  /\ \A id \in {c.case.id : c \in ToSet(asked.cases)} :
                  /\ (\E c \in named(id) : passes(c) = BOOLEAN) <=> \E u \in shown(id) : u.flaky
                  /\ asked.samples > 1 =>
                        (shown(id) = {} <=> \A c \in named(id) :
                                                {} \notin answers(c) /\ Cardinality(answers(c)) = 1)
            /\ (\A i \in DOMAIN all : all[i].hit) <=> \E e \in verdict.cached : e.rescore_only
            /\ report.cache_hits + report.cache_misses = Len(all)
            /\ verdict.no_cost = {} =>
                  /\ \A i \in DOMAIN all : all[i].ok /\ all[i].cost # Absent
                  /\ report.cost_total_usd = Sum(MapSeq(all, LAMBDA inv : inv.cost))

\* `eval gate`: it fails exactly if the backends differ or some case that the
\* baseline could pass cannot be passed any more, or is gone, under a binding that
\* both have -- whatever the tolerance, the tags and the age of the reports.  Of
\* bindings of one name the candidate's first counts, of results of one case its last.
GateIsExact ==
    Gave("gate") /\ asked.backend = "" /\ asked.tol >= 0 =>
        (verdict.passed <=>
            /\ asked.baseline.backend = asked.current.backend
            /\ \A i \in DOMAIN asked.baseline.configs, j \in DOMAIN asked.current.configs :
                  LET b == asked.baseline.configs[i]
                      c == asked.current.configs[j]
                  IN  /\ c.model = b.model
                      /\ \A h \in 1 .. j - 1 : asked.current.configs[h].model # b.model
                      => \A k \in DOMAIN b.cases : CanPass(b.cases[k]) =>
                             \E l \in DOMAIN c.cases :
                                 /\ c.cases[l].id = b.cases[k].id /\ CanPass(c.cases[l])
                                 /\ \A m \in DOMAIN c.cases : m > l => c.cases[m].id # b.cases[k].id)

\* What a cheaper run may conclude.  A sample keeps the order of the golden file
\* and takes no case twice, and one per tag leaves no tag with less than it asked
\* for or all it has; a recommended tier was measured to hold the floor at no more
\* than the baseline's cost, and none that was measured to hold it is cheaper; and a
\* monitor passes only if every sample of the clean run said fresh and every sample
\* of the injected one said it was not, whatever else the two runs hold.
SamplesAreFair ==
    Gave("select") /\ verdict.ok =>
        LET filter == from_flags(asked.tags, asked.sample)
            pool == Picked(asked.cases, {i \in DOMAIN asked.cases :
                                asked.tags = {} \/ asked.cases[i].tags \cap asked.tags # {}})
        IN  /\ \A i, j \in DOMAIN verdict.cases : i < j => verdict.cases[i].id < verdict.cases[j].id
            /\ ToSet(verdict.cases) \subseteq ToSet(pool)
            /\ filter.sample.is = "count" => Len(verdict.cases) = Min({filter.sample.n, Len(pool)})
            /\ filter.sample.is = "per-tag" =>
                  \A t \in UNION {Buckets(c) : c \in ToSet(pool)} :
                      Had(verdict.cases, t) >= Min({filter.sample.n, Had(pool, t)})

DowngradesHoldTheFloor ==
    Gave("ablate") /\ asked.tol >= 0 =>
        LET steps == enumerate_steps(asked.ir)
            \* What was measured of the steps that bear the label of step s.
            PointsOf(s, t) == {asked.measured[<<u, t>>] : u \in {v \in DOMAIN steps : steps[v].label = steps[s].label}}
            Holds(m) == m.accuracy >= asked.baseline.accuracy - asked.tol
        IN  \A s \in DOMAIN verdict :
                /\ verdict[s].cost <= asked.baseline.cost
                /\ verdict[s].tier # asked.base_tier =>
                      \E m \in PointsOf(s, verdict[s].tier) : Holds(m) /\ m.cost = verdict[s].cost
                /\ \A t \in ToSet(asked.sweep) \ {asked.base_tier} : \A m \in PointsOf(s, t) :
                      Holds(m) => verdict[s].cost <= m.cost

AllSay(run, id, fresh) ==
    \A i \in DOMAIN run.cases :
        /\ run.cases[i].case.id = id /\ \A h \in 1 .. i - 1 : run.cases[h].case.id # id
        /\ run.cases[i].case.kind = "verdict" /\ run.cases[i].case.field = "fresh"
        /\ run.cases[i].case.expected.field = fresh
        => \A k \in DOMAIN run.cases[i].samples :
               extract_verdict_json(run.cases[i].samples[k].text).envelope.fresh = fresh

CheaperRunsAreSound ==
    /\ SamplesAreFair
    /\ DowngradesHoldTheFloor
    /\ Gave("monitor") /\ verdict.passed =>
          AllSay(asked.clean, asked.manifest.id, "true") /\ AllSay(asked.injected, asked.manifest.id, "false")

\* The verdicts a release is decided by.
VerdictsAreEarned == GateIsExact /\ CheaperRunsAreSound

\* `eval run`: a binding that is not refused reaches the backend as it was given:
\* all three tiers, or the one model in every slot, or nothing at all for the
\* models that are in the agent, with the turn limit and the installed settings;
\* and of the rows that come back no cell is moved to another column.
BindingIsHonoured ==
    Gave("binding") =>
        \A p \in DOMAIN verdict :
            LET args == verdict[p].args
                given == IF asked.file.given THEN asked.file.tiers ELSE asked.flags
                sent == asked.process.out
                back == verdict[p].result.out
            IN  args.ok =>
                  /\ back.columns = sent.columns
                  /\ \A i \in DOMAIN sent.rows :
                        \/ back.rows[i].is = sent.rows[i].is /\ back.rows[i] = sent.rows[i]
                        \/ /\ back.rows[i].is = "array"
                           /\ \A c \in DOMAIN sent.columns :
                                  back.rows[i].cells[c] = sent.rows[i].cells[sent.columns[c]]
                  /\ args.maxTurns = asked.maxTurns
                  /\ asked.settings = "there" /\ asked.backend = DefaultBackend => args.settings
                  /\ IF asked.file.given \/ asked.flags # NoTiers
                     THEN args.tiers = given /\ NotGiven \notin {given[t] : t \in Tiers}
                     ELSE args.tiers = IF asked.models[p] = FRONTMATTER_MODEL THEN NoTiers
                                       ELSE AllTiers(asked.models[p])
===============================================================================
