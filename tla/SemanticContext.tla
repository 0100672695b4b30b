---------------------------- MODULE SemanticContext ----------------------------
(***************************************************************************)
(* What the compiler may learn of the layer a profile is bound to           *)
(* (core/src/context.rs, core/src/raw_source.rs) and the predicates it       *)
(* evaluates over it (core/src/compile.rs).  A loader is what an adapter     *)
(* gives the compiler to probe; a document is a loader as a host wrote it    *)
(* down; a predicate passes, fails, or cannot be answered at all.            *)
(***************************************************************************)
EXTENDS Naturals, Sequences, SequencesExt

\* What is not given; a probe that is not there is "unknown".
NotGiven == ""
Additivities == {"additive", "semi_additive", "non_additive", NotGiven}
Sums == {"additive", "semi_additive"}

MetricInfo(name, declared, additivity) ==
    [name |-> name, declared |-> declared, additivity |-> additivity]
DimensionInfo(name, temporal) == [name |-> name, is_temporal |-> temporal]
ModelInfo(name, stamped) == [name |-> name, has_timestamp |-> stamped]
LineageGraph(nodes, edges) == [nodes |-> nodes, edges |-> edges]

is_resolvable(g) == \A e \in g.edges : e[1] \in g.nodes /\ e[2] \in g.nodes

\* What the owner of the layer says a change of a seed would hit.
NoAnalysis == [given |-> FALSE, impact |-> <<>>]
HostAnalysis(impact) == [given |-> TRUE, impact |-> impact]

-------------------------------------------------------------------------------
(* Loaders.                                                                  *)

Bare(kind, parseable) ==
    [kind |-> kind, parseable |-> parseable, metrics |-> <<>>, dimensions |-> <<>>,
     time_dimensions |-> <<>>, models |-> <<>>, lineage |-> LineageGraph({}, {}),
     source_introspectable |-> "unknown", raw_docs_readable |-> "unknown", analysis |-> NoAnalysis]

ExternalContext == Bare("external", TRUE)
NoContext == Bare("none", FALSE)

\* The time dimensions of a layer are the temporal ones of its dimensions.
Temporal(dimensions) == SelectSeq(dimensions, LAMBDA d : d.is_temporal)

Truth(b) == IF b THEN "yes" ELSE "no"

unparseable == Bare("raw", FALSE)
from_sources(raw) ==
    IF raw.schema = "broken" THEN unparseable
    ELSE [Bare("raw", TRUE) EXCEPT !.source_introspectable = Truth(raw.schema = "columns"),
                                   !.raw_docs_readable = Truth(raw.docs)]

PREPARED_CONTEXT_VERSION == 2

\* A document has no time dimensions of its own, and no list of what it answers.
prepared_document_from(l) ==
    [wellformed |-> TRUE, context_version |-> PREPARED_CONTEXT_VERSION, parseable |-> l.parseable,
     metrics |-> l.metrics, dimensions |-> l.dimensions, models |-> l.models, lineage |-> l.lineage,
     source_introspectable |-> l.source_introspectable, raw_docs_readable |-> l.raw_docs_readable,
     analysis |-> l.analysis]

NotRead == [ok |-> FALSE, context |-> NoContext]
from_json(doc) ==
    IF ~doc.wellformed \/ doc.context_version # PREPARED_CONTEXT_VERSION THEN NotRead
    ELSE [ok |-> TRUE,
          context |->
            [kind |-> "prepared", parseable |-> doc.parseable, metrics |-> doc.metrics,
             dimensions |-> doc.dimensions,
             time_dimensions |-> Temporal(doc.dimensions),
             models |-> doc.models, lineage |-> doc.lineage,
             source_introspectable |-> doc.source_introspectable,
             raw_docs_readable |-> doc.raw_docs_readable, analysis |-> doc.analysis]]

-------------------------------------------------------------------------------
(* Predicates.                                                               *)

Inspected == {"mdl_parseable", "wren_project_exists", "has_metric", "has_queryable_dimension",
              "has_time_dimension", "has_groupable_dimension", "model_has_timestamp",
              "lineage_resolvable"}
PRECONDITION_VOCABULARY ==
    Inspected \cup {"metric_additive", "source_introspectable", "raw_docs_readable"}

DeclaresAMetric(l) == \E i \in DOMAIN l.metrics : l.metrics[i].declared

can_answer(l, predicate) ==
    /\ l.kind \notin {"external", "none"}
    /\ \/ predicate \in Inspected
       \/ predicate = "metric_additive" /\ DeclaresAMetric(l)
       \/ predicate = "source_introspectable" /\ l.source_introspectable # "unknown"
       \/ predicate = "raw_docs_readable" /\ l.raw_docs_readable # "unknown"

was_introspected(l) == \E p \in PRECONDITION_VOCABULARY : can_answer(l, p)

\* The value of an argument: text, the text "$param:" with a name, or not a text.
Text(v) == [is |-> "text", v |-> v]
Reference(v) == [is |-> "reference", v |-> v]
NotAText == [is |-> "other", v |-> NotGiven]
IsText(value) == value.is \in {"text", "reference"}

\* The one argument that pins a predicate to a name.
selector(predicate) ==
    CASE predicate = "metric_additive" -> "metric"
      [] predicate = "model_has_timestamp" -> "model"
      [] OTHER -> NotGiven

\* The first entry of that name; a reference that was never resolved names nothing.
Named(s, value) ==
    IF value.is = "text" THEN SelectInSeq(s, LAMBDA e : e.name = value.v) ELSE 0

metric_additivity(l, value) ==
    IF Named(l.metrics, value) = 0 THEN NotGiven ELSE l.metrics[Named(l.metrics, value)].additivity

boolean_outcome(b) == IF b THEN "pass" ELSE "fail"
raw_shape(probe) == IF probe = "unknown" THEN "unanswerable" ELSE boolean_outcome(probe = "yes")

\* Mutant: a name that the layer does not declare is looked for anywhere.
AnyOfThem(args, l) ==
    boolean_outcome(\E i \in DOMAIN l.metrics : l.metrics[i].additivity \in Sums)

eval_metric_additive(args, l) ==
    IF "metric" \in DOMAIN args /\ IsText(args["metric"])
    THEN IF metric_additivity(l, args["metric"]) = NotGiven THEN "unanswerable"
         ELSE boolean_outcome(metric_additivity(l, args["metric"]) \in Sums)
    ELSE IF ~DeclaresAMetric(l) THEN "unanswerable" ELSE AnyOfThem(args, l)

eval_model_has_timestamp(args, l) ==
    IF "model" \in DOMAIN args /\ IsText(args["model"])
    THEN LET i == Named(l.models, args["model"])
         IN  IF i = 0 THEN "unanswerable" ELSE boolean_outcome(l.models[i].has_timestamp)
    ELSE boolean_outcome(\E i \in DOMAIN l.models : l.models[i].has_timestamp)

eval_predicate_uncensored(predicate, args, l) ==
    CASE predicate \in {"mdl_parseable", "wren_project_exists"} -> boolean_outcome(l.parseable)
      [] predicate = "has_metric" -> boolean_outcome(l.metrics # <<>>)
      [] predicate \in {"has_queryable_dimension", "has_groupable_dimension"} ->
            boolean_outcome(l.dimensions # <<>>)
      [] predicate = "has_time_dimension" -> boolean_outcome(l.time_dimensions # <<>>)
      [] predicate = "model_has_timestamp" -> eval_model_has_timestamp(args, l)
      [] predicate = "lineage_resolvable" -> boolean_outcome(is_resolvable(l.lineage))
      [] predicate = "metric_additive" -> eval_metric_additive(args, l)
      [] predicate = "source_introspectable" -> raw_shape(l.source_introspectable)
      [] predicate = "raw_docs_readable" -> raw_shape(l.raw_docs_readable)
      [] OTHER -> "unanswerable"

\* Mutant: nobody asks the adapter whether it can tell.
Unasked(predicate, args, l) == eval_predicate_uncensored(predicate, args, l)

\* An adapter that declines a predicate declines what evaluating it would have said.
eval_predicate(predicate, args, l) ==
    IF can_answer(l, predicate) THEN eval_predicate_uncensored(predicate, args, l)
    ELSE "unanswerable"

Precondition(predicate, args) == [predicate |-> predicate, args |-> args]

\* A host evaluates what the compiler resolved once more, over its own snapshot; it
\* refuses at the first condition that does not hold, in whatever order they come.
Verifies(condition, l) ==
    LET args == condition.args
    IN  /\ condition.predicate \in PRECONDITION_VOCABULARY
        /\ \A k \in DOMAIN args :
              /\ args[k].is # "reference"
              /\ k = selector(condition.predicate) => args[k].is = "text" /\ args[k].v # NotGiven
        /\ eval_predicate(condition.predicate, args, l) = "pass"

verify_context_preconditions(conditions, l) == \A c \in conditions : Verifies(c, l)

context_check(request) ==
    LET read == from_json(request.context)
    IN  request.version = 1 /\ read.ok /\ verify_context_preconditions(request.preconditions, read.context)
===============================================================================
