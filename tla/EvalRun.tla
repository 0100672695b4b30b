-------------------------------- MODULE EvalRun --------------------------------
(***************************************************************************)
(* `warble eval run` and `warble eval ablate` (eval/runner/src): the golden  *)
(* cases, several samples each, put to a dispatched agent by worker threads, *)
(* and the store of traces that answers for the agent when nothing it        *)
(* depends on has changed.  Runs follow one another over one project; the    *)
(* user edits it between and during them, and a run may be killed.           *)
(*                                                                          *)
(* What a file holds is a version number.  A hash is that number: two        *)
(* contents have the same hash only if they are the same content.            *)
(***************************************************************************)
EXTENDS Naturals, Sequences, FiniteSets, FiniteSetsExt

CONSTANTS
    Configs,        \* what a run may be asked for
    Workers,        \* the threads of run_indexed
    Cases,          \* the golden cases, 0 .. Cases-1
    Tables,         \* the tables an agent may answer with
    Verdicts,       \* the verdict envelopes it may answer with
    MaxRuns, MaxEdits, MaxKills     \* bounds

None == "none"

\* A turn limit is a number in the key, the label of a tier binding is "strong=...".
ASSUME RunAssumption ==
    /\ Cases \in Nat \ {0} /\ Workers # {} /\ Tables \cap Verdicts = {}
    /\ \A c \in Configs : c.samples \in Nat
    /\ \A c, d \in Configs : c.maxTurns # None => c.maxTurns # d.tiers

Backends == {"claude-code-cli", "claude-agent-sdk", "codex-local", "vercel"}
DefaultBackend == "claude-code-cli"

VARIABLES
    project,    \* what the files hold: the versions of mdl, artifact, ir and
                \* question, and the expectation
    dotClaude,  \* the project's .claude: the agent and the settings in it
    cache,      \* the traces on disk, by the canonical key
    phase,      \* idle, asked, keyed, running
    cfg,        \* what the run was asked for
    golden,     \* the question and the expectation it has read
    keyed,      \* the hashes it has computed, and whether the store is enabled
    installed,  \* whether the drop guard of an install is alive
    pass,       \* the bindings, or the points of an ablation, done before this one
    next,       \* the shared counter of run_indexed
    work,       \* work[w]: what a worker is doing
    slots,      \* slots[j]: the outcome of job j
    reports,    \* what the last run has reported: its passes
    edited,     \* whether the project has changed since the run computed its keys
    bounds      \* runs, edits and kills so far

runVars == <<project, dotClaude, cache, phase, cfg, golden, keyed, installed, pass, next,
             work, slots, reports, edited, bounds>>

Jobs == 0 .. Cases * cfg.samples - 1
CaseOf(j) == j \div cfg.samples
SampleOf(j) == j % cfg.samples

RunConfig(kind, backend, noCache, maxTurns, tiers, given, models, samples) ==
    [kind |-> kind, backend |-> backend, noCache |-> noCache, maxTurns |-> maxTurns, tiers |-> tiers,
     given |-> given, models |-> models, samples |-> samples]

Answers == Tables \cup Verdicts
SameKind(a, b) == a \in Tables <=> b \in Tables

NoAgent == <<"none", 0, 0>>
Clean == [agent |-> NoAgent, settings |-> NoAgent]
Nothing == [case |-> 0]
Idle == [at |-> "idle", job |-> 0, answer |-> None, under |-> Nothing]

-------------------------------------------------------------------------------
(* What is refused before anything is spent.                                 *)

validate_max_turns_backend(c) == c.maxTurns # None => c.backend = "claude-agent-sdk"
validate_tier_binding_backend(c) == c.tiers # None => c.backend = "claude-agent-sdk"

\* vercel has no adapter; an ablation re-dispatches by the emitter of one backend.
resolve_adapter(c) ==
    /\ c.backend # "vercel"
    /\ c.kind = "ablate" => c.backend = DefaultBackend

\* Which of the two artifacts the backend is pointed at.
ArtifactPath(c) == IF c.kind = "run" /\ c.backend = DefaultBackend THEN "agent dir" ELSE "ir"

Accepts(c) ==
    /\ resolve_adapter(c) /\ validate_max_turns_backend(c) /\ validate_tier_binding_backend(c)
    /\ c.given = ArtifactPath(c)

Start(c) ==
    /\ phase = "idle" /\ bounds.runs < MaxRuns
    /\ bounds' = [bounds EXCEPT !.runs = @ + 1]
    /\ cfg' = c /\ golden' = [question |-> project.question, expected |-> project.expected]
    /\ phase' = IF Accepts(c) THEN "asked" ELSE "idle"
    /\ reports' = <<>>
    /\ UNCHANGED <<project, dotClaude, cache, keyed, installed, pass, next, work, slots, edited>>

-------------------------------------------------------------------------------
(* The key.                                                                  *)

\* The agent that pass p of the run measures: an agent directory, the file that
\* --ir names (for codex-local one that names the IR in turn), or what the
\* emitter makes of the IR with the tiers of that point.
Artifact(p) ==
    IF cfg.kind = "ablate" THEN <<"emitted", keyed.ir, p>> ELSE <<"given", project.artifact, 0>>

\* build_store and the hash of the artifact; what cannot be hashed disables the store.
Key(hashable) ==
    /\ phase = "asked"
    /\ keyed' = [context |-> project.mdl, artifact |-> project.artifact, ir |-> project.ir,
                 enabled |-> ~cfg.noCache /\ hashable]
    /\ phase' = "keyed" /\ pass' = 0 /\ edited' = FALSE
    /\ UNCHANGED <<project, dotClaude, cache, cfg, golden, installed, next, work, slots, reports,
                   bounds>>

AgentSha == IF cfg.kind = "ablate" THEN <<"emitted", keyed.ir, pass>>
            ELSE <<"given", keyed.artifact, 0>>

\* The IR beside the artifact that the hash covers: what an ablation emits its agent
\* from.  An agent directory needs none, and for the SDK the artifact is the IR.
KeyedIr == IF cfg.kind = "ablate" THEN keyed.ir ELSE 0

\* The binding of a pass: a model of the sweep, the one tier binding, or the
\* sentinel of an ablation.
Binding == IF cfg.tiers # None THEN cfg.tiers
           ELSE IF cfg.kind = "ablate" THEN "frontmatter" ELSE cfg.models[pass + 1]

Passes == IF cfg.tiers # None THEN 1 ELSE Len(cfg.models)

KeyWithoutLimits(j) == <<CaseOf(j), golden.question, AgentSha, Binding, keyed.context, SampleOf(j)>>

canonical(j) ==
    << CaseOf(j), golden.question, AgentSha, Binding, keyed.context, SampleOf(j),
       (IF cfg.backend = DefaultBackend THEN <<>> ELSE <<cfg.backend>>)
       \o (IF cfg.maxTurns = None THEN <<>> ELSE <<cfg.maxTurns>>)
       \o (IF cfg.tiers = None THEN <<>> ELSE <<cfg.tiers>>) >>

-------------------------------------------------------------------------------
(* The install.  The guard that removes the files exists once install_agents *)
(* has returned; a copy that fails before that leaves what it has copied.     *)

NeedsInstall == cfg.backend = DefaultBackend

install_agents ==
    /\ phase = "keyed" /\ NeedsInstall
    /\ dotClaude' = [agent |-> Artifact(pass), settings |-> Artifact(pass)]
    /\ installed' = TRUE /\ phase' = "running"
    /\ next' = 0 /\ slots' = [j \in Jobs |-> {}]
    /\ UNCHANGED <<project, cache, cfg, golden, keyed, pass, work, reports, edited, bounds>>

InstallFails ==
    /\ phase = "keyed" /\ NeedsInstall
    /\ dotClaude' = [dotClaude EXCEPT !.agent = Artifact(pass)]
    /\ phase' = "idle" /\ reports' = <<>>
    /\ UNCHANGED <<project, cache, cfg, golden, keyed, installed, pass, next, work, slots, edited,
                   bounds>>

\* Later bindings of a sweep use the files that are there.
BeginPass ==
    /\ phase = "keyed" /\ ~NeedsInstall
    /\ phase' = "running"
    /\ next' = 0 /\ slots' = [j \in Jobs |-> {}]
    /\ UNCHANGED <<project, dotClaude, cache, cfg, golden, keyed, installed, pass, work, reports,
                   edited, bounds>>

-------------------------------------------------------------------------------
(* The workers.                                                              *)

Claim(w) ==
    /\ phase = "running" /\ work[w].at = "idle"
    /\ next \in Jobs
    /\ work' = [work EXCEPT ![w] = [Idle EXCEPT !.at = "loading", !.job = next]]
    /\ next' = next + 1
    /\ UNCHANGED <<project, dotClaude, cache, phase, cfg, golden, keyed, installed, pass, slots,
                   reports, edited, bounds>>

Outcome(j, answer, hit, under) ==
    [job |-> j, answer |-> answer, pass |-> answer = golden.expected, hit |-> hit, under |-> under]

Fill(w, outcome) ==
    /\ slots' = [slots EXCEPT ![work[w].job] = {outcome}]
    /\ work' = [work EXCEPT ![w] = Idle]

\* A missing entry and a torn one are the same to the reader, and so is one that
\* the kind of the case can no longer be read from.
LoadHits(j) ==
    /\ keyed.enabled /\ canonical(j) \in DOMAIN cache
    /\ ~cache[canonical(j)].torn
    /\ SameKind(cache[canonical(j)].answer, golden.expected)

Load(w) ==
    LET j == work[w].job
    IN  /\ phase = "running" /\ work[w].at = "loading"
        /\ IF LoadHits(j)
           THEN Fill(w, Outcome(j, cache[canonical(j)].answer, TRUE, cache[canonical(j)].under))
           ELSE work' = [work EXCEPT ![w].at = "invoking"] /\ UNCHANGED slots
        /\ UNCHANGED <<project, dotClaude, cache, phase, cfg, golden, keyed, installed, pass, next,
                       reports, edited, bounds>>

\* What an invocation measures: the question of its case put to the agent that
\* is there, over the project as it is, under this binding and these limits.
Measured(j) ==
    [case |-> CaseOf(j), sample |-> SampleOf(j), question |-> golden.question, binding |-> Binding, backend |-> cfg.backend,
     maxTurns |-> cfg.maxTurns, context |-> project.mdl,
     agent |-> IF NeedsInstall THEN dotClaude.agent ELSE Artifact(pass),
     settings |-> IF NeedsInstall THEN dotClaude.settings ELSE Artifact(pass),
     ir |-> IF cfg.backend = "codex-local" THEN project.ir ELSE KeyedIr,
     edited |-> edited]

\* An answer that can be scored goes on to be stored; a failed invocation and an
\* answer nothing can be extracted from are outcomes that are not.
Invoke(w, answer) ==
    LET j == work[w].job
    IN  /\ phase = "running" /\ work[w].at = "invoking"
        /\ IF answer = None \/ ~SameKind(answer, golden.expected)
           THEN Fill(w, Outcome(j, None, FALSE, Measured(j)))
           ELSE /\ work' = [work EXCEPT ![w] = [at |-> "storing", job |-> j, answer |-> answer,
                                                under |-> Measured(j)]]
                /\ UNCHANGED slots
        /\ UNCHANGED <<project, dotClaude, cache, phase, cfg, golden, keyed, installed, pass, next,
                       reports, edited, bounds>>

Entry(w, torn) == [torn |-> torn, answer |-> work[w].answer, under |-> work[w].under]

Put(j, entry) ==
    [k \in DOMAIN cache \cup {canonical(j)} |-> IF k = canonical(j) THEN entry ELSE cache[k]]

\* A trace that cannot be written is a note, not a failure.
Store(w, written) ==
    LET j == work[w].job
    IN  /\ phase = "running" /\ work[w].at = "storing"
        /\ cache' = IF keyed.enabled /\ written THEN Put(j, Entry(w, FALSE)) ELSE cache
        /\ Fill(w, Outcome(j, work[w].answer, FALSE, work[w].under))
        /\ UNCHANGED <<project, dotClaude, phase, cfg, golden, keyed, installed, pass, next, reports,
                       edited, bounds>>

-------------------------------------------------------------------------------
(* The end of a pass and of a run.                                           *)

\* What a run counts of one binding.
Tally ==
    [binding |-> Binding, n |-> Cardinality(Jobs), slots |-> slots,
     passes |-> Quantify(Jobs, LAMBDA j : \A o \in slots[j] : o.pass),
     hits |-> Quantify(Jobs, LAMBDA j : \A o \in slots[j] : o.hit),
     misses |-> Quantify(Jobs, LAMBDA j : \A o \in slots[j] : ~o.hit)]

LastClaimed == phase = "running" /\ next \notin Jobs

PassDone == phase = "running" /\ next \notin Jobs /\ \A w \in Workers : work[w] = Idle

\* The guard removes what the install has put there, and what was there before it.
Dropped == IF installed THEN Clean ELSE dotClaude

\* An ablation installs every point anew.
NextPass ==
    /\ PassDone /\ pass + 1 < Passes
    /\ reports' = Append(reports, Tally) /\ pass' = pass + 1
    /\ next' = 0 /\ slots' = [j \in Jobs |-> {}]
    /\ IF cfg.kind = "ablate"
       THEN phase' = "keyed" /\ dotClaude' = Dropped /\ installed' = FALSE
       ELSE UNCHANGED <<phase, dotClaude, installed>>
    /\ UNCHANGED <<project, cache, cfg, golden, keyed, work, edited, bounds>>

\* An ablation stops at a pass that nothing was installed for, or whose cost the
\* backend did not report.
PassFails ==
    /\ cfg.kind = "ablate"
    /\ phase = "keyed" \/ PassDone
    /\ phase' = "idle" /\ reports' = <<>> /\ dotClaude' = Dropped /\ installed' = FALSE
    /\ UNCHANGED <<project, cache, cfg, golden, keyed, pass, next, work, slots, edited, bounds>>

Finish ==
    /\ PassDone /\ pass + 1 = Passes
    /\ reports' = Append(reports, Tally)
    /\ phase' = "idle" /\ dotClaude' = Dropped /\ installed' = FALSE
    /\ UNCHANGED <<project, cache, cfg, golden, keyed, pass, next, work, slots, edited, bounds>>

-------------------------------------------------------------------------------
(* What happens to a run.                                                    *)

Edit(file) ==
    /\ bounds.edits < MaxEdits
    /\ bounds' = [bounds EXCEPT !.edits = @ + 1]
    /\ IF file = "expected"
       THEN \E a \in Answers \ {project.expected} : project' = [project EXCEPT !.expected = a]
       ELSE project' = [project EXCEPT ![file] = @ + 1]
    /\ edited' = TRUE
    /\ UNCHANGED <<dotClaude, cache, phase, cfg, golden, keyed, installed, pass, next, work, slots,
                   reports>>

\* A kill runs no guard, and tears a trace that is being written.
Kill ==
    /\ phase # "idle" /\ bounds.kills < MaxKills
    /\ bounds' = [bounds EXCEPT !.kills = @ + 1]
    /\ \E T \in SUBSET {w \in Workers : work[w].at = "storing"} :
          /\ Cardinality(T) <= 1 /\ (T # {} => keyed.enabled)
          /\ cache' = IF T = {} THEN cache
                      ELSE LET w == CHOOSE w \in T : TRUE IN Put(work[w].job, Entry(w, TRUE))
    /\ phase' = "idle" /\ installed' = FALSE /\ reports' = <<>>
    /\ work' = [w \in Workers |-> Idle]
    /\ UNCHANGED <<project, dotClaude, cfg, golden, keyed, pass, next, slots, edited>>

-------------------------------------------------------------------------------

NoConfig == RunConfig("run", DefaultBackend, FALSE, None, None, "agent dir", <<"m">>, 1)

RunInit ==
    /\ \E a \in Tables : project = [mdl |-> 1, artifact |-> 1, ir |-> 1, question |-> 1,
                                     expected |-> a]
    /\ dotClaude = Clean
    /\ cache = <<>>
    /\ phase = "idle" /\ cfg = NoConfig
    /\ golden = [question |-> 0, expected |-> None]
    /\ keyed = [context |-> 0, artifact |-> 0, ir |-> 0, enabled |-> FALSE]
    /\ installed = FALSE /\ pass = 0 /\ next = 0
    /\ work = [w \in Workers |-> Idle]
    /\ slots = <<>> /\ reports = <<>> /\ edited = FALSE
    /\ bounds = [runs |-> 0, edits |-> 0, kills |-> 0]

WorkerStep(w) ==
    \/ Claim(w)
    \/ Load(w)
    \/ \E a \in Answers \cup {None} : Invoke(w, a)
    \/ \E written \in BOOLEAN : Store(w, written)

RunNext ==
    \/ \E c \in Configs : Start(c)
    \/ \E hashable \in BOOLEAN : Key(hashable)
    \/ install_agents \/ InstallFails \/ BeginPass
    \/ \E w \in Workers : WorkerStep(w)
    \/ NextPass \/ PassFails \/ Finish
    \/ \E file \in {"mdl", "artifact", "ir", "question", "expected"} : Edit(file)
    \/ Kill

-------------------------------------------------------------------------------

Filled == {j \in DOMAIN slots : slots[j] # {}}

\* "The inputs that determine a case's result.  Everything here is in the cache key"
\* (cache.rs:80): an outcome that was replayed is a measurement of that very case,
\* question and sample, under this binding, backend and turn limit, of the IR that
\* was emitted, of the agent and of the context that this run has hashed -- the last
\* two unless the run that measured it had its project edited under it.  What is
\* exempt is the IR of codex-local: only the dispatch spec that names it is hashed,
\* so that an answer of the IR as it was before an edit is replayed.
ReplayIsItsOwn ==
    phase = "running" => \A j \in Filled : \A o \in slots[j] :
        o.hit =>
            LET u == o.under
            IN  /\ u.case = CaseOf(j) /\ u.sample = SampleOf(j) /\ u.question = golden.question
                /\ u.binding = Binding /\ u.backend = cfg.backend /\ u.maxTurns = cfg.maxTurns
                /\ cfg.backend # "codex-local" => u.ir = KeyedIr
                /\ ~u.edited => u.context = keyed.context /\ u.agent = AgentSha

\* Whatever order the workers finish in, and whatever was replayed, a run reports
\* every job of every binding in its own place, judged by the expectation the
\* golden file had when the run began, and its hits and misses add up.
ReportIsWhole ==
    \A p \in DOMAIN reports :
        LET r == reports[p]
        IN  /\ r.hits + r.misses = r.n
            /\ \A j \in DOMAIN r.slots :
                  \E o \in r.slots[j] : o.job = j /\ (o.pass <=> o.answer = golden.expected)

\* What answers is the agent this run has installed, under its own settings,
\* whatever an earlier run that was killed has left in the project.
AnsweredByItsAgent ==
    NeedsInstall /\ phase = "running" /\ ~edited =>
        \A j \in Filled : \A o \in slots[j] :
            ~o.hit => o.under.agent = AgentSha /\ o.under.settings = AgentSha

\* A run reports what it did itself, all of it.
RunIsItsOwn == ReportIsWhole /\ AnsweredByItsAgent
===============================================================================
