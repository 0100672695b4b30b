----------------------------- MODULE EvalBackends -----------------------------
(***************************************************************************)
(* How a binding of models reaches a backend (cli/src/main.rs,               *)
(* eval/runner/src/lib.rs and backend.rs): the flags are resolved, what the  *)
(* backend cannot honour is refused, and for every pass the adapter builds   *)
(* the command line of one invocation and reads back what came of it.        *)
(***************************************************************************)
EXTENDS Naturals, Sequences, SequencesExt

\* An option that was not given.
NotGiven == ""
FRONTMATTER_MODEL == "frontmatter"
Tiers == {"strong", "cheap", "orchestrator"}
NoTiers == [t \in Tiers |-> NotGiven]
AllTiers(model) == [t \in Tiers |-> model]

-------------------------------------------------------------------------------
(* The request.                                                              *)

\* A models file wins over the three flags, and those come all or none.
resolve_tier_models(asked) ==
    LET given == {t \in Tiers : asked.flags[t] # NotGiven}
    IN  CASE asked.file.given -> [ok |-> TRUE, some |-> TRUE, tiers |-> asked.file.tiers]
          [] ~asked.file.given /\ given \in {{}, Tiers} ->
                 [ok |-> TRUE, some |-> given = Tiers, tiers |-> asked.flags]
          [] OTHER -> [ok |-> FALSE, some |-> FALSE, tiers |-> NoTiers]

\* Before anything is spent: only claude-agent-sdk has a turn limit and tiers, and
\* a binding by tiers names all three.
Honourable(asked) ==
    LET binding == resolve_tier_models(asked)
    IN  /\ binding.ok /\ asked.backend # "vercel"
        /\ asked.maxTurns # NotGiven \/ binding.some => asked.backend = "claude-agent-sdk"
        /\ binding.some => \A t \in Tiers : binding.tiers[t] # NotGiven

EveryModelGiven(asked) ==
    [i \in DOMAIN asked.models |-> [is |-> "flat", tiers |-> AllTiers(asked.models[i])]]

\* The passes of a run: the one binding by tiers, or a model after the other.
model_overrides(asked) ==
    IF resolve_tier_models(asked).some
    THEN <<[is |-> "tiered", tiers |-> resolve_tier_models(asked).tiers]>>
    ELSE [i \in DOMAIN asked.models |->
             IF asked.models[i] = FRONTMATTER_MODEL THEN [is |-> "none", tiers |-> NoTiers]
             ELSE [is |-> "flat", tiers |-> AllTiers(asked.models[i])]]

-------------------------------------------------------------------------------
(* The command lines.                                                        *)

Args(tiers, maxTurns, settings, steps) ==
    [ok |-> TRUE, tiers |-> tiers, maxTurns |-> maxTurns, settings |-> settings, steps |-> steps]
NotStarted == [ok |-> FALSE, tiers |-> NoTiers, maxTurns |-> NotGiven, settings |-> FALSE, steps |-> {}]

\* One model for everything; the settings go along if they are there, and a run
\* whose settings cannot be read does not start.
ClaudeCodeCliArgs(asked, override) ==
    IF override.is = "tiered" \/ asked.settings = "unreadable" THEN NotStarted
    ELSE Args(override.tiers, NotGiven, asked.settings = "there", {})

build_claude_agent_sdk_dispatch_args(asked, override) ==
    Args(override.tiers, asked.maxTurns, FALSE, {})

build_setup_dispatch_args(spec, override) ==
    Args(override.tiers, NotGiven, FALSE, spec.requireTool)

\* Its command line has three slots to fill, so it cannot go without a model.
build_ask_dispatch_args(spec, override) ==
    IF override.is = "none" THEN NotStarted
    ELSE Args(override.tiers, NotGiven, FALSE, {"generate_sql", "repair_sql"})

\* A file that cannot be read or is no dispatch spec starts nothing -- a compiled
\* IR, which the other backend takes, is the likeliest of these.
build_dispatch_args(spec, override) ==
    CASE override.is = "tiered" -> NotStarted
      [] override.is # "tiered" /\ spec.shape = "setup" -> build_setup_dispatch_args(spec, override)
      [] override.is # "tiered" /\ spec.shape = "ask" -> build_ask_dispatch_args(spec, override)
      [] OTHER -> NotStarted

InvocationArgs(asked, override) ==
    CASE asked.backend = "claude-code-cli" -> ClaudeCodeCliArgs(asked, override)
      [] asked.backend = "claude-agent-sdk" -> build_claude_agent_sdk_dispatch_args(asked, override)
      [] asked.backend = "codex-local" -> build_dispatch_args(asked.spec, override)

-------------------------------------------------------------------------------
(* What comes back.                                                          *)

\* Rows as objects become rows in the order of the columns, if every one of them
\* has exactly these columns; anything else is left as it is.
Normalizable(out) ==
    /\ out.rows # <<>> /\ \A i \in DOMAIN out.rows : out.rows[i].is = "object"
    /\ IsInjective(out.columns)
    /\ \A i \in DOMAIN out.rows : DOMAIN out.rows[i].cells = ToSet(out.columns)

normalize_codex_local_ask_stdout(out) ==
    IF ~Normalizable(out) THEN out
    ELSE [out EXCEPT !.rows = [i \in DOMAIN out.rows |->
              [is |-> "array",
               cells |-> [c \in DOMAIN out.columns |-> out.rows[i].cells[out.columns[c]]]]]]

normalize_codex_local_stdout(spec, out) ==
    IF spec.shape = "ask" THEN normalize_codex_local_ask_stdout(out) ELSE out

\* Only a run that was started and ended well has anything to say; codex-local
\* reports neither cost nor turns.
AdapterResult(asked, args, process) ==
    IF ~args.ok \/ process.exit # "success"
    THEN [ok |-> FALSE, out |-> process.out, cost |-> NotGiven, turns |-> NotGiven]
    ELSE [ok |-> TRUE,
          out |-> IF asked.backend = "codex-local"
                  THEN normalize_codex_local_stdout(asked.spec, process.out) ELSE process.out,
          cost |-> IF asked.backend = "codex-local" THEN NotGiven ELSE process.cost,
          turns |-> IF asked.backend = "codex-local" THEN NotGiven ELSE process.turns]
===============================================================================
