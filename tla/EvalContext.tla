------------------------------ MODULE EvalContext ------------------------------
(***************************************************************************)
(* Golden cases and the context they were confirmed against                  *)
(* (eval/runner/src/context.rs and capture.rs, cli/src/main.rs):             *)
(* `warble eval verify-context` compares the version a golden file is pinned *)
(* to with the hash of the project's models, --stamp pins it anew, and       *)
(* `warble eval capture` collects candidates for it.                         *)
(*                                                                          *)
(* A file has a directory, a kind and a version; the hash of a set of files  *)
(* is the set of them with their versions.                                   *)
(***************************************************************************)
EXTENDS Naturals, Sequences, FiniteSets

CONSTANTS
    Files,          \* the files that may be in the project
    MaxWrites,      \* bound: how often a file is written
    MaxCaptures     \* bound: the captures

ASSUME ContextAssumption == \A f \in Files : {"dir", "ext"} \subseteq DOMAIN f

VARIABLES
    versions,   \* the files of the project that are there, and their versions
    goldenFile, \* the pin of the golden file, and its data set
    stamped,    \* the files as they were when the pin was written, for a pin that is a hash
    said,       \* what the last command has said and how it has ended
    candidates  \* the file of captured candidates: whether it has its header, and its cases

contextVars == <<versions, goldenFile, stamped, said, candidates>>

Skipped == {".git", ".claude", ".venv", "node_modules"}

AllMarkdown == {f \in DOMAIN versions : f.ext \in {"yml", "yaml", "md"}}

mdl_files == {f \in DOMAIN versions : f.ext \in {"yml", "yaml", "md"} /\ f.dir \notin Skipped}

compute_mdl_sha == {<<f, versions[f]>> : f \in mdl_files}

\* A pin that is no hash cannot be compared; a missing one is none.
classify(pin) ==
    IF pin.is # "sha" THEN "unpinned"
    ELSE IF pin.of = compute_mdl_sha THEN "fresh" ELSE "stale"

Said(freshness, ok) == [freshness |-> freshness, ok |-> ok]

\* Without a model file there is nothing to hash and the command fails.
verify_context(strict) ==
    IF mdl_files = {} THEN Said("error", FALSE)
    ELSE Said(classify(goldenFile.pin),
              classify(goldenFile.pin) # "stale" /\ (strict => classify(goldenFile.pin) # "unpinned"))

VerifyContext(strict) ==
    /\ said' = verify_context(strict)
    /\ UNCHANGED <<versions, goldenFile, stamped, candidates>>

\* The data set of the old pin stays, else that of the file is taken.
stamp_context_version(sha) ==
    [goldenFile EXCEPT !.pin = [is |-> "sha", of |-> sha],
                        !.pinDataset = IF @ # "" THEN @ ELSE goldenFile.dataset]

\* Only what could be hashed is stamped, and a stamp always ends well.
Stamp ==
    /\ mdl_files # {}
    /\ goldenFile' = stamp_context_version(compute_mdl_sha)
    /\ stamped' = versions
    /\ said' = Said(classify(goldenFile.pin), TRUE)
    /\ UNCHANGED <<versions, candidates>>

\* The user, an install of agents or a store of traces writes a file, or takes it away.
WriteFile(f) ==
    /\ \/ f \notin DOMAIN versions /\ versions' = [g \in DOMAIN versions \cup {f} |->
                                                      IF g = f THEN 1 ELSE versions[g]]
       \/ f \in DOMAIN versions /\ versions[f] < MaxWrites
          /\ versions' = [versions EXCEPT ![f] = @ + 1]
       \/ f \in DOMAIN versions /\ versions' = [g \in DOMAIN versions \ {f} |-> versions[g]]
    /\ UNCHANGED <<goldenFile, stamped, said, candidates>>

\* A candidate needs a result to expect; the header is written with the first one.
Capture(id, captured) ==
    /\ Len(candidates.cases) < MaxCaptures
    /\ candidates' = IF captured
                     THEN [header |-> TRUE, cases |-> Append(candidates.cases, id)]
                     ELSE candidates
    /\ said' = Said("captured", captured)
    /\ UNCHANGED <<versions, goldenFile, stamped>>

ContextInit ==
    /\ versions \in {[f \in S |-> 1] : S \in SUBSET Files}
    /\ goldenFile \in [pin : {[is |-> "symbolic", of |-> {}], [is |-> "none", of |-> {}]},
                   pinDataset : {"", "shop"}, dataset : {"shop"}]
    /\ stamped = versions
    /\ said = Said("", TRUE)
    /\ candidates = [header |-> FALSE, cases |-> <<>>]

\* Of a process that runs another subcommand.
ContextIdle ==
    /\ versions = <<>> /\ stamped = <<>>
    /\ goldenFile = [pin |-> [is |-> "none", of |-> {}], pinDataset |-> "", dataset |-> ""]
    /\ said = Said("", TRUE)
    /\ candidates = [header |-> FALSE, cases |-> <<>>]

ContextNext ==
    \/ \E strict \in BOOLEAN : VerifyContext(strict)
    \/ Stamp
    \/ \E f \in Files : WriteFile(f)
    \/ \E captured \in BOOLEAN : Capture("case", captured)

-------------------------------------------------------------------------------

SameModels(a, b) ==
    \A f \in Files : f.ext \in {"yml", "yaml", "md"} /\ f.dir \notin Skipped =>
        (f \in DOMAIN a <=> f \in DOMAIN b) /\ (f \in DOMAIN a \cap DOMAIN b => a[f] = b[f])

\* A golden that was stamped is called stale exactly when a model file has been
\* written, added or removed since: not for an installed agent, a stored trace or
\* a change that was taken back.
StaleMeansMoved ==
    [][ \A strict \in BOOLEAN : VerifyContext(strict) /\ goldenFile.pin.is = "sha" /\ mdl_files # {} =>
            (said'.freshness = "stale" <=> ~SameModels(stamped, versions)) ]_contextVars
===============================================================================
