----------------------------- MODULE ProjectSources -----------------------------
(***************************************************************************)
(* From a project directory to what the compiler is given: the concise        *)
(* authoring forms (cli/src/authoring.rs), the overlay that a host lays over   *)
(* a profile it did not write (cli/src/overlay.rs), the libraries a component  *)
(* is looked up in and the decision whether the Hub is needed at all           *)
(* (cli/src/lib.rs, run_compile in cli/src/main.rs).                           *)
(***************************************************************************)
EXTENDS ProfileCompile, Selections

-------------------------------------------------------------------------------
(* authoring.rs: an entry of profile.yml's component list is a mount, or a       *)
(* component written in place, whole or as the shorthand of one prompt.         *)

Entry(form, id) ==
    [form |-> form, id |-> id, mixed |-> FALSE, mount_fields |-> FALSE, unknown |-> FALSE,
     prompt |-> Words, tier |-> "cheap", bind |-> <<>>]

\* A shorthand may ask for no tools and no effects: it can only read and answer.
SimpleComponent(e) ==
    [ComponentFile(e.id, <<[LlmStep("respond", "prompt", e.prompt, {}, {}) EXCEPT !.tier = e.tier]>>)
        EXCEPT !.guardrails = <<Guardrail("read_only_execution", "yes", "")>>,
               !.capabilities = {"llm:" \o e.tier}, !.dataflow = TRUE]

parse_component(e) ==
    [ok |-> ~e.unknown /\ (e.form = "shorthand" => e.id # "" /\ e.prompt # Blank /\ e.tier # ""),
     component |-> IF e.form = "shorthand" THEN SimpleComponent(e) ELSE ComponentFile(e.id, <<>>)]

parse_profile(entries) ==
    LET written == {i \in DOMAIN entries : entries[i].form # "use"}
        Inline(id) == CHOOSE i \in written : entries[i].id = id
    IN  [ok |-> /\ \A i \in DOMAIN entries \ written : ~entries[i].mixed
                /\ \A i \in written : ~entries[i].mount_fields /\ parse_component(entries[i]).ok
                /\ \A i \in DOMAIN entries : entries[i].id # ""
                /\ \A i, j \in DOMAIN entries : entries[i].id = entries[j].id => i = j,
         mounts |-> [i \in DOMAIN entries |->
                        [ProfileComponentMount(entries[i].id) EXCEPT !.bind = entries[i].bind]],
         inline |-> [id \in {entries[i].id : i \in written} |->
                        parse_component(entries[Inline(id)]).component]]

-------------------------------------------------------------------------------
(* overlay.rs.  Every contradiction is looked for before anything is applied;   *)
(* the change of a mount that the same overlay removes is not among them.      *)

Overlay(mount, unmount, bind) == [version |-> 1, prompt |-> Absent, mount |-> mount, unmount |-> unmount, bind |-> bind]
SUPPORTED_OVERLAY_VERSION == 1

Uses(mounts) == {mounts[i].use : i \in DOMAIN mounts}
Mapped(s, Op(_)) == [i \in DOMAIN s |-> Op(s[i])]
Overridden(bind, values) ==
    [k \in DOMAIN bind \cup DOMAIN values |-> IF k \in DOMAIN values THEN values[k] ELSE bind[k]]
Patched(mount, values) == [mount EXCEPT !.bind = Overridden(@, values)]

Contradictory(profile, o) ==
    \/ Uses(o.mount) \cap o.unmount # {}
    \/ Cardinality(Uses(o.mount)) # Len(o.mount)
    \/ ~(o.unmount \subseteq Uses(profile.components))
    \/ ~(DOMAIN o.bind \subseteq Uses(profile.components))
    \/ Uses(o.mount) \cap Uses(profile.components) # {}

MountsOutside(mounts, ids) == Picked(mounts, {i \in DOMAIN mounts : mounts[i].use \notin ids})

apply_overlay(profile, o) ==
    LET kept == MountsOutside(profile.components, o.unmount)
        Bound(m) == IF m.use \in DOMAIN o.bind THEN Patched(m, o.bind[m.use]) ELSE m
        result == Mapped(kept, Bound) \o o.mount
    IN  [outcome |-> IF o.version # SUPPORTED_OVERLAY_VERSION \/ Contradictory(profile, o) THEN "refused"
                     ELSE IF DOMAIN o.bind \cap o.unmount # {} THEN "panic"
                     ELSE IF result = <<>> THEN "refused" ELSE "applied",
         profile |-> [profile EXCEPT
                        !.components = result,
                        !.system_prompt = IF Given(o.prompt) THEN o.prompt ELSE @]]

-------------------------------------------------------------------------------
(* lib.rs: where a mounted component is found.                                  *)

Source(kind, holds) == [kind |-> kind, holds |-> holds]
Defining(sources, kind, id) ==
    Picked(sources, {i \in DOMAIN sources : sources[i].kind = kind /\ id \in DOMAIN sources[i].holds})

\* One match in the highest kind that has any; two are ambiguous, none is a fault.
resolve_component_dir(sources, id) ==
    LET local == Defining(sources, "local", id)
        hub == Defining(sources, "hub", id)
        matches == IF local # <<>> THEN local ELSE hub
    IN  CASE matches = <<>> -> [found |-> "not found", component |-> ComponentFile(id, <<>>)]
          [] Len(matches) = 1 -> [found |-> "one", component |-> matches[1].holds[id]]
          [] OTHER -> [found |-> "ambiguous", component |-> ComponentFile(id, <<>>)]

\* Mutant: a component that the overlay mounts does not count.
AskedBeforeThePatch(authored, local, overlay) ==
    \E i \in DOMAIN parse_profile(authored).mounts :
        LET id == parse_profile(authored).mounts[i].use
        IN  /\ id \notin DOMAIN parse_profile(authored).inline
            /\ \A s \in DOMAIN local : id \notin DOMAIN local[s].holds

Overlaid(mounts, overlay) ==
    LET base == ProfileFile(FALSE, mounts)
    IN  IF overlay = <<>> THEN [outcome |-> "applied", profile |-> base] ELSE apply_overlay(base, overlay[1])

project_needs_hub(authored, local, overlay) ==
    LET parsed == parse_profile(authored)
        mounts == Overlaid(parsed.mounts, overlay).profile.components
    IN  \E i \in DOMAIN mounts :
            /\ mounts[i].use \notin DOMAIN parsed.inline
            /\ \A s \in DOMAIN local : mounts[i].use \notin DOMAIN local[s].holds

\* A component written in place, or where the libraries have it.
Found(inline, sources, id) ==
    IF id \in DOMAIN inline THEN [found |-> "one", component |-> inline[id]]
    ELSE resolve_component_dir(sources, id)

\* One mount: its component is what it says it is, and every step has one text.
LoadFault(component, mount) ==
    FirstFault(<<Fault("mismatch", component.id = mount.use),
                 Fault("prompt", check_step_prompts(component))>>)

FaultOf(found, mount) ==
    IF found.found # "one" THEN found.found ELSE LoadFault(found.component, mount)

\* compile_project_with_provenance up to the compiler.
compile_project_with_provenance(authored, sources, overlay) ==
    LET parsed == parse_profile(authored)
        patch == Overlaid(parsed.mounts, overlay)
        mounts == patch.profile.components
        At(i) == FaultOf(Found(parsed.inline, sources, mounts[i].use), mounts[i])
        faulty == {i \in DOMAIN mounts : At(i) # ""}
        loads == parsed.ok /\ patch.outcome = "applied" /\ faulty = {}
        none == <<>>
    IN  [fault |-> IF ~parsed.ok THEN "malformed"
                   ELSE IF patch.outcome # "applied" THEN patch.outcome
                   ELSE IF faulty # {} THEN At(Min(faulty)) ELSE "",
         profile |-> patch.profile,
         components |-> IF loads
                        THEN [id \in Uses(mounts) |-> Found(parsed.inline, sources, id).component]
                        ELSE none]

\* run_compile: `--hub-dir` takes the place of the Hub, a version that is asked for
\* is fetched, and else the Hub is fetched if it is needed; it may not be reachable.
SourcesOf(a) ==
    LET extra == a.extra
        local == <<a.own>> \o extra
        readable == Overlaid(parse_profile(a.authored).mounts, a.overlay).outcome = "applied"
        fetched == a.hub_version \/ (readable /\ project_needs_hub(a.authored, local, a.overlay))
    IN  IF a.hub_dir THEN [ok |-> TRUE, sources |-> <<a.own, a.hub>> \o extra]
        ELSE IF fetched THEN [ok |-> a.reachable, sources |-> <<a.own, a.hub>> \o extra]
        ELSE [ok |-> TRUE, sources |-> local]

run_compile(a) ==
    LET chosen == SourcesOf(a)
    IN  IF ~parse_profile(a.authored).ok \/ ~chosen.ok
        THEN [fault |-> IF chosen.ok THEN "malformed" ELSE "unreachable",
              profile |-> ProfileFile(FALSE, <<>>), components |-> <<>>]
        ELSE compile_project_with_provenance(a.authored, chosen.sources, a.overlay)

-------------------------------------------------------------------------------
\* A compilation that could stay offline does, and loses nothing by it: whether the
\* Hub is looked at is decided by reading the project once, what is then compiled by
\* reading it again, and with the Hub at hand the result is the same; and one that
\* needs the Hub finds no other way.  A component of the project is never replaced
\* by one of the same name from the Hub.
HubOnlyWhenNeeded(a, r) ==
    LET offline == compile_project_with_provenance(a.authored, <<a.own>> \o a.extra, a.overlay)
        online == compile_project_with_provenance(a.authored, <<a.own, a.hub>> \o a.extra, a.overlay)
        needed == project_needs_hub(a.authored, <<a.own>> \o a.extra, a.overlay)
        readable == Overlaid(parse_profile(a.authored).mounts, a.overlay).outcome = "applied"
    IN  /\ parse_profile(a.authored).ok /\ ~needed => offline = online
        /\ parse_profile(a.authored).ok /\ readable /\ needed => offline.fault # ""
        /\ r.fault = "" =>
              \A id \in DOMAIN r.components :
                  id \in DOMAIN a.own.holds /\ id \notin DOMAIN parse_profile(a.authored).inline =>
                      r.components[id] = a.own.holds[id]

\* An overlay that is applied changes what it names and nothing else: the other
\* mounts stay as they are and where they are, a changed mount keeps every value
\* the overlay does not name, and no component is mounted twice.  (An overlay that
\* removes a mount and changes it as well passes every check and then ends the
\* process where it was taken for granted that the mount is there.)
OverlayIsALocalPatch(authored, o) ==
    LET base == ProfileFile(FALSE, parse_profile(authored).mounts)
        patched == apply_overlay(base, o)
        mounts == patched.profile.components
        Before(id) == base.components[CHOOSE i \in DOMAIN base.components : base.components[i].use = id]
        untouched(ms) == MountsOutside(ms, DOMAIN o.bind \cup o.unmount \cup Uses(o.mount))
    IN  parse_profile(authored).ok /\ patched.outcome = "applied" =>
            /\ untouched(mounts) = untouched(base.components)
            /\ Cardinality(Uses(mounts)) = Len(mounts)
            /\ \A i \in DOMAIN mounts :
                  mounts[i].use \in DOMAIN o.bind =>
                      \A k \in DOMAIN Before(mounts[i].use).bind \ DOMAIN o.bind[mounts[i].use] :
                          /\ k \in DOMAIN mounts[i].bind
                          /\ mounts[i].bind[k] = Before(mounts[i].use).bind[k]
===============================================================================
