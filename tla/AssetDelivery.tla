------------------------------ MODULE AssetDelivery ------------------------------
(***************************************************************************)
(* From a compiled project to a directory an agent runs in: `warble compile`  *)
(* writes the intermediate representation and, beside it, the files that the  *)
(* components declare (cli/src/main.rs, cli/src/lib.rs); `warble dispatch`     *)
(* emits the agent's files from the one and then lands the others, verified.  *)
(* An interactive output is where somebody works, so it is emitted again only *)
(* over files that are known to be its own (claude-code-cli/src/interactive.rs *)
(* and emit/mod.rs).  Nothing holds a lock: the author, the user of the        *)
(* output and another `compile` act in between, and either command may die.   *)
(***************************************************************************)
EXTENDS Naturals, FiniteSets, Functions

CONSTANTS
    Components,
    Projects,       \* what the author may have written when a compilation starts
    MaxCompiles, MaxDispatches, MaxMishaps

\* What a session shares is kept apart from the files of its components.
ASSUME DeliveryAssumption == "scope" \notin Components

VARIABLES ir, store, compiler, out, ownership, launch, dispatch, spent
deliveryVars == <<ir, store, compiler, out, ownership, launch, dispatch, spent>>
compileVars == <<ir, store, compiler>>
outputVars == <<out, ownership, launch>>

\* text: a version of all that is authored; shapes: how each component is emitted;
\* assets: the files that components declare, [component, path] to a version.
Project(text, shapes, assets) == [text |-> text, shapes |-> shapes, assets |-> assets]
NoFiles == [x \in {} |-> 0]

\* A file that was cut short is not the content it was going to be.
Content(is, v, mark) == [is |-> is, v |-> v, mark |-> mark]
Torn == Content("torn", 0, "")
User == Content("user", 0, "")
MARK == "interactive"

Ir(state, project) == [state |-> state, project |-> project]
Owned(state, digests) == [state |-> state, digests |-> digests]
None == [x \in {} |-> Torn]

\* What one session shares, and what each component's shape adds to it.
Scope == {<<"scope", "CLAUDE.md">>, <<"scope", "settings.json">>}
Marked == {<<"scope", "CLAUDE.md">>}
Of(shape, shapes) == {c \in Components : shapes[c] \in shape}
Landing(d) == <<"scope", d.path>>

\* The files that the plan claims, and the files that are then written: a component
\* that is isolated is one child, whatever the tiers of its steps are.
Planned(shapes) ==
    Scope \cup {<<c, "agent.md">> : c \in Components}
          \cup {<<c, "step.md">> : c \in Of({"split", "isolated split"}, shapes)}
Written(shapes) ==
    Scope \cup {<<c, "agent.md">> : c \in Components}
          \cup {<<c, "step.md">> : c \in Of({"split"}, shapes)}
          \cup {<<c, "isolated.md">> : c \in Of({"isolated", "isolated split"}, shapes)}

\* fs::write: one file is there with its content, and the others as they were.
Put(files, n, content) == [x \in {n} \cup DOMAIN files |-> IF x = n THEN content ELSE files[x]]

\* Files are written one after the other, in an order that is always the same.
First(left) == CHOOSE x \in left : TRUE

AtRest(pc) == pc \in {"idle", "done", "refused"}
Resting == [pc |-> "idle", plan |-> Project(0, <<>>, NoFiles), left |-> {}, open |-> {}]
NoDispatch ==
    [pc |-> "idle", kind |-> "", project |-> Project(0, <<>>, NoFiles), left |-> {}, manifest |-> NoFiles,
     landing |-> NoFiles, before |-> None, touched |-> {}, stopped |-> ""]
Unspent == [compiles |-> 0, dispatches |-> 0, mishaps |-> 0, excuses |-> {}]

DeliveryTypeOK ==
    /\ ir.state \in {"none", "torn", "whole"}
    /\ DOMAIN store \subseteq UNION {DOMAIN p.assets : p \in Projects}
    /\ ownership.state \in {"none", "torn", "whole"}
    /\ launch \in {"none", "torn", "spec", "user"}

DeliveryInit ==
    /\ ir = Ir("none", Project(0, <<>>, NoFiles)) /\ store = NoFiles /\ compiler = Resting
    /\ out = None /\ ownership = Owned("none", None) /\ launch = "none"
    /\ dispatch = NoDispatch /\ spent = Unspent

Mishap(why) ==
    /\ spent.mishaps < MaxMishaps
    /\ spent' = [spent EXCEPT !.mishaps = @ + 1, !.excuses = @ \cup {<<why>>}]

-------------------------------------------------------------------------------
(* `warble compile`.                                                         *)

\* Everything is read first; fs::write cuts the file short and then fills it.
StartCompile ==
    /\ AtRest(compiler.pc) /\ spent.compiles < MaxCompiles
    /\ spent' = [spent EXCEPT !.compiles = @ + 1]
    /\ \E p \in Projects :
          compiler' = [pc |-> "ir", plan |-> p, left |-> DOMAIN p.assets, open |-> {}]
    /\ ir' = Ir("torn", ir.project)
    /\ UNCHANGED <<store, outputVars, dispatch>>

WriteIr ==
    /\ compiler.pc = "ir" /\ ir' = Ir("whole", compiler.plan)
    /\ compiler' = [compiler EXCEPT !.pc = IF compiler.left = {} THEN "done" ELSE "assets"]
    /\ UNCHANGED <<store, outputVars, dispatch, spent>>

OpenAsset ==
    /\ compiler.pc = "assets" /\ compiler.open = {}
    /\ LET d == First(compiler.left)
       IN  store' = Put(store, d, 0) /\ compiler' = [compiler EXCEPT !.open = {d}]
    /\ UNCHANGED <<ir, outputVars, dispatch, spent>>

\* What no component declares any more is left where it is.
WriteAsset ==
    /\ compiler.pc = "assets"
    /\ \E d \in compiler.open :
          /\ store' = [store EXCEPT ![d] = compiler.plan.assets[d]]
          /\ compiler' = [compiler EXCEPT !.left = @ \ {d}, !.open = {},
                                          !.pc = IF compiler.left = {d} THEN "done" ELSE "assets"]
    /\ UNCHANGED <<ir, outputVars, dispatch, spent>>

\* Killed, or a write failed: what was written stays.
CompileStops ==
    /\ ~AtRest(compiler.pc) /\ Mishap("compile stopped")
    /\ compiler' = [compiler EXCEPT !.pc = "refused", !.open = {}]
    /\ UNCHANGED <<ir, store, outputVars, dispatch>>

LoseStore ==
    /\ Mishap("store")
    /\ \E d \in DOMAIN store \ compiler.open :
          \/ store' = Restrict(store, DOMAIN store \ {d})
          \/ \E p \in Projects : d \in DOMAIN p.assets /\ store' = [store EXCEPT ![d] = p.assets[d]]
    /\ UNCHANGED <<ir, compiler, outputVars, dispatch>>

-------------------------------------------------------------------------------
(* `warble dispatch`.                                                        *)

Refuse(where) == dispatch' = [dispatch EXCEPT !.pc = "refused", !.stopped = where]

LoadIr(kind) ==
    /\ AtRest(dispatch.pc) /\ spent.dispatches < MaxDispatches
    /\ spent' = [spent EXCEPT !.dispatches = @ + 1, !.excuses = @ \cup ({<<kind>>} \ {<<MARK>>})]
    /\ LET begun == [NoDispatch EXCEPT !.kind = kind, !.before = out, !.project = ir.project,
                                       !.left = IF ir.state = "whole" THEN Written(ir.project.shapes) ELSE {}]
       IN  dispatch' = IF ir.state # "whole" THEN [begun EXCEPT !.pc = "refused", !.stopped = "load"]
                       ELSE [begun EXCEPT !.pc = IF kind = MARK THEN "prepare" ELSE "emit"]
    /\ UNCHANGED <<compileVars, outputVars>>

\* Nothing of the plan is there yet, or all of it is, as it was recorded.
verify_ownership(planned) ==
    /\ ownership.state = "whole" /\ DOMAIN ownership.digests = planned
    /\ \A n \in planned : n \in DOMAIN out /\ out[n] = ownership.digests[n]

\* Mutant: the record of what was emitted is not compared with what is there.
TakesItsWord(planned) ==
    \/ planned \cap DOMAIN out = {} /\ launch = "none" /\ ownership.state = "none"
    \/ /\ ownership.state = "whole" /\ DOMAIN ownership.digests = planned
       /\ launch \in {"none", "spec"}

Preflight(planned) ==
    /\ \/ planned \cap DOMAIN out = {} /\ launch = "none" /\ ownership.state = "none"
       \/ verify_ownership(planned)
    /\ \A n \in Marked \cap DOMAIN out : out[n].mark = MARK
    /\ launch \in {"none", "spec"}

prepare_interactive_output ==
    /\ dispatch.pc = "prepare"
    /\ IF Preflight(Planned(dispatch.project.shapes))
       THEN dispatch' = [dispatch EXCEPT !.pc = "emit"] ELSE Refuse("prepare")
    /\ UNCHANGED <<compileVars, outputVars, spent>>

EmitFile ==
    /\ dispatch.pc = "emit"
    /\ LET n == First(dispatch.left)
       IN /\ out' = Put(out, n, Content("emitted", dispatch.project.text, dispatch.kind))
          /\ dispatch' = [dispatch EXCEPT !.left = @ \ {n},
                             !.pc = IF dispatch.left # {n} THEN "emit"
                                    ELSE IF dispatch.kind = MARK THEN "ownership" ELSE "land"]
    /\ UNCHANGED <<compileVars, ownership, launch, spent>>

\* Every file of the plan is read back for its digest.
write_ownership ==
    /\ dispatch.pc = "ownership"
    /\ LET planned == Planned(dispatch.project.shapes)
       IN  IF planned \subseteq DOMAIN out
           THEN /\ ownership' = Owned("whole", Restrict(out, planned))
                /\ dispatch' = [dispatch EXCEPT !.pc = "launch"]
           ELSE Refuse("ownership") /\ UNCHANGED ownership
    /\ UNCHANGED <<compileVars, out, launch, spent>>

write_launch_spec ==
    /\ dispatch.pc = "launch" /\ launch' = "spec"
    /\ dispatch' = [dispatch EXCEPT !.pc = "land"]
    /\ UNCHANGED <<compileVars, out, ownership, spent>>

\* The IR is read once more, and every file it names is read and checked before
\* one is written.
\* Mutant: a file that is there is good enough.
IsThere(manifest) == DOMAIN manifest \subseteq DOMAIN store
Verified(manifest) == \A d \in DOMAIN manifest : d \in DOMAIN store /\ store[d] = manifest[d]

land_ir_assets ==
    /\ dispatch.pc = "land"
    /\ IF ir.state = "whole" /\ Verified(ir.project.assets)
       THEN dispatch' = [dispatch EXCEPT !.left = DOMAIN ir.project.assets, !.manifest = ir.project.assets,
                            !.landing = Restrict(store, DOMAIN ir.project.assets),
                            !.pc = IF DOMAIN ir.project.assets = {} THEN "done" ELSE "write"]
       ELSE Refuse("land")
    /\ UNCHANGED <<compileVars, outputVars, spent>>

LandFile ==
    /\ dispatch.pc = "write"
    /\ LET d == First(dispatch.left)
       IN /\ out' = Put(out, Landing(d), Content("asset", dispatch.landing[d], ""))
          /\ spent' = [spent EXCEPT !.excuses = @ \cup ({Landing(d)} \cap Scope)]
          /\ dispatch' = [dispatch EXCEPT !.left = @ \ {d},
                                          !.pc = IF dispatch.left = {d} THEN "done" ELSE "write"]
    /\ UNCHANGED <<compileVars, ownership, launch>>

\* Killed, or a write failed: the file at hand may be cut short.
DispatchStops ==
    /\ ~AtRest(dispatch.pc) /\ Mishap("dispatch stopped") /\ Refuse("stopped")
    /\ \/ UNCHANGED outputVars
       \/ /\ dispatch.pc \in {"emit", "write"} /\ UNCHANGED <<ownership, launch>>
          /\ LET x == First(dispatch.left)
             IN  out' = Put(out, IF dispatch.pc = "emit" THEN x ELSE Landing(x), Torn)
       \/ dispatch.pc = "ownership" /\ ownership' = Owned("torn", None) /\ UNCHANGED <<out, launch>>
       \/ dispatch.pc = "launch" /\ launch' = "torn" /\ UNCHANGED <<out, ownership>>
    /\ UNCHANGED compileVars

-------------------------------------------------------------------------------
(* Whoever works in the output.                                              *)

UserWrites ==
    /\ Mishap("user")
    /\ \/ \E n \in DOMAIN out \cup Scope :
             /\ out' = Put(out, n, User)
             /\ dispatch' = [dispatch EXCEPT !.touched = @ \cup {n}]
             /\ UNCHANGED launch
       \/ launch' = "user" /\ UNCHANGED <<out, dispatch>>
    /\ UNCHANGED <<compileVars, ownership>>

DeliveryNext ==
    \/ StartCompile \/ WriteIr \/ OpenAsset \/ WriteAsset \/ CompileStops \/ LoseStore
    \/ LoadIr("headless") \/ LoadIr(MARK) \/ prepare_interactive_output \/ EmitFile
    \/ write_ownership \/ write_launch_spec \/ land_ir_assets \/ LandFile \/ DispatchStops
    \/ UserWrites

DeliverySpec == DeliveryInit /\ [][DeliveryNext]_deliveryVars

-------------------------------------------------------------------------------
Untouched(n) == n \notin dispatch.touched
Landings(m) == {Landing(d) : d \in DOMAIN m}

\* A dispatch that ends well has landed every path that the manifest names with a
\* content that the manifest names for it, and has emitted every other file from one
\* text, whatever a compilation that was cut short, an older one or a hand in the
\* travelling directory left there; and one that refuses the files has put none of
\* them down.  (Two components that declare one path get one file between them.)
LandedIsTheManifest ==
    LET emitted == Written(dispatch.project.shapes) \ Landings(dispatch.manifest)
    IN  /\ dispatch.pc = "done" =>
              /\ \A d \in DOMAIN dispatch.manifest :
                    Untouched(Landing(d)) =>
                        \E e \in DOMAIN dispatch.manifest :
                            /\ e.path = d.path
                            /\ out[Landing(d)] = Content("asset", dispatch.manifest[e], "")
              /\ \A n \in emitted :
                    Untouched(n) => out[n] = Content("emitted", dispatch.project.text, dispatch.kind)
        /\ dispatch.stopped = "land" =>
              \A n \in DOMAIN out \ Written(dispatch.project.shapes) :
                  Untouched(n) => n \in DOMAIN dispatch.before /\ out[n] = dispatch.before[n]

\* An interactive output is emitted over nothing that its user wrote, except what
\* was written while the emission was under way, or so early in the last one that it
\* was recorded as emitted.  (The child of an isolated component is in no plan and
\* is not protected; nor are the paths on which files land.)
UserWorkSurvives ==
    [][dispatch.kind = MARK /\ dispatch.pc = "emit" =>
          \A n \in DOMAIN out \cap Written(dispatch.project.shapes) :
              out[n] = User /\ out'[n] # User =>
                  \/ n \in dispatch.touched \/ n[2] = "isolated.md"
                  \/ n \in DOMAIN ownership.digests /\ ownership.digests[n] = User]_deliveryVars

\* What is recorded as emitted is the plan of one project, and every file of the plan
\* that its emission writes holds its text or what the user put there since; an output
\* is launched only with a record; and it may be emitted again: only a hand in the
\* output, a death, another plan or target, or a file that lands on an emitted one is in
\* the way.  (A component that was split and is now isolated keeps its old step files:
\* they are planned, so they are recorded, and nothing writes them any more.)
OwnOutputIsWhole ==
    LET recorded == DOMAIN ownership.digests
    IN  /\ launch = "spec" => ownership.state # "none"
        /\ dispatch.pc = "launch" /\ dispatch.touched = {} => verify_ownership(recorded)
        /\ ownership.state = "whole" =>
              \E p \in Projects :
                  /\ recorded = Planned(p.shapes)
                  /\ \A n \in recorded \cap Written(p.shapes) :
                        ownership.digests[n] \in {User, Content("emitted", p.text, MARK)}
        /\ dispatch.stopped = "prepare" =>
              spent.excuses # {} \/ recorded # Planned(dispatch.project.shapes)

\* One component that asks for isolation and has steps of two tiers.
IsolatedSplit == {Project(1, [c \in Components |-> "isolated split"], NoFiles)}

\* A dispatch that passed its checks writes what its plan claims: emit/mod.rs says of a
\* component that is isolated and has steps of different tiers that it "wins and the
\* tiers collapse -- visibly", not that it cannot be dispatched.
IsolatedTiersCollapse == dispatch.stopped # "ownership"
===============================================================================
