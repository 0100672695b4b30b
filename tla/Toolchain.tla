-------------------------------- MODULE Toolchain --------------------------------
(***************************************************************************)
(* The `warble` command line (cli/src/main.rs) over the modules of its         *)
(* commands.  A behaviour is one command: one that reads and answers gives     *)
(* its answer in a step; a command that works on files while others do runs    *)
(* the machine of its module, and the state of the other machines rests.       *)
(***************************************************************************)
EXTENDS CallGraph, CompileAndAdmit, HubCache, AuthorBuild, AssetDelivery, HostServices,
        ProjectSources, SlotResolution, CapabilityLink

CONSTANTS
    SourcesAsked, GateAsked, ServeAsked, SlotsAsked,              \* what a command is given
    LinkAsked, PlansAsked                                         \* the same, in families

\* A project's lists are lists; its own directory and the further ones are local, and the
\* Hub is the Hub.
ASSUME SourcesAssumption ==
    \A a \in SourcesAsked :
        /\ a.authored \in Seq(ToSet(a.authored)) /\ a.extra \in Seq(ToSet(a.extra))
        /\ a.own.kind = "local" /\ a.hub.kind = "hub" /\ \A i \in DOMAIN a.extra : a.extra[i].kind = "local"
        /\ a.overlay # <<>> => a.overlay[1].mount \in Seq(ToSet(a.overlay[1].mount))

\* What a server is sent is a list of lines.
ASSUME ServeAssumption == \A a \in ServeAsked : a.lines \in Seq(ToSet(a.lines))

\* A compiled profile is a list of components, each mounted once; fragments are a list.
ASSUME LinkAssumption ==
    \A family \in LinkAsked : \A a \in family :
        /\ a.nodes \in Seq(ToSet(a.nodes)) /\ a.providers \in Seq(ToSet(a.providers))
        /\ \A i, j \in DOMAIN a.nodes : a.nodes[i].id = a.nodes[j].id => i = j

\* The slots of a layer are a list, and a piece of wording has one place in the sources: two
\* variants that say the same say it in different pieces.
ASSUME SlotsAssumption ==
    \A a \in SlotsAsked :
        /\ a.ir.slots \in Seq(ToSet(a.ir.slots))
        /\ \A i \in DOMAIN a.ir.nodes :
              /\ a.ir.nodes[i].slots \in Seq(ToSet(a.ir.nodes[i].slots))
              /\ WordsAreOnce(a.ir.slots \o a.ir.nodes[i].slots, a.ir.nodes[i].text)

VARIABLES
    cmd, asked, reply

commandVars == <<cmd, asked, reply>>
toolVars == <<commandVars, graphVars, admitVars, hubVars, deliveryVars, buildVars>>

Plans == INSTANCE HostPlans

-------------------------------------------------------------------------------
Machines == {"graph", "compile", "hub", "delivery", "author_build"}
Nothing == <<>>
Unanswered == [given |-> FALSE, is |-> Nothing]
Replied(answer) == [given |-> TRUE, is |-> answer]

ToolInit ==
    /\ reply = Unanswered
    /\ \/ cmd = "sources" /\ asked \in SourcesAsked
       \/ cmd = "blast-radius" /\ asked \in GateAsked
       \/ cmd = "mcp-serve" /\ asked \in ServeAsked
       \/ cmd = "slots" /\ asked \in SlotsAsked
       \/ cmd = "link" /\ \E family \in LinkAsked : asked \in family
       \/ cmd = "plan" /\ \E family \in PlansAsked : asked \in family
       \/ cmd \in Machines /\ asked = Nothing
    /\ IF cmd = "graph" THEN GraphInit ELSE GraphIdle
    /\ IF cmd = "compile" THEN AdmitInit ELSE AdmitIdle
    /\ HubInit /\ DeliveryInit /\ BuildInit

\* The commands that read and answer.
AnswerOf ==
    CASE cmd = "sources" -> run_compile(asked)
      [] cmd = "blast-radius" -> run_blast_radius(asked)
      [] cmd = "mcp-serve" -> run_mcp_serve(asked.lines, asked.steps)
      [] cmd = "slots" -> DispatchTexts(asked)
      [] cmd = "link" -> run_dispatch(asked)
      [] cmd = "plan" -> Plans!run_plan(asked)

Run ==
    /\ cmd \notin Machines /\ ~reply.given
    /\ reply' = Replied(AnswerOf)
    /\ UNCHANGED <<cmd, asked, graphVars, admitVars, hubVars, deliveryVars, buildVars>>

ToolNext ==
    \/ Run
    \/ /\ cmd = "graph" /\ GraphNext
       /\ UNCHANGED <<commandVars, admitVars, hubVars, deliveryVars, buildVars>>
    \/ /\ cmd = "compile" /\ AdmitNext
       /\ UNCHANGED <<commandVars, graphVars, hubVars, deliveryVars, buildVars>>
    \/ /\ cmd = "hub" /\ HubNext
       /\ UNCHANGED <<commandVars, graphVars, admitVars, deliveryVars, buildVars>>
    \/ /\ cmd = "delivery" /\ DeliveryNext
       /\ UNCHANGED <<commandVars, graphVars, admitVars, hubVars, buildVars>>
    \/ /\ cmd = "author_build" /\ BuildNext
       /\ UNCHANGED <<commandVars, graphVars, admitVars, hubVars, deliveryVars>>

ToolSpec == ToolInit /\ [][ToolNext]_toolVars

-------------------------------------------------------------------------------
Gave(command) == cmd = command /\ reply.given

\* `warble compile` chooses its libraries by reading the project once and compiles
\* what it reads a second time: staying offline loses nothing, an own component is
\* never replaced, and an overlay changes what it names and nothing else.
SourcesAreHonoured ==
    Gave("sources") =>
        /\ HubOnlyWhenNeeded(asked, reply.is)
        /\ asked.overlay # <<>> => OverlayIsALocalPatch(asked.authored, asked.overlay[1])

\* `warble compile` and the dispatchers, which walk a call graph again: a graph is accepted
\* if it has no cycle and refused only for a fault that it has, and a closure is what the
\* roots reach (CallGraph.VerdictIsDeserved, CallGraph.ClosureIsReach).
CallGraphsAreKnown == VerdictIsDeserved /\ ClosureIsReach

\* `warble dispatch`.  With `--slot`: the text that is dispatched is the author's with every
\* slot that it leads to replaced by the variant that was asked for, and one that cannot
\* be resolved is refused (SlotResolution.SlotsAreSpokenFor).
\* To a target: what it cannot provide is never silently left out, nothing weaker stands
\* for what was required, and the order of the `--provider` fragments changes neither
\* whether a profile is dispatched nor with what (CapabilityLink.NothingIsWeakened,
\* CapabilityLink.FragmentOrderIsImmaterial).
DispatchesKeepTheirWord ==
    /\ Gave("slots") => SlotsAreSpokenFor(asked, reply.is)
    /\ Gave("link") => NothingIsWeakened(asked, reply.is) /\ FragmentOrderIsImmaterial(asked, reply.is)

\* `warble produce-session`, `warble dispatch` to a host: its plan is of exactly what the
\* root reaches, its steps find what they consume whichever of them fail, no step holds
\* more than its own authority, and only what nobody calls persists
\* (HostPlans.PlansKeepTheirWord).
PlansAreHonoured == Gave("plan") => Plans!PlansKeepTheirWord(asked, reply.is)

\* `warble dispatch`: what was landed is the content that the manifest names, whatever
\* happened to the travelling directory; and an interactive output that matches its
\* record is one emission, launched only with such a record, and may be emitted again
\* (AssetDelivery.LandedIsTheManifest, AssetDelivery.OwnOutputIsWhole).
DeliveredIsWhole == LandedIsTheManifest /\ OwnOutputIsWhole

\* `warble dispatch`, `warble author build`: an output is emitted over nothing that its
\* user wrote, and a failed build takes away its own directory and no other, unless
\* somebody came between two of its system calls: its making and opening of the directory,
\* or its look at it and the removal
\* (AssetDelivery.UserWorkSurvives, AuthorBuild.BuildKeepsToItsOwn).
OthersWorkSurvives == UserWorkSurvives /\ BuildKeepsToItsOwn

\* `warble blast-radius`, `warble mcp-serve`: a change that is let through touches
\* nothing protected, and every request of a client is answered once, in order, with
\* what it asked for (HostServices.GateIsNotBlind, HostServices.RepliesMatchRequests).
ServicesAnswerTruly ==
    /\ Gave("blast-radius") => GateIsNotBlind(asked, reply.is)
    /\ Gave("mcp-serve") => RepliesMatchRequests(asked, reply.is)
===============================================================================
