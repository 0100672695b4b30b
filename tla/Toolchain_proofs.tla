--------------------------- MODULE Toolchain_proofs ---------------------------
(***************************************************************************)
(* The `warble` command line, for any projects, call graphs and layers, and    *)
(* any number of processes, files and mishaps.  A command runs one machine,    *)
(* and the others rest where they began, so that every machine behaves as it   *)
(* does alone; a command that answers does so by what its operators give for   *)
(* any list it is given.                                                     *)
(***************************************************************************)
EXTENDS Toolchain, Machines_proofs, Selections_proofs

\* The machine of the call graph at rest is one of its initial states.
LEMMA IdleGraphIsAGraph == GraphIdle => GraphInit
<1>1. {} \in {C \in SUBSET Ids : Cardinality(C) <= MaxCalls}
  BY FS_EmptySet, GraphAssumption
<1>2. [v \in Mounted |-> {}] \in [Mounted -> {C \in SUBSET Ids : Cardinality(C) <= MaxCalls}]
  BY <1>1
<1> QED
  BY <1>2 DEF GraphIdle, GraphInit

\* Each machine of the command line is a behaviour of its module.
THEOREM MachinesAreTheirOwn ==
    ToolSpec => GraphSpec /\ HubSpec /\ DeliverySpec /\ BuildSpec
<1>1. ToolInit => GraphInit /\ HubInit /\ DeliveryInit /\ BuildInit
  BY IdleGraphIsAGraph DEF ToolInit
<1>2. [ToolNext]_toolVars => [GraphNext]_graphVars
  BY DEF ToolNext, toolVars, Run
<1>3. [ToolNext]_toolVars => [HubNext]_hubVars
  BY DEF ToolNext, toolVars, Run
<1>4. [ToolNext]_toolVars => [DeliveryNext]_deliveryVars
  BY DEF ToolNext, toolVars, Run
<1>5. [ToolNext]_toolVars => [BuildNext]_buildVars
  BY DEF ToolNext, toolVars, Run
<1> QED
  BY <1>1, <1>2, <1>3, <1>4, <1>5, PTL DEF ToolSpec, GraphSpec, HubSpec, DeliverySpec, BuildSpec

\* ensure_cached_hub, as `warble compile` runs it: a command that ends well has read every
\* component as released, and one that nothing disturbed does not fail.
THEOREM CachesStayWhole == ToolSpec => []HubIsWhole
  BY MachinesAreTheirOwn, HubStaysWhole, PTL

\* `warble dispatch`: what landed is what the manifest names, and the record of an
\* interactive output is of one emission.
THEOREM DispatchesAreWhole == ToolSpec => []DeliveredIsWhole
<1>1. LandedIsTheManifest /\ OwnOutputIsWhole => DeliveredIsWhole
  BY DEF DeliveredIsWhole
<1> QED
  BY <1>1, MachinesAreTheirOwn, DeliveriesAreWhole, OutputsAreTheirOwn, PTL

\* `warble dispatch`, `warble author build`: nothing that a user wrote is emitted over,
\* and a failed build takes away its own directory only, unless somebody came between
\* the making of a directory and its opening, or between the look and the removal.
THEOREM CommandsSpareOthers == ToolSpec => OthersWorkSurvives
  BY MachinesAreTheirOwn, EmissionsSpareTheUser, BuildsKeepToTheirOwn, PTL DEF OthersWorkSurvives

\* The state of a compilation is of a compilation, or was never touched.
LEMMA CompilationsAreTheirOwn == ToolSpec => [](IF cmd = "compile" THEN AdmitInv ELSE AdmitIdle)
<1> DEFINE Inv == IF cmd = "compile" THEN AdmitInv ELSE AdmitIdle
<1>1. ToolInit => Inv
  BY AdmitInitHolds DEF ToolInit
<1>2. Inv /\ [ToolNext]_toolVars => Inv'
  <2> SUFFICES ASSUME Inv, [ToolNext]_toolVars PROVE Inv'
    OBVIOUS
  <2>1. cmd' = cmd
    BY DEF ToolNext, toolVars, commandVars, Run
  <2>2. CASE cmd = "compile"
    <3>1. [AdmitNext]_admitVars
      BY DEF ToolNext, toolVars, Run
    <3> QED
      BY <2>1, <2>2, <3>1, AdmitStep
  <2>3. CASE cmd # "compile"
    <3>1. UNCHANGED admitVars
      BY <2>3 DEF ToolNext, toolVars, Run
    <3> QED
      BY <2>1, <2>3, <3>1 DEF AdmitIdle, Uncompiled, admitVars
  <2> QED
    BY <2>2, <2>3
<1> QED
  BY <1>1, <1>2, PTL DEF ToolSpec

\* `warble compile`, `warble check-context`: what compiled stands where a host admits it.
THEOREM CompilationsStand == ToolSpec => []CompiledStandsAtRuntime
<1>1. AdmitIdle => CompiledStandsAtRuntime
  BY DEF AdmitIdle, Uncompiled, NotYet, CompiledStandsAtRuntime
<1>2. (IF cmd = "compile" THEN AdmitInv ELSE AdmitIdle) => CompiledStandsAtRuntime
  BY <1>1, CompiledStands
<1> QED
  BY <1>2, CompilationsAreTheirOwn, PTL

\* `warble compile`: nothing that compiles is above the ceiling of its profile, calls
\* without the capability of calls, or has unlocked what its component locked.
THEOREM CompilationsAreAuthorized == ToolSpec => []CompiledIsAuthorized
<1>1. AdmitIdle => CompiledIsAuthorized
  BY DEF AdmitIdle, Uncompiled, NotYet, NoIR, CompiledIsAuthorized, Nodes
<1>2. (IF cmd = "compile" THEN AdmitInv ELSE AdmitIdle) => CompiledIsAuthorized
  BY <1>1, CompiledAuthorized
<1> QED
  BY <1>2, CompilationsAreTheirOwn, PTL

\* `warble compile`: in what compiles, every slot that a text names is declared once within
\* its reach, by its component or by the profile, with its default; no placeholder is left.
THEOREM CompilationsResolve == ToolSpec => []SlotsResolve
<1>1. AdmitIdle => SlotsResolve
  BY DEF AdmitIdle, Uncompiled, NotYet, NoIR, SlotsResolve, Nodes
<1>2. (IF cmd = "compile" THEN AdmitInv ELSE AdmitIdle) => SlotsResolve
  BY <1>1, CompiledResolves
<1> QED
  BY <1>2, CompilationsAreTheirOwn, PTL

\* `warble compile` and the dispatchers that read a call graph again.
THEOREM ReadersAreTrue == ToolSpec => []CallGraphsAreKnown
<1>1. VerdictIsDeserved /\ ClosureIsReach => CallGraphsAreKnown
  BY DEF CallGraphsAreKnown
<1> QED
  BY <1>1, MachinesAreTheirOwn, VerdictsHaveACause, ClosureIsTheReach, PTL

-------------------------------------------------------------------------------
(* warble mcp-serve and warble blast-radius.                                 *)

\* What is told of a message that is answered.
BodyOf(m, steps) == handle_request(m, steps)[1].body

\* A message with an id is answered once, under its id, and one without is not; and what
\* is no error is the text of the step and the input.
LEMMA RequestsAreAnswered ==
    ASSUME NEW m, NEW steps, m.method # "noise",
           m.id = "none" <=> m.method \in {"notifications/initialized", "initialized", "noise"}
    PROVE  /\ m.id # "none" => handle_request(m, steps) = <<[id |-> m.id, body |-> BodyOf(m, steps)]>>
           /\ m.id = "none" => handle_request(m, steps) = <<>>
           /\ ~BodyOf(m, steps).is_error /\ m.id # "none" /\ m.method = "tools/call" =>
                  BodyOf(m, steps).text = <<m.step, m.input>>
<1>1. CASE m.id = "none"
  <2>1. m.method \in {"notifications/initialized", "initialized"}
    BY <1>1
  <2>2. handle_request(m, steps) = <<>>
    BY <2>1 DEF handle_request
  <2>3. QED
    BY <1>1, <2>2, Zenon
<1>2. CASE m.id # "none"
  <2>1. m.method \notin {"notifications/initialized", "initialized", "noise"}
    BY <1>2
  <2>2. PICK b : /\ handle_request(m, steps) = <<[id |-> m.id, body |-> b]>>
                 /\ m.method = "tools/call" => b = IF m.tool # TOOL_NAME THEN JsonRpcError ELSE Infer(steps, m)
    <3>1. CASE m.method \in {"initialize", "ping", "tools/list"}
      <4>1. handle_request(m, steps) = <<[id |-> m.id, body |-> Plain(m.method)]>> /\ m.method # "tools/call"
        BY <3>1 DEF handle_request, Reply
      <4>2. QED
        BY <4>1, Zenon
    <3>2. CASE m.method = "tools/call"
      <4> DEFINE b == IF m.tool # TOOL_NAME THEN JsonRpcError ELSE Infer(steps, m)
      <4>1. handle_request(m, steps) = <<[id |-> m.id, body |-> b]>>
        BY <3>2 DEF handle_request, Reply
      <4>2. QED
        BY <4>1, Zenon
    <3>3. CASE m.method \notin {"initialize", "ping", "tools/list", "tools/call"}
      <4>1. handle_request(m, steps) = <<[id |-> m.id, body |-> JsonRpcError]>> /\ m.method # "tools/call"
        BY <1>2, <2>1, <3>3 DEF handle_request, Reply
      <4>2. QED
        BY <4>1, Zenon
    <3>4. QED
      BY <3>1, <3>2, <3>3
  <2>3. BodyOf(m, steps) = b
    BY <2>2 DEF BodyOf
  <2>4. ASSUME m.method = "tools/call", ~b.is_error PROVE b.text = <<m.step, m.input>>
    <3>1. JsonRpcError.is_error
      BY DEF JsonRpcError
    <3>2. b = Infer(steps, m)
      BY <2>2, <2>4, <3>1, Zenon
    <3>3. m.step \in DOMAIN steps /\ steps[m.step] # "down"
      BY <2>4, <3>2 DEF Infer
    <3>4. b = [is_error |-> FALSE, text |-> <<m.step, m.input>>]
      BY <3>2, <3>3 DEF Infer
    <3>5. QED
      BY <3>4
  <2>5. QED
    BY <1>2, <2>2, <2>3, <2>4, Zenon
<1>3. QED
  BY <1>1, <1>2

\* `warble mcp-serve`: the answers are those of the requests, in their order.
LEMMA RepliesAnswer ==
    ASSUME NEW a, a.lines \in Seq(ToSet(a.lines)) PROVE RepliesMatchRequests(a, run_mcp_serve(a.lines, a.steps))
<1> SUFFICES ASSUME WellBehaved(a.lines)
             PROVE  LET requests == Picked(a.lines, {i \in DOMAIN a.lines : a.lines[i].id # "none"})
                        replies == run_mcp_serve(a.lines, a.steps)
                    IN  /\ Len(replies) = Len(requests)
                        /\ \A i \in DOMAIN requests :
                              /\ replies[i].id = requests[i].id
                              /\ ~replies[i].body.is_error /\ requests[i].method = "tools/call" =>
                                    replies[i].body.text = <<requests[i].step, requests[i].input>>
  BY DEF RepliesMatchRequests
<1> DEFINE lines == a.lines
           M == ToSet(lines)
           H == {i \in DOMAIN lines : lines[i].method # "noise"}
           R == {i \in DOMAIN lines : lines[i].id # "none"}
           heard == Picked(lines, H)
           V == {m \in M : m.id # "none"}
           I == {k \in DOMAIN heard : heard[k] \in V}
           sought == Picked(lines, R)
<1>1. lines \in Seq(M) /\ \A i \in DOMAIN lines : lines[i] \in M
  OBVIOUS
<1>2. \A i \in DOMAIN lines : lines[i].id = "none" <=> lines[i].method \in {"notifications/initialized", "initialized", "noise"}
  BY DEF WellBehaved
<1>3. sought = Picked(heard, I)
  <2>1. R = Having(lines, H, V) /\ I = Having(heard, DOMAIN heard, V)
    BY <1>1, <1>2 DEF Having
  <2> HIDE DEF R, H, I, V, M, lines
  <2>2. PICK p : p = Picked(lines, H)
    OBVIOUS
  <2>3. Picked(p, Having(p, DOMAIN p, V)) = Picked(lines, Having(lines, H, V))
    BY ONLY <1>1, <2>2, PickedTwice
  <2>4. QED
    BY <2>1, <2>2, <2>3, Zenon
<1>4. heard \in Seq(M) /\ \A k \in DOMAIN heard : \E i \in H \cap DOMAIN lines : heard[k] = lines[i]
  <2> HIDE DEF H
  <2>1. QED
    BY ONLY <1>1, PickedElements
<1>5. \A k \in DOMAIN heard : /\ heard[k] \in M /\ heard[k].method # "noise"
                              /\ heard[k].id = "none" <=> heard[k].method \in {"notifications/initialized", "initialized", "noise"}
  <2> TAKE k \in DOMAIN heard
  <2>1. PICK i \in H \cap DOMAIN lines : heard[k] = lines[i]
    BY <1>4, Zenon
  <2>2. i \in DOMAIN lines /\ lines[i].method # "noise"
    BY <2>1
  <2>3. QED
    BY <1>1, <1>2, <2>1, <2>2
<1>6. PICK n \in Nat : n = Len(heard) /\ DOMAIN heard = 1..n
  <2> HIDE DEF heard, M
  <2>1. QED
    BY <1>4
<1> DEFINE seqs == [i \in DOMAIN heard |-> handle_request(heard[i], a.steps)]
           r == [i \in DOMAIN heard |-> [id |-> heard[i].id, body |-> BodyOf(heard[i], a.steps)]]
           S == {r[i] : i \in DOMAIN heard}
<1>7. \A k \in DOMAIN heard : (k \in I <=> heard[k].id # "none")
  BY <1>5
<1> HIDE DEF H, R, I, V, M, lines, heard
<1>8. \A i \in 1..n : r[i] \in S /\ seqs[i] = IF i \in I THEN <<r[i]>> ELSE <<>>
  <2> TAKE i \in 1..n
  <2>1. i \in DOMAIN heard
    BY <1>6
  <2>2. PICK m : m = heard[i]
    OBVIOUS
  <2>3. /\ m.id # "none" => handle_request(m, a.steps) = <<[id |-> m.id, body |-> BodyOf(m, a.steps)]>>
        /\ m.id = "none" => handle_request(m, a.steps) = <<>>
    BY <1>5, <2>1, <2>2, RequestsAreAnswered
  <2>4. r[i] = [id |-> m.id, body |-> BodyOf(m, a.steps)] /\ seqs[i] = handle_request(m, a.steps)
    BY <2>1, <2>2, Zenon
  <2>5. r[i] \in S
    BY <2>1
  <2>6. i \in I <=> m.id # "none"
    BY <1>7, <2>1, <2>2
  <2> HIDE DEF r, seqs, S
  <2>7. QED
    BY <2>3, <2>4, <2>5, <2>6
<1>9. r \in Seq(S) /\ Len(r) = n /\ Len(seqs) = n /\ seqs \in Seq(Seq(S))
  <2>1. DOMAIN r = 1..n /\ DOMAIN seqs = 1..n
    BY <1>6
  <2>2. r = [i \in 1..n |-> r[i]] /\ seqs = [i \in 1..n |-> seqs[i]]
    BY <1>6, Zenon
  <2> HIDE DEF r, seqs, S
  <2>3. \A i \in 1..n : seqs[i] \in Seq(S)
    <3> TAKE i \in 1..n
    <3>1. <<r[i]>> \in Seq(S) /\ <<>> \in Seq(S)
      <4>1. PICK x \in S : x = r[i]
        BY <1>8, Zenon
      <4>2. <<x>> \in Seq(S) /\ <<>> \in Seq(S)
        BY ONLY x \in S
      <4>3. QED
        BY <4>1, <4>2, Zenon
    <3>2. seqs[i] = <<r[i]>> \/ seqs[i] = <<>>
      BY <1>8
    <3>3. QED
      BY <3>1, <3>2, Zenon
  <2>4. PICK T : T = Seq(S)
    OBVIOUS
  <2>5. r \in [1..n -> S] /\ seqs \in [1..n -> T]
    BY <1>8, <2>2, <2>3, <2>4
  <2>6. r \in Seq(S) /\ Len(r) = n /\ Len(seqs) = n /\ seqs \in Seq(T)
    BY ONLY <2>1, <2>5, n \in Nat
  <2>7. QED
    BY <2>4, <2>6, Zenon
<1>10. run_mcp_serve(lines, a.steps) = FlattenSeq(seqs)
  BY Zenon DEF run_mcp_serve, heard, H
<1>11. FlattenSeq(seqs) = Picked(r, I)
  <2> HIDE DEF r, seqs, S
  <2>1. QED
    BY <1>8, <1>9, FlattenOfFew
<1>12. PICK h : Selects(h, heard, I, n) /\ Picked(heard, I) = Listed(h, heard) /\ Picked(r, I) = Listed(h, r)
  <2> HIDE DEF r, S
  <2>1. heard \in Seq(M) /\ r \in Seq(S) /\ Len(heard) = Len(r) /\ n = Len(heard)
    BY <1>4, <1>6, <1>9
  <2>2. \E h : Selects(h, heard, I, Len(heard)) /\ Picked(heard, I) = Listed(h, heard) /\ Picked(r, I) = Listed(h, r)
    BY ONLY <2>1, PickedAlike
  <2>3. QED
    BY <2>1, <2>2, Zenon
<1>13. PICK m \in Nat : /\ m = Len(h) /\ DOMAIN h = 1..m
                        /\ \A k \in 1..m : h[k] \in I /\ h[k] \in 1..n
  BY ONLY n \in Nat, <1>12, SelectsTells
<1>14. Len(Picked(r, I)) = m /\ Len(sought) = m /\ DOMAIN sought = 1..m
  <2> HIDE DEF r, sought
  <2>1. QED
    BY <1>3, <1>12, <1>13 DEF Listed
<1>15. ASSUME NEW k \in DOMAIN sought
       PROVE  /\ Picked(r, I)[k].id = sought[k].id
              /\ ~Picked(r, I)[k].body.is_error /\ sought[k].method = "tools/call" =>
                     Picked(r, I)[k].body.text = <<sought[k].step, sought[k].input>>
  <2>1. PICK i \in 1..n : i = h[k] /\ i \in I
    BY <1>13, <1>14
  <2>2. sought[k] = heard[i] /\ Picked(r, I)[k] = r[i]
    <3> HIDE DEF r, sought
    <3>1. QED
      BY <1>3, <1>12, <1>13, <1>14, <2>1 DEF Listed
  <2>3. PICK q : q = heard[i]
    OBVIOUS
  <2>4. i \in DOMAIN heard /\ r[i] = [id |-> q.id, body |-> BodyOf(q, a.steps)] /\ q.id # "none"
    BY <1>6, <1>7, <2>1, <2>3
  <2>5. ~BodyOf(q, a.steps).is_error /\ q.id # "none" /\ q.method = "tools/call" =>
            BodyOf(q, a.steps).text = <<q.step, q.input>>
    BY <1>5, <2>3, <2>4, RequestsAreAnswered
  <2> HIDE DEF r, sought
  <2>6. QED
    BY <2>2, <2>3, <2>4, <2>5
<1>16. QED
  <2> HIDE DEF r, seqs
  <2>1. Picked(lines, R) = sought /\ run_mcp_serve(lines, a.steps) = Picked(r, I)
    BY <1>10, <1>11
  <2> HIDE DEF sought
  <2>2. QED
    BY <1>14, <1>15, <2>1, Zenon DEF lines, R

\* `warble blast-radius`.
LEMMA GateSees == ASSUME NEW a PROVE GateIsNotBlind(a, run_blast_radius(a))
<1> DEFINE found == blast_radius_for_project(a.bound, a.layer, a.node)
           down == found.impact.downstream
           exits == run_blast_radius(a)
<1>1. found.ok <=> a.bound /\ a.layer.parseable /\ a.layer.analysis.given
  BY DEF blast_radius_for_project
<1>2. exits = IF ~found.ok THEN "error" ELSE decide(a.node, found.impact, a.threshold)
  BY Zenon DEF run_blast_radius
<1> HIDE DEF found, exits
<1>3. QED
  BY <1>1, <1>2 DEF GateIsNotBlind, decide, found, exits

-------------------------------------------------------------------------------
(* warble compile: where a component is found.                               *)

IsProject(a) ==
    /\ a.authored \in Seq(ToSet(a.authored)) /\ a.extra \in Seq(ToSet(a.extra))
    /\ a.own.kind = "local" /\ a.hub.kind = "hub" /\ \A i \in DOMAIN a.extra : a.extra[i].kind = "local"
    /\ a.overlay # <<>> => a.overlay[1].mount \in Seq(ToSet(a.overlay[1].mount))

Libraries(a) == <<a.own>> \o a.extra
LibrariesAndHub(a) == <<a.own, a.hub>> \o a.extra

SourcesWith(U, kind, id) == {s \in U : s.kind = kind /\ id \in DOMAIN s.holds}

\* Where a component is defined is a selection by value.
LEMMA DefiningIsOfThese ==
    ASSUME NEW U, NEW sources \in Seq(U), NEW kind, NEW id
    PROVE  Defining(sources, kind, id) = OfThese(sources, SourcesWith(U, kind, id))
<1>1. \A i \in DOMAIN sources : sources[i] \in U
  OBVIOUS
<1>2. {i \in DOMAIN sources : sources[i].kind = kind /\ id \in DOMAIN sources[i].holds}
          = Having(sources, DOMAIN sources, SourcesWith(U, kind, id))
  BY <1>1, Zenon DEF Having, SourcesWith
<1>3. QED
  BY <1>2, Zenon DEF Defining, OfThese

\* The Hub is no library of the project: it takes no component away.
LEMMA HubIsBehind ==
    ASSUME NEW a, IsProject(a), NEW id
    PROVE  Defining(LibrariesAndHub(a), "local", id) = Defining(Libraries(a), "local", id)
<1> DEFINE U == {a.own, a.hub} \cup ToSet(a.extra)
           V == SourcesWith(U, "local", id)
<1>1. a.extra \in Seq(ToSet(a.extra)) /\ a.hub.kind = "hub"
  BY DEF IsProject
<1>2. PICK o, h, x : o = <<a.own>> /\ h = <<a.hub>> /\ x = a.extra
  OBVIOUS
<1>3. x \in Seq(U)
  BY <1>1, <1>2, LargerLists
<1>4. o \in Seq(U) /\ h \in Seq(U)
  <2>1. PICK b \in U, c \in U : b = a.own /\ c = a.hub
    OBVIOUS
  <2> HIDE DEF U
  <2>2. <<b>> \in Seq(U) /\ <<c>> \in Seq(U)
    BY ONLY b \in U, c \in U
  <2>3. QED
    BY <1>2, <2>1, <2>2, Zenon
<1>5. \A i \in DOMAIN h : h[i] \notin V
  BY <1>1, <1>2 DEF SourcesWith
<1> HIDE DEF U, V
<1>6. h \o x \in Seq(U) /\ o \o (h \o x) \in Seq(U) /\ o \o x \in Seq(U)
  BY ONLY <1>3, <1>4
<1>7. OfThese(h, V) = <<>>
  BY ONLY <1>4, <1>5, PickedNone
<1>8. OfThese(h \o x, V) = OfThese(h, V) \o OfThese(x, V)
  BY ONLY <1>3, <1>4, PickedJoined
<1>9. OfThese(o \o (h \o x), V) = OfThese(o, V) \o OfThese(h \o x, V)
  <2>1. PICK y \in Seq(U) : y = h \o x
    BY <1>6
  <2>2. OfThese(o \o y, V) = OfThese(o, V) \o OfThese(y, V)
    BY ONLY <1>4, y \in Seq(U), PickedJoined
  <2>3. QED
    BY <2>1, <2>2, Zenon
<1>10. OfThese(o \o x, V) = OfThese(o, V) \o OfThese(x, V)
  BY ONLY <1>3, <1>4, PickedJoined
<1>11. <<>> \o OfThese(x, V) = OfThese(x, V)
  <2>1. OfThese(x, V) \in Seq(U)
    <3>1. PICK I : I = Having(x, DOMAIN x, V)
      OBVIOUS
    <3>2. Picked(x, I) \in Seq(U)
      BY ONLY <1>3, PickedElements
    <3>3. QED
      BY <3>1, <3>2, Zenon DEF OfThese
  <2>2. QED
    BY ONLY <2>1
<1>12. OfThese(o \o (h \o x), V) = OfThese(o \o x, V)
  BY <1>7, <1>8, <1>9, <1>10, <1>11, Zenon
<1>13. LibrariesAndHub(a) = o \o (h \o x) /\ Libraries(a) = o \o x
  <2>1. <<a.own, a.hub>> = o \o h
    BY <1>2
  <2>2. (o \o h) \o x = o \o (h \o x)
    BY ONLY <1>3, <1>4, ConcatAssociative
  <2>3. QED
    BY <1>2, <2>1, <2>2, Zenon DEF LibrariesAndHub, Libraries
<1>14. /\ Defining(o \o (h \o x), "local", id) = OfThese(o \o (h \o x), V)
       /\ Defining(o \o x, "local", id) = OfThese(o \o x, V)
  <2>1. PICK y \in Seq(U), z \in Seq(U) : y = o \o (h \o x) /\ z = o \o x
    BY <1>6, Zenon
  <2>2. Defining(y, "local", id) = OfThese(y, V) /\ Defining(z, "local", id) = OfThese(z, V)
    BY ONLY y \in Seq(U), z \in Seq(U), DefiningIsOfThese, Zenon DEF V
  <2>3. QED
    BY <2>1, <2>2, Zenon
<1>15. QED
  BY <1>12, <1>13, <1>14, Zenon

\* What a selection by kind and name is of.
LEMMA DefiningTells ==
    ASSUME NEW U, NEW sources \in Seq(U), NEW kind, NEW id
    PROVE  /\ Defining(sources, kind, id) \in Seq(U)
           /\ Defining(sources, kind, id) = <<>> <=>
                  \A i \in DOMAIN sources : ~(sources[i].kind = kind /\ id \in DOMAIN sources[i].holds)
           /\ 1 \in DOMAIN sources /\ sources[1].kind = kind /\ id \in DOMAIN sources[1].holds =>
                  Defining(sources, kind, id)[1] = sources[1]
<1> DEFINE I == {i \in DOMAIN sources : sources[i].kind = kind /\ id \in DOMAIN sources[i].holds}
<1>1. Defining(sources, kind, id) = Picked(sources, I)
  BY Zenon DEF Defining
<1>2. /\ I \cap DOMAIN sources = {} <=>
             \A i \in DOMAIN sources : ~(sources[i].kind = kind /\ id \in DOMAIN sources[i].holds)
      /\ 1 \in DOMAIN sources /\ sources[1].kind = kind /\ id \in DOMAIN sources[1].holds => 1 \in I \cap DOMAIN sources
  BY Zenon
<1>3. \A i \in I \cap DOMAIN sources : 1 <= i
  <2>1. \A i \in DOMAIN sources : 1 <= i
    OBVIOUS
  <2>2. QED
    BY <2>1, Zenon
<1> HIDE DEF I
<1>4. /\ Picked(sources, I) = <<>> <=> I \cap DOMAIN sources = {}
      /\ \A j \in I \cap DOMAIN sources : (\A i \in I \cap DOMAIN sources : j <= i) => Picked(sources, I)[1] = sources[j]
  BY ONLY sources \in Seq(U), PickedFirst
<1>5. Picked(sources, I) \in Seq(U)
  BY ONLY sources \in Seq(U), PickedElements
<1>6. QED
  BY <1>1, <1>2, <1>3, <1>4, <1>5, Zenon

-------------------------------------------------------------------------------
(* What an overlay leaves.                                                   *)

BoundMount(o, m) == IF m.use \in DOMAIN o.bind THEN Patched(m, o.bind[m.use]) ELSE m
BaseMounts(entries) == parse_profile(entries).mounts
PatchedMounts(entries, o) ==
    [k \in DOMAIN MountsOutside(BaseMounts(entries), o.unmount) |->
        BoundMount(o, MountsOutside(BaseMounts(entries), o.unmount)[k])] \o o.mount
PatchOf(entries, o) == apply_overlay(ProfileFile(FALSE, BaseMounts(entries)), o)

\* What apply_overlay leaves, and when it has applied.
LEMMA OverlayGives ==
    ASSUME NEW entries, NEW o
    PROVE  /\ PatchOf(entries, o).profile.components = PatchedMounts(entries, o)
           /\ PatchOf(entries, o).outcome \in {"refused", "panic", "applied"}
           /\ PatchOf(entries, o).outcome = "applied" =>
                  /\ ~Contradictory(ProfileFile(FALSE, BaseMounts(entries)), o)
                  /\ DOMAIN o.bind \cap o.unmount = {}
           /\ ProfileFile(FALSE, BaseMounts(entries)).components = BaseMounts(entries)
<1> DEFINE B == BaseMounts(entries)
           p == ProfileFile(FALSE, B)
           kept == MountsOutside(B, o.unmount)
           Bound(m) == IF m.use \in DOMAIN o.bind THEN Patched(m, o.bind[m.use]) ELSE m
           result == Mapped(kept, Bound) \o o.mount
           outcome == IF o.version # SUPPORTED_OVERLAY_VERSION \/ Contradictory(p, o) THEN "refused"
                      ELSE IF DOMAIN o.bind \cap o.unmount # {} THEN "panic"
                      ELSE IF result = <<>> THEN "refused" ELSE "applied"
<1>1. p.components = B
  BY DEF ProfileFile
<1>2. result = PatchedMounts(entries, o)
  BY DEF Mapped, PatchedMounts, BoundMount
<1> DEFINE patched == [p EXCEPT !.components = result,
                                !.system_prompt = IF Given(o.prompt) THEN o.prompt ELSE @]
<1>3. apply_overlay(p, o) = [outcome |-> outcome, profile |-> patched]
  BY <1>1, Zenon DEF apply_overlay
<1>5. patched.components = result
  <2> HIDE DEF result
  <2>1. QED
    BY DEF ProfileFile
<1> HIDE DEF patched, p, result
<1>4. apply_overlay(p, o).outcome = outcome /\ apply_overlay(p, o).profile = patched
  <2> HIDE DEF outcome
  <2>1. QED
    BY ONLY <1>3
<1>6. apply_overlay(p, o).profile.components = result
  BY <1>4, <1>5, Zenon
<1>7. /\ outcome \in {"refused", "panic", "applied"}
      /\ outcome = "applied" => ~Contradictory(p, o) /\ DOMAIN o.bind \cap o.unmount = {}
  OBVIOUS
<1>8. QED
  BY <1>1, <1>2, <1>4, <1>6, <1>7, Zenon DEF PatchOf, p

\* The mounts of a profile are those of its entries, in their order.
LEMMA BaseMountsAre ==
    ASSUME NEW entries, entries \in Seq(ToSet(entries))
    PROVE  \E n \in Nat : \E T : /\ BaseMounts(entries) \in Seq(T) /\ Len(BaseMounts(entries)) = n
                             /\ DOMAIN BaseMounts(entries) = 1..n /\ DOMAIN entries = 1..n
                             /\ \A i \in 1..n : BaseMounts(entries)[i].use = entries[i].id
<1> DEFINE MountOf(i) == [ProfileComponentMount(entries[i].id) EXCEPT !.bind = entries[i].bind]
<1>1. BaseMounts(entries) = [i \in DOMAIN entries |-> MountOf(i)]
  BY DEF BaseMounts, parse_profile
<1>2. PICK n \in Nat : DOMAIN entries = 1..n
  OBVIOUS
<1>3. \A i \in 1..n : MountOf(i).use = entries[i].id
  BY DEF ProfileComponentMount
<1> HIDE DEF MountOf
<1> DEFINE T == {MountOf(i) : i \in 1..n}
           B == [i \in 1..n |-> MountOf(i)]
<1>4. B \in [1..n -> T] /\ DOMAIN B = 1..n /\ \A i \in 1..n : B[i] = MountOf(i)
  OBVIOUS
<1> HIDE DEF T, B
<1>5. B \in Seq(T) /\ Len(B) = n
  BY ONLY <1>4, n \in Nat
<1>6. B = BaseMounts(entries)
  BY <1>1, <1>2, Zenon DEF B
<1>7. \A i \in 1..n : B[i].use = entries[i].id
  BY <1>3, <1>4, Zenon
<1>8. QED
  BY <1>2, <1>4, <1>5, <1>6, <1>7, Zenon

\* A patched list of mounts: the n kept ones as the overlay changes them, then its own m.
Patches(entries, o, kept, n, m, T) ==
    /\ n \in Nat /\ m \in Nat /\ kept = MountsOutside(BaseMounts(entries), o.unmount)
    /\ BaseMounts(entries) \in Seq(T) /\ kept \in Seq(T) /\ Len(kept) = n /\ DOMAIN kept = 1..n
    /\ Len(o.mount) = m /\ DOMAIN o.mount = 1..m
    /\ [k \in 1..n |-> BoundMount(o, kept[k])] \in Seq(T) /\ o.mount \in Seq(T)
    /\ PatchedMounts(entries, o) = [k \in 1..n |-> BoundMount(o, kept[k])] \o o.mount
    /\ PatchedMounts(entries, o) \in Seq(T) /\ Len(PatchedMounts(entries, o)) = n + m
    /\ \A k \in 1..n : PatchedMounts(entries, o)[k] = BoundMount(o, kept[k])
    /\ \A k \in 1..m : PatchedMounts(entries, o)[n + k] = o.mount[k]

\* What apply_overlay makes of a profile's mounts is such a list.
LEMMA PatchedMountsAre ==
    ASSUME NEW entries, entries \in Seq(ToSet(entries)), NEW o, o.mount \in Seq(ToSet(o.mount)),
           NEW kept, kept = MountsOutside(BaseMounts(entries), o.unmount)
    PROVE  \E n, m, T : Patches(entries, o, kept, n, m, T)
<1>1. PICK S : BaseMounts(entries) \in Seq(S)
  BY BaseMountsAre, Zenon
<1>2. kept \in Seq(S)
  <2>1. PICK I : I = {i \in DOMAIN BaseMounts(entries) : BaseMounts(entries)[i].use \notin o.unmount}
    OBVIOUS
  <2>2. Picked(BaseMounts(entries), I) \in Seq(S)
    BY ONLY <1>1, PickedElements
  <2>3. QED
    BY <2>1, <2>2, Zenon DEF MountsOutside
<1>3. PICK n \in Nat : Len(kept) = n /\ DOMAIN kept = 1..n
  BY <1>2
<1>4. PICK m \in Nat : Len(o.mount) = m /\ DOMAIN o.mount = 1..m
  OBVIOUS
<1> DEFINE changed == [k \in 1..n |-> BoundMount(o, kept[k])]
           T == S \cup ToSet(o.mount) \cup {changed[k] : k \in 1..n}
<1>5. S \subseteq T /\ ToSet(o.mount) \subseteq T
  OBVIOUS
<1>6. changed \in [1..n -> T] /\ DOMAIN changed = 1..n
  OBVIOUS
<1> HIDE DEF changed, T
<1>7. BaseMounts(entries) \in Seq(T) /\ kept \in Seq(T) /\ o.mount \in Seq(T)
  BY <1>1, <1>2, <1>5, LargerLists
<1>8. changed \in Seq(T) /\ Len(changed) = n
  BY ONLY <1>6, n \in Nat
<1>9. PatchedMounts(entries, o) = changed \o o.mount
  BY <1>3, Zenon DEF PatchedMounts, changed
<1>10. PICK x \in Seq(T) : x = o.mount /\ Len(x) = m
  BY <1>4, <1>7
<1>11. PICK u : u = changed \o x
  OBVIOUS
<1>12. /\ u \in Seq(T) /\ Len(u) = n + m
       /\ \A k \in 1..n : u[k] = changed[k]
       /\ \A k \in 1..m : u[n + k] = x[k]
  <2>1. u \in Seq(T) /\ Len(u) = n + m /\ \A k \in 1..(n + m) : u[k] = IF k <= n THEN changed[k] ELSE x[k - n]
    BY ONLY <1>8, <1>10, <1>11, n \in Nat, m \in Nat, x \in Seq(T), ConcatProperties
  <2>2. ASSUME NEW k \in 1..n PROVE u[k] = changed[k]
    BY <2>1
  <2>3. ASSUME NEW k \in 1..m PROVE u[n + k] = x[k]
    <3>1. n + k \in 1..(n + m) /\ ~(n + k <= n) /\ (n + k) - n = k
      OBVIOUS
    <3>2. QED
      BY <2>1, <3>1
  <2>4. QED
    BY <2>1, <2>2, <2>3
<1>13. \A k \in 1..n : u[k] = BoundMount(o, kept[k])
  BY <1>12 DEF changed
<1>14. u = PatchedMounts(entries, o)
  BY <1>9, <1>10, <1>11, Zenon
<1>15. /\ changed \o o.mount = PatchedMounts(entries, o)
       /\ \A k \in 1..m : u[n + k] = o.mount[k]
  BY <1>9, <1>10, <1>12, Zenon
<1>16. Patches(entries, o, kept, n, m, T)
  <2>1. changed = [k \in 1..n |-> BoundMount(o, kept[k])]
    BY DEF changed
  <2>2. QED
    BY <1>3, <1>4, <1>7, <1>8, <1>12, <1>13, <1>14, <1>15, <2>1, Zenon DEF Patches
<1>17. QED
  BY <1>16, Zenon

-------------------------------------------------------------------------------
(* What a compilation is given.                                              *)

MatchOf(matches, id) ==
    CASE matches = <<>> -> [found |-> "not found", component |-> ComponentFile(id, <<>>)]
      [] Len(matches) = 1 -> [found |-> "one", component |-> matches[1].holds[id]]
      [] OTHER -> [found |-> "ambiguous", component |-> ComponentFile(id, <<>>)]

\* The libraries of a project are its own first, and local ones after it.
LEMMA LibrariesAre ==
    ASSUME NEW a, IsProject(a)
    PROVE  \E U : /\ Libraries(a) \in Seq(U) /\ LibrariesAndHub(a) \in Seq(U)
                  /\ 1 \in DOMAIN Libraries(a) /\ Libraries(a)[1] = a.own
                  /\ 1 \in DOMAIN LibrariesAndHub(a) /\ LibrariesAndHub(a)[1] = a.own
                  /\ \A i \in DOMAIN Libraries(a) : Libraries(a)[i].kind = "local"
<1> DEFINE U == {a.own, a.hub} \cup ToSet(a.extra)
<1>1. /\ a.extra \in Seq(ToSet(a.extra)) /\ a.own.kind = "local"
      /\ \A i \in DOMAIN a.extra : a.extra[i].kind = "local"
  BY DEF IsProject
<1>2. PICK b \in U, c \in U : b = a.own /\ c = a.hub
  OBVIOUS
<1>3. ToSet(a.extra) \subseteq U
  OBVIOUS
<1> HIDE DEF U
<1>4. PICK x \in Seq(U) : x = a.extra
  BY <1>1, <1>3, LargerLists
<1>5. PICK n \in Nat : n = Len(x) /\ DOMAIN x = 1..n
  OBVIOUS
<1>6. PICK o \in Seq(U), p \in Seq(U) : o = <<b>> /\ p = <<b, c>>
  <2>1. <<b>> \in Seq(U) /\ <<b, c>> \in Seq(U)
    BY ONLY b \in U, c \in U
  <2>2. QED
    BY <2>1, Zenon
<1>7. Len(o) = 1 /\ o[1] = b /\ Len(p) = 2 /\ p[1] = b
  BY <1>6
<1>8. /\ o \o x \in Seq(U) /\ Len(o \o x) = 1 + n
      /\ \A i \in 1..(1 + n) : (o \o x)[i] = IF i <= 1 THEN o[i] ELSE x[i - 1]
  BY ONLY <1>5, <1>7, o \in Seq(U), x \in Seq(U), n \in Nat, ConcatProperties
<1>9. /\ p \o x \in Seq(U) /\ Len(p \o x) = 2 + n
      /\ \A i \in 1..(2 + n) : (p \o x)[i] = IF i <= 2 THEN p[i] ELSE x[i - 2]
  <2>1. /\ p \o x \in Seq(U) /\ Len(p \o x) = Len(p) + Len(x)
        /\ \A i \in 1..(Len(p) + Len(x)) : (p \o x)[i] = IF i <= Len(p) THEN p[i] ELSE x[i - Len(p)]
    BY ONLY p \in Seq(U), x \in Seq(U), ConcatProperties
  <2>2. Len(p) = 2 /\ Len(x) = n
    BY <1>5, <1>7
  <2>3. QED
    BY <2>1, <2>2, Zenon
<1>10. PICK s \in Seq(U), t \in Seq(U) : s = o \o x /\ t = p \o x
  BY <1>8, <1>9, Zenon
<1>11. /\ DOMAIN s = 1..(1 + n) /\ DOMAIN t = 1..(2 + n)
       /\ s[1] = b /\ t[1] = b /\ \A i \in 1..(1 + n) : i # 1 => s[i] = x[i - 1]
  <2>1. 1 \in 1..(1 + n) /\ 1 \in 1..(2 + n) /\ 1 <= 1 /\ 1 <= 2
    OBVIOUS
  <2>2. s[1] = b /\ t[1] = b
    BY <1>7, <1>8, <1>9, <1>10, <2>1, Zenon
  <2>3. ASSUME NEW i \in 1..(1 + n), i # 1 PROVE s[i] = x[i - 1]
    <3>1. ~(i <= 1)
      BY <2>3
    <3>2. QED
      BY <1>8, <1>10, <3>1, Zenon
  <2>4. Len(s) = 1 + n /\ Len(t) = 2 + n
    BY <1>8, <1>9, <1>10, Zenon
  <2>5. DOMAIN s = 1..(1 + n) /\ DOMAIN t = 1..(2 + n)
    BY ONLY <2>4, s \in Seq(U), t \in Seq(U)
  <2>6. QED
    BY <2>2, <2>3, <2>5
<1>12. \A i \in DOMAIN s : s[i].kind = "local"
  <2> TAKE i \in DOMAIN s
  <2>1. CASE i = 1
    BY <1>1, <1>2, <1>11, <2>1
  <2>2. CASE i # 1
    <3>1. i - 1 \in DOMAIN x /\ s[i] = x[i - 1]
      BY <1>5, <1>11, <2>2
    <3>2. QED
      BY <1>1, <1>4, <3>1
  <2>3. QED
    BY <2>1, <2>2
<1>13. s = Libraries(a) /\ t = LibrariesAndHub(a)
  BY <1>2, <1>4, <1>6, <1>10, Zenon DEF Libraries, LibrariesAndHub
<1>14. 1 \in DOMAIN s /\ 1 \in DOMAIN t
  BY <1>11
<1>15. QED
  BY <1>2, <1>11, <1>12, <1>13, <1>14, Zenon

\* Where a component is found: not in the Hub what a library has, nowhere what no library
\* has, and in the project itself what it has.
LEMMA LibraryResolves ==
    ASSUME NEW a, IsProject(a), NEW id
    PROVE  /\ (\E i \in DOMAIN Libraries(a) : id \in DOMAIN Libraries(a)[i].holds) =>
                  resolve_component_dir(LibrariesAndHub(a), id) = resolve_component_dir(Libraries(a), id)
           /\ (\A i \in DOMAIN Libraries(a) : id \notin DOMAIN Libraries(a)[i].holds) =>
                  resolve_component_dir(Libraries(a), id).found = "not found"
           /\ id \in DOMAIN a.own.holds =>
                  \A s \in {Libraries(a), LibrariesAndHub(a)} :
                      resolve_component_dir(s, id).found = "one" =>
                          resolve_component_dir(s, id).component = a.own.holds[id]
           /\ \A s : resolve_component_dir(s, id).found \in {"not found", "one", "ambiguous"}
<1>1. PICK L, H : L = Libraries(a) /\ H = LibrariesAndHub(a)
  OBVIOUS
<1>2. PICK U : /\ L \in Seq(U) /\ H \in Seq(U)
               /\ 1 \in DOMAIN L /\ L[1] = a.own /\ 1 \in DOMAIN H /\ H[1] = a.own
               /\ \A i \in DOMAIN L : L[i].kind = "local"
  BY <1>1, LibrariesAre, Zenon
<1>3. Defining(H, "local", id) = Defining(L, "local", id)
  BY <1>1, HubIsBehind, Zenon
<1>4. \A s : resolve_component_dir(s, id) =
                 MatchOf(IF Defining(s, "local", id) # <<>> THEN Defining(s, "local", id) ELSE Defining(s, "hub", id), id)
  BY Zenon DEF resolve_component_dir, MatchOf
<1>5. /\ Defining(L, "local", id) = <<>> <=> \A i \in DOMAIN L : ~(L[i].kind = "local" /\ id \in DOMAIN L[i].holds)
      /\ id \in DOMAIN L[1].holds => Defining(L, "local", id)[1] = L[1]
  <2>1. /\ Defining(L, "local", id) = <<>> <=> \A i \in DOMAIN L : ~(L[i].kind = "local" /\ id \in DOMAIN L[i].holds)
        /\ 1 \in DOMAIN L /\ L[1].kind = "local" /\ id \in DOMAIN L[1].holds => Defining(L, "local", id)[1] = L[1]
    BY ONLY <1>2, DefiningTells
  <2>2. QED
    BY <1>2, <2>1, Zenon
<1>6. Defining(L, "hub", id) = <<>>
  <2>1. Defining(L, "hub", id) = <<>> <=> \A i \in DOMAIN L : ~(L[i].kind = "hub" /\ id \in DOMAIN L[i].holds)
    BY ONLY <1>2, DefiningTells
  <2>2. \A i \in DOMAIN L : L[i].kind # "hub"
    BY <1>2
  <2>3. QED
    BY <2>1, <2>2, Zenon
<1>7. ASSUME \E i \in DOMAIN L : id \in DOMAIN L[i].holds
      PROVE  resolve_component_dir(H, id) = resolve_component_dir(L, id)
  <2>1. Defining(L, "local", id) # <<>>
    BY <1>2, <1>5, <1>7, Zenon
  <2>2. QED
    BY <1>3, <1>4, <2>1, Zenon
<1>8. ASSUME \A i \in DOMAIN L : id \notin DOMAIN L[i].holds
      PROVE  resolve_component_dir(L, id).found = "not found"
  <2>1. Defining(L, "local", id) = <<>>
    BY <1>5, <1>8, Zenon
  <2>2. resolve_component_dir(L, id) = MatchOf(<<>>, id)
    BY <1>4, <1>6, <2>1, Zenon
  <2>3. PICK e : e = <<>>
    OBVIOUS
  <2>4. MatchOf(e, id) = [found |-> "not found", component |-> ComponentFile(id, <<>>)]
    <3>1. e = <<>> /\ Len(e) # 1
      BY <2>3
    <3>2. QED
      BY ONLY <3>1, Zenon DEF MatchOf
  <2>5. MatchOf(e, id).found = "not found"
    <3>1. PICK r, c : r = MatchOf(e, id) /\ c = ComponentFile(id, <<>>)
      OBVIOUS
    <3>2. r = [found |-> "not found", component |-> c]
      BY <2>4, <3>1, Zenon
    <3>3. r.found = "not found"
      BY ONLY <3>2
    <3>4. QED
      BY <3>1, <3>3, Zenon
  <2>6. QED
    BY <2>2, <2>3, <2>5, Zenon
<1>9. \A m : MatchOf(m, id).found \in {"not found", "one", "ambiguous"}
  BY DEF MatchOf
<1>10. ASSUME id \in DOMAIN a.own.holds, NEW s \in {L, H}, resolve_component_dir(s, id).found = "one"
       PROVE  resolve_component_dir(s, id).component = a.own.holds[id]
  <2>1. PICK m : m = Defining(L, "local", id)
    OBVIOUS
  <2>2. m # <<>> /\ m[1] = a.own
    BY <1>2, <1>5, <1>10, <2>1, Zenon
  <2>3. resolve_component_dir(s, id) = MatchOf(m, id)
    BY <1>3, <1>4, <1>10, <2>1, <2>2, Zenon
  <2>4. CASE Len(m) = 1
    BY <2>2, <2>3, <2>4 DEF MatchOf
  <2>5. CASE Len(m) # 1
    BY <1>10, <2>2, <2>3, <2>5 DEF MatchOf
  <2>6. QED
    BY <2>4, <2>5
<1>11. QED
  BY <1>1, <1>4, <1>7, <1>8, <1>9, <1>10, Zenon

InlineOf(a) == parse_profile(a.authored).inline
PatchUnder(a) == Overlaid(BaseMounts(a.authored), a.overlay)
MountsOf(a) == PatchUnder(a).profile.components
FaultAt(a, sources, i) == FaultOf(Found(InlineOf(a), sources, MountsOf(a)[i].use), MountsOf(a)[i])
Faulty(a, sources) == {i \in DOMAIN MountsOf(a) : FaultAt(a, sources, i) # ""}
FirstOfFaults(a, sources) ==
    IF ~parse_profile(a.authored).ok THEN "malformed"
    ELSE IF PatchUnder(a).outcome # "applied" THEN PatchUnder(a).outcome
    ELSE IF Faulty(a, sources) # {} THEN FaultAt(a, sources, Min(Faulty(a, sources))) ELSE ""
LoadedFrom(a, sources) ==
    IF parse_profile(a.authored).ok /\ PatchUnder(a).outcome = "applied" /\ Faulty(a, sources) = {}
    THEN [id \in Uses(MountsOf(a)) |-> Found(InlineOf(a), sources, id).component]
    ELSE <<>>
CompiledFrom(a, sources) == compile_project_with_provenance(a.authored, sources, a.overlay)

\* What compile_project_with_provenance gives, part by part.
LEMMA CompilesTo ==
    ASSUME NEW a, NEW sources
    PROVE  /\ CompiledFrom(a, sources) = [fault |-> FirstOfFaults(a, sources), profile |-> PatchUnder(a).profile,
                                          components |-> LoadedFrom(a, sources)]
           /\ CompiledFrom(a, sources).fault = FirstOfFaults(a, sources)
           /\ CompiledFrom(a, sources).components = LoadedFrom(a, sources)
<1>1. CompiledFrom(a, sources) = [fault |-> FirstOfFaults(a, sources), profile |-> PatchUnder(a).profile,
                                  components |-> LoadedFrom(a, sources)]
  BY Zenon DEF CompiledFrom, compile_project_with_provenance, FirstOfFaults, LoadedFrom, Faulty, FaultAt,
               MountsOf, InlineOf, PatchUnder, BaseMounts
<1>2. PICK f, p, c : f = FirstOfFaults(a, sources) /\ p = PatchUnder(a).profile /\ c = LoadedFrom(a, sources)
  OBVIOUS
<1>3. PICK r : r = CompiledFrom(a, sources) /\ r = [fault |-> f, profile |-> p, components |-> c]
  BY <1>1, <1>2, Zenon
<1>4. r.fault = f /\ r.components = c
  BY ONLY <1>3
<1>5. QED
  BY <1>1, <1>2, <1>3, <1>4, Zenon

\* The mounts of a project are a list, whatever its overlay does.
LEMMA MountsAreListed ==
    ASSUME NEW a, IsProject(a)
    PROVE  /\ \E T : MountsOf(a) \in Seq(T)
           /\ PatchUnder(a).outcome \in {"refused", "panic", "applied"}
<1>1. a.authored \in Seq(ToSet(a.authored))
  BY DEF IsProject
<1>2. PICK S : BaseMounts(a.authored) \in Seq(S)
  BY <1>1, BaseMountsAre, Zenon
<1> DEFINE base == ProfileFile(FALSE, BaseMounts(a.authored))
<1>3. CASE a.overlay = <<>>
  <2>1. PatchUnder(a) = [outcome |-> "applied", profile |-> base]
    BY <1>3, Zenon DEF PatchUnder, Overlaid
  <2>2. base.components = BaseMounts(a.authored)
    BY DEF ProfileFile
  <2> HIDE DEF base
  <2>3. PICK r, b : r = PatchUnder(a) /\ b = base /\ r = [outcome |-> "applied", profile |-> b]
    BY <2>1, Zenon
  <2>4. r.outcome = "applied" /\ r.profile = b
    BY ONLY <2>3
  <2>5. MountsOf(a) \in Seq(S)
    BY <1>2, <2>2, <2>3, <2>4, Zenon DEF MountsOf
  <2>6. QED
    BY <2>3, <2>4, <2>5, Zenon
<1>4. CASE a.overlay # <<>>
  <2>1. PatchUnder(a) = PatchOf(a.authored, a.overlay[1])
    BY <1>4, Zenon DEF PatchUnder, Overlaid, PatchOf
  <2>2. PICK o : o = a.overlay[1] /\ o.mount \in Seq(ToSet(o.mount))
    BY <1>4 DEF IsProject
  <2>3. PICK T : PatchedMounts(a.authored, o) \in Seq(T)
    BY <1>1, <2>2, PatchedMountsAre, Zenon DEF Patches
  <2>4. MountsOf(a) = PatchedMounts(a.authored, o) /\ PatchUnder(a).outcome \in {"refused", "panic", "applied"}
    BY <2>1, <2>2, OverlayGives, Zenon DEF MountsOf
  <2>5. QED
    BY <2>3, <2>4, Zenon
<1>5. QED
  BY <1>3, <1>4

\* The fault that is reported is the fault of a mount.
LEMMA FirstFaultIsOne ==
    ASSUME NEW a, IsProject(a), NEW sources, Faulty(a, sources) # {}
    PROVE  /\ Min(Faulty(a, sources)) \in DOMAIN MountsOf(a)
           /\ FaultAt(a, sources, Min(Faulty(a, sources))) # ""
<1>1. PICK T : MountsOf(a) \in Seq(T)
  BY MountsAreListed, Zenon
<1>2. DOMAIN MountsOf(a) \subseteq Nat
  BY <1>1
<1>3. Faulty(a, sources) \subseteq Nat
  BY <1>2, Zenon DEF Faulty
<1>4. PICK F : F = Faulty(a, sources)
  OBVIOUS
<1>5. Min(F) \in F
  BY <1>3, <1>4, MinIsLeast
<1>6. QED
  BY <1>4, <1>5, Zenon DEF Faulty

NeedsHub(a) == project_needs_hub(a.authored, Libraries(a), a.overlay)

\* The Hub is needed for a mount that is neither written in place nor in a library.
LEMMA NeededIs ==
    ASSUME NEW a
    PROVE  NeedsHub(a) <=> \E i \in DOMAIN MountsOf(a) :
                /\ MountsOf(a)[i].use \notin DOMAIN InlineOf(a)
                /\ \A s \in DOMAIN Libraries(a) : MountsOf(a)[i].use \notin DOMAIN Libraries(a)[s].holds
  BY Zenon DEF NeedsHub, project_needs_hub, MountsOf, PatchUnder, InlineOf, BaseMounts

\* Offline, a project that does not need the Hub loses nothing.
LEMMA OfflineLosesNothing ==
    ASSUME NEW a, IsProject(a), ~NeedsHub(a)
    PROVE  CompiledFrom(a, Libraries(a)) = CompiledFrom(a, LibrariesAndHub(a))
<1> DEFINE L == Libraries(a)
           H == LibrariesAndHub(a)
<1>1. ASSUME NEW i \in DOMAIN MountsOf(a)
      PROVE  Found(InlineOf(a), L, MountsOf(a)[i].use) = Found(InlineOf(a), H, MountsOf(a)[i].use)
  <2>1. PICK id : id = MountsOf(a)[i].use
    OBVIOUS
  <2>2. CASE id \in DOMAIN InlineOf(a)
    BY <2>1, <2>2, Zenon DEF Found
  <2>3. CASE id \notin DOMAIN InlineOf(a)
    <3>1. \E s \in DOMAIN L : id \in DOMAIN L[s].holds
      BY <2>1, <2>3, NeededIs, Zenon
    <3>2. resolve_component_dir(H, id) = resolve_component_dir(L, id)
      BY <3>1, LibraryResolves, Zenon
    <3>3. QED
      BY <2>1, <2>3, <3>2, Zenon DEF Found
  <2>4. QED
    BY <2>2, <2>3
<1> HIDE DEF L, H
<1>2. \A i \in DOMAIN MountsOf(a) : FaultAt(a, L, i) = FaultAt(a, H, i)
  BY <1>1, Zenon DEF FaultAt
<1>3. Faulty(a, L) = Faulty(a, H)
  <2>1. PICK F, G : F = Faulty(a, L) /\ G = Faulty(a, H)
    OBVIOUS
  <2>2. \A i : i \in F <=> i \in G
    BY <1>2, <2>1, Zenon DEF Faulty
  <2>3. F = G
    BY ONLY <2>2
  <2>4. QED
    BY <2>1, <2>3, Zenon
<1>4. FirstOfFaults(a, L) = FirstOfFaults(a, H)
  <2>1. CASE Faulty(a, L) = {}
    BY <1>3, <2>1, Zenon DEF FirstOfFaults
  <2>2. CASE Faulty(a, L) # {}
    <3>1. Min(Faulty(a, L)) \in DOMAIN MountsOf(a)
      BY <2>2, FirstFaultIsOne, Zenon
    <3>2. FaultAt(a, L, Min(Faulty(a, L))) = FaultAt(a, H, Min(Faulty(a, H)))
      BY <1>2, <1>3, <3>1, Zenon
    <3>3. QED
      BY <1>3, <3>2, Zenon DEF FirstOfFaults
  <2>3. QED
    BY <2>1, <2>2
<1>5. LoadedFrom(a, L) = LoadedFrom(a, H)
  <2> DEFINE f == [id \in Uses(MountsOf(a)) |-> Found(InlineOf(a), L, id).component]
             g == [id \in Uses(MountsOf(a)) |-> Found(InlineOf(a), H, id).component]
  <2>1. \A id \in Uses(MountsOf(a)) : Found(InlineOf(a), L, id).component = Found(InlineOf(a), H, id).component
    BY <1>1, Zenon DEF Uses
  <2>2. f = g
    BY <2>1, Zenon
  <2>3. QED
    BY <1>3, <2>2, Zenon DEF LoadedFrom
<1>6. QED
  <2>1. PICK r, q : r = FirstOfFaults(a, L) /\ q = LoadedFrom(a, L)
    OBVIOUS
  <2>2. CompiledFrom(a, L) = [fault |-> r, profile |-> PatchUnder(a).profile, components |-> q]
    BY <2>1, CompilesTo, Zenon
  <2>3. CompiledFrom(a, H) = [fault |-> r, profile |-> PatchUnder(a).profile, components |-> q]
    BY <1>4, <1>5, <2>1, CompilesTo, Zenon
  <2>4. QED
    BY <2>2, <2>3, Zenon DEF L, H

\* One that needs it does not compile without.
LEMMA NeedyFailsOffline ==
    ASSUME NEW a, IsProject(a), NeedsHub(a), parse_profile(a.authored).ok, PatchUnder(a).outcome = "applied"
    PROVE  CompiledFrom(a, Libraries(a)).fault # ""
<1>1. PICK i \in DOMAIN MountsOf(a) :
          /\ MountsOf(a)[i].use \notin DOMAIN InlineOf(a)
          /\ \A s \in DOMAIN Libraries(a) : MountsOf(a)[i].use \notin DOMAIN Libraries(a)[s].holds
  BY NeededIs, Zenon
<1>2. PICK id : id = MountsOf(a)[i].use
  OBVIOUS
<1>3. resolve_component_dir(Libraries(a), id).found = "not found"
  BY <1>1, <1>2, LibraryResolves, Zenon
<1>4. Found(InlineOf(a), Libraries(a), id).found = "not found"
  BY <1>1, <1>2, <1>3, Zenon DEF Found
<1>5. "not found" # "one" /\ "not found" # ""
  OBVIOUS
<1>6. FaultAt(a, Libraries(a), i) # ""
  BY <1>2, <1>4, <1>5, Zenon DEF FaultAt, FaultOf
<1>7. i \in Faulty(a, Libraries(a))
  BY <1>1, <1>6, Zenon DEF Faulty
<1>8. FaultAt(a, Libraries(a), Min(Faulty(a, Libraries(a)))) # ""
  BY <1>7, FirstFaultIsOne, Zenon
<1>9. FirstOfFaults(a, Libraries(a)) # ""
  BY <1>7, <1>8, Zenon DEF FirstOfFaults
<1>10. QED
  BY <1>9, CompilesTo, Zenon

\* A component of the project is the project's, whatever the Hub has.
LEMMA OwnIsUsed ==
    ASSUME NEW a, IsProject(a), NEW sources \in {Libraries(a), LibrariesAndHub(a)},
           CompiledFrom(a, sources).fault = "",
           NEW id \in DOMAIN CompiledFrom(a, sources).components,
           id \in DOMAIN a.own.holds, id \notin DOMAIN InlineOf(a)
    PROVE  CompiledFrom(a, sources).components[id] = a.own.holds[id]
<1>1. FirstOfFaults(a, sources) = "" /\ CompiledFrom(a, sources).components = LoadedFrom(a, sources)
  BY CompilesTo, Zenon
<1>2. "malformed" # "" /\ "refused" # "" /\ "panic" # ""
  OBVIOUS
<1>3. PatchUnder(a).outcome \in {"refused", "panic", "applied"}
  BY MountsAreListed, Zenon
<1>4. parse_profile(a.authored).ok /\ PatchUnder(a).outcome = "applied"
  BY <1>1, <1>2, <1>3, Zenon DEF FirstOfFaults
<1>5. Faulty(a, sources) = {}
  BY <1>1, <1>4, FirstFaultIsOne, Zenon DEF FirstOfFaults
<1> DEFINE f == [c \in Uses(MountsOf(a)) |-> Found(InlineOf(a), sources, c).component]
<1>6. LoadedFrom(a, sources) = f
  BY <1>4, <1>5, Zenon DEF LoadedFrom
<1>7. id \in Uses(MountsOf(a)) /\ f[id] = Found(InlineOf(a), sources, id).component
  <2>1. id \in DOMAIN f
    BY <1>1, <1>6, Zenon
  <2>2. QED
    BY <2>1
<1>8. PICK i \in DOMAIN MountsOf(a) : MountsOf(a)[i].use = id
  BY <1>7, Zenon DEF Uses
<1>9. FaultAt(a, sources, i) = ""
  BY <1>5, <1>8, Zenon DEF Faulty
<1>10. Found(InlineOf(a), sources, id) = resolve_component_dir(sources, id)
  BY Zenon DEF Found
<1>11. resolve_component_dir(sources, id).found \in {"not found", "one", "ambiguous"}
  BY LibraryResolves, Zenon
<1>12. "not found" # "" /\ "ambiguous" # ""
  OBVIOUS
<1>13. resolve_component_dir(sources, id).found = "one"
  BY <1>8, <1>9, <1>10, <1>11, <1>12, Zenon DEF FaultAt, FaultOf
<1>14. resolve_component_dir(sources, id).component = a.own.holds[id]
  BY <1>13, LibraryResolves, Zenon
<1>15. QED
  BY <1>1, <1>6, <1>7, <1>10, <1>14, Zenon

\* What `warble compile` gives without a fault is compiled from the libraries, with the
\* Hub or without.
LEMMA CompiledFromOneOfTwo ==
    ASSUME NEW a, run_compile(a).fault = ""
    PROVE  \E sources \in {Libraries(a), LibrariesAndHub(a)} : run_compile(a) = CompiledFrom(a, sources)
<1> DEFINE chosen == SourcesOf(a)
           local == <<a.own>> \o a.extra
           both == <<a.own, a.hub>> \o a.extra
           readable == Overlaid(parse_profile(a.authored).mounts, a.overlay).outcome = "applied"
           fetched == a.hub_version \/ (readable /\ project_needs_hub(a.authored, local, a.overlay))
<1>1. SourcesOf(a) = IF a.hub_dir THEN [ok |-> TRUE, sources |-> both]
                     ELSE IF fetched THEN [ok |-> a.reachable, sources |-> both]
                     ELSE [ok |-> TRUE, sources |-> local]
  BY Zenon DEF SourcesOf
<1>2. local = Libraries(a) /\ both = LibrariesAndHub(a)
  BY Zenon DEF Libraries, LibrariesAndHub
<1>3. chosen.sources \in {Libraries(a), LibrariesAndHub(a)}
  <2>1. PICK l, b, r, c : l = Libraries(a) /\ b = LibrariesAndHub(a) /\ r = a.reachable /\ c = SourcesOf(a)
    OBVIOUS
  <2>2. \/ c = [ok |-> TRUE, sources |-> b] \/ c = [ok |-> r, sources |-> b] \/ c = [ok |-> TRUE, sources |-> l]
    BY <1>1, <1>2, <2>1, Zenon
  <2>3. c.sources \in {l, b}
    BY ONLY <2>2
  <2>4. QED
    BY <2>1, <2>3, Zenon
<1>4. CASE ~parse_profile(a.authored).ok \/ ~chosen.ok
  <2>1. PICK f, p : f = (IF chosen.ok THEN "malformed" ELSE "unreachable") /\ p = ProfileFile(FALSE, <<>>)
    OBVIOUS
  <2>2. PICK r : r = run_compile(a) /\ r = [fault |-> f, profile |-> p, components |-> <<>>]
    BY <1>4, <2>1, Zenon DEF run_compile
  <2>3. r.fault = f
    BY ONLY <2>2
  <2>4. f = "malformed" \/ f = "unreachable"
    BY <2>1, Zenon
  <2>5. "malformed" # "" /\ "unreachable" # ""
    OBVIOUS
  <2>6. QED
    BY <2>2, <2>3, <2>4, <2>5, Zenon
<1>5. CASE parse_profile(a.authored).ok /\ chosen.ok
  <2>1. run_compile(a) = CompiledFrom(a, chosen.sources)
    BY <1>5, Zenon DEF run_compile, CompiledFrom
  <2> HIDE DEF chosen
  <2>2. QED
    BY <1>3, <2>1, Zenon
<1>6. QED
  BY <1>4, <1>5, Zenon

\* A project never needs the Hub for what it gets without it, and never gets it otherwise.
LEMMA HubIsForTheNeedy ==
    ASSUME NEW a, IsProject(a)
    PROVE  HubOnlyWhenNeeded(a, run_compile(a))
<1>1. parse_profile(a.authored).ok /\ ~NeedsHub(a) => CompiledFrom(a, Libraries(a)) = CompiledFrom(a, LibrariesAndHub(a))
  BY OfflineLosesNothing, Zenon
<1>2. parse_profile(a.authored).ok /\ PatchUnder(a).outcome = "applied" /\ NeedsHub(a) => CompiledFrom(a, Libraries(a)).fault # ""
  BY NeedyFailsOffline, Zenon
<1>3. ASSUME run_compile(a).fault = "", NEW id \in DOMAIN run_compile(a).components,
             id \in DOMAIN a.own.holds, id \notin DOMAIN InlineOf(a)
      PROVE  run_compile(a).components[id] = a.own.holds[id]
  <2>1. PICK sources \in {Libraries(a), LibrariesAndHub(a)} : run_compile(a) = CompiledFrom(a, sources)
    BY <1>3, CompiledFromOneOfTwo, Zenon
  <2>2. CompiledFrom(a, sources).fault = "" /\ id \in DOMAIN CompiledFrom(a, sources).components
    BY <1>3, <2>1, Zenon
  <2>3. CompiledFrom(a, sources).components[id] = a.own.holds[id]
    BY <1>3, <2>2, OwnIsUsed, Zenon
  <2>4. QED
    BY <2>1, <2>3, Zenon
<1>4. QED
  BY <1>1, <1>2, <1>3, Zenon DEF HubOnlyWhenNeeded, CompiledFrom, NeedsHub, Libraries, LibrariesAndHub, PatchUnder, BaseMounts, InlineOf

-------------------------------------------------------------------------------
(* An overlay changes what it names and nothing else.                        *)

\* The places of a list whose mount none of these names.
MountsNotOf(T, X) == {m \in T : m.use \notin X}

\* No two mounts are of one component.
OneOfEach(mounts) == \A i, j \in DOMAIN mounts : mounts[i].use = mounts[j].use => i = j

\* To leave mounts out by name is a selection by value.
LEMMA OutsideIsOfThese ==
    ASSUME NEW T, NEW s \in Seq(T), NEW X
    PROVE  /\ MountsOutside(s, X) = OfThese(s, MountsNotOf(T, X))
           /\ {i \in DOMAIN s : s[i].use \notin X} = Having(s, DOMAIN s, MountsNotOf(T, X))
<1>1. \A i \in DOMAIN s : s[i] \in T
  OBVIOUS
<1>2. {i \in DOMAIN s : s[i].use \notin X} = Having(s, DOMAIN s, MountsNotOf(T, X))
  BY <1>1, Zenon DEF Having, MountsNotOf
<1>3. QED
  BY <1>2, Zenon DEF MountsOutside, OfThese

\* The mounts that are kept are mounts of the profile, each once and as it was.
LEMMA KeptAreOfTheProfile ==
    ASSUME NEW T, NEW B \in Seq(T), NEW X, NEW n \in Nat, NEW kept,
           kept = MountsOutside(B, X), DOMAIN kept = 1..n,
           OneOfEach(B)
    PROVE  /\ \A k \in 1..n : \E i \in DOMAIN B : kept[k] = B[i] /\ B[i].use \notin X
           /\ OneOfEach(kept)
<1>1. PICK I : I = {i \in DOMAIN B : B[i].use \notin X}
  OBVIOUS
<1>2. PICK h : Selects(h, B, I, Len(B)) /\ Picked(B, I) = Listed(h, B)
  BY ONLY B \in Seq(T), PickedPlaces
<1>3. PICK m \in Nat : /\ m = Len(h) /\ DOMAIN h = 1..m
                       /\ \A k \in 1..m : h[k] \in I /\ h[k] \in 1..Len(B)
                       /\ \A k, l \in 1..m : k < l => h[k] < h[l]
  <2>1. PICK N \in Nat : N = Len(B)
    OBVIOUS
  <2>2. Selects(h, B, I, N)
    BY <1>2, <2>1
  <2>3. PICK m \in Nat : /\ m = Len(h) /\ DOMAIN h = 1..m
                         /\ \A k \in 1..m : h[k] \in I /\ h[k] \in 1..N
                         /\ \A k, l \in 1..m : k < l => h[k] < h[l]
    BY ONLY <2>2, N \in Nat, SelectsTells
  <2>4. QED
    BY <2>1, <2>3
<1>4. DOMAIN kept = 1..m /\ \A k \in 1..m : kept[k] = B[h[k]]
  <2>1. kept = Listed(h, B)
    BY <1>1, <1>2, Zenon DEF MountsOutside
  <2>2. QED
    BY <1>3, <2>1 DEF Listed
<1>5. \A k \in 1..n : k \in 1..m
  BY <1>4, Zenon
<1>6. \A k \in 1..n : h[k] \in DOMAIN B /\ B[h[k]].use \notin X /\ kept[k] = B[h[k]]
  BY <1>1, <1>3, <1>4, <1>5, Zenon
<1>7. ASSUME NEW k \in 1..n, NEW l \in 1..n, kept[k].use = kept[l].use
      PROVE  k = l
  <2>1. h[k] = h[l]
    <3>1. PICK i \in DOMAIN B, j \in DOMAIN B : i = h[k] /\ j = h[l]
      BY <1>6, Zenon
    <3>2. B[i].use = B[j].use
      BY <1>6, <1>7, <3>1, Zenon
    <3>3. QED
      BY <3>1, <3>2, Zenon DEF OneOfEach
  <2>2. h[k] \in 1..Len(B) /\ h[l] \in 1..Len(B) /\ k \in 1..m /\ l \in 1..m
    BY <1>3, <1>5, Zenon
  <2>3. QED
    BY ONLY <1>3, <2>1, <2>2, k \in 1..n, l \in 1..n, n \in Nat, m \in Nat, B \in Seq(T)
<1>8. QED
  BY <1>6, <1>7, Zenon DEF OneOfEach

BaseOf(entries) == ProfileFile(FALSE, BaseMounts(entries))
IsPatch(entries, o) ==
    /\ entries \in Seq(ToSet(entries)) /\ o.mount \in Seq(ToSet(o.mount))
    /\ parse_profile(entries).ok /\ PatchOf(entries, o).outcome = "applied"

\* What an applied overlay does not contradict, in terms of the mounts.
LEMMA AppliedAgrees ==
    ASSUME NEW entries, NEW o, IsPatch(entries, o)
    PROVE  /\ Uses(o.mount) \cap o.unmount = {}
           /\ Cardinality(Uses(o.mount)) = Len(o.mount)
           /\ DOMAIN o.bind \subseteq Uses(BaseMounts(entries))
           /\ Uses(o.mount) \cap Uses(BaseMounts(entries)) = {}
           /\ DOMAIN o.bind \cap o.unmount = {}
<1>1. /\ ~Contradictory(BaseOf(entries), o) /\ DOMAIN o.bind \cap o.unmount = {}
      /\ BaseOf(entries).components = BaseMounts(entries)
  BY OverlayGives, Zenon DEF IsPatch, BaseOf
<1>2. QED
  BY <1>1, Zenon DEF Contradictory

MountWith(id, bind) == [ProfileComponentMount(id) EXCEPT !.bind = bind]

\* A mount that the overlay changes is of the same component, with the overlay's values
\* over its own.
LEMMA BoundMountIs ==
    ASSUME NEW o, NEW id, NEW bind, NEW m, m = MountWith(id, bind)
    PROVE  /\ BoundMount(o, m).use = id /\ m.use = id
           /\ id \notin DOMAIN o.bind => BoundMount(o, m) = m
           /\ id \in DOMAIN o.bind => BoundMount(o, m).bind = Overridden(m.bind, o.bind[id])
<1>1. m.use = id
  BY DEF MountWith, ProfileComponentMount
<1>2. ASSUME NEW v PROVE Patched(m, v).use = id /\ Patched(m, v).bind = Overridden(m.bind, v)
  <2>1. "bind" \in DOMAIN m
    BY DEF MountWith, ProfileComponentMount
  <2>2. Patched(m, v) = [m EXCEPT !.bind = Overridden(m.bind, v)]
    BY Zenon DEF Patched
  <2>3. PICK w : w = Overridden(m.bind, v)
    OBVIOUS
  <2>4. PICK p : p = [m EXCEPT !.bind = w] /\ p = Patched(m, v)
    BY <2>2, <2>3, Zenon
  <2>5. p.bind = w /\ p.use = m.use
    BY ONLY <2>1, <2>4
  <2>6. QED
    BY <1>1, <2>3, <2>4, <2>5, Zenon
<1>3. QED
  BY <1>1, <1>2, Zenon DEF BoundMount

\* The mounts of a profile that is well formed are of components of their own.
LEMMA BaseMountsAreDistinct ==
    ASSUME NEW entries, entries \in Seq(ToSet(entries)), parse_profile(entries).ok
    PROVE  /\ OneOfEach(BaseMounts(entries))
           /\ \A i \in DOMAIN BaseMounts(entries) : \E bind :
                  BaseMounts(entries)[i] = MountWith(entries[i].id, bind)
           /\ \A i \in DOMAIN BaseMounts(entries) : BaseMounts(entries)[i].use = entries[i].id
<1>1. PICK n \in Nat : /\ DOMAIN BaseMounts(entries) = 1..n /\ DOMAIN entries = 1..n
                       /\ \A i \in 1..n : BaseMounts(entries)[i].use = entries[i].id
  BY BaseMountsAre, Zenon
<1>2. \A i, j \in DOMAIN entries : entries[i].id = entries[j].id => i = j
  <2> DEFINE written == {i \in DOMAIN entries : entries[i].form # "use"}
             Inline(id) == CHOOSE i \in written : entries[i].id = id
             ok == /\ \A i \in DOMAIN entries \ written : ~entries[i].mixed
                   /\ \A i \in written : ~entries[i].mount_fields /\ parse_component(entries[i]).ok
                   /\ \A i \in DOMAIN entries : entries[i].id # ""
                   /\ \A i, j \in DOMAIN entries : entries[i].id = entries[j].id => i = j
             mounts == [i \in DOMAIN entries |->
                        [ProfileComponentMount(entries[i].id) EXCEPT !.bind = entries[i].bind]]
             inline == [id \in {entries[i].id : i \in written} |->
                        parse_component(entries[Inline(id)]).component]
  <2>1. parse_profile(entries) = [ok |-> ok, mounts |-> mounts, inline |-> inline]
    BY Zenon DEF parse_profile
  <2>2. ok => \A i, j \in DOMAIN entries : entries[i].id = entries[j].id => i = j
    OBVIOUS
  <2> HIDE DEF ok, mounts, inline
  <2>3. parse_profile(entries).ok = ok
    BY <2>1
  <2>4. QED
    BY <2>2, <2>3
<1>3. BaseMounts(entries) = [i \in DOMAIN entries |-> [ProfileComponentMount(entries[i].id) EXCEPT !.bind = entries[i].bind]]
  BY DEF BaseMounts, parse_profile
<1>4. \A i \in DOMAIN entries : BaseMounts(entries)[i] = [ProfileComponentMount(entries[i].id) EXCEPT !.bind = entries[i].bind]
  BY <1>3, Zenon
<1>5. OneOfEach(BaseMounts(entries))
  BY <1>1, <1>2, Zenon DEF OneOfEach
<1>6. ASSUME NEW i \in DOMAIN BaseMounts(entries)
      PROVE  \E bind : BaseMounts(entries)[i] = MountWith(entries[i].id, bind)
  <2> WITNESS entries[i].bind
  <2>1. QED
    BY <1>1, <1>4, Zenon DEF MountWith
<1>7. \A i \in DOMAIN BaseMounts(entries) : BaseMounts(entries)[i].use = entries[i].id
  BY <1>1, Zenon
<1>8. QED
  BY <1>5, <1>6, <1>7, Zenon

\* An applied overlay leaves a patched list.
LEMMA PatchIsOf ==
    ASSUME NEW entries, NEW o, IsPatch(entries, o)
    PROVE  \E kept, n, m, T : Patches(entries, o, kept, n, m, T)
<1>1. PICK kept : kept = MountsOutside(BaseMounts(entries), o.unmount)
  OBVIOUS
<1>2. entries \in Seq(ToSet(entries)) /\ o.mount \in Seq(ToSet(o.mount))
  BY Zenon DEF IsPatch
<1>3. \E n, m, T : Patches(entries, o, kept, n, m, T)
  BY <1>1, <1>2, PatchedMountsAre, Zenon
<1>4. QED
  BY <1>3, Zenon

\* A kept mount is one of the profile's, and is changed only where the overlay says.
KeptMount(entries, o, c) ==
    /\ \E i \in DOMAIN BaseMounts(entries) : c = BaseMounts(entries)[i]
    /\ c.use \notin o.unmount /\ c.use \in Uses(BaseMounts(entries))
    /\ BoundMount(o, c).use = c.use
    /\ c.use \notin DOMAIN o.bind => BoundMount(o, c) = c
    /\ c.use \in DOMAIN o.bind => BoundMount(o, c).bind = Overridden(c.bind, o.bind[c.use])

\* Every kept mount is one of the profile's, and no other stands for its component.
LEMMA KeptMountsAre ==
    ASSUME NEW entries, NEW o, IsPatch(entries, o),
           NEW kept, NEW n, NEW m, NEW T, Patches(entries, o, kept, n, m, T)
    PROVE  OneOfEach(kept) /\ \A k \in 1..n : KeptMount(entries, o, kept[k])
<1>1. PICK B, X : B = BaseMounts(entries) /\ X = o.unmount
  OBVIOUS
<1>2. /\ B \in Seq(T) /\ OneOfEach(B)
      /\ \A i \in DOMAIN B : \E bind : B[i] = MountWith(entries[i].id, bind)
      /\ \A i \in DOMAIN B : B[i].use = entries[i].id
  <2>1. entries \in Seq(ToSet(entries)) /\ parse_profile(entries).ok
    BY Zenon DEF IsPatch
  <2>2. /\ OneOfEach(BaseMounts(entries))
        /\ \A i \in DOMAIN BaseMounts(entries) : \E bind :
               BaseMounts(entries)[i] = MountWith(entries[i].id, bind)
        /\ \A i \in DOMAIN BaseMounts(entries) : BaseMounts(entries)[i].use = entries[i].id
    BY <2>1, BaseMountsAreDistinct, Zenon
  <2>3. BaseMounts(entries) \in Seq(T)
    BY Zenon DEF Patches
  <2>4. QED
    BY ONLY <1>1, <2>2, <2>3
<1>3. n \in Nat /\ kept = MountsOutside(B, X) /\ DOMAIN kept = 1..n
  BY <1>1, Zenon DEF Patches
<1>4. /\ \A k \in 1..n : \E i \in DOMAIN B : kept[k] = B[i] /\ B[i].use \notin X
      /\ OneOfEach(kept)
  BY ONLY <1>2, <1>3, KeptAreOfTheProfile
<1>5. ASSUME NEW k \in 1..n
      PROVE  KeptMount(entries, o, kept[k])
  <2>1. PICK i \in DOMAIN B : kept[k] = B[i] /\ B[i].use \notin X
    BY <1>4
  <2>2. PICK bind : B[i] = MountWith(entries[i].id, bind)
    BY <1>2
  <2>3. PICK id, c : id = entries[i].id /\ c = kept[k]
    OBVIOUS
  <2>4. c = MountWith(id, bind) /\ c.use = id
    BY <1>2, <2>1, <2>2, <2>3, Zenon
  <2>5. /\ BoundMount(o, c).use = id
        /\ id \notin DOMAIN o.bind => BoundMount(o, c) = c
        /\ id \in DOMAIN o.bind => BoundMount(o, c).bind = Overridden(c.bind, o.bind[id])
    BY ONLY <2>4, BoundMountIs
  <2>6. c.use \in Uses(B)
    BY <2>1, <2>3, Zenon DEF Uses
  <2>7. \E j \in DOMAIN BaseMounts(entries) : c = BaseMounts(entries)[j]
    BY <1>1, <2>1, <2>3, Zenon
  <2>8. c.use \notin o.unmount /\ c.use \in Uses(BaseMounts(entries))
    BY <1>1, <2>1, <2>3, <2>6, Zenon
  <2>9. KeptMount(entries, o, c)
    BY <2>4, <2>5, <2>7, <2>8, Zenon DEF KeptMount
  <2>10. QED
    BY <2>3, <2>9, Zenon
<1>6. QED
  BY <1>4, <1>5

\* No component is mounted twice after the patch.
LEMMA NobodyTwice ==
    ASSUME NEW entries, NEW o, IsPatch(entries, o),
           NEW kept, NEW n, NEW m, NEW T, Patches(entries, o, kept, n, m, T)
    PROVE  Cardinality(Uses(PatchedMounts(entries, o))) = Len(PatchedMounts(entries, o))
<1>1. PICK p, g : p = PatchedMounts(entries, o) /\ g = o.mount
  OBVIOUS
<1>2. /\ n \in Nat /\ m \in Nat /\ DOMAIN kept = 1..n /\ Len(g) = m /\ DOMAIN g = 1..m
      /\ p \in Seq(T) /\ Len(p) = n + m
      /\ \A k \in 1..n : p[k] = BoundMount(o, kept[k])
      /\ \A k \in 1..m : p[n + k] = g[k]
  BY <1>1, Zenon DEF Patches
<1>3. /\ \A k, l \in 1..n : kept[k].use = kept[l].use => k = l
      /\ \A k \in 1..n : BoundMount(o, kept[k]).use = kept[k].use /\ kept[k].use \in Uses(BaseMounts(entries))
  <2>1. OneOfEach(kept) /\ \A k \in 1..n : KeptMount(entries, o, kept[k])
    BY KeptMountsAre, Zenon
  <2>2. \A k, l \in 1..n : kept[k].use = kept[l].use => k = l
    BY <1>2, <2>1 DEF OneOfEach
  <2>3. ASSUME NEW k \in 1..n
        PROVE  BoundMount(o, kept[k]).use = kept[k].use /\ kept[k].use \in Uses(BaseMounts(entries))
    BY <2>1, Zenon DEF KeptMount
  <2>4. QED
    BY <2>2, <2>3
<1>4. Cardinality(Uses(g)) = m /\ Uses(g) \cap Uses(BaseMounts(entries)) = {}
  BY <1>1, <1>2, AppliedAgrees, Zenon
<1>5. \A k, l \in 1..m : g[k].use = g[l].use => k = l
  <2>1. PICK f : f = [k \in 1..m |-> g[k].use]
    OBVIOUS
  <2>2. DOMAIN f = 1..m /\ \A k \in 1..m : f[k] = g[k].use
    BY <2>1
  <2>3. PICK R : R = Uses(g)
    OBVIOUS
  <2>4. R = {f[k] : k \in 1..m}
    BY ONLY <1>2, <2>2, <2>3 DEF Uses
  <2>5. Cardinality(R) = m <=> \A k, l \in 1..m : f[k] = f[l] => k = l
    BY ONLY <1>2, <2>2, <2>4, DistinctCount
  <2>6. \A k, l \in 1..m : f[k] = f[l] => k = l
    BY <1>4, <2>3, <2>5, Zenon
  <2>7. QED
    BY <2>2, <2>6
<1>6. PICK N \in Nat : N = n + m /\ DOMAIN p = 1..N
  BY <1>2
<1>7. ASSUME NEW k \in 1..N PROVE k \in 1..n \/ \E j \in 1..m : k = n + j
  <2>1. CASE k <= n
    BY <1>2, <2>1
  <2>2. CASE ~(k <= n)
    <3>1. k - n \in 1..m /\ k = n + (k - n)
      BY <1>2, <1>6, <2>2
    <3>2. QED
      BY <3>1
  <2>3. QED
    BY <2>1, <2>2
<1>8. \A k \in 1..n : p[k].use = kept[k].use /\ p[k].use \in Uses(BaseMounts(entries))
  BY <1>2, <1>3, Zenon
<1>9. \A j \in 1..m : p[n + j].use = g[j].use /\ p[n + j].use \in Uses(g)
  BY <1>2, Zenon DEF Uses
<1>10. ASSUME NEW k \in 1..N, NEW l \in 1..N, p[k].use = p[l].use
       PROVE  k = l
  <2>1. CASE k \in 1..n /\ l \in 1..n
    BY <1>3, <1>8, <1>10, <2>1, Zenon
  <2>2. ASSUME NEW i \in 1..m, NEW j \in 1..m, k = n + i, l = n + j
        PROVE  k = l
    BY <1>5, <1>9, <1>10, <2>2, Zenon
  <2>3. ASSUME NEW i \in 1..n, NEW j \in 1..m PROVE p[i].use # p[n + j].use
    BY <1>4, <1>8, <1>9, Zenon
  <2>4. QED
    BY <1>7, <1>10, <2>1, <2>2, <2>3, Zenon
<1>11. PICK f : f = [k \in 1..N |-> p[k].use]
  OBVIOUS
<1>12. DOMAIN f = 1..N /\ \A k \in 1..N : f[k] = p[k].use
  BY <1>11
<1>13. PICK R : R = Uses(p)
  OBVIOUS
<1>14. R = {f[k] : k \in 1..N}
  BY ONLY <1>6, <1>12, <1>13 DEF Uses
<1>15. Cardinality(R) = N <=> \A k, l \in 1..N : f[k] = f[l] => k = l
  BY ONLY N \in Nat, <1>12, <1>14, DistinctCount
<1>16. \A k, l \in 1..N : f[k] = f[l] => k = l
  BY <1>10, <1>12, Zenon
<1>17. Len(p) = N
  BY <1>2, <1>6
<1>18. QED
  BY <1>1, <1>13, <1>15, <1>16, <1>17, Zenon

\* The mount of a component in the profile as it was written.
BeforeOf(entries, id) ==
    BaseMounts(entries)[CHOOSE i \in DOMAIN BaseMounts(entries) : BaseMounts(entries)[i].use = id]

\* A mount that is changed keeps what the overlay does not name.
LEMMA ValuesAreKept ==
    ASSUME NEW entries, NEW o, IsPatch(entries, o),
           NEW i \in DOMAIN PatchedMounts(entries, o), NEW c, c = PatchedMounts(entries, o)[i],
           c.use \in DOMAIN o.bind,
           NEW k \in DOMAIN BeforeOf(entries, c.use).bind \ DOMAIN o.bind[c.use]
    PROVE  k \in DOMAIN c.bind /\ c.bind[k] = BeforeOf(entries, c.use).bind[k]
<1>1. PICK kept, n, m, T : Patches(entries, o, kept, n, m, T)
  BY PatchIsOf, Zenon
<1>2. PICK p, g, B : p = PatchedMounts(entries, o) /\ g = o.mount /\ B = BaseMounts(entries)
  OBVIOUS
<1>3. /\ n \in Nat /\ m \in Nat /\ DOMAIN g = 1..m
      /\ p \in Seq(T) /\ Len(p) = n + m
      /\ \A j \in 1..n : p[j] = BoundMount(o, kept[j])
      /\ \A j \in 1..m : p[n + j] = g[j]
  BY <1>1, <1>2, Zenon DEF Patches
<1>4. i \in 1..n
  <2>1. ASSUME NEW j \in 1..m, i = n + j PROVE FALSE
    <3>1. c.use \in Uses(g)
      BY <1>2, <1>3, <2>1, Zenon DEF Uses
    <3>2. c.use \in Uses(B)
      BY <1>2, AppliedAgrees, Zenon
    <3>3. QED
      BY <1>2, <3>1, <3>2, AppliedAgrees, Zenon
  <2>2. i \in 1..(n + m)
    BY <1>2, <1>3
  <2>3. i \in 1..n \/ i - n \in 1..m
    BY <1>3, <2>2
  <2>4. CASE i - n \in 1..m
    <3>1. i = n + (i - n)
      BY <1>3, <2>2
    <3>2. QED
      BY <2>1, <2>4, <3>1
  <2>5. QED
    BY <2>3, <2>4
<1>5. PICK d : d = kept[i]
  OBVIOUS
<1>6. KeptMount(entries, o, d) /\ c = BoundMount(o, d)
  BY <1>1, <1>2, <1>3, <1>4, <1>5, KeptMountsAre, Zenon
<1>7. c.use = d.use /\ c.bind = Overridden(d.bind, o.bind[c.use])
  BY <1>6, Zenon DEF KeptMount
<1>8. PICK j \in DOMAIN B : d = B[j]
  BY <1>2, <1>6, Zenon DEF KeptMount
<1>9. BeforeOf(entries, c.use) = d
  <2>1. OneOfEach(B)
    BY <1>2, BaseMountsAreDistinct, Zenon DEF IsPatch
  <2>2. PICK r : r = CHOOSE e \in DOMAIN B : B[e].use = c.use
    OBVIOUS
  <2>3. r \in DOMAIN B /\ B[r].use = c.use
    BY <1>7, <1>8, <2>2, Zenon
  <2>4. r = j
    BY <1>7, <1>8, <2>1, <2>3, Zenon DEF OneOfEach
  <2>5. BeforeOf(entries, c.use) = B[r]
    BY <1>2, <2>2, Zenon DEF BeforeOf
  <2>6. QED
    BY <1>8, <2>4, <2>5, Zenon
<1>10. PICK b, v : b = d.bind /\ v = o.bind[c.use]
  OBVIOUS
<1>11. k \in DOMAIN b /\ k \notin DOMAIN v
  BY <1>9, <1>10, Zenon
<1>12. k \in DOMAIN Overridden(b, v) /\ Overridden(b, v)[k] = b[k]
  BY ONLY <1>11 DEF Overridden
<1>13. QED
  BY <1>7, <1>9, <1>10, <1>12, Zenon

\* What a selection of kept mounts is, when those that are selected are left as they are.
LEMMA UnchangedAreSelected ==
    ASSUME NEW T, NEW s \in Seq(T), NEW t \in Seq(T), NEW n \in Nat, DOMAIN s = 1..n, DOMAIN t = 1..n, NEW V,
           \A k \in 1..n : s[k] \in V <=> t[k] \in V,
           \A k \in 1..n : s[k] \in V => t[k] = s[k]
    PROVE  OfThese(s, V) = OfThese(t, V)
<1>1. Having(s, DOMAIN s, V) = Having(t, DOMAIN t, V)
  BY DEF Having
<1>2. PICK I : I = Having(s, DOMAIN s, V)
  OBVIOUS
<1>3. Len(s) = Len(t) /\ Len(s) \in Nat
  OBVIOUS
<1>4. PICK h : Selects(h, s, I, Len(s)) /\ Picked(s, I) = Listed(h, s) /\ Picked(t, I) = Listed(h, t)
  BY ONLY s \in Seq(T), t \in Seq(T), <1>3, PickedAlike
<1>5. \A k \in 1..Len(h) : h[k] \in I /\ Len(h) \in Nat
  BY <1>4 DEF Selects
<1>6. \A k \in 1..Len(h) : s[h[k]] = t[h[k]]
  BY <1>2, <1>5 DEF Having
<1>7. Listed(h, s) = Listed(h, t)
  BY <1>6 DEF Listed
<1>8. QED
  BY <1>1, <1>2, <1>4, <1>7, Zenon DEF OfThese

\* The mounts that the overlay does not name stay as they are and in their order.
LEMMA OthersStay ==
    ASSUME NEW entries, NEW o, IsPatch(entries, o),
           NEW X, X = DOMAIN o.bind \cup o.unmount \cup Uses(o.mount)
    PROVE  MountsOutside(PatchedMounts(entries, o), X) = MountsOutside(BaseMounts(entries), X)
<1>1. PICK kept, n, m, T : Patches(entries, o, kept, n, m, T)
  BY PatchIsOf, Zenon
<1>2. PICK p, g, B, changed, Z :
          /\ p = PatchedMounts(entries, o) /\ g = o.mount /\ B = BaseMounts(entries)
          /\ changed = [k \in 1..n |-> BoundMount(o, kept[k])] /\ Z = o.unmount
  OBVIOUS
<1>3. /\ n \in Nat /\ kept = MountsOutside(B, Z) /\ DOMAIN kept = 1..n
      /\ B \in Seq(T) /\ kept \in Seq(T) /\ changed \in Seq(T) /\ g \in Seq(T) /\ p \in Seq(T)
      /\ p = changed \o g
  BY <1>1, <1>2, Zenon DEF Patches
<1>4. DOMAIN changed = 1..n /\ \A k \in 1..n : changed[k] = BoundMount(o, kept[k])
  BY <1>2
<1> DEFINE V == MountsNotOf(T, X)
<1>5. /\ MountsOutside(p, X) = OfThese(p, V) /\ MountsOutside(B, X) = OfThese(B, V)
  <2>1. MountsOutside(p, X) = OfThese(p, MountsNotOf(T, X))
    BY ONLY <1>3, OutsideIsOfThese
  <2>2. MountsOutside(B, X) = OfThese(B, MountsNotOf(T, X))
    BY ONLY <1>3, OutsideIsOfThese
  <2>3. QED
    BY <2>1, <2>2
<1>6. \A i \in DOMAIN g : g[i] \notin V
  <2>1. \A i \in DOMAIN g : g[i].use \in X
    BY <1>2, Zenon DEF Uses
  <2>2. QED
    BY <2>1, Zenon DEF MountsNotOf
<1>7. \A k \in 1..n : kept[k] \in T /\ changed[k] \in T
  BY <1>3, <1>4
<1>8. ASSUME NEW k \in 1..n
      PROVE  (kept[k] \in V <=> changed[k] \in V) /\ (kept[k] \in V => changed[k] = kept[k])
  <2>1. PICK d, c : d = kept[k] /\ c = changed[k]
    OBVIOUS
  <2>2. KeptMount(entries, o, d) /\ c = BoundMount(o, d)
    BY <1>1, <1>4, <2>1, KeptMountsAre, Zenon
  <2>3. c.use = d.use /\ (d.use \notin X => c = d)
    BY <2>2, Zenon DEF KeptMount
  <2>4. d \in T /\ c \in T
    BY <1>7, <2>1, Zenon
  <2>5. QED
    BY <2>1, <2>3, <2>4, Zenon DEF MountsNotOf
<1>9. \A i \in DOMAIN B : B[i] \in V => B[i].use \notin Z
  BY <1>2, Zenon DEF MountsNotOf
<1> HIDE DEF V
<1>10. OfThese(p, V) = OfThese(changed, V) \o OfThese(g, V)
  <2>1. OfThese(changed \o g, V) = OfThese(changed, V) \o OfThese(g, V)
    BY ONLY <1>3, PickedJoined
  <2>2. QED
    BY <1>3, <2>1, Zenon
<1>11. OfThese(g, V) = <<>>
  BY ONLY <1>3, <1>6, PickedNone
<1>12. OfThese(changed, V) \o <<>> = OfThese(changed, V)
  <2>1. PICK I, u : I = Having(changed, DOMAIN changed, V) /\ u = Picked(changed, I)
    OBVIOUS
  <2>2. u \in Seq(T)
    BY ONLY <1>3, <2>1, PickedElements
  <2>3. u \o <<>> = u
    BY ONLY <2>2
  <2>4. QED
    BY <2>1, <2>3, Zenon DEF OfThese
<1>13. OfThese(kept, V) = OfThese(changed, V)
  BY ONLY <1>3, <1>4, <1>8, UnchangedAreSelected
<1>14. OfThese(kept, V) = OfThese(B, V)
  <2>1. PICK I : I = {i \in DOMAIN B : B[i].use \notin Z}
    OBVIOUS
  <2>2. kept = Picked(B, I)
    BY <1>3, <2>1, Zenon DEF MountsOutside
  <2>3. Picked(kept, Having(kept, DOMAIN kept, V)) = Picked(B, Having(B, I, V))
    BY ONLY <1>3, <2>2, PickedTwice
  <2>4. Having(B, I, V) = Having(B, DOMAIN B, V)
    BY <1>9, <2>1 DEF Having
  <2>5. QED
    BY <2>3, <2>4, Zenon DEF OfThese
<1>15. QED
  BY <1>2, <1>5, <1>10, <1>11, <1>12, <1>13, <1>14, Zenon

\* An overlay that is applied changes what it names and nothing else.
LEMMA PatchesAreLocal ==
    ASSUME NEW entries, NEW o, entries \in Seq(ToSet(entries)), o.mount \in Seq(ToSet(o.mount))
    PROVE  OverlayIsALocalPatch(entries, o)
<1> DEFINE base == ProfileFile(FALSE, parse_profile(entries).mounts)
           patched == apply_overlay(base, o)
           mounts == patched.profile.components
           Before(id) == base.components[CHOOSE i \in DOMAIN base.components : base.components[i].use = id]
           untouched(ms) == MountsOutside(ms, DOMAIN o.bind \cup o.unmount \cup Uses(o.mount))
<1> SUFFICES ASSUME parse_profile(entries).ok, patched.outcome = "applied"
             PROVE  /\ untouched(mounts) = untouched(base.components)
                    /\ Cardinality(Uses(mounts)) = Len(mounts)
                    /\ \A i \in DOMAIN mounts :
                          mounts[i].use \in DOMAIN o.bind =>
                              \A k \in DOMAIN Before(mounts[i].use).bind \ DOMAIN o.bind[mounts[i].use] :
                                  /\ k \in DOMAIN mounts[i].bind
                                  /\ mounts[i].bind[k] = Before(mounts[i].use).bind[k]
  BY Zenon DEF OverlayIsALocalPatch
<1>1. patched = PatchOf(entries, o) /\ base.components = BaseMounts(entries)
  BY OverlayGives, Zenon DEF PatchOf, BaseMounts
<1>2. IsPatch(entries, o) /\ mounts = PatchedMounts(entries, o)
  BY <1>1, OverlayGives, Zenon DEF IsPatch
<1>3. untouched(mounts) = untouched(base.components)
  <2>1. PICK X : X = DOMAIN o.bind \cup o.unmount \cup Uses(o.mount)
    OBVIOUS
  <2>2. MountsOutside(PatchedMounts(entries, o), X) = MountsOutside(BaseMounts(entries), X)
    BY <1>2, <2>1, OthersStay, Zenon
  <2>3. QED
    BY <1>1, <1>2, <2>1, <2>2, Zenon
<1>4. Cardinality(Uses(mounts)) = Len(mounts)
  BY <1>2, PatchIsOf, NobodyTwice, Zenon
<1>5. \A id : Before(id) = BeforeOf(entries, id)
  BY <1>1, Zenon DEF BeforeOf
<1> HIDE DEF mounts, Before
<1>6. ASSUME NEW i \in DOMAIN mounts, mounts[i].use \in DOMAIN o.bind,
             NEW k \in DOMAIN Before(mounts[i].use).bind \ DOMAIN o.bind[mounts[i].use]
      PROVE  k \in DOMAIN mounts[i].bind /\ mounts[i].bind[k] = Before(mounts[i].use).bind[k]
  <2>1. PICK c : c = mounts[i]
    OBVIOUS
  <2>2. PICK b : b = Before(c.use) /\ b = BeforeOf(entries, c.use)
    BY <1>5, Zenon
  <2>3. i \in DOMAIN PatchedMounts(entries, o) /\ c = PatchedMounts(entries, o)[i]
    BY <1>2, <2>1, Zenon
  <2>4. c.use \in DOMAIN o.bind /\ k \in DOMAIN BeforeOf(entries, c.use).bind \ DOMAIN o.bind[c.use]
    BY <1>6, <2>1, <2>2, Zenon
  <2>5. k \in DOMAIN c.bind /\ c.bind[k] = BeforeOf(entries, c.use).bind[k]
    BY ONLY <1>2, <2>3, <2>4, ValuesAreKept
  <2>6. QED
    BY <2>1, <2>2, <2>5, Zenon
<1>7. QED
  BY <1>3, <1>4, <1>6, Zenon

-------------------------------------------------------------------------------
(* Dispatches to a target.                                                   *)

ComposesUpTo(f, target, providers, n) ==
    /\ f[0] = Composition(TRUE, BaseProfile0(target), <<>>, <<>>)
    /\ \A i \in 1..n : f[i] = Laid(target, f[i - 1], providers[i], i)

\* The fragments are laid one after the other.
LEMMA CompositionUnrolls ==
    ASSUME NEW target, NEW providers, Len(providers) \in Nat
    PROVE  \E f : ComposesUpTo(f, target, providers, Len(providers)) /\ compose_target(target, providers) = f[Len(providers)]
<1> DEFINE N == Len(providers)
           none == Composition(TRUE, BaseProfile0(target), <<>>, <<>>)
           Eq(f) == f = [n \in 0..N |-> IF n = 0 THEN none ELSE Laid(target, f[n - 1], providers[n], n)]
           laid == CHOOSE f : Eq(f)
           D == {n \in 0..N : \E f : ComposesUpTo(f, target, providers, n)}
<1>1. 0 \in D
  <2>1. ComposesUpTo([i \in 0..0 |-> none], target, providers, 0)
    <3>1. [i \in 0..0 |-> none][0] = none
      OBVIOUS
    <3>2. 1..0 = {}
      OBVIOUS
    <3> QED
      BY <3>1, <3>2 DEF ComposesUpTo
  <2> QED
    BY <2>1
<1>2. ASSUME NEW k \in 1..N, k - 1 \in D PROVE k \in D
  <2>1. PICK f : ComposesUpTo(f, target, providers, k - 1)
    BY <1>2
  <2> DEFINE last == Laid(target, f[k - 1], providers[k], k)
             g == [i \in 0..k |-> IF i = k THEN last ELSE f[i]]
  <2>2. g[0] = f[0] /\ g[k] = last /\ \A i \in 1..k - 1 : g[i] = f[i] /\ g[i - 1] = f[i - 1]
    <3> HIDE DEF last
    <3> QED
      OBVIOUS
  <2>3. g[k - 1] = f[k - 1]
    <3> HIDE DEF last
    <3> QED
      OBVIOUS
  <2>4. ASSUME NEW i \in 1..k PROVE g[i] = Laid(target, g[i - 1], providers[i], i)
    <3>1. i = k \/ i \in 1..k - 1
      OBVIOUS
    <3> HIDE DEF g
    <3>2. CASE i = k
      BY <2>2, <2>3, <3>2, Zenon
    <3>3. CASE i \in 1..k - 1
      BY <2>1, <2>2, <3>3, Zenon DEF ComposesUpTo
    <3> QED
      BY <3>1, <3>2, <3>3
  <2>5. ComposesUpTo(g, target, providers, k)
    <3> HIDE DEF g
    <3> QED
      BY <2>1, <2>2, <2>4, Zenon DEF ComposesUpTo
  <2> QED
    BY <2>5
<1>3. N \in D
  <2>1. N \in Nat
    OBVIOUS
  <2> HIDE DEF D, N
  <2>2. 0..N \subseteq D
    BY <1>1, <1>2, <2>1, InductionUpTo
  <2> QED
    BY <2>1, <2>2
<1>4. PICK f : ComposesUpTo(f, target, providers, N)
  BY <1>3
<1>5. \E h : Eq(h)
  <2> DEFINE h == [n \in 0..N |-> f[n]]
  <2>1. ASSUME NEW n \in 0..N PROVE h[n] = IF n = 0 THEN none ELSE Laid(target, h[n - 1], providers[n], n)
    <3>1. CASE n = 0
      <4>1. h[0] = f[0]
        OBVIOUS
      <4> HIDE DEF h
      <4> QED
        BY <1>4, <3>1, <4>1, Zenon DEF ComposesUpTo
    <3>2. CASE n # 0
      <4>1. n \in 1..N /\ h[n] = f[n] /\ h[n - 1] = f[n - 1]
        BY <3>2
      <4> HIDE DEF h
      <4> QED
        BY <1>4, <3>2, <4>1, Zenon DEF ComposesUpTo
    <3> QED
      BY <3>1, <3>2
  <2>2. h = [n \in 0..N |-> h[n]]
    OBVIOUS
  <2> HIDE DEF h, none, N
  <2>3. h = [n \in 0..N |-> IF n = 0 THEN none ELSE Laid(target, h[n - 1], providers[n], n)]
    BY <2>1, <2>2, Zenon
  <2> QED
    BY <2>3
<1>6. Eq(laid)
  <2> HIDE DEF Eq
  <2> QED
    BY <1>5
<1>7. compose_target(target, providers) = laid[N]
  BY DEF compose_target
<1> HIDE DEF laid
<1>8. laid[0] = none
  <2> HIDE DEF none
  <2> QED
    BY <1>6
<1>9. \A n \in 1..N : laid[n] = Laid(target, laid[n - 1], providers[n], n)
  <2> TAKE n \in 1..N
  <2>1. n \in 0..N /\ n # 0
    OBVIOUS
  <2> HIDE DEF none
  <2> QED
    BY <1>6, <2>1, Zenon
<1>10. ComposesUpTo(laid, target, providers, N)
  <2> HIDE DEF Eq, N
  <2> QED
    BY <1>8, <1>9, Zenon DEF ComposesUpTo
<1> QED
  BY <1>7, <1>10

-------------------------------------------------------------------------------
IsFunction(f) == f = [c \in DOMAIN f |-> f[c]]

Lays(target, f, c) == Applies(target, f) /\ c \in Claims(f)
Enters(target, f, c) == Applies(target, f) /\ c \in DOMAIN f.entries
Serves(target, f, c) == Applies(target, f) /\ c \in DOMAIN f.tools

EntryFor(target, f, c) == IF c \in DOMAIN f.entries THEN f.entries[c] ELSE BaseProfile0(target)[c]
ToolFits(target, f, c) ==
    /\ validate_source_grammar(f.tools[c]) /\ validate_names_match_source(target, f.tools[c])
    /\ c \notin base_tool_map(target)
    /\ c \in DOMAIN f.entries \/ c \in DOMAIN BaseProfile0(target)
    /\ f.tools[c].source = "mcp" => EntryFor(target, f, c).via = f.tools[c].server

LaidOnce(target, providers, n) ==
    \A c : \A i, j \in 1..n : Lays(target, providers[i], c) /\ Lays(target, providers[j], c) => i = j
WellLaid(target, providers, n) ==
    /\ \A i \in 1..n : providers[i].engine = Engine(target)
    /\ \A c : \A i \in 1..n : Lays(target, providers[i], c) => ~base_locks_capability(BaseProfile0(target), c)
    /\ LaidOnce(target, providers, n)
    /\ \A c : \A i \in 1..n : Serves(target, providers[i], c) => ToolFits(target, providers[i], c)

ProfileIs(target, providers, n, profile) ==
    /\ IsFunction(profile)
    /\ \A c : c \in DOMAIN profile <=> c \in DOMAIN BaseProfile0(target) \/ \E i \in 1..n : Enters(target, providers[i], c)
    /\ \A c : \A i \in 1..n : Enters(target, providers[i], c) => profile[c] = providers[i].entries[c]
    /\ \A c \in DOMAIN BaseProfile0(target) :
          (\A i \in 1..n : ~Enters(target, providers[i], c)) => profile[c] = BaseProfile0(target)[c]
ToolsAre(target, providers, n, tools) ==
    /\ IsFunction(tools)
    /\ \A c : c \in DOMAIN tools <=> \E i \in 1..n : Serves(target, providers[i], c)
    /\ \A c : \A i \in 1..n : Serves(target, providers[i], c) => tools[c] = providers[i].tools[c]
ClaimedAre(target, providers, n, claimed) ==
    /\ \A c : c \in DOMAIN claimed <=> \E i \in 1..n : Lays(target, providers[i], c)
    /\ \A c : \A i \in 1..n : Lays(target, providers[i], c) => claimed[c] = i

IsComposition(target, providers, n, s) ==
    /\ s.ok \in BOOLEAN /\ (s.ok <=> WellLaid(target, providers, n))
    /\ s.ok => /\ ProfileIs(target, providers, n, s.profile)
               /\ ToolsAre(target, providers, n, s.tools)
               /\ ClaimedAre(target, providers, n, s.claimed)

LEMMA CompositionParts ==
    ASSUME NEW o, NEW p, NEW t, NEW c
    PROVE  /\ Composition(o, p, t, c).ok = o /\ Composition(o, p, t, c).profile = p
           /\ Composition(o, p, t, c).tools = t /\ Composition(o, p, t, c).claimed = c
  BY DEF Composition

LEMMA LaidOverIs ==
    ASSUME NEW f, NEW g, NEW q, q = LaidOver(f, g)
    PROVE  /\ IsFunction(q)
           /\ \A c : c \in DOMAIN q <=> c \in DOMAIN f \/ c \in DOMAIN g
           /\ \A c \in DOMAIN f : q[c] = f[c]
           /\ \A c \in DOMAIN g : c \notin DOMAIN f => q[c] = g[c]
  BY DEF LaidOver, IsFunction

LEMMA ProfileTables ==
    ASSUME NEW fails, NEW native, NEW degraded, NEW via
    PROVE  /\ IsFunction(CapabilityProfile(fails, native, degraded, via))
           /\ \A c \in DOMAIN CapabilityProfile(fails, native, degraded, via) :
                 CapabilityProfile(fails, native, degraded, via)[c].critical <=> c \in SafetyCritical
<1> DEFINE p == CapabilityProfile(fails, native, degraded, via)
           o(c) == CASE c \in fails -> "fail" [] c \in native -> "native"
                     [] c \in degraded -> "degrade" [] OTHER -> "realize_via"
<1>1. p = [c \in fails \cup native \cup degraded \cup via |-> CapabilityEntry(o(c), c \in SafetyCritical, "")]
  BY DEF CapabilityProfile
<1> HIDE DEF p, o
<1>2. \A x, y : CapabilityEntry(x, y, "").critical = y
  BY DEF CapabilityEntry
<1>3. IsFunction(p)
  BY <1>1 DEF IsFunction
<1>4. \A c \in DOMAIN p : p[c] = CapabilityEntry(o(c), c \in SafetyCritical, "")
  BY <1>1
<1>5. ASSUME NEW c \in DOMAIN p PROVE p[c].critical <=> c \in SafetyCritical
  <2>1. PICK x, y : x = o(c) /\ y = (c \in SafetyCritical)
    OBVIOUS
  <2>2. p[c] = CapabilityEntry(x, y, "")
    BY <1>4, <2>1, Zenon
  <2>3. p[c].critical = y
    BY <1>2, <2>2, Zenon
  <2> QED
    BY <2>1, <2>3, Zenon
<1> QED
  BY <1>3, <1>5, Zenon DEF p

LEMMA BaseProfilesAre ==
    ASSUME NEW target
    PROVE  /\ IsFunction(BaseProfile0(target))
           /\ \A c \in DOMAIN BaseProfile0(target) : BaseProfile0(target)[c].critical <=> c \in SafetyCritical
<1>1. BaseProfile0(target) \in {headless_profile, interactive_profile, codex_interactive_profile,
                                pi_interactive_profile, vercel_headless_profile, vercel_interactive_profile}
  BY DEF BaseProfile0
<1>2. \E fails, native, degraded, via : BaseProfile0(target) = CapabilityProfile(fails, native, degraded, via)
  BY <1>1, Zenon DEF headless_profile, interactive_profile, codex_interactive_profile,
        pi_interactive_profile, vercel_headless_profile, vercel_interactive_profile
<1> QED
  BY <1>2, ProfileTables, Zenon

LEMMA NothingLaid ==
    ASSUME NEW target, NEW providers
    PROVE  IsComposition(target, providers, 0, Composition(TRUE, BaseProfile0(target), <<>>, <<>>))
<1> DEFINE base == BaseProfile0(target)
<1>1. PICK s : s = Composition(TRUE, base, <<>>, <<>>)
  OBVIOUS
<1>0. s.ok = TRUE /\ s.profile = base /\ s.tools = <<>> /\ s.claimed = <<>>
  BY ONLY <1>1 DEF Composition
<1>2. 1..0 = {} /\ DOMAIN <<>> = {} /\ IsFunction(<<>>)
  BY DEF IsFunction
<1>3. IsFunction(base)
  BY BaseProfilesAre, Zenon
<1>4. WellLaid(target, providers, 0) /\ ProfileIs(target, providers, 0, base)
      /\ ToolsAre(target, providers, 0, <<>>) /\ ClaimedAre(target, providers, 0, <<>>)
  BY <1>2, <1>3, Zenon DEF WellLaid, LaidOnce, ProfileIs, ToolsAre, ClaimedAre
<1> QED
  BY <1>0, <1>1, <1>4, Zenon DEF IsComposition

\* One place more.
LEMMA Places == ASSUME NEW n \in Nat PROVE 1..n \subseteq 1..n + 1 /\ n + 1 \in 1..n + 1 /\ \A i \in 1..n + 1 : i \in 1..n \/ i = n + 1
  OBVIOUS

LEMMA WellLaidBefore ==
    ASSUME NEW target, NEW providers, NEW n \in Nat, WellLaid(target, providers, n + 1)
    PROVE  WellLaid(target, providers, n)
<1>1. 1..n \subseteq 1..n + 1
  BY Places
<1> QED
  BY <1>1, Zenon DEF WellLaid, LaidOnce

LEMMA PassedOver ==
    ASSUME NEW target, NEW providers, NEW n \in Nat, NEW s, IsComposition(target, providers, n, s),
           providers[n + 1].engine = Engine(target), ~Applies(target, providers[n + 1])
    PROVE  IsComposition(target, providers, n + 1, s)
<1> DEFINE k == n + 1
<1>1. 1..n \subseteq 1..k /\ k \in 1..k /\ \A i \in 1..k : i \in 1..n \/ i = k
  BY Places
<1>2. \A c : ~Lays(target, providers[k], c) /\ ~Enters(target, providers[k], c) /\ ~Serves(target, providers[k], c)
  BY DEF Lays, Enters, Serves
<1>3. providers[k].engine = Engine(target)
  OBVIOUS
<1> HIDE DEF k
<1>4. WellLaid(target, providers, k) <=> WellLaid(target, providers, n)
  <2>1. WellLaid(target, providers, n) => WellLaid(target, providers, k)
    BY <1>1, <1>2, <1>3, Zenon DEF WellLaid, LaidOnce
  <2>2. WellLaid(target, providers, k) => WellLaid(target, providers, n)
    BY <1>1, Zenon DEF WellLaid, LaidOnce
  <2> QED
    BY <2>1, <2>2
<1>5. ProfileIs(target, providers, n, s.profile) => ProfileIs(target, providers, k, s.profile)
  BY <1>1, <1>2, Zenon DEF ProfileIs
<1>6. ToolsAre(target, providers, n, s.tools) => ToolsAre(target, providers, k, s.tools)
  BY <1>1, <1>2, Zenon DEF ToolsAre
<1>7. ClaimedAre(target, providers, n, s.claimed) => ClaimedAre(target, providers, k, s.claimed)
  BY <1>1, <1>2, Zenon DEF ClaimedAre
<1>8. IsComposition(target, providers, k, s)
  BY <1>4, <1>5, <1>6, <1>7, Zenon DEF IsComposition
<1> QED
  BY <1>8 DEF k

\* What it takes for a fragment to be laid over others.
FragmentFits(target, s, f, i) ==
    /\ \A c \in Claims(f) : /\ ~base_locks_capability(BaseProfile0(target), c)
                            /\ c \in DOMAIN s.claimed => s.claimed[c] = i
    /\ \A c \in DOMAIN f.tools :
          /\ validate_source_grammar(f.tools[c]) /\ validate_names_match_source(target, f.tools[c])
          /\ c \notin base_tool_map(target)
          /\ c \in DOMAIN LaidOver(f.entries, s.profile)
          /\ f.tools[c].source = "mcp" => LaidOver(f.entries, s.profile)[c].via = f.tools[c].server

LEMMA LaidIs ==
    ASSUME NEW target, NEW s, NEW f, NEW i, NEW u, u = Laid(target, s, f, i),
           s.ok, f.engine = Engine(target), Applies(target, f)
    PROVE  /\ u.ok \in BOOLEAN /\ (u.ok <=> FragmentFits(target, s, f, i))
           /\ u.profile = LaidOver(f.entries, s.profile) /\ u.tools = LaidOver(f.tools, s.tools)
           /\ u.claimed = LaidOver([c \in Claims(f) |-> i], s.claimed)
<1> DEFINE base == BaseProfile0(target)
           profile == LaidOver(f.entries, s.profile)
           Free(c) == ~base_locks_capability(base, c) /\ claim_capability(s.claimed, c, i)
           Fits(c) == /\ validate_source_grammar(f.tools[c])
                       /\ validate_via_source_coherence(profile, c, f.tools[c])
                       /\ validate_names_match_source(target, f.tools[c])
                       /\ Free(c) /\ c \notin base_tool_map(target)
                       /\ c \in DOMAIN profile
           fits == (\A c \in DOMAIN f.entries : Free(c)) /\ (\A c \in DOMAIN f.tools : Fits(c))
<1>1. Laid(target, s, f, i) = Composition(fits, profile, LaidOver(f.tools, s.tools), LaidOver([c \in Claims(f) |-> i], s.claimed))
  BY Zenon DEF Laid
<1>2. fits <=> FragmentFits(target, s, f, i)
  BY Zenon DEF FragmentFits, claim_capability, validate_via_source_coherence, Claims
<1>3. fits \in BOOLEAN
  OBVIOUS
<1> HIDE DEF fits, profile
<1>4. PICK o, p, t, c : o = fits /\ p = profile /\ t = LaidOver(f.tools, s.tools) /\ c = LaidOver([d \in Claims(f) |-> i], s.claimed)
  OBVIOUS
<1>5. u = Composition(o, p, t, c)
  BY <1>1, <1>4, Zenon
<1>6. u.ok = o /\ u.profile = p /\ u.tools = t /\ u.claimed = c
  BY ONLY <1>5 DEF Composition
<1>7. u.ok \in BOOLEAN /\ (u.ok <=> FragmentFits(target, s, f, i))
  BY ONLY <1>2, <1>3, <1>4, <1>6
<1> QED
  BY <1>4, <1>6, <1>7, Zenon DEF profile

LEMMA LaidDown ==
    ASSUME NEW target, NEW providers, NEW n \in Nat, NEW s, IsComposition(target, providers, n, s), s.ok,
           providers[n + 1].engine = Engine(target), Applies(target, providers[n + 1])
    PROVE  IsComposition(target, providers, n + 1, Laid(target, s, providers[n + 1], n + 1))
<1> DEFINE k == n + 1
           f == providers[k]
           base == BaseProfile0(target)
<1>1. 1..n \subseteq 1..k /\ k \in 1..k /\ k \notin 1..n /\ \A i \in 1..k : i \in 1..n \/ i = k
  BY Places
<1>2. PICK u : u = Laid(target, s, f, k)
  OBVIOUS
<1>3. f.engine = Engine(target) /\ Applies(target, f)
  OBVIOUS
<1>4. /\ WellLaid(target, providers, n) /\ ProfileIs(target, providers, n, s.profile)
      /\ ToolsAre(target, providers, n, s.tools) /\ ClaimedAre(target, providers, n, s.claimed)
  BY Zenon DEF IsComposition
<1> HIDE DEF k, f
<1>5. /\ u.ok \in BOOLEAN /\ (u.ok <=> FragmentFits(target, s, f, k))
      /\ u.profile = LaidOver(f.entries, s.profile) /\ u.tools = LaidOver(f.tools, s.tools)
      /\ u.claimed = LaidOver([c \in Claims(f) |-> k], s.claimed)
  BY ONLY <1>2, <1>3, s.ok, LaidIs
<1>6. providers[k] = f
  BY DEF f
<1>7. \A c : /\ Lays(target, f, c) <=> c \in Claims(f)
             /\ Enters(target, f, c) <=> c \in DOMAIN f.entries
             /\ Serves(target, f, c) <=> c \in DOMAIN f.tools
             /\ c \in Claims(f) <=> c \in DOMAIN f.entries \/ c \in DOMAIN f.tools
  BY <1>3 DEF Lays, Enters, Serves, Claims
<1>8. \A c : \A i \in 1..n : /\ Enters(target, providers[i], c) => Lays(target, providers[i], c)
                             /\ Serves(target, providers[i], c) => Lays(target, providers[i], c)
  BY Zenon DEF Lays, Enters, Serves, Claims
\* The profile below holds what the base has of a capability that nobody claimed.
<1>9. ASSUME NEW c, c \notin DOMAIN s.claimed
      PROVE  /\ \A i \in 1..n : ~Lays(target, providers[i], c)
             /\ c \in DOMAIN s.profile <=> c \in DOMAIN base
             /\ c \in DOMAIN base => s.profile[c] = base[c]
  <2>1. \A i \in 1..n : ~Lays(target, providers[i], c)
    BY <1>4, <1>9, Zenon DEF ClaimedAre
  <2>2. \A i \in 1..n : ~Enters(target, providers[i], c)
    BY <1>8, <2>1, Zenon
  <2> QED
    BY <1>4, <2>1, <2>2, Zenon DEF ProfileIs
<1>10. \A c : c \in DOMAIN s.claimed => s.claimed[c] \in 1..n
  BY <1>4, Zenon DEF ClaimedAre
<1>15. PICK e, p, q : e = f.entries /\ p = s.profile /\ q = LaidOver(e, p)
  OBVIOUS
<1>16. /\ IsFunction(q)
       /\ \A c : c \in DOMAIN q <=> c \in DOMAIN e \/ c \in DOMAIN p
       /\ \A c \in DOMAIN e : q[c] = e[c]
       /\ \A c \in DOMAIN p : c \notin DOMAIN e => q[c] = p[c]
  BY ONLY <1>15, LaidOverIs
<1>17. q = LaidOver(f.entries, s.profile)
  BY <1>15, Zenon
<1>11. ASSUME NEW c, c \in Claims(f), c \notin DOMAIN s.claimed
       PROVE  /\ c \in DOMAIN LaidOver(f.entries, s.profile) <=> c \in DOMAIN f.entries \/ c \in DOMAIN base
              /\ c \in DOMAIN LaidOver(f.entries, s.profile) => LaidOver(f.entries, s.profile)[c] = EntryFor(target, f, c)
  <2>1. (c \in DOMAIN p <=> c \in DOMAIN base) /\ (c \in DOMAIN base => p[c] = base[c])
    BY <1>9, <1>11, <1>15, Zenon
  <2>2. c \in DOMAIN q => q[c] = IF c \in DOMAIN e THEN e[c] ELSE base[c]
    BY <1>16, <2>1, Zenon
  <2> QED
    BY <1>15, <1>16, <1>17, <2>1, <2>2, Zenon DEF EntryFor
<1>12. FragmentFits(target, s, f, k) <=> WellLaid(target, providers, k)
  <2>1. ASSUME FragmentFits(target, s, f, k) PROVE WellLaid(target, providers, k)
    <3>1. \A c \in Claims(f) : ~base_locks_capability(base, c) /\ c \notin DOMAIN s.claimed
      BY <1>1, <1>10, <2>1, Zenon DEF FragmentFits
    <3>2. \A c \in DOMAIN f.tools : ToolFits(target, f, c)
      <4> TAKE c \in DOMAIN f.tools
      <4>1. c \in Claims(f) /\ c \notin DOMAIN s.claimed
        BY <1>7, <3>1, Zenon
      <4> QED
        BY <1>11, <2>1, <4>1, Zenon DEF FragmentFits, ToolFits
    <3>3. \A i \in 1..k : providers[i].engine = Engine(target)
      BY <1>1, <1>3, <1>4, <1>6, Zenon DEF WellLaid
    <3>4. \A c : \A i \in 1..k : Lays(target, providers[i], c) => ~base_locks_capability(base, c)
      BY <1>1, <1>4, <1>6, <1>7, <3>1, Zenon DEF WellLaid
    <3>5. \A c : \A i \in 1..n : c \in Claims(f) => ~Lays(target, providers[i], c)
      BY <1>9, <3>1, Zenon
    <3>6. LaidOnce(target, providers, k)
      BY <1>1, <1>4, <1>6, <1>7, <3>5, Zenon DEF WellLaid, LaidOnce
    <3>7. \A c : \A i \in 1..k : Serves(target, providers[i], c) => ToolFits(target, providers[i], c)
      BY <1>1, <1>4, <1>6, <1>7, <3>2, Zenon DEF WellLaid
    <3> QED
      BY <3>3, <3>4, <3>6, <3>7, Zenon DEF WellLaid
  <2>2. ASSUME WellLaid(target, providers, k) PROVE FragmentFits(target, s, f, k)
    <3>1. \A c \in Claims(f) : ~base_locks_capability(base, c)
      BY <1>1, <1>6, <1>7, <2>2, Zenon DEF WellLaid
    <3>2. \A c \in Claims(f) : c \notin DOMAIN s.claimed
      <4> TAKE c \in Claims(f)
      <4>1. Lays(target, providers[k], c)
        BY <1>6, <1>7, Zenon
      <4>2. \A i \in 1..n : ~Lays(target, providers[i], c)
        BY <1>1, <2>2, <4>1, Zenon DEF WellLaid, LaidOnce
      <4> QED
        BY <1>4, <4>2, Zenon DEF ClaimedAre
    <3>3. \A c \in DOMAIN f.tools : ToolFits(target, f, c)
      BY <1>1, <1>6, <1>7, <2>2, Zenon DEF WellLaid
    <3>4. \A c \in DOMAIN f.tools : /\ c \in DOMAIN LaidOver(f.entries, s.profile)
                                    /\ LaidOver(f.entries, s.profile)[c] = EntryFor(target, f, c)
      BY <1>7, <1>11, <3>2, <3>3, Zenon DEF ToolFits
    <3> QED
      BY <3>1, <3>2, <3>3, <3>4, Zenon DEF FragmentFits, ToolFits
  <2> QED
    BY <2>1, <2>2
<1>13. ASSUME u.ok
       PROVE  /\ ProfileIs(target, providers, k, u.profile)
              /\ ToolsAre(target, providers, k, u.tools)
              /\ ClaimedAre(target, providers, k, u.claimed)
  <2>1. WellLaid(target, providers, k)
    BY <1>5, <1>12, <1>13, Zenon
  <2>2. \A c : \A i \in 1..n : c \in Claims(f) => ~Lays(target, providers[i], c)
    BY <1>1, <1>6, <1>7, <2>1, Zenon DEF WellLaid, LaidOnce
  <2>3. e = f.entries /\ p = s.profile
    BY <1>15
  <2>4. /\ IsFunction(u.profile)
        /\ \A c : c \in DOMAIN u.profile <=> c \in DOMAIN e \/ c \in DOMAIN p
        /\ \A c \in DOMAIN e : u.profile[c] = e[c]
        /\ \A c \in DOMAIN p : c \notin DOMAIN e => u.profile[c] = p[c]
    BY <1>5, <1>16, <1>17, Zenon
  <2>5. ProfileIs(target, providers, k, u.profile)
    <3>1. \A c : c \in DOMAIN u.profile <=> c \in DOMAIN base \/ \E i \in 1..k : Enters(target, providers[i], c)
      BY <1>1, <1>4, <1>6, <1>7, <2>3, <2>4, Zenon DEF ProfileIs
    <3>2. ASSUME NEW c, NEW i \in 1..k, Enters(target, providers[i], c) PROVE u.profile[c] = providers[i].entries[c]
      <4>1. CASE i = k
        BY <1>6, <1>7, <2>3, <2>4, <3>2, <4>1, Zenon
      <4>2. CASE i \in 1..n
        <5>1. c \notin DOMAIN e
          BY <1>7, <1>8, <2>2, <2>3, <3>2, <4>2, Zenon
        <5>2. c \in DOMAIN p /\ p[c] = providers[i].entries[c]
          BY <1>4, <2>3, <3>2, <4>2, Zenon DEF ProfileIs
        <5> QED
          BY <2>4, <5>1, <5>2, Zenon
      <4> QED
        BY <1>1, <4>1, <4>2, Zenon
    <3>3. ASSUME NEW c, \A i \in 1..k : ~Enters(target, providers[i], c) PROVE c \in DOMAIN base => u.profile[c] = base[c]
      <4>1. c \notin DOMAIN e /\ \A i \in 1..n : ~Enters(target, providers[i], c)
        BY <1>1, <1>6, <1>7, <2>3, <3>3, Zenon
      <4>2. c \in DOMAIN base => p[c] = base[c] /\ c \in DOMAIN p
        BY <1>4, <2>3, <4>1, Zenon DEF ProfileIs
      <4> QED
        BY <2>4, <4>1, <4>2, Zenon
    <3> QED
      BY <2>4, <3>1, <3>2, <3>3, Zenon DEF ProfileIs
  <2>6. ToolsAre(target, providers, k, u.tools)
    <3>1. PICK g, h : g = f.tools /\ h = s.tools
      OBVIOUS
    <3>2. /\ IsFunction(u.tools)
          /\ \A c : c \in DOMAIN u.tools <=> c \in DOMAIN g \/ c \in DOMAIN h
          /\ \A c \in DOMAIN g : u.tools[c] = g[c]
          /\ \A c \in DOMAIN h : c \notin DOMAIN g => u.tools[c] = h[c]
      <4>1. u.tools = LaidOver(g, h)
        BY <1>5, <3>1, Zenon
      <4> QED
        BY ONLY <4>1, LaidOverIs
    <3>3. \A c : c \in DOMAIN u.tools <=> \E i \in 1..k : Serves(target, providers[i], c)
      BY <1>1, <1>4, <1>6, <1>7, <3>1, <3>2, Zenon DEF ToolsAre
    <3>4. ASSUME NEW c, NEW i \in 1..k, Serves(target, providers[i], c) PROVE u.tools[c] = providers[i].tools[c]
      <4>1. CASE i = k
        BY <1>6, <1>7, <3>1, <3>2, <3>4, <4>1, Zenon
      <4>2. CASE i \in 1..n
        <5>1. c \notin DOMAIN g
          BY <1>7, <1>8, <2>2, <3>1, <3>4, <4>2, Zenon
        <5>2. c \in DOMAIN h /\ h[c] = providers[i].tools[c]
          BY <1>4, <3>1, <3>4, <4>2, Zenon DEF ToolsAre
        <5> QED
          BY <3>2, <5>1, <5>2, Zenon
      <4> QED
        BY <1>1, <4>1, <4>2, Zenon
    <3> QED
      BY <3>2, <3>3, <3>4, Zenon DEF ToolsAre
  <2>7. ClaimedAre(target, providers, k, u.claimed)
    <3>1. PICK g, h : g = [c \in Claims(f) |-> k] /\ h = s.claimed
      OBVIOUS
    <3>2. /\ DOMAIN g = Claims(f) /\ \A c \in Claims(f) : g[c] = k
      BY ONLY <3>1
    <3>3. /\ \A c : c \in DOMAIN u.claimed <=> c \in DOMAIN g \/ c \in DOMAIN h
          /\ \A c \in DOMAIN g : u.claimed[c] = g[c]
          /\ \A c \in DOMAIN h : c \notin DOMAIN g => u.claimed[c] = h[c]
      <4>1. u.claimed = LaidOver(g, h)
        BY <1>5, <3>1, Zenon
      <4> QED
        BY ONLY <4>1, LaidOverIs
    <3>4. \A c : c \in DOMAIN u.claimed <=> \E i \in 1..k : Lays(target, providers[i], c)
      BY <1>1, <1>4, <1>6, <1>7, <3>1, <3>2, <3>3, Zenon DEF ClaimedAre
    <3>5. ASSUME NEW c, NEW i \in 1..k, Lays(target, providers[i], c) PROVE u.claimed[c] = i
      <4>1. CASE i = k
        BY <1>6, <1>7, <3>2, <3>3, <3>5, <4>1, Zenon
      <4>2. CASE i \in 1..n
        <5>1. c \notin DOMAIN g
          BY <2>2, <3>2, <3>5, <4>2, Zenon
        <5>2. c \in DOMAIN h /\ h[c] = i
          BY <1>4, <3>1, <3>5, <4>2, Zenon DEF ClaimedAre
        <5> QED
          BY <3>3, <5>1, <5>2, Zenon
      <4> QED
        BY <1>1, <4>1, <4>2, Zenon
    <3> QED
      BY <3>4, <3>5, Zenon DEF ClaimedAre
  <2> QED
    BY <2>5, <2>6, <2>7
<1>14. IsComposition(target, providers, k, u)
  BY <1>5, <1>12, <1>13, Zenon DEF IsComposition
<1> QED
  BY <1>2, <1>14 DEF k, f

LEMMA ComposedIs ==
    ASSUME NEW target, NEW providers, Len(providers) \in Nat
    PROVE  IsComposition(target, providers, Len(providers), compose_target(target, providers))
<1> DEFINE N == Len(providers)
<1>1. PICK f : ComposesUpTo(f, target, providers, N) /\ compose_target(target, providers) = f[N]
  BY CompositionUnrolls
<1> DEFINE D == {n \in 0..N : IsComposition(target, providers, n, f[n])}
<1>2. 0 \in D
  <2>1. f[0] = Composition(TRUE, BaseProfile0(target), <<>>, <<>>)
    BY <1>1, Zenon DEF ComposesUpTo
  <2>2. IsComposition(target, providers, 0, f[0])
    BY <2>1, NothingLaid
  <2> QED
    BY <2>2
<1>3. ASSUME NEW k \in 1..N, k - 1 \in D PROVE k \in D
  <2>1. PICK n \in Nat : n = k - 1 /\ k = n + 1
    OBVIOUS
  <2>2. PICK s : s = f[n]
    OBVIOUS
  <2>3. f[k] = Laid(target, s, providers[k], k)
    BY <1>1, <2>1, <2>2, Zenon DEF ComposesUpTo
  <2>4. IsComposition(target, providers, n, s)
    BY <1>3, <2>1, <2>2
  <2>5. CASE ~s.ok \/ providers[k].engine # Engine(target)
    <3>1. PICK p, t, c : p = s.profile /\ t = s.tools /\ c = s.claimed
      OBVIOUS
    <3>2. PICK u : u = f[k] /\ u = Composition(FALSE, p, t, c)
      BY <2>3, <2>5, <3>1, Zenon DEF Laid
    <3>3. u.ok = FALSE
      BY ONLY <3>2 DEF Composition
    <3>4. ~WellLaid(target, providers, k)
      <4>1. k \in 1..k
        OBVIOUS
      <4>2. WellLaid(target, providers, k) => providers[k].engine = Engine(target)
        BY <4>1, Zenon DEF WellLaid
      <4>3. WellLaid(target, providers, k) => WellLaid(target, providers, n)
        BY <2>1, WellLaidBefore
      <4> QED
        BY <2>4, <2>5, <4>2, <4>3, Zenon DEF IsComposition
    <3>5. IsComposition(target, providers, k, u)
      BY <3>3, <3>4 DEF IsComposition
    <3>6. IsComposition(target, providers, k, f[k])
      BY <3>2, <3>5, Zenon
    <3> QED
      BY <3>6
  <2>6. CASE s.ok /\ providers[k].engine = Engine(target) /\ ~Applies(target, providers[k])
    <3>1. f[k] = s
      BY <2>3, <2>6, Zenon DEF Laid
    <3>2. IsComposition(target, providers, k, s)
      BY <2>1, <2>4, <2>6, PassedOver, Zenon
    <3> QED
      BY <3>1, <3>2
  <2>7. CASE s.ok /\ providers[k].engine = Engine(target) /\ Applies(target, providers[k])
    <3>1. IsComposition(target, providers, k, Laid(target, s, providers[k], k))
      BY <2>1, <2>4, <2>7, LaidDown, Zenon
    <3> QED
      BY <2>3, <3>1
  <2> QED
    BY <2>5, <2>6, <2>7
<1>4. N \in D
  <2>1. N \in Nat
    OBVIOUS
  <2> HIDE DEF D, N
  <2>2. 0..N \subseteq D
    BY <1>2, <1>3, <2>1, InductionUpTo
  <2> QED
    BY <2>1, <2>2
<1> QED
  BY <1>1, <1>4

\* q is p in another order.
Rearranges(m, p, q, n) ==
    /\ m \in [1..n -> 1..n] /\ \A i \in 1..n : m[m[i]] = i
    /\ \A i \in 1..n : q[i] = p[m[i]]

LEMMA WellLaidAnyhow ==
    ASSUME NEW target, NEW p, NEW q, NEW n, NEW m, Rearranges(m, p, q, n), WellLaid(target, p, n)
    PROVE  WellLaid(target, q, n)
<1>1. /\ \A i \in 1..n : m[i] \in 1..n /\ q[i] = p[m[i]]
      /\ \A i, j \in 1..n : m[i] = m[j] => i = j
  <2>1. \A i \in 1..n : m[i] \in 1..n /\ q[i] = p[m[i]] /\ m[m[i]] = i
    BY DEF Rearranges
  <2>2. ASSUME NEW i \in 1..n, NEW j \in 1..n, m[i] = m[j] PROVE i = j
    BY <2>1, <2>2, Zenon
  <2> QED
    BY <2>1, <2>2, Zenon
<1>2. ASSUME NEW i \in 1..n PROVE q[i].engine = Engine(target)
  <2>1. PICK e : e = Engine(target)
    OBVIOUS
  <2>2. \A j \in 1..n : p[j].engine = e
    BY <2>1, Zenon DEF WellLaid
  <2>3. m[i] \in 1..n /\ q[i] = p[m[i]]
    BY <1>1, Zenon
  <2>4. p[m[i]].engine = e
    BY <2>2, <2>3, Zenon
  <2> QED
    BY <2>1, <2>3, <2>4, Zenon
<1>3. \A c : \A i \in 1..n : Lays(target, q[i], c) => ~base_locks_capability(BaseProfile0(target), c)
  BY <1>1, Zenon DEF WellLaid
<1>4. ASSUME NEW c, NEW i \in 1..n, NEW j \in 1..n, Lays(target, q[i], c), Lays(target, q[j], c) PROVE i = j
  <2>1. Lays(target, p[m[i]], c) /\ Lays(target, p[m[j]], c) /\ m[i] \in 1..n /\ m[j] \in 1..n
    BY <1>1, <1>4, Zenon
  <2>2. m[i] = m[j]
    BY <2>1, Zenon DEF WellLaid, LaidOnce
  <2> QED
    BY <1>1, <2>2, Zenon
<1>5. \A c : \A i \in 1..n : Serves(target, q[i], c) => ToolFits(target, q[i], c)
  BY <1>1, Zenon DEF WellLaid
<1> QED
  BY <1>2, <1>3, <1>4, <1>5, Zenon DEF WellLaid, LaidOnce

LEMMA SameFunctions ==
    ASSUME NEW f, NEW g, IsFunction(f), IsFunction(g), \A c : c \in DOMAIN f <=> c \in DOMAIN g,
           \A c \in DOMAIN f : f[c] = g[c]
    PROVE  f = g
<1>1. DOMAIN f = DOMAIN g
  OBVIOUS
<1> QED
  BY <1>1 DEF IsFunction

LEMMA ProfileIsOne ==
    ASSUME NEW target, NEW p, NEW q, NEW n, NEW m, Rearranges(m, p, q, n), NEW f, NEW g,
           ProfileIs(target, p, n, f), ProfileIs(target, q, n, g)
    PROVE  f = g
<1>1. \A i \in 1..n : m[i] \in 1..n /\ q[i] = p[m[i]] /\ p[i] = q[m[i]]
  <2>1. \A i \in 1..n : m[i] \in 1..n /\ q[i] = p[m[i]] /\ m[m[i]] = i
    BY DEF Rearranges
  <2> QED
    BY <2>1, Zenon
<1>2. \A c : (\E i \in 1..n : Enters(target, p[i], c)) <=> (\E i \in 1..n : Enters(target, q[i], c))
  BY <1>1, Zenon
<1>3. ASSUME NEW c PROVE c \in DOMAIN f <=> c \in DOMAIN g
  BY <1>2, Zenon DEF ProfileIs
<1>4. ASSUME NEW c \in DOMAIN f PROVE f[c] = g[c]
  <2>1. CASE \E i \in 1..n : Enters(target, p[i], c)
    <3>1. PICK i \in 1..n : Enters(target, p[i], c)
      BY <2>1
    <3>2. f[c] = p[i].entries[c]
      BY <3>1, Zenon DEF ProfileIs
    <3>3. m[i] \in 1..n /\ p[i] = q[m[i]]
      BY <1>1, Zenon
    <3>4. Enters(target, q[m[i]], c)
      BY <3>1, <3>3, Zenon
    <3>5. g[c] = q[m[i]].entries[c]
      BY <3>3, <3>4, Zenon DEF ProfileIs
    <3> QED
      BY <3>2, <3>3, <3>5, Zenon
  <2>2. CASE ~\E i \in 1..n : Enters(target, p[i], c)
    <3>1. c \in DOMAIN BaseProfile0(target) /\ f[c] = BaseProfile0(target)[c]
      BY <2>2, Zenon DEF ProfileIs
    <3>2. ~\E i \in 1..n : Enters(target, q[i], c)
      BY <1>2, <2>2, Zenon
    <3>3. g[c] = BaseProfile0(target)[c]
      BY <3>1, <3>2, Zenon DEF ProfileIs
    <3> QED
      BY <3>1, <3>3
  <2> QED
    BY <2>1, <2>2
<1>5. IsFunction(f) /\ IsFunction(g)
  BY DEF ProfileIs
<1> QED
  BY ONLY <1>3, <1>4, <1>5, SameFunctions

LEMMA ToolsAreOne ==
    ASSUME NEW target, NEW p, NEW q, NEW n, NEW m, Rearranges(m, p, q, n), NEW f, NEW g,
           ToolsAre(target, p, n, f), ToolsAre(target, q, n, g)
    PROVE  f = g
<1>1. \A i \in 1..n : m[i] \in 1..n /\ q[i] = p[m[i]] /\ p[i] = q[m[i]]
  <2>1. \A i \in 1..n : m[i] \in 1..n /\ q[i] = p[m[i]] /\ m[m[i]] = i
    BY DEF Rearranges
  <2> QED
    BY <2>1, Zenon
<1>2. \A c : (\E i \in 1..n : Serves(target, p[i], c)) <=> (\E i \in 1..n : Serves(target, q[i], c))
  BY <1>1, Zenon
<1>3. ASSUME NEW c PROVE c \in DOMAIN f <=> c \in DOMAIN g
  BY <1>2, Zenon DEF ToolsAre
<1>4. ASSUME NEW c \in DOMAIN f PROVE f[c] = g[c]
  <2>1. PICK i \in 1..n : Serves(target, p[i], c)
    BY Zenon DEF ToolsAre
  <2>2. f[c] = p[i].tools[c]
    BY <2>1, Zenon DEF ToolsAre
  <2>3. m[i] \in 1..n /\ p[i] = q[m[i]]
    BY <1>1, Zenon
  <2>4. Serves(target, q[m[i]], c)
    BY <2>1, <2>3, Zenon
  <2>5. g[c] = q[m[i]].tools[c]
    BY <2>3, <2>4, Zenon DEF ToolsAre
  <2> QED
    BY <2>2, <2>3, <2>5, Zenon
<1>5. IsFunction(f) /\ IsFunction(g)
  BY DEF ToolsAre
<1> QED
  BY ONLY <1>3, <1>4, <1>5, SameFunctions

LEMMA ReverseRearranges ==
    ASSUME NEW S, NEW p \in Seq(S)
    PROVE  /\ Len(p) \in Nat /\ Len(Reverse(p)) = Len(p)
           /\ \E m : Rearranges(m, p, Reverse(p), Len(p)) /\ Rearranges(m, Reverse(p), p, Len(p))
<1> DEFINE m == [i \in 1..Len(p) |-> Len(p) - i + 1]
<1>1. PICK n, q : n = Len(p) /\ q = Reverse(p) /\ n \in Nat
  OBVIOUS
<1>0. n \in Nat
  BY <1>1
<1>2. q = [i \in 1..n |-> p[n - i + 1]]
  BY <1>1 DEF Reverse
<1>3. q \in Seq(S) /\ Len(q) = n
  <2>1. \A i \in 1..n : n - i + 1 \in 1..n
    BY ONLY <1>0
  <2>2. DOMAIN p = 1..n /\ \A i \in 1..n : p[i] \in S
    BY <1>1
  <2>3. q \in [1..n -> S]
    BY ONLY <1>2, <2>1, <2>2
  <2> QED
    BY ONLY <2>3, <1>0
<1>4. PICK h : h = [i \in 1..n |-> n - i + 1]
  OBVIOUS
<1>5. h \in [1..n -> 1..n] /\ \A i \in 1..n : h[h[i]] = i
  BY ONLY <1>4, <1>0
<1>6. \A i \in 1..n : q[i] = p[h[i]] /\ h[i] \in 1..n
  BY ONLY <1>2, <1>4, <1>0
<1>7. \A i \in 1..n : p[i] = q[h[i]]
  BY ONLY <1>5, <1>6
<1>8. Rearranges(h, p, q, n) /\ Rearranges(h, q, p, n)
  BY <1>5, <1>6, <1>7 DEF Rearranges
<1> QED
  BY <1>1, <1>3, <1>8

\* The order of the fragments decides nothing.
LEMMA AnyOrderComposes ==
    ASSUME NEW target, NEW S, NEW p \in Seq(S), NEW u, u = compose_target(target, p),
           NEW v, v = compose_target(target, Reverse(p))
    PROVE  /\ u.ok \in BOOLEAN /\ v.ok \in BOOLEAN /\ (u.ok <=> v.ok)
           /\ u.ok => u.profile = v.profile /\ u.tools = v.tools
<1>1. PICK q, n : q = Reverse(p) /\ n = Len(p) /\ n = Len(q) /\ n \in Nat
  BY ReverseRearranges
<1>2. PICK m : Rearranges(m, p, q, n) /\ Rearranges(m, q, p, n)
  BY <1>1, ReverseRearranges
<1>3. IsComposition(target, p, n, u)
  BY <1>1, ComposedIs, Zenon
<1>4. IsComposition(target, q, n, v)
  BY <1>1, ComposedIs, Zenon
<1>5. u.ok \in BOOLEAN /\ v.ok \in BOOLEAN /\ (u.ok <=> WellLaid(target, p, n)) /\ (v.ok <=> WellLaid(target, q, n))
  BY <1>3, <1>4, Zenon DEF IsComposition
<1>6. WellLaid(target, p, n) <=> WellLaid(target, q, n)
  BY <1>2, WellLaidAnyhow, Zenon
<1>7. ASSUME u.ok PROVE u.profile = v.profile /\ u.tools = v.tools
  <2>1. u.ok /\ v.ok
    BY <1>5, <1>6, <1>7
  <2>2. /\ ProfileIs(target, p, n, u.profile) /\ ProfileIs(target, q, n, v.profile)
        /\ ToolsAre(target, p, n, u.tools) /\ ToolsAre(target, q, n, v.tools)
    BY <1>3, <1>4, <2>1, Zenon DEF IsComposition
  <2> QED
    BY <1>2, <2>2, ProfileIsOne, ToolsAreOne, Zenon
<1> QED
  BY <1>5, <1>6, <1>7, Zenon

-------------------------------------------------------------------------------
LEMMA AnswersAlike ==
    ASSUME NEW o \in BOOLEAN, NEW n, NEW k, NEW o2 \in BOOLEAN, NEW n2, NEW k2, o <=> o2,
           o => n = n2 /\ k.profile = k2.profile /\ k.tools = k2.tools
    PROVE  /\ Answer(o, n, k).ok <=> Answer(o2, n2, k2).ok
           /\ Answer(o, n, k).ok => Answer(o, n, k) = Answer(o2, n2, k2)
  BY DEF Answer

\* What is asked again with the fragments in another order.
AskedAgain(a, b) ==
    /\ b.target = a.target /\ b.nodes = a.nodes /\ b.providers = Reverse(a.providers) /\ b.context = a.context
    /\ b.binding = a.binding /\ b.models = a.models /\ b.purpose = a.purpose /\ b.pinned = a.pinned

LEMMA ReorderedIsAskedAgain == ASSUME NEW a PROVE AskedAgain(a, Reordered(a))
  BY DEF AskedAgain, Reordered

LEMMA EmptyByLength == ASSUME NEW S, NEW p \in Seq(S) PROVE p = <<>> <=> Len(p) = 0
  OBVIOUS

LEMMA AskedAlike ==
    ASSUME NEW a, NEW b, AskedAgain(a, b), NEW S, a.providers \in Seq(S)
    PROVE  /\ Projected(b) = Projected(a) /\ (PurposeHolds(b) <=> PurposeHolds(a))
           /\ \A nodes : /\ validate_models(b, nodes) <=> validate_models(a, nodes)
                         /\ require_per_step_provider_support(b, nodes) <=> require_per_step_provider_support(a, nodes)
           /\ \A n, p : resolve_node_with_shared_binding(b, n, p) <=> resolve_node_with_shared_binding(a, n, p)
           /\ b.providers = <<>> <=> a.providers = <<>>
           /\ ContextFree(b) <=> ContextFree(a)
<1>0. /\ b.target = a.target /\ b.nodes = a.nodes /\ b.providers = Reverse(a.providers) /\ b.context = a.context
      /\ b.binding = a.binding /\ b.models = a.models /\ b.purpose = a.purpose /\ b.pinned = a.pinned
  BY Zenon DEF AskedAgain
<1>1. \A e : validate_profile(b, e) <=> validate_profile(a, e)
  BY <1>0, Zenon DEF validate_profile
<1>2. Projected(b) = Projected(a)
  BY <1>0, Zenon DEF Projected
<1>3. PurposeHolds(b) <=> PurposeHolds(a)
  BY <1>0, <1>1, <1>2, Zenon DEF PurposeHolds
<1>4. \A nodes : validate_models(b, nodes) <=> validate_models(a, nodes)
  BY <1>0, Zenon DEF validate_models, Each
<1>5. \A nodes : require_per_step_provider_support(b, nodes) <=> require_per_step_provider_support(a, nodes)
  BY <1>0, Zenon DEF require_per_step_provider_support, AllAnthropic, Each
<1>6. \A n, p : resolve_node_with_shared_binding(b, n, p) <=> resolve_node_with_shared_binding(a, n, p)
  BY <1>0, Zenon DEF resolve_node_with_shared_binding
<1>7. b.providers = <<>> <=> a.providers = <<>>
  <2>1. PICK p : p = a.providers
    OBVIOUS
  <2>2. p \in Seq(S)
    BY <2>1
  <2>3. PICK q, n : q = Reverse(p) /\ n = Len(p) /\ n = Len(q) /\ n \in Nat
    BY ONLY <2>2, ReverseRearranges
  <2>4. q \in Seq(S)
    BY ONLY <2>2, <2>3 DEF Reverse
  <2>5. q = <<>> <=> p = <<>>
    BY <2>2, <2>3, <2>4, EmptyByLength, Zenon
  <2> QED
    BY <1>0, <2>1, <2>3, <2>5, Zenon
<1>8. ContextFree(b) <=> ContextFree(a)
  BY <1>0, <1>7 DEF ContextFree, Each
<1> QED
  BY <1>2, <1>3, <1>4, <1>5, <1>6, <1>7, <1>8, Zenon

\* Two links that come to the same.
LinksAlike(k, l) ==
    /\ k.ok \in BOOLEAN /\ l.ok \in BOOLEAN /\ (k.ok <=> l.ok)
    /\ k.ok => k.profile = l.profile /\ k.tools = l.tools

LEMMA ComposedAlike ==
    ASSUME NEW a, NEW b, AskedAgain(a, b), NEW S, a.providers \in Seq(S)
    PROVE  /\ LinksAlike(compose_target(a.target, a.providers), compose_target(b.target, b.providers))
           /\ LinksAlike(NoFragments(a), NoFragments(b))
<1>1. PICK t, p : t = a.target /\ p = a.providers
  OBVIOUS
<1>2. b.target = t /\ b.providers = Reverse(p) /\ (b.providers = <<>> <=> p = <<>>)
  BY <1>1, AskedAlike, Zenon DEF AskedAgain
<1>3. PICK u, v : u = compose_target(t, p) /\ v = compose_target(t, Reverse(p))
  OBVIOUS
<1>4. p \in Seq(S)
  BY <1>1
<1>5. LinksAlike(u, v)
  BY ONLY <1>3, <1>4, AnyOrderComposes DEF LinksAlike
<1>6. LinksAlike(NoFragments(a), NoFragments(b))
  BY <1>1, <1>2 DEF LinksAlike, NoFragments
<1> QED
  BY <1>1, <1>2, <1>3, <1>5, <1>6, Zenon

RunAlike(a, b, k, l) ==
    /\ \A e, n : RunsInClaudeCode(a, e, n, k) <=> RunsInClaudeCode(b, e, n, l)
    /\ \A e, n : RunsInCodex(a, e, n, k) <=> RunsInCodex(b, e, n, l)
    /\ \A n : RunsInPi(a, n, k) <=> RunsInPi(b, n, l)
    /\ \A n : RunsOnVercel(a, n, k) <=> RunsOnVercel(b, n, l)

LEMMA RunsAlike ==
    ASSUME NEW a, NEW b, AskedAgain(a, b), NEW S, a.providers \in Seq(S), NEW k, NEW l, LinksAlike(k, l)
    PROVE  RunAlike(a, b, k, l)
<1>0. /\ b.target = a.target /\ b.nodes = a.nodes /\ b.context = a.context
      /\ b.binding = a.binding /\ b.models = a.models /\ b.purpose = a.purpose /\ b.pinned = a.pinned
  BY Zenon DEF AskedAgain
<1>1. /\ (PurposeHolds(b) <=> PurposeHolds(a)) /\ (ContextFree(b) <=> ContextFree(a))
      /\ \A nodes : /\ validate_models(b, nodes) <=> validate_models(a, nodes)
                    /\ require_per_step_provider_support(b, nodes) <=> require_per_step_provider_support(a, nodes)
      /\ \A m, p : resolve_node_with_shared_binding(b, m, p) <=> resolve_node_with_shared_binding(a, m, p)
  BY AskedAlike, Zenon
<1>2. (k.ok <=> l.ok) /\ (k.ok => k.profile = l.profile)
  BY DEF LinksAlike
<1>3. \A e, n : RunsInClaudeCode(a, e, n, k) <=> RunsInClaudeCode(b, e, n, l)
  BY <1>0, <1>1, <1>2, Zenon DEF RunsInClaudeCode, Each
<1>4. \A e, n : RunsInCodex(a, e, n, k) <=> RunsInCodex(b, e, n, l)
  BY <1>0, <1>1, <1>2, Zenon DEF RunsInCodex, Each
<1>5. \A n : RunsInPi(a, n, k) <=> RunsInPi(b, n, l)
  BY <1>0, <1>1, <1>2, Zenon DEF RunsInPi
<1>6. \A n : RunsOnVercel(a, n, k) <=> RunsOnVercel(b, n, l)
  BY <1>0, <1>1, <1>2, Zenon DEF RunsOnVercel, Each
<1> QED
  BY <1>3, <1>4, <1>5, <1>6, Zenon DEF RunAlike

\* What an answer says when the links come to the same.
AnswersSame(r, s) == (r.ok <=> s.ok) /\ (r.ok => r = s)

LEMMA AnswersSameFor ==
    ASSUME NEW o \in BOOLEAN, NEW o2 \in BOOLEAN, NEW n, NEW k, NEW l, LinksAlike(k, l), o <=> o2, o => k.ok
    PROVE  AnswersSame(Answer(o, n, k), Answer(o2, n, l))
<1>1. o => k.profile = l.profile /\ k.tools = l.tools
  BY DEF LinksAlike
<1> QED
  BY <1>1, AnswersAlike DEF AnswersSame

LEMMA RunsAreFlags ==
    ASSUME NEW a, NEW e, NEW n, NEW k, k.ok \in BOOLEAN
    PROVE  /\ RunsInClaudeCode(a, e, n, k) \in BOOLEAN /\ (RunsInClaudeCode(a, e, n, k) => k.ok)
           /\ RunsInCodex(a, e, n, k) \in BOOLEAN /\ (RunsInCodex(a, e, n, k) => k.ok)
           /\ RunsInPi(a, n, k) \in BOOLEAN /\ (RunsInPi(a, n, k) => k.ok)
           /\ RunsOnVercel(a, n, k) \in BOOLEAN /\ (RunsOnVercel(a, n, k) => k.ok)
  BY DEF RunsInClaudeCode, RunsInCodex, RunsInPi, RunsOnVercel

LEMMA DispatchedAlike ==
    ASSUME NEW a, NEW b, AskedAgain(a, b), NEW S, a.providers \in Seq(S)
    PROVE  AnswersSame(run_dispatch(a), run_dispatch(b))
<1>0. b.target = a.target /\ Projected(b) = Projected(a) /\ b.nodes = a.nodes
  BY AskedAlike, Zenon DEF AskedAgain
<1>9. AskedAgain(a, b) /\ a.providers \in Seq(S)
  OBVIOUS
<1>1. PICK k, l : /\ k = compose_target(a.target, a.providers) /\ l = compose_target(b.target, b.providers)
                  /\ LinksAlike(k, l)
  BY ComposedAlike, Zenon
<1>2. PICK g, h : g = NoFragments(a) /\ h = NoFragments(b) /\ LinksAlike(g, h)
  BY ComposedAlike, Zenon
<1>3. k.ok \in BOOLEAN /\ l.ok \in BOOLEAN /\ g.ok \in BOOLEAN /\ h.ok \in BOOLEAN
  BY <1>1, <1>2 DEF LinksAlike
<1>12. LinksAlike(k, l) /\ LinksAlike(g, h)
  BY <1>1, <1>2
<1>10. RunAlike(a, b, k, l) /\ RunAlike(a, b, g, h)
  BY ONLY <1>9, <1>12, RunsAlike
<1>4. AnswersSame(emit_claude_code(a), emit_claude_code(b))
  <2>1. PICK e, n : /\ e = Projected(a)
                    /\ n = IF a.target = "claude-code:interactive" THEN Materializable(e) ELSE e
    OBVIOUS
  <2>2. PICK o, o2 : o = RunsInClaudeCode(a, e, n, k) /\ o2 = RunsInClaudeCode(b, e, n, l)
    OBVIOUS
  <2>3. emit_claude_code(a) = Answer(o, n, k) /\ emit_claude_code(b) = Answer(o2, n, l)
    BY <1>0, <1>1, <2>1, <2>2, Zenon DEF emit_claude_code
  <2>6. RunsInClaudeCode(a, e, n, k) \in BOOLEAN /\ (RunsInClaudeCode(a, e, n, k) => k.ok)
    BY ONLY <1>3, RunsAreFlags
  <2>7. RunsInClaudeCode(b, e, n, l) \in BOOLEAN
    BY ONLY <1>3, RunsAreFlags
  <2>8. RunsInClaudeCode(a, e, n, k) <=> RunsInClaudeCode(b, e, n, l)
    BY <1>10, Zenon DEF RunAlike
  <2>4. o \in BOOLEAN /\ o2 \in BOOLEAN /\ (o => k.ok) /\ (o <=> o2)
    BY <2>2, <2>6, <2>7, <2>8
  <2>5. AnswersSame(Answer(o, n, k), Answer(o2, n, l))
    BY <1>1, <2>4, AnswersSameFor, Zenon
  <2> QED
    BY <2>3, <2>5, Zenon
<1>5. AnswersSame(emit_codex_interactive(a), emit_codex_interactive(b))
  <2>1. PICK e, n : e = Projected(a) /\ n = Materializable(e)
    OBVIOUS
  <2>2. PICK o, o2 : o = RunsInCodex(a, e, n, g) /\ o2 = RunsInCodex(b, e, n, h)
    OBVIOUS
  <2>3. emit_codex_interactive(a) = Answer(o, n, g) /\ emit_codex_interactive(b) = Answer(o2, n, h)
    BY <1>0, <1>2, <2>1, <2>2, Zenon DEF emit_codex_interactive
  <2>6. RunsInCodex(a, e, n, g) \in BOOLEAN /\ (RunsInCodex(a, e, n, g) => g.ok)
    BY ONLY <1>3, RunsAreFlags
  <2>7. RunsInCodex(b, e, n, h) \in BOOLEAN
    BY ONLY <1>3, RunsAreFlags
  <2>8. RunsInCodex(a, e, n, g) <=> RunsInCodex(b, e, n, h)
    BY <1>10, Zenon DEF RunAlike
  <2>4. o \in BOOLEAN /\ o2 \in BOOLEAN /\ (o => g.ok) /\ (o <=> o2)
    BY <2>2, <2>6, <2>7, <2>8
  <2>5. AnswersSame(Answer(o, n, g), Answer(o2, n, h))
    BY <1>2, <2>4, AnswersSameFor, Zenon
  <2> QED
    BY <2>3, <2>5, Zenon
<1>6. AnswersSame(emit_pi_interactive(a), emit_pi_interactive(b))
  <2>1. PICK n : n = Projected(a)
    OBVIOUS
  <2>2. PICK o, o2 : o = RunsInPi(a, n, g) /\ o2 = RunsInPi(b, n, h)
    OBVIOUS
  <2>3. emit_pi_interactive(a) = Answer(o, n, g) /\ emit_pi_interactive(b) = Answer(o2, n, h)
    BY <1>0, <1>2, <2>1, <2>2, Zenon DEF emit_pi_interactive
  <2>6. RunsInPi(a, n, g) \in BOOLEAN /\ (RunsInPi(a, n, g) => g.ok)
    BY ONLY <1>3, RunsAreFlags
  <2>7. RunsInPi(b, n, h) \in BOOLEAN
    BY ONLY <1>3, RunsAreFlags
  <2>8. RunsInPi(a, n, g) <=> RunsInPi(b, n, h)
    BY <1>10, Zenon DEF RunAlike
  <2>4. o \in BOOLEAN /\ o2 \in BOOLEAN /\ (o => g.ok) /\ (o <=> o2)
    BY <2>2, <2>6, <2>7, <2>8
  <2>5. AnswersSame(Answer(o, n, g), Answer(o2, n, h))
    BY <1>2, <2>4, AnswersSameFor, Zenon
  <2> QED
    BY <2>3, <2>5, Zenon
<1>7. AnswersSame(emit_vercel(a), emit_vercel(b))
  <2>1. PICK n : n = Entries(a.nodes)
    OBVIOUS
  <2>2. PICK o, o2 : o = RunsOnVercel(a, n, k) /\ o2 = RunsOnVercel(b, n, l)
    OBVIOUS
  <2>3. emit_vercel(a) = Answer(o, n, k) /\ emit_vercel(b) = Answer(o2, n, l)
    BY <1>0, <1>1, <2>1, <2>2, Zenon DEF emit_vercel
  <2>6. RunsOnVercel(a, n, k) \in BOOLEAN /\ (RunsOnVercel(a, n, k) => k.ok)
    BY ONLY <1>3, RunsAreFlags
  <2>7. RunsOnVercel(b, n, l) \in BOOLEAN
    BY ONLY <1>3, RunsAreFlags
  <2>8. RunsOnVercel(a, n, k) <=> RunsOnVercel(b, n, l)
    BY <1>10, Zenon DEF RunAlike
  <2>4. o \in BOOLEAN /\ o2 \in BOOLEAN /\ (o => k.ok) /\ (o <=> o2)
    BY <2>2, <2>6, <2>7, <2>8
  <2>5. AnswersSame(Answer(o, n, k), Answer(o2, n, l))
    BY <1>1, <2>4, AnswersSameFor, Zenon
  <2> QED
    BY <2>3, <2>5, Zenon
<1>8. \/ run_dispatch(a) = emit_vercel(a) /\ run_dispatch(b) = emit_vercel(b)
      \/ run_dispatch(a) = emit_codex_interactive(a) /\ run_dispatch(b) = emit_codex_interactive(b)
      \/ run_dispatch(a) = emit_pi_interactive(a) /\ run_dispatch(b) = emit_pi_interactive(b)
      \/ run_dispatch(a) = emit_claude_code(a) /\ run_dispatch(b) = emit_claude_code(b)
  BY <1>0 DEF run_dispatch, Vercel
<1> QED
  BY <1>4, <1>5, <1>6, <1>7, <1>8, Zenon

LEMMA OrderIsImmaterial ==
    ASSUME NEW a, NEW S, a.providers \in Seq(S)
    PROVE  FragmentOrderIsImmaterial(a, run_dispatch(a))
  BY DispatchedAlike, ReorderedIsAskedAgain, Zenon DEF FragmentOrderIsImmaterial, AnswersSame

Distinct(nodes) == \A i, j \in DOMAIN nodes : nodes[i].id = nodes[j].id => i = j

LEMMA PickedDistinct ==
    ASSUME NEW S, NEW s \in Seq(S), NEW I, Distinct(s)
    PROVE  Distinct(Picked(s, I))
<1>1. PICK h : Selects(h, s, I, Len(s)) /\ Picked(s, I) = Listed(h, s)
  BY PickedPlaces
<1>0. Len(s) \in Nat /\ Len(h) \in Nat
  <2>1. h \in Seq(I \cap (1..Len(s)))
    BY <1>1 DEF Selects
  <2> QED
    BY ONLY <2>1, s \in Seq(S)
<1>2. PICK n, m : n = Len(s) /\ m = Len(h) /\ n \in Nat /\ m \in Nat
  BY <1>0
<1>3. h \in Seq(I \cap (1..n)) /\ (\A k, l \in DOMAIN h : k < l => h[k] < h[l]) /\ DOMAIN h = 1..m /\ DOMAIN s = 1..n
  BY <1>1, <1>2 DEF Selects
<1>4. \A k \in 1..m : h[k] \in 1..n
  BY ONLY <1>2, <1>3
<1>5. ASSUME NEW k \in 1..m, NEW l \in 1..m, h[k] = h[l] PROVE k = l
  <2>1. (k < l => h[k] < h[l]) /\ (l < k => h[l] < h[k]) /\ h[k] \in 1..n /\ h[l] \in 1..n
    BY <1>3, <1>4, Zenon
  <2>2. k \in 1..m /\ l \in 1..m
    OBVIOUS
  <2> QED
    BY ONLY <1>2, <1>5, <2>1, <2>2
<1>6. PICK q : q = Picked(s, I)
  OBVIOUS
<1>7. DOMAIN q = 1..m /\ \A k \in 1..m : q[k] = s[h[k]]
  BY ONLY <1>1, <1>2, <1>6 DEF Listed
<1>8. ASSUME NEW k \in DOMAIN q, NEW l \in DOMAIN q, q[k].id = q[l].id PROVE k = l
  <2>1. k \in 1..m /\ l \in 1..m /\ q[k] = s[h[k]] /\ q[l] = s[h[l]] /\ h[k] \in DOMAIN s /\ h[l] \in DOMAIN s
    BY <1>3, <1>4, <1>7, Zenon
  <2>2. h[k] = h[l]
    BY <1>8, <2>1, Zenon DEF Distinct
  <2> QED
    BY <1>5, <2>1, <2>2, Zenon
<1> QED
  BY <1>6, <1>8, Zenon DEF Distinct

\* Entries, each of them once.
EntriesOnly(nodes, S) == nodes \in Seq(S) /\ Distinct(nodes) /\ \A i \in DOMAIN nodes : nodes[i].entrypoint
AllKnownAs(nodes, id) == \A i \in DOMAIN nodes : nodes[i].id = id

LEMMA PickedFromEntries ==
    ASSUME NEW S, NEW s, EntriesOnly(s, S), NEW I
    PROVE  /\ EntriesOnly(Picked(s, I), S)
           /\ \A id : AllKnownAs(s, id) => AllKnownAs(Picked(s, I), id)
<1>1. PICK q : q = Picked(s, I)
  OBVIOUS
<1>2. s \in Seq(S) /\ Distinct(s) /\ \A i \in DOMAIN s : s[i].entrypoint
  BY DEF EntriesOnly
<1>3. q \in Seq(S) /\ \A k \in DOMAIN q : \E i \in DOMAIN s : q[k] = s[i]
  BY <1>1, <1>2, PickedElements
<1>4. Distinct(q)
  BY <1>1, <1>2, PickedDistinct
<1>5. \A k \in DOMAIN q : q[k].entrypoint
  BY <1>2, <1>3, Zenon
<1>6. \A id : AllKnownAs(s, id) => AllKnownAs(q, id)
  BY <1>3, Zenon DEF AllKnownAs
<1> QED
  BY <1>1, <1>3, <1>4, <1>5, <1>6, Zenon DEF EntriesOnly

LEMMA EntriesAreEntries ==
    ASSUME NEW S, NEW nodes \in Seq(S), Distinct(nodes)
    PROVE  EntriesOnly(Entries(nodes), S)
<1>1. PICK I : I = {i \in DOMAIN nodes : nodes[i].entrypoint}
  OBVIOUS
<1>2. PICK q : q = Picked(nodes, I)
  OBVIOUS
<1>3. q = Entries(nodes)
  BY <1>1, <1>2, Zenon DEF Entries
<1>4. q \in Seq(S) /\ \A k \in DOMAIN q : \E i \in I \cap DOMAIN nodes : q[k] = nodes[i]
  BY <1>2, PickedElements
<1>5. Distinct(q)
  BY <1>2, PickedDistinct
<1>6. \A k \in DOMAIN q : q[k].entrypoint
  BY <1>1, <1>4, Zenon
<1> QED
  BY <1>3, <1>4, <1>5, <1>6, Zenon DEF EntriesOnly

LEMMA ProjectedAre ==
    ASSUME NEW a, NEW S, a.nodes \in Seq(S), Distinct(a.nodes)
    PROVE  /\ EntriesOnly(Projected(a), S)
           /\ a.purpose # "" /\ a.pinned # "" => AllKnownAs(Projected(a), a.pinned)
<1>1. PICK e : e = Entries(a.nodes)
  OBVIOUS
<1>2. EntriesOnly(e, S)
  BY <1>1, EntriesAreEntries
<1>3. CASE a.purpose # "" /\ a.pinned # ""
  <2>1. PICK I : I = {i \in DOMAIN e : e[i].id = a.pinned}
    OBVIOUS
  <2>2. PICK q : q = Picked(e, I)
    OBVIOUS
  <2>3. Projected(a) = q
    BY <1>1, <1>3, <2>1, <2>2, Zenon DEF Projected, KnownAs
  <2>4. EntriesOnly(q, S)
    BY <1>2, <2>2, PickedFromEntries, Zenon
  <2>5. \A k \in DOMAIN q : \E i \in I \cap DOMAIN e : q[k] = e[i]
    <3>1. e \in Seq(S)
      BY <1>2 DEF EntriesOnly
    <3> QED
      BY ONLY <2>2, <3>1, PickedElements
  <2>6. AllKnownAs(q, a.pinned)
    BY <2>1, <2>5, Zenon DEF AllKnownAs
  <2> QED
    BY <2>3, <2>4, <2>6, Zenon
<1>4. CASE ~(a.purpose # "" /\ a.pinned # "")
  <2>1. Projected(a) = e
    BY <1>1, <1>4, Zenon DEF Projected
  <2> QED
    BY <1>2, <1>4, <2>1, Zenon
<1> QED
  BY <1>3, <1>4, Zenon

LEMMA OnlyOne ==
    ASSUME NEW S, NEW nodes, EntriesOnly(nodes, S), NEW id, AllKnownAs(nodes, id), nodes # <<>>
    PROVE  Len(nodes) = 1
<1>1. PICK n : n = Len(nodes) /\ n \in Nat /\ DOMAIN nodes = 1..n
  BY DEF EntriesOnly
<1>2. n # 0
  <2>1. nodes \in Seq(S)
    BY DEF EntriesOnly
  <2> QED
    BY <1>1, <2>1, EmptyByLength, Zenon
<1>3. ASSUME NEW i \in 1..n, NEW j \in 1..n PROVE i = j
  <2>1. i \in DOMAIN nodes /\ j \in DOMAIN nodes
    BY <1>1, Zenon
  <2>2. nodes[i].id = id /\ nodes[j].id = id
    BY <2>1, Zenon DEF AllKnownAs
  <2>3. nodes[i].id = nodes[j].id
    BY ONLY <2>2
  <2> QED
    BY <2>1, <2>3, Zenon DEF EntriesOnly, Distinct
<1>4. n = 1
  <2>1. CASE n > 1
    <3>1. 1 \in 1..n /\ n \in 1..n
      BY ONLY <1>1, <2>1
    <3> QED
      BY <1>3, <3>1, Zenon
  <2> QED
    BY ONLY <1>1, <1>2, <2>1
<1> QED
  BY <1>1, <1>4

-------------------------------------------------------------------------------
\* The link of what is asked: its profile and its tools, of fragments that go together.
LinkOf(a, profile, tools) ==
    \E n \in Nat :
        /\ DOMAIN a.providers = 1..n /\ WellLaid(a.target, a.providers, n)
        /\ ProfileIs(a.target, a.providers, n, profile) /\ ToolsAre(a.target, a.providers, n, tools)

LEMMA ComposedIsLink ==
    ASSUME NEW a, NEW S, a.providers \in Seq(S), NEW k, k = compose_target(a.target, a.providers), k.ok
    PROVE  LinkOf(a, k.profile, k.tools)
<1>1. PICK t, p, n : t = a.target /\ p = a.providers /\ n = Len(p)
  OBVIOUS
<1>2. n \in Nat /\ DOMAIN p = 1..n
  BY <1>1
<1>3. IsComposition(t, p, n, k)
  BY <1>1, <1>2, ComposedIs, Zenon
<1>4. WellLaid(t, p, n) /\ ProfileIs(t, p, n, k.profile) /\ ToolsAre(t, p, n, k.tools)
  BY <1>3, Zenon DEF IsComposition
<1> QED
  BY <1>1, <1>2, <1>4, Zenon DEF LinkOf

LEMMA NoFragmentsIsLink ==
    ASSUME NEW a, NEW k, k = NoFragments(a), k.ok
    PROVE  LinkOf(a, k.profile, k.tools)
<1>1. PICK t, p : t = a.target /\ p = a.providers
  OBVIOUS
<1>2. PICK base : base = BaseProfile0(t)
  OBVIOUS
<1>3. p = <<>> /\ k.profile = base /\ k.tools = <<>>
  BY <1>1, <1>2 DEF NoFragments
<1>4. PICK s : s = Composition(TRUE, base, <<>>, <<>>)
  OBVIOUS
<1>5. s.ok = TRUE /\ s.profile = base /\ s.tools = <<>>
  BY ONLY <1>4 DEF Composition
<1>6. IsComposition(t, p, 0, s)
  BY <1>2, <1>4, NothingLaid, Zenon
<1>7. WellLaid(t, p, 0) /\ ProfileIs(t, p, 0, base) /\ ToolsAre(t, p, 0, <<>>)
  BY <1>5, <1>6, Zenon DEF IsComposition
<1>8. DOMAIN p = 1..0 /\ 0 \in Nat
  BY <1>3
<1> QED
  BY <1>1, <1>3, <1>7, <1>8, Zenon DEF LinkOf

LEMMA LinkSupports ==
    ASSUME NEW a, NEW profile, NEW tools, LinkOf(a, profile, tools), NEW c, c \in DOMAIN profile, profile[c].outcome # "fail"
    PROVE  Supported(a, c)
<1>1. PICK n \in Nat : /\ DOMAIN a.providers = 1..n /\ WellLaid(a.target, a.providers, n)
                       /\ ProfileIs(a.target, a.providers, n, profile)
  BY Zenon DEF LinkOf
<1>2. PICK t, p, base : t = a.target /\ p = a.providers /\ base = BaseProfile0(t)
  OBVIOUS
<1>3. PICK sup : sup = Suppliers(a, c)
  OBVIOUS
<1>4. \A i : i \in sup <=> i \in 1..n /\ Enters(t, p[i], c)
  BY <1>1, <1>2, <1>3, Zenon DEF Suppliers, Enters
<1>5. PICK own : own = (c \in DOMAIN base /\ base[c].outcome # "fail")
  OBVIOUS
<1>6. CASE sup = {}
  <2>1. \A i \in 1..n : ~Enters(t, p[i], c)
    BY <1>4, <1>6, Zenon
  <2>2. c \in DOMAIN base
    BY <1>1, <1>2, <2>1, Zenon DEF ProfileIs
  <2>3. profile[c] = base[c]
    BY <1>1, <1>2, <2>1, <2>2, Zenon DEF ProfileIs
  <2> QED
    BY <1>2, <1>3, <1>6, <2>2, <2>3, Zenon DEF Supported
<1>7. CASE sup # {}
  <2>1. PICK i \in 1..n : i \in sup /\ Enters(t, p[i], c)
    BY <1>4, <1>7, Zenon
  <2>2. Lays(t, p[i], c)
    BY <2>1, Zenon DEF Lays, Enters, Claims
  <2>3. ~base_locks_capability(base, c)
    BY <1>1, <1>2, <2>2, Zenon DEF WellLaid
  <2>4. \A j \in sup : j = i
    <3>1. \A j \in sup : j \in 1..n /\ Lays(t, p[j], c)
      BY <1>4, Zenon DEF Lays, Enters, Claims
    <3> QED
      BY <1>1, <1>2, <2>1, <2>2, <3>1, Zenon DEF WellLaid, LaidOnce
  <2>5. sup = {i}
    BY <2>1, <2>4, Zenon
  <2>6. Cardinality(sup) = 1
    BY <2>5, FS_Singleton, Zenon
  <2>7. profile[c] = p[i].entries[c]
    BY <1>1, <1>2, <2>1, Zenon DEF ProfileIs
  <2>8. c \in DOMAIN base => base[c].outcome = "fail" /\ ~base[c].critical
    BY <2>3, Zenon DEF base_locks_capability
  <2>9. c \in DOMAIN base => c \notin SafetyCritical
    BY <1>2, <2>8, BaseProfilesAre, Zenon
  <2>10. \A j \in sup : p[j].entries[c].outcome # "fail"
    BY <2>4, <2>7, Zenon
  <2> QED
    BY <1>2, <1>3, <2>6, <2>8, <2>9, <2>10, Zenon DEF Supported
<1> QED
  BY <1>6, <1>7

LEMMA LinkReaches ==
    ASSUME NEW a, NEW profile, NEW tools, LinkOf(a, profile, tools), NEW c \in DOMAIN tools, tools[c].source = "mcp"
    PROVE  profile[c].via = tools[c].server
<1>1. PICK n \in Nat : /\ WellLaid(a.target, a.providers, n)
                       /\ ProfileIs(a.target, a.providers, n, profile) /\ ToolsAre(a.target, a.providers, n, tools)
  BY Zenon DEF LinkOf
<1>2. PICK t, p, base : t = a.target /\ p = a.providers /\ base = BaseProfile0(t)
  OBVIOUS
<1>3. PICK i \in 1..n : Serves(t, p[i], c)
  BY <1>1, <1>2, Zenon DEF ToolsAre
<1>4. tools[c] = p[i].tools[c]
  BY <1>1, <1>2, <1>3, Zenon DEF ToolsAre
<1>5. ToolFits(t, p[i], c)
  BY <1>1, <1>2, <1>3, Zenon DEF WellLaid
<1>6. EntryFor(t, p[i], c).via = tools[c].server
  BY <1>4, <1>5, Zenon DEF ToolFits
<1>7. profile[c] = EntryFor(t, p[i], c)
  <2>1. CASE c \in DOMAIN p[i].entries
    <3>1. Enters(t, p[i], c)
      BY <1>3, <2>1, Zenon DEF Serves, Enters
    <3>2. profile[c] = p[i].entries[c]
      BY <1>1, <1>2, <1>3, <3>1, Zenon DEF ProfileIs
    <3> QED
      BY <2>1, <3>2, Zenon DEF EntryFor
  <2>2. CASE c \notin DOMAIN p[i].entries
    <3>1. c \in DOMAIN base
      BY <1>2, <1>5, <2>2, Zenon DEF ToolFits
    <3>2. Lays(t, p[i], c)
      BY <1>3, Zenon DEF Serves, Lays, Claims
    <3>3. ASSUME NEW j \in 1..n, Enters(t, p[j], c) PROVE FALSE
      <4>1. Lays(t, p[j], c)
        BY <3>3, Zenon DEF Lays, Enters, Claims
      <4>2. i = j
        BY <1>1, <1>2, <3>2, <4>1, Zenon DEF WellLaid, LaidOnce
      <4> QED
        BY <2>2, <3>3, <4>2, Zenon DEF Enters
    <3>4. profile[c] = base[c]
      BY <1>1, <1>2, <3>1, <3>3, Zenon DEF ProfileIs
    <3> QED
      BY <1>2, <2>2, <3>4, Zenon DEF EntryFor
  <2> QED
    BY <2>1, <2>2
<1> QED
  BY <1>6, <1>7, Zenon

ToolsReach(profile, tools) == \A c \in DOMAIN tools : tools[c].source = "mcp" => profile[c].via = tools[c].server

LEMMA LinkToolsReach ==
    ASSUME NEW a, NEW profile, NEW tools, LinkOf(a, profile, tools)
    PROVE  ToolsReach(profile, tools)
<1>1. ASSUME NEW c \in DOMAIN tools, tools[c].source = "mcp" PROVE profile[c].via = tools[c].server
  BY ONLY LinkOf(a, profile, tools), <1>1, LinkReaches
<1> QED
  BY <1>1, Zenon DEF ToolsReach

LEMMA ResolvedIsSupported ==
    ASSUME NEW a, NEW profile, NEW tools, LinkOf(a, profile, tools), NEW n, NEW fine,
           resolve_capabilities(n, fine, profile), NEW c \in collect_required_capabilities(n), c # "blast_radius"
    PROVE  Supported(a, c)
<1>1. Outcome(c, fine, profile) # "fail"
  BY DEF resolve_capabilities
<1>2. c \in DOMAIN profile /\ profile[c].outcome # "fail"
  BY <1>1 DEF Outcome
<1> QED
  BY <1>2, LinkSupports, Zenon

LEMMA ResolvedIsFine ==
    ASSUME NEW n, NEW fine \in BOOLEAN, NEW profile, resolve_capabilities(n, fine, profile), "blast_radius" \in n.requires
    PROVE  fine
<1>1. PICK c : c = "blast_radius" /\ c \in collect_required_capabilities(n)
  BY Zenon DEF collect_required_capabilities
<1>2. Outcome(c, fine, profile) # "fail"
  BY <1>1, Zenon DEF resolve_capabilities
<1>3. ASSUME ~fine PROVE Outcome("blast_radius", fine, profile) = "fail"
  BY <1>3 DEF Outcome
<1> QED
  BY <1>1, <1>2, <1>3, Zenon

LEMMA SplitSteps == ASSUME NEW n, "llm:per_step_tier" \in implied_capabilities(n) PROVE should_split_per_step_tier(n)
  BY DEF implied_capabilities

\* The binding that a component is resolved with is fine-grained only if it is.
ResolvedFor(a, n, profile) ==
    \E fine \in BOOLEAN : resolve_capabilities(n, fine, profile) /\ (fine => "fine" \in {a.binding, n.binding})

LEMMA OwnBinding ==
    ASSUME NEW a, NEW n, NEW profile, resolve_capabilities(n, has_fine_grained_binding(n), profile)
    PROVE  ResolvedFor(a, n, profile)
<1>1. PICK fine : fine = has_fine_grained_binding(n)
  OBVIOUS
<1>2. fine \in BOOLEAN /\ (fine => n.binding = "fine")
  BY <1>1 DEF has_fine_grained_binding
<1>3. resolve_capabilities(n, fine, profile)
  BY <1>1, Zenon
<1> QED
  BY <1>2, <1>3, Zenon DEF ResolvedFor

LEMMA SharedBinding ==
    ASSUME NEW a, NEW n, NEW profile, resolve_node_with_shared_binding(a, n, profile)
    PROVE  ResolvedFor(a, n, profile)
<1>1. PICK fine : fine = IF n.binding = "none" THEN a.binding = "fine" ELSE has_fine_grained_binding(n)
  OBVIOUS
<1>2. fine \in BOOLEAN /\ (fine => "fine" \in {a.binding, n.binding})
  BY <1>1 DEF has_fine_grained_binding
<1>3. resolve_capabilities(n, fine, profile)
  BY <1>1, Zenon DEF resolve_node_with_shared_binding
<1> QED
  BY <1>2, <1>3, Zenon DEF ResolvedFor

\* What every back-end makes sure of before it dispatches.
Ensured(a, r, S) ==
    /\ LinkOf(a, r.profile, r.tools)
    /\ EntriesOnly(r.nodes, S)
    /\ \A i \in DOMAIN r.nodes : ResolvedFor(a, r.nodes[i], r.profile)
    /\ \A i \in DOMAIN r.nodes : ~r.nodes[i].invokes
    /\ Engine(a.target) = "claude-code" /\ Mode(a.target) = "headless" =>
         \A i \in DOMAIN r.nodes : ~(r.nodes[i].kind = "gated-tool" /\ should_split_per_step_tier(r.nodes[i]))
    /\ a.purpose # "" /\ a.pinned # "" => Len(r.nodes) = 1 /\ Len(CalledBy(Entries(a.nodes), a.pinned)) = 1

LEMMA EnsuredIsEnough ==
    ASSUME NEW a, NEW r, NEW S, r.ok => Ensured(a, r, S)
    PROVE  NothingIsWeakened(a, r)
<1> SUFFICES ASSUME r.ok PROVE NothingIsWeakened(a, r)
  BY Zenon DEF NothingIsWeakened
<1>0. Ensured(a, r, S)
  OBVIOUS
<1>1. PICK nodes, profile, tools : nodes = r.nodes /\ profile = r.profile /\ tools = r.tools
  OBVIOUS
<1> DEFINE used == UNION {collect_required_capabilities(nodes[i]) : i \in DOMAIN nodes}
<1>2. LinkOf(a, profile, tools)
  BY <1>0, <1>1, Zenon DEF Ensured
<1>3. \A i \in DOMAIN nodes : ResolvedFor(a, nodes[i], profile)
  BY <1>0, <1>1, Zenon DEF Ensured
<1>4. ASSUME NEW c \in used \ {"blast_radius"} PROVE Supported(a, c)
  <2>1. PICK i \in DOMAIN nodes : c \in collect_required_capabilities(nodes[i])
    BY <1>4, Zenon
  <2>2. PICK fine \in BOOLEAN : resolve_capabilities(nodes[i], fine, profile)
    BY <1>3, <2>1, Zenon DEF ResolvedFor
  <2>3. c # "blast_radius"
    BY <1>4
  <2> QED
    BY <1>2, <2>1, <2>2, <2>3, ResolvedIsSupported, Zenon
<1>5. ASSUME NEW i \in DOMAIN nodes, "blast_radius" \in nodes[i].requires PROVE "fine" \in {a.binding, nodes[i].binding}
  <2>1. PICK fine \in BOOLEAN : /\ resolve_capabilities(nodes[i], fine, profile)
                                /\ fine => "fine" \in {a.binding, nodes[i].binding}
    BY <1>3, Zenon DEF ResolvedFor
  <2>2. fine
    BY <1>5, <2>1, ResolvedIsFine, Zenon
  <2> QED
    BY <2>1, <2>2
<1>6. \A i \in DOMAIN nodes : ~nodes[i].invokes /\ nodes[i].entrypoint
  BY <1>0, <1>1, Zenon DEF Ensured, EntriesOnly
<1>7. Engine(a.target) = "claude-code" /\ Mode(a.target) = "headless" =>
        \A i \in DOMAIN nodes :
            ~(nodes[i].kind = "gated-tool" /\ "llm:per_step_tier" \in implied_capabilities(nodes[i]))
  BY <1>0, <1>1, SplitSteps, Zenon DEF Ensured
<1>8. a.purpose # "" /\ a.pinned # "" => Len(nodes) = 1 /\ Len(CalledBy(Entries(a.nodes), a.pinned)) = 1
  BY <1>0, <1>1, Zenon DEF Ensured
<1>9. \A c \in used \cap DOMAIN tools : tools[c].source = "mcp" => profile[c].via = tools[c].server
  <2>1. ToolsReach(profile, tools)
    BY <1>2, LinkToolsReach, Zenon
  <2> QED
    BY <2>1, Zenon DEF ToolsReach
<1>10. \A c \in used \ {"blast_radius"} : Supported(a, c)
  BY <1>4, Zenon
<1>11. ASSUME NEW i \in DOMAIN nodes
       PROVE  /\ "blast_radius" \in nodes[i].requires => "fine" \in {a.binding, nodes[i].binding}
              /\ ~nodes[i].invokes /\ nodes[i].entrypoint
              /\ Engine(a.target) = "claude-code" /\ Mode(a.target) = "headless" =>
                   ~(nodes[i].kind = "gated-tool" /\ "llm:per_step_tier" \in implied_capabilities(nodes[i]))
  BY <1>5, <1>6, <1>7, Zenon
<1>12. used = UNION {collect_required_capabilities(r.nodes[i]) : i \in DOMAIN r.nodes}
  BY <1>1, Zenon
<1> HIDE DEF used
<1> QED
  BY <1>1, <1>8, <1>9, <1>10, <1>11, <1>12, Zenon DEF NothingIsWeakened

LEMMA AnswerIs ==
    ASSUME NEW o \in BOOLEAN, NEW n, NEW k
    PROVE  /\ (Answer(o, n, k).ok <=> o) /\ Answer(o, n, k).nodes = n
           /\ Answer(o, n, k).profile = k.profile /\ Answer(o, n, k).tools = k.tools
  BY DEF Answer

LEMMA PinnedAlone ==
    ASSUME NEW a, NEW S, NEW nodes, EntriesOnly(nodes, S), nodes # <<>>, PurposeHolds(a),
           a.purpose # "" /\ a.pinned # "" => AllKnownAs(nodes, a.pinned)
    PROVE  a.purpose # "" /\ a.pinned # "" => Len(nodes) = 1 /\ Len(CalledBy(Entries(a.nodes), a.pinned)) = 1
<1> SUFFICES ASSUME a.purpose # "", a.pinned # ""
             PROVE  Len(nodes) = 1 /\ Len(CalledBy(Entries(a.nodes), a.pinned)) = 1
  OBVIOUS
<1>1. Len(nodes) = 1
  BY OnlyOne, Zenon
<1>2. validate_profile(a, Entries(a.nodes))
  BY Zenon DEF PurposeHolds
<1>3. Len(CalledBy(Entries(a.nodes), a.pinned)) = 1
  BY <1>2, Zenon DEF validate_profile
<1> QED
  BY <1>1, <1>3

LEMMA MaterializableAre ==
    ASSUME NEW S, NEW e, EntriesOnly(e, S)
    PROVE  /\ EntriesOnly(Materializable(e), S)
           /\ \A id : AllKnownAs(e, id) => AllKnownAs(Materializable(e), id)
           /\ reject_unsupported_component_composition(e) =>
                \A i \in DOMAIN Materializable(e) : ~Materializable(e)[i].invokes
<1>1. PICK I, q : I = {i \in DOMAIN e : "enrichment_apply:deterministic" \notin e[i].requires} /\ q = Picked(e, I)
  OBVIOUS
<1>2. q = Materializable(e)
  BY <1>1, Zenon DEF Materializable
<1>3. EntriesOnly(q, S) /\ \A id : AllKnownAs(e, id) => AllKnownAs(q, id)
  BY <1>1, PickedFromEntries, Zenon
<1>4. e \in Seq(S)
  BY DEF EntriesOnly
<1>7. q = Picked(e, I)
  BY <1>1
<1>5. \A k \in DOMAIN q : \E i \in I \cap DOMAIN e : q[k] = e[i]
  BY ONLY <1>4, <1>7, PickedElements
<1>6. reject_unsupported_component_composition(e) => \A i \in DOMAIN q : ~q[i].invokes
  BY <1>5, Zenon DEF reject_unsupported_component_composition
<1> QED
  BY <1>2, <1>3, <1>6, Zenon

-------------------------------------------------------------------------------
LEMMA ClaudeCodeEnsures ==
    ASSUME NEW a, NEW S, a.nodes \in Seq(S), Distinct(a.nodes), NEW T, a.providers \in Seq(T),
           NEW r, r = emit_claude_code(a), r.ok
    PROVE  Ensured(a, r, S)
<1>1. PICK e, n, k : /\ e = Projected(a)
                     /\ n = IF a.target = "claude-code:interactive" THEN Materializable(e) ELSE e
                     /\ k = compose_target(a.target, a.providers)
  OBVIOUS
<1>0. PICK o : o = RunsInClaudeCode(a, e, n, k) /\ o \in BOOLEAN
  BY DEF RunsInClaudeCode
<1>2. r = Answer(o, n, k)
  BY <1>0, <1>1, Zenon DEF emit_claude_code
<1>21. o /\ r.nodes = n /\ r.profile = k.profile /\ r.tools = k.tools
  <2>1. PICK w : w = Answer(o, n, k)
    OBVIOUS
  <2>2. (w.ok <=> o) /\ w.nodes = n /\ w.profile = k.profile /\ w.tools = k.tools
    BY ONLY <1>0, <2>1, AnswerIs
  <2> QED
    BY <1>2, <2>1, <2>2, Zenon
<1>3. RunsInClaudeCode(a, e, n, k) /\ r.nodes = n /\ r.profile = k.profile /\ r.tools = k.tools
  BY <1>0, <1>21, Zenon
<1>4. k.ok /\ PurposeHolds(a) /\ reject_unsupported_component_composition(e)
  BY <1>3, Zenon DEF RunsInClaudeCode
<1>5. a.target = "claude-code:interactive" => n # <<>>
  BY <1>3, Zenon DEF RunsInClaudeCode
<1>6. a.purpose # "" => a.target = "claude-code:interactive"
  BY <1>3, Zenon DEF RunsInClaudeCode
<1>7. \A i \in DOMAIN n : /\ ~(n[i].kind = "gated-tool" /\ should_split_per_step_tier(n[i]))
                          /\ resolve_node_with_shared_binding(a, n[i], k.profile)
  BY <1>3, Zenon DEF RunsInClaudeCode, Each
<1>8. LinkOf(a, k.profile, k.tools)
  BY <1>1, <1>4, ComposedIsLink, Zenon
<1>9. EntriesOnly(e, S) /\ (a.purpose # "" /\ a.pinned # "" => AllKnownAs(e, a.pinned))
  BY <1>1, ProjectedAre, Zenon
<1>10. /\ EntriesOnly(n, S) /\ (a.purpose # "" /\ a.pinned # "" => AllKnownAs(n, a.pinned))
       /\ \A i \in DOMAIN n : ~n[i].invokes
  <2>1. CASE a.target = "claude-code:interactive"
    <3>1. n = Materializable(e)
      BY <1>1, <2>1, Zenon
    <3> QED
      BY <1>4, <1>9, <3>1, MaterializableAre, Zenon
  <2>2. CASE a.target # "claude-code:interactive"
    <3>1. n = e
      BY <1>1, <2>2, Zenon
    <3> QED
      BY <1>4, <1>9, <3>1, Zenon DEF reject_unsupported_component_composition
  <2> QED
    BY <2>1, <2>2
<1>11. a.purpose # "" /\ a.pinned # "" => Len(n) = 1 /\ Len(CalledBy(Entries(a.nodes), a.pinned)) = 1
  BY <1>4, <1>5, <1>6, <1>10, PinnedAlone, Zenon
<1>12. \A i \in DOMAIN n : ResolvedFor(a, n[i], k.profile)
  BY <1>7, SharedBinding, Zenon
<1> QED
  BY <1>3, <1>7, <1>8, <1>10, <1>11, <1>12, Zenon DEF Ensured

LEMMA OtherModes ==
    ASSUME NEW a, a.target \in Vercel \cup {"codex:interactive", "pi:interactive"}
    PROVE  ~(Engine(a.target) = "claude-code" /\ Mode(a.target) = "headless")
  BY DEF Engine, Mode, Vercel

LEMMA CodexEnsures ==
    ASSUME NEW a, NEW S, a.nodes \in Seq(S), Distinct(a.nodes), a.target = "codex:interactive",
           NEW r, r = emit_codex_interactive(a), r.ok
    PROVE  Ensured(a, r, S)
<1>1. PICK e, n, k : e = Projected(a) /\ n = Materializable(e) /\ k = NoFragments(a)
  OBVIOUS
<1>0. PICK o : o = RunsInCodex(a, e, n, k) /\ o \in BOOLEAN
  BY DEF RunsInCodex
<1>2. r = Answer(o, n, k)
  BY <1>0, <1>1, Zenon DEF emit_codex_interactive
<1>21. o /\ r.nodes = n /\ r.profile = k.profile /\ r.tools = k.tools
  <2>1. PICK w : w = Answer(o, n, k)
    OBVIOUS
  <2>2. (w.ok <=> o) /\ w.nodes = n /\ w.profile = k.profile /\ w.tools = k.tools
    BY ONLY <1>0, <2>1, AnswerIs
  <2> QED
    BY <1>2, <2>1, <2>2, Zenon
<1>3. RunsInCodex(a, e, n, k) /\ r.nodes = n /\ r.profile = k.profile /\ r.tools = k.tools
  BY <1>0, <1>21, Zenon
<1>4. k.ok /\ PurposeHolds(a) /\ reject_unsupported_component_composition(e) /\ n # <<>>
  BY <1>3, Zenon DEF RunsInCodex
<1>5. \A i \in DOMAIN n : resolve_capabilities(n[i], has_fine_grained_binding(n[i]), k.profile)
  BY <1>3, Zenon DEF RunsInCodex, Each
<1>6. LinkOf(a, k.profile, k.tools)
  BY <1>1, <1>4, NoFragmentsIsLink, Zenon
<1>7. EntriesOnly(e, S) /\ (a.purpose # "" /\ a.pinned # "" => AllKnownAs(e, a.pinned))
  BY <1>1, ProjectedAre, Zenon
<1>8. /\ EntriesOnly(n, S) /\ (a.purpose # "" /\ a.pinned # "" => AllKnownAs(n, a.pinned))
      /\ \A i \in DOMAIN n : ~n[i].invokes
  BY <1>1, <1>4, <1>7, MaterializableAre, Zenon
<1>9. a.purpose # "" /\ a.pinned # "" => Len(n) = 1 /\ Len(CalledBy(Entries(a.nodes), a.pinned)) = 1
  BY <1>4, <1>8, PinnedAlone, Zenon
<1>10. \A i \in DOMAIN n : ResolvedFor(a, n[i], k.profile)
  BY <1>5, OwnBinding, Zenon
<1>11. ~(Engine(a.target) = "claude-code" /\ Mode(a.target) = "headless")
  BY OtherModes
<1> QED
  BY <1>3, <1>6, <1>8, <1>9, <1>10, <1>11, Zenon DEF Ensured

LEMMA PiEnsures ==
    ASSUME NEW a, NEW S, a.nodes \in Seq(S), Distinct(a.nodes), a.target = "pi:interactive",
           NEW r, r = emit_pi_interactive(a), r.ok
    PROVE  Ensured(a, r, S)
<1>1. PICK n, k : n = Projected(a) /\ k = NoFragments(a)
  OBVIOUS
<1>0. PICK o : o = RunsInPi(a, n, k) /\ o \in BOOLEAN
  BY DEF RunsInPi
<1>2. r = Answer(o, n, k)
  BY <1>0, <1>1, Zenon DEF emit_pi_interactive
<1>21. o /\ r.nodes = n /\ r.profile = k.profile /\ r.tools = k.tools
  <2>1. PICK w : w = Answer(o, n, k)
    OBVIOUS
  <2>2. (w.ok <=> o) /\ w.nodes = n /\ w.profile = k.profile /\ w.tools = k.tools
    BY ONLY <1>0, <2>1, AnswerIs
  <2> QED
    BY <1>2, <2>1, <2>2, Zenon
<1>3. RunsInPi(a, n, k) /\ r.nodes = n /\ r.profile = k.profile /\ r.tools = k.tools
  BY <1>0, <1>21, Zenon
<1>4. k.ok /\ PurposeHolds(a) /\ reject_unsupported_component_composition(n) /\ n # <<>>
  BY <1>3, Zenon DEF RunsInPi
<1>5. a.purpose # "" /\ a.pinned # ""
  BY <1>3 DEF RunsInPi
<1>6. resolve_capabilities(n[1], has_fine_grained_binding(n[1]), k.profile)
  BY <1>3, Zenon DEF RunsInPi
<1>7. LinkOf(a, k.profile, k.tools)
  BY <1>1, <1>4, NoFragmentsIsLink, Zenon
<1>8. EntriesOnly(n, S) /\ (a.purpose # "" /\ a.pinned # "" => AllKnownAs(n, a.pinned))
  BY <1>1, ProjectedAre, Zenon
<1>9. a.purpose # "" /\ a.pinned # "" => Len(n) = 1 /\ Len(CalledBy(Entries(a.nodes), a.pinned)) = 1
  BY <1>4, <1>8, PinnedAlone, Zenon
<1>10. \A i \in DOMAIN n : i = 1
  <2>1. Len(n) = 1
    BY <1>5, <1>9, Zenon
  <2>2. n \in Seq(S)
    BY <1>8 DEF EntriesOnly
  <2> QED
    BY ONLY <2>1, <2>2
<1>11. \A i \in DOMAIN n : ResolvedFor(a, n[i], k.profile)
  BY <1>6, <1>10, OwnBinding, Zenon
<1>12. \A i \in DOMAIN n : ~n[i].invokes
  BY <1>4, Zenon DEF reject_unsupported_component_composition
<1>13. ~(Engine(a.target) = "claude-code" /\ Mode(a.target) = "headless")
  BY OtherModes
<1> QED
  BY <1>3, <1>7, <1>8, <1>9, <1>11, <1>12, <1>13, Zenon DEF Ensured

LEMMA VercelEnsures ==
    ASSUME NEW a, NEW S, a.nodes \in Seq(S), Distinct(a.nodes), NEW T, a.providers \in Seq(T),
           a.target \in Vercel, NEW r, r = emit_vercel(a), r.ok
    PROVE  Ensured(a, r, S)
<1>1. PICK n, k : n = Entries(a.nodes) /\ k = compose_target(a.target, a.providers)
  OBVIOUS
<1>0. PICK o : o = RunsOnVercel(a, n, k) /\ o \in BOOLEAN
  BY DEF RunsOnVercel
<1>2. r = Answer(o, n, k)
  BY <1>0, <1>1, Zenon DEF emit_vercel
<1>21. o /\ r.nodes = n /\ r.profile = k.profile /\ r.tools = k.tools
  <2>1. PICK w : w = Answer(o, n, k)
    OBVIOUS
  <2>2. (w.ok <=> o) /\ w.nodes = n /\ w.profile = k.profile /\ w.tools = k.tools
    BY ONLY <1>0, <2>1, AnswerIs
  <2> QED
    BY <1>2, <2>1, <2>2, Zenon
<1>3. RunsOnVercel(a, n, k) /\ r.nodes = n /\ r.profile = k.profile /\ r.tools = k.tools
  BY <1>0, <1>21, Zenon
<1>4. k.ok /\ reject_unsupported_component_composition(n) /\ a.purpose = ""
  BY <1>3, Zenon DEF RunsOnVercel
<1>5. \A i \in DOMAIN n : resolve_capabilities(n[i], has_fine_grained_binding(n[i]), k.profile)
  BY <1>3, Zenon DEF RunsOnVercel, Each
<1>6. LinkOf(a, k.profile, k.tools)
  BY <1>1, <1>4, ComposedIsLink, Zenon
<1>7. EntriesOnly(n, S)
  BY <1>1, EntriesAreEntries, Zenon
<1>8. \A i \in DOMAIN n : ResolvedFor(a, n[i], k.profile)
  BY <1>5, OwnBinding, Zenon
<1>9. \A i \in DOMAIN n : ~n[i].invokes
  BY <1>4, Zenon DEF reject_unsupported_component_composition
<1>10. ~(Engine(a.target) = "claude-code" /\ Mode(a.target) = "headless")
  BY OtherModes
<1> QED
  BY <1>3, <1>4, <1>6, <1>7, <1>8, <1>9, <1>10, Zenon DEF Ensured

LEMMA DispatchWeakensNothing ==
    ASSUME NEW a, NEW S, a.nodes \in Seq(S), Distinct(a.nodes), NEW T, a.providers \in Seq(T)
    PROVE  NothingIsWeakened(a, run_dispatch(a))
<1>1. PICK r : r = run_dispatch(a)
  OBVIOUS
<1>2. \/ a.target \in Vercel /\ r = emit_vercel(a)
      \/ a.target = "codex:interactive" /\ r = emit_codex_interactive(a)
      \/ a.target = "pi:interactive" /\ r = emit_pi_interactive(a)
      \/ r = emit_claude_code(a)
  BY <1>1 DEF run_dispatch
<1>3. r.ok => Ensured(a, r, S)
  BY <1>2, ClaudeCodeEnsures, CodexEnsures, PiEnsures, VercelEnsures, Zenon
<1> QED
  BY <1>1, <1>3, EnsuredIsEnough, Zenon

-------------------------------------------------------------------------------
(* What becomes of slots.                                                    *)

LEMMA SayingParts ==
    ASSUME NEW f, NEW t
    PROVE  /\ Good(t).fault = "" /\ Good(t).text = t /\ Bad(f).fault = f /\ Bad(f).text = {}
  BY DEF Good, Bad

\* Every reference of the text comes to something.
AllGood(text, h) == \A p \in Unresolved(text) : h[p.name].fault = ""
Filled(text, h) == (text \ Unresolved(text)) \cup UNION {h[p.name].text : p \in Unresolved(text)}

LEMMA SubstitutedIs ==
    ASSUME NEW text, NEW h, NEW u, u = Substituted(text, h)
    PROVE  /\ u.fault = "" <=> AllGood(text, h)
           /\ u.fault = "" => u.text = Filled(text, h)
<1> DEFINE faults == {h[p.name].fault : p \in Unresolved(text)} \ {""}
<1>2. u = IF faults # {} THEN Bad(CHOOSE f \in faults : TRUE) ELSE Good(Filled(text, h))
  BY Zenon DEF Substituted, Filled
<1>3. faults = {} <=> \A p \in Unresolved(text) : h[p.name].fault = ""
  BY Zenon
<1>4. AllGood(text, h) <=> faults = {}
  BY <1>3, Zenon DEF AllGood
<1>5. \A f \in faults : f # ""
  BY Zenon
<1> HIDE DEF faults
<1>6. CASE faults # {}
  <2>1. PICK c : c = CHOOSE f \in faults : TRUE
    OBVIOUS
  <2>2. c \in faults
    BY <1>6, <2>1, Zenon
  <2>3. u = Bad(c)
    BY <1>2, <1>6, <2>1, Zenon
  <2>4. u.fault = c
    BY <2>3, SayingParts, Zenon
  <2> QED
    BY <1>4, <1>5, <1>6, <2>2, <2>4, Zenon
<1>7. CASE faults = {}
  <2>1. u = Good(Filled(text, h))
    BY <1>2, <1>7, Zenon
  <2>2. u.fault = "" /\ u.text = Filled(text, h)
    BY <2>1, SayingParts, Zenon
  <2> QED
    BY <1>4, <1>7, <2>2, Zenon
<1> QED
  BY <1>6, <1>7

-------------------------------------------------------------------------------
\* What a slot leads to: the smallest set of names that is closed.
IsBehind(decls, supply, seed, B) ==
    /\ seed \subseteq B /\ ClosedUnder(decls, supply, B)
    /\ \A s : seed \subseteq s /\ ClosedUnder(decls, supply, s) => B \subseteq s

LEMMA BehindIs ==
    ASSUME NEW decls, NEW supply, NEW seed
    PROVE  IsBehind(decls, supply, seed, Behind(decls, supply, seed))
<1>0. PICK B : B = Behind(decls, supply, seed)
  OBVIOUS
<1> DEFINE all == seed \cup Names(decls) \cup UNION {Refers(decls, supply, n) : n \in Names(decls)}
           closed == {s \in SUBSET all : seed \subseteq s /\ ClosedUnder(decls, supply, s)}
<1>1. B = {n \in all : \A s \in closed : n \in s}
  BY <1>0, Zenon DEF Behind
<1>2. \A n \in Names(decls) : Refers(decls, supply, n) \subseteq all
  BY Zenon
<1>3. seed \subseteq all
  BY Zenon
<1>4. \A s \in closed : seed \subseteq s /\ \A n \in s \cap Names(decls) : Refers(decls, supply, n) \subseteq s
  BY Zenon DEF ClosedUnder
<1>5. ASSUME NEW s, seed \subseteq s, ClosedUnder(decls, supply, s) PROVE s \cap all \in closed
  <2>1. s \cap all \in SUBSET all /\ seed \subseteq s \cap all
    BY <1>3, <1>5, Zenon
  <2>2. ClosedUnder(decls, supply, s \cap all)
    BY <1>2, <1>5, Zenon DEF ClosedUnder
  <2> QED
    BY <2>1, <2>2, Zenon
<1> HIDE DEF all, closed
<1>6. seed \subseteq B
  BY <1>1, <1>3, <1>4, Zenon
<1>7. ASSUME NEW n \in B \cap Names(decls), NEW m \in Refers(decls, supply, n) PROVE m \in B
  <2>1. m \in all
    BY <1>2, <1>7, Zenon
  <2>2. ASSUME NEW s \in closed PROVE m \in s
    <3>1. n \in s \cap Names(decls)
      BY <1>1, <1>7, Zenon
    <3> QED
      BY <1>4, <1>7, <3>1, Zenon
  <2> QED
    BY <1>1, <2>1, <2>2, Zenon
<1>8. ClosedUnder(decls, supply, B)
  BY <1>7, Zenon DEF ClosedUnder
<1>9. ASSUME NEW s, seed \subseteq s, ClosedUnder(decls, supply, s) PROVE B \subseteq s
  <2>1. s \cap all \in closed
    BY <1>5, <1>9, Zenon
  <2> QED
    BY <1>1, <2>1, Zenon
<1> QED
  BY <1>0, <1>6, <1>8, <1>9, Zenon DEF IsBehind

LEMMA BehindGrows ==
    ASSUME NEW decls, NEW supply, NEW seed, NEW more, seed \subseteq Behind(decls, supply, more)
    PROVE  Behind(decls, supply, seed) \subseteq Behind(decls, supply, more)
<1>1. PICK C, B : C = Behind(decls, supply, more) /\ B = Behind(decls, supply, seed)
  OBVIOUS
<1>2. ClosedUnder(decls, supply, C) /\ seed \subseteq C
  BY <1>1, BehindIs, Zenon DEF IsBehind
<1>3. B \subseteq C
  BY <1>1, <1>2, BehindIs, Zenon DEF IsBehind
<1> QED
  BY <1>1, <1>3, Zenon

\* Each by itself, and together.
LEMMA BehindEach ==
    ASSUME NEW decls, NEW supply, NEW seed
    PROVE  \A m : m \in Behind(decls, supply, seed) <=> \E r \in seed : m \in Behind(decls, supply, {r})
<1> DEFINE U == UNION {Behind(decls, supply, {r}) : r \in seed}
<1>1. PICK B : B = Behind(decls, supply, seed)
  OBVIOUS
<1>2. seed \subseteq B /\ ClosedUnder(decls, supply, B) /\ \A s : seed \subseteq s /\ ClosedUnder(decls, supply, s) => B \subseteq s
  BY <1>1, BehindIs, Zenon DEF IsBehind
<1>3. seed \subseteq U
  <2>1. ASSUME NEW r \in seed PROVE r \in Behind(decls, supply, {r})
    <3>1. PICK C : C = Behind(decls, supply, {r})
      OBVIOUS
    <3>2. {r} \subseteq C
      BY <3>1, BehindIs, Zenon DEF IsBehind
    <3> QED
      BY <3>1, <3>2, Zenon
  <2> QED
    BY <2>1, Zenon
<1>4. ClosedUnder(decls, supply, U)
  <2>1. ASSUME NEW n \in U \cap Names(decls) PROVE Refers(decls, supply, n) \subseteq U
    <3>1. PICK r \in seed : n \in Behind(decls, supply, {r})
      BY <2>1, Zenon
    <3>2. PICK C : C = Behind(decls, supply, {r})
      OBVIOUS
    <3>3. ClosedUnder(decls, supply, C)
      BY <3>2, BehindIs, Zenon DEF IsBehind
    <3>4. Refers(decls, supply, n) \subseteq C
      BY <2>1, <3>1, <3>2, <3>3, Zenon DEF ClosedUnder
    <3> QED
      BY <3>2, <3>4, Zenon
  <2> QED
    BY <2>1, Zenon DEF ClosedUnder
<1>5. \A r \in seed : Behind(decls, supply, {r}) \subseteq B
  <2>1. \A r \in seed : {r} \subseteq Behind(decls, supply, seed)
    BY <1>1, <1>2, Zenon
  <2> QED
    BY <1>1, <2>1, BehindGrows, Zenon
<1>6. \A m : m \in U <=> \E r \in seed : m \in Behind(decls, supply, {r})
  BY Zenon
<1> HIDE DEF U
<1>7. B \subseteq U
  BY <1>2, <1>3, <1>4, Zenon
<1> QED
  BY <1>1, <1>5, <1>6, <1>7, Zenon

\* A slot leads to itself and to what it refers to.
LEMMA BehindOne ==
    ASSUME NEW decls, NEW supply, NEW n \in Names(decls)
    PROVE  /\ n \in Behind(decls, supply, {n})
           /\ Behind(decls, supply, Refers(decls, supply, n)) \subseteq Behind(decls, supply, {n})
           /\ \A m \in Behind(decls, supply, {n}) : m = n \/ m \in Behind(decls, supply, Refers(decls, supply, n))
<1>1. PICK C, R, B : /\ C = Behind(decls, supply, {n}) /\ R = Refers(decls, supply, n)
                     /\ B = Behind(decls, supply, R)
  OBVIOUS
<1>2. {n} \subseteq C /\ ClosedUnder(decls, supply, C) /\ \A s : {n} \subseteq s /\ ClosedUnder(decls, supply, s) => C \subseteq s
  BY <1>1, BehindIs, Zenon DEF IsBehind
<1>3. R \subseteq B /\ ClosedUnder(decls, supply, B)
  BY <1>1, BehindIs, Zenon DEF IsBehind
<1>4. n \in C
  BY <1>2, Zenon
<1>5. R \subseteq C
  BY <1>1, <1>2, <1>4, Zenon DEF ClosedUnder
<1>6. B \subseteq C
  BY <1>1, <1>5, BehindGrows, Zenon
<1>7. C \subseteq {n} \cup B
  <2>1. ClosedUnder(decls, supply, {n} \cup B)
    <3>1. ASSUME NEW m \in ({n} \cup B) \cap Names(decls) PROVE Refers(decls, supply, m) \subseteq {n} \cup B
      BY <1>1, <1>3, <3>1, Zenon DEF ClosedUnder
    <3> QED
      BY <3>1, Zenon DEF ClosedUnder
  <2> QED
    BY <1>2, <2>1, Zenon
<1> QED
  BY <1>1, <1>4, <1>6, <1>7, Zenon

LEMMA NothingBehindNothing == ASSUME NEW decls, NEW supply PROVE Behind(decls, supply, {}) = {}
<1>1. PICK B : B = Behind(decls, supply, {})
  OBVIOUS
<1>2. ClosedUnder(decls, supply, {})
  BY DEF ClosedUnder
<1>3. B \subseteq {}
  BY <1>1, <1>2, BehindIs, Zenon DEF IsBehind
<1> QED
  BY <1>1, <1>3

\* What every position comes to, told what every position came to.
OneStep(decls, supply, g) == [at \in Positions(decls) |-> resolve_one(decls, supply, at, g)]
StepsUpTo(f, decls, supply, n) == f[0] = <<>> /\ \A i \in 1..n : f[i] = OneStep(decls, supply, f[i - 1])

LEMMA StepsExist ==
    ASSUME NEW decls, NEW supply, NEW N \in Nat
    PROVE  \E f : StepsUpTo(f, decls, supply, N)
<1> DEFINE D == {n \in 0..N : \E f : StepsUpTo(f, decls, supply, n)}
<1>1. 0 \in D
  <2>1. StepsUpTo([i \in 0..0 |-> <<>>], decls, supply, 0)
    <3>1. [i \in 0..0 |-> <<>>][0] = <<>> /\ 1..0 = {}
      OBVIOUS
    <3> QED
      BY <3>1 DEF StepsUpTo
  <2> QED
    BY <2>1
<1>2. ASSUME NEW k \in 1..N, k - 1 \in D PROVE k \in D
  <2>1. PICK f : StepsUpTo(f, decls, supply, k - 1)
    BY <1>2
  <2> DEFINE last == OneStep(decls, supply, f[k - 1])
             g == [i \in 0..k |-> IF i = k THEN last ELSE f[i]]
  <2>2. g[0] = f[0] /\ g[k] = last /\ \A i \in 1..k - 1 : g[i] = f[i] /\ g[i - 1] = f[i - 1]
    <3> HIDE DEF last
    <3> QED
      OBVIOUS
  <2>3. g[k - 1] = f[k - 1]
    <3> HIDE DEF last
    <3> QED
      OBVIOUS
  <2>4. ASSUME NEW i \in 1..k PROVE g[i] = OneStep(decls, supply, g[i - 1])
    <3>1. i = k \/ i \in 1..k - 1
      OBVIOUS
    <3> HIDE DEF g
    <3>2. CASE i = k
      BY <2>2, <2>3, <3>2, Zenon
    <3>3. CASE i \in 1..k - 1
      BY <2>1, <2>2, <3>3, Zenon DEF StepsUpTo
    <3> QED
      BY <3>1, <3>2, <3>3
  <2>5. StepsUpTo(g, decls, supply, k)
    <3> HIDE DEF g
    <3> QED
      BY <2>1, <2>2, <2>4, Zenon DEF StepsUpTo
  <2> QED
    BY <2>5
<1>3. 0..N \subseteq D
  <2> HIDE DEF D
  <2> QED
    BY <1>1, <1>2, InductionUpTo
<1> QED
  BY <1>3

\* The text that is chosen for a slot, and where its references lead.
ChosenText(decls, supply, n) == Decl(decls, n).variants[Variant(Decl(decls, n), supply)]
HasVariant(decls, supply, n) == Variant(Decl(decls, n), supply) \in DOMAIN Decl(decls, n).variants

LEMMA DeclIs ==
    ASSUME NEW decls, NEW n \in Names(decls)
    PROVE  Decl(decls, n).name = n /\ \E e \in DOMAIN decls : Decl(decls, n) = decls[e]
<1>1. PICK j \in DOMAIN decls : decls[j].name = n
  BY Zenon DEF Names
<1>2. PICK i : i = CHOOSE e \in DOMAIN decls : decls[e].name = n
  OBVIOUS
<1>3. i \in DOMAIN decls /\ decls[i].name = n
  BY <1>1, <1>2, Zenon
<1> QED
  BY <1>2, <1>3, Zenon DEF Decl

LEMMA LeadsToPositions ==
    ASSUME NEW decls, NEW supply, NEW n \in Names(decls), NEW A \in SUBSET Names(decls), HasVariant(decls, supply, n),
           NEW p \in Unresolved(ChosenText(decls, supply, n))
    PROVE  <<p.name, A \cup {n}>> \in Positions(decls)
<1>1. PICK i \in DOMAIN decls : Decl(decls, n) = decls[i]
  BY DeclIs
<1>2. PICK k : k = Variant(Decl(decls, n), supply)
  OBVIOUS
<1>3. k \in DOMAIN decls[i].variants /\ ChosenText(decls, supply, n) = decls[i].variants[k]
  BY <1>1, <1>2, Zenon DEF HasVariant, ChosenText
<1>4. decls[i].variants[k] \in VariantTexts(decls)
  <2>1. PICK v : v = decls[i].variants /\ v = decls[i].variants
    OBVIOUS
  <2>2. v[k] \in {decls[i].variants[l] : l \in DOMAIN decls[i].variants}
    BY <1>3, <2>1, Zenon
  <2>3. {decls[i].variants[l] : l \in DOMAIN decls[i].variants}
          \in {{decls[j].variants[l] : l \in DOMAIN decls[j].variants} : j \in DOMAIN decls}
    BY Zenon
  <2> QED
    BY <2>1, <2>2, <2>3, Zenon DEF VariantTexts
<1>5. p \in decls[i].variants[k]
  BY <1>3, Zenon DEF Unresolved
<1>6. PICK M : M = Names(decls) \cup {q.name : q \in UNION VariantTexts(decls)}
  OBVIOUS
<1>7. p.name \in M
  BY <1>4, <1>5, <1>6, Zenon
<1>8. A \cup {n} \in SUBSET Names(decls)
  BY Zenon
<1>9. Positions(decls) = M \X SUBSET Names(decls)
  BY <1>6, Zenon DEF Positions
<1> QED
  BY ONLY <1>7, <1>8, <1>9

\* A slot that is resolved inside of others: when it comes to something, and to what.
ComesTo(decls, supply, n, A, g) == [r \in Refers(decls, supply, n) |-> g[<<r, A \cup {n}>>]]
Resolves(decls, supply, n, A, h) ==
    /\ n \in Names(decls) /\ n \notin A
    /\ \/ IsRemoved(n, supply)
       \/ /\ Answered(Decl(decls, n), supply) /\ HasVariant(decls, supply, n)
          /\ \A r \in Refers(decls, supply, n) : h[r].fault = ""
ResolvedText(decls, supply, n, h) ==
    IF IsRemoved(n, supply) THEN {}
    ELSE Wording(decls, supply, n) \cup UNION {h[r].text : r \in Refers(decls, supply, n)}

LEMMA ReferringText ==
    ASSUME NEW decls, NEW supply, NEW n, ~IsRemoved(n, supply), HasVariant(decls, supply, n)
    PROVE  /\ Refers(decls, supply, n) = {p.name : p \in Unresolved(ChosenText(decls, supply, n))}
           /\ Wording(decls, supply, n) = ChosenText(decls, supply, n) \ Unresolved(ChosenText(decls, supply, n))
  BY Zenon DEF Refers, Wording, SaidBy, HasVariant, ChosenText

LEMMA FaultsAreFaults ==
    "undeclared" # "" /\ "cycle" # "" /\ "unanswered" # "" /\ "no such variant" # ""
  OBVIOUS

\* What becomes of a position.
ComesOut(decls, supply, n, A, h, u) ==
    /\ u.fault = "" <=> Resolves(decls, supply, n, A, h)
    /\ u.fault = "" => u.text = ResolvedText(decls, supply, n, h)

LEMMA ResolveOneIs ==
    ASSUME NEW decls, NEW supply, NEW n, NEW A, NEW g, NEW u, u = resolve_one(decls, supply, <<n, A>>, g),
           NEW h, h = ComesTo(decls, supply, n, A, g)
    PROVE  ComesOut(decls, supply, n, A, h, u)
<1>00. PICK at : at = <<n, A>>
  OBVIOUS
<1>0. at = <<n, A>> /\ at[1] = n /\ at[2] = A
  BY <1>00
<1>1. PICK t : t = ChosenText(decls, supply, n)
  OBVIOUS
<1>2. PICK w : w = Substituted(t, [r \in {p.name : p \in Unresolved(t)} |-> g[<<r, A \cup {n}>>]])
  OBVIOUS
<1>3. u = IF n \notin Names(decls) THEN Bad("undeclared")
          ELSE IF n \in A THEN Bad("cycle")
          ELSE IF IsRemoved(n, supply) THEN Good({})
          ELSE IF ~Answered(Decl(decls, n), supply) THEN Bad("unanswered")
          ELSE IF ~HasVariant(decls, supply, n) THEN Bad("no such variant")
          ELSE w
  BY <1>0, <1>1, <1>2, Zenon DEF resolve_one, ChosenText, HasVariant
<1>5. CASE ~(n \in Names(decls) /\ n \notin A)
  <2>1. u = Bad("undeclared") \/ u = Bad("cycle")
    BY <1>3, <1>5, Zenon
  <2>2. u.fault # ""
    BY <2>1, SayingParts, FaultsAreFaults, Zenon
  <2> QED
    BY <1>5, <2>2, Zenon DEF Resolves, ComesOut
<1>6. CASE n \in Names(decls) /\ n \notin A /\ IsRemoved(n, supply)
  <2>1. u = Good({})
    BY <1>3, <1>6, Zenon
  <2>2. u.fault = "" /\ u.text = {}
    BY <2>1, SayingParts, Zenon
  <2> QED
    BY <1>6, <2>2, Zenon DEF Resolves, ResolvedText, ComesOut
<1>7. CASE n \in Names(decls) /\ n \notin A /\ ~IsRemoved(n, supply)
            /\ ~(Answered(Decl(decls, n), supply) /\ HasVariant(decls, supply, n))
  <2>1. u = Bad("unanswered") \/ u = Bad("no such variant")
    BY <1>3, <1>7, Zenon
  <2>2. u.fault # ""
    BY <2>1, SayingParts, FaultsAreFaults, Zenon
  <2> QED
    BY <1>7, <2>2, Zenon DEF Resolves, ComesOut
<1>8. CASE n \in Names(decls) /\ n \notin A /\ ~IsRemoved(n, supply)
            /\ Answered(Decl(decls, n), supply) /\ HasVariant(decls, supply, n)
  <2>1. u = w
    BY <1>3, <1>8, Zenon
  <2>2. PICK R : R = Refers(decls, supply, n) /\ R = {p.name : p \in Unresolved(t)}
    BY <1>1, <1>8, ReferringText, Zenon
  <2>3. h = [r \in R |-> g[<<r, A \cup {n}>>]]
    BY <2>2, Zenon DEF ComesTo
  <2>4. u = Substituted(t, h)
    BY <1>2, <2>1, <2>2, <2>3, Zenon
  <2>5. /\ u.fault = "" <=> AllGood(t, h)
        /\ u.fault = "" => u.text = Filled(t, h)
    BY <2>4, SubstitutedIs, Zenon
  <2>6. AllGood(t, h) <=> \A r \in R : h[r].fault = ""
    BY <2>2, Zenon DEF AllGood
  <2>7. {h[p.name].text : p \in Unresolved(t)} = {h[r].text : r \in R}
    BY <2>2, Zenon
  <2>8. Filled(t, h) = ResolvedText(decls, supply, n, h)
    <3>1. Wording(decls, supply, n) = t \ Unresolved(t)
      BY <1>1, <1>8, ReferringText, Zenon
    <3> QED
      BY <1>8, <2>2, <2>7, <3>1, Zenon DEF Filled, ResolvedText
  <2> QED
    BY <1>8, <2>2, <2>5, <2>6, <2>8, Zenon DEF Resolves, ComesOut
<1> QED
  BY <1>5, <1>6, <1>7, <1>8

\* What a position comes to depends on what it leads to and on nothing else.
AgreeInside(decls, n, A, g, h) ==
    n \in Names(decls) /\ n \notin A =>
        \A r : <<r, A \cup {n}>> \in Positions(decls) => g[<<r, A \cup {n}>>] = h[<<r, A \cup {n}>>]

LEMMA OneStepIsLocal ==
    ASSUME NEW decls, NEW supply, NEW n, NEW A \in SUBSET Names(decls), NEW g, NEW h, AgreeInside(decls, n, A, g, h)
    PROVE  resolve_one(decls, supply, <<n, A>>, g) = resolve_one(decls, supply, <<n, A>>, h)
<1>00. PICK at : at = <<n, A>>
  OBVIOUS
<1>0. at = <<n, A>> /\ at[1] = n /\ at[2] = A
  BY <1>00
<1>1. PICK t : t = ChosenText(decls, supply, n)
  OBVIOUS
<1> DEFINE N == {p.name : p \in Unresolved(t)}
           F(f) == [r \in N |-> f[<<r, A \cup {n}>>]]
<1>2. \A f : resolve_one(decls, supply, at, f) =
          IF n \notin Names(decls) THEN Bad("undeclared")
          ELSE IF n \in A THEN Bad("cycle")
          ELSE IF IsRemoved(n, supply) THEN Good({})
          ELSE IF ~Answered(Decl(decls, n), supply) THEN Bad("unanswered")
          ELSE IF ~HasVariant(decls, supply, n) THEN Bad("no such variant")
          ELSE Substituted(t, F(f))
  BY <1>0, <1>1, Zenon DEF resolve_one, ChosenText, HasVariant
<1>3. ASSUME n \in Names(decls), n \notin A, HasVariant(decls, supply, n) PROVE F(g) = F(h)
  <2>1. ASSUME NEW r \in N PROVE g[<<r, A \cup {n}>>] = h[<<r, A \cup {n}>>]
    <3>1. PICK p \in Unresolved(t) : r = p.name
      BY Zenon
    <3>2. <<r, A \cup {n}>> \in Positions(decls)
      BY <1>1, <1>3, <3>1, LeadsToPositions, Zenon
    <3> QED
      BY <1>3, <3>2, Zenon DEF AgreeInside
  <2> HIDE DEF N
  <2> QED
    BY <2>1, Zenon
<1> HIDE DEF F, N
<1>4. resolve_one(decls, supply, at, g) = resolve_one(decls, supply, at, h)
  BY <1>2, <1>3, Zenon
<1> QED
  BY <1>0, <1>4, Zenon

\* How many slots a position is not yet inside of.
Left(decls, A) == Cardinality(Names(decls) \ A)

LEMMA LeftShrinks ==
    ASSUME NEW decls, IsFiniteSet(Names(decls)), NEW A
    PROVE  /\ Left(decls, A) \in Nat /\ Left(decls, A) <= Cardinality(Names(decls))
           /\ \A n \in Names(decls) \ A : Left(decls, A \cup {n}) = Left(decls, A) - 1
<1>1. PICK D : D = Names(decls)
  OBVIOUS
<1>2. IsFiniteSet(D \ A) /\ Cardinality(D \ A) <= Cardinality(D)
  <2>1. D \ A \in SUBSET D /\ IsFiniteSet(D)
    BY <1>1
  <2> QED
    BY ONLY <2>1, FS_Subset
<1>3. Cardinality(D \ A) \in Nat
  BY ONLY <1>2, FS_CardinalityType
<1>4. ASSUME NEW n \in D \ A PROVE Cardinality(D \ (A \cup {n})) = Cardinality(D \ A) - 1
  <2>1. D \ (A \cup {n}) = (D \ A) \ {n}
    OBVIOUS
  <2>2. Cardinality((D \ A) \ {n}) = Cardinality(D \ A) - 1
    BY ONLY <1>2, n \in D \ A, FS_RemoveElement
  <2> QED
    BY <2>1, <2>2, Zenon
<1> QED
  BY <1>1, <1>2, <1>3, <1>4, Zenon DEF Left

\* After as many steps as there are slots left, a step changes nothing.
Settled(f, decls, supply, k) ==
    \A n : \A A \in SUBSET Names(decls) :
        <<n, A>> \in Positions(decls) /\ Left(decls, A) < k => f[k][<<n, A>>] = f[k + 1][<<n, A>>]

LEMMA StepAt ==
    ASSUME NEW decls, NEW supply, NEW g, NEW at \in Positions(decls)
    PROVE  OneStep(decls, supply, g)[at] = resolve_one(decls, supply, at, g)
  BY Zenon DEF OneStep

LEMMA NextSettles ==
    ASSUME NEW decls, NEW supply, IsFiniteSet(Names(decls)), NEW f, NEW k \in Nat, Settled(f, decls, supply, k),
           f[k + 1] = OneStep(decls, supply, f[k]), f[k + 2] = OneStep(decls, supply, f[k + 1])
    PROVE  Settled(f, decls, supply, k + 1)
<1>1. PICK g, h : g = f[k] /\ h = f[k + 1]
  OBVIOUS
<1>2. ASSUME NEW n, NEW A \in SUBSET Names(decls), <<n, A>> \in Positions(decls), Left(decls, A) < k + 1
      PROVE  OneStep(decls, supply, g)[<<n, A>>] = OneStep(decls, supply, h)[<<n, A>>]
  <2>1. ASSUME n \in Names(decls), n \notin A, NEW r, <<r, A \cup {n}>> \in Positions(decls)
        PROVE  g[<<r, A \cup {n}>>] = h[<<r, A \cup {n}>>]
    <3>1. A \cup {n} \in SUBSET Names(decls) /\ n \in Names(decls) \ A
      BY <2>1
    <3>2. Left(decls, A) \in Nat /\ Left(decls, A \cup {n}) = Left(decls, A) - 1
      BY <3>1, LeftShrinks, Zenon
    <3>3. Left(decls, A \cup {n}) < k
      BY ONLY <1>2, <3>2, k \in Nat
    <3> QED
      BY <1>1, <2>1, <3>1, <3>3, Zenon DEF Settled
  <2>2. AgreeInside(decls, n, A, g, h)
    BY <2>1, Zenon DEF AgreeInside
  <2>3. PICK at : at = <<n, A>>
    OBVIOUS
  <2>4. A \in SUBSET Names(decls) /\ at \in Positions(decls)
    BY <1>2, <2>3
  <2>5. resolve_one(decls, supply, at, g) = resolve_one(decls, supply, at, h)
    BY ONLY <2>2, <2>3, <2>4, OneStepIsLocal
  <2>6. OneStep(decls, supply, g)[at] = resolve_one(decls, supply, at, g)
    BY <2>4, Zenon DEF OneStep
  <2>7. OneStep(decls, supply, h)[at] = resolve_one(decls, supply, at, h)
    BY <2>4, Zenon DEF OneStep
  <2> QED
    BY <2>3, <2>5, <2>6, <2>7, Zenon
<1>3. (k + 1) + 1 = k + 2
  OBVIOUS
<1> QED
  BY <1>1, <1>2, <1>3, Zenon DEF Settled

LEMMA AllSettle ==
    ASSUME NEW decls, NEW supply, IsFiniteSet(Names(decls)), NEW N \in Nat, NEW f, StepsUpTo(f, decls, supply, N + 1)
    PROVE  Settled(f, decls, supply, N)
<1> DEFINE D == {k \in 0..N : Settled(f, decls, supply, k)}
<1>1. 0 \in D
  <2>1. \A A : Left(decls, A) \in Nat
    BY LeftShrinks, Zenon
  <2>2. \A A : ~(Left(decls, A) < 0)
    BY ONLY <2>1
  <2>3. Settled(f, decls, supply, 0)
    BY <2>2, Zenon DEF Settled
  <2> QED
    BY <2>3
<1>2. ASSUME NEW k \in 1..N, k - 1 \in D PROVE k \in D
  <2>1. PICK j : j = k - 1
    OBVIOUS
  <2>2. j \in Nat /\ k = j + 1 /\ j + 1 \in 1..N + 1 /\ j + 2 \in 1..N + 1 /\ (j + 1) - 1 = j /\ (j + 2) - 1 = j + 1 /\ k \in 0..N
    BY <2>1
  <2>3. Settled(f, decls, supply, j)
    BY <1>2, <2>1
  <2>4. f[j + 1] = OneStep(decls, supply, f[(j + 1) - 1]) /\ f[j + 2] = OneStep(decls, supply, f[(j + 2) - 1])
    BY <2>2, Zenon DEF StepsUpTo
  <2>5. Settled(f, decls, supply, j + 1)
    BY <2>2, <2>3, <2>4, NextSettles, Zenon
  <2> QED
    BY <2>2, <2>5
<1>3. 0..N \subseteq D
  <2> HIDE DEF D
  <2> QED
    BY <1>1, <1>2, InductionUpTo
<1> QED
  BY <1>3

IsResolution(decls, supply, o) == o = OneStep(decls, supply, o)

LEMMA ResolutionExists ==
    ASSUME NEW decls, NEW supply, IsFiniteSet(Names(decls))
    PROVE  \E o : IsResolution(decls, supply, o)
<1>1. PICK N : N = Cardinality(Names(decls)) + 1 /\ N \in Nat /\ Cardinality(Names(decls)) < N /\ Cardinality(Names(decls)) \in Nat
  BY FS_CardinalityType
<1>2. N + 1 \in Nat /\ N \in 1..N + 1 /\ N + 1 \in 1..N + 1 /\ (N + 1) - 1 = N
  BY <1>1
<1>3. PICK f : StepsUpTo(f, decls, supply, N + 1)
  BY <1>2, StepsExist
<1>4. Settled(f, decls, supply, N)
  BY <1>1, <1>3, AllSettle, Zenon
<1>5. PICK o, before : o = f[N] /\ before = f[N - 1]
  OBVIOUS
<1>6. o = OneStep(decls, supply, before) /\ f[N + 1] = OneStep(decls, supply, o)
  BY <1>2, <1>3, <1>5, Zenon DEF StepsUpTo
<1>7. ASSUME NEW at \in Positions(decls) PROVE o[at] = resolve_one(decls, supply, at, o)
  <2>1. PICK n, A : at = <<n, A>> /\ A \in SUBSET Names(decls)
    BY DEF Positions
  <2>2. Left(decls, A) \in Nat /\ Left(decls, A) <= Cardinality(Names(decls))
    BY LeftShrinks, Zenon
  <2>3. Left(decls, A) < N
    BY ONLY <1>1, <2>2
  <2>4. o[at] = f[N + 1][at]
    BY <1>4, <1>5, <2>1, <2>3, Zenon DEF Settled
  <2> QED
    BY <1>6, <2>4, StepAt, Zenon
<1>8. o = [at \in Positions(decls) |-> o[at]]
  <2>1. PICK P, E : P = Positions(decls) /\ E = [at \in P |-> resolve_one(decls, supply, at, before)]
    OBVIOUS
  <2>2. o = E
    BY <1>6, <2>1, Zenon DEF OneStep
  <2>3. DOMAIN E = P /\ E = [at \in DOMAIN E |-> E[at]]
    BY <2>1
  <2> QED
    BY <2>1, <2>2, <2>3, Zenon
<1>9. o = [at \in Positions(decls) |-> resolve_one(decls, supply, at, o)]
  BY <1>7, <1>8, Zenon
<1> QED
  BY <1>9, Zenon DEF IsResolution, OneStep

LEMMA SlotsAreResolved ==
    ASSUME NEW decls, NEW supply, IsFiniteSet(Names(decls))
    PROVE  \E o : /\ IsResolution(decls, supply, o)
                  /\ resolve_slots(decls, supply) = [n \in Names(decls) |-> o[<<n, {}>>]]
<1> DEFINE Eq(o) == o = [at \in Positions(decls) |-> resolve_one(decls, supply, at, o)]
           outcome == CHOOSE o : Eq(o)
<1>0. PICK o : IsResolution(decls, supply, o)
  BY ResolutionExists
<1>1. Eq(o)
  BY <1>0, Zenon DEF IsResolution, OneStep
<1>2. Eq(outcome)
  <2> HIDE DEF Eq
  <2> QED
    BY <1>1
<1>3. resolve_slots(decls, supply) = [n \in Names(decls) |-> outcome[<<n, {}>>]]
  BY Zenon DEF resolve_slots
<1> HIDE DEF outcome
<1> QED
  BY <1>2, <1>3, Zenon DEF IsResolution, OneStep

LEMMA ReferencesArePositions ==
    ASSUME NEW decls, NEW supply, NEW n \in Names(decls), NEW A \in SUBSET Names(decls), NEW r \in Refers(decls, supply, n)
    PROVE  <<r, A \cup {n}>> \in Positions(decls)
<1>1. ~IsRemoved(n, supply) /\ HasVariant(decls, supply, n)
  <2>1. CASE IsRemoved(n, supply) \/ ~HasVariant(decls, supply, n)
    <3>1. Refers(decls, supply, n) = {}
      BY <2>1, Zenon DEF Refers, HasVariant
    <3> QED
      BY <3>1
  <2> QED
    BY <2>1, Zenon
<1>2. PICK T : T = Unresolved(ChosenText(decls, supply, n))
  OBVIOUS
<1>3. Refers(decls, supply, n) = {p.name : p \in T}
  BY <1>1, <1>2, ReferringText, Zenon
<1>4. PICK p \in T : r = p.name
  BY <1>3, Zenon
<1>5. p \in Unresolved(ChosenText(decls, supply, n))
  BY <1>2, <1>4, Zenon
<1>6. <<p.name, A \cup {n}>> \in Positions(decls)
  BY <1>1, <1>5, LeadsToPositions, Zenon
<1> QED
  BY <1>4, <1>6, Zenon

\* A slot that is answered for and leads to declared slots only, not to itself.
SoundSlot(decls, supply, n) ==
    \/ IsRemoved(n, supply)
    \/ /\ Answered(Decl(decls, n), supply) /\ HasVariant(decls, supply, n)
       /\ Refers(decls, supply, n) \subseteq Names(decls)
       /\ n \notin Behind(decls, supply, Refers(decls, supply, n))
Told(decls, supply, S) == UNION {Wording(decls, supply, m) : m \in S}

\* What a fault-free slot at <<n, A>> is, with its text t.
Clean(decls, supply, n, A, t) ==
    /\ n \in Names(decls) /\ SoundSlot(decls, supply, n)
    /\ \A m \in Behind(decls, supply, {n}) : m \notin A
    /\ t = Told(decls, supply, Behind(decls, supply, {n}))

AllSound(decls, supply) == \A n \in Names(decls) : SoundSlot(decls, supply, n)

LEMMA SoundSlotsAre ==
    ASSUME NEW decls, NEW supply
    PROVE  SoundSlots(decls, supply) <=> AllSound(decls, supply)
<1>1. \A n \in Names(decls) : Answered(Decl(decls, n), supply) <=> n \in DOMAIN supply \/ ~Decl(decls, n).present_when
  <2>1. \A n \in Names(decls) : Decl(decls, n).name = n
    BY DeclIs, Zenon
  <2> QED
    BY <2>1, Zenon DEF Answered
<1> QED
  BY <1>1, Zenon DEF SoundSlots, AllSound, SoundSlot, HasVariant

LEMMA RemovedLeadsNowhere ==
    ASSUME NEW decls, NEW supply, NEW n, IsRemoved(n, supply)
    PROVE  Refers(decls, supply, n) = {} /\ Wording(decls, supply, n) = {}
  BY Zenon DEF Refers, Wording

LEMMA CleanStep ==
    ASSUME NEW decls, NEW supply, NEW n, NEW A, NEW h, Resolves(decls, supply, n, A, h),
           \A r \in Refers(decls, supply, n) : h[r].fault = "" => Clean(decls, supply, r, A \cup {n}, h[r].text)
    PROVE  Clean(decls, supply, n, A, ResolvedText(decls, supply, n, h))
<1>1. n \in Names(decls) /\ n \notin A
  BY Zenon DEF Resolves
<1>2. PICK R : R = Refers(decls, supply, n)
  OBVIOUS
<1>3. PICK B, C : B = Behind(decls, supply, R) /\ C = Behind(decls, supply, {n})
  OBVIOUS
<1>4. n \in C /\ B \subseteq C /\ \A m \in C : m = n \/ m \in B
  BY <1>1, <1>2, <1>3, BehindOne, Zenon
<1>5. \A m : m \in B <=> \E r \in R : m \in Behind(decls, supply, {r})
  BY <1>3, BehindEach, Zenon
<1>6. IsRemoved(n, supply) => R = {} /\ Wording(decls, supply, n) = {}
  BY <1>2, RemovedLeadsNowhere, Zenon
<1>7. \A r \in R : Clean(decls, supply, r, A \cup {n}, h[r].text)
  BY <1>2, <1>6, Zenon DEF Resolves
<1>8. ASSUME NEW m \in B PROVE m \notin A /\ m # n
  <2>1. PICK r \in R : m \in Behind(decls, supply, {r})
    BY <1>5, Zenon
  <2>2. m \notin A \cup {n}
    BY <1>7, <2>1, Zenon DEF Clean
  <2> QED
    BY <2>2, Zenon
<1>9. SoundSlot(decls, supply, n)
  <2>1. R \subseteq Names(decls)
    BY <1>7, Zenon DEF Clean
  <2>2. n \notin B
    BY <1>8, Zenon
  <2> QED
    BY <1>2, <1>3, <2>1, <2>2, Zenon DEF SoundSlot, Resolves
<1>10. PICK t : t = ResolvedText(decls, supply, n, h)
  OBVIOUS
<1>11. \A p : p \in t <=> p \in Wording(decls, supply, n) \/ \E r \in R : p \in h[r].text
  <2>1. CASE IsRemoved(n, supply)
    <3>1. t = {}
      BY <1>10, <2>1, Zenon DEF ResolvedText
    <3> QED
      BY <1>6, <2>1, <3>1, Zenon
  <2>2. CASE ~IsRemoved(n, supply)
    <3>1. t = Wording(decls, supply, n) \cup UNION {h[r].text : r \in R}
      BY <1>2, <1>10, <2>2, Zenon DEF ResolvedText
    <3> QED
      BY <3>1, Zenon
  <2> QED
    BY <2>1, <2>2
<1>12. \A r \in R : \A p : p \in h[r].text <=> \E m \in Behind(decls, supply, {r}) : p \in Wording(decls, supply, m)
  <2> SUFFICES ASSUME NEW r \in R
               PROVE  \A p : p \in h[r].text <=> \E m \in Behind(decls, supply, {r}) : p \in Wording(decls, supply, m)
    BY Zenon
  <2>1. PICK S, u : S = Behind(decls, supply, {r}) /\ u = h[r].text
    OBVIOUS
  <2>2. u = UNION {Wording(decls, supply, m) : m \in S}
    BY <1>7, <2>1, Zenon DEF Clean, Told
  <2>3. \A p : p \in u <=> \E m \in S : p \in Wording(decls, supply, m)
    BY <2>2, Zenon
  <2> QED
    BY <2>1, <2>3, Zenon
<1>13. \A p : p \in t <=> \E m \in C : p \in Wording(decls, supply, m)
  BY <1>4, <1>5, <1>11, <1>12, Zenon
<1>14. t = Told(decls, supply, C)
  <2>1. PICK u : u = Told(decls, supply, C)
    OBVIOUS
  <2>2. \A p : p \in u <=> \E m \in C : p \in Wording(decls, supply, m)
    BY <2>1, Zenon DEF Told
  <2>3. t = u
    BY ONLY <1>13, <2>2
  <2> QED
    BY <2>1, <2>3
<1>15. \A m \in C : m \notin A
  BY <1>1, <1>4, <1>8, Zenon
<1> QED
  BY <1>1, <1>3, <1>9, <1>10, <1>14, <1>15, Zenon DEF Clean

\* Everything that comes to something, below a number of slots left, is clean.
CleanBelow(decls, supply, o, k) ==
    \A n : \A A \in SUBSET Names(decls) :
        <<n, A>> \in Positions(decls) /\ Left(decls, A) < k /\ o[<<n, A>>].fault = ""
            => Clean(decls, supply, n, A, o[<<n, A>>].text)
\* Everything that is sound, below a number of slots left, comes to something.
FineBelow(decls, supply, o, k) ==
    \A n \in Names(decls) : \A A \in SUBSET Names(decls) :
        <<n, A>> \in Positions(decls) /\ Left(decls, A) < k /\ (\A m \in Behind(decls, supply, {n}) : m \notin A)
            => o[<<n, A>>].fault = ""

LEMMA ResolvedAt ==
    ASSUME NEW decls, NEW supply, NEW o, IsResolution(decls, supply, o), NEW n, NEW A, <<n, A>> \in Positions(decls),
           NEW h, h = ComesTo(decls, supply, n, A, o)
    PROVE  ComesOut(decls, supply, n, A, h, o[<<n, A>>])
<1>1. PICK at, g, u : at = <<n, A>> /\ g = OneStep(decls, supply, o) /\ u = resolve_one(decls, supply, at, o)
  OBVIOUS
<1>2. g[at] = u
  BY <1>1, StepAt, Zenon
<1>3. g = o
  BY <1>1, Zenon DEF IsResolution
<1>4. o[at] = u
  BY <1>2, <1>3, Zenon
<1>5. ComesOut(decls, supply, n, A, h, u)
  BY <1>1, ResolveOneIs, Zenon
<1> QED
  BY <1>1, <1>4, <1>5, Zenon

LEMMA NextIsClean ==
    ASSUME NEW decls, NEW supply, IsFiniteSet(Names(decls)), NEW o, IsResolution(decls, supply, o),
           NEW k \in Nat, CleanBelow(decls, supply, o, k)
    PROVE  CleanBelow(decls, supply, o, k + 1)
<1>1. ASSUME NEW n, NEW A \in SUBSET Names(decls), <<n, A>> \in Positions(decls), Left(decls, A) < k + 1,
             o[<<n, A>>].fault = ""
      PROVE  Clean(decls, supply, n, A, o[<<n, A>>].text)
  <2>1. PICK h : h = ComesTo(decls, supply, n, A, o)
    OBVIOUS
  <2>2. Resolves(decls, supply, n, A, h) /\ o[<<n, A>>].text = ResolvedText(decls, supply, n, h)
    <3>1. ComesOut(decls, supply, n, A, h, o[<<n, A>>])
      BY <1>1, <2>1, ResolvedAt, Zenon
    <3> QED
      BY <1>1, <3>1, Zenon DEF ComesOut
  <2>3. n \in Names(decls) /\ n \notin A
    BY <2>2, Zenon DEF Resolves
  <2>4. A \cup {n} \in SUBSET Names(decls) /\ n \in Names(decls) \ A
    BY <2>3
  <2>5. Left(decls, A) \in Nat /\ Left(decls, A \cup {n}) = Left(decls, A) - 1
    BY <2>4, LeftShrinks, Zenon
  <2>6. Left(decls, A \cup {n}) < k
    <3>1. Left(decls, A) < k + 1
      BY <1>1
    <3> QED
      BY ONLY <2>5, <3>1, k \in Nat
  <2>7. ASSUME NEW r \in Refers(decls, supply, n), h[r].fault = ""
        PROVE  Clean(decls, supply, r, A \cup {n}, h[r].text)
    <3>1. <<r, A \cup {n}>> \in Positions(decls)
      BY <2>3, ReferencesArePositions, Zenon
    <3>2. h[r] = o[<<r, A \cup {n}>>]
      BY <2>1, Zenon DEF ComesTo
    <3> QED
      BY <2>4, <2>6, <2>7, <3>1, <3>2, Zenon DEF CleanBelow
  <2> QED
    BY <2>2, <2>7, CleanStep, Zenon
<1> QED
  BY <1>1, Zenon DEF CleanBelow

LEMMA NextIsFine ==
    ASSUME NEW decls, NEW supply, IsFiniteSet(Names(decls)), NEW o, IsResolution(decls, supply, o),
           AllSound(decls, supply), NEW k \in Nat, FineBelow(decls, supply, o, k)
    PROVE  FineBelow(decls, supply, o, k + 1)
<1>1. ASSUME NEW n \in Names(decls), NEW A \in SUBSET Names(decls), <<n, A>> \in Positions(decls), Left(decls, A) < k + 1,
             \A m \in Behind(decls, supply, {n}) : m \notin A
      PROVE  o[<<n, A>>].fault = ""
  <2>1. PICK h : h = ComesTo(decls, supply, n, A, o)
    OBVIOUS
  <2>2. PICK R, B, C : /\ R = Refers(decls, supply, n) /\ B = Behind(decls, supply, R)
                       /\ C = Behind(decls, supply, {n})
    OBVIOUS
  <2>3. n \in C /\ B \subseteq C
    BY <2>2, BehindOne, Zenon
  <2>4. n \notin A
    BY <1>1, <2>2, <2>3, Zenon
  <2>5. A \cup {n} \in SUBSET Names(decls) /\ n \in Names(decls) \ A
    BY <2>4
  <2>6. Left(decls, A) \in Nat /\ Left(decls, A \cup {n}) = Left(decls, A) - 1
    BY <2>5, LeftShrinks, Zenon
  <2>7. Left(decls, A \cup {n}) < k
    <3>1. Left(decls, A) < k + 1
      BY <1>1
    <3> QED
      BY ONLY <2>6, <3>1, k \in Nat
  <2>8. SoundSlot(decls, supply, n)
    BY Zenon DEF AllSound
  <2>9. ASSUME ~IsRemoved(n, supply), NEW r \in R PROVE h[r].fault = ""
    <3>1. r \in Names(decls) /\ n \notin B
      BY <2>2, <2>8, <2>9, Zenon DEF SoundSlot
    <3>2. <<r, A \cup {n}>> \in Positions(decls)
      BY <2>2, ReferencesArePositions, Zenon
    <3>3. h[r] = o[<<r, A \cup {n}>>]
      BY <2>1, <2>2, Zenon DEF ComesTo
    <3>4. ASSUME NEW m \in Behind(decls, supply, {r}) PROVE m \notin A \cup {n}
      <4>1. m \in B
        BY <2>2, <2>9, BehindEach, Zenon
      <4>2. m \notin A /\ m # n
        BY <1>1, <2>2, <2>3, <3>1, <4>1, Zenon
      <4> QED
        BY <4>2, Zenon
    <3> QED
      BY <2>5, <2>7, <3>1, <3>2, <3>3, <3>4, Zenon DEF FineBelow
  <2>10. Resolves(decls, supply, n, A, h)
    BY <2>2, <2>4, <2>8, <2>9, Zenon DEF Resolves, SoundSlot
  <2>11. ComesOut(decls, supply, n, A, h, o[<<n, A>>])
    BY <1>1, <2>1, ResolvedAt, Zenon
  <2> QED
    BY <2>10, <2>11, Zenon DEF ComesOut
<1> QED
  BY <1>1, Zenon DEF FineBelow

LEMMA AllAreClean ==
    ASSUME NEW decls, NEW supply, IsFiniteSet(Names(decls)), NEW o, IsResolution(decls, supply, o)
    PROVE  /\ \A k \in Nat : CleanBelow(decls, supply, o, k)
           /\ AllSound(decls, supply) => \A k \in Nat : FineBelow(decls, supply, o, k)
<1>1. \A A : ~(Left(decls, A) < 0)
  <2>1. \A A : Left(decls, A) \in Nat
    BY LeftShrinks, Zenon
  <2> QED
    BY ONLY <2>1
<1>2. \A k \in Nat : CleanBelow(decls, supply, o, k)
  <2> DEFINE D == {k \in Nat : CleanBelow(decls, supply, o, k)}
  <2>1. 0 \in D
    BY <1>1, Zenon DEF CleanBelow
  <2>2. \A k \in Nat : k \in D => k + 1 \in D
    BY NextIsClean
  <2> HIDE DEF D
  <2>3. Nat \subseteq D
    BY <2>1, <2>2, Induction, Zenon
  <2> QED
    BY <2>3 DEF D
<1>3. ASSUME AllSound(decls, supply) PROVE \A k \in Nat : FineBelow(decls, supply, o, k)
  <2> DEFINE D == {k \in Nat : FineBelow(decls, supply, o, k)}
  <2>1. 0 \in D
    BY <1>1, Zenon DEF FineBelow
  <2>2. \A k \in Nat : k \in D => k + 1 \in D
    BY <1>3, NextIsFine
  <2> HIDE DEF D
  <2>3. Nat \subseteq D
    BY <2>1, <2>2, Induction, Zenon
  <2> QED
    BY <2>3 DEF D
<1> QED
  BY <1>2, <1>3

\* resolve_slots: every slot in scope comes to something exactly if all are sound, and
\* then to the words that it leads to.
AllResolve(decls, supply, resolved) == \A n \in Names(decls) : resolved[n].fault = ""

LEMMA SlotsComeTo ==
    ASSUME NEW decls, NEW supply, IsFiniteSet(Names(decls)), NEW resolved, resolved = resolve_slots(decls, supply)
    PROVE  /\ DOMAIN resolved = Names(decls)
           /\ AllResolve(decls, supply, resolved) <=> SoundSlots(decls, supply)
           /\ AllResolve(decls, supply, resolved) =>
                \A n \in Names(decls) : resolved[n].text = Told(decls, supply, Behind(decls, supply, {n}))
<1>0. PICK o : /\ IsResolution(decls, supply, o)
               /\ resolve_slots(decls, supply) = [n \in Names(decls) |-> o[<<n, {}>>]]
  BY SlotsAreResolved
<1>1. IsResolution(decls, supply, o) /\ resolved = [n \in Names(decls) |-> o[<<n, {}>>]]
  BY <1>0
<1>2. PICK k : k = Left(decls, {}) + 1 /\ k \in Nat /\ Left(decls, {}) < k
  <2>1. Left(decls, {}) \in Nat
    BY LeftShrinks, Zenon
  <2> QED
    BY ONLY <2>1
<1>3. \A n \in Names(decls) : <<n, {}>> \in Positions(decls)
  BY DEF Positions
<1>4. \A n \in Names(decls) : resolved[n] = o[<<n, {}>>]
  BY <1>1, Zenon
<1>5. CleanBelow(decls, supply, o, k) /\ (AllSound(decls, supply) => FineBelow(decls, supply, o, k))
  BY <1>1, <1>2, AllAreClean, Zenon
<1>6. {} \in SUBSET Names(decls)
  OBVIOUS
<1>7. \A n \in Names(decls) : resolved[n].fault = "" => Clean(decls, supply, n, {}, resolved[n].text)
  BY <1>2, <1>3, <1>4, <1>5, <1>6, Zenon DEF CleanBelow
<1>8. AllSound(decls, supply) => AllResolve(decls, supply, resolved)
  <2>1. \A m : m \notin {}
    OBVIOUS
  <2> QED
    BY <1>2, <1>3, <1>4, <1>5, <1>6, <2>1, Zenon DEF FineBelow, AllResolve
<1>9. AllResolve(decls, supply, resolved) => AllSound(decls, supply)
  BY <1>7, Zenon DEF AllResolve, AllSound, Clean
<1>10. AllResolve(decls, supply, resolved) =>
          \A n \in Names(decls) : resolved[n].text = Told(decls, supply, Behind(decls, supply, {n}))
  BY <1>7, Zenon DEF AllResolve, Clean
<1>11. DOMAIN resolved = Names(decls)
  BY <1>1, Zenon
<1> QED
  BY <1>8, <1>9, <1>10, <1>11, SoundSlotsAre, Zenon

LEMMA NamesAreFinite ==
    ASSUME NEW S, NEW decls \in Seq(S)
    PROVE  IsFiniteSet(Names(decls))
<1>1. PICK n \in Nat : n = Len(decls) /\ DOMAIN decls = 1..n
  BY LenProperties
<1>2. IsFiniteSet(1..n)
  <2>1. 1 \in Int /\ n \in Int
    OBVIOUS
  <2> QED
    BY ONLY <2>1, FS_Interval
<1>3. PICK R : R = {decls[i].name : i \in 1..n}
  OBVIOUS
<1>4. [i \in 1..n |-> decls[i].name] \in Surjection(1..n, R)
  BY <1>3 DEF Surjection
<1>5. IsFiniteSet(R)
  BY ONLY <1>2, <1>4, FS_Surjection
<1> QED
  BY <1>1, <1>3, <1>5, Zenon DEF Names

\* A behaviour of the model that only declared slots are led to by sound ones.
LEMMA BehindIsDeclared ==
    ASSUME NEW decls, NEW supply, AllSound(decls, supply), NEW seed, seed \subseteq Names(decls)
    PROVE  Behind(decls, supply, seed) \subseteq Names(decls)
<1>1. PICK D, B : D = Names(decls) /\ B = Behind(decls, supply, seed)
  OBVIOUS
<1>2. \A n \in D : Refers(decls, supply, n) \subseteq D
  <2> SUFFICES ASSUME NEW n \in Names(decls) PROVE Refers(decls, supply, n) \subseteq Names(decls)
    BY <1>1, Zenon
  <2>1. IsRemoved(n, supply) => Refers(decls, supply, n) = {}
    BY Zenon DEF Refers
  <2>2. SoundSlot(decls, supply, n)
    BY Zenon DEF AllSound
  <2> QED
    BY <2>1, <2>2, Zenon DEF SoundSlot
<1>3. ClosedUnder(decls, supply, D)
  BY <1>1, <1>2, Zenon DEF ClosedUnder
<1>4. B \subseteq D
  BY <1>1, <1>3, BehindIs, Zenon DEF IsBehind
<1> QED
  BY <1>1, <1>4

\* The names that a text mentions, and what a node's text has to be.
MentionedBy(text) == {p.name : p \in Unresolved(text)}
TextIsTold(decls, supply, text, is) ==
    is = (text \ Unresolved(text)) \cup Told(decls, supply, Behind(decls, supply, MentionedBy(text)))
NodeIsSound(decls, supply, text) == SoundSlots(decls, supply) /\ MentionedBy(text) \subseteq Names(decls)

\* No wording of a slot is a reference.
LEMMA ToldIsPlain ==
    ASSUME NEW decls, NEW supply, NEW S
    PROVE  Unresolved(Told(decls, supply, S)) = {}
<1>1. ASSUME NEW m \in S, NEW p \in Wording(decls, supply, m) PROVE ~(p.is = "slot" /\ is_slot_name(p.name))
  <2>1. PICK t : p \in t \ Unresolved(t)
    <3>1. CASE IsRemoved(m, supply)
      BY <1>1, <3>1, Zenon DEF Wording
    <3>2. CASE ~IsRemoved(m, supply)
      BY <1>1, <3>2, Zenon DEF Wording, SaidBy
    <3> QED
      BY <3>1, <3>2
  <2> QED
    BY <2>1, Zenon DEF Unresolved
<1> QED
  BY <1>1, Zenon DEF Unresolved, Told

LEMMA FilledIsTold ==
    ASSUME NEW decls, NEW supply, NEW text, NEW resolved, MentionedBy(text) \subseteq Names(decls),
           \A n \in Names(decls) : resolved[n].text = Told(decls, supply, Behind(decls, supply, {n}))
    PROVE  TextIsTold(decls, supply, text, Filled(text, resolved)) /\ Unresolved(Filled(text, resolved)) = {}
<1>1. PICK M, B : M = MentionedBy(text) /\ B = Behind(decls, supply, M)
  OBVIOUS
<1>2. \A m : m \in B <=> \E r \in M : m \in Behind(decls, supply, {r})
  BY <1>1, BehindEach, Zenon
<1>3. \A r \in M : \A p : p \in resolved[r].text <=> \E m \in Behind(decls, supply, {r}) : p \in Wording(decls, supply, m)
  <2> SUFFICES ASSUME NEW r \in M
               PROVE  \A p : p \in resolved[r].text <=> \E m \in Behind(decls, supply, {r}) : p \in Wording(decls, supply, m)
    BY Zenon
  <2>1. PICK S, u : S = Behind(decls, supply, {r}) /\ u = resolved[r].text
    OBVIOUS
  <2>2. u = UNION {Wording(decls, supply, m) : m \in S}
    BY <1>1, <2>1, Zenon DEF Told
  <2>3. \A p : p \in u <=> \E m \in S : p \in Wording(decls, supply, m)
    BY <2>2, Zenon
  <2> QED
    BY <2>1, <2>3, Zenon
<1>4. PICK W : W = UNION {resolved[p.name].text : p \in Unresolved(text)}
  OBVIOUS
<1>5. \A q : q \in W <=> \E r \in M : q \in resolved[r].text
  BY <1>1, <1>4, Zenon DEF MentionedBy
<1>6. \A q : q \in W <=> \E m \in B : q \in Wording(decls, supply, m)
  BY <1>2, <1>3, <1>5, Zenon
<1>7. W = Told(decls, supply, B)
  <2>1. PICK u : u = Told(decls, supply, B)
    OBVIOUS
  <2>2. \A p : p \in u <=> \E m \in B : p \in Wording(decls, supply, m)
    BY <2>1, Zenon DEF Told
  <2>3. W = u
    BY ONLY <1>6, <2>2
  <2> QED
    BY <2>1, <2>3
<1>8. Filled(text, resolved) = (text \ Unresolved(text)) \cup W
  BY <1>4, Zenon DEF Filled
<1>9. Unresolved(W) = {}
  BY <1>7, ToldIsPlain, Zenon
<1>10. Unresolved((text \ Unresolved(text)) \cup W) = {}
  BY <1>9, Zenon DEF Unresolved
<1> QED
  BY <1>1, <1>7, <1>8, <1>10, Zenon DEF TextIsTold

\* What becomes of the text of one node, and when nothing does.
NodeTold(decls, supply, text, u) ==
    /\ u.fault = "" /\ Unresolved(u.text) = {} <=> NodeIsSound(decls, supply, text)
    /\ u.fault = "" /\ Unresolved(u.text) = {} => TextIsTold(decls, supply, text, u.text)

\* ResolvedNode, of the slots in scope.
TextInScope(decls, text, resolved, faults) ==
    IF decls = <<>> THEN Good(text)
    ELSE IF faults # {} THEN Bad(CHOOSE f \in faults : TRUE) ELSE apply_slots(text, resolved)
FaultsOf(resolved) == {resolved[n].fault : n \in DOMAIN resolved} \ {""}

LEMMA ResolvedNodeOf ==
    ASSUME NEW profile_slots, NEW node, NEW supply
    PROVE  ResolvedNode(profile_slots, node, supply)
               = TextInScope(profile_slots \o node.slots, node.text,
                               resolve_slots(profile_slots \o node.slots, supply),
                               FaultsOf(resolve_slots(profile_slots \o node.slots, supply)))
  BY Zenon DEF ResolvedNode, TextInScope, FaultsOf

LEMMA ResolvedNodeIs ==
    ASSUME NEW S, NEW profile_slots, NEW node, profile_slots \o node.slots \in Seq(S), NEW supply,
           NEW decls, decls = profile_slots \o node.slots, NEW u, u = ResolvedNode(profile_slots, node, supply)
    PROVE  NodeTold(decls, supply, node.text, u)
<1>1. PICK text, resolved : text = node.text /\ resolved = resolve_slots(decls, supply)
  OBVIOUS
<1>2. PICK faults : faults = {resolved[n].fault : n \in DOMAIN resolved} \ {""}
  OBVIOUS
<1>3. IsFiniteSet(Names(decls))
  <2>1. decls \in Seq(S)
    OBVIOUS
  <2> QED
    BY ONLY <2>1, NamesAreFinite
<1>4. /\ DOMAIN resolved = Names(decls)
      /\ AllResolve(decls, supply, resolved) <=> SoundSlots(decls, supply)
      /\ AllResolve(decls, supply, resolved) =>
            \A n \in Names(decls) : resolved[n].text = Told(decls, supply, Behind(decls, supply, {n}))
  <2>1. resolved = resolve_slots(decls, supply)
    BY <1>1
  <2> QED
    BY ONLY <1>3, <2>1, SlotsComeTo
<1>5. u = IF decls = <<>> THEN Good(text)
          ELSE IF faults # {} THEN Bad(CHOOSE f \in faults : TRUE)
          ELSE apply_slots(text, resolved)
  <2>1. u = TextInScope(decls, text, resolved, FaultsOf(resolved))
    BY <1>1, ResolvedNodeOf, Zenon
  <2>2. faults = FaultsOf(resolved)
    BY <1>2, Zenon DEF FaultsOf
  <2> QED
    BY <2>1, <2>2, Zenon DEF TextInScope
<1>6. faults = {} <=> AllResolve(decls, supply, resolved)
  BY <1>2, <1>4, Zenon DEF AllResolve
<1>7. CASE decls = <<>>
  <2>1. u.fault = "" /\ u.text = text
    BY <1>5, <1>7, SayingParts, Zenon
  <2>2. Names(decls) = {}
    <3>1. DOMAIN decls = {}
      BY <1>7
    <3> QED
      BY <3>1, Zenon DEF Names
  <2>3. SoundSlots(decls, supply)
    BY <2>2, Zenon DEF SoundSlots
  <2>4. MentionedBy(text) \subseteq Names(decls) <=> Unresolved(text) = {}
    BY <2>2, Zenon DEF MentionedBy
  <2>5. ASSUME Unresolved(text) = {} PROVE TextIsTold(decls, supply, text, text)
    <3>1. MentionedBy(text) = {}
      BY <2>5, Zenon DEF MentionedBy
    <3>2. Behind(decls, supply, MentionedBy(text)) = {}
      BY <3>1, NothingBehindNothing, Zenon
    <3>3. Told(decls, supply, Behind(decls, supply, MentionedBy(text))) = {}
      BY <3>2, Zenon DEF Told
    <3> QED
      BY <2>5, <3>3, Zenon DEF TextIsTold
  <2> QED
    BY <1>1, <2>1, <2>3, <2>4, <2>5, Zenon DEF NodeTold, NodeIsSound
<1>8. CASE decls # <<>> /\ faults # {}
  <2>1. PICK f : f = CHOOSE g \in faults : TRUE
    OBVIOUS
  <2>2. f \in faults
    BY <1>8, <2>1, Zenon
  <2>3. u = Bad(f)
    BY <1>5, <1>8, <2>1, Zenon
  <2>4. u.fault # ""
    BY <1>2, <2>2, <2>3, SayingParts, Zenon
  <2>5. ~SoundSlots(decls, supply)
    BY <1>4, <1>6, <1>8, Zenon
  <2> QED
    BY <1>1, <2>4, <2>5, Zenon DEF NodeTold, NodeIsSound
<1>9. CASE decls # <<>> /\ faults = {}
  <2>1. u = apply_slots(text, resolved)
    BY <1>5, <1>9, Zenon
  <2>2. AllResolve(decls, supply, resolved) /\ SoundSlots(decls, supply)
    BY <1>4, <1>6, <1>9, Zenon
  <2>3. MentionedBy(text) \subseteq Names(decls) <=> ~\E p \in Unresolved(text) : p.name \notin DOMAIN resolved
    BY <1>4, Zenon DEF MentionedBy
  <2>4. CASE ~(MentionedBy(text) \subseteq Names(decls))
    <3>1. u = Bad("undeclared")
      BY <2>1, <2>3, <2>4, Zenon DEF apply_slots
    <3>2. u.fault # ""
      BY <3>1, SayingParts, FaultsAreFaults, Zenon
    <3> QED
      BY <1>1, <2>4, <3>2, Zenon DEF NodeTold, NodeIsSound
  <2>5. CASE MentionedBy(text) \subseteq Names(decls)
    <3>1. u = Substituted(text, resolved)
      BY <2>1, <2>3, <2>5, Zenon DEF apply_slots
    <3>2. AllGood(text, resolved)
      BY <2>2, <2>5, Zenon DEF AllGood, AllResolve, MentionedBy
    <3>3. u.fault = "" /\ u.text = Filled(text, resolved)
      BY <3>1, <3>2, SubstitutedIs, Zenon
    <3>4. \A n \in Names(decls) : resolved[n].text = Told(decls, supply, Behind(decls, supply, {n}))
      BY <1>4, <2>2, Zenon
    <3>5. TextIsTold(decls, supply, text, Filled(text, resolved)) /\ Unresolved(Filled(text, resolved)) = {}
      BY ONLY <2>5, <3>4, FilledIsTold
    <3> QED
      BY <1>1, <2>2, <2>5, <3>3, <3>5, Zenon DEF NodeTold, NodeIsSound
  <2> QED
    BY <2>4, <2>5
<1> QED
  BY <1>7, <1>8, <1>9

\* The preview: the words of a text that is not chosen are nowhere in what is said.
PreviewHolds(decls, supply, is) ==
    \A n \in Names(decls) : \A k \in DOMAIN Decl(decls, n).variants :
        preview_status(Decl(decls, n), k, supply) # "selected" => is \cap SaidBy(Decl(decls, n), k) = {}

LEMMA SaidOf == "omitted" # "selected" /\ "unselected" # "selected"
  OBVIOUS

LEMMA PreviewIsTrue ==
    ASSUME NEW decls, NEW supply, NEW text, NEW is, WordsAreOnce(decls, text), NodeIsSound(decls, supply, text),
           TextIsTold(decls, supply, text, is)
    PROVE  PreviewHolds(decls, supply, is)
<1> SUFFICES ASSUME NEW n \in Names(decls), NEW k \in DOMAIN Decl(decls, n).variants,
                    preview_status(Decl(decls, n), k, supply) # "selected",
                    NEW p \in is, p \in SaidBy(Decl(decls, n), k)
             PROVE  FALSE
  BY Zenon DEF PreviewHolds
<1>1. PICK B : B = Behind(decls, supply, MentionedBy(text))
  OBVIOUS
<1>2. AllSound(decls, supply) /\ MentionedBy(text) \subseteq Names(decls)
  BY SoundSlotsAre, Zenon DEF NodeIsSound
<1>3. B \subseteq Names(decls)
  BY <1>1, <1>2, BehindIsDeclared, Zenon
<1>4. p \notin text
  BY Zenon DEF WordsAreOnce
<1>5. p \in Told(decls, supply, B)
  BY <1>1, <1>4, Zenon DEF TextIsTold
<1>6. PICK m \in B : p \in Wording(decls, supply, m)
  BY <1>5, Zenon DEF Told
<1>7. PICK l : l = Variant(Decl(decls, m), supply)
  OBVIOUS
<1>8. ~IsRemoved(m, supply)
  <2>1. CASE IsRemoved(m, supply)
    <3>1. Wording(decls, supply, m) = {}
      BY <2>1, Zenon DEF Wording
    <3> QED
      BY <1>6, <3>1
  <2> QED
    BY <2>1
<1>9. p \in SaidBy(Decl(decls, m), l)
  BY <1>6, <1>7, <1>8, Zenon DEF Wording
<1>10. m \in Names(decls) /\ l \in DOMAIN Decl(decls, m).variants
  <2>1. SoundSlot(decls, supply, m)
    BY <1>2, <1>3, <1>6, Zenon DEF AllSound
  <2> QED
    BY <1>3, <1>6, <1>7, <1>8, <2>1, Zenon DEF SoundSlot, HasVariant
<1>11. m = n /\ l = k
  <2>1. SaidBy(Decl(decls, n), k) \cap SaidBy(Decl(decls, m), l) # {}
    BY <1>9
  <2> QED
    BY <1>10, <2>1, Zenon DEF WordsAreOnce
<1>12. Decl(decls, n).name = n
  BY DeclIs, Zenon
<1>13. preview_status(Decl(decls, n), k, supply) = "selected"
  BY <1>7, <1>8, <1>11, <1>12, Zenon DEF preview_status
<1> QED
  BY <1>13

\* What a dispatch is asked for: lists of slots, each piece of wording of one place.
ScopeOf(a, i) == a.ir.slots \o a.ir.nodes[i].slots
SlotsAreLists(a) == \A i \in DOMAIN a.ir.nodes : \E S : ScopeOf(a, i) \in Seq(S)
WordsHaveOnePlace(a) == \A i \in DOMAIN a.ir.nodes : WordsAreOnce(ScopeOf(a, i), a.ir.nodes[i].text)

AllNodesSound(a, supply) == \A i \in DOMAIN a.ir.nodes : NodeIsSound(ScopeOf(a, i), supply, a.ir.nodes[i].text)
TextIsRight(a, supply, i, is) ==
    TextIsTold(ScopeOf(a, i), supply, a.ir.nodes[i].text, is) /\ PreviewHolds(ScopeOf(a, i), supply, is)
DispatchIsRight(a, supply, spoken) ==
    /\ spoken.fault = "" <=> AllNodesSound(a, supply)
    /\ spoken.fault = "" => \A i \in DOMAIN a.ir.nodes : TextIsRight(a, supply, i, spoken.texts[i])

LEMMA SpokenForIs ==
    ASSUME NEW a, NEW spoken, parse_slot_flags(a.flags).ok => DispatchIsRight(a, parse_slot_flags(a.flags).supply, spoken)
    PROVE  SlotsAreSpokenFor(a, spoken)
  BY Zenon DEF SlotsAreSpokenFor, DispatchIsRight, AllNodesSound, TextIsRight, TextIsTold, PreviewHolds, NodeIsSound,
               MentionedBy, Told, ScopeOf

\* DispatchTexts, of the nodes that it resolves.
OutcomeOf(ok, nodes, faults) ==
    IF ~ok THEN [fault |-> "flags", texts |-> <<>>]
    ELSE IF faults # {} THEN [fault |-> CHOOSE f \in faults : TRUE, texts |-> <<>>]
    ELSE IF \E i \in DOMAIN nodes : ~assert_no_slot_references(nodes[i].text)
         THEN [fault |-> "unresolved", texts |-> <<>>]
    ELSE [fault |-> "", texts |-> [i \in DOMAIN nodes |-> nodes[i].text]]
NodeFaults(nodes) == {nodes[i].fault : i \in DOMAIN nodes} \ {""}

LEMMA DispatchTextsIs ==
    ASSUME NEW a, NEW supply, supply = parse_slot_flags(a.flags).supply, NEW nodes, nodes = resolve_ir_json(a.ir, supply)
    PROVE  DispatchTexts(a) = OutcomeOf(parse_slot_flags(a.flags).ok, nodes, NodeFaults(nodes))
  BY Zenon DEF DispatchTexts, OutcomeOf, NodeFaults

LEMMA FaultGiven ==
    ASSUME NEW c, NEW texts
    PROVE  /\ [fault |-> c, texts |-> texts].fault = c
           /\ [fault |-> c, texts |-> texts].texts = texts
  OBVIOUS

LEMMA UnresolvedIsAFault == "unresolved" # ""
  OBVIOUS

LEMMA DispatchComesOut ==
    ASSUME NEW nodes, NEW spoken, spoken = OutcomeOf(TRUE, nodes, NodeFaults(nodes))
    PROVE  /\ spoken.fault = "" <=> \A i \in DOMAIN nodes : nodes[i].fault = "" /\ Unresolved(nodes[i].text) = {}
           /\ spoken.fault = "" => \A i \in DOMAIN nodes : spoken.texts[i] = nodes[i].text
<1>1. PICK faults, D : faults = NodeFaults(nodes) /\ D = DOMAIN nodes
  OBVIOUS
<1>2. faults = {} <=> \A i \in D : nodes[i].fault = ""
  BY <1>1, Zenon DEF NodeFaults
<1>3. CASE faults # {}
  <2>1. PICK c : c = CHOOSE f \in faults : TRUE
    OBVIOUS
  <2>2. c \in faults
    BY <1>3, <2>1, Zenon
  <2>3. c # ""
    BY <1>1, <2>2, Zenon DEF NodeFaults
  <2>4. spoken = [fault |-> c, texts |-> <<>>]
    BY <1>1, <1>3, <2>1, Zenon DEF OutcomeOf
  <2>5. spoken.fault = c
    BY <2>4, FaultGiven, Zenon
  <2> QED
    BY <1>1, <1>2, <1>3, <2>3, <2>5, Zenon
<1>4. CASE faults = {} /\ \E i \in D : ~assert_no_slot_references(nodes[i].text)
  <2>1. spoken = [fault |-> "unresolved", texts |-> <<>>]
    BY <1>1, <1>4, Zenon DEF OutcomeOf
  <2>2. spoken.fault # ""
    BY <2>1, FaultGiven, UnresolvedIsAFault, Zenon
  <2>3. \E i \in D : Unresolved(nodes[i].text) # {}
    BY <1>4, Zenon DEF assert_no_slot_references
  <2> QED
    BY <1>1, <2>2, <2>3, Zenon
<1>5. CASE faults = {} /\ ~\E i \in D : ~assert_no_slot_references(nodes[i].text)
  <2>1. PICK texts : texts = [i \in D |-> nodes[i].text]
    OBVIOUS
  <2>2. spoken = [fault |-> "", texts |-> texts]
    BY <1>1, <1>5, <2>1, Zenon DEF OutcomeOf
  <2>3. spoken.fault = "" /\ spoken.texts = texts
    <3>1. PICK c : c = ""
      OBVIOUS
    <3>2. spoken = [fault |-> c, texts |-> texts]
      BY <2>2, <3>1
    <3>3. spoken.fault = c /\ spoken.texts = texts
      BY <3>2, FaultGiven, Zenon
    <3> QED
      BY <3>1, <3>3
  <2>4. \A i \in D : texts[i] = nodes[i].text
    BY <2>1, Zenon
  <2>5. \A i \in D : Unresolved(nodes[i].text) = {}
    BY <1>5, Zenon DEF assert_no_slot_references
  <2> QED
    BY <1>1, <1>2, <1>5, <2>3, <2>4, <2>5, Zenon
<1> QED
  BY <1>3, <1>4, <1>5, Zenon

\* `warble dispatch --slot` says what was asked for, and refuses what cannot be said.
LEMMA DispatchSpeaksForSlots ==
    ASSUME NEW a, SlotsAreLists(a), WordsHaveOnePlace(a)
    PROVE  SlotsAreSpokenFor(a, DispatchTexts(a))
<1>1. PICK ok, supply : ok = parse_slot_flags(a.flags).ok /\ supply = parse_slot_flags(a.flags).supply
  OBVIOUS
<1>2. PICK nodes, spoken, D : /\ nodes = resolve_ir_json(a.ir, supply) /\ spoken = DispatchTexts(a)
                           /\ D = DOMAIN a.ir.nodes
  OBVIOUS
<1>3. DOMAIN nodes = D /\ \A i \in D : nodes[i] = ResolvedNode(a.ir.slots, a.ir.nodes[i], supply)
  BY <1>2, Zenon DEF resolve_ir_json
<1>4. ASSUME NEW i \in D PROVE NodeTold(ScopeOf(a, i), supply, a.ir.nodes[i].text, nodes[i])
  <2>1. PICK node, profile_slots, decls : /\ node = a.ir.nodes[i] /\ profile_slots = a.ir.slots
                                          /\ decls = profile_slots \o node.slots
    OBVIOUS
  <2>2. decls = ScopeOf(a, i)
    BY <2>1, Zenon DEF ScopeOf
  <2>3. PICK S : profile_slots \o node.slots \in Seq(S)
    BY <1>2, <2>1, Zenon DEF SlotsAreLists, ScopeOf
  <2>4. PICK u : u = ResolvedNode(profile_slots, node, supply)
    OBVIOUS
  <2>5. NodeTold(decls, supply, node.text, u)
    BY ONLY <2>1, <2>3, <2>4, ResolvedNodeIs
  <2>6. nodes[i] = u
    BY <1>3, <2>1, <2>4, Zenon
  <2> QED
    BY <2>1, <2>2, <2>5, <2>6, Zenon
<1>5. CASE ok = FALSE
  BY <1>1, <1>5, SpokenForIs, Zenon
<1>6. CASE ok = TRUE
  <2>1. spoken = OutcomeOf(TRUE, nodes, NodeFaults(nodes))
    BY <1>1, <1>2, <1>6, DispatchTextsIs, Zenon
  <2>2. /\ spoken.fault = "" <=> \A i \in D : nodes[i].fault = "" /\ Unresolved(nodes[i].text) = {}
        /\ spoken.fault = "" => \A i \in D : spoken.texts[i] = nodes[i].text
    BY <1>3, <2>1, DispatchComesOut, Zenon
  <2>3. spoken.fault = "" <=> AllNodesSound(a, supply)
    BY <1>2, <1>4, <2>2, Zenon DEF NodeTold, AllNodesSound
  <2>4. ASSUME spoken.fault = "", NEW i \in D PROVE TextIsRight(a, supply, i, spoken.texts[i])
    <3>1. PICK decls, text, is : decls = ScopeOf(a, i) /\ text = a.ir.nodes[i].text /\ is = spoken.texts[i]
      OBVIOUS
    <3>2. NodeIsSound(decls, supply, text)
      BY <1>2, <2>3, <2>4, <3>1, Zenon DEF AllNodesSound
    <3>3. is = nodes[i].text /\ nodes[i].fault = "" /\ Unresolved(nodes[i].text) = {}
      BY <2>2, <2>4, <3>1, Zenon
    <3>4. TextIsTold(decls, supply, text, is)
      BY <1>4, <3>1, <3>3, Zenon DEF NodeTold
    <3>5. WordsAreOnce(decls, text)
      BY <1>2, <3>1, Zenon DEF WordsHaveOnePlace
    <3>6. PreviewHolds(decls, supply, is)
      BY <3>2, <3>4, <3>5, PreviewIsTrue, Zenon
    <3> QED
      BY <3>1, <3>4, <3>6, Zenon DEF TextIsRight
  <2>5. DispatchIsRight(a, supply, spoken)
    BY <1>2, <2>3, <2>4, Zenon DEF DispatchIsRight
  <2> QED
    BY <1>1, <1>2, <2>5, SpokenForIs, Zenon
<1>7. ok \in BOOLEAN
  BY <1>1, Zenon DEF parse_slot_flags
<1> QED
  BY <1>5, <1>6, <1>7

-------------------------------------------------------------------------------
(* The commands that answer.                                                 *)

\* A command was given what may be asked of it, and answers that.
AnswersStand ==
    /\ cmd = "sources" => asked \in SourcesAsked
    /\ cmd = "mcp-serve" => asked \in ServeAsked
    /\ cmd = "slots" => asked \in SlotsAsked
    /\ cmd = "link" => \E family \in LinkAsked : asked \in family
    /\ Gave("sources") => reply.is = run_compile(asked)
    /\ Gave("blast-radius") => reply.is = run_blast_radius(asked)
    /\ Gave("mcp-serve") => reply.is = run_mcp_serve(asked.lines, asked.steps)
    /\ Gave("slots") => reply.is = DispatchTexts(asked)
    /\ Gave("link") => reply.is = run_dispatch(asked)

LEMMA AnswersAreGiven == ToolSpec => []AnswersStand
<1>1. ToolInit => AnswersStand
  BY DEF ToolInit, Machines, AnswersStand, Gave, Unanswered
<1>2. AnswersStand /\ [ToolNext]_toolVars => AnswersStand'
  <2> SUFFICES ASSUME AnswersStand, [ToolNext]_toolVars PROVE AnswersStand'
    OBVIOUS
  <2>1. cmd' = cmd /\ asked' = asked
    BY DEF ToolNext, toolVars, commandVars, Run
  <2>2. reply' = reply \/ reply'.is = AnswerOf
    BY DEF ToolNext, toolVars, commandVars, Run, Replied
  <2>3. CASE reply' = reply
    BY <2>1, <2>3, Zenon DEF AnswersStand, Gave
  <2>4. CASE reply'.is = AnswerOf
    <3>1. /\ cmd = "sources" => AnswerOf = run_compile(asked)
          /\ cmd = "blast-radius" => AnswerOf = run_blast_radius(asked)
          /\ cmd = "mcp-serve" => AnswerOf = run_mcp_serve(asked.lines, asked.steps)
          /\ cmd = "slots" => AnswerOf = DispatchTexts(asked)
          /\ cmd = "link" => AnswerOf = run_dispatch(asked)
      BY DEF AnswerOf
    <3> QED
      BY <2>1, <2>4, <3>1, Zenon DEF AnswersStand, Gave
  <2> QED
    BY <2>2, <2>3, <2>4
<1> QED
  BY <1>1, <1>2, PTL DEF ToolSpec

\* `warble compile`: a project that can stay offline loses nothing by it, one that cannot
\* does not compile offline, an own component is never replaced by the Hub's, and an
\* overlay that is applied is a local patch.
THEOREM SourcesAreKept == ToolSpec => []SourcesAreHonoured
<1>1. AnswersStand => SourcesAreHonoured
  <2> SUFFICES ASSUME Gave("sources"), asked \in SourcesAsked, reply.is = run_compile(asked)
               PROVE  /\ HubOnlyWhenNeeded(asked, reply.is)
                      /\ asked.overlay # <<>> => OverlayIsALocalPatch(asked.authored, asked.overlay[1])
    BY Zenon DEF SourcesAreHonoured, AnswersStand, Gave
  <2>1. IsProject(asked)
    BY SourcesAssumption, Zenon DEF IsProject
  <2>2. HubOnlyWhenNeeded(asked, reply.is)
    BY <2>1, HubIsForTheNeedy, Zenon
  <2>3. asked.overlay # <<>> => OverlayIsALocalPatch(asked.authored, asked.overlay[1])
    BY <2>1, PatchesAreLocal, Zenon DEF IsProject
  <2> QED
    BY <2>2, <2>3
<1> QED
  BY <1>1, AnswersAreGiven, PTL

\* `warble blast-radius`, `warble mcp-serve`: what the gate lets through touches nothing
\* protected, and a client is answered once per request, in order, with what it asked for.
THEOREM ServicesAreTrue == ToolSpec => []ServicesAnswerTruly
<1>1. AnswersStand => ServicesAnswerTruly
  <2>1. GateIsNotBlind(asked, run_blast_radius(asked))
    BY GateSees, Zenon
  <2>2. asked \in ServeAsked => RepliesMatchRequests(asked, run_mcp_serve(asked.lines, asked.steps))
    BY RepliesAnswer, ServeAssumption, Zenon
  <2> QED
    BY <2>1, <2>2, Zenon DEF ServicesAnswerTruly, AnswersStand, Gave
<1> QED
  BY <1>1, AnswersAreGiven, PTL

\* `warble dispatch`: the text that is dispatched is the author's with every slot that it
\* leads to replaced by what was asked for, and is refused exactly if that cannot be; what a
\* target cannot provide is never left out in silence, nothing weaker stands for what was
\* required, and the order of the `--provider` fragments changes nothing.
THEOREM DispatchesAreKept == ToolSpec => []DispatchesKeepTheirWord
<1>1. AnswersStand => DispatchesKeepTheirWord
  <2>1. ASSUME Gave("slots"), asked \in SlotsAsked PROVE SlotsAreSpokenFor(asked, DispatchTexts(asked))
    <3>1. SlotsAreLists(asked)
      <4> SUFFICES ASSUME NEW i \in DOMAIN asked.ir.nodes PROVE \E S : ScopeOf(asked, i) \in Seq(S)
        BY Zenon DEF SlotsAreLists
      <4>1. PICK s, t, S, T : s = asked.ir.slots /\ t = asked.ir.nodes[i].slots /\ S = ToSet(s) /\ T = ToSet(t)
        OBVIOUS
      <4>2. s \in Seq(S) /\ t \in Seq(T)
        BY <2>1, <4>1, SlotsAssumption, Zenon
      <4>3. s \o t \in Seq(S \cup T)
        BY ONLY <4>2
      <4> QED
        BY <4>1, <4>3, Zenon DEF ScopeOf
    <3>2. WordsHaveOnePlace(asked)
      BY <2>1, SlotsAssumption, Zenon DEF WordsHaveOnePlace, ScopeOf
    <3> QED
      BY <3>1, <3>2, DispatchSpeaksForSlots, Zenon
  <2>2. ASSUME NEW family \in LinkAsked, asked \in family
        PROVE  NothingIsWeakened(asked, run_dispatch(asked)) /\ FragmentOrderIsImmaterial(asked, run_dispatch(asked))
    <3>1. PICK S, T : S = ToSet(asked.nodes) /\ T = ToSet(asked.providers)
      OBVIOUS
    <3>2. asked.nodes \in Seq(S) /\ asked.providers \in Seq(T)
      BY <2>2, <3>1, LinkAssumption, Zenon
    <3>3. Distinct(asked.nodes)
      BY <2>2, LinkAssumption, Zenon DEF Distinct
    <3> QED
      BY <3>2, <3>3, DispatchWeakensNothing, OrderIsImmaterial, Zenon
  <2> QED
    BY <2>1, <2>2, Zenon DEF DispatchesKeepTheirWord, AnswersStand, Gave
<1> QED
  BY <1>1, AnswersAreGiven, PTL
===============================================================================
