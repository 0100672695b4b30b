------------------------------ MODULE HostServices ------------------------------
(***************************************************************************)
(* What a running agent calls back: `warble blast-radius`, the gate before a   *)
(* change is applied (cli/src/gate.rs, cli/src/lib.rs), and `warble mcp-serve`, *)
(* the server of the steps that run on a local model (cli/src/mcp_serve.rs).   *)
(***************************************************************************)
EXTENDS SemanticContext, FiniteSets, Selections

-------------------------------------------------------------------------------
(* The gate.  A layer that analysed nothing cannot be gated; a node its          *)
(* analysis does not mention has nothing downstream.                            *)

HostImpact(downstream, rank) == [downstream |-> downstream, rank |-> rank]
NoImpact == HostImpact({}, 0)

blast_radius_for_project(bound, layer, node) ==
    [ok |-> bound /\ layer.parseable /\ layer.analysis.given,
     impact |-> IF node \in DOMAIN layer.analysis.impact THEN layer.analysis.impact[node] ELSE NoImpact]

\* GateThreshold: Unlimited where no ceiling is set.
Unlimited == 99
Exceeds(n, ceiling) == ceiling # Unlimited /\ n > ceiling

\* Mutant: what is downstream is held against the protected set, the seed is not.
SeedUnchecked(seed, impact, t) ==
    CASE impact.downstream = {} -> "allow"
      [] impact.downstream \cap t.protected # {} -> "block"
      [] Exceeds(impact.rank, t.max_severity_rank) -> "escalate"
      [] Exceeds(Cardinality(impact.downstream), t.max_downstream) -> "escalate"
      [] OTHER -> "allow"

decide(seed, impact, t) ==
    IF impact.downstream = {} THEN "allow"
    ELSE IF ({seed} \cup impact.downstream) \cap t.protected # {} THEN "block"
    ELSE IF Exceeds(impact.rank, t.max_severity_rank) THEN "escalate"
    ELSE IF Exceeds(Cardinality(impact.downstream), t.max_downstream) THEN "escalate"
    ELSE "allow"

\* The exit code is what the host acts on.
run_blast_radius(a) ==
    LET found == blast_radius_for_project(a.bound, a.layer, a.node)
    IN  IF ~found.ok THEN "error" ELSE decide(a.node, found.impact, a.threshold)

-------------------------------------------------------------------------------
(* The server: one line at a time.  "none" is the id of a message without one.   *)

Message(method, id, tool, step, input) ==
    [method |-> method, id |-> id, tool |-> tool, step |-> step, input |-> input]
TOOL_NAME == "local_infer"

\* What the model of a step makes of an input, or that it could not be reached.
Infer(steps, m) ==
    IF m.step \notin DOMAIN steps THEN [is_error |-> TRUE, text |-> <<"unknown step", m.step>>]
    ELSE IF steps[m.step] = "down" THEN [is_error |-> TRUE, text |-> <<"failed", m.step>>]
    ELSE [is_error |-> FALSE, text |-> <<m.step, m.input>>]

Reply(id, body) == <<[id |-> id, body |-> body]>>
Plain(what) == [is_error |-> FALSE, text |-> <<what, "">>]
JsonRpcError == [is_error |-> TRUE, text |-> <<"error", "">>]

handle_request(m, steps) ==
    CASE m.method \in {"initialize", "ping", "tools/list"} -> Reply(m.id, Plain(m.method))
      [] m.method \in {"notifications/initialized", "initialized"} -> <<>>
      [] m.method = "tools/call" ->
             Reply(m.id, IF m.tool # TOOL_NAME THEN JsonRpcError ELSE Infer(steps, m))
      [] OTHER -> IF m.id # "none" THEN Reply(m.id, JsonRpcError) ELSE <<>>

\* A line that is no JSON is skipped.
run_mcp_serve(lines, steps) ==
    LET heard == Picked(lines, {i \in DOMAIN lines : lines[i].method # "noise"})
    IN  FlattenSeq([i \in DOMAIN heard |-> handle_request(heard[i], steps)])

-------------------------------------------------------------------------------
\* A change that the gate lets through is one that the layer's owner looked at, and
\* it touches nothing or nothing protected, no worse and no more than was allowed;
\* and one that touches something protected beside its own is never merely escalated.
GateIsNotBlind(a, exits) ==
    LET impact == blast_radius_for_project(a.bound, a.layer, a.node).impact
    IN  /\ exits = "allow" =>
              /\ a.layer.analysis.given
              /\ \/ impact.downstream = {}
                 \/ /\ a.threshold.protected \cap ({a.node} \cup impact.downstream) = {}
                    /\ ~Exceeds(impact.rank, a.threshold.max_severity_rank)
                    /\ ~Exceeds(Cardinality(impact.downstream), a.threshold.max_downstream)
        /\ impact.downstream \cap a.threshold.protected # {} => exits \in {"block", "error"}

\* A client that gives an id to every request and to no notification is answered
\* once per request, in the order in which it asked, whatever noise is between; a
\* step that is not known or whose model is gone is an answer, not the end; and the
\* text is that of the step and the input that were asked for.
WellBehaved(lines) ==
    \A i \in DOMAIN lines :
        lines[i].id = "none" <=> lines[i].method \in {"notifications/initialized", "initialized", "noise"}
RepliesMatchRequests(a, replies) ==
    WellBehaved(a.lines) =>
        LET requests == Picked(a.lines, {i \in DOMAIN a.lines : a.lines[i].id # "none"})
        IN  /\ Len(replies) = Len(requests)
            /\ \A i \in DOMAIN requests :
                  /\ replies[i].id = requests[i].id
                  /\ ~replies[i].body.is_error /\ requests[i].method = "tools/call" =>
                        replies[i].body.text = <<requests[i].step, requests[i].input>>
===============================================================================
