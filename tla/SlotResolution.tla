----------------------------- MODULE SlotResolution -----------------------------
(***************************************************************************)
(* claude-code-cli/src/slots.rs: the intermediate representation carries      *)
(* every variant of every slot and selects none; a dispatch is told by its     *)
(* `--slot` flags (parse_slot_flags in cli/src/main.rs) what the host says of  *)
(* them, and no reference may reach a model.  `warble author preview` tells    *)
(* the author what becomes of each text (cli/src/author_cli.rs).               *)
(*                                                                          *)
(* A text is a set of pieces, as in ProfileCompile; what a node says is one   *)
(* text, its brief and its prompts together.                                 *)
(***************************************************************************)
EXTENDS ProfileCompile

\* A slot of the IR; one with present_when has no wording unless the host answers.
IrSlot(name, variants, default, present_when) ==
    [name |-> name, variants |-> variants, default |-> default, present_when |-> present_when]

-------------------------------------------------------------------------------
\* NAME=VARIANT chooses, NAME= removes; a name is given once.
Flag(name, variant) == [name |-> name, variant |-> variant]
Removed == ""

parse_slot_flags(flags) ==
    [ok |-> \A i, j \in DOMAIN flags :
               flags[i].name # "" /\ (flags[i].name = flags[j].name => i = j),
     supply |-> [n \in Names(flags) |->
                    flags[CHOOSE i \in DOMAIN flags : flags[i].name = n].variant]]

Good(text) == [fault |-> "", text |-> text]
Bad(fault) == [fault |-> fault, text |-> {}]
Unresolved(text) == {p \in text : p.is = "slot" /\ is_slot_name(p.name)}

Decl(decls, name) == decls[CHOOSE i \in DOMAIN decls : decls[i].name = name]
\* Mutant: the default stands in for an answer.
FallsBack(decl, supply) == TRUE
Answered(decl, supply) == decl.name \in DOMAIN supply \/ ~decl.present_when
IsRemoved(name, supply) == name \in DOMAIN supply /\ supply[name] = Removed
Variant(decl, supply) == IF decl.name \in DOMAIN supply THEN supply[decl.name] ELSE decl.default

\* Every reference becomes what its slot came to, the text of a removed one nothing.
Substituted(text, outcome) ==
    LET faults == {outcome[p.name].fault : p \in Unresolved(text)} \ {""}
    IN  IF faults # {} THEN Bad(CHOOSE f \in faults : TRUE)
        ELSE Good((text \ Unresolved(text)) \cup UNION {outcome[p.name].text : p \in Unresolved(text)})

\* A variant may refer to other slots.  At <<name, inside>> a slot is resolved inside of
\* others, and `outcome` says what each comes to where this one leads.
resolve_one(decls, supply, at, outcome) ==
    LET name == at[1]
        decl == Decl(decls, name)
        text == decl.variants[Variant(decl, supply)]
    IN  IF name \notin Names(decls) THEN Bad("undeclared")
        ELSE IF name \in at[2] THEN Bad("cycle")
        ELSE IF IsRemoved(name, supply) THEN Good({})
        ELSE IF ~Answered(decl, supply) THEN Bad("unanswered")
        ELSE IF Variant(decl, supply) \notin DOMAIN decl.variants THEN Bad("no such variant")
        ELSE Substituted(text, [n \in {p.name : p \in Unresolved(text)} |->
                                   outcome[<<n, at[2] \cup {name}>>]])

Positions(decls) == (Names(decls) \cup {p.name : p \in UNION VariantTexts(decls)}) \X SUBSET Names(decls)
resolve_slots(decls, supply) ==
    LET outcome[at \in Positions(decls)] == resolve_one(decls, supply, at, outcome)
    IN  [n \in Names(decls) |-> outcome[<<n, {}>>]]

\* Only declared slots have an outcome; any other name in a text is a fault.
apply_slots(text, resolved) ==
    IF \E p \in Unresolved(text) : p.name \notin DOMAIN resolved THEN Bad("undeclared")
    ELSE Substituted(text, resolved)

\* Every slot in scope is resolved, whether a text refers to it or not; a node
\* without any in scope is passed on as it is.
ResolvedNode(profile_slots, node, supply) ==
    LET decls == profile_slots \o node.slots
        resolved == resolve_slots(decls, supply)
        faults == {resolved[n].fault : n \in DOMAIN resolved} \ {""}
    IN  IF decls = <<>> THEN Good(node.text)
        ELSE IF faults # {} THEN Bad(CHOOSE f \in faults : TRUE)
        ELSE apply_slots(node.text, resolved)

resolve_ir_json(ir, supply) ==
    [i \in DOMAIN ir.nodes |-> ResolvedNode(ir.slots, ir.nodes[i], supply)]

\* The guard that ends a dispatch whose texts never went through the above.
assert_no_slot_references(text) == Unresolved(text) = {}

\* What a dispatch of the IR hands on, text by text, or why it does not.
DispatchTexts(a) ==
    LET flags == parse_slot_flags(a.flags)
        nodes == resolve_ir_json(a.ir, flags.supply)
        faults == {nodes[i].fault : i \in DOMAIN nodes} \ {""}
    IN  IF ~flags.ok THEN [fault |-> "flags", texts |-> <<>>]
        ELSE IF faults # {} THEN [fault |-> CHOOSE f \in faults : TRUE, texts |-> <<>>]
        ELSE IF \E i \in DOMAIN nodes : ~assert_no_slot_references(nodes[i].text)
             THEN [fault |-> "unresolved", texts |-> <<>>]
        ELSE [fault |-> "", texts |-> [i \in DOMAIN nodes |-> nodes[i].text]]

\* The word of the preview on one variant of a slot.
preview_status(decl, variant, supply) ==
    IF IsRemoved(decl.name, supply) THEN "omitted"
    ELSE IF Variant(decl, supply) = variant THEN "selected" ELSE "unselected"

-------------------------------------------------------------------------------
\* What the slots of one scope are defined by, under one supply.
Refers(decls, supply, n) ==
    LET decl == Decl(decls, n)
    IN  IF IsRemoved(n, supply) \/ Variant(decl, supply) \notin DOMAIN decl.variants THEN {}
        ELSE {p.name : p \in Unresolved(decl.variants[Variant(decl, supply)])}
ClosedUnder(decls, supply, s) == \A n \in s \cap Names(decls) : Refers(decls, supply, n) \subseteq s
Behind(decls, supply, seed) ==
    LET all == seed \cup Names(decls) \cup UNION {Refers(decls, supply, n) : n \in Names(decls)}
        closed == {s \in SUBSET all : seed \subseteq s /\ ClosedUnder(decls, supply, s)}
    IN  {n \in all : \A s \in closed : n \in s}

SoundSlots(decls, supply) ==
    \A n \in Names(decls) :
        \/ IsRemoved(n, supply)
        \/ /\ n \in DOMAIN supply \/ ~Decl(decls, n).present_when
           /\ Variant(Decl(decls, n), supply) \in DOMAIN Decl(decls, n).variants
           /\ Refers(decls, supply, n) \subseteq Names(decls)
           /\ n \notin Behind(decls, supply, Refers(decls, supply, n))

SaidBy(decl, k) == decl.variants[k] \ Unresolved(decl.variants[k])
Wording(decls, supply, n) ==
    IF IsRemoved(n, supply) THEN {}
    ELSE SaidBy(Decl(decls, n), Variant(Decl(decls, n), supply))

\* No two variants of the slots in scope share a word, nor one with the node's own text.
WordsAreOnce(decls, text) ==
    \A n \in Names(decls) : \A k \in DOMAIN Decl(decls, n).variants :
        /\ text \cap SaidBy(Decl(decls, n), k) = {}
        /\ \A m \in Names(decls) : \A l \in DOMAIN Decl(decls, m).variants :
              SaidBy(Decl(decls, n), k) \cap SaidBy(Decl(decls, m), l) # {} => m = n /\ l = k

\* A dispatch goes ahead exactly if every slot in scope, used or not, is answered
\* for by a variant it has and none is defined by itself; then a model is told the
\* words that the chosen variants lead to and no others, nothing of a slot that was
\* removed, and never a reference.  The preview calls a text unselected or omitted
\* only if none of its words are in what is dispatched.
SlotsAreSpokenFor(a, out) ==
    LET flags == parse_slot_flags(a.flags)
        Scope(i) == a.ir.slots \o a.ir.nodes[i].slots
        Mentioned(i) == {p.name : p \in Unresolved(a.ir.nodes[i].text)}
    IN  flags.ok =>
        /\ out.fault = "" <=>
              \A i \in DOMAIN a.ir.nodes :
                  SoundSlots(Scope(i), flags.supply) /\ Mentioned(i) \subseteq Names(Scope(i))
        /\ out.fault = "" =>
              \A i \in DOMAIN a.ir.nodes :
                  /\ out.texts[i] =
                        (a.ir.nodes[i].text \ Unresolved(a.ir.nodes[i].text))
                        \cup UNION {Wording(Scope(i), flags.supply, n) :
                                       n \in Behind(Scope(i), flags.supply, Mentioned(i))}
                  /\ \A n \in Names(Scope(i)) :
                        LET decl == Decl(Scope(i), n)
                        IN  \A k \in DOMAIN decl.variants :
                               preview_status(decl, k, flags.supply) # "selected" =>
                                   out.texts[i] \cap SaidBy(decl, k) = {}
===============================================================================
