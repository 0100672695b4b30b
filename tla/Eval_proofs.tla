------------------------------- MODULE Eval_proofs -------------------------------
(***************************************************************************)
(* What the subcommands of `warble eval` that are machines keep, for any     *)
(* values of the constants.                                                  *)
(***************************************************************************)
EXTENDS EvalCli, Selections_proofs

-------------------------------------------------------------------------------
(* eval compliance: what the checks remember, and what a trace is.             *)

Unanswered(call, i) == \A r \in Between(call, i) : ~IsResult(events[r])
Places == 1 .. Len(events)
Here == Len(events) + 1

\* The last call of the gate has been answered with what the gate's state says.
GateIsRemembered ==
    LET g == GateBefore(Here)
    IN  IF g = 0 THEN gate = "not_called"
        ELSE \/ gate = "awaiting_result" /\ Unanswered(g, Here)
             \/ \E r \in Between(g, Here) : ResultOf(g, r) /\ gate = from_result(events[r])

AttestationIsRemembered ==
    LET a == AttestationBefore(Here)
    IN  IF a = 0 THEN attestation = "not_attested"
        ELSE \/ attestation = "awaiting_result" /\ Unanswered(a, Here)
             \/ \E r \in Between(a, Here) :
                   /\ ResultOf(a, r)
                   /\ attestation = IF ~events[r].ok THEN "failed"
                                    ELSE IF \E k \in Between(r, Here) : IsApplyWrite(events[k])
                                         THEN "stale" ELSE "attested"

\* Every check has found the places that it is to object to.
OffendersAreFound ==
    /\ offenders["read_only_execution"] = {i \in Places : OffendsReadOnly(events[i])}
    /\ offenders["must_dry_run"] =
           {i \in Places : IsApplyWrite(events[i]) /\ ~\E k \in 1..i : is_blast_radius_call(events[k])}
    /\ offenders["human_approval"] =
           {i \in Places : IsApplyWrite(events[i]) /\ ~\E k \in 1..(i - 1) : IsGrant(events[k])}
    /\ offenders["blast_radius_limit"] = {i \in Places : IsApplyWrite(events[i]) /\ ~GateAllows(i)}
    /\ offenders["write_authz"] = {i \in Places : OffendsWriteAuthz(events[i])}
    /\ offenders["attestation_gate"] =
           {i \in Places : /\ ~Attests(events[i])
                           /\ names_terminal_action(events[i], component.terminalAction)
                           /\ ~Attested(i)}

ComplianceInv ==
    /\ events \in Seq(TraceEvents)
    /\ dryRunSeen <=> \E k \in Places : is_blast_radius_call(events[k])
    /\ approved <=> \E k \in Places : IsGrant(events[k])
    /\ approvedSinceGate <=> \E k \in Places : k > GateBefore(Here) /\ IsGrant(events[k])
    /\ GateIsRemembered /\ AttestationIsRemembered
    /\ offenders \in [Checks -> SUBSET Nat]
    /\ OffendersAreFound

LEMMA LastGate ==
    ASSUME events \in Seq(TraceEvents), NEW i \in 1..Here
    PROVE  IF \E k \in 1..(i - 1) : is_blast_radius_call(events[k])
           THEN /\ GateBefore(i) \in 1..(i - 1) /\ is_blast_radius_call(events[GateBefore(i)])
                /\ \A k \in 1..(i - 1) : k > GateBefore(i) => ~is_blast_radius_call(events[k])
           ELSE GateBefore(i) = 0
<1> DEFINE S == {k \in DOMAIN events : k < i /\ is_blast_radius_call(events[k])}
<1>1. DOMAIN events = 1..Len(events) /\ Len(events) \in Nat
  BY LenProperties
<1>2. S = {k \in 1..(i - 1) : is_blast_radius_call(events[k])}
  BY <1>1 DEF Here
<1>3. S # {} => \E m \in S : \A k \in S : k <= m
  BY <1>1, GreatestNatural
<1>4. GateBefore(i) = IF S = {} THEN 0 ELSE CHOOSE m \in S : \A k \in S : k <= m
  BY DEF GateBefore, LastOf
<1>5. CASE S = {}
  BY <1>2, <1>4, <1>5
<1>6. CASE S # {}
  <2>1. GateBefore(i) \in S /\ \A k \in S : k <= GateBefore(i)
    BY <1>3, <1>4, <1>6
  <2> HIDE DEF S
  <2>2. QED
    BY <1>2, <2>1
<1>7. QED
  BY <1>5, <1>6

LEMMA LastAttestation ==
    ASSUME events \in Seq(TraceEvents), NEW i \in 1..Here
    PROVE  IF \E k \in 1..(i - 1) : Attests(events[k])
           THEN /\ AttestationBefore(i) \in 1..(i - 1) /\ Attests(events[AttestationBefore(i)])
                /\ \A k \in 1..(i - 1) : k > AttestationBefore(i) => ~Attests(events[k])
           ELSE AttestationBefore(i) = 0
<1> DEFINE S == {k \in DOMAIN events : k < i /\ Attests(events[k])}
<1>1. DOMAIN events = 1..Len(events) /\ Len(events) \in Nat
  BY LenProperties
<1>2. S = {k \in 1..(i - 1) : Attests(events[k])}
  BY <1>1 DEF Here
<1>3. S # {} => \E m \in S : \A k \in S : k <= m
  BY <1>1, GreatestNatural
<1>4. AttestationBefore(i) = IF S = {} THEN 0 ELSE CHOOSE m \in S : \A k \in S : k <= m
  BY DEF AttestationBefore, LastOf
<1>5. CASE S = {}
  BY <1>2, <1>4, <1>5
<1>6. CASE S # {}
  <2>1. AttestationBefore(i) \in S /\ \A k \in S : k <= AttestationBefore(i)
    BY <1>3, <1>4, <1>6
  <2> HIDE DEF S
  <2>2. QED
    BY <1>2, <2>1
<1>7. QED
  BY <1>5, <1>6

\* The trace grows by an event, the component it is scored against stays.
Grows(e) ==
    /\ events \in Seq(TraceEvents) /\ e \in TraceEvents
    /\ events' = Append(events, e) /\ UNCHANGED component

LEMMA GrownTrace ==
    ASSUME NEW e, Grows(e)
    PROVE  /\ Here \in Nat /\ Here >= 1 /\ Here' = Here + 1
           /\ DOMAIN events = 1..(Here - 1) /\ Places = 1..(Here - 1)
           /\ DOMAIN events' = 1..Here /\ Places' = 1..Here
           /\ \A k \in 1..(Here - 1) : events'[k] = events[k]
           /\ events'[Here] = e
           /\ events' \in Seq(TraceEvents)
<1>1. Len(events) \in Nat /\ DOMAIN events = 1..Len(events)
  BY LenProperties DEF Grows
<1>2. /\ Len(events') = Len(events) + 1 /\ events' \in Seq(TraceEvents)
      /\ events'[Len(events) + 1] = e
      /\ \A k \in 1..Len(events) : events'[k] = events[k]
  BY AppendProperties DEF Grows
<1>3. DOMAIN events' = 1..Len(events')
  BY <1>2, LenProperties
<1>4. QED
  BY <1>1, <1>2, <1>3 DEF Here, Places

\* What stands before a place does not change when the trace grows.
LEMMA StandsStill ==
    ASSUME NEW e, Grows(e), NEW i \in 1..Here
    PROVE  /\ GateBefore(i)' = GateBefore(i)
           /\ AttestationBefore(i)' = AttestationBefore(i)
           /\ \A h : Between(h, i)' = Between(h, i)
           /\ \A h : \A r \in Between(h, i) :
                 r \in 1..(Here - 1) /\ r < i /\ events'[r] = events[r]
<1>1. /\ DOMAIN events = 1..(Here - 1) /\ DOMAIN events' = 1..Here /\ Here \in Nat
      /\ \A k \in 1..(Here - 1) : events'[k] = events[k]
  BY GrownTrace
<1>2. ASSUME NEW k PROVE k \in DOMAIN events' /\ k < i <=> k \in DOMAIN events /\ k < i
  BY <1>1
<1>3. ASSUME NEW k \in DOMAIN events PROVE events'[k] = events[k]
  BY <1>1
<1>4. {k \in DOMAIN events' : k < i /\ is_blast_radius_call(events'[k])}
         = {k \in DOMAIN events : k < i /\ is_blast_radius_call(events[k])}
  BY <1>2, <1>3
<1>5. {k \in DOMAIN events' : k < i /\ names_attestation(events'[k], component'.attestedStep)}
         = {k \in DOMAIN events : k < i /\ names_attestation(events[k], component.attestedStep)}
  BY <1>2, <1>3 DEF Grows
<1>6. GateBefore(i)' = GateBefore(i)
  BY <1>4 DEF GateBefore
<1>7. AttestationBefore(i)' = AttestationBefore(i)
  BY <1>5 DEF AttestationBefore, Attests
<1>8. ASSUME NEW h
      PROVE  /\ Between(h, i)' = Between(h, i)
             /\ \A r \in Between(h, i) : r \in 1..(Here - 1) /\ r < i /\ events'[r] = events[r]
  BY <1>1, <1>2, <1>3 DEF Between
<1>9. QED
  BY <1>6, <1>7, <1>8

\* GateAllows for what is not itself a call of the gate.
GateOpen(i) ==
    \/ GateBefore(i) = 0
    \/ \E r \in Between(GateBefore(i), i) :
          /\ ResultOf(GateBefore(i), r)
          /\ \/ from_result(events[r]) = "allow"
             \/ /\ from_result(events[r]) = "escalate"
                /\ \E k \in Between(GateBefore(i), i) : IsGrant(events[k])

\* Two results of one call are one.
LEMMA OneResult ==
    ASSUME events \in Seq(TraceEvents), NEW g \in Nat, NEW i \in Nat,
           NEW r \in Between(g, i), NEW q \in Between(g, i), ResultOf(g, r), ResultOf(g, q)
    PROVE  r = q
<1>1. r \in Nat /\ q \in Nat /\ r \in DOMAIN events /\ q \in DOMAIN events /\ g < r /\ g < q
  BY LenProperties DEF Between
<1>2. ~(r < q) /\ ~(q < r)
  BY <1>1 DEF ResultOf, Between
<1>3. QED
  BY <1>1, <1>2

LEMMA GateDecides ==
    ASSUME ComplianceInv
    PROVE  GateOpen(Here) <=> \/ gate \in {"not_called", "allow"}
                              \/ gate = "escalate" /\ approvedSinceGate
<1> DEFINE g == GateBefore(Here)
<1>1. events \in Seq(TraceEvents) /\ Here \in Nat /\ Here >= 1
  BY LenProperties DEF ComplianceInv, Here
<1>2. g \in Nat /\ g < Here
  BY <1>1, LastGate
<1>3. approvedSinceGate <=> \E k \in Between(g, Here) : IsGrant(events[k])
  BY <1>1, <1>2, LenProperties DEF ComplianceInv, Between, Places, Here
<1>4. \A r : from_result(events[r]) \in {"block", "escalate", "allow", "unverifiable"}
  BY DEF from_result
<1>5. CASE g = 0
  BY <1>5 DEF GateOpen, ComplianceInv, GateIsRemembered
<1>6. CASE g # 0 /\ gate = "awaiting_result" /\ Unanswered(g, Here)
  BY <1>6 DEF GateOpen, Unanswered, ResultOf
<1>7. ASSUME g # 0, NEW r \in Between(g, Here), ResultOf(g, r), gate = from_result(events[r])
      PROVE  GateOpen(Here) <=> \/ gate \in {"not_called", "allow"}
                                \/ gate = "escalate" /\ approvedSinceGate
  <2>1. \A q \in Between(g, Here) : ResultOf(g, q) => q = r
    BY <1>1, <1>2, <1>7, OneResult
  <2>2. QED
    BY <1>3, <1>4, <1>7, <2>1 DEF GateOpen
<1>8. QED
  BY <1>5, <1>6, <1>7 DEF ComplianceInv, GateIsRemembered

LEMMA AttestationDecides ==
    ASSUME ComplianceInv
    PROVE  Attested(Here) <=> attestation = "attested"
<1> DEFINE a == AttestationBefore(Here)
<1>1. events \in Seq(TraceEvents) /\ Here \in Nat /\ Here >= 1
  BY LenProperties DEF ComplianceInv, Here
<1>2. a \in Nat /\ a < Here
  BY <1>1, LastAttestation
<1>3. CASE a = 0
  BY <1>3 DEF Attested, ComplianceInv, AttestationIsRemembered
<1>4. CASE a # 0 /\ attestation = "awaiting_result" /\ Unanswered(a, Here)
  BY <1>4 DEF Attested, Unanswered, ResultOf
<1>5. ASSUME a # 0, NEW r \in Between(a, Here), ResultOf(a, r),
             attestation = IF ~events[r].ok THEN "failed"
                           ELSE IF \E k \in Between(r, Here) : IsApplyWrite(events[k])
                                THEN "stale" ELSE "attested"
      PROVE  Attested(Here) <=> attestation = "attested"
  <2>1. \A q \in Between(a, Here) : ResultOf(a, q) => q = r
    BY <1>1, <1>2, <1>5, OneResult
  <2>2. QED
    BY <1>5, <2>1 DEF Attested
<1>6. QED
  BY <1>3, <1>4, <1>5 DEF ComplianceInv, AttestationIsRemembered

\* What cleared a place, or attested it, does so for good.
LEMMA JudgedForGood ==
    ASSUME NEW e, Grows(e), NEW i \in 1..Here
    PROVE  /\ GateOpen(i)' <=> GateOpen(i)
           /\ Attested(i)' <=> Attested(i)
<1> DEFINE g == GateBefore(i)
           a == AttestationBefore(i)
<1>1. g' = g /\ a' = a
  BY StandsStill
<1>2. i \in Nat /\ Here \in Nat
  BY GrownTrace
<1>3. ASSUME NEW h, NEW r \in Between(h, i)
      PROVE  /\ events'[r] = events[r] /\ Between(h, r)' = Between(h, r)
             /\ r \in 1..Here
  BY <1>2, StandsStill
<1>4. ASSUME NEW h PROVE Between(h, i)' = Between(h, i)
  BY StandsStill
<1>5. ASSUME NEW h, NEW r \in Between(h, i) PROVE ResultOf(h, r)' <=> ResultOf(h, r)
  <2>1. \A k \in Between(h, r) : events'[k] = events[k]
    BY <1>3, StandsStill
  <2>2. QED
    BY <1>3, <2>1 DEF ResultOf
<1>6. GateOpen(i)' <=> GateOpen(i)
  <2>1. \A k \in Between(g, i) : events'[k] = events[k]
    BY <1>3
  <2>2. \A r \in Between(g, i) : ResultOf(g, r)' <=> ResultOf(g, r)
    BY <1>1, <1>5
  <2>3. Between(g, i)' = Between(g, i)
    BY <1>1, <1>4
  <2>4. QED
    BY <1>1, <2>1, <2>2, <2>3 DEF GateOpen
<1>7. Attested(i)' <=> Attested(i)
  <2>1. \A k \in Between(a, i) : events'[k] = events[k]
    BY <1>3
  <2>2. \A r \in Between(a, i) : ResultOf(a, r)' <=> ResultOf(a, r)
    BY <1>1, <1>5
  <2>3. Between(a, i)' = Between(a, i)
    BY <1>1, <1>4
  <2>4. \A r : Between(r, i)' = Between(r, i) /\ \A k \in Between(r, i) : events'[k] = events[k]
    BY <1>3, <1>4
  <2>5. QED
    BY <1>1, <2>1, <2>2, <2>3, <2>4 DEF Attested
<1>8. QED
  BY <1>6, <1>7

-------------------------------------------------------------------------------
(* What one event does to what the checks remember.                           *)

LEMMA LastOfGrown ==
    ASSUME NEW n \in Nat, NEW S \in SUBSET (1..(n - 1)), NEW T, T = S \cup {n}
    PROVE  LastOf(T) = n
<1>1. n \in T /\ \A k \in T : k \in Nat /\ k <= n
  OBVIOUS
<1>2. \E m \in T : \A k \in T : k <= m
  BY <1>1
<1>3. LastOf(T) \in T /\ \A k \in T : k <= LastOf(T)
  <2>1. LastOf(T) = CHOOSE m \in T : \A k \in T : k <= m
    BY <1>1 DEF LastOf
  <2>2. QED
    BY <1>2, <2>1
<1>4. /\ LastOf(T) \in Nat /\ LastOf(T) <= n
      /\ n <= LastOf(T)
  BY <1>1, <1>3
<1>5. QED
  BY <1>4

\* The last call before the end of the trace, when an event has come.
LEMMA LastMoves ==
    ASSUME NEW e, Grows(e)
    PROVE  /\ (GateBefore(Here))' = IF is_blast_radius_call(e) THEN Here ELSE GateBefore(Here)
           /\ (AttestationBefore(Here))' = IF Attests(e) THEN Here ELSE AttestationBefore(Here)
<1> DEFINE G == {k \in DOMAIN events : k < Here /\ is_blast_radius_call(events[k])}
           A == {k \in DOMAIN events : k < Here /\ names_attestation(events[k], component.attestedStep)}
<1>1. /\ DOMAIN events = 1..(Here - 1) /\ DOMAIN events' = 1..Here
      /\ Here \in Nat /\ Here >= 1 /\ Here' = Here + 1
      /\ \A k \in 1..(Here - 1) : events'[k] = events[k]
      /\ events'[Here] = e /\ component' = component
  BY GrownTrace DEF Grows
<1>2. G \in SUBSET (1..(Here - 1)) /\ A \in SUBSET (1..(Here - 1))
  BY <1>1
<1>new. \A k : (k \in DOMAIN events' /\ k < Here') <=> (k \in DOMAIN events /\ k < Here) \/ k = Here
  <2>1. DOMAIN events' = DOMAIN events \cup {Here}
    BY <1>1
  <2>2. \A k \in 1..Here : k < Here'
    BY <1>1
  <2>3. \A k \in 1..(Here - 1) : k < Here
    BY <1>1
  <2>4. QED
    BY <1>1, <2>1, <2>2, <2>3
<1>old. \A k \in DOMAIN events : events'[k] = events[k] /\ k # Here
  BY <1>1
<1>3. G' = G \cup (IF is_blast_radius_call(e) THEN {Here} ELSE {})
  <2>1. G' = {k \in DOMAIN events' : k < Here' /\ is_blast_radius_call(events'[k])}
    OBVIOUS
  <2>2. QED
    BY <1>1, <1>new, <1>old, <2>1
<1>4. A' = A \cup (IF names_attestation(e, component.attestedStep) THEN {Here} ELSE {})
  <2>1. A' = {k \in DOMAIN events' : k < Here' /\ names_attestation(events'[k], component'.attestedStep)}
    OBVIOUS
  <2>2. QED
    BY <1>1, <1>new, <1>old, <2>1
<1>5. GateBefore(Here) = LastOf(G) /\ (GateBefore(Here))' = LastOf(G')
  BY DEF GateBefore
<1>6. AttestationBefore(Here) = LastOf(A) /\ (AttestationBefore(Here))' = LastOf(A')
  BY DEF AttestationBefore, Attests
<1> HIDE DEF G, A
<1>7. is_blast_radius_call(e) => LastOf(G') = Here
  BY <1>1, <1>2, <1>3, LastOfGrown
<1>8. ~is_blast_radius_call(e) => G' = G
  BY <1>3
<1>9. names_attestation(e, component.attestedStep) => LastOf(A') = Here
  BY <1>1, <1>2, <1>4, LastOfGrown
<1>10. ~names_attestation(e, component.attestedStep) => A' = A
  BY <1>4
<1>11. QED
  BY <1>5, <1>6, <1>7, <1>8, <1>9, <1>10 DEF Attests

\* The places behind a call, when an event has come.
LEMMA BetweenGrows ==
    ASSUME NEW e, Grows(e), NEW h \in 0..(Here - 1)
    PROVE  /\ (Between(h, Here))' = Between(h, Here) \cup {Here}
           /\ \A r \in Between(h, Here) :
                 /\ r \in 1..(Here - 1) /\ events'[r] = events[r]
                 /\ ResultOf(h, r)' <=> ResultOf(h, r)
                 /\ (Between(r, Here))' = Between(r, Here) \cup {Here}
           /\ \A c : c = Here => (Between(c, Here))' = {}
<1>1. /\ DOMAIN events = 1..(Here - 1) /\ DOMAIN events' = 1..Here
      /\ Here \in Nat /\ Here >= 1 /\ Here' = Here + 1
      /\ \A k \in 1..(Here - 1) : events'[k] = events[k]
  BY GrownTrace
<1>2. ASSUME NEW c \in 0..(Here - 1)
      PROVE  (Between(c, Here))' = Between(c, Here) \cup {Here}
  BY <1>1 DEF Between
<1>3. ASSUME NEW r \in Between(h, Here)
      PROVE  r \in 1..(Here - 1) /\ events'[r] = events[r]
  BY <1>1 DEF Between
<1>4. ASSUME NEW r \in Between(h, Here)
      PROVE  ResultOf(h, r)' <=> ResultOf(h, r)
  <2>1. r \in 1..Here /\ events'[r] = events[r]
    BY <1>1, <1>3
  <2>2. Between(h, r)' = Between(h, r) /\ \A k \in Between(h, r) : events'[k] = events[k]
    BY <2>1, StandsStill
  <2>3. QED
    BY <2>1, <2>2 DEF ResultOf
<1>5. \A c : c = Here => (Between(c, Here))' = {}
  BY <1>1 DEF Between
<1>6. QED
  BY <1>2, <1>3, <1>4, <1>5

LEMMA ObservedGrows ==
    ASSUME ComplianceInv, NEW e \in TraceEvents, Observe(e)
    PROVE  Grows(e)
BY DEF ComplianceInv, Observe, Grows

LEMMA ObserveRemembersTheGate ==
    ASSUME ComplianceInv, NEW e \in TraceEvents, Observe(e)
    PROVE  GateIsRemembered'
<1> DEFINE g == GateBefore(Here)
<1>1. Grows(e)
  BY ObservedGrows
<1>2. /\ gate' = GateAfter(e) /\ GateIsRemembered /\ events \in Seq(TraceEvents)
      /\ Here \in Nat /\ Here >= 1 /\ Here' = Here + 1 /\ events'[Here] = e
  BY <1>1, GrownTrace DEF ComplianceInv, Observe
<1>3. g \in 0..(Here - 1)
  BY <1>2, LastGate
<1>4. /\ (Between(g, Here))' = IF is_blast_radius_call(e) THEN {} ELSE Between(g, Here) \cup {Here}
      /\ \A r \in Between(g, Here) : /\ events'[r] = events[r] /\ r \in 1..(Here - 1)
                                     /\ ~is_blast_radius_call(e) => (ResultOf(g, r)' <=> ResultOf(g, r))
      /\ g' = IF is_blast_radius_call(e) THEN Here ELSE g
  <2>1. g' = IF is_blast_radius_call(e) THEN Here ELSE g
    BY <1>1, LastMoves
  <2>2. /\ \A h \in 0..(Here - 1) : (Between(h, Here))' = Between(h, Here) \cup {Here}
        /\ \A r \in Between(g, Here) : /\ events'[r] = events[r] /\ r \in 1..(Here - 1)
        /\ \A c : c = Here => (Between(c, Here))' = {}
    BY <1>1, <1>3, BetweenGrows
  <2>3. \A h \in 0..(Here - 1) : \A r \in Between(h, Here) : ResultOf(h, r)' <=> ResultOf(h, r)
    BY <1>1, BetweenGrows
  <2>4. QED
    BY <1>3, <2>1, <2>2, <2>3
<1>5. CASE is_blast_radius_call(e)
  BY <1>2, <1>4, <1>5 DEF GateIsRemembered, GateAfter, Unanswered
<1>6. CASE ~is_blast_radius_call(e) /\ g = 0
  BY <1>2, <1>4, <1>6 DEF GateIsRemembered, GateAfter
<1>7. CASE ~is_blast_radius_call(e) /\ g # 0 /\ gate = "awaiting_result" /\ Unanswered(g, Here)
  <2>1. CASE IsResult(e)
    <3>1. \A h : h = Here => ResultOf(g, h)'
      <4>1. g' = g /\ g < Here /\ events'[Here] = e
        BY <1>2, <1>3, <1>4, <1>7
      <4>2. \A h : h = Here => Between(g, h)' = Between(g, Here)
        BY <1>1, <1>2, <4>1, StandsStill
      <4>3. \A k \in Between(g, Here) : events'[k] = events[k] /\ ~IsResult(events[k])
        BY <1>4, <1>7 DEF Unanswered
      <4>4. QED
        BY <2>1, <4>1, <4>2, <4>3 DEF ResultOf
    <3>2. QED
      BY <1>2, <1>4, <1>7, <2>1, <3>1 DEF GateIsRemembered, GateAfter
  <2>2. CASE ~IsResult(e)
    BY <1>2, <1>4, <1>7, <2>2 DEF GateIsRemembered, GateAfter, Unanswered
  <2>3. QED
    BY <2>1, <2>2
<1>8. ASSUME ~is_blast_radius_call(e), g # 0,
             NEW r \in Between(g, Here), ResultOf(g, r), gate = from_result(events[r])
      PROVE  GateIsRemembered'
  <2>1. gate' = gate
    BY <1>2, <1>8 DEF GateAfter, from_result
  <2>2. QED
    BY <1>2, <1>4, <1>8, <2>1 DEF GateIsRemembered
<1>9. QED
  BY <1>2, <1>5, <1>6, <1>7, <1>8 DEF GateIsRemembered

LEMMA ObserveRemembersTheAttestation ==
    ASSUME ComplianceInv, NEW e \in TraceEvents, Observe(e)
    PROVE  AttestationIsRemembered'
<1> DEFINE a == AttestationBefore(Here)
<1>1. Grows(e)
  BY ObservedGrows
<1>2. /\ attestation' = AttestationAfter(e) /\ AttestationIsRemembered /\ events \in Seq(TraceEvents)
      /\ Here \in Nat /\ Here >= 1 /\ Here' = Here + 1 /\ events'[Here] = e
  BY <1>1, GrownTrace DEF ComplianceInv, Observe
<1>3. a \in 0..(Here - 1)
  BY <1>2, LastAttestation
<1>4. /\ (Between(a, Here))' = IF Attests(e) THEN {} ELSE Between(a, Here) \cup {Here}
      /\ \A r \in Between(a, Here) : /\ events'[r] = events[r] /\ r \in 1..(Here - 1)
                                     /\ ~Attests(e) => (ResultOf(a, r)' <=> ResultOf(a, r))
                                     /\ (Between(r, Here))' = Between(r, Here) \cup {Here}
                                     /\ \A k \in Between(r, Here) : events'[k] = events[k]
      /\ a' = IF Attests(e) THEN Here ELSE a
  <2>1. a' = IF Attests(e) THEN Here ELSE a
    BY <1>1, LastMoves
  <2>2. /\ \A h \in 0..(Here - 1) : (Between(h, Here))' = Between(h, Here) \cup {Here}
        /\ \A h \in 0..(Here - 1) : \A r \in Between(h, Here) : events'[r] = events[r]
        /\ \A r \in Between(a, Here) : r \in 1..(Here - 1)
        /\ \A c : c = Here => (Between(c, Here))' = {}
    BY <1>1, <1>3, BetweenGrows
  <2>3. \A h \in 0..(Here - 1) : \A r \in Between(h, Here) : ResultOf(h, r)' <=> ResultOf(h, r)
    BY <1>1, BetweenGrows
  <2>4. \A r \in 1..(Here - 1) : r \in 0..(Here - 1)
    OBVIOUS
  <2>5. QED
    BY <1>3, <2>1, <2>2, <2>3, <2>4
<1>5. CASE Attests(e)
  <2>1. attestation' = "awaiting_result"
    BY <1>2, <1>5 DEF AttestationAfter, Attests, names_attestation, IsCall, IsResult
  <2>2. a' # 0 /\ (Between(a, Here))' = {}
    BY <1>2, <1>4, <1>5
  <2>3. QED
    BY <2>1, <2>2 DEF AttestationIsRemembered, Unanswered
<1>6. CASE ~Attests(e) /\ a = 0
  BY <1>2, <1>4, <1>6 DEF AttestationIsRemembered, AttestationAfter
<1>7. CASE ~Attests(e) /\ a # 0 /\ attestation = "awaiting_result" /\ Unanswered(a, Here)
  <2>1. CASE IsResult(e)
    <3>1. \A h : h = Here => ResultOf(a, h)'
      <4>1. a' = a /\ a < Here /\ events'[Here] = e
        BY <1>2, <1>3, <1>4, <1>7
      <4>2. \A h : h = Here => Between(a, h)' = Between(a, Here)
        BY <1>1, <1>2, <4>1, StandsStill
      <4>3. \A k \in Between(a, Here) : events'[k] = events[k] /\ ~IsResult(events[k])
        BY <1>4, <1>7 DEF Unanswered
      <4>4. QED
        BY <2>1, <4>1, <4>2, <4>3 DEF ResultOf
    <3>2. \A h : h = Here => (Between(h, Here))' = {}
      BY <1>1, <1>3, BetweenGrows
    <3>3. attestation' = IF ~e.ok THEN "failed" ELSE "attested"
      BY <1>2, <1>7, <2>1 DEF AttestationAfter
    <3>4. QED
      BY <1>2, <1>4, <1>7, <3>1, <3>2, <3>3 DEF AttestationIsRemembered
  <2>2. CASE ~IsResult(e)
    BY <1>2, <1>4, <1>7, <2>2 DEF AttestationIsRemembered, AttestationAfter, Unanswered
  <2>3. QED
    BY <2>1, <2>2
<1>8. ASSUME ~Attests(e), a # 0, NEW r \in Between(a, Here), ResultOf(a, r),
             attestation = IF ~events[r].ok THEN "failed"
                           ELSE IF \E k \in Between(r, Here) : IsApplyWrite(events[k])
                                THEN "stale" ELSE "attested"
      PROVE  AttestationIsRemembered'
  <2>1. attestation' = IF attestation = "attested" /\ IsApplyWrite(e) THEN "stale" ELSE attestation
    BY <1>2, <1>8 DEF AttestationAfter
  <2>2. (\E k \in (Between(r, Here))' : IsApplyWrite(events'[k]))
           <=> (\E k \in Between(r, Here) : IsApplyWrite(events[k])) \/ IsApplyWrite(e)
    BY <1>2, <1>4, <1>8
  <2>3. attestation' = IF ~events'[r].ok THEN "failed"
                       ELSE IF \E k \in (Between(r, Here))' : IsApplyWrite(events'[k])
                            THEN "stale" ELSE "attested"
    BY <1>4, <1>8, <2>1, <2>2
  <2>4. r \in (Between(a, Here))' /\ ResultOf(a, r)' /\ a' # 0
    BY <1>4, <1>8
  <2>5. QED
    BY <2>3, <2>4 DEF AttestationIsRemembered
<1>9. QED
  BY <1>2, <1>5, <1>6, <1>7, <1>8 DEF AttestationIsRemembered

\* Every check objects to the event that has come exactly if it should.
LEMMA ObserveFindsOffenders ==
    ASSUME ComplianceInv, NEW e \in TraceEvents, Observe(e)
    PROVE  OffendersAreFound'
<1>1. Grows(e)
  BY ObservedGrows
<1>2. /\ OffendersAreFound /\ offenders \in [Checks -> SUBSET Nat]
      /\ Here \in Nat /\ Here >= 1 /\ Here = Len(events) + 1
      /\ Places = 1..(Here - 1) /\ Places' = 1..Here
      /\ events'[Here] = e /\ component' = component
      /\ \A k \in 1..(Here - 1) : events'[k] = events[k]
  BY <1>1, GrownTrace DEF ComplianceInv, Observe, Here
<1>3. \A c \in Checks : offenders'[c] = offenders[c] \cup (IF Offends(c, e) THEN {Here} ELSE {})
  BY <1>2 DEF Observe
<1>4. Places' = Places \cup {Here}
  BY <1>2
<1>5. /\ \A i \in Places : events'[i] = events[i] /\ i # Here
      /\ \A i \in Places : i \in Nat /\ i \in 1..Here
  BY <1>2
<1>6. (offenders["read_only_execution"] = {i \in Places : OffendsReadOnly(events[i])})'
  BY <1>2, <1>3, <1>4, <1>5 DEF OffendersAreFound, Offends, OffendsReadOnly, Checks
<1>7. (offenders["write_authz"] = {i \in Places : OffendsWriteAuthz(events[i])})'
  BY <1>2, <1>3, <1>4, <1>5 DEF OffendersAreFound, Offends, OffendsWriteAuthz, Checks
<1>8. offenders'["must_dry_run"] =
           {i \in Places' : IsApplyWrite(events'[i]) /\ ~\E k \in 1..i : is_blast_radius_call(events'[k])}
  <2>1. \A i \in Places : (\E k \in 1..i : is_blast_radius_call(events'[k]))
                             <=> \E k \in 1..i : is_blast_radius_call(events[k])
    BY <1>2
  <2>2. (\E k \in 1..Here : is_blast_radius_call(events'[k])) <=> DryRunAfter(e)
    <3>1. dryRunSeen <=> \E k \in Places : is_blast_radius_call(events[k])
      BY DEF ComplianceInv
    <3>2. QED
      BY <1>2, <1>4, <1>5, <3>1 DEF DryRunAfter
  <2>3. offenders'["must_dry_run"]
           = offenders["must_dry_run"] \cup (IF IsApplyWrite(e) /\ ~DryRunAfter(e) THEN {Here} ELSE {})
    BY <1>3 DEF Offends, OffendsDryRun, Checks
  <2>4. QED
    BY <1>2, <1>4, <1>5, <2>1, <2>2, <2>3 DEF OffendersAreFound
<1>9. offenders'["human_approval"] =
           {i \in Places' : IsApplyWrite(events'[i]) /\ ~\E k \in 1..(i - 1) : IsGrant(events'[k])}
  <2>1. \A i \in Places : (\E k \in 1..(i - 1) : IsGrant(events'[k]))
                             <=> \E k \in 1..(i - 1) : IsGrant(events[k])
    BY <1>2
  <2>2. (\E k \in 1..(Here - 1) : IsGrant(events'[k])) <=> approved
    BY <1>2 DEF ComplianceInv
  <2>3. offenders'["human_approval"]
           = offenders["human_approval"] \cup (IF IsApplyWrite(e) /\ ~approved THEN {Here} ELSE {})
    BY <1>3 DEF Offends, OffendsApproval, Checks
  <2>4. QED
    BY <1>2, <1>4, <1>5, <2>1, <2>2, <2>3 DEF OffendersAreFound
<1>10. offenders'["blast_radius_limit"] = {i \in Places' : IsApplyWrite(events'[i]) /\ ~GateAllows(i)'}
  <2>1. \A i \in Places : GateAllows(i)' <=> GateAllows(i)
    BY <1>1, <1>5, JudgedForGood DEF GateAllows, GateOpen
  <2>2. \A i : i = Here => (GateAllows(i)' <=> is_blast_radius_call(e) \/ GateOpen(Here))
    BY <1>1, <1>2, JudgedForGood DEF GateAllows, GateOpen
  <2>3. gate \in {"not_called", "awaiting_result", "block", "escalate", "allow", "unverifiable"}
    BY DEF ComplianceInv, GateIsRemembered, from_result
  <2>4. OffendsGate(e) <=> IsApplyWrite(e) /\ ~is_blast_radius_call(e) /\ ~GateOpen(Here)
    BY <2>3, GateDecides DEF OffendsGate
  <2>5. offenders'["blast_radius_limit"]
           = offenders["blast_radius_limit"] \cup (IF OffendsGate(e) THEN {Here} ELSE {})
    BY <1>3 DEF Offends, Checks
  <2>6. QED
    BY <1>2, <1>4, <1>5, <2>1, <2>2, <2>4, <2>5 DEF OffendersAreFound
<1>11. (offenders["attestation_gate"] =
            {i \in Places : /\ ~Attests(events[i])
                            /\ names_terminal_action(events[i], component.terminalAction)
                            /\ ~Attested(i)})'
  <2>1. \A i \in Places : Attested(i)' <=> Attested(i)
    BY <1>1, <1>5, JudgedForGood
  <2>2. \A i : i = Here => (Attested(i)' <=> attestation = "attested")
    BY <1>1, <1>2, JudgedForGood, AttestationDecides
  <2>3. offenders'["attestation_gate"]
           = offenders["attestation_gate"] \cup (IF OffendsAttestation(e) THEN {Here} ELSE {})
    BY <1>3 DEF Offends, Checks
  <2>4. QED
    BY <1>2, <1>4, <1>5, <2>1, <2>2, <2>3 DEF OffendersAreFound, OffendsAttestation, Attests
<1>12. QED
  BY <1>6, <1>7, <1>8, <1>9, <1>10, <1>11 DEF OffendersAreFound, Places

LEMMA ObserveKeepsComplianceInv ==
    ASSUME ComplianceInv, NEW e \in TraceEvents, Observe(e)
    PROVE  ComplianceInv'
<1>1. Grows(e)
  BY ObservedGrows
<1>2. /\ events' \in Seq(TraceEvents) /\ Here \in Nat /\ Here >= 1 /\ Here = Len(events) + 1
      /\ Places = 1..(Here - 1) /\ Places' = 1..Here
      /\ events'[Here] = e /\ \A k \in 1..(Here - 1) : events'[k] = events[k]
  BY <1>1, GrownTrace DEF Here
<1>3. Places' = Places \cup {Here} /\ \A k \in Places : events'[k] = events[k] /\ k < Here /\ k \in Nat
  BY <1>2
<1>4. dryRunSeen' <=> \E k \in Places' : is_blast_radius_call(events'[k])
  BY <1>2, <1>3 DEF ComplianceInv, Observe, DryRunAfter
<1>5. approved' <=> \E k \in Places' : IsGrant(events'[k])
  BY <1>2, <1>3 DEF ComplianceInv, Observe
<1>6. approvedSinceGate' <=> \E k \in Places' : k > (GateBefore(Here))' /\ IsGrant(events'[k])
  <2>1. (GateBefore(Here))' = IF is_blast_radius_call(e) THEN Here ELSE GateBefore(Here)
    BY <1>1, LastMoves
  <2>2. GateBefore(Here) \in Nat /\ GateBefore(Here) < Here
    BY <1>2, LastGate DEF ComplianceInv
  <2>3. approvedSinceGate <=> \E k \in Places : k > GateBefore(Here) /\ IsGrant(events[k])
    BY DEF ComplianceInv
  <2>4. approvedSinceGate' <=> ~is_blast_radius_call(e) /\ (approvedSinceGate \/ IsGrant(e))
    BY DEF Observe
  <2>5. QED
    BY <1>2, <1>3, <2>1, <2>2, <2>3, <2>4
<1>7. offenders' \in [Checks -> SUBSET Nat]
  BY <1>2 DEF ComplianceInv, Observe
<1>8. GateIsRemembered' /\ AttestationIsRemembered' /\ OffendersAreFound'
  BY ObserveRemembersTheGate, ObserveRemembersTheAttestation, ObserveFindsOffenders
<1>9. QED
  BY <1>2, <1>4, <1>5, <1>6, <1>7, <1>8 DEF ComplianceInv

LEMMA UnreadComplianceInv ==
    ASSUME Unread
    PROVE  ComplianceInv
<1>1. events = <<>> /\ Len(events) = 0 /\ DOMAIN events = {} /\ Places = {} /\ events \in Seq(TraceEvents)
  BY DEF Unread, Places
<1>2. GateBefore(Here) = 0 /\ AttestationBefore(Here) = 0
  BY <1>1 DEF GateBefore, AttestationBefore, LastOf
<1>3. QED
  BY <1>1, <1>2 DEF Unread, ComplianceInv, GateIsRemembered, AttestationIsRemembered,
                    OffendersAreFound, Checks

\* What the checks have found is what the report promises of the trace.
LEMMA ComplianceInvMeansCleared ==
    ASSUME ComplianceInv
    PROVE  CompliantMeansCleared
<1>1. DOMAIN events = Places
  BY LenProperties DEF ComplianceInv, Places
<1>2. OffendersAreFound
  BY DEF ComplianceInv
<1>3. score_compliance <=>
        /\ component.found
        /\ "read_only_execution" \in component.locked => offenders["read_only_execution"] = {}
        /\ "must_dry_run" \in component.locked => offenders["must_dry_run"] = {}
        /\ "human_approval" \in component.locked => offenders["human_approval"] = {}
        /\ "blast_radius_limit" \in component.locked => offenders["blast_radius_limit"] = {}
        /\ "write_authz" \in component.locked => offenders["write_authz"] = {}
        /\ Scored("attestation_gate") => offenders["attestation_gate"] = {}
  BY DEF score_compliance, Scored, Checks
<1>4. (offenders["read_only_execution"] = {}) <=> \A i \in Places : ~OffendsReadOnly(events[i])
  BY <1>2 DEF OffendersAreFound
<1>5. (offenders["must_dry_run"] = {}) <=>
         \A i \in Places : IsApplyWrite(events[i]) => \E k \in 1..i : is_blast_radius_call(events[k])
  BY <1>2 DEF OffendersAreFound
<1>6. (offenders["human_approval"] = {}) <=>
         \A i \in Places : IsApplyWrite(events[i]) => \E k \in 1..(i - 1) : IsGrant(events[k])
  BY <1>2 DEF OffendersAreFound
<1>7. (offenders["blast_radius_limit"] = {}) <=>
         \A i \in Places : IsApplyWrite(events[i]) => GateAllows(i)
  BY <1>2 DEF OffendersAreFound
<1>8. (offenders["write_authz"] = {}) <=>
         \A i \in Places : IsApplyWrite(events[i]) =>
             /\ apply_write_path(events[i]) # NoPath
             /\ path_in_scope(apply_write_path(events[i]), component.scope)
  BY <1>2 DEF OffendersAreFound, OffendsWriteAuthz
<1>9. (offenders["attestation_gate"] = {}) <=>
         \A i \in Places :
             ~Attests(events[i]) /\ names_terminal_action(events[i], component.terminalAction) => Attested(i)
  BY <1>2 DEF OffendersAreFound
<1>10. (\A i \in Places : IsApplyWrite(events[i]) => Cleared(i)) <=>
        /\ "must_dry_run" \in component.locked => offenders["must_dry_run"] = {}
        /\ "human_approval" \in component.locked => offenders["human_approval"] = {}
        /\ "blast_radius_limit" \in component.locked => offenders["blast_radius_limit"] = {}
        /\ "write_authz" \in component.locked => offenders["write_authz"] = {}
  BY <1>5, <1>6, <1>7, <1>8 DEF Cleared
<1>11. QED
  BY <1>1, <1>3, <1>4, <1>9, <1>10 DEF CompliantMeansCleared

LEMMA AlwaysComplianceInv == EvalSpec => []ComplianceInv
<1>1. ASSUME EvalInit PROVE ComplianceInv
  BY <1>1, UnreadComplianceInv DEF EvalInit, ComplianceInit, ComplianceIdle
<1>2. ASSUME ComplianceInv, [EvalNext]_<<cliVars, complianceVars, contextVars, runVars>>
      PROVE  ComplianceInv'
  <2>1. CASE \E e \in TraceEvents : Observe(e)
    BY <1>2, <2>1, ObserveKeepsComplianceInv
  <2>2. CASE UNCHANGED complianceVars
    <3>1. UNCHANGED <<component, events, dryRunSeen, approved, gate, approvedSinceGate, attestation, offenders>>
      BY <2>2 DEF complianceVars
    <3>2. \A i : /\ GateBefore(i)' = GateBefore(i) /\ AttestationBefore(i)' = AttestationBefore(i)
                 /\ \A h : Between(h, i)' = Between(h, i) /\ (ResultOf(h, i)' <=> ResultOf(h, i))
      BY <3>1 DEF GateBefore, AttestationBefore, Attests, Between, ResultOf
    <3>3. Places' = Places /\ Here' = Here
      BY <3>1 DEF Places, Here
    <3>4. \A i : (GateAllows(i)' <=> GateAllows(i)) /\ (Attested(i)' <=> Attested(i))
      BY <3>1, <3>2 DEF GateAllows, Attested
    <3>5. GateIsRemembered' /\ AttestationIsRemembered'
      BY <1>2, <3>1, <3>2, <3>3 DEF ComplianceInv, GateIsRemembered, AttestationIsRemembered, Unanswered
    <3>6. OffendersAreFound'
      BY <1>2, <3>1, <3>3, <3>4 DEF ComplianceInv, OffendersAreFound, OffendsReadOnly, OffendsWriteAuthz,
                                    Attests
    <3>7. QED
      BY <1>2, <3>1, <3>2, <3>3, <3>5, <3>6 DEF ComplianceInv
  <2>3. QED
    BY <1>2, <2>1, <2>2 DEF EvalNext, Answer, ComplianceNext
<1>3. QED
  BY <1>1, <1>2, PTL DEF EvalSpec

\* `eval compliance`: a trace is called compliant exactly if every write of it was
\* cleared and every terminal action stood on a fresh attestation, judged over the
\* trace as a whole, whatever the events and however many of them.
THEOREM CompliantTracesAreCleared == EvalSpec => []CompliantMeansCleared
BY AlwaysComplianceInv, ComplianceInvMeansCleared, PTL

-------------------------------------------------------------------------------
(* eval run: what is measured, stored and replayed.                            *)

\* The limits of a run, as they end its keys.
Limits(c) == (IF c.backend = DefaultBackend THEN <<>> ELSE <<c.backend>>)
             \o (IF c.maxTurns = None THEN <<>> ELSE <<c.maxTurns>>)
             \o (IF c.tiers = None THEN <<>> ELSE <<c.tiers>>)

\* A measurement of job j of the pass that is running.
Own(u, j) ==
    /\ u.case = CaseOf(j) /\ u.sample = SampleOf(j) /\ u.question = golden.question
    /\ u.binding = Binding /\ u.backend = cfg.backend /\ u.maxTurns = cfg.maxTurns
    /\ cfg.backend # "codex-local" => u.ir = KeyedIr
    /\ ~u.edited => u.context = keyed.context /\ u.agent = AgentSha

\* One that this run has made itself.
MadeHere(u) ==
    /\ u.edited => edited
    /\ ~u.edited /\ NeedsInstall => u.settings = AgentSha

\* A key and what is stored under it.
KeyTells(k, u) ==
    /\ k = <<u.case, u.question, k[3], u.binding, k[5], u.sample, k[7]>>
    /\ ~u.edited => k[3] = u.agent /\ k[5] = u.context
    /\ u.backend # "codex-local" => u.ir = IF k[3][1] = "emitted" THEN k[3][2] ELSE 0
    /\ \E c \in Configs : /\ Accepts(c) /\ k[7] = Limits(c)
                          /\ u.backend = c.backend /\ u.maxTurns = c.maxTurns

RunIsAdmitted == phase # "idle" => cfg \in Configs /\ Accepts(cfg)

HashesHold ==
    phase \in {"keyed", "running"} /\ ~edited =>
        project.mdl = keyed.context /\ project.artifact = keyed.artifact

InstallHolds ==
    phase = "running" /\ NeedsInstall /\ ~edited =>
        dotClaude.agent = AgentSha /\ dotClaude.settings = AgentSha

WorkIsOwn ==
    /\ DOMAIN work = Workers
    /\ \A w \in Workers :
          /\ work[w] = [at |-> work[w].at, job |-> work[w].job, answer |-> work[w].answer,
                        under |-> work[w].under]
          /\ phase # "running" => work[w].at = "idle"
          /\ work[w].at # "idle" => work[w].job \in Jobs /\ work[w].job < next
          /\ work[w].at = "storing" => Own(work[w].under, work[w].job) /\ MadeHere(work[w].under)

OutcomeIsOwn(o, j) ==
    /\ o.job = j /\ o.hit \in BOOLEAN /\ (o.pass <=> o.answer = golden.expected)
    /\ Own(o.under, j)
    /\ ~o.hit => MadeHere(o.under)

SlotsAreOwn ==
    phase = "running" =>
        /\ next \in Nat /\ DOMAIN slots = Jobs
        /\ \A j \in Jobs :
              \/ slots[j] = {} /\ (j < next => \E w \in Workers : work[w].at # "idle" /\ work[w].job = j)
              \/ \E o \in slots[j] : slots[j] = {o} /\ OutcomeIsOwn(o, j)

CacheTells == \A k \in DOMAIN cache : KeyTells(k, cache[k].under)

EvalRunInv ==
    /\ RunIsAdmitted /\ HashesHold /\ InstallHolds /\ WorkIsOwn /\ SlotsAreOwn /\ CacheTells
    /\ reports \in Seq({reports[p] : p \in DOMAIN reports})
    /\ ReportIsWhole

LEMMA JoinPair == ASSUME NEW x, NEW y PROVE <<x>> \o <<y>> = <<x, y>>
<1>1. /\ <<x>> \in Seq({x, y}) /\ <<y>> \in Seq({x, y}) /\ Len(<<x>>) = 1 /\ Len(<<y>>) = 1
  OBVIOUS
<1>2. /\ <<x>> \o <<y>> \in Seq({x, y}) /\ Len(<<x>> \o <<y>>) = 2
      /\ \A i \in 1..2 : (<<x>> \o <<y>>)[i] = IF i <= 1 THEN <<x>>[i] ELSE <<y>>[i - 1]
  BY <1>1, ConcatProperties
<1>3. (<<x>> \o <<y>>)[1] = x /\ (<<x>> \o <<y>>)[2] = y
  BY <1>2
<1>4. \A s \in Seq({x, y}) : Len(s) = 2 /\ s[1] = x /\ s[2] = y => s = <<x, y>>
  OBVIOUS
<1>5. QED
  BY <1>2, <1>3, <1>4

LEMMA JoinTriple == ASSUME NEW x, NEW y, NEW z PROVE <<x, y>> \o <<z>> = <<x, y, z>>
<1>1. /\ <<x, y>> \in Seq({x, y, z}) /\ <<z>> \in Seq({x, y, z})
      /\ Len(<<x, y>>) = 2 /\ Len(<<z>>) = 1
  OBVIOUS
<1>2. /\ <<x, y>> \o <<z>> \in Seq({x, y, z}) /\ Len(<<x, y>> \o <<z>>) = 3
      /\ \A i \in 1..3 : (<<x, y>> \o <<z>>)[i] = IF i <= 2 THEN <<x, y>>[i] ELSE <<z>>[i - 2]
  BY <1>1, ConcatProperties
<1>3. (<<x, y>> \o <<z>>)[1] = x /\ (<<x, y>> \o <<z>>)[2] = y /\ (<<x, y>> \o <<z>>)[3] = z
  BY <1>2
<1>4. \A s \in Seq({x, y, z}) : Len(s) = 3 /\ s[1] = x /\ s[2] = y /\ s[3] = z => s = <<x, y, z>>
  OBVIOUS
<1>5. QED
  BY <1>2, <1>3, <1>4

\* The backend and the turn limit can be read from the end of a key.
LEMMA LimitsDecode ==
    ASSUME NEW c \in Configs, NEW d \in Configs, Accepts(c), Accepts(d), Limits(c) = Limits(d)
    PROVE  c.backend = d.backend /\ c.maxTurns = d.maxTurns
<1>1. /\ <<>> \o <<>> \o <<>> = <<>>
      /\ \A x : /\ <<x>> \o <<>> \o <<>> = <<x>>
                /\ \A y : /\ <<x>> \o <<y>> \o <<>> = <<x, y>> /\ <<x>> \o <<>> \o <<y>> = <<x, y>>
                          /\ \A z : <<x>> \o <<y>> \o <<z>> = <<x, y, z>>
  <2>1. <<>> \o <<>> = <<>>
    OBVIOUS
  <2>2. \A x : <<x>> \o <<>> = <<x>>
    <3>1. \A x : <<x>> \in Seq({x})
      OBVIOUS
    <3>2. QED
      BY <3>1, ConcatEmptySeq
  <2>3. \A x, y : <<x, y>> \o <<>> = <<x, y>>
    <3>1. \A x, y : <<x, y>> \in Seq({x, y})
      OBVIOUS
    <3>2. QED
      BY <3>1, ConcatEmptySeq
  <2>4. /\ \A x, y : <<x>> \o <<y>> = <<x, y>>
        /\ \A x, y, z : <<x, y>> \o <<z>> = <<x, y, z>>
    BY JoinPair, JoinTriple, Zenon
  <2>5. ASSUME NEW x
        PROVE  /\ <<x>> \o <<>> \o <<>> = <<x>>
               /\ \A y : /\ <<x>> \o <<y>> \o <<>> = <<x, y>> /\ <<x>> \o <<>> \o <<y>> = <<x, y>>
                         /\ \A z : <<x>> \o <<y>> \o <<z>> = <<x, y, z>>
    <3>1. (<<x>> \o <<>>) \o <<>> = <<x>>
      BY <2>2, Zenon
    <3>2. ASSUME NEW y PROVE <<x>> \o <<y>> \o <<>> = <<x, y>>
      <4>1. <<x>> \o <<y>> = <<x, y>>
        BY JoinPair
      <4>2. <<x, y>> \o <<>> = <<x, y>>
        BY <2>3
      <4> QED BY <4>1, <4>2, Zenon
    <3>3. ASSUME NEW y PROVE <<x>> \o <<>> \o <<y>> = <<x, y>>
      <4>1. <<x>> \o <<>> = <<x>>
        BY <2>2
      <4> QED BY <4>1, JoinPair, Zenon
    <3>4. ASSUME NEW y, NEW z PROVE <<x>> \o <<y>> \o <<z>> = <<x, y, z>>
      <4>1. <<x>> \o <<y>> = <<x, y>>
        BY JoinPair
      <4> QED BY <4>1, JoinTriple, Zenon
    <3>5. QED
      BY <3>1, <3>2, <3>3, <3>4
  <2>6. QED
    BY <2>1, <2>5, Zenon
<1>2. \A e \in {c, d} :
         /\ e.backend = DefaultBackend => e.maxTurns = None /\ e.tiers = None
         /\ Limits(e) = IF e.backend = DefaultBackend THEN <<>>
                        ELSE IF e.maxTurns = None
                             THEN IF e.tiers = None THEN <<e.backend>> ELSE <<e.backend, e.tiers>>
                             ELSE IF e.tiers = None THEN <<e.backend, e.maxTurns>>
                                  ELSE <<e.backend, e.maxTurns, e.tiers>>
  BY <1>1 DEF Limits, Accepts, validate_max_turns_backend, validate_tier_binding_backend, DefaultBackend
<1>3. /\ c.maxTurns # None => c.maxTurns # d.tiers
      /\ d.maxTurns # None => d.maxTurns # c.tiers
  BY RunAssumption
<1>4. QED
  BY <1>2, <1>3

LEMMA JobsAreNumbered ==
    ASSUME cfg \in Configs
    PROVE  Cases * cfg.samples \in Nat /\ Jobs = 0 .. (Cases * cfg.samples - 1) /\ Jobs \subseteq Nat
<1>1. Cases \in Nat /\ cfg.samples \in Nat
  BY RunAssumption
<1>2. \A m, n \in Nat : m * n \in Nat
  OBVIOUS
<1>3. Cases * cfg.samples \in Nat
  BY <1>1, <1>2
<1>4. Jobs = 0 .. (Cases * cfg.samples - 1)
  BY DEF Jobs
<1>5. \A n \in Nat : 0 .. (n - 1) \subseteq Nat
  OBVIOUS
<1>6. QED
  BY <1>3, <1>4, <1>5

LEMMA KeyIsItsParts ==
    ASSUME NEW j
    PROVE  canonical(j) = <<CaseOf(j), golden.question, AgentSha, Binding, keyed.context,
                            SampleOf(j), Limits(cfg)>>
BY DEF canonical, Limits

\* The hash of an emitted agent tells its IR.
LEMMA KeyedIrIsHashed == KeyedIr = IF AgentSha[1] = "emitted" THEN AgentSha[2] ELSE 0
BY DEF KeyedIr, AgentSha

\* What is stored under a key of this run tells of the run that made it.
LEMMA OwnIsKeyed ==
    ASSUME NEW u, NEW j, Own(u, j), cfg \in Configs, Accepts(cfg)
    PROVE  KeyTells(canonical(j), u)
<1>1. canonical(j) = <<CaseOf(j), golden.question, AgentSha, Binding, keyed.context,
                       SampleOf(j), Limits(cfg)>>
  BY KeyIsItsParts
<1>2. /\ canonical(j)[3] = AgentSha /\ canonical(j)[5] = keyed.context
      /\ canonical(j)[7] = Limits(cfg)
  BY <1>1
<1>3. canonical(j) = <<u.case, u.question, canonical(j)[3], u.binding, canonical(j)[5], u.sample,
                       canonical(j)[7]>>
  BY <1>1, <1>2 DEF Own
<1>4. cfg.backend # "codex-local" =>
          u.ir = IF AgentSha[1] = "emitted" THEN AgentSha[2] ELSE 0
  BY KeyedIrIsHashed DEF Own
<1>5. QED
  BY <1>2, <1>3, <1>4 DEF KeyTells, Own

\* What this run finds under one of its keys is a measurement of its own job.
LEMMA KeyedIsOwn ==
    ASSUME NEW u, NEW j, KeyTells(canonical(j), u), cfg \in Configs, Accepts(cfg)
    PROVE  Own(u, j)
<1> DEFINE k == canonical(j)
<1>1. k = <<CaseOf(j), golden.question, AgentSha, Binding, keyed.context, SampleOf(j), Limits(cfg)>>
  BY KeyIsItsParts
<1>2. /\ k[1] = CaseOf(j) /\ k[2] = golden.question /\ k[3] = AgentSha /\ k[4] = Binding
      /\ k[5] = keyed.context /\ k[6] = SampleOf(j) /\ k[7] = Limits(cfg)
  BY <1>1
<1> HIDE DEF k
<1>3. k = <<u.case, u.question, k[3], u.binding, k[5], u.sample, k[7]>>
  BY DEF KeyTells, k
<1>4. k[1] = u.case /\ k[2] = u.question /\ k[4] = u.binding /\ k[6] = u.sample
  BY <1>3
<1>5. PICK c \in Configs : /\ Accepts(c) /\ k[7] = Limits(c)
                           /\ u.backend = c.backend /\ u.maxTurns = c.maxTurns
  BY DEF KeyTells, k
<1>6. u.backend = cfg.backend /\ u.maxTurns = cfg.maxTurns
  BY <1>2, <1>5, LimitsDecode
<1>7. ~u.edited => u.context = keyed.context /\ u.agent = AgentSha
  BY <1>2 DEF KeyTells, k
<1>8. cfg.backend # "codex-local" => u.ir = KeyedIr
  BY <1>2, <1>6, KeyedIrIsHashed DEF KeyTells, k
<1>9. QED
  BY <1>2, <1>4, <1>6, <1>7, <1>8 DEF Own

LEMMA MeasuredIsOwn ==
    ASSUME NEW j, phase = "running", HashesHold, InstallHolds
    PROVE  Own(Measured(j), j) /\ MadeHere(Measured(j))
<1>1. ~edited => project.mdl = keyed.context /\ project.artifact = keyed.artifact
  BY DEF HashesHold
<1>2. ~edited /\ NeedsInstall => dotClaude.agent = AgentSha /\ dotClaude.settings = AgentSha
  BY DEF InstallHolds
<1>3. ~edited => Artifact(pass) = AgentSha
  BY <1>1 DEF Artifact, AgentSha
<1>4. QED
  BY <1>1, <1>2, <1>3 DEF Measured, Own, MadeHere

LEMMA StoredTells ==
    ASSUME CacheTells, NEW j, NEW entry, Own(entry.under, j), cfg \in Configs, Accepts(cfg)
    PROVE  \A k \in DOMAIN Put(j, entry) : KeyTells(k, Put(j, entry)[k].under)
<1>1. KeyTells(canonical(j), entry.under)
  BY OwnIsKeyed
<1>2. QED
  BY <1>1 DEF CacheTells, Put

-------------------------------------------------------------------------------
(* What stays as it is.                                                       *)

LEMMA PassStays ==
    ASSUME UNCHANGED <<cfg, golden, keyed, pass>>
    PROVE  /\ Jobs' = Jobs /\ AgentSha' = AgentSha /\ (NeedsInstall' <=> NeedsInstall)
           /\ \A u, j : Own(u, j)' <=> Own(u, j)
           /\ edited' = edited =>
                 /\ \A u : MadeHere(u)' <=> MadeHere(u)
                 /\ \A o, j : OutcomeIsOwn(o, j)' <=> OutcomeIsOwn(o, j)
<1>1. Jobs' = Jobs
  BY DEF Jobs
<1>2. /\ AgentSha' = AgentSha /\ Binding' = Binding /\ KeyedIr' = KeyedIr
      /\ (NeedsInstall' <=> NeedsInstall)
  BY DEF AgentSha, Binding, KeyedIr, NeedsInstall
<1>3. \A j : CaseOf(j)' = CaseOf(j) /\ SampleOf(j)' = SampleOf(j)
  BY DEF CaseOf, SampleOf
<1>4. \A u, j : Own(u, j)' <=> Own(u, j)
  BY <1>2, <1>3 DEF Own
<1>5. ASSUME edited' = edited PROVE \A u : MadeHere(u)' <=> MadeHere(u)
  BY <1>2, <1>5 DEF MadeHere
<1>6. ASSUME edited' = edited PROVE \A o, j : OutcomeIsOwn(o, j)' <=> OutcomeIsOwn(o, j)
  BY <1>4, <1>5, <1>6 DEF OutcomeIsOwn
<1>7. QED
  BY <1>1, <1>2, <1>4, <1>5, <1>6

ReportsAreOwn == reports \in Seq({reports[p] : p \in DOMAIN reports}) /\ ReportIsWhole

LEMMA ReportsStay ==
    ASSUME ReportsAreOwn, UNCHANGED <<reports, golden>>
    PROVE  ReportsAreOwn'
BY DEF ReportsAreOwn, ReportIsWhole

LEMMA NoReports ==
    ASSUME reports' = <<>>
    PROVE  ReportsAreOwn'
<1>1. DOMAIN reports' = {} /\ \A S : <<>> \in Seq(S)
  OBVIOUS
<1>2. QED
  BY <1>1 DEF ReportsAreOwn, ReportIsWhole

WorkIsShaped ==
    /\ DOMAIN work = Workers
    /\ \A w \in Workers :
          work[w] = [at |-> work[w].at, job |-> work[w].job, answer |-> work[w].answer,
                     under |-> work[w].under]

\* A run that is over asks no more than that its workers are.
LEMMA RunEnds ==
    ASSUME phase' = "idle", CacheTells', ReportsAreOwn', WorkIsShaped',
           \A w \in Workers : work'[w].at = "idle"
    PROVE  EvalRunInv'
BY DEF EvalRunInv, RunIsAdmitted, HashesHold, InstallHolds, WorkIsOwn, WorkIsShaped, SlotsAreOwn,
       ReportsAreOwn

-------------------------------------------------------------------------------
(* One step of a run.                                                         *)

LEMMA StartKeeps ==
    ASSUME EvalRunInv, NEW c \in Configs, Start(c)
    PROVE  EvalRunInv'
<1>1. ReportsAreOwn'
  BY NoReports DEF Start
<1>2. CacheTells'
  BY DEF EvalRunInv, CacheTells, Start
<1>3. WorkIsShaped' /\ \A w \in Workers : work'[w].at = "idle"
  BY DEF EvalRunInv, WorkIsOwn, WorkIsShaped, Start
<1>4. phase' \in {"idle", "asked"} /\ (phase' # "idle" => cfg' \in Configs /\ Accepts(cfg'))
  BY DEF Start
<1>5. QED
  BY <1>1, <1>2, <1>3, <1>4 DEF EvalRunInv, RunIsAdmitted, HashesHold, InstallHolds, WorkIsOwn,
                                WorkIsShaped, SlotsAreOwn, ReportsAreOwn

LEMMA KeyKeeps ==
    ASSUME EvalRunInv, NEW hashable \in BOOLEAN, Key(hashable)
    PROVE  EvalRunInv'
<1>1. ReportsAreOwn'
  BY ReportsStay DEF EvalRunInv, ReportsAreOwn, Key
<1>2. CacheTells' /\ RunIsAdmitted'
  BY DEF EvalRunInv, CacheTells, RunIsAdmitted, Key
<1>3. WorkIsShaped' /\ \A w \in Workers : work'[w].at = "idle"
  BY DEF EvalRunInv, WorkIsOwn, WorkIsShaped, Key
<1>4. phase' = "keyed" /\ project'.mdl = keyed'.context /\ project'.artifact = keyed'.artifact
  BY DEF Key
<1>5. QED
  BY <1>1, <1>2, <1>3, <1>4 DEF EvalRunInv, HashesHold, InstallHolds, WorkIsOwn,
                                WorkIsShaped, SlotsAreOwn, ReportsAreOwn

\* The counter is set back and nothing is filled yet.
FreshPass == phase' = "running" /\ next' = 0 /\ slots' = [j \in Jobs' |-> {}]

LEMMA FreshPassIsOwn ==
    ASSUME FreshPass, cfg' \in Configs, \A w \in Workers : work'[w].at = "idle"
    PROVE  SlotsAreOwn'
<1>1. Jobs' \subseteq Nat
  <2>1. Cases \in Nat /\ cfg'.samples \in Nat
    BY RunAssumption
  <2>2. \A m, n \in Nat : m * n \in Nat
    OBVIOUS
  <2>3. Cases * cfg'.samples \in Nat
    BY <2>1, <2>2
  <2>4. \A n \in Nat : 0 .. (n - 1) \subseteq Nat
    OBVIOUS
  <2>5. QED
    BY <2>3, <2>4 DEF Jobs
<1>2. \A j \in Jobs' : slots'[j] = {} /\ ~(j < 0)
  BY <1>1 DEF FreshPass
<1>3. DOMAIN slots' = Jobs' /\ next' = 0
  BY DEF FreshPass
<1>4. QED
  BY <1>2, <1>3 DEF SlotsAreOwn

LEMMA InstallKeeps ==
    ASSUME EvalRunInv, install_agents
    PROVE  EvalRunInv'
<1>1. ReportsAreOwn'
  BY ReportsStay DEF EvalRunInv, ReportsAreOwn, install_agents
<1>2. CacheTells' /\ RunIsAdmitted' /\ cfg' \in Configs
  BY DEF EvalRunInv, CacheTells, RunIsAdmitted, install_agents
<1>3. WorkIsShaped' /\ \A w \in Workers : work'[w].at = "idle"
  BY DEF EvalRunInv, WorkIsOwn, WorkIsShaped, install_agents
<1>4. Jobs' = Jobs /\ AgentSha' = AgentSha
  BY PassStays DEF install_agents
<1>5. HashesHold'
  BY DEF EvalRunInv, HashesHold, install_agents
<1>6. InstallHolds'
  <2>1. ~edited => Artifact(pass) = AgentSha
    BY DEF EvalRunInv, HashesHold, install_agents, Artifact, AgentSha
  <2>2. dotClaude'.agent = Artifact(pass) /\ dotClaude'.settings = Artifact(pass)
    BY DEF install_agents
  <2>3. QED
    BY <1>4, <2>1, <2>2 DEF InstallHolds, install_agents
<1>7. SlotsAreOwn'
  BY <1>2, <1>3, <1>4, FreshPassIsOwn DEF FreshPass, install_agents
<1>8. QED
  BY <1>1, <1>2, <1>3, <1>5, <1>6, <1>7 DEF EvalRunInv, WorkIsOwn, WorkIsShaped, ReportsAreOwn

LEMMA BeginKeeps ==
    ASSUME EvalRunInv, BeginPass
    PROVE  EvalRunInv'
<1>1. ReportsAreOwn'
  BY ReportsStay DEF EvalRunInv, ReportsAreOwn, BeginPass
<1>2. CacheTells' /\ RunIsAdmitted' /\ cfg' \in Configs
  BY DEF EvalRunInv, CacheTells, RunIsAdmitted, BeginPass
<1>3. WorkIsShaped' /\ \A w \in Workers : work'[w].at = "idle"
  BY DEF EvalRunInv, WorkIsOwn, WorkIsShaped, BeginPass
<1>4. Jobs' = Jobs /\ AgentSha' = AgentSha /\ (NeedsInstall' <=> NeedsInstall)
  BY PassStays DEF BeginPass
<1>5. HashesHold' /\ InstallHolds'
  BY <1>4 DEF EvalRunInv, HashesHold, InstallHolds, BeginPass
<1>6. SlotsAreOwn'
  BY <1>2, <1>3, <1>4, FreshPassIsOwn DEF FreshPass, BeginPass
<1>7. QED
  BY <1>1, <1>2, <1>3, <1>5, <1>6 DEF EvalRunInv, WorkIsOwn, WorkIsShaped, ReportsAreOwn

LEMMA InstallFailsKeeps ==
    ASSUME EvalRunInv, InstallFails
    PROVE  EvalRunInv'
<1>1. ReportsAreOwn'
  BY NoReports DEF InstallFails
<1>2. CacheTells'
  BY DEF EvalRunInv, CacheTells, InstallFails
<1>3. WorkIsShaped' /\ \A w \in Workers : work'[w].at = "idle"
  BY DEF EvalRunInv, WorkIsOwn, WorkIsShaped, InstallFails
<1>4. QED
  BY <1>1, <1>2, <1>3, RunEnds DEF InstallFails

LEMMA PassFailsKeeps ==
    ASSUME EvalRunInv, PassFails
    PROVE  EvalRunInv'
<1>1. ReportsAreOwn'
  BY NoReports DEF PassFails
<1>2. CacheTells'
  BY DEF EvalRunInv, CacheTells, PassFails
<1>3. WorkIsShaped' /\ \A w \in Workers : work'[w].at = "idle"
  BY DEF EvalRunInv, WorkIsOwn, WorkIsShaped, PassFails, PassDone, Idle
<1>4. QED
  BY <1>1, <1>2, <1>3, RunEnds DEF PassFails

LEMMA EditKeeps ==
    ASSUME EvalRunInv, NEW file, Edit(file)
    PROVE  EvalRunInv'
<1>1. ReportsAreOwn'
  BY ReportsStay DEF EvalRunInv, ReportsAreOwn, Edit
<1>2. CacheTells' /\ RunIsAdmitted'
  BY DEF EvalRunInv, CacheTells, RunIsAdmitted, Edit
<1>3. edited' = TRUE /\ UNCHANGED <<cfg, golden, keyed, pass, work, phase, next, slots>>
  BY DEF Edit
<1>4. /\ Jobs' = Jobs /\ AgentSha' = AgentSha /\ (NeedsInstall' <=> NeedsInstall)
      /\ \A u, j : Own(u, j)' <=> Own(u, j)
  BY <1>3, PassStays
<1>5. \A u : MadeHere(u) => MadeHere(u)'
  BY <1>3, <1>4 DEF MadeHere
<1>6. \A o, j : OutcomeIsOwn(o, j) => OutcomeIsOwn(o, j)'
  BY <1>3, <1>4, <1>5 DEF OutcomeIsOwn
<1>7. HashesHold' /\ InstallHolds'
  BY <1>3 DEF HashesHold, InstallHolds
<1>8. WorkIsOwn'
  BY <1>3, <1>4, <1>5 DEF EvalRunInv, WorkIsOwn
<1>9. SlotsAreOwn'
  BY <1>3, <1>4, <1>6 DEF EvalRunInv, SlotsAreOwn
<1>10. QED
  BY <1>1, <1>2, <1>7, <1>8, <1>9 DEF EvalRunInv, ReportsAreOwn

LEMMA KillKeeps ==
    ASSUME EvalRunInv, Kill
    PROVE  EvalRunInv'
<1>1. ReportsAreOwn'
  BY NoReports DEF Kill
<1>2. WorkIsShaped' /\ \A w \in Workers : work'[w].at = "idle"
  BY DEF Kill, WorkIsShaped, Idle
<1>3. CacheTells'
  <2>1. PICK T \in SUBSET {w \in Workers : work[w].at = "storing"} :
             cache' = IF T = {} THEN cache
                      ELSE LET w == CHOOSE w \in T : TRUE IN Put(work[w].job, Entry(w, TRUE))
    BY DEF Kill
  <2>2. CASE T = {}
    BY <2>1, <2>2 DEF EvalRunInv, CacheTells
  <2>3. CASE T # {}
    <3>1. PICK w \in Workers : work[w].at = "storing" /\ cache' = Put(work[w].job, Entry(w, TRUE))
      BY <2>1, <2>3
    <3>2. /\ Entry(w, TRUE).under = work[w].under
          /\ Own(work[w].under, work[w].job) /\ cfg \in Configs /\ Accepts(cfg) /\ CacheTells
      BY <3>1 DEF EvalRunInv, WorkIsOwn, RunIsAdmitted, Entry
    <3>3. QED
      BY <3>1, <3>2, StoredTells DEF CacheTells
  <2>4. QED
    BY <2>2, <2>3
<1>4. QED
  BY <1>1, <1>2, <1>3, RunEnds DEF Kill

-------------------------------------------------------------------------------
(* One step of a worker.                                                      *)

\* What no worker touches.
Around == UNCHANGED <<project, dotClaude, phase, cfg, golden, keyed, pass, reports, edited>>

LEMMA AroundStays ==
    ASSUME EvalRunInv, Around, phase = "running"
    PROVE  /\ ReportsAreOwn' /\ RunIsAdmitted' /\ HashesHold' /\ InstallHolds'
           /\ phase' = "running" /\ Jobs' = Jobs /\ Jobs \subseteq Nat
           /\ cfg \in Configs /\ Accepts(cfg)
           /\ \A u, j : Own(u, j)' <=> Own(u, j)
           /\ \A u : MadeHere(u)' <=> MadeHere(u)
           /\ \A o, j : OutcomeIsOwn(o, j)' <=> OutcomeIsOwn(o, j)
<1>1. ReportsAreOwn'
  BY ReportsStay DEF EvalRunInv, ReportsAreOwn, Around
<1>2. /\ Jobs' = Jobs /\ AgentSha' = AgentSha /\ (NeedsInstall' <=> NeedsInstall)
      /\ \A u, j : Own(u, j)' <=> Own(u, j)
      /\ \A u : MadeHere(u)' <=> MadeHere(u)
      /\ \A o, j : OutcomeIsOwn(o, j)' <=> OutcomeIsOwn(o, j)
  BY PassStays DEF Around
<1>3. RunIsAdmitted' /\ cfg \in Configs /\ Accepts(cfg)
  BY DEF EvalRunInv, RunIsAdmitted, Around
<1>4. HashesHold' /\ InstallHolds'
  BY <1>2 DEF EvalRunInv, HashesHold, InstallHolds, Around
<1>5. Jobs \subseteq Nat
  BY <1>3, JobsAreNumbered
<1>6. QED
  BY <1>1, <1>2, <1>3, <1>4, <1>5 DEF Around

LEMMA ClaimKeeps ==
    ASSUME EvalRunInv, NEW w \in Workers, Claim(w)
    PROVE  EvalRunInv'
<1>1. Around /\ phase = "running" /\ cache' = cache
  BY DEF Claim, Around
<1>2. /\ work' = [work EXCEPT ![w] = [at |-> "loading", job |-> next, answer |-> None, under |-> Nothing]]
      /\ next' = next + 1 /\ slots' = slots /\ next \in Jobs /\ work[w].at = "idle"
  <2>1. [Idle EXCEPT !.at = "loading", !.job = next]
           = [at |-> "loading", job |-> next, answer |-> None, under |-> Nothing]
    <3> DEFINE loading == [Idle EXCEPT !.at = "loading"]
    <3>1. /\ Idle = [at |-> Idle.at, job |-> Idle.job, answer |-> Idle.answer, under |-> Idle.under]
          /\ Idle.answer = None /\ Idle.under = Nothing
      BY DEF Idle
    <3>2. loading = [at |-> "loading", job |-> Idle.job, answer |-> Idle.answer, under |-> Idle.under]
      BY <3>1
    <3>3. [Idle EXCEPT !.at = "loading", !.job = next] = [loading EXCEPT !.job = next]
      OBVIOUS
    <3> HIDE DEF loading
    <3>4. /\ loading = [at |-> loading.at, job |-> loading.job, answer |-> loading.answer,
                        under |-> loading.under]
          /\ loading.at = "loading" /\ loading.answer = None /\ loading.under = Nothing
      BY <3>1, <3>2
    <3>5. QED
      BY <3>3, <3>4
  <2>2. QED
    BY <2>1 DEF Claim
<1>3. /\ ReportsAreOwn' /\ RunIsAdmitted' /\ HashesHold' /\ InstallHolds'
      /\ phase' = "running" /\ Jobs' = Jobs /\ Jobs \subseteq Nat
      /\ \A u, j : Own(u, j)' <=> Own(u, j)
      /\ \A u : MadeHere(u)' <=> MadeHere(u)
      /\ \A o, j : OutcomeIsOwn(o, j)' <=> OutcomeIsOwn(o, j)
  BY <1>1, AroundStays
<1>4. WorkIsOwn /\ SlotsAreOwn /\ CacheTells
  BY DEF EvalRunInv
<1>5. next \in Nat /\ \A j \in Jobs : j \in Nat /\ (j < next + 1 <=> j < next \/ j = next)
  BY <1>2, <1>3
<1>6. CacheTells'
  BY <1>1, <1>4 DEF CacheTells
<1>7. /\ DOMAIN work' = Workers
      /\ work'[w] = [at |-> "loading", job |-> next, answer |-> None, under |-> Nothing]
      /\ \A v \in Workers : v # w => work'[v] = work[v]
  BY <1>2, <1>4 DEF WorkIsOwn
<1>8. WorkIsOwn'
  <2>1. \A v \in Workers : v # w =>
           /\ work'[v] = [at |-> work'[v].at, job |-> work'[v].job, answer |-> work'[v].answer,
                          under |-> work'[v].under]
           /\ work'[v].at # "idle" => work'[v].job \in Jobs' /\ work'[v].job < next'
    BY <1>2, <1>3, <1>4, <1>5, <1>7 DEF WorkIsOwn
  <2>2. /\ work'[w].at = "loading" /\ work'[w].job = next
        /\ work'[w] = [at |-> work'[w].at, job |-> work'[w].job, answer |-> work'[w].answer,
                       under |-> work'[w].under]
    BY <1>7
  <2>3. next \in Jobs' /\ next < next'
    BY <1>2, <1>3, <1>5
  <2>4. \A v \in Workers :
           work'[v].at = "storing" => (Own(work[v].under, work[v].job) /\ MadeHere(work[v].under))'
    BY <1>3, <1>4, <1>7, <2>2 DEF WorkIsOwn
  <2>5. QED
    BY <1>3, <1>7, <2>1, <2>2, <2>3, <2>4 DEF WorkIsOwn
<1>9. SlotsAreOwn'
  <2>1. next' \in Nat /\ DOMAIN slots' = Jobs'
    BY <1>1, <1>2, <1>3, <1>4, <1>5 DEF SlotsAreOwn
  <2>2. ASSUME NEW j \in Jobs, slots[j] = {}, j < next + 1
        PROVE  \E v \in Workers : work'[v].at # "idle" /\ work'[v].job = j
    <3>1. CASE j = next
      BY <1>7, <3>1
    <3>2. CASE j < next
      BY <1>1, <1>2, <1>4, <1>7, <2>2, <3>2 DEF SlotsAreOwn
    <3>3. QED
      BY <1>5, <2>2, <3>1, <3>2
  <2>3. ASSUME NEW j \in Jobs, NEW o \in slots[j], OutcomeIsOwn(o, j)
        PROVE  OutcomeIsOwn(o, j)'
    BY <1>3, <2>3
  <2>4. QED
    BY <1>1, <1>2, <1>3, <1>4, <2>1, <2>2, <2>3 DEF SlotsAreOwn
<1>10. QED
  BY <1>3, <1>6, <1>8, <1>9 DEF EvalRunInv, ReportsAreOwn

\* A worker that fills its slot with an outcome of its own job.
LEMMA FillKeeps ==
    ASSUME EvalRunInv, Around, phase = "running", UNCHANGED next,
           NEW w \in Workers, work[w].at # "idle",
           NEW outcome, Fill(w, outcome), OutcomeIsOwn(outcome, work[w].job)
    PROVE  WorkIsOwn' /\ SlotsAreOwn'
<1> DEFINE j == work[w].job
<1>1. /\ phase' = "running" /\ Jobs' = Jobs
      /\ \A u, i : Own(u, i)' <=> Own(u, i)
      /\ \A u : MadeHere(u)' <=> MadeHere(u)
      /\ \A o, i : OutcomeIsOwn(o, i)' <=> OutcomeIsOwn(o, i)
  BY AroundStays
<1>2. WorkIsOwn /\ SlotsAreOwn /\ j \in Jobs
  BY DEF EvalRunInv, WorkIsOwn
<1>3. /\ DOMAIN work' = Workers /\ work'[w] = Idle
      /\ \A v \in Workers : v # w => work'[v] = work[v]
  BY <1>2 DEF Fill, WorkIsOwn
<1>4. /\ DOMAIN slots' = Jobs /\ slots'[j] = {outcome}
      /\ \A i \in Jobs : i # j => slots'[i] = slots[i]
  BY <1>2 DEF Fill, SlotsAreOwn
<1>5. Idle.at = "idle" /\ Idle = [at |-> Idle.at, job |-> Idle.job, answer |-> Idle.answer,
                                  under |-> Idle.under]
  BY DEF Idle
<1>6. WorkIsOwn'
  <2>1. \A v \in Workers :
           work'[v].at = "storing" => (Own(work[v].under, work[v].job) /\ MadeHere(work[v].under))'
    BY <1>1, <1>2, <1>3, <1>5 DEF WorkIsOwn
  <2>2. QED
    BY <1>1, <1>2, <1>3, <1>5, <2>1 DEF WorkIsOwn
<1>7. SlotsAreOwn'
  <2>1. \A i \in Jobs : i # j /\ slots[i] = {} /\ i < next =>
           \E v \in Workers : work'[v].at # "idle" /\ work'[v].job = i
    BY <1>2, <1>3 DEF SlotsAreOwn
  <2>2. \A i \in Jobs : \/ slots'[i] = {} /\ (i < next' => \E v \in Workers : work'[v].at # "idle" /\ work'[v].job = i)
                        \/ \E o \in slots'[i] : slots'[i] = {o} /\ OutcomeIsOwn(o, i)'
    BY <1>1, <1>2, <1>4, <2>1 DEF SlotsAreOwn
  <2>3. next' \in Nat
    BY <1>2 DEF SlotsAreOwn
  <2>4. QED
    BY <1>1, <1>4, <2>2, <2>3 DEF SlotsAreOwn
<1>8. QED
  BY <1>6, <1>7

LEMMA LoadKeeps ==
    ASSUME EvalRunInv, NEW w \in Workers, Load(w)
    PROVE  EvalRunInv'
<1> DEFINE j == work[w].job
           found == cache[canonical(j)]
<1>1. Around /\ phase = "running" /\ cache' = cache /\ next' = next /\ work[w].at = "loading"
  BY DEF Load, Around
<1>2. /\ ReportsAreOwn' /\ RunIsAdmitted' /\ HashesHold' /\ InstallHolds' /\ phase' = "running"
      /\ Jobs' = Jobs /\ cfg \in Configs /\ Accepts(cfg)
      /\ \A u, i : Own(u, i)' <=> Own(u, i)
      /\ \A u : MadeHere(u)' <=> MadeHere(u)
      /\ \A o, i : OutcomeIsOwn(o, i)' <=> OutcomeIsOwn(o, i)
  BY <1>1, AroundStays
<1>3. WorkIsOwn /\ SlotsAreOwn /\ CacheTells /\ j \in Jobs
  BY <1>1 DEF EvalRunInv, WorkIsOwn
<1>4. CacheTells'
  BY <1>1, <1>3 DEF CacheTells
<1>5. CASE LoadHits(j)
  <2>1. Fill(w, Outcome(j, found.answer, TRUE, found.under))
    BY <1>5 DEF Load
  <2>2. Own(found.under, j)
    BY <1>2, <1>3, <1>5, KeyedIsOwn DEF CacheTells, LoadHits
  <2>3. OutcomeIsOwn(Outcome(j, found.answer, TRUE, found.under), j)
    BY <2>2 DEF Outcome, OutcomeIsOwn
  <2>4. WorkIsOwn' /\ SlotsAreOwn'
    BY <1>1, <2>1, <2>3, FillKeeps
  <2>5. QED
    BY <1>2, <1>4, <2>4 DEF EvalRunInv, ReportsAreOwn
<1>6. CASE ~LoadHits(j)
  <2>1. work' = [work EXCEPT ![w].at = "invoking"] /\ slots' = slots
    BY <1>6 DEF Load
  <2>2. work[w] = [at |-> work[w].at, job |-> work[w].job, answer |-> work[w].answer,
                   under |-> work[w].under]
    BY <1>3 DEF WorkIsOwn
  <2>3. /\ DOMAIN work' = Workers /\ \A v \in Workers : v # w => work'[v] = work[v]
        /\ work'[w] = [work[w] EXCEPT !.at = "invoking"]
    BY <1>3, <2>1 DEF WorkIsOwn
  <2>4. work'[w] = [at |-> "invoking", job |-> j, answer |-> work[w].answer, under |-> work[w].under]
    BY <2>2, <2>3
  <2>5. WorkIsOwn'
    <3>1. \A v \in Workers :
             work'[v].at = "storing" => (Own(work[v].under, work[v].job) /\ MadeHere(work[v].under))'
      BY <1>2, <1>3, <2>3, <2>4 DEF WorkIsOwn
    <3>2. QED
      BY <1>1, <1>2, <1>3, <2>3, <2>4, <3>1 DEF WorkIsOwn
  <2>6. SlotsAreOwn'
    <3>1. \A i \in Jobs : (\E v \in Workers : work[v].at # "idle" /\ work[v].job = i)
                             => \E v \in Workers : work'[v].at # "idle" /\ work'[v].job = i
      BY <2>3, <2>4
    <3>2. QED
      BY <1>1, <1>2, <1>3, <2>1, <3>1 DEF SlotsAreOwn
  <2>7. QED
    BY <1>2, <1>4, <2>5, <2>6 DEF EvalRunInv, ReportsAreOwn
<1>7. QED
  BY <1>5, <1>6

LEMMA InvokeKeeps ==
    ASSUME EvalRunInv, NEW w \in Workers, NEW answer, Invoke(w, answer)
    PROVE  EvalRunInv'
<1> DEFINE j == work[w].job
<1>1. Around /\ phase = "running" /\ cache' = cache /\ next' = next /\ work[w].at = "invoking"
  BY DEF Invoke, Around
<1>2. /\ ReportsAreOwn' /\ RunIsAdmitted' /\ HashesHold' /\ InstallHolds' /\ phase' = "running"
      /\ Jobs' = Jobs
      /\ \A u, i : Own(u, i)' <=> Own(u, i)
      /\ \A u : MadeHere(u)' <=> MadeHere(u)
      /\ \A o, i : OutcomeIsOwn(o, i)' <=> OutcomeIsOwn(o, i)
  BY <1>1, AroundStays
<1>3. WorkIsOwn /\ SlotsAreOwn /\ CacheTells /\ j \in Jobs /\ j < next
  BY <1>1 DEF EvalRunInv, WorkIsOwn
<1>4. CacheTells'
  BY <1>1, <1>3 DEF CacheTells
<1>5. Own(Measured(j), j) /\ MadeHere(Measured(j))
  BY <1>1, MeasuredIsOwn DEF EvalRunInv
<1>6. CASE answer = None \/ ~SameKind(answer, golden.expected)
  <2>1. Fill(w, Outcome(j, None, FALSE, Measured(j)))
    BY <1>6 DEF Invoke
  <2>2. OutcomeIsOwn(Outcome(j, None, FALSE, Measured(j)), j)
    BY <1>5 DEF Outcome, OutcomeIsOwn
  <2>3. WorkIsOwn' /\ SlotsAreOwn'
    BY <1>1, <2>1, <2>2, FillKeeps
  <2>4. QED
    BY <1>2, <1>4, <2>3 DEF EvalRunInv, ReportsAreOwn
<1>7. CASE ~(answer = None \/ ~SameKind(answer, golden.expected))
  <2>1. /\ work' = [work EXCEPT ![w] = [at |-> "storing", job |-> j, answer |-> answer,
                                        under |-> Measured(j)]]
        /\ slots' = slots
    BY <1>7 DEF Invoke
  <2>2. /\ DOMAIN work' = Workers /\ \A v \in Workers : v # w => work'[v] = work[v]
        /\ work'[w] = [at |-> "storing", job |-> j, answer |-> answer, under |-> Measured(j)]
    BY <1>3, <2>1 DEF WorkIsOwn
  <2>3. WorkIsOwn'
    <3>1. ASSUME NEW v \in Workers, work'[v].at = "storing"
          PROVE  Own(work'[v].under, work'[v].job) /\ MadeHere(work'[v].under)
      BY <1>3, <1>5, <2>2, <3>1 DEF WorkIsOwn
    <3>2. \A v \in Workers : \A u, i : u = work'[v].under /\ i = work'[v].job =>
             (Own(u, i)' <=> Own(u, i)) /\ (MadeHere(u)' <=> MadeHere(u))
      BY <1>2
    <3>3. \A v \in Workers :
             work'[v].at = "storing" => (Own(work[v].under, work[v].job) /\ MadeHere(work[v].under))'
      BY <3>1, <3>2
    <3>4. QED
      BY <1>1, <1>2, <1>3, <2>2, <3>3 DEF WorkIsOwn
  <2>4. SlotsAreOwn'
    <3>1. \A i \in Jobs : (\E v \in Workers : work[v].at # "idle" /\ work[v].job = i)
                             => \E v \in Workers : work'[v].at # "idle" /\ work'[v].job = i
      BY <2>2
    <3>2. QED
      BY <1>1, <1>2, <1>3, <2>1, <3>1 DEF SlotsAreOwn
  <2>5. QED
    BY <1>2, <1>4, <2>3, <2>4 DEF EvalRunInv, ReportsAreOwn
<1>8. QED
  BY <1>6, <1>7

LEMMA StoreKeeps ==
    ASSUME EvalRunInv, NEW w \in Workers, NEW written \in BOOLEAN, Store(w, written)
    PROVE  EvalRunInv'
<1> DEFINE j == work[w].job
           outcome == Outcome(j, work[w].answer, FALSE, work[w].under)
<1>1. Around /\ phase = "running" /\ next' = next /\ work[w].at = "storing"
  BY DEF Store, Around
<1>2. ReportsAreOwn' /\ RunIsAdmitted' /\ HashesHold' /\ InstallHolds' /\ cfg \in Configs /\ Accepts(cfg)
  BY <1>1, AroundStays
<1>3. CacheTells /\ Own(work[w].under, j) /\ MadeHere(work[w].under)
  BY <1>1 DEF EvalRunInv, WorkIsOwn
<1>4. OutcomeIsOwn(outcome, j) /\ Fill(w, outcome)
  BY <1>3 DEF Outcome, OutcomeIsOwn, Store
<1>5. WorkIsOwn' /\ SlotsAreOwn'
  BY <1>1, <1>4, FillKeeps
<1>6. CacheTells'
  <2>1. Entry(w, FALSE).under = work[w].under
    BY DEF Entry
  <2>2. cache' = IF keyed.enabled /\ written THEN Put(j, Entry(w, FALSE)) ELSE cache
    BY DEF Store
  <2>3. QED
    BY <1>2, <1>3, <2>1, <2>2, StoredTells DEF CacheTells
<1>7. QED
  BY <1>2, <1>5, <1>6 DEF EvalRunInv, ReportsAreOwn

-------------------------------------------------------------------------------
(* The end of a pass.                                                         *)

LEMMA DoneIsFilled ==
    ASSUME EvalRunInv, PassDone
    PROVE  /\ DOMAIN slots = Jobs
           /\ \A j \in Jobs : \E o \in slots[j] : slots[j] = {o} /\ OutcomeIsOwn(o, j)
           /\ \A w \in Workers : work[w].at = "idle"
<1>1. /\ cfg \in Configs /\ phase = "running" /\ next \notin Jobs /\ SlotsAreOwn
      /\ \A w \in Workers : work[w].at = "idle"
  BY DEF EvalRunInv, RunIsAdmitted, PassDone, Idle
<1>2. /\ Jobs = 0 .. (Cases * cfg.samples - 1) /\ Cases * cfg.samples \in Nat
  BY <1>1, JobsAreNumbered
<1>3. next \in Nat /\ DOMAIN slots = Jobs
  BY <1>1 DEF SlotsAreOwn
<1>4. \A n, m \in Nat : n \notin 0 .. (m - 1) => \A j \in 0 .. (m - 1) : j < n
  OBVIOUS
<1>5. \A j \in Jobs : j < next
  BY <1>1, <1>2, <1>3, <1>4
<1>6. QED
  BY <1>1, <1>3, <1>5 DEF SlotsAreOwn

LEMMA TallyIsWhole ==
    ASSUME EvalRunInv, PassDone
    PROVE  /\ Tally.hits + Tally.misses = Tally.n
           /\ \A j \in DOMAIN Tally.slots :
                 \E o \in Tally.slots[j] : o.job = j /\ (o.pass <=> o.answer = golden.expected)
<1> DEFINE Hits == {j \in Jobs : \A o \in slots[j] : o.hit}
           Misses == {j \in Jobs : \A o \in slots[j] : ~o.hit}
<1>1. /\ DOMAIN slots = Jobs
      /\ \A j \in Jobs : \E o \in slots[j] : slots[j] = {o} /\ OutcomeIsOwn(o, j)
  BY DoneIsFilled
<1>2. Hits \cup Misses = Jobs /\ Hits \cap Misses = {}
  BY <1>1 DEF OutcomeIsOwn
<1>3. IsFiniteSet(Jobs)
  <2>1. cfg \in Configs
    BY DEF EvalRunInv, RunIsAdmitted, PassDone
  <2>2. Jobs = 0 .. (Cases * cfg.samples - 1) /\ Cases * cfg.samples \in Nat
    BY <2>1, JobsAreNumbered
  <2>3. \A n \in Nat : IsFiniteSet(0 .. (n - 1))
    BY FS_Interval
  <2>4. QED
    BY <2>2, <2>3
<1>4. Hits \in SUBSET Jobs /\ Misses \in SUBSET Jobs
  OBVIOUS
<1>5. /\ Tally.hits = Cardinality(Hits) /\ Tally.misses = Cardinality(Misses)
      /\ Tally.n = Cardinality(Jobs) /\ Tally.slots = slots
  BY DEF Tally, Quantify
<1> HIDE DEF Hits, Misses
<1>6. IsFiniteSet(Hits) /\ IsFiniteSet(Misses)
  BY <1>3, <1>4, FS_Subset
<1>7. Cardinality(Jobs) = Cardinality(Hits) + Cardinality(Misses) - Cardinality({})
  BY <1>2, <1>6, FS_Union
<1>8. Cardinality({}) = 0 /\ Cardinality(Hits) \in Nat /\ Cardinality(Misses) \in Nat
  BY <1>6, FS_EmptySet, FS_CardinalityType
<1>9. Tally.hits + Tally.misses = Tally.n
  BY <1>5, <1>7, <1>8
<1>10. QED
  BY <1>1, <1>5, <1>9 DEF OutcomeIsOwn

LEMMA ReportsGrow ==
    ASSUME EvalRunInv, PassDone, reports' = Append(reports, Tally), UNCHANGED golden
    PROVE  ReportsAreOwn'
<1> DEFINE S == {reports[p] : p \in DOMAIN reports}
           T == S \cup {Tally}
<1>1. reports \in Seq(S) /\ ReportIsWhole
  BY DEF EvalRunInv
<1>2. reports \in Seq(T) /\ Tally \in T
  BY <1>1, SeqMonotonic
<1>3. /\ reports' \in Seq(T) /\ Len(reports') = Len(reports) + 1 /\ Len(reports) \in Nat
      /\ reports'[Len(reports) + 1] = Tally
      /\ \A p \in 1..Len(reports) : reports'[p] = reports[p]
      /\ DOMAIN reports = 1..Len(reports) /\ DOMAIN reports' = 1..(Len(reports) + 1)
  BY <1>2, AppendProperties, LenProperties
<1>4. \A p \in DOMAIN reports' : (p \in DOMAIN reports /\ reports'[p] = reports[p]) \/ reports'[p] = Tally
  BY <1>3
<1>5. ReportIsWhole'
  BY <1>1, <1>4, TallyIsWhole DEF ReportIsWhole
<1>6. reports' \in Seq({reports'[p] : p \in DOMAIN reports'})
  <2> DEFINE U == {reports'[p] : p \in DOMAIN reports'}
  <2>1. reports' \in [1..Len(reports') -> T] /\ Len(reports') \in Nat /\ DOMAIN reports' = 1..Len(reports')
    BY <1>3, LenProperties
  <2>2. reports' \in [1..Len(reports') -> U]
    BY <2>1
  <2>3. \A n \in Nat : [1..n -> U] \subseteq Seq(U)
    BY SeqDef
  <2>4. QED
    BY <2>1, <2>2, <2>3
<1>7. QED
  BY <1>5, <1>6 DEF ReportsAreOwn

LEMMA NextPassKeeps ==
    ASSUME EvalRunInv, NextPass
    PROVE  EvalRunInv'
<1>1. PassDone /\ \A w \in Workers : work[w].at = "idle"
  BY DoneIsFilled DEF NextPass
<1>2. ReportsAreOwn'
  BY <1>1, ReportsGrow DEF NextPass
<1>3. CacheTells' /\ RunIsAdmitted' /\ cfg \in Configs /\ cfg' = cfg /\ phase = "running"
  BY DEF EvalRunInv, CacheTells, RunIsAdmitted, NextPass, PassDone
<1>4. WorkIsShaped' /\ \A w \in Workers : work'[w].at = "idle"
  BY <1>1 DEF EvalRunInv, WorkIsOwn, WorkIsShaped, NextPass
<1>5. Jobs' = Jobs
  BY DEF Jobs, NextPass
<1>6. HashesHold'
  BY <1>3 DEF EvalRunInv, HashesHold, NextPass
<1>7. InstallHolds' /\ SlotsAreOwn'
  <2>1. CASE cfg.kind = "ablate"
    BY <2>1 DEF NextPass, InstallHolds, SlotsAreOwn
  <2>2. CASE cfg.kind # "ablate"
    <3>1. phase' = phase /\ dotClaude' = dotClaude
      BY <2>2 DEF NextPass
    <3>2. AgentSha' = AgentSha /\ (NeedsInstall' <=> NeedsInstall)
      BY <2>2 DEF NextPass, AgentSha, NeedsInstall
    <3>3. InstallHolds'
      BY <3>1, <3>2 DEF EvalRunInv, InstallHolds, NextPass
    <3>4. SlotsAreOwn'
      BY <1>3, <1>4, <1>5, <3>1, FreshPassIsOwn DEF FreshPass, NextPass
    <3>5. QED
      BY <3>3, <3>4
  <2>3. QED
    BY <2>1, <2>2
<1>8. QED
  BY <1>2, <1>3, <1>4, <1>6, <1>7 DEF EvalRunInv, WorkIsOwn, WorkIsShaped, ReportsAreOwn

LEMMA FinishKeeps ==
    ASSUME EvalRunInv, Finish
    PROVE  EvalRunInv'
<1>1. PassDone /\ \A w \in Workers : work[w].at = "idle"
  BY DoneIsFilled DEF Finish
<1>2. ReportsAreOwn'
  BY <1>1, ReportsGrow DEF Finish
<1>3. CacheTells'
  BY DEF EvalRunInv, CacheTells, Finish
<1>4. WorkIsShaped' /\ \A w \in Workers : work'[w].at = "idle"
  BY <1>1 DEF EvalRunInv, WorkIsOwn, WorkIsShaped, Finish
<1>5. QED
  BY <1>2, <1>3, <1>4, RunEnds DEF Finish

LEMMA RunStepKeeps ==
    ASSUME EvalRunInv, RunNext
    PROVE  EvalRunInv'
<1>1. CASE \E c \in Configs : Start(c)
  BY <1>1, StartKeeps
<1>2. CASE \E hashable \in BOOLEAN : Key(hashable)
  BY <1>2, KeyKeeps
<1>3. CASE install_agents \/ InstallFails \/ BeginPass
  BY <1>3, InstallKeeps, InstallFailsKeeps, BeginKeeps
<1>4. CASE \E w \in Workers : WorkerStep(w)
  BY <1>4, ClaimKeeps, LoadKeeps, InvokeKeeps, StoreKeeps DEF WorkerStep
<1>5. CASE NextPass \/ PassFails \/ Finish
  BY <1>5, NextPassKeeps, PassFailsKeeps, FinishKeeps
<1>6. CASE \E file : Edit(file)
  BY <1>6, EditKeeps
<1>7. CASE Kill
  BY <1>7, KillKeeps
<1>8. QED
  BY <1>1, <1>2, <1>3, <1>4, <1>5, <1>6, <1>7 DEF RunNext

LEMMA AlwaysEvalRunInv == EvalSpec => []EvalRunInv
<1>1. ASSUME RunInit PROVE EvalRunInv
  <2>1. /\ phase = "idle" /\ reports = <<>> /\ cache = <<>> /\ work = [w \in Workers |-> Idle]
        /\ Idle.at = "idle"
        /\ Idle = [at |-> Idle.at, job |-> Idle.job, answer |-> Idle.answer, under |-> Idle.under]
    BY <1>1 DEF RunInit, Idle
  <2>2. DOMAIN reports = {} /\ \A S : <<>> \in Seq(S)
    BY <2>1
  <2>3. DOMAIN cache = {}
    BY <2>1
  <2>4. QED
    BY <2>1, <2>2, <2>3 DEF EvalRunInv, RunIsAdmitted, HashesHold, InstallHolds, WorkIsOwn, SlotsAreOwn,
                            CacheTells, ReportIsWhole
<1>2. ASSUME EvalRunInv, [EvalNext]_<<cliVars, complianceVars, contextVars, runVars>>
      PROVE  EvalRunInv'
  <2>1. CASE RunNext
    BY <1>2, <2>1, RunStepKeeps
  <2>2. CASE UNCHANGED runVars
    <3>1. UNCHANGED <<project, dotClaude, cache, phase, cfg, golden, keyed, pass, next, work, slots,
                      reports, edited>>
      BY <2>2 DEF runVars
    <3>2. /\ Jobs' = Jobs /\ AgentSha' = AgentSha /\ (NeedsInstall' <=> NeedsInstall)
          /\ \A u, j : Own(u, j)' <=> Own(u, j)
          /\ \A u : MadeHere(u)' <=> MadeHere(u)
          /\ \A o, j : OutcomeIsOwn(o, j)' <=> OutcomeIsOwn(o, j)
      BY <3>1, PassStays
    <3>3. RunIsAdmitted' /\ HashesHold' /\ InstallHolds' /\ CacheTells'
      BY <1>2, <3>1, <3>2 DEF EvalRunInv, RunIsAdmitted, HashesHold, InstallHolds, CacheTells
    <3>4. WorkIsOwn' /\ SlotsAreOwn'
      BY <1>2, <3>1, <3>2 DEF EvalRunInv, WorkIsOwn, SlotsAreOwn
    <3>5. ReportsAreOwn'
      BY <1>2, <3>1, ReportsStay DEF EvalRunInv, ReportsAreOwn
    <3>6. QED
      BY <3>3, <3>4, <3>5 DEF EvalRunInv, ReportsAreOwn
  <2>3. QED
    BY <1>2, <2>1, <2>2 DEF EvalNext, Answer
<1>3. QED
  BY <1>1, <1>2, PTL DEF EvalSpec, EvalInit

\* `eval run`: an outcome that was replayed is a measurement of that very case,
\* question and sample under this binding, backend and turn limit, of the IR that was
\* emitted, and of the agent and the context this run has hashed, unless the project
\* was edited under the run that measured it -- for any number of runs, edits and
\* kills, and any sweep.  The IR that a dispatch spec of codex-local names is exempt.
THEOREM ReplaysAreTheirOwn == EvalSpec => []ReplayIsItsOwn
<1>1. ASSUME EvalRunInv PROVE ReplayIsItsOwn
  BY <1>1 DEF EvalRunInv, SlotsAreOwn, ReplayIsItsOwn, Filled, OutcomeIsOwn, Own
<1>2. QED
  BY <1>1, AlwaysEvalRunInv, PTL

\* `eval run`: whatever order its workers finish in and whatever was replayed, a run
\* reports every job of every binding in its own place, judged by the expectation it
\* began with, its hits and misses add up, and what it did not replay was answered
\* by the agent it has installed.
THEOREM RunsAreTheirOwn == EvalSpec => []RunIsItsOwn
<1>1. ASSUME EvalRunInv PROVE AnsweredByItsAgent
  BY <1>1 DEF EvalRunInv, SlotsAreOwn, AnsweredByItsAgent, Filled, OutcomeIsOwn, Own, MadeHere
<1>2. ASSUME EvalRunInv PROVE RunIsItsOwn
  BY <1>1, <1>2 DEF EvalRunInv, RunIsItsOwn
<1>3. QED
  BY <1>2, AlwaysEvalRunInv, PTL

-------------------------------------------------------------------------------
(* eval verify-context: a hash is a set of files, and what was stamped.        *)

IsModelFile(f) == f.ext \in {"yml", "yaml", "md"} /\ f.dir \notin Skipped

\* The hash of the files as they were.
HashOf(files) == {<<f, files[f]>> : f \in {g \in DOMAIN files : IsModelFile(g)}}

\* A pin that is a hash is that of the files it was stamped over.
ContextInv ==
    /\ DOMAIN versions \subseteq Files /\ DOMAIN stamped \subseteq Files
    /\ goldenFile.pin.is = "sha" => goldenFile.pin.of = HashOf(stamped)
    /\ goldenFile = [pin |-> goldenFile.pin, pinDataset |-> goldenFile.pinDataset,
                     dataset |-> goldenFile.dataset]

\* Equal hashes are those of the same models.
LEMMA HashTellsModels ==
    ASSUME NEW a, NEW b, DOMAIN a \subseteq Files, DOMAIN b \subseteq Files
    PROVE  HashOf(a) = HashOf(b) <=> SameModels(a, b)
<1> DEFINE S(c) == {g \in DOMAIN c : IsModelFile(g)}
<1>1. \A c : HashOf(c) = {<<f, c[f]>> : f \in S(c)}
  BY DEF HashOf
<1>2. ASSUME HashOf(a) = HashOf(b) PROVE SameModels(a, b)
  <2>1. \A f \in S(a) : <<f, a[f]>> \in HashOf(b)
    BY <1>1, <1>2
  <2>2. \A f \in S(b) : <<f, b[f]>> \in HashOf(a)
    BY <1>1, <1>2
  <2>3. \A f \in S(a) : f \in S(b) /\ a[f] = b[f]
    BY <1>1, <2>1
  <2>4. \A f \in S(b) : f \in S(a)
    BY <1>1, <2>2
  <2>5. QED
    BY <2>3, <2>4 DEF SameModels, IsModelFile
<1>3. ASSUME SameModels(a, b) PROVE HashOf(a) = HashOf(b)
  <2>1. \A f \in Files : IsModelFile(f) => (f \in DOMAIN a <=> f \in DOMAIN b)
    BY <1>3 DEF SameModels, IsModelFile
  <2>2. \A f \in Files : IsModelFile(f) /\ f \in DOMAIN a => a[f] = b[f]
    BY <1>3, <2>1 DEF SameModels, IsModelFile
  <2>3. S(a) = S(b) /\ \A f \in S(a) : a[f] = b[f]
    BY <2>1, <2>2
  <2>4. QED
    BY <1>1, <2>3
<1>4. QED
  BY <1>2, <1>3

LEMMA HashIsOfModels == compute_mdl_sha = HashOf(versions)
BY DEF compute_mdl_sha, HashOf, mdl_files, IsModelFile

LEMMA StampedShape ==
    ASSUME NEW g, g = [pin |-> g.pin, pinDataset |-> g.pinDataset, dataset |-> g.dataset],
           NEW p, NEW q,
           NEW h, h = [g EXCEPT !.pin = p, !.pinDataset = q]
    PROVE  h.pin = p /\ h = [pin |-> h.pin, pinDataset |-> h.pinDataset, dataset |-> h.dataset]
<1>1. DOMAIN g = {"pin", "pinDataset", "dataset"}
  OBVIOUS
<1>2. h = [pin |-> p, pinDataset |-> q, dataset |-> g.dataset]
  BY <1>1
<1>3. QED
  BY <1>2

LEMMA ContextStepKeeps ==
    ASSUME ContextInv, ContextNext
    PROVE  ContextInv'
<1>1. CASE \E strict \in BOOLEAN : VerifyContext(strict)
  BY <1>1 DEF VerifyContext, ContextInv, HashOf
<1>2. CASE Stamp
  <2>1. PICK q : goldenFile' = [goldenFile EXCEPT !.pin = [is |-> "sha", of |-> compute_mdl_sha],
                                                   !.pinDataset = q]
    BY <1>2, Zenon DEF Stamp, stamp_context_version
  <2>2. PICK p : p = [is |-> "sha", of |-> compute_mdl_sha]
    OBVIOUS
  <2>3. /\ goldenFile'.pin = p
        /\ goldenFile' = [pin |-> goldenFile'.pin, pinDataset |-> goldenFile'.pinDataset,
                          dataset |-> goldenFile'.dataset]
    BY <2>1, <2>2, StampedShape DEF ContextInv
  <2>4. stamped' = versions /\ versions' = versions
    BY <1>2 DEF Stamp
  <2>5. goldenFile'.pin.of = HashOf(versions)
    BY <2>2, <2>3, HashIsOfModels
  <2>6. QED
    BY <2>3, <2>4, <2>5 DEF ContextInv
<1>3. CASE \E f \in Files : WriteFile(f)
  <2>1. DOMAIN versions' \subseteq Files
    BY <1>3 DEF WriteFile, ContextInv
  <2>2. goldenFile' = goldenFile /\ stamped' = stamped
    BY <1>3 DEF WriteFile
  <2>3. QED
    BY <2>1, <2>2 DEF ContextInv
<1>4. CASE \E captured \in BOOLEAN : Capture("case", captured)
  BY <1>4 DEF Capture, ContextInv
<1>5. QED
  BY <1>1, <1>2, <1>3, <1>4 DEF ContextNext

LEMMA AlwaysContextInv == EvalSpec => []ContextInv
<1>1. ASSUME EvalInit PROVE ContextInv
  <2>1. CASE ContextInit
    <3>1. stamped = versions /\ DOMAIN versions \subseteq Files
      BY <2>1, Zenon DEF ContextInit
    <3>2. goldenFile.pin.is # "sha"
      <4>1. goldenFile.pin \in {[is |-> "symbolic", of |-> {}], [is |-> "none", of |-> {}]}
        BY <2>1, Zenon DEF ContextInit
      <4>2. QED
        BY <4>1
    <3>3. goldenFile = [pin |-> goldenFile.pin, pinDataset |-> goldenFile.pinDataset,
                        dataset |-> goldenFile.dataset]
      <4>1. PICK P, Q, D : goldenFile \in [pin : P, pinDataset : Q, dataset : D]
        BY <2>1, Zenon DEF ContextInit
      <4>2. QED
        BY <4>1
    <3>4. QED
      BY <3>1, <3>2, <3>3 DEF ContextInv
  <2>2. CASE ContextIdle
    <3>1. versions = <<>> /\ stamped = <<>>
      BY <2>2, Zenon DEF ContextIdle
    <3>9. DOMAIN versions = {}
      BY <3>1
    <3>2. PICK q : goldenFile = [pin |-> [is |-> "none", of |-> {}], pinDataset |-> q, dataset |-> q]
      BY <2>2, Zenon DEF ContextIdle
    <3>3. QED
      BY <3>1, <3>9, <3>2 DEF ContextInv
  <2>3. QED
    BY <1>1, <2>1, <2>2 DEF EvalInit
<1>2. ASSUME ContextInv, [EvalNext]_<<cliVars, complianceVars, contextVars, runVars>>
      PROVE  ContextInv'
  <2>1. CASE ContextNext
    BY <1>2, <2>1, ContextStepKeeps
  <2>2. CASE UNCHANGED contextVars
    BY <1>2, <2>2 DEF ContextInv, HashOf, contextVars
  <2>3. QED
    BY <1>2, <2>1, <2>2 DEF EvalNext, Answer
<1>3. QED
  BY <1>1, <1>2, PTL DEF EvalSpec

\* `eval verify-context`: a golden file that was stamped is called stale exactly
\* when a model file has been written, added or taken away since, after any number
\* of stamps, writes and captures.
THEOREM StaleGoldensHaveMoved == EvalSpec => StaleMeansMoved
<1>1. ASSUME ContextInv,
             NEW strict \in BOOLEAN, VerifyContext(strict), goldenFile.pin.is = "sha", mdl_files # {}
      PROVE  said'.freshness = "stale" <=> ~SameModels(stamped, versions)
  <2>1. said'.freshness = classify(goldenFile.pin)
    BY <1>1, Zenon DEF VerifyContext, verify_context, Said
  <2>2. classify(goldenFile.pin) = "stale" <=> HashOf(stamped) # HashOf(versions)
    BY <1>1, HashIsOfModels DEF classify, ContextInv
  <2>3. QED
    BY <1>1, <2>1, <2>2, HashTellsModels DEF ContextInv
<1>2. ASSUME ContextInv
      PROVE  [\A strict \in BOOLEAN : VerifyContext(strict) /\ goldenFile.pin.is = "sha" /\ mdl_files # {} =>
                  (said'.freshness = "stale" <=> ~SameModels(stamped, versions))]_contextVars
  BY <1>1, <1>2
<1>3. QED
  BY <1>2, AlwaysContextInv, PTL DEF StaleMeansMoved

-------------------------------------------------------------------------------
(* The commands that read and answer.                                        *)

AnswersInv ==
    /\ answered \in BOOLEAN
    /\ cmd \notin Machines => PureInput
    /\ answered => cmd \notin Machines /\ verdict = VerdictOn(asked)

LEMMA VerdictStays ==
    ASSUME NEW a, UNCHANGED cmd
    PROVE  VerdictOn(a)' = VerdictOn(a)
BY Zenon DEF VerdictOn

LEMMA AlwaysAnswersInv == EvalSpec => []AnswersInv
<1>1. ASSUME EvalInit PROVE AnswersInv
  <2>1. answered = FALSE /\ (PureInput \/ cmd \in Machines)
    BY <1>1, Zenon DEF EvalInit
  <2>2. QED
    BY <2>1 DEF AnswersInv
<1>2. ASSUME AnswersInv, [EvalNext]_<<cliVars, complianceVars, contextVars, runVars>>
      PROVE  AnswersInv'
  <2>1. CASE Answer
    <3>1. /\ cmd' = cmd /\ asked' = asked /\ answered' = TRUE /\ cmd \notin Machines
          /\ verdict' = VerdictOn(asked)
      BY <2>1, Zenon DEF Answer
    <3>2. PureInput' <=> PureInput
      BY <3>1, Zenon DEF PureInput
    <3>3. VerdictOn(asked') = VerdictOn(asked)
      BY <3>1
    <3>4. VerdictOn(asked)' = VerdictOn(asked)
      BY <3>1, Zenon DEF VerdictOn
    <3>5. verdict' = VerdictOn(asked)'
      BY <3>1, <3>4
    <3>6. QED
      BY <1>2, <3>1, <3>2, <3>5, Zenon DEF AnswersInv, Machines
  <2>2. CASE UNCHANGED cliVars
    <3>1. UNCHANGED <<cmd, asked, answered, verdict>>
      BY <2>2 DEF cliVars
    <3>2. (PureInput' <=> PureInput) /\ (Machines)' = Machines
      BY <3>1, Zenon DEF PureInput, Machines
    <3>3. VerdictOn(asked)' = VerdictOn(asked)
      BY <3>1, Zenon DEF VerdictOn
    <3>4. QED
      BY <1>2, <3>1, <3>2, <3>3, Zenon DEF AnswersInv
  <2>3. QED
    BY <1>2, <2>1, <2>2 DEF EvalNext, cliVars
<1>3. QED
  BY <1>1, <1>2, PTL DEF EvalSpec

\* What was asked of each command.
LEMMA AskedOf ==
    ASSUME AnswersInv, answered
    PROVE  /\ verdict = VerdictOn(asked)
           /\ cmd = "compare" => asked \in CompareAsked
           /\ cmd = "report" => asked \in ReportAsked
           /\ cmd = "gate" => asked \in GateAsked
           /\ cmd = "select" => asked \in SelectAsked
           /\ cmd = "ablate" => asked \in AblateAsked
           /\ cmd = "monitor" => asked \in MonitorAsked
           /\ cmd = "binding" => asked \in BindingAsked
<1>1. verdict = VerdictOn(asked) /\ PureInput
  BY Zenon DEF AnswersInv
<1>2. QED
  BY <1>1 DEF PureInput

-------------------------------------------------------------------------------
(* eval run: the binding.                                                      *)

\* The rows are those that were sent, or their cells in the order of the columns.
Unmoved(back, sent) ==
    /\ back.columns = sent.columns
    /\ \A i \in DOMAIN sent.rows :
          \/ back.rows[i].is = sent.rows[i].is /\ back.rows[i] = sent.rows[i]
          \/ /\ back.rows[i].is = "array"
             /\ \A c \in DOMAIN sent.columns : back.rows[i].cells[c] = sent.rows[i].cells[sent.columns[c]]

LEMMA RowsComeBack ==
    ASSUME NEW a \in BindingAsked, NEW args
    PROVE  Unmoved(AdapterResult(a, args, a.process).out, a.process.out)
<1>1. PICK out : out = a.process.out /\ {"columns", "rows"} \subseteq DOMAIN out
  BY BindingAssumption
<1> DEFINE back == AdapterResult(a, args, a.process).out
<1>2. \/ back = out
      \/ back = normalize_codex_local_ask_stdout(out)
  BY <1>1 DEF AdapterResult, normalize_codex_local_stdout
<1> DEFINE rows == [i \in DOMAIN out.rows |->
                       [is |-> "array", cells |-> [c \in DOMAIN out.columns |-> out.rows[i].cells[out.columns[c]]]]]
<1> HIDE DEF back
<1>3. back = out \/ back = [out EXCEPT !.rows = rows]
  BY <1>2, Zenon DEF normalize_codex_local_ask_stdout
<1>4. CASE back = out
  BY <1>1, <1>4 DEF back, Unmoved
<1>5. CASE back = [out EXCEPT !.rows = rows]
  <2>1. \A i \in DOMAIN out.rows : rows[i].is = "array" /\ \A c \in DOMAIN out.columns :
            rows[i].cells[c] = out.rows[i].cells[out.columns[c]]
    OBVIOUS
  <2> HIDE DEF rows
  <2>2. back.columns = out.columns /\ back.rows = rows
    BY <1>1, <1>5
  <2>3. Unmoved(back, out)
    BY <2>1, <2>2 DEF Unmoved
  <2>4. QED
    BY <1>1, <2>3 DEF back
<1>6. QED
  BY <1>3, <1>4, <1>5

\* What the command line of a binding that is not refused holds.
LEMMA ArgsAreGiven ==
    ASSUME NEW a \in BindingAsked, Honourable(a), NEW p \in DOMAIN model_overrides(a),
           NEW args, args = InvocationArgs(a, model_overrides(a)[p]), args.ok
    PROVE  /\ args.maxTurns = a.maxTurns
           /\ a.settings = "there" /\ a.backend = DefaultBackend => args.settings
           /\ IF a.file.given \/ a.flags # NoTiers
              THEN /\ args.tiers = IF a.file.given THEN a.file.tiers ELSE a.flags
                   /\ \A t \in Tiers : args.tiers[t] # NotGiven
              ELSE args.tiers = IF a.models[p] = FRONTMATTER_MODEL THEN NoTiers ELSE AllTiers(a.models[p])
<1> DEFINE binding == resolve_tier_models(a)
           override == model_overrides(a)[p]
<1>1. /\ a.flags = [t \in Tiers |-> a.flags[t]] /\ a.backend \in Backends
      /\ a.file.given \in BOOLEAN
  BY BindingAssumption
<1>2. /\ binding.ok /\ a.backend # "vercel"
      /\ a.maxTurns # NotGiven \/ binding.some => a.backend = "claude-agent-sdk"
      /\ binding.some => \A t \in Tiers : binding.tiers[t] # NotGiven
  BY Zenon DEF Honourable
<1>3. IF a.file.given \/ a.flags # NoTiers
      THEN binding.some /\ binding.tiers = IF a.file.given THEN a.file.tiers ELSE a.flags
      ELSE ~binding.some
  <2> DEFINE given == {t \in Tiers : a.flags[t] # NotGiven}
  <2>1. CASE a.file.given
    BY <2>1 DEF resolve_tier_models
  <2>2. CASE ~a.file.given
    <3>1. given \in {{}, Tiers}
      BY <1>2, <2>2 DEF resolve_tier_models
    <3>2. binding = [ok |-> TRUE, some |-> given = Tiers, tiers |-> a.flags]
      BY <2>2, <3>1 DEF resolve_tier_models
    <3>3. binding.some = (given = Tiers) /\ binding.tiers = a.flags
      BY <3>2
    <3>4. given = {} <=> a.flags = NoTiers
      BY <1>1 DEF NoTiers
    <3>5. Tiers # {}
      BY DEF Tiers
    <3>6. QED
      BY <2>2, <3>1, <3>3, <3>4, <3>5
  <2>3. QED
    BY <1>1, <2>1, <2>2
<1>4. CASE binding.some
  <2>1. override = [is |-> "tiered", tiers |-> binding.tiers]
    BY <1>4 DEF model_overrides
  <2>2. a.backend = "claude-agent-sdk"
    BY <1>2, <1>4
  <2>3. args = [ok |-> TRUE, tiers |-> binding.tiers, maxTurns |-> a.maxTurns, settings |-> FALSE, steps |-> {}]
    BY <2>1, <2>2 DEF InvocationArgs, build_claude_agent_sdk_dispatch_args, Args
  <2>4. QED
    BY <1>2, <1>3, <1>4, <2>2, <2>3 DEF DefaultBackend
<1>5. CASE ~binding.some
  <2>1. override = IF a.models[p] = FRONTMATTER_MODEL THEN [is |-> "none", tiers |-> NoTiers]
                   ELSE [is |-> "flat", tiers |-> AllTiers(a.models[p])]
    BY <1>5 DEF model_overrides
  <2>2. /\ override.is # "tiered"
        /\ override.tiers = IF a.models[p] = FRONTMATTER_MODEL THEN NoTiers ELSE AllTiers(a.models[p])
    BY <2>1
  <2> HIDE DEF override, binding
  <2>3. CASE a.backend = "claude-code-cli"
    <3>1. args = [ok |-> TRUE, tiers |-> override.tiers, maxTurns |-> NotGiven,
                  settings |-> a.settings = "there", steps |-> {}]
      BY <2>3, Zenon DEF InvocationArgs, ClaudeCodeCliArgs, Args, NotStarted, override
    <3>2. args.tiers = override.tiers /\ args.maxTurns = NotGiven
          /\ args.settings = (a.settings = "there")
      BY <3>1
    <3>3. a.maxTurns = NotGiven
      BY <1>2, <2>3
    <3>4. a.settings = "there" => args.settings
      BY <3>2, Zenon
    <3>5. QED
      BY <1>3, <1>5, <2>2, <3>2, <3>3, <3>4
  <2>4. CASE a.backend = "claude-agent-sdk"
    <3>1. args = [ok |-> TRUE, tiers |-> override.tiers, maxTurns |-> a.maxTurns,
                  settings |-> FALSE, steps |-> {}]
      BY <2>4 DEF InvocationArgs, build_claude_agent_sdk_dispatch_args, Args, override
    <3>2. QED
      BY <1>2, <1>3, <1>5, <2>2, <2>4, <3>1 DEF DefaultBackend
  <2>5. CASE a.backend = "codex-local"
    <3>1. args = build_dispatch_args(a.spec, override)
      BY <2>5 DEF InvocationArgs, override
    <3>2. NotStarted.ok = FALSE
      BY DEF NotStarted
    <3>3. args.tiers = override.tiers /\ args.maxTurns = NotGiven
      BY <2>2, <3>1, <3>2 DEF build_dispatch_args, build_setup_dispatch_args, build_ask_dispatch_args, Args
    <3>4. QED
      BY <1>2, <1>3, <1>5, <2>2, <2>5, <3>3 DEF DefaultBackend
  <2>6. QED
    BY <1>1, <1>2, <2>3, <2>4, <2>5 DEF Backends
<1>6. QED
  BY <1>4, <1>5

\* `eval run`: a binding that is not refused reaches the backend as it was given,
\* with the turn limit and the installed settings, and of the rows that come back
\* no cell is moved to another column -- for any flags, models and output.
THEOREM BindingsAreHonoured == EvalSpec => []BindingIsHonoured
<1>1. ASSUME AnswersInv, Gave("binding"), NEW p \in DOMAIN verdict, verdict[p].args.ok
      PROVE  LET args == verdict[p].args
                 given == IF asked.file.given THEN asked.file.tiers ELSE asked.flags
                 sent == asked.process.out
                 back == verdict[p].result.out
             IN  /\ back.columns = sent.columns
                 /\ \A i \in DOMAIN sent.rows :
                       \/ back.rows[i].is = sent.rows[i].is /\ back.rows[i] = sent.rows[i]
                       \/ /\ back.rows[i].is = "array"
                          /\ \A c \in DOMAIN sent.columns :
                                 back.rows[i].cells[c] = sent.rows[i].cells[sent.columns[c]]
                 /\ args.maxTurns = asked.maxTurns
                 /\ asked.settings = "there" /\ asked.backend = DefaultBackend => args.settings
                 /\ IF asked.file.given \/ asked.flags # NoTiers
                    THEN args.tiers = given /\ NotGiven \notin {given[t] : t \in Tiers}
                    ELSE args.tiers = IF asked.models[p] = FRONTMATTER_MODEL THEN NoTiers
                                      ELSE AllTiers(asked.models[p])
  <2>1. asked \in BindingAsked /\ verdict = VerdictOn(asked) /\ cmd = "binding"
    BY <1>1, AskedOf DEF Gave
  <2>2. verdict = IF Honourable(asked)
                  THEN [q \in DOMAIN model_overrides(asked) |->
                           LET args == InvocationArgs(asked, model_overrides(asked)[q])
                           IN  [args |-> args, result |-> AdapterResult(asked, args, asked.process)]]
                  ELSE <<>>
    BY <2>1 DEF VerdictOn
  <2>3. Honourable(asked)
    BY <1>1, <2>2
  <2>4. PICK args : args = InvocationArgs(asked, model_overrides(asked)[p])
    OBVIOUS
  <2>5. p \in DOMAIN model_overrides(asked) /\ verdict[p].args = args
        /\ verdict[p].result = AdapterResult(asked, args, asked.process)
    BY <1>1, <2>2, <2>3, <2>4
  <2>6. PICK back : back = AdapterResult(asked, args, asked.process).out /\ back = verdict[p].result.out
    BY <2>5
  <2>7. Unmoved(back, asked.process.out)
    BY <2>1, <2>6, RowsComeBack
  <2>8. /\ args.maxTurns = asked.maxTurns
        /\ asked.settings = "there" /\ asked.backend = DefaultBackend => args.settings
        /\ IF asked.file.given \/ asked.flags # NoTiers
           THEN /\ args.tiers = IF asked.file.given THEN asked.file.tiers ELSE asked.flags
                /\ \A t \in Tiers : args.tiers[t] # NotGiven
           ELSE args.tiers = IF asked.models[p] = FRONTMATTER_MODEL THEN NoTiers ELSE AllTiers(asked.models[p])
    BY <1>1, <2>1, <2>3, <2>4, <2>5, ArgsAreGiven
  <2>9. QED
    BY <2>5, <2>6, <2>7, <2>8 DEF Unmoved
<1>2. ASSUME AnswersInv PROVE BindingIsHonoured
  BY <1>1, <1>2, Zenon DEF BindingIsHonoured
<1>3. QED
  BY <1>2, AlwaysAnswersInv, PTL

-------------------------------------------------------------------------------
(* eval compare: what rounding and multisets cannot hide.                      *)

TableType == Seq(Seq(Cells))

\* The elements of s in another order are those of t.
Rearranged(s, t, m, n) ==
    m = n /\ \E p \in Bijection(1..m, 1..n) : \A i \in 1..m : s[i] = t[p[i]]

\* Sequences of one bag are rearrangements of each other.
LEMMA SameBagRearranges ==
    ASSUME NEW m \in Nat, NEW n \in Nat, NEW s, NEW t, DOMAIN s = 1..m, DOMAIN t = 1..n,
           ToBag(s) = ToBag(t)
    PROVE  Rearranged(s, t, m, n)
<1> DEFINE F(x) == {i \in 1..m : s[i] = x}
           G(x) == {i \in 1..n : t[i] = x}
           R == {s[i] : i \in 1..m}
           Q == {t[i] : i \in 1..n}
<1>1. R = Q /\ \A x \in R : Cardinality(F(x)) = Cardinality(G(x))
  <2>1. ToBag(s) = [x \in R |-> Cardinality(F(x))]
    BY Zenon DEF ToBag, Range
  <2>2. ToBag(t) = [x \in Q |-> Cardinality(G(x))]
    BY Zenon DEF ToBag, Range
  <2> HIDE DEF F, G, R, Q
  <2>3. PICK b : b = ToBag(s)
    OBVIOUS
  <2>4. DOMAIN b = R /\ DOMAIN b = Q
    BY <2>1, <2>2, <2>3
  <2>5. \A x \in R : b[x] = Cardinality(F(x)) /\ b[x] = Cardinality(G(x))
    BY <2>1, <2>2, <2>3, <2>4
  <2>6. QED
    BY <2>4, <2>5
<1>2. \A x \in R : Bijection(F(x), G(x)) # {}
  <2> TAKE x \in R
  <2>1. IsFiniteSet(F(x)) /\ IsFiniteSet(G(x))
    <3>1. IsFiniteSet(1..m) /\ IsFiniteSet(1..n)
      BY FS_Interval
    <3>2. QED
      BY <3>1, FS_Subset
  <2> HIDE DEF F, G, R
  <2>2. QED
    BY <1>1, <2>1, FS_SameCardinalityBij DEF ExistsBijection
<1> DEFINE b == [x \in R |-> CHOOSE f \in Bijection(F(x), G(x)) : TRUE]
           p == [i \in 1..m |-> b[s[i]][i]]
<1>3. \A x \in R : b[x] \in Bijection(F(x), G(x))
  BY <1>2
<1>4. \A x \in R : /\ b[x] \in [F(x) -> G(x)]
                   /\ \A i, j \in F(x) : b[x][i] = b[x][j] => i = j
                   /\ \A k \in G(x) : \E i \in F(x) : b[x][i] = k
  <2> HIDE DEF F, G, R, b
  <2>1. QED
    BY <1>3 DEF Bijection, Injection, Surjection, IsInjective
<1> HIDE DEF b
<1>5. \A i \in 1..m : s[i] \in R /\ i \in F(s[i]) /\ p[i] = b[s[i]][i] /\ p[i] \in G(s[i])
  <2> TAKE i \in 1..m
  <2>1. s[i] \in R /\ i \in F(s[i]) /\ p[i] = b[s[i]][i]
    OBVIOUS
  <2>2. b[s[i]] \in [F(s[i]) -> G(s[i])]
    <3> HIDE DEF F, G, R
    <3>1. QED
      BY <1>4, <2>1
  <2> HIDE DEF F, G, R, p
  <2>3. QED
    BY <2>1, <2>2
<1>6. p \in [1..m -> 1..n] /\ \A i \in 1..m : s[i] = t[p[i]]
  BY <1>5
<1>7. \A i, j \in 1..m : p[i] = p[j] => i = j
  <2> TAKE i, j \in 1..m
  <2> HAVE p[i] = p[j]
  <2>1. s[i] = s[j]
    BY <1>6
  <2>2. b[s[i]][i] = b[s[i]][j] /\ i \in F(s[i]) /\ j \in F(s[i]) /\ s[i] \in R
    BY <1>5, <2>1
  <2> HIDE DEF F, G, R, p
  <2>3. QED
    BY <1>4, <2>2
<1>8. \A k \in 1..n : \E i \in 1..m : p[i] = k
  <2> TAKE k \in 1..n
  <2>1. t[k] \in R /\ k \in G(t[k])
    BY <1>1
  <2>2. PICK i \in F(t[k]) : b[t[k]][i] = k
    <3> HIDE DEF F, G, R
    <3>1. QED
      BY <1>4, <2>1
  <2>3. i \in 1..m /\ s[i] = t[k]
    BY <2>2
  <2>4. p[i] = k
    BY <2>2, <2>3
  <2>5. QED
    BY <2>3, <2>4
<1> HIDE DEF p
<1>9. p \in Bijection(1..m, 1..n)
  BY <1>6, <1>7, <1>8 DEF Bijection, Injection, Surjection, IsInjective
<1>10. m = n
  <2>1. Cardinality(1..m) = m /\ Cardinality(1..n) = n /\ IsFiniteSet(1..m)
    BY FS_Interval
  <2>2. ExistsBijection(1..m, 1..n)
    BY <1>9 DEF ExistsBijection
  <2>3. Cardinality(1..n) = Cardinality(1..m)
    <3>1. PICK S, T : S = 1..m /\ T = 1..n
      OBVIOUS
    <3>2. QED
      BY <2>1, <2>2, <3>1, FS_Bijection
  <2>4. QED
    BY <2>1, <2>3
<1>11. QED
  BY <1>6, <1>9, <1>10 DEF Rearranged

\* Numbers that round alike are closer than a step of the grid.
LEMMA RoundAlike ==
    ASSUME NEW a \in Int, NEW b \in Int, NEW u \in Nat \ {0}, Rounded(a, u) = Rounded(b, u)
    PROVE  AbsOf(a - b) <= u
<1> DEFINE x == 2 * AbsOf(a) + u
           y == 2 * AbsOf(b) + u
           q == x \div (2 * u)
           r == y \div (2 * u)
<1>1. AbsOf(a) \in Nat /\ AbsOf(b) \in Nat /\ x \in Nat /\ y \in Nat /\ 2 * u \in Nat \ {0}
  BY DEF AbsOf
<1>2. ASSUME NEW m \in Nat, NEW d \in Nat \ {0}
      PROVE  m \div d \in Nat /\ d * (m \div d) <= m /\ m < d * (m \div d) + d
  OBVIOUS
<1>3. /\ q \in Nat /\ r \in Nat
      /\ (2 * u) * q <= x /\ x < (2 * u) * q + 2 * u
      /\ (2 * u) * r <= y /\ y < (2 * u) * r + 2 * u
  BY <1>1, <1>2
<1>4. (a < 0 => -q = Rounded(a, u)) /\ (a >= 0 => q = Rounded(a, u))
  BY DEF Rounded
<1>5. (b < 0 => -r = Rounded(b, u)) /\ (b >= 0 => r = Rounded(b, u))
  BY DEF Rounded
<1> HIDE DEF q, r
<1>6. CASE q = r /\ (a < 0 <=> b < 0)
  <2>1. PICK p \in Int : p = (2 * u) * q
    BY <1>3
  <2>2. p <= x /\ x < p + 2 * u /\ p <= y /\ y < p + 2 * u
    BY <1>3, <1>6, <2>1
  <2>3. QED
    BY <1>6, <2>2 DEF AbsOf
<1>7. CASE q = 0 /\ r = 0
  <2>1. (2 * u) * q = 0 /\ (2 * u) * r = 0
    BY <1>7
  <2>2. x < 2 * u /\ y < 2 * u
    BY <1>3, <2>1
  <2>3. QED
    BY <2>2 DEF AbsOf
<1>8. PICK R \in Int : R = Rounded(a, u) /\ R = Rounded(b, u)
  BY <1>3, <1>4
<1>9. \/ q = r /\ (a < 0 <=> b < 0)
      \/ q = 0 /\ r = 0
  <2>1. (a < 0 => -q = R) /\ (a >= 0 => q = R) /\ (b < 0 => -r = R) /\ (b >= 0 => r = R)
    BY <1>4, <1>5, <1>8
  <2>2. q \in Nat /\ r \in Nat
    BY <1>3
  <2>3. QED
    BY ONLY <2>1, <2>2, a \in Int, b \in Int, R \in Int
<1>10. QED
  BY <1>6, <1>7, <1>9

LEMMA GridIsWithinTolerance ==
    ASSUME NEW tol \in Int
    PROVE  /\ GridStep(tol) \in Nat \ {0}
           /\ GridStep(tol) <= IF tol <= 0 THEN Finest ELSE tol
<1>0. Finest \in Nat \ {0} /\ 1 \in Grids /\ \A u \in Grids : u \in Nat \ {0}
  BY GridAssumption
<1>1. CASE tol <= 0
  <2>1. GridStep(tol) = Finest
    BY <1>1 DEF GridStep
  <2>2. QED
    BY <1>0, <1>1, <2>1
<1>2. CASE tol > 0
  <2> DEFINE S == {u \in Grids : u <= tol}
  <2>1. S \in SUBSET (1..tol) /\ 1 \in S /\ tol \in Nat
    <3>1. tol \in Nat /\ 1 <= tol
      BY <1>2
    <3>2. \A u \in S : u \in 1..tol
      BY <1>0, <3>1
    <3>3. 1 \in S
      BY <1>0, <3>1
    <3>4. QED
      BY <3>1, <3>2, <3>3
  <2> HIDE DEF S
  <2>2. \E x \in S : \A y \in S : x >= y
    <3>1. S # {}
      BY <2>1
    <3>2. PICK x \in S : \A y \in S : y <= x
      BY <2>1, <3>1, GreatestNatural
    <3>3. S \subseteq Int
      BY <2>1
    <3>4. QED
      BY <3>2, <3>3
  <2>3. Max(S) \in S
    BY <2>2, Zenon DEF Max
  <2>4. GridStep(tol) = Max(S)
    BY <1>2 DEF GridStep, S
  <2>5. QED
    <3>1. Max(S) \in Grids /\ Max(S) <= tol
      BY <2>3 DEF S
    <3>2. QED
      BY <1>0, <1>2, <2>4, <3>1
<1>3. QED
  BY <1>1, <1>2, tol \in Int

\* Cells that are given one place are equal within the tolerance, unless one of them
\* has no place of its own.
LEMMA AlikeAgrees ==
    ASSUME NEW tol \in Int, NEW c \in Cells, NEW d \in Cells,
           normalize_cell(c, GridStep(tol)) = normalize_cell(d, GridStep(tol))
    PROVE  CellsAgree(c, d, tol)
<1>1. PICK u \in Nat \ {0} : u = GridStep(tol) /\ u <= IF tol <= 0 THEN Finest ELSE tol
  BY GridIsWithinTolerance
<1>2. PICK t \in Int : t = (IF tol <= 0 THEN Finest ELSE tol) /\ u <= t
  <2>1. Finest \in Nat \ {0} /\ 1 \in Grids /\ \A g \in Grids : g \in Nat \ {0}
    BY GridAssumption
  <2>2. QED
    BY <1>1, <2>1
<1>3. CASE as_number(c) /\ as_number(d)
  <2>1. round_to_grid(c, u) = round_to_grid(d, u)
    BY <1>1, <1>3 DEF normalize_cell, Num
  <2>2. CASE HasPlace(c, u) /\ HasPlace(d, u)
    <3>1. c.is = "num" /\ d.is = "num" /\ c.of \in Int /\ d.of \in Int
      BY <2>2 DEF HasPlace, Cells, NaN, Infinite
    <3>2. Rounded(c.of, u) = Rounded(d.of, u)
      BY <2>1, <2>2, <3>1 DEF HasPlace, round_to_grid
    <3>3. AbsOf(c.of - d.of) <= u /\ AbsOf(c.of - d.of) \in Int
      BY <3>1, <3>2, RoundAlike DEF AbsOf
    <3>4. AbsOf(c.of - d.of) <= t
      BY <1>2, <3>3
    <3>5. cells_equal(c, d, t)
      BY <1>3, <3>1, <3>4 DEF cells_equal
    <3>6. QED
      BY <1>2, <3>5 DEF CellsAgree
  <2>3. CASE ~HasPlace(c, u) \/ ~HasPlace(d, u)
    BY <1>1, <1>3, <2>1, <2>3 DEF CellsAgree, OnePlace
  <2>4. QED
    BY <2>2, <2>3
<1>4. CASE ~as_number(c) /\ ~as_number(d)
  BY <1>4 DEF normalize_cell, CellsAgree, cells_equal
<1>5. CASE as_number(c) /\ ~as_number(d)
  <2>1. d.is # "num"
    BY <1>5 DEF as_number
  <2>2. QED
    BY <1>5, <2>1 DEF normalize_cell, Num
<1>6. CASE ~as_number(c) /\ as_number(d)
  <2>1. c.is # "num"
    BY <1>6 DEF as_number
  <2>2. QED
    BY <1>6, <2>1 DEF normalize_cell, Num
<1>7. QED
  BY <1>3, <1>4, <1>5, <1>6

\* Rows of one multiset agree.
LEMMA AlikeRowsAgree ==
    ASSUME NEW tol \in Int, NEW r \in Seq(Cells), NEW s \in Seq(Cells),
           normalize_row(r, GridStep(tol)) = normalize_row(s, GridStep(tol))
    PROVE  RowsAgree(r, s, tol)
<1> DEFINE u == GridStep(tol)
           x == [i \in DOMAIN r |-> normalize_cell(r[i], u)]
           y == [i \in DOMAIN s |-> normalize_cell(s[i], u)]
<1>1. /\ Len(r) \in Nat /\ Len(s) \in Nat /\ DOMAIN r = 1..Len(r) /\ DOMAIN s = 1..Len(s)
      /\ DOMAIN x = 1..Len(r) /\ DOMAIN y = 1..Len(s)
  OBVIOUS
<1>2. ToBag(x) = ToBag(y)
  BY DEF normalize_row
<1> HIDE DEF x, y
<1>3. Len(r) = Len(s) /\ \E p \in Bijection(1..Len(r), 1..Len(s)) : \A i \in 1..Len(r) : x[i] = y[p[i]]
  <2>1. PICK m \in Nat, n \in Nat : m = Len(r) /\ n = Len(s)
    BY <1>1
  <2>2. DOMAIN x = 1..m /\ DOMAIN y = 1..n
    BY <1>1, <2>1
  <2>3. Rearranged(x, y, m, n)
    BY <1>2, <2>2, SameBagRearranges, Zenon
  <2>4. QED
    BY <2>1, <2>3 DEF Rearranged
<1>4. PICK p \in Bijection(1..Len(r), 1..Len(s)) : \A i \in 1..Len(r) : x[i] = y[p[i]]
  BY <1>3
<1>5. ASSUME NEW i \in 1..Len(r) PROVE CellsAgree(r[i], s[p[i]], tol)
  <2>1. p[i] \in 1..Len(s)
    BY <1>4 DEF Bijection, Injection
  <2>2. r[i] \in Cells /\ s[p[i]] \in Cells
    BY <1>1, <2>1
  <2>3. x[i] = normalize_cell(r[i], u) /\ y[p[i]] = normalize_cell(s[p[i]], u)
    BY <1>1, <2>1 DEF x, y
  <2>4. QED
    BY <1>4, <2>2, <2>3, AlikeAgrees
<1>6. QED
  BY <1>1, <1>3, <1>4, <1>5 DEF RowsAgree

LEMMA AlikeTablesAgree ==
    ASSUME NEW tol \in Int, NEW e \in TableType, NEW a \in TableType, compare_set(e, a, tol)
    PROVE  TablesAgree("set", tol, e, a)
<1> DEFINE u == GridStep(tol)
           x == [i \in DOMAIN e |-> normalize_row(e[i], u)]
           y == [i \in DOMAIN a |-> normalize_row(a[i], u)]
<1>1. /\ Len(e) \in Nat /\ Len(a) \in Nat /\ DOMAIN e = 1..Len(e) /\ DOMAIN a = 1..Len(a)
      /\ DOMAIN x = 1..Len(e) /\ DOMAIN y = 1..Len(a)
  BY DEF TableType
<1>2. ToBag(x) = ToBag(y)
  BY DEF compare_set, row_multiset
<1> HIDE DEF x, y
<1>3. Len(e) = Len(a) /\ \E p \in Bijection(1..Len(e), 1..Len(a)) : \A i \in 1..Len(e) : x[i] = y[p[i]]
  <2>1. PICK m \in Nat, n \in Nat : m = Len(e) /\ n = Len(a)
    BY <1>1
  <2>2. DOMAIN x = 1..m /\ DOMAIN y = 1..n
    BY <1>1, <2>1
  <2>3. Rearranged(x, y, m, n)
    BY <1>2, <2>2, SameBagRearranges, Zenon
  <2>4. QED
    BY <2>1, <2>3 DEF Rearranged
<1>4. PICK p \in Bijection(1..Len(e), 1..Len(a)) : \A i \in 1..Len(e) : x[i] = y[p[i]]
  BY <1>3
<1>5. ASSUME NEW i \in 1..Len(e) PROVE RowsAgree(e[i], a[p[i]], tol)
  <2>1. p[i] \in 1..Len(a)
    BY <1>4 DEF Bijection, Injection
  <2>2. e[i] \in Seq(Cells) /\ a[p[i]] \in Seq(Cells)
    BY <1>1, <2>1 DEF TableType
  <2>3. x[i] = normalize_row(e[i], u) /\ y[p[i]] = normalize_row(a[p[i]], u)
    BY <1>1, <2>1 DEF x, y
  <2>4. QED
    BY <1>4, <2>2, <2>3, AlikeRowsAgree
<1>6. QED
  BY <1>1, <1>3, <1>4, <1>5, Zenon DEF TablesAgree

\* The one cell that is left of a table is a cell of it.
LEMMA ScalarIsACell ==
    ASSUME NEW a \in TableType, Len(ScalarOf(a)) = 1
    PROVE  \E i \in DOMAIN a : \E j \in DOMAIN a[i] : a[i][j] = ScalarOf(a)[1]
<1>1. CASE OneByOne(a)
  <2>1. Len(a) = 1 /\ Len(a[1]) = 1 /\ ScalarOf(a) = a[1] /\ a[1] \in Seq(Cells)
    BY <1>1 DEF OneByOne, ScalarOf, TableType
  <2>2. 1 \in DOMAIN a /\ 1 \in DOMAIN a[1]
    BY <2>1 DEF TableType
  <2>3. QED
    BY <2>1, <2>2
<1>2. CASE ~OneByOne(a)
  <2>1. PICK flat : flat = FlattenSeq(a)
    OBVIOUS
  <2>2. PICK I : ScalarOf(a) = Picked(flat, I)
    BY <1>2, <2>1, Zenon DEF ScalarOf, non_null_cells
  <2>3. /\ flat \in Seq(Cells)
        /\ \A k \in DOMAIN flat : \E i \in DOMAIN a : \E j \in DOMAIN a[i] : flat[k] = a[i][j]
    <3>1. a \in Seq(Seq(Cells))
      BY DEF TableType
    <3>2. QED
      BY <2>1, <3>1, FlattenElements
  <2>4. PICK c : c = Picked(flat, I)
    OBVIOUS
  <2>8. c \in Seq(Cells) /\ \A k \in DOMAIN c : \E i \in I \cap DOMAIN flat : c[k] = flat[i]
    BY <2>3, <2>4, PickedElements
  <2>5. 1 \in DOMAIN c
    BY <2>2, <2>4, <2>8
  <2>6. PICK k \in DOMAIN flat : c[1] = flat[k]
    BY <2>5, <2>8
  <2>7. QED
    BY <2>2, <2>3, <2>4, <2>6
<1>3. QED
  BY <1>1, <1>2

\* What passes agrees, in every mode.
LEMMA MatchesAgree ==
    ASSUME NEW mode \in MatchModes, NEW tol \in Int, NEW e \in TableType, NEW a \in TableType,
           compare(mode, tol, e, a)
    PROVE  TablesAgree(mode, tol, e, a)
<1>1. CASE mode = "scalar"
  <2>1. compare_scalar(e, a, tol)
    BY <1>1 DEF compare
  <2>2. PICK i \in DOMAIN a : \E j \in DOMAIN a[i] : a[i][j] = ScalarOf(a)[1]
    BY <2>1, ScalarIsACell DEF compare_scalar
  <2>3. \E i_1 \in DOMAIN a : \E j \in DOMAIN a[i_1] : cells_equal(e[1][1], a[i_1][j], tol)
    BY <2>1, <2>2, Zenon DEF compare_scalar
  <2>4. QED
    BY <1>1, <2>3, Zenon DEF TablesAgree
<1>2. CASE mode = "set"
  BY <1>2, AlikeTablesAgree DEF compare
<1>3. CASE mode = "ordered"
  <2>1. compare_ordered(e, a, tol)
    BY <1>3 DEF compare
  <2>2. Len(e) = Len(a) /\ DOMAIN e = DOMAIN a
    BY <2>1 DEF compare_ordered, TableType
  <2>3. ASSUME NEW i \in DOMAIN e PROVE RowsAgree(e[i], a[i], tol)
    <3>1. e[i] \in Seq(Cells) /\ a[i] \in Seq(Cells)
      BY <2>2 DEF TableType
    <3>2. QED
      BY <2>1, <3>1, AlikeRowsAgree DEF compare_ordered
  <2>4. QED
    BY <1>3, <2>2, <2>3, Zenon DEF TablesAgree
<1>4. QED
  BY <1>1, <1>2, <1>3 DEF MatchModes

\* `eval compare`: what passes is the expected answer, cell for cell within the
\* tolerance and row for row, in any mode and for any tables of cells, grids and width
\* of the integers -- but for cells that have no place on the grid, which are taken
\* for every other at the same end of it, or for zero.
THEOREM PassesAreWithinTolerance == EvalSpec => []PassIsWithinTolerance
<1>1. ASSUME AnswersInv PROVE PassIsWithinTolerance
  <2> SUFFICES ASSUME Gave("compare"), verdict
               PROVE  TablesAgree(asked.mode, asked.tol, asked.expected, asked.actual)
    BY Zenon DEF PassIsWithinTolerance
  <2>1. asked \in CompareAsked /\ verdict = VerdictOn(asked) /\ cmd = "compare"
    BY <1>1, AskedOf DEF Gave
  <2>2. verdict = run_eval_compare(asked)
    BY <2>1 DEF VerdictOn
  <2>3. compare(asked.mode, asked.tol, asked.expected, asked.actual)
    BY <2>2, Zenon DEF run_eval_compare
  <2>4. /\ asked.mode \in MatchModes /\ asked.tol \in Int
        /\ asked.expected \in TableType /\ asked.actual \in TableType
    BY <2>1, CompareAssumption DEF TableType
  <2>5. QED
    BY <2>3, <2>4, MatchesAgree
<1>2. QED
  BY <1>1, AlwaysAnswersInv, PTL

-------------------------------------------------------------------------------
(* eval gate: what it says of two reports.                                     *)

-------------------------------------------------------------------------------
(* eval gate: reports brought forward, and what is compared of them.           *)

\* Bringing a report forward loses nothing that the gate looks at.
LEMMA BackfilledCaseTells ==
    ASSUME NEW c, IsCaseResult(c)
    PROVE  /\ BackfilledCase(c).id = c.id /\ BackfilledCase(c).tags = c.tags
           /\ BackfilledCase(c).pass = c.pass /\ BackfilledCase(c).pass_rate \in Nat
           /\ BackfilledCase(c).pass_rate > 0 <=> CanPass(c)
<1>1. /\ {"id", "tags", "samples", "passes", "pass_rate", "pass"} \subseteq DOMAIN c
      /\ c.samples \in Nat /\ c.passes \in Nat /\ c.pass_rate \in Nat /\ c.pass \in BOOLEAN
      /\ IF c.samples = 0 THEN c.passes = 0
         ELSE (c.pass_rate > 0 <=> c.passes > 0) /\ (c.pass => c.passes > 0)
  BY Zenon DEF IsCaseResult
<1>2. CASE c.samples # 0
  BY <1>1, <1>2 DEF BackfilledCase, CanPass
<1>3. CASE c.samples = 0
  <2> DEFINE d == BackfilledCase(c)
  <2>1. d = [c EXCEPT !.samples = 1, !.passes = IF c.pass THEN 1 ELSE 0,
                   !.pass_rate = IF c.pass THEN Whole ELSE 0,
                   !.cache_hits = 0, !.cache_misses = 1]
    BY <1>3, Zenon DEF BackfilledCase
  <2>2. d.id = c.id /\ d.tags = c.tags /\ d.pass = c.pass /\ d.pass_rate = IF c.pass THEN Whole ELSE 0
    BY <1>1, <2>1
  <2>3. QED
    BY <1>1, <1>3, <2>2 DEF CanPass, Whole
<1>4. QED
  BY <1>2, <1>3

\* A configuration as the gate compares it, and as it was read.
SameConfig(d, c) ==
    /\ d.model = c.model /\ DOMAIN d.cases = DOMAIN c.cases /\ d.cases \in Seq(ToSet(d.cases))
    /\ \A k \in DOMAIN c.cases :
           /\ d.cases[k].id = c.cases[k].id /\ d.cases[k].pass_rate \in Nat
           /\ d.cases[k].pass_rate > 0 <=> CanPass(c.cases[k])

LEMMA MapIsSeq ==
    ASSUME NEW S, NEW s \in Seq(S), NEW t, DOMAIN t = DOMAIN s, t = [i \in DOMAIN t |-> t[i]]
    PROVE  t \in Seq(ToSet(t))
<1>1. DOMAIN t = 1..Len(s) /\ Len(s) \in Nat
  OBVIOUS
<1>2. t \in [1..Len(s) -> ToSet(t)]
  BY <1>1, Zenon DEF ToSet
<1>3. QED
  BY <1>1, <1>2

LEMMA ConfigStays ==
    ASSUME NEW c, {"model", "cases", "by_tag"} \subseteq DOMAIN c, c.cases \in Seq(ToSet(c.cases)),
           \A k \in DOMAIN c.cases : IsCaseResult(c.cases[k]),
           NEW x, NEW d, d = [c EXCEPT !.cases = MapSeq(c.cases, BackfilledCase), !.by_tag = x]
    PROVE  SameConfig(d, c)
<1>1. PICK cases : cases = MapSeq(c.cases, BackfilledCase)
  OBVIOUS
<1>2. d.model = c.model /\ d.cases = cases
  BY <1>1
<1>3. DOMAIN cases = DOMAIN c.cases /\ (\A k \in DOMAIN c.cases : cases[k] = BackfilledCase(c.cases[k]))
      /\ cases = [k \in DOMAIN cases |-> cases[k]]
  BY <1>1, Zenon DEF MapSeq
<1>4. cases \in Seq(ToSet(cases))
  BY <1>3, MapIsSeq
<1>5. \A k \in DOMAIN c.cases :
         /\ d.cases[k].id = c.cases[k].id /\ d.cases[k].pass_rate \in Nat
         /\ d.cases[k].pass_rate > 0 <=> CanPass(c.cases[k])
  <2> TAKE k \in DOMAIN c.cases
  <2>1. PICK e : e = c.cases[k]
    OBVIOUS
  <2>2. IsCaseResult(e) /\ d.cases[k] = BackfilledCase(e)
    BY <1>2, <1>3, <2>1
  <2>3. QED
    BY <2>1, <2>2, BackfilledCaseTells
<1>6. d.model = c.model /\ DOMAIN d.cases = DOMAIN c.cases /\ d.cases \in Seq(ToSet(d.cases))
  BY <1>2, <1>3, <1>4
<1>7. QED
  BY <1>5, <1>6, Zenon DEF SameConfig

LEMMA BackfilledTells ==
    ASSUME NEW r, IsReport(r)
    PROVE  /\ backfill_legacy(r).backend = r.backend
           /\ DOMAIN backfill_legacy(r).configs = DOMAIN r.configs
           /\ backfill_legacy(r).configs \in Seq(ToSet(backfill_legacy(r).configs))
           /\ \A i \in DOMAIN r.configs : SameConfig(backfill_legacy(r).configs[i], r.configs[i])
<1>1. {"backend", "configs"} \subseteq DOMAIN r /\ r.configs \in Seq(ToSet(r.configs))
  BY Zenon DEF IsReport
<1> DEFINE Forward(c) ==
             LET cases == MapSeq(c.cases, BackfilledCase)
                 touched == Tags(Picked(c.cases, {i \in DOMAIN c.cases : c.cases[i].samples = 0}))
             IN  [c EXCEPT !.cases = cases,
                      !.by_tag = [t \in DOMAIN c.by_tag |->
                          IF t \in touched
                          THEN [c.by_tag[t] EXCEPT !.pass_rate_sum = TagStat(cases, t).pass_rate_sum]
                          ELSE c.by_tag[t]]]
           to == [i \in DOMAIN r.configs |-> Forward(r.configs[i])]
<1>2. backfill_legacy(r) = [r EXCEPT !.configs = to]
  BY Zenon DEF backfill_legacy, MapSeq
<1>3. ASSUME NEW i \in DOMAIN r.configs PROVE SameConfig(to[i], r.configs[i])
  <2>1. PICK c : c = r.configs[i]
    OBVIOUS
  <2>2. /\ {"model", "cases", "by_tag"} \subseteq DOMAIN c /\ c.cases \in Seq(ToSet(c.cases))
        /\ \A k \in DOMAIN c.cases : IsCaseResult(c.cases[k])
    BY <2>1, Zenon DEF IsReport
  <2>3. \E x : to[i] = [c EXCEPT !.cases = MapSeq(c.cases, BackfilledCase), !.by_tag = x]
    BY <2>1, Zenon
  <2>4. QED
    BY <2>1, <2>2, <2>3, ConfigStays
<1>4. DOMAIN to = DOMAIN r.configs /\ to = [i \in DOMAIN to |-> to[i]]
  OBVIOUS
<1> HIDE DEF to
<1>5. to \in Seq(ToSet(to))
  BY <1>1, <1>4, MapIsSeq
<1>6. backfill_legacy(r).backend = r.backend /\ backfill_legacy(r).configs = to
  BY <1>1, <1>2
<1>7. QED
  BY <1>3, <1>4, <1>5, <1>6

\* The last result of a case says that it can pass.
LastPasses(c, id) ==
    \E l \in DOMAIN c.cases : /\ c.cases[l].id = id /\ CanPass(c.cases[l])
                             /\ \A m \in DOMAIN c.cases : m > l => c.cases[m].id # id

LEMMA RateTells ==
    ASSUME NEW c, NEW d, SameConfig(d, c), NEW id
    PROVE  RateOf(d, id) \in Int /\ (RateOf(d, id) > 0 <=> LastPasses(c, id))
<1>1. /\ DOMAIN d.cases = DOMAIN c.cases /\ d.cases \in Seq(ToSet(d.cases))
      /\ \A k \in DOMAIN c.cases :
             /\ d.cases[k].id = c.cases[k].id /\ d.cases[k].pass_rate \in Nat
             /\ d.cases[k].pass_rate > 0 <=> CanPass(c.cases[k])
  BY Zenon DEF SameConfig
<1>2. PICK n \in Nat : DOMAIN c.cases = 1..n
  BY <1>1
<1> DEFINE S == {i \in DOMAIN d.cases : d.cases[i].id = id}
<1>3. RateOf(d, id) = IF S = {} THEN Absent ELSE d.cases[Max(S)].pass_rate
  BY Zenon DEF RateOf
<1>4. CASE S = {}
  <2>1. \A l \in DOMAIN c.cases : c.cases[l].id # id
    BY <1>1, <1>4
  <2>2. ~LastPasses(c, id)
    BY <2>1, Zenon DEF LastPasses
  <2>3. QED
    BY <1>3, <1>4, <2>2 DEF Absent
<1>5. CASE S # {}
  <2>1. PICK m \in S : \A k \in S : k <= m
    BY <1>1, <1>2, <1>5, GreatestNatural
  <2>2. \A k \in S : k \in Nat
    BY <1>1, <1>2
  <2> HIDE DEF S
  <2>3. Max(S) = m
    <3>1. \A k \in S : m >= k
      BY <2>1, <2>2
    <3>2. \A x \in S : (\A k \in S : x >= k) => x = m
      BY <2>1, <2>2
    <3>3. QED
      BY <2>1, <3>1, <3>2 DEF Max
  <2>4. RateOf(d, id) = d.cases[m].pass_rate /\ m \in DOMAIN c.cases /\ c.cases[m].id = id
    BY <1>1, <1>3, <1>5, <2>1, <2>3 DEF S
  <2>5. \A l \in DOMAIN c.cases : c.cases[l].id = id <=> l \in S
    BY <1>1 DEF S
  <2>6. \A k \in DOMAIN c.cases : k > m => c.cases[k].id # id
    BY <2>1, <2>2, <2>5
  <2>7. CanPass(c.cases[m]) => LastPasses(c, id)
    BY <2>4, <2>6, Zenon DEF LastPasses
  <2>8. ASSUME LastPasses(c, id) PROVE CanPass(c.cases[m])
    <3>1. PICK l \in DOMAIN c.cases : /\ c.cases[l].id = id /\ CanPass(c.cases[l])
                                     /\ \A k \in DOMAIN c.cases : k > l => c.cases[k].id # id
      BY <2>8, Zenon DEF LastPasses
    <3>2. l \in S /\ l <= m /\ ~(m > l) /\ l \in Nat /\ m \in Nat
      BY <2>1, <2>2, <2>4, <2>5, <3>1
    <3>3. l = m
      BY <3>2
    <3>4. QED
      BY <3>1, <3>3
  <2>9. QED
    BY <1>1, <2>4, <2>7, <2>8
<1>6. QED
  BY <1>4, <1>5

\* No coverage drops if no case is lost.
LEMMA NothingLostNoDrop ==
    ASSUME NEW b, NEW d, SameConfig(d, b), NEW c, NEW e, SameConfig(e, c), NEW tol \in Nat, NEW tag,
           \A k \in DOMAIN d.cases : d.cases[k].pass_rate > 0 => RateOf(e, d.cases[k].id) > 0
    PROVE  ~Drops(nonzero_pass_coverage(d, e, tag), tol)
<1>1. d.cases \in Seq(ToSet(d.cases))
  BY Zenon DEF SameConfig
<1>2. PICK I : TaggedCases(d, tag) = Picked(d.cases, I)
  BY Zenon DEF TaggedCases
<1>3. PICK cases : cases = TaggedCases(d, tag)
  OBVIOUS
<1>4. /\ cases \in Seq(ToSet(d.cases))
      /\ \A k \in DOMAIN cases : \E i \in DOMAIN d.cases : cases[k] = d.cases[i]
  BY <1>1, <1>2, <1>3, PickedElements
<1> DEFINE A == {i \in DOMAIN cases : cases[i].pass_rate > 0}
           B == {i \in DOMAIN cases : RateOf(e, cases[i].id) > 0}
<1>5. A \subseteq B
  <2> SUFFICES ASSUME NEW i \in DOMAIN cases, cases[i].pass_rate > 0 PROVE RateOf(e, cases[i].id) > 0
    OBVIOUS
  <2>1. PICK k \in DOMAIN d.cases : cases[i] = d.cases[k]
    BY <1>4
  <2>2. QED
    BY <2>1
<1>6. PICK n \in Nat : n = Len(cases) /\ DOMAIN cases = 1..n
  BY <1>4
<1>7. IsFiniteSet(B)
  <2>1. IsFiniteSet(1..n)
    BY FS_Interval
  <2>2. QED
    BY <1>6, <2>1, FS_Subset
<1> DEFINE coverage == nonzero_pass_coverage(d, e, tag)
<1>8. coverage = [n |-> n, base |-> Cardinality(A), cur |-> Cardinality(B)]
  BY <1>3, <1>6, Zenon DEF nonzero_pass_coverage, Quantify
<1> HIDE DEF A, B
<1>9. /\ Cardinality(A) <= Cardinality(B) /\ Cardinality(A) \in Nat /\ Cardinality(B) \in Nat
  <2>1. IsFiniteSet(A)
    BY <1>5, <1>7, FS_Subset
  <2>2. QED
    BY <1>5, <1>7, <2>1, FS_Subset, FS_CardinalityType
<1>10. coverage.n = n /\ coverage.base = Cardinality(A) /\ coverage.cur = Cardinality(B)
  BY <1>8
<1> HIDE DEF coverage
<1>11. PICK s : s = tol * n /\ s \in Nat
  OBVIOUS
<1>12. ~Drops(coverage, tol)
  <2>1. PICK x \in Nat : x = Cardinality(A)
    BY <1>9
  <2>2. PICK y \in Nat : y = Cardinality(B)
    BY <1>9
  <2>3. ~(y * 12 < x * 12 - s)
    BY <1>9, <1>11, <2>1, <2>2
  <2>4. QED
    BY <1>10, <1>11, <2>1, <2>2, <2>3 DEF Drops, Whole
<1>13. QED
  BY <1>12 DEF coverage

\* What regresses is found by name, whatever the tolerance.
LEMMA RegressionsTell ==
    ASSUME NEW b, NEW d, SameConfig(d, b), NEW c, NEW e, SameConfig(e, c), NEW tol \in Nat
    PROVE  RegressionsOf(d, e, tol) = {} <=>
               \A k \in DOMAIN b.cases : CanPass(b.cases[k]) => LastPasses(c, b.cases[k].id)
<1> DEFINE Lost == {j \in DOMAIN d.cases : d.cases[j].pass_rate > 0 /\ RateOf(e, d.cases[j].id) <= 0}
<1>1. /\ DOMAIN d.cases = DOMAIN b.cases
      /\ \A k \in DOMAIN b.cases :
             /\ d.cases[k].id = b.cases[k].id /\ d.cases[k].pass_rate \in Nat
             /\ d.cases[k].pass_rate > 0 <=> CanPass(b.cases[k])
  BY Zenon DEF SameConfig
<1>2. \A id : RateOf(e, id) \in Int /\ (RateOf(e, id) > 0 <=> LastPasses(c, id))
  BY RateTells
<1>3. Lost = {} <=> \A k \in DOMAIN b.cases : CanPass(b.cases[k]) => LastPasses(c, b.cases[k].id)
  <2>1. \A k \in DOMAIN b.cases : k \in Lost <=> CanPass(b.cases[k]) /\ ~LastPasses(c, b.cases[k].id)
    <3> TAKE k \in DOMAIN b.cases
    <3>1. PICK r \in Int : r = RateOf(e, b.cases[k].id)
      BY <1>2
    <3>2. r > 0 <=> LastPasses(c, b.cases[k].id)
      BY <1>2, <3>1
    <3>3. k \in Lost <=> CanPass(b.cases[k]) /\ r <= 0
      BY <1>1, <3>1
    <3>4. QED
      BY <3>2, <3>3
  <2>2. Lost \subseteq DOMAIN b.cases
    BY <1>1
  <2> HIDE DEF Lost
  <2>3. QED
    BY <2>1, <2>2
<1> DEFINE R1 == IF Drops(nonzero_pass_coverage(d, e, ""), tol)
                 THEN {[config |-> d.model, kind |-> "overall", of |-> ""]} ELSE {}
           R2 == {[config |-> d.model, kind |-> "tag", of |-> t] :
                    t \in {u \in DOMAIN d.by_tag : Drops(nonzero_pass_coverage(d, e, u), tol)}}
           R3 == {[config |-> d.model, kind |-> "case", of |-> id] : id \in {d.cases[i].id : i \in Lost}}
<1>4. RegressionsOf(d, e, tol) = R1 \cup R2 \cup R3
  BY Zenon DEF RegressionsOf
<1>5. R3 = {} <=> Lost = {}
  <2> HIDE DEF Lost
  <2>1. QED
    BY Zenon
<1>6. ASSUME Lost = {} PROVE R1 = {} /\ R2 = {}
  <2>1. \A k \in DOMAIN d.cases : d.cases[k].pass_rate > 0 => RateOf(e, d.cases[k].id) > 0
    BY <1>1, <1>2, <1>3, <1>6
  <2>2. \A tag : ~Drops(nonzero_pass_coverage(d, e, tag), tol)
    BY <2>1, NothingLostNoDrop
  <2>3. QED
    BY <2>2, Zenon
<1> HIDE DEF R1, R2, R3
<1>7. RegressionsOf(d, e, tol) = {} <=> Lost = {}
  BY <1>4, <1>5, <1>6
<1>8. QED
  BY <1>3, <1>7

\* The candidate's configuration that a binding of the baseline is compared with.
FirstOf(current, model, j) ==
    current.configs[j].model = model /\ \A h \in 1 .. j - 1 : current.configs[h].model # model

\* What the gate promises of two reports.
NothingLost(baseline, current) ==
    /\ baseline.backend = current.backend
    /\ \A i \in DOMAIN baseline.configs, j \in DOMAIN current.configs :
           FirstOf(current, baseline.configs[i].model, j) =>
               \A k \in DOMAIN baseline.configs[i].cases :
                   CanPass(baseline.configs[i].cases[k]) =>
                       LastPasses(current.configs[j], baseline.configs[i].cases[k].id)

LEMMA MatchingIsTheFirst ==
    ASSUME NEW base, NEW cur, cur.configs \in Seq(ToSet(cur.configs))
    PROVE  /\ Matching(base, cur) = <<>> => \A j \in DOMAIN cur.configs : ~FirstOf(cur, base.model, j)
           /\ \A j \in DOMAIN cur.configs : FirstOf(cur, base.model, j) =>
                  Matching(base, cur) # <<>> /\ Matching(base, cur)[1] = cur.configs[j]
           /\ Matching(base, cur) # <<>> => \E j \in DOMAIN cur.configs : FirstOf(cur, base.model, j)
<1> DEFINE I == {i \in DOMAIN cur.configs : cur.configs[i].model = base.model}
<1>1. Matching(base, cur) = Picked(cur.configs, I)
  BY Zenon DEF Matching
<1>2. PICK s : s = cur.configs
  OBVIOUS
<1>3. PICK n \in Nat : DOMAIN s = 1..n
  BY <1>2
<1>4. /\ Matching(base, cur) = <<>> <=> I \cap DOMAIN s = {}
      /\ \A j \in I \cap DOMAIN s : (\A i \in I \cap DOMAIN s : j <= i) => Matching(base, cur)[1] = s[j]
  <2> HIDE DEF I
  <2>1. s \in Seq(ToSet(s))
    BY <1>2
  <2>2. QED
    BY <1>1, <1>2, <2>1, PickedFirst
<1>5. I \cap DOMAIN s = I /\ I \in SUBSET (1..n)
  BY <1>2, <1>3
<1>6. ASSUME NEW j \in DOMAIN s PROVE FirstOf(cur, base.model, j) <=> j \in I /\ \A i \in I : j <= i
  <2>1. \A h \in 1 .. j - 1 : h \in 1..n
    BY <1>3
  <2>2. FirstOf(cur, base.model, j) <=> j \in I /\ \A h \in 1 .. j - 1 : h \notin I
    BY <1>2, <1>3, <2>1 DEF FirstOf
  <2> HIDE DEF I
  <2>3. (\A h \in 1 .. j - 1 : h \notin I) <=> \A i \in I : j <= i
    BY <1>3, <1>5
  <2>4. QED
    BY <2>2, <2>3
<1> HIDE DEF I
<1>7. I # {} => \E j \in I : \A i \in I : j <= i
  <2>1. I \in SUBSET Nat
    BY <1>5
  <2>2. QED
    BY <2>1, LeastNatural
<1>8. QED
  BY <1>2, <1>3, <1>4, <1>5, <1>6, <1>7

LEMMA GateTells ==
    ASSUME NEW baseline, IsReport(baseline), NEW current, IsReport(current), NEW tol \in Nat
    PROVE  run_gate(backfill_legacy(baseline), backfill_legacy(current), tol).passed
               <=> NothingLost(baseline, current)
<1>1. PICK b : b = backfill_legacy(baseline)
  OBVIOUS
<1>2. PICK c : c = backfill_legacy(current)
  OBVIOUS
<1>3. /\ b.backend = baseline.backend /\ DOMAIN b.configs = DOMAIN baseline.configs
      /\ \A i \in DOMAIN baseline.configs : SameConfig(b.configs[i], baseline.configs[i])
  BY <1>1, BackfilledTells
<1>4. /\ c.backend = current.backend /\ DOMAIN c.configs = DOMAIN current.configs
      /\ c.configs \in Seq(ToSet(c.configs))
      /\ \A j \in DOMAIN current.configs : SameConfig(c.configs[j], current.configs[j])
  BY <1>2, BackfilledTells
<1> DEFINE compared == {i \in DOMAIN b.configs : Matching(b.configs[i], c) # <<>>}
           found == UNION {RegressionsOf(b.configs[i], Matching(b.configs[i], c)[1], tol) : i \in compared}
<1>5. run_gate(b, c, tol).passed <=> b.backend = c.backend /\ found = {}
  <2>1. run_gate(b, c, tol).passed =
            ((IF b.backend # c.backend THEN {[config |-> "*", kind |-> "backend", of |-> ""]} ELSE found) = {})
    BY Zenon DEF run_gate
  <2>2. {[config |-> "*", kind |-> "backend", of |-> ""]} # {}
    BY Zenon
  <2> HIDE DEF found
  <2>3. QED
    BY <2>1, <2>2
<1>6. \A i, j : i \in DOMAIN baseline.configs /\ j \in DOMAIN current.configs =>
          /\ b.configs[i].model = baseline.configs[i].model
          /\ FirstOf(c, b.configs[i].model, j) <=> FirstOf(current, baseline.configs[i].model, j)
  <2>0. PICK n \in Nat : DOMAIN c.configs = 1..n
    BY <1>4
  <2>1. \A i \in DOMAIN baseline.configs : b.configs[i].model = baseline.configs[i].model
    BY <1>3, Zenon DEF SameConfig
  <2>2. \A j \in DOMAIN current.configs : c.configs[j].model = current.configs[j].model
    BY <1>4, Zenon DEF SameConfig
  <2>3. \A j \in 1..n : \A h \in 1 .. j - 1 : h \in 1..n
    OBVIOUS
  <2>4. \A m, j : j \in DOMAIN current.configs => (FirstOf(c, m, j) <=> FirstOf(current, m, j))
    BY <1>4, <2>0, <2>2, <2>3 DEF FirstOf
  <2>5. QED
    BY <2>1, <2>4
<1>7. \A i \in DOMAIN baseline.configs, j \in DOMAIN current.configs :
          RegressionsOf(b.configs[i], c.configs[j], tol) = {} <=>
              \A k \in DOMAIN baseline.configs[i].cases :
                  CanPass(baseline.configs[i].cases[k]) =>
                      LastPasses(current.configs[j], baseline.configs[i].cases[k].id)
  <2> TAKE i \in DOMAIN baseline.configs, j \in DOMAIN current.configs
  <2>1. PICK b1, d1, c1, e1 : /\ b1 = baseline.configs[i] /\ d1 = b.configs[i]
                              /\ c1 = current.configs[j] /\ e1 = c.configs[j]
    OBVIOUS
  <2>2. SameConfig(d1, b1) /\ SameConfig(e1, c1)
    BY <1>3, <1>4, <2>1
  <2>3. RegressionsOf(d1, e1, tol) = {} <=>
            \A k \in DOMAIN b1.cases : CanPass(b1.cases[k]) => LastPasses(c1, b1.cases[k].id)
    BY <2>2, RegressionsTell
  <2>4. QED
    BY <2>1, <2>3
<1>8. \A i \in DOMAIN b.configs :
          /\ Matching(b.configs[i], c) # <<>> =>
                 \E j \in DOMAIN c.configs : FirstOf(c, b.configs[i].model, j)
          /\ \A j \in DOMAIN c.configs : FirstOf(c, b.configs[i].model, j) =>
                 Matching(b.configs[i], c) # <<>> /\ Matching(b.configs[i], c)[1] = c.configs[j]
  BY <1>4, MatchingIsTheFirst
<1>9. found = {} <=> \A i \in DOMAIN b.configs, j \in DOMAIN c.configs :
                         FirstOf(c, b.configs[i].model, j) => RegressionsOf(b.configs[i], c.configs[j], tol) = {}
  <2>1. found = {} <=> \A i \in compared : RegressionsOf(b.configs[i], Matching(b.configs[i], c)[1], tol) = {}
    <3> HIDE DEF compared
    <3>1. QED
      BY Zenon
  <2>2. QED
    BY <1>8, <2>1
<1> HIDE DEF found
<1>10. QED
  BY <1>1, <1>2, <1>3, <1>4, <1>5, <1>6, <1>7, <1>9 DEF NothingLost
LEMMA GateAnswers == ASSUME AnswersInv PROVE GateIsExact
<1> SUFFICES ASSUME Gave("gate"), asked.backend = "", asked.tol >= 0
             PROVE  verdict.passed <=> NothingLost(asked.baseline, asked.current)
  <2>1. \A i \in DOMAIN asked.baseline.configs, j \in DOMAIN asked.current.configs :
            FirstOf(asked.current, asked.baseline.configs[i].model, j) <=>
                /\ asked.current.configs[j].model = asked.baseline.configs[i].model
                /\ \A h \in 1 .. j - 1 : asked.current.configs[h].model # asked.baseline.configs[i].model
    BY Zenon DEF FirstOf
  <2>2. NothingLost(asked.baseline, asked.current) <=>
            /\ asked.baseline.backend = asked.current.backend
            /\ \A i \in DOMAIN asked.baseline.configs, j \in DOMAIN asked.current.configs :
                  LET b == asked.baseline.configs[i]
                      c == asked.current.configs[j]
                  IN  /\ c.model = b.model
                      /\ \A h \in 1 .. j - 1 : asked.current.configs[h].model # b.model
                      => \A k \in DOMAIN b.cases : CanPass(b.cases[k]) => LastPasses(c, b.cases[k].id)
    BY <2>1, Zenon DEF NothingLost
  <2>3. QED
    BY <2>2, Zenon DEF GateIsExact, LastPasses
<1>1. asked \in GateAsked /\ verdict = VerdictOn(asked) /\ cmd = "gate"
  BY AskedOf DEF Gave
<1>2. verdict = run_eval_gate(asked.baseline, asked.current, asked.tol, asked.backend)
  BY <1>1 DEF VerdictOn
<1>3. asked.tol \in Nat /\ IsReport(asked.baseline) /\ IsReport(asked.current)
  <2>1. asked.tol \in Int /\ IsReport(asked.baseline) /\ IsReport(asked.current)
    BY <1>1, GateAssumption, Zenon
  <2>2. asked.tol >= 0
    BY Zenon
  <2>3. QED
    BY ONLY <2>1, <2>2
<1>4. verdict = run_gate(backfill_legacy(asked.baseline), backfill_legacy(asked.current), asked.tol)
  BY <1>2, Zenon DEF run_eval_gate
<1>5. QED
  BY <1>3, <1>4, GateTells

-------------------------------------------------------------------------------
(* eval run --tag --sample: a selection keeps the order.                       *)

\* t is a part of s, in the order of s.
InOrder(t, s) ==
    \E h : /\ h \in Seq(1..Len(s)) /\ t = Listed(h, s)
           /\ \A k, l \in DOMAIN h : k < l => h[k] < h[l]

LEMMA PickedIsInOrder ==
    ASSUME NEW S, NEW s \in Seq(S), NEW I
    PROVE  InOrder(Picked(s, I), s)
<1>1. PICK h : Selects(h, s, I, Len(s)) /\ Picked(s, I) = Listed(h, s)
  BY PickedPlaces
<1>2. h \in Seq(1..Len(s)) /\ \A k, l \in DOMAIN h : k < l => h[k] < h[l]
  <2>1. h \in Seq(I \cap (1..Len(s))) /\ \A k, l \in DOMAIN h : k < l => h[k] < h[l]
    BY <1>1, Zenon DEF Selects
  <2>2. QED
    BY <2>1
<1>3. QED
  BY <1>1, <1>2, Zenon DEF InOrder

LEMMA WholeIsInOrder ==
    ASSUME NEW S, NEW s \in Seq(S)
    PROVE  InOrder(s, s)
<1> DEFINE h == [i \in 1..Len(s) |-> i]
<1>1. h \in Seq(1..Len(s)) /\ Len(h) = Len(s) /\ DOMAIN h = 1..Len(s) /\ \A i \in 1..Len(s) : h[i] = i
  OBVIOUS
<1>2. \A k, l \in DOMAIN h : k < l => h[k] < h[l]
  BY <1>1
<1> HIDE DEF h
<1>3. s = Listed(h, s)
  <2>1. s = [i \in 1..Len(s) |-> s[i]]
    OBVIOUS
  <2>2. \A i \in 1..Len(s) : s[h[i]] = s[i]
    BY <1>1
  <2>3. Listed(h, s) = [i \in 1..Len(s) |-> s[h[i]]]
    BY <1>1, Zenon DEF Listed
  <2>4. QED
    BY <2>1, <2>2, <2>3, Zenon
<1>4. QED
  BY <1>1, <1>2, <1>3, Zenon DEF InOrder

\* Every place that an even stride takes is a place, and a later one than the last.
LEMMA Strides ==
    ASSUME NEW L \in Nat, NEW k \in Nat, 1 <= k, k < L
    PROVE  /\ \A i \in 1..k : ((i - 1) * L) \div k + 1 \in 1..L
           /\ \A i, j \in 1..k : i < j => ((i - 1) * L) \div k < ((j - 1) * L) \div k
<1>1. ASSUME NEW a \in Nat PROVE (a \div k) \in Nat /\ (a \div k) * k <= a /\ a < (a \div k) * k + k
  OBVIOUS
<1>2. ASSUME NEW i \in 1..k PROVE (i - 1) * L \in Nat /\ (i - 1) * L <= (k - 1) * L
  OBVIOUS
<1>3. ASSUME NEW i \in 1..k PROVE ((i - 1) * L) \div k + 1 \in 1..L
  <2>1. PICK a \in Nat : a = (i - 1) * L /\ a <= (k - 1) * L
    BY <1>2
  <2>2. PICK q \in Nat : q = a \div k /\ q * k <= a
    BY <1>1
  <2>3. (k - 1) * L < L * k
    OBVIOUS
  <2>4. q * k < L * k
    BY <2>1, <2>2, <2>3
  <2>5. q < L
    BY <2>4
  <2>6. QED
    BY <2>1, <2>2, <2>5
<1>4. ASSUME NEW i \in 1..k, NEW j \in 1..k, i < j
      PROVE  ((i - 1) * L) \div k < ((j - 1) * L) \div k
  <2>1. PICK a \in Nat : a = (i - 1) * L
    BY <1>2
  <2>2. PICK b \in Nat : b = (j - 1) * L
    BY <1>2
  <2>3. a + L <= b
    <3>1. PICK x \in Nat : x = i - 1
      OBVIOUS
    <3>2. PICK y \in Nat : y = j - 1
      OBVIOUS
    <3>3. PICK z \in Nat : y = x + 1 + z
      <4>1. y - x - 1 \in Nat /\ y = x + 1 + (y - x - 1)
        BY <1>4, <3>1, <3>2
      <4>2. QED
        BY <4>1
    <3>4. y * L = x * L + L + z * L /\ z * L \in Nat
      BY <3>3
    <3>5. QED
      BY <2>1, <2>2, <3>1, <3>2, <3>4
  <2>4. PICK q \in Nat : q = a \div k /\ q * k <= a
    BY <1>1
  <2>5. PICK r \in Nat : r = b \div k /\ b < r * k + k
    BY <1>1
  <2>6. q * k + k < r * k + k
    BY <2>3, <2>4, <2>5
  <2>7. q < r
    BY <2>6
  <2>8. QED
    BY <2>1, <2>2, <2>4, <2>5, <2>7
<1>5. QED
  BY <1>3, <1>4

LEMMA EvenIsInOrder ==
    ASSUME NEW S, NEW s \in Seq(S), NEW k \in Nat, k >= Len(s) \/ 1 <= k
    PROVE  /\ InOrder(even_pick(s, k), s)
           /\ Len(even_pick(s, k)) = IF k <= Len(s) THEN k ELSE Len(s)
<1>1. CASE k >= Len(s)
  <2>1. even_pick(s, k) = s
    BY <1>1 DEF even_pick
  <2>2. QED
    BY <1>1, <2>1, WholeIsInOrder
<1>2. CASE k < Len(s)
  <2> DEFINE L == Len(s)
             h == [i \in 1..k |-> ((i - 1) * L) \div k + 1]
  <2>1. L \in Nat /\ 1 <= k /\ k < L
    BY <1>2
  <2>2. /\ \A i \in 1..k : ((i - 1) * L) \div k + 1 \in 1..L
        /\ \A i, j \in 1..k : i < j => ((i - 1) * L) \div k < ((j - 1) * L) \div k
    BY <2>1, Strides
  <2>3. h \in [1..k -> 1..L]
    BY <2>2
  <2>4. h \in Seq(1..L) /\ Len(h) = k /\ DOMAIN h = 1..k
    BY <2>3
  <2>5. \A i \in 1..k : ((i - 1) * L) \div k \in Int
    BY <2>1, <2>2
  <2>6. \A i, j \in DOMAIN h : i < j => h[i] < h[j]
    <3> TAKE i, j \in DOMAIN h
    <3>1. PICK a \in Int : a = ((i - 1) * L) \div k
      BY <2>4, <2>5
    <3>2. PICK b \in Int : b = ((j - 1) * L) \div k
      BY <2>4, <2>5
    <3>3. h[i] = a + 1 /\ h[j] = b + 1 /\ (i < j => a < b)
      BY <2>2, <2>4, <3>1, <3>2
    <3>4. QED
      BY <3>3
  <2>7. even_pick(s, k) = [i \in 1..k |-> s[((i - 1) * L) \div k + 1]]
    BY <2>1 DEF even_pick
  <2>8. even_pick(s, k) = [i \in 1..k |-> s[h[i]]]
    BY <2>7, Zenon
  <2> HIDE DEF h
  <2>9. even_pick(s, k) = Listed(h, s)
    BY <2>4, <2>8, Zenon DEF Listed
  <2>10. InOrder(even_pick(s, k), s)
    BY <2>4, <2>6, <2>9, Zenon DEF InOrder
  <2>11. Len(even_pick(s, k)) = k
    BY <2>7
  <2>12. QED
    BY <2>1, <2>10, <2>11
<1>3. QED
  BY <1>1, <1>2

\* Numbers that grow along s grow along every part of it, and its elements are of s.
LEMMA InOrderTells ==
    ASSUME NEW S, NEW s \in Seq(S), NEW t, InOrder(t, s)
    PROVE  /\ t \in Seq(S) /\ ToSet(t) \subseteq ToSet(s)
           /\ (\A i, j \in DOMAIN s : i < j => s[i].id < s[j].id) =>
                  \A k, l \in DOMAIN t : k < l => t[k].id < t[l].id
<1>1. PICK h : /\ h \in Seq(1..Len(s)) /\ t = Listed(h, s)
               /\ \A k, l \in DOMAIN h : k < l => h[k] < h[l]
  BY Zenon DEF InOrder
<1>2. DOMAIN s = 1..Len(s) /\ Len(h) \in Nat /\ DOMAIN h = 1..Len(h)
      /\ \A k \in 1..Len(h) : h[k] \in 1..Len(s)
  BY <1>1
<1>3. t = [k \in 1..Len(h) |-> s[h[k]]]
  BY <1>1 DEF Listed
<1>4. DOMAIN t = 1..Len(h) /\ \A k \in 1..Len(h) : t[k] = s[h[k]] /\ t[k] \in S
  BY <1>2, <1>3
<1>5. t \in Seq(S)
  <2>1. t \in [1..Len(h) -> S]
    BY <1>3, <1>4
  <2>2. QED
    BY <1>2, <2>1
<1>6. ToSet(t) \subseteq ToSet(s)
  BY <1>2, <1>4 DEF ToSet
<1>7. (\A i, j \in DOMAIN s : i < j => s[i].id < s[j].id) =>
          \A k, l \in DOMAIN t : k < l => t[k].id < t[l].id
  BY <1>1, <1>2, <1>4
<1>8. QED
  BY <1>5, <1>6, <1>7

\* The selection of a tag, one case of the pool after the other.
TakesUpTo(f, s, k) ==
    /\ f[0] = <<>>
    /\ \A n \in 1..Len(s) : f[n] = IF \E b \in Buckets(s[n]) : Had(f[n - 1], b) < k
                                   THEN Append(f[n - 1], s[n]) ELSE f[n - 1]

LEMMA PerTagUnrolls ==
    ASSUME NEW S, NEW s \in Seq(S), NEW K
    PROVE  \E f : TakesUpTo(f, s, K) /\ per_tag_pick(s, K) = f[Len(s)]
<1> DEFINE N == Len(s)
           Takes(t, n) == \E b \in Buckets(s[n]) : Had(t, b) < K
           step == [p \in Seq(S) \X (1..N) |-> IF Takes(p[1], p[2]) THEN Append(p[1], s[p[2]]) ELSE p[1]]
           Eq(f) == f = [n \in 0..N |-> IF n = 0 THEN <<>>
                                        ELSE IF \E b \in Buckets(s[n]) : Had(f[n - 1], b) < K
                                             THEN Append(f[n - 1], s[n]) ELSE f[n - 1]]
           upto == CHOOSE f : Eq(f)
<1>1. N \in Nat /\ <<>> \in Seq(S) /\ step \in [Seq(S) \X (1..N) -> Seq(S)]
  <2>1. \A i \in 1..N : s[i] \in S
    OBVIOUS
  <2> HIDE DEF Takes
  <2>2. QED
    BY <2>1
<1>2. PICK f \in [0..N -> Seq(S)] : Unrolls(f, <<>>, step, N)
  <2> HIDE DEF step, N
  <2>1. QED
    BY <1>1, RecursionExists
<1>3. \A n \in 1..N : f[n] = IF Takes(f[n - 1], n) THEN Append(f[n - 1], s[n]) ELSE f[n - 1]
  <2> TAKE n \in 1..N
  <2> HIDE DEF Takes
  <2>1. n - 1 \in 0..N
    OBVIOUS
  <2>2. f[n - 1] \in Seq(S)
    BY <2>1
  <2>3. <<f[n - 1], n>> \in Seq(S) \X (1..N)
    BY <2>2
  <2>4. f[n] = step[<<f[n - 1], n>>]
    BY <1>2 DEF Unrolls
  <2>5. QED
    BY <2>3, <2>4
<1>4. f[0] = <<>>
  BY <1>2 DEF Unrolls
<1>5. Eq(f)
  <2>1. \A n \in 0..N : f[n] = IF n = 0 THEN <<>>
                                ELSE IF Takes(f[n - 1], n) THEN Append(f[n - 1], s[n]) ELSE f[n - 1]
    <3> TAKE n \in 0..N
    <3> HIDE DEF N, step, Takes
    <3>1. n = 0 \/ n \in 1..N
      BY <1>1
    <3>2. n \in 1..N => n # 0
      BY <1>1
    <3>3. QED
      BY <3>1, <3>2, <1>3, <1>4, Zenon
  <2>2. DOMAIN f = 0..N /\ f = [n \in DOMAIN f |-> f[n]]
    BY <1>2
  <2> HIDE DEF N, step
  <2>3. f = [n \in 0..N |-> f[n]]
    BY <2>2
  <2>4. QED
    BY <2>1, <2>3, Zenon
<1>6. Eq(upto)
  <2> HIDE DEF Eq
  <2>1. QED
    BY <1>5
<1>7. per_tag_pick(s, K) = upto[N]
  BY DEF per_tag_pick
<1> HIDE DEF upto
<1>8. upto[0] = <<>>
  <2> HIDE DEF N, step, Takes
  <2>1. 0 \in 0..N
    BY <1>1
  <2>2. QED
    BY <1>6, <2>1, Zenon
<1>9. \A n \in 1..N : upto[n] = IF \E b \in Buckets(s[n]) : Had(upto[n - 1], b) < K
                                THEN Append(upto[n - 1], s[n]) ELSE upto[n - 1]
  <2> TAKE n \in 1..N
  <2> HIDE DEF N, step, Takes
  <2>1. n \in 0..N /\ n # 0
    BY <1>1
  <2>2. QED
    BY <1>6, <2>1, Zenon
<1> HIDE DEF step, Eq, Takes
<1>10. TakesUpTo(upto, s, K)
  BY <1>8, <1>9, Zenon DEF TakesUpTo
<1>11. QED
  BY <1>7, <1>10

\* What one case more makes of the number of cases in a bucket.
LEMMA HadOfNone == ASSUME NEW b PROVE Had(<<>>, b) = 0
<1>1. {i \in DOMAIN <<>> : b \in Buckets(<<>>[i])} = {}
  OBVIOUS
<1>2. QED
  BY <1>1, FS_EmptySet, Zenon DEF Had, Quantify

LEMMA HadOneMore ==
    ASSUME NEW S, NEW t \in Seq(S), NEW x \in S, NEW b
    PROVE  /\ Had(t, b) \in Nat
           /\ Had(Append(t, x), b) = IF b \in Buckets(x) THEN Had(t, b) + 1 ELSE Had(t, b)
<1> DEFINE F(u) == {i \in DOMAIN u : b \in Buckets(u[i])}
<1>1. PICK n \in Nat : n = Len(t) /\ DOMAIN t = 1..n
  OBVIOUS
<1>2. PICK u : u = Append(t, x)
  OBVIOUS
<1>3. DOMAIN u = 1..(n + 1) /\ u[n + 1] = x /\ \A i \in 1..n : u[i] = t[i]
  BY <1>1, <1>2
<1>4. IsFiniteSet(F(t)) /\ n + 1 \notin F(t)
  <2>1. IsFiniteSet(1..n)
    BY FS_Interval
  <2>2. n + 1 \notin 1..n
    OBVIOUS
  <2>3. QED
    BY <1>1, <2>1, <2>2, FS_Subset
<1>5. F(u) = IF b \in Buckets(x) THEN F(t) \cup {n + 1} ELSE F(t)
  <2>1. \A i : i \in 1..(n + 1) <=> i \in 1..n \/ i = n + 1
    OBVIOUS
  <2>2. \A i : i \in F(u) <=> (i \in 1..n \/ i = n + 1) /\ b \in Buckets(u[i])
    BY <1>3, <2>1, Zenon
  <2>3. \A i : i \in F(t) <=> i \in 1..n /\ b \in Buckets(t[i])
    BY <1>1, Zenon
  <2> HIDE DEF F
  <2>4. \A i : i \in F(u) <=> i \in F(t) \/ (i = n + 1 /\ b \in Buckets(x))
    BY <1>3, <2>2, <2>3, Zenon
  <2>5. QED
    BY <2>4
<1>6. Had(t, b) = Cardinality(F(t)) /\ Had(u, b) = Cardinality(F(u))
  BY Zenon DEF Had, Quantify
<1> HIDE DEF F
<1>7. Cardinality(F(t)) \in Nat /\ Cardinality(F(t) \cup {n + 1}) = Cardinality(F(t)) + 1
  BY <1>4, FS_AddElement, FS_CardinalityType
<1>8. QED
  BY <1>2, <1>5, <1>6, <1>7

\* What is picked for the tags is a selection.
LEMMA PerTagIsPicked ==
    ASSUME NEW S, NEW s \in Seq(S), NEW K
    PROVE  \E I : per_tag_pick(s, K) = Picked(s, I)
<1> DEFINE N == Len(s)
<1>1. PICK f : TakesUpTo(f, s, K) /\ per_tag_pick(s, K) = f[N]
  BY PerTagUnrolls, Zenon
<1> DEFINE I == {n \in 1..N : \E b \in Buckets(s[n]) : Had(f[n - 1], b) < K}
<1>2. f[0] = <<>> /\ \A n \in 1..N : f[n] = IF n \in I THEN Append(f[n - 1], s[n]) ELSE f[n - 1]
  <2>1. f[0] = <<>> /\ \A n \in 1..N : f[n] = IF \E b \in Buckets(s[n]) : Had(f[n - 1], b) < K
                                              THEN Append(f[n - 1], s[n]) ELSE f[n - 1]
    BY <1>1, Zenon DEF TakesUpTo
  <2> HIDE DEF N
  <2>2. QED
    BY <2>1, Zenon
<1> HIDE DEF I
<1>3. PICK g : PicksUpTo(g, s, I) /\ Picked(s, I) = g[N]
  BY PickedUnrolls, Zenon
<1>4. g[0] = <<>> /\ \A n \in 1..N : g[n] = IF n \in I THEN Append(g[n - 1], s[n]) ELSE g[n - 1]
  BY <1>3, Zenon DEF PicksUpTo
<1>5. N \in Nat
  OBVIOUS
<1> HIDE DEF N
<1> DEFINE D == {n \in 0..N : f[n] = g[n]}
<1>6. 0 \in D
  BY <1>2, <1>4, <1>5
<1>7. ASSUME NEW n \in 1..N, n - 1 \in D PROVE n \in D
  <2>1. f[n - 1] = g[n - 1] /\ n \in 0..N
    BY <1>5, <1>7
  <2>2. QED
    BY <1>2, <1>4, <2>1
<1> HIDE DEF D
<1>8. N \in D
  <2>1. 0..N \subseteq D
    BY <1>5, <1>6, <1>7, InductionUpTo
  <2>2. QED
    BY <1>5, <2>1
<1>9. QED
  BY <1>1, <1>3, <1>8 DEF D

\* No bucket has less than was asked for, or all there is.
LEMMA PerTagTells ==
    ASSUME NEW S, NEW s \in Seq(S), NEW K \in Int, NEW b
    PROVE  /\ Had(per_tag_pick(s, K), b) \in Nat /\ Had(s, b) \in Nat
           /\ Had(per_tag_pick(s, K), b) >= K \/ Had(per_tag_pick(s, K), b) = Had(s, b)
<1> DEFINE N == Len(s)
<1>1. PICK f : TakesUpTo(f, s, K) /\ per_tag_pick(s, K) = f[N]
  BY PerTagUnrolls, Zenon
<1>2. f[0] = <<>> /\ \A n \in 1..N : f[n] = IF \E c \in Buckets(s[n]) : Had(f[n - 1], c) < K
                                            THEN Append(f[n - 1], s[n]) ELSE f[n - 1]
  BY <1>1, Zenon DEF TakesUpTo
<1>3. PICK p : PicksUpTo(p, s, 1..N) /\ Picked(s, 1..N) = p[N]
  BY PickedUnrolls, Zenon
<1>4. p[0] = <<>> /\ \A n \in 1..N : p[n] = Append(p[n - 1], s[n])
  <2>1. p[0] = <<>> /\ \A n \in 1..N : p[n] = IF n \in 1..N THEN Append(p[n - 1], s[n]) ELSE p[n - 1]
    BY <1>3, Zenon DEF PicksUpTo
  <2>2. QED
    BY <2>1, Zenon
<1>5. p[N] = s
  <2>1. Picked(s, 1..N) = s
    BY PickedAll
  <2>2. QED
    BY <1>3, <2>1
<1>6. N \in Nat /\ \A n \in 1..N : s[n] \in S
  OBVIOUS
<1> HIDE DEF N
<1> DEFINE Full(t, u) == Had(t, b) >= K \/ Had(t, b) = Had(u, b)
           D == {n \in 0..N : f[n] \in Seq(S) /\ p[n] \in Seq(S) /\ Full(f[n], p[n])}
<1>7. 0 \in D
  <2>1. Full(f[0], p[0])
    BY <1>2, <1>4, Zenon
  <2> HIDE DEF Full
  <2>2. f[0] \in Seq(S) /\ p[0] \in Seq(S)
    BY <1>2, <1>4
  <2>3. 0 \in 0..N
    BY <1>6
  <2>4. QED
    BY <2>1, <2>2, <2>3, Zenon
<1>8. ASSUME NEW n \in 1..N, n - 1 \in D PROVE n \in D
  <2>1. PICK t : t = f[n - 1]
    OBVIOUS
  <2>2. PICK u : u = p[n - 1]
    OBVIOUS
  <2>3. PICK x : x = s[n]
    OBVIOUS
  <2>4. t \in Seq(S) /\ u \in Seq(S) /\ Full(t, u) /\ x \in S /\ n \in 0..N
    BY <1>6, <1>8, <2>1, <2>2, <2>3
  <2>5. p[n] = Append(u, x)
    BY <1>4, <2>2, <2>3
  <2>6. /\ Had(t, b) \in Nat /\ Had(u, b) \in Nat
        /\ Had(Append(t, x), b) = IF b \in Buckets(x) THEN Had(t, b) + 1 ELSE Had(t, b)
        /\ Had(Append(u, x), b) = IF b \in Buckets(x) THEN Had(u, b) + 1 ELSE Had(u, b)
    BY <2>4, HadOneMore
  <2>7. Append(t, x) \in Seq(S) /\ Append(u, x) \in Seq(S)
    BY <2>4
  <2>8. CASE \E c \in Buckets(x) : Had(t, c) < K
    <3>1. f[n] = Append(t, x)
      BY <1>2, <2>1, <2>3, <2>8, Zenon
    <3>2. Full(Append(t, x), Append(u, x))
      BY <2>4, <2>6
    <3> HIDE DEF Full
    <3>3. QED
      BY <2>4, <2>5, <2>7, <3>1, <3>2
  <2>9. CASE ~\E c \in Buckets(x) : Had(t, c) < K
    <3>1. f[n] = t
      BY <1>2, <2>1, <2>3, <2>9, Zenon
    <3>2. Full(t, Append(u, x))
      BY <2>4, <2>6, <2>9
    <3> HIDE DEF Full
    <3>3. QED
      BY <2>4, <2>5, <2>7, <3>1, <3>2
  <2>10. QED
    BY <2>8, <2>9
<1> HIDE DEF D
<1>9. N \in D
  <2>1. 0..N \subseteq D
    BY <1>6, <1>7, <1>8, InductionUpTo
  <2>2. QED
    BY <1>6, <2>1
<1>10. f[N] \in Seq(S) /\ (Had(f[N], b) >= K \/ Had(f[N], b) = Had(s, b))
  BY <1>5, <1>9 DEF D
<1>11. Had(f[N], b) \in Nat /\ Had(s, b) \in Nat
  <2>1. PICK t \in Seq(S) : t = f[N]
    BY <1>10
  <2>2. CASE s = <<>> /\ t = <<>>
    BY <2>1, <2>2, HadOfNone
  <2>3. CASE s # <<>> \/ t # <<>>
    <3>1. PICK x \in S : TRUE
      <4>1. S # {}
        BY <2>3, <2>1
      <4>2. QED
        BY <4>1
    <3>2. QED
      BY <2>1, <3>1, HadOneMore
  <2>4. QED
    BY <2>2, <2>3
<1>12. QED
  BY <1>1, <1>10, <1>11

\* What --sample can say.
LEMMA SampleSays ==
    ASSUME NEW a, a.n \in Int, NEW p, p = SampleParse(a), p # Refused
    PROVE  \/ p.is = "all"
           \/ p.is = "ratio" /\ p.n \in 1..100
           \/ p.is \in {"count", "per-tag"} /\ p.n \in Nat /\ 1 <= p.n
<1>1. \/ p = NoSample
      \/ ~(a.n <= 0) /\ p = Sample("per-tag", a.n)
      \/ ~(a.n <= 0 \/ a.n > 100) /\ p = Sample("ratio", a.n)
      \/ ~(a.n <= 0) /\ p = Sample("count", a.n)
  BY Zenon DEF SampleParse
<1>2. p = Sample(p.is, p.n)
  BY <1>1, Zenon DEF NoSample, Sample
<1>3. QED
  BY <1>1 DEF Sample, NoSample

\* The part of a pool that a share rounded up comes to.
LEMMA RatioIsSome ==
    ASSUME NEW L \in Nat, NEW n \in 1..100
    PROVE  (L * n + 99) \div 100 \in Nat /\ (L > 0 => 1 <= (L * n + 99) \div 100)
<1>1. PICK m \in Nat : m = L * n /\ (L > 0 => m >= 1)
  <2>1. L * n \in Nat /\ (L > 0 => L * n >= 1)
    OBVIOUS
  <2>2. QED
    BY <2>1
<1>2. (m + 99) \div 100 \in Nat /\ (m >= 1 => 1 <= (m + 99) \div 100)
  OBVIOUS
<1>3. QED
  BY <1>1, <1>2

LEMMA LesserOfTwo == ASSUME NEW m \in Nat, NEW n \in Nat PROVE Min({m, n}) = IF m <= n THEN m ELSE n
<1> DEFINE x == IF m <= n THEN m ELSE n
<1>1. x \in {m, n} /\ \A k \in {m, n} : x <= k
  OBVIOUS
<1>2. \A y \in {m, n} : (\A k \in {m, n} : y <= k) => y = x
  OBVIOUS
<1> HIDE DEF x
<1>3. Min({m, n}) = x
  BY <1>1, <1>2 DEF Min
<1>4. QED
  BY <1>3 DEF x

\* A sample is a part of the cases it is taken from, in their order.
IsFair(t, pool, cases, p) ==
    /\ InOrder(pool, cases) /\ InOrder(t, pool)
    /\ p.is = "count" => Len(t) = Min({p.n, Len(pool)})
    /\ p.is = "per-tag" => \A b : Had(t, b) >= Min({p.n, Had(pool, b)})

LEMMA SampleIsFair ==
    ASSUME NEW S, NEW cases \in Seq(S), NEW tags, NEW a, a.n \in Int, SampleParse(a) # Refused,
           NEW pool, pool = Picked(cases, {i \in DOMAIN cases : tags = {} \/ cases[i].tags \cap tags # {}}),
           NEW t, t = select_cases(cases, from_flags(tags, a))
    PROVE  IsFair(t, pool, cases, SampleParse(a))
<1>1. PICK p : p = SampleParse(a)
  OBVIOUS
<1>2. \/ p.is = "all"
      \/ p.is = "ratio" /\ p.n \in 1..100
      \/ p.is \in {"count", "per-tag"} /\ p.n \in Nat /\ 1 <= p.n
  BY <1>1, SampleSays
<1>3. InOrder(pool, cases) /\ pool \in Seq(S)
  BY PickedIsInOrder, InOrderTells
<1>4. pool = IF tags = {} THEN cases ELSE Picked(cases, {i \in DOMAIN cases : cases[i].tags \cap tags # {}})
  <2>1. CASE tags = {}
    <3>1. pool = Picked(cases, DOMAIN cases)
      BY <2>1
    <3>2. Picked(cases, DOMAIN cases) = cases
      BY PickedAll
    <3>3. QED
      BY <2>1, <3>1, <3>2
  <2>2. CASE tags # {}
    BY <2>2
  <2>3. QED
    BY <2>1, <2>2
<1>5. PICK filter : filter = from_flags(tags, a) /\ filter.tags = tags /\ filter.sample = p
  BY <1>1 DEF from_flags
<1>6. t = CASE p.is = "all" -> pool
            [] p.is = "count" -> even_pick(pool, p.n)
            [] p.is = "ratio" -> even_pick(pool, RatioOf(pool, p.n))
            [] p.is = "per-tag" -> per_tag_pick(pool, p.n)
  BY <1>4, <1>5, Zenon DEF select_cases
<1>7. CASE p.is = "all"
  <2>1. t = pool
    BY <1>6, <1>7
  <2>2. QED
    BY <1>1, <1>3, <1>7, <2>1, WholeIsInOrder DEF IsFair
<1>8. CASE p.is = "count" /\ p.n \in Nat /\ 1 <= p.n
  <2>1. t = even_pick(pool, p.n)
    BY <1>6, <1>8
  <2>2. PICK n \in Nat : n = p.n /\ 1 <= n
    BY <1>8
  <2>3. InOrder(even_pick(pool, n), pool) /\ Len(even_pick(pool, n)) = IF n <= Len(pool) THEN n ELSE Len(pool)
    BY <1>3, <2>2, EvenIsInOrder
  <2>4. Len(pool) \in Nat
    BY <1>3
  <2>5. Len(t) = Min({n, Len(pool)})
    BY <2>1, <2>2, <2>3, <2>4, LesserOfTwo
  <2>6. QED
    BY <1>1, <1>3, <1>8, <2>1, <2>2, <2>3, <2>5 DEF IsFair
<1>9. CASE p.is = "ratio" /\ p.n \in 1..100
  <2>1. t = even_pick(pool, RatioOf(pool, p.n))
    BY <1>6, <1>9
  <2>2. PICK k : k = RatioOf(pool, p.n)
    OBVIOUS
  <2>9. Len(pool) \in Nat
    BY <1>3
  <2>3. PICK L \in Nat : L = Len(pool)
    BY <2>9
  <2>4. PICK n \in 1..100 : n = p.n
    BY <1>9
  <2>5. k \in Nat /\ (L > 0 => 1 <= k)
    <3>1. k = (L * n + 99) \div 100
      BY <2>2, <2>3, <2>4 DEF RatioOf
    <3>2. QED
      BY <2>3, <3>1, RatioIsSome
  <2>6. k >= Len(pool) \/ 1 <= k
    BY <2>3, <2>5
  <2>7. InOrder(even_pick(pool, k), pool)
    BY <1>3, <2>5, <2>6, EvenIsInOrder
  <2>8. QED
    BY <1>1, <1>3, <1>9, <2>1, <2>2, <2>7 DEF IsFair
<1>10. CASE p.is = "per-tag" /\ p.n \in Nat /\ 1 <= p.n
  <2>1. t = per_tag_pick(pool, p.n)
    BY <1>6, <1>10
  <2>2. PICK n \in Nat : n = p.n
    BY <1>10
  <2>3. PICK I : t = Picked(pool, I)
    BY <1>3, <2>1, PerTagIsPicked
  <2>4. InOrder(t, pool)
    BY <1>3, <2>3, PickedIsInOrder
  <2>5. ASSUME NEW b PROVE Had(t, b) >= Min({n, Had(pool, b)})
    <3>1. Had(t, b) \in Nat /\ Had(pool, b) \in Nat /\ (Had(t, b) >= n \/ Had(t, b) = Had(pool, b))
      BY <1>3, <2>1, <2>2, PerTagTells
    <3>2. PICK x \in Nat : x = Had(t, b)
      BY <3>1
    <3>3. PICK y \in Nat : y = Had(pool, b)
      BY <3>1
    <3>4. Min({n, y}) = IF n <= y THEN n ELSE y
      BY LesserOfTwo
    <3>5. QED
      BY <3>1, <3>2, <3>3, <3>4
  <2>6. QED
    BY <1>1, <1>3, <1>10, <2>2, <2>4, <2>5 DEF IsFair
<1>11. QED
  BY <1>2, <1>7, <1>8, <1>9, <1>10

LEMMA SamplesAnswer == ASSUME AnswersInv PROVE SamplesAreFair
<1> SUFFICES ASSUME Gave("select"), verdict.ok,
                    NEW p, p = SampleParse(asked.sample),
                    NEW pool, pool = Picked(asked.cases, {i \in DOMAIN asked.cases :
                                         asked.tags = {} \/ asked.cases[i].tags \cap asked.tags # {}})
             PROVE  /\ \A i, j \in DOMAIN verdict.cases : i < j => verdict.cases[i].id < verdict.cases[j].id
                    /\ ToSet(verdict.cases) \subseteq ToSet(pool)
                    /\ p.is = "count" => Len(verdict.cases) = Min({p.n, Len(pool)})
                    /\ p.is = "per-tag" =>
                          \A t \in UNION {Buckets(c) : c \in ToSet(pool)} :
                              Had(verdict.cases, t) >= Min({p.n, Had(pool, t)})
  <2>1. from_flags(asked.tags, asked.sample).sample = SampleParse(asked.sample)
    BY DEF from_flags
  <2>2. QED
    BY <2>1, Zenon DEF SamplesAreFair
<1>1. asked \in SelectAsked /\ verdict = VerdictOn(asked) /\ cmd = "select"
  BY AskedOf DEF Gave
<1>2. PICK a : a = asked.sample
  OBVIOUS
<1>3. PICK filter : filter = from_flags(asked.tags, a)
  OBVIOUS
<1>4. filter.sample = p
  BY <1>2, <1>3 DEF from_flags
<1>5. verdict = select_and_subset(asked.cases, filter)
  BY <1>1, <1>2, <1>3 DEF VerdictOn
<1>6. verdict.cases = select_cases(asked.cases, filter) /\ p # Refused
  BY <1>4, <1>5, Zenon DEF select_and_subset
<1>7. PICK cases : cases = asked.cases
  OBVIOUS
<1>8. cases \in Seq(ToSet(cases)) /\ a.n \in Int /\ \A i \in DOMAIN cases : cases[i].id = i
  BY <1>1, <1>2, <1>7, SelectAssumption
<1>9. PICK t : t = verdict.cases
  OBVIOUS
<1>10. /\ InOrder(pool, cases) /\ InOrder(t, pool)
       /\ p.is = "count" => Len(t) = Min({p.n, Len(pool)})
       /\ p.is = "per-tag" => \A b : Had(t, b) >= Min({p.n, Had(pool, b)})
  <2>1. t = select_cases(cases, from_flags(asked.tags, a))
    BY <1>3, <1>6, <1>7, <1>9
  <2>2. PICK tags : tags = asked.tags
    OBVIOUS
  <2>3. pool = Picked(cases, {i \in DOMAIN cases : tags = {} \/ cases[i].tags \cap tags # {}})
    BY <1>7, <2>2
  <2>4. p = SampleParse(a)
    BY <1>2
  <2>5. SampleParse(a) # Refused
    BY <1>6, <2>4
  <2>6. t = select_cases(cases, from_flags(tags, a))
    BY <2>1, <2>2
  <2>7. IsFair(t, pool, cases, SampleParse(a))
    BY ONLY <1>8, <2>3, <2>5, <2>6, SampleIsFair, Zenon
  <2>8. QED
    BY <2>4, <2>7, Zenon DEF IsFair
<1>11. \A i, j \in DOMAIN cases : i < j => cases[i].id < cases[j].id
  BY <1>8
<1>12. pool \in Seq(ToSet(cases)) /\ \A i, j \in DOMAIN pool : i < j => pool[i].id < pool[j].id
  BY ONLY <1>8, <1>10, <1>11, InOrderTells
<1>13. (\A i, j \in DOMAIN t : i < j => t[i].id < t[j].id) /\ ToSet(t) \subseteq ToSet(pool)
  BY ONLY <1>10, <1>12, InOrderTells
<1>14. QED
  BY <1>9, <1>10, <1>13

-------------------------------------------------------------------------------
(* eval ablate.                                                                *)

Candidate(p) == [tier |-> p.tier, accuracy |-> p.accuracy, cost |-> p.cost]

\* What the candidates for a step are, by what was measured.
Offers(options, label, base, points, C) ==
    /\ options \in Seq(C)
    /\ \E k \in DOMAIN options : options[k] = base
    /\ \A k \in DOMAIN options :
           options[k] = base \/ \E i \in DOMAIN points : points[i].step = label /\ options[k] = Candidate(points[i])
    /\ \A i \in DOMAIN points : points[i].step = label =>
           \E k \in DOMAIN options : options[k] = Candidate(points[i])

LEMMA CandidatesAreOffered ==
    ASSUME NEW label, NEW base_tier, NEW baseline, NEW P, NEW points \in Seq(P), NEW C,
           NEW base, base = [tier |-> base_tier, accuracy |-> baseline.accuracy, cost |-> baseline.cost],
           base \in C, \A i \in DOMAIN points : Candidate(points[i]) \in C
    PROVE  Offers(CandidatesFor(label, base_tier, baseline, points), label, base, points, C)
<1> DEFINE I == {i \in DOMAIN points : points[i].step = label}
<1>1. PICK picked : picked = Picked(points, I)
  OBVIOUS
<1>2. /\ picked \in Seq(P)
      /\ \A k \in DOMAIN picked : \E i \in I \cap DOMAIN points : picked[k] = points[i]
      /\ \A i \in I \cap DOMAIN points : \E k \in DOMAIN picked : picked[k] = points[i]
  <2>1. points \in Seq(P)
    OBVIOUS
  <2> HIDE DEF I
  <2>2. QED
    BY ONLY <2>1, <1>1, PickedElements
<1> DEFINE rest == [k \in DOMAIN picked |-> Candidate(picked[k])]
<1>3. PICK options : options = CandidatesFor(label, base_tier, baseline, points)
  OBVIOUS
<1>4. options = <<base>> \o rest
  BY <1>1, <1>3, Zenon DEF CandidatesFor, MapSeq, Candidate
<1>5. PICK n \in Nat : n = Len(picked) /\ DOMAIN picked = 1..n
  BY <1>2
<1>6. \A k \in 1..n : rest[k] = Candidate(picked[k]) /\ rest[k] \in C
  BY <1>2, <1>5
<1>7. rest \in Seq(C) /\ Len(rest) = n
  <2>1. rest \in [1..n -> C]
    BY <1>5, <1>6
  <2>2. QED
    BY <2>1
<1> HIDE DEF rest
<1>8. /\ options \in Seq(C) /\ DOMAIN options = 1..(n + 1) /\ options[1] = base
      /\ \A k \in 1..n : options[k + 1] = rest[k]
  <2>1. <<base>> \in Seq(C) /\ Len(<<base>>) = 1 /\ <<base>>[1] = base
    OBVIOUS
  <2>2. PICK one : one = <<base>>
    OBVIOUS
  <2>3. QED
    BY <1>4, <1>7, <2>1, <2>2
<1>9. 1 \in DOMAIN options
  BY <1>8
<1>10. ASSUME NEW k \in DOMAIN options
       PROVE  options[k] = base \/ \E i \in DOMAIN points : points[i].step = label /\ options[k] = Candidate(points[i])
  <2>1. CASE k = 1
    BY <1>8, <2>1
  <2>2. CASE k # 1
    <3>1. PICK m \in 1..n : k = m + 1
      <4>1. k - 1 \in 1..n /\ k = (k - 1) + 1
        BY <1>8, <2>2
      <4>2. QED
        BY <4>1
    <3>2. options[k] = Candidate(picked[m])
      BY <1>6, <1>8, <3>1
    <3>3. PICK i \in I : picked[m] = points[i]
      BY <1>2, <1>5
    <3>4. QED
      BY <3>2, <3>3
  <2>3. QED
    BY <2>1, <2>2
<1>11. ASSUME NEW i \in DOMAIN points, points[i].step = label
       PROVE  \E k \in DOMAIN options : options[k] = Candidate(points[i])
  <2>1. PICK k \in 1..n : picked[k] = points[i]
    BY <1>2, <1>5, <1>11
  <2>2. k + 1 \in DOMAIN options /\ options[k + 1] = Candidate(points[i])
    BY <1>6, <1>8, <2>1
  <2>3. QED
    BY <2>2
<1>12. QED
  BY <1>3, <1>8, <1>9, <1>10, <1>11 DEF Offers

\* The cheapest, and of equal ones one that is not the base, is there.
Cheaper(a, b, base_tier) == \/ a.cost < b.cost
                            \/ a.cost = b.cost /\ a.tier # base_tier /\ b.tier = base_tier

LEMMA CheapestExists ==
    ASSUME NEW C, \A c \in C : c.cost \in Nat, NEW q \in Seq(C), q # <<>>, NEW base_tier
    PROVE  \E i \in DOMAIN q : \A j \in DOMAIN q : ~Cheaper(q[j], q[i], base_tier)
<1>1. DOMAIN q # {} /\ \A i \in DOMAIN q : q[i].cost \in Nat
  <2>1. PICK n \in Nat : n = Len(q) /\ DOMAIN q = 1..n
    OBVIOUS
  <2>2. n # 0
    BY <2>1
  <2>3. \A i \in DOMAIN q : q[i] \in C
    OBVIOUS
  <2>4. 1 \in 1..n
    BY <2>2
  <2>5. QED
    BY <2>1, <2>3, <2>4
<1> DEFINE costs == {q[i].cost : i \in DOMAIN q}
<1>2. PICK c \in costs : \A d \in costs : c <= d
  BY <1>1, LeastNatural
<1>3. PICK i \in DOMAIN q : q[i].cost = c
  OBVIOUS
<1>4. \A j \in DOMAIN q : c <= q[j].cost /\ ~(q[j].cost < c)
  BY <1>1, <1>2, <1>3
<1>5. CASE \E j \in DOMAIN q : q[j].cost = c /\ q[j].tier # base_tier
  <2>1. PICK j \in DOMAIN q : q[j].cost = c /\ q[j].tier # base_tier
    BY <1>5
  <2>2. \A k \in DOMAIN q : ~Cheaper(q[k], q[j], base_tier)
    BY <1>4, <2>1 DEF Cheaper
  <2>3. QED
    BY <2>2
<1>6. CASE ~\E j \in DOMAIN q : q[j].cost = c /\ q[j].tier # base_tier
  <2>1. \A k \in DOMAIN q : ~Cheaper(q[k], q[i], base_tier)
    BY <1>3, <1>4, <1>6 DEF Cheaper
  <2>2. QED
    BY <2>1
<1>7. QED
  BY <1>5, <1>6

\* A recommendation was measured to hold the floor, and nothing cheaper was.
Recommended(r, label, base_tier, baseline, points, floor) ==
    /\ r.cost <= baseline.cost
    /\ r.tier # base_tier => \E i \in DOMAIN points :
           /\ points[i].step = label /\ points[i].tier = r.tier
           /\ points[i].accuracy >= floor /\ points[i].cost = r.cost
    /\ \A i \in DOMAIN points :
           points[i].step = label /\ points[i].accuracy >= floor => r.cost <= points[i].cost

LEMMA RecommendTells ==
    ASSUME NEW label, NEW base_tier, NEW baseline, baseline.cost \in Nat, baseline.accuracy \in Int,
           NEW P, NEW points \in Seq(P), NEW tol \in Nat,
           \A i \in DOMAIN points : points[i].cost \in Nat /\ points[i].accuracy \in Int
    PROVE  Recommended(recommend(label, base_tier, baseline, points, tol),
                       label, base_tier, baseline, points, baseline.accuracy - tol)
<1> DEFINE T == {base_tier} \cup {points[i].tier : i \in DOMAIN points}
           C == {[tier |-> t, accuracy |-> x, cost |-> c] : t \in T, x \in Int, c \in Nat}
           base == [tier |-> base_tier, accuracy |-> baseline.accuracy, cost |-> baseline.cost]
<1>1. base \in C /\ \A i \in DOMAIN points : Candidate(points[i]) \in C
  <2>2. base_tier \in T /\ \A i \in DOMAIN points : points[i].tier \in T
    OBVIOUS
  <2> HIDE DEF T
  <2>1. \A t \in T, x \in Int, c \in Nat : [tier |-> t, accuracy |-> x, cost |-> c] \in C
    OBVIOUS
  <2> HIDE DEF C
  <2>3. QED
    BY <2>1, <2>2, Zenon DEF Candidate
<1>2. \A c \in C : c.cost \in Nat /\ c.accuracy \in Int
  OBVIOUS
<1>3. base.tier = base_tier /\ base.accuracy = baseline.accuracy /\ base.cost = baseline.cost
  OBVIOUS
<1> DEFINE options == CandidatesFor(label, base_tier, baseline, points)
           floor == baseline.accuracy - tol
           Q == {i \in DOMAIN options : options[i].accuracy >= floor}
           q == Picked(options, Q)
           best == {i \in DOMAIN q : \A j \in DOMAIN q : ~Cheaper(q[j], q[i], base_tier)}
<1>4. q # <<>> => recommend(label, base_tier, baseline, points, tol) = q[Min(best)]
  BY Zenon DEF recommend, Cheaper
<1>5. Offers(options, label, base, points, C)
  <2> HIDE DEF C, base
  <2>1. PICK b : b = base
    OBVIOUS
  <2>2. b = [tier |-> base_tier, accuracy |-> baseline.accuracy, cost |-> baseline.cost]
    BY <2>1 DEF base
  <2>3. points \in Seq(P) /\ b \in C /\ \A i \in DOMAIN points : Candidate(points[i]) \in C
    BY <1>1, <2>1
  <2>4. Offers(CandidatesFor(label, base_tier, baseline, points), label, b, points, C)
    BY ONLY <2>2, <2>3, CandidatesAreOffered
  <2>5. QED
    BY <2>1, <2>4, Zenon
<1>6. floor \in Int
  OBVIOUS
<1>7. base.accuracy >= floor
  OBVIOUS
<1> HIDE DEF base, C, options, floor
<1>8. /\ q \in Seq(C)
      /\ \A k \in DOMAIN q : \E i \in Q \cap DOMAIN options : q[k] = options[i]
      /\ \A i \in Q \cap DOMAIN options : \E k \in DOMAIN q : q[k] = options[i]
  <2>1. options \in Seq(C)
    BY <1>5 DEF Offers
  <2> HIDE DEF Q, best
  <2>2. PICK r : r = q
    OBVIOUS
  <2>3. r = Picked(options, Q)
    BY <2>2
  <2> HIDE DEF q
  <2>4. /\ r \in Seq(C)
        /\ \A k \in DOMAIN r : \E i \in Q \cap DOMAIN options : r[k] = options[i]
        /\ \A i \in Q \cap DOMAIN options : \E k \in DOMAIN r : r[k] = options[i]
    BY ONLY <2>1, <2>3, PickedElements
  <2>5. QED
    BY <2>2, <2>4, Zenon
<1> HIDE DEF q
<1>9. PICK k0 \in DOMAIN q : q[k0] = base
  <2>1. PICK k \in DOMAIN options : options[k] = base
    BY <1>5 DEF Offers
  <2>2. QED
    BY <1>7, <1>8, <2>1
<1>10. q # <<>>
  BY <1>9
<1> HIDE DEF best
<1>11. recommend(label, base_tier, baseline, points, tol) = q[Min(best)]
  BY <1>4, <1>10, Zenon
<1> USE DEF best
<1>12. Min(best) \in best
  <2>1. best # {}
    BY <1>2, <1>8, <1>10, CheapestExists
  <2>2. best \in SUBSET Nat
    BY <1>8
  <2> HIDE DEF best
  <2>3. \E m \in best : \A n \in best : m <= n
    BY <2>1, <2>2, LeastNatural
  <2>4. QED
    BY <2>3 DEF Min
<1>13. PICK b \in DOMAIN q : b = Min(best) /\ \A j \in DOMAIN q : ~Cheaper(q[j], q[b], base_tier)
  BY <1>12
<1> HIDE DEF best
<1>14. PICK r : r = q[b]
  OBVIOUS
<1>15. r \in C /\ \A j \in DOMAIN q : q[j] \in C
  BY <1>8, <1>14
<1>16. \A j \in DOMAIN q : r.cost <= q[j].cost
  BY <1>2, <1>13, <1>14, <1>15 DEF Cheaper
<1>17. PICK i0 \in DOMAIN options : options[i0].accuracy >= floor /\ r = options[i0]
  BY <1>8, <1>14
<1>18. r.cost <= baseline.cost
  BY <1>3, <1>9, <1>16
<1>19. r.tier # base_tier => \E i \in DOMAIN points :
           /\ points[i].step = label /\ points[i].tier = r.tier
           /\ points[i].accuracy >= floor /\ points[i].cost = r.cost
  <2> SUFFICES ASSUME r.tier # base_tier
               PROVE  \E i \in DOMAIN points : /\ points[i].step = label /\ points[i].tier = r.tier
                                               /\ points[i].accuracy >= floor /\ points[i].cost = r.cost
    OBVIOUS
  <2>1. PICK i \in DOMAIN points : points[i].step = label /\ r = Candidate(points[i])
    BY <1>3, <1>5, <1>17 DEF Offers
  <2>2. r.tier = points[i].tier /\ r.accuracy = points[i].accuracy /\ r.cost = points[i].cost
    BY <2>1 DEF Candidate
  <2>3. QED
    BY <1>17, <2>1, <2>2
<1>20. ASSUME NEW i \in DOMAIN points, points[i].step = label, points[i].accuracy >= floor
       PROVE  r.cost <= points[i].cost
  <2>1. PICK k \in DOMAIN options : options[k] = Candidate(points[i])
    BY <1>5, <1>20 DEF Offers
  <2>2. options[k].accuracy >= floor /\ options[k].cost = points[i].cost
    BY <1>20, <2>1 DEF Candidate
  <2>3. PICK j \in DOMAIN q : q[j] = options[k]
    BY <1>8, <2>2
  <2>4. QED
    BY <1>16, <2>2, <2>3
<1>21. Recommended(r, label, base_tier, baseline, points, floor)
  BY <1>18, <1>19, <1>20 DEF Recommended
<1>22. QED
  BY <1>11, <1>13, <1>14, <1>21, Zenon DEF floor

\* The point that is measured when step s is moved to tier t.
PointAt(a, steps, s, t) ==
    [step |-> steps[s].label, tier |-> t,
     accuracy |-> a.measured[<<s, t>>].accuracy, cost |-> a.measured[<<s, t>>].cost]

\* The points are those of every step at every tier that is swept, and no others.
Measures(points, a, steps) ==
    /\ \E P : points \in Seq(P)
    /\ \A k \in DOMAIN points :
           \E s \in DOMAIN steps : \E t \in ToSet(a.sweep) \ {a.base_tier} : points[k] = PointAt(a, steps, s, t)
    /\ \A s \in DOMAIN steps, t \in ToSet(a.sweep) \ {a.base_tier} :
           \E k \in DOMAIN points : points[k] = PointAt(a, steps, s, t)

LEMMA SweepTells ==
    ASSUME NEW a, a.sweep \in Seq(ToSet(a.sweep)), NEW n \in Nat, NEW steps, DOMAIN steps = 1..n,
           NEW picked, picked = Picked(a.sweep, {i \in DOMAIN a.sweep : a.sweep[i] # a.base_tier}),
           NEW seqs, seqs = [s \in DOMAIN steps |-> [j \in DOMAIN picked |-> PointAt(a, steps, s, picked[j])]]
    PROVE  Measures(FlattenSeq(seqs), a, steps)
<1> DEFINE I == {i \in DOMAIN a.sweep : a.sweep[i] # a.base_tier}
           T == ToSet(a.sweep) \ {a.base_tier}
           P == {PointAt(a, steps, s, t) : s \in DOMAIN steps, t \in T}
<1> HIDE DEF P
<1>1. PICK sweep : sweep = a.sweep /\ sweep \in Seq(ToSet(a.sweep))
  OBVIOUS
<1>2. picked = Picked(sweep, I)
  BY <1>1
<1>3. /\ picked \in Seq(ToSet(a.sweep))
      /\ \A k \in DOMAIN picked : \E i \in I \cap DOMAIN sweep : picked[k] = sweep[i]
      /\ \A i \in I \cap DOMAIN sweep : \E k \in DOMAIN picked : picked[k] = sweep[i]
  <2>1. sweep \in Seq(ToSet(a.sweep))
    BY <1>1
  <2> HIDE DEF I
  <2>2. QED
    BY ONLY <2>1, <1>2, PickedElements
<1>4. /\ \A k \in DOMAIN picked : picked[k] \in T
      /\ \A t \in T : \E k \in DOMAIN picked : picked[k] = t
  <2>1. I = {i \in DOMAIN sweep : sweep[i] # a.base_tier} /\ T = ToSet(sweep) \ {a.base_tier}
    BY <1>1
  <2>2. \A x : x \in ToSet(sweep) <=> \E i \in DOMAIN sweep : x = sweep[i]
    BY Zenon DEF ToSet
  <2> HIDE DEF I, T
  <2>3. ASSUME NEW k \in DOMAIN picked PROVE picked[k] \in T
    BY <1>3, <2>1, <2>2
  <2>4. ASSUME NEW t \in T PROVE \E k \in DOMAIN picked : picked[k] = t
    <3>1. PICK i \in DOMAIN sweep : t = sweep[i] /\ t # a.base_tier
      BY ONLY <2>1, <2>2, t \in T
    <3>2. i \in I \cap DOMAIN sweep
      BY ONLY <2>1, <3>1
    <3>3. QED
      BY ONLY <1>3, <3>1, <3>2
  <2>5. QED
    BY <2>3, <2>4
<1> HIDE DEF T, I
<1>5. PICK m \in Nat : m = Len(picked) /\ DOMAIN picked = 1..m
  BY ONLY <1>3
<1>6. /\ DOMAIN seqs = 1..n
      /\ \A s \in 1..n : /\ DOMAIN seqs[s] = 1..m
                         /\ \A j \in 1..m : seqs[s][j] = PointAt(a, steps, s, picked[j])
  BY <1>5
<1>7. seqs \in Seq(Seq(P))
  <2>1. ASSUME NEW s \in 1..n PROVE seqs[s] \in Seq(P)
    <3>1. \A j \in 1..m : seqs[s][j] \in P
      <4> TAKE j \in 1..m
      <4>1. picked[j] \in T /\ s \in DOMAIN steps
        BY <1>4, <1>5, Zenon
      <4>2. seqs[s][j] = PointAt(a, steps, s, picked[j])
        BY <1>6
      <4>3. QED
        BY ONLY <4>1, <4>2 DEF P
    <3>2. PICK q : q = seqs[s]
      OBVIOUS
    <3>3. q = [j \in 1..m |-> q[j]]
      BY <1>5, <3>2
    <3>4. q \in [1..m -> P]
      BY <3>1, <3>2, <3>3
    <3>5. QED
      BY <3>2, <3>4
  <2>2. seqs = [s \in 1..n |-> seqs[s]]
    BY Zenon
  <2>3. seqs \in [1..n -> Seq(P)]
    BY <2>1, <2>2, Zenon
  <2>4. QED
    BY ONLY <2>3, n \in Nat
<1>8. PICK points : points = FlattenSeq(seqs)
  OBVIOUS
<1>9. /\ points \in Seq(P)
      /\ \A k \in DOMAIN points : \E s \in DOMAIN seqs : \E j \in DOMAIN seqs[s] : points[k] = seqs[s][j]
      /\ \A s \in DOMAIN seqs : \A j \in DOMAIN seqs[s] : \E k \in DOMAIN points : points[k] = seqs[s][j]
  BY ONLY <1>7, <1>8, FlattenElements
<1>10. ASSUME NEW k \in DOMAIN points
       PROVE  \E s \in DOMAIN steps : \E t \in T : points[k] = PointAt(a, steps, s, t)
  <2>1. PICK s \in 1..n, j \in 1..m : points[k] = PointAt(a, steps, s, picked[j])
    <3>0. PICK s \in DOMAIN seqs : \E j \in DOMAIN seqs[s] : points[k] = seqs[s][j]
      BY <1>9, <1>10, Zenon
    <3>1. PICK j \in DOMAIN seqs[s] : points[k] = seqs[s][j]
      BY <3>0, Zenon
    <3>2. s \in 1..n /\ j \in 1..m /\ seqs[s][j] = PointAt(a, steps, s, picked[j])
      BY <1>6, <3>1, Zenon
    <3>3. QED
      BY <3>1, <3>2, Zenon
  <2>2. QED
    BY <1>4, <1>5, <2>1, Zenon
<1>11. ASSUME NEW s \in DOMAIN steps, NEW t \in T
       PROVE  \E k \in DOMAIN points : points[k] = PointAt(a, steps, s, t)
  <2>1. PICK j \in 1..m : picked[j] = t
    BY <1>4, <1>5, <1>11, Zenon
  <2>2. s \in 1..n
    BY <1>11, Zenon
  <2>3. s \in DOMAIN seqs /\ j \in DOMAIN seqs[s]
    BY ONLY <1>6, <2>1, <2>2
  <2>4. seqs[s][j] = PointAt(a, steps, s, t)
    <3>1. seqs[s][j] = PointAt(a, steps, s, picked[j])
      BY <1>6, <2>1, <2>2, Zenon
    <3>2. QED
      BY ONLY <2>1, <3>1
  <2>5. PICK k \in DOMAIN points : points[k] = seqs[s][j]
    <3>1. \A u \in DOMAIN seqs : \A i \in DOMAIN seqs[u] : \E k \in DOMAIN points : points[k] = seqs[u][i]
      BY <1>9, Zenon
    <3>2. QED
      BY ONLY <2>3, <3>1
  <2>6. QED
    BY ONLY <2>4, <2>5
<1>12. QED
  <2>1. \E S : points \in Seq(S)
    BY <1>9, Zenon
  <2>2. Measures(points, a, steps)
    BY <2>1, <1>10, <1>11, Zenon DEF Measures, T
  <2>3. QED
    BY <1>8, <2>2, Zenon

LEMMA AblationAnswers == ASSUME AnswersInv PROVE DowngradesHoldTheFloor
<1> DEFINE steps == enumerate_steps(asked.ir)
           Of(s) == {v \in DOMAIN steps : steps[v].label = steps[s].label}
           floor == asked.baseline.accuracy - asked.tol
<1> SUFFICES ASSUME Gave("ablate"), asked.tol >= 0, NEW s \in DOMAIN verdict
             PROVE  /\ verdict[s].cost <= asked.baseline.cost
                    /\ verdict[s].tier # asked.base_tier =>
                          \E m \in {asked.measured[<<u, verdict[s].tier>>] : u \in Of(s)} :
                              m.accuracy >= floor /\ m.cost = verdict[s].cost
                    /\ \A t \in ToSet(asked.sweep) \ {asked.base_tier} :
                          \A m \in {asked.measured[<<u, t>>] : u \in Of(s)} :
                              m.accuracy >= floor => verdict[s].cost <= m.cost
  BY Zenon DEF DowngradesHoldTheFloor
<1>0. floor = asked.baseline.accuracy - asked.tol /\ steps = enumerate_steps(asked.ir)
  OBVIOUS
<1> HIDE DEF floor, steps
<1>1. asked \in AblateAsked /\ verdict = VerdictOn(asked) /\ cmd = "ablate"
  BY AskedOf DEF Gave
<1>2. verdict = run_ablation(asked)
  BY <1>1 DEF VerdictOn
<1>3. PICK a : a = asked
  OBVIOUS
<1> DEFINE Step == [label : STRING, tier : STRING]
           Bearing(u) == \A t \in ToSet(a.sweep) \ {a.base_tier} :
                             a.measured[<<u, t>>].cost \in Nat /\ a.measured[<<u, t>>].accuracy \in Int
<1>4. /\ a.ir \in Seq(Seq(Step)) /\ a.sweep \in Seq(ToSet(a.sweep))
      /\ a.tol \in Nat /\ a.baseline.cost \in Nat /\ a.baseline.accuracy \in Int
      /\ \A u \in DOMAIN steps : Bearing(u)
  <2>1. /\ a.ir \in Seq(Seq(Step)) /\ a.sweep \in Seq(ToSet(a.sweep))
        /\ a.tol \in Int /\ a.baseline.cost \in Nat /\ a.baseline.accuracy \in Int
    BY <1>1, <1>3, AblateAssumption
  <2>2. \A u \in DOMAIN steps : Bearing(u)
    BY <1>0, <1>1, <1>3, AblateAssumption, Zenon
  <2>3. a.tol \in Nat
    BY <1>3, <2>1
  <2>4. QED
    BY <2>1, <2>2, <2>3
<1> DEFINE picked == Picked(a.sweep, {i \in DOMAIN a.sweep : a.sweep[i] # a.base_tier})
           seqs == [u \in DOMAIN steps |-> [j \in DOMAIN picked |-> PointAt(a, steps, u, picked[j])]]
<1>5. verdict = [u \in DOMAIN steps |->
                    recommend(steps[u].label, a.base_tier, a.baseline, FlattenSeq(seqs), a.tol)]
  BY <1>0, <1>2, <1>3, Zenon DEF run_ablation, MapSeq, PointAt
<1>6. PICK points : points = FlattenSeq(seqs)
  OBVIOUS
<1>7. steps \in Seq(Step)
  <2>1. PICK ir : ir = a.ir /\ ir \in Seq(Seq(Step))
    BY <1>4
  <2> HIDE DEF Step
  <2>2. FlattenSeq(ir) \in Seq(Step)
    BY ONLY <2>1, FlattenElements
  <2>3. QED
    BY <1>0, <1>3, <2>1, <2>2 DEF enumerate_steps
<1> HIDE DEF Step
<1>8. PICK n \in Nat : DOMAIN steps = 1..n
  BY <1>7
<1>9. Measures(points, a, steps)
  <2>1. PICK ss, p : p = picked /\ ss = seqs
    OBVIOUS
  <2>2. ss = [u \in DOMAIN steps |-> [j \in DOMAIN p |-> PointAt(a, steps, u, p[j])]]
    BY <2>1
  <2>3. p = Picked(a.sweep, {i \in DOMAIN a.sweep : a.sweep[i] # a.base_tier})
    BY <2>1
  <2>4. Measures(FlattenSeq(ss), a, steps)
    BY ONLY <1>4, <1>8, <2>2, <2>3, SweepTells
  <2> HIDE DEF seqs
  <2>5. QED
    BY <1>6, <2>1, <2>4
<1> HIDE DEF seqs, picked
<1>10. PICK r : r = recommend(steps[s].label, a.base_tier, a.baseline, points, a.tol)
  OBVIOUS
<1>11. s \in DOMAIN steps /\ verdict[s] = r
  BY <1>5, <1>6, <1>10
<1>12. PICK tol, label, base_tier, baseline :
           /\ tol \in Nat /\ tol = a.tol
           /\ label = steps[s].label /\ base_tier = a.base_tier /\ baseline = a.baseline
  BY <1>4
<1>13. PICK P : points \in Seq(P)
  BY <1>9 DEF Measures
<1>14. \A i \in DOMAIN points : points[i].cost \in Nat /\ points[i].accuracy \in Int
  <2> TAKE i \in DOMAIN points
  <2>1. PICK u \in DOMAIN steps, t \in ToSet(a.sweep) \ {a.base_tier} : points[i] = PointAt(a, steps, u, t)
    BY <1>9 DEF Measures
  <2>2. QED
    BY <1>4, <2>1 DEF PointAt
<1> HIDE DEF Bearing
<1>15. Recommended(r, label, base_tier, baseline, points, floor)
  <2>1. baseline.cost \in Nat /\ baseline.accuracy \in Int
    BY <1>4, <1>12
  <2>2. Recommended(recommend(label, base_tier, baseline, points, tol),
                    label, base_tier, baseline, points, baseline.accuracy - tol)
    BY ONLY <1>12, <1>13, <1>14, <2>1, RecommendTells
  <2>3. QED
    BY <1>0, <1>3, <1>10, <1>12, <2>2, Zenon
<1>16. r.cost <= a.baseline.cost
  BY <1>12, <1>15 DEF Recommended
<1>17. r.tier # a.base_tier =>
           \E m \in {a.measured[<<u, r.tier>>] : u \in Of(s)} : m.accuracy >= floor /\ m.cost = r.cost
  <2> SUFFICES ASSUME r.tier # a.base_tier
               PROVE  \E u \in Of(s) : /\ a.measured[<<u, r.tier>>].accuracy >= floor
                                    /\ a.measured[<<u, r.tier>>].cost = r.cost
    OBVIOUS
  <2>1. PICK i \in DOMAIN points : /\ points[i].step = label /\ points[i].tier = r.tier
                                   /\ points[i].accuracy >= floor /\ points[i].cost = r.cost
    BY <1>12, <1>15 DEF Recommended
  <2>2. PICK u \in DOMAIN steps, t \in ToSet(a.sweep) : points[i] = PointAt(a, steps, u, t)
    BY <1>9 DEF Measures
  <2>3. /\ points[i].step = steps[u].label /\ points[i].tier = t
        /\ points[i].accuracy = a.measured[<<u, t>>].accuracy
        /\ points[i].cost = a.measured[<<u, t>>].cost
    BY <2>2 DEF PointAt
  <2>4. u \in Of(s)
    BY <1>12, <2>1, <2>3
  <2>5. QED
    BY <2>1, <2>3, <2>4
<1>18. ASSUME NEW t \in ToSet(a.sweep) \ {a.base_tier}, NEW u \in Of(s),
              a.measured[<<u, t>>].accuracy >= floor
       PROVE  r.cost <= a.measured[<<u, t>>].cost
  <2>1. u \in DOMAIN steps /\ steps[u].label = label
    BY <1>12
  <2>2. PICK k \in DOMAIN points : points[k] = PointAt(a, steps, u, t)
    BY <1>9, <2>1 DEF Measures
  <2>3. /\ points[k].step = label
        /\ points[k].accuracy = a.measured[<<u, t>>].accuracy
        /\ points[k].cost = a.measured[<<u, t>>].cost
    BY <2>1, <2>2 DEF PointAt
  <2>4. QED
    BY <1>15, <1>18, <2>3 DEF Recommended
<1>19. QED
  BY <1>3, <1>11, <1>16, <1>17, <1>18

-------------------------------------------------------------------------------
(* eval monitor.                                                               *)

LEMMA OtherFieldsStay ==
    ASSUME NEW r, {"id", "pass"} \subseteq DOMAIN r, NEW a, NEW b, NEW c, NEW d, NEW e, NEW f, NEW g
    PROVE  LET s == [r EXCEPT !.reason = a, !.cost = b, !.turns = c, !.cache_hits = d, !.cache_misses = e,
                              !.recorded = f, !.answer_dist = g]
           IN  s.pass = r.pass /\ s.id = r.id
OBVIOUS

LEMMA FoldTells ==
    ASSUME NEW case, NEW outcomes, NEW record
    PROVE  /\ fold_samples(case, outcomes, record).id = case.id
           /\ fold_samples(case, outcomes, record).pass =>
                  Cardinality({i \in DOMAIN outcomes : outcomes[i].pass}) = Len(outcomes)
<1> DEFINE passes == Quantify(DOMAIN outcomes, LAMBDA i : outcomes[i].pass)
<1>1. passes = Cardinality({i \in DOMAIN outcomes : outcomes[i].pass})
  BY Zenon DEF Quantify
<1>2. PICK r : r = CaseResult(case.id, case.tags, Len(outcomes), passes)
  OBVIOUS
<1> HIDE DEF passes
<1>3. {"id", "pass"} \subseteq DOMAIN r
  BY <1>2, Zenon DEF CaseResult
<1>4. r.id = case.id /\ (r.pass => passes = Len(outcomes))
  BY <1>2, Zenon DEF CaseResult
<1>5. PICK a, b, c, d, e, f, g :
          fold_samples(case, outcomes, record) =
              [r EXCEPT !.reason = a, !.cost = b, !.turns = c, !.cache_hits = d, !.cache_misses = e,
                        !.recorded = f, !.answer_dist = g]
  BY <1>2, Zenon DEF fold_samples, passes
<1>6. /\ fold_samples(case, outcomes, record).pass = r.pass
      /\ fold_samples(case, outcomes, record).id = r.id
  BY <1>3, <1>5, OtherFieldsStay
<1>7. QED
  BY <1>1, <1>4, <1>6, Zenon

LEMMA AllOfThem ==
    ASSUME NEW S, NEW outcomes \in Seq(S),
           Cardinality({i \in DOMAIN outcomes : outcomes[i].pass}) = Len(outcomes)
    PROVE  \A i \in DOMAIN outcomes : outcomes[i].pass
<1>1. PICK n \in Nat : n = Len(outcomes) /\ DOMAIN outcomes = 1..n
  OBVIOUS
<1>2. IsFiniteSet(1..n) /\ Cardinality(1..n) = n
  <2>1. 1 \in Int /\ n \in Int
    OBVIOUS
  <2>2. IsFiniteSet(1..n) /\ Cardinality(1..n) = IF 1 > n THEN 0 ELSE n - 1 + 1
    BY ONLY <2>1, FS_Interval
  <2>3. QED
    BY <2>2
<1> DEFINE P == {i \in 1..n : outcomes[i].pass}
<1>3. P = 1..n
  <2>1. P \subseteq 1..n /\ Cardinality(P) = n
    BY <1>1
  <2> HIDE DEF P
  <2>2. QED
    BY <1>2, <2>1, FS_Subset
<1>4. QED
  BY <1>1, <1>3

LEMMA FreshIsSaid ==
    ASSUME NEW inv, NEW case, NEW record, case.kind = "verdict", case.field = "fresh",
           SampleOutcome(inv, case, record).pass
    PROVE  extract_verdict_json(inv.text).envelope.fresh = case.expected.field
<1>1. PICK result : result = extract_verdict_json(inv.text)
  OBVIOUS
<1>2. score_value(result, case) = "match"
  <2>1. case.kind # "table"
    OBVIOUS
  <2>2. QED
    BY <1>1, <2>1, Zenon DEF SampleOutcome
<1>3. PICK field : field = project_verdict_field(result.envelope, case.field)
  OBVIOUS
<1>4. field = case.expected.field
  BY <1>2, <1>3, Zenon DEF score_value
<1>5. field = result.envelope.fresh
  BY <1>3, Zenon DEF project_verdict_field
<1>6. QED
  BY <1>1, <1>4, <1>5, Zenon

CasesOfId(cases, id) == Picked(cases, {i \in DOMAIN cases : cases[i].id = id})

LEMMA ObservedPass ==
    ASSUME NEW report, NEW id, observation(report, id).runner_pass
    PROVE  CasesOfId(report.configs[1].cases, id) # <<>> /\ CasesOfId(report.configs[1].cases, id)[1].pass
BY Zenon DEF observation, Failed, CasesOfId

\* The rows of a report: every case with its samples folded.
RowsOf(run, record) ==
    [i \in DOMAIN run.cases |->
        fold_samples(run.cases[i].case,
                     [k \in DOMAIN run.cases[i].samples |->
                         SampleOutcome(run.cases[i].samples[k], run.cases[i].case, record)],
                     record)]

LEMMA ReportHasRows ==
    ASSUME NEW run
    PROVE  FullReport(run).configs[1].cases
               = RowsOf(run, effective_record_answers(run.explicit, run.samples))
<1>1. PICK r : r = ReportOf(run)
  OBVIOUS
<1>2. FullReport(run).configs = <<r>>
  BY <1>1, Zenon DEF FullReport
<1>3. FullReport(run).configs[1] = r
  BY <1>2
<1>4. r.cases = RowsOf(run, effective_record_answers(run.explicit, run.samples))
  BY <1>1, Zenon DEF ReportOf, aggregate, MapSeq, RowsOf
<1>5. QED
  BY <1>3, <1>4

LEMMA PassesSayFresh ==
    ASSUME NEW run, NEW n \in Nat, DOMAIN run.cases = 1..n,
           \A i \in DOMAIN run.cases : run.cases[i].samples \in Seq(ToSet(run.cases[i].samples)),
           NEW id, observation(FullReport(run), id).runner_pass, NEW fresh
    PROVE  AllSay(run, id, fresh)
<1> SUFFICES ASSUME NEW i \in DOMAIN run.cases,
                    run.cases[i].case.id = id, \A h \in 1..i - 1 : run.cases[h].case.id # id,
                    run.cases[i].case.kind = "verdict", run.cases[i].case.field = "fresh",
                    run.cases[i].case.expected.field = fresh, NEW k \in DOMAIN run.cases[i].samples
             PROVE  extract_verdict_json(run.cases[i].samples[k].text).envelope.fresh = fresh
  BY Zenon DEF AllSay
<1>1. PICK record : record = effective_record_answers(run.explicit, run.samples)
  OBVIOUS
<1>2. PICK rows : rows = RowsOf(run, record)
  OBVIOUS
<1> DEFINE I == {j \in DOMAIN rows : rows[j].id = id}
<1>3. Picked(rows, I) # <<>> /\ Picked(rows, I)[1].pass
  <2>1. PICK report : report = FullReport(run)
    OBVIOUS
  <2>2. report.configs[1].cases = rows
    BY <1>1, <1>2, <2>1, ReportHasRows, Zenon
  <2>3. observation(report, id).runner_pass
    BY <2>1, Zenon
  <2>4. QED
    <3>1. CasesOfId(rows, id) # <<>> /\ CasesOfId(rows, id)[1].pass
      <4>1. CasesOfId(report.configs[1].cases, id) # <<>> /\ CasesOfId(report.configs[1].cases, id)[1].pass
        BY ONLY <2>3, ObservedPass
      <4>2. QED
        BY ONLY <2>2, <4>1
    <3>2. CasesOfId(rows, id) = Picked(rows, I)
      BY Zenon DEF CasesOfId
    <3> HIDE DEF I
    <3>3. QED
      BY ONLY <3>1, <3>2
<1> DEFINE Outcomes(j) == [l \in DOMAIN run.cases[j].samples |->
                              SampleOutcome(run.cases[j].samples[l], run.cases[j].case, record)]
<1>4. /\ DOMAIN rows = 1..n
      /\ \A j \in 1..n : rows[j] = fold_samples(run.cases[j].case, Outcomes(j), record)
  <2> HIDE DEF Outcomes
  <2>1. rows = [j \in 1..n |-> fold_samples(run.cases[j].case, Outcomes(j), record)]
    BY <1>2, Zenon DEF RowsOf, Outcomes
  <2>2. QED
    BY ONLY <2>1
<1>5. \A j \in 1..n : rows[j].id = run.cases[j].case.id
  <2> HIDE DEF Outcomes
  <2> TAKE j \in 1..n
  <2>1. PICK outcomes, case : outcomes = Outcomes(j) /\ case = run.cases[j].case
    OBVIOUS
  <2>2. fold_samples(case, outcomes, record).id = case.id
    BY ONLY FoldTells
  <2>3. QED
    BY <1>4, <2>1, <2>2, Zenon
<1>6. PICK o : o = Outcomes(i)
  OBVIOUS
<1>7. PICK samples : samples = run.cases[i].samples /\ samples \in Seq(ToSet(samples))
  OBVIOUS
<1>8. o = [l \in DOMAIN samples |-> SampleOutcome(samples[l], run.cases[i].case, record)]
  BY <1>6, <1>7, Zenon
<1> HIDE DEF Outcomes
<1>9. \A j \in I : i <= j
  <2> TAKE j \in I
  <2>1. j \in 1..n /\ run.cases[j].case.id = id
    BY <1>4, <1>5, Zenon
  <2>2. ~(j \in 1..i - 1)
    BY <2>1, Zenon
  <2>3. i \in 1..n
    BY Zenon
  <2>4. QED
    BY ONLY <2>1, <2>2, <2>3
<1>10. Picked(rows, I)[1] = rows[i]
  <2>1. rows \in Seq(ToSet(rows))
    <3>1. rows = [j \in 1..n |-> rows[j]]
      BY <1>2, <1>4, Zenon DEF RowsOf
    <3>2. \A j \in 1..n : rows[j] \in ToSet(rows)
      BY <1>4, Zenon DEF ToSet
    <3>3. rows \in [1..n -> ToSet(rows)]
      BY <3>1, <3>2, Zenon
    <3>4. QED
      BY ONLY <3>3, n \in Nat
  <2>2. i \in I \cap DOMAIN rows
    BY <1>4, <1>5, Zenon
  <2>3. \A j \in I \cap DOMAIN rows : i <= j
    BY <1>9, Zenon
  <2> HIDE DEF I
  <2>4. QED
    BY ONLY <2>1, <2>2, <2>3, PickedFirst
<1>11. rows[i].pass /\ rows[i] = fold_samples(run.cases[i].case, o, record)
  BY <1>3, <1>4, <1>6, <1>10, Zenon
<1>12. Cardinality({l \in DOMAIN o : o[l].pass}) = Len(o)
  BY <1>11, FoldTells, Zenon
<1>13. \A l \in DOMAIN o : o[l].pass
  <2>1. \E S : o \in Seq(S)
    <3>1. PICK m \in Nat : DOMAIN samples = 1..m
      BY ONLY <1>7
    <3> DEFINE S == {SampleOutcome(samples[l], run.cases[i].case, record) : l \in 1..m}
    <3>2. o \in [1..m -> S]
      BY ONLY <1>8, <3>1
    <3> HIDE DEF S
    <3>3. o \in Seq(S)
      BY ONLY <3>2, m \in Nat
    <3>4. QED
      BY <3>3, Zenon
  <2>2. PICK S : o \in Seq(S)
    BY <2>1
  <2>3. QED
    BY ONLY <1>12, <2>2, AllOfThem
<1>14. k \in DOMAIN samples /\ k \in DOMAIN o
  BY <1>7, <1>8, Zenon
<1>15. SampleOutcome(samples[k], run.cases[i].case, record).pass
  <2>1. o[k] = SampleOutcome(samples[k], run.cases[i].case, record)
    BY ONLY <1>8, <1>14
  <2>2. QED
    BY <1>13, <1>14, <2>1, Zenon
<1>16. extract_verdict_json(samples[k].text).envelope.fresh = run.cases[i].case.expected.field
  BY <1>15, FreshIsSaid, Zenon
<1>17. QED
  BY <1>7, <1>16, Zenon

LEMMA MonitorAnswers ==
    ASSUME AnswersInv, Gave("monitor"), verdict.passed
    PROVE  AllSay(asked.clean, asked.manifest.id, "true") /\ AllSay(asked.injected, asked.manifest.id, "false")
<1>1. asked \in MonitorAsked /\ verdict = VerdictOn(asked) /\ cmd = "monitor"
  BY AskedOf DEF Gave
<1>2. verdict = score_monitor_pair(asked.manifest, FullReport(asked.clean), FullReport(asked.injected))
  BY <1>1 DEF VerdictOn
<1>3. /\ observation(FullReport(asked.clean), asked.manifest.id).runner_pass
      /\ observation(FullReport(asked.injected), asked.manifest.id).runner_pass
  BY <1>2, Zenon DEF score_monitor_pair
<1>4. ASSUME NEW run \in {asked.clean, asked.injected}, NEW fresh PROVE AllSay(run, asked.manifest.id, fresh)
  <2>1. PICK id : id = asked.manifest.id
    OBVIOUS
  <2>2. observation(FullReport(run), id).runner_pass
    BY <1>3, <2>1, Zenon
  <2>3. /\ run.cases \in Seq(ToSet(run.cases))
        /\ \A i \in DOMAIN run.cases : run.cases[i].samples \in Seq(ToSet(run.cases[i].samples))
    BY <1>1, MonitorAssumption, Zenon
  <2>4. PICK n \in Nat : DOMAIN run.cases = 1..n
    BY ONLY <2>3
  <2>5. QED
    BY <2>1, <2>2, <2>3, <2>4, PassesSayFresh, Zenon
<1>5. QED
  BY <1>4, Zenon

-------------------------------------------------------------------------------
(* The verdicts.                                                               *)

\* The gate fails exactly when something is lost, a sample is fair, what an
\* ablation recommends was measured to hold the floor, and a monitor that passes
\* was told fresh and not fresh: for any reports, cases, points and runs.
THEOREM VerdictsHaveTheirReasons == EvalSpec => []VerdictsAreEarned
<1>1. ASSUME AnswersInv PROVE VerdictsAreEarned
  <2>1. GateIsExact
    BY <1>1, GateAnswers
  <2>2. SamplesAreFair
    BY <1>1, SamplesAnswer
  <2>3. DowngradesHoldTheFloor
    BY <1>1, AblationAnswers
  <2>4. ASSUME Gave("monitor"), verdict.passed
        PROVE  AllSay(asked.clean, asked.manifest.id, "true") /\ AllSay(asked.injected, asked.manifest.id, "false")
    BY <1>1, <2>4, MonitorAnswers
  <2>5. QED
    BY <2>1, <2>2, <2>3, <2>4, Zenon DEF VerdictsAreEarned, CheaperRunsAreSound
<1>2. QED
  BY <1>1, AlwaysAnswersInv, PTL

-------------------------------------------------------------------------------
(* Sums and distributions.                                                     *)

\* A sum is taken from left to right.
SumsUpTo(f, s) ==
    /\ f[0] = 0
    /\ \A n \in 1..Len(s) : f[n] = f[n - 1] + s[n]
    /\ \A n \in 0..Len(s) : f[n] \in Nat

LEMMA SumUnrolls ==
    ASSUME NEW s \in Seq(Nat)
    PROVE  \E f : SumsUpTo(f, s) /\ Sum(s) = f[Len(s)]
<1> DEFINE N == Len(s)
           step == [p \in Nat \X (1..N) |-> p[1] + s[p[2]]]
           Eq(f) == f = [n \in 0..N |-> IF n = 0 THEN 0 ELSE f[n - 1] + s[n]]
           upto == CHOOSE f : Eq(f)
<1>1. N \in Nat /\ \A n \in 1..N : s[n] \in Nat
  OBVIOUS
<1>2. step \in [Nat \X (1..N) -> Nat]
  <2>1. \A p \in Nat \X (1..N) : p[1] \in Nat /\ s[p[2]] \in Nat
    BY <1>1
  <2>2. \A p \in Nat \X (1..N) : p[1] + s[p[2]] \in Nat
    BY <2>1
  <2>3. QED
    BY <2>2
<1>3. PICK f \in [0..N -> Nat] : Unrolls(f, 0, step, N)
  <2> HIDE DEF step, N
  <2>1. 0 \in Nat
    OBVIOUS
  <2>2. QED
    BY <1>1, <1>2, <2>1, RecursionExists
<1>4. \A n \in 1..N : f[n] = f[n - 1] + s[n]
  <2> TAKE n \in 1..N
  <2>1. n - 1 \in 0..N
    OBVIOUS
  <2>2. <<f[n - 1], n>> \in Nat \X (1..N)
    BY <2>1
  <2>3. f[n] = step[<<f[n - 1], n>>]
    BY <1>3 DEF Unrolls
  <2>4. QED
    BY <2>2, <2>3
<1>5. f[0] = 0
  BY <1>3 DEF Unrolls
<1> HIDE DEF step
<1>6. Eq(f)
  <2> HIDE DEF N
  <2>1. \A n \in 0..N : f[n] = IF n = 0 THEN 0 ELSE f[n - 1] + s[n]
    <3> TAKE n \in 0..N
    <3>1. n = 0 \/ n \in 1..N
      BY <1>1
    <3>2. QED
      BY <3>1, <1>1, <1>4, <1>5
  <2>2. f = [n \in 0..N |-> f[n]]
    BY <1>3
  <2>3. QED
    BY <2>1, <2>2, Zenon
<1>7. Eq(upto)
  <2> HIDE DEF Eq
  <2>1. QED
    BY <1>6
<1>8. Sum(s) = upto[N]
  BY Zenon DEF Sum
<1> HIDE DEF upto
<1>9. /\ upto[0] = 0
      /\ \A n \in 1..N : upto[n] = upto[n - 1] + s[n]
  <2> HIDE DEF N
  <2>1. \A n \in 0..N : upto[n] = IF n = 0 THEN 0 ELSE upto[n - 1] + s[n]
    BY <1>7, Zenon
  <2>2. 0 \in 0..N /\ \A n \in 1..N : n \in 0..N /\ n # 0
    BY <1>1
  <2>3. QED
    BY <2>1, <2>2, Zenon
<1> DEFINE D == {n \in 0..N : upto[n] \in Nat}
<1> HIDE DEF N, Eq
<1>10. 0 \in D
  BY <1>1, <1>9
<1>11. ASSUME NEW n \in 1..N, n - 1 \in D PROVE n \in D
  <2>1. upto[n - 1] \in Nat /\ n \in 0..N /\ s[n] \in Nat
    BY <1>1, <1>11
  <2>2. upto[n] = upto[n - 1] + s[n]
    BY <1>9, Zenon
  <2>3. upto[n] \in Nat
    BY ONLY <2>1, <2>2
  <2>4. QED
    BY <2>1, <2>3
<1>12. 0..N \subseteq D
  <2> HIDE DEF D
  <2>1. QED
    BY <1>1, <1>10, <1>11, InductionUpTo
<1>13. SumsUpTo(upto, s)
  <2>1. \A n \in 0..N : upto[n] \in Nat
    BY <1>12
  <2> HIDE DEF D
  <2>2. QED
    BY <1>9, <2>1, Zenon DEF SumsUpTo, N
<1>14. QED
  BY <1>8, <1>13, Zenon DEF N

LEMMA SumTells ==
    ASSUME NEW s \in Seq(Nat)
    PROVE  /\ Sum(s) \in Nat
           /\ Sum(s) = 0 <=> \A i \in DOMAIN s : s[i] = 0
<1> DEFINE N == Len(s)
<1>1. PICK f : SumsUpTo(f, s) /\ Sum(s) = f[N]
  BY SumUnrolls, Zenon
<1>2. N \in Nat /\ DOMAIN s = 1..N /\ \A n \in 1..N : s[n] \in Nat
  OBVIOUS
<1>3. f[0] = 0 /\ (\A n \in 1..N : f[n] = f[n - 1] + s[n]) /\ \A n \in 0..N : f[n] \in Nat
  BY <1>1, Zenon DEF SumsUpTo
<1> HIDE DEF N
<1> DEFINE D == {n \in 0..N : f[n] = 0 <=> \A i \in 1..n : s[i] = 0}
<1>4. 0 \in D
  BY <1>2, <1>3
<1>5. ASSUME NEW n \in 1..N, n - 1 \in D PROVE n \in D
  <2>1. PICK m : m = n - 1
    OBVIOUS
  <2>2. m \in 0..N /\ n = m + 1 /\ n \in 0..N /\ (f[m] = 0 <=> \A i \in 1..m : s[i] = 0)
    BY <1>2, <1>5, <2>1
  <2>3. f[n] = f[m] + s[n] /\ f[m] \in Nat /\ s[n] \in Nat
    BY <1>2, <1>3, <2>1, <2>2, Zenon
  <2>4. f[n] = 0 <=> f[m] = 0 /\ s[n] = 0
    BY ONLY <2>3
  <2>5. (\A i \in 1..n : s[i] = 0) <=> (\A i \in 1..m : s[i] = 0) /\ s[n] = 0
    BY ONLY <1>2, <2>2
  <2>6. QED
    BY <2>2, <2>4, <2>5
<1>6. 0..N \subseteq D
  <2> HIDE DEF D
  <2>1. QED
    BY <1>2, <1>4, <1>5, InductionUpTo
<1>7. N \in D
  <2> HIDE DEF D
  <2>1. QED
    BY <1>2, <1>6
<1>8. f[N] \in Nat
  BY <1>2, <1>3
<1>9. QED
  BY <1>1, <1>2, <1>7, <1>8

\* Two sums are added place by place.
LEMMA SumsAddUp ==
    ASSUME NEW a \in Seq(Nat), NEW b \in Seq(Nat), NEW c \in Seq(Nat), Len(a) = Len(c), Len(b) = Len(c),
           \A i \in DOMAIN c : c[i] = a[i] + b[i]
    PROVE  Sum(a) + Sum(b) = Sum(c)
<1> DEFINE N == Len(c)
<1>1. PICK f : SumsUpTo(f, a) /\ Sum(a) = f[N]
  BY SumUnrolls, Zenon
<1>2. PICK g : SumsUpTo(g, b) /\ Sum(b) = g[N]
  BY SumUnrolls, Zenon
<1>3. PICK h : SumsUpTo(h, c) /\ Sum(c) = h[N]
  BY SumUnrolls, Zenon
<1>4. N \in Nat /\ \A n \in 1..N : a[n] \in Nat /\ b[n] \in Nat /\ c[n] = a[n] + b[n]
  <2>1. N \in Nat /\ DOMAIN a = 1..N /\ DOMAIN b = 1..N /\ DOMAIN c = 1..N
    BY ONLY a \in Seq(Nat), b \in Seq(Nat), c \in Seq(Nat), Len(a) = Len(c), Len(b) = Len(c)
  <2>2. \A n \in 1..N : a[n] \in Nat
    BY ONLY a \in Seq(Nat), <2>1
  <2>3. \A n \in 1..N : b[n] \in Nat
    BY ONLY b \in Seq(Nat), <2>1
  <2>4. \A n \in 1..N : c[n] = a[n] + b[n]
    BY ONLY \A i \in DOMAIN c : c[i] = a[i] + b[i], <2>1, Zenon
  <2>5. QED
    BY <2>1, <2>2, <2>3, <2>4, Zenon
<1>5. /\ f[0] = 0 /\ g[0] = 0 /\ h[0] = 0
      /\ \A n \in 1..N : f[n] = f[n - 1] + a[n] /\ g[n] = g[n - 1] + b[n] /\ h[n] = h[n - 1] + c[n]
      /\ \A n \in 0..N : f[n] \in Nat /\ g[n] \in Nat /\ h[n] \in Nat
  BY <1>1, <1>2, <1>3, Zenon DEF SumsUpTo
<1> HIDE DEF N
<1> DEFINE D == {n \in 0..N : f[n] + g[n] = h[n]}
<1>6. 0 \in D
  BY <1>4, <1>5
<1>7. ASSUME NEW n \in 1..N, n - 1 \in D PROVE n \in D
  <2>1. PICK m : m = n - 1
    OBVIOUS
  <2>2. m \in 0..N /\ n \in 0..N /\ f[m] + g[m] = h[m]
    BY <1>4, <1>7, <2>1
  <2>3. f[n] = f[m] + a[n] /\ g[n] = g[m] + b[n] /\ h[n] = h[m] + c[n] /\ f[m] \in Nat /\ g[m] \in Nat /\ h[m] \in Nat
    BY <1>5, <2>1, <2>2, Zenon
  <2>4. a[n] \in Nat /\ b[n] \in Nat /\ c[n] = a[n] + b[n]
    BY <1>4, Zenon
  <2>5. PICK p, q, x, y : p = f[m] /\ q = g[m] /\ x = a[n] /\ y = b[n]
    OBVIOUS
  <2>6. p \in Nat /\ q \in Nat /\ x \in Nat /\ y \in Nat
    BY <2>3, <2>4, <2>5, Zenon
  <2>7. f[n] = p + x /\ g[n] = q + y /\ h[n] = (p + q) + (x + y)
    BY <2>2, <2>3, <2>4, <2>5, Zenon
  <2>8. f[n] + g[n] = h[n]
    BY ONLY <2>6, <2>7
  <2>9. QED
    BY <2>2, <2>8
<1> HIDE DEF D
<1>8. N \in D
  <2>1. 0..N \subseteq D
    BY <1>4, <1>6, <1>7, InductionUpTo
  <2>2. QED
    BY <1>4, <2>1
<1>9. QED
  BY <1>1, <1>2, <1>3, <1>8 DEF D

\* The sum of two sequences that are put end to end.
LEMMA SumOfJoined ==
    ASSUME NEW s \in Seq(Nat), NEW t \in Seq(Nat)
    PROVE  Sum(s \o t) = Sum(s) + Sum(t)
<1> DEFINE N == Len(s)
           M == Len(t)
           u == s \o t
<1>0. u \in Seq(Nat) /\ Len(u) = N + M
  OBVIOUS
<1>1. PICK f : SumsUpTo(f, s) /\ Sum(s) = f[N]
  BY SumUnrolls, Zenon
<1>2. PICK g : SumsUpTo(g, t) /\ Sum(t) = g[M]
  BY SumUnrolls, Zenon
<1>3. PICK h : SumsUpTo(h, u) /\ Sum(u) = h[Len(u)]
  <2> HIDE DEF u
  <2>1. QED
    BY <1>0, SumUnrolls, Zenon
<1>4. /\ N \in Nat /\ M \in Nat
      /\ \A n \in 1..N : s[n] \in Nat /\ u[n] = s[n]
      /\ \A n \in 1..M : t[n] \in Nat /\ u[N + n] = t[n]
  OBVIOUS
<1> HIDE DEF u
<1>5. /\ f[0] = 0 /\ (\A n \in 1..N : f[n] = f[n - 1] + s[n]) /\ \A n \in 0..N : f[n] \in Nat
      /\ g[0] = 0 /\ (\A n \in 1..M : g[n] = g[n - 1] + t[n]) /\ \A n \in 0..M : g[n] \in Nat
      /\ h[0] = 0 /\ (\A n \in 1..(N + M) : h[n] = h[n - 1] + u[n])
  BY <1>0, <1>1, <1>2, <1>3, Zenon DEF SumsUpTo
<1> HIDE DEF N, M
<1> DEFINE D == {n \in 0..N : h[n] = f[n]}
<1>6. 0 \in D
  BY <1>4, <1>5
<1>7. ASSUME NEW n \in 1..N, n - 1 \in D PROVE n \in D
  <2>1. PICK m : m = n - 1
    OBVIOUS
  <2>2. h[m] = f[m] /\ n \in 0..N /\ n \in 1..(N + M)
    BY <1>4, <1>7, <2>1
  <2>3. f[n] = f[m] + s[n] /\ h[n] = h[m] + u[n] /\ u[n] = s[n]
    BY <1>4, <1>5, <2>1, <2>2, Zenon
  <2>4. QED
    BY <2>2, <2>3
<1>8. h[N] = f[N]
  <2>1. 0..N \subseteq D
    <3> HIDE DEF D
    <3>1. QED
      BY <1>4, <1>6, <1>7, InductionUpTo
  <2>2. QED
    BY <1>4, <2>1
<1> HIDE DEF D
<1> DEFINE E == {n \in 0..M : h[N + n] = f[N] + g[n]}
<1>9. 0 \in E
  <2>1. N + 0 = N /\ f[N] \in Nat /\ 0 \in 0..M
    BY <1>4, <1>5
  <2>2. f[N] + g[0] = f[N]
    BY <1>5, <2>1
  <2>3. QED
    BY <1>8, <2>1, <2>2
<1>10. ASSUME NEW n \in 1..M, n - 1 \in E PROVE n \in E
  <2>1. PICK m : m = n - 1
    OBVIOUS
  <2>2. /\ h[N + m] = f[N] + g[m] /\ n \in 0..M /\ N + n \in 1..(N + M) /\ (N + n) - 1 = N + m
        /\ m \in 0..M /\ N \in 0..N
    BY <1>4, <1>10, <2>1
  <2>3. g[n] = g[m] + t[n] /\ h[N + n] = h[N + m] + u[N + n] /\ u[N + n] = t[n] /\ t[n] \in Nat
    <3>1. h[N + n] = h[(N + n) - 1] + u[N + n]
      BY <1>5, <2>2, Zenon
    <3>2. QED
      BY <1>4, <1>5, <2>1, <2>2, <3>1, Zenon
  <2>4. f[N] \in Nat /\ g[m] \in Nat
    BY <1>5, <2>2, Zenon
  <2>5. h[N + n] = f[N] + g[n]
    BY ONLY <2>2, <2>3, <2>4
  <2>6. QED
    BY <2>2, <2>5
<1>11. h[N + M] = f[N] + g[M]
  <2>1. 0..M \subseteq E
    <3> HIDE DEF E
    <3>1. QED
      BY <1>4, <1>9, <1>10, InductionUpTo
  <2>2. QED
    BY <1>4, <2>1
<1>12. QED
  BY <1>0, <1>1, <1>2, <1>3, <1>11, Zenon DEF u

\* A total that is there: no part is missing, and it is their sum.
LEMMA TotalIsTheSum ==
    ASSUME NEW s \in Seq(Nat \cup {Absent}), TrySum(s) # Absent
    PROVE  s \in Seq(Nat) /\ TrySum(s) = Sum(s)
<1> DEFINE N == Len(s)
           T == Nat \cup {Absent}
           step == [p \in T \X (1..N) |-> TryAdd(p[1], s[p[2]])]
           Eq(f) == f = [n \in 0..N |-> IF n = 0 THEN 0 ELSE TryAdd(f[n - 1], s[n])]
           upto == CHOOSE f : Eq(f)
<1>1. N \in Nat /\ \A n \in 1..N : s[n] \in T
  OBVIOUS
<1>2. \A a, b \in T : TryAdd(a, b) \in T
  BY DEF TryAdd, Absent
<1>3. step \in [T \X (1..N) -> T]
  <2> HIDE DEF T, N
  <2>1. \A p \in T \X (1..N) : p[1] \in T /\ s[p[2]] \in T
    BY <1>1
  <2>2. \A p \in T \X (1..N) : TryAdd(p[1], s[p[2]]) \in T
    BY <1>2, <2>1
  <2>3. QED
    BY <2>2
<1>4. 0 \in T
  OBVIOUS
<1> HIDE DEF T
<1>5. PICK f \in [0..N -> T] : Unrolls(f, 0, step, N)
  <2> HIDE DEF step, N
  <2>1. QED
    BY <1>1, <1>3, <1>4, RecursionExists
<1>6. f[0] = 0 /\ \A n \in 1..N : f[n] = TryAdd(f[n - 1], s[n])
  <2>1. ASSUME NEW n \in 1..N PROVE f[n] = TryAdd(f[n - 1], s[n])
    <3>1. n - 1 \in 0..N
      OBVIOUS
    <3>2. <<f[n - 1], n>> \in T \X (1..N)
      BY <3>1
    <3>3. f[n] = step[<<f[n - 1], n>>]
      BY <1>5 DEF Unrolls
    <3>4. QED
      BY <3>2, <3>3
  <2>2. QED
    BY <1>5, <2>1 DEF Unrolls
<1> HIDE DEF step
<1>7. Eq(f)
  <2> HIDE DEF N
  <2>1. \A n \in 0..N : f[n] = IF n = 0 THEN 0 ELSE TryAdd(f[n - 1], s[n])
    <3> TAKE n \in 0..N
    <3>1. n = 0 \/ n \in 1..N
      BY <1>1
    <3>2. n \in 1..N => n # 0
      BY <1>1
    <3>3. QED
      BY <3>1, <3>2, <1>6, Zenon
  <2>2. f = [n \in 0..N |-> f[n]]
    BY <1>5
  <2>3. QED
    BY <2>1, <2>2, Zenon
<1>8. Eq(upto)
  <2> HIDE DEF Eq
  <2>1. QED
    BY <1>7
<1>9. TrySum(s) = upto[N]
  BY Zenon DEF TrySum
<1> HIDE DEF upto
<1>10. /\ upto[0] = 0
       /\ \A n \in 1..N : upto[n] = TryAdd(upto[n - 1], s[n])
  <2> HIDE DEF N
  <2>1. \A n \in 0..N : upto[n] = IF n = 0 THEN 0 ELSE TryAdd(upto[n - 1], s[n])
    BY <1>8, Zenon
  <2>2. 0 \in 0..N /\ \A n \in 1..N : n \in 0..N /\ n # 0
    BY <1>1
  <2>3. QED
    BY <2>1, <2>2, Zenon
<1> HIDE DEF Eq
\* Once it is missing it stays so: from the end backwards, everything is there.
<1> DEFINE B == {n \in 0..N : upto[N - n] # Absent}
<1>11. 0 \in B
  <2> HIDE DEF N
  <2>1. N - 0 = N /\ 0 \in 0..N
    BY <1>1
  <2>2. QED
    BY <1>9, <2>1
<1>12. ASSUME NEW n \in 1..N, n - 1 \in B PROVE n \in B
  <2> HIDE DEF N
  <2>1. PICK k : k = N - (n - 1)
    OBVIOUS
  <2>2. k \in 1..N /\ upto[k] # Absent /\ k - 1 = N - n /\ n \in 0..N
    BY <1>1, <1>12, <2>1
  <2>3. upto[k - 1] # Absent
    BY <1>10, <2>2, Zenon DEF TryAdd
  <2>4. QED
    BY <2>2, <2>3
<1>13. \A n \in 1..N : upto[n] # Absent /\ upto[n - 1] # Absent
  <2> HIDE DEF N
  <2>1. 0..N \subseteq B
    <3> HIDE DEF B
    <3>1. QED
      BY <1>1, <1>11, <1>12, InductionUpTo
  <2> TAKE n \in 1..N
  <2>2. N - n \in 0..N /\ N - (n - 1) \in 0..N /\ N - (N - n) = n /\ N - (N - (n - 1)) = n - 1
    BY <1>1
  <2>3. QED
    BY <2>1, <2>2
<1> HIDE DEF B
<1>14. \A n \in 1..N : s[n] \in Nat /\ upto[n] = upto[n - 1] + s[n]
  <2> HIDE DEF N
  <2> TAKE n \in 1..N
  <2>1. upto[n] = TryAdd(upto[n - 1], s[n]) /\ upto[n] # Absent
    BY <1>10, <1>13
  <2>2. upto[n - 1] # Absent /\ s[n] # Absent
    BY <2>1, Zenon DEF TryAdd
  <2>3. s[n] \in T
    BY <1>1
  <2>4. QED
    BY <2>1, <2>2, <2>3, Zenon DEF TryAdd, T
<1>15. s \in Seq(Nat)
  <2>1. s \in [1..N -> Nat]
    BY <1>14
  <2> HIDE DEF N
  <2>2. QED
    BY <1>1, <2>1
<1>16. PICK g : SumsUpTo(g, s) /\ Sum(s) = g[N]
  BY <1>15, SumUnrolls, Zenon
<1>17. g[0] = 0 /\ \A n \in 1..N : g[n] = g[n - 1] + s[n]
  BY <1>16, Zenon DEF SumsUpTo
<1> HIDE DEF N
<1> DEFINE D == {n \in 0..N : g[n] = upto[n]}
<1>18. 0 \in D
  BY <1>1, <1>10, <1>17
<1>19. ASSUME NEW n \in 1..N, n - 1 \in D PROVE n \in D
  <2>1. g[n - 1] = upto[n - 1] /\ n \in 0..N
    BY <1>1, <1>19
  <2>2. g[n] = upto[n]
    BY <1>14, <1>17, <2>1, Zenon
  <2>3. QED
    BY <2>1, <2>2
<1>20. g[N] = upto[N]
  <2>1. 0..N \subseteq D
    <3> HIDE DEF D
    <3>1. QED
      BY <1>1, <1>18, <1>19, InductionUpTo
  <2>2. QED
    BY <1>1, <2>1
<1>21. QED
  BY <1>9, <1>15, <1>16, <1>20

Costs(s) == [i \in DOMAIN s |-> s[i].cost]

\* Of sequences put end to end the lengths add up.
LEMMA JoinedLength ==
    ASSUME NEW S, NEW seqs \in Seq(Seq(S))
    PROVE  Len(FlattenSeq(seqs)) = Sum([i \in DOMAIN seqs |-> Len(seqs[i])])
<1> DEFINE N == Len(seqs)
           l == [i \in 1..N |-> Len(seqs[i])]
<1>1. PICK f : JoinsUpTo(f, seqs, S) /\ FlattenSeq(seqs) = f[N]
  BY FlattenUnrolls, Zenon
<1>2. N \in Nat /\ DOMAIN seqs = 1..N /\ \A i \in 1..N : seqs[i] \in Seq(S) /\ Len(seqs[i]) \in Nat
  OBVIOUS
<1>3. f[0] = <<>> /\ (\A i \in 1..N : f[i] = f[i - 1] \o seqs[i]) /\ \A i \in 0..N : f[i] \in Seq(S)
  BY <1>1, Zenon DEF JoinsUpTo
<1>4. l \in Seq(Nat) /\ Len(l) = N
  <2>1. l \in [1..N -> Nat]
    BY <1>2
  <2> HIDE DEF l, N
  <2>2. QED
    BY <1>2, <2>1
<1>5. \A n \in 1..N : l[n] = Len(seqs[n])
  OBVIOUS
<1> HIDE DEF l
<1>6. PICK h : SumsUpTo(h, l) /\ Sum(l) = h[Len(l)]
  BY <1>4, SumUnrolls, Zenon
<1>7. h[0] = 0 /\ \A n \in 1..N : h[n] = h[n - 1] + l[n]
  BY <1>4, <1>6, Zenon DEF SumsUpTo
<1> HIDE DEF N
<1> DEFINE D == {n \in 0..N : Len(f[n]) = h[n]}
<1>8. 0 \in D
  BY <1>2, <1>3, <1>7
<1>9. ASSUME NEW n \in 1..N, n - 1 \in D PROVE n \in D
  <2>1. PICK m, t, u : m = n - 1 /\ t = f[m] /\ u = seqs[n]
    OBVIOUS
  <2>2. Len(t) = h[m] /\ n \in 0..N /\ m \in 0..N
    BY <1>2, <1>9, <2>1
  <2>3. f[n] = t \o u /\ t \in Seq(S) /\ u \in Seq(S)
    BY <1>2, <1>3, <2>1, <2>2, Zenon
  <2>4. h[n] = h[m] + Len(u)
    BY <1>5, <1>7, <2>1, Zenon
  <2>5. Len(f[n]) = Len(t) + Len(u)
    BY <2>3
  <2>6. QED
    BY <2>2, <2>4, <2>5
<1>10. N \in D
  <2> HIDE DEF D
  <2>1. 0..N \subseteq D
    BY <1>2, <1>8, <1>9, InductionUpTo
  <2>2. QED
    BY <1>2, <2>1
<1>11. Len(f[N]) = Sum(l)
  BY <1>4, <1>6, <1>10
<1>12. QED
  BY <1>1, <1>2, <1>11 DEF l

\* So do the costs of invocations.
LEMMA JoinedCosts ==
    ASSUME NEW S, \A x \in S : x.cost \in Nat, NEW seqs \in Seq(Seq(S))
    PROVE  Sum(Costs(FlattenSeq(seqs))) = Sum([i \in DOMAIN seqs |-> Sum(Costs(seqs[i]))])
<1> DEFINE N == Len(seqs)
<1>1. PICK f : JoinsUpTo(f, seqs, S) /\ FlattenSeq(seqs) = f[N]
  BY FlattenUnrolls, Zenon
<1>2. N \in Nat /\ DOMAIN seqs = 1..N /\ \A i \in 1..N : seqs[i] \in Seq(S) /\ Len(seqs[i]) \in Nat
  OBVIOUS
<1>3. f[0] = <<>> /\ (\A i \in 1..N : f[i] = f[i - 1] \o seqs[i]) /\ \A i \in 0..N : f[i] \in Seq(S)
  BY <1>1, Zenon DEF JoinsUpTo
<1>4. ASSUME NEW t \in Seq(S) PROVE Costs(t) \in Seq(Nat) /\ Len(Costs(t)) = Len(t)
  <2>1. Costs(t) \in [1..Len(t) -> Nat]
    BY DEF Costs
  <2>2. QED
    BY <2>1
<1>5. ASSUME NEW t \in Seq(S), NEW u \in Seq(S) PROVE Costs(t \o u) = Costs(t) \o Costs(u)
  <2>1. PICK v : v = t \o u
    OBVIOUS
  <2>2. PICK a, b : a = Costs(t) /\ b = Costs(u)
    OBVIOUS
  <2>3. a \in Seq(Nat) /\ b \in Seq(Nat) /\ Len(a) = Len(t) /\ Len(b) = Len(u)
    BY <1>4, <2>2
  <2>4. \A i \in DOMAIN t : a[i] = t[i].cost
    BY <2>2 DEF Costs
  <2>5. \A i \in DOMAIN u : b[i] = u[i].cost
    BY <2>2 DEF Costs
  <2>6. a \o b = [i \in 1..(Len(t) + Len(u)) |-> IF i <= Len(t) THEN a[i] ELSE b[i - Len(t)]]
    <3>1. PICK q : q = a \o b
      OBVIOUS
    <3>2. q \in Seq(Nat) /\ Len(q) = Len(t) + Len(u)
      <4>1. q \in Seq(Nat) /\ Len(q) = Len(a) + Len(b)
        <5>1. a \in Seq(Nat) /\ b \in Seq(Nat)
          BY <2>3, Zenon
        <5>2. q \in Seq(Nat)
          BY ONLY <5>1, <3>1
        <5>3. Len(q) = Len(a) + Len(b)
          BY ONLY <5>1, <3>1
        <5>4. QED
          BY <5>2, <5>3
      <4>2. QED
        BY <2>3, <4>1, Zenon
    <3>3. \A i \in 1..(Len(t) + Len(u)) : q[i] = IF i <= Len(t) THEN a[i] ELSE b[i - Len(t)]
      BY <2>3, <3>1
    <3>4. q = [i \in 1..(Len(t) + Len(u)) |-> q[i]]
      BY <3>2
    <3>5. QED
      BY <3>1, <3>3, <3>4, Zenon
  <2>7. \A i \in 1..(Len(t) + Len(u)) : v[i] = IF i <= Len(t) THEN t[i] ELSE u[i - Len(t)]
    BY <2>1
  <2>8. DOMAIN v = 1..(Len(t) + Len(u)) /\ Costs(v) = [i \in DOMAIN v |-> v[i].cost]
    BY <2>1 DEF Costs
  <2>9. ASSUME NEW i \in 1..(Len(t) + Len(u))
        PROVE  v[i].cost = IF i <= Len(t) THEN a[i] ELSE b[i - Len(t)]
    <3>1. i <= Len(t) => i \in DOMAIN t
      OBVIOUS
    <3>2. ~(i <= Len(t)) => i - Len(t) \in DOMAIN u
      OBVIOUS
    <3>3. v[i] = IF i <= Len(t) THEN t[i] ELSE u[i - Len(t)]
      BY <2>7, Zenon
    <3>4. QED
      BY <2>4, <2>5, <3>1, <3>2, <3>3, Zenon
  <2>10. Costs(v) = a \o b
    BY <2>6, <2>8, <2>9, Zenon
  <2>11. QED
    BY <2>1, <2>2, <2>10
<1> DEFINE c == [i \in 1..N |-> Sum(Costs(seqs[i]))]
<1>6. c \in Seq(Nat) /\ Len(c) = N
  <2>1. \A i \in 1..N : Sum(Costs(seqs[i])) \in Nat
    BY <1>2, <1>4, SumTells
  <2>2. c \in [1..N -> Nat]
    BY <1>2, <2>1
  <2> HIDE DEF c, N
  <2>3. QED
    BY <1>2, <2>2
<1>7. \A n \in 1..N : c[n] = Sum(Costs(seqs[n]))
  OBVIOUS
<1> HIDE DEF c
<1>8. PICK g : SumsUpTo(g, c) /\ Sum(c) = g[Len(c)]
  BY <1>6, SumUnrolls, Zenon
<1>10. g[0] = 0 /\ \A n \in 1..N : g[n] = g[n - 1] + c[n]
  BY <1>6, <1>8, Zenon DEF SumsUpTo
<1> HIDE DEF N
<1> DEFINE D == {n \in 0..N : Sum(Costs(f[n])) = g[n]}
<1>11. 0 \in D
  <2>1. Costs(<<>>) = <<>>
    BY DEF Costs
  <2>2. Sum(<<>>) = 0
    <3>1. <<>> \in Seq(Nat) /\ \A i \in DOMAIN <<>> : <<>>[i] = 0
      OBVIOUS
    <3>2. QED
      BY <3>1, SumTells
  <2>3. Sum(Costs(f[0])) = g[0]
    BY <1>3, <1>10, <2>1, <2>2, Zenon
  <2>5. 0 \in 0..N
    BY <1>2
  <2>6. QED
    BY <2>3, <2>5
<1>12. ASSUME NEW n \in 1..N, n - 1 \in D PROVE n \in D
  <2>1. PICK m, t, u : m = n - 1 /\ t = f[m] /\ u = seqs[n]
    OBVIOUS
  <2>2. Sum(Costs(t)) = g[m] /\ n \in 0..N /\ m \in 0..N
    BY <1>2, <1>12, <2>1
  <2>3. f[n] = t \o u /\ t \in Seq(S) /\ u \in Seq(S)
    BY <1>2, <1>3, <2>1, <2>2, Zenon
  <2>4. g[n] = g[m] + Sum(Costs(u))
    BY <1>7, <1>10, <2>1, Zenon
  <2>5. Sum(Costs(f[n])) = Sum(Costs(t)) + Sum(Costs(u))
    <3>1. Costs(t) \in Seq(Nat) /\ Costs(u) \in Seq(Nat)
      BY <1>4, <2>3
    <3>2. Sum(Costs(t) \o Costs(u)) = Sum(Costs(t)) + Sum(Costs(u))
      BY ONLY <3>1, SumOfJoined
    <3>3. QED
      BY <1>5, <2>3, <3>2
  <2>7. QED
    BY <2>2, <2>4, <2>5
<1>13. N \in D
  <2> HIDE DEF D
  <2>1. 0..N \subseteq D
    BY <1>2, <1>11, <1>12, InductionUpTo
  <2>2. QED
    BY <1>2, <2>1
<1>14. Sum(Costs(f[N])) = Sum(c)
  BY <1>6, <1>8, <1>13
<1>15. QED
  BY <1>1, <1>2, <1>14 DEF c

\* A distribution made of a sequence holds every element of it, once for every place.
LEMMA DistributionTells ==
    ASSUME NEW S, NEW w \in Seq(S)
    PROVE  /\ AnswersIn(ToBag(w)) = Len(w)
           /\ DOMAIN ToBag(w) = {w[i] : i \in DOMAIN w}
           /\ IsFiniteSet(DOMAIN ToBag(w))
<1> DEFINE N == Len(w)
           R == {w[i] : i \in DOMAIN w}
           Spots(s) == {i \in 1..N : w[i] \in s}
           G == [s \in SUBSET R |-> Cardinality(Spots(s))]
           d == ToBag(w)
           Eq(f) == f = [s \in SUBSET DOMAIN d |->
                            IF s = {} THEN 0 ELSE LET x == CHOOSE y \in s : TRUE IN d[x] + f[s \ {x}]]
           iter == CHOOSE f : Eq(f)
<1>1. N \in Nat /\ DOMAIN w = 1..N
  OBVIOUS
<1>2. IsFiniteSet(1..N) /\ Cardinality(1..N) = N
  <2> HIDE DEF N
  <2>1. 1 \in Int /\ N \in Int
    BY <1>1
  <2>2. IsFiniteSet(1..N) /\ Cardinality(1..N) = IF 1 > N THEN 0 ELSE N - 1 + 1
    BY ONLY <2>1, FS_Interval
  <2>3. QED
    BY <1>1, <2>2
<1>3. d = [x \in R |-> Cardinality({i \in DOMAIN w : w[i] = x})]
  BY Zenon DEF ToBag, Range
<1> HIDE DEF N, d
<1>4. DOMAIN d = R /\ \A x \in R : d[x] = Cardinality({i \in 1..N : w[i] = x})
  BY <1>1, <1>3, Zenon
<1>5. IsFiniteSet(R)
  <2>1. w \in Surjection(1..N, R)
    BY <1>1 DEF Surjection
  <2>2. QED
    BY <1>2, <2>1, FS_Surjection, Zenon DEF ExistsSurjection
<1>6. \A s : IsFiniteSet(Spots(s)) /\ Cardinality(Spots(s)) \in Nat
  <2> TAKE s
  <2>1. Spots(s) \in SUBSET (1..N)
    OBVIOUS
  <2> HIDE DEF Spots
  <2>2. QED
    BY <1>2, <2>1, FS_Subset, FS_CardinalityType
<1>7. ASSUME NEW s \in SUBSET R, NEW x \in s
      PROVE  Cardinality(Spots(s)) = d[x] + Cardinality(Spots(s \ {x}))
  <2>1. Spots(s) = Spots({x}) \cup Spots(s \ {x}) /\ Spots({x}) \cap Spots(s \ {x}) = {}
    OBVIOUS
  <2>2. d[x] = Cardinality(Spots({x}))
    <3>1. Spots({x}) = {i \in 1..N : w[i] = x}
      OBVIOUS
    <3>2. x \in R
      OBVIOUS
    <3> HIDE DEF Spots, R
    <3>3. QED
      BY <1>4, <3>1, <3>2, Zenon
  <2> HIDE DEF Spots
  <2>3. PICK A, B, C : A = Spots({x}) /\ B = Spots(s \ {x}) /\ C = Spots(s)
    OBVIOUS
  <2>4. IsFiniteSet(A) /\ IsFiniteSet(B) /\ Cardinality(A) \in Nat /\ Cardinality(B) \in Nat
    BY <1>6, <2>3, Zenon
  <2>5. Cardinality(A \cup B) = Cardinality(A) + Cardinality(B) - Cardinality(A \cap B)
    BY ONLY <2>4, FS_Union
  <2>6. Cardinality(A \cap B) = 0
    BY <2>1, <2>3, FS_EmptySet, Zenon
  <2>7. Cardinality(C) = Cardinality(A) + Cardinality(B)
    <3>1. C = A \cup B
      BY <2>1, <2>3, Zenon
    <3>2. QED
      BY ONLY <2>4, <2>5, <2>6, <3>1
  <2>8. QED
    BY <2>2, <2>3, <2>7, Zenon
<1>8. Spots({}) = {} /\ Cardinality(Spots({})) = 0
  <2>1. Spots({}) = {}
    OBVIOUS
  <2>2. QED
    BY <2>1, FS_EmptySet, Zenon
<1>9. Spots(R) = 1..N
  BY <1>1
<1> HIDE DEF Spots, R
<1>10. Eq(G)
  <2>1. ASSUME NEW s \in SUBSET R
        PROVE  Cardinality(Spots(s))
                  = IF s = {} THEN 0 ELSE LET x == CHOOSE y \in s : TRUE IN d[x] + G[s \ {x}]
    <3>1. CASE s = {}
      BY <1>8, <3>1, Zenon
    <3>2. CASE s # {}
      <4>1. PICK x : x = CHOOSE y \in s : TRUE
        OBVIOUS
      <4>2. x \in s /\ s \ {x} \in SUBSET R
        BY <3>2, <4>1
      <4>3. G[s \ {x}] = Cardinality(Spots(s \ {x}))
        BY <4>2, Zenon
      <4>4. Cardinality(Spots(s)) = d[x] + G[s \ {x}]
        BY <1>7, <4>2, <4>3, Zenon
      <4>5. QED
        BY <3>2, <4>1, <4>4, Zenon
    <3>3. QED
      BY <3>1, <3>2
  <2>2. G = [s \in SUBSET R |-> IF s = {} THEN 0 ELSE LET x == CHOOSE y \in s : TRUE IN d[x] + G[s \ {x}]]
    BY <2>1, Zenon
  <2> HIDE DEF G
  <2>3. QED
    BY <1>4, <2>2, Zenon
<1>11. Eq(iter)
  <2> HIDE DEF Eq, G
  <2>1. QED
    BY <1>10
<1>12. AnswersIn(d) = iter[R]
  <2>1. AnswersIn(d) = iter[DOMAIN d]
    BY Zenon DEF AnswersIn, MapThenSumSet, MapThenFoldSet
  <2> HIDE DEF iter
  <2>2. QED
    BY <1>4, <2>1, Zenon
<1> HIDE DEF iter
<1>13. \A s \in SUBSET R : iter[s] = IF s = {} THEN 0 ELSE LET x == CHOOSE y \in s : TRUE IN d[x] + iter[s \ {x}]
  BY <1>4, <1>11, Zenon
<1> HIDE DEF Eq, G
<1> DEFINE P == {n \in Nat : \A s \in SUBSET R : Cardinality(s) = n => iter[s] = Cardinality(Spots(s))}
<1>14. \A s \in SUBSET R : IsFiniteSet(s) /\ Cardinality(s) \in Nat
  BY <1>5, FS_Subset, FS_CardinalityType
<1>15. 0 \in P
  <2>1. ASSUME NEW s \in SUBSET R, Cardinality(s) = 0 PROVE iter[s] = Cardinality(Spots(s))
    <3>1. s = {}
      BY <1>14, <2>1, FS_EmptySet, Zenon
    <3>2. QED
      BY <1>8, <1>13, <3>1, Zenon
  <2>2. QED
    BY <2>1
<1>16. ASSUME NEW n \in Nat, n \in P PROVE n + 1 \in P
  <2>1. ASSUME NEW s \in SUBSET R, Cardinality(s) = n + 1 PROVE iter[s] = Cardinality(Spots(s))
    <3>1. s # {}
      <4>1. s = {} => Cardinality(s) = 0
        BY FS_EmptySet, Zenon
      <4>2. QED
        BY <2>1, <4>1
    <3>2. PICK x : x = CHOOSE y \in s : TRUE
      OBVIOUS
    <3>3. x \in s /\ s \ {x} \in SUBSET R
      BY <3>1, <3>2
    <3>4. Cardinality(s \ {x}) = n
      <4>1. IsFiniteSet(s)
        BY <1>14
      <4>2. Cardinality(s \ {x}) = Cardinality(s) - 1
        BY ONLY <3>3, <4>1, FS_RemoveElement
      <4>3. QED
        BY <2>1, <4>2
    <3>5. iter[s \ {x}] = Cardinality(Spots(s \ {x}))
      BY <1>16, <3>3, <3>4
    <3>6. iter[s] = d[x] + iter[s \ {x}]
      BY <1>13, <3>1, <3>2, Zenon
    <3>7. QED
      BY <1>7, <3>3, <3>5, <3>6, Zenon
  <2>2. QED
    BY <2>1
<1>17. iter[R] = Cardinality(Spots(R))
  <2>1. Nat \subseteq P
    <3> HIDE DEF P
    <3>1. QED
      BY <1>15, <1>16, Induction
  <2>2. R \in SUBSET R /\ Cardinality(R) \in Nat
    BY <1>14
  <2>3. QED
    BY <2>1, <2>2
<1>18. AnswersIn(d) = N
  BY <1>2, <1>9, <1>12, <1>17, Zenon
<1>19. QED
  BY <1>4, <1>5, <1>18 DEF d, R, N

-------------------------------------------------------------------------------
(* eval run: what is read from a text, and what a case comes to.                *)

\* The least and the greatest of some numbers.
LEMMA MinTells ==
    ASSUME NEW S \in SUBSET Nat, S # {}
    PROVE  Min(S) \in S /\ \A x \in S : Min(S) <= x
<1>1. \E m \in S : \A x \in S : m <= x
  BY LeastNatural
<1>2. QED
  BY <1>1 DEF Min

LEMMA MaxTells ==
    ASSUME NEW n \in Nat, NEW S \in SUBSET (1..n), S # {}
    PROVE  Max(S) \in S /\ \A x \in S : x <= Max(S)
<1>1. \E m \in S : \A x \in S : x <= m
  BY GreatestNatural
<1>2. QED
  BY <1>1 DEF Max

\* What a fence encloses is a part of the text.
LEMMA StrippedIsText ==
    ASSUME NEW S, NEW text \in Seq(S)
    PROVE  strip_fence(text) \in Seq(S)
<1> DEFINE open == SelectInSeq(text, IsFence)
           ends == {i \in open + 1 .. Len(text) : text[i].is = "newline"}
           start == Min(ends) + 1
           closes == {i \in start .. Len(text) : IsFence(text[i])}
<1>1. strip_fence(text) = IF open = 0 \/ ends = {} \/ closes = {} THEN text
                          ELSE SubSeq(text, start, Min(closes) - 1)
  BY Zenon DEF strip_fence
<1>2. PICK N \in Nat : N = Len(text)
  OBVIOUS
<1>3. open \in Nat
  <2> DEFINE I == {i \in 1..Len(text) : IsFence(text[i])}
  <2>1. open = IF I # {} THEN Min(I) ELSE 0
    BY Zenon DEF SelectInSeq, Min
  <2>2. I \in SUBSET Nat
    OBVIOUS
  <2> HIDE DEF I, open
  <2>3. I # {} => Min(I) \in I
    BY <2>2, MinTells
  <2>4. QED
    BY <2>1, <2>2, <2>3
<1> HIDE DEF open
<1>4. SUFFICES ASSUME ends # {}, closes # {} PROVE SubSeq(text, start, Min(closes) - 1) \in Seq(S)
  BY <1>1
<1>5. Min(ends) \in Nat
  <2>1. ends \in SUBSET Nat
    BY <1>3
  <2> HIDE DEF ends
  <2>2. QED
    BY <1>4, <2>1, MinTells
<1>6. start \in Nat /\ 1 <= start
  <2> HIDE DEF ends
  <2>1. QED
    BY <1>5
<1> HIDE DEF start, ends
<1>7. Min(closes) \in start..N
  <2>1. closes \in SUBSET Nat /\ closes \subseteq start..N
    BY <1>2, <1>6
  <2> HIDE DEF closes
  <2>2. QED
    BY <1>4, <2>1, MinTells
<1> HIDE DEF closes
<1>8. PICK n : n = Min(closes) - 1
  OBVIOUS
<1>9. n \in Int /\ n <= N
  BY <1>6, <1>7, <1>8
<1>10. SubSeq(text, start, n) \in Seq(S)
  <2>1. \A i \in start..n : text[i] \in S
    BY <1>2, <1>6, <1>9
  <2>2. QED
    BY <1>6, <1>9, <2>1
<1>11. QED
  BY <1>8, <1>10, Zenon

\* What is extracted is what the text has of that kind, or nothing.
LEMMA ExtractedTells ==
    ASSUME NEW text, IsText(text), NEW is \in {"table", "verdict"}
    PROVE  ExtractedAs(text, is) = NoResult \/ ExtractedAs(text, is).is = is
<1> DEFINE S == {p \in ToSet(text) : p.is = is => p.of.is = is}
<1>1. text \in Seq(S)
  <2>1. text \in Seq(ToSet(text)) /\ \A i \in DOMAIN text : text[i].is = is => text[i].of.is = is
    BY Zenon DEF IsText
  <2>2. \A i \in DOMAIN text : text[i] \in ToSet(text)
    BY Zenon DEF ToSet
  <2>3. \A i \in DOMAIN text : text[i] \in S
    BY <2>1, <2>2, Zenon
  <2> HIDE DEF S
  <2>4. QED
    BY <2>1, <2>3
<1>2. PICK t : t = strip_fence(text) /\ t \in Seq(S)
  <2> HIDE DEF S
  <2>1. QED
    BY <1>1, StrippedIsText
<1>3. PICK found : found = Outermost(t)
  OBVIOUS
<1>4. \A p \in S : p.is = is => p.of.is = is
  BY Zenon
<1> HIDE DEF S
<1>5. found \in Seq(S)
  <2> DEFINE B == {i \in DOMAIN t : HasBraces(t[i])}
  <2>1. PICK n \in Nat : n = Len(t) /\ DOMAIN t = 1..n
    BY <1>2
  <2>2. CASE B = {}
    <3>1. found = <<>>
      BY <1>3, <2>2, Zenon DEF Outermost
    <3>2. QED
      BY <3>1
  <2>3. CASE B # {}
    <3>1. found = SubSeq(t, Min(B), Max(B))
      BY <1>3, <2>3, Zenon DEF Outermost
    <3>2. B \subseteq 1..n /\ B \in SUBSET Nat
      BY <2>1
    <3> HIDE DEF B
    <3>3. Min(B) \in 1..n /\ Max(B) \in 1..n
      BY <2>3, <3>2, MinTells, MaxTells
    <3>4. PICK a, b : a = Min(B) /\ b = Max(B)
      OBVIOUS
    <3>5. a \in 1..n /\ b \in 1..n /\ \A i \in a..b : t[i] \in S
      BY <1>2, <2>1, <3>3, <3>4
    <3>6. SubSeq(t, a, b) \in Seq(S)
      BY <1>2, <2>1, <3>5
    <3>7. QED
      BY <3>1, <3>4, <3>6, Zenon
  <2>4. QED
    BY <2>2, <2>3
<1>6. ExtractedAs(text, is) = IF Len(found) = 1 /\ found[1].is = is THEN found[1].of ELSE NoResult
  BY <1>2, <1>3, Zenon DEF ExtractedAs
<1>7. Len(found) = 1 => found[1] \in S
  BY ONLY <1>5
<1>8. QED
  BY <1>4, <1>6, <1>7, Zenon

\* What an invocation came to, and the answer that is kept of it.
ReadAs(inv, case) == ExtractedAs(inv.text, case.kind)
AnswerOf(inv, case) == IF ReadAs(inv, case) = NoResult THEN Raw(inv.text) ELSE ReadAs(inv, case)

Matched(inv, case) == inv.ok /\ score_value(ReadAs(inv, case), case) = "match"

IsOutcome(o, inv, case, record) ==
    /\ o.pass \in BOOLEAN /\ (o.pass <=> Matched(inv, case))
    /\ o.hit = inv.hit
    /\ o.cost = IF inv.ok THEN inv.cost ELSE Absent
    /\ o.answers = IF record /\ inv.ok THEN {AnswerOf(inv, case)} ELSE {}

LEMMA SampleTells ==
    ASSUME NEW inv, NEW case, case.kind \in {"table", "verdict"}, NEW record
    PROVE  IsOutcome(SampleOutcome(inv, case, record), inv, case, record)
<1>1. ReadAs(inv, case) = IF case.kind = "table" THEN extract_result_json(inv.text) ELSE extract_verdict_json(inv.text)
  <2>1. CASE case.kind = "table"
    BY <2>1, Zenon DEF ReadAs, extract_result_json
  <2>2. CASE case.kind = "verdict"
    <3>1. case.kind # "table"
      BY <2>2
    <3>2. QED
      BY <2>2, <3>1, Zenon DEF ReadAs, extract_verdict_json
  <2>3. QED
    BY <2>1, <2>2
<1> DEFINE result == IF case.kind = "table" THEN extract_result_json(inv.text)
                     ELSE extract_verdict_json(inv.text)
           found == score_value(result, case)
           answer == IF result = NoResult THEN Raw(inv.text) ELSE result
           passed == inv.ok /\ found = "match"
           reason == IF ~inv.ok THEN "backend invocation failed"
                     ELSE IF result = NoResult THEN "no parseable result"
                     ELSE IF found = "none" THEN "missing the expected field" ELSE found
           cost == IF inv.ok THEN inv.cost ELSE Absent
           turns == IF inv.ok THEN inv.turns ELSE Absent
           answers == IF record /\ inv.ok THEN {answer} ELSE {}
<1>2. SampleOutcome(inv, case, record) =
          [pass |-> passed, reason |-> reason, cost |-> cost, turns |-> turns, hit |-> inv.hit, answers |-> answers]
  BY Zenon DEF SampleOutcome
<1> HIDE DEF passed, reason, cost, turns, answers
<1>3. PICK o : o = SampleOutcome(inv, case, record)
  OBVIOUS
<1>4. o.pass = passed /\ o.hit = inv.hit /\ o.cost = cost /\ o.answers = answers
  BY ONLY <1>2, <1>3
<1> HIDE DEF result
<1>5. passed \in BOOLEAN /\ result = ReadAs(inv, case)
  BY <1>1, Zenon DEF passed, result
<1> HIDE DEF found, answer
<1>6. answer = AnswerOf(inv, case)
  BY <1>5, Zenon DEF AnswerOf, answer
<1>7. QED
  BY <1>3, <1>4, <1>5, <1>6, Zenon DEF passed, cost, answers, found, IsOutcome, Matched

\* Two invocations that kept the same answer passed or failed alike.
LEMMA SameAnswerSameScore ==
    ASSUME NEW x, NEW y, IsText(x.text), IsText(y.text), NEW case, case.kind \in {"table", "verdict"},
           AnswerOf(x, case) = AnswerOf(y, case)
    PROVE  score_value(ReadAs(x, case), case) = score_value(ReadAs(y, case), case)
<1>1. PICK r, s : r = ReadAs(x, case) /\ s = ReadAs(y, case)
  OBVIOUS
<1>2. (r = NoResult \/ r.is = case.kind) /\ (s = NoResult \/ s.is = case.kind)
  BY <1>1, ExtractedTells, Zenon DEF ReadAs
<1>3. (IF r = NoResult THEN Raw(x.text) ELSE r) = (IF s = NoResult THEN Raw(y.text) ELSE s)
  BY <1>1, Zenon DEF AnswerOf
<1>4. \A text : Raw(text).is = "raw"
  BY DEF Raw, Result
<1>5. case.kind # "raw"
  OBVIOUS
<1>6. (r = NoResult) <=> (s = NoResult)
  BY <1>2, <1>3, <1>4, <1>5, Zenon
<1>7. r = s
  BY <1>3, <1>6, Zenon
<1>8. QED
  BY <1>1, <1>7, Zenon

Passed(outcomes) == {i \in DOMAIN outcomes : outcomes[i].pass}
Hits(outcomes) == {i \in DOMAIN outcomes : outcomes[i].hit}
Answering(outcomes) == Picked(outcomes, {i \in DOMAIN outcomes : outcomes[i].answers # {}})
Distribution(outcomes) ==
    ToBag([i \in DOMAIN Answering(outcomes) |-> CHOOSE a \in Answering(outcomes)[i].answers : TRUE])

\* The fields of a fold that a report speaks of.
FoldsTo(r, case, outcomes, record) ==
    /\ r.id = case.id /\ r.samples = Len(outcomes) /\ r.recorded = record
    /\ r.flaky <=> 0 < Cardinality(Passed(outcomes)) /\ Cardinality(Passed(outcomes)) < Len(outcomes)
    /\ r.cost = TrySum([i \in DOMAIN outcomes |-> outcomes[i].cost])
    /\ r.cache_hits = Cardinality(Hits(outcomes))
    /\ r.cache_misses = Len(outcomes) - Cardinality(Hits(outcomes))
    /\ r.answer_dist = Distribution(outcomes)

LEMMA FieldsAreSet ==
    ASSUME NEW r, {"id", "samples", "flaky", "cost", "cache_hits", "cache_misses", "recorded", "answer_dist"}
                      \subseteq DOMAIN r,
           NEW a, NEW b, NEW c, NEW d, NEW e, NEW f, NEW g
    PROVE  LET s == [r EXCEPT !.reason = a, !.cost = b, !.turns = c, !.cache_hits = d, !.cache_misses = e,
                              !.recorded = f, !.answer_dist = g]
           IN  /\ s.id = r.id /\ s.samples = r.samples /\ s.flaky = r.flaky /\ s.cost = b
               /\ s.cache_hits = d /\ s.cache_misses = e /\ s.recorded = f /\ s.answer_dist = g
OBVIOUS

LEMMA FoldFolds ==
    ASSUME NEW case, NEW outcomes, NEW record
    PROVE  FoldsTo(fold_samples(case, outcomes, record), case, outcomes, record)
<1>1. PICK samples, passes, hits : /\ samples = Len(outcomes) /\ passes = Cardinality(Passed(outcomes))
                                   /\ hits = Cardinality(Hits(outcomes))
  OBVIOUS
<1>2. PICK r : r = CaseResult(case.id, case.tags, samples, passes)
  OBVIOUS
<1>3. {"id", "samples", "flaky", "cost", "cache_hits", "cache_misses", "recorded", "answer_dist"} \subseteq DOMAIN r
  BY <1>2, Zenon DEF CaseResult
<1>4. r.id = case.id /\ r.samples = samples /\ (r.flaky <=> 0 < passes /\ passes < samples)
  BY <1>2, Zenon DEF CaseResult
<1>5. PICK a, c :
          fold_samples(case, outcomes, record) =
              [r EXCEPT !.reason = a, !.cost = TrySum([i \in DOMAIN outcomes |-> outcomes[i].cost]), !.turns = c,
                        !.cache_hits = hits, !.cache_misses = samples - hits,
                        !.recorded = record, !.answer_dist = Distribution(outcomes)]
  BY <1>1, <1>2, Zenon DEF fold_samples, Quantify, Passed, Hits, Distribution, Answering, MapSeq
<1>6. PICK cost, misses, dist : /\ cost = TrySum([i \in DOMAIN outcomes |-> outcomes[i].cost])
                                /\ misses = samples - hits /\ dist = Distribution(outcomes)
  OBVIOUS
<1>7. PICK s : s = fold_samples(case, outcomes, record)
  OBVIOUS
<1>8. s = [r EXCEPT !.reason = a, !.cost = cost, !.turns = c, !.cache_hits = hits, !.cache_misses = misses,
                    !.recorded = record, !.answer_dist = dist]
  BY <1>5, <1>6, <1>7, Zenon
<1>9. /\ s.id = r.id /\ s.samples = r.samples /\ s.flaky = r.flaky /\ s.cost = cost
      /\ s.cache_hits = hits /\ s.cache_misses = misses /\ s.recorded = record /\ s.answer_dist = dist
  BY ONLY <1>3, <1>8, FieldsAreSet
<1>10. QED
  BY <1>1, <1>4, <1>6, <1>7, <1>9, Zenon DEF FoldsTo

OutcomesOf(c, record) == [k \in DOMAIN c.samples |-> SampleOutcome(c.samples[k], c.case, record)]

\* What is assumed of a sampled case, of its samples one by one.
LEMMA SampledTells ==
    ASSUME NEW n \in Nat, NEW c, IsSampled(c, n)
    PROVE  /\ c.case.kind \in {"table", "verdict"}
           /\ DOMAIN c.samples = 1..n /\ Len(c.samples) = n /\ c.samples \in Seq(ToSet(c.samples))
           /\ \A k \in 1..n : /\ c.samples[k].ok \in BOOLEAN /\ c.samples[k].hit \in BOOLEAN
                              /\ c.samples[k].cost \in Nat \cup {Absent} /\ IsText(c.samples[k].text)
<1>1. /\ c.case.kind \in {"table", "verdict"} /\ c.samples \in Seq(ToSet(c.samples)) /\ Len(c.samples) = n
      /\ \A k \in DOMAIN c.samples : IsInvocation(c.samples[k])
  BY Zenon DEF IsSampled
<1>2. DOMAIN c.samples = 1..n
  <2>1. PICK s : s = c.samples
    OBVIOUS
  <2>2. s \in Seq(ToSet(s)) /\ Len(s) = n
    BY <1>1, <2>1, Zenon
  <2>3. DOMAIN s = 1..n
    BY ONLY <2>2
  <2>4. QED
    BY <2>1, <2>3, Zenon
<1>3. QED
  BY <1>1, <1>2, Zenon DEF IsInvocation

\* The outcomes of a case, one by one.
LEMMA OutcomesTell ==
    ASSUME NEW n \in Nat, NEW c, IsSampled(c, n), NEW record, NEW o, o = OutcomesOf(c, record)
    PROVE  /\ \E S : o \in Seq(S)
           /\ DOMAIN o = 1..n /\ Len(o) = n
           /\ \A k \in 1..n : IsOutcome(o[k], c.samples[k], c.case, record)
<1>1. c.case.kind \in {"table", "verdict"} /\ DOMAIN c.samples = 1..n
  BY SampledTells, Zenon
<1> DEFINE S == {SampleOutcome(c.samples[k], c.case, record) : k \in 1..n}
<1>2. o = [k \in 1..n |-> SampleOutcome(c.samples[k], c.case, record)]
  BY <1>1, Zenon DEF OutcomesOf
<1>3. o \in [1..n -> S]
  BY ONLY <1>2
<1> HIDE DEF S
<1>4. o \in Seq(S) /\ DOMAIN o = 1..n /\ Len(o) = n
  BY ONLY <1>3, n \in Nat
<1>5. ASSUME NEW k \in 1..n PROVE IsOutcome(o[k], c.samples[k], c.case, record)
  <2>1. o[k] = SampleOutcome(c.samples[k], c.case, record)
    BY <1>2, Zenon
  <2>2. PICK inv, case : inv = c.samples[k] /\ case = c.case
    OBVIOUS
  <2>3. case.kind \in {"table", "verdict"}
    BY <1>1, <2>2, Zenon
  <2>4. IsOutcome(SampleOutcome(inv, case, record), inv, case, record)
    BY ONLY <2>3, SampleTells
  <2>5. QED
    BY <2>1, <2>2, <2>4, Zenon
<1>6. QED
  BY <1>4, <1>5, Zenon

\* What a row says of its samples: whether they passed and failed, how many made a
\* call, and what they cost, if that is known of all of them.
Flipped(c) == {OutcomesOf(c, TRUE)[k].pass : k \in DOMAIN c.samples}

RowTells(r, c, n) ==
    /\ r.flaky <=> Flipped(c) = BOOLEAN
    /\ r.cache_hits \in Nat /\ r.cache_misses \in Nat /\ r.cache_hits + r.cache_misses = n
    /\ r.cache_misses = 0 <=> \A k \in DOMAIN c.samples : c.samples[k].hit
    /\ r.cost \in Nat \cup {Absent}
    /\ r.cost # Absent => /\ \A k \in DOMAIN c.samples : c.samples[k].ok /\ c.samples[k].cost # Absent
                          /\ r.cost = Sum(Costs(c.samples))

LEMMA RowsTell ==
    ASSUME NEW n \in Nat, NEW c, IsSampled(c, n), NEW record, NEW r,
           r = fold_samples(c.case, OutcomesOf(c, record), record)
    PROVE  RowTells(r, c, n)
<1>1. PICK o : o = OutcomesOf(c, record)
  OBVIOUS
<1>2. DOMAIN o = 1..n /\ Len(o) = n /\ \A k \in 1..n : IsOutcome(o[k], c.samples[k], c.case, record)
  BY <1>1, OutcomesTell, Zenon
<1>3. FoldsTo(r, c.case, o, record)
  BY <1>1, FoldFolds, Zenon
<1>4. /\ DOMAIN c.samples = 1..n /\ c.samples \in Seq(ToSet(c.samples))
      /\ \A k \in 1..n : c.samples[k].hit \in BOOLEAN /\ c.samples[k].cost \in Nat \cup {Absent}
  BY SampledTells, Zenon
<1>5. r.flaky <=> Flipped(c) = BOOLEAN
  <2> DEFINE P == {k \in 1..n : o[k].pass}
             F == {o[k].pass : k \in 1..n}
  <2>1. r.flaky <=> 0 < Cardinality(P) /\ Cardinality(P) < n
    BY <1>2, <1>3, Zenon DEF FoldsTo, Passed
  <2>2. Flipped(c) = F
    <3>1. PICK p : p = OutcomesOf(c, TRUE)
      OBVIOUS
    <3>2. \A k \in 1..n : IsOutcome(p[k], c.samples[k], c.case, TRUE)
      BY <3>1, OutcomesTell, Zenon
    <3>3. \A k \in 1..n : p[k].pass = o[k].pass
      <4> TAKE k \in 1..n
      <4>1. o[k].pass \in BOOLEAN /\ p[k].pass \in BOOLEAN /\ (o[k].pass <=> p[k].pass)
        BY <1>2, <3>2, Zenon DEF IsOutcome
      <4>2. QED
        BY <4>1
    <3>4. Flipped(c) = {p[k].pass : k \in 1..n}
      BY <1>4, <3>1, Zenon DEF Flipped
    <3>5. QED
      BY <3>3, <3>4, Zenon
  <2>3. /\ Cardinality(P) \in Nat /\ Cardinality(P) <= n
        /\ Cardinality(P) = 0 <=> P = {}
        /\ Cardinality(P) = n <=> P = 1..n
    <3>1. P \in SUBSET (1..n)
      OBVIOUS
    <3> HIDE DEF P
    <3>2. QED
      BY ONLY <3>1, n \in Nat, CountTells
  <2>4. F = BOOLEAN <=> P # {} /\ P # 1..n
    <3>0. \A k \in 1..n : o[k].pass \in BOOLEAN
      BY <1>2, Zenon DEF IsOutcome
    <3>1. \A k \in 1..n : o[k].pass = TRUE \/ o[k].pass = FALSE
      BY <3>0
    <3>2. F \subseteq BOOLEAN
      BY <3>0, Zenon
    <3>3. TRUE \in F <=> P # {}
      BY <3>1, Zenon
    <3>4. FALSE \in F <=> P # 1..n
      BY <3>1, Zenon
    <3> HIDE DEF F, P
    <3>5. QED
      BY <3>2, <3>3, <3>4
  <2> HIDE DEF P, F
  <2>5. (0 < Cardinality(P) /\ Cardinality(P) < n) <=> P # {} /\ P # 1..n
    BY <2>3
  <2>6. QED
    BY <2>1, <2>2, <2>4, <2>5, Zenon
<1>6. /\ r.cache_hits \in Nat /\ r.cache_misses \in Nat /\ r.cache_hits + r.cache_misses = n
      /\ r.cache_misses = 0 <=> \A k \in DOMAIN c.samples : c.samples[k].hit
  <2> DEFINE H == {k \in 1..n : o[k].hit}
  <2>1. r.cache_hits = Cardinality(H) /\ r.cache_misses = n - Cardinality(H)
    BY <1>2, <1>3, Zenon DEF FoldsTo, Hits
  <2>2. Cardinality(H) \in Nat /\ Cardinality(H) <= n /\ (Cardinality(H) = n <=> H = 1..n)
    <3>1. H \in SUBSET (1..n)
      OBVIOUS
    <3> HIDE DEF H
    <3>2. QED
      BY ONLY <3>1, n \in Nat, CountTells
  <2>3. H = 1..n <=> \A k \in DOMAIN c.samples : c.samples[k].hit
    <3>1. \A k \in 1..n : o[k].hit = c.samples[k].hit
      BY <1>2, Zenon DEF IsOutcome
    <3>2. QED
      BY <1>4, <3>1, Zenon
  <2> HIDE DEF H
  <2>4. PICK h : h = Cardinality(H)
    OBVIOUS
  <2>5. r.cache_hits = h /\ r.cache_misses = n - h /\ h \in Nat /\ h <= n
    BY <2>1, <2>2, <2>4, Zenon
  <2>6. /\ r.cache_hits \in Nat /\ r.cache_misses \in Nat /\ r.cache_hits + r.cache_misses = n
        /\ r.cache_misses = 0 <=> h = n
    BY ONLY <2>5, n \in Nat
  <2>7. QED
    BY <2>2, <2>3, <2>4, <2>6, Zenon
<1>7. /\ r.cost \in Nat \cup {Absent}
      /\ r.cost # Absent => /\ \A k \in DOMAIN c.samples : c.samples[k].ok /\ c.samples[k].cost # Absent
                            /\ r.cost = Sum(Costs(c.samples))
  <2> DEFINE v == [k \in 1..n |-> o[k].cost]
  <2>1. r.cost = TrySum(v)
    BY <1>2, <1>3, Zenon DEF FoldsTo
  <2>2. \A k \in 1..n : v[k] = IF c.samples[k].ok THEN c.samples[k].cost ELSE Absent
    BY <1>2, Zenon DEF IsOutcome
  <2>3. \A k \in 1..n : v[k] \in Nat \cup {Absent}
    BY <1>4, <2>2, Zenon
  <2>4. v \in Seq(Nat \cup {Absent}) /\ DOMAIN v = 1..n
    <3>1. v = [k \in 1..n |-> v[k]]
      BY Zenon
    <3> HIDE DEF v
    <3>2. PICK T : T = Nat \cup {Absent}
      OBVIOUS
    <3>3. v \in [1..n -> T]
      BY ONLY <2>3, <3>1, <3>2
    <3>4. v \in Seq(T) /\ DOMAIN v = 1..n
      BY ONLY <3>3, n \in Nat
    <3>5. QED
      BY <3>2, <3>4, Zenon
  <2>5. v = [k \in 1..n |-> v[k]]
    BY Zenon
  <2> HIDE DEF v
  <2>6. CASE TrySum(v) = Absent
    BY <2>1, <2>6, Zenon
  <2>7. CASE TrySum(v) # Absent
    <3>1. v \in Seq(Nat) /\ TrySum(v) = Sum(v)
      BY <2>4, <2>7, TotalIsTheSum
    <3>2. Sum(v) \in Nat
      BY <3>1, SumTells
    <3>3. \A k \in 1..n : v[k] # Absent
      <4>1. \A k \in 1..n : v[k] \in Nat
        BY ONLY <2>4, <3>1
      <4>2. QED
        BY <4>1 DEF Absent
    <3>4. \A k \in 1..n : c.samples[k].ok /\ c.samples[k].cost = v[k]
      BY <2>2, <3>3, Zenon
    <3>5. v = Costs(c.samples)
      <4>1. Costs(c.samples) = [k \in 1..n |-> c.samples[k].cost]
        BY <1>4, Zenon DEF Costs
      <4>2. QED
        BY <2>5, <3>4, <4>1, Zenon
    <3>6. QED
      BY <1>4, <2>1, <3>1, <3>2, <3>3, <3>4, <3>5, Zenon
  <2>8. QED
    BY <2>6, <2>7
<1>8. QED
  BY <1>5, <1>6, <1>7, Zenon DEF RowTells

\* The answers of the samples of a case, and whether they were all there and the same.
AnswersOf(c) == {OutcomesOf(c, TRUE)[k].answers : k \in DOMAIN c.samples}
Steady(c) == {} \notin AnswersOf(c) /\ Cardinality(AnswersOf(c)) = 1

LEMMA StabilityTells ==
    ASSUME NEW r, r.recorded, NEW n \in Nat, r.samples = n, n > 1,
           NEW m \in Nat, AnswersIn(r.answer_dist) = m, NEW l \in Nat, Cardinality(DOMAIN r.answer_dist) = l
    PROVE  OutputUnstable(r) <=> m < n \/ l > 1
<1>1. ~(n <= 1)
  OBVIOUS
<1>2. output_stability(r) = IF m < n THEN "incomplete" ELSE IF l > 1 THEN "unstable" ELSE "stable"
  BY <1>1, Zenon DEF output_stability
<1>3. OutputUnstable(r) <=> output_stability(r) \in {"unstable", "incomplete"}
  BY Zenon DEF OutputUnstable
<1>4. PICK a, b : (a <=> m < n) /\ (b <=> l > 1) /\ a \in BOOLEAN /\ b \in BOOLEAN
  OBVIOUS
<1>5. output_stability(r) = IF a THEN "incomplete" ELSE IF b THEN "unstable" ELSE "stable"
  BY <1>2, <1>4, Zenon
<1>6. QED
  BY <1>3, <1>4, <1>5

\* A row with several samples is shown exactly if its answers were not steady: a
\* verdict that flipped means an answer that changed.
LEMMA OutputTells ==
    ASSUME NEW n \in Nat, n > 1, NEW c, IsSampled(c, n), NEW r,
           r = fold_samples(c.case, OutcomesOf(c, TRUE), TRUE)
    PROVE  ~r.flaky /\ ~OutputUnstable(r) <=> Steady(c)
<1>1. PICK o : o = OutcomesOf(c, TRUE)
  OBVIOUS
<1>2. /\ DOMAIN o = 1..n /\ Len(o) = n /\ \E S : o \in Seq(S)
      /\ \A k \in 1..n : IsOutcome(o[k], c.samples[k], c.case, TRUE)
  BY <1>1, OutcomesTell, Zenon
<1>3. FoldsTo(r, c.case, o, TRUE)
  BY <1>1, FoldFolds, Zenon
<1>4. /\ DOMAIN c.samples = 1..n /\ c.case.kind \in {"table", "verdict"}
      /\ \A k \in 1..n : c.samples[k].ok \in BOOLEAN /\ IsText(c.samples[k].text)
  BY SampledTells, Zenon
<1>5. AnswersOf(c) = {o[k].answers : k \in 1..n}
  BY <1>1, <1>4, Zenon DEF AnswersOf
<1>6. \A k \in 1..n : o[k].answers = IF c.samples[k].ok THEN {AnswerOf(c.samples[k], c.case)} ELSE {}
  BY <1>2, Zenon DEF IsOutcome
<1> DEFINE I == {k \in DOMAIN o : o[k].answers # {}}
           p == Picked(o, I)
           w == [k \in DOMAIN p |-> CHOOSE a \in p[k].answers : TRUE]
           d == ToBag(w)
<1>7. r.answer_dist = d /\ r.recorded = TRUE /\ r.samples = n
  BY <1>2, <1>3, Zenon DEF FoldsTo, Distribution, Answering
<1> HIDE DEF I
<1>8. \E S : p \in Seq(S)
  BY <1>2, PickedElements, Zenon
<1>9. PICK m \in Nat : DOMAIN p = 1..m /\ Len(p) = m
  <2> HIDE DEF p
  <2>1. QED
    BY <1>8
<1> HIDE DEF p
<1>10. Len(w) = m /\ \E S : w \in Seq(S)
  <2> DEFINE e(k) == CHOOSE a \in p[k].answers : TRUE
             S == {e(k) : k \in 1..m}
  <2>1. w = [k \in 1..m |-> e(k)]
    BY <1>9, Zenon
  <2> HIDE DEF w, e
  <2>2. w \in [1..m -> S]
    BY ONLY <2>1 DEF S
  <2> HIDE DEF S
  <2>3. w \in Seq(S) /\ Len(w) = m
    BY ONLY <2>2, m \in Nat
  <2>4. QED
    BY <2>3, Zenon
<1>11. AnswersIn(d) = m /\ DOMAIN d = {w[k] : k \in DOMAIN w} /\ IsFiniteSet(DOMAIN d)
  <2> HIDE DEF w
  <2>1. QED
    BY <1>10, DistributionTells, Zenon
<1>12. PICK l \in Nat : l = Cardinality(DOMAIN d)
  BY <1>11, FS_CardinalityType
<1> HIDE DEF d
<1>13. OutputUnstable(r) <=> m < n \/ l > 1
  <2>1. AnswersIn(r.answer_dist) = m /\ Cardinality(DOMAIN r.answer_dist) = l
    BY <1>7, <1>11, <1>12, Zenon
  <2>2. QED
    BY <1>7, <2>1, StabilityTells
<1>14. CASE \E k \in 1..n : ~c.samples[k].ok
  <2>1. PICK k \in 1..n : ~c.samples[k].ok
    BY <1>14
  <2>2. o[k].answers = {}
    BY <1>6, <2>1, Zenon
  <2>3. {} \in AnswersOf(c)
    BY <1>5, <2>2, Zenon
  <2>4. k \in DOMAIN o /\ k \notin I
    BY <1>2, <2>2, Zenon DEF I
  <2>5. m < n
    <3>1. PICK S : o \in Seq(S)
      BY <1>2
    <3>2. Len(Picked(o, I)) < Len(o)
      BY ONLY <2>4, <3>1, PickedSome
    <3>3. QED
      BY <1>2, <1>9, <3>2 DEF p
  <2>6. QED
    BY <1>13, <2>3, <2>5, Zenon DEF Steady
<1>15. CASE \A k \in 1..n : c.samples[k].ok
  <2> DEFINE a(k) == AnswerOf(c.samples[k], c.case)
             f == [k \in 1..n |-> a(k)]
             g == [k \in 1..n |-> {a(k)}]
  <2>1. \A k \in 1..n : o[k].answers = {a(k)}
    BY <1>6, <1>15, Zenon
  <2>2. DOMAIN o \subseteq I
    <3>1. \A k \in 1..n : o[k].answers # {}
      <4> TAKE k \in 1..n
      <4>1. o[k].answers = {a(k)}
        BY <2>1, Zenon
      <4> HIDE DEF a
      <4>2. QED
        BY ONLY <4>1
    <3>2. QED
      BY <1>2, <3>1, Zenon DEF I
  <2>3. p = o
    <3>1. PICK S : o \in Seq(S)
      BY <1>2
    <3>2. QED
      BY ONLY <2>2, <3>1, PickedAll DEF p
  <2>4. m = n
    BY <1>2, <1>9, <2>3
  <2>5. DOMAIN d = {f[k] : k \in 1..n}
    <3>1. \A k \in 1..n : w[k] = a(k)
      <4> TAKE k \in 1..n
      <4>1. w[k] = CHOOSE x \in o[k].answers : TRUE
        BY <1>9, <2>3, <2>4, Zenon
      <4>2. o[k].answers = {a(k)}
        BY <2>1, Zenon
      <4> HIDE DEF a, w
      <4>3. QED
        BY ONLY <4>1, <4>2
    <3>2. DOMAIN w = 1..n
      BY <1>9, <2>4, Zenon
    <3>3. \A k \in 1..n : f[k] = a(k)
      BY Zenon
    <3> HIDE DEF w, a, f
    <3>4. QED
      BY <1>11, <3>1, <3>2, <3>3, Zenon
  <2>6. AnswersOf(c) = {g[k] : k \in 1..n} /\ {} \notin AnswersOf(c)
    <3>1. \A k \in 1..n : g[k] = {a(k)}
      BY Zenon
    <3>2. \A k \in 1..n : g[k] = o[k].answers /\ o[k].answers # {}
      BY <2>1, <3>1, Zenon
    <3> HIDE DEF a, g
    <3>3. QED
      BY <1>5, <3>2, Zenon
  <2> DEFINE Same == \A j, k \in 1..n : a(j) = a(k)
  <2>7. Cardinality(AnswersOf(c)) = 1 <=> Same
    <3>1. PICK A : A = AnswersOf(c)
      OBVIOUS
    <3>2. A = {g[k] : k \in 1..n} /\ DOMAIN g = 1..n
      BY <2>6, <3>1, Zenon
    <3>3. (\A j, k \in 1..n : g[j] = g[k]) <=> Same
      <4>1. \A j, k \in 1..n : {a(j)} = {a(k)} <=> a(j) = a(k)
        <5> HIDE DEF a
        <5>1. QED
          OBVIOUS
      <4>2. \A j \in 1..n : g[j] = {a(j)}
        BY Zenon
      <4> HIDE DEF a, g
      <4>3. QED
        BY <4>1, <4>2, Zenon
    <3>4. n \in Nat \ {0}
      OBVIOUS
    <3> HIDE DEF g, Same
    <3>5. Cardinality(A) = 1 <=> \A j, k \in 1..n : g[j] = g[k]
      BY ONLY <3>2, <3>4, ImagesTell
    <3>6. QED
      BY <3>1, <3>3, <3>5, Zenon
  <2>8. l # 0 /\ (l = 1 <=> Same)
    <3>1. PICK A : A = DOMAIN d
      OBVIOUS
    <3>2. A = {f[k] : k \in 1..n} /\ DOMAIN f = 1..n
      BY <2>5, <3>1, Zenon
    <3>3. (\A j, k \in 1..n : f[j] = f[k]) <=> Same
      BY Zenon
    <3>4. n \in Nat \ {0}
      OBVIOUS
    <3> HIDE DEF f, Same
    <3>5. Cardinality(A) # 0 /\ (Cardinality(A) = 1 <=> \A j, k \in 1..n : f[j] = f[k])
      BY ONLY <3>2, <3>4, ImagesTell
    <3>6. QED
      BY <1>12, <3>1, <3>3, <3>5, Zenon
  <2>9. OutputUnstable(r) <=> ~Same
    <3> HIDE DEF Same
    <3>0. ~(m < n)
      BY <2>4
    <3>1. OutputUnstable(r) <=> l > 1
      BY <1>13, <3>0, Zenon
    <3>2. l > 1 <=> l # 1
      BY <1>12, <2>8
    <3>3. QED
      BY <2>8, <3>1, <3>2, Zenon
  <2>10. ASSUME Same PROVE ~r.flaky
    <3>1. \A j, k \in 1..n : a(j) = a(k)
      BY <2>10
    <3>2. \A j, k \in 1..n : score_value(ReadAs(c.samples[j], c.case), c.case) = score_value(ReadAs(c.samples[k], c.case), c.case)
      <4> TAKE j, k \in 1..n
      <4>1. PICK x, y, case : x = c.samples[j] /\ y = c.samples[k] /\ case = c.case
        OBVIOUS
      <4>2. IsText(x.text) /\ IsText(y.text) /\ case.kind \in {"table", "verdict"} /\ AnswerOf(x, case) = AnswerOf(y, case)
        BY <1>4, <3>1, <4>1, Zenon
      <4>3. score_value(ReadAs(x, case), case) = score_value(ReadAs(y, case), case)
        BY ONLY <4>2, SameAnswerSameScore
      <4>4. QED
        BY <4>1, <4>3, Zenon
    <3>3. \A k \in 1..n : o[k].pass \in BOOLEAN /\ (o[k].pass <=> Matched(c.samples[k], c.case))
      BY <1>2, Zenon DEF IsOutcome
    <3>4. \A j, k \in 1..n : o[j].pass <=> o[k].pass
      BY <1>15, <3>2, <3>3, Zenon DEF Matched
    <3>5. r.flaky <=> Flipped(c) = BOOLEAN
      BY RowsTell, Zenon DEF RowTells
    <3>6. Flipped(c) = {o[k].pass : k \in 1..n}
      BY <1>1, <1>4, Zenon DEF Flipped
    <3>7. \A j, k \in 1..n : o[j].pass = o[k].pass
      BY <3>3, <3>4
    <3>8. Flipped(c) # BOOLEAN
      BY <3>6, <3>7
    <3>9. QED
      BY <3>5, <3>8, Zenon
  <2> HIDE DEF Same
  <2>11. QED
    BY <2>6, <2>7, <2>9, <2>10, Zenon DEF Steady
<1>16. QED
  BY <1>14, <1>15, Zenon

-------------------------------------------------------------------------------
(* eval run: the report in words.                                              *)

\* What the printed report says of one binding.
PrintsOf(v, rep) ==
    /\ \A u \in v.unstable : \E r \in ToSet(rep.cases) :
           (r.flaky \/ OutputUnstable(r)) /\ u.id = r.id /\ u.flaky = r.flaky
    /\ \A r \in ToSet(rep.cases) : r.flaky \/ OutputUnstable(r) =>
           \E u \in v.unstable : u.id = r.id /\ u.flaky = r.flaky
    /\ (\E e \in v.cached : e.rescore_only) <=> rep.cache_hits # 0 /\ rep.cache_misses = 0
    /\ v.no_cost = {} => rep.cost_total_usd # Absent

LEMMA PrintTells ==
    ASSUME NEW full, NEW rep, full.configs = <<rep>>
    PROVE  PrintsOf(format_pareto(full), rep)
<1> DEFINE Shown(k) == [model |-> rep.model, id |-> k.id, flaky |-> k.flaky, output |-> output_stability(k)]
           Rows == {r \in ToSet(rep.cases) : r.flaky \/ OutputUnstable(r)}
           Cached(c) == [model |-> c.model, rescore_only |-> c.cache_misses = 0,
                         replay |-> c.cache_misses = 0 /\ \E k \in ToSet(c.cases) : k.samples > 1]
           U(c) == {[model |-> c.model, id |-> k.id, flaky |-> k.flaky, output |-> output_stability(k)] :
                       k \in {r \in ToSet(c.cases) : r.flaky \/ OutputUnstable(r)}}
           subset == full.selected_cases < full.total_cases
           measured == ToSet(full.configs) # {}
                       /\ \A c \in ToSet(full.configs) : \A k \in ToSet(c.cases) : k.samples <= 1
           cached == IF \A c \in ToSet(full.configs) : c.cache_hits = 0 THEN {}
                     ELSE {Cached(c) : c \in ToSet(full.configs)}
           unstable == UNION {U(c) : c \in ToSet(full.configs)}
           free == {c.model : c \in {d \in ToSet(full.configs) : d.cost_total_usd = Absent}}
<1>1. ToSet(full.configs) = {rep}
  BY DEF ToSet
<1>2. format_pareto(full) = [subset |-> subset, not_measured |-> measured, cached |-> cached,
                             unstable |-> unstable, no_cost |-> free]
  BY Zenon DEF format_pareto
<1>3. PICK v : v = format_pareto(full)
  OBVIOUS
<1> HIDE DEF subset, measured, cached, unstable, free
<1>4. v.cached = cached /\ v.unstable = unstable /\ v.no_cost = free
  BY ONLY <1>2, <1>3
<1>5. v.unstable = {Shown(k) : k \in Rows}
  <2>1. unstable = U(rep)
    <3>1. unstable = UNION {U(c) : c \in {rep}}
      BY <1>1, Zenon DEF unstable
    <3> HIDE DEF U
    <3>2. QED
      BY ONLY <3>1
  <2>2. U(rep) = {Shown(k) : k \in Rows}
    BY Zenon
  <2>3. QED
    BY <1>4, <2>1, <2>2, Zenon
<1>6. v.cached = IF rep.cache_hits = 0 THEN {} ELSE {Cached(rep)}
  <2>1. (\A c \in {rep} : c.cache_hits = 0) <=> rep.cache_hits = 0
    BY Zenon
  <2> HIDE DEF Cached
  <2>2. {Cached(c) : c \in {rep}} = {Cached(rep)}
    OBVIOUS
  <2>3. cached = IF \A c \in {rep} : c.cache_hits = 0 THEN {} ELSE {Cached(c) : c \in {rep}}
    BY <1>1, Zenon DEF cached
  <2>4. QED
    BY <1>4, <2>1, <2>2, <2>3, Zenon
<1>7. v.no_cost = {} => rep.cost_total_usd # Absent
  BY <1>1, <1>4, Zenon DEF free
<1>8. Cached(rep).rescore_only <=> rep.cache_misses = 0
  <2>1. PICK m, x, y : m = rep.model /\ x = (rep.cache_misses = 0)
                       /\ y = (rep.cache_misses = 0 /\ \E k \in ToSet(rep.cases) : k.samples > 1)
    OBVIOUS
  <2>2. Cached(rep) = [model |-> m, rescore_only |-> x, replay |-> y]
    BY <2>1, Zenon
  <2> HIDE DEF Cached
  <2>3. Cached(rep).rescore_only = x
    BY ONLY <2>2
  <2>4. QED
    BY <2>1, <2>3, Zenon
<1> HIDE DEF Cached
<1>9. (\E e \in v.cached : e.rescore_only) <=> rep.cache_hits # 0 /\ rep.cache_misses = 0
  BY <1>6, <1>8, Zenon
<1>10. \A k : Shown(k).id = k.id /\ Shown(k).flaky = k.flaky
  <2> TAKE k
  <2>1. PICK m, x, y, z : m = rep.model /\ x = k.id /\ y = k.flaky /\ z = output_stability(k)
    OBVIOUS
  <2>2. Shown(k) = [model |-> m, id |-> x, flaky |-> y, output |-> z]
    BY <2>1, Zenon
  <2> HIDE DEF Shown
  <2>3. Shown(k).id = x /\ Shown(k).flaky = y
    BY ONLY <2>2
  <2>4. QED
    BY <2>1, <2>3, Zenon
<1> HIDE DEF Shown
<1>11. \A u \in v.unstable : \E r \in ToSet(rep.cases) :
           (r.flaky \/ OutputUnstable(r)) /\ u.id = r.id /\ u.flaky = r.flaky
  BY <1>5, <1>10, Zenon
<1>12. \A r \in ToSet(rep.cases) : r.flaky \/ OutputUnstable(r) =>
           \E u \in v.unstable : u.id = r.id /\ u.flaky = r.flaky
  <2> SUFFICES ASSUME NEW r \in ToSet(rep.cases), r.flaky \/ OutputUnstable(r)
               PROVE  \E u \in v.unstable : u.id = r.id /\ u.flaky = r.flaky
    BY Zenon
  <2>1. r \in Rows
    BY Zenon
  <2>2. Shown(r) \in v.unstable
    BY <1>5, <2>1, Zenon
  <2>3. QED
    BY <1>10, <2>2, Zenon
<1>13. QED
  BY <1>3, <1>7, <1>9, <1>11, <1>12, Zenon DEF PrintsOf

AllSamples(a) == FlattenSeq([i \in DOMAIN a.cases |-> a.cases[i].samples])

\* What is assumed of a request for a report.
Reportable(a) ==
    /\ a.cases \in Seq(ToSet(a.cases)) /\ a.cases # <<>> /\ a.samples \in Nat \ {0}
    /\ \A i \in DOMAIN a.cases : IsSampled(a.cases[i], a.samples)

RowOf(c, record) == fold_samples(c.case, OutcomesOf(c, record), record)

ReportAddsUp(rep, all) ==
    /\ rep.cache_hits \in Nat /\ rep.cache_misses \in Nat /\ rep.cache_hits + rep.cache_misses = Len(all)
    /\ Len(all) # 0
    /\ rep.cache_misses = 0 <=> \A k \in DOMAIN all : all[k].hit
    /\ rep.cost_total_usd # Absent =>
          /\ \A k \in DOMAIN all : all[k].ok /\ all[k].cost # Absent
          /\ rep.cost_total_usd = Sum(Costs(all))

\* The totals of a report are fields of it.
HasTotals(rep, rows) ==
    /\ rep.cases = rows
    /\ rep.cache_hits = Sum([i \in DOMAIN rows |-> rows[i].cache_hits])
    /\ rep.cache_misses = Sum([i \in DOMAIN rows |-> rows[i].cache_misses])
    /\ rep.cost_total_usd = TrySum([i \in DOMAIN rows |-> rows[i].cost])

LEMMA ReportTotals ==
    ASSUME NEW a, NEW rows, rows = RowsOf(a, effective_record_answers(a.explicit, a.samples))
    PROVE  HasTotals(ReportOf(a), rows)
<1>1. ReportOf(a) = aggregate(a.model, rows)
  BY Zenon DEF ReportOf, RowsOf, MapSeq
<1> DEFINE n == Len(rows)
           accuracy == IF rows = <<>> THEN 0 ELSE Sum(MapSeq(rows, LAMBDA r : r.pass_rate)) \div Len(rows)
           cost == TrySum(MapSeq(rows, LAMBDA r : r.cost))
           turns == TryMean(MapSeq(rows, LAMBDA r : r.turns))
           hits == Sum(MapSeq(rows, LAMBDA r : r.cache_hits))
           misses == Sum(MapSeq(rows, LAMBDA r : r.cache_misses))
           flaky == Quantify(DOMAIN rows, LAMBDA i : rows[i].flaky)
           unstable == Quantify(DOMAIN rows, LAMBDA i : OutputUnstable(rows[i]))
           tags == [t \in Tags(rows) |-> TagStat(rows, t)]
<1>2. aggregate(a.model, rows) =
          [model |-> a.model, n |-> n, accuracy |-> accuracy, cost_total_usd |-> cost, turns_avg |-> turns,
           cache_hits |-> hits, cache_misses |-> misses, flaky_cases |-> flaky,
           output_unstable_cases |-> unstable, by_tag |-> tags, cases |-> rows]
  BY Zenon DEF aggregate
<1>3. /\ cost = TrySum([i \in DOMAIN rows |-> rows[i].cost])
      /\ hits = Sum([i \in DOMAIN rows |-> rows[i].cache_hits])
      /\ misses = Sum([i \in DOMAIN rows |-> rows[i].cache_misses])
  BY Zenon DEF MapSeq
<1>4. PICK rep : rep = ReportOf(a)
  OBVIOUS
<1> HIDE DEF n, accuracy, cost, turns, hits, misses, flaky, unstable, tags
<1>5. rep.cases = rows /\ rep.cache_hits = hits /\ rep.cache_misses = misses /\ rep.cost_total_usd = cost
  BY ONLY <1>1, <1>2, <1>4
<1>6. QED
  BY <1>3, <1>4, <1>5, Zenon DEF HasTotals

LEMMA TotalsTell ==
    ASSUME NEW a, Reportable(a), NEW record, NEW rows, rows = RowsOf(a, record), NEW rep, HasTotals(rep, rows)
    PROVE  /\ ReportAddsUp(rep, AllSamples(a))
           /\ DOMAIN rows = DOMAIN a.cases
           /\ \A i \in DOMAIN a.cases : rows[i] = RowOf(a.cases[i], record)
<1>1. PICK n \in Nat \ {0} : n = a.samples /\ \A i \in DOMAIN a.cases : IsSampled(a.cases[i], n)
  BY Zenon DEF Reportable
<1>2. PICK cases : cases = a.cases /\ cases \in Seq(ToSet(cases)) /\ cases # <<>>
  BY Zenon DEF Reportable
<1>3. PICK N \in Nat \ {0} : DOMAIN cases = 1..N /\ Len(cases) = N
  BY ONLY <1>2
<1> DEFINE c(i) == cases[i]
<1>4. rows = [i \in 1..N |-> RowOf(c(i), record)]
  BY <1>2, <1>3, Zenon DEF RowsOf, RowOf, OutcomesOf
<1> HIDE DEF c
<1>5. DOMAIN rows = 1..N /\ \A i \in 1..N : rows[i] = RowOf(c(i), record)
  BY ONLY <1>4
<1>6. \A i \in 1..N : IsSampled(c(i), n)
  BY <1>1, <1>2, <1>3, Zenon DEF c
<1>7. \A i \in 1..N : RowTells(rows[i], c(i), n)
  BY <1>5, <1>6, RowsTell, Zenon DEF RowOf
<1>8. \A i \in 1..N : /\ DOMAIN c(i).samples = 1..n /\ Len(c(i).samples) = n
                      /\ c(i).samples \in Seq(ToSet(c(i).samples))
                      /\ \A k \in 1..n : c(i).samples[k].cost \in Nat \cup {Absent}
  BY <1>6, SampledTells, Zenon
<1> DEFINE S == UNION {ToSet(c(i).samples) : i \in 1..N}
           seqs == [i \in 1..N |-> c(i).samples]
           all == FlattenSeq(seqs)
<1>9. AllSamples(a) = all
  BY <1>2, <1>3, Zenon DEF AllSamples, c
<1>10. seqs \in Seq(Seq(S)) /\ DOMAIN seqs = 1..N
  <2>1. \A i \in 1..N : c(i).samples \in Seq(S)
    <3> TAKE i \in 1..N
    <3>1. PICK s, T : s = c(i).samples /\ T = ToSet(s)
      OBVIOUS
    <3>2. s \in Seq(T) /\ T \subseteq S
      BY <1>8, <3>1, Zenon
    <3> HIDE DEF S
    <3>3. s \in Seq(S)
      BY ONLY <3>2
    <3>4. QED
      BY <3>1, <3>3
  <2> HIDE DEF S
  <2>2. PICK T : T = Seq(S)
    OBVIOUS
  <2>3. seqs \in [1..N -> T]
    BY <2>1, <2>2, Zenon
  <2> HIDE DEF seqs
  <2>4. seqs \in Seq(T) /\ DOMAIN seqs = 1..N
    BY ONLY <2>3, N \in Nat \ {0}
  <2>5. QED
    BY <2>2, <2>4, Zenon
<1>11. \A i \in 1..N : seqs[i] = c(i).samples
  OBVIOUS
<1> HIDE DEF S, seqs
<1>12. /\ all \in Seq(S)
       /\ \A k \in DOMAIN all : \E i \in 1..N : \E j \in 1..n : all[k] = c(i).samples[j]
       /\ \A i \in 1..N : \A j \in 1..n : \E k \in DOMAIN all : all[k] = c(i).samples[j]
  <2>1. /\ all \in Seq(S)
        /\ \A k \in DOMAIN all : \E i \in DOMAIN seqs : \E j \in DOMAIN seqs[i] : all[k] = seqs[i][j]
        /\ \A i \in DOMAIN seqs : \A j \in DOMAIN seqs[i] : \E k \in DOMAIN all : all[k] = seqs[i][j]
    <3>1. seqs \in Seq(Seq(S))
      BY <1>10
    <3>2. PICK t : t = FlattenSeq(seqs)
      OBVIOUS
    <3>3. /\ t \in Seq(S)
          /\ \A k \in DOMAIN t : \E i \in DOMAIN seqs : \E j \in DOMAIN seqs[i] : t[k] = seqs[i][j]
          /\ \A i \in DOMAIN seqs : \A j \in DOMAIN seqs[i] : \E k \in DOMAIN t : t[k] = seqs[i][j]
      BY ONLY <3>1, <3>2, FlattenElements
    <3>4. QED
      BY <3>2, <3>3, Zenon
  <2> HIDE DEF all
  <2>2. \A i \in 1..N : DOMAIN seqs[i] = 1..n /\ i \in DOMAIN seqs
    BY <1>8, <1>10, <1>11, Zenon
  <2>3. ASSUME NEW k \in DOMAIN all PROVE \E i \in 1..N : \E j \in 1..n : all[k] = c(i).samples[j]
    <3>1. PICK i \in DOMAIN seqs : \E j \in DOMAIN seqs[i] : all[k] = seqs[i][j]
      BY <2>1
    <3>2. PICK j \in DOMAIN seqs[i] : all[k] = seqs[i][j]
      BY <3>1
    <3>3. i \in 1..N
      BY <1>10, Zenon
    <3>4. j \in 1..n /\ all[k] = c(i).samples[j]
      BY <1>11, <2>2, <3>2, <3>3, Zenon
    <3>5. QED
      BY <3>3, <3>4, Zenon
  <2>4. ASSUME NEW i \in 1..N, NEW j \in 1..n PROVE \E k \in DOMAIN all : all[k] = c(i).samples[j]
    <3>1. i \in DOMAIN seqs /\ j \in DOMAIN seqs[i]
      BY <2>2, Zenon
    <3>2. PICK k \in DOMAIN all : all[k] = seqs[i][j]
      BY <2>1, <3>1, Zenon
    <3>3. all[k] = c(i).samples[j]
      BY <1>11, <3>2, Zenon
    <3>4. QED
      BY <3>3, Zenon
  <2>5. QED
    BY <2>1, <2>3, <2>4, Zenon
<1>13. Len(all) = Sum([i \in DOMAIN seqs |-> Len(seqs[i])])
  BY <1>10, JoinedLength, Zenon
<1> HIDE DEF all
<1> DEFINE H == [i \in 1..N |-> rows[i].cache_hits]
           M == [i \in 1..N |-> rows[i].cache_misses]
           L == [i \in 1..N |-> n]
<1>14. /\ H \in Seq(Nat) /\ M \in Seq(Nat) /\ L \in Seq(Nat)
       /\ Len(H) = N /\ Len(M) = N /\ Len(L) = N /\ DOMAIN L = 1..N /\ DOMAIN M = 1..N
  <2>1. H = [i \in 1..N |-> rows[i].cache_hits] /\ M = [i \in 1..N |-> rows[i].cache_misses] /\ L = [i \in 1..N |-> n]
    BY Zenon
  <2>2. \A i \in 1..N : rows[i].cache_hits \in Nat /\ rows[i].cache_misses \in Nat
    BY <1>7, Zenon DEF RowTells
  <2> HIDE DEF H, M, L
  <2>3. \A i \in 1..N : n \in Nat
    OBVIOUS
  <2>4. H \in [1..N -> Nat]
    BY ONLY <2>1, <2>2
  <2>5. M \in [1..N -> Nat]
    BY ONLY <2>1, <2>2
  <2>6. L \in [1..N -> Nat]
    BY ONLY <2>1, <2>3
  <2>7. N \in Nat
    OBVIOUS
  <2>8. H \in Seq(Nat) /\ Len(H) = N
    BY ONLY <2>4, <2>7
  <2>9. M \in Seq(Nat) /\ Len(M) = N /\ DOMAIN M = 1..N
    BY ONLY <2>5, <2>7
  <2>10. L \in Seq(Nat) /\ Len(L) = N /\ DOMAIN L = 1..N
    BY ONLY <2>6, <2>7
  <2>11. QED
    BY <2>8, <2>9, <2>10, Zenon
<1>15. \A i \in 1..N : L[i] = H[i] + M[i]
  <2>1. \A i \in 1..N : rows[i].cache_hits + rows[i].cache_misses = n
    BY <1>7, Zenon DEF RowTells
  <2>2. QED
    BY <2>1, Zenon
<1>16. rep.cache_hits = Sum(H) /\ rep.cache_misses = Sum(M) /\ Len(all) = Sum(L)
  <2>1. [i \in DOMAIN seqs |-> Len(seqs[i])] = L
    <3>1. \A i \in 1..N : Len(seqs[i]) = n
      BY <1>8, <1>11, Zenon
    <3>2. QED
      BY <1>10, <3>1, Zenon
  <2>2. QED
    BY <1>5, <1>13, <2>1, Zenon DEF HasTotals
<1>17. \A i \in 1..N : M[i] = 0 <=> \A k \in 1..n : c(i).samples[k].hit
  <2> TAKE i \in 1..N
  <2>1. M[i] = rows[i].cache_misses
    BY Zenon
  <2>2. DOMAIN c(i).samples = 1..n
    BY <1>8, Zenon
  <2>3. rows[i].cache_misses = 0 <=> \A k \in DOMAIN c(i).samples : c(i).samples[k].hit
    BY <1>7, Zenon DEF RowTells
  <2>4. QED
    BY <2>1, <2>2, <2>3, Zenon
<1> HIDE DEF H, M, L
<1>18. rep.cache_hits \in Nat /\ rep.cache_misses \in Nat /\ rep.cache_hits + rep.cache_misses = Len(all)
  <2>1. Sum(H) \in Nat /\ Sum(M) \in Nat
    BY <1>14, SumTells
  <2>2. \A i \in DOMAIN L : L[i] = H[i] + M[i]
    BY <1>14, <1>15, Zenon
  <2>3. Sum(H) + Sum(M) = Sum(L)
    <3>1. H \in Seq(Nat) /\ M \in Seq(Nat) /\ L \in Seq(Nat) /\ Len(H) = Len(L) /\ Len(M) = Len(L)
      BY <1>14, Zenon
    <3>2. QED
      BY ONLY <2>2, <3>1, SumsAddUp
  <2>4. QED
    BY <1>16, <2>1, <2>3, Zenon
<1>19. Len(all) # 0
  <2>1. 1 \in 1..N /\ 1 \in 1..n
    OBVIOUS
  <2>2. DOMAIN all # {}
    BY <1>12, <2>1, Zenon
  <2>3. all \in Seq(S)
    BY <1>12, Zenon
  <2>4. QED
    BY ONLY <2>2, <2>3
<1>20. rep.cache_misses = 0 <=> \A k \in DOMAIN all : all[k].hit
  <2>1. Sum(M) = 0 <=> \A i \in DOMAIN M : M[i] = 0
    BY <1>14, SumTells
  <2>2. (\A i \in 1..N : M[i] = 0) <=> \A i \in 1..N : \A k \in 1..n : c(i).samples[k].hit
    BY <1>17, Zenon
  <2>3. (\A i \in 1..N : \A k \in 1..n : c(i).samples[k].hit) <=> \A k \in DOMAIN all : all[k].hit
    BY <1>12, Zenon
  <2>4. QED
    BY <1>14, <1>16, <2>1, <2>2, <2>3, Zenon
<1>21. ASSUME rep.cost_total_usd # Absent
       PROVE  /\ \A k \in DOMAIN all : all[k].ok /\ all[k].cost # Absent
              /\ rep.cost_total_usd = Sum(Costs(all))
  <2> DEFINE V == [i \in 1..N |-> rows[i].cost]
  <2>1. rep.cost_total_usd = TrySum(V)
    BY <1>5, Zenon DEF HasTotals
  <2>2. V \in Seq(Nat \cup {Absent}) /\ DOMAIN V = 1..N
    <3>1. \A i \in 1..N : rows[i].cost \in Nat \cup {Absent}
      BY <1>7, Zenon DEF RowTells
    <3>2. PICK T : T = Nat \cup {Absent}
      OBVIOUS
    <3>3. V \in [1..N -> T]
      BY <3>1, <3>2, Zenon
    <3> HIDE DEF V
    <3>4. V \in Seq(T) /\ DOMAIN V = 1..N
      BY ONLY <3>3, N \in Nat \ {0}
    <3>5. QED
      BY <3>2, <3>4, Zenon
  <2>3. \A i \in 1..N : V[i] = rows[i].cost
    BY Zenon
  <2>4. V = [i \in 1..N |-> V[i]]
    BY Zenon
  <2> HIDE DEF V
  <2>5. V \in Seq(Nat) /\ TrySum(V) = Sum(V)
    BY <1>21, <2>1, <2>2, TotalIsTheSum
  <2>6. \A i \in 1..N : V[i] # Absent
    <3>1. \A i \in 1..N : V[i] \in Nat
      BY ONLY <2>2, <2>5
    <3>2. QED
      BY <3>1 DEF Absent
  <2>7. \A i \in 1..N : /\ \A k \in 1..n : c(i).samples[k].ok /\ c(i).samples[k].cost # Absent
                        /\ V[i] = Sum(Costs(c(i).samples))
    <3> TAKE i \in 1..N
    <3>1. rows[i].cost # Absent /\ DOMAIN c(i).samples = 1..n
      BY <1>8, <2>3, <2>6, Zenon
    <3>2. /\ \A k \in DOMAIN c(i).samples : c(i).samples[k].ok /\ c(i).samples[k].cost # Absent
          /\ rows[i].cost = Sum(Costs(c(i).samples))
      BY <1>7, <3>1, Zenon DEF RowTells
    <3>3. QED
      BY <2>3, <3>1, <3>2, Zenon
  <2>8. \A k \in DOMAIN all : all[k].ok /\ all[k].cost # Absent
    <3> TAKE k \in DOMAIN all
    <3>1. PICK i \in 1..N : \E j \in 1..n : all[k] = c(i).samples[j]
      BY <1>12
    <3>2. PICK j \in 1..n : all[k] = c(i).samples[j]
      BY <3>1
    <3>3. QED
      BY <2>7, <3>2, Zenon
  <2> DEFINE R == {x \in S : x.cost \in Nat}
  <2>9. seqs \in Seq(Seq(R))
    <3>1. \A i \in 1..N : seqs[i] \in Seq(R)
      <4> TAKE i \in 1..N
      <4>1. PICK s : s = seqs[i]
        OBVIOUS
      <4>2. s \in Seq(S)
        <5>1. PICK T : T = Seq(S)
          OBVIOUS
        <5>2. seqs \in Seq(T)
          BY <1>10, <5>1, Zenon
        <5>3. seqs[i] \in T
          BY ONLY <1>10, <5>2
        <5>4. QED
          BY <4>1, <5>1, <5>3, Zenon
      <4>3. DOMAIN s = 1..n
        BY <1>8, <1>11, <4>1, Zenon
      <4>4. \A k \in 1..n : s[k].cost \in Nat
        BY <1>8, <1>11, <2>7, <4>1, Zenon
      <4>5. \A k \in 1..n : s[k] \in S
        BY ONLY <4>2, <4>3
      <4>6. \A k \in 1..n : s[k] \in R
        BY <4>4, <4>5, Zenon
      <4> HIDE DEF R
      <4>7. s \in Seq(R)
        BY ONLY <4>2, <4>3, <4>6
      <4>8. QED
        BY <4>1, <4>7, Zenon
    <3> HIDE DEF R
    <3>2. PICK T : T = Seq(R)
      OBVIOUS
    <3>3. seqs = [i \in 1..N |-> seqs[i]]
      <4>1. PICK U : U = Seq(S)
        OBVIOUS
      <4>2. seqs \in Seq(U)
        BY <1>10, <4>1, Zenon
      <4>3. QED
        BY ONLY <1>10, <4>2
    <3>4. \A i \in 1..N : seqs[i] \in T
      BY <3>1, <3>2, Zenon
    <3>5. seqs \in [1..N -> T]
      BY ONLY <3>3, <3>4
    <3>6. seqs \in Seq(T)
      BY ONLY <3>5, N \in Nat \ {0}
    <3>7. QED
      BY <3>2, <3>6, Zenon
  <2>10. \A x \in R : x.cost \in Nat
    BY Zenon
  <2> HIDE DEF R
  <2>11. Sum(Costs(all)) = Sum([i \in DOMAIN seqs |-> Sum(Costs(seqs[i]))])
    BY <2>9, <2>10, JoinedCosts, Zenon DEF all
  <2>12. [i \in DOMAIN seqs |-> Sum(Costs(seqs[i]))] = V
    <3>1. \A i \in 1..N : Sum(Costs(seqs[i])) = V[i]
      BY <1>11, <2>7, Zenon
    <3>2. QED
      BY <1>10, <2>4, <3>1, Zenon
  <2>13. QED
    BY <2>1, <2>5, <2>8, <2>11, <2>12, Zenon
<1>22. ReportAddsUp(rep, AllSamples(a))
  BY <1>9, <1>18, <1>19, <1>20, <1>21, Zenon DEF ReportAddsUp
<1>23. \A i \in DOMAIN a.cases : rows[i] = RowOf(a.cases[i], record)
  BY <1>2, <1>3, <1>5, Zenon DEF c
<1>24. QED
  BY <1>2, <1>3, <1>5, <1>22, <1>23, Zenon

CasesNamed(a, id) == {c \in ToSet(a.cases) : c.case.id = id}
ShownOf(v, id) == {u \in v.unstable : u.id = id}

\* A case that flipped is shown as flaky, and with several samples one whose answers
\* were not steady is shown.
ShowsTheUnsteady(a, v) ==
    \A id \in {c.case.id : c \in ToSet(a.cases)} :
        /\ (\E c \in CasesNamed(a, id) : Flipped(c) = BOOLEAN) <=> \E u \in ShownOf(v, id) : u.flaky
        /\ a.samples > 1 => (ShownOf(v, id) = {} <=> \A c \in CasesNamed(a, id) : Steady(c))

LEMMA UnsteadyAreShown ==
    ASSUME NEW a, Reportable(a), NEW record, a.samples > 1 => record = TRUE, NEW v, NEW rep, PrintsOf(v, rep),
           DOMAIN rep.cases = DOMAIN a.cases, \A i \in DOMAIN a.cases : rep.cases[i] = RowOf(a.cases[i], record)
    PROVE  ShowsTheUnsteady(a, v)
<1>1. PICK n \in Nat \ {0} : n = a.samples /\ \A i \in DOMAIN a.cases : IsSampled(a.cases[i], n)
  BY Zenon DEF Reportable
<1>2. ASSUME NEW c \in ToSet(a.cases)
      PROVE  RowOf(c, record) \in ToSet(rep.cases) /\ IsSampled(c, n) /\ RowOf(c, record).id = c.case.id
             /\ (RowOf(c, record).flaky <=> Flipped(c) = BOOLEAN)
  <2>1. PICK i \in DOMAIN a.cases : c = a.cases[i]
    BY Zenon DEF ToSet
  <2>2. rep.cases[i] = RowOf(c, record) /\ IsSampled(c, n) /\ i \in DOMAIN rep.cases
    BY <1>1, <2>1, Zenon
  <2>3. RowOf(c, record) \in ToSet(rep.cases)
    BY <2>2, Zenon DEF ToSet
  <2>4. RowOf(c, record).id = c.case.id
    <3>1. PICK r, o : r = RowOf(c, record) /\ o = OutcomesOf(c, record)
      OBVIOUS
    <3>2. FoldsTo(r, c.case, o, record)
      BY <3>1, FoldFolds, Zenon DEF RowOf
    <3>3. QED
      BY <3>1, <3>2, Zenon DEF FoldsTo
  <2>5. RowTells(RowOf(c, record), c, n)
    BY <2>2, RowsTell, Zenon DEF RowOf
  <2>6. QED
    BY <2>2, <2>3, <2>4, <2>5, Zenon DEF RowTells
<1>3. ASSUME NEW r \in ToSet(rep.cases) PROVE \E c \in ToSet(a.cases) : r = RowOf(c, record)
  <2>1. PICK i \in DOMAIN rep.cases : r = rep.cases[i]
    BY Zenon DEF ToSet
  <2>2. i \in DOMAIN a.cases /\ a.cases[i] \in ToSet(a.cases) /\ r = RowOf(a.cases[i], record)
    BY <2>1, Zenon DEF ToSet
  <2>3. QED
    BY <2>2, Zenon
<1>4. ASSUME NEW id, NEW u \in ShownOf(v, id)
      PROVE  \E c \in CasesNamed(a, id) : /\ RowOf(c, record).flaky \/ OutputUnstable(RowOf(c, record))
                                          /\ u.flaky = RowOf(c, record).flaky
  <2>1. u \in v.unstable /\ u.id = id
    BY Zenon DEF ShownOf
  <2>2. PICK r \in ToSet(rep.cases) : (r.flaky \/ OutputUnstable(r)) /\ u.id = r.id /\ u.flaky = r.flaky
    BY <2>1, Zenon DEF PrintsOf
  <2>3. PICK c \in ToSet(a.cases) : r = RowOf(c, record)
    BY <1>3
  <2>4. c \in CasesNamed(a, id)
    BY <1>2, <2>1, <2>2, <2>3, Zenon DEF CasesNamed
  <2>5. QED
    BY <2>2, <2>3, <2>4, Zenon
<1>5. ASSUME NEW id, NEW c \in CasesNamed(a, id), RowOf(c, record).flaky \/ OutputUnstable(RowOf(c, record))
      PROVE  \E u \in ShownOf(v, id) : u.flaky = RowOf(c, record).flaky
  <2>1. c \in ToSet(a.cases) /\ c.case.id = id
    BY Zenon DEF CasesNamed
  <2>2. RowOf(c, record) \in ToSet(rep.cases) /\ RowOf(c, record).id = id
    BY <1>2, <2>1, Zenon
  <2>3. PICK u \in v.unstable : u.id = RowOf(c, record).id /\ u.flaky = RowOf(c, record).flaky
    BY <1>5, <2>2, Zenon DEF PrintsOf
  <2>4. u \in ShownOf(v, id)
    BY <2>2, <2>3, Zenon DEF ShownOf
  <2>5. QED
    BY <2>3, <2>4, Zenon
<1>6. ASSUME NEW id
      PROVE  (\E c \in CasesNamed(a, id) : Flipped(c) = BOOLEAN) <=> \E u \in ShownOf(v, id) : u.flaky
  <2>1. ASSUME NEW c \in CasesNamed(a, id), Flipped(c) = BOOLEAN PROVE \E u \in ShownOf(v, id) : u.flaky
    <3>1. RowOf(c, record).flaky
      BY <1>2, <2>1, Zenon DEF CasesNamed
    <3>2. PICK u \in ShownOf(v, id) : u.flaky = RowOf(c, record).flaky
      BY <1>5, <3>1, Zenon
    <3>3. QED
      BY <3>1, <3>2, Zenon
  <2>2. ASSUME NEW u \in ShownOf(v, id), u.flaky PROVE \E c \in CasesNamed(a, id) : Flipped(c) = BOOLEAN
    <3>1. PICK c \in CasesNamed(a, id) : u.flaky = RowOf(c, record).flaky
      BY <1>4, Zenon
    <3>2. c \in ToSet(a.cases) /\ RowOf(c, record).flaky
      BY <2>2, <3>1, Zenon DEF CasesNamed
    <3>3. Flipped(c) = BOOLEAN
      BY <1>2, <3>2, Zenon
    <3>4. QED
      BY <3>3, Zenon
  <2>3. QED
    BY <2>1, <2>2, Zenon
<1>7. ASSUME a.samples > 1, NEW id PROVE ShownOf(v, id) = {} <=> \A c \in CasesNamed(a, id) : Steady(c)
  <2>1. record = TRUE /\ n \in Nat /\ n > 1
    BY <1>1, <1>7
  <2>2. ASSUME NEW c \in CasesNamed(a, id)
        PROVE  ~RowOf(c, record).flaky /\ ~OutputUnstable(RowOf(c, record)) <=> Steady(c)
    <3>1. IsSampled(c, n)
      BY <1>2, Zenon DEF CasesNamed
    <3>2. QED
      BY <2>1, <3>1, OutputTells, Zenon DEF RowOf
  <2>3. ASSUME NEW u \in ShownOf(v, id) PROVE \E c \in CasesNamed(a, id) : ~Steady(c)
    BY <1>4, <2>2, Zenon
  <2>4. ASSUME NEW c \in CasesNamed(a, id), ~Steady(c) PROVE \E u \in ShownOf(v, id) : TRUE
    BY <1>5, <2>2, <2>4, Zenon
  <2>5. QED
    BY <2>3, <2>4, Zenon
<1>8. QED
  BY <1>6, <1>7, Zenon DEF ShowsTheUnsteady

LEMMA ReportAnswers == ASSUME AnswersInv PROVE ReportTellsTheTruth
<1>1. SUFFICES ASSUME Gave("report") PROVE ReportTellsTheTruth
  BY Zenon DEF ReportTellsTheTruth
<1>2. asked \in ReportAsked /\ verdict = VerdictOn(asked) /\ cmd = "report"
  BY <1>1, AskedOf DEF Gave
<1>3. verdict = format_pareto(FullReport(asked))
  BY <1>2 DEF VerdictOn
<1>4. PICK a : a = asked
  OBVIOUS
<1>5. Reportable(a) /\ a.explicit \in BOOLEAN
  BY <1>2, <1>4, ReportAssumption, Zenon DEF Reportable
<1>6. PICK record : record = effective_record_answers(a.explicit, a.samples)
  OBVIOUS
<1>7. a.samples > 1 => record = TRUE
  BY <1>5, <1>6 DEF effective_record_answers
<1>8. PICK rows : rows = RowsOf(a, record)
  OBVIOUS
<1>9. PICK rep : rep = ReportOf(a)
  OBVIOUS
<1>10. HasTotals(rep, rows) /\ rep.cases = rows
  <2>1. rows = RowsOf(a, effective_record_answers(a.explicit, a.samples))
    BY <1>6, <1>8, Zenon
  <2>2. HasTotals(ReportOf(a), rows)
    BY ONLY <2>1, ReportTotals
  <2>3. QED
    BY <1>9, <2>2, Zenon DEF HasTotals
<1>11. /\ ReportAddsUp(rep, AllSamples(a))
       /\ DOMAIN rows = DOMAIN a.cases
       /\ \A i \in DOMAIN a.cases : rows[i] = RowOf(a.cases[i], record)
  BY <1>5, <1>8, <1>10, TotalsTell, Zenon
<1>12. PICK v, full : v = verdict /\ full = FullReport(a)
  OBVIOUS
<1>13. full.configs = <<rep>>
  BY <1>9, <1>12, Zenon DEF FullReport
<1>14. PrintsOf(v, rep)
  BY <1>3, <1>4, <1>12, <1>13, PrintTells, Zenon
<1>15. ShowsTheUnsteady(a, v)
  BY <1>5, <1>7, <1>10, <1>11, <1>14, UnsteadyAreShown, Zenon
<1>16. PICK all : all = AllSamples(a)
  OBVIOUS
<1>17. (\A i \in DOMAIN all : all[i].hit) <=> \E e \in v.cached : e.rescore_only
  <2>1. (\E e \in v.cached : e.rescore_only) <=> rep.cache_hits # 0 /\ rep.cache_misses = 0
    BY <1>14, Zenon DEF PrintsOf
  <2>2. rep.cache_hits \in Nat /\ rep.cache_misses \in Nat /\ rep.cache_hits + rep.cache_misses = Len(all) /\ Len(all) # 0
    BY <1>11, <1>16, Zenon DEF ReportAddsUp
  <2>3. rep.cache_misses = 0 => rep.cache_hits # 0
    BY ONLY <2>2
  <2>4. rep.cache_misses = 0 <=> \A k \in DOMAIN all : all[k].hit
    BY <1>11, <1>16, Zenon DEF ReportAddsUp
  <2>5. QED
    BY <2>1, <2>3, <2>4, Zenon
<1>18. rep.cache_hits + rep.cache_misses = Len(all)
  BY <1>11, <1>16, Zenon DEF ReportAddsUp
<1>19. v.no_cost = {} =>
          /\ \A i \in DOMAIN all : all[i].ok /\ all[i].cost # Absent
          /\ rep.cost_total_usd = Sum(Costs(all))
  BY <1>11, <1>14, <1>16, Zenon DEF ReportAddsUp, PrintsOf
<1>20. ShowsTheUnsteady(asked, verdict) /\ all = AllSamples(asked) /\ rep = ReportOf(asked) /\ v = verdict
  BY <1>4, <1>9, <1>12, <1>15, <1>16, Zenon
<1>21. QED
  BY <1>17, <1>18, <1>19, <1>20, Zenon DEF ReportTellsTheTruth, ShowsTheUnsteady, CasesNamed, ShownOf, Flipped, Steady,
     AnswersOf, OutcomesOf, AllSamples, Costs, MapSeq

\* For any cases, samples and number of samples: what is printed of a run is what
\* its invocations were.
THEOREM ReportsTellTheTruth == EvalSpec => []ReportTellsTheTruth
<1>1. AnswersInv => ReportTellsTheTruth
  BY ReportAnswers
<1>2. QED
  BY <1>1, AlwaysAnswersInv, PTL
===============================================================================
