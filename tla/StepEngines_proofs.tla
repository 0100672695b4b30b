-------------------------- MODULE StepEngines_proofs --------------------------
(***************************************************************************)
(* Theorems about the two back-ends that run the steps of a component, for   *)
(* any number of steps, names and artifacts: the staged executor by itself,  *)
(* and a sequential engine of codex-local beside it.                         *)
(***************************************************************************)
EXTENDS StepEngines, WellFoundedInduction, TLAPS

\* What one more accepted step adds to a plan keeps the plan well formed.
LEMMA AcceptedKeepsForm ==
    ASSUME NEW p \in Seq(Steps), WellFormed(p), NEW s \in Steps, Accepts(p, s)
    PROVE  WellFormed(Append(p, s))
<1> DEFINE q == Append(p, s)
           n == Len(p)
<1>1. /\ n \in Nat /\ DOMAIN p = 1..n
      /\ DOMAIN q = 1 .. n + 1
      /\ \A j \in 1..n : q[j] = p[j] /\ j \in 1 .. n + 1
      /\ q[n + 1] = s
  OBVIOUS
<1>2. \A j \in 1..n : p[j] \in Steps
  BY <1>1
<1>3. \A j \in 1..n : s.name # p[j].name /\ (s.produces # Nothing => s.produces # p[j].produces)
  BY <1>1 DEF Accepts, IsFresh, NamesOf, ProducedBy
<1>4. \A a \in ProducedBy(p) : \E j \in 1..n : p[j].produces = a
  BY <1>1 DEF ProducedBy
<1> HIDE DEF q, n
<1>5. \A i, j \in DOMAIN q :
         i # j => /\ q[i].name # q[j].name
                  /\ q[i].produces # Nothing => q[i].produces # q[j].produces
  <2> SUFFICES ASSUME NEW i \in 1 .. n + 1, NEW j \in 1 .. n + 1, i # j
               PROVE  /\ q[i].name # q[j].name
                      /\ q[i].produces # Nothing => q[i].produces # q[j].produces
    BY <1>1
  <2>1. CASE i \in 1..n /\ j \in 1..n
    BY <2>1, <1>1 DEF WellFormed
  <2>2. CASE i = n + 1 \/ j = n + 1
    <3>1. (i = n + 1 /\ j \in 1..n) \/ (j = n + 1 /\ i \in 1..n)
      BY <2>2, <1>1
    <3> QED
      BY <3>1, <1>1, <1>3
  <2> QED
    BY <2>1, <2>2, <1>1
<1>6. ASSUME NEW j \in 1..n
      PROVE  /\ \A a \in q[j].consumes : EarlierProducer(q, j, a)
             /\ q[j].when.guard = "on_failure" => EarlierStep(q, j, q[j].when.target)
             /\ q[j].when.guard \in {"on_missing", "on_flag"} => EarlierProducer(q, j, q[j].when.target)
  <2>1. \A i \in 1 .. j - 1 : q[i] = p[i]
    BY <1>1
  <2>2. q[j] = p[j] /\ j \in DOMAIN p
    BY <1>1
  <2> QED
    BY <2>1, <2>2 DEF WellFormed, EarlierProducer, EarlierStep
<1>7. /\ \A a \in s.consumes : EarlierProducer(q, n + 1, a)
      /\ s.when.guard = "on_failure" => EarlierStep(q, n + 1, s.when.target)
      /\ s.when.guard \in {"on_missing", "on_flag"} => EarlierProducer(q, n + 1, s.when.target)
  <2>1. (n + 1) - 1 = n
    BY <1>1
  <2>2. \A a \in ProducedBy(p) : EarlierProducer(q, n + 1, a)
    BY <1>1, <1>4, <2>1 DEF EarlierProducer
  <2>3. \A name \in NamesOf(p) : EarlierStep(q, n + 1, name)
    BY <1>1, <2>1 DEF EarlierStep, NamesOf
  <2> QED
    BY <2>2, <2>3 DEF Accepts, TargetIsEarlier
<1> QED
  BY <1>1, <1>5, <1>6, <1>7 DEF WellFormed, q

-------------------------------------------------------------------------------
\* A step that waits for the failure of another comes after it.
LEMMA WaitersComeLater ==
    ASSUME NEW p, WellFormed(p), DOMAIN p \subseteq Nat, \A m \in DOMAIN p : 1..m \subseteq DOMAIN p,
           NEW j \in DOMAIN p, NEW k \in DOMAIN p, WaitsForFailureOf(p[k], p[j].name)
    PROVE  j < k
<1>1. PICK m \in 1 .. k - 1 : p[m].name = p[j].name
  BY DEF WellFormed, WaitsForFailureOf, EarlierStep
<1>2. m \in DOMAIN p /\ m < k
  BY <1>1
<1>3. m = j
  BY <1>1, <1>2 DEF WellFormed
<1> QED
  BY <1>2, <1>3

Failed(j) == outcomes[plan[j].name] = "failure"

\* Why no failure is lost: a failed step that is behind the executor was tolerated,
\* and every step behind it that waits for the failure has run; ahead of it nothing
\* has run, and at it at most a repair.
FailuresAnswered ==
    /\ phase # "failed" => tries < MaxRepairAttempts
    /\ phase \in {"authoring", "refused"} => \A n \in Names : outcomes[n] = "none"
    /\ phase = "running" =>
         /\ at \in 1 .. Len(plan) + 1
         /\ \A j \in DOMAIN plan : j > at => ~Ran(j)
         /\ \A j \in DOMAIN plan : j = at /\ Ran(j) => Decision(j) = "repair"
    /\ phase = "done" => at = Len(plan) + 1
    /\ phase \in {"running", "done"} =>
         \A j \in DOMAIN plan : j < at /\ Failed(j) =>
            /\ Tolerant(plan[j])
            /\ \A k \in DOMAIN plan : k < at /\ WaitsForFailureOf(plan[k], plan[j].name) => Ran(k)

StagedInv == StagedTypeOK /\ WellFormed(plan) /\ FailuresAnswered

\* The facts of a state of the run that the steps of the proof rest on.
LEMMA StagedFacts ==
    ASSUME StagedInv
    PROVE  /\ DOMAIN plan = 1 .. Len(plan) /\ Len(plan) \in 0..MaxSteps
           /\ \A j \in DOMAIN plan : /\ plan[j] \in Steps /\ plan[j].name \in Names
                                     /\ ArtifactKey(plan[j]) \in Keys
           /\ \A i, j \in DOMAIN plan : i # j => plan[i].name # plan[j].name
           /\ \A j, k \in DOMAIN plan : WaitsForFailureOf(plan[k], plan[j].name) => j < k
<1> USE PlanAssumption
<1>1. DOMAIN plan = 1 .. Len(plan) /\ Len(plan) \in 0..MaxSteps
  BY DEF StagedInv, StagedTypeOK
<1>2. \A j \in DOMAIN plan : plan[j] \in Steps
  BY DEF StagedInv, StagedTypeOK
<1>3. \A j \in DOMAIN plan : plan[j].name \in Names /\ ArtifactKey(plan[j]) \in Keys
  BY <1>2 DEF Steps, ArtifactKey, Keys
<1>4. \A i, j \in DOMAIN plan : i # j => plan[i].name # plan[j].name
  BY DEF StagedInv, WellFormed
<1>5. \A j, k \in DOMAIN plan : WaitsForFailureOf(plan[k], plan[j].name) => j < k
  <2>1. PICK p : p = plan
    OBVIOUS
  <2>2. WellFormed(p)
    BY <2>1 DEF StagedInv
  <2>3. DOMAIN p \subseteq Nat /\ \A m \in DOMAIN p : 1..m \subseteq DOMAIN p
    BY <1>1, <2>1
  <2> QED
    BY <2>1, <2>2, <2>3, WaitersComeLater
<1> QED
  BY <1>1, <1>2, <1>3, <1>4, <1>5

\* A step that leaves something behind.
LEMMA RecordLeaves ==
    ASSUME StagedInv, NEW i \in 1..MaxSteps, NEW outcome \in {"success", "failure"}, Running(i),
           NEW kind \in {"flag", "plain", "failure"}, Record(i, outcome, kind), UNCHANGED plan
    PROVE  /\ outcomes' \in [Names -> {"none", "success", "failure"}]
           /\ artifacts' \in [Keys -> [by : 0..MaxSteps, kind : {"undefined", "flag", "plain", "failure"}]]
           /\ \A j \in DOMAIN plan : j # i => outcomes'[plan[j].name] = outcomes[plan[j].name]
           /\ outcomes'[plan[i].name] = outcome
           /\ \A j \in DOMAIN plan : Ran(j) => Ran(j)'
           /\ artifacts'[ArtifactKey(plan[i])].kind = kind
           /\ \A key \in Keys : key # ArtifactKey(plan[i]) => artifacts'[key] = artifacts[key]
<1>t. StagedTypeOK /\ i \in DOMAIN plan
  BY DEF StagedInv, Running
<1>f. /\ \A j \in DOMAIN plan : plan[j].name \in Names /\ ArtifactKey(plan[j]) \in Keys
      /\ \A j, k \in DOMAIN plan : j # k => plan[j].name # plan[k].name
  BY StagedFacts
<1>1. outcomes' = [outcomes EXCEPT ![plan[i].name] = outcome]
      /\ artifacts' = [artifacts EXCEPT ![ArtifactKey(plan[i])] = [by |-> i, kind |-> kind]]
  BY DEF Record
<1>2. /\ \A j \in DOMAIN plan : j # i => outcomes'[plan[j].name] = outcomes[plan[j].name]
      /\ outcomes'[plan[i].name] = outcome
      /\ outcomes' \in [Names -> {"none", "success", "failure"}]
  BY <1>1, <1>t, <1>f DEF StagedTypeOK
<1>3. /\ artifacts' \in [Keys -> [by : 0..MaxSteps, kind : {"undefined", "flag", "plain", "failure"}]]
      /\ artifacts'[ArtifactKey(plan[i])].kind = kind
      /\ \A key \in Keys : key # ArtifactKey(plan[i]) => artifacts'[key] = artifacts[key]
  BY <1>1, <1>t, <1>f DEF StagedTypeOK
<1>4. \A j \in DOMAIN plan : Ran(j) => Ran(j)'
  BY <1>2, <1>t DEF Ran
<1> QED
  BY <1>2, <1>3, <1>4

\* Type correctness, the form of the plan and the fate of failures, of every step.
LEMMA StagedInvariant == StagedSpec => []StagedInv
<1> USE PlanAssumption, RepairAssumption
<1>1. StagedInit => StagedInv
  BY DEF StagedInit, StagedInv, StagedTypeOK, WellFormed, NoText, FailuresAnswered, Failed
<1>2. ASSUME StagedInv, [StagedNext]_stagedVars
      PROVE  StagedInv'
  <2>t. StagedTypeOK /\ WellFormed(plan) /\ FailuresAnswered
    BY <1>2 DEF StagedInv
  <2>f. /\ DOMAIN plan = 1 .. Len(plan) /\ Len(plan) \in 0..MaxSteps
        /\ \A j \in DOMAIN plan : /\ plan[j] \in Steps /\ plan[j].name \in Names
                                  /\ ArtifactKey(plan[j]) \in Keys
        /\ \A i, j \in DOMAIN plan : i # j => plan[i].name # plan[j].name
        /\ \A j, k \in DOMAIN plan : WaitsForFailureOf(plan[k], plan[j].name) => j < k
    BY <1>2, StagedFacts
  <2>u. UNCHANGED plan => WellFormed(plan)' /\ \A j \in DOMAIN plan : Tolerant(plan[j])' <=> Tolerant(plan[j])
    BY <2>t DEF WellFormed, EarlierProducer, EarlierStep, Tolerant
  <2>1. ASSUME NEW s \in Steps, AuthorStep(s)
        PROVE  StagedInv'
    <3>1. plan' \in Seq(Steps) /\ Len(plan') <= MaxSteps /\ WellFormed(plan')
      <4>1. CASE Accepts(plan, s)
        <5>1. PICK p : p = plan
          OBVIOUS
        <5>2. PICK q : q = Append(p, s)
          OBVIOUS
        <5>3. WellFormed(q)
          BY <5>1, <5>2, <4>1, <2>t, AcceptedKeepsForm DEF StagedTypeOK
        <5>4. plan' = q /\ Len(plan) < MaxSteps
          BY <5>1, <5>2, <4>1, <2>1 DEF AuthorStep
        <5>5. WellFormed(plan')
          BY <5>3, <5>4 DEF WellFormed, EarlierProducer, EarlierStep
        <5>6. plan' \in Seq(Steps) /\ Len(plan') <= MaxSteps
          BY <5>1, <5>2, <5>4, <2>t DEF StagedTypeOK
        <5> QED
          BY <5>5, <5>6
      <4>2. CASE ~Accepts(plan, s)
        BY <4>2, <2>1, <2>t, <2>u DEF AuthorStep, StagedTypeOK
      <4> QED
        BY <4>1, <4>2
    <3> QED
      BY <2>1, <2>t, <3>1 DEF AuthorStep, StagedInv, StagedTypeOK, FailuresAnswered
  <2>2. CASE Dispatch
    <3>1. \A j \in DOMAIN plan : ~Ran(j)' /\ ~Failed(j)'
      BY <2>2, <2>t, <2>f DEF Dispatch, FailuresAnswered, Ran, Failed
    <3>2. FailuresAnswered'
      BY <2>2, <2>t, <2>f, <3>1 DEF Dispatch, FailuresAnswered
    <3> QED
      BY <2>2, <2>t, <2>f, <2>u, <3>2 DEF Dispatch, StagedInv, StagedTypeOK
  <2>3. ASSUME NEW i \in 1..MaxSteps, Skip(i)
        PROVE  StagedInv'
    <3>1. StagedTypeOK' /\ WellFormed(plan)'
      BY <2>3, <2>t, <2>u DEF Skip, StagedTypeOK
    <3>2. /\ phase = "running" /\ at = i /\ i \in DOMAIN plan /\ at' = i + 1
          /\ Decision(i) = "skip"
          /\ UNCHANGED <<plan, phase, tries, outcomes, artifacts, final>>
      BY <2>3 DEF Skip, Running
    <3>3. ~Ran(i) /\ ~Failed(i)
      BY <3>2, <2>t DEF FailuresAnswered, Ran, Failed
    <3>4. \A j \in DOMAIN plan : Failed(j) => ~WaitsForFailureOf(plan[i], plan[j].name)
      BY <3>2 DEF Decision, EvaluateGuard, WaitsForFailureOf, Unconditional, Failed
    <3>5. \A j \in DOMAIN plan : /\ Ran(j)' <=> Ran(j)
                                 /\ Failed(j)' <=> Failed(j)
                                 /\ Tolerant(plan[j])' <=> Tolerant(plan[j])
      BY <3>2, <2>u DEF Ran, Failed
    <3>6. FailuresAnswered'
      <4>1. \A j \in DOMAIN plan : j < at' /\ Failed(j) =>
              /\ Tolerant(plan[j])
              /\ \A k \in DOMAIN plan : k < at' /\ WaitsForFailureOf(plan[k], plan[j].name) => Ran(k)
        BY <3>2, <3>3, <3>4, <2>t, <2>f DEF FailuresAnswered
      <4>2. /\ at' \in 1 .. Len(plan) + 1
            /\ \A j \in DOMAIN plan : j >= at' => ~Ran(j)
        BY <3>2, <2>t, <2>f DEF FailuresAnswered
      <4> QED
        BY <3>2, <3>5, <4>1, <4>2, <2>t, <2>f DEF FailuresAnswered
    <3> QED
      BY <3>1, <3>6 DEF StagedInv
  \* The executor has left step i with an outcome.
  <2>p. ASSUME NEW i \in 1..MaxSteps, Running(i), NEW outcome \in {"success", "failure"},
               NEW kind \in {"flag", "plain", "failure"}, Record(i, outcome, kind),
               outcome = "failure" => Tolerant(plan[i]),
               at' = i + 1, UNCHANGED <<plan, phase>>, tries' \in {0, tries},
               final' \in {i, final}
        PROVE  StagedInv'
    <3>1. /\ phase = "running" /\ at = i /\ i \in DOMAIN plan
      BY <2>p DEF Running
    <3>2. /\ outcomes' \in [Names -> {"none", "success", "failure"}]
          /\ artifacts' \in [Keys -> [by : 0..MaxSteps, kind : {"undefined", "flag", "plain", "failure"}]]
          /\ \A j \in DOMAIN plan : j # i => outcomes'[plan[j].name] = outcomes[plan[j].name]
          /\ outcomes'[plan[i].name] = outcome
          /\ \A j \in DOMAIN plan : Ran(j) => Ran(j)'
      BY <1>2, <2>p, RecordLeaves
    <3>3. StagedTypeOK' /\ WellFormed(plan)'
      BY <2>p, <2>t, <2>f, <2>u, <3>1, <3>2 DEF StagedTypeOK
    <3>4. /\ at' \in 1 .. Len(plan) + 1
          /\ \A j \in DOMAIN plan : j >= at' => ~Ran(j)'
      BY <2>p, <2>t, <2>f, <3>1, <3>2 DEF FailuresAnswered, Ran
    <3>5. Ran(i)' /\ (Failed(i)' => Tolerant(plan[i])')
      BY <2>p, <2>u, <3>1, <3>2 DEF Ran, Failed
    <3>6. ASSUME NEW j \in DOMAIN plan, j < at', Failed(j)'
          PROVE  /\ Tolerant(plan[j])'
                 /\ \A k \in DOMAIN plan : k < at' /\ WaitsForFailureOf(plan[k], plan[j].name) => Ran(k)'
      <4>1. CASE j = i
        <5>1. \A k \in DOMAIN plan : k < at' => ~WaitsForFailureOf(plan[k], plan[j].name)
          BY <4>1, <3>1, <2>p, <2>f
        <5>2. Tolerant(plan[j])'
          BY <4>1, <3>5, <3>6, <2>p
        <5> QED
          BY <5>1, <5>2
      <4>2. CASE j # i
        <5>1. Failed(j) /\ j < at
          BY <4>2, <3>6, <3>2, <3>1, <2>p, <2>f DEF Failed
        <5>2. /\ Tolerant(plan[j])
              /\ \A k \in DOMAIN plan : k < at /\ WaitsForFailureOf(plan[k], plan[j].name) => Ran(k)
          BY <5>1, <3>1, <2>t DEF FailuresAnswered
        <5>3. Tolerant(plan[j])'
          BY <5>2, <2>p, <2>u
        <5>4. ASSUME NEW k \in DOMAIN plan, k < at', WaitsForFailureOf(plan[k], plan[j].name)
              PROVE  Ran(k)'
          <6>1. k = i \/ k < at
            BY <5>4, <3>1, <2>p, <2>f
          <6> QED
            BY <6>1, <5>2, <5>4, <3>2, <3>5
        <5> QED
          BY <5>3, <5>4
      <4> QED
        BY <4>1, <4>2
    <3>7. tries' < MaxRepairAttempts
      BY <2>p, <2>t, <3>1 DEF FailuresAnswered
    <3>8. FailuresAnswered'
      BY <2>p, <3>1, <3>4, <3>6, <3>7, <2>f DEF FailuresAnswered
    <3> QED
      BY <3>3, <3>8 DEF StagedInv
  <2>4. ASSUME NEW i \in 1..MaxSteps, NEW kind \in {"flag", "plain"}, Succeed(i, kind)
        PROVE  StagedInv'
    BY <2>4, <2>p DEF Succeed, FinalAfter
  <2>5. ASSUME NEW i \in 1..MaxSteps, Fail(i)
        PROVE  StagedInv'
    BY <2>5, <2>p DEF Fail, FinalAfter
  <2>6. ASSUME NEW i \in 1..MaxSteps, Abort(i)
        PROVE  StagedInv'
    BY <2>6, <2>t, <2>u DEF Abort, StagedInv, StagedTypeOK, FailuresAnswered
  <2>7. ASSUME NEW i \in 1..MaxSteps, FailRepair(i)
        PROVE  StagedInv'
    <3>1. /\ phase = "running" /\ at = i /\ i \in DOMAIN plan /\ Running(i)
          /\ Record(i, "failure", "failure") /\ Decision(i) = "repair"
          /\ UNCHANGED <<plan, at, final>> /\ tries' = tries + 1
      BY <2>7 DEF FailRepair, Running
    <3>2. /\ outcomes' \in [Names -> {"none", "success", "failure"}]
          /\ artifacts' \in [Keys -> [by : 0..MaxSteps, kind : {"undefined", "flag", "plain", "failure"}]]
          /\ \A j \in DOMAIN plan : j # i => outcomes'[plan[j].name] = outcomes[plan[j].name]
          /\ outcomes'[plan[i].name] = "failure"
          /\ \A j \in DOMAIN plan : Ran(j) => Ran(j)'
      BY <1>2, <3>1, RecordLeaves
    <3>3. /\ tries' \in 0..MaxRepairAttempts
          /\ phase' = IF tries' < MaxRepairAttempts THEN "running" ELSE "failed"
      BY <2>7, <3>1, <2>t DEF FailRepair, AfterRepair, FailuresAnswered, StagedTypeOK
    <3>4. StagedTypeOK' /\ WellFormed(plan)'
      BY <3>1, <3>2, <3>3, <2>t, <2>u DEF StagedTypeOK
    \* The step it repairs is the one before it, whose outcome this one leaves alone.
    <3>5. Decision(i)' = "repair"
      <4>1. /\ ~Unconditional(plan[i]) /\ RepairShape(i) /\ outcomes[plan[i].when.target] = "failure"
        BY <3>1 DEF Decision
      <4>2. i - 1 \in DOMAIN plan /\ plan[i].when.target = plan[i - 1].name
        BY <4>1, <3>1, <2>f DEF RepairShape, WaitsForFailureOf
      <4>3. outcomes'[plan[i].when.target] = "failure"
        BY <4>1, <4>2, <3>2, <3>1, <2>f
      <4>4. RepairShape(i)'
        BY <4>1, <3>1 DEF RepairShape
      <4> QED
        BY <4>1, <4>3, <4>4, <3>1 DEF Decision
    <3>6. \A j \in DOMAIN plan : j # i => (Ran(j)' <=> Ran(j)) /\ (Failed(j)' <=> Failed(j))
      BY <3>1, <3>2 DEF Ran, Failed
    <3>7. FailuresAnswered'
      <4>1. \A j \in DOMAIN plan : j < at /\ Failed(j)' =>
              /\ Tolerant(plan[j])'
              /\ \A k \in DOMAIN plan : k < at /\ WaitsForFailureOf(plan[k], plan[j].name) => Ran(k)'
        BY <3>1, <3>2, <3>6, <2>t, <2>u, <2>f DEF FailuresAnswered
      <4>2. \A j \in DOMAIN plan : j > at => ~Ran(j)'
        BY <3>1, <3>6, <2>t, <2>f DEF FailuresAnswered
      <4>3. at \in 1 .. Len(plan) + 1
        BY <3>1, <2>t DEF FailuresAnswered
      <4> QED
        BY <3>1, <3>3, <3>5, <4>1, <4>2, <4>3 DEF FailuresAnswered
    <3> QED
      BY <3>4, <3>7 DEF StagedInv
  <2>8. CASE Finish
    <3>1. \A j \in DOMAIN plan : /\ Ran(j)' <=> Ran(j)
                                 /\ Failed(j)' <=> Failed(j)
                                 /\ Tolerant(plan[j])' <=> Tolerant(plan[j])
      BY <2>8, <2>u DEF Finish, Ran, Failed
    <3>2. FailuresAnswered'
      BY <2>8, <2>t, <2>f, <3>1 DEF Finish, FailuresAnswered
    <3> QED
      BY <2>8, <2>t, <2>u, <3>2 DEF Finish, StagedInv, StagedTypeOK
  <2>9. CASE UNCHANGED stagedVars
    <3>1. \A j \in DOMAIN plan : /\ Ran(j)' <=> Ran(j)
                                 /\ Failed(j)' <=> Failed(j)
                                 /\ Decision(j)' = Decision(j)
                                 /\ Tolerant(plan[j])' <=> Tolerant(plan[j])
      BY <2>9, <2>u DEF stagedVars, Ran, Failed, Decision, RepairShape, EvaluateGuard
    <3>2. FailuresAnswered'
      BY <2>9, <2>t, <3>1 DEF stagedVars, FailuresAnswered
    <3> QED
      BY <2>9, <2>t, <2>u, <3>2 DEF stagedVars, StagedInv, StagedTypeOK
  <2>10. CASE \E i \in 1..MaxSteps : \/ Skip(i) \/ Fail(i) \/ Abort(i) \/ FailRepair(i)
                                     \/ \E kind \in {"flag", "plain"} : Succeed(i, kind)
    BY <2>10, <2>3, <2>4, <2>5, <2>6, <2>7
  <2> QED
    BY <1>2, <2>1, <2>2, <2>8, <2>9, <2>10 DEF StagedNext
<1> QED
  BY <1>1, <1>2, PTL DEF StagedSpec

\* The executor's variables keep their types, for any names, artifacts and bounds.
THEOREM StagedTypeCorrect == StagedSpec => []StagedTypeOK
<1>1. StagedInv => StagedTypeOK
  BY DEF StagedInv
<1> QED
  BY <1>1, StagedInvariant, PTL

\* What compile() checks as each step is added is what the whole plan needs: no name
\* or artifact twice, and every consumer and every guard after what it looks at.
THEOREM AcceptedPlansAreWellFormed == StagedSpec => []PlanIsWellFormed
<1>1. StagedInv => PlanIsWellFormed
  BY DEF StagedInv, PlanIsWellFormed
<1> QED
  BY <1>1, StagedInvariant, PTL

\* A run that ends well has run, after every step that failed, one that waited for the
\* failure (conditional.ts, "never a silent skip").
THEOREM FailuresAreNotSwallowed == StagedSpec => []NoFailureSwallowed
<1>1. StagedInv => NoFailureSwallowed
  <2> SUFFICES ASSUME StagedInv, phase = "done", NEW j \in DOMAIN plan, Failed(j)
               PROVE  \E k \in DOMAIN plan : k > j /\ Ran(k) /\ WaitsForFailureOf(plan[k], plan[j].name)
    BY DEF NoFailureSwallowed, Failed
  <2>1. /\ j < at /\ \A k \in DOMAIN plan : k < at
    BY StagedFacts DEF StagedInv, FailuresAnswered
  <2>2. PICK k \in DOMAIN plan : WaitsForFailureOf(plan[k], plan[j].name)
    BY <2>1 DEF StagedInv, FailuresAnswered, Tolerant
  <2>3. Ran(k)
    BY <2>1, <2>2 DEF StagedInv, FailuresAnswered
  <2>4. k > j
    BY <2>2, StagedFacts
  <2> QED
    BY <2>2, <2>3, <2>4
<1> QED
  BY <1>1, StagedInvariant, PTL

-------------------------------------------------------------------------------
(* What a run tells of itself.                                                  *)

\* What a guard can read of the artifacts: a flag was left by a step that succeeded,
\* and a step that ran has left something.
ArtifactsTell ==
    /\ \A key \in Keys : artifacts[key].kind = "flag" =>
         \E p \in DOMAIN plan : ArtifactKey(plan[p]) = key /\ outcomes[plan[p].name] = "success"
    /\ \A p \in DOMAIN plan : Ran(p) => artifacts[ArtifactKey(plan[p])].kind # "undefined"
    /\ phase \in {"authoring", "refused"} => \A key \in Keys : artifacts[key].kind = "undefined"

\* The final text is that of the last success, and the first step is never skipped.
FinalIsTheLastSuccess ==
    /\ final # 0 => final \in DOMAIN plan /\ Ran(final)
    /\ \A j \in DOMAIN plan : outcomes[plan[j].name] = "success" => j <= final
    /\ phase \in {"authoring", "refused"} => final = 0
    /\ phase \in {"running", "done"} => Len(plan) > 0 /\ (at > 1 => Ran(1))

RunInv == ArtifactsTell /\ FinalIsTheLastSuccess /\ (KeysAreApart => GuardsTellTheTruth)

\* What a step leaves is what it says of itself, and takes no other step's reason away:
\* the reasons of those that ran lie behind them.
LEMMA RecordKeepsRunInv ==
    ASSUME StagedInv, RunInv, NEW i \in 1..MaxSteps, NEW outcome \in {"success", "failure"},
           NEW kind \in {"flag", "plain", "failure"}, Running(i), Decision(i) \in {"run", "repair"},
           Record(i, outcome, kind), UNCHANGED plan,
           outcome = "success" => final' = i,
           outcome = "failure" => final' = final /\ kind = "failure",
           at' \in {i, i + 1}, phase' \in {"running", "failed"}
    PROVE  RunInv'
<1> USE PlanAssumption
<1>i. i \in DOMAIN plan /\ phase = "running" /\ at = i
  BY DEF Running
<1>f. /\ DOMAIN plan = 1 .. Len(plan) /\ Len(plan) \in 0..MaxSteps
      /\ \A j \in DOMAIN plan : /\ plan[j] \in Steps /\ plan[j].name \in Names
                                /\ ArtifactKey(plan[j]) \in Keys
      /\ \A j, k \in DOMAIN plan : j # k => plan[j].name # plan[k].name
  BY StagedFacts
<1>r. /\ \A j \in DOMAIN plan : j # i => outcomes'[plan[j].name] = outcomes[plan[j].name]
      /\ outcomes'[plan[i].name] = outcome
      /\ artifacts'[ArtifactKey(plan[i])].kind = kind
      /\ \A key \in Keys : key # ArtifactKey(plan[i]) => artifacts'[key] = artifacts[key]
  BY RecordLeaves
<1>w. WellFormed(plan)
  BY DEF StagedInv
\* Who has run is behind the executor, or under repair.
<1>b. \A j \in DOMAIN plan : Ran(j) => j <= i /\ (j = i => Decision(i) = "repair")
  BY <1>i, <1>f DEF StagedInv, FailuresAnswered
<1>n. \A j \in DOMAIN plan : outcomes'[plan[j].name] # "none" => j = i \/ (j < i /\ Ran(j))
  BY <1>b, <1>r, <1>i, <1>f DEF Ran
<1>1. ArtifactsTell'
  <2>1. ASSUME NEW key \in Keys, artifacts'[key].kind = "flag"
        PROVE  \E p \in DOMAIN plan : ArtifactKey(plan[p]) = key /\ outcomes'[plan[p].name] = "success"
    <3>1. CASE key = ArtifactKey(plan[i])
      BY <1>i, <1>r, <2>1, <3>1
    <3>2. CASE key # ArtifactKey(plan[i])
      <4>1. PICK p \in DOMAIN plan : ArtifactKey(plan[p]) = key /\ outcomes[plan[p].name] = "success"
        BY <1>r, <2>1, <3>2 DEF RunInv, ArtifactsTell
      <4> QED
        BY <1>r, <3>2, <4>1
    <3> QED
      BY <3>1, <3>2
  <2>2. ASSUME NEW p \in DOMAIN plan, outcomes'[plan[p].name] # "none"
        PROVE  artifacts'[ArtifactKey(plan[p])].kind # "undefined"
    <3>1. CASE ArtifactKey(plan[p]) = ArtifactKey(plan[i])
      BY <1>r, <3>1
    <3>2. CASE ArtifactKey(plan[p]) # ArtifactKey(plan[i])
      BY <1>r, <1>f, <1>n, <2>2, <3>2 DEF RunInv, ArtifactsTell
    <3> QED
      BY <3>1, <3>2
  <2>3. phase' \notin {"authoring", "refused"}
    OBVIOUS
  <2>4. \A p \in DOMAIN plan : ArtifactKey(plan[p])' = ArtifactKey(plan[p])
    BY DEF ArtifactKey
  <2> QED
    BY <2>1, <2>2, <2>3, <2>4 DEF ArtifactsTell, Ran
<1>2. FinalIsTheLastSuccess'
  <2>1. final' # 0 => final' \in DOMAIN plan /\ outcomes'[plan[final'].name] # "none"
    <3>1. CASE outcome = "success"
      BY <1>i, <1>r, <3>1
    <3>2. CASE outcome = "failure"
      BY <1>i, <1>r, <3>2 DEF RunInv, FinalIsTheLastSuccess, Ran
    <3> QED
      BY <3>1, <3>2
  <2>2. ASSUME NEW j \in DOMAIN plan, outcomes'[plan[j].name] = "success"
        PROVE  j <= final'
    <3>1. CASE outcome = "success"
      BY <1>n, <1>i, <1>f, <2>2, <3>1
    <3>2. CASE outcome = "failure"
      BY <1>r, <2>2, <3>2 DEF RunInv, FinalIsTheLastSuccess
    <3> QED
      BY <3>1, <3>2
  <2>3. Len(plan) > 0 /\ (at' > 1 => outcomes'[plan[1].name] # "none")
    <3>1. CASE i = 1
      BY <1>i, <1>f, <1>r, <3>1
    <3>2. CASE i # 1
      <4>1. at > 1 /\ 1 \in DOMAIN plan
        BY <1>i, <1>f, <3>2
      <4>2. Ran(1)
        BY <1>i, <4>1 DEF RunInv, FinalIsTheLastSuccess
      <4> QED
        BY <1>r, <1>f, <3>2, <4>1, <4>2 DEF Ran
    <3> QED
      BY <3>1, <3>2
  <2> QED
    BY <2>1, <2>2, <2>3 DEF FinalIsTheLastSuccess, Ran
<1>3. ASSUME KeysAreApart
      PROVE  GuardsTellTheTruth'
  <2>g. GuardsTellTheTruth
    BY <1>3 DEF RunInv
  <2> SUFFICES ASSUME NEW k \in DOMAIN plan, outcomes'[plan[k].name] # "none"
               PROVE  LET when == plan[k].when
                      IN /\ when.guard = "on_failure" => outcomes'[when.target] = "failure"
                         /\ when.guard = "on_flag" =>
                              \E p \in 1 .. k - 1 : plan[p].produces = when.target /\ outcomes'[plan[p].name] = "success"
                         /\ when.guard = "on_missing" =>
                              \A p \in 1 .. k - 1 : plan[p].produces = when.target => outcomes'[plan[p].name] = "none"
    BY DEF GuardsTellTheTruth, Ran
  <2>k. k \in Nat /\ k <= i /\ \A p \in 1 .. k - 1 : p \in DOMAIN plan /\ p # i
    BY <1>n, <1>i, <1>f
  <2>e. \A p \in 1 .. k - 1 : outcomes'[plan[p].name] = outcomes[plan[p].name]
    BY <1>r, <2>k
  \* The target of on_failure is a step behind it.
  <2>t. plan[k].when.guard = "on_failure" => outcomes'[plan[k].when.target] = outcomes[plan[k].when.target]
    BY <1>w, <2>e DEF WellFormed, EarlierStep
  <2>1. CASE Ran(k)
    BY <2>1, <2>g, <2>e, <2>t DEF GuardsTellTheTruth, Ran
  <2>2. CASE ~Ran(k)
    <3>1. k = i
      BY <1>n, <2>2
    <3>2. plan[k].when.guard = "on_failure" => outcomes[plan[k].when.target] = "failure"
      BY <3>1 DEF Decision, Unconditional, RepairShape, WaitsForFailureOf, EvaluateGuard
    <3>3. plan[k].when.guard = "on_flag" => artifacts[plan[k].when.target].kind = "flag"
      BY <3>1 DEF Decision, Unconditional, RepairShape, WaitsForFailureOf, EvaluateGuard
    <3>4. plan[k].when.guard = "on_missing" => artifacts[plan[k].when.target] = NoText
      BY <3>1 DEF Decision, Unconditional, RepairShape, WaitsForFailureOf, EvaluateGuard
    <3>5. \A p \in DOMAIN plan : Ran(p) => p \in 1 .. k - 1
      BY <1>b, <1>f, <1>i, <2>2, <3>1
    <3>6. ASSUME plan[k].when.guard \in {"on_flag", "on_missing"}
          PROVE  /\ plan[k].when.target \in Artifacts
                 /\ \E q \in DOMAIN plan : plan[q].produces = plan[k].when.target
      BY <3>6, <1>f, <1>w, <2>k DEF Steps, Guards, Unguarded, WellFormed, EarlierProducer
    <3>7. ASSUME plan[k].when.guard = "on_flag"
          PROVE  \E p \in 1 .. k - 1 : plan[p].produces = plan[k].when.target /\ outcomes[plan[p].name] = "success"
      <4>1. plan[k].when.target \in Keys
        BY <3>6, <3>7 DEF Keys
      <4>2. PICK p \in DOMAIN plan : ArtifactKey(plan[p]) = plan[k].when.target /\ outcomes[plan[p].name] = "success"
        BY <3>3, <3>7, <4>1 DEF RunInv, ArtifactsTell
      <4>3. plan[p].produces = plan[k].when.target
        BY <1>3, <3>6, <3>7, <4>2 DEF ArtifactKey, KeysAreApart
      <4> QED
        BY <3>5, <4>2, <4>3 DEF Ran
    <3>8. ASSUME plan[k].when.guard = "on_missing", NEW p \in 1 .. k - 1, plan[p].produces = plan[k].when.target
          PROVE  ~Ran(p)
      <4>1. ArtifactKey(plan[p]) = plan[k].when.target
        BY <3>6, <3>8 DEF ArtifactKey
      <4> QED
        BY <3>4, <3>8, <4>1, <2>k DEF RunInv, ArtifactsTell, NoText
    <3> QED
      BY <2>e, <2>t, <3>2, <3>7, <3>8 DEF Ran
  <2> QED
    BY <2>1, <2>2
<1>4. KeysAreApart' <=> KeysAreApart
  BY DEF KeysAreApart
<1> QED
  BY <1>1, <1>2, <1>3, <1>4 DEF RunInv

\* Nothing is left behind; what has been decided is only how the run goes on.
LEMMA QuietKeepsRunInv ==
    ASSUME StagedInv, RunInv, UNCHANGED <<plan, outcomes, artifacts, final>>,
           phase \in {"authoring", "refused"} \/ phase' \notin {"authoring", "refused"},
           phase' \in {"running", "done"} => /\ Len(plan) > 0
                                             /\ at' > 1 => Ran(1)
    PROVE  RunInv'
<1>1. ArtifactsTell'
  BY DEF RunInv, ArtifactsTell, ArtifactKey, Ran
<1>2. FinalIsTheLastSuccess'
  BY DEF RunInv, FinalIsTheLastSuccess, Ran
<1>3. KeysAreApart' => GuardsTellTheTruth'
  BY DEF RunInv, KeysAreApart, GuardsTellTheTruth, Ran
<1> QED
  BY <1>1, <1>2, <1>3 DEF RunInv

\* While a component is written nothing has run.
LEMMA AuthorKeepsRunInv ==
    ASSUME StagedInv, RunInv, NEW s \in Steps, AuthorStep(s)
    PROVE  RunInv'
<1> USE PlanAssumption
<1>1. /\ phase = "authoring" /\ phase' \in {"authoring", "refused"}
      /\ UNCHANGED <<outcomes, artifacts, final>> /\ plan' \in Seq(Steps)
  BY DEF AuthorStep, StagedInv, StagedTypeOK
<1>2. \A j \in DOMAIN plan' : outcomes'[plan'[j].name] = "none"
  <2>0. \A j \in DOMAIN plan' : plan'[j] \in Steps
    BY <1>1
  <2>1. \A j \in DOMAIN plan' : plan'[j].name \in Names
    BY <2>0 DEF Steps
  <2> QED
    BY <1>1, <2>1 DEF StagedInv, FailuresAnswered
<1>3. /\ final = 0
      /\ \A key \in Keys : artifacts[key].kind = "undefined"
  BY <1>1 DEF RunInv, ArtifactsTell, FinalIsTheLastSuccess
<1>4. ArtifactsTell' /\ FinalIsTheLastSuccess'
  BY <1>1, <1>2, <1>3 DEF ArtifactsTell, FinalIsTheLastSuccess, Ran
<1>5. GuardsTellTheTruth'
  BY <1>2 DEF GuardsTellTheTruth, Ran
<1> QED
  BY <1>4, <1>5 DEF RunInv

\* The first step has no guard: there is nothing before it.
LEMMA FirstIsUnconditional ==
    ASSUME StagedInv, Len(plan) > 0
    PROVE  1 \in DOMAIN plan /\ Unconditional(plan[1])
<1>1. DOMAIN plan = 1 .. Len(plan) /\ Len(plan) \in Nat /\ plan[1] \in Steps
  BY StagedFacts
<1>2. 1 \in DOMAIN plan /\ 1 .. 1 - 1 = {}
  BY <1>1
<1>3. WellFormed(plan)
  BY DEF StagedInv
<1>4. plan[1].when.guard \notin {"on_failure", "on_missing", "on_flag"}
  BY <1>2, <1>3 DEF WellFormed, EarlierProducer, EarlierStep
<1> QED
  BY <1>1, <1>2, <1>4 DEF Steps, Guards, Unguarded, Unconditional

LEMMA RunInvariant == StagedSpec => []RunInv
<1> USE PlanAssumption
<1>1. StagedInit => RunInv
  BY DEF StagedInit, RunInv, ArtifactsTell, FinalIsTheLastSuccess, GuardsTellTheTruth, NoText
<1>2. ASSUME StagedInv, RunInv, [StagedNext]_stagedVars
      PROVE  RunInv'
  <2>1. ASSUME NEW s \in Steps, AuthorStep(s)
        PROVE  RunInv'
    BY <1>2, <2>1, AuthorKeepsRunInv
  <2>2. CASE Dispatch
    <3>1. Len(plan) > 0
      BY <1>2, <2>2 DEF Dispatch, StagedInv, StagedTypeOK
    <3> QED
      BY <1>2, <2>2, <3>1, QuietKeepsRunInv DEF Dispatch
  <2>3. ASSUME NEW i \in 1..MaxSteps, Skip(i)
        PROVE  RunInv'
    <3>1. phase = "running" /\ at = i /\ i \in DOMAIN plan /\ Decision(i) = "skip"
      BY <2>3 DEF Skip, Running
    <3>2. Len(plan) > 0 /\ (at > 1 => Ran(1))
      BY <1>2, <3>1 DEF RunInv, FinalIsTheLastSuccess
    <3>3. i # 1
      BY <1>2, <3>1, <3>2, FirstIsUnconditional DEF Decision
    <3> QED
      BY <1>2, <2>3, <3>1, <3>2, <3>3, QuietKeepsRunInv DEF Skip
  <2>4. ASSUME NEW i \in 1..MaxSteps, NEW kind \in {"flag", "plain"}, Succeed(i, kind)
        PROVE  RunInv'
    BY <1>2, <2>4, RecordKeepsRunInv DEF Succeed, FinalAfter, Running
  <2>5. ASSUME NEW i \in 1..MaxSteps, Fail(i)
        PROVE  RunInv'
    BY <1>2, <2>5, RecordKeepsRunInv DEF Fail, FinalAfter, Running
  <2>6. ASSUME NEW i \in 1..MaxSteps, Abort(i)
        PROVE  RunInv'
    BY <1>2, <2>6, QuietKeepsRunInv DEF Abort, Running
  <2>7. ASSUME NEW i \in 1..MaxSteps, FailRepair(i)
        PROVE  RunInv'
    BY <1>2, <2>7, RecordKeepsRunInv DEF FailRepair, AfterRepair, Running
  <2>8. CASE Finish
    <3>1. Len(plan) > 0 /\ (at > 1 => Ran(1))
      BY <1>2, <2>8 DEF Finish, RunInv, FinalIsTheLastSuccess
    <3> QED
      BY <1>2, <2>8, <3>1, QuietKeepsRunInv DEF Finish
  <2>9. CASE UNCHANGED stagedVars
    <3>1. phase \in {"running", "done"} => Len(plan) > 0 /\ (at > 1 => Ran(1))
      BY <1>2 DEF RunInv, FinalIsTheLastSuccess
    <3> QED
      BY <1>2, <2>9, <3>1, QuietKeepsRunInv DEF stagedVars
  <2> QED
    BY <1>2, <2>1, <2>2, <2>3, <2>4, <2>5, <2>6, <2>7, <2>8, <2>9 DEF StagedNext
<1> QED
  BY <1>1, <1>2, StagedInvariant, PTL DEF StagedSpec

\* Of the steps that ran there is a last one.
LEMMA SomeoneIsLast ==
    ASSUME NEW n \in Nat, NEW S \in SUBSET (1..n), S # {}
    PROVE  \E m \in S : \A j \in S : j <= m
<1> DEFINE U == {u \in Nat : \A j \in S : j <= u}
           Less == {p \in Nat \X Nat : p[1] < p[2]}
<1>1. n \in U /\ U \subseteq Nat
  OBVIOUS
<1>2. IsWellFoundedOn(Less, Nat)
  BY NatLessThanWellFounded DEF OpToRel
<1>3. \A u, v \in Nat : <<v, u>> \in Less <=> v < u
  OBVIOUS
<1>4. \A u \in Nat : u \in U <=> \A j \in S : j <= u
  OBVIOUS
<1> HIDE DEF Less, U
<1>5. \E u \in U : \A v \in U : ~(<<v, u>> \in Less)
  BY <1>1, <1>2, WFMin, Zenon
<1>6. PICK u \in U : \A v \in U : ~(<<v, u>> \in Less)
  BY <1>5
<1>7. u \in Nat /\ (\A j \in S : j <= u) /\ \A v \in U : v \in Nat /\ u <= v
  <2>1. u \in Nat /\ \A v \in U : v \in Nat /\ ~(v < u)
    BY <1>1, <1>3, <1>6
  <2> QED
    BY <2>1, <1>4
<1>8. \E some \in S : some \in Nat /\ some > 0
  <2>1. PICK some : some \in S
    BY Zenon
  <2>2. some \in 1..n
    BY <2>1
  <2> QED
    BY <2>1, <2>2
<1>9. CASE u \notin S
  <2>1. u - 1 \in Nat
    BY <1>7, <1>8
  <2>2. \A j \in S : j \in Nat /\ j <= u - 1
    BY <1>7, <1>9
  <2> QED
    BY <1>4, <1>7, <2>1, <2>2
<1> QED
  BY <1>7, <1>9

\* A run that ended well ended with a success: whoever ran last did not fail.
LEMMA DoneIsTheLastStep == ASSUME StagedInv, RunInv PROVE FinalTextIsTheLastStep
<1>1. ASSUME phase = "done"
      PROVE  /\ final \in DOMAIN plan /\ Ran(final)
             /\ \A j \in DOMAIN plan : Ran(j) => j <= final
  <2> DEFINE S == {j \in DOMAIN plan : Ran(j)}
  <2>1. DOMAIN plan = 1 .. Len(plan) /\ Len(plan) \in Nat /\ Len(plan) > 0 /\ at = Len(plan) + 1
    BY <1>1, StagedFacts DEF StagedInv, FailuresAnswered, RunInv, FinalIsTheLastSuccess
  <2>2. 1 \in S
    BY <1>1, <2>1 DEF RunInv, FinalIsTheLastSuccess
  <2>3. PICK m \in S : \A j \in S : j <= m
    BY <2>1, <2>2, SomeoneIsLast
  \* After a failure somebody would have run who waited for it.
  <2>4. ~Failed(m)
    <3> SUFFICES ASSUME Failed(m)
                 PROVE  FALSE
      OBVIOUS
    <3>1. Tolerant(plan[m]) /\ \A k \in DOMAIN plan : WaitsForFailureOf(plan[k], plan[m].name) => Ran(k)
      BY <1>1, <2>1, <2>3 DEF StagedInv, FailuresAnswered
    <3>2. PICK k \in DOMAIN plan : WaitsForFailureOf(plan[k], plan[m].name)
      BY <3>1 DEF Tolerant
    <3>3. k \in S /\ m < k
      BY <3>1, <3>2, <2>3, StagedFacts
    <3> QED
      BY <2>1, <2>3, <3>3
  <2>5. outcomes[plan[m].name] = "success"
    BY <2>3, <2>4, StagedFacts DEF Ran, Failed, StagedInv, StagedTypeOK
  <2>6. m <= final /\ final \in Nat
    BY <2>3, <2>5 DEF RunInv, FinalIsTheLastSuccess, StagedInv, StagedTypeOK
  <2>7. final # 0
    BY <2>1, <2>3, <2>6
  <2>8. final \in S
    BY <2>7 DEF RunInv, FinalIsTheLastSuccess
  <2> QED
    BY <2>1, <2>3, <2>6, <2>8
<1> QED
  BY <1>1 DEF FinalTextIsTheLastStep

\* The text that a run shows is that of its last step, and the reasons for which its
\* steps ran still hold when it ends (run.ts, conditional.ts).
THEOREM RunsTellTheTruth == StagedSpec => []RunIsWhatItTells
<1>1. StagedInv /\ RunInv => RunIsWhatItTells
  <2> SUFFICES ASSUME StagedInv, RunInv
               PROVE  RunIsWhatItTells
    OBVIOUS
  <2> QED
    BY DoneIsTheLastStep DEF RunIsWhatItTells, RunInv
<1> QED
  BY <1>1, StagedInvariant, RunInvariant, PTL

-------------------------------------------------------------------------------
(* The sequential engine of codex-local.                                        *)

\* What validateStepTopology gives it: only the last step is conditional, and it waits
\* for the failure of another.
Accepted ==
    \A i \in DOMAIN plan :
        /\ plan[i].produces # Nothing
        /\ plan[i].when.guard \in {"none", "on_failure"}
        /\ i < Len(plan) => Unconditional(plan[i])

CodexTypes ==
    /\ codexPhase \in {"waiting", "refused", "running", "done", "failed", "broken"}
    /\ codexAt \in 0 .. Len(plan) + 1 /\ codexFinal \in 0 .. Len(plan) /\ codexValue \in 0 .. Len(plan)
    /\ codexOutcomes \in [Names -> {"none", "ok", "bad", "skipped"}]

CodexHas(j, outcome) == codexOutcomes[plan[j].name] = outcome

\* Every step behind the one it is at has been decided and none from there on; a bad
\* terminal has somebody who waits for it, and who was skipped waited in vain.
CodexStory ==
    /\ codexPhase \in {"waiting", "refused"} =>
         codexFinal = 0 /\ codexValue = 0 /\ \A n \in Names : codexOutcomes[n] = "none"
    /\ phase \in {"authoring", "refused"} => codexPhase = "waiting"
    /\ codexPhase \in {"running", "done", "failed", "broken"} => Accepted /\ Len(plan) > 0 /\ codexAt > 0
    /\ \A j \in DOMAIN plan :
         /\ j >= codexAt => CodexHas(j, "none")
         /\ codexPhase \in {"running", "done"} /\ j < codexAt => ~CodexHas(j, "none")
         /\ CodexHas(j, "bad") => Codex!HasGuardedConsumer(plan[j])
         /\ CodexHas(j, "skipped") => ~Unconditional(plan[j]) /\ codexOutcomes[plan[j].when.target] # "bad"

\* What it would return: the text of the last step that ran, and its object if it is good.
CodexLatest ==
    /\ codexPhase = "done" => codexAt = Len(plan) + 1
    /\ codexPhase = "running" /\ codexAt <= Len(plan) => codexFinal = codexAt - 1
    /\ codexPhase \in {"running", "done"} /\ codexAt = Len(plan) + 1 =>
         codexFinal = IF CodexHas(Len(plan), "skipped") THEN Len(plan) - 1 ELSE Len(plan)
    /\ codexFinal > 0 /\ CodexHas(codexFinal, "ok") => codexValue = codexFinal

CodexInv == CodexTypes /\ CodexStory /\ CodexLatest

\* The step it is at is decided: skipped, or ended by a good or a bad terminal.
LEMMA DecidedKeepsCodexInv ==
    ASSUME StagedInv, CodexInv, NEW i \in DOMAIN plan, NEW o \in {"ok", "bad", "skipped"},
           codexPhase = "running", codexAt = i, UNCHANGED <<plan, codexPhase>>,
           codexOutcomes' = [codexOutcomes EXCEPT ![plan[i].name] = o], codexAt' = i + 1,
           codexFinal' = IF o = "skipped" THEN codexFinal ELSE i,
           codexValue' = IF o = "ok" THEN i ELSE codexValue,
           o = "bad" => Codex!HasGuardedConsumer(plan[i]),
           o = "skipped" => ~Codex!ShouldRunStep(plan[i]),
           phase' \notin {"authoring", "refused"}
    PROVE  CodexInv'
<1>f. /\ DOMAIN plan = 1 .. Len(plan) /\ Len(plan) \in Nat
      /\ \A j \in DOMAIN plan : plan[j] \in Steps /\ plan[j].name \in Names
      /\ \A j, k \in DOMAIN plan : j # k => plan[j].name # plan[k].name
  BY StagedFacts DEF StagedInv
<1>t. /\ codexAt \in 0 .. Len(plan) + 1 /\ codexFinal \in 0 .. Len(plan) /\ codexValue \in 0 .. Len(plan)
      /\ codexOutcomes \in [Names -> {"none", "ok", "bad", "skipped"}]
  BY DEF CodexInv, CodexTypes
<1>a. Accepted /\ Len(plan) > 0
  BY DEF CodexInv, CodexStory
<1>r. /\ codexOutcomes' \in [Names -> {"none", "ok", "bad", "skipped"}]
      /\ codexOutcomes'[plan[i].name] = o
      /\ \A j \in DOMAIN plan : j # i => codexOutcomes'[plan[j].name] = codexOutcomes[plan[j].name]
  BY <1>f, <1>t
\* A guard looks back, at a step whose story is over.
<1>g. \A j \in DOMAIN plan : ~Unconditional(plan[j]) =>
         /\ plan[j].when.guard = "on_failure"
         /\ j = Len(plan)
         /\ \E p \in 1 .. j - 1 : plan[p].name = plan[j].when.target
  <2> SUFFICES ASSUME NEW j \in DOMAIN plan, ~Unconditional(plan[j])
               PROVE  /\ plan[j].when.guard = "on_failure"
                      /\ j = Len(plan)
                      /\ \E p \in 1 .. j - 1 : plan[p].name = plan[j].when.target
    OBVIOUS
  <2>1. plan[j].when.guard = "on_failure" /\ ~(j < Len(plan))
    BY <1>a DEF Accepted, Unconditional
  <2>2. EarlierStep(plan, j, plan[j].when.target)
    BY <2>1 DEF StagedInv, WellFormed
  <2> QED
    BY <1>f, <2>1, <2>2 DEF EarlierStep
<1>s. o = "skipped" => /\ ~Unconditional(plan[i]) /\ i = Len(plan)
                       /\ codexOutcomes[plan[i].when.target] # "bad"
  BY <1>g DEF Codex!ShouldRunStep, Unconditional
<1>1. CodexTypes'
  BY <1>f, <1>t, <1>r DEF CodexTypes
<1>2. CodexStory'
  <2>1. ASSUME NEW j \in DOMAIN plan, j >= codexAt'
        PROVE  codexOutcomes'[plan[j].name] = "none"
    BY <2>1, <1>f, <1>r DEF CodexInv, CodexStory, CodexHas
  <2>2. ASSUME NEW j \in DOMAIN plan, j < codexAt'
        PROVE  codexOutcomes'[plan[j].name] # "none"
    BY <2>2, <1>f, <1>r DEF CodexInv, CodexStory, CodexHas
  <2>3. ASSUME NEW j \in DOMAIN plan, codexOutcomes'[plan[j].name] = "bad"
        PROVE  Codex!HasGuardedConsumer(plan[j])
    BY <2>3, <1>r DEF CodexInv, CodexStory, CodexHas
  <2>4. ASSUME NEW j \in DOMAIN plan, codexOutcomes'[plan[j].name] = "skipped"
        PROVE  ~Unconditional(plan[j]) /\ codexOutcomes'[plan[j].when.target] # "bad"
    <3>1. ~Unconditional(plan[j]) /\ codexOutcomes[plan[j].when.target] # "bad"
      BY <2>4, <1>r, <1>s DEF CodexInv, CodexStory, CodexHas
    <3>2. j <= i
      BY <2>1, <2>4, <1>f
    <3>3. PICK p \in 1 .. j - 1 : plan[p].name = plan[j].when.target
      BY <1>g, <3>1
    <3>4. p \in DOMAIN plan /\ p # i
      BY <1>f, <3>2
    <3> QED
      BY <1>r, <3>1, <3>3, <3>4
  <2>5. \A j \in DOMAIN plan : Codex!HasGuardedConsumer(plan[j]) => Codex!HasGuardedConsumer(plan[j])'
    BY DEF Codex!HasGuardedConsumer, WaitsForFailureOf
  <2>6. Accepted' /\ codexAt' > 0 /\ (\A j \in DOMAIN plan : Unconditional(plan[j])' <=> Unconditional(plan[j]))
    BY <1>a, <1>f DEF Accepted, Unconditional
  <2> QED
    BY <1>a, <2>1, <2>2, <2>3, <2>4, <2>5, <2>6 DEF CodexStory, CodexHas
<1>3. CodexLatest'
  <2>1. codexFinal = i - 1
    BY <1>f DEF CodexInv, CodexLatest
  <2>2. i < Len(plan) => o # "skipped" /\ codexAt' <= Len(plan) /\ codexFinal' = codexAt' - 1
    BY <1>f, <1>s
  <2>3. i = Len(plan) => codexAt' = Len(plan) + 1 /\ codexFinal' = IF o = "skipped" THEN Len(plan) - 1 ELSE Len(plan)
    BY <1>f, <2>1
  <2>4. ASSUME codexFinal' > 0, codexOutcomes'[plan[codexFinal'].name] = "ok"
        PROVE  codexValue' = codexFinal'
    <3>1. CASE o = "ok"
      BY <3>1
    <3>2. CASE o = "bad"
      BY <1>r, <2>4, <3>2
    <3>3. CASE o = "skipped"
      <4>1. codexFinal' = codexFinal /\ codexValue' = codexValue /\ codexFinal \in DOMAIN plan /\ codexFinal # i
        BY <1>f, <1>t, <2>1, <2>4, <3>3
      <4> QED
        BY <1>r, <2>4, <4>1 DEF CodexInv, CodexLatest, CodexHas
    <3> QED
      BY <3>1, <3>2, <3>3
  <2>5. codexAt' \in Nat /\ (i < Len(plan) \/ i = Len(plan)) /\ (i < Len(plan) => codexAt' # Len(plan) + 1)
        /\ (i = Len(plan) => ~(codexAt' <= Len(plan)))
    BY <1>f
  <2> QED
    BY <1>r, <2>2, <2>3, <2>4, <2>5 DEF CodexLatest, CodexHas
<1> QED
  BY <1>1, <1>2, <1>3 DEF CodexInv

\* Nothing is decided: only the phase moves on.
LEMMA QuietKeepsCodexInv ==
    ASSUME StagedInv, CodexInv, UNCHANGED <<plan, codexAt, codexOutcomes, codexFinal, codexValue>>,
           \/ codexPhase' = codexPhase
           \/ codexPhase = "running" /\ codexPhase' \in {"failed", "broken"}
           \/ codexPhase = "running" /\ codexPhase' = "done" /\ codexAt = Len(plan) + 1,
           phase' \in {"authoring", "refused"} => phase \in {"authoring", "refused"}
    PROVE  CodexInv'
<1>1. CodexTypes'
  BY DEF CodexInv, CodexTypes
<1>2. CodexStory'
  <2>1. \A j \in DOMAIN plan : Codex!HasGuardedConsumer(plan[j]) => Codex!HasGuardedConsumer(plan[j])'
    BY DEF Codex!HasGuardedConsumer, WaitsForFailureOf
  <2>2. (Accepted => Accepted') /\ (\A j \in DOMAIN plan : Unconditional(plan[j])' <=> Unconditional(plan[j]))
    BY DEF Accepted, Unconditional
  <2> QED
    BY <2>1, <2>2 DEF CodexInv, CodexStory, CodexHas
<1>3. CodexLatest'
  BY DEF CodexInv, CodexLatest, CodexHas
<1> QED
  BY <1>1, <1>2, <1>3 DEF CodexInv

\* A step of the engine, with the plan as it is.
CodexStep ==
    \/ \E i \in 1..MaxSteps : \/ Codex!Skip(i) \/ Codex!GoodTerminal(i)
                              \/ Codex!BadTerminal(i) \/ Codex!StepBreaks(i)
    \/ Codex!Finish

LEMMA StepKeepsCodexInv ==
    ASSUME StagedInv, CodexInv, CodexStep, phase' \in {"authoring", "refused"} => phase \in {"authoring", "refused"}
    PROVE  CodexInv'
<1>0. phase' \notin {"authoring", "refused"}
  BY DEF CodexStep, Codex!Skip, Codex!GoodTerminal, Codex!BadTerminal, Codex!StepBreaks, Codex!Finish,
         Codex!Reached, CodexInv, CodexStory
<1>1. ASSUME NEW i \in 1..MaxSteps, Codex!Skip(i)
      PROVE  CodexInv'
  BY <1>0, <1>1, DecidedKeepsCodexInv DEF Codex!Skip, Codex!Reached
<1>2. ASSUME NEW i \in 1..MaxSteps, Codex!GoodTerminal(i)
      PROVE  CodexInv'
  BY <1>0, <1>2, DecidedKeepsCodexInv DEF Codex!GoodTerminal, Codex!Reached
<1>3. ASSUME NEW i \in 1..MaxSteps, Codex!BadTerminal(i)
      PROVE  CodexInv'
  <2>1. CASE Codex!HasGuardedConsumer(plan[i])
    BY <1>0, <1>3, <2>1, DecidedKeepsCodexInv DEF Codex!BadTerminal, Codex!Reached
  <2>2. CASE ~Codex!HasGuardedConsumer(plan[i])
    BY <1>3, <2>2, QuietKeepsCodexInv DEF Codex!BadTerminal, Codex!Reached
  <2> QED
    BY <2>1, <2>2
<1>4. ASSUME NEW i \in 1..MaxSteps, Codex!StepBreaks(i)
      PROVE  CodexInv'
  BY <1>4, QuietKeepsCodexInv DEF Codex!StepBreaks, Codex!Reached
<1>5. CASE Codex!Finish
  BY <1>5, QuietKeepsCodexInv DEF Codex!Finish
<1> QED
  BY <1>1, <1>2, <1>3, <1>4, <1>5 DEF CodexStep

\* While the component is written the engine waits.
LEMMA AuthorKeepsCodexInv ==
    ASSUME StagedInv, CodexInv, NEW s \in Steps, AuthorStep(s), UNCHANGED codexVars
    PROVE  CodexInv'
<1>0. phase = "authoring" /\ (plan' = plan \/ plan' = Append(plan, s)) /\ plan \in Seq(Steps)
  BY DEF AuthorStep, StagedInv, StagedTypeOK
<1>1. /\ plan' \in Seq(Steps) /\ Len(plan') \in {Len(plan), Len(plan) + 1} /\ Len(plan) \in Nat
      /\ codexPhase = "waiting" /\ codexPhase' = "waiting" /\ codexOutcomes' = codexOutcomes
      /\ codexAt' = codexAt /\ codexFinal' = codexFinal /\ codexValue' = codexValue
  <2>1. plan' \in Seq(Steps) /\ Len(plan') \in {Len(plan), Len(plan) + 1} /\ Len(plan) \in Nat
    BY <1>0
  <2> QED
    BY <1>0, <2>1 DEF CodexInv, CodexStory, codexVars
<1>2. codexFinal = 0 /\ codexValue = 0 /\ \A n \in Names : codexOutcomes[n] = "none"
  BY <1>1 DEF CodexInv, CodexStory
<1>3. CodexTypes'
  BY <1>1, <1>2 DEF CodexInv, CodexTypes
<1>4. \A j \in DOMAIN plan' : plan'[j].name \in Names
  <2>1. \A j \in DOMAIN plan' : plan'[j] \in Steps
    BY <1>1
  <2> QED
    BY <2>1 DEF Steps
<1>5. \A j \in DOMAIN plan' : codexOutcomes'[plan'[j].name] = "none"
  BY <1>1, <1>2, <1>4
<1>6. CodexStory'
  BY <1>1, <1>2, <1>5 DEF CodexStory, CodexHas
<1>7. CodexLatest'
  BY <1>1, <1>2 DEF CodexLatest
<1> QED
  BY <1>3, <1>6, <1>7 DEF CodexInv

\* prepare lets the engine start with what it accepts, or refuses it.
LEMMA DispatchKeepsCodexInv ==
    ASSUME StagedInv, CodexInv, Dispatch, Codex!Prepare
    PROVE  CodexInv' /\ (codexPhase' = "running" => codexAt' = 1)
<1>1. /\ phase' = "running" /\ plan' = plan /\ Len(plan) \in Nat /\ Len(plan) > 0 /\ DOMAIN plan = 1 .. Len(plan)
      /\ codexPhase = "waiting" /\ codexOutcomes' = codexOutcomes
      /\ codexFinal' = codexFinal /\ codexValue' = codexValue
  BY StagedFacts DEF Dispatch, Codex!Prepare, StagedInv, StagedTypeOK
<1>2. codexFinal = 0 /\ codexValue = 0 /\ \A n \in Names : codexOutcomes[n] = "none"
  BY <1>1 DEF CodexInv, CodexStory
<1>3. \A j \in DOMAIN plan : codexOutcomes[plan[j].name] = "none"
  BY <1>2, StagedFacts
<1>4. \/ codexPhase' = "running" /\ codexAt' = 1 /\ Accepted
      \/ codexPhase' = "refused" /\ codexAt' = codexAt
  <2>1. (\A i \in DOMAIN plan : Codex!AcceptsStep(i)) => Accepted
    BY <1>1 DEF Codex!AcceptsStep, Codex!WellPlaced, Codex!Unconditional, Unconditional, Accepted
  <2> QED
    BY <2>1 DEF Codex!Prepare
<1>5. CodexTypes'
  BY <1>1, <1>2, <1>4 DEF CodexInv, CodexTypes
<1>6. CodexStory'
  <2>1. Accepted => Accepted'
    BY <1>1 DEF Accepted, Unconditional
  <2> QED
    BY <1>1, <1>2, <1>3, <1>4, <2>1 DEF CodexStory, CodexHas
<1>7. CodexLatest'
  BY <1>1, <1>2, <1>4 DEF CodexLatest
<1> QED
  BY <1>4, <1>5, <1>6, <1>7 DEF CodexInv

-------------------------------------------------------------------------------
(* The two side by side.                                                        *)

\* As long as both are followed they have heard the same.
SameStory ==
    followed = "both" /\ codexPhase \in {"running", "done", "failed"} =>
        /\ phase = codexPhase /\ at = codexAt
        /\ phase # "failed" => \A n \in Names : /\ outcomes[n] = "success" <=> codexOutcomes[n] = "ok"
                                                /\ outcomes[n] = "failure" <=> codexOutcomes[n] = "bad"

\* The one's tolerated failures are the other's guarded consumers.
LEMMA TolerantIsGuarded ==
    ASSUME NEW j \in DOMAIN plan
    PROVE  Tolerant(plan[j]) <=> Codex!HasGuardedConsumer(plan[j])
BY DEF Tolerant, Codex!HasGuardedConsumer, WaitsForFailureOf, Codex!WaitsForFailureOf

\* Of a plan that the engine accepts only the last step waits for a failure: nobody
\* waits for that of the last, and a repair is the last step.
LEMMA LastIsNotAwaited ==
    ASSUME StagedInv, Accepted, NEW j \in DOMAIN plan, ~Unconditional(plan[j])
    PROVE  j = Len(plan) /\ plan[j].when.guard = "on_failure" /\ ~Tolerant(plan[j])
<1>1. DOMAIN plan = 1 .. Len(plan) /\ Len(plan) \in Nat
  BY StagedFacts
<1>2. j = Len(plan) /\ plan[j].when.guard = "on_failure"
  BY <1>1 DEF Accepted, Unconditional
<1>3. \A k \in DOMAIN plan : WaitsForFailureOf(plan[k], plan[j].name) => j < k
  BY StagedFacts
<1> QED
  BY <1>1, <1>2, <1>3 DEF Tolerant

LEMMA TogetherTellsTheSame ==
    ASSUME StagedInv, CodexInv, SameStory, MaxRepairAttempts = 1, Together
    PROVE  SameStory'
<1>f. /\ \A j \in DOMAIN plan : plan[j].name \in Names
      /\ outcomes \in [Names -> {"none", "success", "failure"}] /\ tries \in Nat
      /\ codexOutcomes \in [Names -> {"none", "ok", "bad", "skipped"}]
  BY StagedFacts DEF StagedInv, StagedTypeOK, CodexInv, CodexTypes
<1>b. followed = "both" /\ followed' = "both"
  BY DEF Together
<1>1. ASSUME NEW i \in 1..MaxSteps, Skip(i), Codex!Skip(i)
      PROVE  SameStory'
  <2>1. /\ codexOutcomes' = [codexOutcomes EXCEPT ![plan[i].name] = "skipped"]
        /\ codexPhase = "running" /\ codexPhase' = "running" /\ codexAt' = i + 1 /\ codexAt = i /\ i \in DOMAIN plan
        /\ outcomes' = outcomes /\ at' = i + 1 /\ phase' = phase
    BY <1>1 DEF Skip, Codex!Skip, Codex!Reached
  <2>2. codexOutcomes[plan[i].name] = "none"
    BY <1>f, <2>1, StagedFacts DEF CodexInv, CodexStory, CodexHas
  <2>3. \A n \in Names : codexOutcomes'[n] = IF n = plan[i].name THEN "skipped" ELSE codexOutcomes[n]
    BY <1>f, <2>1
  <2> QED
    BY <1>b, <1>f, <2>1, <2>2, <2>3 DEF SameStory
<1>2. ASSUME NEW i \in 1..MaxSteps, NEW kind \in {"flag", "plain"}, Succeed(i, kind), Codex!GoodTerminal(i)
      PROVE  SameStory'
  <2>1. /\ codexOutcomes' = [codexOutcomes EXCEPT ![plan[i].name] = "ok"]
        /\ codexPhase = "running" /\ codexPhase' = "running" /\ codexAt' = i + 1 /\ i \in DOMAIN plan
        /\ outcomes' = [outcomes EXCEPT ![plan[i].name] = "success"] /\ at' = i + 1 /\ phase' = phase
    BY <1>2 DEF Succeed, Record, Codex!GoodTerminal, Codex!Reached
  <2>2. \A n \in Names : /\ codexOutcomes'[n] = IF n = plan[i].name THEN "ok" ELSE codexOutcomes[n]
                         /\ outcomes'[n] = IF n = plan[i].name THEN "success" ELSE outcomes[n]
    BY <1>f, <2>1
  <2> QED
    BY <1>b, <2>1, <2>2 DEF SameStory
<1>3. ASSUME NEW i \in 1..MaxSteps, StepsEndBadly(i), Codex!BadTerminal(i)
      PROVE  SameStory'
  <2>1. /\ codexPhase = "running" /\ codexAt = i /\ at = i /\ i \in DOMAIN plan /\ phase = "running"
        /\ Tolerant(plan[i]) <=> Codex!HasGuardedConsumer(plan[i])
    BY <1>b, <1>3, TolerantIsGuarded DEF Codex!BadTerminal, Codex!Reached, SameStory
  <2>2. CASE Fail(i)
    <3>1. /\ codexOutcomes' = [codexOutcomes EXCEPT ![plan[i].name] = "bad"]
          /\ codexPhase' = "running" /\ codexAt' = i + 1
          /\ outcomes' = [outcomes EXCEPT ![plan[i].name] = "failure"] /\ at' = i + 1 /\ phase' = phase
      BY <1>3, <2>1, <2>2 DEF Fail, Record, Codex!BadTerminal
    <3>2. \A n \in Names : /\ codexOutcomes'[n] = IF n = plan[i].name THEN "bad" ELSE codexOutcomes[n]
                           /\ outcomes'[n] = IF n = plan[i].name THEN "failure" ELSE outcomes[n]
      BY <1>f, <2>1, <3>1
    <3> QED
      BY <1>b, <2>1, <3>1, <3>2 DEF SameStory
  <2>3. CASE Abort(i)
    BY <1>b, <1>3, <2>1, <2>3 DEF Abort, Codex!BadTerminal, SameStory
  <2>4. CASE FailRepair(i)
    <3>1. phase' = "failed" /\ at' = at
      BY <1>f, <2>4 DEF FailRepair, AfterRepair
    <3>2. ~Unconditional(plan[i]) /\ Accepted
      BY <2>1, <2>4 DEF FailRepair, Decision, CodexInv, CodexStory
    <3>3. ~Tolerant(plan[i])
      BY <2>1, <3>2, LastIsNotAwaited
    <3> QED
      BY <1>3, <2>1, <3>1, <3>3 DEF Codex!BadTerminal, SameStory
  <2> QED
    BY <1>3, <2>2, <2>3, <2>4 DEF StepsEndBadly
<1>4. CASE Finish /\ Codex!Finish
  <2>1. /\ codexPhase = "running" /\ phase' = "done" /\ at = codexAt /\ at' = at /\ codexAt' = codexAt
        /\ outcomes' = outcomes /\ codexOutcomes' = codexOutcomes /\ codexAt = Len(plan) + 1 /\ phase = "running"
    BY <1>4, <1>b DEF Finish, Codex!Finish, SameStory
  <2>2. Len(plan) \in DOMAIN plan /\ Len(plan) > 0 /\ Len(plan) \in Nat
    BY <2>1, StagedFacts DEF CodexInv, CodexStory
  <2>3. codexFinal # 0
    <3>1. CASE CodexHas(Len(plan), "skipped")
      <4>1. Len(plan) # 1
        BY <2>2, <3>1, FirstIsUnconditional DEF CodexInv, CodexStory
      <4> QED
        BY <2>1, <2>2, <3>1, <4>1 DEF CodexInv, CodexLatest
    <3>2. CASE ~CodexHas(Len(plan), "skipped")
      BY <2>1, <2>2, <3>2 DEF CodexInv, CodexLatest
    <3> QED
      BY <3>1, <3>2
  <2>4. codexPhase' = "done"
    BY <1>4, <2>3 DEF Codex!Finish
  <2> QED
    BY <1>b, <2>1, <2>4 DEF SameStory
<1> QED
  BY <1>1, <1>2, <1>3, <1>4 DEF Together, StepsEndWell

\* What happens beside the staged executor does not touch it.
LEMMA EnginesRunTheStaged == ASSUME [EnginesNext]_enginesVars PROVE [StagedNext]_stagedVars
<1>1. CASE \E s \in Steps : AuthorStep(s) /\ UNCHANGED <<codexVars, followed>>
  BY <1>1 DEF StagedNext
<1>2. CASE DispatchBoth
  BY <1>2 DEF DispatchBoth, StagedNext
<1>3. CASE Together \/ StagedAlone
  BY <1>3 DEF Together, StagedAlone, StepsEndWell, StepsEndBadly, StagedNext
<1>4. CASE Part
  BY <1>4 DEF Part
<1>5. CASE CodexAlone
  BY <1>5 DEF CodexAlone
<1>6. CASE UNCHANGED enginesVars
  BY <1>6 DEF enginesVars
<1> QED
  BY <1>1, <1>2, <1>3, <1>4, <1>5, <1>6 DEF EnginesNext

\* What the two do side by side is a run of the staged executor: its theorems hold of it.
THEOREM EnginesImplementStaged == EnginesSpec => StagedSpec
BY EnginesRunTheStaged, PTL DEF EnginesSpec, EnginesInit, StagedSpec

EnginesInv == CodexInv /\ SameStory

LEMMA EnginesInvariant ==
    ASSUME MaxRepairAttempts = 1
    PROVE  EnginesSpec => [](StagedInv /\ RunInv /\ EnginesInv)
<1>1. EnginesInit => EnginesInv
  BY DEF EnginesInit, StagedInit, Codex!CodexInit, EnginesInv, CodexInv, CodexTypes, CodexStory,
         CodexLatest, SameStory
<1>2. ASSUME StagedInv, EnginesInv, [EnginesNext]_enginesVars
      PROVE  EnginesInv'
  <2>1. ASSUME NEW s \in Steps, AuthorStep(s), UNCHANGED <<codexVars, followed>>
        PROVE  EnginesInv'
    <3>1. codexPhase' = "waiting"
      BY <1>2, <2>1 DEF AuthorStep, EnginesInv, CodexInv, CodexStory, codexVars
    <3> QED
      BY <1>2, <2>1, <3>1, AuthorKeepsCodexInv DEF EnginesInv, SameStory
  <2>2. CASE DispatchBoth
    <3>1. CodexInv' /\ (codexPhase' = "running" => codexAt' = 1)
      BY <1>2, <2>2, DispatchKeepsCodexInv DEF DispatchBoth, EnginesInv
    <3>2. /\ phase' = "running" /\ at' = 1 /\ outcomes' = outcomes /\ codexOutcomes' = codexOutcomes
          /\ codexPhase' \in {"running", "refused"}
          /\ \A n \in Names : outcomes[n] = "none" /\ codexOutcomes[n] = "none"
      BY <1>2, <2>2 DEF DispatchBoth, Dispatch, Codex!Prepare, EnginesInv, CodexInv, CodexStory,
                        StagedInv, FailuresAnswered
    <3> QED
      BY <3>1, <3>2 DEF EnginesInv, SameStory
  <2>3. CASE Together
    <3>1. CodexStep
      BY <2>3 DEF Together, CodexStep
    <3>2. phase' \in {"authoring", "refused"} => phase \in {"authoring", "refused"}
      BY <2>3 DEF Together, Skip, StepsEndWell, StepsEndBadly, Succeed, Fail, Abort, FailRepair, AfterRepair,
                  Finish, Running
    <3> QED
      BY <1>2, <2>3, <3>1, <3>2, StepKeepsCodexInv, TogetherTellsTheSame DEF EnginesInv
  <2>4. CASE Part
    <3>1. CodexInv'
      BY <1>2, <2>4, QuietKeepsCodexInv DEF Part, stagedVars, codexVars, EnginesInv
    <3> QED
      BY <2>4, <3>1 DEF Part, EnginesInv, SameStory
  <2>5. CASE StagedAlone
    <3>1. plan' = plan /\ (phase' \in {"authoring", "refused"} => phase \in {"authoring", "refused"})
      BY <2>5 DEF StagedAlone, Skip, StepsEndWell, StepsEndBadly, Succeed, Fail, Abort, FailRepair, AfterRepair,
                  Finish, Running
    <3>2. CodexInv'
      BY <1>2, <2>5, <3>1, QuietKeepsCodexInv DEF StagedAlone, codexVars, EnginesInv
    <3> QED
      BY <2>5, <3>2 DEF StagedAlone, EnginesInv, SameStory
  <2>6. CASE CodexAlone
    <3>1. CodexStep /\ phase' = phase
      BY <2>6 DEF CodexAlone, CodexStep, stagedVars
    <3>2. CodexInv'
      BY <1>2, <3>1, StepKeepsCodexInv DEF EnginesInv
    <3> QED
      BY <2>6, <3>2 DEF CodexAlone, EnginesInv, SameStory
  <2>7. CASE UNCHANGED enginesVars
    <3>1. CodexInv'
      BY <1>2, <2>7, QuietKeepsCodexInv DEF enginesVars, stagedVars, codexVars, EnginesInv
    <3> QED
      BY <1>2, <2>7, <3>1 DEF enginesVars, stagedVars, codexVars, EnginesInv, SameStory
  <2> QED
    BY <1>2, <2>1, <2>2, <2>3, <2>4, <2>5, <2>6, <2>7 DEF EnginesNext
<1> QED
  BY <1>1, <1>2, EnginesImplementStaged, StagedInvariant, RunInvariant, PTL DEF EnginesSpec

\* The text the engine returns is that of the last step or, where that was skipped, of
\* the one before it, and the step it is of ended well.
LEMMA CodexEndsWell ==
    ASSUME StagedInv, CodexInv, codexPhase = "done"
    PROVE  /\ codexFinal \in DOMAIN plan /\ CodexHas(codexFinal, "ok") /\ codexValue = codexFinal
           /\ codexFinal = IF CodexHas(Len(plan), "skipped") THEN Len(plan) - 1 ELSE Len(plan)
<1>0. PICK last \in Nat : last = Len(plan) /\ last > 0 /\ DOMAIN plan = 1 .. last
  <2>1. Len(plan) \in Nat /\ DOMAIN plan = 1 .. Len(plan)
    BY StagedFacts
  <2>2. Len(plan) > 0
    BY DEF CodexInv, CodexStory
  <2> QED
    BY <2>1, <2>2
<1>1. /\ DOMAIN plan = 1 .. last /\ last \in DOMAIN plan /\ codexAt = last + 1 /\ Accepted
      /\ codexFinal = IF CodexHas(last, "skipped") THEN last - 1 ELSE last
  BY <1>0 DEF CodexInv, CodexStory, CodexLatest
<1>2. \A j \in DOMAIN plan : ~CodexHas(j, "none") /\ codexOutcomes[plan[j].name] \in {"none", "ok", "bad", "skipped"}
  <2>1. \A j \in DOMAIN plan : j < codexAt /\ plan[j].name \in Names
    BY <1>1, StagedFacts
  <2>2. codexOutcomes \in [Names -> {"none", "ok", "bad", "skipped"}]
    BY DEF CodexInv, CodexTypes
  <2> QED
    BY <2>1, <2>2 DEF CodexInv, CodexStory
<1>3. CASE CodexHas(last, "skipped")
  <2>1. ~Unconditional(plan[last]) /\ codexOutcomes[plan[last].when.target] # "bad"
    BY <1>1, <1>3 DEF CodexInv, CodexStory
  <2>2. last # 1
    BY <1>0, <2>1, FirstIsUnconditional
  <2>3. codexFinal \in DOMAIN plan /\ codexFinal = last - 1 /\ codexFinal < last
    BY <1>1, <1>3, <2>2
  <2>4. ~CodexHas(codexFinal, "skipped")
    BY <1>0, <1>1, <2>3 DEF Accepted, CodexInv, CodexStory
  \* Only the last step waits for a failure, and it waited in vain.
  <2>5. ~CodexHas(codexFinal, "bad")
    <3>1. SUFFICES ASSUME CodexHas(codexFinal, "bad")
                   PROVE  FALSE
      OBVIOUS
    <3>2. Tolerant(plan[codexFinal])
      BY <2>3, <3>1, TolerantIsGuarded DEF CodexInv, CodexStory
    <3>3. PICK k \in DOMAIN plan : WaitsForFailureOf(plan[k], plan[codexFinal].name)
      BY <3>2 DEF Tolerant
    <3>4. codexFinal < k
      BY <2>3, <3>3, StagedFacts
    <3>5. k = last
      <4>1. k \in 1 .. last /\ last - 1 < k
        BY <1>1, <2>3, <3>4
      <4> QED
        BY <4>1
    <3> QED
      BY <2>1, <3>1, <3>3, <3>5 DEF WaitsForFailureOf, CodexHas
  <2>6. CodexHas(codexFinal, "ok")
    BY <1>2, <2>3, <2>4, <2>5 DEF CodexHas
  <2> QED
    BY <1>0, <1>1, <1>3, <2>3, <2>6 DEF CodexInv, CodexLatest
<1>4. CASE ~CodexHas(last, "skipped")
  <2>1. codexFinal = last /\ last > 0
    BY <1>1, <1>4
  <2>2. ~CodexHas(last, "bad")
    <3>1. SUFFICES ASSUME CodexHas(last, "bad")
                   PROVE  FALSE
      OBVIOUS
    <3>2. Tolerant(plan[last])
      BY <1>1, <3>1, TolerantIsGuarded DEF CodexInv, CodexStory
    <3>3. PICK k \in DOMAIN plan : WaitsForFailureOf(plan[k], plan[last].name)
      BY <3>2 DEF Tolerant
    <3>4. last < k /\ k \in 1 .. last
      BY <1>1, <3>3, StagedFacts
    <3> QED
      BY <3>4
  <2>3. CodexHas(last, "ok")
    BY <1>1, <1>2, <1>4, <2>2 DEF CodexHas
  <2> QED
    BY <1>0, <1>1, <1>4, <2>1, <2>3 DEF CodexInv, CodexLatest
<1> QED
  BY <1>0, <1>3, <1>4

\* Both back-ends read the guards alike: as long as they get the same answers they
\* decide alike and end alike, with the text of one step; and the Codex engine returns
\* text and value of one step, and hands on nothing of a skipped one (turn_run.ts,
\* step_engine.ts).  One attempt at a repair is what the staged executor has
\* (DEFAULT_MAX_REPAIR_ATTEMPTS): with a second one it goes on where Codex gives up.
THEOREM EnginesKeepFaith ==
    ASSUME MaxRepairAttempts = 1
    PROVE  EnginesSpec => []CodexRunIsSound
<1>1. StagedInv /\ RunInv /\ EnginesInv => CodexRunIsSound
  <2> SUFFICES ASSUME StagedInv, RunInv, EnginesInv
               PROVE  CodexRunIsSound
    OBVIOUS
  <2>f. /\ DOMAIN plan = 1 .. Len(plan) /\ Len(plan) \in Nat
        /\ \A j \in DOMAIN plan : plan[j].name \in Names
        /\ outcomes \in [Names -> {"none", "success", "failure"}]
        /\ codexOutcomes \in [Names -> {"none", "ok", "bad", "skipped"}]
        /\ CodexInv /\ SameStory
    BY StagedFacts DEF StagedInv, StagedTypeOK, EnginesInv, CodexInv, CodexTypes
  <2>1. Codex!ResultIsTheLastStep
    <3> SUFFICES ASSUME codexPhase = "done"
                 PROVE  /\ codexFinal = codexValue
                        /\ codexFinal \in DOMAIN plan /\ codexOutcomes[plan[codexFinal].name] = "ok"
                        /\ \A j \in DOMAIN plan : Codex!Ran(j) => j <= codexFinal
      BY DEF Codex!ResultIsTheLastStep
    <3>1. ASSUME NEW j \in DOMAIN plan, Codex!Ran(j)
          PROVE  j <= codexFinal
      <4>1. codexFinal = IF CodexHas(Len(plan), "skipped") THEN Len(plan) - 1 ELSE Len(plan)
        BY <2>f, CodexEndsWell
      <4>2. CodexHas(Len(plan), "skipped") => j # Len(plan)
        BY <3>1 DEF Codex!Ran, CodexHas
      <4>3. j \in 1 .. Len(plan) /\ Len(plan) \in Nat
        BY <2>f
      <4> QED
        BY <4>1, <4>2, <4>3
    <3> QED
      BY <2>f, <3>1, CodexEndsWell DEF CodexHas
  <2>2. Codex!NothingFromASkippedStep
    <3> SUFFICES ASSUME NEW i \in DOMAIN plan, NEW j \in DOMAIN plan, codexOutcomes[plan[i].name] = "skipped",
                        plan[i].produces \in plan[j].consumes
                 PROVE  FALSE
      BY DEF Codex!NothingFromASkippedStep
    <3>1. Accepted /\ ~Unconditional(plan[i])
      BY <2>f DEF CodexInv, CodexStory, CodexTypes, CodexHas
    <3>2. i = Len(plan) /\ plan[i].produces # Nothing
      BY <3>1, LastIsNotAwaited DEF Accepted
    <3>3. PICK p \in 1 .. j - 1 : plan[p].produces = plan[i].produces
      BY DEF StagedInv, WellFormed, EarlierProducer
    <3>4. p \in DOMAIN plan /\ p < i
      BY <2>f, <3>2
    <3> QED
      BY <3>2, <3>3, <3>4 DEF StagedInv, WellFormed
  <2>3. EnginesAgree
    <3> SUFFICES ASSUME followed = "both", codexPhase \in {"running", "done", "failed"}
                 PROVE  /\ phase = codexPhase
                        /\ at = codexAt
                        /\ phase = "running" /\ at \in DOMAIN plan =>
                             (Decision(at) = "skip" <=> ~Codex!ShouldRunStep(plan[at]))
                        /\ phase = "done" => final = codexFinal
      BY DEF EnginesAgree
    <3>1. /\ phase = codexPhase /\ at = codexAt /\ Accepted
          /\ phase # "failed" => \A n \in Names : /\ outcomes[n] = "success" <=> codexOutcomes[n] = "ok"
                                                  /\ outcomes[n] = "failure" <=> codexOutcomes[n] = "bad"
      BY <2>f DEF SameStory, CodexInv, CodexStory
    <3>2. ASSUME phase = "running", at \in DOMAIN plan
          PROVE  Decision(at) = "skip" <=> ~Codex!ShouldRunStep(plan[at])
      <4>1. CASE Unconditional(plan[at])
        BY <4>1 DEF Unconditional, Decision, Codex!ShouldRunStep
      <4>2. CASE ~Unconditional(plan[at])
        <5>1. plan[at].when.guard = "on_failure"
          BY <3>1, <3>2, <4>2, LastIsNotAwaited
        <5>2. EarlierStep(plan, at, plan[at].when.target)
          BY <3>2, <5>1 DEF StagedInv, WellFormed
        <5>3. plan[at].when.target \in Names
          BY <2>f, <3>2, <5>2 DEF EarlierStep
        <5>4. outcomes[plan[at].when.target] = "failure" <=> codexOutcomes[plan[at].when.target] = "bad"
          BY <3>1, <3>2, <5>3
        <5>5. Decision(at) = "skip" <=> outcomes[plan[at].when.target] # "failure"
          BY <4>2, <5>1 DEF Decision, EvaluateGuard
        <5> QED
          BY <5>1, <5>4, <5>5 DEF Codex!ShouldRunStep
      <4> QED
        BY <4>1, <4>2
    <3>3. ASSUME phase = "done"
          PROVE  final = codexFinal
      <4>1. /\ codexFinal \in DOMAIN plan /\ CodexHas(codexFinal, "ok")
            /\ codexFinal = IF CodexHas(Len(plan), "skipped") THEN Len(plan) - 1 ELSE Len(plan)
        BY <2>f, <3>1, <3>3, CodexEndsWell
      <4>2. Ran(codexFinal)
        BY <2>f, <3>1, <3>3, <4>1 DEF CodexHas, Ran
      <4>3. FinalTextIsTheLastStep
        BY DoneIsTheLastStep
      <4>4. final \in DOMAIN plan /\ Ran(final) /\ codexFinal <= final
        BY <3>3, <4>2, <4>1, <4>3 DEF FinalTextIsTheLastStep
      <4>5. CodexHas(Len(plan), "skipped") => final # Len(plan)
        <5>1. CASE final = Len(plan) /\ CodexHas(Len(plan), "skipped")
          BY <2>f, <3>1, <3>3, <4>4, <5>1 DEF CodexHas, Ran
        <5> QED
          BY <5>1
      <4> QED
        BY <2>f, <4>1, <4>4, <4>5
    <3> QED
      BY <3>1, <3>2, <3>3
  <2> QED
    BY <2>1, <2>2, <2>3 DEF CodexRunIsSound
<1> QED
  BY <1>1, EnginesInvariant, PTL
=================================================================================
