--------------------------- MODULE WorkflowProofs ---------------------------
(***************************************************************************)
(* Proofs about the parts that start and drive work: the EventBridge rule,  *)
(* the Step Functions service and its interpreter, and the ECS task.        *)
(***************************************************************************)
EXTENDS EventBridge, StepFunctions, ECSTask, Interpreter, FiniteSetTheorems,
        WellFoundedInduction, TLAPS

(***************************************************************************)
(* THE EVENTBRIDGE RULE                                                    *)
(***************************************************************************)
RuleStates == {"NONE", "ENABLED", "DISABLED"}
Schedules == Intervals \cup {0}
RuleRecord == [state : RuleStates, interval : Schedules, anchor : Int, next : Int,
               targets : SUBSET Targets, result : {"none", "OK", "ERROR"}]
FireRecord == [pc : {"idle", "due", "target", "running"}, copy : RuleRecord,
               todo : SUBSET Targets, slot : BOOLEAN, failed : BOOLEAN,
               scheduled : BOOLEAN, started : Int]

RuleTypeOK ==
  /\ rule \in RuleRecord
  /\ wanted \in [state : RuleStates, targets : SUBSET Targets]
  /\ minute \in Int /\ lastMinute \in Int /\ nedits \in Int
  /\ fire \in [Firers -> FireRecord]
  /\ jobs \in Seq(RuleRecord)
  /\ slots \in Int

(* The fires that hold an ECS slot are the ones inside RunTask. *)
Holders == {f \in Firers : fire[f].pc = "running"}
SlotsExact ==
  /\ \A f \in Firers : fire[f].slot <=> fire[f].pc = "running"
  /\ slots = Cardinality(Holders)
  /\ slots <= EcsLimit

LEMMA SchedulesType == Schedules \subseteq Int /\ \A i \in Schedules : i # 0 => i \in Intervals /\ i > 0
BY EventBridgeAssumption DEF Schedules

LEMMA NextRateRunType ==
  ASSUME NEW interval \in Intervals, NEW anchor \in Int, NEW after \in Int
  PROVE  nextRateRun(interval, anchor, after) \in Int
<1>1. interval \in Int /\ interval > 0
  BY EventBridgeAssumption
<1>2. (after - anchor) \div interval \in Int
  BY <1>1
<1>3. ((after - anchor) \div interval + 1) * interval \in Int
  BY <1>1, <1>2
<1> QED BY <1>3 DEF nextRateRun

LEMMA NoRuleType == NoRule \in RuleRecord /\ NoFire \in FireRecord
<1>1. NoRule \in RuleRecord
  BY DEF NoRule, RuleRecord, RuleStates, Schedules
<1> QED BY <1>1 DEF NoFire, FireRecord

(* What a call stores is what it meant to store. *)
LEMMA SavedRuleKeeps ==
  ASSUME NEW new \in RuleRecord, SavedRule(new), EditFrame, RuleTypeOK, nedits' \in Int,
         new.state # "ENABLED" => new.next = -1
  PROVE  RuleTypeOK' /\ StateAndTargetsKept'
<1>1. rule' = new /\ wanted' = [state |-> new.state, targets |-> new.targets]
  BY DEF SavedRule
<1>2. new.state \in RuleStates /\ new.targets \in SUBSET Targets
  BY DEF RuleRecord
<1>3. wanted' \in [state : RuleStates, targets : SUBSET Targets]
  BY <1>1, <1>2
<1>4. wanted'.state = new.state /\ wanted'.targets = new.targets
  BY <1>1
<1>5. RuleTypeOK'
  BY <1>1, <1>3 DEF RuleTypeOK, EditFrame
<1> QED BY <1>1, <1>4, <1>5 DEF StateAndTargetsKept

LEMMA EditKeepsRule ==
  ASSUME RuleTypeOK, StateAndTargetsKept,
         \/ \E state \in {"ENABLED", "DISABLED"} :
              setRuleState(state) \/ \E i \in Intervals \cup {0} : PutRule(i, state)
         \/ \E force \in BOOLEAN : DeleteRule(force)
         \/ \E ids \in (SUBSET Targets) \ {{}} : PutTargets(ids) \/ RemoveTargets(ids)
  PROVE  RuleTypeOK' /\ StateAndTargetsKept' /\ UNCHANGED <<fire, slots>>
<1>0. ASSUME Edit PROVE nedits' \in Int
  BY <1>0 DEF Edit, RuleTypeOK
<1>a. rule \in RuleRecord /\ minute \in Int
  BY DEF RuleTypeOK
<1>b. rule.interval \in Schedules /\ rule.anchor \in Int /\ rule.targets \in SUBSET Targets
  BY <1>a DEF RuleRecord
<1>1. ASSUME NEW state \in {"ENABLED", "DISABLED"}, setRuleState(state)
      PROVE  RuleTypeOK' /\ StateAndTargetsKept'
  <2>1. CASE state = "ENABLED"
    <3> DEFINE new == [rule EXCEPT !.state = state,
                                   !.next = nextRateRun(rule.interval, rule.anchor, minute)]
    <3>1. rule.interval \in Intervals
      BY <1>1, <1>b, <2>1, SchedulesType DEF setRuleState
    <3>2. nextRateRun(rule.interval, rule.anchor, minute) \in Int
      BY <3>1, <1>a, <1>b, NextRateRunType
    <3>3. new \in RuleRecord /\ new.state = "ENABLED"
      BY <3>2, <1>a, <2>1 DEF RuleRecord, RuleStates
    <3>4. SavedRule(new) /\ EditFrame /\ Edit
      BY <1>1, <2>1 DEF setRuleState
    <3> HIDE DEF new
    <3> QED BY <3>3, <3>4, <1>0, SavedRuleKeeps
  <2>2. CASE state # "ENABLED"
    <3> DEFINE new == [rule EXCEPT !.state = state, !.next = -1]
    <3>a. state \in RuleStates /\ -1 \in Int
      BY DEF RuleStates
    <3>1. new \in RuleRecord /\ new.next = -1
      BY <1>a, <3>a DEF RuleRecord
    <3>2. SavedRule(new) /\ EditFrame /\ Edit
      BY <1>1, <2>2 DEF setRuleState
    <3> HIDE DEF new
    <3> QED BY <3>1, <3>2, <1>0, SavedRuleKeeps
  <2> QED BY <2>1, <2>2
<1>2. ASSUME NEW state \in {"ENABLED", "DISABLED"}, NEW i \in Intervals \cup {0}, PutRule(i, state)
      PROVE  RuleTypeOK' /\ StateAndTargetsKept'
  <2> DEFINE anchor == IF i = 0 THEN 0
                       ELSE IF RuleExists /\ rule.interval = i THEN rule.anchor ELSE minute
             next == IF i # 0 /\ state = "ENABLED" THEN nextRateRun(i, anchor, minute) ELSE -1
             new == [rule EXCEPT !.state = state, !.interval = i, !.anchor = anchor, !.next = next]
  <2>1. anchor \in Int
    BY <1>a, <1>b
  <2>2. SavedRule(new) /\ EditFrame /\ Edit
    BY <1>2 DEF PutRule
  <2> HIDE DEF anchor
  <2>3. next \in Int /\ (state # "ENABLED" => next = -1)
    BY <2>1, <1>a, NextRateRunType
  <2> HIDE DEF next
  <2>4. new \in RuleRecord /\ new.state = state /\ new.next = next
    BY <2>1, <2>3, <1>a DEF RuleRecord, RuleStates, Schedules
  <2> HIDE DEF new
  <2> QED BY <2>2, <2>3, <2>4, <1>0, SavedRuleKeeps
<1>3. ASSUME NEW force \in BOOLEAN, DeleteRule(force) PROVE RuleTypeOK' /\ StateAndTargetsKept'
  <2>1. NoRule.next = -1
    BY DEF NoRule
  <2> QED BY <1>0, <1>3, <2>1, NoRuleType, SavedRuleKeeps DEF DeleteRule
<1>4. ASSUME NEW ids \in (SUBSET Targets) \ {{}}, PutTargets(ids) \/ RemoveTargets(ids)
      PROVE  RuleTypeOK' /\ StateAndTargetsKept'
  <2>1. PICK targets \in SUBSET Targets :
           SavedRule([rule EXCEPT !.targets = targets]) /\ EditFrame /\ Edit
    <3>1. CASE PutTargets(ids)
      <4>1. [rule EXCEPT !.targets = @ \cup ids] = [rule EXCEPT !.targets = rule.targets \cup ids]
        BY <1>a
      <4> QED BY <3>1, <4>1, <1>b DEF PutTargets
    <3>2. CASE RemoveTargets(ids)
      BY <3>2, <1>b DEF RemoveTargets
    <3> QED BY <1>4, <3>1, <3>2
  <2> DEFINE new == [rule EXCEPT !.targets = targets]
  <2>2. new \in RuleRecord /\ new.state = rule.state /\ new.next = rule.next
    BY <1>a DEF RuleRecord
  <2>3. SavedRule(new) /\ EditFrame /\ Edit
    BY <2>1
  <2> HIDE DEF new
  <2> QED BY <2>2, <2>3, <1>0, SavedRuleKeeps DEF StateAndTargetsKept
<1>5. UNCHANGED <<fire, slots>>
  BY DEF setRuleState, PutRule, DeleteRule, PutTargets, RemoveTargets, EditFrame
<1> QED BY <1>1, <1>2, <1>3, <1>4, <1>5

LEMMA HoldersFinite == IsFiniteSet(Firers) /\ IsFiniteSet(Holders) /\ Cardinality(Holders) \in Nat
<1>1. IsFiniteSet(Firers)
  BY EventBridgeAssumption, FS_AddElement DEF Firers
<1>2. IsFiniteSet(Holders)
  BY <1>1, FS_Subset DEF Holders
<1> QED BY <1>1, <1>2, FS_CardinalityType

(* A fire that changes while it is outside RunTask moves no slot. *)
LEMMA FireStep ==
  ASSUME RuleTypeOK, SlotsExact, NEW f \in Firers, NEW g \in FireRecord,
         fire[f].pc # "running", g.pc # "running", ~g.slot,
         fire' = [fire EXCEPT ![f] = g], UNCHANGED slots
  PROVE  fire' \in [Firers -> FireRecord] /\ SlotsExact'
<1>1. fire' \in [Firers -> FireRecord]
  BY DEF RuleTypeOK
<1>2. \A h \in Firers : fire'[h] = IF h = f THEN g ELSE fire[h]
  BY DEF RuleTypeOK
<1>3. Holders' = Holders
  BY <1>2 DEF Holders
<1>4. \A h \in Firers : fire'[h].slot <=> fire'[h].pc = "running"
  BY <1>2, Zenon DEF SlotsExact
<1> QED BY <1>1, <1>3, <1>4 DEF SlotsExact

LEMMA BeginFireStep ==
  ASSUME RuleTypeOK, SlotsExact, NEW f \in Firers, fire[f].pc # "running",
         NEW copy \in RuleRecord, NEW scheduled \in BOOLEAN, BeginFire(f, copy, scheduled),
         UNCHANGED slots
  PROVE  fire' \in [Firers -> FireRecord] /\ SlotsExact'
<1> DEFINE g == [NoFire EXCEPT !.pc = "target", !.copy = copy, !.todo = copy.targets,
                               !.scheduled = scheduled, !.started = minute]
<1>1. copy.targets \in SUBSET Targets /\ minute \in Int
  BY DEF RuleRecord, RuleTypeOK
<1>2. g \in FireRecord
  BY <1>1, NoRuleType DEF FireRecord
<1>3. g.pc = "target" /\ g.slot = FALSE
  BY DEF NoFire
<1>4. fire' = [fire EXCEPT ![f] = g]
  BY DEF BeginFire
<1> HIDE DEF g
<1> QED BY <1>2, <1>3, <1>4, FireStep

LEMMA NoFireStep ==
  ASSUME RuleTypeOK, SlotsExact, NEW f \in Firers, fire[f].pc # "running",
         fire' = [fire EXCEPT ![f] = NoFire], UNCHANGED slots
  PROVE  fire' \in [Firers -> FireRecord] /\ SlotsExact'
<1>1. NoFire.pc = "idle" /\ NoFire.slot = FALSE
  BY DEF NoFire
<1> QED BY <1>1, NoRuleType, FireStep

(* One step of the scheduler, of a worker, or of the clock. *)
LEMMA FiresKeepRule ==
  ASSUME RuleTypeOK, StateAndTargetsKept, SlotsExact,
         \/ Tick \/ executeDueRules \/ fireRule \/ PutEvents
         \/ \E w \in Workers : FireRuleNow(w) \/ dispatchEvent(w)
         \/ \E f \in Firers : dispatchLambdaTarget(f) \/ saveRuleRunMetadata(f)
  PROVE  RuleTypeOK' /\ StateAndTargetsKept' /\ SlotsExact'
<1>t. rule \in RuleRecord /\ minute \in Int /\ lastMinute \in Int /\ nedits \in Int
      /\ jobs \in Seq(RuleRecord) /\ fire \in [Firers -> FireRecord]
  BY DEF RuleTypeOK
<1>s. Scheduler \in Firers /\ Workers \subseteq Firers
  BY DEF Firers
<1>1. CASE Tick
  <2>1. minute' \in Int /\ UNCHANGED <<rule, wanted, lastMinute, fire, jobs, slots, nedits>>
    BY <1>1, <1>t DEF Tick, FireFrame
  <2> QED BY <2>1 DEF RuleTypeOK, StateAndTargetsKept, SlotsExact, Holders
<1>2. CASE executeDueRules
  <2>1. lastMinute' \in Int /\ UNCHANGED <<rule, wanted, minute, jobs, slots, nedits>>
    BY <1>2, <1>t DEF executeDueRules, FireFrame
  <2>2. fire' \in [Firers -> FireRecord] /\ SlotsExact'
    <3>1. CASE fire' = fire
      BY <3>1, <2>1, <1>t DEF SlotsExact, Holders
    <3>2. CASE fire' = [fire EXCEPT ![Scheduler].pc = "due"]
      <4> DEFINE g == [fire[Scheduler] EXCEPT !.pc = "due"]
      <4>1. g \in FireRecord /\ g.pc = "due" /\ g.slot = fire[Scheduler].slot
        BY <1>t, <1>s DEF FireRecord
      <4>2. fire[Scheduler].pc = "idle" /\ ~fire[Scheduler].slot
        BY <1>2, <1>s DEF executeDueRules, SlotsExact
      <4>3. fire' = [fire EXCEPT ![Scheduler] = g]
        BY <3>2
      <4> HIDE DEF g
      <4> QED BY <4>1, <4>2, <4>3, <2>1, <1>s, FireStep
    <3> QED BY <1>2, <3>1, <3>2 DEF executeDueRules
  <2> QED BY <2>1, <2>2 DEF RuleTypeOK, StateAndTargetsKept
<1>3. CASE fireRule
  <2>1. UNCHANGED <<rule, wanted, minute, lastMinute, jobs, slots, nedits>> /\ fire[Scheduler].pc = "due"
    BY <1>3 DEF fireRule, FireFrame
  <2>2. fire' \in [Firers -> FireRecord] /\ SlotsExact'
    BY <1>3, <2>1, <1>t, <1>s, BeginFireStep, NoFireStep DEF fireRule
  <2> QED BY <2>1, <2>2 DEF RuleTypeOK, StateAndTargetsKept
<1>4. CASE PutEvents
  <2>1. UNCHANGED <<rule, wanted, minute, lastMinute, fire, slots>> /\ nedits' = nedits + 1
    BY <1>4 DEF PutEvents, Edit
  <2>2. jobs' \in Seq(RuleRecord)
    BY <1>4, <1>t DEF PutEvents
  <2> QED BY <2>1, <2>2, <1>t DEF RuleTypeOK, StateAndTargetsKept, SlotsExact, Holders
<1>5. ASSUME NEW w \in Workers, FireRuleNow(w) PROVE RuleTypeOK' /\ StateAndTargetsKept' /\ SlotsExact'
  <2>1. UNCHANGED <<rule, wanted, minute, lastMinute, jobs, slots>> /\ nedits' = nedits + 1
        /\ fire[w].pc = "idle" /\ BeginFire(w, rule, FALSE)
    BY <1>5 DEF FireRuleNow, Edit
  <2>2. fire' \in [Firers -> FireRecord] /\ SlotsExact'
    BY <2>1, <1>t, <1>s, BeginFireStep
  <2> QED BY <2>1, <2>2, <1>t DEF RuleTypeOK, StateAndTargetsKept
<1>6. ASSUME NEW w \in Workers, dispatchEvent(w) PROVE RuleTypeOK' /\ StateAndTargetsKept' /\ SlotsExact'
  <2>1. UNCHANGED <<rule, wanted, minute, lastMinute, slots, nedits>> /\ jobs # <<>>
        /\ fire[w].pc = "idle" /\ jobs' = Tail(jobs)
    BY <1>6 DEF dispatchEvent, FireFrame
  <2>2. Head(jobs) \in RuleRecord /\ jobs' \in Seq(RuleRecord)
    BY <2>1, <1>t
  <2>3. fire' \in [Firers -> FireRecord] /\ SlotsExact'
    <3>1. CASE BeginFire(w, Head(jobs), FALSE)
      BY <3>1, <2>1, <2>2, <1>s, BeginFireStep
    <3>2. CASE UNCHANGED fire
      BY <3>2, <2>1, <1>t DEF SlotsExact, Holders
    <3> QED BY <1>6, <3>1, <3>2 DEF dispatchEvent
  <2> QED BY <2>1, <2>2, <2>3 DEF RuleTypeOK, StateAndTargetsKept
<1>7. ASSUME NEW f \in Firers, dispatchLambdaTarget(f) PROVE RuleTypeOK' /\ StateAndTargetsKept' /\ SlotsExact'
  <2>1. UNCHANGED <<rule, wanted, minute, lastMinute, jobs, slots, nedits>> /\ fire[f].pc = "target"
    BY <1>7 DEF dispatchLambdaTarget, FireFrame
  <2>2. PICK t \in fire[f].todo \ EcsTargets, failed \in BOOLEAN :
           fire' = [fire EXCEPT ![f].todo = @ \ {t}, ![f].failed = @ \/ failed]
    BY <1>7 DEF dispatchLambdaTarget
  <2> DEFINE g == [fire[f] EXCEPT !.todo = @ \ {t}, !.failed = @ \/ failed]
  <2>3. g \in FireRecord /\ g.pc = "target" /\ g.slot = fire[f].slot
    BY <1>t, <2>1 DEF FireRecord
  <2>4. fire' = [fire EXCEPT ![f] = g]
    BY <2>2
  <2>5. ~fire[f].slot
    BY <2>1 DEF SlotsExact
  <2> HIDE DEF g
  <2>6. fire' \in [Firers -> FireRecord] /\ SlotsExact'
    BY <2>1, <2>3, <2>4, <2>5, FireStep
  <2> QED BY <2>1, <2>6 DEF RuleTypeOK, StateAndTargetsKept
<1>8. ASSUME NEW f \in Firers, saveRuleRunMetadata(f) PROVE RuleTypeOK' /\ StateAndTargetsKept' /\ SlotsExact'
  <2>1. UNCHANGED <<wanted, minute, lastMinute, jobs, slots, nedits>> /\ fire[f].pc = "target"
        /\ fire' = [fire EXCEPT ![f] = NoFire]
    BY <1>8 DEF saveRuleRunMetadata, FireFrame
  <2>2. fire' \in [Firers -> FireRecord] /\ SlotsExact'
    BY <2>1, NoFireStep
  <2>3. rule' \in RuleRecord /\ rule'.state = rule.state /\ rule'.targets = rule.targets
        /\ (rule.state # "ENABLED" => rule'.next = rule.next)
    <3>1. CASE ~RuleExists
      BY <1>8, <3>1, <1>t DEF saveRuleRunMetadata
    <3>2. CASE RuleExists
      <4> DEFINE result == Result(fire[f])
                 next == IF fire[f].scheduled /\ rule.state = "ENABLED" THEN NextRun(fire[f])
                         ELSE rule.next
      <4>1. result \in {"none", "OK", "ERROR"}
        BY DEF Result
      <4>2. fire[f].copy \in RuleRecord /\ fire[f].started \in Int
        BY <1>t DEF FireRecord
      <4>3. NextRun(fire[f]) \in Int
        <5>1. fire[f].copy.interval \in Schedules /\ fire[f].copy.anchor \in Int
              /\ fire[f].copy.next \in Int
          BY <4>2 DEF RuleRecord
        <5> QED BY <5>1, <4>2, SchedulesType, NextRateRunType DEF NextRun
      <4>4. next \in Int /\ (rule.state # "ENABLED" => next = rule.next)
        BY <4>3, <1>t DEF RuleRecord
      <4>5. rule' = [rule EXCEPT !.result = result, !.next = next]
        BY <1>8, <3>2 DEF saveRuleRunMetadata
      <4> HIDE DEF result, next
      <4> QED BY <4>1, <4>4, <4>5, <1>t DEF RuleRecord
    <3> QED BY <3>1, <3>2
  <2> QED BY <2>1, <2>2, <2>3 DEF RuleTypeOK, StateAndTargetsKept
<1> QED BY <1>1, <1>2, <1>3, <1>4, <1>5, <1>6, <1>7, <1>8

LEMMA SlotsKeepRule ==
  ASSUME RuleTypeOK, StateAndTargetsKept, SlotsExact, NEW f \in Firers,
         acquireECSRuleSlot(f) \/ releaseECSRuleSlot(f)
  PROVE  RuleTypeOK' /\ StateAndTargetsKept' /\ SlotsExact'
<1>t. fire \in [Firers -> FireRecord] /\ fire[f] \in FireRecord /\ slots \in Int
  BY DEF RuleTypeOK
<1>h. IsFiniteSet(Holders) /\ Cardinality(Holders) \in Nat
  BY HoldersFinite
<1>u. UNCHANGED <<rule, wanted, minute, lastMinute, jobs, nedits>>
  BY DEF acquireECSRuleSlot, releaseECSRuleSlot, FireFrame
<1>1. CASE acquireECSRuleSlot(f)
  <2>1. PICK t \in fire[f].todo \cap EcsTargets :
          IF slots < EcsLimit
          THEN /\ slots' = slots + 1
               /\ fire' = [fire EXCEPT ![f].pc = "running", ![f].slot = TRUE, ![f].todo = @ \ {t}]
          ELSE /\ fire' = [fire EXCEPT ![f].todo = @ \ {t}, ![f].failed = TRUE]
               /\ UNCHANGED slots
    BY <1>1 DEF acquireECSRuleSlot
  <2>2. fire[f].pc = "target" /\ ~fire[f].slot
    BY <1>1 DEF acquireECSRuleSlot, SlotsExact
  <2>3. CASE slots < EcsLimit
    <3> DEFINE g == [fire[f] EXCEPT !.pc = "running", !.slot = TRUE, !.todo = @ \ {t}]
    <3>1. g \in FireRecord /\ g.pc = "running" /\ g.slot = TRUE
      BY <1>t DEF FireRecord
    <3>2. fire' = [fire EXCEPT ![f] = g] /\ slots' = slots + 1
      BY <2>1, <2>3
    <3> HIDE DEF g
    <3>3. fire' \in [Firers -> FireRecord]
          /\ \A h \in Firers : fire'[h] = IF h = f THEN g ELSE fire[h]
      BY <3>1, <3>2, <1>t
    <3>4. Holders' = Holders \cup {f} /\ f \notin Holders
      BY <3>1, <3>3, <2>2 DEF Holders
    <3>5. Cardinality(Holders') = Cardinality(Holders) + 1
      BY <3>4, <1>h, FS_AddElement
    <3>6. \A h \in Firers : fire'[h].slot <=> fire'[h].pc = "running"
      BY <3>1, <3>3, Zenon DEF SlotsExact
    <3>7. slots' = Cardinality(Holders') /\ slots' <= EcsLimit /\ slots' \in Int
      BY <3>2, <3>5, <2>3, <1>t, EventBridgeAssumption DEF SlotsExact
    <3> QED BY <3>3, <3>6, <3>7, <1>u DEF RuleTypeOK, StateAndTargetsKept, SlotsExact
  <2>4. CASE ~(slots < EcsLimit)
    <3> DEFINE g == [fire[f] EXCEPT !.todo = @ \ {t}, !.failed = TRUE]
    <3>1. g \in FireRecord /\ g.pc = "target" /\ g.slot = fire[f].slot
      BY <1>t, <2>2 DEF FireRecord
    <3>2. fire' = [fire EXCEPT ![f] = g] /\ UNCHANGED slots
      BY <2>1, <2>4
    <3> HIDE DEF g
    <3>3. fire' \in [Firers -> FireRecord] /\ SlotsExact'
      BY <3>1, <3>2, <2>2, FireStep
    <3> QED BY <3>2, <3>3, <1>u DEF RuleTypeOK, StateAndTargetsKept
  <2> QED BY <2>3, <2>4
<1>2. CASE releaseECSRuleSlot(f)
  <2>1. PICK failed \in BOOLEAN :
          fire' = [fire EXCEPT ![f].pc = "target", ![f].slot = FALSE, ![f].failed = @ \/ failed]
    BY <1>2 DEF releaseECSRuleSlot
  <2> DEFINE g == [fire[f] EXCEPT !.pc = "target", !.slot = FALSE, !.failed = @ \/ failed]
  <2>2. g \in FireRecord /\ g.pc = "target" /\ g.slot = FALSE
    BY <1>t DEF FireRecord
  <2>3. fire' = [fire EXCEPT ![f] = g] /\ slots' = slots - 1 /\ fire[f].pc = "running"
    BY <2>1, <1>2 DEF releaseECSRuleSlot
  <2> HIDE DEF g
  <2>4. fire' \in [Firers -> FireRecord]
        /\ \A h \in Firers : fire'[h] = IF h = f THEN g ELSE fire[h]
    BY <2>2, <2>3, <1>t
  <2>5. Holders' = Holders \ {f} /\ f \in Holders
    BY <2>2, <2>3, <2>4 DEF Holders
  <2>6. Cardinality(Holders') = Cardinality(Holders) - 1
    BY <2>5, <1>h, FS_RemoveElement
  <2>7. \A h \in Firers : fire'[h].slot <=> fire'[h].pc = "running"
    BY <2>2, <2>4, Zenon DEF SlotsExact
  <2>8. slots' = Cardinality(Holders') /\ slots' <= EcsLimit /\ slots' \in Int
    BY <2>3, <2>6, <1>t, EventBridgeAssumption DEF SlotsExact
  <2> QED BY <2>4, <2>7, <2>8, <1>u DEF RuleTypeOK, StateAndTargetsKept, SlotsExact
<1> QED BY <1>1, <1>2

LEMMA RuleInvariant == RuleSpec => [](RuleTypeOK /\ StateAndTargetsKept /\ SlotsExact)
<1>1. RuleInit => RuleTypeOK /\ StateAndTargetsKept /\ SlotsExact
  <2> SUFFICES ASSUME RuleInit PROVE RuleTypeOK /\ StateAndTargetsKept /\ SlotsExact
    OBVIOUS
  <2> USE DEF RuleInit
  <2>1. RuleTypeOK
    BY NoRuleType DEF RuleTypeOK, RuleStates
  <2>2. StateAndTargetsKept
    BY DEF StateAndTargetsKept, NoRule
  <2>3. \A f \in Firers : fire[f].slot = FALSE /\ fire[f].pc = "idle"
    BY DEF NoFire
  <2>4. Holders = {}
    BY <2>3 DEF Holders
  <2> QED BY <2>1, <2>2, <2>3, <2>4, FS_EmptySet, EventBridgeAssumption DEF SlotsExact
<1>2. RuleTypeOK /\ StateAndTargetsKept /\ SlotsExact /\ [RuleNext]_ebVars
        => (RuleTypeOK /\ StateAndTargetsKept /\ SlotsExact)'
  <2> SUFFICES ASSUME RuleTypeOK, StateAndTargetsKept, SlotsExact, [RuleNext]_ebVars
               PROVE  (RuleTypeOK /\ StateAndTargetsKept /\ SlotsExact)'
    OBVIOUS
  <2>1. CASE UNCHANGED ebVars
    BY <2>1 DEF ebVars, RuleTypeOK, StateAndTargetsKept, SlotsExact, Holders
  <2>2. CASE \/ \E state \in {"ENABLED", "DISABLED"} :
                  setRuleState(state) \/ \E i \in Intervals \cup {0} : PutRule(i, state)
             \/ \E force \in BOOLEAN : DeleteRule(force)
             \/ \E ids \in (SUBSET Targets) \ {{}} : PutTargets(ids) \/ RemoveTargets(ids)
    <3>1. RuleTypeOK' /\ StateAndTargetsKept' /\ UNCHANGED <<fire, slots>>
      BY <2>2, EditKeepsRule
    <3> QED BY <3>1 DEF SlotsExact, Holders
  <2>3. CASE \/ Tick \/ executeDueRules \/ fireRule \/ PutEvents
             \/ \E w \in Workers : FireRuleNow(w) \/ dispatchEvent(w)
             \/ \E f \in Firers : dispatchLambdaTarget(f) \/ saveRuleRunMetadata(f)
    BY <2>3, FiresKeepRule
  <2>4. CASE \E f \in Firers : acquireECSRuleSlot(f) \/ releaseECSRuleSlot(f)
    BY <2>4, SlotsKeepRule
  <2> QED BY <2>1, <2>2, <2>3, <2>4 DEF RuleNext
<1> QED BY <1>1, <1>2, PTL DEF RuleSpec

(* A rule has the state and the targets of the last call that changed it,     *)
(* however late a fire of an older copy saves its results, and a rule that is  *)
(* not enabled gets no next run from one (saveRuleRunMetadata).  The next run  *)
(* of an enabled rule is not kept: see SchedulesRun.                           *)
THEOREM FiresKeepStateAndTargets == RuleSpec => []StateAndTargetsKept
BY RuleInvariant, PTL

(* The ECS slots of a rule: as many are taken as fires are inside RunTask,    *)
(* and never more than the limit, so that none leaks (acquireECSRuleSlot).    *)
THEOREM SlotsNeverLeak == RuleSpec => []SlotsExact
BY RuleInvariant, PTL

(* The state of the EventBridge model keeps its types.                        *)
THEOREM RuleType == RuleSpec => []RuleTypeOK
BY RuleInvariant, PTL

(***************************************************************************)
(* THE STEP FUNCTIONS SERVICE                                              *)
(***************************************************************************)
MachineRecord == [def : Definitions, tags : SUBSET TagKeys]
MachineTable == [Machines -> MachineRecord \cup {NoMachine}]
ExecutionRecord == [status : Terminal \cup {"RUNNING", "absent"}, born : Nat]
ExecutionTable == [Arns -> ExecutionRecord]
SaveRecord == [op : {"save"}, machine : Machines, sm : MachineRecord]
Driving == {"saved", "running", "executed", "read"}
RunRecord == [pc : {"none", "checked", "stored", "done"} \cup Driving, arn : Arns \cup {NoArn},
              cancelled : BOOLEAN, status : Terminal \cup {"RUNNING"}, born : Nat]

MachinesTypeOK ==
  /\ machines \in MachineTable
  /\ executions \in ExecutionTable
  /\ running \in [Arns -> RunIDs \cup {NoHandle}]
  /\ runs \in [RunIDs -> RunRecord]
  /\ calls \in [Callers -> SaveRecord \cup {Free}]
  /\ disk \in [machines : MachineTable, executions : ExecutionTable]
  /\ stopping \in BOOLEAN
  /\ ncalls \in Nat

(* A run that has started has its ARN, and a run that has ended its status. *)
RunsPlaced ==
  \A r \in RunIDs :
    /\ runs[r].pc \notin {"none", "done"} => runs[r].arn \in Arns
    /\ runs[r].pc \in {"executed", "read"} => runs[r].status \in Terminal

MachinesInv == MachinesTypeOK /\ RunsPlaced /\ RunningIsDriven

LEMMA TerminalEnds == "RUNNING" \notin Terminal /\ "absent" \notin Terminal
BY StepFunctionsAssumption DEF Terminal

LEMMA AbsentType == Absent \in ExecutionRecord /\ Absent.status # "RUNNING"
BY DEF Absent, ExecutionRecord

LEMMA NoRunType == NoRun \in RunRecord /\ NoRun.pc = "none" /\ NoRun.arn = NoArn
BY DEF NoRun, RunRecord

(* Eviction keeps the table's type, and only drops what has ended. *)
LEMMA EvictKeeps ==
  ASSUME NEW exs \in ExecutionTable, NEW m
  PROVE  /\ evictExecutions(exs, m) \in ExecutionTable
         /\ \A a \in Arns : evictExecutions(exs, m)[a] \in {Absent, exs[a]}
<1>1. \A a \in Arns : evictExecutions(exs, m)[a] \in {Absent, exs[a]}
  BY DEF evictExecutions
<1>2. \A a \in Arns : evictExecutions(exs, m)[a] \in ExecutionRecord
  BY <1>1, AbsentType DEF ExecutionTable
<1>3. DOMAIN evictExecutions(exs, m) = Arns /\ evictExecutions(exs, m) = [a \in Arns |-> evictExecutions(exs, m)[a]]
  BY DEF evictExecutions
<1> QED BY <1>1, <1>2, <1>3 DEF ExecutionTable

LEMMA SaveKeeps ==
  ASSUME MachinesTypeOK, NEW a \in Arns, NEW ex \in ExecutionRecord, SaveExecution(a, ex)
  PROVE  /\ executions' \in ExecutionTable
         /\ \A b \in Arns : executions'[b] \in {Absent, IF b = a THEN ex ELSE executions[b]}
<1> DEFINE exs == [executions EXCEPT ![a] = ex]
<1>1. exs \in ExecutionTable /\ \A b \in Arns : exs[b] = IF b = a THEN ex ELSE executions[b]
  BY DEF MachinesTypeOK, ExecutionTable
<1>2. executions' = evictExecutions(exs, a[1])
  BY DEF SaveExecution
<1> HIDE DEF exs
<1>3. /\ executions' \in ExecutionTable
      /\ \A b \in Arns : executions'[b] \in {Absent, exs[b]}
  BY <1>1, <1>2, EvictKeeps
<1> QED BY <1>1, <1>3

LEMMA RunStep ==
  ASSUME MachinesTypeOK, NEW r \in RunIDs, NEW g \in RunRecord, SetRun(r, g)
  PROVE  /\ runs' \in [RunIDs -> RunRecord]
         /\ \A q \in RunIDs : runs'[q] = IF q = r THEN g ELSE runs[q]
BY DEF MachinesTypeOK, SetRun

LEMMA PcStep ==
  ASSUME MachinesTypeOK, NEW r \in RunIDs, NEW pc \in Driving \cup {"stored"}, SetPc(r, pc)
  PROVE  /\ runs' \in [RunIDs -> RunRecord]
         /\ \A q \in RunIDs \ {r} : runs'[q] = runs[q]
         /\ runs'[r].pc = pc /\ runs'[r].arn = runs[r].arn /\ runs'[r].status = runs[r].status
<1> DEFINE g == [runs[r] EXCEPT !.pc = pc]
<1>1. g \in RunRecord /\ g.pc = pc /\ g.arn = runs[r].arn /\ g.status = runs[r].status
  BY DEF MachinesTypeOK, RunRecord
<1>2. runs' = [runs EXCEPT ![r] = g]
  BY DEF SetPc
<1> HIDE DEF g
<1> QED BY <1>1, <1>2 DEF MachinesTypeOK

(* What keeps every RUNNING record driven: a step creates one only together  *)
(* with its driver, and takes a driver away only from a record that is not    *)
(* RUNNING any more.                                                          *)
LEMMA StaysDriven ==
  ASSUME RunningIsDriven,
         \A a \in Arns : executions'[a].status = "RUNNING" =>
            \/ /\ executions[a].status = "RUNNING"
               /\ \A r \in RunIDs : runs[r].pc \in Driving /\ runs[r].arn = a =>
                     runs'[r].pc \in Driving /\ runs'[r].arn = a
            \/ \E r \in RunIDs : runs'[r].pc \in Driving /\ runs'[r].arn = a
  PROVE  RunningIsDriven'
BY DEF RunningIsDriven, Driving

(* The control plane and the snapshot leave the runs alone. *)
LEMMA ControlKeeps ==
  ASSUME MachinesInv,
         \/ \E c \in Callers, m \in Machines :
              \/ \E d \in Definitions : CreateStateMachine(c, m, d) \/ UpdateStateMachine(c, m, d)
              \/ \E t \in TagKeys : TagResource(c, m, t) \/ UntagResource(c, m, t)
         \/ \E c \in Callers : SaveCall(c)
         \/ \E m \in Machines : DeleteStateMachine(m)
         \/ StopReturns \/ flushMachines
  PROVE  MachinesInv'
<1> USE DEF MachinesInv
<1>0. ASSUME NEW c \in Callers, NEW m \in Machines, NEW sm \in MachineRecord,
             BeginCall(c, [op |-> "save", machine |-> m, sm |-> sm])
      PROVE  MachinesInv'
  <2>1. [op |-> "save", machine |-> m, sm |-> sm] \in SaveRecord
    BY DEF SaveRecord
  <2>2. calls' \in [Callers -> SaveRecord \cup {Free}] /\ ncalls' \in Nat
    BY <1>0, <2>1 DEF BeginCall, MachinesTypeOK
  <2>3. UNCHANGED <<machines, executions, running, runs, disk, stopping>>
    BY <1>0 DEF BeginCall
  <2> QED BY <2>2, <2>3 DEF MachinesTypeOK, RunsPlaced, RunningIsDriven
<1>a. ASSUME NEW m \in Machines, machines[m] # NoMachine
      PROVE  machines[m] \in MachineRecord
  BY <1>a DEF MachinesTypeOK, MachineTable
<1>1. ASSUME NEW c \in Callers, NEW m \in Machines, NEW d \in Definitions,
             CreateStateMachine(c, m, d)
      PROVE  MachinesInv'
  <2>1. [def |-> d, tags |-> {}] \in MachineRecord
    BY DEF MachineRecord
  <2> QED BY <1>0, <1>1, <2>1 DEF CreateStateMachine
<1>2. ASSUME NEW c \in Callers, NEW m \in Machines, NEW d \in Definitions,
             UpdateStateMachine(c, m, d)
      PROVE  MachinesInv'
  <2>1. [machines[m] EXCEPT !.def = d] \in MachineRecord
    BY <1>2, <1>a DEF UpdateStateMachine, MachineRecord
  <2> QED BY <1>0, <1>2, <2>1 DEF UpdateStateMachine
<1>3. ASSUME NEW c \in Callers, NEW m \in Machines, NEW t \in TagKeys, TagResource(c, m, t)
      PROVE  MachinesInv'
  <2>1. [machines[m] EXCEPT !.tags = @ \cup {t}] \in MachineRecord
    BY <1>3, <1>a DEF TagResource, MachineRecord
  <2> QED BY <1>0, <1>3, <2>1 DEF TagResource
<1>4. ASSUME NEW c \in Callers, NEW m \in Machines, NEW t \in TagKeys, UntagResource(c, m, t)
      PROVE  MachinesInv'
  <2>1. [machines[m] EXCEPT !.tags = @ \ {t}] \in MachineRecord
    BY <1>4, <1>a DEF UntagResource, MachineRecord
  <2> QED BY <1>0, <1>4, <2>1 DEF UntagResource
<1>5. ASSUME NEW c \in Callers, SaveCall(c) PROVE MachinesInv'
  <2>1. calls[c] \in SaveRecord
    BY <1>5 DEF SaveCall, MachinesTypeOK, Free
  <2>2. calls[c].machine \in Machines /\ calls[c].sm \in MachineRecord
    BY <2>1 DEF SaveRecord
  <2>3. machines' \in MachineTable
    BY <1>5, <2>2 DEF SaveCall, SaveStateMachine, MachineTable, MachinesTypeOK
  <2>4. calls' \in [Callers -> SaveRecord \cup {Free}]
    BY <1>5 DEF SaveCall, MachinesTypeOK
  <2>5. UNCHANGED <<executions, running, runs, disk, stopping, ncalls>>
    BY <1>5 DEF SaveCall
  <2> QED BY <2>3, <2>4, <2>5 DEF MachinesTypeOK, RunsPlaced, RunningIsDriven
<1>6. ASSUME NEW m \in Machines, DeleteStateMachine(m) PROVE MachinesInv'
  <2>1. machines' \in MachineTable /\ ncalls' \in Nat
        /\ UNCHANGED <<running, runs, calls, disk, stopping>>
    BY <1>6 DEF DeleteStateMachine, MachinesTypeOK, MachineTable
  <2>2. executions' \in ExecutionTable
    BY <1>6, AbsentType DEF DeleteStateMachine, ExecutionTable, MachinesTypeOK
  <2>3. \A a \in Arns : executions'[a].status = "RUNNING" => executions[a].status = "RUNNING"
    BY <1>6, AbsentType DEF DeleteStateMachine
  <2>4. RunningIsDriven'
    BY <2>1, <2>3, StaysDriven
  <2> QED BY <2>1, <2>2, <2>4 DEF MachinesTypeOK, RunsPlaced
<1>7. CASE StopReturns
  BY <1>7 DEF StopReturns, MachinesTypeOK, RunsPlaced, RunningIsDriven
<1>8. CASE flushMachines
  <2>1. disk' \in [machines : MachineTable, executions : ExecutionTable]
    BY <1>8 DEF flushMachines, MachinesTypeOK
  <2>2. UNCHANGED <<machines, executions, running, runs, calls, stopping, ncalls>>
    BY <1>8 DEF flushMachines
  <2> QED BY <2>1, <2>2 DEF MachinesTypeOK, RunsPlaced, RunningIsDriven
<1> QED BY <1>1, <1>2, <1>3, <1>4, <1>5, <1>6, <1>7, <1>8

(* The steps of StartExecution and of the goroutine it spawns. *)
LEMMA RunsKeep ==
  ASSUME MachinesInv, NEW r \in RunIDs,
         \/ \E m \in Machines, n \in Names : StartExecution(r, m, n)
         \/ SaveRunning(r) \/ Register(r) \/ Execute(r) \/ ReadRecord(r)
         \/ SaveTerminal(r) \/ clearRunning(r)
  PROVE  MachinesInv'
<1> USE DEF MachinesInv
<1>f. UNCHANGED <<machines, calls, disk, stopping, ncalls>>
  BY DEF StartExecution, SaveRunning, Register, Execute, ReadRecord, SaveTerminal, clearRunning,
         RunFrame
<1>t. runs[r] \in RunRecord /\ r \in Nat
  BY StepFunctionsAssumption DEF MachinesTypeOK, RunIDs
<1>1. ASSUME NEW m \in Machines, NEW n \in Names, StartExecution(r, m, n) PROVE MachinesInv'
  <2> DEFINE g == [NoRun EXCEPT !.pc = "checked", !.arn = <<m, n>>]
  <2>1. <<m, n>> \in Arns
    BY DEF Arns
  <2>2. g \in RunRecord /\ g.pc = "checked" /\ g.arn = <<m, n>>
    BY <2>1, NoRunType DEF RunRecord
  <2>3. SetRun(r, g) /\ runs[r] = NoRun /\ UNCHANGED <<executions, running>>
    BY <1>1 DEF StartExecution
  <2> HIDE DEF g
  <2>4. /\ runs' \in [RunIDs -> RunRecord]
        /\ \A q \in RunIDs : runs'[q] = IF q = r THEN g ELSE runs[q]
    BY <2>2, <2>3, RunStep
  <2>5. RunsPlaced'
    BY <2>1, <2>2, <2>4 DEF RunsPlaced
  <2>6. \A q \in RunIDs : runs[q].pc \in Driving => runs'[q] = runs[q]
    BY <2>3, <2>4, NoRunType DEF Driving
  <2>7. RunningIsDriven'
    BY <2>3, <2>6, StaysDriven
  <2> QED BY <1>f, <2>3, <2>4, <2>5, <2>7 DEF MachinesTypeOK
<1>2. CASE SaveRunning(r)
  <2> DEFINE ex == [status |-> "RUNNING", born |-> r]
             a == runs[r].arn
  <2>1. ex \in ExecutionRecord /\ runs[r].pc = "checked" /\ a \in Arns /\ SetPc(r, "saved")
        /\ SaveExecution(a, ex) /\ UNCHANGED running
    BY <1>2, <1>t DEF SaveRunning, ExecutionRecord, RunsPlaced
  <2> HIDE DEF ex
  <2>2. executions' \in ExecutionTable
        /\ \A b \in Arns : executions'[b] \in {Absent, IF b = a THEN ex ELSE executions[b]}
    BY <2>1, SaveKeeps
  <2>3. /\ runs' \in [RunIDs -> RunRecord]
        /\ \A q \in RunIDs \ {r} : runs'[q] = runs[q]
        /\ runs'[r].pc = "saved" /\ runs'[r].arn = a
    BY <2>1, PcStep DEF Driving
  <2>4. RunsPlaced'
    BY <2>1, <2>3 DEF RunsPlaced
  <2>5. \A b \in Arns : executions'[b].status = "RUNNING" => b = a \/ executions[b].status = "RUNNING"
    BY <2>2, AbsentType
  <2>6. \A q \in RunIDs : runs[q].pc \in Driving => runs'[q] = runs[q]
    BY <2>1, <2>3 DEF Driving
  <2>7. runs'[r].pc \in Driving
    BY <2>3 DEF Driving
  <2>8. RunningIsDriven'
    BY <2>3, <2>5, <2>6, <2>7, StaysDriven
  <2> QED BY <1>f, <2>1, <2>2, <2>3, <2>4, <2>8 DEF MachinesTypeOK
<1>3. CASE Register(r)
  <2>1. runs[r].pc = "saved" /\ SetPc(r, "running") /\ UNCHANGED executions
    BY <1>3 DEF Register
  <2>2. /\ runs' \in [RunIDs -> RunRecord]
        /\ \A q \in RunIDs \ {r} : runs'[q] = runs[q]
        /\ runs'[r].pc = "running" /\ runs'[r].arn = runs[r].arn
    BY <2>1, PcStep DEF Driving
  <2>3. running' \in [Arns -> RunIDs \cup {NoHandle}]
    BY <1>3 DEF Register, MachinesTypeOK
  <2>4. RunsPlaced'
    BY <2>1, <2>2 DEF RunsPlaced
  <2>5. \A q \in RunIDs : runs[q].pc \in Driving => runs'[q].pc \in Driving /\ runs'[q].arn = runs[q].arn
    BY <2>2 DEF Driving
  <2>6. RunningIsDriven'
    BY <2>1, <2>5, StaysDriven
  <2> QED BY <1>f, <2>1, <2>2, <2>3, <2>4, <2>6 DEF MachinesTypeOK
<1>4. CASE Execute(r)
  <2>1. PICK status \in Terminal :
           SetRun(r, [runs[r] EXCEPT !.pc = "executed", !.status = status])
    BY <1>4 DEF Execute, Terminal
  <2> DEFINE g == [runs[r] EXCEPT !.pc = "executed", !.status = status]
  <2>2. g \in RunRecord /\ g.pc = "executed" /\ g.arn = runs[r].arn /\ g.status = status
    BY <1>t DEF RunRecord, Driving
  <2>3. SetRun(r, g) /\ runs[r].pc = "running" /\ UNCHANGED <<executions, running>>
    BY <1>4, <2>1 DEF Execute
  <2> HIDE DEF g
  <2>4. /\ runs' \in [RunIDs -> RunRecord]
        /\ \A q \in RunIDs : runs'[q] = IF q = r THEN g ELSE runs[q]
    BY <2>2, <2>3, RunStep
  <2>5. RunsPlaced'
    BY <2>2, <2>3, <2>4 DEF RunsPlaced
  <2>6. \A q \in RunIDs : runs[q].pc \in Driving => runs'[q].pc \in Driving /\ runs'[q].arn = runs[q].arn
    BY <2>2, <2>4 DEF Driving
  <2>7. RunningIsDriven'
    BY <2>3, <2>6, StaysDriven
  <2> QED BY <1>f, <2>3, <2>4, <2>5, <2>7 DEF MachinesTypeOK
<1>5. CASE ReadRecord(r)
  <2> DEFINE ex == executions[runs[r].arn]
             g == IF ex = Absent THEN [runs[r] EXCEPT !.pc = "stored"]
                  ELSE [runs[r] EXCEPT !.pc = "read", !.born = ex.born]
  <2>1. runs[r].pc = "executed" /\ SetRun(r, g) /\ UNCHANGED <<executions, running>>
    BY <1>5 DEF ReadRecord
  <2>2. runs[r].arn \in Arns /\ runs[r].status \in Terminal
    BY <2>1 DEF RunsPlaced
  <2>3. ex.born \in Nat
    BY <2>2 DEF MachinesTypeOK, ExecutionTable, ExecutionRecord
  <2>4. g \in RunRecord /\ g.arn = runs[r].arn /\ g.status = runs[r].status
        /\ g.pc = IF ex = Absent THEN "stored" ELSE "read"
    BY <2>3, <1>t DEF RunRecord, Driving
  <2> HIDE DEF g
  <2>5. /\ runs' \in [RunIDs -> RunRecord]
        /\ \A q \in RunIDs : runs'[q] = IF q = r THEN g ELSE runs[q]
    BY <2>1, <2>4, RunStep
  <2>6. RunsPlaced'
    BY <2>1, <2>2, <2>4, <2>5 DEF RunsPlaced
  <2>7. \A a \in Arns : executions[a].status = "RUNNING" =>
          \A q \in RunIDs : runs[q].pc \in Driving /\ runs[q].arn = a =>
             runs'[q].pc \in Driving /\ runs'[q].arn = a
    BY <2>4, <2>5, AbsentType DEF Driving
  <2>8. RunningIsDriven'
    BY <2>1, <2>7, StaysDriven
  <2> QED BY <1>f, <2>1, <2>5, <2>6, <2>8 DEF MachinesTypeOK
<1>6. CASE SaveTerminal(r)
  <2> DEFINE ex == [status |-> runs[r].status, born |-> runs[r].born]
             a == runs[r].arn
  <2>1. runs[r].pc = "read" /\ SetPc(r, "stored") /\ SaveExecution(a, ex) /\ UNCHANGED running
    BY <1>6 DEF SaveTerminal
  <2>2. a \in Arns /\ runs[r].status \in Terminal
    BY <2>1 DEF RunsPlaced
  <2>3. ex \in ExecutionRecord /\ ex.status # "RUNNING"
    BY <2>2, <1>t, TerminalEnds DEF ExecutionRecord, RunRecord
  <2> HIDE DEF ex
  <2>4. executions' \in ExecutionTable
        /\ \A b \in Arns : executions'[b] \in {Absent, IF b = a THEN ex ELSE executions[b]}
    BY <2>1, <2>2, <2>3, SaveKeeps
  <2>5. /\ runs' \in [RunIDs -> RunRecord]
        /\ \A q \in RunIDs \ {r} : runs'[q] = runs[q]
        /\ runs'[r].pc = "stored" /\ runs'[r].arn = a
    BY <2>1, PcStep
  <2>6. RunsPlaced'
    BY <2>2, <2>5 DEF RunsPlaced
  <2>7. \A b \in Arns : executions'[b].status = "RUNNING" => b # a /\ executions[b].status = "RUNNING"
    BY <2>3, <2>4, AbsentType
  <2>8. \A q \in RunIDs : runs[q].arn # a => runs'[q] = runs[q]
    BY <2>5
  <2>9. RunningIsDriven'
    BY <2>7, <2>8, StaysDriven
  <2> QED BY <1>f, <2>1, <2>4, <2>5, <2>6, <2>9 DEF MachinesTypeOK
<1>7. CASE clearRunning(r)
  <2> DEFINE g == [NoRun EXCEPT !.pc = "done"]
  <2>1. runs[r].pc = "stored" /\ SetRun(r, g) /\ UNCHANGED executions
    BY <1>7 DEF clearRunning
  <2>2. g \in RunRecord /\ g.pc = "done"
    BY NoRunType DEF RunRecord
  <2>3. running' \in [Arns -> RunIDs \cup {NoHandle}]
    BY <1>7 DEF clearRunning, MachinesTypeOK
  <2> HIDE DEF g
  <2>4. /\ runs' \in [RunIDs -> RunRecord]
        /\ \A q \in RunIDs : runs'[q] = IF q = r THEN g ELSE runs[q]
    BY <2>1, <2>2, RunStep
  <2>5. RunsPlaced'
    BY <2>2, <2>4 DEF RunsPlaced
  <2>6. \A q \in RunIDs : runs[q].pc \in Driving => runs'[q] = runs[q]
    BY <2>1, <2>4 DEF Driving
  <2>7. RunningIsDriven'
    BY <2>1, <2>6, StaysDriven
  <2> QED BY <1>f, <2>1, <2>3, <2>4, <2>5, <2>7 DEF MachinesTypeOK
<1> QED BY <1>1, <1>2, <1>3, <1>4, <1>5, <1>6, <1>7

(* A cancelled run is still the same run. *)
LEMMA CancelsKeep == ASSUME MachinesInv, StopService \/ \E a \in Arns : StopExecution(a)
                     PROVE  MachinesInv'
<1> USE DEF MachinesInv
<1>1. PICK S \in SUBSET RunIDs :
         runs' = [r \in RunIDs |-> IF r \in S THEN [runs[r] EXCEPT !.cancelled = TRUE] ELSE runs[r]]
  <2>1. CASE StopService
    <3> DEFINE S == {r \in RunIDs : \E a \in Arns : running[a] = r}
    <3>1. runs' = [r \in RunIDs |-> IF \E a \in Arns : running[a] = r
                                   THEN [runs[r] EXCEPT !.cancelled = TRUE] ELSE runs[r]]
      BY <2>1 DEF StopService
    <3>2. runs' = [r \in RunIDs |-> IF r \in S THEN [runs[r] EXCEPT !.cancelled = TRUE] ELSE runs[r]]
      BY <3>1
    <3> QED BY <3>2
  <2>2. ASSUME NEW a \in Arns, StopExecution(a)
        PROVE  runs' = [r \in RunIDs |-> IF r \in {running[a]}
                          THEN [runs[r] EXCEPT !.cancelled = TRUE] ELSE runs[r]]
               /\ {running[a]} \in SUBSET RunIDs
    BY <2>2 DEF StopExecution, cancel, MachinesTypeOK
  <2> QED BY <2>1, <2>2
<1>2. \A r \in RunIDs : runs'[r] \in RunRecord /\ runs'[r].pc = runs[r].pc
                          /\ runs'[r].arn = runs[r].arn /\ runs'[r].status = runs[r].status
  BY <1>1 DEF MachinesTypeOK, RunRecord
<1>3. runs' \in [RunIDs -> RunRecord]
  BY <1>1, <1>2
<1>4. UNCHANGED <<machines, executions, running, calls, disk>> /\ stopping' \in BOOLEAN /\ ncalls' \in Nat
  <2>1. CASE StopService
    BY <2>1 DEF StopService, MachinesTypeOK
  <2>2. ASSUME NEW a \in Arns, StopExecution(a)
        PROVE  UNCHANGED <<machines, executions, running, calls, disk, stopping>> /\ ncalls' = ncalls + 1
    BY <2>2 DEF StopExecution
  <2> QED BY <2>1, <2>2 DEF MachinesTypeOK
<1> QED BY <1>2, <1>3, <1>4 DEF MachinesTypeOK, RunsPlaced, RunningIsDriven

(* What a new process loads does not run. *)
LEMMA RestartKeeps == ASSUME MachinesInv, RestartMachines PROVE MachinesInv'
<1> USE DEF MachinesInv
<1> DEFINE loaded == Loaded(disk.executions)
           dropped == {a \in Arns : \E m \in Machines : evictExecutions(loaded, m)[a] # loaded[a]}
<1>1. disk.executions \in ExecutionTable /\ disk.machines \in MachineTable
  BY DEF MachinesTypeOK
<1>2. \A a \in Arns : loaded[a] \in ExecutionRecord /\ loaded[a].status # "RUNNING"
  <2> SUFFICES ASSUME NEW a \in Arns
               PROVE  loaded[a] \in ExecutionRecord /\ loaded[a].status # "RUNNING"
    OBVIOUS
  <2>1. disk.executions[a] \in ExecutionRecord
    BY <1>1 DEF ExecutionTable
  <2>2. [disk.executions[a] EXCEPT !.status = "ABORTED"] \in ExecutionRecord
        /\ [disk.executions[a] EXCEPT !.status = "ABORTED"].status = "ABORTED"
    BY <2>1 DEF ExecutionRecord, Terminal
  <2> QED BY <2>1, <2>2 DEF Loaded
<1>3. executions' = [a \in Arns |-> IF a \in dropped THEN Absent ELSE loaded[a]]
  BY DEF RestartMachines
<1> HIDE DEF loaded, dropped
<1>4. executions' \in ExecutionTable /\ \A a \in Arns : executions'[a].status # "RUNNING"
  BY <1>2, <1>3, AbsentType DEF ExecutionTable
<1>5. runs' = [r \in RunIDs |-> IF runs[r] = NoRun THEN NoRun ELSE [NoRun EXCEPT !.pc = "done"]]
  BY DEF RestartMachines
<1>6. [NoRun EXCEPT !.pc = "done"] \in RunRecord /\ [NoRun EXCEPT !.pc = "done"].pc = "done"
  BY NoRunType DEF RunRecord
<1>7. runs' \in [RunIDs -> RunRecord] /\ \A r \in RunIDs : runs'[r].pc \in {"none", "done"}
  BY <1>5, <1>6, NoRunType
<1>8. machines' \in MachineTable /\ running' \in [Arns -> RunIDs \cup {NoHandle}]
      /\ calls' \in [Callers -> SaveRecord \cup {Free}] /\ stopping' \in BOOLEAN
      /\ UNCHANGED <<disk, ncalls>>
  BY <1>1 DEF RestartMachines
<1> QED BY <1>4, <1>7, <1>8 DEF MachinesTypeOK, RunsPlaced, RunningIsDriven

LEMMA MachinesInvariant == MachinesSpec => []MachinesInv
<1>1. MachinesInit => MachinesInv
  <2> SUFFICES ASSUME MachinesInit PROVE MachinesInv
    OBVIOUS
  <2>1. machines \in MachineTable /\ executions \in ExecutionTable
    BY AbsentType DEF MachinesInit, MachineTable, ExecutionTable
  <2>2. disk \in [machines : MachineTable, executions : ExecutionTable]
    BY <2>1 DEF MachinesInit
  <2>3. MachinesTypeOK
    BY <2>1, <2>2, NoRunType DEF MachinesInit, MachinesTypeOK
  <2>4. RunsPlaced /\ RunningIsDriven
    BY NoRunType, AbsentType DEF MachinesInit, RunsPlaced, RunningIsDriven
  <2> QED BY <2>3, <2>4 DEF MachinesInv
<1>2. MachinesInv /\ [MachinesNext]_sfnVars => MachinesInv'
  <2> SUFFICES ASSUME MachinesInv, [MachinesNext]_sfnVars PROVE MachinesInv'
    OBVIOUS
  <2>1. CASE UNCHANGED sfnVars
    BY <2>1 DEF sfnVars, MachinesInv, MachinesTypeOK, RunsPlaced, RunningIsDriven
  <2>2. CASE MachinesNext
    BY <2>2, ControlKeeps, RunsKeep, CancelsKeep, RestartKeeps DEF MachinesNext
  <2> QED BY <2>1, <2>2
<1> QED BY <1>1, <1>2, PTL DEF MachinesSpec

(* Every execution stored as RUNNING has a call or a goroutine that will      *)
(* still write its end (service.go: StartExecution, runExecution; store.go:   *)
(* Init).                                                                     *)
THEOREM NoRecordRunsForEver == MachinesSpec => []RunningIsDriven
BY MachinesInvariant, PTL DEF MachinesInv

(* The state of the Step Functions model keeps its types.                     *)
THEOREM MachinesType == MachinesSpec => []MachinesTypeOK
BY MachinesInvariant, PTL DEF MachinesInv

(***************************************************************************)
(* THE ECS TASK                                                            *)
(***************************************************************************)
Early == {"free", "admitted", "recorded", "tracked"}
Completed == {"stopping", "settling", "unsettled", "done"}
Unfinished == {"tracked", "starting", "failed", "failing", "unwinding", "started"}
Unadopted == {"crashed", "unadopted"}
LaunchPcs == Early \cup Completed \cup Unfinished \cup Unadopted
Starting == {"pulling", "created", "wanted", "unwanted"}
Alive == {"waiting", "essential", "draining"}

TaskRecords == [last : {"none", "PROVISIONING", "RUNNING", "STOPPING", "STOPPED"},
                desired : {"none", "RUNNING", "STOPPED"}]
RtRecord == [tracked : BOOLEAN, ids : SUBSET Containers, remaining : Int, stopRequested : BOOLEAN,
             complete : BOOLEAN, essentialExited : BOOLEAN, siblings : SUBSET Containers,
             recovered : BOOLEAN]

TaskTypeOK ==
  /\ record \in TaskRecords /\ saved \in TaskRecords
  /\ rt \in RtRecord
  /\ launch \in [pc : LaunchPcs, remaining : Int, stopping : BOOLEAN]
  /\ starter \in [Containers -> {"todo", "done", "failed"} \cup Starting]
  /\ docker \in [Containers -> {"none", "running", "exited", "removed"}]
  /\ asked \in SUBSET Containers
  /\ life \in [Containers -> {"none", "removed", "gone"} \cup Alive]
  /\ finish \in {"no", "stopped", "desired", "untrack", "done"}
  /\ stopper \in {"free", "recorded", "marked"}
  /\ shutdown \in {"no", "stopped", "swept"}
  /\ nstops \in Int /\ ncrashes \in Int

(* Where the goroutines of a container can be while the launch is at a step. *)
PhaseInv ==
  /\ \A c \in Containers :
       /\ launch.pc \in Early => starter[c] = "todo"
       /\ launch.pc \in Unadopted => starter[c] = "done" /\ life[c] = "none"
       /\ starter[c] \in Starting => launch.pc = "starting"
       /\ starter[c] = "todo" => launch.pc \in Early \cup {"starting"}
       /\ starter[c] # "done" => life[c] = "none"
       /\ c \in Watched => starter[c] \in {"created", "wanted", "unwanted"} \/ life[c] = "waiting"
       /\ starter[c] \in {"wanted", "unwanted"} \/ life[c] \in Alive => c \in rt.ids
       /\ life[c] = "essential" => rt.essentialExited
  /\ launch.pc \in Unadopted => rt = NoTask
  /\ launch.pc \in {"free", "admitted"} => record = NoRecord /\ stopper = "free"
  /\ shutdown # "no" => launch.pc # "free"

(* The containers that count as remaining: registered, and not yet gone. *)
Counted == {c \in Containers : starter[c] \in {"wanted", "unwanted"} \/ life[c] \in Alive \cup {"removed"}}

(* remaining is their number, and the task ends when there is none left of a *)
(* completed launch.                                                         *)
CountedInv ==
  /\ rt.remaining = Cardinality(Counted)
  /\ rt.complete => launch.pc \in Completed
  /\ finish # "no" => rt.complete /\ Counted = {}
  /\ launch.pc \in Unfinished => rt.tracked
  /\ Counted # {} => rt.tracked

(* Somebody has stopped the container or is about to. *)
Handled(c) ==
  \/ c \in asked
  \/ starter[c] \in {"created", "unwanted"}
  \/ stopper = "marked"
  \/ launch.pc \in {"failing", "unwinding", "unsettled", "stopping"}
  \/ c \in rt.siblings /\ \E d \in Containers : life[d] = "essential"

(* A requested stop reaches every container that runs in the runner's hand. *)
RequestedInv ==
  /\ rt.stopRequested => \A c \in Watched : Handled(c)
  /\ rt.essentialExited => rt.stopRequested

(* A recorded stop has been requested, is about to be, or came too late to *)
(* matter.                                                                 *)
DesiredInv ==
  record.desired = "STOPPED" /\ launch.pc \notin {"recorded", "tracked"} \cup Unadopted =>
    \/ rt.stopRequested \/ stopper = "recorded"
    \/ launch.pc \in Completed /\ Watched \subseteq asked

SweptInv == shutdown = "swept" => launch.pc \in {"done", "unadopted"} /\ Watched \subseteq asked

StopInv == RequestedInv /\ DesiredInv /\ SweptInv

TaskInv == TaskTypeOK /\ PhaseInv /\ CountedInv /\ StopInv

(* What each update of the runningTask changes, and what it leaves. *)
RtFlags(stopRequested, complete, essentialExited) ==
  /\ rt'.stopRequested = stopRequested
  /\ rt'.complete = complete
  /\ rt'.essentialExited = essentialExited

LEMMA NoTaskType ==
  /\ NoTask \in RtRecord
  /\ ~NoTask.tracked /\ NoTask.ids = {} /\ NoTask.remaining = 0 /\ ~NoTask.complete
  /\ ~NoTask.stopRequested /\ ~NoTask.essentialExited
<1>1. 0 \in Int /\ {} \in SUBSET Containers
  OBVIOUS
<1> QED BY <1>1 DEF NoTask, RtRecord

LEMMA RtTracked ==
  ASSUME rt' = [NoTask EXCEPT !.tracked = TRUE]
  PROVE  /\ rt' \in RtRecord /\ rt'.tracked /\ rt'.ids = {} /\ rt'.remaining = 0
         /\ ~rt'.complete /\ ~rt'.stopRequested /\ ~rt'.essentialExited
<1> DEFINE n == NoTask
<1>1. /\ n \in RtRecord /\ n.ids = {} /\ n.remaining = 0 /\ ~n.complete /\ ~n.stopRequested
      /\ ~n.essentialExited
  BY NoTaskType
<1>2. rt' = [n EXCEPT !.tracked = TRUE]
  OBVIOUS
<1> HIDE DEF n
<1> QED BY <1>1, <1>2 DEF RtRecord

LEMMA RtStopped ==
  ASSUME rt \in RtRecord, NEW b \in BOOLEAN, rt' = [rt EXCEPT !.stopRequested = b]
  PROVE  /\ rt' \in RtRecord /\ RtFlags(b, rt.complete, rt.essentialExited)
         /\ rt'.ids = rt.ids /\ rt'.remaining = rt.remaining /\ rt'.tracked = rt.tracked
         /\ rt'.siblings = rt.siblings
BY DEF RtRecord, RtFlags

LEMMA RtCompleted ==
  ASSUME rt \in RtRecord, rt' = [rt EXCEPT !.complete = TRUE]
  PROVE  /\ rt' \in RtRecord /\ RtFlags(rt.stopRequested, TRUE, rt.essentialExited)
         /\ rt'.ids = rt.ids /\ rt'.remaining = rt.remaining /\ rt'.tracked = rt.tracked
         /\ rt'.siblings = rt.siblings
BY DEF RtRecord, RtFlags

LEMMA RtRegistered ==
  ASSUME rt \in RtRecord, NEW c \in Containers, RegisterContainer(c)
  PROVE  /\ rt' \in RtRecord /\ RtFlags(rt.stopRequested, rt.complete, rt.essentialExited)
         /\ rt'.ids = rt.ids \cup {c} /\ rt'.remaining = rt.remaining + 1
         /\ rt'.tracked = rt.tracked /\ rt'.siblings = rt.siblings
<1> DEFINE ids == rt.ids \cup {c}
           n == rt.remaining + 1
<1>1. ids \in SUBSET Containers /\ n \in Int
  BY DEF RtRecord
<1>2. rt' = [rt EXCEPT !.ids = ids, !.remaining = n]
  BY DEF RtRecord, RegisterContainer
<1>3. rt'.ids = ids /\ rt'.remaining = n
  BY <1>2 DEF RtRecord
<1> HIDE DEF ids, n
<1>4. /\ rt' \in RtRecord /\ RtFlags(rt.stopRequested, rt.complete, rt.essentialExited)
      /\ rt'.tracked = rt.tracked /\ rt'.siblings = rt.siblings
  BY <1>1, <1>2 DEF RtRecord, RtFlags
<1> QED BY <1>3, <1>4 DEF ids, n

LEMMA RtEssential ==
  ASSUME TaskTypeOK, NEW c \in Containers, handleEssentialContainerExit(c)
  PROVE  /\ rt' \in RtRecord
         /\ rt'.ids = rt.ids /\ rt'.remaining = rt.remaining /\ rt'.tracked = rt.tracked
         /\ rt'.complete = rt.complete
         /\ \/ rt' = rt /\ life' = [life EXCEPT ![c] = "draining"]
            \/ /\ RtFlags(TRUE, rt.complete, TRUE) /\ rt'.siblings = rt.ids \ {c}
               /\ life' = [life EXCEPT ![c] = "essential"]
<1> DEFINE S == rt.ids \ {c}
<1>1. S \in SUBSET Containers
  BY DEF TaskTypeOK, RtRecord
<1>2. CASE UNCHANGED rt /\ life' = [life EXCEPT ![c] = "draining"]
  BY <1>2 DEF TaskTypeOK
<1>3. CASE /\ life' = [life EXCEPT ![c] = "essential"]
           /\ rt' = [rt EXCEPT !.essentialExited = TRUE, !.stopRequested = TRUE, !.siblings = S]
  <2> HIDE DEF S
  <2>1. /\ rt' \in RtRecord /\ RtFlags(TRUE, rt.complete, TRUE)
        /\ rt'.ids = rt.ids /\ rt'.remaining = rt.remaining /\ rt'.tracked = rt.tracked
        /\ rt'.siblings = S
    BY <1>1, <1>3 DEF TaskTypeOK, RtRecord, RtFlags
  <2> QED BY <1>3, <2>1 DEF S, RtFlags
<1> QED BY <1>2, <1>3 DEF handleEssentialContainerExit

LEMMA RtRemoved ==
  ASSUME rt \in RtRecord, NEW c \in Containers, rt' = [rt EXCEPT !.ids = @ \ {c}]
  PROVE  /\ rt' \in RtRecord /\ RtFlags(rt.stopRequested, rt.complete, rt.essentialExited)
         /\ rt'.ids = rt.ids \ {c} /\ rt'.remaining = rt.remaining /\ rt'.tracked = rt.tracked
         /\ rt'.siblings = rt.siblings
BY DEF RtRecord, RtFlags

LEMMA RtFinished ==
  ASSUME rt \in RtRecord, rt' = [rt EXCEPT !.remaining = @ - 1]
  PROVE  /\ rt' \in RtRecord /\ RtFlags(rt.stopRequested, rt.complete, rt.essentialExited)
         /\ rt'.ids = rt.ids /\ rt'.remaining = rt.remaining - 1 /\ rt'.tracked = rt.tracked
         /\ rt'.siblings = rt.siblings
BY DEF RtRecord, RtFlags

LEMMA RtUntracked ==
  ASSUME rt \in RtRecord, rt' = [rt EXCEPT !.tracked = FALSE]
  PROVE  /\ rt' \in RtRecord /\ RtFlags(rt.stopRequested, rt.complete, rt.essentialExited)
         /\ rt'.ids = rt.ids /\ rt'.remaining = rt.remaining /\ ~rt'.tracked
         /\ rt'.siblings = rt.siblings
BY DEF RtRecord, RtFlags

LEMMA LaunchAtType ==
  ASSUME NEW pc \in LaunchPcs
  PROVE  /\ LaunchAt(pc) \in [pc : LaunchPcs, remaining : Int, stopping : BOOLEAN]
         /\ LaunchAt(pc).pc = pc
<1>1. 0 \in Int
  OBVIOUS
<1> QED BY <1>1 DEF LaunchAt

LEMMA PresentFinite == IsFiniteSet(Present) /\ Cardinality(Present) \in Nat
BY FS_Subset, FS_CardinalityType, ECSTaskAssumption DEF Present

LEMMA RtRecovered ==
  ASSUME recoverTask
  PROVE  /\ rt' \in RtRecord /\ rt'.tracked = (Present # {}) /\ rt'.ids = Present
         /\ rt'.remaining = Cardinality(Present) /\ rt'.complete /\ ~rt'.stopRequested
         /\ ~rt'.essentialExited
<1> DEFINE m == NoTask
           P == Present
           n == Cardinality(P)
           b == P # {}
<1>1. m \in RtRecord /\ ~m.stopRequested /\ ~m.essentialExited
  BY NoTaskType DEF NoTask
<1>2. P \in SUBSET Containers /\ n \in Int /\ b \in BOOLEAN
  BY PresentFinite DEF Present
<1>3. rt' = [m EXCEPT !.complete = TRUE, !.recovered = TRUE, !.ids = P, !.remaining = n,
                      !.tracked = b]
  BY DEF recoverTask
<1> HIDE DEF m, P, n, b
<1>4. /\ rt' \in RtRecord /\ rt'.tracked = b /\ rt'.ids = P /\ rt'.remaining = n
      /\ rt'.complete /\ ~rt'.stopRequested /\ ~rt'.essentialExited
  BY <1>1, <1>2, <1>3 DEF RtRecord
<1> QED BY <1>4 DEF P, n, b

LEMMA TaskTypeStep ==
  ASSUME TaskTypeOK, TaskNext
  PROVE  TaskTypeOK'
<1>1. CASE Launch
  BY <1>1 DEF Launch, LaunchFrame, Bounds, LaunchAt, Stopped, TaskTypeOK, LaunchPcs, Unadopted, Early, Completed, Unfinished, Starting, Alive
<1>2. CASE NewTaskRecord
  <2>7. record' \in TaskRecords
    BY <1>2 DEF NewTaskRecord, SetTaskStatus, StopTaskRecord, TaskTypeOK, TaskRecords
  <2> QED BY <1>2, <2>7 DEF NewTaskRecord, LaunchFrame, Bounds, LaunchAt, TaskTypeOK, LaunchPcs, Unadopted, Early, Completed, Unfinished, Starting, Alive
<1>3. CASE Track
  <2>1. rt' \in RtRecord
    BY <1>3, RtTracked DEF Track, TaskTypeOK
  <2> QED BY <1>3, <2>1 DEF Track, LaunchFrame, Bounds, LaunchAt, TaskTypeOK, LaunchPcs, Unadopted, Early, Completed, Unfinished, Starting, Alive
<1>4. CASE Recheck
  <2> DEFINE b == rt.stopRequested \/ record.desired = "STOPPED"
  <2>1. rt' = [rt EXCEPT !.stopRequested = b] /\ b \in BOOLEAN
    BY <1>4 DEF Recheck, TaskTypeOK, RtRecord
  <2> HIDE DEF b
  <2>2. rt' \in RtRecord
    BY <2>1, RtStopped DEF TaskTypeOK
  <2> QED BY <1>4, <2>2 DEF Recheck, LaunchFrame, Bounds, LaunchAt, TaskTypeOK, LaunchPcs, Unadopted, Early, Completed, Unfinished, Starting, Alive
<1>5. CASE VolumesFail
  BY <1>5 DEF VolumesFail, LaunchFrame, Bounds, LaunchAt, TaskTypeOK, LaunchPcs, Unadopted, Early, Completed, Unfinished, Starting, Alive
<1>6. CASE startContainers
  BY <1>6 DEF startContainers, LaunchFrame, Bounds, LaunchAt, TaskTypeOK, LaunchPcs, Unadopted, Early, Completed, Unfinished, Starting, Alive
<1>7. CASE LaunchFailed
  <2>7. record' \in TaskRecords
    BY <1>7 DEF LaunchFailed, SetTaskStatus, StopTaskRecord, TaskTypeOK, TaskRecords
  <2>1. rt' \in RtRecord
    BY <1>7, RtStopped DEF LaunchFailed, TaskTypeOK, markRunningTaskStopping
  <2> QED BY <1>7, <2>7, <2>1 DEF LaunchFailed, LaunchFrame, Bounds, LaunchAt, TaskTypeOK, LaunchPcs, Unadopted, Early, Completed, Unfinished, Starting, Alive
<1>8. CASE setTaskStatusAfterLaunchFailure
  <2>7. record' \in TaskRecords
    BY <1>8 DEF setTaskStatusAfterLaunchFailure, SetTaskStatus, StopTaskRecord, TaskTypeOK, TaskRecords
  <2> QED BY <1>8, <2>7 DEF setTaskStatusAfterLaunchFailure, LaunchFrame, Bounds, LaunchAt, TaskTypeOK, LaunchPcs, Unadopted, Early, Completed, Unfinished, Starting, Alive
<1>9. CASE FailedComplete
  <2>3. rt.remaining \in Int /\ rt.stopRequested \in BOOLEAN
    BY DEF TaskTypeOK, RtRecord
  <2>1. rt' \in RtRecord
    BY <1>9, RtCompleted DEF FailedComplete, TaskTypeOK, CompleteLaunch
  <2> QED BY <1>9, <2>3, <2>1 DEF FailedComplete, LaunchFrame, Bounds, LaunchAt, CompleteLaunch, TaskTypeOK, LaunchPcs, Unadopted, Early, Completed, Unfinished, Starting, Alive
<1>10. CASE StartedComplete
  <2>3. rt.remaining \in Int /\ rt.stopRequested \in BOOLEAN
    BY DEF TaskTypeOK, RtRecord
  <2>1. rt' \in RtRecord
    BY <1>10, RtCompleted DEF StartedComplete, TaskTypeOK, CompleteLaunch
  <2> QED BY <1>10, <2>3, <2>1 DEF StartedComplete, LaunchFrame, Bounds, LaunchAt, CompleteLaunch, TaskTypeOK, LaunchPcs, Unadopted, Early, Completed, Unfinished, Starting, Alive
<1>11. CASE Settle
  <2>1. rt' \in RtRecord
    BY <1>11, RtStopped DEF Settle, TaskTypeOK, markRunningTaskStopping
  <2>2. record' \in TaskRecords
    BY <1>11 DEF Settle, SetTaskStatus, TaskTypeOK, TaskRecords
  <2>3. launch' = LaunchAt("done") \/ launch' = LaunchAt("unsettled")
    BY <1>11 DEF Settle
  <2>4. launch' \in [pc : LaunchPcs, remaining : Int, stopping : BOOLEAN]
    BY <2>3, LaunchAtType DEF LaunchPcs, Completed
  <2> QED BY <1>11, <2>1, <2>2, <2>4 DEF Settle, LaunchFrame, Bounds, TaskTypeOK
<1>12. CASE Unsettle
  <2>7. record' \in TaskRecords
    BY <1>12 DEF Unsettle, SetTaskStatus, StopTaskRecord, TaskTypeOK, TaskRecords
  <2> QED BY <1>12, <2>7 DEF Unsettle, LaunchFrame, Bounds, LaunchAt, TaskTypeOK, LaunchPcs, Unadopted, Early, Completed, Unfinished, Starting, Alive
<1>13. CASE LaunchStops
  <2>1. rt.ids \in SUBSET Containers
    BY DEF TaskTypeOK, RtRecord
  <2> QED BY <1>13, <2>1 DEF LaunchStops, LaunchFrame, Bounds, LaunchAt, stopContainerIDs, TaskTypeOK, LaunchPcs, Unadopted, Early, Completed, Unfinished, Starting, Alive
<1>14. ASSUME NEW c \in Containers, startContainer(c) PROVE TaskTypeOK'
  BY <1>14 DEF startContainer, StarterFrame, Bounds, Stopped, TaskTypeOK, LaunchPcs, Unadopted, Early, Completed, Unfinished, Starting, Alive
<1>15. ASSUME NEW c \in Containers, CreateContainer(c) PROVE TaskTypeOK'
  BY <1>15 DEF CreateContainer, StarterFrame, Bounds, TaskTypeOK, LaunchPcs, Unadopted, Early, Completed, Unfinished, Starting, Alive
<1>16. ASSUME NEW c \in Containers, StartFails(c) PROVE TaskTypeOK'
  BY <1>16 DEF StartFails, StarterFrame, Bounds, TaskTypeOK, LaunchPcs, Unadopted, Early, Completed, Unfinished, Starting, Alive
<1>17. ASSUME NEW c \in Containers, RegisterContainer(c) PROVE TaskTypeOK'
  <2>1. rt' \in RtRecord
    BY <1>17, RtRegistered DEF TaskTypeOK
  <2> QED BY <1>17, <2>1 DEF RegisterContainer, StarterFrame, Bounds, Stopped, TaskTypeOK, LaunchPcs, Unadopted, Early, Completed, Unfinished, Starting, Alive
<1>18. ASSUME NEW c \in Containers, spawnLifecycle(c) PROVE TaskTypeOK'
  BY <1>18 DEF spawnLifecycle, StarterFrame, Bounds, stopContainerIDs, TaskTypeOK, LaunchPcs, Unadopted, Early, Completed, Unfinished, Starting, Alive
<1>19. ASSUME NEW c \in Containers, ContainerExits(c) PROVE TaskTypeOK'
  BY <1>19 DEF ContainerExits, LifeFrame, Bounds, TaskTypeOK, LaunchPcs, Unadopted, Early, Completed, Unfinished, Starting, Alive
<1>20. ASSUME NEW c \in Containers, handleEssentialContainerExit(c) PROVE TaskTypeOK'
  <2>1. rt' \in RtRecord
    BY <1>20, RtEssential
  <2> QED BY <1>20, <2>1 DEF handleEssentialContainerExit, LifeFrame, Bounds, TaskTypeOK, LaunchPcs, Unadopted, Early, Completed, Unfinished, Starting, Alive
<1>21. ASSUME NEW c \in Containers, StopSiblings(c) PROVE TaskTypeOK'
  <2>1. rt.siblings \in SUBSET Containers
    BY DEF TaskTypeOK, RtRecord
  <2>2. record' \in TaskRecords
    BY <1>21 DEF StopSiblings, StopTaskRecord, TaskTypeOK, TaskRecords
  <2> QED BY <1>21, <2>1, <2>2 DEF StopSiblings, stopContainerIDs, LifeFrame, Bounds, TaskTypeOK, LaunchPcs, Unadopted, Early, Completed, Unfinished, Starting, Alive
<1>22. ASSUME NEW c \in Containers, RemoveContainer(c) PROVE TaskTypeOK'
  <2>1. rt' \in RtRecord
    BY <1>22, RtRemoved DEF RemoveContainer, TaskTypeOK
  <2> QED BY <1>22, <2>1 DEF RemoveContainer, LifeFrame, Bounds, TaskTypeOK, LaunchPcs, Unadopted, Early, Completed, Unfinished, Starting, Alive
<1>23. ASSUME NEW c \in Containers, onContainerFinished(c) PROVE TaskTypeOK'
  <2>1. rt' \in RtRecord
    BY <1>23, RtFinished DEF onContainerFinished, TaskTypeOK
  <2> QED BY <1>23, <2>1 DEF onContainerFinished, LifeFrame, Bounds, TaskTypeOK, LaunchPcs, Unadopted, Early, Completed, Unfinished, Starting, Alive
<1>24. CASE FinishStatus
  <2>7. record' \in TaskRecords
    BY <1>24 DEF FinishStatus, SetTaskStatus, StopTaskRecord, TaskTypeOK, TaskRecords
  <2> QED BY <1>24, <2>7 DEF FinishStatus, FinishFrame, Bounds, TaskTypeOK, LaunchPcs, Unadopted, Early, Completed, Unfinished, Starting, Alive
<1>25. CASE FinishDesired
  <2>7. record' \in TaskRecords
    BY <1>25 DEF FinishDesired, SetTaskStatus, StopTaskRecord, TaskTypeOK, TaskRecords
  <2> QED BY <1>25, <2>7 DEF FinishDesired, FinishFrame, Bounds, TaskTypeOK, LaunchPcs, Unadopted, Early, Completed, Unfinished, Starting, Alive
<1>26. CASE FinishUntrack
  <2>1. rt' \in RtRecord
    BY <1>26, RtUntracked DEF FinishUntrack, TaskTypeOK
  <2> QED BY <1>26, <2>1 DEF FinishUntrack, FinishFrame, Bounds, TaskTypeOK, LaunchPcs, Unadopted, Early, Completed, Unfinished, Starting, Alive
<1>27. CASE StopTask
  <2>7. record' \in TaskRecords
    BY <1>27 DEF StopTask, SetTaskStatus, StopTaskRecord, TaskTypeOK, TaskRecords
  <2> QED BY <1>27, <2>7 DEF StopTask, StopFrame, TaskTypeOK, LaunchPcs, Unadopted, Early, Completed, Unfinished, Starting, Alive
<1>28. CASE StopLookup
  <2>1. rt' \in RtRecord
    BY <1>28, RtStopped DEF StopLookup, TaskTypeOK, markRunningTaskStopping
  <2> QED BY <1>28, <2>1 DEF StopLookup, StopFrame, Bounds, TaskTypeOK, LaunchPcs, Unadopted, Early, Completed, Unfinished, Starting, Alive
<1>29. CASE StopSnapshot
  <2>1. rt.ids \in SUBSET Containers
    BY DEF TaskTypeOK, RtRecord
  <2> QED BY <1>29, <2>1 DEF StopSnapshot, StopFrame, Bounds, stopContainerIDs, TaskTypeOK, LaunchPcs, Unadopted, Early, Completed, Unfinished, Starting, Alive
<1>30. CASE StopRunner
  BY <1>30 DEF StopRunner, ShutdownFrame, Bounds, TaskTypeOK, LaunchPcs, Unadopted, Early, Completed, Unfinished, Starting, Alive
<1>31. CASE StopRunnerTasks
  <2>8. rt.ids \in SUBSET Containers
    BY DEF TaskTypeOK, RtRecord
  <2>7. record' \in TaskRecords
    BY <1>31 DEF StopRunnerTasks, SetTaskStatus, StopTaskRecord, TaskTypeOK, TaskRecords
  <2>1. rt' \in RtRecord
    BY <1>31, RtStopped DEF StopRunnerTasks, TaskTypeOK, markRunningTaskStopping
  <2> QED BY <1>31, <2>8, <2>7, <2>1 DEF StopRunnerTasks, ShutdownFrame, Bounds, GateFree, StopTaskRecord, stopContainerIDs, TaskTypeOK, LaunchPcs, Unadopted, Early, Completed, Unfinished, Starting, Alive
<1>32. CASE Flush
  BY <1>32 DEF Flush, TaskTypeOK, LaunchPcs, Unadopted, Early, Completed, Unfinished, Starting, Alive
<1>33. CASE Crash
  <2>1. rt' \in RtRecord
    BY <1>33, NoTaskType DEF Crash, TaskTypeOK
  <2> QED BY <1>33, <2>1 DEF Crash, LaunchAt, TaskTypeOK, LaunchPcs, Unadopted, Early, Completed, Unfinished, Starting, Alive
<1>34. CASE recoverTask
  <2>1. rt' \in RtRecord
    BY <1>34, RtRecovered
  <2>2. record' \in TaskRecords /\ asked' \in SUBSET Containers
    BY <1>34 DEF recoverTask, TaskTypeOK, TaskRecords, Running
  <2>3. life' \in [Containers -> {"none", "removed", "gone"} \cup Alive]
    BY <1>34 DEF recoverTask, Alive
  <2> QED BY <1>34, <2>1, <2>2, <2>3 DEF recoverTask, Bounds, LaunchAt, TaskTypeOK, LaunchPcs, Completed
<1>36. CASE ListingFails
  BY <1>36 DEF ListingFails, Bounds, LaunchAt, TaskTypeOK, LaunchPcs, Unadopted, Early, Completed, Unfinished, Starting, Alive
<1>35. CASE cleanupOrphanContainer
  BY <1>35 DEF cleanupOrphanContainer, Bounds, LaunchAt, Present, Running, TaskTypeOK, LaunchPcs, Unadopted, Early, Completed, Unfinished, Starting, Alive
<1> QED BY <1>1, <1>2, <1>3, <1>4, <1>5, <1>6, <1>7, <1>8, <1>9, <1>10, <1>11, <1>12, <1>13, <1>14, <1>15, <1>16, <1>17, <1>18, <1>19, <1>20, <1>21, <1>22, <1>23, <1>24, <1>25, <1>26, <1>27, <1>28, <1>29, <1>30, <1>31, <1>32, <1>33, <1>34, <1>35, <1>36 DEF TaskNext

LEMMA PhaseStep ==
  ASSUME TaskTypeOK, TaskTypeOK', PhaseInv, CountedInv, TaskNext
  PROVE  PhaseInv'
<1>1. CASE Launch
  BY <1>1 DEF Launch, LaunchFrame, Bounds, LaunchAt, Stopped, Watched, Running, PhaseInv, TaskTypeOK, Unadopted, Early, Completed, Starting, Alive
<1>2. CASE NewTaskRecord
  BY <1>2 DEF NewTaskRecord, LaunchFrame, Bounds, LaunchAt, Watched, Running, PhaseInv, TaskTypeOK, Unadopted, Early, Completed, Starting, Alive
<1>3. CASE Track
  <2>1. ~rt'.complete /\ rt'.ids = {}
    BY <1>3, RtTracked DEF TaskTypeOK, RtFlags, Track
  <2> QED BY <1>3, <2>1 DEF Track, LaunchFrame, Bounds, LaunchAt, Watched, Running, PhaseInv, TaskTypeOK, Unadopted, Early, Completed, Starting, Alive
<1>4. CASE Recheck
  <2>1. rt'.ids = rt.ids /\ rt'.essentialExited = rt.essentialExited
    BY <1>4 DEF TaskTypeOK, RtFlags, Recheck, RtRecord
  <2> QED BY <1>4, <2>1 DEF Recheck, LaunchFrame, Bounds, LaunchAt, Watched, Running, PhaseInv, TaskTypeOK, Unadopted, Early, Completed, Starting, Alive
<1>5. CASE VolumesFail
  BY <1>5 DEF VolumesFail, LaunchFrame, Bounds, LaunchAt, Watched, Running, PhaseInv, TaskTypeOK, Unadopted, Early, Completed, Starting, Alive
<1>6. CASE startContainers
  BY <1>6 DEF startContainers, LaunchFrame, Bounds, LaunchAt, Watched, Running, PhaseInv, TaskTypeOK, Unadopted, Early, Completed, Starting, Alive
<1>7. CASE LaunchFailed
  <2>1. rt'.ids = rt.ids /\ rt'.essentialExited = rt.essentialExited
    BY <1>7, RtStopped DEF TaskTypeOK, RtFlags, LaunchFailed, markRunningTaskStopping
  <2> QED BY <1>7, <2>1 DEF LaunchFailed, LaunchFrame, Bounds, LaunchAt, Watched, Running, PhaseInv, TaskTypeOK, Unadopted, Early, Completed, Starting, Alive
<1>8. CASE setTaskStatusAfterLaunchFailure
  BY <1>8 DEF setTaskStatusAfterLaunchFailure, LaunchFrame, Bounds, LaunchAt, SetTaskStatus, Watched, Running, PhaseInv, TaskTypeOK, Unadopted, Early, Completed, Starting, Alive
<1>9. CASE FailedComplete
  <2>1. rt'.ids = rt.ids /\ rt'.essentialExited = rt.essentialExited
    BY <1>9, RtCompleted DEF TaskTypeOK, RtFlags, FailedComplete, CompleteLaunch
  <2> QED BY <1>9, <2>1 DEF FailedComplete, LaunchFrame, Bounds, LaunchAt, CompleteLaunch, Watched, Running, PhaseInv, TaskTypeOK, Unadopted, Early, Completed, Starting, Alive
<1>10. CASE StartedComplete
  <2>1. rt'.ids = rt.ids /\ rt'.essentialExited = rt.essentialExited
    BY <1>10, RtCompleted DEF TaskTypeOK, RtFlags, StartedComplete, CompleteLaunch
  <2> QED BY <1>10, <2>1 DEF StartedComplete, LaunchFrame, Bounds, LaunchAt, CompleteLaunch, Watched, Running, PhaseInv, TaskTypeOK, Unadopted, Early, Completed, Starting, Alive
<1>11. CASE Settle
  <2>1. rt'.ids = rt.ids /\ rt'.essentialExited = rt.essentialExited
    BY <1>11, RtStopped DEF TaskTypeOK, RtFlags, Settle, markRunningTaskStopping
  <2> QED BY <1>11, <2>1 DEF Settle, LaunchFrame, Bounds, LaunchAt, Stopped, SetTaskStatus, Watched, Running, PhaseInv, TaskTypeOK, Unadopted, Early, Completed, Starting, Alive
<1>12. CASE Unsettle
  BY <1>12 DEF Unsettle, LaunchFrame, Bounds, LaunchAt, SetTaskStatus, Watched, Running, PhaseInv, TaskTypeOK, Unadopted, Early, Completed, Starting, Alive
<1>13. CASE LaunchStops
  BY <1>13 DEF LaunchStops, LaunchFrame, Bounds, LaunchAt, stopContainerIDs, Watched, Running, PhaseInv, TaskTypeOK, Unadopted, Early, Completed, Starting, Alive
<1>14. ASSUME NEW c \in Containers, startContainer(c) PROVE PhaseInv'
  BY <1>14 DEF startContainer, StarterFrame, Bounds, Stopped, Watched, Running, PhaseInv, TaskTypeOK, Unadopted, Early, Completed, Starting, Alive
<1>15. ASSUME NEW c \in Containers, CreateContainer(c) PROVE PhaseInv'
  BY <1>15 DEF CreateContainer, StarterFrame, Bounds, Watched, Running, PhaseInv, TaskTypeOK, Unadopted, Early, Completed, Starting, Alive
<1>16. ASSUME NEW c \in Containers, StartFails(c) PROVE PhaseInv'
  BY <1>16 DEF StartFails, StarterFrame, Bounds, Watched, Running, PhaseInv, TaskTypeOK, Unadopted, Early, Completed, Starting, Alive
<1>17. ASSUME NEW c \in Containers, RegisterContainer(c) PROVE PhaseInv'
  <2>1. rt'.ids = rt.ids \cup {c} /\ rt'.essentialExited = rt.essentialExited
    BY <1>17, RtRegistered DEF TaskTypeOK, RtFlags
  <2> QED BY <1>17, <2>1 DEF RegisterContainer, StarterFrame, Bounds, Stopped, Watched, Running, PhaseInv, TaskTypeOK, Unadopted, Early, Completed, Starting, Alive
<1>18. ASSUME NEW c \in Containers, spawnLifecycle(c) PROVE PhaseInv'
  BY <1>18 DEF spawnLifecycle, StarterFrame, Bounds, stopContainerIDs, Watched, Running, PhaseInv, TaskTypeOK, Unadopted, Early, Completed, Starting, Alive
<1>19. ASSUME NEW c \in Containers, ContainerExits(c) PROVE PhaseInv'
  BY <1>19 DEF ContainerExits, LifeFrame, Bounds, Watched, Running, PhaseInv, TaskTypeOK, Unadopted, Early, Completed, Starting, Alive
<1>20. ASSUME NEW c \in Containers, handleEssentialContainerExit(c) PROVE PhaseInv'
  <2>2. /\ rt'.ids = rt.ids
        /\ \/ rt' = rt /\ life' = [life EXCEPT ![c] = "draining"]
           \/ rt'.essentialExited /\ life' = [life EXCEPT ![c] = "essential"]
    BY <1>20, RtEssential DEF RtFlags
  <2>1. /\ rt'.ids = rt.ids /\ (rt.essentialExited => rt'.essentialExited)
        /\ life'[c] = "essential" => rt'.essentialExited
    BY <2>2 DEF TaskTypeOK
  <2> QED BY <1>20, <2>1 DEF handleEssentialContainerExit, LifeFrame, Bounds, Stopped, Watched, Running, PhaseInv, TaskTypeOK, Unadopted, Early, Completed, Starting, Alive
<1>21. ASSUME NEW c \in Containers, StopSiblings(c) PROVE PhaseInv'
  BY <1>21 DEF StopSiblings, LifeFrame, Bounds, StopTaskRecord, stopContainerIDs, Watched, Running, PhaseInv, TaskTypeOK, Unadopted, Early, Completed, Starting, Alive
<1>22. ASSUME NEW c \in Containers, RemoveContainer(c) PROVE PhaseInv'
  <2>1. rt'.ids = rt.ids \ {c} /\ rt'.essentialExited = rt.essentialExited
    BY <1>22, RtRemoved DEF TaskTypeOK, RtFlags, RemoveContainer
  <2> QED BY <1>22, <2>1 DEF RemoveContainer, LifeFrame, Bounds, Watched, Running, PhaseInv, TaskTypeOK, Unadopted, Early, Completed, Starting, Alive
<1>23. ASSUME NEW c \in Containers, onContainerFinished(c) PROVE PhaseInv'
  <2>1. rt'.ids = rt.ids /\ rt'.essentialExited = rt.essentialExited
    BY <1>23, RtFinished DEF TaskTypeOK, RtFlags, onContainerFinished
  <2> QED BY <1>23, <2>1 DEF onContainerFinished, LifeFrame, Bounds, Watched, Running, PhaseInv, TaskTypeOK, Unadopted, Early, Completed, Starting, Alive
<1>24. CASE FinishStatus
  BY <1>24 DEF FinishStatus, FinishFrame, Bounds, SetTaskStatus, CountedInv, Watched, Running, PhaseInv, TaskTypeOK, Unadopted, Early, Completed, Starting, Alive
<1>25. CASE FinishDesired
  BY <1>25 DEF FinishDesired, FinishFrame, Bounds, StopTaskRecord, CountedInv, Watched, Running, PhaseInv, TaskTypeOK, Unadopted, Early, Completed, Starting, Alive
<1>26. CASE FinishUntrack
  <2>1. rt'.ids = rt.ids /\ rt'.essentialExited = rt.essentialExited
    BY <1>26, RtUntracked DEF TaskTypeOK, RtFlags, FinishUntrack
  <2> QED BY <1>26, <2>1 DEF CountedInv, FinishUntrack, FinishFrame, Bounds, Watched, Running, PhaseInv, TaskTypeOK, Unadopted, Early, Completed, Starting, Alive
<1>27. CASE StopTask
  BY <1>27 DEF StopTask, StopFrame, StopTaskRecord, Watched, Running, PhaseInv, TaskTypeOK, Unadopted, Early, Completed, Starting, Alive
<1>28. CASE StopLookup
  <2>1. rt'.ids = rt.ids /\ rt'.essentialExited = rt.essentialExited
    BY <1>28, RtStopped DEF TaskTypeOK, RtFlags, StopLookup, markRunningTaskStopping
  <2> QED BY <1>28, <2>1, NoTaskType DEF StopLookup, StopFrame, Bounds, Watched, Running, PhaseInv, TaskTypeOK, Unadopted, Early, Completed, Starting, Alive
<1>29. CASE StopSnapshot
  BY <1>29 DEF StopSnapshot, StopFrame, Bounds, stopContainerIDs, Watched, Running, PhaseInv, TaskTypeOK, Unadopted, Early, Completed, Starting, Alive
<1>30. CASE StopRunner
  BY <1>30 DEF StopRunner, ShutdownFrame, Bounds, Watched, Running, PhaseInv, TaskTypeOK, Unadopted, Early, Completed, Starting, Alive
<1>31. CASE StopRunnerTasks
  <2>1. rt'.ids = rt.ids /\ rt'.essentialExited = rt.essentialExited
    BY <1>31, RtStopped DEF TaskTypeOK, RtFlags, StopRunnerTasks, markRunningTaskStopping
  <2> QED BY <1>31, <2>1, NoTaskType DEF StopRunnerTasks, ShutdownFrame, Bounds, GateFree, StopTaskRecord, stopContainerIDs, Watched, Running, PhaseInv, TaskTypeOK, Unadopted, Early, Completed, Starting, Alive
<1>32. CASE Flush
  BY <1>32 DEF Flush, Watched, Running, PhaseInv, TaskTypeOK, Unadopted, Early, Completed, Starting, Alive
<1>33. CASE Crash
  BY <1>33 DEF Crash, LaunchAt, NoTask, Watched, Running, PhaseInv, TaskTypeOK, Unadopted, Early, Completed, Starting, Alive
<1>34. CASE recoverTask
  <2>1. rt'.ids = Present
    BY <1>34, RtRecovered DEF TaskTypeOK, RtFlags, recoverTask
  <2> QED BY <1>34, <2>1 DEF recoverTask, Bounds, LaunchAt, Present, Watched, Running, PhaseInv, TaskTypeOK, Unadopted, Early, Completed, Starting, Alive
<1>36. CASE ListingFails
  BY <1>36 DEF ListingFails, Bounds, LaunchAt, Watched, Running, PhaseInv, TaskTypeOK, Unadopted, Early, Completed, Starting, Alive
<1>35. CASE cleanupOrphanContainer
  BY <1>35 DEF cleanupOrphanContainer, Bounds, LaunchAt, Present, Watched, Running, PhaseInv, TaskTypeOK, Unadopted, Early, Completed, Starting, Alive
<1> QED BY <1>1, <1>2, <1>3, <1>4, <1>5, <1>6, <1>7, <1>8, <1>9, <1>10, <1>11, <1>12, <1>13, <1>14, <1>15, <1>16, <1>17, <1>18, <1>19, <1>20, <1>21, <1>22, <1>23, <1>24, <1>25, <1>26, <1>27, <1>28, <1>29, <1>30, <1>31, <1>32, <1>33, <1>34, <1>35, <1>36 DEF TaskNext

LEMMA CountedCard ==
  IsFiniteSet(Counted) /\ Cardinality(Counted) \in Nat /\ IsFiniteSet(Counted')
<1>1. Counted \subseteq Containers /\ Counted' \subseteq Containers
  BY DEF Counted
<1> QED BY <1>1, FS_Subset, FS_CardinalityType, ECSTaskAssumption

LEMMA CountedZero ==
  /\ Cardinality(Counted) <= 0 => Counted = {}
  /\ Cardinality(Counted') <= 0 => Counted' = {}
<1>1. Cardinality(Counted') \in Nat
  BY CountedCard, FS_CardinalityType
<1> QED BY <1>1, CountedCard, FS_EmptySet

LEMMA CountedStep ==
  ASSUME TaskTypeOK, PhaseInv, CountedInv, TaskNext
  PROVE  CountedInv'
<1>1. CASE Launch
  <2>1. Counted' = Counted
    BY <1>1 DEF Launch, LaunchFrame, Bounds, LaunchAt, Stopped, Counted, Watched, Running, PhaseInv, TaskTypeOK, Unadopted, Early, Starting, Alive
  <2> QED BY <1>1, <2>1 DEF Launch, LaunchFrame, Bounds, LaunchAt, Stopped, CountedInv, Watched, Running, PhaseInv, TaskTypeOK, Unadopted, Early, Completed, Unfinished
<1>2. CASE NewTaskRecord
  <2>1. Counted' = Counted
    BY <1>2 DEF NewTaskRecord, LaunchFrame, Bounds, LaunchAt, Counted, Watched, Running, PhaseInv, TaskTypeOK, Unadopted, Early, Starting, Alive
  <2> QED BY <1>2, <2>1 DEF NewTaskRecord, LaunchFrame, Bounds, LaunchAt, CountedInv, Watched, Running, PhaseInv, TaskTypeOK, Unadopted, Early, Completed, Unfinished
<1>3. CASE Track
  <2>1. Counted' = {}
    BY <1>3 DEF Track, LaunchFrame, Bounds, LaunchAt, Counted, Watched, Running, PhaseInv, TaskTypeOK, Unadopted, Early, Starting, Alive
  <2>2. rt'.remaining = 0 /\ ~rt'.complete /\ rt'.tracked
    BY <1>3, RtTracked DEF TaskTypeOK, RtFlags, Track
  <2> QED BY <1>3, <2>1, <2>2, FS_EmptySet DEF Track, LaunchFrame, Bounds, LaunchAt, CountedInv, Watched, Running, PhaseInv, TaskTypeOK, Unadopted, Early, Completed, Unfinished
<1>4. CASE Recheck
  <2>1. Counted' = Counted
    BY <1>4 DEF Recheck, LaunchFrame, Bounds, LaunchAt, Counted, Watched, Running, PhaseInv, TaskTypeOK, Unadopted, Early, Starting, Alive
  <2>2. rt'.remaining = rt.remaining /\ rt'.complete = rt.complete /\ rt'.tracked = rt.tracked
    BY <1>4 DEF TaskTypeOK, RtFlags, Recheck, RtRecord
  <2> QED BY <1>4, <2>1, <2>2 DEF Recheck, LaunchFrame, Bounds, LaunchAt, CountedInv, Watched, Running, PhaseInv, TaskTypeOK, Unadopted, Early, Completed, Unfinished
<1>5. CASE VolumesFail
  <2>1. Counted' = Counted
    BY <1>5 DEF VolumesFail, LaunchFrame, Bounds, LaunchAt, Counted, Watched, Running, PhaseInv, TaskTypeOK, Unadopted, Early, Starting, Alive
  <2> QED BY <1>5, <2>1 DEF VolumesFail, LaunchFrame, Bounds, LaunchAt, CountedInv, Watched, Running, PhaseInv, TaskTypeOK, Unadopted, Early, Completed, Unfinished
<1>6. CASE startContainers
  <2>1. Counted' = Counted
    BY <1>6 DEF startContainers, LaunchFrame, Bounds, LaunchAt, Counted, Watched, Running, PhaseInv, TaskTypeOK, Unadopted, Early, Starting, Alive
  <2> QED BY <1>6, <2>1 DEF startContainers, LaunchFrame, Bounds, LaunchAt, CountedInv, Watched, Running, PhaseInv, TaskTypeOK, Unadopted, Early, Completed, Unfinished
<1>7. CASE LaunchFailed
  <2>1. Counted' = Counted
    BY <1>7 DEF LaunchFailed, LaunchFrame, Bounds, LaunchAt, Counted, Watched, Running, PhaseInv, TaskTypeOK, Unadopted, Early, Starting, Alive
  <2>2. rt'.remaining = rt.remaining /\ rt'.complete = rt.complete /\ rt'.tracked = rt.tracked
    BY <1>7, RtStopped DEF TaskTypeOK, RtFlags, LaunchFailed, markRunningTaskStopping
  <2> QED BY <1>7, <2>1, <2>2 DEF LaunchFailed, LaunchFrame, Bounds, LaunchAt, CountedInv, Watched, Running, PhaseInv, TaskTypeOK, Unadopted, Early, Completed, Unfinished
<1>8. CASE setTaskStatusAfterLaunchFailure
  <2>1. Counted' = Counted
    BY <1>8 DEF setTaskStatusAfterLaunchFailure, LaunchFrame, Bounds, LaunchAt, Counted, Watched, Running, PhaseInv, TaskTypeOK, Unadopted, Early, Starting, Alive
  <2> QED BY <1>8, <2>1 DEF setTaskStatusAfterLaunchFailure, LaunchFrame, Bounds, LaunchAt, CountedInv, Watched, Running, PhaseInv, TaskTypeOK, Unadopted, Early, Completed, Unfinished
<1>9. CASE FailedComplete
  <2>1. Counted' = Counted
    BY <1>9 DEF FailedComplete, CompleteLaunch, LaunchFrame, Counted
  <2>2. rt'.remaining = rt.remaining /\ rt'.tracked = rt.tracked /\ rt'.complete
    BY <1>9, RtCompleted DEF FailedComplete, CompleteLaunch, TaskTypeOK, RtFlags
  <2>3. launch'.pc = "stopping"
    BY <1>9 DEF FailedComplete, CompleteLaunch
  <2>4. finish' # "no" => Counted' = {}
    BY <1>9, <2>1, CountedZero DEF FailedComplete, CompleteLaunch, CountedInv
  <2> QED BY <1>9, <2>1, <2>2, <2>3, <2>4 DEF CountedInv, Unfinished, Completed
<1>10. CASE StartedComplete
  <2>1. Counted' = Counted
    BY <1>10 DEF StartedComplete, CompleteLaunch, LaunchFrame, Counted
  <2>2. rt'.remaining = rt.remaining /\ rt'.tracked = rt.tracked /\ rt'.complete
    BY <1>10, RtCompleted DEF StartedComplete, CompleteLaunch, TaskTypeOK, RtFlags
  <2>3. launch'.pc = "settling"
    BY <1>10 DEF StartedComplete, CompleteLaunch
  <2>4. finish' # "no" => Counted' = {}
    BY <1>10, <2>1, CountedZero DEF StartedComplete, CompleteLaunch, CountedInv
  <2> QED BY <1>10, <2>1, <2>2, <2>3, <2>4 DEF CountedInv, Unfinished, Completed
<1>11. CASE Settle
  <2>1. Counted' = Counted
    BY <1>11 DEF Settle, LaunchFrame, Bounds, LaunchAt, Stopped, Counted, Watched, Running, PhaseInv, TaskTypeOK, Unadopted, Early, Starting, Alive
  <2>2. rt'.remaining = rt.remaining /\ rt'.complete = rt.complete /\ rt'.tracked = rt.tracked
    BY <1>11, RtStopped DEF TaskTypeOK, RtFlags, Settle, markRunningTaskStopping
  <2> QED BY <1>11, <2>1, <2>2 DEF Settle, LaunchFrame, Bounds, LaunchAt, Stopped, CountedInv, Watched, Running, PhaseInv, TaskTypeOK, Unadopted, Early, Completed, Unfinished
<1>12. CASE Unsettle
  <2>1. Counted' = Counted
    BY <1>12 DEF Unsettle, LaunchFrame, Bounds, LaunchAt, Counted, Watched, Running, PhaseInv, TaskTypeOK, Unadopted, Early, Starting, Alive
  <2> QED BY <1>12, <2>1 DEF Unsettle, LaunchFrame, Bounds, LaunchAt, CountedInv, Watched, Running, PhaseInv, TaskTypeOK, Unadopted, Early, Completed, Unfinished
<1>13. CASE LaunchStops
  <2>1. Counted' = Counted
    BY <1>13 DEF LaunchStops, LaunchFrame, Bounds, LaunchAt, Counted, Watched, Running, PhaseInv, TaskTypeOK, Unadopted, Early, Starting, Alive
  <2> QED BY <1>13, <2>1 DEF LaunchStops, LaunchFrame, Bounds, LaunchAt, CountedInv, Watched, Running, PhaseInv, TaskTypeOK, Unadopted, Early, Completed, Unfinished
<1>14. ASSUME NEW c \in Containers, startContainer(c) PROVE CountedInv'
  <2>1. Counted' = Counted
    BY <1>14 DEF startContainer, StarterFrame, Bounds, Stopped, Counted, Watched, Running, PhaseInv, TaskTypeOK, Unadopted, Early, Starting, Alive
  <2> QED BY <1>14, <2>1 DEF startContainer, StarterFrame, Bounds, Stopped, CountedInv, Watched, Running, PhaseInv, TaskTypeOK, Unadopted, Early, Completed, Unfinished
<1>15. ASSUME NEW c \in Containers, CreateContainer(c) PROVE CountedInv'
  <2>1. Counted' = Counted
    BY <1>15 DEF CreateContainer, StarterFrame, Bounds, Counted, Watched, Running, PhaseInv, TaskTypeOK, Unadopted, Early, Starting, Alive
  <2> QED BY <1>15, <2>1 DEF CreateContainer, StarterFrame, Bounds, CountedInv, Watched, Running, PhaseInv, TaskTypeOK, Unadopted, Early, Completed, Unfinished
<1>16. ASSUME NEW c \in Containers, StartFails(c) PROVE CountedInv'
  <2>1. Counted' = Counted
    BY <1>16 DEF StartFails, StarterFrame, Bounds, Counted, Watched, Running, PhaseInv, TaskTypeOK, Unadopted, Early, Starting, Alive
  <2> QED BY <1>16, <2>1 DEF StartFails, StarterFrame, Bounds, CountedInv, Watched, Running, PhaseInv, TaskTypeOK, Unadopted, Early, Completed, Unfinished
<1>17. ASSUME NEW c \in Containers, RegisterContainer(c) PROVE CountedInv'
  <2>1. Counted' = Counted \cup {c} /\ c \notin Counted
    BY <1>17 DEF RegisterContainer, StarterFrame, Counted, Watched, Running, PhaseInv, TaskTypeOK, Starting, Alive
  <2>2. rt'.remaining = rt.remaining + 1 /\ rt'.complete = rt.complete /\ rt'.tracked = rt.tracked
    BY <1>17, RtRegistered DEF TaskTypeOK, RtFlags
  <2>3. Cardinality(Counted') = Cardinality(Counted) + 1
    BY <2>1, CountedCard, FS_AddElement
  <2>4. launch.pc = "starting" /\ UNCHANGED <<launch, finish>>
    BY <1>17 DEF RegisterContainer, StarterFrame, Watched, Running, PhaseInv, Starting
  <2>5. rt.tracked /\ ~rt.complete /\ finish = "no"
    BY <2>4 DEF CountedInv, Unfinished, Completed
  <2> QED BY <2>2, <2>3, <2>4, <2>5 DEF CountedInv
<1>18. ASSUME NEW c \in Containers, spawnLifecycle(c) PROVE CountedInv'
  <2>1. Counted' = Counted
    BY <1>18 DEF spawnLifecycle, StarterFrame, Bounds, Counted, Watched, Running, PhaseInv, TaskTypeOK, Unadopted, Early, Starting, Alive
  <2> QED BY <1>18, <2>1 DEF spawnLifecycle, StarterFrame, Bounds, CountedInv, Watched, Running, PhaseInv, TaskTypeOK, Unadopted, Early, Completed, Unfinished
<1>19. ASSUME NEW c \in Containers, ContainerExits(c) PROVE CountedInv'
  <2>1. Counted' = Counted
    BY <1>19 DEF ContainerExits, LifeFrame, Bounds, Counted, Watched, Running, PhaseInv, TaskTypeOK, Unadopted, Early, Starting, Alive
  <2> QED BY <1>19, <2>1 DEF ContainerExits, LifeFrame, Bounds, CountedInv, Watched, Running, PhaseInv, TaskTypeOK, Unadopted, Early, Completed, Unfinished
<1>20. ASSUME NEW c \in Containers, handleEssentialContainerExit(c) PROVE CountedInv'
  <2>1. Counted' = Counted
    BY <1>20 DEF handleEssentialContainerExit, LifeFrame, Bounds, Stopped, Counted, Watched, Running, PhaseInv, TaskTypeOK, Unadopted, Early, Starting, Alive
  <2>2. rt'.remaining = rt.remaining /\ rt'.complete = rt.complete /\ rt'.tracked = rt.tracked
    BY <1>20, RtEssential DEF TaskTypeOK, RtFlags
  <2> QED BY <1>20, <2>1, <2>2 DEF handleEssentialContainerExit, LifeFrame, Bounds, Stopped, CountedInv, Watched, Running, PhaseInv, TaskTypeOK, Unadopted, Early, Completed, Unfinished
<1>21. ASSUME NEW c \in Containers, StopSiblings(c) PROVE CountedInv'
  <2>1. Counted' = Counted
    BY <1>21 DEF StopSiblings, LifeFrame, Bounds, Counted, Watched, Running, PhaseInv, TaskTypeOK, Unadopted, Early, Starting, Alive
  <2> QED BY <1>21, <2>1 DEF StopSiblings, LifeFrame, Bounds, CountedInv, Watched, Running, PhaseInv, TaskTypeOK, Unadopted, Early, Completed, Unfinished
<1>22. ASSUME NEW c \in Containers, RemoveContainer(c) PROVE CountedInv'
  <2>1. Counted' = Counted
    BY <1>22 DEF RemoveContainer, LifeFrame, Bounds, Counted, Watched, Running, PhaseInv, TaskTypeOK, Unadopted, Early, Starting, Alive
  <2>2. rt'.remaining = rt.remaining /\ rt'.complete = rt.complete /\ rt'.tracked = rt.tracked
    BY <1>22, RtRemoved DEF TaskTypeOK, RtFlags, RemoveContainer
  <2> QED BY <1>22, <2>1, <2>2 DEF RemoveContainer, LifeFrame, Bounds, CountedInv, Watched, Running, PhaseInv, TaskTypeOK, Unadopted, Early, Completed, Unfinished
<1>23. ASSUME NEW c \in Containers, onContainerFinished(c) PROVE CountedInv'
  <2>1. Counted' = Counted \ {c} /\ c \in Counted
    BY <1>23 DEF onContainerFinished, LifeFrame, Counted, Watched, Running, PhaseInv, TaskTypeOK, Starting, Alive
  <2>2. rt'.remaining = rt.remaining - 1 /\ rt'.complete = rt.complete /\ rt'.tracked = rt.tracked
    BY <1>23, RtFinished DEF onContainerFinished, TaskTypeOK, RtFlags
  <2>3. Cardinality(Counted') = Cardinality(Counted) - 1
    BY <2>1, CountedCard, FS_RemoveElement
  <2>4. rt'.remaining = Cardinality(Counted')
    BY <2>2, <2>3 DEF CountedInv
  <2>5. finish' # "no" => rt'.complete /\ Counted' = {}
    <3>1. finish = "no" /\ UNCHANGED launch /\ rt.tracked
      BY <1>23, <2>1 DEF CountedInv, onContainerFinished, LifeFrame
    <3>2. ASSUME finish' # "no" PROVE rt.complete /\ rt.remaining - 1 <= 0
      BY <1>23, <3>1, <3>2 DEF onContainerFinished
    <3> QED BY <3>2, <2>2, <2>4, CountedZero
  <2> QED BY <1>23, <2>1, <2>2, <2>4, <2>5 DEF CountedInv, onContainerFinished, LifeFrame
<1>24. CASE FinishStatus
  <2>1. Counted' = Counted
    BY <1>24 DEF FinishStatus, FinishFrame, Bounds, Counted, Watched, Running, PhaseInv, TaskTypeOK, Unadopted, Early, Starting, Alive
  <2> QED BY <1>24, <2>1 DEF FinishStatus, FinishFrame, Bounds, CountedInv, Watched, Running, PhaseInv, TaskTypeOK, Unadopted, Early, Completed, Unfinished
<1>25. CASE FinishDesired
  <2>1. Counted' = Counted
    BY <1>25 DEF FinishDesired, FinishFrame, Bounds, Counted, Watched, Running, PhaseInv, TaskTypeOK, Unadopted, Early, Starting, Alive
  <2> QED BY <1>25, <2>1 DEF FinishDesired, FinishFrame, Bounds, CountedInv, Watched, Running, PhaseInv, TaskTypeOK, Unadopted, Early, Completed, Unfinished
<1>26. CASE FinishUntrack
  <2>1. Counted' = Counted
    BY <1>26 DEF FinishUntrack, FinishFrame, Bounds, Counted, Watched, Running, PhaseInv, TaskTypeOK, Unadopted, Early, Starting, Alive
  <2>2. rt'.remaining = rt.remaining /\ rt'.complete = rt.complete
    BY <1>26, RtUntracked DEF TaskTypeOK, RtFlags, FinishUntrack
  <2> QED BY <1>26, <2>1, <2>2 DEF FinishUntrack, FinishFrame, Bounds, CountedInv, Watched, Running, PhaseInv, TaskTypeOK, Unadopted, Early, Completed, Unfinished
<1>27. CASE StopTask
  <2>1. Counted' = Counted
    BY <1>27 DEF StopTask, StopFrame, Counted, Watched, Running, PhaseInv, TaskTypeOK, Unadopted, Early, Starting, Alive
  <2> QED BY <1>27, <2>1 DEF StopTask, StopFrame, CountedInv, Watched, Running, PhaseInv, TaskTypeOK, Unadopted, Early, Completed, Unfinished
<1>28. CASE StopLookup
  <2>1. Counted' = Counted
    BY <1>28 DEF StopLookup, StopFrame, Bounds, Counted, Watched, Running, PhaseInv, TaskTypeOK, Unadopted, Early, Starting, Alive
  <2>2. rt'.remaining = rt.remaining /\ rt'.complete = rt.complete /\ rt'.tracked = rt.tracked
    BY <1>28, RtStopped DEF TaskTypeOK, RtFlags, StopLookup, markRunningTaskStopping
  <2> QED BY <1>28, <2>1, <2>2 DEF StopLookup, StopFrame, Bounds, CountedInv, Watched, Running, PhaseInv, TaskTypeOK, Unadopted, Early, Completed, Unfinished
<1>29. CASE StopSnapshot
  <2>1. Counted' = Counted
    BY <1>29 DEF StopSnapshot, StopFrame, Bounds, Counted, Watched, Running, PhaseInv, TaskTypeOK, Unadopted, Early, Starting, Alive
  <2> QED BY <1>29, <2>1 DEF StopSnapshot, StopFrame, Bounds, CountedInv, Watched, Running, PhaseInv, TaskTypeOK, Unadopted, Early, Completed, Unfinished
<1>30. CASE StopRunner
  <2>1. Counted' = Counted
    BY <1>30 DEF StopRunner, ShutdownFrame, Bounds, Counted, Watched, Running, PhaseInv, TaskTypeOK, Unadopted, Early, Starting, Alive
  <2> QED BY <1>30, <2>1 DEF StopRunner, ShutdownFrame, Bounds, CountedInv, Watched, Running, PhaseInv, TaskTypeOK, Unadopted, Early, Completed, Unfinished
<1>31. CASE StopRunnerTasks
  <2>1. Counted' = Counted
    BY <1>31 DEF StopRunnerTasks, ShutdownFrame, Bounds, GateFree, Counted, Watched, Running, PhaseInv, TaskTypeOK, Unadopted, Early, Starting, Alive
  <2>2. rt'.remaining = rt.remaining /\ rt'.complete = rt.complete /\ rt'.tracked = rt.tracked
    BY <1>31, RtStopped DEF TaskTypeOK, RtFlags, StopRunnerTasks, markRunningTaskStopping
  <2> QED BY <1>31, <2>1, <2>2 DEF StopRunnerTasks, ShutdownFrame, Bounds, GateFree, CountedInv, Watched, Running, PhaseInv, TaskTypeOK, Unadopted, Early, Completed, Unfinished
<1>32. CASE Flush
  <2>1. Counted' = Counted
    BY <1>32 DEF Flush, Counted, Watched, Running, PhaseInv, TaskTypeOK, Unadopted, Early, Starting, Alive
  <2> QED BY <1>32, <2>1 DEF Flush, CountedInv, Watched, Running, PhaseInv, TaskTypeOK, Unadopted, Early, Completed, Unfinished
<1>33. CASE Crash
  <2>1. Counted' = {}
    BY <1>33 DEF Crash, Counted, Alive
  <2>2. rt'.remaining = 0 /\ ~rt'.complete /\ ~rt'.tracked
    BY <1>33, NoTaskType DEF Crash
  <2>3. launch'.pc = "crashed" /\ finish' = "no"
    BY <1>33 DEF Crash, LaunchAt
  <2> QED BY <2>1, <2>2, <2>3, FS_EmptySet DEF CountedInv, Unfinished
<1>34. CASE recoverTask
  <2>1. Counted' = Present
    BY <1>34 DEF recoverTask, Counted, Present, Watched, Running, PhaseInv, TaskTypeOK, Unadopted, Early, Starting, Alive
  <2>2. /\ rt'.remaining = Cardinality(Present) /\ rt'.complete /\ rt'.tracked = (Present # {})
        /\ launch'.pc = "done" /\ finish' = "no"
    BY <1>34, RtRecovered, NoTaskType DEF recoverTask, LaunchAt, Watched, Running, Unadopted, PhaseInv, CountedInv
  <2> QED BY <2>1, <2>2 DEF CountedInv, Unfinished, Completed
<1>36. CASE ListingFails
  <2>1. Counted' = Counted
    BY <1>36 DEF ListingFails, Counted
  <2> QED BY <1>36, <2>1 DEF ListingFails, LaunchAt, CountedInv, PhaseInv, Unadopted, Early, Completed, Unfinished
<1>35. CASE cleanupOrphanContainer
  <2>1. Counted' = Counted
    BY <1>35 DEF cleanupOrphanContainer, Bounds, LaunchAt, Present, Counted, Watched, Running, PhaseInv, TaskTypeOK, Unadopted, Early, Starting, Alive
  <2> QED BY <1>35, <2>1 DEF cleanupOrphanContainer, Bounds, LaunchAt, Present, CountedInv, Watched, Running, PhaseInv, TaskTypeOK, Unadopted, Early, Completed, Unfinished
<1> QED BY <1>1, <1>2, <1>3, <1>4, <1>5, <1>6, <1>7, <1>8, <1>9, <1>10, <1>11, <1>12, <1>13, <1>14, <1>15, <1>16, <1>17, <1>18, <1>19, <1>20, <1>21, <1>22, <1>23, <1>24, <1>25, <1>26, <1>27, <1>28, <1>29, <1>30, <1>31, <1>32, <1>33, <1>34, <1>35, <1>36 DEF TaskNext

(* Where a container that runs in the runner's hand is. *)
LEMMA WatchedFacts ==
  ASSUME TaskTypeOK, PhaseInv, NEW c \in Watched
  PROVE  /\ c \in Containers
         /\ starter[c] = "created" \/ (c \in rt.ids /\ c \in Counted)
         /\ launch.pc # "starting" => c \in rt.ids /\ c \in Counted
         /\ launch.pc \notin Early \cup Unadopted
BY DEF Watched, Running, Counted, TaskTypeOK, PhaseInv, Unadopted, Early, Starting, Alive

LEMMA StopStep ==
  ASSUME TaskTypeOK, PhaseInv, CountedInv, RequestedInv, DesiredInv, SweptInv, TaskNext
  PROVE  StopInv'
<1>1. CASE Launch
  <2>2. RequestedInv'
    BY <1>1, WatchedFacts DEF Launch, LaunchFrame, Bounds, LaunchAt, Stopped, RequestedInv, Handled, Watched, Running, PhaseInv, CountedInv, TaskTypeOK, Unadopted, Early, Unfinished, Completed, Starting, Alive
  <2>3. DesiredInv'
    BY <1>1, WatchedFacts DEF Launch, LaunchFrame, Bounds, LaunchAt, Stopped, DesiredInv, Watched, Running, PhaseInv, CountedInv, TaskTypeOK, Unadopted, Early, Unfinished, Completed, Starting, Alive
  <2>4. SweptInv'
    BY <1>1, WatchedFacts DEF Launch, LaunchFrame, Bounds, LaunchAt, Stopped, SweptInv, Watched, Running, PhaseInv, CountedInv, TaskTypeOK, Unadopted, Early, Unfinished, Completed, Starting, Alive
  <2> QED BY <2>2, <2>3, <2>4 DEF StopInv
<1>2. CASE NewTaskRecord
  <2>2. RequestedInv'
    BY <1>2, WatchedFacts DEF NewTaskRecord, LaunchFrame, Bounds, LaunchAt, RequestedInv, Handled, Watched, Running, PhaseInv, CountedInv, TaskTypeOK, Unadopted, Early, Unfinished, Completed, Starting, Alive
  <2>3. DesiredInv'
    BY <1>2, WatchedFacts DEF NewTaskRecord, LaunchFrame, Bounds, LaunchAt, DesiredInv, Watched, Running, PhaseInv, CountedInv, TaskTypeOK, Unadopted, Early, Unfinished, Completed, Starting, Alive
  <2>4. SweptInv'
    BY <1>2, WatchedFacts DEF NewTaskRecord, LaunchFrame, Bounds, LaunchAt, SweptInv, Watched, Running, PhaseInv, CountedInv, TaskTypeOK, Unadopted, Early, Unfinished, Completed, Starting, Alive
  <2> QED BY <2>2, <2>3, <2>4 DEF StopInv
<1>3. CASE Track
  <2>1. ~rt'.stopRequested /\ ~rt'.essentialExited
    BY <1>3, RtTracked DEF TaskTypeOK, RtFlags, Track
  <2>2. RequestedInv'
    BY <1>3, <2>1, WatchedFacts DEF Track, LaunchFrame, Bounds, LaunchAt, RequestedInv, Handled, Watched, Running, PhaseInv, CountedInv, TaskTypeOK, Unadopted, Early, Unfinished, Completed, Starting, Alive
  <2>3. DesiredInv'
    BY <1>3, <2>1, WatchedFacts DEF Track, LaunchFrame, Bounds, LaunchAt, DesiredInv, Watched, Running, PhaseInv, CountedInv, TaskTypeOK, Unadopted, Early, Unfinished, Completed, Starting, Alive
  <2>4. SweptInv'
    BY <1>3, <2>1, WatchedFacts DEF Track, LaunchFrame, Bounds, LaunchAt, SweptInv, Watched, Running, PhaseInv, CountedInv, TaskTypeOK, Unadopted, Early, Unfinished, Completed, Starting, Alive
  <2> QED BY <2>2, <2>3, <2>4 DEF StopInv
<1>4. CASE Recheck
  <2>1. /\ rt'.stopRequested = (rt.stopRequested \/ record.desired = "STOPPED")
        /\ rt'.siblings = rt.siblings /\ rt'.essentialExited = rt.essentialExited
    BY <1>4 DEF TaskTypeOK, RtFlags, Recheck, RtRecord
  <2>2. RequestedInv'
    BY <1>4, <2>1, WatchedFacts DEF Recheck, LaunchFrame, Bounds, LaunchAt, RequestedInv, Handled, Watched, Running, PhaseInv, CountedInv, TaskTypeOK, Unadopted, Early, Unfinished, Completed, Starting, Alive
  <2>3. DesiredInv'
    BY <1>4, <2>1, WatchedFacts DEF Recheck, LaunchFrame, Bounds, LaunchAt, DesiredInv, Watched, Running, PhaseInv, CountedInv, TaskTypeOK, Unadopted, Early, Unfinished, Completed, Starting, Alive
  <2>4. SweptInv'
    BY <1>4, <2>1, WatchedFacts DEF Recheck, LaunchFrame, Bounds, LaunchAt, SweptInv, Watched, Running, PhaseInv, CountedInv, TaskTypeOK, Unadopted, Early, Unfinished, Completed, Starting, Alive
  <2> QED BY <2>2, <2>3, <2>4 DEF StopInv
<1>5. CASE VolumesFail
  <2>2. RequestedInv'
    BY <1>5, WatchedFacts DEF VolumesFail, LaunchFrame, Bounds, LaunchAt, RequestedInv, Handled, Watched, Running, PhaseInv, CountedInv, TaskTypeOK, Unadopted, Early, Unfinished, Completed, Starting, Alive
  <2>3. DesiredInv'
    BY <1>5, WatchedFacts DEF VolumesFail, LaunchFrame, Bounds, LaunchAt, DesiredInv, Watched, Running, PhaseInv, CountedInv, TaskTypeOK, Unadopted, Early, Unfinished, Completed, Starting, Alive
  <2>4. SweptInv'
    BY <1>5, WatchedFacts DEF VolumesFail, LaunchFrame, Bounds, LaunchAt, SweptInv, Watched, Running, PhaseInv, CountedInv, TaskTypeOK, Unadopted, Early, Unfinished, Completed, Starting, Alive
  <2> QED BY <2>2, <2>3, <2>4 DEF StopInv
<1>6. CASE startContainers
  <2>2. RequestedInv'
    BY <1>6, WatchedFacts DEF startContainers, LaunchFrame, Bounds, LaunchAt, RequestedInv, Handled, Watched, Running, PhaseInv, CountedInv, TaskTypeOK, Unadopted, Early, Unfinished, Completed, Starting, Alive
  <2>3. DesiredInv'
    BY <1>6, WatchedFacts DEF startContainers, LaunchFrame, Bounds, LaunchAt, DesiredInv, Watched, Running, PhaseInv, CountedInv, TaskTypeOK, Unadopted, Early, Unfinished, Completed, Starting, Alive
  <2>4. SweptInv'
    BY <1>6, WatchedFacts DEF startContainers, LaunchFrame, Bounds, LaunchAt, SweptInv, Watched, Running, PhaseInv, CountedInv, TaskTypeOK, Unadopted, Early, Unfinished, Completed, Starting, Alive
  <2> QED BY <2>2, <2>3, <2>4 DEF StopInv
<1>7. CASE LaunchFailed
  <2>1. rt'.stopRequested /\ rt'.siblings = rt.siblings /\ rt'.essentialExited = rt.essentialExited
    BY <1>7, RtStopped DEF TaskTypeOK, RtFlags, LaunchFailed, markRunningTaskStopping
  <2>2. RequestedInv'
    BY <1>7, <2>1, WatchedFacts DEF LaunchFailed, LaunchFrame, Bounds, LaunchAt, RequestedInv, Handled, Watched, Running, PhaseInv, CountedInv, TaskTypeOK, Unadopted, Early, Unfinished, Completed, Starting, Alive
  <2>3. DesiredInv'
    BY <1>7, <2>1, WatchedFacts DEF LaunchFailed, LaunchFrame, Bounds, LaunchAt, DesiredInv, Watched, Running, PhaseInv, CountedInv, TaskTypeOK, Unadopted, Early, Unfinished, Completed, Starting, Alive
  <2>4. SweptInv'
    BY <1>7, <2>1, WatchedFacts DEF LaunchFailed, LaunchFrame, Bounds, LaunchAt, SweptInv, Watched, Running, PhaseInv, CountedInv, TaskTypeOK, Unadopted, Early, Unfinished, Completed, Starting, Alive
  <2> QED BY <2>2, <2>3, <2>4 DEF StopInv
<1>8. CASE setTaskStatusAfterLaunchFailure
  <2>2. RequestedInv'
    BY <1>8, WatchedFacts DEF setTaskStatusAfterLaunchFailure, LaunchFrame, Bounds, LaunchAt, SetTaskStatus, RequestedInv, Handled, Watched, Running, PhaseInv, CountedInv, TaskTypeOK, Unadopted, Early, Unfinished, Completed, Starting, Alive
  <2>3. DesiredInv'
    BY <1>8, WatchedFacts DEF setTaskStatusAfterLaunchFailure, LaunchFrame, Bounds, LaunchAt, SetTaskStatus, DesiredInv, Watched, Running, PhaseInv, CountedInv, TaskTypeOK, Unadopted, Early, Unfinished, Completed, Starting, Alive
  <2>4. SweptInv'
    BY <1>8, WatchedFacts DEF setTaskStatusAfterLaunchFailure, LaunchFrame, Bounds, LaunchAt, SetTaskStatus, SweptInv, Watched, Running, PhaseInv, CountedInv, TaskTypeOK, Unadopted, Early, Unfinished, Completed, Starting, Alive
  <2> QED BY <2>2, <2>3, <2>4 DEF StopInv
<1>9. CASE FailedComplete
  <2>1. rt'.stopRequested = rt.stopRequested /\ rt'.siblings = rt.siblings /\ rt'.essentialExited = rt.essentialExited
    BY <1>9, RtCompleted DEF TaskTypeOK, RtFlags, FailedComplete, CompleteLaunch
  <2>2. RequestedInv'
    BY <1>9, <2>1, WatchedFacts DEF FailedComplete, LaunchFrame, Bounds, LaunchAt, CompleteLaunch, RequestedInv, Handled, Watched, Running, PhaseInv, CountedInv, TaskTypeOK, Unadopted, Early, Unfinished, Completed, Starting, Alive
  <2>3. DesiredInv'
    BY <1>9, <2>1, WatchedFacts DEF FailedComplete, LaunchFrame, Bounds, LaunchAt, CompleteLaunch, DesiredInv, Watched, Running, PhaseInv, CountedInv, TaskTypeOK, Unadopted, Early, Unfinished, Completed, Starting, Alive
  <2>4. SweptInv'
    BY <1>9, <2>1, WatchedFacts DEF FailedComplete, LaunchFrame, Bounds, LaunchAt, CompleteLaunch, SweptInv, Watched, Running, PhaseInv, CountedInv, TaskTypeOK, Unadopted, Early, Unfinished, Completed, Starting, Alive
  <2> QED BY <2>2, <2>3, <2>4 DEF StopInv
<1>10. CASE StartedComplete
  <2>1. rt'.stopRequested = rt.stopRequested /\ rt'.siblings = rt.siblings /\ rt'.essentialExited = rt.essentialExited
    BY <1>10, RtCompleted DEF TaskTypeOK, RtFlags, StartedComplete, CompleteLaunch
  <2>2. RequestedInv'
    BY <1>10, <2>1, WatchedFacts DEF StartedComplete, LaunchFrame, Bounds, LaunchAt, CompleteLaunch, RequestedInv, Handled, Watched, Running, PhaseInv, CountedInv, TaskTypeOK, Unadopted, Early, Unfinished, Completed, Starting, Alive
  <2>3. DesiredInv'
    BY <1>10, <2>1, WatchedFacts DEF StartedComplete, LaunchFrame, Bounds, LaunchAt, CompleteLaunch, DesiredInv, Watched, Running, PhaseInv, CountedInv, TaskTypeOK, Unadopted, Early, Unfinished, Completed, Starting, Alive
  <2>4. SweptInv'
    BY <1>10, <2>1, WatchedFacts DEF StartedComplete, LaunchFrame, Bounds, LaunchAt, CompleteLaunch, SweptInv, Watched, Running, PhaseInv, CountedInv, TaskTypeOK, Unadopted, Early, Unfinished, Completed, Starting, Alive
  <2> QED BY <2>2, <2>3, <2>4 DEF StopInv
<1>11. CASE Settle
  <2>1. (rt' = rt \/ rt'.stopRequested) /\ rt'.siblings = rt.siblings /\ rt'.essentialExited = rt.essentialExited
    BY <1>11, RtStopped DEF TaskTypeOK, RtFlags, Settle, markRunningTaskStopping
  <2>2. RequestedInv'
    BY <1>11, <2>1, WatchedFacts DEF Settle, LaunchFrame, Bounds, LaunchAt, Stopped, SetTaskStatus, RequestedInv, Handled, Watched, Running, PhaseInv, CountedInv, TaskTypeOK, Unadopted, Early, Unfinished, Completed, Starting, Alive
  <2>3. DesiredInv'
    <3>1. record'.desired = record.desired
      BY <1>11 DEF Settle, SetTaskStatus, TaskTypeOK, TaskRecords
    <3>2. launch.pc = "settling" /\ launch'.pc \in {"done", "unsettled"}
      BY <1>11 DEF Settle, LaunchAt
    <3>3. UNCHANGED <<docker, asked, stopper, life>>
      BY <1>11 DEF Settle, LaunchFrame
    <3> QED BY <2>1, <3>1, <3>2, <3>3 DEF DesiredInv, Watched, Running, Unadopted, Completed
  <2>4. SweptInv'
    BY <1>11, <2>1, WatchedFacts DEF Settle, LaunchFrame, Bounds, LaunchAt, Stopped, SetTaskStatus, SweptInv, Watched, Running, PhaseInv, CountedInv, TaskTypeOK, Unadopted, Early, Unfinished, Completed, Starting, Alive
  <2> QED BY <2>2, <2>3, <2>4 DEF StopInv
<1>12. CASE Unsettle
  <2>2. RequestedInv'
    BY <1>12, WatchedFacts DEF Unsettle, LaunchFrame, Bounds, LaunchAt, SetTaskStatus, RequestedInv, Handled, Watched, Running, PhaseInv, CountedInv, TaskTypeOK, Unadopted, Early, Unfinished, Completed, Starting, Alive
  <2>3. DesiredInv'
    BY <1>12, WatchedFacts DEF Unsettle, LaunchFrame, Bounds, LaunchAt, SetTaskStatus, DesiredInv, Watched, Running, PhaseInv, CountedInv, TaskTypeOK, Unadopted, Early, Unfinished, Completed, Starting, Alive
  <2>4. SweptInv'
    BY <1>12, WatchedFacts DEF Unsettle, LaunchFrame, Bounds, LaunchAt, SetTaskStatus, SweptInv, Watched, Running, PhaseInv, CountedInv, TaskTypeOK, Unadopted, Early, Unfinished, Completed, Starting, Alive
  <2> QED BY <2>2, <2>3, <2>4 DEF StopInv
<1>13. CASE LaunchStops
  <2>2. RequestedInv'
    BY <1>13, WatchedFacts DEF LaunchStops, LaunchFrame, Bounds, LaunchAt, stopContainerIDs, RequestedInv, Handled, Watched, Running, PhaseInv, CountedInv, TaskTypeOK, Unadopted, Early, Unfinished, Completed, Starting, Alive
  <2>3. DesiredInv'
    BY <1>13, WatchedFacts DEF LaunchStops, LaunchFrame, Bounds, LaunchAt, stopContainerIDs, DesiredInv, Watched, Running, PhaseInv, CountedInv, TaskTypeOK, Unadopted, Early, Unfinished, Completed, Starting, Alive
  <2>4. SweptInv'
    BY <1>13, WatchedFacts DEF LaunchStops, LaunchFrame, Bounds, LaunchAt, stopContainerIDs, SweptInv, Watched, Running, PhaseInv, CountedInv, TaskTypeOK, Unadopted, Early, Unfinished, Completed, Starting, Alive
  <2> QED BY <2>2, <2>3, <2>4 DEF StopInv
<1>14. ASSUME NEW c \in Containers, startContainer(c) PROVE StopInv'
  <2>2. RequestedInv'
    BY <1>14, WatchedFacts DEF startContainer, StarterFrame, Bounds, Stopped, RequestedInv, Handled, Watched, Running, PhaseInv, CountedInv, TaskTypeOK, Unadopted, Early, Unfinished, Completed, Starting, Alive
  <2>3. DesiredInv'
    BY <1>14, WatchedFacts DEF startContainer, StarterFrame, Bounds, Stopped, DesiredInv, Watched, Running, PhaseInv, CountedInv, TaskTypeOK, Unadopted, Early, Unfinished, Completed, Starting, Alive
  <2>4. SweptInv'
    BY <1>14, WatchedFacts DEF startContainer, StarterFrame, Bounds, Stopped, SweptInv, Watched, Running, PhaseInv, CountedInv, TaskTypeOK, Unadopted, Early, Unfinished, Completed, Starting, Alive
  <2> QED BY <2>2, <2>3, <2>4 DEF StopInv
<1>15. ASSUME NEW c \in Containers, CreateContainer(c) PROVE StopInv'
  <2>2. RequestedInv'
    BY <1>15, WatchedFacts DEF CreateContainer, StarterFrame, Bounds, RequestedInv, Handled, Watched, Running, PhaseInv, CountedInv, TaskTypeOK, Unadopted, Early, Unfinished, Completed, Starting, Alive
  <2>3. DesiredInv'
    BY <1>15, WatchedFacts DEF CreateContainer, StarterFrame, Bounds, DesiredInv, Watched, Running, PhaseInv, CountedInv, TaskTypeOK, Unadopted, Early, Unfinished, Completed, Starting, Alive
  <2>4. SweptInv'
    BY <1>15, WatchedFacts DEF CreateContainer, StarterFrame, Bounds, SweptInv, Watched, Running, PhaseInv, CountedInv, TaskTypeOK, Unadopted, Early, Unfinished, Completed, Starting, Alive
  <2> QED BY <2>2, <2>3, <2>4 DEF StopInv
<1>16. ASSUME NEW c \in Containers, StartFails(c) PROVE StopInv'
  <2>2. RequestedInv'
    BY <1>16, WatchedFacts DEF StartFails, StarterFrame, Bounds, RequestedInv, Handled, Watched, Running, PhaseInv, CountedInv, TaskTypeOK, Unadopted, Early, Unfinished, Completed, Starting, Alive
  <2>3. DesiredInv'
    BY <1>16, WatchedFacts DEF StartFails, StarterFrame, Bounds, DesiredInv, Watched, Running, PhaseInv, CountedInv, TaskTypeOK, Unadopted, Early, Unfinished, Completed, Starting, Alive
  <2>4. SweptInv'
    BY <1>16, WatchedFacts DEF StartFails, StarterFrame, Bounds, SweptInv, Watched, Running, PhaseInv, CountedInv, TaskTypeOK, Unadopted, Early, Unfinished, Completed, Starting, Alive
  <2> QED BY <2>2, <2>3, <2>4 DEF StopInv
<1>17. ASSUME NEW c \in Containers, RegisterContainer(c) PROVE StopInv'
  <2>1. rt'.stopRequested = rt.stopRequested /\ rt'.siblings = rt.siblings /\ rt'.essentialExited = rt.essentialExited
    BY <1>17, RtRegistered DEF TaskTypeOK, RtFlags
  <2>2. RequestedInv'
    BY <1>17, <2>1, WatchedFacts DEF RegisterContainer, StarterFrame, Bounds, Stopped, RequestedInv, Handled, Watched, Running, PhaseInv, CountedInv, TaskTypeOK, Unadopted, Early, Unfinished, Completed, Starting, Alive
  <2>3. DesiredInv'
    BY <1>17, <2>1, WatchedFacts DEF RegisterContainer, StarterFrame, Bounds, Stopped, DesiredInv, Watched, Running, PhaseInv, CountedInv, TaskTypeOK, Unadopted, Early, Unfinished, Completed, Starting, Alive
  <2>4. SweptInv'
    BY <1>17, <2>1, WatchedFacts DEF RegisterContainer, StarterFrame, Bounds, Stopped, SweptInv, Watched, Running, PhaseInv, CountedInv, TaskTypeOK, Unadopted, Early, Unfinished, Completed, Starting, Alive
  <2> QED BY <2>2, <2>3, <2>4 DEF StopInv
<1>18. ASSUME NEW c \in Containers, spawnLifecycle(c) PROVE StopInv'
  <2>2. RequestedInv'
    BY <1>18, WatchedFacts DEF spawnLifecycle, StarterFrame, Bounds, stopContainerIDs, RequestedInv, Handled, Watched, Running, PhaseInv, CountedInv, TaskTypeOK, Unadopted, Early, Unfinished, Completed, Starting, Alive
  <2>3. DesiredInv'
    BY <1>18, WatchedFacts DEF spawnLifecycle, StarterFrame, Bounds, stopContainerIDs, DesiredInv, Watched, Running, PhaseInv, CountedInv, TaskTypeOK, Unadopted, Early, Unfinished, Completed, Starting, Alive
  <2>4. SweptInv'
    BY <1>18, WatchedFacts DEF spawnLifecycle, StarterFrame, Bounds, stopContainerIDs, SweptInv, Watched, Running, PhaseInv, CountedInv, TaskTypeOK, Unadopted, Early, Unfinished, Completed, Starting, Alive
  <2> QED BY <2>2, <2>3, <2>4 DEF StopInv
<1>19. ASSUME NEW c \in Containers, ContainerExits(c) PROVE StopInv'
  <2>2. RequestedInv'
    BY <1>19, WatchedFacts DEF ContainerExits, LifeFrame, Bounds, RequestedInv, Handled, Watched, Running, PhaseInv, CountedInv, TaskTypeOK, Unadopted, Early, Unfinished, Completed, Starting, Alive
  <2>3. DesiredInv'
    BY <1>19, WatchedFacts DEF ContainerExits, LifeFrame, Bounds, DesiredInv, Watched, Running, PhaseInv, CountedInv, TaskTypeOK, Unadopted, Early, Unfinished, Completed, Starting, Alive
  <2>4. SweptInv'
    BY <1>19, WatchedFacts DEF ContainerExits, LifeFrame, Bounds, SweptInv, Watched, Running, PhaseInv, CountedInv, TaskTypeOK, Unadopted, Early, Unfinished, Completed, Starting, Alive
  <2> QED BY <2>2, <2>3, <2>4 DEF StopInv
<1>20. ASSUME NEW c \in Containers, handleEssentialContainerExit(c) PROVE StopInv'
  <2>1. \/ rt' = rt /\ life' = [life EXCEPT ![c] = "draining"]
        \/ /\ rt'.stopRequested /\ rt'.essentialExited /\ rt'.siblings = rt.ids \ {c}
           /\ life' = [life EXCEPT ![c] = "essential"]
    BY <1>20, RtEssential DEF RtFlags
  <2>2. RequestedInv'
    BY <1>20, <2>1, WatchedFacts DEF handleEssentialContainerExit, LifeFrame, Bounds, Stopped, RequestedInv, Handled, Watched, Running, PhaseInv, CountedInv, TaskTypeOK, Unadopted, Early, Unfinished, Completed, Starting, Alive
  <2>3. DesiredInv'
    BY <1>20, <2>1, WatchedFacts DEF handleEssentialContainerExit, LifeFrame, Bounds, Stopped, DesiredInv, Watched, Running, PhaseInv, CountedInv, TaskTypeOK, Unadopted, Early, Unfinished, Completed, Starting, Alive
  <2>4. SweptInv'
    BY <1>20, <2>1, WatchedFacts DEF handleEssentialContainerExit, LifeFrame, Bounds, Stopped, SweptInv, Watched, Running, PhaseInv, CountedInv, TaskTypeOK, Unadopted, Early, Unfinished, Completed, Starting, Alive
  <2> QED BY <2>2, <2>3, <2>4 DEF StopInv
<1>21. ASSUME NEW c \in Containers, StopSiblings(c) PROVE StopInv'
  <2>2. RequestedInv'
    BY <1>21, WatchedFacts DEF StopSiblings, LifeFrame, Bounds, StopTaskRecord, stopContainerIDs, RequestedInv, Handled, Watched, Running, PhaseInv, CountedInv, TaskTypeOK, Unadopted, Early, Unfinished, Completed, Starting, Alive
  <2>3. DesiredInv'
    BY <1>21, WatchedFacts DEF StopSiblings, LifeFrame, Bounds, StopTaskRecord, stopContainerIDs, DesiredInv, RequestedInv, Watched, Running, PhaseInv, CountedInv, TaskTypeOK, Unadopted, Early, Unfinished, Completed, Starting, Alive
  <2>4. SweptInv'
    BY <1>21, WatchedFacts DEF StopSiblings, LifeFrame, Bounds, StopTaskRecord, stopContainerIDs, SweptInv, Watched, Running, PhaseInv, CountedInv, TaskTypeOK, Unadopted, Early, Unfinished, Completed, Starting, Alive
  <2> QED BY <2>2, <2>3, <2>4 DEF StopInv
<1>22. ASSUME NEW c \in Containers, RemoveContainer(c) PROVE StopInv'
  <2>1. rt'.stopRequested = rt.stopRequested /\ rt'.siblings = rt.siblings /\ rt'.essentialExited = rt.essentialExited
    BY <1>22, RtRemoved DEF TaskTypeOK, RtFlags, RemoveContainer
  <2>2. RequestedInv'
    BY <1>22, <2>1, WatchedFacts DEF RemoveContainer, LifeFrame, Bounds, RequestedInv, Handled, Watched, Running, PhaseInv, CountedInv, TaskTypeOK, Unadopted, Early, Unfinished, Completed, Starting, Alive
  <2>3. DesiredInv'
    BY <1>22, <2>1, WatchedFacts DEF RemoveContainer, LifeFrame, Bounds, DesiredInv, Watched, Running, PhaseInv, CountedInv, TaskTypeOK, Unadopted, Early, Unfinished, Completed, Starting, Alive
  <2>4. SweptInv'
    BY <1>22, <2>1, WatchedFacts DEF RemoveContainer, LifeFrame, Bounds, SweptInv, Watched, Running, PhaseInv, CountedInv, TaskTypeOK, Unadopted, Early, Unfinished, Completed, Starting, Alive
  <2> QED BY <2>2, <2>3, <2>4 DEF StopInv
<1>23. ASSUME NEW c \in Containers, onContainerFinished(c) PROVE StopInv'
  <2>1. rt'.stopRequested = rt.stopRequested /\ rt'.siblings = rt.siblings /\ rt'.essentialExited = rt.essentialExited
    BY <1>23, RtFinished DEF TaskTypeOK, RtFlags, onContainerFinished
  <2>2. RequestedInv'
    BY <1>23, <2>1, WatchedFacts DEF onContainerFinished, LifeFrame, Bounds, RequestedInv, Handled, Watched, Running, PhaseInv, CountedInv, TaskTypeOK, Unadopted, Early, Unfinished, Completed, Starting, Alive
  <2>3. DesiredInv'
    BY <1>23, <2>1, WatchedFacts DEF onContainerFinished, LifeFrame, Bounds, DesiredInv, Watched, Running, PhaseInv, CountedInv, TaskTypeOK, Unadopted, Early, Unfinished, Completed, Starting, Alive
  <2>4. SweptInv'
    BY <1>23, <2>1, WatchedFacts DEF onContainerFinished, LifeFrame, Bounds, SweptInv, Watched, Running, PhaseInv, CountedInv, TaskTypeOK, Unadopted, Early, Unfinished, Completed, Starting, Alive
  <2> QED BY <2>2, <2>3, <2>4 DEF StopInv
<1>24. CASE FinishStatus
  <2>2. RequestedInv'
    BY <1>24, WatchedFacts DEF FinishStatus, FinishFrame, Bounds, SetTaskStatus, RequestedInv, Handled, Watched, Running, PhaseInv, CountedInv, TaskTypeOK, Unadopted, Early, Unfinished, Completed, Starting, Alive
  <2>3. DesiredInv'
    BY <1>24, WatchedFacts DEF FinishStatus, FinishFrame, Bounds, SetTaskStatus, DesiredInv, Watched, Running, PhaseInv, CountedInv, TaskTypeOK, Unadopted, Early, Unfinished, Completed, Starting, Alive
  <2>4. SweptInv'
    BY <1>24, WatchedFacts DEF FinishStatus, FinishFrame, Bounds, SetTaskStatus, SweptInv, Watched, Running, PhaseInv, CountedInv, TaskTypeOK, Unadopted, Early, Unfinished, Completed, Starting, Alive
  <2> QED BY <2>2, <2>3, <2>4 DEF StopInv
<1>25. CASE FinishDesired
  <2>2. RequestedInv'
    BY <1>25, WatchedFacts DEF FinishDesired, FinishFrame, Bounds, StopTaskRecord, RequestedInv, Handled, Watched, Running, PhaseInv, CountedInv, TaskTypeOK, Unadopted, Early, Unfinished, Completed, Starting, Alive
  <2>3. DesiredInv'
    BY <1>25, WatchedFacts DEF FinishDesired, FinishFrame, Bounds, StopTaskRecord, DesiredInv, Watched, Running, PhaseInv, CountedInv, TaskTypeOK, Unadopted, Early, Unfinished, Completed, Starting, Alive
  <2>4. SweptInv'
    BY <1>25, WatchedFacts DEF FinishDesired, FinishFrame, Bounds, StopTaskRecord, SweptInv, Watched, Running, PhaseInv, CountedInv, TaskTypeOK, Unadopted, Early, Unfinished, Completed, Starting, Alive
  <2> QED BY <2>2, <2>3, <2>4 DEF StopInv
<1>26. CASE FinishUntrack
  <2>1. rt'.stopRequested = rt.stopRequested /\ rt'.siblings = rt.siblings /\ rt'.essentialExited = rt.essentialExited
    BY <1>26, RtUntracked DEF TaskTypeOK, RtFlags, FinishUntrack
  <2>2. RequestedInv'
    BY <1>26, <2>1, WatchedFacts DEF FinishUntrack, FinishFrame, Bounds, RequestedInv, Handled, Watched, Running, PhaseInv, CountedInv, TaskTypeOK, Unadopted, Early, Unfinished, Completed, Starting, Alive
  <2>3. DesiredInv'
    BY <1>26, <2>1, WatchedFacts DEF FinishUntrack, FinishFrame, Bounds, DesiredInv, Watched, Running, PhaseInv, CountedInv, TaskTypeOK, Unadopted, Early, Unfinished, Completed, Starting, Alive
  <2>4. SweptInv'
    BY <1>26, <2>1, WatchedFacts DEF FinishUntrack, FinishFrame, Bounds, SweptInv, Watched, Running, PhaseInv, CountedInv, TaskTypeOK, Unadopted, Early, Unfinished, Completed, Starting, Alive
  <2> QED BY <2>2, <2>3, <2>4 DEF StopInv
<1>27. CASE StopTask
  <2>2. RequestedInv'
    BY <1>27, WatchedFacts DEF StopTask, StopFrame, StopTaskRecord, RequestedInv, Handled, Watched, Running, PhaseInv, CountedInv, TaskTypeOK, Unadopted, Early, Unfinished, Completed, Starting, Alive
  <2>3. DesiredInv'
    BY <1>27, WatchedFacts DEF StopTask, StopFrame, StopTaskRecord, DesiredInv, Watched, Running, PhaseInv, CountedInv, TaskTypeOK, Unadopted, Early, Unfinished, Completed, Starting, Alive
  <2>4. SweptInv'
    BY <1>27, WatchedFacts DEF StopTask, StopFrame, StopTaskRecord, SweptInv, Watched, Running, PhaseInv, CountedInv, TaskTypeOK, Unadopted, Early, Unfinished, Completed, Starting, Alive
  <2> QED BY <2>2, <2>3, <2>4 DEF StopInv
<1>28. CASE StopLookup
  <2>1. (rt' = rt \/ rt'.stopRequested) /\ rt'.siblings = rt.siblings /\ rt'.essentialExited = rt.essentialExited
    BY <1>28, RtStopped DEF TaskTypeOK, RtFlags, StopLookup, markRunningTaskStopping
  <2>2. RequestedInv'
    BY <1>28, <2>1, WatchedFacts DEF StopLookup, StopFrame, Bounds, RequestedInv, Handled, Watched, Running, PhaseInv, CountedInv, TaskTypeOK, Unadopted, Early, Unfinished, Completed, Starting, Alive
  <2>3. DesiredInv'
    <3>1. UNCHANGED <<record, launch, docker, asked, life>> /\ stopper = "recorded"
      BY <1>28 DEF StopLookup, StopFrame
    <3>2. CASE rt.tracked
      BY <1>28, <3>2, RtStopped DEF StopLookup, markRunningTaskStopping, TaskTypeOK, RtFlags, DesiredInv
    <3>3. CASE ~rt.tracked
      <4>1. Counted = {} /\ launch.pc \notin Unfinished /\ launch.pc \notin {"free", "admitted"}
        BY <3>1, <3>3 DEF CountedInv, Watched, Running, PhaseInv
      <4>2. CASE launch.pc \in Completed
        <5>1. Watched = {}
          BY <4>1, <4>2, WatchedFacts DEF Completed
        <5> QED BY <3>1, <4>2, <5>1 DEF DesiredInv, Watched, Running
      <4>3. CASE launch.pc \in {"recorded", "tracked"} \cup Unadopted
        BY <3>1, <4>3 DEF DesiredInv
      <4> QED BY <4>1, <4>2, <4>3 DEF TaskTypeOK, LaunchPcs, Unadopted, Early, Unfinished
    <3> QED BY <3>2, <3>3
  <2>4. SweptInv'
    BY <1>28, <2>1, WatchedFacts DEF StopLookup, StopFrame, Bounds, SweptInv, Watched, Running, PhaseInv, CountedInv, TaskTypeOK, Unadopted, Early, Unfinished, Completed, Starting, Alive
  <2> QED BY <2>2, <2>3, <2>4 DEF StopInv
<1>29. CASE StopSnapshot
  <2>2. RequestedInv'
    <3>1. UNCHANGED <<rt, launch, starter, docker, life>> /\ asked' = asked \cup rt.ids
      BY <1>29 DEF StopSnapshot, StopFrame, stopContainerIDs
    <3>2. ASSUME rt.stopRequested, NEW d \in Watched PROVE Handled(d)'
      <4>1. starter[d] = "created" \/ d \in rt.ids
        BY WatchedFacts
      <4> QED BY <3>1, <4>1 DEF Handled
    <3> QED BY <3>1, <3>2 DEF RequestedInv, Watched, Running
  <2>3. DesiredInv'
    BY <1>29, WatchedFacts DEF StopSnapshot, StopFrame, Bounds, stopContainerIDs, DesiredInv, Watched, Running, PhaseInv, CountedInv, TaskTypeOK, Unadopted, Early, Unfinished, Completed, Starting, Alive
  <2>4. SweptInv'
    BY <1>29, WatchedFacts DEF StopSnapshot, StopFrame, Bounds, stopContainerIDs, SweptInv, Watched, Running, PhaseInv, CountedInv, TaskTypeOK, Unadopted, Early, Unfinished, Completed, Starting, Alive
  <2> QED BY <2>2, <2>3, <2>4 DEF StopInv
<1>30. CASE StopRunner
  <2>2. RequestedInv'
    BY <1>30, WatchedFacts DEF StopRunner, ShutdownFrame, Bounds, RequestedInv, Handled, Watched, Running, PhaseInv, CountedInv, TaskTypeOK, Unadopted, Early, Unfinished, Completed, Starting, Alive
  <2>3. DesiredInv'
    BY <1>30, WatchedFacts DEF StopRunner, ShutdownFrame, Bounds, DesiredInv, Watched, Running, PhaseInv, CountedInv, TaskTypeOK, Unadopted, Early, Unfinished, Completed, Starting, Alive
  <2>4. SweptInv'
    BY <1>30, WatchedFacts DEF StopRunner, ShutdownFrame, Bounds, SweptInv, Watched, Running, PhaseInv, CountedInv, TaskTypeOK, Unadopted, Early, Unfinished, Completed, Starting, Alive
  <2> QED BY <2>2, <2>3, <2>4 DEF StopInv
<1>31. CASE StopRunnerTasks
  <2>1. (rt' = rt \/ rt'.stopRequested) /\ rt'.siblings = rt.siblings /\ rt'.essentialExited = rt.essentialExited
    BY <1>31, RtStopped DEF TaskTypeOK, RtFlags, StopRunnerTasks, markRunningTaskStopping
  <2>2. RequestedInv'
    BY <1>31, <2>1, WatchedFacts DEF StopRunnerTasks, ShutdownFrame, Bounds, GateFree, StopTaskRecord, stopContainerIDs, RequestedInv, Handled, Watched, Running, PhaseInv, CountedInv, TaskTypeOK, Unadopted, Early, Unfinished, Completed, Starting, Alive
  <2>3. DesiredInv'
    BY <1>31, <2>1, WatchedFacts DEF StopRunnerTasks, ShutdownFrame, Bounds, GateFree, StopTaskRecord, stopContainerIDs, DesiredInv, Watched, Running, PhaseInv, CountedInv, TaskTypeOK, Unadopted, Early, Unfinished, Completed, Starting, Alive
  <2>4. SweptInv'
    BY <1>31, <2>1, WatchedFacts DEF StopRunnerTasks, ShutdownFrame, Bounds, GateFree, StopTaskRecord, stopContainerIDs, SweptInv, Watched, Running, PhaseInv, CountedInv, TaskTypeOK, Unadopted, Early, Unfinished, Completed, Starting, Alive
  <2> QED BY <2>2, <2>3, <2>4 DEF StopInv
<1>32. CASE Flush
  <2>2. RequestedInv'
    BY <1>32, WatchedFacts DEF Flush, RequestedInv, Handled, Watched, Running, PhaseInv, CountedInv, TaskTypeOK, Unadopted, Early, Unfinished, Completed, Starting, Alive
  <2>3. DesiredInv'
    BY <1>32, WatchedFacts DEF Flush, DesiredInv, Watched, Running, PhaseInv, CountedInv, TaskTypeOK, Unadopted, Early, Unfinished, Completed, Starting, Alive
  <2>4. SweptInv'
    BY <1>32, WatchedFacts DEF Flush, SweptInv, Watched, Running, PhaseInv, CountedInv, TaskTypeOK, Unadopted, Early, Unfinished, Completed, Starting, Alive
  <2> QED BY <2>2, <2>3, <2>4 DEF StopInv
<1>33. CASE Crash
  <2>1. ~rt'.stopRequested /\ ~rt'.essentialExited
    BY <1>33, NoTaskType DEF TaskTypeOK, RtFlags, Crash
  <2>2. RequestedInv'
    BY <1>33, <2>1, WatchedFacts DEF Crash, LaunchAt, RequestedInv, Handled, Watched, Running, PhaseInv, CountedInv, TaskTypeOK, Unadopted, Early, Unfinished, Completed, Starting, Alive
  <2>3. DesiredInv'
    BY <1>33, <2>1, WatchedFacts DEF Crash, LaunchAt, DesiredInv, Watched, Running, PhaseInv, CountedInv, TaskTypeOK, Unadopted, Early, Unfinished, Completed, Starting, Alive
  <2>4. SweptInv'
    BY <1>33, <2>1, WatchedFacts DEF Crash, LaunchAt, SweptInv, Watched, Running, PhaseInv, CountedInv, TaskTypeOK, Unadopted, Early, Unfinished, Completed, Starting, Alive
  <2> QED BY <2>2, <2>3, <2>4 DEF StopInv
<1>34. CASE recoverTask
  <2>1. ~rt'.stopRequested /\ ~rt'.essentialExited
    BY <1>34, RtRecovered DEF TaskTypeOK, RtFlags
  <2>2. RequestedInv'
    BY <1>34, <2>1, WatchedFacts DEF recoverTask, Bounds, LaunchAt, Present, RequestedInv, Handled, Watched, Running, PhaseInv, CountedInv, TaskTypeOK, Unadopted, Early, Unfinished, Completed, Starting, Alive
  <2>3. DesiredInv'
    BY <1>34, <2>1, WatchedFacts DEF recoverTask, Bounds, LaunchAt, Present, DesiredInv, Watched, Running, PhaseInv, CountedInv, TaskTypeOK, Unadopted, Early, Unfinished, Completed, Starting, Alive
  <2>4. SweptInv'
    BY <1>34, <2>1, WatchedFacts DEF recoverTask, Bounds, LaunchAt, Present, SweptInv, Watched, Running, PhaseInv, CountedInv, TaskTypeOK, Unadopted, Early, Unfinished, Completed, Starting, Alive
  <2> QED BY <2>2, <2>3, <2>4 DEF StopInv
<1>36. CASE ListingFails
  <2>2. RequestedInv'
    BY <1>36, WatchedFacts DEF ListingFails, Bounds, LaunchAt, RequestedInv, Handled, Watched, Running, PhaseInv, CountedInv, TaskTypeOK, Unadopted, Early, Unfinished, Completed, Starting, Alive
  <2>3. DesiredInv'
    BY <1>36, WatchedFacts DEF ListingFails, Bounds, LaunchAt, DesiredInv, Watched, Running, PhaseInv, CountedInv, TaskTypeOK, Unadopted, Early, Unfinished, Completed, Starting, Alive
  <2>4. SweptInv'
    BY <1>36, WatchedFacts DEF ListingFails, Bounds, LaunchAt, SweptInv, Watched, Running, PhaseInv, CountedInv, TaskTypeOK, Unadopted, Early, Unfinished, Completed, Starting, Alive
  <2> QED BY <2>2, <2>3, <2>4 DEF StopInv
<1>35. CASE cleanupOrphanContainer
  <2>2. RequestedInv'
    BY <1>35, WatchedFacts DEF cleanupOrphanContainer, Bounds, LaunchAt, Present, RequestedInv, Handled, Watched, Running, PhaseInv, CountedInv, TaskTypeOK, Unadopted, Early, Unfinished, Completed, Starting, Alive
  <2>3. DesiredInv'
    BY <1>35, WatchedFacts DEF cleanupOrphanContainer, Bounds, LaunchAt, Present, DesiredInv, Watched, Running, PhaseInv, CountedInv, TaskTypeOK, Unadopted, Early, Unfinished, Completed, Starting, Alive
  <2>4. SweptInv'
    BY <1>35, WatchedFacts DEF cleanupOrphanContainer, Bounds, LaunchAt, Present, SweptInv, Watched, Running, PhaseInv, CountedInv, TaskTypeOK, Unadopted, Early, Unfinished, Completed, Starting, Alive
  <2> QED BY <2>2, <2>3, <2>4 DEF StopInv
<1> QED BY <1>1, <1>2, <1>3, <1>4, <1>5, <1>6, <1>7, <1>8, <1>9, <1>10, <1>11, <1>12, <1>13, <1>14, <1>15, <1>16, <1>17, <1>18, <1>19, <1>20, <1>21, <1>22, <1>23, <1>24, <1>25, <1>26, <1>27, <1>28, <1>29, <1>30, <1>31, <1>32, <1>33, <1>34, <1>35, <1>36 DEF TaskNext

LEMMA TaskInvariant == TaskSpec => []TaskInv
<1>1. TaskInit => TaskInv
  <2> SUFFICES ASSUME TaskInit PROVE TaskInv
    OBVIOUS
  <2>1. launch \in [pc : LaunchPcs, remaining : Int, stopping : BOOLEAN] /\ launch.pc = "free"
    BY LaunchAtType DEF TaskInit, LaunchPcs, Early
  <2>2. TaskTypeOK
    <3>1. record \in TaskRecords /\ saved \in TaskRecords
      BY DEF TaskInit, NoRecord, TaskRecords
    <3> QED BY <2>1, <3>1, NoTaskType DEF TaskInit, TaskTypeOK
  <2>3. PhaseInv
    BY <2>1 DEF TaskInit, PhaseInv, Watched, Running, Unadopted, Early, Starting, Alive
  <2>4. Counted = {} /\ Watched = {}
    BY DEF TaskInit, Counted, Watched, Running, Alive
  <2>5. CountedInv
    BY <2>1, <2>4, NoTaskType, FS_EmptySet DEF TaskInit, CountedInv, Unfinished
  <2>6. StopInv
    BY <2>4, NoTaskType DEF TaskInit, NoRecord, StopInv, RequestedInv, DesiredInv, SweptInv
  <2> QED BY <2>2, <2>3, <2>5, <2>6 DEF TaskInv
<1>2. TaskInv /\ [TaskNext]_taskVars => TaskInv'
  <2> SUFFICES ASSUME TaskInv, [TaskNext]_taskVars PROVE TaskInv'
    OBVIOUS
  <2>1. CASE UNCHANGED taskVars
    BY <2>1 DEF taskVars, TaskInv, TaskTypeOK, PhaseInv, CountedInv, Counted, StopInv,
                RequestedInv, DesiredInv, SweptInv, Watched, Running, Handled
  <2>2. CASE TaskNext
    <3>1. TaskTypeOK'
      BY <2>2, TaskTypeStep DEF TaskInv
    <3>2. PhaseInv'
      BY <2>2, <3>1, PhaseStep DEF TaskInv
    <3>3. CountedInv'
      BY <2>2, CountedStep DEF TaskInv
    <3>4. StopInv'
      BY <2>2, StopStep DEF TaskInv, StopInv
    <3> QED BY <3>1, <3>2, <3>3, <3>4 DEF TaskInv
  <2> QED BY <2>1, <2>2
<1> QED BY <1>1, <1>2, PTL DEF TaskSpec

(* No container escapes a stop: once the task is to stop and no call is under *)
(* way, every container in the runner's hand that Docker runs has been asked  *)
(* to stop, also when Docker's calls for others fail (runner.go: stopTask,    *)
(* startContainer, handleEssentialContainerExit, Stop, recoverTask).          *)
THEOREM NothingEscapes == TaskSpec => []NoEscape
<1>1. TaskInv => NoEscape
  <2> SUFFICES ASSUME TaskInv, TaskQuiet, record.desired = "STOPPED" \/ shutdown = "swept"
               PROVE  Watched \subseteq asked
    BY DEF NoEscape
  <2>1. CASE shutdown = "swept"
    BY <2>1 DEF TaskInv, StopInv, SweptInv
  <2>2. CASE rt.stopRequested
    <3> SUFFICES ASSUME NEW c \in Watched PROVE c \in asked
      OBVIOUS
    <3>1. Handled(c)
      BY <2>2 DEF TaskInv, StopInv, RequestedInv
    <3>2. launch.pc = "done" /\ stopper = "free" /\ \A d \in Containers : life[d] # "essential"
      BY DEF TaskQuiet
    <3>3. starter[c] \notin Starting
      BY <3>2 DEF TaskInv, PhaseInv, Watched, Running
    <3> QED BY <3>1, <3>2, <3>3 DEF Handled, Starting
  <2>3. CASE record.desired = "STOPPED" /\ ~rt.stopRequested
    BY <2>3 DEF TaskInv, StopInv, DesiredInv, Unadopted, TaskQuiet
  <2> QED BY <2>1, <2>2, <2>3
<1> QED BY <1>1, TaskInvariant, PTL

(* While Docker runs a container in the runner's hand the runner tracks the   *)
(* task, and nobody has begun to finish it (runner.go: completeLaunch,        *)
(* onContainerFinished, finishTask).                                          *)
THEOREM AlwaysTracked == TaskSpec => []TrackedWhileRunning
<1>1. TaskInv => TrackedWhileRunning
  <2> SUFFICES ASSUME TaskInv, NEW c \in Watched
               PROVE  rt.tracked /\ finish = "no"
    BY DEF TrackedWhileRunning
  <2>1. TaskTypeOK /\ PhaseInv /\ CountedInv
    BY DEF TaskInv
  <2>2. CASE launch.pc = "starting"
    BY <2>1, <2>2 DEF CountedInv, Unfinished, Completed
  <2>3. CASE launch.pc # "starting"
    <3>1. c \in Counted
      BY <2>1, <2>3, WatchedFacts
    <3> QED BY <2>1, <3>1 DEF CountedInv
  <2> QED BY <2>2, <2>3
<1> QED BY <1>1, TaskInvariant, PTL

(* The state of the ECS task model keeps its types.                           *)
THEOREM TaskType == TaskSpec => []TaskTypeOK
BY TaskInvariant, PTL DEF TaskInv

-----------------------------------------------------------------------------
(* The interpreter.                                                          *)

FlowPcs == {"idle", "top", "dispatch", "exited", "backoff", "scheduled", "call", "answered",
            "launched", "poll", "polled", "join", "queued", "returned", "iterated", "joined"}
EcsAt == {"launched", "poll", "polled"}                     \* inside runECS, tasks launched
TaskAt == {"scheduled", "call", "answered"} \cup EcsAt      \* inside runTask
StateAt == {"top", "dispatch", "exited", "backoff", "join"} \cup TaskAt
RestAt == {"idle", "returned", "joined"}

StateNames == UNION {DOMAIN Machine[f] : f \in Flows}
FailsOf(f) == {s \in DOMAIN Machine[f] : Machine[f][s].type = "Fail"}
ErrorNames == {Ok, Aborted, "Runtime", "NoChoiceMatched", "TaskFailed", "Timeout", "Socket",
               "StatusCode", "BranchFailed"}
              \cup UNION {{Machine[f][s].error : s \in FailsOf(f)} : f \in Flows}
FlowRecord == [pc : FlowPcs, state : StateNames \cup {NoState}, next : StateNames \cup {End},
               err : ErrorNames, tries : Seq(Nat), late : BOOLEAN, seen : SUBSET Tasks]

(* The types of the interpreter's state. *)
ExecutionTypeOK ==
    /\ flow \in [Flows -> FlowRecord]
    /\ pending \subseteq Goroutines
    /\ task \in [Flows -> [Tasks -> {"none", "live", "stopped"}]]
    /\ stopAsked \in [Flows -> SUBSET Tasks]
    /\ cancelled \in BOOLEAN /\ expired \in BOOLEAN
    /\ main \in {"start", "spawn", "select", "parked", "ended"}
    /\ woken \in {"none", "done", "ctx"}
    /\ ended \in {"none", "SUCCEEDED", "FAILED", "TIMED_OUT", "ABORTED"}

(* A flow inside loop is in a state of its machine, of a type that fits where *)
(* it is, and the attempts it counts are those of that state.                 *)
Placed(f, r) ==
    /\ r \in FlowRecord
    /\ r.pc \in StateAt => r.state \in DOMAIN Machine[f]
    /\ r.pc = "exited" => r.next \in DOMAIN Machine[f] \cup {End}
    /\ r.pc \in TaskAt => Machine[f][r.state].type = "Task"
    /\ r.pc = "backoff" => Machine[f][r.state].type \in Working
    /\ r.pc = "join" => Machine[f][r.state].type \in Forking
    /\ r.tries # <<>> => /\ r.pc \in StateAt \ {"top", "exited"}
                         /\ DOMAIN r.tries = DOMAIN Machine[f][r.state].retry

(* Outside runECS every live task was asked to stop; inside, a task seen     *)
(* STOPPED is.                                                               *)
TasksKept(f) ==
    IF flow[f].pc \in EcsAt
    THEN \A i \in flow[f].seen : task[f][i] = "stopped"
    ELSE \A i \in Tasks : task[f][i] = "live" => i \in stopAsked[f]

(* A flow at rest holds no event.                                            *)
FlowInv ==
    \A f \in Flows : /\ Placed(f, flow[f])
                     /\ flow[f].pc \in RestAt => f \notin pending
                     /\ TasksKept(f)

(* A child that has not started or that its state need not wait for.         *)
AtRest(g) == flow[g].pc \in {"idle", IF g \in Items THEN "joined" ELSE "returned"}

(* A flow not at rest has a parent that waits for it in the state it is of.   *)
Awaited(g) ==
    \E f \in Flows : \E s \in DOMAIN Machine[f] :
        g \in Forks(f, s) /\ flow[f].pc = "join" /\ flow[f].state = s
TreeInv == \A g \in Children : AtRest(g) \/ Awaited(g)

RunInv ==
    /\ main \in {"start", "spawn"} => flow[Root].pc = "idle"
    /\ woken = "done" => flow[Root].pc = "returned"
    /\ main = "ended" => Main \notin pending

ExecutionInv == ExecutionTypeOK /\ FlowInv /\ TreeInv /\ RunInv

LEMMA ValidStates ==
  ASSUME NEW f \in Flows, NEW s \in DOMAIN Machine[f]
  PROVE  /\ validateState(f, Machine[f][s])
         /\ s \in StateNames
BY InterpreterAssumption DEF validateMachine, StateNames

LEMMA ForkFacts ==
  ASSUME NEW f \in Flows, NEW s \in DOMAIN Machine[f], NEW g \in Forks(f, s)
  PROVE  /\ g \in Children /\ g \in Flows /\ g # f /\ g # Root
         /\ Machine[f][s].type \in Forking
         /\ g \in Machine[f][s].flows
<1>1. Machine[f][s].type \in Forking /\ g \in Machine[f][s].flows
  BY DEF Forks
<1>2. g \in Children
  BY <1>1, ValidStates DEF validateState
<1>3. g # f
  <2>1. PICK depth \in [Flows -> 0..Cardinality(Children)] :
          \A e \in Flows : \A t \in DOMAIN Machine[e] :
              \A h \in Forks(e, t) : depth[e] < depth[h]
    BY InterpreterAssumption DEF Nested
  <2>2. depth[f] < depth[g]
    BY <2>1
  <2>3. depth[f] \in Int
    BY <2>1
  <2> QED BY <2>2, <2>3
<1> QED BY <1>1, <1>2, <1>3, InterpreterAssumption DEF Flows

LEMMA OneOwner ==
  ASSUME NEW f \in Flows, NEW s \in DOMAIN Machine[f], NEW e \in Flows, NEW t \in DOMAIN Machine[e],
         NEW g \in Forks(f, s), g \in Forks(e, t)
  PROVE  f = e /\ s = t
BY InterpreterAssumption DEF Nested

LEMMA ItemsAreChildren == Items \subseteq Children
<1>1. ASSUME NEW f \in Flows, NEW s \in DOMAIN Machine[f], NEW g \in ItemsOf(f, s)
      PROVE  g \in Children
  <2>1. g \in Forks(f, s)
    BY <1>1 DEF ItemsOf, Forks, Forking
  <2> QED BY <1>1, <2>1, ForkFacts
<1> QED BY <1>1 DEF Items

(* A step of f that changes no other flow.                                   *)
Moved(f) ==
    /\ flow' = [flow EXCEPT ![f] = flow'[f]]
    /\ Placed(f, flow'[f])
    /\ pending' \in {pending, pending \cup {f}}
    /\ flow'[f].pc \in RestAt => f \notin pending'

LEMMA MoveTo ==
  ASSUME flow \in [Flows -> FlowRecord], NEW f \in Flows, NEW r, Placed(f, r),
         flow' = [flow EXCEPT ![f] = r]
  PROVE  flow'[f] = r /\ flow' = [flow EXCEPT ![f] = flow'[f]]
OBVIOUS

LEMMA IdleTyped ==
  /\ IdleFlow \in FlowRecord
  /\ IdleFlow.pc = "idle" /\ IdleFlow.tries = <<>> /\ IdleFlow.seen = {}
<1>1. <<>> \in Seq(Nat) /\ {} \in SUBSET Tasks
  OBVIOUS
<1>3. Ok \in ErrorNames /\ "idle" \in FlowPcs
  BY DEF ErrorNames, FlowPcs
<1>2. NoState \in StateNames \cup {NoState} /\ End \in StateNames \cup {End} /\ FALSE \in BOOLEAN
  OBVIOUS
<1> QED BY <1>1, <1>2, <1>3 DEF IdleFlow, FlowRecord

LEMMA Returns ==
  ASSUME ExecutionTypeOK, NEW f \in Flows, NEW err \in ErrorNames, f \notin pending,
         Return(f, err), pending' = pending
  PROVE  Moved(f) /\ flow'[f].pc = "returned"
<1> DEFINE r == [IdleFlow EXCEPT !.pc = "returned", !.err = err]
<1>1. r.pc = "returned" /\ r.tries = <<>>
  BY IdleTyped DEF FlowRecord
<1>2. r \in FlowRecord
  BY IdleTyped DEF FlowRecord, FlowPcs
<1> HIDE DEF r
<1>3. Placed(f, r)
  BY <1>1, <1>2 DEF Placed, StateAt, TaskAt, EcsAt
<1>4. flow' = [flow EXCEPT ![f] = r]
  BY DEF Return, r
<1>5. flow'[f] = r /\ flow' = [flow EXCEPT ![f] = flow'[f]]
  BY <1>3, <1>4, MoveTo DEF ExecutionTypeOK
<1> QED BY <1>1, <1>3, <1>5 DEF Moved

LEMMA Exits ==
  ASSUME ExecutionTypeOK, NEW f \in Flows, Placed(f, flow[f]), flow[f].pc \in StateAt,
         NEW next \in DOMAIN Machine[f] \cup {End}, NEW err \in ErrorNames, Exit(f, next, err)
  PROVE  Moved(f) /\ flow'[f].pc = "exited"
<1> DEFINE r == [flow[f] EXCEPT !.pc = "exited", !.next = next, !.err = err, !.tries = <<>>]
<1>1. flow[f] \in FlowRecord
  BY DEF ExecutionTypeOK
<1>2. next \in StateNames \cup {End}
  BY ValidStates
<1>3. /\ r.pc = "exited" /\ r.next = next /\ r.err = err /\ r.tries = <<>>
      /\ r.state = flow[f].state
  BY <1>1 DEF FlowRecord
<1>4. r \in FlowRecord
  <2>1. <<>> \in Seq(Nat) /\ "exited" \in FlowPcs
    BY DEF FlowPcs
  <2> QED BY <1>1, <1>2, <2>1 DEF FlowRecord
<1>5. r.state \in DOMAIN Machine[f]
  BY <1>3 DEF Placed
<1>6. flow' = [flow EXCEPT ![f] = r]
  BY DEF Exit
<1> HIDE DEF r
<1>7. Placed(f, r)
  BY <1>3, <1>4, <1>5 DEF Placed, TaskAt, EcsAt
<1>8. flow'[f] = r /\ flow' = [flow EXCEPT ![f] = flow'[f]]
  BY <1>6, <1>7, MoveTo DEF ExecutionTypeOK
<1> QED BY <1>3, <1>7, <1>8 DEF Moved, Exit, emit, RestAt

LEMMA Goes ==
  ASSUME ExecutionTypeOK, NEW f \in Flows, Placed(f, flow[f]), NEW pc \in FlowPcs,
         FlowTo(f, pc), pc \notin {"exited", "backoff", "join", "top"},
         pc \in StateAt => flow[f].pc \in StateAt,
         pc \in TaskAt => Current(f).type = "Task",
         flow[f].pc \notin StateAt => pc \notin StateAt,
         flow[f].pc \in StateAt => pc \in StateAt
  PROVE  /\ flow' = [flow EXCEPT ![f] = flow'[f]] /\ Placed(f, flow'[f])
         /\ flow'[f].pc = pc /\ flow'[f].seen = flow[f].seen
<1> DEFINE r == [flow[f] EXCEPT !.pc = pc]
<1>1. flow[f] \in FlowRecord
  BY DEF ExecutionTypeOK
<1>2. /\ r.pc = pc /\ r.state = flow[f].state /\ r.tries = flow[f].tries
      /\ r.seen = flow[f].seen
  BY <1>1 DEF FlowRecord
<1>3. r \in FlowRecord
  BY <1>1 DEF FlowRecord
<1>4. flow' = [flow EXCEPT ![f] = r]
  BY DEF FlowTo
<1> HIDE DEF r
<1>5. Placed(f, r)
  BY <1>2, <1>3 DEF Placed, Current
<1>6. flow'[f] = r /\ flow' = [flow EXCEPT ![f] = flow'[f]]
  BY <1>4, <1>5, MoveTo DEF ExecutionTypeOK
<1> QED BY <1>2, <1>5, <1>6

LEMMA FailureMoves ==
  ASSUME ExecutionTypeOK, NEW f \in Flows, Placed(f, flow[f]), flow[f].pc \in StateAt,
         Current(f).type \in Working, NEW err \in ErrorNames, AfterFailure(f, err)
  PROVE  Moved(f) /\ flow'[f].pc \in {"exited", "backoff"}
<1> DEFINE name == toStateError(err)
           st == Current(f)
<1>1. name \in ErrorNames
  BY DEF toStateError, ErrorNames
<1>2. /\ flow[f].state \in DOMAIN Machine[f]
      /\ validateState(f, st)
  BY ValidStates DEF Placed, Current
<1>3. validateCatchers(f, st)
  BY <1>2 DEF validateState
<1>4. /\ st.retry \in Seq([errors : SUBSET STRING, max : Nat])
      /\ st.catch \in Seq([errors : SUBSET STRING, next : DOMAIN Machine[f]])
  BY <1>3 DEF validateCatchers
<1>5. CASE /\ Charged(f, name).retry
           /\ flow' = [flow EXCEPT ![f] = [@ EXCEPT !.pc = "backoff", !.tries = Charged(f, name).tries]]
           /\ NoEvent
  <2> DEFINE ts == Charged(f, name).tries
             r == [flow[f] EXCEPT !.pc = "backoff", !.tries = ts]
             old == IF flow[f].tries = <<>> THEN [i \in DOMAIN st.retry |-> 0] ELSE flow[f].tries
  <2>1. flow[f] \in FlowRecord
    BY DEF ExecutionTypeOK
  <2>2. flow[f].tries \in Seq(Nat)
    BY <2>1 DEF FlowRecord
  <2>3. flow[f].tries # <<>> => DOMAIN flow[f].tries = DOMAIN st.retry
    BY DEF Placed, Current
  <2>4. \A i \in DOMAIN st.retry : old[i] \in Nat
    BY <2>2, <2>3
  <2>5. /\ DOMAIN ts = DOMAIN st.retry
        /\ \A i \in DOMAIN st.retry : ts[i] = old[i] \/ ts[i] = old[i] + 1
    <3> HIDE DEF old
    <3> QED BY DEF Charged, old
  <2>6. ts \in [DOMAIN st.retry -> Nat]
    <3>1. \A i \in DOMAIN st.retry : ts[i] \in Nat
      <4> HIDE DEF old, ts, st
      <4> QED BY <2>4, <2>5
    <3>2. ts = [i \in DOMAIN st.retry |-> ts[i]]
      <4> HIDE DEF old
      <4> QED BY DEF Charged
    <3> HIDE DEF ts, st
    <3> QED BY <3>1, <3>2
  <2>7. ts \in Seq(Nat)
    <3>1. DOMAIN st.retry = 1..Len(st.retry) /\ Len(st.retry) \in Nat
      BY <1>4
    <3> HIDE DEF ts, st
    <3> QED BY <2>6, <3>1
  <2> HIDE DEF ts, old
  <2>8. r.pc = "backoff" /\ r.tries = ts /\ r.state = flow[f].state
    BY <2>1 DEF FlowRecord
  <2>9. r \in FlowRecord
    <3>1. "backoff" \in FlowPcs
      BY DEF FlowPcs
    <3> QED BY <2>1, <2>7, <3>1 DEF FlowRecord
  <2>10. flow' = [flow EXCEPT ![f] = r]
    BY <1>5 DEF ts
  <2> HIDE DEF r
  <2>11. DOMAIN ts = DOMAIN Machine[f][r.state].retry /\ Machine[f][r.state].type \in Working
    BY <2>5, <2>8 DEF Current
  <2>12. Placed(f, r)
    BY <1>2, <2>8, <2>9, <2>11 DEF Placed, StateAt, TaskAt, EcsAt
  <2>13. flow'[f] = r /\ flow' = [flow EXCEPT ![f] = flow'[f]]
    BY <2>10, <2>12, MoveTo DEF ExecutionTypeOK
  <2> QED BY <1>5, <2>8, <2>12, <2>13 DEF Moved, NoEvent, RestAt
<1>6. ASSUME NEW i \in Caught(f, name), NEW late \in {Ok, "Runtime"}, Exit(f, st.catch[i].next, late)
      PROVE  Moved(f) /\ flow'[f].pc = "exited"
  <2>1. i \in DOMAIN st.catch
    BY <1>6 DEF Caught
  <2>2. st.catch[i].next \in DOMAIN Machine[f]
    <3> DEFINE rules == st.catch
               Rule == [errors : SUBSET STRING, next : DOMAIN Machine[f]]
    <3>1. rules \in Seq(Rule) /\ i \in DOMAIN rules
      BY <1>4, <2>1
    <3>2. rules[i] \in Rule
      <4> HIDE DEF rules, Rule
      <4> QED BY <3>1
    <3> HIDE DEF rules
    <3>3. rules[i].next \in DOMAIN Machine[f]
      BY <3>2
    <3> QED BY <3>3 DEF rules
  <2>3. late \in ErrorNames
    BY DEF ErrorNames
  <2> QED BY <1>6, <2>2, <2>3, Exits
<1>7. CASE Exit(f, End, name)
  BY <1>1, <1>7, Exits
<1> QED BY <1>5, <1>6, <1>7 DEF AfterFailure

LEMMA WorkMoves ==
  ASSUME ExecutionTypeOK, NEW f \in Flows, Placed(f, flow[f]), flow[f].pc \in StateAt,
         Current(f).type \in Working, NEW err \in ErrorNames, AfterWork(f, err)
  PROVE  Moved(f) /\ flow'[f].pc \in {"exited", "backoff"}
<1>1. ASSUME NEW late \in {Ok, "Runtime"}, Exit(f, Current(f).next, late)
      PROVE  Moved(f) /\ flow'[f].pc = "exited"
  <2>1. flow[f].state \in DOMAIN Machine[f] /\ validateState(f, Current(f))
    BY ValidStates DEF Placed, Current
  <2>2. Current(f).next \in DOMAIN Machine[f] \cup {End}
    BY <2>1 DEF validateState, validateTransition, Working
  <2>3. late \in ErrorNames
    BY DEF ErrorNames
  <2> QED BY <1>1, <2>2, <2>3, Exits
<1>2. "Runtime" \in ErrorNames
  BY DEF ErrorNames
<1>3. ASSUME NEW e \in ErrorNames, AfterFailure(f, e)
      PROVE  Moved(f) /\ flow'[f].pc \in {"exited", "backoff"}
  BY <1>3, FailureMoves
<1> QED BY <1>1, <1>2, <1>3 DEF AfterWork

(* The steps of a flow inside loop, runECS and its waiting apart, that start  *)
(* no other flow.                                                            *)
LoopStep(f) ==
    \/ LoopTop(f) \/ LoopNext(f) \/ Backoff(f) \/ InputFails(f)
    \/ runPass(f) \/ runChoice(f) \/ runWait(f) \/ runSucceed(f) \/ runFail(f)
    \/ Scheduled(f) \/ Started(f) \/ runLambda(f) \/ runHTTP(f) \/ Answered(f)
    \/ NoItems(f) \/ Join(f)
    \/ IterationStart(f) \/ ItemFails(f) \/ IterationEnd(f) \/ ReleaseSemaphore(f)
EcsStep(f) ==
    \/ EcsRunTask(f) \/ EcsLaunched(f) \/ EcsPoll(f) \/ waitECSTasks(f) \/ EcsDeadline(f)
ForkStep(f) == runBranches(f) \/ runItems(f)

LEMMA CurrentFacts ==
  ASSUME NEW f \in Flows, Placed(f, flow[f]), flow[f].pc \in StateAt
  PROVE  /\ flow[f].state \in DOMAIN Machine[f]
         /\ validateState(f, Current(f))
BY ValidStates DEF Placed, Current

LEMMA TopMoves ==
  ASSUME ExecutionTypeOK, NEW f \in Flows, Placed(f, flow[f]), LoopTop(f) \/ LoopNext(f)
  PROVE  Moved(f) /\ flow'[f].pc \notin EcsAt
<1>1. Aborted \in ErrorNames /\ Ok \in ErrorNames
  BY DEF ErrorNames
<1>2. CASE LoopTop(f)
  <2>1. flow[f].pc = "top" /\ f \notin pending
    BY <1>2 DEF LoopTop, FlowAt, Emitting
  <2>2. CASE Return(f, Aborted) /\ NoEvent
    BY <1>1, <2>1, <2>2, Returns DEF NoEvent, EcsAt
  <2>3. CASE emit(f) /\ FlowTo(f, "dispatch")
    <3>1. "dispatch" \in FlowPcs /\ "dispatch" \in StateAt /\ "dispatch" \notin TaskAt
      BY DEF FlowPcs, StateAt, TaskAt, EcsAt
    <3>2. flow[f].pc \in StateAt
      BY <2>1 DEF StateAt
    <3>3. /\ flow' = [flow EXCEPT ![f] = flow'[f]] /\ Placed(f, flow'[f])
          /\ flow'[f].pc = "dispatch"
      BY <2>3, <3>1, <3>2, Goes
    <3> QED BY <2>3, <3>3 DEF Moved, emit, RestAt, EcsAt
  <2> QED BY <1>2, <2>2, <2>3 DEF LoopTop
<1>3. CASE LoopNext(f)
  <2>1. flow[f].pc = "exited" /\ f \notin pending /\ NoEvent
    BY <1>3 DEF LoopNext, FlowAt, Emitting
  <2>2. flow[f] \in FlowRecord
    BY DEF ExecutionTypeOK
  <2>3. flow[f].err \in ErrorNames
    BY <2>2 DEF FlowRecord
  <2>4. CASE Return(f, flow[f].err) \/ Return(f, Ok)
    BY <1>1, <2>1, <2>3, <2>4, Returns DEF NoEvent, EcsAt
  <2>5. CASE /\ flow[f].next # End
             /\ flow' = [flow EXCEPT ![f].pc = "top", ![f].state = flow[f].next]
    <3> DEFINE r == [flow[f] EXCEPT !.pc = "top", !.state = flow[f].next]
    <3>1. flow[f].next \in DOMAIN Machine[f]
      BY <2>1, <2>5 DEF Placed
    <3>2. flow[f].next \in StateNames /\ "top" \in FlowPcs
      BY <3>1, ValidStates DEF FlowPcs
    <3>3. flow[f].tries = <<>>
      BY <2>1 DEF Placed
    <3>4. r.pc = "top" /\ r.state = flow[f].next /\ r.tries = <<>>
      BY <2>2, <3>3 DEF FlowRecord
    <3>5. r \in FlowRecord
      BY <2>2, <3>2 DEF FlowRecord
    <3>6. flow' = [flow EXCEPT ![f] = r]
      BY <2>5 DEF ExecutionTypeOK
    <3> HIDE DEF r
    <3>7. Placed(f, r)
      BY <3>1, <3>4, <3>5 DEF Placed, TaskAt, EcsAt
    <3>8. flow'[f] = r /\ flow' = [flow EXCEPT ![f] = flow'[f]]
      BY <3>6, <3>7, MoveTo DEF ExecutionTypeOK
    <3> QED BY <2>1, <3>4, <3>7, <3>8 DEF Moved, NoEvent, RestAt, EcsAt
  <2> QED BY <1>3, <2>4, <2>5 DEF LoopNext
<1> QED BY <1>2, <1>3

LEMMA StateMoves ==
  ASSUME ExecutionTypeOK, NEW f \in Flows, Placed(f, flow[f]),
         \/ InputFails(f) \/ runPass(f) \/ runChoice(f) \/ runWait(f) \/ runSucceed(f) \/ runFail(f)
  PROVE  Moved(f) /\ flow'[f].pc \notin EcsAt
<1>1. flow[f].pc = "dispatch" /\ flow[f].pc \in StateAt
  BY DEF InputFails, runPass, runChoice, runWait, runSucceed, runFail, InState, FlowAt, StateAt
<1>2. flow[f].state \in DOMAIN Machine[f] /\ validateState(f, Current(f))
  BY <1>1, CurrentFacts
<1>3. {Ok, Aborted, "Runtime", "NoChoiceMatched"} \subseteq ErrorNames
  BY DEF ErrorNames
<1> DEFINE targets == DOMAIN Machine[f] \cup {End}
<1>4. ASSUME NEW next \in targets, NEW err \in ErrorNames, Exit(f, next, err)
      PROVE  Moved(f) /\ flow'[f].pc \notin EcsAt
  BY <1>1, <1>4, Exits DEF EcsAt
<1>5. CASE InputFails(f)
  BY <1>3, <1>4, <1>5 DEF InputFails
<1>6. CASE runPass(f)
  <2>1. Current(f).next \in targets
    BY <1>2, <1>6 DEF runPass, InState, validateState, validateTransition
  <2> QED BY <1>3, <1>4, <1>6, <2>1 DEF runPass
<1>7. CASE runWait(f)
  <2>1. Current(f).next \in targets
    BY <1>2, <1>7 DEF runWait, InState, validateState, validateTransition
  <2> QED BY <1>3, <1>4, <1>7, <2>1 DEF runWait
<1>8. CASE runSucceed(f)
  BY <1>3, <1>4, <1>8 DEF runSucceed
<1>9. CASE runFail(f)
  <2>1. flow[f].state \in FailsOf(f)
    BY <1>2, <1>9 DEF runFail, InState, Current, FailsOf
  <2>2. Current(f).error \in ErrorNames
    BY <2>1 DEF ErrorNames, Current
  <2> QED BY <1>4, <1>9, <2>2 DEF runFail
<1>10. CASE runChoice(f)
  <2>1. /\ Current(f).choices \subseteq DOMAIN Machine[f]
        /\ Current(f).default \in DOMAIN Machine[f] \cup {NoState}
    BY <1>2, <1>10 DEF runChoice, InState, validateState, validateChoice
  <2> QED BY <1>3, <1>4, <1>10, <2>1 DEF runChoice
<1> QED BY <1>5, <1>6, <1>7, <1>8, <1>9, <1>10

LEMMA AnswerMoves ==
  ASSUME ExecutionTypeOK, NEW f \in Flows, Placed(f, flow[f]), flow[f].pc \in TaskAt,
         NEW err \in ErrorNames, Answer(f, err)
  PROVE  Moved(f) /\ flow'[f].pc = "answered"
<1> DEFINE r == [flow[f] EXCEPT !.pc = "answered", !.err = err]
<1>1. flow[f] \in FlowRecord
  BY DEF ExecutionTypeOK
<1>2. /\ r.pc = "answered" /\ r.tries = flow[f].tries /\ r.state = flow[f].state
  BY <1>1 DEF FlowRecord
<1>3. r \in FlowRecord
  <2>1. "answered" \in FlowPcs
    BY DEF FlowPcs
  <2> QED BY <1>1, <2>1 DEF FlowRecord
<1>4. flow' = [flow EXCEPT ![f] = r]
  BY DEF Answer
<1> HIDE DEF r
<1>5. flow[f].state \in DOMAIN Machine[f] /\ Machine[f][flow[f].state].type = "Task"
  BY DEF Placed, StateAt
<1>6. Placed(f, r)
  BY <1>2, <1>3, <1>5 DEF Placed, StateAt, TaskAt
<1>7. flow'[f] = r /\ flow' = [flow EXCEPT ![f] = flow'[f]]
  BY <1>4, <1>6, MoveTo DEF ExecutionTypeOK
<1> QED BY <1>2, <1>6, <1>7 DEF Moved, Answer, emit, RestAt

LEMMA TaskMoves ==
  ASSUME ExecutionTypeOK, NEW f \in Flows, Placed(f, flow[f]),
         \/ Backoff(f) \/ Scheduled(f) \/ Started(f) \/ runLambda(f) \/ runHTTP(f) \/ Answered(f)
  PROVE  Moved(f) /\ flow'[f].pc \notin EcsAt
<1>1. ASSUME NEW pc \in {"dispatch", "call", "scheduled"}, FlowTo(f, pc), emit(f) \/ NoEvent,
             flow[f].pc \in StateAt, pc # "dispatch" => Current(f).type = "Task"
      PROVE  Moved(f) /\ flow'[f].pc \notin EcsAt
  <2>1. /\ pc \in FlowPcs /\ pc \in StateAt /\ pc \notin EcsAt /\ pc \notin RestAt
        /\ pc \notin {"exited", "backoff", "join", "top"}
        /\ pc \in TaskAt => pc # "dispatch"
    BY DEF FlowPcs, StateAt, TaskAt, EcsAt, RestAt
  <2>2. /\ flow' = [flow EXCEPT ![f] = flow'[f]] /\ Placed(f, flow'[f])
        /\ flow'[f].pc = pc
    BY <1>1, <2>1, Goes
  <2> QED BY <1>1, <2>1, <2>2 DEF Moved, emit, NoEvent
<1>2. CASE Backoff(f)
  <2>1. flow[f].pc \in StateAt
    BY <1>2 DEF Backoff, FlowAt, StateAt
  <2>2. Aborted \in ErrorNames
    BY DEF ErrorNames
  <2>3. CASE Exit(f, End, Aborted)
    BY <2>1, <2>2, <2>3, Exits DEF EcsAt
  <2> QED BY <1>1, <1>2, <2>1, <2>3 DEF Backoff
<1>3. CASE Scheduled(f)
  <2>1. flow[f].pc \in StateAt /\ Current(f).type = "Task"
    BY <1>3 DEF Scheduled, InState, FlowAt, StateAt
  <2> QED BY <1>1, <1>3, <2>1 DEF Scheduled
<1>4. CASE Started(f)
  <2>1. flow[f].pc \in StateAt /\ Current(f).type = "Task"
    BY <1>4 DEF Started, FlowAt, StateAt, TaskAt, Placed, Current
  <2> QED BY <1>1, <1>4, <2>1 DEF Started
<1>5. CASE runLambda(f) \/ runHTTP(f)
  <2>1. flow[f].pc \in TaskAt
    BY <1>5 DEF runLambda, runHTTP, Calling, FlowAt, TaskAt
  <2>2. {Ok, "TaskFailed", "Socket", "StatusCode"} \subseteq ErrorNames
    BY DEF ErrorNames
  <2>3. PICK err \in ErrorNames : Answer(f, err)
    BY <1>5, <2>2 DEF runLambda, runHTTP
  <2> QED BY <2>1, <2>3, AnswerMoves DEF EcsAt
<1>6. CASE Answered(f)
  <2>1. flow[f].pc \in StateAt /\ Current(f).type = "Task"
    BY <1>6 DEF Answered, FlowAt, StateAt, TaskAt, Placed, Current
  <2>2. flow[f].err \in ErrorNames
    BY DEF Placed, FlowRecord
  <2>3. Current(f).type \in Working
    BY <2>1 DEF Working
  <2> QED BY <1>6, <2>1, <2>2, <2>3, WorkMoves DEF Answered, EcsAt
<1> QED BY <1>2, <1>3, <1>4, <1>5, <1>6

LEMMA MapMoves ==
  ASSUME ExecutionTypeOK, FlowInv, NEW f \in Flows,
         \/ NoItems(f) \/ Join(f)
         \/ IterationStart(f) \/ ItemFails(f) \/ IterationEnd(f) \/ ReleaseSemaphore(f)
  PROVE  Moved(f) /\ flow'[f].pc \notin EcsAt
<1>0. Placed(f, flow[f]) /\ flow[f] \in FlowRecord
  BY DEF FlowInv, ExecutionTypeOK
<1>1. CASE NoItems(f)
  <2>1. flow[f].pc \in StateAt /\ Current(f).type \in Working
    BY <1>1 DEF NoItems, InState, FlowAt, StateAt, Working, Forking
  <2>2. {Ok, "Runtime"} \subseteq ErrorNames
    BY DEF ErrorNames
  <2>3. PICK err \in ErrorNames : AfterWork(f, err)
    BY <1>1, <2>2 DEF NoItems
  <2> QED BY <1>0, <2>1, <2>3, WorkMoves DEF EcsAt
<1>2. CASE Join(f)
  <2>1. flow[f].pc \in StateAt /\ Current(f).type \in Forking
    BY <1>0, <1>2 DEF Join, FlowAt, StateAt, Placed, Current
  <2>2. Current(f).type \in Working
    BY <2>1 DEF Working
  <2>3. Ok \in ErrorNames /\ "BranchFailed" \in ErrorNames
    BY DEF ErrorNames
  <2>4. \A g \in Current(f).flows : flow[g].err \in ErrorNames
    <3>1. flow[f].state \in DOMAIN Machine[f] /\ validateState(f, Current(f))
      BY <1>0, <2>1, CurrentFacts
    <3>2. Current(f).flows \subseteq Flows
      BY <2>1, <3>1 DEF validateState, Flows
    <3>3. \A g \in Flows : flow[g].err \in ErrorNames
      BY DEF ExecutionTypeOK, FlowRecord
    <3> QED BY <3>2, <3>3
  <2>5. \/ AfterWork(f, Ok)
        \/ \E err \in ErrorNames : AfterFailure(f, err)
    BY <1>2, <2>3, <2>4 DEF Join
  <2> QED BY <1>0, <2>1, <2>2, <2>3, <2>5, WorkMoves, FailureMoves DEF EcsAt
<1>3. CASE IterationStart(f)
  <2> DEFINE r == [flow[f] EXCEPT !.pc = "top", !.state = StartAt[f]]
  <2>1. flow[f].tries = <<>>
    BY <1>0, <1>3 DEF IterationStart, FlowAt, Placed, StateAt, TaskAt, EcsAt
  <2>2. StartAt[f] \in DOMAIN Machine[f]
    BY InterpreterAssumption DEF validateMachine
  <2>3. StartAt[f] \in StateNames /\ "top" \in FlowPcs
    BY <2>2, ValidStates DEF FlowPcs
  <2>4. r.pc = "top" /\ r.state = StartAt[f] /\ r.tries = <<>>
    BY <1>0, <2>1 DEF FlowRecord
  <2>5. r \in FlowRecord
    BY <1>0, <2>3 DEF FlowRecord
  <2>6. flow' = [flow EXCEPT ![f] = r] /\ emit(f)
    BY <1>3 DEF IterationStart
  <2> HIDE DEF r
  <2>7. Placed(f, r)
    BY <2>2, <2>4, <2>5 DEF Placed, TaskAt, EcsAt
  <2>8. flow'[f] = r /\ flow' = [flow EXCEPT ![f] = flow'[f]]
    BY <2>6, <2>7, MoveTo DEF ExecutionTypeOK
  <2> QED BY <2>4, <2>6, <2>7, <2>8 DEF Moved, emit, RestAt, EcsAt
<1>4. CASE ItemFails(f)
  <2> DEFINE r == [flow[f] EXCEPT !.pc = "joined", !.err = "Runtime"]
  <2>1. flow[f].tries = <<>>
    BY <1>0, <1>4 DEF ItemFails, FlowAt, Placed, StateAt, TaskAt, EcsAt
  <2>3. "Runtime" \in ErrorNames /\ "joined" \in FlowPcs
    BY DEF FlowPcs, ErrorNames
  <2>4. r.pc = "joined" /\ r.tries = <<>>
    BY <1>0, <2>1 DEF FlowRecord
  <2>5. r \in FlowRecord
    BY <1>0, <2>3 DEF FlowRecord
  <2>6. flow' = [flow EXCEPT ![f] = r] /\ NoEvent /\ f \notin pending
    BY <1>4 DEF ItemFails, FlowAt, Emitting
  <2> HIDE DEF r
  <2>7. Placed(f, r)
    BY <2>4, <2>5 DEF Placed, TaskAt, EcsAt, StateAt
  <2>8. flow'[f] = r /\ flow' = [flow EXCEPT ![f] = flow'[f]]
    BY <2>6, <2>7, MoveTo DEF ExecutionTypeOK
  <2> QED BY <2>4, <2>6, <2>7, <2>8 DEF Moved, NoEvent, RestAt, EcsAt
<1>5. ASSUME NEW pc \in {"iterated", "joined"}, FlowTo(f, pc), flow[f].pc \in {"returned", "iterated"},
             f \notin pending, \/ emit(f) /\ pc = "iterated"
                               \/ NoEvent
      PROVE  Moved(f) /\ flow'[f].pc \notin EcsAt
  <2>1. /\ pc \in FlowPcs /\ pc \notin StateAt /\ pc \notin TaskAt /\ pc \notin EcsAt
        /\ pc \notin {"exited", "backoff", "join", "top"}
        /\ flow[f].pc \notin StateAt
    BY <1>5 DEF FlowPcs, StateAt, TaskAt, EcsAt
  <2>2. /\ flow' = [flow EXCEPT ![f] = flow'[f]] /\ Placed(f, flow'[f])
        /\ flow'[f].pc = pc
    BY <1>0, <1>5, <2>1, Goes
  <2> QED BY <1>5, <2>1, <2>2 DEF Moved, emit, NoEvent, RestAt
<1>6. CASE IterationEnd(f)
  BY <1>5, <1>6 DEF IterationEnd, FlowAt, Emitting
<1>7. CASE ReleaseSemaphore(f)
  BY <1>5, <1>7 DEF ReleaseSemaphore, FlowAt, Emitting
<1> QED BY <1>1, <1>2, <1>3, <1>4, <1>6, <1>7

LEMMA LoopMoves ==
  ASSUME ExecutionTypeOK, FlowInv, NEW f \in Flows, LoopStep(f)
  PROVE  Moved(f) /\ flow'[f].pc \notin EcsAt
<1>1. Placed(f, flow[f])
  BY DEF FlowInv
<1> QED BY <1>1, TopMoves, StateMoves, TaskMoves, MapMoves DEF LoopStep

(* A step inside loop is not of a flow at rest, leaves the tasks alone, and   *)
(* ends a join only when every child has finished.                            *)
LEMMA LoopBegins ==
  ASSUME ExecutionTypeOK, NEW f \in Flows, LoopStep(f)
  PROVE  /\ flow[f].pc \notin EcsAt /\ ~AtRest(f)
         /\ flow[f].pc = "join" => Joined(f)
         /\ UNCHANGED <<task, stopAsked, cancelled, expired, main, ended>>
<1>1. \/ flow[f].pc \in {"top", "exited", "backoff", "dispatch", "scheduled", "call", "answered",
                         "queued", "iterated", "join"}
      \/ f \in Items /\ flow[f].pc = "returned"
  BY DEF LoopStep, LoopTop, LoopNext, Backoff, InputFails, runPass, runChoice, runWait, runSucceed,
         runFail, Scheduled, Started, runLambda, runHTTP, Answered, NoItems, Join, IterationStart,
         ItemFails, IterationEnd, ReleaseSemaphore, InState, Calling, FlowAt
<1>2. flow[f].pc \notin EcsAt
  BY <1>1 DEF EcsAt
<1>3. ~AtRest(f)
  BY <1>1 DEF AtRest
<1>4. flow[f].pc = "join" => Joined(f)
  BY DEF LoopStep, LoopTop, LoopNext, Backoff, InputFails, runPass, runChoice, runWait, runSucceed,
         runFail, Scheduled, Started, runLambda, runHTTP, Answered, NoItems, Join, IterationStart,
         ItemFails, IterationEnd, ReleaseSemaphore, InState, Calling, FlowAt
<1>5. LoopFrame
  BY DEF LoopStep, LoopTop, LoopNext, Backoff, InputFails, runPass, runChoice, runWait, runSucceed,
         runFail, Scheduled, Started, runLambda, runHTTP, Answered, NoItems, Join, IterationStart,
         ItemFails, IterationEnd, ReleaseSemaphore
<1> QED BY <1>2, <1>3, <1>4, <1>5 DEF LoopFrame

(* The root's return wakes run_, and no other step inside loop does.          *)
LEMMA LoopWakes ==
  ASSUME ExecutionTypeOK, FlowInv, NEW f \in Flows, LoopStep(f)
  PROVE  \/ woken' = woken
         \/ woken' = "done" /\ f = Root /\ flow'[f].pc = "returned"
<1>1. ASSUME NEW err, Return(f, err)
      PROVE  \/ woken' = woken
             \/ woken' = "done" /\ f = Root /\ flow'[f].pc = "returned"
  <2>1. flow' = [flow EXCEPT ![f] = [IdleFlow EXCEPT !.pc = "returned", !.err = err]]
    BY <1>1 DEF Return
  <2>2. flow'[f] = [IdleFlow EXCEPT !.pc = "returned", !.err = err]
    BY <2>1 DEF ExecutionTypeOK
  <2>3. flow'[f].pc = "returned"
    BY <2>2, IdleTyped DEF FlowRecord
  <2> QED BY <1>1, <2>3 DEF Return
<1>2. ASSUME NEW next, NEW err, Exit(f, next, err)
      PROVE  woken' = woken
  BY <1>2 DEF Exit
<1>3. ASSUME NEW err, AfterFailure(f, err)
      PROVE  woken' = woken
  BY <1>2, <1>3 DEF AfterFailure
<1>4. ASSUME NEW err, AfterWork(f, err)
      PROVE  woken' = woken
  BY <1>2, <1>3, <1>4 DEF AfterWork
<1>5. CASE LoopTop(f) \/ LoopNext(f)
  BY <1>1, <1>5 DEF LoopTop, LoopNext
<1>6. CASE InputFails(f) \/ runPass(f) \/ runChoice(f) \/ runWait(f) \/ runSucceed(f) \/ runFail(f)
  BY <1>2, <1>6 DEF InputFails, runPass, runChoice, runWait, runSucceed, runFail
<1>7. CASE \/ Backoff(f) \/ Scheduled(f) \/ Started(f) \/ runLambda(f) \/ runHTTP(f) \/ Answered(f)
  BY <1>2, <1>4, <1>7 DEF Backoff, Scheduled, Started, runLambda, runHTTP, Answered
<1>8. CASE \/ NoItems(f) \/ Join(f) \/ IterationStart(f) \/ ItemFails(f) \/ IterationEnd(f)
           \/ ReleaseSemaphore(f)
  BY <1>3, <1>4, <1>8 DEF NoItems, Join, IterationStart, ItemFails, IterationEnd, ReleaseSemaphore
<1> QED BY <1>5, <1>6, <1>7, <1>8 DEF LoopStep

-----------------------------------------------------------------------------
(* runECS: what a step of f does to the tasks of f, and to no other's.        *)

EcsKept(f) ==
    /\ Moved(f) /\ TasksKept(f)'
    /\ task' = [task EXCEPT ![f] = task'[f]] /\ task'[f] \in [Tasks -> {"none", "live", "stopped"}]
    /\ stopAsked' = [stopAsked EXCEPT ![f] = stopAsked'[f]] /\ stopAsked'[f] \in SUBSET Tasks

LEMMA ContextErrors ==
  ASSUME NEW f \in Flows
  PROVE  ecsTaskContextError(f) \in ErrorNames
BY DEF ecsTaskContextError, ErrorNames

(* Stopping every launched task that was not seen STOPPED leaves none.        *)
LEMMA StopsAll ==
  ASSUME ExecutionTypeOK, NEW f \in Flows, NEW seen, \A i \in seen : task[f][i] = "stopped",
         stopECSTasks(f, task[f], seen), UNCHANGED task
  PROVE  /\ stopAsked' = [stopAsked EXCEPT ![f] = stopAsked'[f]] /\ stopAsked'[f] \in SUBSET Tasks
         /\ \A i \in Tasks : task'[f][i] = "live" => i \in stopAsked'[f]
<1> DEFINE more == {i \in Tasks : task[f][i] # "none" /\ i \notin seen}
<1>1. stopAsked' = [stopAsked EXCEPT ![f] = stopAsked[f] \cup more]
  BY DEF stopECSTasks
<1>2. stopAsked'[f] = stopAsked[f] \cup more
  BY <1>1 DEF ExecutionTypeOK
<1>3. stopAsked[f] \in SUBSET Tasks
  BY DEF ExecutionTypeOK
<1>4. \A i \in Tasks : task[f][i] = "live" => i \in more
  OBVIOUS
<1> QED BY <1>1, <1>2, <1>3, <1>4

LEMMA EcsAnswers ==
  ASSUME ExecutionTypeOK, NEW f \in Flows, Placed(f, flow[f]), flow[f].pc \in TaskAt,
         NEW err \in ErrorNames, Answer(f, err), UNCHANGED task,
         stopAsked' = [stopAsked EXCEPT ![f] = stopAsked'[f]], stopAsked'[f] \in SUBSET Tasks,
         \A i \in Tasks : task'[f][i] = "live" => i \in stopAsked'[f]
  PROVE  EcsKept(f)
<1>1. Moved(f) /\ flow'[f].pc = "answered"
  BY AnswerMoves
<1>2. TasksKept(f)'
  BY <1>1 DEF TasksKept, EcsAt
<1>3. task' = [task EXCEPT ![f] = task'[f]] /\ task'[f] \in [Tasks -> {"none", "live", "stopped"}]
  BY DEF ExecutionTypeOK
<1> QED BY <1>1, <1>2, <1>3 DEF EcsKept

(* The step stays inside runECS and sees no more tasks than are STOPPED.      *)
LEMMA EcsStays ==
  ASSUME ExecutionTypeOK, NEW f \in Flows, Placed(f, flow[f]), flow[f].pc \in EcsAt,
         NEW r \in FlowRecord, r.pc \in EcsAt, r.state = flow[f].state, r.tries = flow[f].tries,
         \A i \in r.seen : task[f][i] = "stopped",
         flow' = [flow EXCEPT ![f] = r],
         UNCHANGED <<task, stopAsked, pending>>
  PROVE  EcsKept(f)
<1> DEFINE pc == r.pc
<1>3. pc \in FlowPcs /\ pc \in TaskAt /\ flow[f].pc \in TaskAt /\ pc \notin RestAt
      /\ pc \in StateAt \ {"top", "exited", "backoff", "join"}
      /\ flow[f].pc \in StateAt \ {"top", "exited"}
  BY DEF FlowPcs, TaskAt, EcsAt, StateAt, RestAt
<1>6. flow[f].state \in DOMAIN Machine[f] /\ Machine[f][flow[f].state].type = "Task"
  BY <1>3 DEF Placed
<1>7. r.tries # <<>> => DOMAIN r.tries = DOMAIN Machine[f][r.state].retry
  BY DEF Placed
<1>8. Placed(f, r)
  BY <1>3, <1>6, <1>7 DEF Placed
<1>9. flow'[f] = r /\ flow' = [flow EXCEPT ![f] = flow'[f]]
  BY <1>8, MoveTo DEF ExecutionTypeOK
<1>10. Moved(f)
  BY <1>3, <1>8, <1>9 DEF Moved
<1>11. TasksKept(f)'
  BY <1>9 DEF TasksKept
<1>12. /\ task' = [task EXCEPT ![f] = task'[f]] /\ task'[f] \in [Tasks -> {"none", "live", "stopped"}]
       /\ stopAsked' = [stopAsked EXCEPT ![f] = stopAsked'[f]] /\ stopAsked'[f] \in SUBSET Tasks
  BY DEF ExecutionTypeOK
<1> QED BY <1>10, <1>11, <1>12 DEF EcsKept

LEMMA RunTaskKeeps ==
  ASSUME ExecutionTypeOK, NEW f \in Flows, Placed(f, flow[f]), EcsRunTask(f)
  PROVE  EcsKept(f)
<1>1. flow[f].pc = "call" /\ flow[f] \in FlowRecord
  BY DEF EcsRunTask, Calling, FlowAt, ExecutionTypeOK
<1>2. stopAsked' = [stopAsked EXCEPT ![f] = stopAsked'[f]] /\ stopAsked'[f] \in SUBSET Tasks
  BY DEF EcsRunTask, ExecutionTypeOK
<1>3. ASSUME NEW err \in ErrorNames, Answer(f, err), task' = [task EXCEPT ![f] = NoTasks]
      PROVE  EcsKept(f)
  <2>1. Moved(f) /\ flow'[f].pc = "answered"
    BY <1>1, <1>3, AnswerMoves DEF TaskAt
  <2>2. task'[f] = NoTasks /\ task' = [task EXCEPT ![f] = task'[f]]
    BY <1>3 DEF ExecutionTypeOK
  <2>3. NoTasks \in [Tasks -> {"none", "live", "stopped"}] /\ \A i \in Tasks : NoTasks[i] # "live"
    BY DEF NoTasks
  <2>4. TasksKept(f)'
    BY <2>1, <2>2, <2>3 DEF TasksKept, EcsAt
  <2> QED BY <1>2, <2>1, <2>2, <2>3, <2>4 DEF EcsKept
<1>4. ASSUME NEW launched \in SUBSET Tasks,
             task' = [task EXCEPT ![f] = [i \in Tasks |-> IF i \in launched THEN "live" ELSE "none"]],
             flow' = [flow EXCEPT ![f] = [@ EXCEPT !.pc = "launched", !.seen = {}, !.late = FALSE]],
             NoEvent
      PROVE  EcsKept(f)
  <2> DEFINE r == [flow[f] EXCEPT !.pc = "launched", !.seen = {}, !.late = FALSE]
             ts == [i \in Tasks |-> IF i \in launched THEN "live" ELSE "none"]
  <2>1. r.pc = "launched" /\ r.seen = {} /\ r.state = flow[f].state /\ r.tries = flow[f].tries
    BY <1>1 DEF FlowRecord
  <2>2. r \in FlowRecord
    <3>1. "launched" \in FlowPcs /\ FALSE \in BOOLEAN
      BY DEF FlowPcs
    <3>2. {} \in SUBSET Tasks
      OBVIOUS
    <3> QED BY <1>1, <3>1, <3>2 DEF FlowRecord
  <2>3. flow' = [flow EXCEPT ![f] = r]
    BY <1>4
  <2>4. ts \in [Tasks -> {"none", "live", "stopped"}]
    OBVIOUS
  <2>5. task' = [task EXCEPT ![f] = ts]
    BY <1>4
  <2> HIDE DEF r, ts
  <2>6. /\ flow[f].state \in DOMAIN Machine[f] /\ Machine[f][flow[f].state].type = "Task"
        /\ flow[f].tries # <<>> => DOMAIN flow[f].tries = DOMAIN Machine[f][flow[f].state].retry
    BY <1>1 DEF Placed, StateAt, TaskAt
  <2>7. Placed(f, r)
    BY <2>1, <2>2, <2>6 DEF Placed, StateAt, TaskAt, EcsAt
  <2>8. flow'[f] = r /\ flow' = [flow EXCEPT ![f] = flow'[f]]
    BY <2>3, <2>7, MoveTo DEF ExecutionTypeOK
  <2>9. Moved(f)
    BY <1>4, <2>1, <2>7, <2>8 DEF Moved, NoEvent, RestAt
  <2>10. TasksKept(f)'
    BY <2>1, <2>8 DEF TasksKept, EcsAt
  <2>11. task'[f] = ts /\ task' = [task EXCEPT ![f] = task'[f]]
    BY <2>5 DEF ExecutionTypeOK
  <2> QED BY <1>2, <2>4, <2>9, <2>10, <2>11 DEF EcsKept
<1>5. "TaskFailed" \in ErrorNames /\ ecsTaskContextError(f) \in ErrorNames
  BY ContextErrors DEF ErrorNames
<1> QED BY <1>3, <1>4, <1>5 DEF EcsRunTask

LEMMA EcsMoves ==
  ASSUME ExecutionTypeOK, FlowInv, NEW f \in Flows, EcsStep(f)
  PROVE  EcsKept(f)
<1>1. Placed(f, flow[f]) /\ flow[f] \in FlowRecord /\ TasksKept(f)
  BY DEF FlowInv, ExecutionTypeOK
<1>2. /\ "TaskFailed" \in ErrorNames /\ ecsTaskContextError(f) \in ErrorNames
      /\ Ok \in ErrorNames
  BY ContextErrors DEF ErrorNames
<1>3. EcsAt \subseteq TaskAt
  BY DEF TaskAt
<1>4. flow[f].late \in BOOLEAN /\ flow[f].seen \in SUBSET Tasks
  BY <1>1 DEF FlowRecord
<1>5. /\ stopAsked = [stopAsked EXCEPT ![f] = stopAsked[f]]
      /\ stopAsked[f] \in SUBSET Tasks
      /\ task[f] \in [Tasks -> {"none", "live", "stopped"}]
  BY DEF ExecutionTypeOK
<1>6. ASSUME NEW err \in ErrorNames, NEW seen, \A i \in seen : task[f][i] = "stopped",
             stopECSTasks(f, task[f], seen), UNCHANGED task, Answer(f, err), flow[f].pc \in EcsAt
      PROVE  EcsKept(f)
  <2>1. /\ stopAsked' = [stopAsked EXCEPT ![f] = stopAsked'[f]] /\ stopAsked'[f] \in SUBSET Tasks
        /\ \A i \in Tasks : task'[f][i] = "live" => i \in stopAsked'[f]
    BY <1>6, StopsAll
  <2> QED BY <1>1, <1>3, <1>6, <2>1, EcsAnswers
<1>7. ASSUME NEW err \in ErrorNames, \A i \in Tasks : task[f][i] # "live",
             UNCHANGED <<task, stopAsked>>, Answer(f, err), flow[f].pc \in EcsAt
      PROVE  EcsKept(f)
  <2>1. /\ stopAsked' = [stopAsked EXCEPT ![f] = stopAsked'[f]] /\ stopAsked'[f] \in SUBSET Tasks
        /\ \A i \in Tasks : task'[f][i] = "live" => i \in stopAsked'[f]
    BY <1>5, <1>7
  <2> QED BY <1>1, <1>3, <1>7, <2>1, EcsAnswers
<1>8. EcsAt \subseteq FlowPcs /\ "poll" \in EcsAt /\ "polled" \in EcsAt
  BY DEF EcsAt, FlowPcs
<1>9. flow[f].pc \in EcsAt => \A i \in flow[f].seen : task[f][i] = "stopped"
  BY <1>1 DEF TasksKept
<1>10. CASE EcsRunTask(f)
  BY <1>1, <1>10, RunTaskKeeps
<1>11. CASE EcsLaunched(f)
  <2>1. flow[f].pc \in EcsAt /\ UNCHANGED task
    BY <1>11 DEF EcsLaunched, FlowAt, EcsAt
  <2>2. CASE \E err \in ErrorNames : stopECSTasks(f, task[f], {}) /\ Answer(f, err)
    BY <1>6, <2>1, <2>2
  <2>3. CASE /\ \A i \in Tasks : task[f][i] = "none"
             /\ \E err \in ErrorNames : Answer(f, err)
             /\ UNCHANGED stopAsked
    <3>1. \A i \in Tasks : task[f][i] # "live"
      BY <2>3
    <3>2. PICK err \in ErrorNames : Answer(f, err)
      BY <2>3
    <3>3. UNCHANGED <<task, stopAsked>>
      BY <2>1, <2>3
    <3> QED BY <1>7, <2>1, <3>1, <3>2, <3>3
  <2>4. CASE FlowTo(f, "poll") /\ NoEvent /\ UNCHANGED stopAsked
    <3> DEFINE r == [flow[f] EXCEPT !.pc = "poll"]
    <3>1. /\ r \in FlowRecord /\ r.pc = "poll" /\ r.seen = flow[f].seen
          /\ r.state = flow[f].state /\ r.tries = flow[f].tries
      BY <1>1, <1>8 DEF FlowRecord
    <3>2. flow' = [flow EXCEPT ![f] = r]
      BY <2>4 DEF FlowTo
    <3>3. UNCHANGED <<task, stopAsked, pending>>
      BY <2>1, <2>4 DEF NoEvent
    <3> HIDE DEF r
    <3> QED BY <1>1, <1>8, <1>9, <2>1, <3>1, <3>2, <3>3, EcsStays
  <2> QED BY <1>2, <1>11, <2>2, <2>3, <2>4 DEF EcsLaunched
<1>12. CASE EcsPoll(f)
  <2> DEFINE stopped == {i \in Tasks : task[f][i] = "stopped"}
  <2>1. flow[f].pc \in EcsAt /\ UNCHANGED task
    BY <1>12 DEF EcsPoll, FlowAt, EcsAt
  <2>2. CASE \E err \in ErrorNames : stopECSTasks(f, task[f], flow[f].seen) /\ Answer(f, err)
    BY <1>6, <1>9, <2>1, <2>2
  <2>3. CASE \E k \in Tasks : /\ stopECSTasks(f, task[f], flow[f].seen \cup {i \in stopped : i < k})
                              /\ Answer(f, "TaskFailed")
    <3>1. PICK k \in Tasks : /\ stopECSTasks(f, task[f], flow[f].seen \cup {i \in stopped : i < k})
                             /\ Answer(f, "TaskFailed")
      BY <2>3
    <3>2. \A i \in flow[f].seen \cup {j \in stopped : j < k} : task[f][i] = "stopped"
      BY <1>9, <2>1
    <3> HIDE DEF stopped
    <3> QED BY <1>2, <1>6, <2>1, <3>1, <3>2
  <2>4. CASE /\ stopped = Tasks /\ UNCHANGED stopAsked
             /\ \E err \in {Ok, "TaskFailed"} : Answer(f, err)
    <3>1. \A i \in Tasks : task[f][i] # "live"
      BY <2>4
    <3> HIDE DEF stopped
    <3> QED BY <1>2, <1>7, <2>1, <2>4, <3>1
  <2>5. CASE /\ UNCHANGED stopAsked /\ NoEvent
             /\ flow' = [flow EXCEPT ![f] = [flow[f] EXCEPT !.pc = "polled", !.seen = stopped]]
    <3> DEFINE r == [flow[f] EXCEPT !.pc = "polled", !.seen = stopped]
    <3>0. stopped \in SUBSET Tasks /\ \A i \in stopped : task[f][i] = "stopped"
      OBVIOUS
    <3> HIDE DEF stopped
    <3>1. /\ r \in FlowRecord /\ r.pc = "polled" /\ r.seen = stopped
          /\ r.state = flow[f].state /\ r.tries = flow[f].tries
      BY <1>1, <1>8, <3>0 DEF FlowRecord
    <3>2. flow' = [flow EXCEPT ![f] = r]
      BY <2>5
    <3>3. UNCHANGED <<task, stopAsked, pending>>
      BY <2>1, <2>5 DEF NoEvent
    <3> HIDE DEF r
    <3> QED BY <1>1, <1>8, <2>1, <3>0, <3>1, <3>2, <3>3, EcsStays
  <2> QED BY <1>2, <1>12, <2>2, <2>3, <2>4, <2>5 DEF EcsPoll
<1>13. CASE waitECSTasks(f)
  <2>1. flow[f].pc \in EcsAt /\ UNCHANGED task
    BY <1>13 DEF waitECSTasks, FlowAt, EcsAt
  <2>2. CASE \E err \in ErrorNames : stopECSTasks(f, task[f], flow[f].seen) /\ Answer(f, err)
    BY <1>6, <1>9, <2>1, <2>2
  <2>3. CASE FlowTo(f, "poll") /\ NoEvent /\ UNCHANGED stopAsked
    <3> DEFINE r == [flow[f] EXCEPT !.pc = "poll"]
    <3>1. /\ r \in FlowRecord /\ r.pc = "poll" /\ r.seen = flow[f].seen
          /\ r.state = flow[f].state /\ r.tries = flow[f].tries
      BY <1>1, <1>8 DEF FlowRecord
    <3>2. flow' = [flow EXCEPT ![f] = r]
      BY <2>3 DEF FlowTo
    <3>3. UNCHANGED <<task, stopAsked, pending>>
      BY <2>1, <2>3 DEF NoEvent
    <3> HIDE DEF r
    <3> QED BY <1>1, <1>8, <1>9, <2>1, <3>1, <3>2, <3>3, EcsStays
  <2> QED BY <1>2, <1>13, <2>2, <2>3 DEF waitECSTasks
<1>14. CASE EcsDeadline(f)
  <2>1. flow[f].pc \in EcsAt /\ UNCHANGED <<task, stopAsked, pending>>
    BY <1>14 DEF EcsDeadline, EcsAt
  <2> DEFINE r == [flow[f] EXCEPT !.late = TRUE]
  <2>2. /\ r \in FlowRecord /\ r.pc = flow[f].pc /\ r.seen = flow[f].seen
        /\ r.state = flow[f].state /\ r.tries = flow[f].tries
    BY <1>1 DEF FlowRecord
  <2>3. flow' = [flow EXCEPT ![f] = r]
    BY <1>14 DEF EcsDeadline
  <2> HIDE DEF r
  <2> QED BY <1>1, <1>9, <2>1, <2>2, <2>3, EcsStays
<1> QED BY <1>10, <1>11, <1>12, <1>13, <1>14 DEF EcsStep

LEMMA EcsBegins ==
  ASSUME ExecutionTypeOK, NEW f \in Flows, EcsStep(f)
  PROVE  /\ flow[f].pc # "join" /\ ~AtRest(f)
         /\ UNCHANGED <<cancelled, expired, main, woken, ended>>
<1>1. flow[f].pc \in {"call", "launched", "poll", "polled"}
  BY DEF EcsStep, EcsRunTask, EcsLaunched, EcsPoll, waitECSTasks, EcsDeadline, Calling, FlowAt
<1>2. EcsFrame
  BY DEF EcsStep, EcsRunTask, EcsLaunched, EcsPoll, waitECSTasks, EcsDeadline
<1>3. ~AtRest(f)
  BY <1>1 DEF AtRest
<1> QED BY <1>1, <1>2, <1>3 DEF EcsFrame

-----------------------------------------------------------------------------
(* What one flow's step does to the invariant.                                *)

LEMMA RootRests == AtRest(Root) <=> flow[Root].pc \in {"idle", "returned"}
<1>1. Root \notin Items
  BY ItemsAreChildren, InterpreterAssumption
<1> QED BY <1>1 DEF AtRest

(* A child that has finished is at rest.                                      *)
LEMMA JoinedRest ==
  ASSUME NEW f \in Flows, Placed(f, flow[f]), flow[f].pc = "join", Joined(f),
         NEW g \in Forks(f, flow[f].state)
  PROVE  AtRest(g)
<1>1. flow[f].state \in DOMAIN Machine[f]
  BY DEF Placed, StateAt
<1>2. g \in Current(f).flows
  BY <1>1, ForkFacts DEF Current
<1> QED BY <1>2 DEF Joined, Finished, AtRest

LEMMA TreeKept ==
  ASSUME ExecutionTypeOK, TreeInv, NEW f \in Flows, Placed(f, flow[f]), Moved(f), ~AtRest(f),
         flow[f].pc = "join" => Joined(f)
  PROVE  TreeInv'
<1>1. \A g \in Flows : g # f => flow'[g] = flow[g]
  BY DEF Moved, ExecutionTypeOK
<1>2. SUFFICES ASSUME NEW g \in Children
               PROVE  AtRest(g)' \/ Awaited(g)'
  BY DEF TreeInv
<1>3. g \in Flows
  BY DEF Flows
<1>4. CASE AtRest(g)
  BY <1>1, <1>3, <1>4 DEF AtRest
<1>5. CASE Awaited(g)
  <2>1. PICK e \in Flows : \E s \in DOMAIN Machine[e] :
            g \in Forks(e, s) /\ flow[e].pc = "join" /\ flow[e].state = s
    BY <1>5 DEF Awaited
  <2>2. g \in Forks(e, flow[e].state) /\ flow[e].state \in DOMAIN Machine[e] /\ flow[e].pc = "join"
    BY <2>1
  <2>3. CASE e = f
    <3>1. AtRest(g) /\ g # f
      BY <2>2, <2>3, JoinedRest, ForkFacts
    <3> QED BY <1>4, <3>1
  <2>4. CASE e # f
    BY <1>1, <2>2, <2>4 DEF Awaited
  <2> QED BY <2>3, <2>4
<1> QED BY <1>4, <1>5 DEF TreeInv

LEMMA StepKept ==
  ASSUME ExecutionInv, NEW f \in Flows, Moved(f), ~AtRest(f), flow[f].pc = "join" => Joined(f),
         TasksKept(f)',
         task' = [task EXCEPT ![f] = task'[f]], task'[f] \in [Tasks -> {"none", "live", "stopped"}],
         stopAsked' = [stopAsked EXCEPT ![f] = stopAsked'[f]], stopAsked'[f] \in SUBSET Tasks,
         UNCHANGED <<cancelled, expired, main, ended>>,
         woken' = woken \/ (woken' = "done" /\ f = Root /\ flow'[f].pc = "returned")
  PROVE  ExecutionInv'
<1> USE DEF ExecutionInv
<1>1. \A g \in Flows : g # f => flow'[g] = flow[g] /\ task'[g] = task[g] /\ stopAsked'[g] = stopAsked[g]
  BY DEF Moved, ExecutionTypeOK
<1>2. Main # f /\ Root \in Flows
  BY InterpreterAssumption DEF Flows
<1>3. ExecutionTypeOK'
  <2>1. flow' \in [Flows -> FlowRecord]
    BY DEF Moved, Placed, ExecutionTypeOK
  <2>2. pending' \subseteq Goroutines
    BY DEF Moved, ExecutionTypeOK, Goroutines
  <2>3. task' \in [Flows -> [Tasks -> {"none", "live", "stopped"}]]
    BY DEF ExecutionTypeOK
  <2>4. stopAsked' \in [Flows -> SUBSET Tasks]
    BY DEF ExecutionTypeOK
  <2> QED BY <2>1, <2>2, <2>3, <2>4 DEF ExecutionTypeOK
<1>4. FlowInv'
  <2>1. SUFFICES ASSUME NEW g \in Flows
                 PROVE  /\ Placed(g, flow'[g])
                        /\ flow'[g].pc \in RestAt => g \notin pending'
                        /\ TasksKept(g)'
    BY DEF FlowInv
  <2>2. CASE g = f
    BY <2>2 DEF Moved
  <2>3. CASE g # f
    <3>1. Placed(g, flow[g]) /\ (flow[g].pc \in RestAt => g \notin pending) /\ TasksKept(g)
      BY DEF FlowInv
    <3>2. g \in pending' <=> g \in pending
      BY <2>3 DEF Moved
    <3>3. TasksKept(g)'
      BY <1>1, <2>3, <3>1 DEF TasksKept
    <3> QED BY <1>1, <2>3, <3>1, <3>2, <3>3
  <2> QED BY <2>2, <2>3
<1>5. TreeInv'
  BY TreeKept DEF FlowInv
<1>6. RunInv'
  <2>1. main' = "ended" => Main \notin pending'
    BY <1>2 DEF Moved, RunInv
  <2>2. flow[Root].pc \in {"idle", "returned"} => f # Root
    BY RootRests
  <2>3. main' \in {"start", "spawn"} => flow'[Root].pc = "idle"
    BY <1>1, <1>2, <2>2 DEF RunInv
  <2>4. woken' = "done" => flow'[Root].pc = "returned"
    BY <1>1, <1>2, <2>2 DEF RunInv
  <2> QED BY <2>1, <2>3, <2>4 DEF RunInv
<1> QED BY <1>3, <1>4, <1>5, <1>6

LEMMA LoopKeeps ==
  ASSUME ExecutionInv, NEW f \in Flows, LoopStep(f)
  PROVE  ExecutionInv'
<1>1. ExecutionTypeOK /\ FlowInv
  BY DEF ExecutionInv
<1>2. Moved(f) /\ flow'[f].pc \notin EcsAt
  BY <1>1, LoopMoves
<1>3. /\ flow[f].pc \notin EcsAt /\ ~AtRest(f)
      /\ flow[f].pc = "join" => Joined(f)
      /\ UNCHANGED <<task, stopAsked, cancelled, expired, main, ended>>
  BY <1>1, LoopBegins
<1>4. woken' = woken \/ (woken' = "done" /\ f = Root /\ flow'[f].pc = "returned")
  BY <1>1, LoopWakes
<1>5. TasksKept(f)'
  BY <1>1, <1>2, <1>3 DEF FlowInv, TasksKept
<1>6. /\ task' = [task EXCEPT ![f] = task'[f]] /\ task'[f] \in [Tasks -> {"none", "live", "stopped"}]
      /\ stopAsked' = [stopAsked EXCEPT ![f] = stopAsked'[f]] /\ stopAsked'[f] \in SUBSET Tasks
  BY <1>1, <1>3 DEF ExecutionTypeOK
<1> QED BY <1>2, <1>3, <1>4, <1>5, <1>6, StepKept

LEMMA EcsKeeps ==
  ASSUME ExecutionInv, NEW f \in Flows, EcsStep(f)
  PROVE  ExecutionInv'
<1>1. ExecutionTypeOK /\ FlowInv
  BY DEF ExecutionInv
<1>2. EcsKept(f)
  BY <1>1, EcsMoves
<1>3. /\ flow[f].pc # "join" /\ ~AtRest(f)
      /\ UNCHANGED <<cancelled, expired, main, woken, ended>>
  BY <1>1, EcsBegins
<1> QED BY <1>2, <1>3, StepKept DEF EcsKept

LEMMA TaskStopsKeeps ==
  ASSUME ExecutionInv, NEW f \in Flows, NEW i \in Tasks, TaskStops(f, i)
  PROVE  ExecutionInv'
<1>1. /\ task' = [task EXCEPT ![f][i] = "stopped"]
      /\ UNCHANGED <<flow, stopAsked, pending, cancelled, expired, main, woken, ended>>
  BY DEF TaskStops, EcsFrame
<1>2. task \in [Flows -> [Tasks -> {"none", "live", "stopped"}]]
  BY DEF ExecutionInv, ExecutionTypeOK
<1>3. task' \in [Flows -> [Tasks -> {"none", "live", "stopped"}]]
  BY <1>1, <1>2
<1>4. \A g \in Flows : \A j \in Tasks : task'[g][j] = task[g][j] \/ task'[g][j] = "stopped"
  BY <1>1, <1>2
<1>5. ExecutionTypeOK'
  BY <1>1, <1>3 DEF ExecutionInv, ExecutionTypeOK
<1>6. FlowInv'
  <2>1. SUFFICES ASSUME NEW g \in Flows
                 PROVE  /\ Placed(g, flow'[g])
                        /\ flow'[g].pc \in RestAt => g \notin pending'
                        /\ TasksKept(g)'
    BY DEF FlowInv
  <2>2. Placed(g, flow[g]) /\ (flow[g].pc \in RestAt => g \notin pending) /\ TasksKept(g)
    BY DEF ExecutionInv, FlowInv
  <2>3. flow[g].seen \subseteq Tasks
    BY DEF ExecutionInv, ExecutionTypeOK, FlowRecord
  <2>4. TasksKept(g)'
    BY <1>1, <1>4, <2>2, <2>3 DEF TasksKept
  <2> QED BY <1>1, <2>2, <2>4
<1>7. TreeInv'
  BY <1>1 DEF ExecutionInv, TreeInv, AtRest, Awaited
<1>8. RunInv'
  BY <1>1 DEF ExecutionInv, RunInv
<1> QED BY <1>5, <1>6, <1>7, <1>8 DEF ExecutionInv

(* Parallel and Map: the parent waits and its children, all at rest, start.   *)
LEMMA ForkKeeps ==
  ASSUME ExecutionInv, NEW f \in Flows, ForkStep(f)
  PROVE  ExecutionInv'
<1> DEFINE s == flow[f].state
           waiting == [flow[f] EXCEPT !.pc = "join"]
           started(g) == IF Machine[f][s].type = "Parallel"
                         THEN [IdleFlow EXCEPT !.pc = "top", !.state = StartAt[g]]
                         ELSE [IdleFlow EXCEPT !.pc = "queued"]
<1>0. /\ InState(f, "Parallel") \/ InState(f, "Map")
      /\ NoEvent /\ LoopFrame /\ UNCHANGED woken
  BY Zenon DEF ForkStep, runBranches, runItems
<1>1. /\ flow[f].pc = "dispatch" /\ Machine[f][s].type \in Forking
      /\ UNCHANGED <<pending, task, stopAsked, cancelled, expired, main, ended, woken>>
  BY <1>0 DEF InState, FlowAt, Current, LoopFrame, NoEvent, Forking
<1>15. flow' = [g \in Flows |-> IF g = f THEN waiting
                                ELSE IF g \in Current(f).flows THEN started(g) ELSE flow[g]]
  <2>1. CASE runBranches(f)
    <3>1. Machine[f][s].type = "Parallel"
      BY <2>1, Zenon DEF runBranches, InState, Current
    <3>2. flow' = [g \in Flows |-> IF g = f THEN waiting
                      ELSE IF g \in Current(f).flows
                           THEN [IdleFlow EXCEPT !.pc = "top", !.state = StartAt[g]] ELSE flow[g]]
      BY <2>1, Zenon DEF runBranches
    <3>3. \A g : started(g) = [IdleFlow EXCEPT !.pc = "top", !.state = StartAt[g]]
      BY <3>1, Zenon
    <3> HIDE DEF started, waiting
    <3> QED BY <3>2, <3>3, Zenon
  <2>2. CASE runItems(f)
    <3>1. Machine[f][s].type = "Map"
      BY <2>2, Zenon DEF runItems, InState, Current
    <3>2. flow' = [g \in Flows |-> IF g = f THEN waiting
                      ELSE IF g \in Current(f).flows
                           THEN [IdleFlow EXCEPT !.pc = "queued"] ELSE flow[g]]
      BY <2>2, Zenon DEF runItems
    <3>3. \A g : started(g) = [IdleFlow EXCEPT !.pc = "queued"]
      BY <3>1
    <3> HIDE DEF started, waiting
    <3> QED BY <3>2, <3>3, Zenon
  <2> HIDE DEF waiting, started
  <2> QED BY <2>1, <2>2 DEF ForkStep
<1>2. Placed(f, flow[f]) /\ flow[f] \in FlowRecord
  BY DEF ExecutionInv, FlowInv, ExecutionTypeOK
<1>3. s \in DOMAIN Machine[f]
  BY <1>1, <1>2 DEF Placed, StateAt
<1>4. Forks(f, s) = Current(f).flows
  BY <1>1 DEF Forks, Current
<1>5. Forks(f, s) \subseteq Children /\ Forks(f, s) \subseteq Flows /\ f \notin Forks(f, s)
  BY <1>3, ForkFacts
<1>6. \A g \in Forks(f, s) : AtRest(g)
  <2>1. SUFFICES ASSUME NEW g \in Forks(f, s), Awaited(g)
                 PROVE  FALSE
    BY <1>5 DEF ExecutionInv, TreeInv
  <2>2. PICK e \in Flows : \E t \in DOMAIN Machine[e] :
            g \in Forks(e, t) /\ flow[e].pc = "join" /\ flow[e].state = t
    BY <2>1 DEF Awaited
  <2>3. f = e
    BY <1>3, <2>1, <2>2, OneOwner
  <2> QED BY <1>1, <2>2, <2>3
<1>7. flow'[f] = waiting /\ \A g \in Flows : g \notin {f} \cup Forks(f, s) => flow'[g] = flow[g]
  <2> HIDE DEF started, waiting
  <2> QED BY <1>4, <1>15
<1>8. \A g \in Forks(f, s) : /\ flow'[g].pc \in {"top", "queued"}
                             /\ Placed(g, flow'[g])
  <2> SUFFICES ASSUME NEW g \in Forks(f, s)
               PROVE  flow'[g].pc \in {"top", "queued"} /\ Placed(g, flow'[g])
    OBVIOUS
  <2>1. StartAt[g] \in DOMAIN Machine[g] /\ StartAt[g] \in StateNames
    BY <1>5, InterpreterAssumption, ValidStates DEF validateMachine
  <2>2. flow'[g] = started(g)
    <3> HIDE DEF started, waiting
    <3> QED BY <1>4, <1>5, <1>15
  <2>3. CASE Machine[f][s].type = "Parallel"
    <3> DEFINE r == [IdleFlow EXCEPT !.pc = "top", !.state = StartAt[g]]
    <3>1. flow'[g] = r
      BY <2>2, <2>3
    <3>2. "top" \in FlowPcs
      BY DEF FlowPcs
    <3>3. r \in FlowRecord /\ r.pc = "top" /\ r.state = StartAt[g] /\ r.tries = <<>>
      BY <2>1, <3>2, IdleTyped DEF FlowRecord
    <3> HIDE DEF r
    <3>4. Placed(g, r)
      BY <2>1, <3>3 DEF Placed, TaskAt, EcsAt
    <3> QED BY <3>1, <3>3, <3>4
  <2>4. CASE Machine[f][s].type # "Parallel"
    <3> DEFINE r == [IdleFlow EXCEPT !.pc = "queued"]
    <3>1. flow'[g] = r
      BY <2>2, <2>4
    <3>2. "queued" \in FlowPcs
      BY DEF FlowPcs
    <3>3. r \in FlowRecord /\ r.pc = "queued" /\ r.tries = <<>>
      BY <3>2, IdleTyped DEF FlowRecord
    <3> HIDE DEF r
    <3>4. Placed(g, r)
      BY <3>3 DEF Placed, StateAt, TaskAt, EcsAt
    <3> QED BY <3>1, <3>3, <3>4
  <2> QED BY <2>3, <2>4
<1>9. waiting.pc = "join" /\ waiting.state = s /\ Placed(f, waiting)
  <2>1. /\ waiting.pc = "join" /\ waiting.state = s /\ waiting.tries = flow[f].tries
    BY <1>2 DEF FlowRecord
  <2>2. waiting \in FlowRecord
    <3>1. "join" \in FlowPcs
      BY DEF FlowPcs
    <3> QED BY <1>2, <3>1 DEF FlowRecord
  <2>3. flow[f].tries # <<>> => DOMAIN flow[f].tries = DOMAIN Machine[f][s].retry
    BY <1>2 DEF Placed
  <2> HIDE DEF waiting, s
  <2>4. Placed(f, waiting)
    BY <1>1, <1>3, <2>1, <2>2, <2>3 DEF Placed, StateAt, TaskAt, EcsAt
  <2> QED BY <2>1, <2>4
<1> HIDE DEF waiting, s, started
<1>10. \A g \in Flows : Placed(g, flow'[g])
  BY <1>7, <1>8, <1>9 DEF ExecutionInv, FlowInv
<1>11. ExecutionTypeOK'
  <2>1. flow' = [g \in Flows |-> flow'[g]]
    BY <1>15
  <2>2. \A g \in Flows : flow'[g] \in FlowRecord
    BY <1>10 DEF Placed
  <2>3. flow' \in [Flows -> FlowRecord]
    BY <2>1, <2>2
  <2> QED BY <1>1, <2>3 DEF ExecutionInv, ExecutionTypeOK
<1>12. FlowInv'
  <2>1. SUFFICES ASSUME NEW g \in Flows
                 PROVE  /\ flow'[g].pc \in RestAt => g \notin pending'
                        /\ TasksKept(g)'
    BY <1>10 DEF FlowInv
  <2>2. (flow[g].pc \in RestAt => g \notin pending) /\ TasksKept(g)
    BY DEF ExecutionInv, FlowInv
  <2>3. CASE g \notin {f} \cup Forks(f, s)
    BY <1>1, <1>7, <2>2, <2>3 DEF TasksKept
  <2>4. CASE g \in {f} \cup Forks(f, s)
    <3>1. flow'[g].pc \in {"top", "queued", "join"}
      BY <1>7, <1>8, <1>9, <2>4
    <3>2. flow[g].pc \notin EcsAt
      BY <1>1, <1>6, <2>4 DEF AtRest, EcsAt
    <3> QED BY <1>1, <2>2, <3>1, <3>2 DEF TasksKept, EcsAt, RestAt
  <2> QED BY <2>3, <2>4
<1>13. TreeInv'
  <2>1. SUFFICES ASSUME NEW g \in Children
                 PROVE  AtRest(g)' \/ Awaited(g)'
    BY DEF TreeInv
  <2>2. g \in Flows
    BY DEF Flows
  <2>3. CASE g \in Forks(f, s)
    BY <1>3, <1>7, <1>9, <2>3 DEF Awaited
  <2>4. CASE g \notin Forks(f, s) /\ AtRest(g)
    <3>1. g # f
      BY <1>1, <2>4 DEF AtRest
    <3> QED BY <1>7, <2>2, <2>4, <3>1 DEF AtRest
  <2>5. CASE g \notin Forks(f, s) /\ Awaited(g)
    <3>1. PICK e \in Flows : \E t \in DOMAIN Machine[e] :
              g \in Forks(e, t) /\ flow[e].pc = "join" /\ flow[e].state = t
      BY <2>5 DEF Awaited
    <3>2. e # f
      BY <1>1, <3>1
    <3>3. e \notin Forks(f, s)
      BY <1>6, <3>1 DEF AtRest
    <3>4. flow'[e] = flow[e]
      BY <1>7, <3>2, <3>3
    <3> QED BY <3>1, <3>4 DEF Awaited
  <2> QED BY <2>3, <2>4, <2>5 DEF ExecutionInv, TreeInv
<1>14. RunInv'
  <2>1. Root \in Flows /\ Root \notin Forks(f, s)
    BY <1>5, InterpreterAssumption DEF Flows
  <2>2. flow[Root].pc \in {"idle", "returned"} => flow'[Root] = flow[Root]
    BY <1>1, <1>7, <2>1
  <2> QED BY <1>1, <2>2 DEF ExecutionInv, RunInv
<1> QED BY <1>11, <1>12, <1>13, <1>14 DEF ExecutionInv

-----------------------------------------------------------------------------
(* The emitter and run_.                                                      *)

LEMMA SinkKeeps ==
  ASSUME ExecutionInv, NEW g \in Goroutines, Sink(g)
  PROVE  ExecutionInv'
<1>1. /\ pending' = pending \ {g}
      /\ UNCHANGED <<flow, task, stopAsked, cancelled, expired, main, woken, ended>>
  BY DEF Sink
<1>2. ExecutionTypeOK'
  BY <1>1 DEF ExecutionInv, ExecutionTypeOK
<1>3. FlowInv'
  BY <1>1 DEF ExecutionInv, FlowInv, TasksKept
<1>4. TreeInv'
  BY <1>1 DEF ExecutionInv, TreeInv, AtRest, Awaited
<1>5. RunInv'
  BY <1>1 DEF ExecutionInv, RunInv
<1> QED BY <1>2, <1>3, <1>4, <1>5 DEF ExecutionInv

(* Only the loop's spawning touches a flow.                                   *)
LEMMA MainKeeps ==
  ASSUME ExecutionInv, ExecutionStarted \/ Select \/ Finish \/ Snapshot \/ Cancel \/ Deadline
  PROVE  ExecutionInv'
<1>1. UNCHANGED <<flow, task, stopAsked>>
  BY DEF ExecutionStarted, Select, Finish, Snapshot, Cancel, Deadline, MainFrame
<1>2. pending' = pending \/ pending' = pending \cup {Main}
  BY DEF ExecutionStarted, Select, Finish, Snapshot, Cancel, Deadline, emit, NoEvent
<1>3. Main \notin Flows
  BY InterpreterAssumption
<1>4. ExecutionTypeOK'
  <2>1. pending' \subseteq Goroutines
    BY <1>2 DEF ExecutionInv, ExecutionTypeOK, Goroutines
  <2>2. cancelled' \in BOOLEAN /\ expired' \in BOOLEAN
    BY DEF ExecutionStarted, Select, Finish, Snapshot, Cancel, Deadline, MainFrame, ExecutionInv,
           ExecutionTypeOK
  <2>3. main' \in {"start", "spawn", "select", "parked", "ended"}
    BY DEF ExecutionStarted, Select, Finish, Snapshot, Cancel, Deadline, ExecutionInv, ExecutionTypeOK
  <2>4. woken' \in {"none", "done", "ctx"}
    BY DEF ExecutionStarted, Select, Finish, Snapshot, Cancel, Deadline, WokenByCtx, ExecutionInv,
           ExecutionTypeOK
  <2>5. TerminalStatus \in {"SUCCEEDED", "FAILED", "TIMED_OUT", "ABORTED"}
    BY DEF TerminalStatus, finishAborted
  <2>6. ended' \in {"none", "SUCCEEDED", "FAILED", "TIMED_OUT", "ABORTED"}
    BY <2>5 DEF ExecutionStarted, Select, Finish, Snapshot, Cancel, Deadline, ExecutionInv,
                ExecutionTypeOK
  <2> QED BY <1>1, <2>1, <2>2, <2>3, <2>4, <2>6 DEF ExecutionInv, ExecutionTypeOK
<1>5. FlowInv'
  BY <1>1, <1>2, <1>3 DEF ExecutionInv, FlowInv, TasksKept
<1>6. TreeInv'
  BY <1>1 DEF ExecutionInv, TreeInv, AtRest, Awaited
<1>7. RunInv'
  <2>1. main' \in {"start", "spawn"} => main \in {"start", "spawn"}
    BY DEF ExecutionStarted, Select, Finish, Snapshot, Cancel, Deadline
  <2>2. woken' = "done" => woken = "done" \/ flow[Root].pc = "returned"
    BY DEF ExecutionStarted, Select, Finish, Snapshot, Cancel, Deadline, WokenByCtx
  <2>3. main' = "ended" => Main \notin pending'
    BY DEF ExecutionStarted, Select, Finish, Snapshot, Cancel, Deadline, Emitting, NoEvent,
           ExecutionInv, RunInv
  <2> QED BY <1>1, <2>1, <2>2, <2>3 DEF ExecutionInv, RunInv
<1> QED BY <1>4, <1>5, <1>6, <1>7 DEF ExecutionInv

LEMMA SpawnKeeps ==
  ASSUME ExecutionInv, SpawnLoop
  PROVE  ExecutionInv'
<1> DEFINE r == [IdleFlow EXCEPT !.pc = "top", !.state = StartAt[Root]]
<1>1. /\ main = "spawn" /\ main' = "select" /\ flow' = [flow EXCEPT ![Root] = r]
      /\ UNCHANGED <<pending, woken, ended, task, stopAsked, cancelled, expired>>
  BY DEF SpawnLoop, NoEvent, MainFrame
<1>2. Root \in Flows /\ flow[Root].pc = "idle"
  BY <1>1 DEF Flows, ExecutionInv, RunInv
<1>3. StartAt[Root] \in DOMAIN Machine[Root] /\ StartAt[Root] \in StateNames
  BY <1>2, InterpreterAssumption, ValidStates DEF validateMachine
<1>4. r \in FlowRecord /\ r.pc = "top" /\ r.state = StartAt[Root] /\ r.tries = <<>>
  <2>1. "top" \in FlowPcs
    BY DEF FlowPcs
  <2> QED BY <1>3, <2>1, IdleTyped DEF FlowRecord
<1> HIDE DEF r
<1>5. Placed(Root, r)
  BY <1>3, <1>4 DEF Placed, TaskAt, EcsAt
<1>6. flow'[Root] = r /\ \A g \in Flows : g # Root => flow'[g] = flow[g]
  BY <1>1, <1>2 DEF ExecutionInv, ExecutionTypeOK
<1>7. ExecutionTypeOK'
  BY <1>1, <1>4 DEF ExecutionInv, ExecutionTypeOK
<1>8. FlowInv'
  <2>1. SUFFICES ASSUME NEW g \in Flows
                 PROVE  /\ Placed(g, flow'[g])
                        /\ flow'[g].pc \in RestAt => g \notin pending'
                        /\ TasksKept(g)'
    BY DEF FlowInv
  <2>2. Placed(g, flow[g]) /\ (flow[g].pc \in RestAt => g \notin pending) /\ TasksKept(g)
    BY DEF ExecutionInv, FlowInv
  <2>3. CASE g = Root
    BY <1>1, <1>2, <1>4, <1>5, <1>6, <2>2, <2>3 DEF TasksKept, EcsAt, RestAt
  <2>4. CASE g # Root
    BY <1>1, <1>6, <2>2, <2>4 DEF TasksKept
  <2> QED BY <2>3, <2>4
<1>9. TreeInv'
  <2>1. SUFFICES ASSUME NEW g \in Children
                 PROVE  AtRest(g)' \/ Awaited(g)'
    BY DEF TreeInv
  <2>2. g \in Flows /\ g # Root
    BY InterpreterAssumption DEF Flows
  <2>3. CASE AtRest(g)
    BY <1>6, <2>2, <2>3 DEF AtRest
  <2>4. CASE Awaited(g)
    <3>1. PICK e \in Flows : \E t \in DOMAIN Machine[e] :
              g \in Forks(e, t) /\ flow[e].pc = "join" /\ flow[e].state = t
      BY <2>4 DEF Awaited
    <3>2. flow'[e] = flow[e]
      BY <1>2, <1>6, <3>1
    <3> QED BY <3>1, <3>2 DEF Awaited
  <2> QED BY <2>3, <2>4 DEF ExecutionInv, TreeInv
<1>10. RunInv'
  BY <1>1, <1>2, <1>6 DEF ExecutionInv, RunInv
<1> QED BY <1>7, <1>8, <1>9, <1>10 DEF ExecutionInv

LEMMA ExecutionStarts == ExecutionInit => ExecutionInv
<1> SUFFICES ASSUME ExecutionInit PROVE ExecutionInv
  OBVIOUS
<1>1. /\ flow = [f \in Flows |-> IdleFlow] /\ pending = {} /\ task = [f \in Flows |-> NoTasks]
      /\ stopAsked = [f \in Flows |-> {}] /\ cancelled = FALSE /\ expired = FALSE
      /\ main = "start" /\ woken = "none" /\ ended = "none"
  BY DEF ExecutionInit
<1>2. NoTasks \in [Tasks -> {"none", "live", "stopped"}] /\ \A i \in Tasks : NoTasks[i] # "live"
  BY DEF NoTasks
<1>3. \A f \in Flows : flow[f] = IdleFlow /\ flow[f].pc = "idle"
  BY <1>1, IdleTyped
<1>4. ExecutionTypeOK
  <2>1. flow \in [Flows -> FlowRecord]
    BY <1>1, IdleTyped
  <2>2. task \in [Flows -> [Tasks -> {"none", "live", "stopped"}]]
    BY <1>1, <1>2
  <2> QED BY <1>1, <2>1, <2>2 DEF ExecutionTypeOK
<1>5. FlowInv
  <2>1. \A f \in Flows : Placed(f, IdleFlow)
    BY IdleTyped DEF Placed, StateAt, TaskAt, EcsAt
  <2>2. \A f \in Flows : TasksKept(f)
    BY <1>1, <1>2, <1>3 DEF TasksKept, EcsAt
  <2> QED BY <1>1, <1>3, <2>1, <2>2 DEF FlowInv
<1>6. TreeInv
  BY <1>3 DEF TreeInv, AtRest, Flows
<1>7. RunInv
  BY <1>1, <1>3 DEF RunInv, Flows
<1> QED BY <1>4, <1>5, <1>6, <1>7 DEF ExecutionInv

LEMMA ExecutionInvariant == ExecutionSpec => []ExecutionInv
<1>1. ExecutionInit => ExecutionInv
  BY ExecutionStarts
<1>2. ExecutionInv /\ [ExecutionNext]_executionVars => ExecutionInv'
  <2> SUFFICES ASSUME ExecutionInv, [ExecutionNext]_executionVars PROVE ExecutionInv'
    OBVIOUS
  <2>1. ASSUME NEW f \in Flows, FlowStep(f) PROVE ExecutionInv'
    <3>1. LoopStep(f) \/ EcsStep(f) \/ ForkStep(f)
      BY <2>1 DEF FlowStep, LoopStep, EcsStep, ForkStep
    <3> QED BY <3>1, LoopKeeps, EcsKeeps, ForkKeeps
  <2>2. ASSUME NEW f \in Flows, NEW i \in Tasks, TaskStops(f, i) PROVE ExecutionInv'
    BY <2>2, TaskStopsKeeps
  <2>3. ASSUME NEW g \in Goroutines, Sink(g) PROVE ExecutionInv'
    BY <2>3, SinkKeeps
  <2>4. CASE SpawnLoop
    BY <2>4, SpawnKeeps
  <2>5. CASE ExecutionStarted \/ Select \/ Finish \/ Snapshot \/ Cancel \/ Deadline
    BY <2>5, MainKeeps
  <2>6. CASE UNCHANGED executionVars
    BY <2>6 DEF executionVars, ExecutionInv, ExecutionTypeOK, FlowInv, TasksKept, TreeInv, AtRest,
                Awaited, RunInv
  <2> QED BY <2>1, <2>2, <2>3, <2>4, <2>5, <2>6 DEF ExecutionNext
<1> QED BY <1>1, <1>2, PTL DEF ExecutionSpec

(* A set of naturals without a least element is empty.                        *)
LEMMA NoDescent ==
  ASSUME NEW S, S \subseteq Nat, \A n \in S : \E m \in S : m < n
  PROVE  S = {}
<1> DEFINE R == {ss \in Nat \X Nat : ss[1] < ss[2]}
<1>1. IsWellFoundedOn(R, Nat)
  BY NatLessThanWellFounded, Zenon DEF OpToRel
<1>2. SUFFICES ASSUME S # {} PROVE FALSE
  OBVIOUS
<1>3. PICK t \in S : \A u \in S : <<u, t>> \notin R
  <2> HIDE DEF R
  <2> QED BY <1>1, <1>2, WFMin
<1>4. PICK m \in S : m < t
  OBVIOUS
<1>5. <<m, t>> \notin R
  BY <1>3
<1> QED BY <1>4, <1>5

(* When the root is at rest, so is every flow: one that is not has a parent   *)
(* that is not, which lies less deep.                                         *)
LEMMA AllAtRest ==
  ASSUME ExecutionInv, flow[Root].pc = "returned"
  PROVE  \A g \in Children : AtRest(g)
<1>1. PICK depth \in [Flows -> 0..Cardinality(Children)] :
        \A f \in Flows : \A s \in DOMAIN Machine[f] :
            \A g \in Forks(f, s) : depth[f] < depth[g]
  BY InterpreterAssumption DEF Nested
<1>2. \A f \in Flows : depth[f] \in Nat
  <2>1. Cardinality(Children) \in Nat
    BY InterpreterAssumption, FS_CardinalityType
  <2> QED BY <1>1, <2>1
<1>3. ASSUME NEW g \in Children, ~AtRest(g)
      PROVE  \E e \in Children : ~AtRest(e) /\ depth[e] < depth[g]
  <2>1. PICK e \in Flows : \E s \in DOMAIN Machine[e] :
            g \in Forks(e, s) /\ flow[e].pc = "join" /\ flow[e].state = s
    BY <1>3 DEF ExecutionInv, TreeInv, Awaited
  <2>2. depth[e] < depth[g]
    BY <1>1, <2>1
  <2>3. e # Root
    BY <2>1
  <2>4. e \in Children
    BY <2>1, <2>3 DEF Flows
  <2>5. ~AtRest(e)
    BY <2>1 DEF AtRest
  <2> QED BY <2>2, <2>4, <2>5
<1> DEFINE Depths == {depth[g] : g \in {h \in Children : ~AtRest(h)}}
<1>4. Depths \subseteq Nat
  BY <1>2 DEF Flows
<1>5. \A n \in Depths : \E m \in Depths : m < n
  BY <1>3
<1>6. Depths = {}
  <2> HIDE DEF Depths
  <2> QED BY <1>4, <1>5, NoDescent
<1> QED BY <1>6

(* No task launched by ecs:runTask.sync is left running unasked once runECS   *)
(* has returned, for every machine and whatever cancels, fails or times out   *)
(* (service.go: runECS, waitECSTasks, stopECSTasks).                          *)
THEOREM TasksNeverAbandoned == ExecutionSpec => []NoAbandonedTask
<1>1. ExecutionInv => NoAbandonedTask
  BY DEF ExecutionInv, FlowInv, TasksKept, NoAbandonedTask, EcsAt
<1> QED BY <1>1, ExecutionInvariant, PTL

(* An execution that ended by its root's return is copied with its whole      *)
(* history: no branch or item runs or holds an event, at any depth            *)
(* (states.go: runBranches, runItems; interpreter.go: run_).                  *)
THEOREM HistoriesAreComplete == ExecutionSpec => []HistoryComplete
<1>1. ExecutionInv => HistoryComplete
  <2> SUFFICES ASSUME ExecutionInv, main = "ended", woken = "done"
               PROVE  pending = {} /\ \A f \in Flows : flow[f].pc \in {"idle", "returned", "joined"}
    BY DEF HistoryComplete
  <2>1. flow[Root].pc = "returned" /\ Main \notin pending
    BY DEF ExecutionInv, RunInv
  <2>2. \A g \in Children : AtRest(g)
    BY <2>1, AllAtRest
  <2>3. \A f \in Flows : flow[f].pc \in {"idle", "returned", "joined"}
    BY <2>1, <2>2 DEF AtRest, Flows
  <2>4. \A f \in Flows : f \notin pending
    BY <2>3 DEF ExecutionInv, FlowInv, RestAt
  <2>5. pending = {}
    BY <2>1, <2>4 DEF ExecutionInv, ExecutionTypeOK, Goroutines
  <2> QED BY <2>3, <2>5
<1> QED BY <1>1, ExecutionInvariant, PTL

(* The state of the interpreter model keeps its types.                        *)
THEOREM ExecutionType == ExecutionSpec => []ExecutionTypeOK
<1>1. ExecutionInv => ExecutionTypeOK
  BY DEF ExecutionInv
<1> QED BY <1>1, ExecutionInvariant, PTL
=============================================================================
