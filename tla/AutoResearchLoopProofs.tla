----------------------- MODULE AutoResearchLoopProofs -----------------------
(***************************************************************************)
(* Theorems about AutoResearchLoop for every value of its constants: any   *)
(* number of rounds, runs, configurations and versions, and any set of     *)
(* faults.                                                                 *)
(*                                                                         *)
(* The first part shows that each way the controller edits a status keeps  *)
(* the status in order; the second that every step keeps the three copies  *)
(* of the status in order and in step with each other; the third draws the *)
(* theorems from it.  The fourth and the fifth add what DSP and the wiki   *)
(* hold, under the assumption on the faults that each theorem states; the  *)
(* sixth and the eighth where the losses of the status and of the wiki     *)
(* come from, the seventh that no write of the status takes anything back. *)
(***************************************************************************)
EXTENDS AutoResearchLoop, FiniteSetTheorems, TLAPS

-----------------------------------------------------------------------------
(* 1. The status, one edit at a time                                       *)

\* A status in order.  The last conjunct says more than the properties do: a
\* measured round has a loss, so the best so far never compares with NoLoss.
StatusOK(s) ==
    /\ s \in Status
    /\ Accounted(s)
    /\ WithinBudget(s)
    /\ IsBest(s)
    /\ \A r \in Measured(s) : s.evalLoss[r] \in Loss

HasRoom(s) == s.run < MaxTotal /\ Cardinality(OpenRounds(s)) < MaxConcurrent

\* Sets of rounds are finite, so their sizes are numbers.
LEMMA RoundsFinite ==
    ASSUME NEW S, S \subseteq Round
    PROVE  IsFiniteSet(S) /\ Cardinality(S) \in Nat
<1>1. IsFiniteSet(Round)
  BY LoopAssumption, FS_Interval DEF Round
<1>2. IsFiniteSet(S)
  BY <1>1, FS_Subset
<1>3. QED
  BY <1>2, FS_CardinalityType

\* Adding a new round to a set of rounds adds one, removing one takes one.
LEMMA RoundsStep ==
    ASSUME NEW S, S \subseteq Round, NEW r \in Round
    PROVE  /\ r \notin S => Cardinality(S \cup {r}) = Cardinality(S) + 1
           /\ r \in S => Cardinality(S \ {r}) = Cardinality(S) - 1
BY RoundsFinite, FS_AddElement, FS_RemoveElement

\* The status of a project that was just created is in order.
LEMMA NewStatusOK == StatusOK(NewStatus)
<1>1. NewStatus \in Status
  BY LoopAssumption DEF NewStatus, Status, Outcome, Phase, Round, NoLoss
<1>2. OpenRounds(NewStatus) = {} /\ Counted(NewStatus) = {} /\ Measured(NewStatus) = {}
  BY DEF NewStatus, OpenRounds, Counted, Measured
<1>3. Accounted(NewStatus)
  <2>1. /\ NewStatus.round = 0 /\ NewStatus.run = 0
        /\ \A r \in Round : NewStatus.outcome[r] = "none"
    BY DEF NewStatus
  <2>2. 1..NewStatus.round = {}
    BY <2>1
  <2>3. {r \in Round : NewStatus.outcome[r] # "none"} = {}
    BY <2>1
  <2>4. {r \in Round : NewStatus.outcome[r] = "open"} = {}
    BY <2>1
  <2>5. QED
    BY <1>2, <2>1, <2>2, <2>3, <2>4, FS_EmptySet DEF Accounted
<1>4. WithinBudget(NewStatus)
  <2>1. NewStatus.run = 0 /\ Cardinality(OpenRounds(NewStatus)) = 0
    BY <1>2, FS_EmptySet DEF NewStatus
  <2>2. QED
    BY <2>1, LoopAssumption DEF WithinBudget
<1>5. IsBest(NewStatus)
  BY <1>2 DEF IsBest, NewStatus
<1>6. QED
  BY <1>1, <1>2, <1>3, <1>4, <1>5 DEF StatusOK

\* Setting the phase or resetting the breaker disturbs nothing else.
LEMMA PhaseOK ==
    ASSUME NEW s, StatusOK(s), NEW p \in Phase
    PROVE  /\ StatusOK([s EXCEPT !.phase = p])
           /\ OpenRounds([s EXCEPT !.phase = p]) = OpenRounds(s)
<1> DEFINE t == [s EXCEPT !.phase = p]
<1>1. /\ t \in Status /\ t.round = s.round /\ t.open = s.open /\ t.run = s.run
      /\ t.outcome = s.outcome /\ t.evalLoss = s.evalLoss /\ t.best = s.best
      /\ t.bestRound = s.bestRound /\ t.kept = s.kept
  BY DEF StatusOK, Status
<1> HIDE DEF t
<1>2. /\ OpenRounds(t) = OpenRounds(s) /\ Counted(t) = Counted(s)
      /\ Measured(t) = Measured(s)
  BY <1>1 DEF OpenRounds, Counted, Measured
<1>3. StatusOK(t)
  BY <1>1, <1>2 DEF StatusOK, Accounted, WithinBudget, IsBest
<1>4. QED
  BY <1>2, <1>3 DEF t

LEMMA ResetOK ==
    ASSUME NEW s, StatusOK(s)
    PROVE  StatusOK([s EXCEPT !.fails = 0])
<1> DEFINE t == [s EXCEPT !.fails = 0]
<1>1. /\ t \in Status /\ t.round = s.round /\ t.open = s.open /\ t.run = s.run
      /\ t.outcome = s.outcome /\ t.evalLoss = s.evalLoss /\ t.best = s.best
      /\ t.bestRound = s.bestRound /\ t.kept = s.kept
  BY DEF StatusOK, Status
<1> HIDE DEF t
<1>2. /\ OpenRounds(t) = OpenRounds(s) /\ Counted(t) = Counted(s)
      /\ Measured(t) = Measured(s)
  BY <1>1 DEF OpenRounds, Counted, Measured
<1>3. StatusOK(t)
  BY <1>1, <1>2 DEF StatusOK, Accounted, WithinBudget, IsBest
<1>4. QED
  BY <1>3 DEF t

\* What drainOpenJobs writes for a terminal run.
LEMMA DrainedOK ==
    ASSUME NEW s, StatusOK(s), NEW r \in OpenRounds(s),
           NEW loss \in Loss \cup {NoLoss}
    PROVE  /\ StatusOK(Drained(s, r, loss))
           /\ OpenRounds(Drained(s, r, loss)) = OpenRounds(s) \ {r}
<1> DEFINE t    == Drained(s, r, loss)
           ok   == loss # NoLoss
           kept == ok /\ IsImprovement(s, loss)
<1>1. s \in Status /\ r \in Round /\ s.outcome[r] = "open"
  BY DEF StatusOK, Accounted, OpenRounds
<1>2. /\ t.round = s.round /\ t.run = s.run + 1
      /\ t.open = [s.open EXCEPT ![r] = NoRun]
      /\ t.outcome = [s.outcome EXCEPT ![r] = IF ok THEN "measured" ELSE "failed"]
      /\ t.evalLoss = [s.evalLoss EXCEPT ![r] = loss]
      /\ t.kept = IF kept THEN s.kept + 1 ELSE s.kept
      /\ t.best = IF kept THEN loss ELSE s.best
      /\ t.bestRound = IF kept THEN r ELSE s.bestRound
  BY <1>1 DEF Drained, Status
<1>3. t \in Status
  <2>1. t = [s EXCEPT !.open = [s.open EXCEPT ![r] = NoRun],
                      !.timed = s.timed \ {r}, !.outcome = t.outcome,
                      !.evalLoss = [s.evalLoss EXCEPT ![r] = loss],
                      !.run = s.run + 1, !.kept = t.kept, !.best = t.best,
                      !.bestRound = t.bestRound, !.fails = t.fails]
    BY <1>1 DEF Drained, Status
  <2>2. /\ t.outcome \in [Round -> Outcome] /\ t.kept \in Nat
        /\ t.best \in Loss \cup {NoLoss} /\ t.bestRound \in 0..RoundLimit
        /\ t.fails \in Nat
    BY <1>1, <1>2, LoopAssumption DEF Drained, Status, Outcome, Round
  <2>3. /\ [s.open EXCEPT ![r] = NoRun] \in [Round -> RunId \cup {NoRun}]
        /\ [s.evalLoss EXCEPT ![r] = loss] \in [Round -> Loss \cup {NoLoss}]
        /\ s.timed \ {r} \subseteq Round /\ s.run + 1 \in Nat
    BY <1>1 DEF Status
  <2> HIDE DEF t
  <2> DEFINE u == [s EXCEPT !.open = [s.open EXCEPT ![r] = NoRun],
                            !.timed = s.timed \ {r}, !.outcome = t.outcome,
                            !.evalLoss = [s.evalLoss EXCEPT ![r] = loss]]
  <2>4. u \in Status
    BY <1>1, <2>2, <2>3 DEF Status
  <2>5. t = [u EXCEPT !.run = s.run + 1, !.kept = t.kept, !.best = t.best,
                      !.bestRound = t.bestRound, !.fails = t.fails]
    BY <2>1
  <2> HIDE DEF u
  <2>6. QED
    BY <2>2, <2>3, <2>4, <2>5 DEF Status
<1> HIDE DEF t
<1>4. OpenRounds(t) = OpenRounds(s) \ {r}
  BY <1>1, <1>2 DEF OpenRounds, Status
<1>5. Counted(t) = Counted(s) \cup {r} /\ r \notin Counted(s)
  BY <1>1, <1>2 DEF Counted, Status
<1>6. Measured(t) = IF ok THEN Measured(s) \cup {r} ELSE Measured(s)
  BY <1>1, <1>2 DEF Measured, Status
<1>7. r \notin Measured(s)
  BY <1>1 DEF Measured
<1>8. /\ Cardinality(OpenRounds(t)) = Cardinality(OpenRounds(s)) - 1
      /\ Cardinality(Counted(t)) = Cardinality(Counted(s)) + 1
  BY <1>1, <1>4, <1>5, RoundsStep DEF OpenRounds, Counted
<1>9. Accounted(t)
  <2>1. {q \in Round : t.outcome[q] # "none"} = {q \in Round : s.outcome[q] # "none"}
    BY <1>1, <1>2 DEF Status
  <2>2. {q \in Round : t.outcome[q] = "open"} = {q \in Round : s.outcome[q] = "open"} \ {r}
    BY <1>1, <1>2 DEF Status
  <2>3. QED
    BY <1>2, <1>4, <1>8, <2>1, <2>2 DEF StatusOK, Accounted
<1>10. WithinBudget(t)
  <2>1. Cardinality(OpenRounds(s)) \in Nat /\ s.run \in Nat
    BY <1>1, RoundsFinite DEF OpenRounds, Status
  <2>2. QED
    BY <1>2, <1>8, <2>1, LoopAssumption DEF StatusOK, WithinBudget
<1>11. \A q \in Measured(t) : t.evalLoss[q] \in Loss
  BY <1>1, <1>2, <1>6 DEF StatusOK, Status, Measured
<1>12. IsBest(t)
  <2>1. CASE ~ok
    BY <2>1, <1>1, <1>2, <1>6, <1>7 DEF StatusOK, IsBest, Status, Measured
  <2>2. CASE ok
    <3>1. /\ Measured(t) = Measured(s) \cup {r} /\ Measured(t) # {}
          /\ t.evalLoss[r] = loss /\ loss \in Loss /\ loss \in Nat
          /\ \A q \in Measured(s) : t.evalLoss[q] = s.evalLoss[q]
      BY <2>2, <1>1, <1>2, <1>6, <1>7, LoopAssumption DEF Status, Measured
    <3>2. /\ Cardinality(Measured(t)) = Cardinality(Measured(s)) + 1
          /\ Cardinality(Measured(s)) \in Nat
      BY <3>1, <1>1, <1>7, RoundsStep, RoundsFinite DEF Measured
    <3>3. \A q \in Measured(s) : s.evalLoss[q] \in Nat
      BY LoopAssumption DEF StatusOK
    <3>4. CASE Measured(s) = {}
      <4>1. s.best = NoLoss /\ s.kept = 0 /\ Cardinality(Measured(s)) = 0
        BY <3>4, FS_EmptySet DEF StatusOK, IsBest
      <4>2. kept
        BY <4>1, <2>2 DEF IsImprovement
      <4>3. QED
        BY <4>1, <4>2, <3>1, <3>2, <3>4, <1>2 DEF IsBest
    <3>5. CASE Measured(s) # {}
      <4>1. /\ s.bestRound \in Measured(s) /\ s.best = s.evalLoss[s.bestRound]
            /\ \A q \in Measured(s) : IF Minimize THEN s.best <= s.evalLoss[q]
                                                  ELSE s.best >= s.evalLoss[q]
            /\ s.kept \in 1..Cardinality(Measured(s))
            /\ s.best \in Nat /\ s.best # NoLoss
        BY <3>5, <3>3, LoopAssumption DEF StatusOK, IsBest, NoLoss
      <4>2. IsImprovement(s, loss) <=> IF Minimize THEN loss < s.best ELSE loss > s.best
        BY <4>1 DEF IsImprovement
      <4>3. t.kept \in 1..Cardinality(Measured(t))
        BY <4>1, <3>2, <1>2
      <4>4. t.bestRound \in Measured(t) /\ t.best = t.evalLoss[t.bestRound]
        BY <4>1, <3>1, <1>2
      <4>5. \A q \in Measured(t) : IF Minimize THEN t.best <= t.evalLoss[q]
                                               ELSE t.best >= t.evalLoss[q]
        BY <4>1, <4>2, <3>1, <3>3, <1>2, <2>2
      <4>6. QED
        BY <4>3, <4>4, <4>5, <3>1 DEF IsBest
    <3>6. QED
      BY <3>4, <3>5
  <2>3. QED
    BY <2>1, <2>2
<1>13. QED
  BY <1>3, <1>4, <1>9, <1>10, <1>11, <1>12 DEF StatusOK, t
\* What cullStaleOpenRuns writes for a run of an older pipeline version.
LEMMA SupersededOK ==
    ASSUME NEW s, StatusOK(s), NEW r \in OpenRounds(s)
    PROVE  /\ StatusOK(Superseded(s, r))
           /\ OpenRounds(Superseded(s, r)) = OpenRounds(s) \ {r}
<1> DEFINE t == Superseded(s, r)
<1>1. s \in Status /\ r \in Round /\ s.outcome[r] = "open"
  BY DEF StatusOK, Accounted, OpenRounds
<1>2. /\ t.round = s.round /\ t.run = s.run /\ t.kept = s.kept
      /\ t.open = [s.open EXCEPT ![r] = NoRun]
      /\ t.outcome = [s.outcome EXCEPT ![r] = "superseded"]
      /\ t.evalLoss = s.evalLoss /\ t.best = s.best /\ t.bestRound = s.bestRound
  BY <1>1 DEF Superseded, Status
<1>3. t \in Status
  BY <1>1 DEF Superseded, Status, Outcome
<1> HIDE DEF t
<1>4. OpenRounds(t) = OpenRounds(s) \ {r}
  BY <1>1, <1>2 DEF OpenRounds, Status
<1>5. Counted(t) = Counted(s) /\ Measured(t) = Measured(s)
  BY <1>1, <1>2 DEF Counted, Measured, Status
<1>6. /\ Cardinality(OpenRounds(t)) = Cardinality(OpenRounds(s)) - 1
      /\ Cardinality(OpenRounds(s)) \in Nat
  BY <1>1, <1>4, RoundsStep, RoundsFinite DEF OpenRounds
<1>7. Accounted(t)
  <2>1. {q \in Round : t.outcome[q] # "none"} = {q \in Round : s.outcome[q] # "none"}
    BY <1>1, <1>2 DEF Status
  <2>2. {q \in Round : t.outcome[q] = "open"} = {q \in Round : s.outcome[q] = "open"} \ {r}
    BY <1>1, <1>2 DEF Status
  <2>3. QED
    BY <1>2, <1>4, <1>5, <2>1, <2>2 DEF StatusOK, Accounted
<1>8. WithinBudget(t)
  BY <1>1, <1>2, <1>6, LoopAssumption DEF StatusOK, WithinBudget, Status
<1>9. IsBest(t) /\ \A q \in Measured(t) : t.evalLoss[q] \in Loss
  BY <1>2, <1>5 DEF StatusOK, IsBest
<1>10. QED
  BY <1>3, <1>4, <1>7, <1>8, <1>9 DEF StatusOK, t

\* What Reconcile writes after it submitted the next round, having passed the
\* budget and the concurrency gate.
LEMMA SubmittedOK ==
    ASSUME NEW s, StatusOK(s), NEW id \in RunId, HasRoom(s), s.round < RoundLimit
    PROVE  StatusOK(Submitted(s, s.round + 1, id))
<1> DEFINE r == s.round + 1
           t == Submitted(s, r, id)
<1>1. s \in Status /\ r \in Round /\ r \notin 1..s.round /\ 1..r = (1..s.round) \cup {r}
  BY LoopAssumption DEF StatusOK, Status, Round
<1>2. s.outcome[r] = "none" /\ r \notin OpenRounds(s)
  BY <1>1 DEF StatusOK, Accounted
<1>3. /\ t.round = r /\ t.run = s.run /\ t.kept = s.kept
      /\ t.open = [s.open EXCEPT ![r] = id]
      /\ t.outcome = [s.outcome EXCEPT ![r] = "open"]
      /\ t.evalLoss = s.evalLoss /\ t.best = s.best /\ t.bestRound = s.bestRound
  BY <1>1 DEF Submitted, Status
<1>4. t \in Status
  <2>1. r \in 0..RoundLimit /\ s.timed \cup {r} \in SUBSET Round
    BY <1>1 DEF Status, Round
  <2>2. [s.open EXCEPT ![r] = id] \in [Round -> RunId \cup {NoRun}]
    BY <1>1 DEF Status
  <2>3. [s.outcome EXCEPT ![r] = "open"] \in [Round -> Outcome]
    BY <1>1 DEF Status, Outcome
  <2>4. "Running" \in Phase
    BY DEF Phase
  <2> HIDE DEF r
  <2>5. QED
    BY <1>1, <2>1, <2>2, <2>3, <2>4 DEF Submitted, Status
<1> HIDE DEF t, r
<1>5. OpenRounds(t) = OpenRounds(s) \cup {r}
  BY <1>1, <1>3, LoopAssumption DEF OpenRounds, Status
<1>6. Counted(t) = Counted(s) /\ Measured(t) = Measured(s)
  BY <1>1, <1>2, <1>3 DEF Counted, Measured, Status
<1>7. /\ Cardinality(OpenRounds(t)) = Cardinality(OpenRounds(s)) + 1
      /\ Cardinality(OpenRounds(s)) \in Nat
  BY <1>1, <1>2, <1>5, RoundsStep, RoundsFinite DEF OpenRounds
<1>8. Accounted(t)
  <2>1. {q \in Round : t.outcome[q] # "none"} = {q \in Round : s.outcome[q] # "none"} \cup {r}
    BY <1>1, <1>3 DEF Status
  <2>2. {q \in Round : t.outcome[q] = "open"} = {q \in Round : s.outcome[q] = "open"} \cup {r}
    BY <1>1, <1>3 DEF Status
  <2>3. QED
    BY <1>1, <1>3, <1>5, <1>6, <2>1, <2>2 DEF StatusOK, Accounted
<1>9. WithinBudget(t)
  BY <1>1, <1>3, <1>7, LoopAssumption DEF HasRoom, WithinBudget, Status
<1>10. IsBest(t) /\ \A q \in Measured(t) : t.evalLoss[q] \in Loss
  BY <1>3, <1>6 DEF StatusOK, IsBest
<1>11. QED
  BY <1>4, <1>8, <1>9, <1>10 DEF StatusOK, t, r

-----------------------------------------------------------------------------
(* 2. The invariant                                                        *)

\* The parts of TypeOK that are not about a status.
EnvironmentOK ==
    /\ cacheBehind \in BOOLEAN /\ memBehind \in BOOLEAN /\ completed \in BOOLEAN
    /\ dsp \in [RunId -> [state: RunState, round: 0..RoundLimit,
                         version: Version \cup {NoVersion},
                         config: Config \cup {NoConfig}, loss: Loss \cup {NoLoss}]]
    /\ wiki \in [proposal: [Round -> Config \cup {NoConfig}],
                 result: [Round -> [loss: Loss \cup {NoLoss, ZeroLoss},
                                    run: RunId \cup {NoRun}]]]
    /\ late \subseteq Round /\ todo \subseteq Round
    /\ deployed \in Version /\ known \subseteq Version
    /\ {latest, target} \subseteq Version \cup {NoVersion}
    /\ pc \in Step /\ proposal \in Config \cup {NoConfig}

CopiesOK == StatusOK(store) /\ StatusOK(cache) /\ StatusOK(mem)

\* What the reconcile knows of the status it works on, step by step.
PassOK ==
    /\ pc \in {"drain", "cull"} => todo \subseteq OpenRounds(mem)
    /\ pc \in {"drain", "register", "cull", "gate"} /\ completed => ~AtCapacity(mem)
    /\ pc \in {"propose", "submit"} => HasRoom(mem)
    /\ pc = "submit" => mem.round < RoundLimit
    /\ pc = "idle" => ~completed

\* mem is what one write may make of store: open rounds settled, and once the
\* run is submitted the next round opened.
Follows ==
    /\ pc # "save" => mem.round = store.round
    /\ \A r \in Round :
          \/ mem.outcome[r] = store.outcome[r]
          \/ store.outcome[r] = "open" /\ mem.outcome[r] \in Settled
          \/ pc = "save" /\ r = store.round + 1 /\ mem.outcome[r] = "open"

\* The optimistic lock: a copy that is not behind is the stored status, or
\* the stored status and what this reconcile did to it.
LockOK ==
    /\ ~cacheBehind => cache = store
    /\ pc # "idle" /\ ~memBehind => Follows

LoopInv == EnvironmentOK /\ CopiesOK /\ PassOK /\ LockOK

\* The initial state satisfies the invariant.
LEMMA LoopInvInit == Init => LoopInv
<1> SUFFICES ASSUME Init PROVE LoopInv
  OBVIOUS
<1>1. store = NewStatus /\ cache = NewStatus /\ mem = NewStatus
  BY DEF Init
<1>2. CopiesOK
  BY <1>1, NewStatusOK DEF CopiesOK
<1>3. EnvironmentOK
  <2>1. NoRunRecord \in [state: RunState, round: 0..RoundLimit,
                         version: Version \cup {NoVersion},
                         config: Config \cup {NoConfig}, loss: Loss \cup {NoLoss}]
    BY LoopAssumption DEF NoRunRecord, RunState
  <2>2. NoResult \in [loss: Loss \cup {NoLoss, ZeroLoss}, run: RunId \cup {NoRun}]
    BY DEF NoResult
  <2>3. QED
    BY <2>1, <2>2 DEF EnvironmentOK, Init, Step
<1>4. PassOK /\ LockOK
  BY <1>1 DEF PassOK, LockOK, Init
<1>5. QED
  BY <1>2, <1>3, <1>4 DEF LoopInv

\* The runs in OpenRuns are runs DSP issued an ID for.
LEMMA OpenRunIds ==
    ASSUME NEW s, StatusOK(s), NEW r \in OpenRounds(s)
    PROVE  r \in Round /\ s.open[r] \in RunId
BY DEF StatusOK, OpenRounds, Status

\* Registering a pipeline keeps the registry in its type.
LEMMA RegisterOK ==
    ASSUME EnvironmentOK, Register
    PROVE  /\ deployed' \in Version /\ known' \subseteq Version
           /\ latest' \in Version \cup {NoVersion}
BY DEF EnvironmentOK, Register

\* No step takes the environment or the reconcile's own state out of type.
LEMMA EnvironmentStep == LoopInv /\ [Next]_vars => EnvironmentOK'
<1> SUFFICES ASSUME LoopInv, [Next]_vars PROVE EnvironmentOK'
  OBVIOUS
<1> USE DEF envVars, passVars
<1>1. EnvironmentOK /\ CopiesOK /\ PassOK
  BY DEF LoopInv
<1>2. CASE UNCHANGED vars
  BY <1>1, <1>2 DEF EnvironmentOK, vars
<1>3. CASE Begin \/ DrainEnd \/ CullEnd \/ GatePass \/ DrainUnreachable
  <2>1. OpenRounds(cache) \subseteq Round
    BY DEF OpenRounds
  <2>2. QED
    BY <1>1, <1>3, <2>1
    DEF EnvironmentOK, Step, Begin, DrainEnd, CullEnd, GatePass, DrainUnreachable
<1>4. ASSUME NEW r \in todo, DrainKeep(r) \/ CullKeep(r) PROVE EnvironmentOK'
  BY <1>1, <1>4 DEF EnvironmentOK, DrainKeep, CullKeep
<1>5. ASSUME NEW r \in todo, DrainTerminal(r) PROVE EnvironmentOK'
  <2>1. r \in Round /\ mem.open[r] \in RunId
    BY <1>1, <1>5, OpenRunIds DEF DrainTerminal, PassOK, CopiesOK
  <2>2. ASSUME NEW loss \in Loss \cup {NoLoss}, ResultPushed(r, loss)
        PROVE  wiki' \in [proposal: [Round -> Config \cup {NoConfig}],
                          result: [Round -> [loss: Loss \cup {NoLoss, ZeroLoss},
                                             run: RunId \cup {NoRun}]]]
    BY <1>1, <2>1, <2>2 DEF EnvironmentOK, ResultPushed
  <2>3. Readable(mem.open[r]) \subseteq Loss \cup {NoLoss}
    BY <1>1, <2>1 DEF EnvironmentOK, Readable
  <2>4. wiki' \in [proposal: [Round -> Config \cup {NoConfig}],
                   result: [Round -> [loss: Loss \cup {NoLoss, ZeroLoss},
                                      run: RunId \cup {NoRun}]]]
    BY <1>1, <1>5, <2>2, <2>3 DEF EnvironmentOK, DrainTerminal
  <2>5. QED
    BY <1>1, <1>5, <2>4 DEF EnvironmentOK, DrainTerminal
<1>6. ASSUME NEW r \in todo, DrainOverdue(r) PROVE EnvironmentOK'
  <2>1. mem.open[r] \in RunId
    BY <1>1, <1>6, OpenRunIds DEF DrainOverdue, PassOK, CopiesOK
  <2>2. dsp' \in [RunId -> [state: RunState, round: 0..RoundLimit,
                           version: Version \cup {NoVersion},
                           config: Config \cup {NoConfig}, loss: Loss \cup {NoLoss}]]
    <3>1. "failed" \in RunState
      BY DEF RunState
    <3>2. \/ dsp' = dsp
          \/ dsp' = [dsp EXCEPT ![mem.open[r]].state = "failed"]
      BY <1>6 DEF DrainOverdue, TrainerKilled
    <3>3. [dsp[mem.open[r]] EXCEPT !.state = "failed"]
            \in [state: RunState, round: 0..RoundLimit,
                version: Version \cup {NoVersion},
                config: Config \cup {NoConfig}, loss: Loss \cup {NoLoss}]
      <4>1. dsp[mem.open[r]] \in
              [state: RunState, round: 0..RoundLimit,
               version: Version \cup {NoVersion},
               config: Config \cup {NoConfig}, loss: Loss \cup {NoLoss}]
        BY <1>1, <2>1 DEF EnvironmentOK
      <4>2. QED
        BY <4>1, <3>1
    <3>4. QED
      BY <1>1, <2>1, <3>2, <3>3 DEF EnvironmentOK
  <2>3. QED
    BY <1>1, <1>6, <2>2 DEF EnvironmentOK, DrainOverdue
<1>7. ASSUME NEW r \in todo, Cull(r) PROVE EnvironmentOK'
  <2>1. mem.open[r] \in RunId
    BY <1>1, <1>7, OpenRunIds DEF Cull, PassOK, CopiesOK
  <2>2. {"deleted", "failed", dsp[mem.open[r]].state} \subseteq RunState
    BY <1>1, <2>1 DEF EnvironmentOK, RunState
  <2>3. PICK st \in RunState : dsp' = [dsp EXCEPT ![mem.open[r]].state = st]
    BY <1>7, <2>2 DEF Cull
  <2>4. QED
    BY <1>1, <1>7, <2>1, <2>3 DEF EnvironmentOK, Cull
<1>8. CASE RegisterVersion \/ RegisterFails
  <2>1. /\ deployed' \in Version /\ known' \subseteq Version
        /\ latest' \in Version \cup {NoVersion}
    BY <1>1, <1>8, RegisterOK DEF EnvironmentOK, RegisterVersion, RegisterFails
  <2>2. OpenRounds(mem) \subseteq Round
    BY DEF OpenRounds
  <2>3. QED
    BY <1>1, <1>8, <2>1, <2>2 DEF EnvironmentOK, Step, RegisterVersion, RegisterFails
<1>9. CASE GateCompleted \/ GateBreaker \/ RefsMissing
  BY <1>1, <1>9 DEF EnvironmentOK, Step, GateCompleted, GateBreaker, RefsMissing, Mark
<1>10. CASE GateCadence \/ GateCapacity \/ SaveRefused \/ Crash
  <2>1. Return /\ UNCHANGED <<store, cache, cacheBehind, dsp, late, wiki, envVars>>
    BY <1>10 DEF GateCadence, GateCapacity, SaveRefused, Crash
  <2>2. QED
    BY <1>1, <2>1 DEF EnvironmentOK, Step, Return
<1>11. CASE Save
  BY <1>1, <1>11 DEF EnvironmentOK, Step, Save, Written, Return
<1>12. CASE Propose \/ ProposeFails
  <2>1. mem.round + 1 \in Round \/ Exhausted
    <3>1. mem.round \in 0..RoundLimit
      BY <1>1 DEF CopiesOK, StatusOK, Status
    <3>2. QED
      BY <3>1, LoopAssumption DEF Exhausted, Round
  <2>2. wiki' \in [proposal: [Round -> Config \cup {NoConfig}],
                   result: [Round -> [loss: Loss \cup {NoLoss, ZeroLoss},
                                      run: RunId \cup {NoRun}]]]
    BY <1>1, <1>12, <2>1 DEF EnvironmentOK, Propose, ProposeFails, ProposalPushed
  <2>3. QED
    BY <1>1, <1>12, <2>2 DEF EnvironmentOK, Step, Propose, ProposeFails, Mark
<1>13. CASE Submit \/ SubmitFails
  <2>1. /\ deployed' \in Version /\ known' \subseteq Version
        /\ latest' \in Version \cup {NoVersion}
    BY <1>1, <1>13, RegisterOK DEF EnvironmentOK, Submit, SubmitFails
  <2>2. RunRecord \in [state: RunState, round: 0..RoundLimit,
                       version: Version \cup {NoVersion},
                       config: Config \cup {NoConfig}, loss: Loss \cup {NoLoss}]
    <3>1. mem.round + 1 \in 0..RoundLimit
      BY <1>1, <1>13, LoopAssumption
      DEF PassOK, CopiesOK, StatusOK, Status, Submit, SubmitFails
    <3>2. QED
      BY <1>1, <2>1, <3>1 DEF EnvironmentOK, RunRecord, RunState
  <2>3. \/ dsp' = dsp
        \/ \E id \in RunId : dsp' = [dsp EXCEPT ![id] = RunRecord]
    BY <1>13 DEF Submit, SubmitFails
  <2>4. dsp' \in [RunId -> [state: RunState, round: 0..RoundLimit,
                           version: Version \cup {NoVersion},
                           config: Config \cup {NoConfig}, loss: Loss \cup {NoLoss}]]
    BY <1>1, <2>2, <2>3 DEF EnvironmentOK
  <2>5. /\ pc' = "save"
        /\ UNCHANGED <<cacheBehind, late, wiki, memBehind, todo, completed,
                       target, proposal>>
    BY <1>13 DEF Submit, SubmitFails
  <2>6. QED
    BY <1>1, <2>1, <2>4, <2>5 DEF EnvironmentOK, Step
<1>14. CASE CacheSync \/ HumanReset \/ ConcurrentWrite
  <2>1. /\ cacheBehind' \in BOOLEAN /\ memBehind' \in BOOLEAN
        /\ UNCHANGED <<dsp, late, wiki, envVars, pc, todo, completed, target, proposal>>
    <3>1. CASE CacheSync
      BY <1>1, <3>1 DEF EnvironmentOK, CacheSync
    <3>2. CASE HumanReset
      BY <1>1, <3>2 DEF EnvironmentOK, HumanReset, Written
    <3>3. CASE ConcurrentWrite
      BY <1>1, <3>3 DEF EnvironmentOK, ConcurrentWrite, Written
    <3>4. QED
      BY <1>14, <3>1, <3>2, <3>3
  <2>2. QED
    BY <1>1, <2>1 DEF EnvironmentOK
<1>15. ASSUME NEW id \in RunId, RunEnds(id) \/ RunPruned(id) PROVE EnvironmentOK'
  <2> DEFINE Record == [state: RunState, round: 0..RoundLimit,
                        version: Version \cup {NoVersion},
                        config: Config \cup {NoConfig}, loss: Loss \cup {NoLoss}]
  <2>1. dsp \in [RunId -> Record]
    BY <1>1 DEF EnvironmentOK
  <2>2. ASSUME NEW st \in RunState PROVE [dsp EXCEPT ![id].state = st] \in [RunId -> Record]
    BY <2>1
  <2>3. ASSUME NEW st \in RunState, NEW loss \in Loss \cup {NoLoss}
        PROVE  [dsp EXCEPT ![id].state = st, ![id].loss = loss] \in [RunId -> Record]
    BY <2>1
  <2>4. {"succeeded", "failed", "deleted"} \subseteq RunState
    BY DEF RunState
  <2> HIDE DEF Record
  <2>5. dsp' \in [RunId -> Record]
    <3>1. CASE \E loss \in Loss \cup {NoLoss} :
                  dsp' = [dsp EXCEPT ![id].state = "succeeded", ![id].loss = loss]
      BY <2>3, <2>4, <3>1
    <3>2. CASE \E st \in {"failed", "deleted"} : dsp' = [dsp EXCEPT ![id].state = st]
      BY <2>2, <2>4, <3>2
    <3>3. QED
      BY <1>15, <3>1, <3>2 DEF RunEnds, RunPruned
  <2>6. UNCHANGED <<cacheBehind, late, wiki, envVars, passVars>>
    BY <1>15 DEF RunEnds, RunPruned
  <2>7. QED
    BY <1>1, <2>5, <2>6 DEF EnvironmentOK, Record
<1>16. ASSUME NEW r \in Round, BudgetElapses(r) PROVE EnvironmentOK'
  BY <1>1, <1>16 DEF EnvironmentOK, BudgetElapses
<1>17. CASE Deploy
  BY <1>1, <1>17 DEF EnvironmentOK, Deploy
<1>18. QED
  BY <1>2, <1>3, <1>4, <1>5, <1>6, <1>7, <1>8, <1>9, <1>10, <1>11, <1>12, <1>13,
     <1>14, <1>15, <1>16, <1>17
  DEF Next, Reconcile, Environment, Gate, Drain

\* Settling a run leaves room for another.
LEMMA RoomAfterSettling ==
    ASSUME NEW s, StatusOK(s), NEW r \in OpenRounds(s),
           NEW t, OpenRounds(t) = OpenRounds(s) \ {r}
    PROVE  ~AtCapacity(t)
<1>1. r \in Round /\ OpenRounds(s) \subseteq Round
  BY DEF OpenRounds
<1>2. /\ Cardinality(OpenRounds(t)) = Cardinality(OpenRounds(s)) - 1
      /\ Cardinality(OpenRounds(s)) \in Nat
  BY <1>1, RoundsStep, RoundsFinite
<1>3. QED
  BY <1>2, LoopAssumption DEF StatusOK, WithinBudget, AtCapacity

\* A step of the drain that settles round r of mem as t.
LEMMA SettledStep ==
    ASSUME NEW r \in todo, NEW t, PassOK, StatusOK(mem), StatusOK(t),
           pc \in {"drain", "cull"}, pc' = pc,
           OpenRounds(t) = OpenRounds(mem) \ {r}, mem' = t, todo' = todo \ {r}
    PROVE  StatusOK(mem)' /\ PassOK'
<1>1. r \in OpenRounds(mem)
  BY DEF PassOK
<1>2. ~AtCapacity(t)
  BY <1>1, RoomAfterSettling
<1>3. QED
  BY <1>2 DEF PassOK

\* No step leaves a copy of the status out of order, and the reconcile's
\* knowledge of mem stays true.
LEMMA CopiesStep == LoopInv /\ [Next]_vars => CopiesOK' /\ PassOK'
<1> SUFFICES ASSUME LoopInv, [Next]_vars PROVE CopiesOK' /\ PassOK'
  OBVIOUS
<1> USE DEF envVars, passVars
<1>1. EnvironmentOK /\ CopiesOK /\ PassOK
  BY DEF LoopInv
<1>2. CASE UNCHANGED vars
  BY <1>1, <1>2 DEF CopiesOK, PassOK, vars, OpenRounds, AtCapacity, HasRoom
<1>3. CASE Begin
  BY <1>1, <1>3 DEF CopiesOK, PassOK, Begin
<1>4. CASE DrainUnreachable \/ DrainEnd \/ CullEnd
  BY <1>1, <1>4 DEF CopiesOK, PassOK, DrainUnreachable, DrainEnd, CullEnd
<1>5. CASE RegisterVersion \/ RegisterFails
  BY <1>1, <1>5 DEF CopiesOK, PassOK, RegisterVersion, RegisterFails
<1>6. ASSUME NEW r \in todo, DrainKeep(r) \/ CullKeep(r) PROVE CopiesOK' /\ PassOK'
  BY <1>1, <1>6 DEF CopiesOK, PassOK, DrainKeep, CullKeep
<1>7. ASSUME NEW r \in todo, DrainTerminal(r) \/ DrainOverdue(r) PROVE CopiesOK' /\ PassOK'
  <2>1. r \in OpenRounds(mem) /\ mem.open[r] \in RunId
    BY <1>1, <1>7, OpenRunIds DEF DrainTerminal, DrainOverdue, PassOK, CopiesOK
  <2>2. Readable(mem.open[r]) \subseteq Loss \cup {NoLoss}
    BY <1>1, <2>1 DEF EnvironmentOK, Readable
  <2>3. PICK loss \in Loss \cup {NoLoss} : mem' = Drained(mem, r, loss)
    BY <1>7, <2>2 DEF DrainTerminal, DrainOverdue
  <2>4. /\ StatusOK(Drained(mem, r, loss))
        /\ OpenRounds(Drained(mem, r, loss)) = OpenRounds(mem) \ {r}
    BY <1>1, <2>1, DrainedOK DEF CopiesOK
  <2>5. /\ pc = "drain" /\ pc' = pc /\ todo' = todo \ {r}
        /\ UNCHANGED <<store, cache>>
    BY <1>7 DEF DrainTerminal, DrainOverdue
  <2>6. StatusOK(mem)' /\ PassOK'
    BY <1>1, <2>3, <2>4, <2>5, SettledStep DEF CopiesOK
  <2>7. QED
    BY <1>1, <2>5, <2>6 DEF CopiesOK
<1>8. ASSUME NEW r \in todo, Cull(r) PROVE CopiesOK' /\ PassOK'
  <2>1. r \in OpenRounds(mem)
    BY <1>1, <1>8 DEF Cull, PassOK
  <2>2. /\ StatusOK(Superseded(mem, r))
        /\ OpenRounds(Superseded(mem, r)) = OpenRounds(mem) \ {r}
    BY <1>1, <2>1, SupersededOK DEF CopiesOK
  <2>3. /\ pc = "cull" /\ pc' = pc /\ todo' = todo \ {r}
        /\ mem' = Superseded(mem, r) /\ UNCHANGED <<store, cache>>
    BY <1>8 DEF Cull
  <2>4. StatusOK(mem)' /\ PassOK'
    BY <1>1, <2>2, <2>3, SettledStep DEF CopiesOK
  <2>5. QED
    BY <1>1, <2>3, <2>4 DEF CopiesOK
<1>9. CASE GateCompleted \/ GateBreaker \/ RefsMissing \/ ProposeFails
  <2>1. PICK p \in Phase : mem' = [mem EXCEPT !.phase = p]
    BY <1>9 DEF GateCompleted, GateBreaker, RefsMissing, ProposeFails, Mark, Phase
  <2>2. StatusOK(mem')
    BY <1>1, <2>1, PhaseOK DEF CopiesOK
  <2>3. pc' = "save" /\ UNCHANGED <<store, cache>>
    BY <1>9 DEF GateCompleted, GateBreaker, RefsMissing, ProposeFails, Mark
  <2>4. QED
    BY <1>1, <2>2, <2>3 DEF CopiesOK, PassOK
<1>10. CASE GateCadence \/ GateCapacity \/ SaveRefused \/ Crash
  BY <1>1, <1>10, NewStatusOK
  DEF CopiesOK, PassOK, GateCadence, GateCapacity, SaveRefused, Crash, Return
<1>11. CASE GatePass
  <2>1. Cardinality(OpenRounds(mem)) \in Nat /\ mem.run \in Nat
    BY <1>1, RoundsFinite DEF CopiesOK, StatusOK, Status, OpenRounds
  <2>2. HasRoom(mem)
    BY <1>11, <2>1, LoopAssumption DEF GatePass, BudgetSpent, AtCapacity, HasRoom
  <2>3. QED
    BY <1>1, <1>11, <2>2 DEF CopiesOK, PassOK, GatePass
<1>12. CASE Propose
  <2>1. mem.round < RoundLimit
    BY <1>1, <1>12, LoopAssumption DEF Propose, Exhausted, CopiesOK, StatusOK, Status
  <2>2. QED
    BY <1>1, <1>12, <2>1 DEF CopiesOK, PassOK, Propose
<1>13. CASE Submit
  <2>1. PICK id \in RunId : mem' = Submitted(mem, mem.round + 1, id)
    BY <1>13 DEF Submit
  <2>2. StatusOK(mem')
    BY <1>1, <1>13, <2>1, SubmittedOK DEF Submit, CopiesOK, PassOK
  <2>3. QED
    BY <1>1, <1>13, <2>2 DEF CopiesOK, PassOK, Submit
<1>14. CASE SubmitFails
  <2>1. StatusOK(mem')
    BY <1>1, <1>14, PhaseOK DEF CopiesOK, SubmitFails, Phase
  <2>2. QED
    BY <1>1, <1>14, <2>1 DEF CopiesOK, PassOK, SubmitFails
<1>15. CASE Save
  BY <1>1, <1>15, NewStatusOK DEF CopiesOK, PassOK, Save, Written, Return
<1>16. CASE CacheSync
  BY <1>1, <1>16 DEF CopiesOK, PassOK, CacheSync
<1>17. CASE HumanReset
  <2>1. StatusOK([store EXCEPT !.fails = 0])
    BY <1>1, ResetOK DEF CopiesOK
  <2>2. QED
    BY <1>1, <1>17, <2>1 DEF CopiesOK, PassOK, HumanReset, Written
<1>18. CASE ConcurrentWrite
  BY <1>1, <1>18 DEF CopiesOK, PassOK, ConcurrentWrite, Written
<1>19. ASSUME NEW id \in RunId, RunEnds(id) \/ RunPruned(id) PROVE CopiesOK' /\ PassOK'
  BY <1>1, <1>19 DEF CopiesOK, PassOK, RunEnds, RunPruned
<1>20. ASSUME NEW r \in Round, BudgetElapses(r) PROVE CopiesOK' /\ PassOK'
  BY <1>1, <1>20 DEF CopiesOK, PassOK, BudgetElapses
<1>21. CASE Deploy
  BY <1>1, <1>21 DEF CopiesOK, PassOK, Deploy
<1>22. QED
  BY <1>2, <1>3, <1>4, <1>5, <1>6, <1>7, <1>8, <1>9, <1>10, <1>11, <1>12, <1>13,
     <1>14, <1>15, <1>16, <1>17, <1>18, <1>19, <1>20, <1>21
  DEF Next, Reconcile, Environment, Gate, Drain

\* Settling an open round of mem is something one write may do.
LEMMA FollowsSettled ==
    ASSUME StatusOK(mem), Follows, pc \in {"drain", "cull"}, pc' = pc,
           NEW r \in OpenRounds(mem), UNCHANGED store,
           mem'.round = mem.round, NEW o \in Settled,
           mem'.outcome = [mem.outcome EXCEPT ![r] = o]
    PROVE  Follows'
<1>1. r \in Round /\ mem.outcome[r] = "open" /\ mem.outcome \in [Round -> Outcome]
  BY DEF StatusOK, Status, Accounted, OpenRounds
<1>2. store.outcome[r] = "open"
  BY <1>1 DEF Follows, Settled
<1>3. QED
  BY <1>1, <1>2 DEF Follows

\* A copy that is not behind stays what one write may make of the store.
LEMMA LockStep == LoopInv /\ [Next]_vars => LockOK'
<1> SUFFICES ASSUME LoopInv, [Next]_vars PROVE LockOK'
  OBVIOUS
<1> USE DEF envVars, passVars
<1>1. EnvironmentOK /\ CopiesOK /\ PassOK /\ LockOK
  BY DEF LoopInv
<1>2. CASE UNCHANGED vars
  BY <1>1, <1>2 DEF LockOK, Follows, vars
<1>3. CASE Begin
  BY <1>1, <1>3 DEF LockOK, Follows, Begin
<1>4. CASE \/ DrainUnreachable \/ DrainEnd \/ CullEnd \/ GatePass \/ Propose
           \/ RegisterVersion \/ RegisterFails
  BY <1>1, <1>4 DEF LockOK, Follows, DrainUnreachable, DrainEnd, CullEnd, GatePass,
     Propose, RegisterVersion, RegisterFails
<1>5. ASSUME NEW r \in todo, DrainKeep(r) \/ CullKeep(r) PROVE LockOK'
  BY <1>1, <1>5 DEF LockOK, Follows, DrainKeep, CullKeep
<1>6. ASSUME NEW r \in todo, DrainTerminal(r) \/ DrainOverdue(r) \/ Cull(r) PROVE LockOK'
  <2>1. /\ r \in OpenRounds(mem) /\ pc \in {"drain", "cull"} /\ pc' = pc
        /\ UNCHANGED <<store, cache, cacheBehind, memBehind>>
    BY <1>1, <1>6 DEF DrainTerminal, DrainOverdue, Cull, PassOK
  <2>2. mem \in Status
    BY <1>1 DEF CopiesOK, StatusOK
  <2>3. (\E loss : mem' = Drained(mem, r, loss)) \/ mem' = Superseded(mem, r)
    BY <1>6 DEF DrainTerminal, DrainOverdue, Cull
  <2>4. /\ mem'.round = mem.round
        /\ \E o \in Settled : mem'.outcome = [mem.outcome EXCEPT ![r] = o]
    <3>1. ASSUME NEW loss, mem' = Drained(mem, r, loss)
          PROVE  /\ mem'.round = mem.round
                 /\ mem'.outcome = [mem.outcome EXCEPT
                                     ![r] = IF loss # NoLoss THEN "measured" ELSE "failed"]
      BY <2>2, <3>1 DEF Drained, Status
    <3>2. CASE mem' = Superseded(mem, r)
      BY <2>2, <3>2 DEF Superseded, Status, Settled
    <3>3. QED
      BY <2>3, <3>1, <3>2 DEF Settled
  <2>5. Follows => Follows'
    BY <1>1, <2>1, <2>4, FollowsSettled DEF CopiesOK
  <2>6. QED
    BY <1>1, <2>1, <2>5 DEF LockOK
<1>7. CASE GateCompleted \/ GateBreaker \/ RefsMissing \/ ProposeFails \/ SubmitFails
  <2>1. \E p \in Phase : mem' = [mem EXCEPT !.phase = p]
    BY <1>7
    DEF GateCompleted, GateBreaker, RefsMissing, ProposeFails, SubmitFails, Mark, Phase
  <2>2. mem'.outcome = mem.outcome
    BY <1>1, <2>1 DEF CopiesOK, StatusOK, Status
  <2>3. /\ pc # "idle" /\ pc' = "save" /\ UNCHANGED <<store, cache, cacheBehind, memBehind>>
    BY <1>7 DEF GateCompleted, GateBreaker, RefsMissing, ProposeFails, SubmitFails, Mark
  <2>4. QED
    BY <1>1, <2>2, <2>3 DEF LockOK, Follows
<1>8. CASE GateCadence \/ GateCapacity \/ SaveRefused \/ Crash
  BY <1>1, <1>8
  DEF LockOK, GateCadence, GateCapacity, SaveRefused, Crash, Return
<1>9. CASE Submit
  <2>1. PICK id \in RunId : mem' = Submitted(mem, mem.round + 1, id)
    BY <1>9 DEF Submit
  <2>2. mem'.outcome = [mem.outcome EXCEPT ![mem.round + 1] = "open"]
    BY <1>1, <2>1 DEF Submitted, CopiesOK, StatusOK, Status
  <2>3. /\ pc = "submit" /\ pc' = "save"
        /\ UNCHANGED <<store, cache, cacheBehind, memBehind>>
    BY <1>9 DEF Submit
  <2>4. mem.outcome \in [Round -> Outcome]
    BY <1>1 DEF CopiesOK, StatusOK, Status
  <2>5. QED
    BY <1>1, <2>2, <2>3, <2>4 DEF LockOK, Follows
<1>10. CASE Save
  BY <1>1, <1>10 DEF LockOK, Save, Written, Return
<1>11. CASE CacheSync
  BY <1>1, <1>11 DEF LockOK, Follows, CacheSync
<1>12. CASE HumanReset
  BY <1>1, <1>12 DEF LockOK, HumanReset, Written, EnvironmentOK, Step
<1>13. CASE ConcurrentWrite
  BY <1>1, <1>13 DEF LockOK, ConcurrentWrite, Written
<1>14. ASSUME NEW id \in RunId, RunEnds(id) \/ RunPruned(id) PROVE LockOK'
  BY <1>1, <1>14 DEF LockOK, Follows, RunEnds, RunPruned
<1>15. ASSUME NEW r \in Round, BudgetElapses(r) PROVE LockOK'
  BY <1>1, <1>15 DEF LockOK, Follows, BudgetElapses
<1>16. CASE Deploy
  BY <1>1, <1>16 DEF LockOK, Follows, Deploy
<1>17. QED
  BY <1>2, <1>3, <1>4, <1>5, <1>6, <1>7, <1>8, <1>9, <1>10, <1>11, <1>12, <1>13,
     <1>14, <1>15, <1>16
  DEF Next, Reconcile, Environment, Gate, Drain

\* The invariant holds throughout every behavior.
THEOREM LoopInvariant == Spec => []LoopInv
<1>1. LoopInv /\ [Next]_vars => LoopInv'
  BY EnvironmentStep, CopiesStep, LockStep DEF LoopInv
<1>2. QED
  BY LoopInvInit, <1>1, PTL DEF Spec

-----------------------------------------------------------------------------
(* 3. The theorems                                                         *)

\* Type correctness, with any set of faults.
THEOREM TypeCorrect == Spec => []TypeOK
<1>1. LoopInv => TypeOK
  BY DEF LoopInv, EnvironmentOK, CopiesOK, StatusOK, TypeOK, Copies
<1>2. QED
  BY LoopInvariant, <1>1, PTL

\* Whatever goes wrong, every copy of the status accounts for every round: the
\* rounds 1..round, the open ones in OpenRuns, the drained ones counted once.
THEOREM RoundsAccountedFor == Spec => []RoundsAccounted
<1>1. LoopInv => RoundsAccounted
  BY DEF LoopInv, CopiesOK, StatusOK, RoundsAccounted, Copies
<1>2. QED
  BY LoopInvariant, <1>1, PTL

\* Open runs stay within maxConcurrentRuns, and the runs of a project exceed
\* maxTotalExperiments by less than maxConcurrentRuns.
THEOREM BudgetHolds == Spec => []SubmissionsWithinBudget
<1>1. LoopInv => SubmissionsWithinBudget
  BY DEF LoopInv, CopiesOK, StatusOK, SubmissionsWithinBudget, Copies
<1>2. QED
  BY LoopInvariant, <1>1, PTL

\* The best loss in the status is the best of the losses that were measured.
THEOREM ChampionIsBest == Spec => []BestIsBest
<1>1. LoopInv => BestIsBest
  BY DEF LoopInv, CopiesOK, StatusOK, BestIsBest, Copies
<1>2. QED
  BY LoopInvariant, <1>1, PTL

\* The gates that do not save never discard a settled run.
THEOREM GatesLoseNothing == Spec => []GatesKeepWork
<1>1. LoopInv => GatesKeepWork
  BY DEF LoopInv, PassOK, GatesKeepWork
<1>2. QED
  BY LoopInvariant, <1>1, PTL

\* The ledger the stored status stands for starts empty.
LEMMA LedgerInit == Init => Ledger!Init
<1>1. Init => store = NewStatus
  BY DEF Init
<1>2. NewStatus.outcome = [r \in 1..RoundLimit |-> "none"]
  BY DEF NewStatus, Round
<1>3. QED
  BY <1>1, <1>2 DEF Ledger!Init, Ledger!Rounds

\* Every step is one entry in the ledger, or none.
LEMMA LedgerStep == LoopInv /\ LoopInv' /\ [Next]_vars => [Ledger!Advance]_(store.outcome)
<1> SUFFICES ASSUME LoopInv, LoopInv', [Next]_vars, store'.outcome # store.outcome
             PROVE  Ledger!Advance
  OBVIOUS
<1> USE DEF envVars, passVars
<1>1. EnvironmentOK /\ StatusOK(store) /\ StatusOK(mem) /\ LockOK /\ StatusOK(store')
  BY DEF LoopInv, CopiesOK
<1>2. Save
  <2>1. CASE HumanReset
    BY <1>1, <2>1 DEF HumanReset, Written, StatusOK, Status
  <2>2. CASE ConcurrentWrite
    BY <2>2 DEF ConcurrentWrite, Written
  <2>3. CASE UNCHANGED store
    BY <2>3
  <2>4. Save \/ HumanReset \/ ConcurrentWrite \/ UNCHANGED store
    BY DEF vars, Next, Reconcile, Environment, Gate, Drain, Begin, DrainUnreachable,
       DrainKeep, DrainTerminal, DrainOverdue, DrainEnd, RegisterVersion, RegisterFails,
       CullKeep, Cull, CullEnd, GateCompleted, GateCadence, GateCapacity, GateBreaker,
       GatePass, RefsMissing, Propose, ProposeFails, Submit, SubmitFails, SaveRefused,
       Mark, Crash, CacheSync, RunEnds, RunPruned, BudgetElapses, Deploy
  <2>5. QED
    BY <2>1, <2>2, <2>3, <2>4
<1>3. Follows /\ pc = "save" /\ store' = mem
  BY <1>1, <1>2 DEF LockOK, Save, Written
<1>4. store'.outcome \in [Ledger!Rounds -> Ledger!Entries]
  BY <1>1 DEF StatusOK, Status, Outcome, Round, Ledger!Rounds, Ledger!Entries, Ledger!Settling
<1>5. ASSUME NEW r \in Ledger!Rounds, r = store.round + 1, mem.outcome[r] = "open",
             store.outcome[r] # "open"
      PROVE  Ledger!IsNext(r)
  <2>1. r \in Round /\ store.round \in Nat /\ 1..(r - 1) \subseteq Round
    <3>1. store.round \in Nat
      BY <1>1, LoopAssumption DEF StatusOK, Status
    <3>2. QED
      BY <1>5, <3>1, LoopAssumption DEF Ledger!Rounds, Round
  <2>2. store.outcome[r] = "none" /\ \A p \in 1..(r - 1) : store.outcome[p] # "none"
    <3>1. {q \in Round : store.outcome[q] # "none"} = 1..store.round
      BY <1>1 DEF StatusOK, Accounted
    <3>2. r \notin 1..store.round /\ 1..(r - 1) = 1..store.round
      BY <1>5, <2>1
    <3>3. QED
      BY <2>1, <3>1, <3>2
  <2>3. QED
    BY <2>2 DEF Ledger!IsNext
<1>6. \A r \in Ledger!Rounds :
         \/ store'.outcome[r] = store.outcome[r]
         \/ store.outcome[r] = "open" /\ store'.outcome[r] \in Ledger!Settling
         \/ Ledger!IsNext(r) /\ store'.outcome[r] = "open"
  BY <1>3, <1>5 DEF Follows, Ledger!Rounds, Round, Settled, Ledger!Settling
<1>7. Ledger!Cardinality(Ledger!Opened(store'.outcome)) <= MaxConcurrent
  <2>1. Ledger!Opened(store'.outcome) = OpenRounds(store')
    BY <1>1 DEF StatusOK, Accounted, Ledger!Opened, Ledger!Rounds, Round
  <2>2. \A S : Ledger!Cardinality(S) = Cardinality(S)
    BY DEF Ledger!Cardinality, Cardinality, Ledger!IsFiniteSet, IsFiniteSet
  <2>3. QED
    BY <1>1, <2>1, <2>2 DEF StatusOK, WithinBudget
<1>8. QED
  BY <1>4, <1>6, <1>7 DEF Ledger!Advance

\* The controller implements the ledger, whatever faults it meets: rounds open
\* in order, one per write, within the cap, and settle once and for good.
THEOREM ImplementsLedger == Spec => LedgerSpec
<1>1. LoopInv /\ LoopInv' /\ [Next]_vars => [Ledger!Advance]_(store.outcome)
  BY LedgerStep
<1>2. QED
  BY LoopInvariant, LedgerInit, <1>1, PTL DEF Spec, LedgerSpec, Ledger!Spec

-----------------------------------------------------------------------------
(* 4. Results and their proposals, while the cache follows the store       *)

\* The open runs of s are records of d, of the configs the wiki w proposes.
Backed(s, d, w) ==
    \A r \in OpenRounds(s) :
        /\ d[s.open[r]].state # "absent"
        /\ ValidationMode \/ d[s.open[r]].config = w.proposal[r]

\* The result of a round is of a run that has the config of its proposal, and
\* of a round of the stored status: its proposal is not written again.
ResultsBacked ==
    \A r \in Round :
        LET id == wiki.result[r].run IN
        id # NoRun =>
            /\ r <= store.round /\ dsp[id].state # "absent"
            /\ ValidationMode \/ dsp[id].config = wiki.proposal[r]

\* The reconcile is at the round of the store, or has just submitted the next.
RoundsAgree ==
    /\ pc \notin {"idle", "save"} => mem.round = store.round
    /\ pc = "save" => mem.round >= store.round
    /\ pc = "submit" => ValidationMode \/ wiki.proposal[mem.round + 1] = proposal

CacheFollows == cache = store /\ ~cacheBehind

PairInv ==
    /\ CacheFollows /\ RoundsAgree /\ ResultsBacked
    /\ Backed(store, dsp, wiki) /\ Backed(mem, dsp, wiki)

\* The records there are stay there, with their configs.
RecordsStay ==
    \A id \in RunId :
        dsp[id].state # "absent" =>
            dsp'[id].state # "absent" /\ dsp'[id].config = dsp[id].config

\* Status t opens no round that s does not open, and none as another run.
OpensNothing(s, t) ==
    \A r \in OpenRounds(t) : r \in OpenRounds(s) /\ t.open[r] = s.open[r]

\* A status that opens no round is backed as the one it comes from.
LEMMA BackedStays ==
    ASSUME NEW s, StatusOK(s), NEW t, Backed(s, dsp, wiki), RecordsStay,
           OpensNothing(s, t),
           \A r \in OpenRounds(t) : wiki'.proposal[r] = wiki.proposal[r]
    PROVE  Backed(t, dsp', wiki')
<1> SUFFICES ASSUME NEW r \in OpenRounds(t)
             PROVE  /\ dsp'[t.open[r]].state # "absent"
                    /\ ValidationMode \/ dsp'[t.open[r]].config = wiki'.proposal[r]
  BY DEF Backed
<1>1. r \in OpenRounds(s) /\ t.open[r] = s.open[r] /\ s.open[r] \in RunId
  BY OpenRunIds DEF OpensNothing
<1>2. QED
  BY <1>1 DEF Backed, RecordsStay

\* The open rounds of a status in order are not past its round.
LEMMA OpenAreOld ==
    ASSUME NEW s, StatusOK(s), NEW r \in OpenRounds(s)
    PROVE  r \in Round /\ s.round \in 0..RoundLimit /\ r <= s.round
<1>1. r \in Round /\ s.outcome[r] = "open" /\ s.round \in 0..RoundLimit
  BY DEF StatusOK, Accounted, Status, OpenRounds
<1>2. r \in 1..s.round
  BY <1>1 DEF StatusOK, Accounted
<1>3. QED
  BY <1>1, <1>2, LoopAssumption

\* Results stay backed while nothing but their records' states changes.
LEMMA ResultsStay ==
    ASSUME EnvironmentOK, ResultsBacked, RecordsStay, StatusOK(store),
           StatusOK(store)', wiki'.result = wiki.result,
           store'.round >= store.round,
           \A r \in Round : r <= store.round => wiki'.proposal[r] = wiki.proposal[r]
    PROVE  ResultsBacked'
<1> SUFFICES ASSUME NEW r \in Round, wiki.result[r].run # NoRun
             PROVE  LET id == wiki.result[r].run IN
                    /\ r <= store'.round /\ dsp'[id].state # "absent"
                    /\ ValidationMode \/ dsp'[id].config = wiki'.proposal[r]
  BY DEF ResultsBacked
<1>1. wiki.result[r].run \in RunId
  BY DEF EnvironmentOK
<1>2. r \in Int /\ store.round \in Int /\ store'.round \in Int
  BY LoopAssumption DEF Round, StatusOK, Status
<1>3. r <= store.round
  BY DEF ResultsBacked
<1>4. r <= store'.round
  BY <1>2, <1>3
<1>5. QED
  BY <1>1, <1>3, <1>4 DEF ResultsBacked, RecordsStay

\* What the steps that write neither the wiki nor the store have in common.
LEMMA PairedQuietly ==
    ASSUME LoopInv, PairInv, RecordsStay, OpensNothing(mem, mem'), RoundsAgree',
           UNCHANGED <<store, cache, cacheBehind, wiki>>
    PROVE  PairInv'
<1>1. StatusOK(store) /\ StatusOK(mem) /\ EnvironmentOK /\ StatusOK(store)'
  BY DEF LoopInv, CopiesOK
<1>2. Backed(mem, dsp, wiki)'
  BY <1>1, BackedStays DEF PairInv
<1>3. Backed(store, dsp, wiki)'
  <2>1. OpensNothing(store, store')
    BY DEF OpensNothing
  <2>2. QED
    BY <1>1, <2>1, BackedStays DEF PairInv
<1>4. ResultsBacked'
  <2>1. store.round \in Int
    BY <1>1, LoopAssumption DEF StatusOK, Status
  <2>2. store'.round >= store.round
    BY <2>1
  <2>3. QED
    BY <1>1, <2>2, ResultsStay DEF PairInv
<1>5. CacheFollows'
  BY DEF PairInv, CacheFollows
<1>6. QED
  BY <1>2, <1>3, <1>4, <1>5 DEF PairInv

\* A new state of one record leaves the records there; it is absent of none.
LEMMA RecordsStayAfter ==
    ASSUME EnvironmentOK, NEW id \in RunId, NEW st, st # "absent",
           \/ dsp' = dsp
           \/ dsp' = [dsp EXCEPT ![id].state = st]
           \/ \E loss : dsp' = [dsp EXCEPT ![id].state = st, ![id].loss = loss]
    PROVE  RecordsStay
<1> DEFINE Record == [state: RunState, round: 0..RoundLimit,
                      version: Version \cup {NoVersion},
                      config: Config \cup {NoConfig}, loss: Loss \cup {NoLoss}]
<1>1. dsp \in [RunId -> Record]
  BY DEF EnvironmentOK
<1>2. \A i \in RunId : i # id => dsp'[i] = dsp[i]
  BY <1>1
<1>3. dsp'[id].config = dsp[id].config /\ (dsp'[id].state = st \/ dsp'[id] = dsp[id])
  BY <1>1
<1>4. QED
  BY <1>2, <1>3 DEF RecordsStay

\* Settling a round opens nothing.
LEMMA SettlingOpensNothing ==
    ASSUME NEW s, StatusOK(s), NEW r \in Round
    PROVE  /\ OpensNothing(s, Superseded(s, r))
           /\ Superseded(s, r).round = s.round
           /\ \A loss : /\ OpensNothing(s, Drained(s, r, loss))
                        /\ Drained(s, r, loss).round = s.round
<1>1. s.open \in [Round -> RunId \cup {NoRun}] /\ s \in Status
  BY DEF StatusOK, Status
<1>2. ASSUME NEW t, t.open = [s.open EXCEPT ![r] = NoRun]
      PROVE  OpensNothing(s, t)
  BY <1>1, <1>2 DEF OpensNothing, OpenRounds
<1>3. /\ Superseded(s, r).open = [s.open EXCEPT ![r] = NoRun]
      /\ Superseded(s, r).round = s.round
  BY <1>1 DEF Superseded, Status
<1>4. ASSUME NEW loss
      PROVE  /\ Drained(s, r, loss).open = [s.open EXCEPT ![r] = NoRun]
             /\ Drained(s, r, loss).round = s.round
  BY <1>1 DEF Drained, Status
<1>5. QED
  BY <1>2, <1>3, <1>4

\* A project that was just created has neither runs nor results.
LEMMA PairInit == Init => PairInv
<1> SUFFICES ASSUME Init PROVE PairInv
  OBVIOUS
<1>1. store = NewStatus /\ cache = NewStatus /\ mem = NewStatus /\ OpenRounds(NewStatus) = {}
  BY DEF Init, NewStatus, OpenRounds
<1>2. \A r \in Round : wiki.result[r].run = NoRun
  BY DEF Init, NoResult
<1>3. QED
  BY <1>1, <1>2 DEF PairInv, CacheFollows, RoundsAgree, ResultsBacked, Backed, Init

\* A pass that drains a run that succeeded files its result under its round.
LEMMA PairedResult ==
    ASSUME LoopInv, LoopInv', PairInv, RecordsStay, NEW r \in OpenRounds(mem),
           pc = "drain", OpensNothing(mem, mem'), RoundsAgree',
           wiki'.proposal = wiki.proposal,
           NEW res, res.run = mem.open[r],
           wiki'.result = [wiki.result EXCEPT ![r] = res],
           UNCHANGED <<store, cache, cacheBehind, dsp>>
    PROVE  PairInv'
<1>1. StatusOK(store) /\ StatusOK(mem) /\ EnvironmentOK
  BY DEF LoopInv, CopiesOK
<1>2. Backed(mem, dsp, wiki)'
  BY <1>1, BackedStays DEF PairInv
<1>3. Backed(store, dsp, wiki)'
  <2>1. OpensNothing(store, store')
    BY DEF OpensNothing
  <2>2. QED
    BY <1>1, <2>1, BackedStays DEF PairInv
<1>4. ResultsBacked'
  <2>1. r \in Round /\ r <= mem.round /\ mem.round = store.round
    BY <1>1, OpenAreOld DEF PairInv, RoundsAgree
  <2>2. /\ dsp[mem.open[r]].state # "absent"
        /\ ValidationMode \/ dsp[mem.open[r]].config = wiki.proposal[r]
    BY DEF PairInv, Backed
  <2>3. wiki.result \in [Round -> [loss: Loss \cup {NoLoss, ZeroLoss},
                                   run: RunId \cup {NoRun}]]
    BY <1>1 DEF EnvironmentOK
  <2>4. \A q \in Round : wiki'.result[q] = IF q = r THEN res ELSE wiki.result[q]
    BY <2>1, <2>3
  <2>5. QED
    BY <2>1, <2>2, <2>4 DEF PairInv, ResultsBacked
<1>5. CacheFollows'
  BY DEF PairInv, CacheFollows
<1>6. QED
  BY <1>2, <1>3, <1>4, <1>5 DEF PairInv

\* A proposal is written for a round that is neither open nor has a result.
LEMMA PairedProposal ==
    ASSUME LoopInv, LoopInv', PairInv, pc = "propose", mem.round < RoundLimit,
           NEW c, wiki' = wiki \/ ProposalPushed(c), mem'.open = mem.open, RoundsAgree',
           UNCHANGED <<store, cache, cacheBehind, dsp>>
    PROVE  PairInv'
<1>1. /\ StatusOK(store) /\ StatusOK(mem) /\ EnvironmentOK
      /\ StatusOK(store)' /\ mem.round = store.round
  BY DEF LoopInv, CopiesOK, PairInv, RoundsAgree
<1>2. store.round \in Nat /\ mem.round + 1 \in Round
  BY <1>1, LoopAssumption DEF StatusOK, Status, Round
<1>3. /\ wiki'.result = wiki.result
      /\ \A r \in Round : r <= store.round => wiki'.proposal[r] = wiki.proposal[r]
  <2>1. CASE wiki' = wiki
    BY <2>1
  <2>2. CASE ProposalPushed(c)
    <3>1. /\ wiki'.result = wiki.result
          /\ wiki'.proposal = [wiki.proposal EXCEPT ![mem.round + 1] = c]
      BY <2>2, <1>1 DEF ProposalPushed, EnvironmentOK
    <3>2. \A r \in Round : r <= store.round => r # mem.round + 1
      BY <1>1, <1>2 DEF Round
    <3>3. wiki.proposal \in [Round -> Config \cup {NoConfig}]
      BY <1>1 DEF EnvironmentOK
    <3>4. QED
      BY <3>1, <3>2, <3>3
  <2>3. QED
    BY <2>1, <2>2
<1>4. RecordsStay /\ OpensNothing(mem, mem') /\ OpensNothing(store, store')
  BY DEF RecordsStay, OpensNothing, OpenRounds
<1>5. /\ \A r \in OpenRounds(store') : wiki'.proposal[r] = wiki.proposal[r]
      /\ \A r \in OpenRounds(mem') : wiki'.proposal[r] = wiki.proposal[r]
  BY <1>1, <1>3, <1>4, OpenAreOld DEF OpensNothing
<1>6. Backed(mem, dsp, wiki)' /\ Backed(store, dsp, wiki)'
  BY <1>1, <1>4, <1>5, BackedStays DEF PairInv
<1>7. ResultsBacked'
  <2>1. store'.round >= store.round
    BY <1>2
  <2>2. QED
    BY <1>1, <1>3, <1>4, <2>1, ResultsStay DEF PairInv
<1>8. CacheFollows'
  BY DEF PairInv, CacheFollows
<1>9. QED
  BY <1>6, <1>7, <1>8 DEF PairInv

\* A write of the store by another status that is backed, of no earlier round.
LEMMA PairedWrite ==
    ASSUME "stale" \notin Faults, LoopInv, LoopInv', PairInv, NEW s, Written(s),
           s.round >= store.round, OpensNothing(store, s) \/ OpensNothing(mem, s),
           mem' = mem \/ mem' = NewStatus,
           UNCHANGED <<dsp, wiki>>, RoundsAgree'
    PROVE  PairInv'
<1>1. StatusOK(store) /\ StatusOK(mem) /\ EnvironmentOK /\ StatusOK(store)' /\ store' = s
  BY DEF LoopInv, CopiesOK, Written
<1>2. RecordsStay /\ OpensNothing(mem, mem')
  <2>1. OpenRounds(NewStatus) = {}
    BY DEF OpenRounds, NewStatus
  <2>2. QED
    BY <2>1 DEF RecordsStay, OpensNothing
<1>3. Backed(store, dsp, wiki)' /\ Backed(mem, dsp, wiki)'
  BY <1>1, <1>2, BackedStays DEF PairInv
<1>4. ResultsBacked'
  BY <1>1, <1>2, ResultsStay DEF PairInv
<1>5. CacheFollows'
  BY DEF PairInv, CacheFollows, Written
<1>6. QED
  BY <1>3, <1>4, <1>5 DEF PairInv

\* A run is created under an ID that no status and no result names.
LEMMA PairedRun ==
    ASSUME LoopInv, LoopInv', PairInv, pc = "submit", pc' = "save", NEW id \in RunId,
           dsp[id].state = "absent", dsp' = [dsp EXCEPT ![id] = RunRecord],
           \/ mem' = Submitted(mem, mem.round + 1, id)
           \/ mem' = [mem EXCEPT !.phase = "Running"],
           UNCHANGED <<store, cache, cacheBehind, wiki>>
    PROVE  PairInv'
<1>1. /\ StatusOK(store) /\ StatusOK(mem) /\ EnvironmentOK /\ StatusOK(store)'
      /\ mem.round = store.round /\ mem.round < RoundLimit
      /\ ValidationMode \/ wiki.proposal[mem.round + 1] = proposal
  BY DEF LoopInv, CopiesOK, PassOK, PairInv, RoundsAgree
<1>2. /\ mem \in Status /\ store.round \in Nat /\ mem.round + 1 \in Round
  <2>1. mem \in Status /\ store \in Status
    BY <1>1 DEF StatusOK
  <2>2. mem.round \in 0..RoundLimit /\ store.round \in 0..RoundLimit
    BY <2>1 DEF Status
  <2>3. QED
    BY <1>1, <2>1, <2>2, LoopAssumption DEF Round
<1>3. RecordsStay
  BY <1>1 DEF RecordsStay, EnvironmentOK
<1>4. OpensNothing(store, store')
  BY DEF OpensNothing
<1>5. Backed(store, dsp, wiki)'
  BY <1>1, <1>3, <1>4, BackedStays DEF PairInv
<1>6. Backed(mem, dsp', wiki')
  BY <1>1, <1>3, BackedStays DEF PairInv, OpensNothing
<1>7. /\ dsp'[id].state # "absent"
      /\ ValidationMode \/ dsp'[id].config = wiki'.proposal[mem.round + 1]
  BY <1>1 DEF EnvironmentOK, RunRecord
<1>8. Backed(mem, dsp, wiki)'
  <2>1. CASE mem' = Submitted(mem, mem.round + 1, id)
    <3>1. mem'.open = [mem.open EXCEPT ![mem.round + 1] = id]
      BY <1>2, <2>1 DEF Submitted, Status
    <3>2. \A r \in OpenRounds(mem') :
             \/ r = mem.round + 1 /\ mem'.open[r] = id
             \/ r \in OpenRounds(mem) /\ mem'.open[r] = mem.open[r]
      BY <1>2, <3>1 DEF OpenRounds, Status
    <3>3. QED
      BY <1>6, <1>7, <3>2 DEF Backed
  <2>2. CASE mem' = [mem EXCEPT !.phase = "Running"]
    <3>1. mem'.open = mem.open
      BY <1>2, <2>2 DEF Status
    <3>2. QED
      BY <1>6, <3>1 DEF Backed, OpenRounds
  <2>3. QED
    BY <2>1, <2>2
<1>9. ResultsBacked'
  <2>1. store'.round >= store.round
    BY <1>2
  <2>2. QED
    BY <1>1, <1>3, <2>1, ResultsStay DEF PairInv
<1>10. CacheFollows' /\ RoundsAgree'
  <2>1. mem'.round \in {mem.round, mem.round + 1}
    BY <1>2 DEF Submitted, Status
  <2>2. QED
    BY <1>1, <1>2, <2>1 DEF PairInv, CacheFollows, RoundsAgree
<1>11. QED
  BY <1>5, <1>8, <1>9, <1>10 DEF PairInv

\* Every step keeps results, open runs and proposals together.
LEMMA PairStep ==
    ASSUME "stale" \notin Faults
    PROVE  LoopInv /\ LoopInv' /\ PairInv /\ [Next]_vars => PairInv'
<1> SUFFICES ASSUME LoopInv, LoopInv', PairInv, [Next]_vars PROVE PairInv'
  OBVIOUS
<1> USE DEF envVars, passVars
<1>1. /\ EnvironmentOK /\ PassOK /\ StatusOK(store) /\ StatusOK(mem)
      /\ CacheFollows /\ RoundsAgree
  BY DEF LoopInv, CopiesOK, PairInv
<1>2. mem \in Status /\ store \in Status /\ store.round \in Nat /\ mem.round \in Nat
  BY <1>1, LoopAssumption DEF StatusOK, Status
<1>3. dsp' = dsp => RecordsStay
  BY DEF RecordsStay
<1>4. mem'.open = mem.open => OpensNothing(mem, mem')
  BY DEF OpensNothing, OpenRounds
<1>5. CASE UNCHANGED vars
  BY <1>1, <1>3, <1>4, <1>5, PairedQuietly DEF vars, RoundsAgree
<1>6. CASE Begin
  <2>1. mem' = store /\ pc' = "drain" /\ UNCHANGED <<store, cache, cacheBehind, dsp, wiki>>
    BY <1>1, <1>6 DEF Begin, CacheFollows
  <2>2. QED
    BY <2>1 DEF PairInv, CacheFollows, RoundsAgree, ResultsBacked, Backed
<1>7. CASE \/ DrainUnreachable \/ DrainEnd \/ CullEnd \/ GatePass
           \/ RegisterVersion \/ RegisterFails \/ Deploy
           \/ \E r \in todo : DrainKeep(r) \/ CullKeep(r)
           \/ \E r \in Round : BudgetElapses(r)
  <2>1. /\ UNCHANGED <<store, cache, cacheBehind, dsp, wiki, mem>>
        /\ pc' = pc \/ pc \notin {"idle", "save"}
        /\ pc' = pc \/ pc' \notin {"save", "submit"}
        /\ UNCHANGED proposal
    BY <1>7 DEF DrainUnreachable, DrainEnd, CullEnd, GatePass, RegisterVersion,
       RegisterFails, Deploy, DrainKeep, CullKeep, BudgetElapses
  <2>2. RoundsAgree'
    BY <1>1, <2>1 DEF RoundsAgree
  <2>3. QED
    BY <1>3, <1>4, <2>1, <2>2, PairedQuietly
<1>8. ASSUME NEW id \in RunId, RunEnds(id) \/ RunPruned(id) PROVE PairInv'
  <2>1. UNCHANGED <<store, cache, cacheBehind, wiki, mem, pc, proposal>>
    BY <1>8 DEF RunEnds, RunPruned
  <2>2. \E st \in {"succeeded", "failed", "deleted"} :
           \/ dsp' = [dsp EXCEPT ![id].state = st]
           \/ \E loss : dsp' = [dsp EXCEPT ![id].state = st, ![id].loss = loss]
    BY <1>8 DEF RunEnds, RunPruned
  <2>3. RecordsStay
    BY <1>1, <2>2, RecordsStayAfter
  <2>4. RoundsAgree'
    BY <1>1, <2>1 DEF RoundsAgree
  <2>5. QED
    BY <1>4, <2>1, <2>3, <2>4, PairedQuietly
<1>9. CASE GateCompleted \/ GateBreaker \/ RefsMissing
  <2>1. /\ \E p : mem' = [mem EXCEPT !.phase = p]
        /\ pc \in {"gate", "propose"} /\ pc' = "save"
        /\ UNCHANGED <<store, cache, cacheBehind, dsp, wiki>>
    BY <1>9 DEF GateCompleted, GateBreaker, RefsMissing, Mark
  <2>2. mem'.open = mem.open /\ mem'.round = mem.round
    BY <1>2, <2>1 DEF Status
  <2>3. RoundsAgree'
    BY <1>1, <1>2, <2>1, <2>2 DEF RoundsAgree
  <2>4. QED
    BY <1>3, <1>4, <2>1, <2>2, <2>3, PairedQuietly
<1>10. CASE GateCadence \/ GateCapacity \/ SaveRefused \/ Crash
  <2>1. /\ mem' = NewStatus /\ pc' = "idle"
        /\ UNCHANGED <<store, cache, cacheBehind, dsp, wiki>>
    BY <1>10 DEF GateCadence, GateCapacity, SaveRefused, Crash, Return
  <2>2. OpensNothing(mem, mem')
    BY <2>1 DEF OpensNothing, OpenRounds, NewStatus
  <2>3. RoundsAgree'
    BY <2>1 DEF RoundsAgree
  <2>4. QED
    BY <1>3, <2>1, <2>2, <2>3, PairedQuietly
<1>11. ASSUME NEW r \in todo, DrainOverdue(r) \/ Cull(r) PROVE PairInv'
  <2>1. /\ r \in OpenRounds(mem) /\ r \in Round /\ mem.open[r] \in RunId
        /\ pc \in {"drain", "cull"} /\ pc' = pc
        /\ UNCHANGED <<store, cache, cacheBehind, wiki>>
    BY <1>1, <1>11, OpenRunIds DEF DrainOverdue, Cull, PassOK
  <2>2. mem' = Superseded(mem, r) \/ mem' = Drained(mem, r, NoLoss)
    BY <1>11 DEF DrainOverdue, Cull
  <2>3. OpensNothing(mem, mem') /\ mem'.round = mem.round
    BY <1>1, <2>1, <2>2, SettlingOpensNothing
  <2>4. dsp[mem.open[r]].state # "absent"
    BY <2>1 DEF PairInv, Backed
  <2>5. \E st : st # "absent" /\ (dsp' = dsp \/ dsp' = [dsp EXCEPT ![mem.open[r]].state = st])
    BY <1>11, <2>4 DEF DrainOverdue, TrainerKilled, Cull
  <2>6. RecordsStay
    BY <1>1, <2>1, <2>5, RecordsStayAfter
  <2>7. RoundsAgree'
    BY <1>1, <2>1, <2>3 DEF RoundsAgree
  <2>8. QED
    BY <2>1, <2>3, <2>6, <2>7, PairedQuietly
<1>12. ASSUME NEW r \in todo, DrainTerminal(r) PROVE PairInv'
  <2>1. /\ r \in OpenRounds(mem) /\ r \in Round /\ pc = "drain" /\ pc' = pc
        /\ UNCHANGED <<store, cache, cacheBehind, dsp>>
    BY <1>1, <1>12, OpenRunIds DEF DrainTerminal, PassOK
  <2>2. \E loss : mem' = Drained(mem, r, loss)
    BY <1>12 DEF DrainTerminal
  <2>3. OpensNothing(mem, mem') /\ mem'.round = mem.round
    BY <1>1, <2>1, <2>2, SettlingOpensNothing
  <2>4. RoundsAgree'
    BY <1>1, <2>1, <2>3 DEF RoundsAgree
  <2>5. CASE wiki' = wiki
    BY <1>3, <2>1, <2>3, <2>4, <2>5, PairedQuietly
  <2>6. ASSUME NEW res, res.run = mem.open[r], wiki' = [wiki EXCEPT !.result[r] = res]
        PROVE  PairInv'
    <3>1. /\ wiki'.proposal = wiki.proposal
          /\ wiki'.result = [wiki.result EXCEPT ![r] = res]
      BY <1>1, <2>6 DEF EnvironmentOK
    <3>2. QED
      BY <1>3, <2>1, <2>3, <2>4, <2>6, <3>1, PairedResult
  <2>7. wiki' = wiki \/ \E loss : ResultPushed(r, loss)
    BY <1>12 DEF DrainTerminal
  <2>8. wiki' = wiki \/ \E res : res.run = mem.open[r] /\ wiki' = [wiki EXCEPT !.result[r] = res]
    BY <2>7 DEF ResultPushed
  <2>9. QED
    BY <2>5, <2>6, <2>8
<1>13. CASE Propose
  <2>1. /\ pc = "propose" /\ pc' = "submit" /\ mem.round < RoundLimit
        /\ UNCHANGED <<store, cache, cacheBehind, dsp, mem>>
    BY <1>1, <1>2, <1>13, LoopAssumption DEF Propose, Exhausted
  <2>2. PICK c \in Config :
           /\ proposal' = c
           /\ IF ValidationMode THEN wiki' = wiki ELSE ProposalPushed(c)
    BY <1>13 DEF Propose
  <2>3. ValidationMode \/ wiki'.proposal[mem.round + 1] = c
    <3>1. mem.round + 1 \in Round
      BY <1>2, <2>1, LoopAssumption DEF Round
    <3>2. QED
      BY <1>1, <2>2, <3>1 DEF ProposalPushed, EnvironmentOK
  <2>4. RoundsAgree'
    BY <1>1, <2>1, <2>2, <2>3 DEF RoundsAgree
  <2>5. QED
    BY <2>1, <2>2, <2>4, PairedProposal
<1>14. CASE ProposeFails
  <2>1. /\ \E p : mem' = [mem EXCEPT !.phase = p]
        /\ pc = "propose" /\ pc' = "save"
        /\ UNCHANGED <<store, cache, cacheBehind, dsp>>
    BY <1>14 DEF ProposeFails, Mark
  <2>2. mem'.open = mem.open /\ mem'.round = mem.round
    BY <1>2, <2>1 DEF Status
  <2>3. RoundsAgree'
    BY <1>1, <1>2, <2>1, <2>2 DEF RoundsAgree
  <2>4. CASE wiki' = wiki
    BY <1>3, <1>4, <2>1, <2>2, <2>3, <2>4, PairedQuietly
  <2>5. ASSUME NEW c \in Config, ~Exhausted, ProposalPushed(c) PROVE PairInv'
    <3>1. mem.round < RoundLimit
      BY <1>2, <2>5, LoopAssumption DEF Exhausted
    <3>2. QED
      BY <2>1, <2>2, <2>3, <2>5, <3>1, PairedProposal
  <2>6. QED
    BY <1>14, <2>4, <2>5 DEF ProposeFails
<1>15. CASE Submit
  <2>1. PICK id \in RunId :
           /\ dsp[id].state = "absent" /\ dsp' = [dsp EXCEPT ![id] = RunRecord]
           /\ mem' = Submitted(mem, mem.round + 1, id)
    BY <1>15 DEF Submit
  <2>2. /\ pc = "submit" /\ pc' = "save"
        /\ UNCHANGED <<store, cache, cacheBehind, wiki>>
    BY <1>15 DEF Submit
  <2>3. QED
    BY <2>1, <2>2, PairedRun
<1>16. CASE SubmitFails
  <2>1. /\ pc = "submit" /\ pc' = "save" /\ mem' = [mem EXCEPT !.phase = "Running"]
        /\ UNCHANGED <<store, cache, cacheBehind, wiki>>
    BY <1>16 DEF SubmitFails
  <2>2. CASE dsp' = dsp
    <3>1. mem'.open = mem.open /\ mem'.round = mem.round
      BY <1>2, <2>1 DEF Status
    <3>2. RoundsAgree'
      BY <1>1, <1>2, <2>1, <3>1 DEF RoundsAgree
    <3>3. QED
      BY <1>3, <1>4, <2>1, <2>2, <3>1, <3>2, PairedQuietly
  <2>3. ASSUME NEW id \in RunId, dsp[id].state = "absent",
               dsp' = [dsp EXCEPT ![id] = RunRecord]
        PROVE  PairInv'
    BY <2>1, <2>3, PairedRun
  <2>4. QED
    BY <1>16, <2>2, <2>3 DEF SubmitFails
<1>17. CASE Save
  <2>1. /\ Written(mem) /\ mem' = NewStatus /\ pc = "save" /\ pc' = "idle"
        /\ UNCHANGED <<dsp, wiki>>
    BY <1>17 DEF Save, Return
  <2>2. OpensNothing(mem, mem) /\ mem.round >= store.round /\ RoundsAgree'
    BY <1>1, <2>1 DEF OpensNothing, RoundsAgree
  <2>3. QED
    BY <2>1, <2>2, PairedWrite
<1>18. CASE CacheSync
  BY <1>1, <1>18 DEF CacheSync, CacheFollows
<1>19. CASE HumanReset
  <2> DEFINE s == [store EXCEPT !.fails = 0]
  <2>1. s.open = store.open /\ s.round = store.round
    BY <1>2 DEF Status
  <2>2. Written(s) /\ UNCHANGED <<dsp, wiki, pc, mem, proposal>>
    BY <1>19 DEF HumanReset
  <2> HIDE DEF s
  <2>3. /\ OpensNothing(store, s) /\ s.round >= store.round
        /\ store'.round = store.round
    BY <1>2, <2>1, <2>2 DEF OpensNothing, OpenRounds, Written
  <2>4. RoundsAgree'
    BY <1>1, <2>2, <2>3 DEF RoundsAgree
  <2>5. QED
    BY <2>2, <2>3, <2>4, PairedWrite
<1>20. CASE ConcurrentWrite
  <2>1. Written(store) /\ UNCHANGED <<dsp, wiki, pc, mem, proposal>>
    BY <1>20 DEF ConcurrentWrite
  <2>2. /\ OpensNothing(store, store) /\ store.round >= store.round
        /\ store'.round = store.round
    BY <1>2, <2>1 DEF OpensNothing, Written
  <2>3. RoundsAgree'
    BY <1>1, <2>1, <2>2 DEF RoundsAgree
  <2>4. QED
    BY <2>1, <2>2, <2>3, PairedWrite
<1>21. QED
  BY <1>5, <1>6, <1>7, <1>8, <1>9, <1>10, <1>11, <1>12, <1>13, <1>14, <1>15, <1>16,
     <1>17, <1>18, <1>19, <1>20
  DEF Next, Reconcile, Environment, Gate, Drain

\* What the history loader pairs is what was run, whatever calls fail, however
\* often the operator stops and whoever else writes the object, as long as a
\* reconcile starts from the stored status: a reconcile that starts from an
\* older one proposes a round again whose run may have ended meanwhile.
THEOREM ResultsArePaired ==
    ASSUME "stale" \notin Faults
    PROVE  Spec => []ResultsPaired
<1>1. LoopInv /\ LoopInv' /\ PairInv /\ [Next]_vars => PairInv'
  BY PairStep
<1>2. EnvironmentOK /\ PairInv => ResultsPaired
  BY DEF EnvironmentOK, PairInv, ResultsBacked, ResultsPaired
<1>3. LoopInv => EnvironmentOK
  BY DEF LoopInv
<1>4. QED
  BY LoopInvariant, PairInit, <1>1, <1>2, <1>3, PTL DEF Spec

-----------------------------------------------------------------------------
(* 5. Trainers and rounds, while no reconcile is cut short                 *)

\* No operator stops, no call fails, and every reconcile starts from the
\* stored status and is alone in writing it.
Undisturbed == Faults \cap {"crash", "stale", "conflict", "transient"} = {}

\* The status that knows what is going on.
Live == IF pc = "idle" THEN store ELSE mem

\* The runs that were created are of rounds that were counted, no two of one.
RunsNumbered ==
    \A id \in RunId :
        /\ dsp[id].round <= Live.round
        /\ dsp[id].round = 0 <=> dsp[id].state = "absent"
        /\ \A j \in RunId : dsp[id].round = dsp[j].round => id = j \/ dsp[id].round = 0

RunningIds == {id \in RunId : dsp[id].state = "running"}
OpenIds(s) == {s.open[r] : r \in OpenRounds(s)}

\* A reconcile that settled nothing holds the open runs it has read.
NothingSettled ==
    pc \in {"drain", "register", "cull", "gate"} /\ ~completed =>
        mem.open = store.open /\ mem.round = store.round

HandInv ==
    /\ cache = store /\ ~cacheBehind /\ ~memBehind
    /\ RunsNumbered /\ RunningIds \subseteq OpenIds(Live) /\ NothingSettled

\* The trainers in hand fit the cap, as the open runs do.
LEMMA HandImpliesTrainers == LoopInv /\ HandInv => TrainersInHand
<1> SUFFICES ASSUME LoopInv, HandInv PROVE TrainersInHand
  OBVIOUS
<1>1. StatusOK(Live)
  BY DEF LoopInv, CopiesOK, Live
<1>2. OneRunPerRound
  <2> SUFFICES ASSUME NEW i \in RunId, NEW j \in RunId, dsp[i].state # "absent",
                      dsp[i].round = dsp[j].round
               PROVE  i = j
    BY DEF OneRunPerRound
  <2>1. dsp[i].round # 0
    BY DEF HandInv, RunsNumbered
  <2>2. QED
    BY <2>1 DEF HandInv, RunsNumbered
<1>3. InFlightWithinCap
  <2>1. IsFiniteSet(OpenRounds(Live)) /\ Cardinality(OpenRounds(Live)) <= MaxConcurrent
    BY <1>1, RoundsFinite DEF OpenRounds, StatusOK, WithinBudget
  <2>2. /\ IsFiniteSet(OpenIds(Live))
        /\ Cardinality(OpenIds(Live)) <= Cardinality(OpenRounds(Live))
    <3> DEFINE f == [r \in OpenRounds(Live) |-> Live.open[r]]
    <3>1. f \in Surjection(OpenRounds(Live), OpenIds(Live))
      BY DEF OpenIds, Surjection
    <3>2. QED
      BY <2>1, <3>1, FS_Surjection
  <2>3. Cardinality(RunningIds) <= Cardinality(OpenIds(Live))
    BY <2>2, FS_Subset DEF HandInv
  <2>4. /\ Cardinality(RunningIds) \in Nat /\ Cardinality(OpenIds(Live)) \in Nat
        /\ Cardinality(OpenRounds(Live)) \in Nat
    BY <2>1, <2>2, FS_Subset, FS_CardinalityType DEF HandInv
  <2>5. QED
    BY <2>1, <2>2, <2>3, <2>4, LoopAssumption DEF InFlightWithinCap, RunningIds
<1>4. QED
  BY <1>2, <1>3 DEF TrainersInHand

\* At the start there is no run, and no reconcile under way.
LEMMA HandInit == Init => HandInv
<1> SUFFICES ASSUME Init PROVE HandInv
  OBVIOUS
<1>1. \A id \in RunId : dsp[id].round = 0 /\ dsp[id].state = "absent"
  BY DEF Init, NoRunRecord
<1>2. Live.round = 0
  BY DEF Init, Live, NewStatus
<1>3. RunsNumbered /\ RunningIds = {}
  BY <1>1, <1>2 DEF RunsNumbered, RunningIds
<1>4. QED
  BY <1>3 DEF HandInv, NothingSettled, Init

\* Records keep their rounds, and none appears or disappears.
NumbersStay ==
    \A id \in RunId :
        /\ dsp'[id].round = dsp[id].round
        /\ dsp'[id].state = "absent" <=> dsp[id].state = "absent"

\* A new state of one record keeps the numbers, and can only end a run.
LEMMA NumbersStayAfter ==
    ASSUME EnvironmentOK, NEW id \in RunId, NEW st \in {"succeeded", "failed", "deleted"},
           dsp[id].state # "absent",
           \/ dsp' = [dsp EXCEPT ![id].state = st]
           \/ \E loss : dsp' = [dsp EXCEPT ![id].state = st, ![id].loss = loss]
    PROVE  NumbersStay /\ RunningIds' \subseteq RunningIds \ {id}
<1> DEFINE Record == [state: RunState, round: 0..RoundLimit,
                      version: Version \cup {NoVersion},
                      config: Config \cup {NoConfig}, loss: Loss \cup {NoLoss}]
<1>1. dsp \in [RunId -> Record]
  BY DEF EnvironmentOK
<1>2. \A i \in RunId : i # id => dsp'[i] = dsp[i]
  BY <1>1
<1>3. dsp'[id].round = dsp[id].round /\ dsp'[id].state = st
  BY <1>1
<1>4. QED
  BY <1>2, <1>3 DEF NumbersStay, RunningIds

\* The runs stay numbered while records and the round stay.
LEMMA NumberedStays ==
    ASSUME RunsNumbered, NumbersStay, Live.round \in Nat, Live'.round = Live.round
    PROVE  RunsNumbered'
BY DEF RunsNumbered, NumbersStay

\* Settling round r takes the ID of its run from the open ones, unless another
\* round has it too.
LEMMA SettledIds ==
    ASSUME NEW s, StatusOK(s), NEW r \in OpenRounds(s), NEW t,
           t = Superseded(s, r) \/ \E loss : t = Drained(s, r, loss)
    PROVE  /\ t.round = s.round
           /\ OpenIds(s) \ {s.open[r]} \subseteq OpenIds(t)
<1>1. s \in Status /\ s.open \in [Round -> RunId \cup {NoRun}] /\ r \in Round
  BY DEF StatusOK, Status, OpenRounds
<1>2. t.round = s.round /\ t.open = [s.open EXCEPT ![r] = NoRun]
  <2>1. CASE t = Superseded(s, r)
    BY <1>1, <2>1 DEF Superseded, Status
  <2>2. ASSUME NEW loss, t = Drained(s, r, loss)
        PROVE  t.round = s.round /\ t.open = [s.open EXCEPT ![r] = NoRun]
    BY <1>1, <2>2 DEF Drained, Status
  <2>3. QED
    BY <2>1, <2>2
<1>3. ASSUME NEW q \in OpenRounds(s), s.open[q] # s.open[r]
      PROVE  s.open[q] \in OpenIds(t)
  <2>1. q \in OpenRounds(t) /\ t.open[q] = s.open[q]
    BY <1>1, <1>2, <1>3 DEF OpenRounds
  <2>2. QED
    BY <2>1 DEF OpenIds
<1>4. QED
  BY <1>2, <1>3 DEF OpenIds

\* No step of an undisturbed loop loses a trainer or submits a round twice.
LEMMA HandStep ==
    ASSUME Undisturbed
    PROVE  LoopInv /\ LoopInv' /\ PairInv /\ HandInv /\ [Next]_vars => HandInv'
<1> SUFFICES ASSUME LoopInv, LoopInv', PairInv, HandInv, [Next]_vars PROVE HandInv'
  OBVIOUS
<1> USE DEF envVars, passVars
<1>1. /\ EnvironmentOK /\ PassOK /\ StatusOK(store) /\ StatusOK(mem)
      /\ cache = store /\ ~cacheBehind /\ ~memBehind
      /\ RunsNumbered /\ RunningIds \subseteq OpenIds(Live) /\ NothingSettled
  BY DEF LoopInv, CopiesOK, HandInv
<1>2. /\ mem \in Status /\ store \in Status /\ store.round \in Nat /\ mem.round \in Nat
      /\ Live.round \in Nat
  BY <1>1, LoopAssumption DEF StatusOK, Status, Live
<1>3. {"crash", "stale", "conflict", "transient"} \cap Faults = {}
  BY DEF Undisturbed
<1>4. dsp' = dsp => NumbersStay /\ RunningIds' = RunningIds
  BY DEF NumbersStay, RunningIds
<1>5. ASSUME UNCHANGED <<store, cache, cacheBehind>>, ~memBehind', NumbersStay,
             RunningIds' \subseteq RunningIds, Live' = Live, NothingSettled'
      PROVE  HandInv'
  <2>1. RunsNumbered'
    BY <1>1, <1>2, <1>5, NumberedStays
  <2>2. RunningIds' \subseteq OpenIds(Live)'
    BY <1>1, <1>5
  <2>3. QED
    BY <1>1, <1>5, <2>1, <2>2 DEF HandInv
<1>6. CASE UNCHANGED vars
  BY <1>1, <1>4, <1>5, <1>6 DEF vars, Live, NothingSettled
<1>7. CASE Begin
  <2>1. /\ mem' = store /\ pc = "idle" /\ pc' = "drain" /\ ~memBehind'
        /\ UNCHANGED <<store, cache, cacheBehind, dsp>>
    BY <1>1, <1>7 DEF Begin
  <2>2. Live' = Live /\ NothingSettled'
    BY <2>1 DEF Live, NothingSettled
  <2>3. QED
    BY <1>1, <1>4, <1>5, <2>1, <2>2
<1>8. CASE \/ DrainEnd \/ CullEnd \/ GatePass \/ RegisterVersion
           \/ \E r \in todo : DrainKeep(r) \/ CullKeep(r)
  <2>1. /\ UNCHANGED <<store, cache, cacheBehind, dsp, mem, memBehind, completed>>
        /\ pc \in {"drain", "register", "cull", "gate"} /\ pc' # "idle"
    BY <1>8 DEF DrainEnd, CullEnd, GatePass, RegisterVersion, DrainKeep, CullKeep
  <2>2. Live' = Live /\ NothingSettled'
    BY <1>1, <2>1 DEF Live, NothingSettled
  <2>3. QED
    BY <1>1, <1>4, <1>5, <2>1, <2>2
<1>9. CASE Deploy \/ \E r \in Round : BudgetElapses(r)
  <2>1. UNCHANGED <<store, cache, cacheBehind, dsp, mem, memBehind, completed, pc>>
    BY <1>9 DEF Deploy, BudgetElapses
  <2>2. QED
    BY <1>1, <1>4, <1>5, <2>1 DEF Live, NothingSettled
<1>10. CASE DrainUnreachable \/ RegisterFails \/ RefsMissing \/ SubmitFails \/ Crash
  BY <1>3, <1>10 DEF DrainUnreachable, RegisterFails, RefsMissing, SubmitFails, Crash
<1>11. CASE SaveRefused \/ ConcurrentWrite \/ CacheSync
  BY <1>1, <1>3, <1>11 DEF SaveRefused, ConcurrentWrite, CacheSync
<1>12. ASSUME NEW id \in RunId, RunEnds(id) \/ RunPruned(id) PROVE HandInv'
  <2>1. /\ UNCHANGED <<store, cache, cacheBehind, mem, memBehind, completed, pc>>
        /\ dsp[id].state # "absent"
    BY <1>12 DEF RunEnds, RunPruned, Terminal
  <2>2. \E st \in {"succeeded", "failed", "deleted"} :
           \/ dsp' = [dsp EXCEPT ![id].state = st]
           \/ \E loss : dsp' = [dsp EXCEPT ![id].state = st, ![id].loss = loss]
    BY <1>12 DEF RunEnds, RunPruned
  <2>3. NumbersStay /\ RunningIds' \subseteq RunningIds
    BY <1>1, <2>1, <2>2, NumbersStayAfter
  <2>4. QED
    BY <1>1, <1>5, <2>1, <2>3 DEF Live, NothingSettled
<1>13. CASE GateCadence \/ GateCapacity
  <2>1. /\ pc = "gate" /\ ~completed /\ pc' = "idle" /\ ~memBehind'
        /\ UNCHANGED <<store, cache, cacheBehind, dsp>>
    BY <1>1, <1>13 DEF GateCadence, GateCapacity, PassOK, Return
  <2>2. /\ mem.open = store.open /\ mem.round = store.round
        /\ Live = mem /\ Live' = store
    BY <1>1, <2>1 DEF NothingSettled, Live
  <2>3. RunsNumbered'
    BY <1>1, <1>2, <1>4, <2>1, <2>2, NumberedStays
  <2>4. OpenIds(store) = OpenIds(mem)
    BY <2>2 DEF OpenIds, OpenRounds
  <2>5. NothingSettled'
    BY <2>1 DEF NothingSettled
  <2>6. QED
    BY <1>1, <1>4, <2>1, <2>2, <2>3, <2>4, <2>5 DEF HandInv
<1>14. CASE GateCompleted \/ GateBreaker \/ ProposeFails
  <2>1. /\ \E p : mem' = [mem EXCEPT !.phase = p]
        /\ pc # "idle" /\ pc' = "save"
        /\ UNCHANGED <<store, cache, cacheBehind, dsp, memBehind>>
    BY <1>14 DEF GateCompleted, GateBreaker, ProposeFails, Mark
  <2>2. mem'.open = mem.open /\ mem'.round = mem.round
    BY <1>2, <2>1 DEF Status
  <2>3. Live = mem /\ Live' = mem' /\ OpenIds(mem') = OpenIds(mem)
    BY <2>1, <2>2 DEF Live, OpenIds, OpenRounds
  <2>4. RunsNumbered'
    BY <1>1, <1>2, <1>4, <2>1, <2>2, <2>3, NumberedStays
  <2>5. NothingSettled'
    BY <2>1 DEF NothingSettled
  <2>6. QED
    BY <1>1, <1>4, <2>1, <2>3, <2>4, <2>5 DEF HandInv
<1>15. ASSUME NEW r \in todo, DrainTerminal(r) \/ DrainOverdue(r) \/ Cull(r) PROVE HandInv'
  <2>1. /\ r \in OpenRounds(mem) /\ mem.open[r] \in RunId
        /\ pc # "idle" /\ pc' = pc /\ completed'
        /\ UNCHANGED <<store, cache, cacheBehind, memBehind>>
    BY <1>1, <1>15, OpenRunIds DEF DrainTerminal, DrainOverdue, Cull, PassOK
  <2>2. mem' = Superseded(mem, r) \/ \E loss : mem' = Drained(mem, r, loss)
    BY <1>15 DEF DrainTerminal, DrainOverdue, Cull
  <2>3. /\ mem'.round = mem.round /\ OpenIds(mem) \ {mem.open[r]} \subseteq OpenIds(mem')
        /\ Live = mem /\ Live' = mem'
    BY <1>1, <2>1, <2>2, SettledIds DEF Live
  <2>4. NumbersStay /\ RunningIds' \subseteq RunningIds \ {mem.open[r]}
    <3>1. CASE DrainTerminal(r)
      <4>1. dsp' = dsp /\ dsp[mem.open[r]].state # "running"
        BY <3>1 DEF DrainTerminal
      <4>2. QED
        BY <1>4, <4>1 DEF RunningIds
    <3>2. CASE DrainOverdue(r)
      <4>1. /\ dsp[mem.open[r]].state # "absent"
            /\ dsp' = [dsp EXCEPT ![mem.open[r]].state = "failed"]
        BY <1>3, <3>2 DEF DrainOverdue, TrainerKilled
      <4>2. QED
        BY <1>1, <2>1, <4>1, NumbersStayAfter
    <3>3. CASE Cull(r)
      <4>1. /\ dsp[mem.open[r]].state # "absent"
            /\ dsp' = [dsp EXCEPT ![mem.open[r]].state = "deleted"]
        BY <1>3, <2>1, <3>3 DEF Cull, PairInv, Backed
      <4>2. QED
        BY <1>1, <2>1, <4>1, NumbersStayAfter
    <3>4. QED
      BY <1>15, <3>1, <3>2, <3>3
  <2>5. RunsNumbered'
    BY <1>1, <1>2, <2>3, <2>4, NumberedStays
  <2>6. NothingSettled'
    BY <2>1 DEF NothingSettled
  <2>7. QED
    BY <1>1, <2>1, <2>3, <2>4, <2>5, <2>6 DEF HandInv
<1>16. CASE Propose
  <2>1. /\ UNCHANGED <<store, cache, cacheBehind, dsp, mem, memBehind>>
        /\ pc = "propose" /\ pc' = "submit"
    BY <1>16 DEF Propose
  <2>2. Live' = Live /\ NothingSettled'
    BY <2>1 DEF Live, NothingSettled
  <2>3. QED
    BY <1>1, <1>4, <1>5, <2>1, <2>2
<1>17. CASE Submit
  <2>1. PICK id \in RunId :
           /\ dsp[id].state = "absent" /\ dsp' = [dsp EXCEPT ![id] = RunRecord]
           /\ mem' = Submitted(mem, mem.round + 1, id)
    BY <1>17 DEF Submit
  <2>2. /\ pc = "submit" /\ pc' = "save" /\ mem.round < RoundLimit
        /\ UNCHANGED <<store, cache, cacheBehind, memBehind>>
    BY <1>1, <1>17 DEF Submit, PassOK
  <2>3. Live = mem /\ Live' = mem'
    BY <2>2 DEF Live
  <2>4. mem'.round = mem.round + 1 /\ mem'.open = [mem.open EXCEPT ![mem.round + 1] = id]
    BY <1>2, <2>1 DEF Submitted, Status
  <2>5. dsp'[id].round = mem.round + 1 /\ dsp'[id].state = "running"
    BY <1>1, <2>1 DEF EnvironmentOK, RunRecord
  <2>6. \A i \in RunId : i # id => dsp'[i] = dsp[i]
    BY <1>1, <2>1 DEF EnvironmentOK
  <2>7. RunsNumbered'
    <3>1. \A i \in RunId : dsp[i].round \in Nat
      BY <1>1, LoopAssumption DEF EnvironmentOK
    <3>2. \A i \in RunId : dsp[i].round <= mem.round
      BY <1>1, <2>3 DEF RunsNumbered
    <3>3. \A i \in RunId : /\ dsp'[i].round <= mem'.round
                           /\ dsp'[i].round = 0 <=> dsp'[i].state = "absent"
      BY <1>1, <1>2, <2>4, <2>5, <2>6, <3>1, <3>2 DEF RunsNumbered
    <3>4. \A i, j \in RunId : dsp'[i].round = dsp'[j].round => i = j \/ dsp'[i].round = 0
      BY <1>1, <1>2, <2>5, <2>6, <3>1, <3>2 DEF RunsNumbered
    <3>5. QED
      BY <2>3, <3>3, <3>4 DEF RunsNumbered
  <2>8. RunningIds' \subseteq OpenIds(Live)'
    <3>1. RunningIds' \subseteq RunningIds \cup {id}
      BY <2>6 DEF RunningIds
    <3>2. mem.round + 1 \in Round /\ mem.round + 1 \notin OpenRounds(mem)
      BY <1>1, <1>2, <2>2, OpenAreOld, LoopAssumption DEF Round
    <3>3. /\ mem.open \in [Round -> RunId \cup {NoRun}] /\ id # NoRun
      BY <1>2, LoopAssumption DEF Status
    <3>4. \A r \in OpenRounds(mem) : r \in OpenRounds(mem') /\ mem'.open[r] = mem.open[r]
      BY <2>4, <3>2, <3>3 DEF OpenRounds
    <3>5. mem.round + 1 \in OpenRounds(mem') /\ mem'.open[mem.round + 1] = id
      BY <2>4, <3>2, <3>3 DEF OpenRounds
    <3>6. OpenIds(mem) \cup {id} \subseteq OpenIds(mem')
      BY <3>4, <3>5 DEF OpenIds
    <3>7. QED
      BY <1>1, <2>3, <3>1, <3>6
  <2>9. QED
    BY <1>1, <2>2, <2>7, <2>8 DEF HandInv, NothingSettled
<1>18. CASE Save
  <2>1. /\ store' = mem /\ cache' = mem /\ UNCHANGED <<cacheBehind, dsp>>
        /\ pc = "save" /\ pc' = "idle" /\ ~memBehind'
    BY <1>3, <1>18 DEF Save, Written, Return
  <2>2. Live = mem /\ Live' = mem
    BY <2>1 DEF Live
  <2>3. RunsNumbered'
    BY <1>1, <1>2, <1>4, <2>1, <2>2, NumberedStays
  <2>4. QED
    BY <1>1, <1>4, <2>1, <2>2, <2>3 DEF HandInv, NothingSettled
<1>19. CASE HumanReset
  <2> DEFINE s == [store EXCEPT !.fails = 0]
  <2>1. s.open = store.open /\ s.round = store.round
    BY <1>2 DEF Status
  <2>2. /\ pc = "idle" /\ pc' = "idle" /\ store' = s /\ cache' = s
        /\ ~memBehind' /\ UNCHANGED <<cacheBehind, dsp>>
    BY <1>3, <1>19 DEF HumanReset, Written
  <2> HIDE DEF s
  <2>3. Live = store /\ Live' = s /\ OpenIds(s) = OpenIds(store)
    BY <2>1, <2>2 DEF Live, OpenIds, OpenRounds
  <2>4. RunsNumbered'
    BY <1>1, <1>2, <1>4, <2>1, <2>2, <2>3, NumberedStays
  <2>5. QED
    BY <1>1, <1>4, <2>2, <2>3, <2>4 DEF HandInv, NothingSettled
<1>20. QED
  BY <1>6, <1>7, <1>8, <1>9, <1>10, <1>11, <1>12, <1>13, <1>14, <1>15, <1>16,
     <1>17, <1>18, <1>19
  DEF Next, Reconcile, Environment, Gate, Drain

\* While no reconcile is cut short, fails half way or starts from an old status,
\* a round is submitted to DSP once, and the trainers that hold GPUs are runs the
\* status still has open: also when a slot that a drain, a cull or the watchdog
\* frees is used again in the same pass.  Runs may fall silent or be pruned.
THEOREM TrainersStayInHand ==
    ASSUME Undisturbed
    PROVE  Spec => []TrainersInHand
<1>1. LoopInv /\ LoopInv' /\ PairInv /\ HandInv /\ [Next]_vars => HandInv'
  BY HandStep
<1>2. LoopInv /\ LoopInv' /\ PairInv /\ [Next]_vars => PairInv'
  BY PairStep DEF Undisturbed
<1>3. LoopInv /\ HandInv => TrainersInHand
  BY HandImpliesTrainers
<1>4. QED
  BY LoopInvariant, PairInit, HandInit, <1>1, <1>2, <1>3, PTL DEF Spec

-----------------------------------------------------------------------------
(* 6. Where the losses come from, with any set of faults                   *)

\* A trainer of round r reported this loss, says DSP's record d of it.
Reported(d, r, loss) == \E id \in RunId : d[id].round = r /\ d[id].loss = loss

\* The open runs of s are DSP's records of their rounds, and what it measured
\* was reported by a run of the round.
Traced(s, d) ==
    /\ \A r \in OpenRounds(s) :
          d[s.open[r]].state # "absent" /\ d[s.open[r]].round = r
    /\ \A r \in Measured(s) : Reported(d, r, s.evalLoss[r])

\* A run reports when it ends: whatever happens to the record of a run that has
\* ended, its loss is not written again.
Ended(id, d) == d[id].state \notin {"absent", "running"}
FinalLoss == \A id \in RunId : dsp[id].loss # NoLoss => Ended(id, dsp)

\* The result of a round in the wiki is of a run of the round, and its loss is
\* the one this run reported or, when none was read, the zero value.
ResultsTraced ==
    \A r \in Round :
        LET id == wiki.result[r].run IN
        id # NoRun =>
            /\ dsp[id].round = r /\ Ended(id, dsp)
            /\ wiki.result[r].loss \in {dsp[id].loss, ZeroLoss}

TraceInv ==
    /\ FinalLoss /\ ResultsTraced
    /\ Traced(store, dsp) /\ Traced(cache, dsp) /\ Traced(mem, dsp)

\* Every loss in a copy of the status, the champion's too, was reported by a
\* trainer of the round it is recorded for.
LossesReported ==
    \A s \in Copies :
        /\ \A r \in Measured(s) : Reported(dsp, r, s.evalLoss[r])
        /\ s.best # NoLoss => Reported(dsp, s.bestRound, s.best)

\* The records there are stay, with their rounds; those of ended runs keep what
\* was reported.
ReportsStay ==
    \A id \in RunId :
        /\ dsp[id].state # "absent" =>
              dsp'[id].state # "absent" /\ dsp'[id].round = dsp[id].round
        /\ Ended(id, dsp) => Ended(id, dsp') /\ dsp'[id].loss = dsp[id].loss

\* Status t opens and measures nothing that s does not.
NothingNew(s, t) ==
    /\ OpensNothing(s, t)
    /\ \A r \in Measured(t) : r \in Measured(s) /\ t.evalLoss[r] = s.evalLoss[r]

\* A status that has nothing new is traced as the one it comes from.
LEMMA TracedStays ==
    ASSUME NEW s, StatusOK(s), NEW t, Traced(s, dsp), ReportsStay, FinalLoss,
           NothingNew(s, t)
    PROVE  Traced(t, dsp')
<1>1. ASSUME NEW r \in OpenRounds(t)
      PROVE  dsp'[t.open[r]].state # "absent" /\ dsp'[t.open[r]].round = r
  <2>1. r \in OpenRounds(s) /\ t.open[r] = s.open[r] /\ s.open[r] \in RunId
    BY <1>1, OpenRunIds DEF NothingNew, OpensNothing
  <2>2. QED
    BY <2>1 DEF Traced, ReportsStay
<1>2. ASSUME NEW r \in Measured(t)
      PROVE  Reported(dsp', r, t.evalLoss[r])
  <2>1. /\ r \in Measured(s) /\ t.evalLoss[r] = s.evalLoss[r]
        /\ s.evalLoss[r] # NoLoss
    BY <1>2, LoopAssumption DEF NothingNew, StatusOK, NoLoss
  <2>2. PICK id \in RunId : dsp[id].round = r /\ dsp[id].loss = s.evalLoss[r]
    BY <2>1 DEF Traced, Reported
  <2>3. Ended(id, dsp)
    BY <2>1, <2>2 DEF FinalLoss
  <2>4. dsp[id].state # "absent"
    BY <2>3 DEF Ended
  <2>5. dsp'[id].round = r /\ dsp'[id].loss = t.evalLoss[r]
    BY <2>1, <2>2, <2>3, <2>4 DEF ReportsStay
  <2>6. QED
    BY <2>5 DEF Reported
<1>3. QED
  BY <1>1, <1>2 DEF Traced

\* The edits of a status that add nothing to it.
LEMMA EditsAddNothing ==
    ASSUME NEW s, StatusOK(s)
    PROVE  /\ NothingNew(s, s) /\ NothingNew(s, NewStatus)
           /\ \A p : NothingNew(s, [s EXCEPT !.phase = p])
           /\ NothingNew(s, [s EXCEPT !.fails = 0])
           /\ \A r \in Round : /\ NothingNew(s, Superseded(s, r))
                               /\ NothingNew(s, Drained(s, r, NoLoss))
<1>1. s \in Status
  BY DEF StatusOK
<1>2. OpenRounds(NewStatus) = {} /\ Measured(NewStatus) = {}
  BY DEF OpenRounds, Measured, NewStatus
<1>3. NothingNew(s, s) /\ NothingNew(s, NewStatus)
  BY <1>2 DEF NothingNew, OpensNothing
<1>4. ASSUME NEW t, t.open = s.open, t.outcome = s.outcome, t.evalLoss = s.evalLoss
      PROVE  NothingNew(s, t)
  BY <1>4 DEF NothingNew, OpensNothing, OpenRounds, Measured
<1>5. ASSUME NEW p
      PROVE  NothingNew(s, [s EXCEPT !.phase = p])
  <2> DEFINE t == [s EXCEPT !.phase = p]
  <2>1. t.open = s.open /\ t.outcome = s.outcome /\ t.evalLoss = s.evalLoss
    BY <1>1 DEF Status
  <2> QED
    BY <1>4, <2>1
<1>6. NothingNew(s, [s EXCEPT !.fails = 0])
  <2> DEFINE t == [s EXCEPT !.fails = 0]
  <2>1. t.open = s.open /\ t.outcome = s.outcome /\ t.evalLoss = s.evalLoss
    BY <1>1 DEF Status
  <2> QED
    BY <1>4, <2>1
<1>7. ASSUME NEW r \in Round, NEW t, NEW o, o # "measured", NEW loss,
             t.open = [s.open EXCEPT ![r] = NoRun],
             t.outcome = [s.outcome EXCEPT ![r] = o],
             t.evalLoss = s.evalLoss \/ t.evalLoss = [s.evalLoss EXCEPT ![r] = loss]
      PROVE  NothingNew(s, t)
  <2>1. /\ s.open \in [Round -> RunId \cup {NoRun}]
        /\ s.outcome \in [Round -> Outcome]
        /\ s.evalLoss \in [Round -> Loss \cup {NoLoss}]
    BY <1>1 DEF Status
  <2>2. OpensNothing(s, t)
    BY <1>7, <2>1 DEF OpensNothing, OpenRounds
  <2>3. \A q \in Measured(t) : q # r /\ q \in Measured(s)
    BY <1>7, <2>1 DEF Measured
  <2>4. \A q \in Measured(t) : t.evalLoss[q] = s.evalLoss[q]
    BY <1>7, <2>1, <2>3 DEF Measured
  <2> QED
    BY <2>2, <2>3, <2>4 DEF NothingNew
<1>8. ASSUME NEW r \in Round
      PROVE  NothingNew(s, Superseded(s, r)) /\ NothingNew(s, Drained(s, r, NoLoss))
  <2>1. /\ Superseded(s, r).open = [s.open EXCEPT ![r] = NoRun]
        /\ Superseded(s, r).outcome = [s.outcome EXCEPT ![r] = "superseded"]
        /\ Superseded(s, r).evalLoss = s.evalLoss
    BY <1>1 DEF Superseded, Status
  <2>2. /\ Drained(s, r, NoLoss).open = [s.open EXCEPT ![r] = NoRun]
        /\ Drained(s, r, NoLoss).outcome = [s.outcome EXCEPT ![r] = "failed"]
        /\ Drained(s, r, NoLoss).evalLoss = [s.evalLoss EXCEPT ![r] = NoLoss]
    BY <1>1 DEF Drained, Status
  <2> QED
    BY <1>7, <2>1, <2>2
<1>9. QED
  BY <1>3, <1>5, <1>6, <1>8

\* What a step may do to the record of one run that is there.
LEMMA ReportsAfter ==
    ASSUME EnvironmentOK, FinalLoss, NEW id \in RunId, dsp[id].state # "absent",
           NEW st, st # "absent", dsp[id].state # "running" => st # "running",
           \/ dsp' = [dsp EXCEPT ![id].state = st]
           \/ /\ dsp[id].state = "running" /\ st # "running"
              /\ \E loss : dsp' = [dsp EXCEPT ![id].state = st, ![id].loss = loss]
    PROVE  ReportsStay /\ FinalLoss'
<1> DEFINE Record == [state: RunState, round: 0..RoundLimit,
                      version: Version \cup {NoVersion},
                      config: Config \cup {NoConfig}, loss: Loss \cup {NoLoss}]
<1>1. dsp \in [RunId -> Record]
  BY DEF EnvironmentOK
<1>2. \A i \in RunId : i # id => dsp'[i] = dsp[i]
  BY <1>1
<1>3. /\ dsp'[id].state = st /\ dsp'[id].round = dsp[id].round
      /\ Ended(id, dsp) => dsp'[id].loss = dsp[id].loss
      /\ st = "running" => dsp'[id].loss = dsp[id].loss
  BY <1>1 DEF Ended
<1>4. ReportsStay
  BY <1>2, <1>3 DEF ReportsStay, Ended
<1>5. FinalLoss'
  BY <1>2, <1>3 DEF FinalLoss, Ended
<1>6. QED
  BY <1>4, <1>5

\* A new record takes the ID of none that is there.
LEMMA ReportsAfterRun ==
    ASSUME EnvironmentOK, FinalLoss, NEW id \in RunId, dsp[id].state = "absent",
           dsp' = [dsp EXCEPT ![id] = RunRecord]
    PROVE  /\ ReportsStay /\ FinalLoss'
           /\ dsp'[id].state # "absent" /\ dsp'[id].round = mem.round + 1
<1>1. \A i \in RunId : i # id => dsp'[i] = dsp[i]
  BY DEF EnvironmentOK
<1>2. dsp'[id] = RunRecord
  BY DEF EnvironmentOK
<1>3. /\ dsp'[id].state = "running" /\ dsp'[id].round = mem.round + 1
      /\ dsp'[id].loss = NoLoss
  BY <1>2 DEF RunRecord
<1>4. QED
  BY <1>1, <1>3 DEF ReportsStay, FinalLoss, Ended

\* Results stay traced as long as the wiki keeps them.
LEMMA ResultsStayTraced ==
    ASSUME EnvironmentOK, ResultsTraced, ReportsStay, wiki'.result = wiki.result
    PROVE  ResultsTraced'
<1> SUFFICES ASSUME NEW r \in Round, wiki.result[r].run # NoRun
             PROVE  LET id == wiki.result[r].run IN
                    /\ dsp'[id].round = r /\ Ended(id, dsp')
                    /\ wiki.result[r].loss \in {dsp'[id].loss, ZeroLoss}
  BY DEF ResultsTraced
<1>1. wiki.result[r].run \in RunId
  BY DEF EnvironmentOK
<1>2. QED
  BY <1>1 DEF ResultsTraced, ReportsStay, Ended

\* What the steps have in common that read no result and create no open run.
LEMMA TracedQuietly ==
    ASSUME LoopInv, TraceInv, ReportsStay, FinalLoss', wiki'.result = wiki.result,
           NothingNew(mem, mem') \/ NothingNew(cache, mem'),
           NothingNew(store, store') \/ NothingNew(mem, store'),
           \/ NothingNew(cache, cache') \/ NothingNew(store, cache')
           \/ NothingNew(mem, cache')
    PROVE  TraceInv'
<1>1. StatusOK(store) /\ StatusOK(cache) /\ StatusOK(mem) /\ EnvironmentOK
  BY DEF LoopInv, CopiesOK
<1>2. Traced(mem, dsp)' /\ Traced(store, dsp)' /\ Traced(cache, dsp)'
  BY <1>1, TracedStays DEF TraceInv
<1>3. ResultsTraced'
  BY <1>1, ResultsStayTraced DEF TraceInv
<1>4. QED
  BY <1>2, <1>3 DEF TraceInv

\* At the start nothing is open, measured or filed.
LEMMA TraceInit == Init => TraceInv
<1> SUFFICES ASSUME Init PROVE TraceInv
  OBVIOUS
<1>1. /\ OpenRounds(NewStatus) = {} /\ Measured(NewStatus) = {}
      /\ store = NewStatus /\ cache = NewStatus /\ mem = NewStatus
  BY DEF Init, OpenRounds, Measured, NewStatus
<1>2. FinalLoss /\ ResultsTraced
  BY DEF Init, FinalLoss, ResultsTraced, NoRunRecord, NoResult
<1>3. QED
  BY <1>1, <1>2 DEF TraceInv, Traced

\* A run that is drained after it succeeded: its loss is recorded as it was
\* reported, or none is, and the wiki gets the loss or the zero value.
LEMMA TracedDrain ==
    ASSUME LoopInv, TraceInv, NEW r \in todo, DrainTerminal(r)
    PROVE  TraceInv'
<1>1. /\ EnvironmentOK /\ StatusOK(mem) /\ StatusOK(store) /\ StatusOK(cache)
      /\ pc = "drain" /\ r \in OpenRounds(mem) /\ r \in Round
      /\ mem.open[r] \in RunId
      /\ UNCHANGED <<store, cache, dsp>>
  BY OpenRunIds DEF LoopInv, CopiesOK, PassOK, DrainTerminal
<1>2. ReportsStay /\ FinalLoss'
  BY <1>1 DEF ReportsStay, FinalLoss, Ended, TraceInv
<1>3. NothingNew(store, store') /\ NothingNew(cache, cache')
  BY <1>1, EditsAddNothing
<1>4. ASSUME mem' = Drained(mem, r, NoLoss), wiki' = wiki
      PROVE  TraceInv'
  BY <1>1, <1>2, <1>3, <1>4, EditsAddNothing, TracedQuietly
<1>5. ASSUME NEW loss \in Readable(mem.open[r]), dsp[mem.open[r]].state = "succeeded",
             mem' = Drained(mem, r, loss), ResultPushed(r, loss)
      PROVE  TraceInv'
  <2> DEFINE id == mem.open[r]
  <2>1. loss \in {dsp[id].loss, NoLoss} /\ id \in RunId /\ dsp[id].round = r /\ Ended(id, dsp)
    BY <1>1, <1>5 DEF Readable, TraceInv, Traced, Ended
  <2>2. Traced(store, dsp)' /\ Traced(cache, dsp)'
    BY <1>1 DEF TraceInv
  <2>3. Traced(mem, dsp)'
    <3>1. CASE loss = NoLoss
      BY <1>1, <1>2, <1>5, <3>1, EditsAddNothing, TracedStays DEF TraceInv
    <3>2. CASE loss # NoLoss
      <4>1. mem \in Status
        BY <1>1 DEF StatusOK
      <4>2. /\ mem'.open = [mem.open EXCEPT ![r] = NoRun]
            /\ mem'.outcome = [mem.outcome EXCEPT ![r] = "measured"]
            /\ mem'.evalLoss = [mem.evalLoss EXCEPT ![r] = loss]
        BY <1>5, <3>2, <4>1 DEF Drained, Status
      <4>3. /\ mem.open \in [Round -> RunId \cup {NoRun}]
            /\ mem.outcome \in [Round -> Outcome]
            /\ mem.evalLoss \in [Round -> Loss \cup {NoLoss}]
        BY <4>1 DEF Status
      <4>4. OpensNothing(mem, mem')
        BY <4>2, <4>3 DEF OpensNothing, OpenRounds
      <4>5. \A q \in OpenRounds(mem') :
               dsp'[mem'.open[q]].state # "absent" /\ dsp'[mem'.open[q]].round = q
        BY <1>1, <4>4 DEF OpensNothing, TraceInv, Traced
      <4>6. \A q \in Measured(mem') : q = r \/ q \in Measured(mem)
        BY <4>2, <4>3 DEF Measured
      <4>7. /\ mem'.evalLoss[r] = dsp[id].loss
            /\ \A q \in Round : q # r => mem'.evalLoss[q] = mem.evalLoss[q]
        BY <1>1, <2>1, <3>2, <4>2, <4>3
      <4>8. Reported(dsp', r, mem'.evalLoss[r])
        BY <1>1, <2>1, <4>7 DEF Reported
      <4>9. \A q \in Measured(mem') : Reported(dsp', q, mem'.evalLoss[q])
        BY <1>1, <4>6, <4>7, <4>8 DEF TraceInv, Traced, Measured
      <4>10. QED
        BY <4>5, <4>9 DEF Traced
    <3>3. QED
      BY <3>1, <3>2
  <2>4. ResultsTraced'
    <3>1. CASE wiki' = wiki
      BY <1>1, <1>2, <3>1, ResultsStayTraced DEF TraceInv
    <3>2. CASE wiki' = [wiki EXCEPT !.result[r] =
                           [loss |-> IF loss = NoLoss THEN ZeroLoss ELSE loss,
                            run |-> mem.open[r]]]
      <4> DEFINE res == [loss |-> IF loss = NoLoss THEN ZeroLoss ELSE loss,
                         run |-> mem.open[r]]
      <4>1. /\ res.run = id /\ res.loss \in {dsp[id].loss, ZeroLoss}
        BY <2>1
      <4>2. wiki' = [wiki EXCEPT !.result[r] = res]
        BY <3>2
      <4> HIDE DEF res
      <4>3. \A q \in Round : wiki'.result[q] = IF q = r THEN res ELSE wiki.result[q]
        BY <1>1, <4>2 DEF EnvironmentOK
      <4>4. QED
        BY <1>1, <2>1, <4>1, <4>3 DEF ResultsTraced, TraceInv
    <3>3. QED
      BY <1>5, <3>1, <3>2 DEF ResultPushed
  <2>5. QED
    BY <1>2, <2>2, <2>3, <2>4 DEF TraceInv
<1>6. QED
  BY <1>4, <1>5 DEF DrainTerminal

\* A run that is submitted is a record of the round it is submitted for.
LEMMA TracedRun ==
    ASSUME LoopInv, TraceInv, Submit
    PROVE  TraceInv'
<1>1. PICK id \in RunId :
         /\ dsp[id].state = "absent" /\ dsp' = [dsp EXCEPT ![id] = RunRecord]
         /\ mem' = Submitted(mem, mem.round + 1, id)
  BY DEF Submit
<1>2. /\ EnvironmentOK /\ StatusOK(mem) /\ StatusOK(store) /\ StatusOK(cache)
      /\ mem.round < RoundLimit /\ mem \in Status
      /\ UNCHANGED <<store, cache, wiki>>
  BY DEF LoopInv, CopiesOK, PassOK, Submit, StatusOK
<1>3. /\ ReportsStay /\ FinalLoss'
      /\ dsp'[id].state # "absent" /\ dsp'[id].round = mem.round + 1
  BY <1>1, <1>2, ReportsAfterRun DEF TraceInv
<1>4. NothingNew(store, store) /\ NothingNew(cache, cache) /\ NothingNew(mem, mem)
  BY <1>2, EditsAddNothing
<1>5. Traced(store, dsp') /\ Traced(cache, dsp') /\ Traced(mem, dsp')
  BY <1>2, <1>3, <1>4, TracedStays DEF TraceInv
<1>6. ResultsTraced'
  BY <1>2, <1>3, ResultsStayTraced DEF TraceInv
<1>7. Traced(mem', dsp')
  <2>1. mem.round + 1 \in Round
    BY <1>2, LoopAssumption DEF Status, Round
  <2>2. /\ mem'.open = [mem.open EXCEPT ![mem.round + 1] = id]
        /\ mem'.outcome = [mem.outcome EXCEPT ![mem.round + 1] = "open"]
        /\ mem'.evalLoss = mem.evalLoss
    BY <1>1, <1>2 DEF Submitted, Status
  <2>3. /\ mem.open \in [Round -> RunId \cup {NoRun}]
        /\ mem.outcome \in [Round -> Outcome]
    BY <1>2 DEF Status
  <2>4. \A r \in OpenRounds(mem') :
           \/ r = mem.round + 1 /\ mem'.open[r] = id
           \/ r \in OpenRounds(mem) /\ mem'.open[r] = mem.open[r]
    BY <2>1, <2>2, <2>3 DEF OpenRounds
  <2>5. Measured(mem') \subseteq Measured(mem)
    BY <2>1, <2>2, <2>3 DEF Measured
  <2>6. QED
    BY <1>3, <1>5, <2>2, <2>4, <2>5 DEF Traced
<1>8. QED
  BY <1>2, <1>3, <1>5, <1>6, <1>7 DEF TraceInv

\* Every step keeps the losses traced to the runs that reported them.
LEMMA TraceStep == LoopInv /\ TraceInv /\ [Next]_vars => TraceInv'
<1> SUFFICES ASSUME LoopInv, TraceInv, [Next]_vars PROVE TraceInv'
  OBVIOUS
<1> USE DEF envVars, passVars
<1>1. /\ EnvironmentOK /\ PassOK /\ StatusOK(store) /\ StatusOK(cache) /\ StatusOK(mem)
      /\ FinalLoss
  BY DEF LoopInv, CopiesOK, TraceInv
<1>2. /\ NothingNew(store, store) /\ NothingNew(cache, cache) /\ NothingNew(mem, mem)
      /\ NothingNew(mem, NewStatus)
      /\ \A p : NothingNew(mem, [mem EXCEPT !.phase = p])
      /\ NothingNew(store, [store EXCEPT !.fails = 0])
      /\ \A r \in Round : /\ NothingNew(mem, Superseded(mem, r))
                          /\ NothingNew(mem, Drained(mem, r, NoLoss))
  BY <1>1, EditsAddNothing
<1>3. dsp' = dsp => ReportsStay /\ FinalLoss'
  BY <1>1 DEF ReportsStay, FinalLoss, Ended
<1>4. ASSUME UNCHANGED <<store, cache>>, ReportsStay, FinalLoss',
             wiki'.result = wiki.result, NothingNew(mem, mem')
      PROVE  TraceInv'
  BY <1>2, <1>4, TracedQuietly
<1>5. ASSUME UNCHANGED <<mem, dsp, wiki>>, NEW s, Written(s), NothingNew(store, s)
      PROVE  TraceInv'
  BY <1>2, <1>3, <1>5, TracedQuietly DEF Written
<1>6. CASE \/ UNCHANGED vars \/ DrainUnreachable \/ DrainEnd \/ CullEnd \/ GatePass
           \/ RegisterVersion \/ RegisterFails \/ Deploy
           \/ \E r \in todo : DrainKeep(r) \/ CullKeep(r)
           \/ \E r \in Round : BudgetElapses(r)
  <2>1. UNCHANGED <<store, cache, mem, dsp, wiki>>
    BY <1>6 DEF DrainUnreachable, DrainEnd, CullEnd, GatePass, RegisterVersion,
       RegisterFails, Deploy, DrainKeep, CullKeep, BudgetElapses, vars
  <2>2. QED
    BY <1>2, <1>3, <1>4, <2>1
<1>7. CASE Begin
  <2>1. mem' = cache /\ UNCHANGED <<store, cache, dsp, wiki>>
    BY <1>7 DEF Begin
  <2>2. QED
    BY <1>2, <1>3, <2>1, TracedQuietly
<1>8. CASE GateCadence \/ GateCapacity \/ SaveRefused \/ Crash
  <2>1. mem' = NewStatus /\ UNCHANGED <<store, cache, dsp, wiki>>
    BY <1>8 DEF GateCadence, GateCapacity, SaveRefused, Crash, Return
  <2>2. QED
    BY <1>2, <1>3, <1>4, <2>1
<1>9. CASE GateCompleted \/ GateBreaker \/ RefsMissing
  <2>1. (\E p : mem' = [mem EXCEPT !.phase = p]) /\ UNCHANGED <<store, cache, dsp, wiki>>
    BY <1>9 DEF GateCompleted, GateBreaker, RefsMissing, Mark
  <2>2. QED
    BY <1>2, <1>3, <1>4, <2>1
<1>10. CASE Propose \/ ProposeFails
  <2>1. (mem' = mem \/ \E p : mem' = [mem EXCEPT !.phase = p]) /\ UNCHANGED <<store, cache, dsp>>
    BY <1>10 DEF Propose, ProposeFails, Mark
  <2>2. wiki'.result = wiki.result
    BY <1>1, <1>10 DEF Propose, ProposeFails, ProposalPushed, EnvironmentOK
  <2>3. QED
    BY <1>2, <1>3, <1>4, <2>1, <2>2
<1>11. ASSUME NEW r \in todo, DrainOverdue(r) \/ Cull(r) PROVE TraceInv'
  <2>1. /\ r \in OpenRounds(mem) /\ r \in Round /\ mem.open[r] \in RunId
        /\ UNCHANGED <<store, cache, wiki>>
    BY <1>1, <1>11, OpenRunIds DEF DrainOverdue, Cull, PassOK
  <2>2. NothingNew(mem, mem')
    BY <1>2, <1>11, <2>1 DEF DrainOverdue, Cull
  <2>3. dsp[mem.open[r]].state # "absent"
    BY <2>1 DEF TraceInv, Traced
  <2>4. \/ dsp' = dsp
        \/ \E st : /\ st # "absent" /\ (st = "running" => dsp[mem.open[r]].state = "running")
                   /\ dsp' = [dsp EXCEPT ![mem.open[r]].state = st]
    BY <1>11, <2>3 DEF DrainOverdue, TrainerKilled, Cull
  <2>5. ReportsStay /\ FinalLoss'
    BY <1>1, <1>3, <2>1, <2>3, <2>4, ReportsAfter
  <2>6. QED
    BY <1>4, <2>1, <2>2, <2>5
<1>12. ASSUME NEW id \in RunId, RunEnds(id) \/ RunPruned(id) PROVE TraceInv'
  <2>1. UNCHANGED <<store, cache, mem, wiki>>
    BY <1>12 DEF RunEnds, RunPruned
  <2>2. \/ /\ dsp[id].state = "running"
           /\ \/ dsp' = [dsp EXCEPT ![id].state = "failed"]
              \/ \E loss : dsp' = [dsp EXCEPT ![id].state = "succeeded", ![id].loss = loss]
        \/ dsp[id].state \in Terminal /\ dsp' = [dsp EXCEPT ![id].state = "deleted"]
    BY <1>12 DEF RunEnds, RunPruned
  <2>3. CASE dsp' = [dsp EXCEPT ![id].state = "failed"] /\ dsp[id].state = "running"
    <3>1. ReportsStay /\ FinalLoss'
      BY <1>1, <2>3, ReportsAfter
    <3>2. QED
      BY <1>2, <1>4, <2>1, <3>1
  <2>4. CASE dsp' = [dsp EXCEPT ![id].state = "deleted"] /\ dsp[id].state \in Terminal
    <3>1. dsp[id].state \notin {"absent", "running"}
      BY <2>4 DEF Terminal
    <3>2. \E st : /\ st # "absent" /\ st # "running"
                  /\ dsp' = [dsp EXCEPT ![id].state = st]
      BY <2>4
    <3>3. ReportsStay /\ FinalLoss'
      BY <1>1, <3>1, <3>2, ReportsAfter
    <3>4. QED
      BY <1>2, <1>4, <2>1, <3>3
  <2>5. ASSUME NEW loss, dsp[id].state = "running",
               dsp' = [dsp EXCEPT ![id].state = "succeeded", ![id].loss = loss]
        PROVE  TraceInv'
    <3>1. ReportsStay /\ FinalLoss'
      BY <1>1, <2>5, ReportsAfter
    <3>2. QED
      BY <1>2, <1>4, <2>1, <3>1
  <2>6. QED
    BY <2>2, <2>3, <2>4, <2>5
<1>13. ASSUME NEW r \in todo, DrainTerminal(r) PROVE TraceInv'
  BY <1>13, TracedDrain
<1>14. CASE Submit
  BY <1>14, TracedRun
<1>15. CASE SubmitFails
  <2>1. mem' = [mem EXCEPT !.phase = "Running"] /\ UNCHANGED <<store, cache, wiki>>
    BY <1>15 DEF SubmitFails
  <2>2. \/ dsp' = dsp
        \/ \E id \in RunId : /\ dsp[id].state = "absent"
                             /\ dsp' = [dsp EXCEPT ![id] = RunRecord]
    BY <1>15 DEF SubmitFails
  <2>3. ReportsStay /\ FinalLoss'
    BY <1>1, <1>3, <2>2, ReportsAfterRun
  <2>4. QED
    BY <1>2, <1>4, <2>1, <2>3
<1>16. CASE Save
  <2>1. /\ mem' = NewStatus /\ store' = mem /\ UNCHANGED <<dsp, wiki>>
        /\ cache' = cache \/ cache' = mem
    BY <1>16 DEF Save, Return, Written
  <2>2. QED
    BY <1>2, <1>3, <2>1, TracedQuietly
<1>17. CASE CacheSync
  <2>1. cache' = store /\ UNCHANGED <<store, mem, dsp, wiki>>
    BY <1>17 DEF CacheSync
  <2>2. QED
    BY <1>2, <1>3, <2>1, TracedQuietly
<1>18. CASE HumanReset
  BY <1>2, <1>5, <1>18 DEF HumanReset
<1>19. CASE ConcurrentWrite
  BY <1>2, <1>5, <1>19 DEF ConcurrentWrite
<1>20. QED
  BY <1>6, <1>7, <1>8, <1>9, <1>10, <1>11, <1>12, <1>13, <1>14, <1>15, <1>16,
     <1>17, <1>18, <1>19
  DEF Next, Reconcile, Environment, Gate, Drain

LEMMA TraceInvariant == Spec => []TraceInv
<1>1. LoopInv /\ TraceInv /\ [Next]_vars => TraceInv'
  BY TraceStep
<1>2. QED
  BY LoopInvariant, TraceInit, <1>1, PTL DEF Spec

\* Whatever goes wrong, a loss in the status was reported by a trainer of the
\* round it is recorded for, and so was the champion's: no stale copy, lost
\* submission, pruned record or killed trainer makes one up or misfiles one.
THEOREM LossesAreReported == Spec => []LossesReported
<1>1. ASSUME NEW s, StatusOK(s), Traced(s, dsp), s.best # NoLoss
      PROVE  Reported(dsp, s.bestRound, s.best)
  BY <1>1 DEF StatusOK, IsBest, Traced
<1>2. LoopInv /\ TraceInv => LossesReported
  BY <1>1 DEF LoopInv, CopiesOK, TraceInv, Traced, LossesReported, Copies
<1>3. QED
  BY LoopInvariant, TraceInvariant, <1>2, PTL

\* The same of the wiki, but for the zero value of a result that was not read.
THEOREM ResultsAreTraced == Spec => []ResultsTraced
<1>1. TraceInv => ResultsTraced
  BY DEF TraceInv
<1>2. QED
  BY TraceInvariant, <1>1, PTL

\* A run that succeeded has a loss, and what was read of it is in the wiki.
ReadInv ==
    /\ \A id \in RunId : dsp[id].state = "succeeded" => dsp[id].loss # NoLoss
    /\ ResultsMeasured

LEMMA ReadStep ==
    ASSUME Faults \cap {"silent", "transient"} = {}
    PROVE  LoopInv /\ TraceInv /\ ReadInv /\ [Next]_vars => ReadInv'
<1> SUFFICES ASSUME LoopInv, TraceInv, ReadInv, [Next]_vars PROVE ReadInv'
  OBVIOUS
<1> USE DEF envVars, passVars
<1>1. /\ EnvironmentOK /\ PassOK /\ StatusOK(mem) /\ FinalLoss /\ ResultsTraced
      /\ \A r \in Round : wiki.result[r].run \in RunId \cup {NoRun}
  BY DEF LoopInv, CopiesOK, TraceInv, EnvironmentOK
<1>2. ASSUME ReportsStay, wiki'.result = wiki.result,
             \A id \in RunId : dsp'[id].state = "succeeded" => dsp'[id].loss # NoLoss
      PROVE  ReadInv'
  BY <1>1, <1>2 DEF ReadInv, ResultsMeasured, ResultsTraced, ReportsStay
<1>3. ASSUME dsp' = dsp, wiki'.result = wiki.result
      PROVE  ReadInv'
  BY <1>3 DEF ReadInv, ResultsMeasured
<1>4. ASSUME NEW id \in RunId, dsp[id].state # "absent", UNCHANGED wiki,
             \/ \E st \in {"failed", "deleted"} : dsp' = [dsp EXCEPT ![id].state = st]
             \/ /\ dsp[id].state = "running"
                /\ \E loss \in Loss : dsp' = [dsp EXCEPT ![id].state = "succeeded",
                                                         ![id].loss = loss]
      PROVE  ReadInv'
  <2>1. ReportsStay
    BY <1>1, <1>4, ReportsAfter
  <2>2. \A i \in RunId : i # id => dsp'[i] = dsp[i]
    BY <1>1, <1>4 DEF EnvironmentOK
  <2>3. dsp'[id].state = "succeeded" => dsp'[id].loss # NoLoss
    BY <1>1, <1>4, LoopAssumption DEF EnvironmentOK, NoLoss
  <2>4. QED
    BY <1>2, <1>4, <2>1, <2>2, <2>3 DEF ReadInv
<1>5. ASSUME NEW r \in todo, DrainTerminal(r) PROVE ReadInv'
  <2> DEFINE id == mem.open[r]
  <2>1. /\ r \in OpenRounds(mem) /\ r \in Round /\ id \in RunId /\ dsp' = dsp
    BY <1>1, <1>5, OpenRunIds DEF DrainTerminal, PassOK
  <2>2. CASE dsp[id].state = "succeeded"
    <3>1. dsp[id].loss # NoLoss /\ Readable(id) = {dsp[id].loss}
      BY <2>1, <2>2 DEF ReadInv, Readable
    <3>2. ResultPushed(r, dsp[id].loss)
      BY <1>5, <2>2, <3>1 DEF DrainTerminal
    <3> DEFINE res == [loss |-> dsp[id].loss, run |-> id]
    <3>3. wiki' = [wiki EXCEPT !.result[r] = res]
      BY <3>1, <3>2 DEF ResultPushed
    <3>4. res.loss = dsp[id].loss /\ res.run = id
      OBVIOUS
    <3> HIDE DEF res
    <3>5. \A q \in Round : wiki'.result[q] = IF q = r THEN res ELSE wiki.result[q]
      BY <1>1, <2>1, <3>3 DEF EnvironmentOK
    <3>6. QED
      BY <2>1, <3>4, <3>5 DEF ReadInv, ResultsMeasured
  <2>3. CASE dsp[id].state # "succeeded"
    <3>1. wiki' = wiki
      BY <1>5, <2>3 DEF DrainTerminal
    <3>2. QED
      BY <1>3, <2>1, <3>1
  <2>4. QED
    BY <2>2, <2>3
<1>6. ASSUME NEW r \in todo, DrainOverdue(r) \/ Cull(r) PROVE ReadInv'
  <2>1. r \in OpenRounds(mem) /\ mem.open[r] \in RunId /\ UNCHANGED wiki
    BY <1>1, <1>6, OpenRunIds DEF DrainOverdue, Cull, PassOK
  <2>2. dsp[mem.open[r]].state # "absent"
    BY <2>1 DEF TraceInv, Traced
  <2>3. \E st \in {"failed", "deleted"} : dsp' = [dsp EXCEPT ![mem.open[r]].state = st]
    BY <1>6 DEF DrainOverdue, TrainerKilled, Cull
  <2>4. QED
    BY <1>4, <2>1, <2>2, <2>3
<1>7. ASSUME NEW id \in RunId, RunEnds(id) \/ RunPruned(id) PROVE ReadInv'
  <2>1. UNCHANGED wiki /\ dsp[id].state # "absent"
    BY <1>7 DEF RunEnds, RunPruned, Terminal
  <2>2. QED
    BY <1>4, <1>7, <2>1 DEF RunEnds, RunPruned
<1>8. CASE Submit
  <2>1. PICK id \in RunId : dsp[id].state = "absent" /\ dsp' = [dsp EXCEPT ![id] = RunRecord]
    BY <1>8 DEF Submit
  <2>2. ReportsStay
    BY <1>1, <2>1, ReportsAfterRun
  <2>3. \A i \in RunId : i # id => dsp'[i] = dsp[i]
    BY <1>1, <2>1 DEF EnvironmentOK
  <2>4. dsp'[id].state = "running"
    BY <1>1, <2>1 DEF EnvironmentOK, RunRecord
  <2>5. QED
    BY <1>2, <1>8, <2>2, <2>3, <2>4 DEF Submit, ReadInv
<1>9. CASE Propose \/ ProposeFails
  <2>1. wiki'.result = wiki.result /\ dsp' = dsp
    BY <1>1, <1>9 DEF Propose, ProposeFails, ProposalPushed, EnvironmentOK, Mark
  <2>2. QED
    BY <1>3, <2>1
<1>10. ASSUME UNCHANGED <<dsp, wiki>> PROVE ReadInv'
  BY <1>3, <1>10
<1>11. QED
  BY <1>5, <1>6, <1>7, <1>8, <1>9, <1>10
  DEF Next, Reconcile, Environment, Gate, Drain, vars, Begin, DrainUnreachable,
      DrainKeep, DrainEnd, RegisterVersion, RegisterFails, CullKeep, CullEnd,
      GateCompleted, GateCadence, GateCapacity, GateBreaker, GatePass, RefsMissing,
      SubmitFails, Save, SaveRefused, Mark, Crash, CacheSync, HumanReset,
      ConcurrentWrite, BudgetElapses, Deploy

\* The wiki holds no loss that no trainer reported while trainers print their
\* result line and their logs can be read, whichever runs are pruned or culled
\* and however often the operator stops: without a line it holds the zero value.
THEOREM ResultsAreMeasured ==
    ASSUME Faults \cap {"silent", "transient"} = {}
    PROVE  Spec => []ResultsMeasured
<1>1. LoopInv /\ TraceInv /\ ReadInv /\ [Next]_vars => ReadInv'
  BY ReadStep
<1>2. Init => ReadInv
  BY DEF Init, ReadInv, ResultsMeasured, NoRunRecord, NoResult
<1>3. ReadInv => ResultsMeasured
  BY DEF ReadInv
<1>4. QED
  BY LoopInvariant, TraceInvariant, <1>1, <1>2, <1>3, PTL DEF Spec

-----------------------------------------------------------------------------
(* 7. The stored status goes forward only                                  *)

\* What no later status may lose of an earlier one: rounds and counters, what
\* settled rounds came to, and a champion no worse.
Advances(s, t) ==
    /\ s.round <= t.round /\ s.run <= t.run /\ s.kept <= t.kept
    /\ \A r \in Round : s.outcome[r] \in Settled =>
          t.outcome[r] = s.outcome[r] /\ t.evalLoss[r] = s.evalLoss[r]
    /\ s.best # NoLoss =>
          /\ t.best # NoLoss
          /\ IF Minimize THEN t.best <= s.best ELSE t.best >= s.best

\* What the lock keeps besides Follows.
LossLock ==
    pc # "idle" /\ ~memBehind =>
        /\ store.kept <= mem.kept
        /\ \A r \in Round : store.outcome[r] \in Settled =>
              mem.evalLoss[r] = store.evalLoss[r]

LEMMA LossLockStep == LoopInv /\ LossLock /\ [Next]_vars => LossLock'
<1> SUFFICES ASSUME LoopInv, LossLock, [Next]_vars PROVE LossLock'
  OBVIOUS
<1> USE DEF envVars, passVars
<1>1. /\ EnvironmentOK /\ PassOK /\ StatusOK(store) /\ StatusOK(mem) /\ LockOK
      /\ store \in Status /\ mem \in Status /\ store.kept \in Nat /\ mem.kept \in Nat
  BY DEF LoopInv, CopiesOK, StatusOK, Status
<1>2. ASSUME UNCHANGED <<store, memBehind>>, pc # "idle", mem'.kept >= mem.kept,
             mem'.kept \in Nat, mem'.evalLoss = mem.evalLoss
      PROVE  LossLock'
  BY <1>1, <1>2 DEF LossLock
<1>3. ASSUME NEW r \in todo, DrainTerminal(r) \/ DrainOverdue(r) PROVE LossLock'
  <2>1. /\ r \in OpenRounds(mem) /\ r \in Round /\ mem.outcome[r] = "open"
        /\ pc = "drain" /\ UNCHANGED <<store, memBehind>>
    BY <1>1, <1>3 DEF DrainTerminal, DrainOverdue, PassOK, OpenRounds, StatusOK, Accounted
  <2>2. PICK loss : mem' = Drained(mem, r, loss)
    BY <1>3 DEF DrainTerminal, DrainOverdue
  <2>3. /\ mem'.evalLoss = [mem.evalLoss EXCEPT ![r] = loss]
        /\ mem'.kept \in {mem.kept, mem.kept + 1}
    BY <1>1, <2>2 DEF Drained, Status
  <2>4. mem.evalLoss \in [Round -> Loss \cup {NoLoss}]
    BY <1>1 DEF Status
  <2>5. ~memBehind => store.outcome[r] \notin Settled
    BY <1>1, <2>1 DEF LockOK, Follows, Settled
  <2>6. QED
    BY <1>1, <2>1, <2>3, <2>4, <2>5 DEF LossLock
<1>4. ASSUME NEW r \in todo, Cull(r) PROVE LossLock'
  <2>1. mem'.evalLoss = mem.evalLoss /\ mem'.kept = mem.kept
    BY <1>1, <1>4 DEF Cull, Superseded, Status
  <2>2. QED
    BY <1>1, <1>2, <1>4, <2>1 DEF Cull
<1>5. CASE GateCompleted \/ GateBreaker \/ RefsMissing \/ ProposeFails \/ SubmitFails
  <2>1. \E p : mem' = [mem EXCEPT !.phase = p]
    BY <1>5 DEF GateCompleted, GateBreaker, RefsMissing, ProposeFails, SubmitFails, Mark
  <2>2. mem'.evalLoss = mem.evalLoss /\ mem'.kept = mem.kept
    BY <1>1, <2>1 DEF Status
  <2>3. pc # "idle" /\ UNCHANGED <<store, memBehind>>
    BY <1>5 DEF GateCompleted, GateBreaker, RefsMissing, ProposeFails, SubmitFails, Mark
  <2>4. QED
    BY <1>1, <1>2, <2>2, <2>3
<1>6. CASE Submit
  <2>1. \E id : mem' = Submitted(mem, mem.round + 1, id)
    BY <1>6 DEF Submit
  <2>2. mem'.evalLoss = mem.evalLoss /\ mem'.kept = mem.kept
    BY <1>1, <2>1 DEF Submitted, Status
  <2>3. QED
    BY <1>1, <1>2, <1>6, <2>2 DEF Submit
<1>7. CASE Begin
  <2>1. mem' = cache /\ store' = store /\ memBehind' = cacheBehind
    BY <1>7 DEF Begin
  <2>2. QED
    BY <1>1, <2>1 DEF LockOK, LossLock
<1>8. CASE Save \/ SaveRefused \/ GateCadence \/ GateCapacity \/ Crash
  BY <1>8 DEF Save, SaveRefused, GateCadence, GateCapacity, Crash, Return, LossLock
<1>9. CASE HumanReset \/ ConcurrentWrite
  BY <1>9 DEF HumanReset, ConcurrentWrite, LossLock
<1>10. ASSUME UNCHANGED <<store, mem, memBehind, pc>> PROVE LossLock'
  BY <1>10 DEF LossLock
<1>11. ASSUME UNCHANGED <<store, mem, memBehind>>, pc # "idle" PROVE LossLock'
  BY <1>11 DEF LossLock
<1>12. QED
  BY <1>3, <1>4, <1>5, <1>6, <1>7, <1>8, <1>9, <1>10, <1>11
  DEF Next, Reconcile, Environment, Gate, Drain, vars, DrainUnreachable, DrainKeep,
      DrainEnd, RegisterVersion, RegisterFails, CullKeep, CullEnd, GatePass, Propose,
      CacheSync, RunEnds, RunPruned, BudgetElapses, Deploy

\* What a save writes goes on from what it replaces.
LEMMA SaveAdvances ==
    ASSUME StatusOK(store), StatusOK(mem), Follows, store.kept <= mem.kept,
           \A r \in Round : store.outcome[r] \in Settled =>
              mem.evalLoss[r] = store.evalLoss[r]
    PROVE  Advances(store, mem)
<1>1. /\ store \in Status /\ mem \in Status
      /\ store.round \in Nat /\ mem.round \in Nat /\ Round \subseteq Nat
      /\ store.round <= RoundLimit
  BY LoopAssumption DEF StatusOK, Status, Round
<1>2. \A r \in Round :
         /\ store.outcome[r] # "none" <=> r \in 1..store.round
         /\ mem.outcome[r] # "none" <=> r \in 1..mem.round
  BY DEF StatusOK, Accounted
<1>3. ASSUME NEW r \in Round, store.outcome[r] \in Settled
      PROVE  mem.outcome[r] = store.outcome[r] /\ mem.evalLoss[r] = store.evalLoss[r]
  <2>1. r \in 1..store.round
    BY <1>2, <1>3 DEF Settled
  <2>2. r # store.round + 1
    BY <1>1, <2>1
  <2>3. QED
    BY <1>3, <2>2 DEF Follows, Settled
<1>4. store.round <= mem.round
  <2>1. CASE store.round = 0
    BY <1>1, <2>1
  <2>2. CASE store.round # 0
    <3>1. store.round \in Round /\ store.round \in 1..store.round
      BY <1>1, <2>2, LoopAssumption DEF Round
    <3>2. store.outcome[store.round] # "none"
      BY <1>2, <3>1
    <3>3. mem.outcome[store.round] # "none"
      BY <3>1, <3>2 DEF Follows, Settled
    <3>4. store.round \in 1..mem.round
      BY <1>2, <3>1, <3>3
    <3>5. QED
      BY <1>1, <3>4
  <2>3. QED
    BY <2>1, <2>2
<1>5. store.run <= mem.run
  <2>1. Counted(store) \subseteq Counted(mem)
    BY <1>3 DEF Counted, Settled
  <2>2. Counted(mem) \subseteq Round
    BY DEF Counted
  <2>3. Cardinality(Counted(store)) <= Cardinality(Counted(mem))
    BY <2>1, <2>2, RoundsFinite, FS_Subset
  <2>4. QED
    BY <2>3 DEF StatusOK, Accounted
<1>6. ASSUME store.best # NoLoss
      PROVE  /\ mem.best # NoLoss
             /\ IF Minimize THEN mem.best <= store.best ELSE mem.best >= store.best
  <2>1. Measured(store) # {}
    BY <1>6 DEF StatusOK, IsBest
  <2>2. store.bestRound \in Measured(store) /\ store.best = store.evalLoss[store.bestRound]
    BY <2>1 DEF StatusOK, IsBest
  <2>3. /\ store.bestRound \in Measured(mem)
        /\ mem.evalLoss[store.bestRound] = store.best
    BY <1>3, <2>2 DEF Measured, Settled
  <2>4. /\ mem.bestRound \in Measured(mem) /\ mem.best = mem.evalLoss[mem.bestRound]
        /\ \A r \in Measured(mem) : IF Minimize THEN mem.best <= mem.evalLoss[r]
                                                ELSE mem.best >= mem.evalLoss[r]
    BY <2>3 DEF StatusOK, IsBest
  <2>5. mem.best \in Loss /\ NoLoss \notin Loss
    BY <2>4, LoopAssumption DEF StatusOK, NoLoss
  <2>6. QED
    BY <2>3, <2>4, <2>5
<1>7. QED
  BY <1>3, <1>4, <1>5, <1>6 DEF Advances

\* A status goes on from itself, whatever its phase or breaker says.
LEMMA AdvancesFromSelf ==
    ASSUME NEW s, StatusOK(s), NEW t, t.round = s.round, t.run = s.run,
           t.kept = s.kept, t.outcome = s.outcome, t.evalLoss = s.evalLoss,
           t.best = s.best
    PROVE  Advances(s, t)
<1>1. s \in Status
  BY DEF StatusOK
<1>2. /\ s.round \in 0..RoundLimit /\ s.run \in Nat /\ s.kept \in Nat
      /\ s.best \in Loss \cup {NoLoss}
  BY <1>1 DEF Status
<1>3. s.round \in Int
  BY <1>2
<1>4. s.best \in Int
  <2>1. Loss \subseteq Int /\ NoLoss \in Int
    BY LoopAssumption DEF NoLoss
  <2>2. QED
    BY <1>2, <2>1
<1>5. QED
  BY <1>2, <1>3, <1>4 DEF Advances

LEMMA AdvanceStep ==
    LoopInv /\ LossLock /\ [Next]_vars => [Advances(store, store')]_store
<1> SUFFICES ASSUME LoopInv, LossLock, [Next]_vars, store' # store
             PROVE  Advances(store, store')
  OBVIOUS
<1>1. StatusOK(store) /\ StatusOK(mem) /\ LockOK /\ store \in Status
  BY DEF LoopInv, CopiesOK, StatusOK
<1>2. CASE Save
  <2>1. store' = mem /\ pc = "save" /\ ~memBehind
    BY <1>2 DEF Save, Written
  <2>2. QED
    BY <1>1, <2>1, SaveAdvances DEF LockOK, LossLock
<1>3. CASE HumanReset
  <2>1. store' = [store EXCEPT !.fails = 0]
    BY <1>3 DEF HumanReset, Written
  <2>2. /\ store'.round = store.round /\ store'.run = store.run
        /\ store'.kept = store.kept /\ store'.outcome = store.outcome
        /\ store'.evalLoss = store.evalLoss /\ store'.best = store.best
    BY <1>1, <2>1 DEF Status
  <2>3. QED
    BY <1>1, <2>2, AdvancesFromSelf
<1>4. CASE ConcurrentWrite
  BY <1>4 DEF ConcurrentWrite, Written
<1>5. Save \/ HumanReset \/ ConcurrentWrite
  BY DEF vars, envVars, passVars, Next, Reconcile, Environment, Gate, Drain, Begin,
     DrainUnreachable, DrainKeep, DrainTerminal, DrainOverdue, DrainEnd,
     RegisterVersion, RegisterFails, CullKeep, Cull, CullEnd, GateCompleted,
     GateCadence, GateCapacity, GateBreaker, GatePass, RefsMissing, Propose,
     ProposeFails, Submit, SubmitFails, SaveRefused, Mark, Crash, CacheSync, RunEnds,
     RunPruned, BudgetElapses, Deploy
<1>6. QED
  BY <1>2, <1>3, <1>4, <1>5

\* No write of the status ever takes anything back, under any faults: the round
\* clock and the budget never run backwards, what a settled round came to is
\* never written again, and the champion is only ever replaced by a better one.
THEOREM StatusOnlyAdvances == Spec => [][Advances(store, store')]_store
<1>1. Init => LossLock
  BY DEF Init, LossLock
<1>2. LoopInv /\ LossLock /\ [Next]_vars => LossLock'
  BY LossLockStep
<1>3. LoopInv /\ LossLock /\ [Next]_vars => [Advances(store, store')]_store
  BY AdvanceStep
<1>4. QED
  BY LoopInvariant, <1>1, <1>2, <1>3, PTL DEF Spec

-----------------------------------------------------------------------------
(* 8. Every loss of the status is in the wiki                              *)

\* A loss the status records was pushed to the wiki before, under the round it
\* belongs to, and is still there.
ResultsInWiki ==
    \A s \in {store, mem} : \A r \in Measured(s) :
        wiki.result[r].run # NoRun /\ wiki.result[r].loss = s.evalLoss[r]

\* While every reconcile starts from the stored status, nobody else changes
\* what it is working on, but for the breaker.
KeptInv == CacheFollows /\ (pc # "idle" => Follows) /\ ResultsInWiki

\* A status that measured nothing new keeps its results in the wiki.
LEMMA ResultsStayInWiki ==
    ASSUME NEW s, NEW t, NothingNew(s, t), wiki'.result = wiki.result,
           \A r \in Measured(s) :
              wiki.result[r].run # NoRun /\ wiki.result[r].loss = s.evalLoss[r]
    PROVE  \A r \in Measured(t) :
              wiki'.result[r].run # NoRun /\ wiki'.result[r].loss = t.evalLoss[r]
BY DEF NothingNew

LEMMA KeptDrain ==
    ASSUME "transient" \notin Faults, LoopInv, KeptInv, NEW r \in todo, DrainTerminal(r)
    PROVE  ResultsInWiki'
<1>1. /\ EnvironmentOK /\ StatusOK(mem) /\ StatusOK(store) /\ pc = "drain"
      /\ r \in OpenRounds(mem) /\ r \in Round /\ mem.open[r] \in RunId
      /\ mem.outcome[r] = "open" /\ store' = store /\ NoRun \notin RunId
  BY OpenRunIds, LoopAssumption
  DEF LoopInv, CopiesOK, PassOK, DrainTerminal, StatusOK, Accounted, OpenRounds
<1>2. store.outcome[r] # "measured"
  BY <1>1 DEF KeptInv, Follows, Settled
<1>3. NothingNew(store, store) /\ NothingNew(mem, Drained(mem, r, NoLoss))
  BY <1>1, EditsAddNothing
<1>4. ASSUME mem' = Drained(mem, r, NoLoss), wiki' = wiki
      PROVE  ResultsInWiki'
  <2>1. /\ \A q \in Measured(store') :
              wiki'.result[q].run # NoRun /\ wiki'.result[q].loss = store'.evalLoss[q]
        /\ \A q \in Measured(mem') :
              wiki'.result[q].run # NoRun /\ wiki'.result[q].loss = mem'.evalLoss[q]
    BY <1>1, <1>3, <1>4, ResultsStayInWiki DEF KeptInv, ResultsInWiki
  <2>2. QED
    BY <2>1 DEF ResultsInWiki
<1>5. ASSUME NEW loss \in Readable(mem.open[r]),
             mem' = Drained(mem, r, loss), ResultPushed(r, loss)
      PROVE  ResultsInWiki'
  <2> DEFINE res == [loss |-> IF loss = NoLoss THEN ZeroLoss ELSE loss,
                     run |-> mem.open[r]]
  <2>1. res.run # NoRun /\ (loss # NoLoss => res.loss = loss)
    BY <1>1
  <2>2. wiki' = [wiki EXCEPT !.result[r] = res]
    BY <1>5 DEF ResultPushed
  <2> HIDE DEF res
  <2>3. \A q \in Round : wiki'.result[q] = IF q = r THEN res ELSE wiki.result[q]
    BY <1>1, <2>2 DEF EnvironmentOK
  <2>4. mem \in Status
    BY <1>1 DEF StatusOK
  <2>5. /\ mem'.outcome = [mem.outcome EXCEPT
                            ![r] = IF loss # NoLoss THEN "measured" ELSE "failed"]
        /\ mem'.evalLoss = [mem.evalLoss EXCEPT ![r] = loss]
    BY <1>5, <2>4 DEF Drained, Status
  <2>6. /\ mem.outcome \in [Round -> Outcome]
        /\ mem.evalLoss \in [Round -> Loss \cup {NoLoss}]
    BY <2>4 DEF Status
  <2>7. \A q \in Measured(mem') :
           \/ q = r /\ loss # NoLoss /\ mem'.evalLoss[q] = loss
           \/ q # r /\ q \in Measured(mem) /\ mem'.evalLoss[q] = mem.evalLoss[q]
    BY <1>1, <2>5, <2>6 DEF Measured
  <2>8. \A q \in Measured(mem') :
           wiki'.result[q].run # NoRun /\ wiki'.result[q].loss = mem'.evalLoss[q]
    BY <2>1, <2>3, <2>7 DEF KeptInv, ResultsInWiki, Measured
  <2>9. \A q \in Measured(store') :
           wiki'.result[q].run # NoRun /\ wiki'.result[q].loss = store'.evalLoss[q]
    BY <1>1, <1>2, <2>3 DEF KeptInv, ResultsInWiki, Measured
  <2>10. QED
    BY <2>8, <2>9 DEF ResultsInWiki
<1>6. QED
  BY <1>4, <1>5 DEF DrainTerminal

\* A reconcile follows the stored status also when the object was written since:
\* what others write of the status is the breaker alone.
LEMMA KeptFollows ==
    ASSUME "stale" \notin Faults, LoopInv, KeptInv, [Next]_vars
    PROVE  CacheFollows' /\ (pc' # "idle" => Follows')
<1> USE DEF envVars, passVars
<1>1. /\ EnvironmentOK /\ PassOK /\ StatusOK(store) /\ StatusOK(mem)
      /\ store \in Status /\ mem \in Status
      /\ cache = store /\ ~cacheBehind /\ (pc # "idle" => Follows)
  BY DEF LoopInv, CopiesOK, StatusOK, KeptInv, CacheFollows
<1>2. CASE Begin
  BY <1>1, <1>2 DEF Begin, CacheFollows, Follows
<1>3. CASE GateCadence \/ GateCapacity \/ SaveRefused \/ Crash
  BY <1>1, <1>3 DEF GateCadence, GateCapacity, SaveRefused, Crash, Return, CacheFollows
<1>4. CASE Save
  BY <1>1, <1>4 DEF Save, Return, Written, CacheFollows
<1>5. CASE HumanReset \/ ConcurrentWrite
  <2>1. /\ store'.outcome = store.outcome /\ store'.round = store.round
        /\ UNCHANGED <<mem, pc>> /\ cache' = store' /\ ~cacheBehind'
    BY <1>1, <1>5 DEF HumanReset, ConcurrentWrite, Written, Status
  <2>2. QED
    BY <1>1, <2>1 DEF CacheFollows, Follows
<1>6. CASE CacheSync
  BY <1>1, <1>6 DEF CacheSync
<1>7. ASSUME UNCHANGED <<store, cache, cacheBehind>>, pc # "idle", pc' # "idle",
             pc' = "save" => mem'.outcome = mem.outcome /\ mem'.round = mem.round,
             pc' # "save" => pc # "save" /\ mem'.outcome = mem.outcome
                                /\ mem'.round = mem.round
      PROVE  CacheFollows' /\ Follows'
  BY <1>1, <1>7 DEF CacheFollows, Follows
<1>8. ASSUME NEW r \in todo, DrainTerminal(r) \/ DrainOverdue(r) \/ Cull(r)
      PROVE  CacheFollows' /\ Follows'
  <2>1. /\ r \in OpenRounds(mem) /\ pc \in {"drain", "cull"} /\ pc' = pc
        /\ UNCHANGED <<store, cache, cacheBehind>>
    BY <1>1, <1>8 DEF DrainTerminal, DrainOverdue, Cull, PassOK
  <2>2. (\E loss : mem' = Drained(mem, r, loss)) \/ mem' = Superseded(mem, r)
    BY <1>8 DEF DrainTerminal, DrainOverdue, Cull
  <2>3. /\ mem'.round = mem.round
        /\ \E o \in Settled : mem'.outcome = [mem.outcome EXCEPT ![r] = o]
    <3>1. ASSUME NEW loss, mem' = Drained(mem, r, loss)
          PROVE  /\ mem'.round = mem.round
                 /\ mem'.outcome = [mem.outcome EXCEPT
                                     ![r] = IF loss # NoLoss THEN "measured" ELSE "failed"]
      BY <1>1, <3>1 DEF Drained, Status
    <3>2. CASE mem' = Superseded(mem, r)
      BY <1>1, <3>2 DEF Superseded, Status, Settled
    <3>3. QED
      BY <2>2, <3>1, <3>2 DEF Settled
  <2>4. Follows
    BY <1>1, <2>1
  <2>5. Follows'
    BY <1>1, <2>1, <2>3, <2>4, FollowsSettled
  <2>6. QED
    BY <1>1, <2>1, <2>5 DEF CacheFollows
<1>9. CASE GateCompleted \/ GateBreaker \/ RefsMissing \/ ProposeFails \/ SubmitFails
  <2>1. /\ \E p : mem' = [mem EXCEPT !.phase = p]
        /\ pc # "idle" /\ pc' = "save" /\ UNCHANGED <<store, cache, cacheBehind>>
    BY <1>9 DEF GateCompleted, GateBreaker, RefsMissing, ProposeFails, SubmitFails, Mark
  <2>2. mem'.outcome = mem.outcome /\ mem'.round = mem.round
    BY <1>1, <2>1 DEF Status
  <2>3. QED
    BY <1>7, <2>1, <2>2
<1>10. CASE Submit
  <2>1. /\ pc = "submit" /\ pc' = "save" /\ UNCHANGED <<store, cache, cacheBehind>>
        /\ \E id : mem' = Submitted(mem, mem.round + 1, id)
    BY <1>10 DEF Submit
  <2>2. mem'.outcome = [mem.outcome EXCEPT ![mem.round + 1] = "open"]
    BY <1>1, <2>1 DEF Submitted, Status
  <2>3. mem.outcome \in [Round -> Outcome]
    BY <1>1 DEF Status
  <2>4. QED
    BY <1>1, <2>1, <2>2, <2>3 DEF CacheFollows, Follows
<1>11. CASE \/ DrainUnreachable \/ DrainEnd \/ CullEnd \/ GatePass \/ Propose
            \/ RegisterVersion \/ RegisterFails
            \/ \E r \in todo : DrainKeep(r) \/ CullKeep(r)
  <2>1. /\ UNCHANGED <<store, cache, cacheBehind, mem>>
        /\ pc \notin {"idle", "save"} /\ pc' \notin {"idle", "save"}
    BY <1>11 DEF DrainUnreachable, DrainEnd, CullEnd, GatePass, Propose,
       RegisterVersion, RegisterFails, DrainKeep, CullKeep
  <2>2. QED
    BY <1>7, <2>1
<1>12. CASE UNCHANGED <<store, cache, cacheBehind, mem, pc>>
  BY <1>1, <1>12 DEF CacheFollows, Follows
<1>13. QED
  BY <1>2, <1>3, <1>4, <1>5, <1>6, <1>8, <1>9, <1>10, <1>11, <1>12
  DEF Next, Reconcile, Environment, Gate, Drain, vars, RunEnds, RunPruned,
      BudgetElapses, Deploy

LEMMA KeptStep ==
    ASSUME Faults \cap {"stale", "transient"} = {}
    PROVE  LoopInv /\ KeptInv /\ [Next]_vars => KeptInv'
<1> SUFFICES ASSUME LoopInv, KeptInv, [Next]_vars PROVE ResultsInWiki'
  BY KeptFollows DEF KeptInv
<1> USE DEF envVars, passVars
<1>1. /\ EnvironmentOK /\ PassOK /\ StatusOK(store) /\ StatusOK(mem) /\ cache = store
      /\ ResultsInWiki
  BY DEF LoopInv, CopiesOK, KeptInv, CacheFollows
<1>2. /\ NothingNew(store, store) /\ NothingNew(mem, mem) /\ NothingNew(mem, NewStatus)
      /\ \A p : NothingNew(mem, [mem EXCEPT !.phase = p])
      /\ NothingNew(store, [store EXCEPT !.fails = 0])
      /\ \A r \in Round : /\ NothingNew(mem, Superseded(mem, r))
                          /\ NothingNew(mem, Drained(mem, r, NoLoss))
  BY <1>1, EditsAddNothing
<1>3. ASSUME wiki'.result = wiki.result,
             NothingNew(store, store') \/ NothingNew(mem, store'),
             NothingNew(store, mem') \/ NothingNew(mem, mem')
      PROVE  ResultsInWiki'
  <2>1. \A q \in Measured(store') :
           wiki'.result[q].run # NoRun /\ wiki'.result[q].loss = store'.evalLoss[q]
    BY <1>1, <1>3, ResultsStayInWiki DEF ResultsInWiki
  <2>2. \A q \in Measured(mem') :
           wiki'.result[q].run # NoRun /\ wiki'.result[q].loss = mem'.evalLoss[q]
    BY <1>1, <1>3, ResultsStayInWiki DEF ResultsInWiki
  <2>3. QED
    BY <2>1, <2>2 DEF ResultsInWiki
<1>4. CASE Begin
  <2>1. mem' = store /\ UNCHANGED <<store, wiki>>
    BY <1>1, <1>4 DEF Begin
  <2>2. QED
    BY <1>2, <1>3, <2>1
<1>5. ASSUME NEW r \in todo, DrainTerminal(r) PROVE ResultsInWiki'
  BY <1>5, KeptDrain
<1>6. ASSUME NEW r \in todo, DrainOverdue(r) \/ Cull(r) PROVE ResultsInWiki'
  <2>1. r \in Round /\ UNCHANGED <<store, wiki>>
    BY <1>1, <1>6 DEF DrainOverdue, Cull, EnvironmentOK
  <2>2. mem' = Drained(mem, r, NoLoss) \/ mem' = Superseded(mem, r)
    BY <1>6 DEF DrainOverdue, Cull
  <2>3. QED
    BY <1>2, <1>3, <2>1, <2>2
<1>7. CASE Save \/ SaveRefused \/ GateCadence \/ GateCapacity \/ Crash
  <2>1. /\ mem' = NewStatus /\ (store' = store \/ store' = mem) /\ wiki' = wiki
    BY <1>7 DEF Save, SaveRefused, GateCadence, GateCapacity, Crash, Return, Written
  <2>2. QED
    BY <1>2, <1>3, <2>1
<1>8. CASE GateCompleted \/ GateBreaker \/ RefsMissing \/ ProposeFails \/ SubmitFails
           \/ Propose
  <2>1. /\ mem' = mem \/ \E p : mem' = [mem EXCEPT !.phase = p]
        /\ store' = store
    BY <1>8 DEF GateCompleted, GateBreaker, RefsMissing, ProposeFails, SubmitFails,
       Propose, Mark
  <2>2. wiki'.result = wiki.result
    BY <1>1, <1>8 DEF GateCompleted, GateBreaker, RefsMissing, ProposeFails, SubmitFails,
       Propose, ProposalPushed, EnvironmentOK
  <2>3. QED
    BY <1>2, <1>3, <2>1, <2>2
<1>9. CASE Submit
  <2>1. /\ \E id \in RunId : mem' = Submitted(mem, mem.round + 1, id)
        /\ UNCHANGED <<store, wiki>> /\ pc = "submit"
    BY <1>9 DEF Submit
  <2>2. mem.round + 1 \in Round /\ mem \in Status
    BY <1>1, <2>1, LoopAssumption DEF PassOK, StatusOK, Status, Round
  <2>3. /\ mem'.outcome = [mem.outcome EXCEPT ![mem.round + 1] = "open"]
        /\ mem'.evalLoss = mem.evalLoss /\ mem.outcome \in [Round -> Outcome]
    BY <2>1, <2>2 DEF Submitted, Status
  <2>4. Measured(mem') \subseteq Measured(mem)
    BY <2>2, <2>3 DEF Measured
  <2>5. QED
    BY <1>1, <2>1, <2>3, <2>4 DEF ResultsInWiki
<1>10. CASE HumanReset
  <2>1. store' = [store EXCEPT !.fails = 0] /\ UNCHANGED <<mem, wiki>>
    BY <1>10 DEF HumanReset, Written
  <2>2. QED
    BY <1>2, <1>3, <2>1
<1>11. CASE UNCHANGED <<store, mem, wiki>>
  BY <1>2, <1>3, <1>11
<1>12. QED
  BY <1>4, <1>5, <1>6, <1>7, <1>8, <1>9, <1>10, <1>11
  DEF Next, Reconcile, Environment, Gate, Drain, vars, DrainUnreachable, DrainKeep,
      DrainEnd, RegisterVersion, RegisterFails, CullKeep, CullEnd, GatePass, CacheSync,
      ConcurrentWrite, Written, RunEnds, RunPruned, BudgetElapses, Deploy

\* The history in the wiki has every loss the status has, under its round, wherever
\* the operator stops and whoever else writes the object, as long as pushes land
\* and reconciles start from the stored status: results are pushed before the
\* status is saved, and a round that was settled is never filed again.
THEOREM LossesAreInWiki ==
    ASSUME Faults \cap {"stale", "transient"} = {}
    PROVE  Spec => []ResultsInWiki
<1>1. LoopInv /\ KeptInv /\ [Next]_vars => KeptInv'
  BY KeptStep
<1>2. Init => KeptInv
  <2>1. Measured(NewStatus) = {}
    BY DEF Measured, NewStatus
  <2>2. QED
    BY <2>1 DEF Init, KeptInv, CacheFollows, ResultsInWiki
<1>3. KeptInv => ResultsInWiki
  BY DEF KeptInv
<1>4. QED
  BY LoopInvariant, <1>1, <1>2, <1>3, PTL DEF Spec
=============================================================================
