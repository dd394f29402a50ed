---------------------------- MODULE SearchProofs ----------------------------
(***************************************************************************)
(* Proofs about Search: what Apply leaves of a space is a part of it that  *)
(* the searcher accepts, so no proposal leaves the operator's bounds.      *)
(***************************************************************************)
EXTENDS Search, FiniteSetTheorems, TLAPS

(* What a file asks of an integer dimension leaves a sub-range of it, and  *)
(* one NewSearcher accepts: the clamps and the way back of applyToInt.     *)
LEMMA IntSubRange ==
    ASSUME NEW spec \in IntSpec(Int), ValidInt(spec),
           NEW adj \in NumberAdjustment
    PROVE  /\ ApplyToInt(spec, adj) \in IntSpec(Int)
           /\ ValidInt(ApplyToInt(spec, adj))
           /\ ApplyToInt(spec, adj).low >= spec.low
           /\ ApplyToInt(spec, adj).high <= spec.high
<1> DEFINE low == Floor(spec, adj)
           high == Ceiling(spec, adj)
           stride == IF adj.step = Omitted \/ adj.step < 0
                     THEN spec.step ELSE adj.step
           out == [low |-> low, high |-> high, step |-> stride]
<1>0. /\ spec.low \in Int /\ spec.high \in Int /\ spec.step \in Int
      /\ adj.low \in Int \cup {Omitted} /\ adj.high \in Int \cup {Omitted}
      /\ adj.step \in Int \cup {Omitted}
  BY DEF IntSpec, NumberAdjustment
<1>1. low \in Int /\ low >= spec.low
  BY <1>0 DEF Floor
<1>2. high \in Int /\ high <= spec.high
  BY <1>0 DEF Ceiling
<1>3. stride \in Int /\ stride >= 0
  BY <1>0 DEF ValidInt
<1> HIDE DEF low, high, stride
<1>4. out \in IntSpec(Int)
  BY <1>1, <1>2, <1>3 DEF IntSpec
<1>5. ApplyToInt(spec, adj) = IF low > high THEN spec ELSE out
  BY DEF ApplyToInt, low, high, stride
<1>6. CASE low > high
  BY <1>0, <1>5, <1>6
<1>7. CASE ~(low > high)
  BY <1>1, <1>2, <1>3, <1>4, <1>5, <1>7 DEF ValidInt
<1> QED
  BY <1>6, <1>7

(* The same of a float dimension, where the scale can change as well:      *)
(* applyToFloat never leaves a logarithmic scale over a floor of 0.        *)
LEMMA FloatSubRange ==
    ASSUME NEW spec \in FloatSpec(Int), ValidFloat(spec),
           NEW adj \in NumberAdjustment
    PROVE  /\ ApplyToFloat(spec, adj) \in FloatSpec(Int)
           /\ ValidFloat(ApplyToFloat(spec, adj))
           /\ ApplyToFloat(spec, adj).low >= spec.low
           /\ ApplyToFloat(spec, adj).high <= spec.high
<1> DEFINE low == Floor(spec, adj)
           high == Ceiling(spec, adj)
           scale == IF adj.log = Omitted THEN spec.log ELSE adj.log
           out == [low |-> low, high |-> high, log |-> scale]
<1>0. /\ spec.low \in Int /\ spec.high \in Int /\ spec.log \in BOOLEAN
      /\ adj.low \in Int \cup {Omitted} /\ adj.high \in Int \cup {Omitted}
      /\ adj.log \in BOOLEAN \cup {Omitted}
  BY DEF FloatSpec, NumberAdjustment
<1>1. low \in Int /\ low >= spec.low
  BY <1>0 DEF Floor
<1>2. high \in Int /\ high <= spec.high
  BY <1>0 DEF Ceiling
<1>3. scale \in BOOLEAN
  BY <1>0
<1> HIDE DEF low, high, scale
<1>4. out \in FloatSpec(Int)
  BY <1>1, <1>2, <1>3 DEF FloatSpec
<1>5. ApplyToFloat(spec, adj) =
          IF (scale /\ low <= 0) \/ low > high THEN spec ELSE out
  BY DEF ApplyToFloat, low, high, scale
<1>6. CASE (scale /\ low <= 0) \/ low > high
  BY <1>0, <1>5, <1>6
<1>7. CASE ~((scale /\ low <= 0) \/ low > high)
  BY <1>1, <1>2, <1>3, <1>4, <1>5, <1>7 DEF ValidFloat
<1> QED
  BY <1>6, <1>7

(* The searcher accepts every space HYPOTHESES.md can make of the default  *)
(* one, and its numbers are inside the default bounds.                     *)
THEOREM SubRange ==
    ASSUME NEW adj \in Adjust
    PROVE  LET space == Apply(Default, adj)
           IN  /\ ValidInt(space.int) /\ ValidFloat(space.float)
               /\ space.choice # {} /\ space.choice \subseteq Choice
               /\ space.int \in IntSpec(Int)
               /\ space.float \in FloatSpec(Int)
               /\ space.int.low..space.int.high
                    \subseteq Default.int.low..Default.int.high
               /\ space.float.low..space.float.high
                    \subseteq Default.float.low..Default.float.high
<1> DEFINE space == Apply(Default, adj)
<1>1. /\ Default.int \in IntSpec(Int) /\ ValidInt(Default.int)
      /\ Default.float \in FloatSpec(Int) /\ ValidFloat(Default.float)
      /\ Default.choice # {}
      /\ adj.int \in NumberAdjustment /\ adj.float \in NumberAdjustment
  BY SpaceAssumption
<1>2. /\ space.int = ApplyToInt(Default.int, adj.int)
      /\ space.float = ApplyToFloat(Default.float, adj.float)
      /\ space.choice = ApplyToCategorical(Default.choice, adj.choice)
  BY DEF Apply
<1>3. space.choice # {} /\ space.choice \subseteq Choice
  BY <1>1, <1>2 DEF ApplyToCategorical, Choice
<1>4. /\ space.int \in IntSpec(Int) /\ ValidInt(space.int)
      /\ space.int.low >= Default.int.low
      /\ space.int.high <= Default.int.high
  BY <1>1, <1>2, IntSubRange
<1>5. /\ space.float \in FloatSpec(Int) /\ ValidFloat(space.float)
      /\ space.float.low >= Default.float.low
      /\ space.float.high <= Default.float.high
  BY <1>1, <1>2, FloatSubRange
<1> HIDE DEF space
<1>6. /\ space.int.low \in Int /\ space.int.high \in Int
      /\ Default.int.low \in Int /\ Default.int.high \in Int
  BY <1>1, <1>4 DEF IntSpec
<1>7. /\ space.float.low \in Int /\ space.float.high \in Int
      /\ Default.float.low \in Int /\ Default.float.high \in Int
  BY <1>1, <1>5 DEF FloatSpec
<1>8. space.int.low..space.int.high
        \subseteq Default.int.low..Default.int.high
  BY <1>4, <1>6
<1>9. space.float.low..space.float.high
        \subseteq Default.float.low..Default.float.high
  BY <1>5, <1>7
<1> QED
  BY <1>3, <1>4, <1>5, <1>8, <1>9 DEF space

(* What the searcher draws from is such a space, in whichever state        *)
(* HYPOTHESES.md is.                                                       *)
LEMMA SuggestionInSpace ==
    ASSUME hyp \in Hypotheses, NEW config \in Suggestions
    PROVE  /\ config \in Config
           /\ config.int \in Default.int.low..Default.int.high
           /\ config.float \in Default.float.low..Default.float.high
<1>1. /\ Space.choice # {} /\ Space.choice \subseteq Choice
      /\ Space.int.low..Space.int.high
           \subseteq Default.int.low..Default.int.high
      /\ Space.float.low..Space.float.high
           \subseteq Default.float.low..Default.float.high
  <2>1. CASE hyp.kind = "parsed"
    <3>1. hyp.adjust \in Adjust
      BY <2>1 DEF Hypotheses, NoFile, Parsed
    <3>2. Space = Apply(Default, hyp.adjust)
      BY <2>1 DEF Space
    <3> QED
      BY <3>1, <3>2, SubRange
  <2>2. CASE hyp.kind # "parsed"
    BY <2>2, SpaceAssumption DEF Space, Choice
  <2> QED
    BY <2>1, <2>2
<1>2. Pick(Space.choice) \in Choice
  BY <1>1 DEF Pick
<1>3. PICK i \in Space.int.low..Space.int.high,
           f \in Space.float.low..Space.float.high :
          config = [int |-> i, float |-> f, choice |-> Pick(Space.choice)]
  BY DEF Suggestions
<1>4. /\ i \in Default.int.low..Default.int.high
      /\ f \in Default.float.low..Default.float.high
  BY <1>1, <1>3
<1>5. /\ Default.int.low..Default.int.high \subseteq Int
      /\ Default.float.low..Default.float.high \subseteq Int
  BY SpaceAssumption DEF IntSpec, FloatSpec
<1> QED
  BY <1>2, <1>3, <1>4, <1>5 DEF Config

(* There are finitely many observations, as there are finitely many        *)
(* rounds: the strategist is told of a number of them.                     *)
LEMMA Counted == Observations \in Nat
<1>1. IsFiniteSet(Round)
  BY FS_Interval, SearchAssumption DEF Round
<1>2. IsFiniteSet(History)
  BY <1>1, FS_Subset DEF History
<1> QED
  BY <1>2, FS_CardinalityType DEF Observations

-----------------------------------------------------------------------------
IInv == TypeOK /\ ConfigsInSpace

(* What a member of Project is made of.                                    *)
LEMMA ProjectFields ==
    ASSUME NEW p \in Project
    PROVE  /\ p \in [validation: BOOLEAN, round: 0..RoundLimit,
                     open: SUBSET Round, usable: SUBSET Round, streak: Nat]
           /\ p.validation \in BOOLEAN /\ p.round \in 0..RoundLimit
           /\ p.open \subseteq Round /\ p.usable \subseteq Round
           /\ p.open \subseteq 1..p.round /\ p.usable \subseteq 1..p.round
           /\ p.streak \in Nat
<1>1. /\ p \in [validation: BOOLEAN, round: 0..RoundLimit,
                open: SUBSET Round, usable: SUBSET Round, streak: Nat]
      /\ p.open \cup p.usable \subseteq 1..p.round
  BY DEF Project
<1> QED
  BY <1>1

(* A record with such fields is one.                                       *)
LEMMA ProjectMade ==
    ASSUME NEW v \in BOOLEAN, NEW r \in 0..RoundLimit,
           NEW o \in SUBSET (1..r), NEW u \in SUBSET (1..r), NEW k \in Nat
    PROVE  [validation |-> v, round |-> r, open |-> o, usable |-> u,
            streak |-> k] \in Project
<1> DEFINE p == [validation |-> v, round |-> r, open |-> o, usable |-> u,
                 streak |-> k]
<1>1. 1..r \subseteq Round
  BY SearchAssumption DEF Round
<1>2. p \in [validation: BOOLEAN, round: 0..RoundLimit,
             open: SUBSET Round, usable: SUBSET Round, streak: Nat]
  BY <1>1
<1>3. p.open \cup p.usable \subseteq 1..p.round
  OBVIOUS
<1> HIDE DEF p
<1>4. p \in Project
  BY <1>2, <1>3 DEF Project
<1> QED
  BY <1>4 DEF p

(* A project starts with what an older operator ran.                       *)
LEMMA NewTyped ==
    ASSUME NEW v \in BOOLEAN
    PROVE  NewProject(v) \in Project /\ NewProject(v).round = OldRounds
<1> DEFINE none == {}
           ran == 1..OldRounds
           zero == 0
<1>1. /\ OldRounds \in 0..RoundLimit /\ zero \in Nat
      /\ none \in SUBSET (1..OldRounds) /\ ran \in SUBSET (1..OldRounds)
  BY SearchAssumption
<1>2. NewProject(v) = [validation |-> v, round |-> OldRounds, open |-> none,
                       usable |-> ran, streak |-> zero]
  BY DEF NewProject
<1> HIDE DEF none, ran, zero
<1>3. NewProject(v).round = OldRounds
  BY <1>2
<1>4. NewProject(v) \in Project
  BY <1>1, <1>2, ProjectMade
<1> QED
  BY <1>3, <1>4

(* The drain settles a round that was submitted and keeps the round.       *)
LEMMA SettledTyped ==
    ASSUME project \in Project, NEW n \in project.open, NEW ok
    PROVE  Settled(n, ok) \in Project /\ Settled(n, ok).round = project.round
<1> DEFINE used == IF ok THEN project.usable \cup {n} ELSE project.usable
           fails == IF ok THEN 0 ELSE project.streak + 1
           left == project.open \ {n}
<1>1. /\ project \in [validation: BOOLEAN, round: 0..RoundLimit,
                      open: SUBSET Round, usable: SUBSET Round, streak: Nat]
      /\ project.validation \in BOOLEAN /\ project.round \in 0..RoundLimit
      /\ project.open \subseteq 1..project.round
      /\ project.usable \subseteq 1..project.round
      /\ project.streak \in Nat
  BY ProjectFields
<1>2. left \in SUBSET (1..project.round) /\ used \in SUBSET (1..project.round)
      /\ fails \in Nat
  BY <1>1
<1>5. Settled(n, ok) =
          [project EXCEPT !.open = left, !.usable = used, !.streak = fails]
  BY <1>1 DEF Settled
<1> HIDE DEF used, fails, left
<1>3. Settled(n, ok) =
          [validation |-> project.validation, round |-> project.round,
           open |-> left, usable |-> used, streak |-> fails]
  BY <1>1, <1>5
<1>4. Settled(n, ok).round = project.round
  BY <1>3
<1> QED
  BY <1>1, <1>2, <1>3, <1>4, ProjectMade

(* A submission opens the round after the last one.                        *)
LEMMA SubmittedTyped ==
    ASSUME project \in Project, project.round < RoundLimit
    PROVE  Submitted \in Project /\ Submitted.round = project.round + 1
<1> DEFINE next == project.round + 1
           opened == project.open \cup {next}
<1>1. /\ project \in [validation: BOOLEAN, round: 0..RoundLimit,
                      open: SUBSET Round, usable: SUBSET Round, streak: Nat]
      /\ project.validation \in BOOLEAN /\ project.round \in 0..RoundLimit
      /\ project.open \subseteq 1..project.round
      /\ project.usable \subseteq 1..project.round
      /\ project.streak \in Nat
  BY ProjectFields
<1>2. next \in 0..RoundLimit /\ 1..project.round \subseteq 1..next
      /\ next \in 1..next
  BY <1>1, SearchAssumption
<1>3. opened \in SUBSET (1..next) /\ project.usable \in SUBSET (1..next)
  BY <1>1, <1>2
<1>6. Submitted = [project EXCEPT !.round = next, !.open = opened]
  BY <1>1 DEF Submitted
<1>7. next = project.round + 1
  OBVIOUS
<1> HIDE DEF next, opened
<1>4. Submitted =
          [validation |-> project.validation, round |-> next,
           open |-> opened, usable |-> project.usable,
           streak |-> project.streak]
  BY <1>1, <1>6
<1>5. Submitted.round = next
  BY <1>4
<1> QED
  BY <1>1, <1>2, <1>3, <1>4, <1>5, <1>7, ProjectMade

(* What people write into a project leaves its rounds.                     *)
LEMMA EditTyped ==
    ASSUME stored \in Project, EditProject
    PROVE  /\ stored' \in Project /\ stored'.round = stored.round
           /\ cached' \in {cached, stored} /\ stale' = (step # "idle")
           /\ Edit
           /\ UNCHANGED <<wiki, refs, validated, project, step, seen, faults>>
<1>1. /\ stored \in [validation: BOOLEAN, round: 0..RoundLimit,
                     open: SUBSET Round, usable: SUBSET Round, streak: Nat]
      /\ stored.validation \in BOOLEAN /\ stored.round \in 0..RoundLimit
      /\ stored.open \in SUBSET (1..stored.round)
      /\ stored.usable \in SUBSET (1..stored.round)
      /\ stored.streak \in Nat
  BY ProjectFields
<1>2. /\ cached' \in {cached, stored} /\ stale' = (step # "idle")
      /\ UNCHANGED <<wiki, refs, validated, project, step, seen, faults>>
      /\ Edit
      /\ \/ stored' = [stored EXCEPT !.streak = 0]
         \/ stored' = [stored EXCEPT !.validation = ~@]
  BY DEF EditProject
<1>3. PICK v \in BOOLEAN, k \in Nat :
          stored' = [validation |-> v, round |-> stored.round,
                     open |-> stored.open, usable |-> stored.usable,
                     streak |-> k]
  <2>1. CASE stored' = [stored EXCEPT !.streak = 0]
    <3>1. stored' = [validation |-> stored.validation, round |-> stored.round,
                     open |-> stored.open, usable |-> stored.usable,
                     streak |-> 0]
      BY <1>1, <2>1
    <3> QED
      BY <1>1, <3>1
  <2>2. CASE stored' = [stored EXCEPT !.validation = ~@]
    <3> DEFINE other == ~stored.validation
    <3>1. other \in BOOLEAN
      BY <1>1
    <3>2. stored' = [stored EXCEPT !.validation = other]
      BY <2>2
    <3> HIDE DEF other
    <3>3. stored' = [validation |-> other, round |-> stored.round,
                     open |-> stored.open, usable |-> stored.usable,
                     streak |-> stored.streak]
      BY <1>1, <3>2
    <3> QED
      BY <1>1, <3>1, <3>3
  <2> QED
    BY <1>2, <2>1, <2>2
<1>4. stored'.round = stored.round
  BY <1>3
<1>5. stored' \in Project
  BY <1>1, <1>3, ProjectMade
<1> QED
  BY <1>2, <1>4, <1>5

(* No round of the wiki is there when the project starts.                  *)
LEMMA Initially == Init => IInv
<1> SUFFICES ASSUME Init PROVE IInv
  OBVIOUS
<1>1. hyp \in Hypotheses
  BY DEF Init, Hypotheses
<1>2. proposal \in [Round -> Config \cup {NoConfig}]
  BY DEF Init
<1>3. result \in [Round -> Loss \cup {0, NoLoss, NoRow}]
  BY DEF Init
<1>4. stored \in Project /\ cached \in Project /\ project \in Project
  <2>1. PICK v \in BOOLEAN : stored = NewProject(v) /\ cached = NewProject(v)
    BY DEF Init
  <2>2. project = NewProject(FALSE)
    BY DEF Init, Forgotten
  <2> QED
    BY <2>1, <2>2, NewTyped
<1>8. stale \in BOOLEAN /\ refs \in BOOLEAN
  BY Zenon DEF Init
<1>5. /\ validated \subseteq Round
      /\ seen \in Nat /\ edits \in 0..MaxEdits /\ faults \in 0..MaxFaults
  BY SearchAssumption DEF Init
<1>6. step = "idle" /\ step \in Step
  BY DEF Init, Step
<1>7. ConfigsInSpace
  BY DEF Init, ConfigsInSpace
<1> QED
  BY <1>1, <1>2, <1>3, <1>4, <1>5, <1>6, <1>7, <1>8 DEF IInv, TypeOK

(* What a run reports is a loss.                                           *)
LEMMA ReportsLosses ==
    ASSUME NEW n \in Round PROVE Reports(n) \subseteq Loss \cup {0}
BY DEF Reports

(* The files of the wiki keep their shape: the drain writes a loss a run   *)
(* reported, a turn what parses, the searcher a config of the space.       *)
LEMMA WikiKept ==
    ASSUME IInv, [Next]_vars
    PROVE  /\ proposal' \in [Round -> Config \cup {NoConfig}]
           /\ result' \in [Round -> Loss \cup {0, NoLoss, NoRow}]
           /\ hyp' \in Hypotheses
           /\ seen' \in Nat
<1>0. /\ proposal \in [Round -> Config \cup {NoConfig}]
      /\ result \in [Round -> Loss \cup {0, NoLoss, NoRow}]
      /\ hyp \in Hypotheses /\ seen \in Nat /\ stored \in Project
      /\ project \in Project
  BY DEF IInv, TypeOK
<1>1. CASE UNCHANGED vars
  BY <1>0, <1>1 DEF vars
<1>2. CASE Read \/ Wait \/ Halt \/ Begin \/ Backfill \/ TurnFails \/ Validate
           \/ ProposeFails \/ Submit \/ SubmitFails \/ Abort \/ EditRefs
  <2>1. UNCHANGED wiki /\ (seen' = seen \/ seen' = 0)
    BY <1>2 DEF Read, Reads, Wait, Halt, Begin, Backfill, TurnFails, Validate,
                ProposeFails, Submit, SubmitFails, Abort, EditRefs, EndPass
  <2> QED
    BY <1>0, <2>1 DEF wiki
<1>3. CASE Gate
  BY <1>0, <1>3, Counted DEF Gate, wiki
<1>4. CASE TurnLands
  <2>1. PICK reply \in Reply : Accepted(reply) /\ hyp' = reply
    BY <1>4 DEF TurnLands
  <2>2. reply \in Parsed({seen} \cup Claim, {seen})
    BY <2>1 DEF Reply, Accepted, NoFile, Malformed
  <2>3. reply \in Parsed(Nat, Nat \cup {-1})
    BY <1>0, <2>2, SearchAssumption DEF Parsed
  <2> QED
    BY <1>0, <1>4, <2>1, <2>3 DEF TurnLands, Hypotheses
<1>5. CASE Propose
  <2>1. PICK config \in Suggestions :
            proposal' = [proposal EXCEPT ![project.round + 1] = config]
    BY <1>5 DEF Propose
  <2>2. config \in Config
    BY <1>0, <2>1, SuggestionInSpace
  <2> QED
    BY <1>0, <1>5, <2>1, <2>2 DEF Propose
<1>6. ASSUME NEW n \in Round, Settle(n)
      PROVE  /\ proposal' = proposal /\ hyp' = hyp /\ seen' = seen
             /\ result' \in [Round -> Loss \cup {0, NoLoss, NoRow}]
  <2>1. \/ result' = result
        \/ \E loss \in Reports(n) : result' = [result EXCEPT ![n] = loss]
    BY <1>6 DEF Settle
  <2>2. proposal' = proposal /\ hyp' = hyp /\ seen' = seen
    BY <1>6 DEF Settle
  <2> QED
    BY <1>0, <2>1, <2>2, ReportsLosses
<1>7. ASSUME NEW n \in Round, EditResult(n)
      PROVE  /\ proposal' = proposal /\ hyp' = hyp /\ seen' = seen
             /\ result' \in [Round -> Loss \cup {0, NoLoss, NoRow}]
  BY <1>0, <1>7 DEF EditResult
<1>8. CASE EditHypotheses
  <2>1. hyp' \in {NoFile, Malformed(-1)} \cup Parsed(Claim, {-1})
    BY <1>8 DEF EditHypotheses
  <2>2. Malformed(-1) \in [kind: {"malformed"}, of: Nat \cup {-1}]
    BY DEF Malformed
  <2>3. Parsed(Claim, {-1}) \subseteq Parsed(Nat, Nat \cup {-1})
    BY SearchAssumption DEF Parsed
  <2>4. hyp' \in Hypotheses
    BY <2>1, <2>2, <2>3 DEF Hypotheses
  <2> QED
    BY <1>0, <1>8, <2>4 DEF EditHypotheses
<1>9. CASE EditProject
  BY <1>0, <1>9, EditTyped DEF wiki
<1>10. CASE \E n \in Round : Settle(n) \/ EditResult(n)
  BY <1>0, <1>6, <1>7, <1>10
<1> QED
  BY <1>1, <1>2, <1>3, <1>4, <1>5, <1>8, <1>9, <1>10 DEF Next, Reconcile

(* The save of a pass stores a project or leaves what is stored.           *)
LEMMA SaveTyped ==
    ASSUME stored \in Project, NEW p \in Project, Save(p)
    PROVE  stored' \in Project
BY DEF Save

(* The copies of the project keep their shape: a round is submitted only   *)
(* below the limit and only a submitted round is open or has a loss.       *)
LEMMA CopiesKept ==
    ASSUME IInv, [Next]_vars
    PROVE  /\ stored' \in Project /\ cached' \in Project
           /\ project' \in Project
           /\ stale' \in BOOLEAN /\ refs' \in BOOLEAN /\ validated' \subseteq Round
<1>0. /\ stored \in Project /\ cached \in Project /\ project \in Project
      /\ stale \in BOOLEAN /\ refs \in BOOLEAN /\ validated \subseteq Round
      /\ (step \notin {"idle", "drain"} => project.round < RoundLimit)
  BY DEF IInv, TypeOK
<1>1. Forgotten \in Project
  BY NewTyped DEF Forgotten
<1>2. EndPass => project' \in Project /\ stale' \in BOOLEAN
  BY <1>1 DEF EndPass
<1>3. CASE UNCHANGED vars
  BY <1>0, <1>3 DEF vars
<1>4. CASE Begin \/ Backfill \/ Gate \/ TurnLands \/ TurnFails \/ Propose
           \/ Validate \/ EditHypotheses
  BY <1>0, <1>4 DEF Begin, Backfill, Gate, TurnLands, TurnFails, Propose,
                    Validate, EditHypotheses, server, pass
<1>5. CASE Read
  BY <1>0, <1>5 DEF Read, Reads
<1>6. CASE Wait \/ Abort
  BY <1>0, <1>2, <1>6 DEF Wait, Abort, server
<1>7. CASE Halt \/ ProposeFails \/ SubmitFails
  <2>1. /\ Save(project) /\ EndPass
        /\ UNCHANGED <<cached, refs, validated>>
    BY <1>7 DEF Halt, ProposeFails, SubmitFails
  <2> QED
    BY <1>0, <1>2, <2>1, SaveTyped
<1>8. CASE Submit
  <2>1. /\ step \in {"submit", "smoke"} /\ Save(Submitted) /\ EndPass
        /\ UNCHANGED <<cached, refs>>
        /\ \/ validated' = validated
           \/ validated' = validated \cup {project.round + 1}
           \/ validated' = validated \ {project.round + 1}
    BY <1>8 DEF Submit
  <2>2. project.round < RoundLimit /\ project.round \in 0..RoundLimit
    BY <1>0, <2>1, ProjectFields
  <2>3. project.round + 1 \in Round
    BY <2>2, SearchAssumption DEF Round
  <2>4. Submitted \in Project
    BY <1>0, <2>2, SubmittedTyped
  <2>5. stored' \in Project
    BY <1>0, <2>1, <2>4, SaveTyped
  <2> QED
    BY <1>0, <1>2, <2>1, <2>3, <2>5
<1>9. ASSUME NEW n \in Round, Settle(n)
      PROVE  project' \in Project /\ UNCHANGED <<server, stale>>
  <2>1. /\ n \in project.open /\ UNCHANGED <<server, stale>>
        /\ \/ project' = Settled(n, FALSE)
           \/ \E loss \in Reports(n) : project' = Settled(n, loss # 0)
    BY <1>9 DEF Settle
  <2>2. \A ok : Settled(n, ok) \in Project
    BY <1>0, <2>1, SettledTyped
  <2> QED
    BY <2>1, <2>2
<1>10. ASSUME NEW n \in Round, EditResult(n)
       PROVE  UNCHANGED <<server, pass>>
  BY <1>10 DEF EditResult
<1>11. CASE \E n \in Round : Settle(n) \/ EditResult(n)
  BY <1>0, <1>9, <1>10, <1>11 DEF server, pass
<1>12. CASE EditProject
  BY <1>0, <1>12, EditTyped
<1>13. CASE EditRefs
  BY <1>0, <1>13 DEF EditRefs, pass
<1> QED
  BY <1>3, <1>4, <1>5, <1>6, <1>7, <1>8, <1>11, <1>12, <1>13
     DEF Next, Reconcile

(* A pass gets past the gates only below the limit.                        *)
LEMMA StepKept ==
    ASSUME IInv, [Next]_vars
    PROVE  /\ step' \in Step
           /\ step' \notin {"idle", "drain"} => project'.round < RoundLimit
           /\ edits' \in 0..MaxEdits /\ faults' \in 0..MaxFaults
<1>0. /\ MaxEdits \in Nat /\ MaxFaults \in Nat
      /\ step \in Step
      /\ (step \notin {"idle", "drain"} => project.round < RoundLimit)
      /\ edits \in 0..MaxEdits /\ faults \in 0..MaxFaults
      /\ project \in Project /\ stored \in Project
  BY SearchAssumption DEF IInv, TypeOK
<1>1. Fault => faults' \in 0..MaxFaults
  BY <1>0 DEF Fault
<1>2. Edit => edits' \in 0..MaxEdits
  BY <1>0 DEF Edit
<1>3. CASE UNCHANGED vars
  BY <1>0, <1>3 DEF vars
<1>4. CASE Begin \/ Backfill \/ TurnLands \/ TurnFails \/ Propose \/ Validate
  <2>1. /\ UNCHANGED <<project, edits, faults>>
        /\ step' \in {"backfill", "gate", "propose", "submit", "smoke"}
        /\ step = "drain" => project.round < RoundLimit
        /\ step # "idle"
    BY <1>4 DEF Begin, Backfill, TurnLands, TurnFails, Propose, Validate, pass
  <2> QED
    BY <1>0, <2>1 DEF Step
<1>5. CASE Gate
  <2>1. /\ UNCHANGED <<project, edits>> /\ project.round < RoundLimit
        /\ step' \in {"turn", "propose"}
    BY <1>0, <1>5 DEF Gate, pass
  <2>2. faults' \in 0..MaxFaults
    BY <1>0, <1>1, <1>5 DEF Gate
  <2> QED
    BY <1>0, <2>1, <2>2 DEF Step
<1>6. CASE Read
  BY <1>0, <1>6 DEF Read, Reads, Step
<1>7. CASE Wait \/ Halt \/ ProposeFails \/ Submit \/ SubmitFails \/ Abort
  <2>1. step' = "idle" /\ edits' = edits
    BY <1>7 DEF Wait, Halt, ProposeFails, Submit, SubmitFails, Abort, EndPass
  <2>2. faults' = faults \/ Fault
    BY <1>7 DEF Wait, Halt, ProposeFails, Submit, SubmitFails, Abort
  <2> QED
    BY <1>0, <1>1, <2>1, <2>2 DEF Step
<1>8. ASSUME NEW n \in Round, Settle(n)
      PROVE  step' = "drain" /\ edits' = edits /\ faults' \in 0..MaxFaults
  <2>1. step' = "drain" /\ edits' = edits /\ (faults' = faults \/ Fault)
    BY <1>8 DEF Settle
  <2> QED
    BY <1>0, <1>1, <2>1
<1>9. ASSUME NEW n \in Round, EditResult(n)
      PROVE  UNCHANGED <<step, project, faults>> /\ edits' \in 0..MaxEdits
  BY <1>2, <1>9 DEF EditResult, pass
<1>10. CASE \E n \in Round : Settle(n) \/ EditResult(n)
  BY <1>0, <1>8, <1>9, <1>10 DEF Step
<1>11. CASE EditHypotheses \/ EditRefs
  <2>1. UNCHANGED <<step, project, faults>> /\ Edit
    BY <1>11 DEF EditHypotheses, EditRefs, pass
  <2> QED
    BY <1>0, <1>2, <2>1
<1>12. CASE EditProject
  BY <1>0, <1>2, <1>12, EditTyped
<1> QED
  BY <1>3, <1>4, <1>5, <1>6, <1>7, <1>10, <1>11, <1>12 DEF Next, Reconcile

(* A proposal is written by the searcher alone, from a space Apply made.   *)
LEMMA SpaceKept ==
    ASSUME IInv, [Next]_vars
    PROVE  ConfigsInSpace'
<1> SUFFICES ASSUME NEW m \in Round, proposal'[m] # NoConfig
             PROVE  /\ proposal'[m].int
                         \in Default.int.low..Default.int.high
                    /\ proposal'[m].float
                         \in Default.float.low..Default.float.high
  BY DEF ConfigsInSpace
<1>1. CASE Propose
  <2>1. PICK config \in Suggestions :
            proposal' = [proposal EXCEPT ![project.round + 1] = config]
    BY <1>1 DEF Propose
  <2>2. proposal'[m] = IF m = project.round + 1 THEN config ELSE proposal[m]
    BY <2>1 DEF IInv, TypeOK
  <2>3. /\ config.int \in Default.int.low..Default.int.high
        /\ config.float \in Default.float.low..Default.float.high
    BY <2>1, SuggestionInSpace DEF IInv, TypeOK
  <2> QED
    BY <2>2, <2>3 DEF IInv, ConfigsInSpace
<1>2. CASE ~Propose
  <2>1. proposal' = proposal
    BY <1>2 DEF Next, Reconcile, Read, Reads, Wait, Halt, Begin, Backfill, Gate,
                TurnLands, TurnFails, Validate, ProposeFails, Submit,
                SubmitFails, Settle, EditResult, Abort, EditHypotheses,
                EditProject, EditRefs, wiki, vars
  <2> QED
    BY <2>1 DEF IInv, ConfigsInSpace
<1> QED
  BY <1>1, <1>2

(* The invariant is inductive: the files and the copies of the project are *)
(* kept by every step of the pass, of the drain and of people.             *)
LEMMA Invariance == Spec => []IInv
<1>1. IInv /\ [Next]_vars => IInv'
  BY WikiKept, CopiesKept, StepKept, SpaceKept DEF IInv, TypeOK
<1> QED
  BY <1>1, Initially, PTL DEF Spec

(* Type correctness, for every space, adjustment and bound: no pass gets   *)
(* past the gates at the last round, and no copy of the project has a      *)
(* round open before it is submitted.                                      *)
THEOREM TypeCorrect == Spec => []TypeOK
<1>1. IInv => TypeOK
  BY DEF IInv
<1> QED
  BY <1>1, Invariance, PTL

(* No config is ever proposed outside the operator's bounds, whatever the  *)
(* strategist or a person writes into HYPOTHESES.md.                       *)
THEOREM InSpace == Spec => []ConfigsInSpace
<1>1. IInv => ConfigsInSpace
  BY DEF IInv
<1> QED
  BY <1>1, Invariance, PTL
-----------------------------------------------------------------------------
(* What paces the strategist.  A turn under way was told of more           *)
(* observations than the file it will replace was written for: the gates   *)
(* read that number off the file, and while the turn runs only a person    *)
(* changes the file.  A file that does not parse is never the strategist's.*)
PacedInv ==
    /\ hyp.kind = "malformed" => hyp.of = -1
    /\ step = "turn" /\ hyp.kind # "none" /\ Honest => seen > hyp.of

(* A turn is begun only with more observations than an honest file was     *)
(* written for, by either gate.                                            *)
LEMMA DueIsLater ==
    ASSUME TypeOK, PacedInv, Due, hyp.kind # "none", Honest
    PROVE  Observations > hyp.of
<1>1. EveryN \in Nat /\ EveryN >= 1
  BY SearchAssumption
<1>2. Observations \in Nat
  BY Counted
<1>3. CASE hyp.kind = "parsed"
  <2>1. hyp.after \in Nat /\ hyp.after = hyp.of
    BY <1>3 DEF TypeOK, Hypotheses, Parsed, NoFile, Honest
  <2>2. LastRan = hyp.after
    BY <1>3 DEF LastRan
  <2>3. Observations - LastRan >= 1
    BY <1>1, <1>2, <2>1, <2>2 DEF Due
  <2> QED
    BY <1>2, <2>1, <2>2, <2>3
<1>4. CASE hyp.kind = "malformed"
  BY <1>2, <1>4 DEF PacedInv
<1> QED
  BY <1>3, <1>4 DEF TypeOK, Hypotheses, Parsed, NoFile

LEMMA PacedKept ==
    ASSUME TypeOK, PacedInv, [Next]_vars
    PROVE  PacedInv'
<1>1. CASE Gate
  <2>1. hyp' = hyp
    BY <1>1 DEF Gate, wiki
  <2>2. step' = "turn" => Due /\ seen' = Observations
    BY <1>1 DEF Gate
  <2> QED
    BY <2>1, <2>2, DueIsLater DEF PacedInv, Honest
<1>2. CASE EditHypotheses
  <2>1. /\ hyp' \in {NoFile, Malformed(-1)} \cup Parsed(Claim, {-1})
        /\ seen' = seen /\ seen \in Nat
    BY <1>2 DEF EditHypotheses, TypeOK
  <2>2. CASE hyp' = NoFile
    BY <2>2 DEF PacedInv, NoFile
  <2>3. CASE hyp' = Malformed(-1)
    BY <2>1, <2>3 DEF PacedInv, Malformed
  <2>4. CASE hyp' \in Parsed(Claim, {-1})
    <3>1. hyp'.kind = "parsed" /\ hyp'.after \in Nat /\ hyp'.of = -1
      BY <2>4, SearchAssumption DEF Parsed
    <3>2. ~Honest'
      BY <3>1 DEF Honest
    <3> QED
      BY <3>1, <3>2 DEF PacedInv
  <2> QED
    BY <2>1, <2>2, <2>3, <2>4
<1>3. CASE TurnLands
  <2>1. PICK reply \in Reply : Accepted(reply) /\ hyp' = reply
    BY <1>3 DEF TurnLands
  <2>2. hyp'.kind = "parsed" /\ step' = "propose"
    BY <1>3, <2>1 DEF TurnLands, Accepted
  <2> QED
    BY <2>2 DEF PacedInv
<1>4. CASE TurnFails \/ Wait \/ Halt \/ ProposeFails \/ Submit \/ SubmitFails
           \/ Abort
  <2>1. hyp' = hyp /\ step' # "turn"
    BY <1>4 DEF TurnFails, Wait, Halt, ProposeFails, Submit, SubmitFails,
                Abort, EndPass, wiki
  <2> QED
    BY <2>1 DEF PacedInv
<1>5. CASE ~(Gate \/ EditHypotheses \/ TurnLands \/ TurnFails \/ Wait \/ Halt
             \/ ProposeFails \/ Submit \/ SubmitFails \/ Abort)
  <2>1. hyp' = hyp /\ seen' = seen /\ (step' = "turn" => step = "turn")
    BY <1>5 DEF Next, Reconcile, Read, Reads, Begin, Backfill, Propose,
                Validate, Settle, EditResult, EditProject, EditRefs, wiki,
                vars
  <2> QED
    BY <2>1 DEF PacedInv, Honest
<1> QED
  BY <1>1, <1>2, <1>3, <1>4, <1>5

(* The strategist is not asked twice about the same observations, with     *)
(* every cadence, every stagnation limit and whatever number people write  *)
(* into the file.                                                          *)
THEOREM Paced == Spec => StrategistPaced
<1>1. Init => PacedInv
  BY DEF Init, PacedInv, NoFile
<1>2. TypeOK /\ PacedInv /\ [Next]_vars => PacedInv'
  BY PacedKept
<1>3. PacedInv => (TurnLands /\ hyp.kind # "none" /\ Honest => seen > hyp.of)
  BY DEF PacedInv, TurnLands
<1> QED
  BY <1>1, <1>2, <1>3, TypeCorrect, PTL DEF Spec, StrategistPaced

-----------------------------------------------------------------------------
(* The order of the writes of a round: the proposal is pushed before the   *)
(* status counts the round, unless it was submitted in validation mode,    *)
(* and a result only after.                                                *)
ProposedFirst ==
    /\ \A n \in Round : n \in ((OldRounds + 1)..stored.round) \ validated
                           => proposal[n] \in Config
    /\ step = "submit" => proposal[project.round + 1] \in Config
    /\ \A n \in Round : result[n] # NoLoss => n <= stored.round

\* No copy is ahead of what is stored, and one that is not outdated is at the
\* same round.
Behind ==
    /\ OldRounds <= stored.round
    /\ cached.round <= stored.round /\ project.round <= stored.round
    /\ ~stale /\ step # "idle" => project.round = stored.round

(* The proposal of a round the status counts is only written again by a    *)
(* pass that works on an outdated copy, and only a person takes an         *)
(* observation out of the history.                                         *)
RecordKept ==
    /\ \A n \in Round : n <= stored.round /\ proposal'[n] # proposal[n]
                           => Propose /\ stale
    /\ (\A n \in Round : ~EditResult(n)) => History \subseteq History'

LEMMA OrderInit == Init => ProposedFirst /\ Behind
<1> SUFFICES ASSUME Init PROVE ProposedFirst /\ Behind
  OBVIOUS
<1>1. /\ stored.round = OldRounds /\ cached.round = OldRounds
      /\ project.round = OldRounds
  <2>1. PICK v \in BOOLEAN : stored = NewProject(v) /\ cached = NewProject(v)
    BY DEF Init
  <2>2. project = NewProject(FALSE)
    BY DEF Init, Forgotten
  <2> QED
    BY <2>1, <2>2, NewTyped
<1>2. OldRounds \in Nat
  BY SearchAssumption
<1>3. (OldRounds + 1)..stored.round = {}
  BY <1>1, <1>2
<1>4. step = "idle" /\ \A n \in Round : result[n] = NoLoss
  BY DEF Init
<1> QED
  BY <1>1, <1>2, <1>3, <1>4 DEF ProposedFirst, Behind

(* A save leaves the round, or stores the one the pass worked on.          *)
LEMMA SavedRound ==
    ASSUME Behind, step # "idle", Save(project)
    PROVE  stored'.round = stored.round
BY DEF Save, Behind

(* The rounds of the copies after a step that submits nothing.             *)
LEMMA RoundsStay ==
    ASSUME TypeOK, Behind, [Next]_vars, ~Submit
    PROVE  /\ stored'.round = stored.round /\ validated' = validated
           /\ Behind'
<1>0. /\ stored \in Project /\ cached \in Project /\ project \in Project
      /\ OldRounds <= stored.round /\ cached.round <= stored.round
      /\ project.round <= stored.round
      /\ (~stale /\ step # "idle" => project.round = stored.round)
      /\ stored.round \in Nat /\ cached.round \in Nat /\ project.round \in Nat
  BY ProjectFields DEF TypeOK, Behind
<1>1. EndPass => project'.round = OldRounds /\ step' = "idle"
  BY NewTyped DEF EndPass, Forgotten
<1>2. CASE UNCHANGED vars
  BY <1>0, <1>2 DEF vars, Behind
<1>3. CASE Begin \/ Backfill \/ Gate \/ TurnLands \/ TurnFails \/ Propose
           \/ Validate
  <2>1. UNCHANGED <<stored, cached, project, stale, validated>> /\ step # "idle"
    BY <1>3 DEF Begin, Backfill, Gate, TurnLands, TurnFails, Propose,
                Validate, server, pass
  <2> QED
    BY <1>0, <2>1 DEF Behind
<1>4. CASE Read
  <2>1. PICK copy \in {cached, stored} : Reads(copy)
    BY <1>4 DEF Read
  <2>2. /\ project' = copy /\ cached' = copy
        /\ stored' = stored /\ validated' = validated
    BY <2>1 DEF Reads
  <2>3. ~stale' => copy = stored
    BY <2>1, Zenon DEF Reads
  <2>4. copy.round <= stored.round
    BY <1>0
  <2> QED
    BY <1>0, <2>2, <2>3, <2>4 DEF Behind
<1>5. CASE Wait \/ Abort
  <2>1. UNCHANGED <<stored, cached, validated>> /\ EndPass
    BY <1>5 DEF Wait, Abort, server
  <2> QED
    BY <1>0, <1>1, <2>1 DEF Behind
<1>6. CASE Halt \/ ProposeFails \/ SubmitFails
  <2>1. /\ step # "idle" /\ Save(project) /\ EndPass
        /\ UNCHANGED <<cached, validated>>
    BY <1>6 DEF Halt, ProposeFails, SubmitFails
  <2>2. stored'.round = stored.round
    BY <2>1, SavedRound
  <2> QED
    BY <1>0, <1>1, <2>1, <2>2 DEF Behind
<1>7. ASSUME NEW n \in Round, Settle(n)
      PROVE  /\ UNCHANGED <<stored, cached, validated, stale, step>>
             /\ project'.round = project.round
  <2>1. /\ n \in project.open
        /\ UNCHANGED <<stored, cached, validated, stale, step>>
        /\ \/ project' = Settled(n, FALSE)
           \/ \E loss \in Reports(n) : project' = Settled(n, loss # 0)
    BY <1>7 DEF Settle, server
  <2>2. \A ok : Settled(n, ok).round = project.round
    BY <1>0, <2>1, SettledTyped
  <2> QED
    BY <2>1, <2>2
<1>8. ASSUME NEW n \in Round, EditResult(n)
      PROVE  UNCHANGED <<stored, cached, project, validated, stale, step>>
  BY <1>8 DEF EditResult, server, pass
<1>9. CASE \E n \in Round : Settle(n) \/ EditResult(n)
  BY <1>0, <1>7, <1>8, <1>9 DEF Behind
<1>10. CASE EditHypotheses \/ EditRefs
  <2>1. UNCHANGED <<stored, cached, project, validated, stale, step>>
    BY <1>10 DEF EditHypotheses, EditRefs, server, pass
  <2> QED
    BY <1>0, <2>1 DEF Behind
<1>11. CASE EditProject
  <2>1. /\ stored'.round = stored.round
        /\ cached' = cached \/ cached' = stored
        /\ UNCHANGED <<project, validated, step>>
    BY <1>0, <1>11, EditTyped
  <2>2. ~stale' => step = "idle"
    BY <1>0, <1>11, EditTyped, Zenon
  <2>3. cached'.round <= stored.round
    BY <1>0, <2>1
  <2> QED
    BY <1>0, <2>1, <2>2, <2>3 DEF Behind
<1> QED
  BY <1>2, <1>3, <1>4, <1>5, <1>6, <1>9, <1>10, <1>11 DEF Next, Reconcile

(* A submission counts the round it proposed, or its save is refused.      *)
LEMMA SubmitRounds ==
    ASSUME TypeOK, Behind, Submit
    PROVE  /\ Behind'
           /\ \/ UNCHANGED <<stored, validated>>
              \/ /\ stored'.round = stored.round + 1
                 /\ project.round = stored.round
                 /\ validated' = IF step = "smoke"
                                 THEN validated \cup {stored.round + 1}
                                 ELSE validated \ {stored.round + 1}
<1>0. /\ stored \in Project /\ cached \in Project /\ project \in Project
      /\ OldRounds <= stored.round /\ cached.round <= stored.round
      /\ (~stale /\ step # "idle" => project.round = stored.round)
      /\ (step \notin {"idle", "drain"} => project.round < RoundLimit)
  BY DEF TypeOK, Behind
<1>1. /\ step \in {"submit", "smoke"} /\ Save(Submitted) /\ EndPass
      /\ cached' = cached
      /\ validated' = IF stale THEN validated
                      ELSE IF step = "smoke"
                           THEN validated \cup {project.round + 1}
                           ELSE validated \ {project.round + 1}
  BY DEF Submit
<1>2. project'.round = OldRounds /\ step' = "idle"
  BY <1>1, NewTyped DEF EndPass, Forgotten
<1>3. CASE stale
  BY <1>0, <1>1, <1>2, <1>3 DEF Save, Behind
<1>4. CASE ~stale
  <2>1. stored' = Submitted /\ project.round = stored.round
    BY <1>0, <1>1, <1>4 DEF Save
  <2>2. stored'.round = stored.round + 1
    BY <1>0, <1>1, <2>1, SubmittedTyped
  <2>3. stored.round \in Nat /\ cached.round \in Nat /\ OldRounds \in Nat
    BY <1>0, ProjectFields, SearchAssumption
  <2> QED
    BY <1>0, <1>1, <1>2, <1>4, <2>1, <2>2, <2>3 DEF Behind
<1> QED
  BY <1>3, <1>4

LEMMA ProposedKept ==
    ASSUME TypeOK, ProposedFirst, Behind, [Next]_vars
    PROVE  ProposedFirst' /\ Behind'
<1>1. /\ RoundLimit \in Nat /\ OldRounds \in Nat
      /\ stored.round \in 0..RoundLimit /\ project.round \in 0..RoundLimit
      /\ project.open \subseteq 1..project.round
      /\ project.round <= stored.round
      /\ proposal \in [Round -> Config \cup {NoConfig}]
      /\ result \in [Round -> Loss \cup {0, NoLoss, NoRow}]
      /\ (step \notin {"idle", "drain"} => project.round < RoundLimit)
  BY ProjectFields, SearchAssumption DEF TypeOK, Behind
<1>2. CASE Propose
  <2>1. PICK config \in Suggestions :
            proposal' = [proposal EXCEPT ![project.round + 1] = config]
    BY <1>2 DEF Propose
  <2>2. config \in Config
    BY <2>1, SuggestionInSpace DEF TypeOK
  <2>3. /\ UNCHANGED <<stored, validated, project, result>>
        /\ step = "propose" /\ step' = "submit"
    BY <1>2 DEF Propose, server, pass
  <2>4. project.round + 1 \in Round
    BY <1>1, <2>3 DEF Round
  <2>5. /\ \A n \in Round : n # project.round + 1 => proposal'[n] = proposal[n]
        /\ proposal'[project.round + 1] = config
    BY <1>1, <2>1, <2>4
  <2>6. ProposedFirst'
    BY <2>2, <2>3, <2>5 DEF ProposedFirst
  <2>7. ~Submit
    BY <2>3 DEF Submit
  <2> QED
    BY <2>6, <2>7, RoundsStay
<1>3. CASE Submit
  <2>1. /\ proposal' = proposal /\ result' = result /\ step' = "idle"
        /\ step \in {"submit", "smoke"}
    BY <1>3 DEF Submit, wiki, EndPass
  <2>2. CASE UNCHANGED <<stored, validated>>
    BY <1>3, <2>1, <2>2, SubmitRounds DEF ProposedFirst
  <2>3. CASE /\ stored'.round = stored.round + 1
             /\ project.round = stored.round
             /\ validated' = IF step = "smoke"
                             THEN validated \cup {stored.round + 1}
                             ELSE validated \ {stored.round + 1}
    <3>1. ASSUME NEW n \in Round,
                 n \in ((OldRounds + 1)..stored'.round) \ validated'
          PROVE  proposal[n] \in Config
      <4>1. CASE n = stored.round + 1
        BY <2>1, <2>3, <3>1, <4>1 DEF ProposedFirst
      <4>2. CASE n # stored.round + 1
        <5>1. n \in (OldRounds + 1)..stored.round
          BY <1>1, <2>3, <3>1, <4>2 DEF Round
        <5>2. n \notin validated
          BY <2>3, <3>1, <4>2
        <5> QED
          BY <5>1, <5>2 DEF ProposedFirst
      <4> QED
        BY <4>1, <4>2
    <3>2. \A n \in Round : n <= stored.round => n <= stored'.round
      BY <1>1, <2>3 DEF Round
    <3>3. ProposedFirst'
      BY <2>1, <3>1, <3>2 DEF ProposedFirst
    <3> QED
      BY <1>3, <3>3, SubmitRounds
  <2> QED
    BY <1>3, <2>2, <2>3, SubmitRounds
<1>4. CASE ~Propose /\ ~Submit
  <2>1. /\ stored'.round = stored.round /\ validated' = validated /\ Behind'
    BY <1>4, RoundsStay
  <2>2. ASSUME NEW m \in Round, Settle(m)
        PROVE  ProposedFirst'
    <3>1. /\ proposal' = proposal /\ step' = "drain" /\ m <= stored.round
      BY <1>1, <2>2 DEF Settle
    <3>2. \A n \in Round : n # m => result'[n] = result[n]
      BY <1>1, <2>2 DEF Settle
    <3> QED
      BY <2>1, <3>1, <3>2 DEF ProposedFirst
  <2>3. ASSUME NEW m \in Round, EditResult(m)
        PROVE  ProposedFirst'
    <3>1. proposal' = proposal /\ project' = project /\ step' = step
      BY <2>3 DEF EditResult, pass
    <3>2. /\ \A n \in Round : n # m => result'[n] = result[n]
          /\ result[m] # NoLoss
      BY <1>1, <2>3 DEF EditResult
    <3> QED
      BY <2>1, <3>1, <3>2 DEF ProposedFirst
  <2>4. CASE UNCHANGED vars \/ EditHypotheses \/ EditProject \/ EditRefs
    <3>1. UNCHANGED <<proposal, result, project, step>>
      BY <2>4 DEF EditHypotheses, EditProject, EditRefs, wiki, pass, vars
    <3> QED
      BY <2>1, <3>1 DEF ProposedFirst
  <2>5. CASE Read \/ Wait \/ Halt \/ Begin \/ Backfill \/ Gate \/ TurnLands
             \/ TurnFails \/ Validate \/ ProposeFails \/ SubmitFails \/ Abort
    <3>1. UNCHANGED <<proposal, result>> /\ step' # "submit"
      BY <2>5 DEF Read, Reads, Wait, Halt, Begin, Backfill, Gate, TurnLands,
                  TurnFails, Validate, ProposeFails, SubmitFails, Abort,
                  EndPass, wiki
    <3> QED
      BY <2>1, <3>1 DEF ProposedFirst
  <2> QED
    BY <1>4, <2>1, <2>2, <2>3, <2>4, <2>5 DEF Next, Reconcile
<1> QED
  BY <1>2, <1>3, <1>4

LEMMA Ordered == Spec => [](ProposedFirst /\ Behind)
<1>1. TypeOK /\ ProposedFirst /\ Behind /\ [Next]_vars
        => ProposedFirst' /\ Behind'
  BY ProposedKept
<1> QED
  BY <1>1, OrderInit, TypeCorrect, PTL DEF Spec

(* Every round the status counts has its proposal in the wiki, unless it   *)
(* was submitted in validation mode or by an older operator, and the wiki  *)
(* has no result of a round the status does not count yet: also when       *)
(* copies are outdated and saves are refused.                              *)
THEOREM Proposed == Spec => []ProposedFirst
BY Ordered, PTL

(* One step of the pass, of the drain or of the operator's stop keeps what *)
(* the history records: the searcher writes the proposal of the round      *)
(* after those its copy counts, the drain a result that has a loss.        *)
LEMMA HistoryStep ==
    ASSUME TypeOK, ProposedFirst, Behind, [Next]_vars
    PROVE  RecordKept
<1>1. /\ RoundLimit \in Nat /\ stored.round \in 0..RoundLimit
      /\ project.round \in 0..RoundLimit
      /\ proposal \in [Round -> Config \cup {NoConfig}]
      /\ result \in [Round -> Loss \cup {0, NoLoss, NoRow}]
      /\ Loss \subseteq Int /\ NoLoss \notin Int /\ NoRow \notin Int
  BY ProjectFields, SearchAssumption DEF TypeOK
<1>2. CASE Propose
  <2>1. PICK config \in Suggestions :
            proposal' = [proposal EXCEPT ![project.round + 1] = config]
    BY <1>2 DEF Propose
  <2>2. config \in Config /\ config # NoConfig
    BY <2>1, SuggestionInSpace, ConfigAssumption DEF TypeOK
  <2>3. result' = result /\ step = "propose"
    BY <1>2 DEF Propose
  <2>4. ASSUME NEW n \in Round, n <= stored.round, proposal'[n] # proposal[n]
        PROVE  stale
    <3>1. n = project.round + 1
      BY <1>1, <2>1, <2>4
    <3> QED
      BY <1>1, <2>3, <2>4, <3>1 DEF Behind
  <2>5. \A n \in Round : proposal[n] # NoConfig => proposal'[n] # NoConfig
    BY <1>1, <2>1, <2>2
  <2> QED
    BY <1>2, <2>3, <2>4, <2>5 DEF RecordKept, History
<1>3. ASSUME NEW m \in Round, Settle(m)
      PROVE  RecordKept
  <2>1. proposal' = proposal
    BY <1>3 DEF Settle
  <2>2. \/ result' = result
        \/ \E loss \in Loss \cup {0} : result' = [result EXCEPT ![m] = loss]
    BY <1>3, ReportsLosses DEF Settle
  <2>3. \A n \in Round : result[n] \notin {NoLoss, NoRow}
                           => result'[n] \notin {NoLoss, NoRow}
    BY <1>1, <2>2
  <2> QED
    BY <2>1, <2>3 DEF RecordKept, History
<1>4. ASSUME NEW m \in Round, EditResult(m)
      PROVE  RecordKept
  BY <1>4 DEF EditResult, RecordKept
<1>5. CASE UNCHANGED vars \/ EditHypotheses \/ EditProject \/ EditRefs \/ Read
           \/ Wait \/ Halt \/ Begin \/ Backfill \/ Gate \/ TurnLands
           \/ TurnFails \/ Validate \/ ProposeFails \/ Submit \/ SubmitFails
           \/ Abort
  <2>1. proposal' = proposal /\ result' = result
    BY <1>5 DEF EditHypotheses, EditProject, EditRefs, Read, Reads, Wait, Halt,
                Begin, Backfill, Gate, TurnLands, TurnFails, Validate,
                ProposeFails, Submit, SubmitFails, Abort, wiki, vars
  <2> QED
    BY <2>1 DEF RecordKept, History
<1> QED
  BY <1>2, <1>3, <1>4, <1>5 DEF Next, Reconcile

(* The history only grows, but for the edits of people, and the config of  *)
(* a round the status counts is written again by a pass with an outdated   *)
(* copy of the project only: what the strategist and the searcher were     *)
(* told of an experiment stays true of it as long as the copies are.       *)
THEOREM HistoryGrows == Spec => [][RecordKept]_vars
<1>1. TypeOK /\ ProposedFirst /\ Behind /\ [Next]_vars => [RecordKept]_vars
  BY HistoryStep
<1> QED
  BY <1>1, TypeCorrect, Ordered, PTL DEF Spec
=============================================================================
