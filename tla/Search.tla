------------------------------- MODULE Search -------------------------------
(***************************************************************************)
(* Where the next experiment of an AutoResearch project comes from: the    *)
(* wiki's history of (config, eval_loss) pairs, the strategist, which is a *)
(* language model asked now and then to write HYPOTHESES.md, and the       *)
(* searcher, which draws a config from the operator's search space as      *)
(* HYPOTHESES.md adjusts it.  Passes of one project do not overlap.  A     *)
(* pass works on the copy of the project that the informer holds, which    *)
(* can be outdated, and saves its status once, at its end; an outdated     *)
(* save is refused, after the files are pushed and the run is submitted.   *)
(*                                                                         *)
(* A space has one dimension of each kind: an integer, a number and a      *)
(* categorical.  Numbers are integers here: Apply only compares them.      *)
(***************************************************************************)
EXTENDS Integers, FiniteSets

CONSTANTS
    RoundLimit,     \* bound: rounds submitted
    MaxConcurrent,  \* spec.loopConfig.maxConcurrentRuns
    EveryN, StagN,  \* defaultStrategistEveryN, defaultStrategistOnStagnation
    MaxFails,       \* spec.loopConfig.maxConsecutiveDrainFailures
    Loss,           \* the eval_loss values a run can report
    Default,        \* defaultQLoRASpace
    Adjust,         \* the adjust_search_space sections a file can hold
    Claim,          \* generated_after_round numbers a reply may make up
    Omitted,        \* an optional field that is not there
    NoConfig, NoLoss, NoRow, \* no proposal; no result; a result without a loss
    OldRounds,      \* rounds an operator older than the wiki commits ran
    MaxEdits,       \* bound: edits of people to the wiki and the project
    MaxFaults       \* bound: failing calls, crashes

IntSpec(V) == [low: V, high: V, step: V]
FloatSpec(V) == [low: V, high: V, log: BOOLEAN]

NumberAdjustment ==
    [low: Int \cup {Omitted}, high: Int \cup {Omitted},
     step: Int \cup {Omitted}, log: BOOLEAN \cup {Omitted}]

ASSUME SearchAssumption ==
    /\ RoundLimit \in Nat \ {0} /\ MaxConcurrent \in Nat \ {0}
    /\ EveryN \in Nat \ {0} /\ StagN \in Nat \ {0}
    /\ MaxFails \in Nat \ {0}
    /\ Loss \subseteq Int \ {0} /\ Claim \subseteq Nat
    /\ OldRounds \in 0..RoundLimit /\ MaxEdits \in Nat /\ MaxFaults \in Nat
    /\ Omitted \notin Int /\ Omitted \notin BOOLEAN
    /\ NoLoss \notin Int /\ NoRow \notin Int /\ NoLoss # NoRow

(***************************************************************************)
(* Hypotheses.Apply.  What a file asks of a number is cut down to what the *)
(* operator allows; what it asks of a categorical replaces the choices.    *)
(***************************************************************************)

\* What NewSearcher accepts.
ValidInt(s) == s.low <= s.high /\ s.step >= 0
ValidFloat(s) == s.low <= s.high /\ (s.log => s.low > 0)

Floor(spec, adj) ==
    IF adj.low = Omitted \/ adj.low < spec.low THEN spec.low ELSE adj.low

MutCeiling(spec, adj) ==
    IF adj.high = Omitted THEN spec.high ELSE adj.high
Ceiling(spec, adj) ==
    IF adj.high = Omitted \/ adj.high > spec.high THEN spec.high ELSE adj.high

ApplyToInt(spec, adj) ==
    LET out == [low |-> Floor(spec, adj), high |-> Ceiling(spec, adj),
                step |-> IF adj.step = Omitted \/ adj.step < 0
                         THEN spec.step ELSE adj.step]
    IN  IF out.low > out.high THEN spec ELSE out

ApplyToFloat(spec, adj) ==
    LET out == [low |-> Floor(spec, adj), high |-> Ceiling(spec, adj),
                log |-> IF adj.log = Omitted THEN spec.log ELSE adj.log]
    IN  IF (out.log /\ out.low <= 0) \/ out.low > out.high THEN spec ELSE out

ApplyToCategorical(choices, new) == IF new = {} THEN choices ELSE new

Apply(space, adj) ==
    [int    |-> ApplyToInt(space.int, adj.int),
     float  |-> ApplyToFloat(space.float, adj.float),
     choice |-> ApplyToCategorical(space.choice, adj.choice)]

ASSUME SpaceAssumption ==
    /\ Default.int \in IntSpec(Int) /\ ValidInt(Default.int)
    /\ Default.float \in FloatSpec(Int) /\ ValidFloat(Default.float)
    /\ Default.choice # {}
    /\ Default = [int |-> Default.int, float |-> Default.float,
                  choice |-> Default.choice]
    /\ \A a \in Adjust : /\ a.int \in NumberAdjustment
                         /\ a.float \in NumberAdjustment

-----------------------------------------------------------------------------
Round == 1..RoundLimit

Choice == Default.choice \cup UNION {a.choice : a \in Adjust}

Config == [int: Int, float: Int, choice: Choice]

ASSUME ConfigAssumption == NoConfig \notin Config

\* HYPOTHESES.md.  "of": the observations the turn that wrote it was told of,
\* -1 when a person wrote it; the code does not keep this.
NoFile == [kind |-> "none"]
Malformed(of) == [kind |-> "malformed", of |-> of]
Parsed(After, Of) ==
    [kind: {"parsed"}, after: After, adjust: Adjust, of: Of]

Hypotheses ==
    {NoFile} \cup [kind: {"malformed"}, of: Nat \cup {-1}]
      \cup Parsed(Nat, Nat \cup {-1})

\* What a pass reads of the project: spec.validationMode, and of the status
\* the round, openRuns, the rounds of recentRuns with an evalLoss, and
\* consecutiveDrainFailures.
Project ==
    {p \in [validation: BOOLEAN, round: 0..RoundLimit, open: SUBSET Round,
            usable: SUBSET Round, streak: Nat] :
        p.open \cup p.usable \subseteq 1..p.round}

NewProject(validation) ==
    [validation |-> validation, round |-> OldRounds, open |-> {},
     usable |-> 1..OldRounds, streak |-> 0]

VARIABLES
    proposal,   \* proposals/round-N.yaml
    result,     \* results/round-N.md
    hyp,        \* HYPOTHESES.md
    stored,     \* the project at the API server
    cached,     \* the informer's copy
    project,    \* the copy the pass works on
    stale,      \* stored was written since that copy was
    step,       \* where the pass of the reconciler is
    seen,       \* the observations the turn in progress was told of
    refs,       \* the KnowledgeBase and the workstation are there
    validated,  \* rounds submitted with the validation config
    edits, faults

vars == <<proposal, result, hyp, stored, cached, project, stale, step, seen,
          refs, validated, edits, faults>>
wiki == <<proposal, result, hyp>>
server == <<stored, cached, refs, validated>>
pass == <<project, stale>>

Step == {"idle", "drain", "backfill", "gate", "turn", "propose", "submit",
         "smoke"}

Fault == faults < MaxFaults /\ faults' = faults + 1

\* Between passes nothing is remembered.
Forgotten == NewProject(FALSE)

Init ==
    /\ proposal = [n \in Round |-> NoConfig]
    /\ result = [n \in Round |-> NoLoss]
    /\ hyp = NoFile
    /\ \E v \in BOOLEAN : stored = NewProject(v) /\ cached = NewProject(v)
    /\ project = Forgotten /\ stale = FALSE /\ refs \in BOOLEAN
    /\ step = "idle" /\ seen = 0 /\ validated = {}
    /\ edits = 0 /\ faults = 0

\* Status().Update: refused when the project was written in between.
Save(p) == stored' = IF stale THEN stored ELSE p

EndPass ==
    step' = "idle" /\ project' = Forgotten /\ stale' = FALSE /\ seen' = 0

-----------------------------------------------------------------------------
(* The history, LoadWikiHistory. *)

\* A round counts when both files are there and the result has a loss.
History ==
    {n \in Round : proposal[n] # NoConfig /\ result[n] \notin {NoLoss, NoRow}}

Observations == Cardinality(History)

\* The first of the best observations: only a strictly lower loss improves.
LastImproved ==
    CHOOSE n \in History :
        \A m \in History :
            result[n] < result[m] \/ (result[n] = result[m] /\ n <= m)

StagnationCount ==
    IF History = {} THEN 0
    ELSE Cardinality({n \in History : n > LastImproved})

-----------------------------------------------------------------------------
(* The pass: drain, gates, backfill, strategist, searcher, submission. *)

\* The informer hands out the copy it has, or it has caught up.
Reads(copy) ==
    /\ step = "idle" /\ step' = "drain"
    /\ project' = copy /\ cached' = copy /\ stale' = (copy # stored)
    /\ UNCHANGED <<wiki, stored, refs, validated, seen, edits, faults>>

Read == \E copy \in {cached, stored} : Reads(copy)

Settled(n, ok) ==
    [project EXCEPT !.open = @ \ {n},
                    !.usable = IF ok THEN @ \cup {n} ELSE @,
                    !.streak = IF ok THEN 0 ELSE @ + 1]

\* What a successful run is read to report: its loss, or 0 when its log has no
\* result line or cannot be read; a run drained again reports the same loss.
Reports(n) == {0} \cup IF result[n] \in Loss THEN {result[n]} ELSE Loss

\* The drain settles a run.  A failed run or one out of its budget reports
\* nothing.  The result of a successful one is pushed, the 0 of a line that was
\* not read too; the push can fail, and the loss is then only in the status.
Settle(n) ==
    /\ step = "drain" /\ n \in project.open
    /\ \/ project' = Settled(n, FALSE) /\ UNCHANGED <<result, faults>>
       \/ \E loss \in Reports(n) :
              /\ project' = Settled(n, loss # 0)
              /\ \/ result' = [result EXCEPT ![n] = loss] /\ UNCHANGED faults
                 \/ Fault /\ UNCHANGED result
    /\ UNCHANGED <<proposal, hyp, server, stale, step, seen, edits>>

\* At MaxConcurrentRuns the pass ends without a save.
Busy == Cardinality(project.open) >= MaxConcurrent

Wait ==
    /\ step = "drain" /\ project.round < RoundLimit /\ Busy
    /\ EndPass
    /\ UNCHANGED <<wiki, server, edits, faults>>

\* The circuit breaker: no new rounds until the status is reset.
Halted(p) == p.streak >= MaxFails

\* The gates that save: the last round, the breaker, validateRefs.
Halt ==
    /\ step = "drain"
    /\ project.round = RoundLimit \/ (~Busy /\ (Halted(project) \/ ~refs))
    /\ Save(project) /\ EndPass
    /\ UNCHANGED <<wiki, cached, refs, validated, edits, faults>>

MutBegin ==
    /\ step = "drain" /\ project.round <= RoundLimit
    /\ ~Busy /\ ~Halted(project) /\ refs
    /\ step' = "backfill"
    /\ UNCHANGED <<wiki, server, pass, seen, edits, faults>>
Begin ==
    /\ step = "drain" /\ project.round < RoundLimit
    /\ ~Busy /\ ~Halted(project) /\ refs
    /\ step' = "backfill"
    /\ UNCHANGED <<wiki, server, pass, seen, edits, faults>>

\* Rounds the status has a loss for and the wiki no proposal.
ToBackfill == {n \in project.usable : proposal[n] = NoConfig}

\* Each of ToBackfill is looked up in DSP by the RunID of its record, which is
\* a display name: DSP knows runs by another ID, the round is skipped with a
\* notice, and without a round restored nothing is committed.
Backfill ==
    /\ step = "backfill" /\ step' = "gate"
    /\ UNCHANGED <<wiki, server, pass, seen, edits, faults>>

\* ParseHypotheses gives the zero value for a file that does not parse.
LastRan == IF hyp.kind = "parsed" THEN hyp.after ELSE 0

\* StrategistDueReason.
Due ==
    \/ StagnationCount >= StagN /\ Observations - LastRan >= 1
    \/ Observations - LastRan >= EveryN

\* maybeRunStrategist: a wiki that cannot be read skips the strategist.
Gate ==
    /\ step = "gate"
    /\ \/ Due /\ step' = "turn" /\ seen' = Observations /\ UNCHANGED faults
       \/ ~Due /\ step' = "propose" /\ UNCHANGED <<seen, faults>>
       \/ Fault /\ step' = "propose" /\ UNCHANGED seen
    /\ UNCHANGED <<wiki, server, pass, edits>>

\* The reply of a turn that was told of "seen" observations.
Reply ==
    {NoFile, Malformed(seen)} \cup Parsed({seen} \cup Claim, {seen})

\* Only what parses, and is not empty, is committed.
MutAccepted(reply) == reply.kind # "none"
Accepted(reply) == reply.kind = "parsed"

TurnLands ==
    /\ step = "turn" /\ step' = "propose"
    /\ \E reply \in Reply : Accepted(reply) /\ hyp' = reply
    /\ seen' = 0
    /\ UNCHANGED <<proposal, result, server, pass, edits, faults>>

\* No gateway pod, an error or a timeout of the call, a reply that is empty or
\* malformed, a refused push: the failure is recorded and the pass goes on.
MutTurnFails ==
    /\ step = "turn" /\ EndPass
    /\ UNCHANGED <<wiki, server, edits, faults>>
TurnFails ==
    /\ step = "turn" /\ step' = "propose" /\ seen' = 0
    /\ UNCHANGED <<wiki, server, pass, edits, faults>>

\* A file that does not parse is ignored.
Space == IF hyp.kind = "parsed" THEN Apply(Default, hyp.adjust) ELSE Default

\* injectObservation fails on a categorical value that is not a choice.
Replayable == \A n \in History : proposal[n].choice \in Space.choice

\* Any numbers in the space; the same choice for the same choices, as the
\* generator that draws its index is seeded anew, from the project's UID.
Pick(choices) == CHOOSE c \in choices : TRUE

Suggestions ==
    {[int |-> i, float |-> f, choice |-> Pick(Space.choice)] :
        i \in {j \in Space.int.low..Space.int.high :
                   Space.int.step = 0 \/ (j - Space.int.low) % Space.int.step = 0},
        f \in Space.float.low..Space.float.high}

Propose ==
    /\ step = "propose" /\ step' = "submit"
    /\ ~project.validation /\ Replayable
    /\ \E config \in Suggestions :
           proposal' = [proposal EXCEPT ![project.round + 1] = config]
    /\ UNCHANGED <<result, hyp, server, pass, seen, edits, faults>>

\* spec.validationMode: a fixed config, and nothing about it in the wiki.
Validate ==
    /\ step = "propose" /\ step' = "smoke" /\ project.validation
    /\ UNCHANGED <<wiki, server, pass, seen, edits, faults>>

\* The searcher, the clone or the push fails: no round is submitted.
ProposeFails ==
    /\ step = "propose" /\ ~project.validation
    /\ \/ ~Replayable /\ UNCHANGED faults
       \/ Fault
    /\ Save(project) /\ EndPass
    /\ UNCHANGED <<wiki, cached, refs, validated, edits>>

Submitted ==
    [project EXCEPT !.round = @ + 1, !.open = @ \cup {project.round + 1}]

\* With an outdated copy the run is submitted and the status is not saved.
Submit ==
    /\ step \in {"submit", "smoke"}
    /\ Save(Submitted) /\ EndPass
    /\ validated' = IF stale THEN validated
                    ELSE IF step = "smoke" THEN validated \cup {project.round + 1}
                    ELSE validated \ {project.round + 1}
    /\ UNCHANGED <<wiki, cached, refs, edits, faults>>

SubmitFails ==
    /\ step \in {"submit", "smoke"} /\ Fault
    /\ Save(project) /\ EndPass
    /\ UNCHANGED <<wiki, cached, refs, validated, edits>>

\* The operator stops in whatever it was doing, or its save fails, the run
\* submitted or not.
Abort ==
    /\ step # "idle" /\ Fault /\ EndPass
    /\ UNCHANGED <<wiki, server, edits>>

-----------------------------------------------------------------------------
(* People edit the wiki and the project at any moment. *)

Edit == edits < MaxEdits /\ edits' = edits + 1

EditHypotheses ==
    /\ Edit
    /\ hyp' \in {NoFile, Malformed(-1)} \cup Parsed(Claim, {-1})
    /\ UNCHANGED <<proposal, result, server, pass, step, seen, faults>>

\* A revert of a part of a result takes its table.
EditResult(n) ==
    /\ Edit
    /\ result[n] # NoLoss /\ result' = [result EXCEPT ![n] = NoRow]
    /\ UNCHANGED <<proposal, hyp, server, pass, step, seen, faults>>

\* The reset of the breaker, or spec.validationMode switched: both write the
\* project, and what a pass under way read of it is outdated.
EditProject ==
    /\ Edit
    /\ \/ stored.streak # 0 /\ stored' = [stored EXCEPT !.streak = 0]
       \/ stored' = [stored EXCEPT !.validation = ~@]
    /\ cached' \in {cached, stored}
    /\ stale' = (step # "idle")
    /\ UNCHANGED <<wiki, refs, validated, project, step, seen, faults>>

\* The KnowledgeBase or the workstation is deleted or made.
EditRefs ==
    /\ Edit /\ refs' = ~refs
    /\ UNCHANGED <<wiki, stored, cached, validated, pass, step, seen, faults>>

Reconcile ==
    \/ Read \/ Wait \/ Halt \/ Begin \/ Backfill \/ Gate \/ TurnLands \/ TurnFails
    \/ Propose \/ Validate \/ ProposeFails \/ Submit \/ SubmitFails

Next ==
    \/ Reconcile \/ Abort
    \/ \E n \in Round : Settle(n) \/ EditResult(n)
    \/ EditHypotheses \/ EditProject \/ EditRefs

Spec == Init /\ [][Next]_vars

\* The reconciler is called again after every pass, every run ends or is given
\* up after its budget, so that the drain of some pass settles it, and the
\* informer catches up, so that some pass reads what is stored.
FairSpec ==
    /\ Spec
    /\ WF_vars(Reconcile) /\ SF_vars(Reads(stored))
    /\ SF_vars(\E n \in Round : Settle(n))

-----------------------------------------------------------------------------
TypeOK ==
    /\ proposal \in [Round -> Config \cup {NoConfig}]
    /\ result \in [Round -> Loss \cup {0, NoLoss, NoRow}]
    /\ hyp \in Hypotheses
    /\ stored \in Project /\ cached \in Project /\ project \in Project
    /\ stale \in BOOLEAN /\ refs \in BOOLEAN /\ validated \subseteq Round
    /\ step \in Step
    /\ step \notin {"idle", "drain"} => project.round < RoundLimit
    /\ seen \in Nat /\ edits \in 0..MaxEdits /\ faults \in 0..MaxFaults

\* Every config that is ever proposed has its numbers inside the space the
\* operator defined, whatever a model or a person writes into HYPOTHESES.md
\* (hypotheses.go: "bounds must be a SUB-range of the original").
ConfigsInSpace ==
    \A n \in Round : proposal[n] # NoConfig =>
        /\ proposal[n].int \in Default.int.low..Default.int.high
        /\ proposal[n].float \in Default.float.low..Default.float.high

\* The number in the file is the number of observations it was written for.
Honest == hyp.kind = "parsed" => hyp.after = hyp.of

\* The strategist is not asked twice about the same observations: a file of
\* its own replaces another one only when there are more observations than
\* the other one was written for (the cadence and stagnation
\* gates keep no state of their own but the file).
StrategistPaced ==
    [][TurnLands /\ hyp.kind # "none" /\ Honest => seen > hyp.of]_vars

\* The loop goes on, also when every turn of the strategist fails, a copy is
\* outdated or a save is refused: all rounds get submitted (search.go: "The
\* kernel turns even when every Codex API call is failing"), unless the
\* circuit breaker is left open or what the project refers to is not there.
KernelTurns ==
    <>[](stored.round = RoundLimit \/ Halted(stored) \/ ~refs)

-----------------------------------------------------------------------------
(* Properties the code does not have; the README says why. *)

\* After the backfill the wiki has a proposal for every recorded loss.
HistoryRestored == step = "gate" => ToBackfill = {}

\* A loss the status records gets into the history.
LossesSeen == \A n \in Round : n \in stored.usable ~> n \in History
=============================================================================
