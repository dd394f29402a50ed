------------------------- MODULE AutoResearchLoop -------------------------
(***************************************************************************)
(* The round clock of one AutoResearchProject: the reconciler that drains  *)
(* finished DSP runs, culls runs of a stale pipeline version, passes its   *)
(* gates, pushes a proposal to the wiki, submits the next run and saves    *)
(* the status it worked on.  One reconcile is a sequence of steps of the   *)
(* controller; between any two of them a run may end, a human may patch    *)
(* the status, the trainer image may change, or the operator may crash.    *)
(*                                                                         *)
(* The display ID "<project>-round-N" is represented by N itself, and a    *)
(* map keyed by display ID by a function on Round.                         *)
(***************************************************************************)
EXTENDS Integers, FiniteSets

CONSTANTS
    RunId,              \* the run IDs DSP issues
    Config,             \* the QLoRA configurations the searcher can return
    Loss,               \* the eval_loss values a trainer can report
    Version,            \* the pipeline contents that can be deployed
    RoundLimit,         \* bound of the model: rounds a project gets to
    MaxTotal,           \* spec.loopConfig.maxTotalExperiments
    MaxConcurrent,      \* spec.loopConfig.maxConcurrentRuns
    MaxDrainFailures,   \* spec.loopConfig.maxConsecutiveDrainFailures
    ValidationMode,     \* spec.validationMode
    Minimize,           \* spec.eval.direction = "minimize"
    NoRun, NoConfig, NoVersion,
    Faults              \* which of FaultClass the environment exhibits

(***************************************************************************)
(* crash: the operator stops between two steps.  stale: the informer cache *)
(* lags the API server.  conflict: somebody else writes the object during  *)
(* a reconcile.  transient: a call to DSP, the wiki, Kubernetes or a pod   *)
(* log fails, or takes effect and its answer is lost.  prune: DSP's record *)
(* of a run disappears.  silent: a trainer ends without a result line.     *)
(* rollback: a pipeline content deployed before is deployed again.         *)
(***************************************************************************)
FaultClass ==
    {"crash", "stale", "conflict", "transient", "prune", "silent", "rollback"}

ASSUME LoopAssumption ==
    /\ RoundLimit \in Nat \ {0} /\ MaxTotal \in Nat \ {0}
    /\ MaxConcurrent \in Nat \ {0} /\ MaxDrainFailures \in Nat \ {0}
    /\ Loss \subseteq Nat \ {0}
    /\ NoRun \notin RunId /\ NoConfig \notin Config /\ NoVersion \notin Version
    /\ ValidationMode \in BOOLEAN /\ Minimize \in BOOLEAN
    /\ Faults \subseteq FaultClass

Round == 1..RoundLimit

NoLoss == -1        \* no AUTORESEARCH_RESULT= line was read
ZeroLoss == 0       \* the zero value of evalLoss, written when none was read

RunState == {"absent", "running", "succeeded", "failed", "deleted"}
Terminal == {"succeeded", "failed"}
Outcome  == {"none", "open", "measured", "failed", "superseded"}
Phase    == {"", "Pending", "Running", "Completed", "Failed"}
Step     == {"idle", "drain", "register", "cull", "gate", "propose", "submit", "save"}

VARIABLES
    (***********************************************************************)
    (* Outside the operator: the API server, DSP, the wiki, the deployment *)
    (***********************************************************************)
    store,          \* status of the project at the API server
    cache,          \* the informer's copy of it
    cacheBehind,    \* the copy has an older resourceVersion
    dsp,            \* DSP's record of every run
    late,           \* rounds open longer than maxRoundDurationMinutes
    wiki,           \* proposals/ and results/ on the remote branch
    deployed,       \* the pipeline content the project resolves to now
    known, latest,  \* the versions DSP holds, and the last one uploaded
    (***********************************************************************)
    (* The reconcile under way                                             *)
    (***********************************************************************)
    pc,
    mem,            \* the project object the reconcile works on
    memBehind,      \* the object was written since it was read
    todo,           \* rounds the loop over OpenRuns has not visited
    completed,      \* completedThisPass
    target,         \* currentVersionID
    proposal        \* the config requestProposal returned

envVars  == <<deployed, known, latest>>
passVars == <<pc, mem, memBehind, todo, completed, target, proposal>>
vars == <<store, cache, cacheBehind, dsp, late, wiki, deployed, known, latest,
          pc, mem, memBehind, todo, completed, target, proposal>>

-----------------------------------------------------------------------------
(* The status of the project.  outcome records how a round last appeared   *)
(* in the status: it stands for the RecentRuns records without their bound.*)

Status ==
    [round: 0..RoundLimit, open: [Round -> RunId \cup {NoRun}],
     timed: SUBSET Round, outcome: [Round -> Outcome],
     evalLoss: [Round -> Loss \cup {NoLoss}], run: Nat, kept: Nat,
     best: Loss \cup {NoLoss}, bestRound: 0..RoundLimit,
     fails: Nat, phase: Phase]

NewStatus ==
    [round |-> 0, open |-> [r \in Round |-> NoRun], timed |-> {},
     outcome |-> [r \in Round |-> "none"],
     evalLoss |-> [r \in Round |-> NoLoss], run |-> 0, kept |-> 0,
     best |-> NoLoss, bestRound |-> 0, fails |-> 0, phase |-> ""]

OpenRounds(s) == {r \in Round : s.open[r] # NoRun}
Settled == {"measured", "failed", "superseded"}

\* Mutant: the direction of the comparison is reversed.
MutIsImprovement(s, loss) ==
    \/ s.best = NoLoss
    \/ IF Minimize THEN loss > s.best ELSE loss < s.best

IsImprovement(s, loss) ==
    \/ s.best = NoLoss
    \/ IF Minimize THEN loss < s.best ELSE loss > s.best

\* Mutant: a run without a result is not counted as run.
MutDrainedUncounted(s, r, loss) ==
    LET ok   == loss # NoLoss
        kept == ok /\ IsImprovement(s, loss)
    IN [s EXCEPT !.open[r] = NoRun, !.timed = @ \ {r},
                 !.outcome[r] = IF ok THEN "measured" ELSE "failed",
                 !.evalLoss[r] = loss,
                 !.run = IF ok THEN @ + 1 ELSE @,
                 !.kept = IF kept THEN @ + 1 ELSE @,
                 !.best = IF kept THEN loss ELSE @,
                 !.bestRound = IF kept THEN r ELSE @,
                 !.fails = IF ok THEN 0 ELSE @ + 1]

\* Mutant: a run without a result is recorded with the zero value.
MutDrainedZero(s, r, loss) ==
    [s EXCEPT !.open[r] = NoRun, !.timed = @ \ {r}, !.outcome[r] = "measured",
              !.evalLoss[r] = IF loss = NoLoss THEN ZeroLoss ELSE loss,
              !.run = @ + 1]

\* Mutant: the drained run is left in OpenRuns.
MutDrainedKept(s, r, loss) ==
    [s EXCEPT !.outcome[r] = IF loss = NoLoss THEN "failed" ELSE "measured",
              !.run = @ + 1]

\* The bookkeeping of drainOpenJobs for one terminal run; loss is NoLoss
\* when no result was read (drainOK is false).
Drained(s, r, loss) ==
    LET ok   == loss # NoLoss
        kept == ok /\ IsImprovement(s, loss)
    IN [s EXCEPT !.open[r] = NoRun,
                 !.timed = @ \ {r},
                 !.outcome[r] = IF ok THEN "measured" ELSE "failed",
                 !.evalLoss[r] = loss,
                 !.run = @ + 1,
                 !.kept = IF kept THEN @ + 1 ELSE @,
                 !.best = IF kept THEN loss ELSE @,
                 !.bestRound = IF kept THEN r ELSE @,
                 !.fails = IF ok THEN 0 ELSE @ + 1]

\* The bookkeeping of cullStaleOpenRuns: OpenRunStartedAt keeps its entry.
Superseded(s, r) ==
    [s EXCEPT !.open[r] = NoRun, !.outcome[r] = "superseded"]

\* The bookkeeping after a successful submit of round r as run id.
Submitted(s, r, id) ==
    [s EXCEPT !.round = r, !.open[r] = id, !.timed = @ \cup {r},
              !.outcome[r] = "open", !.phase = "Running"]

\* The registry: FindOrCreatePipeline uploads a content DSP does not hold.
Register ==
    /\ known' = known \cup {deployed}
    /\ latest' = IF deployed \in known THEN latest ELSE deployed
    /\ UNCHANGED deployed

-----------------------------------------------------------------------------
NoRunRecord ==
    [state |-> "absent", round |-> 0, version |-> NoVersion,
     config |-> NoConfig, loss |-> NoLoss]

NoResult == [loss |-> NoLoss, run |-> NoRun]

Init ==
    /\ store = NewStatus /\ cache = NewStatus /\ cacheBehind = FALSE
    /\ dsp = [id \in RunId |-> NoRunRecord]
    /\ late = {}
    /\ wiki = [proposal |-> [r \in Round |-> NoConfig],
               result |-> [r \in Round |-> NoResult]]
    /\ deployed \in Version /\ known = {} /\ latest = NoVersion
    /\ pc = "idle" /\ mem = NewStatus /\ memBehind = FALSE
    /\ todo = {} /\ completed = FALSE /\ target = NoVersion
    /\ proposal = NoConfig

\* The reconcile returns; nothing of its local state survives.
Return ==
    /\ pc' = "idle" /\ mem' = NewStatus /\ memBehind' = FALSE
    /\ todo' = {} /\ completed' = FALSE /\ target' = NoVersion
    /\ proposal' = NoConfig

\* Another writer or this one replaced the stored object: copies read
\* before the write carry an older resourceVersion.  Without the stale
\* fault the cache follows at once.
Written(s) ==
    /\ store' = s
    /\ IF "stale" \in Faults
       THEN cacheBehind' = TRUE /\ UNCHANGED cache
       ELSE cache' = s /\ UNCHANGED cacheBehind

-----------------------------------------------------------------------------
(* The reconcile, step by step                                             *)

\* r.Get from the informer cache, and the start of drainOpenJobs.
Begin ==
    /\ pc = "idle"
    /\ pc' = "drain"
    /\ mem' = cache
    /\ memBehind' = cacheBehind
    /\ todo' = OpenRounds(cache)
    /\ UNCHANGED <<store, cache, cacheBehind, dsp, late, wiki, envVars,
                   completed, target, proposal>>

\* dspClientFor fails: the open runs stay for the next reconcile.
DrainUnreachable ==
    /\ "transient" \in Faults
    /\ pc = "drain"
    /\ pc' = "register"
    /\ todo' = {}
    /\ UNCHANGED <<store, cache, cacheBehind, dsp, late, wiki, envVars, mem,
                   memBehind, completed, target, proposal>>

\* Mutant: a run over its budget is kept as well.
MutDrainKeep(r) ==
    /\ pc = "drain" /\ r \in todo
    /\ dsp[mem.open[r]].state \in {"running", "deleted"}
    /\ todo' = todo \ {r}
    /\ UNCHANGED <<store, cache, cacheBehind, dsp, late, wiki, envVars, pc,
                   mem, memBehind, completed, target, proposal>>

\* GetRun fails, or the run is in flight and within its budget.
DrainKeep(r) ==
    /\ pc = "drain" /\ r \in todo
    /\ LET run == dsp[mem.open[r]] IN
       \/ run.state = "deleted"
       \/ "transient" \in Faults
       \/ run.state = "running" /\ ~(r \in mem.timed /\ r \in late)
    /\ todo' = todo \ {r}
    /\ UNCHANGED <<store, cache, cacheBehind, dsp, late, wiki, envVars, pc,
                   mem, memBehind, completed, target, proposal>>

\* Mutant: the result is filed under the current round, not the run's.
MutResultPushed(r, loss) ==
    wiki' = [wiki EXCEPT !.result[mem.round] =
                [loss |-> IF loss = NoLoss THEN ZeroLoss ELSE loss,
                 run |-> mem.open[r]]]

\* The wiki after wikiPushResult for round r and the run that gave loss.
\* A push can fail; the drain goes on regardless (WikiSyncOK=False).
ResultPushed(r, loss) ==
    \/ wiki' = [wiki EXCEPT !.result[r] =
                   [loss |-> IF loss = NoLoss THEN ZeroLoss ELSE loss,
                    run |-> mem.open[r]]]
    \/ "transient" \in Faults /\ UNCHANGED wiki

\* What readFullResultFromDSPRun can return for a run.
Readable(id) ==
    {dsp[id].loss} \cup (IF "transient" \in Faults THEN {NoLoss} ELSE {})

\* A terminal run is recorded.  Only SUCCEEDED reads a result and pushes it.
DrainTerminal(r) ==
    /\ pc = "drain" /\ r \in todo
    /\ \/ /\ dsp[mem.open[r]].state = "succeeded"
          /\ \E loss \in Readable(mem.open[r]) :
                /\ mem' = Drained(mem, r, loss)
                /\ ResultPushed(r, loss)
       \/ /\ dsp[mem.open[r]].state = "failed"
          /\ mem' = Drained(mem, r, NoLoss)
          /\ UNCHANGED wiki
    /\ todo' = todo \ {r}
    /\ completed' = TRUE
    /\ UNCHANGED <<store, cache, cacheBehind, dsp, late, envVars, pc,
                   memBehind, target, proposal>>

\* Mutant: the trainer of a run over its budget is left alone.
MutDrainOverdue(r) ==
    /\ pc = "drain" /\ r \in todo
    /\ dsp[mem.open[r]].state = "running"
    /\ r \in mem.timed /\ r \in late
    /\ mem' = Drained(mem, r, NoLoss)
    /\ todo' = todo \ {r}
    /\ completed' = TRUE
    /\ UNCHANGED <<store, cache, cacheBehind, dsp, late, wiki, envVars, pc,
                   memBehind, target, proposal>>

\* killTrainerPodsForRun: with its pod gone the run ends in failure; any
\* refused request leaves the pod where it is.
TrainerKilled(run) ==
    \/ dsp' = [dsp EXCEPT ![run].state = "failed"]
    \/ "transient" \in Faults /\ UNCHANGED dsp

\* The watchdog: a run over its budget counts as FAILED and its trainer
\* pods are deleted, best effort.
DrainOverdue(r) ==
    /\ pc = "drain" /\ r \in todo
    /\ dsp[mem.open[r]].state = "running"
    /\ r \in mem.timed /\ r \in late
    /\ mem' = Drained(mem, r, NoLoss)
    /\ TrainerKilled(mem.open[r])
    /\ todo' = todo \ {r}
    /\ completed' = TRUE
    /\ UNCHANGED <<store, cache, cacheBehind, late, wiki, envVars, pc,
                   memBehind, target, proposal>>

DrainEnd ==
    /\ pc = "drain" /\ todo = {}
    /\ pc' = "register"
    /\ UNCHANGED <<store, cache, cacheBehind, dsp, late, wiki, envVars, mem,
                   memBehind, todo, completed, target, proposal>>

\* ensureDSPRegistration, then the loop of cullStaleOpenRuns.
RegisterVersion ==
    /\ pc = "register"
    /\ pc' = "cull"
    /\ Register
    /\ target' = deployed
    /\ todo' = OpenRounds(mem)
    /\ UNCHANGED <<store, cache, cacheBehind, dsp, late, wiki, mem, memBehind,
                   completed, proposal>>

\* DSP rejects the upload, or fails after it: culling is skipped.
RegisterFails ==
    /\ "transient" \in Faults
    /\ pc = "register"
    /\ pc' = "gate"
    /\ Register \/ UNCHANGED envVars
    /\ UNCHANGED <<store, cache, cacheBehind, dsp, late, wiki, mem,
                   memBehind, todo, completed, target, proposal>>

\* The run's record cannot be read, or it is on the current version.
CullKeep(r) ==
    /\ pc = "cull" /\ r \in todo
    /\ \/ dsp[mem.open[r]].state = "deleted"
       \/ "transient" \in Faults
       \/ dsp[mem.open[r]].version = target
    /\ todo' = todo \ {r}
    /\ UNCHANGED <<store, cache, cacheBehind, dsp, late, wiki, envVars, pc,
                   mem, memBehind, completed, target, proposal>>

\* The workflow and the DSP record are deleted, both best effort, and the
\* run leaves OpenRuns.  The run's state is not looked at.
Cull(r) ==
    /\ pc = "cull" /\ r \in todo
    /\ LET id == mem.open[r] IN
       /\ dsp[id].state # "deleted" /\ dsp[id].version # target
       /\ \E s \in {"deleted"} \cup
                   (IF "transient" \in Faults THEN {"failed", dsp[id].state} ELSE {}) :
             dsp' = [dsp EXCEPT ![id].state = s]
    /\ mem' = Superseded(mem, r)
    /\ todo' = todo \ {r}
    /\ completed' = TRUE
    /\ UNCHANGED <<store, cache, cacheBehind, late, wiki, envVars, pc,
                   memBehind, target, proposal>>

CullEnd ==
    /\ pc = "cull" /\ todo = {}
    /\ pc' = "gate"
    /\ UNCHANGED <<store, cache, cacheBehind, dsp, late, wiki, envVars, mem,
                   memBehind, todo, completed, target, proposal>>

-----------------------------------------------------------------------------
(* The gates, in the order of the code; a gate that does not save returns  *)
(* with what the drain and the cull did to mem unsaved.                    *)

\* markPhaseAndSave: the phase is set, and the status is saved.
Mark(phase) ==
    /\ mem' = [mem EXCEPT !.phase = phase]
    /\ pc' = "save"
    /\ UNCHANGED <<store, cache, cacheBehind, dsp, late, envVars,
                   memBehind, todo, completed, target, proposal>>

BudgetSpent(s) == s.run >= MaxTotal
\* Mutant: one run too many fits.
MutAtCapacity(s) == Cardinality(OpenRounds(s)) > MaxConcurrent

AtCapacity(s)  == Cardinality(OpenRounds(s)) >= MaxConcurrent
BreakerOpen(s) == s.fails >= MaxDrainFailures

\* Mutant: the end of the budget returns like the cadence does, unsaved.
MutGateCompleted ==
    /\ pc = "gate" /\ BudgetSpent(mem)
    /\ Return
    /\ UNCHANGED <<store, cache, cacheBehind, dsp, late, wiki, envVars>>

GateCompleted ==
    /\ pc = "gate" /\ BudgetSpent(mem)
    /\ Mark("Completed")
    /\ UNCHANGED wiki

\* LastCycleTime is set (a round was submitted) and cadenceMinutes have not
\* passed since; a pass that drained or culled ignores the cadence.
GateCadence ==
    /\ pc = "gate" /\ ~BudgetSpent(mem)
    /\ ~completed /\ mem.round > 0
    /\ Return
    /\ UNCHANGED <<store, cache, cacheBehind, dsp, late, wiki, envVars>>

GateCapacity ==
    /\ pc = "gate" /\ ~BudgetSpent(mem)
    /\ AtCapacity(mem)
    /\ Return
    /\ UNCHANGED <<store, cache, cacheBehind, dsp, late, wiki, envVars>>

GateBreaker ==
    /\ pc = "gate" /\ ~BudgetSpent(mem) /\ ~AtCapacity(mem)
    /\ BreakerOpen(mem)
    /\ Mark("Failed")
    /\ UNCHANGED wiki

GatePass ==
    /\ pc = "gate"
    /\ ~BudgetSpent(mem) /\ ~AtCapacity(mem) /\ ~BreakerOpen(mem)
    /\ pc' = "propose"
    /\ UNCHANGED <<store, cache, cacheBehind, dsp, late, wiki, envVars, mem,
                   memBehind, todo, completed, target, proposal>>

\* Bound of the model: no round number or no run ID is left.
Exhausted ==
    \/ mem.round >= RoundLimit
    \/ \A id \in RunId : dsp[id].state # "absent"

\* validateRefs: the KnowledgeBase or the experimenter is missing.
RefsMissing ==
    /\ "transient" \in Faults
    /\ pc = "propose"
    /\ Mark("Pending")
    /\ UNCHANGED wiki

\* wikiPushProposal for the next round.
ProposalPushed(c) == wiki' = [wiki EXCEPT !.proposal[mem.round + 1] = c]

\* requestProposal: the searcher's config is committed and pushed.  The
\* config follows from the wiki's history and HYPOTHESES.md, which the
\* strategist's LLM rewrites at will: any config can come out.
Propose ==
    /\ pc = "propose" /\ ~Exhausted
    /\ \E c \in Config :
          /\ proposal' = c
          /\ IF ValidationMode THEN UNCHANGED wiki ELSE ProposalPushed(c)
    /\ pc' = "submit"
    /\ UNCHANGED <<store, cache, cacheBehind, dsp, late, envVars, mem,
                   memBehind, todo, completed, target>>

\* The clone or the push fails; a push can have landed all the same.
ProposeFails ==
    /\ pc = "propose"
    /\ \/ Exhausted /\ UNCHANGED wiki
       \/ /\ "transient" \in Faults /\ ~Exhausted /\ ~ValidationMode
          /\ \/ UNCHANGED wiki
             \/ \E c \in Config : ProposalPushed(c)
    /\ Mark("Running")

RunRecord == [state |-> "running", round |-> mem.round + 1, version |-> latest',
              config |-> proposal, loss |-> NoLoss]

\* submitDSPRun: registration again, then CreateRun, which names a pipeline
\* but no version and so gets the last one uploaded; then the bookkeeping.
Submit ==
    /\ pc = "submit"
    /\ Register
    /\ \E id \in RunId :
          /\ dsp[id].state = "absent"
          /\ dsp' = [dsp EXCEPT ![id] = RunRecord]
          /\ mem' = Submitted(mem, mem.round + 1, id)
    /\ pc' = "save"
    /\ UNCHANGED <<store, cache, cacheBehind, late, wiki, memBehind, todo,
                   completed, target, proposal>>

\* The submission fails; DSP can have created the run all the same.
SubmitFails ==
    /\ "transient" \in Faults
    /\ pc = "submit"
    /\ \/ UNCHANGED <<dsp, envVars>>
       \/ /\ Register
          /\ \E id \in RunId :
                /\ dsp[id].state = "absent"
                /\ dsp' = [dsp EXCEPT ![id] = RunRecord]
    /\ mem' = [mem EXCEPT !.phase = "Running"]
    /\ pc' = "save"
    /\ UNCHANGED <<store, cache, cacheBehind, late, wiki, memBehind, todo,
                   completed, target, proposal>>

\* Mutant: the update does not compare resource versions.
MutSave ==
    /\ pc = "save"
    /\ Written(mem)
    /\ late' = late \cap OpenRounds(mem)
    /\ Return
    /\ UNCHANGED <<dsp, wiki, envVars>>

\* Status().Update: refused when mem has an older resourceVersion.
Save ==
    /\ pc = "save" /\ ~memBehind
    /\ Written(mem)
    /\ late' = late \cap OpenRounds(mem)
    /\ Return
    /\ UNCHANGED <<dsp, wiki, envVars>>

SaveRefused ==
    /\ pc = "save"
    /\ memBehind \/ "transient" \in Faults
    /\ Return
    /\ UNCHANGED <<store, cache, cacheBehind, dsp, late, wiki, envVars>>

-----------------------------------------------------------------------------
(* The environment                                                         *)

Crash ==
    /\ "crash" \in Faults
    /\ pc # "idle"
    /\ Return
    /\ UNCHANGED <<store, cache, cacheBehind, dsp, late, wiki, envVars>>

CacheSync ==
    /\ cacheBehind
    /\ cache' = store /\ cacheBehind' = FALSE
    /\ UNCHANGED <<store, dsp, late, wiki, envVars, passVars>>

\* The documented reset of the breaker: a human patches the status.
HumanReset ==
    /\ pc = "idle" \/ "conflict" \in Faults
    /\ store.fails > 0
    /\ Written([store EXCEPT !.fails = 0])
    /\ memBehind' = (pc # "idle")
    /\ UNCHANGED <<dsp, late, wiki, envVars, pc, mem, todo, completed, target,
                   proposal>>

\* Any other write of the object (spec, metadata) during a reconcile.
ConcurrentWrite ==
    /\ "conflict" \in Faults
    /\ pc # "idle" /\ ~memBehind
    /\ Written(store)
    /\ memBehind' = TRUE
    /\ UNCHANGED <<dsp, late, wiki, envVars, pc, mem, todo, completed, target,
                   proposal>>

RunEnds(id) ==
    /\ dsp[id].state = "running"
    /\ \/ \E loss \in Loss \cup (IF "silent" \in Faults THEN {NoLoss} ELSE {}) :
             dsp' = [dsp EXCEPT ![id].state = "succeeded", ![id].loss = loss]
       \/ dsp' = [dsp EXCEPT ![id].state = "failed"]
    /\ UNCHANGED <<store, cache, cacheBehind, late, wiki, envVars, passVars>>

RunPruned(id) ==
    /\ "prune" \in Faults
    /\ dsp[id].state \in Terminal
    /\ dsp' = [dsp EXCEPT ![id].state = "deleted"]
    /\ UNCHANGED <<store, cache, cacheBehind, late, wiki, envVars, passVars>>

\* maxRoundDurationMinutes pass since the submission of an open round.
BudgetElapses(r) ==
    /\ r \in OpenRounds(store) \ late
    /\ late' = late \cup {r}
    /\ UNCHANGED <<store, cache, cacheBehind, dsp, wiki, envVars, passVars>>

\* A new operator version or trainer image: resolveTrainerImage and the
\* embedded pipeline.yaml give another content.
Deploy ==
    /\ \E v \in Version \ {deployed} :
          /\ "rollback" \in Faults \/ v \notin known
          /\ deployed' = v
    /\ UNCHANGED <<store, cache, cacheBehind, dsp, late, wiki, known, latest,
                   passVars>>

-----------------------------------------------------------------------------
Drain(r) == DrainKeep(r) \/ DrainTerminal(r) \/ DrainOverdue(r)

Gate ==
    \/ GateCompleted \/ GateCadence \/ GateCapacity \/ GateBreaker \/ GatePass

Reconcile ==
    \/ Begin
    \/ DrainUnreachable
    \/ \E r \in todo : Drain(r)
    \/ DrainEnd
    \/ RegisterVersion
    \/ RegisterFails
    \/ \E r \in todo : CullKeep(r) \/ Cull(r)
    \/ CullEnd
    \/ Gate
    \/ RefsMissing
    \/ Propose
    \/ ProposeFails
    \/ Submit
    \/ SubmitFails
    \/ Save
    \/ SaveRefused

Environment ==
    \/ Crash
    \/ CacheSync
    \/ HumanReset
    \/ ConcurrentWrite
    \/ \E id \in RunId : RunEnds(id) \/ RunPruned(id)
    \/ \E r \in Round : BudgetElapses(r)
    \/ Deploy

Next == Reconcile \/ Environment

Spec == Init /\ [][Next]_vars

(***************************************************************************)
(* controller-runtime requeues every project whatever its reconcile        *)
(* returned, so the controller never stops taking steps; the watch and the *)
(* clock go on.  Nothing is assumed of the runs: a trainer may hang.       *)
(***************************************************************************)
FairSpec ==
    /\ Spec
    /\ WF_vars(Reconcile)
    /\ WF_vars(CacheSync)
    /\ \A r \in Round : WF_vars(BudgetElapses(r))
-----------------------------------------------------------------------------
(* Properties.  A status exists in three copies: at the API server, in the *)
(* informer and in the hands of the reconcile.                             *)

Copies == {store, cache, mem}

\* Every variable stays in its type: in particular the loop never numbers a
\* round past the last one, and never holds a run it does not know the round of.
TypeOK ==
    /\ Copies \subseteq Status
    /\ cacheBehind \in BOOLEAN /\ memBehind \in BOOLEAN /\ completed \in BOOLEAN
    /\ dsp \in [RunId -> [state: RunState, round: 0..RoundLimit,
                         version: Version \cup {NoVersion},
                         config: Config \cup {NoConfig}, loss: Loss \cup {NoLoss}]]
    /\ wiki \in [proposal: [Round -> Config \cup {NoConfig}],
                 result: [Round -> [loss: Loss \cup {NoLoss, ZeroLoss},
                                    run: RunId \cup {NoRun}]]]
    /\ late \subseteq Round /\ todo \subseteq Round
    /\ deployed \in Version /\ known \subseteq Version
    /\ {latest, target} \subseteq Version \cup {NoVersion}
    /\ pc \in Step /\ proposal \in Config \cup {NoConfig}

Counted(s) == {r \in Round : s.outcome[r] \in {"measured", "failed"}}

\* No round is lost and none is counted twice: the rounds that were ever
\* submitted are 1..round, those in OpenRuns are exactly the unsettled ones,
\* and ExperimentsRun is the number of the drained ones.  A drain, a cull, a
\* submission and a save that does not land must all keep the books together.
Accounted(s) ==
    /\ {r \in Round : s.outcome[r] # "none"} = 1..s.round
    /\ {r \in Round : s.outcome[r] = "open"} = OpenRounds(s)
    /\ s.run = Cardinality(Counted(s))

RoundsAccounted == \A s \in Copies : Accounted(s)

\* maxConcurrentRuns bounds the open runs, and what maxTotalExperiments lets
\* through is bounded too: it is compared with the drained runs, so the runs
\* still open come on top, one fewer than maxConcurrentRuns of them.
WithinBudget(s) ==
    /\ Cardinality(OpenRounds(s)) <= MaxConcurrent
    /\ s.run + Cardinality(OpenRounds(s)) <= MaxTotal + MaxConcurrent - 1

SubmissionsWithinBudget == \A s \in Copies : WithinBudget(s)

Measured(s) == {r \in Round : s.outcome[r] = "measured"}

\* BestEvalLoss is the best of the losses ever measured and BestRunID a run
\* that measured it, in whatever order concurrent runs are drained.
IsBest(s) ==
    IF Measured(s) = {}
    THEN s.best = NoLoss /\ s.kept = 0
    ELSE /\ s.bestRound \in Measured(s)
         /\ s.best = s.evalLoss[s.bestRound]
         /\ \A r \in Measured(s) :
               IF Minimize THEN s.best <= s.evalLoss[r]
                           ELSE s.best >= s.evalLoss[r]
         /\ s.kept \in 1..Cardinality(Measured(s))

BestIsBest == \A s \in Copies : IsBest(s)

\* The gates that return without saving (cadence, capacity) never throw away
\* the bookkeeping of a drain or a cull, whose wiki commits and deletions are
\* already made: whenever something was settled, there is capacity.
GatesKeepWork ==
    pc = "gate" /\ completed => ~AtCapacity(mem)

\* What the history loader pairs is what was run: the result of a round comes
\* from a run of the very config its proposal names, although a proposal is
\* pushed before the run is submitted and the submission may get lost.
ResultsPaired ==
    \A r \in Round :
        LET id == wiki.result[r].run IN
        id = NoRun \/ ValidationMode \/ dsp[id].config = wiki.proposal[r]

\* The wiki holds no loss that no trainer reported: a round that ended without
\* a result line leaves no usable observation behind.
ResultsMeasured ==
    \A r \in Round :
        LET id == wiki.result[r].run IN
        id = NoRun \/ wiki.result[r].loss = dsp[id].loss

\* As long as no reconcile is cut short, a round is submitted to DSP once.
OneRunPerRound ==
    \A i, j \in RunId :
        dsp[i].state # "absent" /\ dsp[i].round = dsp[j].round => i = j

\* The trainers holding GPUs are never more than maxConcurrentRuns.
InFlightWithinCap ==
    Cardinality({id \in RunId : dsp[id].state = "running"}) <= MaxConcurrent

\* What holds GPUs is what the status accounts for: also when the watchdog
\* gives a run up, or a freed slot is used again in the same reconcile.
TrainersInHand == OneRunPerRound /\ InFlightWithinCap

(***************************************************************************)
(* The ledger of rounds the stored status stands for.                      *)
(***************************************************************************)
Ledger == INSTANCE RoundLedger WITH ledger <- store.outcome

\* The stored status implements the ledger: rounds are opened in order, one at
\* a time and within the cap, settled once and for good; a stale cache, a
\* crash, a refused or a concurrent write never takes a round back.
LedgerSpec == Ledger!Spec

\* Every open run is settled, whether its trainer ends or hangs.
EveryOpenRunSettles ==
    \A r \in Round : store.outcome[r] = "open" ~> store.outcome[r] \in Settled

\* The loop comes to its end: the budget is spent or the breaker is open.
LoopReachesEnd == <>(store.phase \in {"Completed", "Failed"})
============================================================================
