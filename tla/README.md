# Formal model of the Agent Office operator

TLA+ models of the operator's reconcilers and of what they share: the round loop
of an `AutoResearchProject`, its wiki and its searcher; the configuration of an
`AgentGateway`; the registration of `AgentWorkstation`s; the skills they get;
and the model connections they are offered. TLC checks them on small instances;
TLAPS proves the safety properties for every value of the constants, and of the
liveness properties what the state is that they come to and that it stays.

    tlc -workers 2 -config loop_stale.cfg MCAutoResearchLoop.tla
    tlapm AutoResearchLoopProofs.tla

Paths below are relative to `src/internal/controller/` unless they start with
`src/`. `PROJECT.json` says which lines of the code each definition stands for,
and lists the hazards of this code, each at its line, with the properties that
cover it.

## 1. Inventory

| Component | State it keeps | Operations | What is hard | What makes it correct |
|---|---|---|---|---|
| AutoResearchProject reconciler (`autoresearchproject_controller.go`, `_dsp.go`, `_transport.go`) | status: CurrentRound, OpenRuns, ExperimentsRun, BestEvalLoss, RecentRuns, phase, breaker; annotations | drain, register the pipeline version, cull stale runs, gates, proposal, submission, save | every step is a call that can fail or half succeed; the status is read at the start, from a lagging cache, and written whole at the end | rounds are neither lost nor counted twice; budget and cap hold; the champion is the best; open runs settle; the loop ends |
| DSP client (`src/internal/dsp/client.go`) | none; DSP keeps runs, pipelines, versions | FindOrCreatePipeline, CreateRun, GetRun, TerminateRun | runs are created without an idempotency key | one run per round |
| Wiki (`src/internal/wiki/transaction.go`, `autoresearchproject_agent.go`) and git-sync (`knowledgebase_controller.go`, `knowledgebase_gitsync.go`) | a branch; a clone on a volume; a token | clone, commit, push with `+`; pull --rebase, commit, push | operator, sidecar and people push to one branch; tokens age | a result has its proposal; no record and no edit is lost |
| Search, strategist, backfill (`src/internal/search/`, `_strategist.go`, `_backfill.go`) | the wiki's history, HYPOTHESES.md | pair, count stagnation, ask the strategist, adjust the space, suggest | a model writes the file that steers the search | configs stay in the space; the strategist is paced; rounds go on |
| AgentGateway reconciler (`agentgateway_*.go`) | ConfigMap, Secret of keys, Deployment; openclaw.json on a volume | render the children, converge the file by scripts in the Ready pod, restart | the file outlives the pod and is read only when the process starts; an unresolved reference keeps it from starting | it can always start again; it comes to run what is asked for |
| AgentWorkstation reconciler (`agentworkstation_*.go`, `mcp_servers_drift.go`) | agents, bindings, profiles, servers, cron jobs and folders on the gateway; finalizer; status | register, seed, converge jobs, reload tools, de-register | many workstations edit one file and one cron table; gateways restart or lose their volume; a status update is refused | live agents are installed, removed ones are guarded by the finalizer, people's jobs stay |
| Skill and SkillBinding controllers, skill refs (`skill_controller.go`, `skillbinding_controller.go`, `agentworkstation_skillrefs.go`) | status.appliedTo, referencedBy, conflicts; managed bindings | resolve, detect overlap, generate, collect | three controllers decide from each other's status and wake each other | a status at rest is exact; they settle; refs are bound |
| Skill packages and delivery (`skill_packageref*.go`, `agentworkstation_skills.go`, `agentworkstation_shared.go`) | a cache shared by all workers; folders of a workspace | resolve over several requests, copy, write, prune | content changes between two requests, or is asked for by others without digest | what is pinned is what is delivered; folders converge |
| ModelConnection offers (`modelconnectionoffer_controller.go`, `modelconnection_access.go`) | ModelConnectionOffers | list, withdraw, project | stale informers, events of two kinds of objects, three readers of one access rule | the menu is exact; no silent dead lane |
| MLMD janitor and dashboard, MemoryModule, Codex auth-sync, catalog and Backstage, manager, console plugin, trainer scripts | caches, a cool-down, tokens | HTTP, SQL, rendering, wiring | - | outside of the models, see section 5 |

Interactions: an informer cache stands between each reconciler and the API
server; the loop calls DSP over HTTP and the wiki through git; the gateway and
the workstation reconciler meet in one file on one volume; the Deployment
controller and the kubelet turn what is rendered into pods; skill, binding and
workstation passes wake each other by the status they write.

## 2. The modules

| Module | Models |
|---|---|
| `AutoResearchLoop` | the reconcile of an AutoResearchProject, with DSP, the wiki and the API server around it |
| `RoundLedger` | abstract specification: what the status promises about rounds |
| `WikiRepo` | one branch that the operator, the git-sync sidecar and people push to, and the clone of the agents |
| `Search` | where the next config comes from: history, strategist, HYPOTHESES.md, space, backfill |
| `GatewayConfig` | one AgentGateway, its pod, its file, and both reconcilers that edit it |
| `Workstations` | several workstations on several gateways, from finalizer to release |
| `SkillBindings` | the three controllers whose objects say who has which skill |
| `SkillDelivery` | how skills, KBS.md and WIKI.md reach the workspace of one agent |
| `ModelConnections` | one connection, its offers, and the gateway and workstation that use it |

Each has a module `MC...` with the instance TLC checks; the theorems are in the
modules `...Proofs`. Definitions whose names start with `Mut` are not part of
the model. Each is a plausible bug in the definition that follows it; put in its
place, it makes TLC find the property named in `PROJECT.json` violated.

### AutoResearchLoop

State. `store`, `cache` and `mem` are the three copies of the status: at the API
server, in the informer, and in the object the reconcile works on.
`cacheBehind` and `memBehind` stand for the resourceVersion: a save from a copy
that is behind is refused. `dsp` is the record of every run, `wiki` the
proposals and results on the branch, `deployed`, `known`, `latest` the pipeline
content asked for and the versions DSP holds. `pc` says where the reconcile is;
`todo`, `completed`, `target`, `proposal` are its locals. `ValidationMode` is a constant here; where it is switched on and off
while rounds are open, see `WikiRepo` and `Search`.

One reconcile is the steps `Begin` (read), `Drain*` (one open run each),
`RegisterVersion`, `Cull`, the gates in the order of the code, `Propose`,
`Submit`, `Save`. Steps that talk to somebody else are separate, because runs
end, people patch and the operator stops between them; what the code does
without such a call is one step. A run that was drained is handled by
`Drained`, which does all the bookkeeping of `drainOpenJobs` for it.

Abstractions: the display ID `<project>-round-N` is the number N; a config is a
model value and the searcher may return any; a loss is a natural number;
`outcome` records how a round last appeared and stands for RecentRuns without
its bound of entries; timestamps become `late`, the rounds open for longer than
their budget. Conditions, events and the dashboard are left out.

Faults are a constant, so a run says what it assumes: `crash`, `stale` (the
cache lags), `conflict` (somebody else writes the status), `transient` (a call
fails, or takes effect and its answer is lost), `prune` (DSP loses a record),
`silent` (a trainer prints no result), `rollback`.

### WikiRepo

State. `remote` and `head` are branches, sequences of commits, and a commit is
the set of edits it makes; the identity of a commit is the sequence it ends, as
a hash covers the parents. `tx` is the operator's transaction with the base it
cloned, `round` and `unsettled` what the loop wants written, `kb` what the
KnowledgeBase reconciler made, `pc`, `token`, `git`, `seen`, `dirty`, `copied`
the sidecar. `written`, `landed` and `validated` are history: the edits of
agents, those that ever were on the remote, and the rounds that
`spec.validationMode` submitted without a proposal (`Validate`).

`Begin` (the clone) and the push of an operator transaction are separate steps;
the push is forced. The sidecar is one action per command that can fail:
`Bootstrap`, `Scaffold`, `Pull` (with fork point), `Stage`, `Push`. A bootstrap
whose files clash with the remote (`BootClash`) resets the clone to it; the copy
made first is best effort and lies beside the mount, in the file system of the
container, so that `Restart` loses it. A result is pushed for a round that
validation mode submitted, too: the drain does not ask how a round came about.

### Search

State: `proposal`, `result` and `hyp` are the wiki. A project is its
`validationMode` and, of its status, the round, the open rounds, those with a
loss, and the count of drain failures; it is there as `stored`, as the informer's
`cached` and as the `project` a pass works on, and a pass whose copy is `stale`
cannot save. `refs` says that the KnowledgeBase and the workstation exist; `step`
and `seen` are the pass; `validated` is history.

A pass is `Read`, `Settle` of any open runs, then a gate that ends it (`Wait`,
`Halt`) or `Begin`, `Backfill`, `Gate`, a turn, `Propose` or, in validation mode,
`Validate`, and `Submit`. A run that fails, and one that succeeds without a
readable result line, raise the count that opens the breaker; the latter's 0 goes
to the wiki all the same. `StagnationCount`, `Due` and `Apply` are operators
translated from `src/internal/search/`, over a space with one dimension of each
kind. A turn of the strategist can fail, or answer with any of the files given by
`Adjust` and `Claim`. The random forest is left out: `Suggest` returns any config
of the adjusted space, or fails where the code fails. That the loop stops at
`RoundLimit` is the model's bound.

### GatewayConfig

State. `hooksSpec`, `token`, `brain`, `agent`, `offered` are the inputs: the
hooks of the spec and their Secret, the connection and the life of each
workstation, the connections that exist and are offered. `configMap`, `keys`,
`deploy` are what the reconciler renders; a pod template is whether
`OPENCLAW_HOOKS_TOKEN` is in it and for which keys it was computed. `file` is
openclaw.json as far as the two reconcilers edit it, `managed` the list
`.operator-managed-providers.json` beside it. `pod` is the phase, the template
and the document the process started with. `step`, `hooks`, `script` are the
pass of the gateway reconciler, `aw` the one of the workstation reconciler; a
script holds the document it read, changed, and is about to write.

`Begin` decides what hooks mean and renders the ConfigMap, `EnsureKeys`
converges the Secret, `ApplyDeployment` the Deployment; `ModelsRead` and
`HooksRead` are the reads of the two scripts, `Write` the write of either,
`RestartPods` the restart. `Register`, `Deregister` and `AgentWrite` are the
same for agents.list. `Rollout`, `Seed`, `Boot`, `ContainerDies` are Kubernetes:
strategy Recreate, an init container that copies only when there is no file, and
a process that does not start on a reference it cannot resolve.

Abstractions: a document is the hooks reference, the provider blocks, the keys
they refer to and the agents. Reads of cluster objects are current. A write of
one file is atomic; between the two files the models script writes, the
container can die. What is taken away (hooks, a Secret, an offer) is not given
back: a gateway that gets them again starts from a state the model reaches.

### Workstations

State: `obj` the workstations with finalizer, status and deletion; `gw` the
gateways (pod Ready, agents, seeded workspaces, profiles, routes, cron table,
servers, what each runtime listed); `chat` the Mattermost accounts; `regs` the
registered MCP servers; `pass` the pass under way with the spec it read. Here a
script that edits the file is one step (its interleaving with the gateway's
scripts is in `GatewayConfig`), and the steps of a pass interleave with users,
pods and the gateway's status patches. A server is a name with a configuration,
and setting one replaces the one of its name (`WithServers`), also that of
another workstation. `script` is the document a script of the gateway reconciler
has read and not yet written back (`GatewayReads`, `GatewayWrites`): it undoes
what workstations wrote in between, de-registrations included. `left` and `late`
record the known ways to leave something behind (a move, a release without a
Ready pod, such a write-back; a first observation), so that the properties
exclude exactly those.

### SkillBindings

State: the objects (`ws`, `skill`, `binding`, the ConfigMap), the `queue`s of
three controllers, and the pass of each. A pass is two actions: what it reads,
and what it writes; a status update is refused when its own object has changed.
Every write puts into the queues what the watches and their map functions put
there, and nothing else does, but for the `Resync` of the informers. A Skill has
its content from its spec, from the ConfigMap or from a package (`registry`: what
is served, what ever was, and what the cache of the operator answers). The package
changes without an event (`EditPackage`), and a resolution that fails leaves an
empty hash and no requeue.

### SkillDelivery

State: `skills`, `map`, `refs`, `kbRefs` (what users declare), `registry`, `up`
(the registry), `image` (the catalog image of the pod), `kbs` (attached
KnowledgeBases), `folder`, `wiki`, `index` (the workspace: folders, WIKI.md,
KBS.md), `skillSet`, `epoch` (status), `cache`, `pass`, and the `job` of each
worker. A resolution is a request for the manifest and one for the content, with
the check of the digest and the entry in the cache. `Seed` is the script that
copies, writes and prunes, `SeedFails` a script that dies before it prunes, and
`Finish` writes KBS.md and the status. A folder is its SKILL.md and, in `bundled`,
the images whose other files it holds: the copy out of an image adds and
overwrites, and only a whole folder is ever removed.

### ModelConnections

State: the inputs `conn`, `ann` (annotations of the namespaces), `model`; the
`offers` at the API server and in the informer (`cache`, `stale`); `queued` and
`pass` of the offer reconciler; `awPass`, `lane`, `told` of the workstation;
`block`, `key` in the gateway's configuration. `Begin`, `List`, `Withdraw`,
`Project` and `End` are the pass of the offer reconciler, `AwBegin` and
`AwMerge` the one of the workstation, `Render` the one of the gateway. The access
rule is `ByUser` and `ByGroup`, with the case and the path of names kept.

## 3. What the runs check

| Run | Question | Instance |
|---|---|---|
| `loop_stale` | Do the books stay right on a lagging cache? `TypeOK`, `RoundsAccounted`, `SubmissionsWithinBudget`, `BestIsBest`, and `LedgerSpec`: the stored status implements `RoundLedger` | 3 runs, 3 rounds, 2 losses, 2 versions, cap 2, budget 2 |
| `loop_faults` | Do failing calls and crashes mix up results, or drop settled work? `ResultsPaired`, `GatesKeepWork` | 2 runs, 2 rounds, 2 configs; crash, transient, prune, conflict, silent |
| `loop_live` | Without faults: `TrainersInHand` (one run per round and within the cap), `EveryOpenRunSettles`, `LoopReachesEnd` | 3 rounds, cap 1, budget 2, 2 versions, trainers that hang |
| `wiki` | Does a forced push lose anything that matters? `TypeOK`, `ResultHasProposal`, `UnpushedKept`, `OperatorRecordsKept`, `RecordsReachVolume` | 1 round, 1 edit, branches of 3, 1 restart, all faults |
| `search` | Is the searcher bounded, the strategist paced, and does the loop go on? `TypeOK`, `ConfigsInSpace`, `StrategistPaced`, `KernelTurns` | 4 rounds, the first of an older operator, 2 at a time, strategist every 2 and on stagnation of 2, breaker at 2, 1 edit, 1 fault |
| `gateway_boots` | Can the gateway always start again? `TypeOK`, `BootableConfig` | 2 connections, 2 workstations, 3 edits, 1 fault of any kind but unreadable and busy |
| `gateway_converges` | Does it come to run what is asked for? `Converges`, `LiveAgentsRegistered` | 2 connections, 2 workstations, 1 edit, 1 death of the container |
| `workstations` | `TypeOK`, `RegistrationGuarded`, `HandMadeKept` | 2 workstations, 2 gateways, 2 profiles, 2 edits, 1 fault of any kind, `overwrite` among them |
| `workstations_live` | `RegistrationsHeal`, `ToolsFresh`, `PassesGoQuiet` | 2 workstations, 1 gateway, 2 configurations of one server, 2 edits, 1 fault (crash, exec, wipe, activity) |
| `skill_bindings` | `TypeOK`, `BindingStatusExact`, `SkillStatusFollows`, `ControllersSettle`, `RefsBound` | 2 workstations whose managed bindings share a name, 1 skill from the ConfigMap or a package, 1 user binding, 3 edits |
| `skill_delivery` | `TypeOK`, `PinnedContentOnly`, `WorkspaceConverges` | 4 Skills (own, another agent's, platform, unpinned), 1 package, 2 URLs, 1 edit, 1 fault |
| `model_connections` | `TypeOK`, `OffersExact`, `RoutesSettle` | 2 namespaces, a user in two spellings, a group in two forms, 3 specs, 2 edits, 1 fault |

Bounds. `RoundLimit`, `MaxEdits`, `MaxFaults`, `MaxRegs`, `MaxCommits`,
`MaxRestarts`, `Stage`, `Shared`, `OldRounds` are bounds of the models and named
so where they are declared. Two connections are one that is used and one that
was swapped out; two workstations are what makes one reconciler write back a
document without the other's agent. Three rounds with a cap of two let two runs
be open, end in either order, and free a slot for a third; two losses are an
improvement and a regression; two versions are a cull and a survivor. The
strategist's periods are smaller than the code's 5 and 3, so that both come
round before `RoundLimit`. One fault can meet every step of a pass; an edit can
too, and a second one undoes it or meets the next pass. Where a theorem exists
(section 4) it does not depend on these numbers. In `SkillDelivery` other
workers resolve only the undigested package and the skills an agent lists are
taken in the order of their names. In `MCModelConnections` the platform's
namespace may become a tenant's.

What a run does not reach, by its instance:

* `loop_stale`: three rounds are as many as the second half of
  `SubmissionsWithinBudget` lets through, so only the theorem `BudgetHolds` shows
  it. `loop_faults` has one version of the pipeline, so its `GatesKeepWork` says
  nothing of the cull; the theorem `GatesLoseNothing` does.
* `loop_live` has no faults: it does not show that a GPU is used once when a save
  is refused or the delete of a pod fails.
* `gateway_boots` exempts hooks that are switched off and is without `unreadable`
  and `busy`; `gateway_converges` is without `crash`. Section 6 has what happens
  then.
* `workstations_live` is without `overwrite`, with which it does not end in time;
  that an agent is registered again after such a write is `LiveAgentsRegistered`
  in `gateway_converges`. It is without `down`, `chat` and `api`, too.
* `skill_bindings` has one Skill, so that a binding which cannot be written is
  seen to heal, and not which other refs a pass leaves out.
* `search` has files that leave the choices of a categorical alone.
* `model_connections` has hand edits of offers, but not the one that strips the
  label (section 6).

`CHECK_DEADLOCK FALSE` is said where the model may rightly stop: `loop_*` and
`search` at `RoundLimit`, `wiki` at `MaxCommits`, `workstations*`,
`skill_bindings` and `skill_delivery` when nothing is due and no edit is left.
`gateway_boots`, `gateway_converges` and `model_connections` are checked for
deadlock.

Fairness, with its reason in the code:

* Loop: the work queue serves a project again as long as a pass asks for a
  requeue (`WF` of the whole reconcile: which of its branches is taken is not
  assumed); the informer catches up; time passes. No trainer has to end.
* Gateway: both reconcilers requeue themselves (30 seconds while something is
  pending, five minutes when settled); the Deployment controller rolls out and
  the kubelet starts what can start. Registration and removal get strong
  fairness, because they need a Ready pod and the pod restarts in between.
* Wiki: the sidecar is a shell loop with a sleep; the KnowledgeBase reconciler
  asks for no requeue, but the default resync of controller-runtime calls it every
  ten hours, and it then makes what an earlier pass could not; the network is not
  down for ever. `RecordsReachVolume` excludes what stops the sidecar for good: an
  expired token (section 6), a conflict.
* Workstations: every pass ends with a requeue. Another workstation's pass may be
  under way whenever one is due, so the begin of a pass is strongly fair.
* SkillBindings: a queue that is not empty is served, a pass ends, the five
  minute timer of a workstation fires, the garbage collector works. The resync of
  the informers is not fair: nothing rests on it.
* Search: the reconciler is called again, every run ends or is given up after its
  budget, and some pass reads what is stored (`SF` of `Reads(stored)`: the
  informer catches up). `KernelTurns` excludes a breaker that stays open and
  references that stay missing, where the code waits for people.
* SkillDelivery: the pass comes back, other passes end, time passes for the
  cache, an outage ends.
* ModelConnections: the queue is served, informers catch up, the garbage
  collector collects, workstation and gateway come back every five minutes.

No edit and no fault is ever assumed to happen.

## 4. What is proved

The proofs are hierarchical: one step per action, and under it one per conjunct
the action can disturb. Their assumptions are the ASSUMEs of the modules
(`LoopAssumption`, `WikiAssumption`, `GatewayAssumption`,
`WorkstationAssumption`, `NoObjectAssumption`, `HandJobAssumption`,
`SearchAssumption`, `SpaceAssumption`, `ConfigAssumption`,
`ConnectionAssumption`, `BindingAssumption`, `SourceAssumption`, `NothingAssumption`,
`DeliveryAssumption`, `DistinctAssumption`), which TLC evaluates in every run
that uses the module. Where a theorem assumes more (that some faults do not
happen), it says so itself, and the list below says what breaks without it.
Each invariant was checked by TLC before it was proved.

* `AutoResearchLoopProofs`. The inductive invariant `LoopInv` is
  `EnvironmentOK` (what DSP and the wiki hold), `CopiesOK` (the three copies of
  the status, each well formed by itself), `PassOK` (the locals of a pass at each
  `pc`) and `LockOK` (a copy that is not behind equals the stored one). There is a
  lemma for every edit of the status (`Drained`, `Superseded`, `Submitted`, the
  phase). From it follow `TypeCorrect`, `RoundsAccountedFor`, `BudgetHolds`,
  `ChampionIsBest`, `GatesLoseNothing`, under every fault and on a stale cache,
  and `ImplementsLedger`: each step of the stored status is a step of
  `RoundLedger` or a stutter. `LockOK` is what the last one rests on: without the
  refusal of a save from an old copy a status would go back.
* `ResultsArePaired`, in the same module, assumes that the cache does not lag:
  with `stale` TLC finds it violated, because a reconcile that starts from an
  older status proposes a round anew whose run has already been settled. Its
  invariant `PairInv` says that every open round of each copy has the proposal
  its run was given, and every result its run.
* `TrainersStayInHand` assumes no crash, no stale cache, no conflict and no
  failing call (`Undisturbed`). With `conflict` alone TLC finds it violated: the
  run has been created and the status that names it is refused.
* `LossesAreReported` and `ResultsAreTraced`, under every fault: a loss in the
  status, the champion's, and a result in the wiki were reported by a trainer of
  the round they are recorded for, but for the zero of a log without a result
  line. `ResultsAreMeasured` excludes that zero and assumes no `silent` and no
  `transient`. Their invariant `TraceInv` follows a number from DSP through the
  drained copy of the status into the store and the wiki.
* `StatusOnlyAdvances`, an action property under every fault: a write of the
  status never takes back the round clock, the count, what a settled round came
  to, or the champion for a worse one. `LossesAreInWiki`, assuming no `stale` and
  no `transient`: each loss of the status is in the wiki under its round. A push
  that fails loses it for good, as the backfill restores no results.
* `GatewayConfigProofs`. `GatewayTypes` holds under every fault;
  `GatewayCanRestart` assumes that no Secret is unreadable or busy. The invariant
  `GatewayInv` ties the file to the template the pod gets: `KeysCarried`,
  `HooksOnlyWhereCarried`, `ScriptsLive` (what a script has read stays good while
  it runs), `HooksStayCarried`. The assumption is needed because the connections
  are collected twice in a pass. `HooksCanRestart` needs none: the hooks half of
  the property holds under every fault. `SettledIsStable` is the safety half of
  `Converges`: a gateway that runs what it is asked to run is `Settled`, which
  says of both reconcilers what each step of a pass under way will find, and no
  step then writes or restarts. It assumes that no Secret is unreadable: such a
  pass renders the keys without it.
* `WikiRepoProofs`: `TypeCorrect`, `ResultsHaveProposals`, `UnpushedEditsKept`,
  `RecordsKept`, under every fault. The invariant follows the operator's records
  from the transaction into the branch, and the agents' edits from the working
  copy into the local branch. A result without proposal is one of a round that
  validation mode submitted. Two action properties say how what can be lost is
  lost: `OnlyForcedOutLeaves` (an edit leaves the volume only if it had been on the
  remote and was forced off it, or by the reset of a bootstrap that clashes, which
  `UnpushedEditsKept` excepts, too) and `OnlyTheOperatorForces` (a commit leaves
  the branch only by the push of a transaction whose clone is behind).
  `EmptyStaysEmpty`: a branch without commits never gets one from the sidecar or
  the operator.
* `WorkstationsProofs`: `TypeCorrect`; `FinalizerGuards`: what is left on a
  gateway is guarded by a finalizer, unless its workstation moved away, was
  released without a Ready pod, or a script of the gateway reconciler put it back
  from an old document; `HandMadeJobsStay`, an action property: no
  pass of any workstation touches a job people made. Inductive: `TypeOK`,
  `PassGuarded`, `RegistrationGuarded`, `KnownDeclared`. `OthersStayOut`, under
  every fault: what an agent has on a gateway changes only in a pass of its own
  workstation, while that is being deleted, with the volume, or by such a
  write-back. `SavedIsInstalled` assumes that no command fails, no pod goes down,
  no volume is lost, Mattermost answers and no old document is written back: a
  status update that is accepted is of a workstation that is installed as its spec
  says then, with its own configuration of a server another one may take over in
  its next pass. Its invariant `InstallInv` says at each step of
  a pass which parts are already there. With `down` TLC finds it violated: a pod
  that goes away in the middle of a pass makes the rest of it do nothing, and the
  status is saved all the same.
* `SearchProofs`: `SubRange`, a lemma about `Apply`: the adjusted range is a
  sub-range of the declared one, whatever file the strategist wrote;
  `TypeCorrect`; `InSpace`; `Paced`: the strategist is not asked twice about the
  same observations; `Proposed`: a round the stored status counts has its proposal,
  unless it was submitted in validation mode or by an older operator, and there
  are results of counted rounds only; `HistoryGrows`: the proposal of a counted
  round is written again only by a pass with an outdated copy, and only people take
  a round out of the history. Both hold with a lagging cache and refused saves; the
  invariant `Behind` says that no copy is ahead of the stored status, and one that
  is not outdated has its round. `Paced` needs of the history only
  that it does not change while nothing settles.
* `ModelConnectionsProofs`: `TypeCorrect`; `OffersAreExact`, assuming
  `LabelsLeftAlone` (section 6). The invariant `OfferInv` says what the stored
  and the cached offers of a connection are when it is neither queued nor in a
  pass, and what a pass has seen and done at each of its steps. `RestIsRight`, the
  safety half of `RoutesSettle` under the same assumption: at rest the menu is
  exact; once the workstation and the gateway have read it they tell the same;
  and no step then writes until an edit or a fault.
* `SkillBindingsProofs`: `TypeCorrect`, `BindingsAreExact`, `SkillsFollow` (of a
  Skill with a package: its hash is of a content that was served at some time, or
  of none). First
  it is shown of each action who is told (`BindingsTold`, `SkillsTold`): what is
  not put into its queue is as it was, and so is all its status is computed from
  and the pass on it. The invariant `StatusInv` then speaks of every object that
  is not queued, also one that is in a pass: what its status says, or will say
  once the pass has written (`HeardExact`, `HeardOverlap`, `SkillHeard`). That a
  pass relies on the status of other bindings is sound because one that is not
  queued says what is so. `QuietIsRight`, the safety half of `ControllersSettle`
  and `RefsBound`: once nothing is due every ref is bound and every status exact,
  and until a user edits something, the operator restarts or the informers resync,
  the passes that the timer starts write nothing. `GrantsStayWithTheirOwners`:
  between users' edits what a binding grants changes only under a managed name,
  and by the pass of the workstation that controls it or takes it over, or by the
  garbage collector. It rests on `OwnersInv`: what a pass has listed as its own
  is, when it writes, still its own, gone, or a user's new one.
* `SkillDeliveryProofs`: `TypeCorrect`, `PinnedDelivered`. A text is followed from
  the registry into a job, the cache, what a pass has found, and a folder. The
  invariant `DeliveryInv` says at each place what may be there: what a worker has
  fetched for a digest, and what the cache keeps for one, has it (`FetchedGood`,
  `CacheGood`, the latter because the digest is part of the key); what a pass is
  resolving is a source of the name it takes (`FoundGood`), although the Skill may
  have been edited since; a folder keeps only what one of these put there.
  `RefIsMeant` shows that whichever of its five sets a ref is found in, the Skill
  bears the ref's name. `WorkspaceIsStable`, the safety half of
  `WorkspaceConverges`: `Settled` is what `WorkspaceConverges` comes to, with what
  makes it stay: the signature in the status, cache entries without digest that
  are fresh have what is served, and every job and the pass under way have found,
  as far as they got, what is due. No step but an edit or a fault leaves it, and
  none changes the workspace or the epoch. It assumes that the names of the Skills
  of one namespace differ (`NamesDiffer`), as Kubernetes has it.

Each theorem quantifies over every value of the constants, so over any number of
rounds, workstations, connections and edits.

## 5. Only model-checked, and not modelled

Only model-checked: that something happens under fairness (`EveryOpenRunSettles`,
`LoopReachesEnd`, `Converges`, `LiveAgentsRegistered`, `RecordsReachVolume`,
`RegistrationsHeal`, `ToolsFresh`, `PassesGoQuiet`, `ControllersSettle`,
`RefsBound`, `KernelTurns`, `WorkspaceConverges`, `RoutesSettle`), as liveness
and ENABLED are out of the prover's reach. Of `Converges`, `WorkspaceConverges`,
`RoutesSettle`, `ControllersSettle` and `RefsBound` the safety halves are proved
(section 4): what the state is that they come to, that it is right, and that it
stays. That it is reached was checked by TLC with the same definitions.

Not modelled, because it keeps no state that an order of steps could put wrong,
or because its other half is outside of the repository: the random forest of the
searcher (numerics), HTTP, JSON, YAML and SQL; `mcp_credentials.go`, which
substitutes variables; the MemoryModule controller, which reads once and writes
one status; the catalog and Backstage entities, the manager, generated code,
the trainer's scripts, the console plugin. `codex-auth-sync.mjs` hands OAuth
tokens over between the stores of the agents of one pod; what refreshes these
tokens is the OpenClaw runtime, so a model of the protocol would have to guess
that half.

The MLMD janitor (`autoresearchproject_mlmd_cleanup.go:118-253`) selects the
executions that are RUNNING, asks DSP for the state of their runs, and updates
by ID without looking at the state again: an execution that completes between
the first and the second step of a run that then has succeeded is marked FAILED,
and becomes prunable. Nothing the loop decides depends on it.

Also left out of the modelled components: status conditions and events, pairing
approval and allowed users of a gateway, identity and tool policy documents,
auth.order, Services, Routes and NetworkPolicies, the deletion of namespaces,
offers that people create themselves.

## 6. Where the code differs from its comments

Each was met while modelling. Some are definitions beside the properties that a
run checks; TLC finds them violated under the named instance. The others follow
from reading the lines named.

The round loop.

* "deterministic ... concurrent reconciles converge" (`autoresearchproject_controller.go:319-322`):
  `OneRunPerRound` fails in `loop_faults`. A crash between CreateRun and the
  status update submits the round twice, because DSP takes the name for a label.
* A run without a result line should leave no usable observation:
  `ResultsMeasured` fails in `loop_faults`. The wiki gets `eval_loss: 0`, the
  best value there can be. `ResultsAreMeasured` proves that only a missing line
  or a log that cannot be read does this. The status, the breaker and the
  champion treat such a round as failed; the searcher and the strategist
  (`Search`) take its 0 for the best observation they have.
* A run over its budget should be terminated: `EveryOpenRunSettles` fails with
  the fault `prune`. A run whose DSP record is gone is skipped before its budget
  is looked at, and holds its slot for ever.
* The searcher is always asked to minimize (`:583`), whatever
  `spec.eval.direction` says.

Wiki and search.

* "agent's local state on the PVC is preserved": `PullPreserves` fails in
  `wiki`. After a forced push the sidecar's rebase takes its own pushed commit
  for upstream history and drops it. `OnlyForcedOutLeaves` proves that there is
  no other way but the next one.
* "resetting to remote (preserving local in $WIKI_DIR.local-conflict)"
  (`knowledgebase_gitsync.go:510`): `LocalPreserved` fails in `wiki`. The volume
  is mounted at WIKI_DIR itself (`:159`), so the copy beside it (`:512`, with
  `|| true`) lies in the container and is gone with it; what was never pushed is
  then only in the reflog of the clone.
* "so the token never expires from the sidecar's perspective"
  (`knowledgebase_controller.go:139-143`; `knowledgebase_gitsync.go`, about 896,
  says the controller renews it every 30 minutes): `TokenNeverExpires` fails in
  `wiki`. The sidecar has the token in its environment, read when the container
  starts, and the reconciler returns no requeue. `RecordsReachVolume` therefore
  excludes an expired token: from then on the sidecar syncs nothing until its
  container restarts after a new token was minted.
* `spec.validationMode` submits a round without a proposal
  (`autoresearchproject_controller.go:499`), but its result is pushed: a result
  that no proposal belongs to, or, where an earlier pass had pushed the proposal
  of that round and failed to submit it, a result beside the config of another
  experiment. `ResultHasProposal` exempts these rounds.
* A pass with an outdated copy of the project proposes a counted round anew and
  overwrites the config its result was measured with (`HistoryGrows` proves that
  nothing else does); see also `ResultsArePaired` in section 4.
* "will create initial commit on first sync cycle": `EmptyRemoteGetsCommit`
  fails with `Seeded = FALSE`: the pull of an empty branch ends every cycle
  before the commit, for good (`EmptyStaysEmpty`).
* "The kernel turns even when every Codex API call is failing": `KernelTurns`
  fails with `Adjust <- Replacing`. A file that replaces the choices of a
  categorical makes Suggest fail on every earlier observation, for good.
* `HistoryRestored` and `LossesSeen` fail in `search`: the backfill looks for
  missing proposals only, and asks DSP for runs by display name.
* `src/internal/search/stagnation.go:68-73` speaks of one turn per stagnation;
  a turn is due again with each new observation while it lasts.

Gateway and workstations.

* Hooks that are disabled should leave a gateway that keeps running:
  `GatewayKeepsRunning` fails with the faults `hooksoff` and `oom` under
  `FairSpec`. The variable leaves the Deployment before the reference leaves the
  file; a pod replaced in between cannot start, and the script that would repair
  the file needs a Ready pod.
* A changed file should restart the gateway: `Converges` fails with the fault
  `crash`. The signal is the write itself, and a crash after it loses it.
* "nothing left to de-register": `RemovedAgentsLeave` fails in `gateway_boots`.
  The file is on a volume that outlives the pod.
* The script that de-registers an agent (`agentworkstation_shared.go:703-722`)
  and those of the gateway reconciler read, change and write one file without a
  lock: one that read it before writes the agent back after the finalizer is gone,
  and nobody takes it out again.
* "The stamp is gone" and with it the loop that rewrote openclaw.json every few
  seconds (`agentworkstation_shared.go:870-876`): `NothingRewritesForEver` fails in
  `workstations_live`. Two workstations of a gateway that declare one server name
  with different configurations each find the other's entry to differ
  (`mcp_servers_drift.go:27-38`) and rewrite it, for ever. `PassesGoQuiet` and
  `RegistrationsHeal` exempt such servers.
* `BootableConfig` fails with the faults `unreadable` and `busy`: the connections
  are collected twice in a pass.
* "removing what this workstation declared before and no longer does":
  `DroppedJobsLeave` fails in `workstations_live`. status.schedules is set to
  what is declared also when a removal failed. It fails without any fault too: a
  spec edited while its pass runs makes the status update refused after the jobs
  were armed; what is armed and no longer declared is then in no status, and is
  not removed.

Skills.

* referencedBy "stays accurate": `ReferencesExact` fails in `skill_bindings`: a
  deleted workstation stays in it. "so a republished version converges"
  (`skill_packageref.go:20-22`) holds of the workspace, but the hash of a Skill
  follows its package only with the Skill's next event or a resync, and a failed
  resolution returns neither an error nor a requeue (`skill_controller.go:128-131`).
  The conflicts of the other binding are not
  refreshed, and of two workstations whose managed bindings share a name the
  loser's ref stays unbound (`src/api/v1alpha1/agentworkstation_types.go:469`).
* A binding that a user made under a managed name and that nobody controls is
  taken over by the pass that wants the name, and its spec is replaced. Deletion
  is by name alone (`agentworkstation_skillrefs.go:144`): a user's binding made in
  the place of one the pass had listed goes with it.
* WIKI.md is not removed after the last KnowledgeBase detaches, nor KBS.md once
  the refs are emptied. The condition `KnowledgeBaseRefsResolved` with reason
  `GatewayMismatch` (`agentworkstation_shared.go`, about 974) is set by no code;
  the messages "KB attach pending" and "MCP setup pending" are overwritten
  (about 669) before the status is saved.
* "whole skill folders" (`agentworkstation_shared.go:263`): `BundlesExact` fails in
  `skill_delivery`. `fs.cpSync` deletes nothing (`:329-331`), so a folder that
  stays keeps the scripts and references of earlier images, also when its SKILL.md
  comes from the cluster by now.
* `agentworkstation_shared.go:261-267` speaks of a fallback where `:315-323` takes
  the union. The skill epoch is not raised when the earlier set was empty, nor
  when a set reverts after a refused update
  (`src/api/v1alpha1/agentworkstation_types.go:552-557`). A registry that is out
  for longer than the cache lives takes undigested skills off the workspace.

Model connections.

* "never a silent dead lane" (`src/api/v1alpha1/agentworkstation_types.go:84-91`):
  an endpoint without baseUrl is skipped by the gateway only, and the fallback of
  a connectionRef that cannot be resolved is not reported, as its message is
  overwritten (about 669). `LaneTold` excludes the first.
* An offer whose label was stripped by hand and whose access then narrows is not
  withdrawn before the connection is deleted; the theorem assumes
  `LabelsLeftAlone`. Group references match on their last segment only.

## 7. Plan

Done, in this order: the loop and its ledger, the gateway's file, the wiki, the
workstations, skill bindings, search, skill delivery, model connections; then the
proofs, in the same order: first the invariants the runs check, then what else
the same strengthenings give, and the safety halves of convergence.

Left, by what it would add:

1. The safety half of `PassesGoQuiet` and `RegistrationsHeal`: what a quiet set of
   workstations is, and that it stays; the same of `RecordsReachVolume`.
2. A model of the hand-over of Codex tokens, once the half that lives in the
   OpenClaw runtime can be read.
3. The race of the MLMD janitor (section 5) and the token cache of the DSP client.
4. The bound of RecentRuns, and with it what a very old round may still be asked.
5. In `ModelConnections`: the deletion of namespaces and auth.order, which keeps
   an order that people chose.
