--------------------------- MODULE GatewayConfig ---------------------------
(***************************************************************************)
(* One AgentGateway: a pod whose configuration, openclaw.json, lives on a  *)
(* volume that outlives it, and the two reconcilers that edit that file    *)
(* from inside the pod.  The gateway reconciler renders the ConfigMap, the *)
(* Secret with the model connection keys and the Deployment, then runs a   *)
(* script in the Ready pod that converges models.providers, and another    *)
(* that converges hooks; a change of the file restarts the pod, because    *)
(* the process reads these keys only when it starts.  The workstation      *)
(* reconciler adds its agent to agents.list, which the process reloads     *)
(* while it runs, and removes it when the workstation is deleted.          *)
(*                                                                         *)
(* A document that refers to a variable the container does not carry is    *)
(* refused by OpenClaw: the container does not become Ready.               *)
(***************************************************************************)
EXTENDS Naturals, FiniteSets

CONSTANTS
    Conn,           \* ModelConnections of kind endpoint, each with a key
    Agent,          \* AgentWorkstations that name this gateway
    NoDeploy,       \* no Deployment yet
    Unseeded,       \* no openclaw.json on the volume yet
    Killed,         \* a script that died with its container
    NoAgent,        \* the workstation reconciler runs no script
    MaxEdits,       \* bound of the model: changes of the inputs
    MaxFaults,      \* bound of the model: faults
    Faults          \* which of FaultClass the environment exhibits

(***************************************************************************)
(* crash: the operator stops between two steps.  oom: the container of the *)
(* gateway ends by itself.  exec: a script fails, or runs and its answer   *)
(* is lost.  delete: the pods cannot be deleted.  hooksoff: hooks are      *)
(* disabled, or their Secret is deleted.  withdraw: a connection is        *)
(* deleted or no longer offered.  unreadable: the Secret of a connection   *)
(* cannot be read.  busy: a workstation gets another connection while a    *)
(* pass is under way.                                                      *)
(***************************************************************************)
FaultClass ==
    {"crash", "oom", "exec", "delete", "hooksoff", "withdraw", "unreadable", "busy"}

\* Bound of the model: what is taken away does not come back.
Stage == {"before", "now", "after"}

\* openclaw.json as far as the two reconcilers edit it: whether hooks.token
\* is "${OPENCLAW_HOOKS_TOKEN}", which provider blocks there are, which of
\* them carry a "${MODELCONN_..._API_KEY}", and agents.list.
Document ==
    [hooks : BOOLEAN, blocks : SUBSET Conn, keyed : SUBSET Conn, agents : SUBSET Agent]

\* The pod template: OPENCLAW_HOOKS_TOKEN in env or not, and the content of
\* the derived Secret that its env-secrets-sha was computed from, {} when
\* there is no envFrom of it.
Template == [hooks : BOOLEAN, keys : SUBSET Conn]

ASSUME GatewayAssumption ==
    /\ MaxEdits \in Nat /\ MaxFaults \in Nat
    /\ Faults \subseteq FaultClass
    /\ NoAgent \notin Agent /\ NoDeploy \notin Template
    /\ Unseeded \notin Document /\ Killed \notin Document

Step == {"idle", "keys", "deploy", "models", "modelsWrite", "modelsRestart",
         "hooks", "hooksWrite", "hooksRestart"}

VARIABLES
    hooksSpec,  \* spec.hooks.enabled
    token,      \* the Secret spec.hooks.tokenSecretRef names
    brain,      \* spec.model.connectionRef of each workstation
    agent,      \* live, deleting (finalizer still there) or gone
    offered,    \* connections that exist and are offered to the namespace
    configMap,  \* whether the base config in the ConfigMap has the hooks block
    keys,       \* the keys in <gateway>-model-connections
    deploy,     \* the pod template of the Deployment
    file,       \* openclaw.json
    managed,    \* .operator-managed-providers.json
    pod,        \* phase, template, and the document the process started with
    step,       \* where the gateway reconciler is
    hooks,      \* hooksState.render.Enabled of this pass
    script,     \* the document a script of the gateway reconciler will write
    aw,         \* the same for the workstation reconciler, and its agent
    edits, faults

inputs  == <<hooksSpec, token, brain, agent, offered>>
objects == <<configMap, keys, deploy>>
volume  == <<file, managed>>
pass    == <<step, hooks, script>>
counts  == <<edits, faults>>
vars    == <<inputs, objects, volume, pod, pass, aw, counts>>

HooksResolved == hooksSpec = "now" /\ token = "now"

\* The connections the workstations of this gateway refer to.  A deleted
\* workstation is listed until its finalizer is gone.
Refs == {brain[a] : a \in {b \in Agent : agent[b] # "gone"}}

\* Mutant: a key nobody refers to any more is dropped.
MutCarried == {}

\* A connection whose key is already in the derived Secret stays rendered.
Carried == keys

\* collectModelConnections: what gets a provider block.
Collected == (Refs \cup Carried) \cap offered

\* Which keys a collection may fail to read.
Unreadable == IF "unreadable" \in Faults THEN SUBSET Conn ELSE {{}}

Ready == pod.phase = "ready"

\* The keys a container started from template t finds in its environment.
EnvKeys(t) == IF t.keys = {} THEN {} ELSE keys

Init ==
    /\ hooksSpec \in {"before", "now"} /\ token \in {"before", "now"}
    /\ brain \in [Agent -> Conn] /\ agent = [a \in Agent |-> "live"]
    /\ offered = Conn
    /\ configMap = FALSE /\ keys = {} /\ deploy = NoDeploy
    /\ file = Unseeded /\ managed = {}
    /\ pod = [phase |-> "none", tmpl |-> NoDeploy, run |-> Unseeded]
    /\ step = "idle" /\ hooks = FALSE /\ script = Killed
    /\ aw = [agent |-> NoAgent, script |-> Killed]
    /\ edits = 0 /\ faults = 0

(***************************************************************************)
(* The gateway reconciler.                                                 *)
(***************************************************************************)

Goto(s) == step' = s /\ script' = Killed /\ UNCHANGED hooks

Fault(f) == f \in Faults /\ faults < MaxFaults /\ faults' = faults + 1

\* A pass starts: what hooks mean in this pass is decided once, and the
\* ConfigMap is rendered from it.
Begin ==
    /\ step = "idle"
    /\ step' = "keys" /\ hooks' = HooksResolved /\ script' = Killed
    /\ configMap' = HooksResolved
    /\ UNCHANGED <<inputs, keys, deploy, volume, pod, aw, counts>>

\* The derived Secret is converged to exactly the keys this collection read.
EnsureKeys ==
    /\ step = "keys"
    /\ \E lost \in Unreadable : keys' = Collected \ lost
    /\ Goto("deploy")
    /\ UNCHANGED <<inputs, configMap, deploy, volume, pod, aw, counts>>

\* The Deployment is rendered as a whole.
ApplyDeployment ==
    /\ step = "deploy"
    /\ deploy' = [hooks |-> hooks, keys |-> keys]
    /\ Goto("models")
    /\ UNCHANGED <<inputs, configMap, keys, volume, pod, aw, counts>>

\* Mutant: a key stays when its block goes.
MutModelsDocument(d, want, lost) ==
    [d EXCEPT !.blocks = (@ \ managed) \cup want,
              !.keyed  = @ \cup (want \ lost)]

\* What the script makes of document d when the operator wants the blocks
\* `want`, `lost` of them without a key: foreign blocks stay, a block the
\* operator wrote before and no longer wants goes.
ModelsDocument(d, want, lost) ==
    [d EXCEPT !.blocks = (@ \ managed) \cup want,
              !.keyed  = (@ \ (managed \cup want)) \cup (want \ lost)]

\* No Ready container: the converge is skipped and the pass goes on.
ModelsSkip ==
    /\ step = "models" /\ ~Ready
    /\ Goto("hooks")
    /\ UNCHANGED <<inputs, objects, volume, pod, aw, counts>>

\* The script reads openclaw.json, computes, and writes the list of managed
\* providers; openclaw.json itself only when it changes.
ModelsRead ==
    /\ step = "models" /\ Ready
    /\ \E lost \in Unreadable :
         LET new == ModelsDocument(file, Collected, lost)
         IN  IF new = file
             THEN Goto("hooks")
             ELSE step' = "modelsWrite" /\ script' = new /\ UNCHANGED hooks
    /\ managed' = Collected
    /\ UNCHANGED <<inputs, objects, file, pod, aw, counts>>

\* What the hooks script makes of document d.  It writes the reference only
\* in a pod that carries the variable.
HooksDocument(d) ==
    IF hooks /\ ~pod.tmpl.hooks THEN d ELSE [d EXCEPT !.hooks = hooks]

HooksSkip ==
    /\ step = "hooks" /\ ~Ready
    /\ Goto("idle")
    /\ UNCHANGED <<inputs, objects, volume, pod, aw, counts>>

HooksRead ==
    /\ step = "hooks" /\ Ready
    /\ LET new == HooksDocument(file)
       IN  IF new = file
           THEN Goto("idle")
           ELSE step' = "hooksWrite" /\ script' = new /\ UNCHANGED hooks
    /\ UNCHANGED <<inputs, objects, volume, pod, aw, counts>>

\* Where the pass goes when the script did not report a change, and when it
\* did.
AfterError   == IF step = "modelsWrite" THEN "hooks" ELSE "idle"
AfterChanged == IF step = "modelsWrite" THEN "modelsRestart" ELSE "hooksRestart"

Writing == step \in {"modelsWrite", "hooksWrite"}

\* The script writes the document it computed, whatever the file is by now.
Write ==
    /\ Writing /\ script # Killed
    /\ file' = script
    /\ Goto(AfterChanged)
    /\ UNCHANGED <<inputs, objects, managed, pod, aw, counts>>

\* The script died with its container: the exec fails and the pass goes on.
WriteKilled ==
    /\ Writing /\ script = Killed
    /\ Goto(AfterError)
    /\ UNCHANGED <<inputs, objects, volume, pod, aw, counts>>

\* The exec fails, before or after the script wrote.
WriteFails ==
    /\ Writing /\ script # Killed /\ Fault("exec")
    /\ file' \in {file, script}
    /\ Goto(AfterError)
    /\ UNCHANGED <<inputs, objects, managed, pod, aw, edits>>

\* A container that starts over: nothing that ran in it survives.
Restarted(t) ==
    /\ pod' = [phase |-> "starting", tmpl |-> t, run |-> Unseeded]
    /\ aw' = [aw EXCEPT !.script = Killed]

\* Mutant: a change of hooks restarts nothing.
MutRestartPods ==
    /\ step \in {"modelsRestart", "hooksRestart"}
    /\ IF step = "modelsRestart" THEN Restarted(deploy) ELSE UNCHANGED <<pod, aw>>
    /\ Goto("idle")
    /\ UNCHANGED <<inputs, objects, volume, counts>>

\* The pods are deleted, the ReplicaSet creates one from the current
\* template, and the pass ends: it comes back in 30 seconds.
RestartPods ==
    /\ step \in {"modelsRestart", "hooksRestart"}
    /\ Restarted(deploy)
    /\ Goto("idle")
    /\ UNCHANGED <<inputs, objects, volume, counts>>

\* A pod that cannot be deleted is logged; the pass ends in the same way.
RestartFails ==
    /\ step \in {"modelsRestart", "hooksRestart"} /\ Fault("delete")
    /\ Goto("idle")
    /\ UNCHANGED <<inputs, objects, volume, pod, aw, edits>>

\* The operator stops, and both reconcilers with it.
Crash ==
    /\ step # "idle" \/ aw.agent # NoAgent
    /\ Fault("crash")
    /\ Goto("idle")
    /\ aw' = [agent |-> NoAgent, script |-> Killed]
    /\ UNCHANGED <<inputs, objects, volume, pod, edits>>

(***************************************************************************)
(* The workstation reconciler: one workstation at a time.                  *)
(***************************************************************************)

\* Mutant: the agent replaces the list.
MutMergeDocument(d, a) == [d EXCEPT !.agents = {a}]

\* agents.list is merged by id.
MergeDocument(d, a) == [d EXCEPT !.agents = @ \cup {a}]

Register(a) ==
    /\ aw.agent = NoAgent /\ agent[a] = "live" /\ Ready
    /\ MergeDocument(file, a) # file
    /\ aw' = [agent |-> a, script |-> MergeDocument(file, a)]
    /\ UNCHANGED <<inputs, objects, volume, pod, pass, counts>>

\* The finalizer of a deleted workstation: without a Ready container there
\* is "nothing to de-register", and the finalizer is dropped.
Deregister(a) ==
    /\ aw.agent = NoAgent /\ agent[a] = "deleting"
    /\ IF Ready /\ a \in file.agents
       THEN /\ aw' = [agent |-> a, script |-> [file EXCEPT !.agents = @ \ {a}]]
            /\ UNCHANGED agent
       ELSE agent' = [agent EXCEPT ![a] = "gone"] /\ UNCHANGED aw
    /\ UNCHANGED <<hooksSpec, token, brain, offered>>
    /\ UNCHANGED <<objects, volume, pod, pass, counts>>

\* The script writes; the finalizer goes when it was a removal.
AgentWrite ==
    /\ aw.agent # NoAgent /\ aw.script # Killed
    /\ file' = aw.script
    /\ aw' = [agent |-> NoAgent, script |-> Killed]
    /\ agent' = [agent EXCEPT ![aw.agent] = IF @ = "deleting" /\ aw.agent \notin aw.script.agents
                                            THEN "gone" ELSE @]
    /\ UNCHANGED <<hooksSpec, token, brain, offered>>
    /\ UNCHANGED <<objects, managed, pod, pass, counts>>

\* The exec fails; the workstation is reconciled again.
AgentWriteFails ==
    /\ aw.agent # NoAgent /\ aw.script = Killed
    /\ aw' = [aw EXCEPT !.agent = NoAgent]
    /\ UNCHANGED <<inputs, objects, volume, pod, pass, counts>>

(***************************************************************************)
(* Kubernetes and the gateway process.                                     *)
(***************************************************************************)

\* What ran in the container is gone, the scripts of both reconcilers too.
ContainerEnds(t) == Restarted(t) /\ script' = Killed /\ UNCHANGED <<step, hooks>>

\* Strategy Recreate: a pod of another template is replaced.
Rollout ==
    /\ deploy # NoDeploy /\ pod.tmpl # deploy
    /\ ContainerEnds(deploy)
    /\ UNCHANGED <<inputs, objects, volume, counts>>

\* The init container copies the base config when there is no file yet.
Seed ==
    /\ pod.phase = "starting" /\ file = Unseeded
    /\ file' = [hooks |-> configMap, blocks |-> {}, keyed |-> {}, agents |-> {}]
    /\ UNCHANGED <<inputs, objects, managed, pod, pass, aw, counts>>

\* The container starts: its Secret key must exist, and OpenClaw refuses a
\* document with a reference the environment does not resolve.
Bootable(t, d) ==
    /\ t.hooks => token = "now"
    /\ d.hooks => t.hooks
    /\ d.keyed \subseteq EnvKeys(t)

Boot ==
    /\ pod.phase = "starting" /\ file # Unseeded /\ Bootable(pod.tmpl, file)
    /\ pod' = [pod EXCEPT !.phase = "ready", !.run = file]
    /\ UNCHANGED <<inputs, objects, volume, pass, aw, counts>>

ContainerDies ==
    /\ Ready /\ Fault("oom")
    /\ ContainerEnds(pod.tmpl)
    /\ UNCHANGED <<inputs, objects, volume, edits>>

(***************************************************************************)
(* The people: they edit workstations, connections, hooks and Secrets.     *)
(***************************************************************************)

Edit == edits < MaxEdits /\ edits' = edits + 1 /\ UNCHANGED faults

EnableHooks ==
    /\ hooksSpec = "before" /\ Edit
    /\ hooksSpec' = "now"
    /\ UNCHANGED <<token, brain, agent, offered, objects, volume, pod, pass, aw>>

CreateToken ==
    /\ token = "before" /\ Edit
    /\ token' = "now"
    /\ UNCHANGED <<hooksSpec, brain, agent, offered, objects, volume, pod, pass, aw>>

DisableHooks ==
    /\ "hooksoff" \in Faults /\ hooksSpec = "now" /\ Edit
    /\ hooksSpec' = "after"
    /\ UNCHANGED <<token, brain, agent, offered, objects, volume, pod, pass, aw>>

DeleteToken ==
    /\ "hooksoff" \in Faults /\ token = "now" /\ Edit
    /\ token' = "after"
    /\ UNCHANGED <<hooksSpec, brain, agent, offered, objects, volume, pod, pass, aw>>

Withdraw(c) ==
    /\ "withdraw" \in Faults /\ c \in offered /\ Edit
    /\ offered' = offered \ {c}
    /\ UNCHANGED <<hooksSpec, token, brain, agent, objects, volume, pod, pass, aw>>

SwapBrain(a, c) ==
    /\ step = "idle" \/ "busy" \in Faults
    /\ agent[a] = "live" /\ brain[a] # c /\ Edit
    /\ brain' = [brain EXCEPT ![a] = c]
    /\ UNCHANGED <<hooksSpec, token, agent, offered, objects, volume, pod, pass, aw>>

DeleteAgent(a) ==
    /\ agent[a] = "live" /\ Edit
    /\ agent' = [agent EXCEPT ![a] = "deleting"]
    /\ UNCHANGED <<hooksSpec, token, brain, offered, objects, volume, pod, pass, aw>>

-----------------------------------------------------------------------------
Pass == \/ Begin \/ EnsureKeys \/ ApplyDeployment
        \/ ModelsSkip \/ ModelsRead \/ HooksSkip \/ HooksRead
        \/ Write \/ WriteKilled \/ WriteFails
        \/ RestartPods \/ RestartFails

Workstation == \/ \E a \in Agent : Register(a) \/ Deregister(a)
               \/ AgentWrite \/ AgentWriteFails

Cluster == Rollout \/ Seed \/ Boot \/ ContainerDies

People == \/ EnableHooks \/ CreateToken \/ DisableHooks \/ DeleteToken
          \/ \E c \in Conn : Withdraw(c)
          \/ \E a \in Agent : DeleteAgent(a) \/ \E c \in Conn : SwapBrain(a, c)

Next == Pass \/ Crash \/ Workstation \/ Cluster \/ People

Spec == Init /\ [][Next]_vars

(***************************************************************************)
(* Both reconcilers come back (30 seconds while something is pending, 5    *)
(* minutes when all is settled) and finish what they began; the work queue *)
(* serves every workstation; the Deployment controller and the kubelet do  *)
(* their work.  Nobody has to edit anything and no fault has to happen.    *)
(***************************************************************************)
FairSpec ==
    /\ Spec
    /\ WF_vars(Pass)
    /\ \A a \in Agent : SF_vars(Register(a)) /\ SF_vars(Deregister(a))
    /\ WF_vars(AgentWrite \/ AgentWriteFails)
    /\ WF_vars(Rollout) /\ WF_vars(Seed) /\ WF_vars(Boot)

-----------------------------------------------------------------------------
\* Every variable has its type; a key belongs to a block; a process runs
\* only in a pod that was rendered and on a file that was seeded.
TypeOK ==
    /\ hooksSpec \in Stage /\ token \in Stage
    /\ brain \in [Agent -> Conn] /\ agent \in [Agent -> {"live", "deleting", "gone"}]
    /\ offered \subseteq Conn /\ keys \subseteq Conn /\ managed \subseteq Conn
    /\ configMap \in BOOLEAN /\ hooks \in BOOLEAN
    /\ deploy \in Template \cup {NoDeploy}
    /\ file \in Document \cup {Unseeded}
    /\ file # Unseeded => file.keyed \subseteq file.blocks
    /\ pod \in [phase : {"none", "starting", "ready"}, tmpl : Template \cup {NoDeploy},
                run : Document \cup {Unseeded}]
    /\ pod.phase # "none" => pod.tmpl # NoDeploy
    /\ Ready => pod.run # Unseeded /\ file # Unseeded
    /\ step \in Step
    /\ script \in Document \cup {Killed}
    /\ aw \in [agent : Agent \cup {NoAgent}, script : Document \cup {Killed}]
    /\ edits \in 0..MaxEdits /\ faults \in 0..MaxFaults

\* A running gateway can start again: openclaw.json refers to no variable the
\* operator has taken, or never put, into the environment, for all that is
\* still offered and enabled.  It relates a file one script wrote to the
\* Secret and the Deployment another step of another pass rendered.
\* (agentgateway_modelconnections.go:122-134, agentgateway_hooks.go:130-137)
BootableConfig ==
    /\ Ready /\ file.hooks => pod.tmpl.hooks /\ (HooksResolved => deploy.hooks)
    /\ file # Unseeded => \A c \in file.keyed \cap offered : c \in EnvKeys(deploy)

\* What the process runs is what the file says and what the inputs ask for.
Converged ==
    /\ Ready
    /\ pod.run.hooks = HooksResolved /\ Refs \cap offered \subseteq pod.run.keyed
    /\ \A k \in {"hooks", "blocks", "keyed"} : pod.run[k] = file[k]

\* Once the inputs are left alone the gateway comes to run what they ask for
\* and stays there: whatever order the converges, the restarts and the other
\* reconciler's writes of the same file come in, it neither keeps an old
\* configuration nor restarts for ever.  (agentgateway_controller.go:124-160)
Converges == <>[]Converged

\* A live workstation ends up registered for good, although the gateway
\* reconciler writes back whole documents that do not know of it yet.
\* (agentworkstation_shared.go:461-581)
LiveAgentsRegistered ==
    <>[](/\ file # Unseeded
         /\ \A a \in Agent : agent[a] = "live" => a \in file.agents)

\* Hooks that cannot be served are resolved as disabled, "the gateway keeps
\* running" (agentgateway_hooks.go:57-62): once up, it comes up again and again.
GatewayKeepsRunning == [](Ready => []<>Ready)

\* A workstation is de-registered before it is removed: no agent of a removed
\* workstation is left in openclaw.json (agentworkstation_controller.go:68-83).
RemovedAgentsLeave ==
    file # Unseeded => \A a \in file.agents : agent[a] # "gone"
=============================================================================
