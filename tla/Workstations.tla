---------------------------- MODULE Workstations ----------------------------
(***************************************************************************)
(* AgentWorkstations registered on AgentGateways.  A workstation names a   *)
(* gateway; its reconciler runs scripts in the Ready pod of that gateway   *)
(* that add the agent to openclaw.json (agents.list, allowed browser       *)
(* profiles, channel bindings, MCP servers), seed its workspace, converge  *)
(* its cron jobs and reload the MCP runtimes when the registered servers   *)
(* of the namespace changed.  A finalizer takes the agent out again.       *)
(*                                                                         *)
(* The reconciler has one worker, so passes are serial; users edit, delete *)
(* and recreate workstations in between, gateways restart or lose their    *)
(* volume, the reconciler of the gateway rewrites the same openclaw.json   *)
(* without a lock, and the status of a pass is refused when the object     *)
(* changed after the pass had read it.                                     *)
(***************************************************************************)
EXTENDS Integers, FiniteSets

CONSTANTS
    Agent,          \* names of workstations
    Gateway,        \* AgentGateways of the namespace
    Profile,        \* browser profiles
    Channel,        \* Discord channels
    Job,            \* names of cron jobs
    Text,           \* cron expression and message of a job
    Server,         \* names of MCP servers
    Setting,        \* rendered configurations of an MCP server
    Spec0,          \* the specs users give to workstations
    HandJobs,       \* the jobs people may arm by hand
    Before,         \* the workstations there are when the operator starts
    NoAgent,        \* the agentId of a job armed without one
    NoObject,       \* there is no such workstation
    MaxEdits,       \* bound: edits by users
    MaxFaults,      \* bound: faults
    MaxRegs,        \* bound: changes of the registered MCP servers
    Faults          \* which of FaultClass the environment exhibits

(***************************************************************************)
(* crash: the operator stops during a pass.  exec: a command in the pod    *)
(* fails.  down: a pod stops being Ready.  wipe: a gateway is recreated    *)
(* with an empty volume.  activity: the gateway reconciler patches         *)
(* status.lastActivity during a pass.  chat: Mattermost does not answer.   *)
(* api: the API server refuses an update.  overwrite: the configuration    *)
(* script of the gateway reconciler takes its time to write the document   *)
(* it has read.                                                            *)
(***************************************************************************)
FaultClass ==
    {"crash", "exec", "down", "wipe", "activity", "chat", "api", "overwrite"}

\* spec.schedules: at most one job of a name.
Jobs == {js \in SUBSET [name : Job, text : Text] :
            \A j, k \in js : j.name = k.name => j = k}

\* MCP servers: at most one configuration of a name.
Servers == {ss \in SUBSET [name : Server, cfg : Setting] :
               \A r, q \in ss : r.name = q.name => r = q}

WorkstationSpec ==
    [gw : Gateway, profile : Profile,
     channel : {c \in SUBSET Channel : Cardinality(c) <= 1},
     jobs : Jobs, servers : Servers]

ASSUME WorkstationAssumption ==
    /\ Spec0 \subseteq WorkstationSpec
    /\ NoAgent \notin Agent /\ Before \subseteq Agent
    /\ MaxEdits \in Nat /\ MaxFaults \in Nat /\ MaxRegs \in Nat
    /\ Faults \subseteq FaultClass

\* A registration set is its number; Unseen stands for an empty hash.
Unseen == -1
Regs == 0..MaxRegs

\* The object: spec, deletion, finalizer, status.schedules and
\* status.gatewayRegistrationsHash.
Object ==
    [spec : Spec0, deleting : BOOLEAN, fin : BOOLEAN, known : SUBSET Job,
     seen : Regs \cup {Unseen}]

ASSUME NoObjectAssumption == NoObject \notin Object

\* A job of the gateway's cron table.
CronJob == [owner : Agent \cup {NoAgent}, name : Job, text : Text]
ASSUME HandJobAssumption == HandJobs \subseteq CronJob

Route == [agent : Agent, channel : Channel]

\* A gateway: its pod, the files on its volume, and per agent the
\* registration set its MCP runtime listed when it connected.
GatewayState ==
    [ready : BOOLEAN, agents : SUBSET Agent, spaces : SUBSET Agent,
     profiles : SUBSET Profile, routes : SUBSET Route, cron : SUBSET CronJob,
     servers : Servers, listed : [Agent -> Regs \cup {Unseen}]]

\* What the workstations write in openclaw.json.
Document ==
    [agents : SUBSET Agent, profiles : SUBSET Profile, routes : SUBSET Route,
     servers : Servers]

VARIABLES
    obj,        \* the workstations
    gw,         \* the gateways
    chat,       \* the Mattermost user and channel of each agent
    regs,       \* the MCPServerRegistrations of the namespace
    pass,       \* the pass under way, with what it read and found
    script,     \* the document a script of the gateway reconciler holds
    left,       \* <<a, g>>: a moved away from g, was released unreached, or
                \* was put back by the script of the gateway reconciler
    late,       \* the first observation of a came after its runtime's
    edits, faults

vars == <<obj, gw, chat, regs, pass, script, left, late, edits, faults>>

Idle == [step |-> "idle"]
NoScript == [agents |-> "none"]

\* aw as the pass holds it; stale when the object has changed since.
Pass ==
    [step : {"register", "tools", "schedules", "save"}, agent : Agent,
     spec : Spec0, known : SUBSET Job, seen : Regs \cup {Unseen},
     stale : BOOLEAN]

NewVolume ==
    [ready |-> FALSE, agents |-> {}, spaces |-> {}, profiles |-> {},
     routes |-> {}, cron |-> {}, servers |-> {},
     listed |-> [a \in Agent |-> Unseen]]

New(s) ==
    [spec |-> s, deleting |-> FALSE, fin |-> FALSE, known |-> {}, seen |-> Unseen]

\* Users have created some workstations before the operator starts.
Init ==
    /\ \E s \in Spec0 :
          obj = [a \in Agent |-> IF a \in Before THEN New(s) ELSE NoObject]
    /\ gw = [g \in Gateway |-> [NewVolume EXCEPT !.ready = TRUE]]
    /\ chat = [a \in Agent |-> "none"]
    /\ regs = 0 /\ pass = Idle /\ left = {} /\ late = {}
    /\ script = [g \in Gateway |-> NoScript]
    /\ edits = 0 /\ faults = 0

Fault(f) == f \in Faults /\ faults < MaxFaults /\ faults' = faults + 1
NoFault == UNCHANGED faults

Exists(a) == obj[a] # NoObject
Live(a) == Exists(a) /\ ~obj[a].deleting

\* Mutant: the object leaves the list of the workstations.
MutReleased(a) == obj' = [b \in Agent \ {a} |-> obj[b]]

Released(a) == obj' = [obj EXCEPT ![a] = NoObject]

UnderWay(a) == pass # Idle /\ pass.agent = a

\* The Mattermost user is active and the channel there, or both are put away.
ChatOn(a) == chat' = [chat EXCEPT ![a] = "on"]
ChatOff(a) == chat' = [chat EXCEPT ![a] = "archived"]

\* The object changed under the pass that holds it.
Overtaken(a) ==
    IF UnderWay(a) THEN [pass EXCEPT !.stale = TRUE] ELSE pass

-----------------------------------------------------------------------------
(* The reconciler                                                          *)

\* The finalizer, then the chat presence (best effort), then the gateway: a
\* gateway without a Ready pod ends the pass, to be retried in 15 seconds.
Begin(a) ==
    /\ pass = Idle /\ Live(a)
    /\ obj' = [obj EXCEPT ![a].fin = TRUE]
    /\ \/ NoFault /\ ChatOn(a)
       \/ Fault("chat") /\ UNCHANGED chat
    /\ pass' = IF gw[obj[a].spec.gw].ready
               THEN [step |-> "register", agent |-> a, spec |-> obj[a].spec,
                     known |-> obj[a].known, seen |-> obj[a].seen,
                     stale |-> FALSE]
               ELSE Idle
    /\ UNCHANGED <<gw, regs, script, left, late, edits>>

Here == pass.spec.gw
CanExec == gw[Here].ready

\* Mutant: a channel has one agent.
MutMerged(g, a, s) ==
    [g EXCEPT
        !.agents = @ \cup {a},
        !.profiles = @ \cup {s.profile},
        !.routes = {r \in @ : r.channel \notin s.channel /\ r.agent # a}
                   \cup [agent : {a}, channel : s.channel]]

\* The merge script: the agent's entry, its profile, and its one binding in
\* the place of those it had.
Merged(g, a, s) ==
    [g EXCEPT
        !.agents = @ \cup {a},
        !.profiles = @ \cup {s.profile},
        !.routes = {r \in @ : r.agent # a}
                   \cup [agent : {a}, channel : s.channel]]

Seeded(g) == [g EXCEPT !.spaces = @ \cup {pass.agent}]
Registered(g) == Merged(Seeded(g), pass.agent, pass.spec)

\* The workspace is seeded, then the agent merged into the configuration.
Register ==
    /\ pass.step = "register" /\ CanExec
    /\ gw' = [gw EXCEPT ![Here] = Registered(@)]
    /\ pass' = [pass EXCEPT !.step = "tools"]
    /\ UNCHANGED <<obj, chat, regs, script, left, late, edits, faults>>

\* Either script fails, before or after its effect, which ends the pass.
RegisterFails ==
    /\ pass.step = "register"
    /\ \/ ~CanExec /\ NoFault /\ UNCHANGED gw
       \/ /\ Fault("exec")
          /\ gw' \in {gw, [gw EXCEPT ![Here] = Seeded(@)],
                          [gw EXCEPT ![Here] = Registered(@)]}
    /\ pass' = Idle
    /\ UNCHANGED <<obj, chat, regs, script, left, late, edits>>

Names(things) == {t.name : t \in things}

\* The servers whose live entry differs from the declared one, and setting
\* some servers: an entry takes the place of the one of its name.
Drift(g, s) == s.servers \ g.servers
WithServers(g, set) ==
    [g EXCEPT !.servers = {r \in @ : r.name \notin Names(set)} \cup set]

\* Mutant: the registration set is recorded whether or not the reload ran.
MutReloads(ok) == pass.spec.servers # {} /\ pass.seen \notin {regs, Unseen}

\* openclaw mcp reload is due and succeeds.
Reloads(ok) ==
    ok /\ pass.spec.servers # {} /\ pass.seen \notin {regs, Unseen}

\* The runtimes are disposed of: each lists its servers when it connects.
Disposed(g, done) ==
    IF done THEN [g EXCEPT !.listed = [a \in Agent |-> Unseen]] ELSE g

\* The MCP servers that differ are set one by one until a command fails; the
\* first observation of the registrations is recorded, a later change reloads
\* the runtimes first.  Neither failure ends the pass.
Tools ==
    /\ pass.step = "tools"
    /\ \E set \in SUBSET Drift(gw[Here], pass.spec), reload \in BOOLEAN :
          /\ IF (set = Drift(gw[Here], pass.spec) /\ reload) \/ ~CanExec
             THEN NoFault ELSE Fault("exec")
          /\ LET s == IF CanExec THEN set ELSE {}
                 r == reload /\ CanExec
             IN
             /\ gw' = [gw EXCEPT ![Here] =
                    Disposed(WithServers(@, s), r /\ Reloads(TRUE))]
             /\ pass' = [pass EXCEPT !.step = "schedules",
                    !.seen = IF \/ @ = Unseen /\ pass.spec.servers # {}
                                \/ Reloads(r)
                             THEN regs ELSE @]
    /\ late' = IF /\ pass.seen = Unseen /\ pass.spec.servers # {}
                  /\ gw[Here].listed[pass.agent] \notin {regs, Unseen}
               THEN late \cup {pass.agent} ELSE late
    /\ UNCHANGED <<obj, chat, regs, script, left, edits>>

\* The jobs of a gateway that an agent may take for its own.
Visible(g, a) == {c \in gw[g].cron : c.owner \in {a, NoAgent}}

\* Mutant: whatever is not declared is removed.
MutStale(g, a, s, known) ==
    {c \in Visible(g, a) : c.name \notin Names(s.jobs)}

\* Declared before and no longer.
Stale(g, a, s, known) ==
    {c \in Visible(g, a) : c.name \in known \ Names(s.jobs)}

\* Mutant: a job of that name is taken for its own, whoever owns it.
MutWanting(g, a, s) ==
    {j \in s.jobs : ~\E c \in gw[g].cron : c.name = j.name /\ c.text = j.text}

\* Declared, and missing or different.
Wanting(g, a, s) ==
    {j \in s.jobs : ~\E c \in Visible(g, a) : c.name = j.name /\ c.text = j.text}

\* The cron table when the commands for all names but those in failed ran:
\* an edited job gets the agent for its owner.
Converged(g, a, s, known, failed) ==
    LET gone == {c \in Stale(g, a, s, known) : c.name \notin failed}
        new  == {j \in Wanting(g, a, s) : j.name \notin failed}
    IN  ((gw[g].cron \ gone)
            \ {c \in Visible(g, a) : c.name \in Names(new)})
        \cup {[owner |-> a, name |-> j.name, text |-> j.text] : j \in new}

\* planSchedules and its commands.  A command that fails is left for the
\* next pass, but status.schedules becomes the declared names all the same.
Converge ==
    /\ pass.step = "schedules" /\ CanExec
    /\ \E failed \in SUBSET Job :
          /\ IF failed = {} THEN NoFault ELSE Fault("exec")
          /\ gw' = [gw EXCEPT ![Here].cron =
                Converged(Here, pass.agent, pass.spec, pass.known, failed)]
    /\ pass' = [pass EXCEPT !.step = "save", !.known = Names(pass.spec.jobs)]
    /\ UNCHANGED <<obj, chat, regs, script, left, late, edits>>

\* The cron table cannot be listed.
ConvergeFails ==
    /\ pass.step = "schedules"
    /\ IF CanExec THEN Fault("exec") ELSE NoFault
    /\ pass' = [pass EXCEPT !.step = "save"]
    /\ UNCHANGED <<obj, gw, chat, regs, script, left, late, edits>>

\* The status update; the API server refuses it when the object changed.
Save ==
    /\ pass.step = "save" /\ ~pass.stale
    /\ obj' = [obj EXCEPT ![pass.agent].known = pass.known,
                          ![pass.agent].seen = pass.seen]
    /\ pass' = Idle
    /\ UNCHANGED <<gw, chat, regs, script, left, late, edits, faults>>

SaveFails ==
    /\ pass.step = "save"
    /\ IF pass.stale THEN NoFault ELSE Fault("api")
    /\ pass' = Idle
    /\ UNCHANGED <<obj, gw, chat, regs, script, left, late, edits>>

Crash ==
    /\ pass # Idle /\ Fault("crash")
    /\ pass' = Idle
    /\ UNCHANGED <<obj, gw, chat, regs, script, left, late, edits>>

\* The de-register script: its entry, profile, bindings and workspace.
Without(g, a, s) ==
    [g EXCEPT
        !.agents = @ \ {a}, !.spaces = @ \ {a},
        !.profiles = @ \ {s.profile},
        !.routes = {r \in @ : r.agent # a}]

\* Mutant: the finalizer goes first.
MutDeregister(a) ==
    /\ pass = Idle /\ Exists(a) /\ obj[a].deleting
    /\ Released(a)
    /\ NoFault
    /\ \/ gw' = [gw EXCEPT ![obj[a].spec.gw] = Without(@, a, obj[a].spec)]
       \/ UNCHANGED gw
    /\ ChatOff(a)
    /\ left' = left \ {<<a, obj[a].spec.gw>>}
    /\ UNCHANGED <<regs, pass, script, late, edits>>

\* The finalizer: the script, the chat presence (best effort), then the
\* object is let go; a refused update of the object repeats all of it.
Deregister(a) ==
    /\ pass = Idle /\ Exists(a) /\ obj[a].deleting
    /\ gw[obj[a].spec.gw].ready
    /\ gw' = [gw EXCEPT ![obj[a].spec.gw] = Without(@, a, obj[a].spec)]
    /\ \/ NoFault /\ Released(a) /\ ChatOff(a)
       \/ Fault("chat") /\ Released(a) /\ UNCHANGED chat
       \/ Fault("api") /\ UNCHANGED obj /\ ChatOff(a)
    /\ left' = left \ {<<a, obj[a].spec.gw>>}
    /\ UNCHANGED <<regs, pass, script, late, edits>>

\* The script fails after its effect, and is to be retried.
DeregisterFails(a) ==
    /\ pass = Idle /\ Exists(a) /\ obj[a].deleting
    /\ gw[obj[a].spec.gw].ready /\ Fault("exec")
    /\ gw' = [gw EXCEPT ![obj[a].spec.gw] = Without(@, a, obj[a].spec)]
    /\ UNCHANGED <<obj, chat, regs, pass, script, left, late, edits>>

\* No gateway, or no Ready pod: nothing to take out, the object is let go.
ReleaseUnreached(a) ==
    /\ pass = Idle /\ Exists(a) /\ obj[a].deleting
    /\ ~gw[obj[a].spec.gw].ready
    /\ Released(a)
    /\ ChatOff(a)
    /\ left' = left \cup {<<a, obj[a].spec.gw>>}
    /\ UNCHANGED <<gw, regs, pass, script, late, edits, faults>>

-----------------------------------------------------------------------------
(* The reconciler of the gateway, which works beside this one              *)

\* Its script in the pod reads openclaw.json.
GatewayReads(g) ==
    /\ gw[g].ready /\ script[g] = NoScript /\ Fault("overwrite")
    /\ script' = [script EXCEPT ![g] =
           [agents |-> gw[g].agents, profiles |-> gw[g].profiles,
            routes |-> gw[g].routes, servers |-> gw[g].servers]]
    /\ UNCHANGED <<obj, gw, chat, regs, pass, left, late, edits>>

\* It writes the document back, with the gateway's own settings changed.
GatewayWrites(g) ==
    /\ script[g] # NoScript
    /\ gw' = [gw EXCEPT ![g].agents = script[g].agents,
                        ![g].profiles = script[g].profiles,
                        ![g].routes = script[g].routes,
                        ![g].servers = script[g].servers]
    /\ left' = left \cup {<<a, g>> : a \in script[g].agents \ gw[g].agents}
    /\ script' = [script EXCEPT ![g] = NoScript]
    /\ UNCHANGED <<obj, chat, regs, pass, late, edits, faults>>

-----------------------------------------------------------------------------
(* Users and the cluster                                                   *)

Edit ==
    edits < MaxEdits /\ edits' = edits + 1 /\ UNCHANGED <<regs, script, late, faults>>

Create(a, s) ==
    /\ Edit /\ ~Exists(a)
    /\ obj' = [obj EXCEPT ![a] = New(s)]
    /\ UNCHANGED <<gw, chat, pass, left>>

EditSpec(a, s) ==
    /\ Edit /\ Live(a) /\ s # obj[a].spec
    /\ obj' = [obj EXCEPT ![a].spec = s]
    /\ pass' = Overtaken(a)
    /\ left' = IF s.gw = obj[a].spec.gw THEN left
               ELSE left \cup {<<a, obj[a].spec.gw>>}
    /\ UNCHANGED <<gw, chat>>

\* Without a finalizer the object is gone at once.
Delete(a) ==
    /\ Edit /\ Live(a)
    /\ obj' = [obj EXCEPT ![a] =
           IF @.fin THEN [@ EXCEPT !.deleting = TRUE] ELSE NoObject]
    /\ pass' = Overtaken(a)
    /\ UNCHANGED <<gw, chat, left>>

\* Somebody arms a job by hand, under a name the table does not have.
HandAdds(g, j) ==
    /\ Edit /\ gw[g].ready
    /\ j.name \notin Names(gw[g].cron)
    /\ gw' = [gw EXCEPT ![g].cron = @ \cup {j}]
    /\ UNCHANGED <<obj, chat, pass, left>>

\* activityFlush: the object changes, nothing but its version matters here.
NoteActivity(a) ==
    /\ Exists(a) /\ Overtaken(a) # pass /\ Fault("activity")
    /\ pass' = Overtaken(a)
    /\ UNCHANGED <<obj, gw, chat, regs, script, left, late, edits>>

RegsChange ==
    /\ regs < MaxRegs /\ regs' = regs + 1
    /\ UNCHANGED <<obj, gw, chat, pass, script, left, late, edits, faults>>

\* A session of the agent needs its tools: the runtime connects and lists.
Connect(g, a) ==
    /\ gw[g].ready /\ a \in gw[g].agents /\ gw[g].listed[a] = Unseen
    /\ gw' = [gw EXCEPT ![g].listed[a] = regs]
    /\ UNCHANGED <<obj, chat, regs, pass, script, left, late, edits, faults>>

PodDown(g) ==
    /\ gw[g].ready /\ Fault("down")
    /\ gw' = [gw EXCEPT ![g].ready = FALSE,
                        ![g].listed = [a \in Agent |-> Unseen]]
    /\ script' = [script EXCEPT ![g] = NoScript]
    /\ UNCHANGED <<obj, chat, regs, pass, left, late, edits>>

PodUp(g) ==
    /\ ~gw[g].ready
    /\ gw' = [gw EXCEPT ![g].ready = TRUE]
    /\ UNCHANGED <<obj, chat, regs, pass, script, left, late, edits, faults>>

Recreate(g) ==
    /\ Fault("wipe")
    /\ gw' = [gw EXCEPT ![g] = NewVolume]
    /\ script' = [script EXCEPT ![g] = NoScript]
    /\ left' = {l \in left : l[2] = g => UnderWay(l[1])}
    /\ UNCHANGED <<obj, chat, regs, pass, late, edits>>

-----------------------------------------------------------------------------
Reconciler ==
    \/ \E a \in Agent : \/ Begin(a)
                       \/ Deregister(a)
                       \/ DeregisterFails(a)
                       \/ ReleaseUnreached(a)
    \/ Register
    \/ RegisterFails
    \/ Tools
    \/ Converge
    \/ ConvergeFails
    \/ Save
    \/ SaveFails
    \/ Crash

Environment ==
    \/ \E a \in Agent : \/ \E s \in Spec0 : Create(a, s) \/ EditSpec(a, s)
                        \/ Delete(a)
                        \/ NoteActivity(a)
    \/ \E g \in Gateway : \/ \E j \in HandJobs : HandAdds(g, j)
                          \/ \E a \in Agent : Connect(g, a)
                          \/ GatewayReads(g)
                          \/ GatewayWrites(g)
                          \/ PodDown(g)
                          \/ PodUp(g)
                          \/ Recreate(g)
    \/ RegsChange

Next == Reconciler \/ Environment

Spec == Init /\ [][Next]_vars

(***************************************************************************)
(* The work queue hands every workstation to the worker again: each pass   *)
(* ends with a requeue.  A pass of another one may be under way at any     *)
(* time, so the fairness of its begin is strong.                           *)
(***************************************************************************)
FairSpec ==
    /\ Spec
    /\ \A a \in Agent : /\ SF_vars(Begin(a))
                        /\ SF_vars(Deregister(a) \/ ReleaseUnreached(a))
    /\ WF_vars(Register \/ RegisterFails)
    /\ WF_vars(Tools)
    /\ WF_vars(Converge \/ ConvergeFails)
    /\ WF_vars(Save \/ SaveFails)
    /\ \A g \in Gateway : WF_vars(PodUp(g))

-----------------------------------------------------------------------------
\* Every variable keeps its type: a pass always has the spec of a workstation
\* and the configuration only names known agents, profiles and jobs.
TypeOK ==
    /\ obj \in [Agent -> Object \cup {NoObject}]
    /\ gw \in [Gateway -> GatewayState]
    /\ chat \in [Agent -> {"none", "on", "archived"}]
    /\ regs \in Regs
    /\ pass \in Pass \cup {Idle}
    /\ script \in [Gateway -> Document \cup {NoScript}]
    /\ left \subseteq Agent \X Gateway /\ late \subseteq Agent
    /\ edits \in 0..MaxEdits /\ faults \in 0..MaxFaults

\* What an agent has on a gateway is guarded by the finalizer of a
\* workstation that names that gateway: through crashes, refused updates and
\* deletions during a pass, only a workstation that moved away, whose gateway
\* had no Ready pod when it was deleted, or whose entry the script of the
\* gateway reconciler put back, leaves something behind.
RegistrationGuarded ==
    \A g \in Gateway, a \in Agent :
        a \in gw[g].agents \cup gw[g].spaces =>
            \/ <<a, g>> \in left
            \/ Exists(a) /\ obj[a].fin /\ obj[a].spec.gw = g

\* Names that no workstation ever declares.
HandNames == Job \ UNION {Names(s.jobs) : s \in Spec0}

\* "Jobs the operator never declared are never touched."
HandMadeKept ==
    [][\A g \in Gateway :
          {c \in gw[g].cron : c.name \in HandNames} \subseteq gw'[g].cron
          \/ gw'[g] = NewVolume]_vars

\* Another workstation of the gateway gives the server another configuration.
Contested(a, r) ==
    \E b \in Agent \ {a} :
        /\ Live(b) /\ obj[b].spec.gw = obj[a].spec.gw
        /\ \E q \in obj[b].spec.servers : q.name = r.name /\ q # r

Installed(a) ==
    LET s == obj[a].spec
        g == gw[s.gw]
    IN  /\ a \in g.agents \cap g.spaces
        /\ s.profile \in g.profiles
        /\ {r \in g.routes : r.agent = a} = [agent : {a}, channel : s.channel]
        /\ \A r \in s.servers : r \in g.servers \/ Contested(a, r)
        /\ \A j \in s.jobs : \E c \in g.cron :
               c.name = j.name /\ c.text = j.text /\ c.owner \in {a, NoAgent}
        /\ chat[a] = "on"

\* The gateways heal: again and again every workstation is registered as its
\* spec says, with its schedules, whatever was deleted beside it, failed or
\* was lost with a volume.  Of a server with two configurations there is one.
RegistrationsHeal ==
    []<>(\A a \in Agent : Live(a) => Installed(a))

\* The runtimes of an agent with MCP servers do not keep an old list of the
\* registered servers.  Exceptions: the first observation only records, and
\* the agent may return to a gateway it had left.
ToolsFresh ==
    []<>(\A a \in Agent :
            Live(a) /\ obj[a].spec.servers # {} =>
                \/ gw[obj[a].spec.gw].listed[a] \in {regs, Unseen}
                \/ a \in late
                \/ <<a, obj[a].spec.gw>> \in left)

Config(g) ==
    <<gw[g].agents, gw[g].profiles, gw[g].routes, gw[g].cron, gw[g].servers>>

\* Workstations that share a gateway do not fight, unless they give one server
\* name two configurations: once nobody edits anything, the passes that go on
\* for ever come to write nothing.
PassesGoQuiet ==
    \/ <>[](\E a \in Agent : Live(a) /\ \E r \in obj[a].spec.servers : Contested(a, r))
    \/ <>[][\A g \in Gateway : Config(g)' = Config(g)]_vars

\* "The stamp is gone": no loop rewrites openclaw.json.  One does where two
\* workstations give a server name two configurations.
NothingRewritesForEver == <>[][\A g \in Gateway : Config(g)' = Config(g)]_vars

\* "removing what this workstation declared before and no longer does"
DroppedJobsLeave ==
    []<>(\A a \in Agent : Live(a) =>
            \A c \in gw[obj[a].spec.gw].cron :
                c.owner = a /\ c.name \notin HandNames
                => c.name \in Names(obj[a].spec.jobs))
=============================================================================
