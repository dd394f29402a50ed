------------------------- MODULE WorkstationsProofs -------------------------
(***************************************************************************)
(* Theorems about Workstations for any number of workstations, gateways,   *)
(* edits and faults: what an agent has on a gateway is guarded by a        *)
(* finalizer, jobs armed by hand stay, workstations stay out of each       *)
(* other's way, and a status that is saved tells what is installed.        *)
(*                                                                         *)
(* None is inductive: a pass registers on the gateway it read when it      *)
(* began, and removes the jobs it read then as declared before.  The       *)
(* strengthening says what is still true of these in the middle of a pass. *)
(***************************************************************************)
EXTENDS Workstations, TLAPS

\* The workstation of the pass under way has its finalizer, and names the
\* gateway of the pass or is noted to have left it.
PassGuarded ==
    pass # Idle =>
        /\ Exists(pass.agent) /\ obj[pass.agent].fin
        /\ \/ obj[pass.agent].spec.gw = pass.spec.gw
           \/ <<pass.agent, pass.spec.gw>> \in left

\* What counts as declared before was in a spec once.
KnownDeclared ==
    /\ \A a \in Agent : Exists(a) => obj[a].known \cap HandNames = {}
    /\ pass # Idle => pass.known \cap HandNames = {}

Inv == TypeOK /\ PassGuarded /\ RegistrationGuarded /\ KnownDeclared

HandMade(g) == {c \in gw[g].cron : c.name \in HandNames}

Kept(g) == HandMade(g) \subseteq gw'[g].cron \/ gw'[g] = NewVolume

USE DEF Exists, Live, UnderWay

-----------------------------------------------------------------------------
(* The data                                                                *)

LEMMA SpecTyped ==
    ASSUME NEW s \in Spec0
    PROVE  /\ s.gw \in Gateway /\ s.profile \in Profile
           /\ s.channel \subseteq Channel /\ s.servers \in Servers
           /\ \A j \in s.jobs : j.name \in Job /\ j.text \in Text
BY WorkstationAssumption DEF WorkstationSpec, Jobs

\* A pass that took a step is not idle.
LEMMA PassTyped ==
    ASSUME pass \in Pass \cup {Idle}
    PROVE  /\ pass # Idle <=> pass \in Pass
           /\ pass.step # "idle" <=> pass # Idle
BY DEF Pass, Idle

\* The names a spec declares are not names of hand-made jobs.
LEMMA NamesDeclared ==
    ASSUME NEW s \in Spec0
    PROVE  Names(s.jobs) \subseteq Job /\ Names(s.jobs) \cap HandNames = {}
BY SpecTyped DEF Names, HandNames

\* Setting servers keeps names unique.
LEMMA ServersTyped ==
    ASSUME NEW ss \in Servers, NEW s \in Spec0, NEW set \in SUBSET s.servers
    PROVE  {r \in ss : r.name \notin Names(set)} \cup set \in Servers
<1> DEFINE kept == {r \in ss : r.name \notin Names(set)}
<1>1. /\ ss \subseteq [name : Server, cfg : Setting]
      /\ \A r, q \in ss : r.name = q.name => r = q
  BY DEF Servers
<1>2. /\ set \subseteq [name : Server, cfg : Setting]
      /\ \A r, q \in set : r.name = q.name => r = q
  BY SpecTyped DEF Servers
<1>3. \A r \in kept, q \in set : r.name # q.name
  BY DEF Names
<1>4. kept \subseteq ss
  OBVIOUS
<1> HIDE DEF kept
<1>5. kept \cup set \subseteq [name : Server, cfg : Setting]
  BY <1>1, <1>2, <1>4
<1>6. \A r, q \in kept \cup set : r.name = q.name => r = q
  BY <1>1, <1>2, <1>3, <1>4
<1>7. kept \cup set \in Servers
  BY <1>5, <1>6 DEF Servers
<1>8. QED
  BY <1>7 DEF kept

\* The scripts keep the shape of a gateway.
LEMMA ScriptsTyped ==
    ASSUME NEW g \in GatewayState, NEW a \in Agent, NEW s \in Spec0
    PROVE  /\ Merged(g, a, s) \in GatewayState
           /\ Merged(g, a, s).agents = g.agents \cup {a}
           /\ Merged(g, a, s).spaces = g.spaces
           /\ Merged(g, a, s).cron = g.cron
           /\ Without(g, a, s) \in GatewayState
           /\ Without(g, a, s).agents = g.agents \ {a}
           /\ Without(g, a, s).spaces = g.spaces \ {a}
           /\ Without(g, a, s).cron = g.cron
<1>1. [agent : {a}, channel : s.channel] \subseteq Route
  BY SpecTyped DEF Route
<1>2. Merged(g, a, s) \in GatewayState
  <2>1. /\ g.agents \cup {a} \subseteq Agent
        /\ g.profiles \cup {s.profile} \subseteq Profile
        /\ {r \in g.routes : r.agent # a}
              \cup [agent : {a}, channel : s.channel] \subseteq Route
    BY <1>1, SpecTyped DEF GatewayState
  <2>2. QED
    BY <2>1 DEF Merged, GatewayState
<1>4. Without(g, a, s) \in GatewayState
  <2>1. /\ g.agents \ {a} \subseteq Agent /\ g.spaces \ {a} \subseteq Agent
        /\ g.profiles \ {s.profile} \subseteq Profile
        /\ {r \in g.routes : r.agent # a} \subseteq Route
    BY DEF GatewayState
  <2>2. QED
    BY <2>1 DEF Without, GatewayState
<1>5. /\ Merged(g, a, s).agents = g.agents \cup {a}
      /\ Merged(g, a, s).spaces = g.spaces
      /\ Merged(g, a, s).cron = g.cron
  BY DEF Merged, GatewayState
<1>7. /\ Without(g, a, s).agents = g.agents \ {a}
      /\ Without(g, a, s).spaces = g.spaces \ {a}
      /\ Without(g, a, s).cron = g.cron
  BY DEF Without, GatewayState
<1>8. QED
  BY <1>2, <1>4, <1>5, <1>7

LEMMA SettingTyped ==
    ASSUME NEW g \in GatewayState, NEW s \in Spec0, NEW set \in SUBSET s.servers
    PROVE  /\ WithServers(g, set) \in GatewayState
           /\ WithServers(g, set).agents = g.agents
           /\ WithServers(g, set).spaces = g.spaces
           /\ WithServers(g, set).cron = g.cron
           /\ WithServers(g, set).routes = g.routes
<1>1. WithServers(g, set) \in GatewayState
  <2> DEFINE ss == {r \in g.servers : r.name \notin Names(set)} \cup set
  <2>1. g.servers \in Servers
    BY DEF GatewayState
  <2>2. ss \in Servers
    BY <2>1, ServersTyped
  <2>3. WithServers(g, set) = [g EXCEPT !.servers = ss]
    BY DEF WithServers, GatewayState
  <2> HIDE DEF ss
  <2>4. QED
    BY <2>2, <2>3 DEF GatewayState
<1>2. /\ WithServers(g, set).agents = g.agents
      /\ WithServers(g, set).spaces = g.spaces
      /\ WithServers(g, set).cron = g.cron
      /\ WithServers(g, set).routes = g.routes
  BY DEF WithServers, GatewayState
<1>3. QED
  BY <1>1, <1>2

LEMMA DisposedTyped ==
    ASSUME NEW g \in GatewayState, NEW done
    PROVE  /\ Disposed(g, done) \in GatewayState
           /\ Disposed(g, done).agents = g.agents
           /\ Disposed(g, done).spaces = g.spaces
           /\ Disposed(g, done).cron = g.cron
BY DEF Disposed, GatewayState

LEMMA RegisteredTyped ==
    ASSUME NEW g \in GatewayState, pass \in Pass
    PROVE  /\ Seeded(g) \in GatewayState
           /\ Seeded(g).agents = g.agents
           /\ Seeded(g).spaces = g.spaces \cup {pass.agent}
           /\ Seeded(g).cron = g.cron
           /\ Registered(g) \in GatewayState
           /\ Registered(g).agents = g.agents \cup {pass.agent}
           /\ Registered(g).spaces = g.spaces \cup {pass.agent}
           /\ Registered(g).cron = g.cron
<1>0. pass.agent \in Agent /\ pass.spec \in Spec0
  BY DEF Pass
<1>1. Seeded(g) \in GatewayState
  BY <1>0 DEF Seeded, GatewayState
<1>2. /\ Seeded(g).agents = g.agents
      /\ Seeded(g).spaces = g.spaces \cup {pass.agent}
      /\ Seeded(g).cron = g.cron
  BY DEF Seeded, GatewayState
<1>3. \A h \in GatewayState :
         /\ Merged(h, pass.agent, pass.spec) \in GatewayState
         /\ Merged(h, pass.agent, pass.spec).agents = h.agents \cup {pass.agent}
         /\ Merged(h, pass.agent, pass.spec).spaces = h.spaces
         /\ Merged(h, pass.agent, pass.spec).cron = h.cron
  BY <1>0, ScriptsTyped
<1>4. QED
  BY <1>1, <1>2, <1>3 DEF Registered

\* Converging the schedules arms jobs of the agent, and takes out only jobs
\* whose name is declared or was.
LEMMA ConvergedKeeps ==
    ASSUME NEW g \in Gateway, gw[g] \in GatewayState, NEW a \in Agent,
           NEW s \in Spec0, NEW known, known \cap HandNames = {}, NEW failed
    PROVE  /\ Converged(g, a, s, known, failed) \subseteq CronJob
           /\ HandMade(g) \subseteq Converged(g, a, s, known, failed)
<1>1. gw[g].cron \subseteq CronJob
  BY DEF GatewayState
<1>2. Wanting(g, a, s) \subseteq s.jobs
  BY DEF Wanting
<1>3. \A c \in Stale(g, a, s, known) : c.name \notin HandNames
  BY DEF Stale
<1>4. \A j \in s.jobs : j.name \in Names(s.jobs)
  BY DEF Names
<1>5. \A j \in s.jobs : j.name \notin HandNames
  BY <1>4, NamesDeclared
<1>6. \A X : X \subseteq s.jobs => \A n \in Names(X) : n \notin HandNames
  BY <1>5 DEF Names
<1>7. {j \in Wanting(g, a, s) : j.name \notin failed} \subseteq s.jobs
  BY <1>2
<1>8. \A j \in s.jobs : [owner |-> a, name |-> j.name, text |-> j.text] \in CronJob
  BY SpecTyped DEF CronJob
<1>9. Converged(g, a, s, known, failed) \subseteq CronJob
  BY <1>1, <1>7, <1>8 DEF Converged
<1>10. HandMade(g) \subseteq Converged(g, a, s, known, failed)
  BY <1>3, <1>6, <1>7 DEF Converged, HandMade
<1>11. QED
  BY <1>9, <1>10

-----------------------------------------------------------------------------
(* The steps                                                               *)

LEMMA InitInv == Init => Inv
<1>1. SUFFICES ASSUME Init PROVE Inv
  OBVIOUS
<1>2. \A s \in Spec0 : New(s) \in Object
  BY DEF New, Object
<1>3. obj \in [Agent -> Object \cup {NoObject}]
  BY <1>1, <1>2 DEF Init
<1>4. gw \in [Gateway -> GatewayState]
  BY <1>1 DEF Init, NewVolume, GatewayState, Servers
<1>c. regs \in Regs /\ edits \in 0..MaxEdits /\ faults \in 0..MaxFaults
  BY <1>1, WorkstationAssumption DEF Init, Regs
<1>d. /\ chat \in [Agent -> {"none", "on", "archived"}]
      /\ pass \in Pass \cup {Idle}
      /\ script \in [Gateway -> Document \cup {NoScript}]
      /\ left \subseteq Agent \X Gateway /\ late \subseteq Agent
  BY <1>1 DEF Init
<1>5. TypeOK
  BY <1>3, <1>4, <1>c, <1>d DEF TypeOK
<1>6. PassGuarded
  BY <1>1 DEF Init, PassGuarded
<1>a. \A g \in Gateway : gw[g].agents = {} /\ gw[g].spaces = {}
  BY <1>1 DEF Init, NewVolume
<1>b. RegistrationGuarded
  BY <1>a DEF RegistrationGuarded
<1>7. \A s \in Spec0 : New(s).known = {}
  BY DEF New
<1>8. KnownDeclared
  BY <1>1, <1>7 DEF Init, KnownDeclared
<1>9. QED
  BY <1>5, <1>6, <1>b, <1>8 DEF Inv

\* A step on one gateway keeps the type of all, and what is armed by hand if
\* it keeps it there.
LEMMA OneGateway ==
    ASSUME Inv, NEW h \in Gateway, NEW G \in GatewayState,
           gw' = [gw EXCEPT ![h] = G], HandMade(h) \subseteq G.cron
    PROVE  /\ gw' \in [Gateway -> GatewayState]
           /\ \A g \in Gateway : Kept(g)
BY DEF Inv, TypeOK, Kept, HandMade

LEMMA SameGateways ==
    ASSUME gw' = gw
    PROVE  \A g \in Gateway : Kept(g)
BY DEF Kept, HandMade

\* The pass under way, and its gateway.
LEMMA UnderPass ==
    ASSUME Inv, pass.step # "idle"
    PROVE  /\ pass \in Pass /\ pass # Idle
           /\ pass.agent \in Agent /\ pass.spec \in Spec0
           /\ Here \in Gateway /\ gw[Here] \in GatewayState
           /\ pass.known \cap HandNames = {}
<1>1. pass \in Pass /\ pass # Idle
  BY PassTyped DEF Inv, TypeOK
<1>2. pass.agent \in Agent /\ pass.spec \in Spec0
  BY <1>1 DEF Pass
<1>3. Here \in Gateway
  BY <1>2, SpecTyped DEF Here
<1>4. QED
  BY <1>1, <1>2, <1>3 DEF Inv, TypeOK, KnownDeclared

\* The pass changes only what it has itself on its own gateway: the guard of
\* the workstation covers that.
LEMMA PassStep ==
    ASSUME Inv, pass.step # "idle", UNCHANGED <<obj, left>>,
           \/ pass' = Idle
           \/ /\ pass' \in Pass
              /\ pass'.agent = pass.agent /\ pass'.spec = pass.spec
              /\ pass'.known \cap HandNames = {},
           NEW G \in GatewayState, gw' = [gw EXCEPT ![Here] = G],
           G.agents \subseteq gw[Here].agents \cup {pass.agent},
           G.spaces \subseteq gw[Here].spaces \cup {pass.agent}
    PROVE  PassGuarded' /\ RegistrationGuarded' /\ KnownDeclared'
<1>1. pass # Idle /\ Here \in Gateway /\ gw \in [Gateway -> GatewayState]
  BY UnderPass DEF Inv, TypeOK
<1>2. PassGuarded'
  BY <1>1 DEF Inv, PassGuarded
<1>3. KnownDeclared'
  BY <1>1 DEF Inv, KnownDeclared
<1>4. RegistrationGuarded'
  BY <1>1 DEF Inv, PassGuarded, RegistrationGuarded, Here
<1>5. QED
  BY <1>2, <1>3, <1>4

\* The counters.
LEMMA FaultTyped ==
    ASSUME TypeOK, NEW f
    PROVE  /\ Fault(f) => faults' \in 0..MaxFaults
           /\ NoFault => faults' \in 0..MaxFaults
BY WorkstationAssumption DEF TypeOK, Fault, NoFault

\* The steps of a pass that is under way.
LEMMA PassStepInv ==
    ASSUME Inv, Register \/ RegisterFails \/ Tools \/ Converge
                \/ ConvergeFails \/ SaveFails
    PROVE  Inv' /\ \A g \in Gateway : Kept(g)
<1>0. pass.step # "idle" /\ UNCHANGED <<obj, chat, regs, script, left, edits>>
  <2>1. CASE Register \/ RegisterFails
    BY <2>1 DEF Register, RegisterFails
  <2>2. CASE Tools
    BY <2>2 DEF Tools
  <2>3. CASE Converge \/ ConvergeFails \/ SaveFails
    BY <2>3 DEF Converge, ConvergeFails, SaveFails
  <2>4. QED
    BY <2>1, <2>2, <2>3
<1>1. /\ pass \in Pass /\ pass # Idle
      /\ pass.agent \in Agent /\ pass.spec \in Spec0
      /\ Here \in Gateway /\ gw[Here] \in GatewayState
      /\ pass.known \cap HandNames = {}
  BY <1>0, UnderPass
<1>2. /\ gw \in [Gateway -> GatewayState] /\ regs \in Regs
      /\ late \subseteq Agent
  BY DEF Inv, TypeOK
<1>3. faults' \in 0..MaxFaults
  <2> USE FaultTyped DEF Inv
  <2>1. CASE Register
    BY <2>1 DEF Register, TypeOK
  <2>2. CASE RegisterFails
    BY <2>2 DEF RegisterFails
  <2>3. CASE Tools
    BY <2>3 DEF Tools
  <2>4. CASE Converge \/ ConvergeFails
    BY <2>4 DEF Converge, ConvergeFails
  <2>5. CASE SaveFails
    BY <2>5 DEF SaveFails
  <2>6. QED
    BY <2>1, <2>2, <2>3, <2>4, <2>5
<1>4. ASSUME pass' = Idle \/ (/\ pass' \in Pass
                              /\ pass'.agent = pass.agent
                              /\ pass'.spec = pass.spec
                              /\ pass'.known \cap HandNames = {}),
             late' \subseteq Agent,
             NEW G \in GatewayState, gw' = [gw EXCEPT ![Here] = G],
             G.agents \subseteq gw[Here].agents \cup {pass.agent},
             G.spaces \subseteq gw[Here].spaces \cup {pass.agent},
             HandMade(Here) \subseteq G.cron
      PROVE  Inv' /\ \A g \in Gateway : Kept(g)
  <2>1. gw' \in [Gateway -> GatewayState] /\ \A g \in Gateway : Kept(g)
    BY <1>1, <1>4, OneGateway
  <2>2. PassGuarded' /\ RegistrationGuarded' /\ KnownDeclared'
    BY <1>0, <1>4, PassStep
  <2>3. TypeOK'
    BY <1>0, <1>3, <1>4, <2>1 DEF Inv, TypeOK
  <2>4. QED
    BY <2>1, <2>2, <2>3 DEF Inv
<1>5. HandMade(Here) \subseteq gw[Here].cron
  BY DEF HandMade
<1>6. gw = [gw EXCEPT ![Here] = gw[Here]]
  BY <1>2
<1>7. CASE Register
  <2>1. /\ pass' \in Pass /\ pass'.agent = pass.agent
        /\ pass'.spec = pass.spec /\ pass'.known = pass.known
    BY <1>1, <1>7 DEF Register, Pass
  <2>2. gw' = [gw EXCEPT ![Here] = Registered(gw[Here])] /\ late' = late
    BY <1>7 DEF Register
  <2>3. QED
    BY <1>1, <1>2, <1>4, <1>5, <2>1, <2>2, RegisteredTyped
<1>8. CASE RegisterFails
  <2>1. \/ gw' = gw
        \/ gw' = [gw EXCEPT ![Here] = Seeded(gw[Here])]
        \/ gw' = [gw EXCEPT ![Here] = Registered(gw[Here])]
    BY <1>8 DEF RegisterFails
  <2>2. pass' = Idle /\ late' = late
    BY <1>8 DEF RegisterFails
  <2>3. QED
    BY <1>1, <1>2, <1>4, <1>5, <1>6, <2>1, <2>2, RegisteredTyped
<1>9. CASE Tools
  <2>1. PICK set \in SUBSET Drift(gw[Here], pass.spec), reload \in BOOLEAN :
          LET s == IF CanExec THEN set ELSE {}
              r == reload /\ CanExec
          IN  /\ gw' = [gw EXCEPT ![Here] =
                     Disposed(WithServers(@, s), r /\ Reloads(TRUE))]
              /\ pass' = [pass EXCEPT !.step = "schedules",
                     !.seen = IF \/ @ = Unseen /\ pass.spec.servers # {}
                                 \/ Reloads(r)
                              THEN regs ELSE @]
    BY <1>9 DEF Tools
  <2>2. late' \subseteq Agent
    <3>1. late' \in {late, late \cup {pass.agent}}
      BY <1>9 DEF Tools
    <3>2. QED
      BY <1>1, <1>2, <3>1
  <2>3. /\ pass' \in Pass /\ pass'.agent = pass.agent
        /\ pass'.spec = pass.spec /\ pass'.known = pass.known
    <3>1. PICK seen \in Regs \cup {Unseen} :
             pass' = [pass EXCEPT !.step = "schedules", !.seen = seen]
      <4>1. pass.seen \in Regs \cup {Unseen}
        BY <1>1 DEF Pass
      <4>2. \/ pass' = [pass EXCEPT !.step = "schedules", !.seen = regs]
            \/ pass' = [pass EXCEPT !.step = "schedules", !.seen = pass.seen]
        BY <1>1, <2>1 DEF Pass
      <4>3. QED
        BY <1>2, <4>1, <4>2
    <3>2. QED
      BY <1>1, <3>1 DEF Pass
  <2>4. PICK G \in GatewayState :
          /\ G.agents = gw[Here].agents /\ G.spaces = gw[Here].spaces
          /\ G.cron = gw[Here].cron /\ gw' = [gw EXCEPT ![Here] = G]
    <3> DEFINE s == IF CanExec THEN set ELSE {}
               W == WithServers(gw[Here], s)
               done == (reload /\ CanExec) /\ Reloads(TRUE)
    <3>0. s \in SUBSET pass.spec.servers
      BY DEF Drift
    <3> HIDE DEF s
    <3>1. /\ W \in GatewayState /\ W.agents = gw[Here].agents
          /\ W.spaces = gw[Here].spaces /\ W.cron = gw[Here].cron
      BY <1>1, <3>0, SettingTyped
    <3>2. gw' = [gw EXCEPT ![Here] = Disposed(W, done)]
      BY <1>1, <1>2, <2>1 DEF s
    <3> HIDE DEF W, done
    <3>3. QED
      BY <3>1, <3>2, DisposedTyped
  <2>5. QED
    BY <1>1, <1>4, <1>5, <2>2, <2>3, <2>4
<1>10. CASE Converge
  <2>1. PICK failed \in SUBSET Job :
          gw' = [gw EXCEPT ![Here].cron =
                    Converged(Here, pass.agent, pass.spec, pass.known, failed)]
    BY <1>10 DEF Converge
  <2> DEFINE cron == Converged(Here, pass.agent, pass.spec, pass.known, failed)
             G == [gw[Here] EXCEPT !.cron = cron]
  <2>2. cron \subseteq CronJob /\ HandMade(Here) \subseteq cron
    BY <1>1, ConvergedKeeps
  <2>3. /\ G \in GatewayState /\ G.cron = cron
        /\ G.agents = gw[Here].agents /\ G.spaces = gw[Here].spaces
    <3> HIDE DEF cron
    <3>1. QED
      BY <1>1, <2>2 DEF GatewayState
  <2>4. gw' = [gw EXCEPT ![Here] = G]
    BY <1>1, <1>2, <2>1
  <2>5. /\ pass' \in Pass /\ pass'.agent = pass.agent
        /\ pass'.spec = pass.spec /\ pass'.known = Names(pass.spec.jobs)
    BY <1>1, <1>10, NamesDeclared DEF Converge, Pass
  <2>6. pass'.known \cap HandNames = {} /\ late' = late
    BY <1>1, <1>10, <2>5, NamesDeclared DEF Converge
  <2> HIDE DEF cron, G
  <2>7. QED
    BY <1>2, <1>4, <2>2, <2>3, <2>4, <2>5, <2>6
<1>11. CASE ConvergeFails \/ SaveFails
  <2>1. /\ gw' = gw /\ late' = late
        /\ pass' = Idle \/ pass' = [pass EXCEPT !.step = "save"]
    BY <1>11 DEF ConvergeFails, SaveFails
  <2>2. /\ [pass EXCEPT !.step = "save"] \in Pass
        /\ [pass EXCEPT !.step = "save"].agent = pass.agent
        /\ [pass EXCEPT !.step = "save"].spec = pass.spec
        /\ [pass EXCEPT !.step = "save"].known = pass.known
    BY <1>1 DEF Pass
  <2>3. QED
    BY <1>1, <1>2, <1>4, <1>5, <1>6, <2>1, <2>2
<1>12. QED
  BY <1>7, <1>8, <1>9, <1>10, <1>11

\* A step that changes neither the gateways nor what guards them.
LEMMA QuietStep ==
    ASSUME Inv, TypeOK', gw' = gw,
           left \subseteq left',
           \A a \in Agent : Exists(a) =>
               /\ obj'[a] # NoObject
               /\ obj[a].fin => obj'[a].fin
               /\ \/ obj'[a].spec.gw = obj[a].spec.gw
                  \/ <<a, obj[a].spec.gw>> \in left',
           \A a \in Agent : obj'[a] # NoObject => obj'[a].known \cap HandNames = {},
           \/ pass' = Idle
           \/ /\ pass # Idle /\ pass'.agent = pass.agent
              /\ pass'.spec = pass.spec /\ pass'.known = pass.known
    PROVE  Inv' /\ \A g \in Gateway : Kept(g)
<1>1. PassGuarded'
  <2>1. ASSUME pass' # Idle
        PROVE  /\ obj'[pass'.agent] # NoObject /\ obj'[pass'.agent].fin
               /\ \/ obj'[pass'.agent].spec.gw = pass'.spec.gw
                  \/ <<pass'.agent, pass'.spec.gw>> \in left'
    <3>1. pass.agent \in Agent
      BY <2>1, PassTyped DEF Inv, TypeOK, Pass
    <3>2. QED
      BY <2>1, <3>1 DEF Inv, PassGuarded
  <2>2. QED
    BY <2>1 DEF PassGuarded
<1>2. KnownDeclared'
  BY DEF Inv, KnownDeclared
<1>3. RegistrationGuarded'
  BY DEF Inv, RegistrationGuarded
<1>4. QED
  BY <1>1, <1>2, <1>3, SameGateways DEF Inv

\* The other steps of the reconciler.
LEMMA BeginStep ==
    ASSUME Inv, NEW a \in Agent, Begin(a)
    PROVE  Inv' /\ \A g \in Gateway : Kept(g)
<1>0. /\ pass = Idle /\ obj[a] # NoObject /\ obj[a] \in Object
      /\ obj \in [Agent -> Object \cup {NoObject}]
      /\ obj' = [obj EXCEPT ![a].fin = TRUE]
      /\ UNCHANGED <<gw, regs, script, left, late, edits>>
  BY DEF Begin, Inv, TypeOK
<1>1. obj' = [obj EXCEPT ![a] = [obj[a] EXCEPT !.fin = TRUE]]
  BY <1>0
<1>2. /\ [obj[a] EXCEPT !.fin = TRUE] \in Object
      /\ [obj[a] EXCEPT !.fin = TRUE].fin
      /\ [obj[a] EXCEPT !.fin = TRUE].spec = obj[a].spec
      /\ [obj[a] EXCEPT !.fin = TRUE].known = obj[a].known
  BY <1>0 DEF Object
<1>3. /\ obj' \in [Agent -> Object \cup {NoObject}]
      /\ \A b \in Agent \ {a} : obj'[b] = obj[b]
      /\ obj'[a] \in Object /\ obj'[a].fin
      /\ obj'[a].spec = obj[a].spec /\ obj'[a].known = obj[a].known
  BY <1>0, <1>1, <1>2
<1>4. obj'[a] # NoObject
  BY <1>3, NoObjectAssumption
<1>5. /\ pass' \in Pass \cup {Idle}
      /\ pass' # Idle => /\ pass'.agent = a /\ pass'.spec = obj[a].spec
                         /\ pass'.known = obj[a].known
  BY <1>0 DEF Begin, Pass, Object
<1>6. TypeOK'
  <2>1. chat' \in [Agent -> {"none", "on", "archived"}]
    BY DEF Begin, ChatOn, Inv, TypeOK
  <2>2. faults' \in 0..MaxFaults
    BY FaultTyped DEF Begin, Inv, Fault, NoFault, TypeOK
  <2>3. QED
    BY <1>0, <1>3, <1>5, <2>1, <2>2 DEF Inv, TypeOK
<1>7. PassGuarded'
  BY <1>3, <1>4, <1>5 DEF PassGuarded
<1>8. KnownDeclared'
  BY <1>0, <1>3, <1>4, <1>5 DEF Inv, KnownDeclared
<1>9. RegistrationGuarded'
  BY <1>0, <1>3, <1>4 DEF Inv, RegistrationGuarded
<1>10. QED
  BY <1>0, <1>6, <1>7, <1>8, <1>9, SameGateways DEF Inv

LEMMA SaveStep ==
    ASSUME Inv, Save
    PROVE  Inv' /\ \A g \in Gateway : Kept(g)
<1>0. /\ pass \in Pass /\ pass # Idle /\ pass.agent \in Agent
      /\ pass.known \cap HandNames = {}
  BY UnderPass DEF Save
<1>1. /\ obj \in [Agent -> Object \cup {NoObject}]
      /\ obj[pass.agent] \in Object
  BY <1>0 DEF Inv, TypeOK, PassGuarded
<1>2. obj' = [obj EXCEPT ![pass.agent].known = pass.known,
                         ![pass.agent].seen = pass.seen]
      /\ pass' = Idle /\ UNCHANGED <<gw, chat, regs, script, left, late, edits, faults>>
  BY DEF Save
<1> DEFINE saved == [obj[pass.agent] EXCEPT !.known = pass.known,
                                            !.seen = pass.seen]
<1>3. /\ saved \in Object /\ saved.fin = obj[pass.agent].fin
      /\ saved.spec = obj[pass.agent].spec /\ saved.known = pass.known
  BY <1>0, <1>1 DEF Object, Pass
<1>4. /\ obj' \in [Agent -> Object \cup {NoObject}]
      /\ obj'[pass.agent] = saved
      /\ \A b \in Agent \ {pass.agent} : obj'[b] = obj[b]
  BY <1>0, <1>1, <1>2, <1>3 DEF Object, Pass
<1> HIDE DEF saved
<1>5. TypeOK'
  BY <1>2, <1>4 DEF Inv, TypeOK
<1>6. obj'[pass.agent] # NoObject
  BY <1>3, <1>4, NoObjectAssumption
<1>7. \A a \in Agent : obj[a] # NoObject =>
         /\ obj'[a] # NoObject
         /\ obj[a].fin => obj'[a].fin
         /\ obj'[a].spec = obj[a].spec
  BY <1>3, <1>4, <1>6
<1>8. \A a \in Agent : obj'[a] # NoObject => obj'[a].known \cap HandNames = {}
  BY <1>0, <1>3, <1>4 DEF Inv, KnownDeclared
<1>9. QED
  BY <1>2, <1>5, <1>7, <1>8, QuietStep

LEMMA CrashStep ==
    ASSUME Inv, Crash
    PROVE  Inv' /\ \A g \in Gateway : Kept(g)
<1>1. faults' \in 0..MaxFaults
  BY FaultTyped DEF Crash, Inv
<1>2. TypeOK'
  BY <1>1 DEF Crash, Inv, TypeOK
<1>3. \A a \in Agent : obj[a] # NoObject => obj[a].known \cap HandNames = {}
  BY DEF Inv, KnownDeclared
<1>4. QED
  BY <1>2, <1>3, QuietStep DEF Crash

\* No pass is under way when the finalizer runs, so an object that goes takes
\* its guard from nothing but what the script has taken out.
LEMMA DeregisterStep ==
    ASSUME Inv, NEW a \in Agent, Deregister(a) \/ DeregisterFails(a)
    PROVE  Inv' /\ \A g \in Gateway : Kept(g)
<1>0. /\ pass = Idle /\ obj[a] # NoObject /\ obj[a] \in Object
      /\ obj \in [Agent -> Object \cup {NoObject}]
      /\ UNCHANGED <<regs, pass, script, late, edits>>
  BY DEF Deregister, DeregisterFails, Inv, TypeOK
<1> DEFINE h == obj[a].spec.gw
           G == Without(gw[h], a, obj[a].spec)
<1>1. obj[a].spec \in Spec0 /\ h \in Gateway
  BY <1>0, SpecTyped DEF Object
<1>2. gw \in [Gateway -> GatewayState] /\ gw[h] \in GatewayState
  BY <1>1 DEF Inv, TypeOK
<1>3. /\ G \in GatewayState /\ G.agents = gw[h].agents \ {a}
      /\ G.spaces = gw[h].spaces \ {a} /\ G.cron = gw[h].cron
  BY <1>1, <1>2, ScriptsTyped
<1>4. gw' = [gw EXCEPT ![h] = G]
  BY DEF Deregister, DeregisterFails
<1>5. HandMade(h) \subseteq G.cron
  BY <1>3 DEF HandMade
<1>6. gw' \in [Gateway -> GatewayState] /\ \A g \in Gateway : Kept(g)
  BY <1>1, <1>3, <1>4, <1>5, OneGateway
<1>7. /\ obj' = obj \/ obj' = [obj EXCEPT ![a] = NoObject]
      /\ left' = left \/ left' = left \ {<<a, h>>}
  BY DEF Deregister, DeregisterFails, Released
<1>8. TypeOK'
  <2>1. chat' = chat \/ chat' = [chat EXCEPT ![a] = "archived"]
    BY DEF Deregister, DeregisterFails, ChatOff
  <2>a. chat' \in [Agent -> {"none", "on", "archived"}]
    BY <2>1 DEF Inv, TypeOK
  <2>2. faults' \in 0..MaxFaults
    BY FaultTyped DEF Deregister, DeregisterFails, Inv
  <2>3. obj' \in [Agent -> Object \cup {NoObject}]
    BY <1>0, <1>7
  <2>4. left' \subseteq Agent \X Gateway
    BY <1>7 DEF Inv, TypeOK
  <2>5. QED
    BY <1>0, <1>6, <2>a, <2>2, <2>3, <2>4 DEF Inv, TypeOK
<1>9. PassGuarded'
  BY <1>0 DEF PassGuarded
<1>10. KnownDeclared'
  <2>1. \A b \in Agent : obj'[b] # NoObject => obj'[b] = obj[b]
    BY <1>0, <1>7
  <2>2. QED
    BY <1>0, <2>1 DEF Inv, KnownDeclared
<1>11. RegistrationGuarded'
  <2> HIDE DEF h, G
  <2>1. \A g \in Gateway : gw'[g] = IF g = h THEN G ELSE gw[g]
    BY <1>1, <1>2, <1>4
  <2>2. SUFFICES ASSUME NEW g \in Gateway, NEW b \in Agent,
                        b \in gw'[g].agents \cup gw'[g].spaces
                 PROVE  \/ <<b, g>> \in left'
                        \/ obj'[b] # NoObject /\ obj'[b].fin /\ obj'[b].spec.gw = g
    BY DEF RegistrationGuarded
  <2>3. b \in gw[g].agents \cup gw[g].spaces /\ ~(b = a /\ g = h)
    BY <1>3, <2>1, <2>2
  <2>4. \/ <<b, g>> \in left
        \/ obj[b] # NoObject /\ obj[b].fin /\ obj[b].spec.gw = g
    BY <2>3 DEF Inv, RegistrationGuarded
  <2>5. CASE <<b, g>> \in left
    BY <1>7, <2>3, <2>5
  <2>6. CASE obj[b] # NoObject /\ obj[b].fin /\ obj[b].spec.gw = g
    <3>1. b # a
      BY <2>3, <2>6 DEF h
    <3>2. obj'[b] = obj[b]
      BY <1>0, <1>7, <3>1
    <3>3. QED
      BY <2>6, <3>2
  <2>7. QED
    BY <2>4, <2>5, <2>6
<1>12. QED
  BY <1>6, <1>8, <1>9, <1>10, <1>11 DEF Inv

LEMMA ReleaseUnreachedStep ==
    ASSUME Inv, NEW a \in Agent, ReleaseUnreached(a)
    PROVE  Inv' /\ \A g \in Gateway : Kept(g)
<1>0. /\ pass = Idle /\ obj[a] # NoObject /\ obj[a] \in Object
      /\ obj \in [Agent -> Object \cup {NoObject}]
      /\ obj' = [obj EXCEPT ![a] = NoObject]
      /\ left' = left \cup {<<a, obj[a].spec.gw>>}
      /\ UNCHANGED <<gw, regs, pass, script, late, edits, faults>>
  BY DEF ReleaseUnreached, Released, Inv, TypeOK
<1>1. obj[a].spec.gw \in Gateway
  BY <1>0, SpecTyped DEF Object
<1>2. TypeOK'
  <2>1. chat' \in [Agent -> {"none", "on", "archived"}]
    BY DEF ReleaseUnreached, ChatOff, Inv, TypeOK
  <2>2. left' \subseteq Agent \X Gateway
    BY <1>0, <1>1 DEF Inv, TypeOK
  <2>3. obj' \in [Agent -> Object \cup {NoObject}]
    BY <1>0
  <2>4. QED
    BY <1>0, <2>1, <2>2, <2>3 DEF Inv, TypeOK
<1>3. \A b \in Agent \ {a} : obj'[b] = obj[b]
  BY <1>0
<1>4. obj'[a] = NoObject
  BY <1>0
<1>5. PassGuarded'
  BY <1>0 DEF PassGuarded
<1>6. KnownDeclared'
  BY <1>0, <1>3, <1>4 DEF Inv, KnownDeclared
<1>7. RegistrationGuarded'
  BY <1>0, <1>3, <1>4 DEF Inv, RegistrationGuarded
<1>8. QED
  BY <1>0, <1>2, <1>5, <1>6, <1>7, SameGateways DEF Inv

\* Users and the cluster.  A pass whose object changed goes on with what it
\* read.
LEMMA OvertakenTyped ==
    ASSUME Inv, NEW a \in Agent, pass' = Overtaken(a)
    PROVE  /\ pass' \in Pass \cup {Idle}
           /\ \/ pass' = Idle
              \/ /\ pass # Idle /\ pass'.agent = pass.agent
                 /\ pass'.spec = pass.spec /\ pass'.known = pass.known
<1>1. CASE pass = Idle
  BY <1>1 DEF Overtaken
<1>2. CASE pass # Idle
  <2>1. pass \in Pass
    BY <1>2 DEF Inv, TypeOK
  <2>2. pass' = pass \/ pass' = [pass EXCEPT !.stale = TRUE]
    BY DEF Overtaken
  <2>3. QED
    BY <1>2, <2>1, <2>2 DEF Pass
<1>3. QED
  BY <1>1, <1>2

LEMMA UserStep ==
    ASSUME Inv, NEW a \in Agent, NEW s \in Spec0,
           Create(a, s) \/ EditSpec(a, s) \/ Delete(a) \/ NoteActivity(a)
    PROVE  Inv' /\ \A g \in Gateway : Kept(g)
<1>0. /\ obj \in [Agent -> Object \cup {NoObject}]
      /\ gw' = gw /\ chat' = chat /\ regs' = regs /\ late' = late
      /\ script' = script
      /\ \A b \in Agent : obj[b] # NoObject => obj[b].known \cap HandNames = {}
  BY DEF Create, EditSpec, Delete, NoteActivity, Edit, Inv, TypeOK, KnownDeclared
<1>1. edits' \in 0..MaxEdits /\ faults' \in 0..MaxFaults
  BY WorkstationAssumption
     DEF Create, EditSpec, Delete, NoteActivity, Edit, Fault, Inv, TypeOK
<1>2. /\ pass' \in Pass \cup {Idle}
      /\ \/ pass' = Idle
         \/ /\ pass # Idle /\ pass'.agent = pass.agent
            /\ pass'.spec = pass.spec /\ pass'.known = pass.known
  <2>1. pass' = pass \/ pass' = Overtaken(a)
    BY DEF Create, EditSpec, Delete, NoteActivity
  <2>2. QED
    BY <2>1, OvertakenTyped DEF Inv, TypeOK
<1>3. ASSUME \/ obj' = obj /\ left' = left
             \/ \E o \in Object \cup {NoObject} :
                   /\ obj' = [obj EXCEPT ![a] = o]
                   /\ left \subseteq left' /\ left' \subseteq Agent \X Gateway
                   /\ o # NoObject => o.known \cap HandNames = {}
                   /\ obj[a] # NoObject =>
                        /\ o # NoObject
                        /\ obj[a].fin => o.fin
                        /\ \/ o.spec.gw = obj[a].spec.gw
                           \/ <<a, obj[a].spec.gw>> \in left'
      PROVE  Inv' /\ \A g \in Gateway : Kept(g)
  <2>1. obj' \in [Agent -> Object \cup {NoObject}] /\ left' \subseteq Agent \X Gateway
    BY <1>0, <1>3 DEF Inv, TypeOK
  <2>2. TypeOK'
    BY <1>0, <1>1, <1>2, <2>1 DEF Inv, TypeOK
  <2>3. left \subseteq left'
    BY <1>3
  <2>4. \A b \in Agent : obj[b] # NoObject =>
           /\ obj'[b] # NoObject
           /\ obj[b].fin => obj'[b].fin
           /\ \/ obj'[b].spec.gw = obj[b].spec.gw
              \/ <<b, obj[b].spec.gw>> \in left'
    BY <1>0, <1>3
  <2>5. \A b \in Agent : obj'[b] # NoObject => obj'[b].known \cap HandNames = {}
    BY <1>0, <1>3
  <2>6. QED
    BY <1>0, <1>2, <2>2, <2>3, <2>4, <2>5, QuietStep
<1>4. CASE Create(a, s)
  <2>1. New(s) \in Object /\ New(s).known = {}
    BY DEF New, Object
  <2>2. obj[a] = NoObject /\ obj' = [obj EXCEPT ![a] = New(s)] /\ left' = left
    BY <1>4 DEF Create
  <2>3. QED
    BY <1>3, <2>1, <2>2 DEF Inv, TypeOK
<1>5. CASE EditSpec(a, s)
  <2> DEFINE o == [obj[a] EXCEPT !.spec = s]
  <2>1. obj[a] \in Object /\ obj[a] # NoObject
    BY <1>0, <1>5 DEF EditSpec
  <2>2. obj' = [obj EXCEPT ![a] = o]
    BY <1>5 DEF EditSpec
  <2>3. /\ o \in Object /\ o.fin = obj[a].fin /\ o.spec = s
        /\ o.known = obj[a].known
    BY <2>1 DEF Object
  <2>4. o # NoObject /\ o.known \cap HandNames = {}
    BY <1>0, <2>1, <2>3, NoObjectAssumption
  <2>5. obj[a].spec.gw \in Gateway
    BY <2>1, SpecTyped DEF Object
  <2>6. /\ left \subseteq left' /\ left' \subseteq Agent \X Gateway
        /\ s.gw = obj[a].spec.gw \/ <<a, obj[a].spec.gw>> \in left'
    BY <1>5, <2>5 DEF EditSpec, Inv, TypeOK
  <2> HIDE DEF o
  <2>7. QED
    BY <1>3, <2>2, <2>3, <2>4, <2>6
<1>6. CASE Delete(a)
  <2>1. obj[a] \in Object /\ obj[a] # NoObject /\ left' = left
    BY <1>0, <1>6 DEF Delete
  <2>2. CASE obj[a].fin
    <3> DEFINE o == [obj[a] EXCEPT !.deleting = TRUE]
    <3>1. obj' = [obj EXCEPT ![a] = o]
      BY <1>6, <2>2 DEF Delete
    <3>2. /\ o \in Object /\ o.fin = obj[a].fin /\ o.spec = obj[a].spec
          /\ o.known = obj[a].known
      BY <2>1 DEF Object
    <3>3. o # NoObject /\ o.known \cap HandNames = {}
      BY <1>0, <2>1, <3>2, NoObjectAssumption
    <3> HIDE DEF o
    <3>4. QED
      BY <1>3, <2>1, <3>1, <3>2, <3>3 DEF Inv, TypeOK
  <2>3. CASE ~obj[a].fin
    <3>1. obj' = [obj EXCEPT ![a] = NoObject]
      BY <1>6, <2>3 DEF Delete
    <3>2. pass = Idle \/ pass.agent # a
      BY <2>3 DEF Inv, PassGuarded
    <3>3. pass' = pass
      BY <1>6, <3>2 DEF Delete, Overtaken
    <3>4. TypeOK'
      BY <1>0, <1>1, <2>1, <3>1, <3>3 DEF Inv, TypeOK
    <3>5. obj'[a] = NoObject /\ \A b \in Agent \ {a} : obj'[b] = obj[b]
      BY <1>0, <3>1
    <3>6. PassGuarded'
      <4>1. pass # Idle => pass.agent \in Agent \ {a}
        BY <3>2 DEF Inv, TypeOK, Pass
      <4>2. QED
        BY <2>1, <3>3, <3>5, <4>1 DEF Inv, PassGuarded
    <3>7. KnownDeclared'
      BY <1>0, <3>3, <3>5 DEF Inv, KnownDeclared
    <3>8. RegistrationGuarded'
      BY <1>0, <2>1, <2>3, <3>5 DEF Inv, RegistrationGuarded
    <3>9. QED
      BY <1>0, <3>4, <3>6, <3>7, <3>8, SameGateways DEF Inv
  <2>4. QED
    BY <2>2, <2>3
<1>7. CASE NoteActivity(a)
  BY <1>3, <1>7 DEF NoteActivity
<1>8. QED
  BY <1>4, <1>5, <1>6, <1>7

\* A gateway changes by itself: nothing an agent has on it is new.
LEMMA GatewayStep ==
    ASSUME Inv, NEW g \in Gateway,
           \/ \E j \in HandJobs : HandAdds(g, j)
           \/ \E a \in Agent : Connect(g, a)
           \/ PodDown(g) \/ PodUp(g)
    PROVE  Inv' /\ \A h \in Gateway : Kept(h)
<1>0. /\ UNCHANGED <<obj, chat, regs, pass, left, late>>
      /\ gw \in [Gateway -> GatewayState] /\ gw[g] \in GatewayState
  BY DEF HandAdds, Edit, Connect, PodDown, PodUp, Inv, TypeOK
<1>1. edits' \in 0..MaxEdits /\ faults' \in 0..MaxFaults
  BY WorkstationAssumption
     DEF HandAdds, Edit, Connect, PodDown, PodUp, Fault, Inv, TypeOK
<1>2. PICK G \in GatewayState :
        /\ gw' = [gw EXCEPT ![g] = G] /\ gw[g].cron \subseteq G.cron
        /\ G.agents = gw[g].agents /\ G.spaces = gw[g].spaces
  <2>1. CASE \E j \in HandJobs : HandAdds(g, j)
    <3>1. PICK j \in HandJobs : gw' = [gw EXCEPT ![g].cron = @ \cup {j}]
      BY <2>1 DEF HandAdds
    <3>2. [gw[g] EXCEPT !.cron = @ \cup {j}] \in GatewayState
      BY <1>0, HandJobAssumption DEF GatewayState
    <3>3. QED
      BY <1>0, <3>1, <3>2 DEF GatewayState
  <2>2. CASE \E a \in Agent : Connect(g, a)
    <3>1. PICK a \in Agent : gw' = [gw EXCEPT ![g].listed[a] = regs]
      BY <2>2 DEF Connect
    <3> DEFINE l == [gw[g].listed EXCEPT ![a] = regs]
    <3>2. l \in [Agent -> Regs \cup {Unseen}]
      BY <1>0 DEF Inv, TypeOK, GatewayState
    <3>3. gw' = [gw EXCEPT ![g] = [gw[g] EXCEPT !.listed = l]]
      BY <1>0, <3>1
    <3> HIDE DEF l
    <3>4. [gw[g] EXCEPT !.listed = l] \in GatewayState
      BY <1>0, <3>2 DEF GatewayState
    <3>5. QED
      BY <1>0, <3>3, <3>4 DEF GatewayState
  <2>3. CASE PodDown(g)
    <3> DEFINE G == [gw[g] EXCEPT !.ready = FALSE,
                                  !.listed = [a \in Agent |-> Unseen]]
    <3>1. /\ G \in GatewayState /\ gw[g].cron = G.cron
          /\ G.agents = gw[g].agents /\ G.spaces = gw[g].spaces
      BY <1>0 DEF GatewayState
    <3>2. gw' = [gw EXCEPT ![g] = G]
      BY <1>0, <2>3 DEF PodDown, GatewayState
    <3> HIDE DEF G
    <3>3. QED
      BY <3>1, <3>2
  <2>4. CASE PodUp(g)
    <3>1. [gw[g] EXCEPT !.ready = TRUE] \in GatewayState
      BY <1>0 DEF GatewayState
    <3>2. QED
      BY <1>0, <2>4, <3>1 DEF PodUp, GatewayState
  <2>5. QED
    BY <2>1, <2>2, <2>3, <2>4
<1>3. gw' \in [Gateway -> GatewayState] /\ \A h \in Gateway : Kept(h)
  <2>1. HandMade(g) \subseteq G.cron
    BY <1>2 DEF HandMade
  <2>2. QED
    BY <1>2, <2>1, OneGateway
<1>4. TypeOK'
  <2>1. script' \in [Gateway -> Document \cup {NoScript}]
    BY DEF HandAdds, Edit, Connect, PodDown, PodUp, Inv, TypeOK
  <2>2. QED
    BY <1>0, <1>1, <1>3, <2>1 DEF Inv, TypeOK
<1>5. PassGuarded' /\ KnownDeclared'
  BY <1>0 DEF Inv, PassGuarded, KnownDeclared
<1>6. \A h \in Gateway : /\ gw'[h].agents = gw[h].agents
                          /\ gw'[h].spaces = gw[h].spaces
  BY <1>0, <1>2
<1>7. RegistrationGuarded'
  BY <1>0, <1>6 DEF Inv, RegistrationGuarded
<1>8. QED
  BY <1>3, <1>4, <1>5, <1>7 DEF Inv

\* A gateway that is recreated has nothing of anybody; what the pass under way
\* may still put there was noted before.
LEMMA RecreateStep ==
    ASSUME Inv, NEW g \in Gateway, Recreate(g)
    PROVE  Inv' /\ \A h \in Gateway : Kept(h)
<1>0. /\ UNCHANGED <<obj, chat, regs, pass, late, edits>>
      /\ gw \in [Gateway -> GatewayState]
      /\ gw' = [gw EXCEPT ![g] = NewVolume]
      /\ left' = {l \in left : l[2] = g => UnderWay(l[1])}
      /\ script' \in [Gateway -> Document \cup {NoScript}]
  BY DEF Recreate, Inv, TypeOK
<1>1. /\ NewVolume \in GatewayState
      /\ NewVolume.agents = {} /\ NewVolume.spaces = {}
  BY DEF NewVolume, GatewayState, Servers
<1>2. gw' \in [Gateway -> GatewayState] /\ faults' \in 0..MaxFaults
  BY <1>0, <1>1, FaultTyped DEF Recreate, Inv
<1>3. TypeOK'
  BY <1>0, <1>2 DEF Inv, TypeOK
<1>4. KnownDeclared'
  BY <1>0 DEF Inv, KnownDeclared
<1>5. PassGuarded'
  BY <1>0 DEF Inv, PassGuarded
<1>6. \A h \in Gateway : gw'[h] = IF h = g THEN NewVolume ELSE gw[h]
  BY <1>0
<1>7. \A h \in Gateway \ {g}, a \in Agent : <<a, h>> \in left => <<a, h>> \in left'
  BY <1>0
<1>8. RegistrationGuarded'
  BY <1>0, <1>1, <1>6, <1>7 DEF Inv, RegistrationGuarded
<1>9. \A h \in Gateway : Kept(h)
  BY <1>6 DEF Kept, HandMade
<1>10. QED
  BY <1>3, <1>4, <1>5, <1>8, <1>9 DEF Inv

\* The script of the gateway reconciler writes old entries back, which is
\* noted, and touches neither workspaces nor jobs.
WithDocument(g, d) ==
    [g EXCEPT !.agents = d.agents, !.profiles = d.profiles,
              !.routes = d.routes, !.servers = d.servers]

LEMMA DocumentTyped ==
    ASSUME NEW g \in GatewayState, NEW d \in Document
    PROVE  /\ WithDocument(g, d) \in GatewayState
           /\ WithDocument(g, d).agents = d.agents
           /\ WithDocument(g, d).spaces = g.spaces
           /\ WithDocument(g, d).cron = g.cron
BY DEF WithDocument, Document, GatewayState

LEMMA GatewayReadsStep ==
    ASSUME Inv, NEW g \in Gateway, GatewayReads(g)
    PROVE  Inv' /\ \A h \in Gateway : Kept(h)
<1>0. UNCHANGED <<obj, gw, chat, regs, pass, left, late, edits>>
  BY DEF GatewayReads
<1> DEFINE d == [agents |-> gw[g].agents, profiles |-> gw[g].profiles,
                 routes |-> gw[g].routes, servers |-> gw[g].servers]
<1>1. d \in Document
  BY DEF Inv, TypeOK, GatewayState, Document
<1>2. script' = [script EXCEPT ![g] = d]
  BY DEF GatewayReads
<1> HIDE DEF d
<1>3. script' \in [Gateway -> Document \cup {NoScript}]
  BY <1>1, <1>2 DEF Inv, TypeOK
<1>4. faults' \in 0..MaxFaults
  BY FaultTyped DEF GatewayReads, Inv
<1>5. TypeOK'
  BY <1>0, <1>3, <1>4 DEF Inv, TypeOK
<1>6. \A a \in Agent : obj[a] # NoObject => obj[a].known \cap HandNames = {}
  BY DEF Inv, KnownDeclared
<1>7. CASE pass = Idle
  BY <1>0, <1>5, <1>6, <1>7, QuietStep
<1>8. CASE pass # Idle
  BY <1>0, <1>5, <1>6, <1>8, QuietStep
<1>9. QED
  BY <1>7, <1>8

LEMMA GatewayWritesStep ==
    ASSUME Inv, NEW g \in Gateway, GatewayWrites(g)
    PROVE  Inv' /\ \A h \in Gateway : Kept(h)
<1>0. /\ UNCHANGED <<obj, chat, regs, pass, late, edits, faults>>
      /\ script[g] # NoScript /\ script' = [script EXCEPT ![g] = NoScript]
      /\ left' = left \cup {<<a, g>> : a \in script[g].agents \ gw[g].agents}
      /\ gw \in [Gateway -> GatewayState] /\ gw[g] \in GatewayState
      /\ script[g] \in Document
  BY DEF GatewayWrites, Inv, TypeOK
<1> DEFINE G == WithDocument(gw[g], script[g])
<1>1. gw' = [gw EXCEPT ![g] = G]
  BY <1>0 DEF GatewayWrites, WithDocument
<1>2. /\ G \in GatewayState /\ G.agents = script[g].agents
      /\ G.spaces = gw[g].spaces /\ G.cron = gw[g].cron
  BY <1>0, DocumentTyped
<1> HIDE DEF G
<1>3. gw' \in [Gateway -> GatewayState] /\ \A h \in Gateway : Kept(h)
  <2>1. HandMade(g) \subseteq G.cron
    BY <1>2 DEF HandMade
  <2>2. QED
    BY <1>1, <1>2, <2>1, OneGateway
<1>4. TypeOK'
  <2>1. script[g].agents \subseteq Agent
    BY <1>0 DEF Document
  <2>2. left' \subseteq Agent \X Gateway
    BY <1>0, <2>1 DEF Inv, TypeOK
  <2>3. script' \in [Gateway -> Document \cup {NoScript}]
    BY <1>0 DEF Inv, TypeOK
  <2>4. QED
    BY <1>0, <1>3, <2>2, <2>3 DEF Inv, TypeOK
<1>5. PassGuarded' /\ KnownDeclared'
  BY <1>0 DEF Inv, PassGuarded, KnownDeclared
<1>6. RegistrationGuarded'
  <2>1. SUFFICES ASSUME NEW h \in Gateway, NEW b \in Agent,
                        b \in gw'[h].agents \cup gw'[h].spaces
                 PROVE  \/ <<b, h>> \in left'
                        \/ obj'[b] # NoObject /\ obj'[b].fin /\ obj'[b].spec.gw = h
    BY DEF RegistrationGuarded
  <2>2. gw'[h] = IF h = g THEN G ELSE gw[h]
    BY <1>0, <1>1
  <2>3. CASE b \in gw[h].agents \cup gw[h].spaces
    BY <1>0, <2>3 DEF Inv, RegistrationGuarded
  <2>4. CASE b \notin gw[h].agents \cup gw[h].spaces
    <3>1. h = g /\ b \in script[g].agents \ gw[g].agents
      BY <1>2, <2>1, <2>2, <2>4
    <3>2. QED
      BY <1>0, <3>1
  <2>5. QED
    BY <2>3, <2>4
<1>7. QED
  BY <1>3, <1>4, <1>5, <1>6 DEF Inv

LEMMA RegsChangeStep ==
    ASSUME Inv, RegsChange
    PROVE  Inv' /\ \A g \in Gateway : Kept(g)
<1>1. regs' \in Regs
  BY WorkstationAssumption DEF RegsChange, Regs, Inv, TypeOK
<1>2. TypeOK'
  BY <1>1 DEF RegsChange, Inv, TypeOK
<1>3. \A a \in Agent : obj[a] # NoObject => obj[a].known \cap HandNames = {}
  BY DEF Inv, KnownDeclared
<1>4. CASE pass = Idle
  BY <1>2, <1>3, <1>4, QuietStep DEF RegsChange
<1>5. CASE pass # Idle
  BY <1>2, <1>3, <1>5, QuietStep DEF RegsChange
<1>6. QED
  BY <1>4, <1>5

LEMMA NextInv ==
    ASSUME Inv, [Next]_vars
    PROVE  Inv' /\ \A g \in Gateway : Kept(g)
<1>1. CASE Reconciler
  BY <1>1, BeginStep, DeregisterStep, ReleaseUnreachedStep, PassStepInv,
     SaveStep, CrashStep DEF Reconciler
<1>2. CASE Environment
  <2>1. CASE \E a \in Agent : \/ \E s \in Spec0 : Create(a, s) \/ EditSpec(a, s)
                              \/ Delete(a)
                              \/ NoteActivity(a)
    <3>1. PICK a \in Agent : \/ \E s \in Spec0 : Create(a, s) \/ EditSpec(a, s)
                             \/ Delete(a)
                             \/ NoteActivity(a)
      BY <2>1
    <3>2. PICK s \in Spec0 : \/ Create(a, s) \/ EditSpec(a, s)
                             \/ Delete(a) \/ NoteActivity(a)
      <4>1. CASE Delete(a) \/ NoteActivity(a)
        <5>1. obj[a] \in Object
          BY <4>1 DEF Delete, NoteActivity, Inv, TypeOK
        <5>2. obj[a].spec \in Spec0
          BY <5>1 DEF Object
        <5>3. QED
          BY <4>1, <5>2
      <4>2. QED
        BY <3>1, <4>1
    <3>3. QED
      BY <3>2, UserStep
  <2>2. CASE \E g \in Gateway : \/ \E j \in HandJobs : HandAdds(g, j)
                                \/ \E a \in Agent : Connect(g, a)
                                \/ GatewayReads(g)
                                \/ GatewayWrites(g)
                                \/ PodDown(g)
                                \/ PodUp(g)
                                \/ Recreate(g)
    BY <2>2, GatewayStep, GatewayReadsStep, GatewayWritesStep, RecreateStep
  <2>3. CASE RegsChange
    BY <2>3, RegsChangeStep
  <2>4. QED
    BY <1>2, <2>1, <2>2, <2>3 DEF Environment
<1>3. CASE UNCHANGED vars
  <2>1. TypeOK' /\ PassGuarded' /\ RegistrationGuarded' /\ KnownDeclared'
    BY <1>3 DEF vars, Inv, TypeOK, PassGuarded, RegistrationGuarded, KnownDeclared
  <2>2. QED
    BY <1>3, <2>1, SameGateways DEF Inv, vars
<1>4. QED
  BY <1>1, <1>2, <1>3 DEF Next

-----------------------------------------------------------------------------
(* The theorems                                                            *)

\* The invariant holds.
THEOREM Invariance == Spec => []Inv
BY InitInv, NextInv, PTL DEF Spec

\* Every variable stays in its type.
THEOREM TypeCorrect == Spec => []TypeOK
<1>1. Inv => TypeOK
  BY DEF Inv
<1>2. QED
  BY <1>1, Invariance, PTL

\* Through crashes, refused updates, moves and deletions in the middle of a
\* pass, the finalizer guards what an agent has on a gateway.
THEOREM FinalizerGuards == Spec => []RegistrationGuarded
<1>1. Inv => RegistrationGuarded
  BY DEF Inv
<1>2. QED
  BY <1>1, Invariance, PTL

\* Converging schedules never touches a job of a name nobody declares.
THEOREM HandMadeJobsStay == Spec => HandMadeKept
<1>1. Inv /\ [Next]_vars =>
        [\A g \in Gateway :
            {c \in gw[g].cron : c.name \in HandNames} \subseteq gw'[g].cron
            \/ gw'[g] = NewVolume]_vars
  BY NextInv DEF Kept, HandMade
<1>2. QED
  BY <1>1, Invariance, PTL DEF Spec, HandMadeKept

-----------------------------------------------------------------------------
(* What an agent has on a gateway, and who touches it                      *)

RoutesOf(g, b) == {r \in g.routes : r.agent = b}
JobsOf(g, b) == {c \in g.cron : c.owner = b}

\* Gateway h still has what g has of agent b.
Spares(g, h, b) ==
    /\ b \in h.agents <=> b \in g.agents
    /\ b \in h.spaces <=> b \in g.spaces
    /\ RoutesOf(h, b) = RoutesOf(g, b)
    /\ JobsOf(g, b) \subseteq h.cron

\* The scripts that edit the configuration for a leave alone what b has in it.
LEMMA ScriptsSpare ==
    ASSUME NEW g \in GatewayState, NEW a \in Agent, NEW s \in Spec0,
           NEW b \in Agent, b # a
    PROVE  /\ Spares(g, Merged(g, a, s), b)
           /\ Spares(g, Without(g, a, s), b)
<1>1. \A R : \A r \in [agent : {a}, channel : R] : r.agent # b
  OBVIOUS
<1>2. Spares(g, Merged(g, a, s), b)
  <2>1. Merged(g, a, s).routes =
           {r \in g.routes : r.agent # a} \cup [agent : {a}, channel : s.channel]
    BY DEF Merged, GatewayState
  <2>2. RoutesOf(Merged(g, a, s), b) = RoutesOf(g, b)
    BY <1>1, <2>1 DEF RoutesOf
  <2>3. QED
    BY <2>2, ScriptsTyped DEF Spares, JobsOf
<1>3. Spares(g, Without(g, a, s), b)
  <2>1. Without(g, a, s).routes = {r \in g.routes : r.agent # a}
    BY DEF Without, GatewayState
  <2>2. RoutesOf(Without(g, a, s), b) = RoutesOf(g, b)
    BY <2>1 DEF RoutesOf
  <2>3. QED
    BY <2>2, ScriptsTyped DEF Spares, JobsOf
<1>4. QED
  BY <1>2, <1>3

\* So do the seeding of the workspace and the registration as a whole.
LEMMA RegisteredSpares ==
    ASSUME NEW g \in GatewayState, pass \in Pass, NEW b \in Agent,
           b # pass.agent
    PROVE  Spares(g, Seeded(g), b) /\ Spares(g, Registered(g), b)
<1>1. pass.agent \in Agent /\ pass.spec \in Spec0
  BY DEF Pass
<1>2. Seeded(g).routes = g.routes
  BY DEF Seeded, GatewayState
<1>3. Seeded(g) \in GatewayState /\ Spares(g, Seeded(g), b)
  BY <1>2, RegisteredTyped DEF Spares, RoutesOf, JobsOf
<1>4. Spares(Seeded(g), Registered(g), b)
  BY <1>1, <1>3, ScriptsSpare DEF Registered
<1>5. QED
  BY <1>3, <1>4 DEF Spares, JobsOf

\* Servers and runtimes are nobody's.
LEMMA ToolsSpare ==
    ASSUME NEW g \in GatewayState, NEW s \in Spec0, NEW done, NEW b,
           NEW set \in SUBSET s.servers
    PROVE  Spares(g, Disposed(WithServers(g, set), done), b)
<1>1. \A h \in GatewayState : Disposed(h, done).routes = h.routes
  BY DEF Disposed, GatewayState
<1>2. \A h \in GatewayState : Spares(h, Disposed(h, done), b)
  BY <1>1, DisposedTyped DEF Spares, RoutesOf, JobsOf
<1>3. WithServers(g, set) \in GatewayState /\ Spares(g, WithServers(g, set), b)
  BY SettingTyped DEF Spares, RoutesOf, JobsOf
<1>4. Spares(WithServers(g, set), Disposed(WithServers(g, set), done), b)
  BY <1>2, <1>3
<1>5. QED
  BY <1>3, <1>4 DEF Spares, JobsOf

\* The jobs an agent may take for its own are its own or nobody's.
LEMMA ConvergedSpares ==
    ASSUME NEW g \in Gateway, gw[g] \in GatewayState, NEW a \in Agent,
           NEW s \in Spec0, NEW known, NEW failed, NEW b \in Agent, b # a
    PROVE  Spares(gw[g], [gw[g] EXCEPT !.cron = Converged(g, a, s, known, failed)], b)
<1> DEFINE cron == Converged(g, a, s, known, failed)
<1>1. b # NoAgent
  BY WorkstationAssumption
<1>2. \A c \in JobsOf(gw[g], b) : c \in gw[g].cron /\ c \notin Visible(g, a)
  BY <1>1 DEF JobsOf, Visible
<1>3. Stale(g, a, s, known) \subseteq Visible(g, a)
  BY DEF Stale
<1>4. JobsOf(gw[g], b) \subseteq cron
  BY <1>2, <1>3 DEF Converged
<1> HIDE DEF cron
<1> DEFINE h == [gw[g] EXCEPT !.cron = cron]
<1>5. /\ h.cron = cron /\ h.agents = gw[g].agents
      /\ h.spaces = gw[g].spaces /\ h.routes = gw[g].routes
  BY DEF GatewayState
<1> HIDE DEF h
<1>6. Spares(gw[g], h, b)
  BY <1>4, <1>5 DEF Spares, RoutesOf
<1>7. QED
  BY <1>6 DEF h, cron

\* The script of the gateway reconciler writes the document it holds, and no
\* workspace and no job with it.
Rewritten(g) ==
    /\ script[g] # NoScript
    /\ gw'[g] = WithDocument(gw[g], script[g])

\* Whatever a step does to a gateway, it does to the agent of the pass under
\* way, or to one whose workstation is being deleted; else the volume is new
\* or the configuration rewritten.
LEMMA OthersStep ==
    ASSUME Inv, [Next]_vars, NEW g \in Gateway, NEW b \in Agent,
           ~UnderWay(b), ~(Exists(b) /\ obj[b].deleting)
    PROVE  Spares(gw[g], gw'[g], b) \/ gw'[g] = NewVolume \/ Rewritten(g)
<1>0. /\ gw \in [Gateway -> GatewayState] /\ gw[g] \in GatewayState
      /\ Spares(gw[g], gw[g], b)
  BY DEF Inv, TypeOK, Spares, RoutesOf, JobsOf
<1>1. ASSUME UNCHANGED gw
      PROVE  Spares(gw[g], gw'[g], b)
  BY <1>0, <1>1
<1>2. ASSUME NEW h \in Gateway, NEW G, gw' = [gw EXCEPT ![h] = G],
             Spares(gw[h], G, b)
      PROVE  Spares(gw[g], gw'[g], b)
  BY <1>0, <1>2
<1>3. CASE Register \/ RegisterFails
  <2>1. /\ pass \in Pass /\ Here \in Gateway /\ gw[Here] \in GatewayState
        /\ pass # Idle
    BY <1>3, UnderPass DEF Register, RegisterFails
  <2>2. b # pass.agent
    BY <2>1
  <2>3. /\ Spares(gw[Here], Seeded(gw[Here]), b)
        /\ Spares(gw[Here], Registered(gw[Here]), b)
    BY <2>1, <2>2, RegisteredSpares
  <2>4. \/ gw' = gw
        \/ gw' = [gw EXCEPT ![Here] = Seeded(gw[Here])]
        \/ gw' = [gw EXCEPT ![Here] = Registered(gw[Here])]
    BY <1>3, <1>0, <2>1 DEF Register, RegisterFails
  <2>5. QED
    BY <1>1, <1>2, <2>1, <2>3, <2>4
<1>4. CASE Tools
  <2>1. /\ pass.spec \in Spec0 /\ Here \in Gateway /\ gw[Here] \in GatewayState
    BY <1>4, UnderPass DEF Tools
  <2>2. \E set \in SUBSET pass.spec.servers, done \in BOOLEAN :
           gw' = [gw EXCEPT ![Here] = Disposed(WithServers(gw[Here], set), done)]
    <3>1. PICK set \in SUBSET Drift(gw[Here], pass.spec), reload \in BOOLEAN :
            gw' = [gw EXCEPT ![Here] =
                     Disposed(WithServers(@, IF CanExec THEN set ELSE {}),
                              (reload /\ CanExec) /\ Reloads(TRUE))]
      BY <1>4 DEF Tools
    <3> DEFINE done == (reload /\ CanExec) /\ Reloads(TRUE)
               s == IF CanExec THEN set ELSE {}
    <3>2. done \in BOOLEAN /\ s \in SUBSET pass.spec.servers
      BY DEF Drift
    <3>3. gw' = [gw EXCEPT ![Here] = Disposed(WithServers(gw[Here], s), done)]
      BY <3>1, <1>0, <2>1
    <3> HIDE DEF done, s
    <3>4. QED
      BY <3>2, <3>3
  <2>3. PICK set \in SUBSET pass.spec.servers, done \in BOOLEAN :
           gw' = [gw EXCEPT ![Here] = Disposed(WithServers(gw[Here], set), done)]
    BY <2>2
  <2> DEFINE G == Disposed(WithServers(gw[Here], set), done)
  <2>4. Spares(gw[Here], G, b)
    BY <2>1, ToolsSpare
  <2> HIDE DEF G
  <2>5. QED
    BY <1>2, <2>1, <2>3, <2>4 DEF G
<1>5. CASE Converge
  <2>1. /\ pass \in Pass /\ pass # Idle /\ pass.agent \in Agent
        /\ pass.spec \in Spec0 /\ Here \in Gateway /\ gw[Here] \in GatewayState
    BY <1>5, UnderPass DEF Converge
  <2>2. PICK failed \in SUBSET Job :
           gw' = [gw EXCEPT ![Here].cron =
                    Converged(Here, pass.agent, pass.spec, pass.known, failed)]
    BY <1>5 DEF Converge
  <2> DEFINE cron == Converged(Here, pass.agent, pass.spec, pass.known, failed)
             G == [gw[Here] EXCEPT !.cron = cron]
  <2>3. b # pass.agent
    BY <2>1
  <2>4. Spares(gw[Here], G, b)
    BY <2>1, <2>3, ConvergedSpares
  <2> HIDE DEF cron
  <2>5. gw' = [gw EXCEPT ![Here] = G]
    BY <1>0, <2>1, <2>2 DEF cron
  <2> HIDE DEF G
  <2>6. QED
    BY <1>2, <2>1, <2>4, <2>5
<1>6. ASSUME NEW a \in Agent, Deregister(a) \/ DeregisterFails(a)
      PROVE  Spares(gw[g], gw'[g], b)
  <2>1. obj[a] # NoObject /\ obj[a].deleting /\ obj[a] \in Object
    BY <1>6 DEF Deregister, DeregisterFails, Inv, TypeOK
  <2>2. obj[a].spec \in Spec0 /\ obj[a].spec.gw \in Gateway /\ a # b
    BY <2>1, SpecTyped DEF Object
  <2> DEFINE h == obj[a].spec.gw
             G == Without(gw[h], a, obj[a].spec)
  <2>3. gw' = [gw EXCEPT ![h] = G]
    BY <1>6, <1>0, <2>2 DEF Deregister, DeregisterFails
  <2>4. Spares(gw[h], G, b)
    BY <1>0, <2>2, ScriptsSpare
  <2> HIDE DEF G
  <2>5. QED
    BY <1>2, <2>2, <2>3, <2>4
<1>7. ASSUME NEW h \in Gateway, NEW j \in HandJobs, HandAdds(h, j)
      PROVE  Spares(gw[g], gw'[g], b)
  <2> DEFINE G == [gw[h] EXCEPT !.cron = @ \cup {j}]
  <2>1. gw' = [gw EXCEPT ![h] = G] /\ gw[h] \in GatewayState
    BY <1>0, <1>7 DEF HandAdds
  <2>2. /\ G.agents = gw[h].agents /\ G.spaces = gw[h].spaces
        /\ G.routes = gw[h].routes /\ G.cron = gw[h].cron \cup {j}
    BY <2>1 DEF GatewayState
  <2> HIDE DEF G
  <2>3. QED
    BY <1>2, <2>1, <2>2 DEF Spares, RoutesOf, JobsOf
<1>8. ASSUME NEW h \in Gateway, NEW a \in Agent, Connect(h, a)
      PROVE  Spares(gw[g], gw'[g], b)
  <2> DEFINE l == [gw[h].listed EXCEPT ![a] = regs]
             G == [gw[h] EXCEPT !.listed = l]
  <2>1. gw' = [gw EXCEPT ![h] = G] /\ gw[h] \in GatewayState
    BY <1>0, <1>8 DEF Connect
  <2> HIDE DEF l
  <2>2. /\ G.agents = gw[h].agents /\ G.spaces = gw[h].spaces
        /\ G.routes = gw[h].routes /\ G.cron = gw[h].cron
    BY <2>1 DEF GatewayState
  <2> HIDE DEF G
  <2>3. QED
    BY <1>2, <2>1, <2>2 DEF Spares, RoutesOf, JobsOf
<1>9. ASSUME NEW h \in Gateway, PodDown(h) \/ PodUp(h)
      PROVE  Spares(gw[g], gw'[g], b)
  <2> DEFINE D == [gw[h] EXCEPT !.ready = FALSE,
                                !.listed = [a \in Agent |-> Unseen]]
             U == [gw[h] EXCEPT !.ready = TRUE]
  <2>1. gw' = [gw EXCEPT ![h] = D] \/ gw' = [gw EXCEPT ![h] = U]
    BY <1>0, <1>9 DEF PodDown, PodUp, GatewayState
  <2>2. gw[h] \in GatewayState
    BY <1>0
  <2>3. /\ D.agents = gw[h].agents /\ D.spaces = gw[h].spaces
        /\ D.routes = gw[h].routes /\ D.cron = gw[h].cron
    BY <2>2 DEF GatewayState
  <2>4. /\ U.agents = gw[h].agents /\ U.spaces = gw[h].spaces
        /\ U.routes = gw[h].routes /\ U.cron = gw[h].cron
    BY <2>2 DEF GatewayState
  <2> HIDE DEF D, U
  <2>5. Spares(gw[h], D, b) /\ Spares(gw[h], U, b)
    BY <2>3, <2>4 DEF Spares, RoutesOf, JobsOf
  <2>6. QED
    BY <1>2, <2>1, <2>5
<1>10. ASSUME NEW h \in Gateway, Recreate(h)
       PROVE  Spares(gw[g], gw'[g], b) \/ gw'[g] = NewVolume
  BY <1>0, <1>10 DEF Recreate
<1>11. ASSUME NEW a \in Agent, NEW s \in Spec0,
              Create(a, s) \/ EditSpec(a, s)
       PROVE  UNCHANGED gw
  BY <1>11 DEF Create, EditSpec
<1>12. ASSUME NEW a \in Agent,
              Begin(a) \/ ReleaseUnreached(a) \/ Delete(a) \/ NoteActivity(a)
       PROVE  UNCHANGED gw
  BY <1>12 DEF Begin, ReleaseUnreached, Delete, NoteActivity
<1>13. ASSUME ConvergeFails \/ Save \/ SaveFails \/ Crash \/ RegsChange
              \/ UNCHANGED vars
       PROVE  UNCHANGED gw
  BY <1>13 DEF ConvergeFails, Save, SaveFails, Crash, RegsChange, vars
<1>17. ASSUME NEW h \in Gateway, GatewayReads(h)
       PROVE  UNCHANGED gw
  BY <1>17 DEF GatewayReads
<1>18. ASSUME NEW h \in Gateway, GatewayWrites(h)
       PROVE  Spares(gw[g], gw'[g], b) \/ Rewritten(g)
  <2>1. CASE h = g
    BY <1>0, <1>18, <2>1 DEF GatewayWrites, Rewritten, WithDocument
  <2>2. CASE h # g
    BY <1>0, <1>18, <2>2 DEF GatewayWrites
  <2>3. QED
    BY <2>1, <2>2
<1>14. CASE Reconciler
  BY <1>14, <1>1, <1>3, <1>4, <1>5, <1>6, <1>12, <1>13 DEF Reconciler
<1>15. CASE Environment
  BY <1>15, <1>1, <1>7, <1>8, <1>9, <1>10, <1>11, <1>12, <1>13,
     <1>17, <1>18 DEF Environment
<1>16. QED
  BY <1>14, <1>15, <1>1, <1>13 DEF Next

\* Workstations share a configuration file and a cron table and stay out of
\* each other's way: an agent's entry, its workspace, its bindings and its
\* jobs change only in a pass of its own workstation, while that is being
\* deleted, or with the volume, or go back, the entry and the bindings, to what
\* the script of the gateway reconciler had read; whatever the others declare,
\* whatever fails.
\* Only a browser profile two of them name goes with the first that goes.
OthersKept ==
    [][\A g \in Gateway, b \in Agent :
          \/ Spares(gw[g], gw'[g], b)
          \/ UnderWay(b)
          \/ Exists(b) /\ obj[b].deleting
          \/ gw'[g] = NewVolume
          \/ Rewritten(g)]_vars

THEOREM OthersStayOut == Spec => OthersKept
<1>1. Inv /\ [Next]_vars =>
        [\A g \in Gateway, b \in Agent :
            \/ Spares(gw[g], gw'[g], b)
            \/ UnderWay(b)
            \/ Exists(b) /\ obj[b].deleting
            \/ gw'[g] = NewVolume
            \/ Rewritten(g)]_vars
  BY OthersStep
<1>2. QED
  BY <1>1, Invariance, PTL DEF Spec, OthersKept

-----------------------------------------------------------------------------
(* What a pass that comes to its end leaves behind                         *)

\* No command fails, no pod goes down, no volume is lost, Mattermost answers,
\* the script of the gateway reconciler is alone while it reads and writes.
\* The operator may still stop, the status update may still be refused.
Undisturbed == Faults \cap {"exec", "down", "wipe", "chat", "overwrite"} = {}

\* The parts of Installed, for the spec s of agent a on gateway g.
HasEntry(g, a, s) ==
    /\ a \in g.agents \cap g.spaces /\ s.profile \in g.profiles
    /\ RoutesOf(g, a) = [agent : {a}, channel : s.channel]
HasJobs(g, a, s) ==
    \A j \in s.jobs : \E c \in g.cron :
        c.name = j.name /\ c.text = j.text /\ c.owner \in {a, NoAgent}

\* What the pass has done so far is still there, whatever people and other
\* workstations did since, and a pass that was not overtaken has the spec of
\* a workstation that lives.
PassInstalls ==
    pass # Idle =>
        LET a == pass.agent
            s == pass.spec
            g == gw[pass.spec.gw]
        IN  /\ chat[a] = "on"
            /\ ~pass.stale => Live(a) /\ obj[a].spec = s
            /\ pass.step # "register" => HasEntry(g, a, s)
            /\ pass.step \in {"schedules", "save"} => s.servers \subseteq g.servers
            /\ pass.step = "save" => HasJobs(g, a, s)

AllReady == \A g \in Gateway : gw[g].ready /\ script[g] = NoScript

InstallInv == Inv /\ AllReady /\ PassInstalls

\* Gateway h has all that makes a spec installed on g.
Extends(g, h) ==
    /\ h.agents = g.agents /\ h.spaces = g.spaces /\ h.profiles = g.profiles
    /\ h.routes = g.routes /\ g.servers \subseteq h.servers
    /\ g.cron \subseteq h.cron /\ h.ready = g.ready

LEMMA RegisteredHas ==
    ASSUME NEW g \in GatewayState, pass \in Pass
    PROVE  /\ HasEntry(Registered(g), pass.agent, pass.spec)
           /\ Registered(g).ready = g.ready
<1>1. pass.agent \in Agent /\ pass.spec \in Spec0
  BY DEF Pass
<1>2. Seeded(g) \in GatewayState /\ Seeded(g).ready = g.ready
  BY RegisteredTyped DEF Seeded, GatewayState
<1>3. pass.agent \in Registered(g).agents \cap Registered(g).spaces
  BY RegisteredTyped
<1>4. \A h \in GatewayState, a \in Agent, s \in Spec0 :
        /\ Merged(h, a, s).ready = h.ready
        /\ s.profile \in Merged(h, a, s).profiles
        /\ Merged(h, a, s).routes =
              {r \in h.routes : r.agent # a} \cup [agent : {a}, channel : s.channel]
  BY DEF Merged, GatewayState
<1>5. \A R : \A r \in [agent : {pass.agent}, channel : R] : r.agent = pass.agent
  OBVIOUS
<1>6. RoutesOf(Registered(g), pass.agent) =
         [agent : {pass.agent}, channel : pass.spec.channel]
  <2> DEFINE own == [agent : {pass.agent}, channel : pass.spec.channel]
             old == {r \in Seeded(g).routes : r.agent # pass.agent}
  <2>1. Registered(g).routes = old \cup own
    BY <1>1, <1>2, <1>4 DEF Registered
  <2>2. \A r \in own : r.agent = pass.agent
    BY <1>5
  <2>3. \A r \in old : r.agent # pass.agent
    OBVIOUS
  <2> HIDE DEF own, old
  <2>4. RoutesOf(Registered(g), pass.agent) = own
    BY <2>1, <2>2, <2>3 DEF RoutesOf
  <2>5. QED
    BY <2>4 DEF own
<1>7. QED
  BY <1>1, <1>2, <1>3, <1>4, <1>6 DEF Registered, HasEntry

LEMMA ToolsHave ==
    ASSUME NEW g \in GatewayState, NEW s \in Spec0, NEW done
    PROVE  LET h == Disposed(WithServers(g, Drift(g, s)), done)
           IN  /\ h.ready = g.ready /\ s.servers \subseteq h.servers
               /\ \A a \in Agent : HasEntry(g, a, s) => HasEntry(h, a, s)
<1> DEFINE D == Drift(g, s)
           ss == {r \in g.servers : r.name \notin Names(D)} \cup D
           W == WithServers(g, D)
           h == Disposed(W, done)
<1>1. D \subseteq s.servers
  BY DEF Drift
<1>2. W \in GatewayState
  BY <1>1, SettingTyped
<1>3. /\ W.servers = ss /\ W.agents = g.agents /\ W.spaces = g.spaces
      /\ W.profiles = g.profiles /\ W.routes = g.routes /\ W.ready = g.ready
  BY DEF WithServers, GatewayState
<1>4. s.servers \subseteq ss
  <2>1. \A r, q \in s.servers : r.name = q.name => r = q
    BY SpecTyped DEF Servers
  <2>2. SUFFICES ASSUME NEW r \in s.servers, r \notin D
                 PROVE  r \in g.servers /\ r.name \notin Names(D)
    OBVIOUS
  <2>3. r \in g.servers
    BY <2>2 DEF Drift
  <2>4. \A q \in D : q.name # r.name
    BY <1>1, <2>1, <2>2
  <2>5. QED
    BY <2>3, <2>4 DEF Names
<1> HIDE DEF D, ss, W
<1>5. /\ h.servers = W.servers /\ h.agents = W.agents /\ h.spaces = W.spaces
      /\ h.profiles = W.profiles /\ h.routes = W.routes /\ h.ready = W.ready
  BY <1>2 DEF Disposed, GatewayState
<1> HIDE DEF h
<1>6. \A a \in Agent : HasEntry(g, a, s) => HasEntry(h, a, s)
  BY <1>3, <1>5 DEF HasEntry, RoutesOf
<1>7. h.ready = g.ready /\ s.servers \subseteq h.servers
  BY <1>3, <1>4, <1>5
<1>8. QED
  BY <1>6, <1>7 DEF h, W, D

\* Once all commands ran every declared job is in the table: a job that was
\* there already is neither stale nor replaced, as names are unique in a spec.
LEMMA ConvergedHas ==
    ASSUME NEW g \in Gateway, gw[g] \in GatewayState, NEW a \in Agent,
           NEW s \in Spec0, NEW known
    PROVE  \A j \in s.jobs : \E c \in Converged(g, a, s, known, {}) :
               c.name = j.name /\ c.text = j.text /\ c.owner \in {a, NoAgent}
<1> DEFINE new == {j \in Wanting(g, a, s) : j.name \notin {}}
           cron == Converged(g, a, s, known, {})
<1>1. \A j, k \in s.jobs : j.name = k.name => j = k
  BY WorkstationAssumption DEF WorkstationSpec, Jobs
<1>2. new = Wanting(g, a, s) /\ Wanting(g, a, s) \subseteq s.jobs
  BY DEF Wanting
<1>3. ASSUME NEW j \in s.jobs, j \in new
      PROVE  \E c \in cron :
                c.name = j.name /\ c.text = j.text /\ c.owner \in {a, NoAgent}
  <2> DEFINE c == [owner |-> a, name |-> j.name, text |-> j.text]
  <2>1. c \in cron
    BY <1>3 DEF Converged
  <2>2. c.name = j.name /\ c.text = j.text /\ c.owner = a
    OBVIOUS
  <2> HIDE DEF c, cron
  <2>3. QED
    BY <2>1, <2>2
<1>4. ASSUME NEW j \in s.jobs, j \notin new
      PROVE  \E c \in cron :
                c.name = j.name /\ c.text = j.text /\ c.owner \in {a, NoAgent}
  <2>1. PICK c \in Visible(g, a) : c.name = j.name /\ c.text = j.text
    BY <1>2, <1>4 DEF Wanting
  <2>2. c \in gw[g].cron /\ c.owner \in {a, NoAgent}
    BY DEF Visible
  <2>3. j.name \in Names(s.jobs)
    BY DEF Names
  <2>4. c \notin Stale(g, a, s, known)
    BY <2>1, <2>3 DEF Stale
  <2>5. c.name \notin Names(new)
    <3>1. \A k \in new : k.name # j.name
      BY <1>1, <1>2, <1>4
    <3>2. QED
      BY <3>1, <2>1 DEF Names
  <2>6. c \in cron
    BY <2>2, <2>4, <2>5 DEF Converged
  <2> HIDE DEF cron
  <2>7. QED
    BY <2>1, <2>2, <2>6
<1>5. QED
  BY <1>3, <1>4

\* A step that takes nothing off the gateways and leaves the pass where it is.
LEMMA InstallFrame ==
    ASSUME InstallInv, Inv', \A g \in Gateway : Extends(gw[g], gw'[g]),
           UNCHANGED script,
           \/ pass' = Idle
           \/ /\ pass # Idle /\ pass'.agent = pass.agent
              /\ pass'.spec = pass.spec /\ pass'.step = pass.step
              /\ chat'[pass.agent] = chat[pass.agent]
              /\ ~pass'.stale => ~pass.stale /\ obj'[pass.agent] = obj[pass.agent]
    PROVE  InstallInv'
<1>1. AllReady'
  BY DEF InstallInv, AllReady, Extends
<1>2. ASSUME pass' # Idle
      PROVE  PassInstalls'
  <2>1. pass # Idle /\ pass.spec.gw \in Gateway
    <3>1. pass \in Pass
      BY <1>2 DEF InstallInv, Inv, TypeOK
    <3>2. QED
      BY <1>2, <3>1, SpecTyped DEF Pass
  <2>2. Extends(gw[pass.spec.gw], gw'[pass.spec.gw])
    BY <2>1
  <2>3. ASSUME pass.step # "register"
        PROVE  HasEntry(gw'[pass.spec.gw], pass.agent, pass.spec)
    BY <2>1, <2>2, <2>3 DEF InstallInv, PassInstalls, Extends, HasEntry, RoutesOf
  <2>4. ASSUME pass.step \in {"schedules", "save"}
        PROVE  pass.spec.servers \subseteq gw'[pass.spec.gw].servers
    BY <2>1, <2>2, <2>4 DEF InstallInv, PassInstalls, Extends
  <2>5. ASSUME pass.step = "save"
        PROVE  HasJobs(gw'[pass.spec.gw], pass.agent, pass.spec)
    BY <2>1, <2>2, <2>5 DEF InstallInv, PassInstalls, Extends, HasJobs
  <2>6. /\ chat'[pass.agent] = "on"
        /\ ~pass'.stale => /\ obj'[pass.agent] # NoObject
                           /\ ~obj'[pass.agent].deleting
                           /\ obj'[pass.agent].spec = pass.spec
    BY <1>2, <2>1 DEF InstallInv, PassInstalls
  <2>7. QED
    BY <1>2, <2>3, <2>4, <2>5, <2>6 DEF PassInstalls
<1>3. PassInstalls'
  BY <1>2 DEF PassInstalls
<1>4. QED
  BY <1>1, <1>3 DEF InstallInv

\* A step on the gateway of the pass.
LEMMA InstallHere ==
    ASSUME InstallInv, Inv', pass # Idle, NEW G,
           gw' = [gw EXCEPT ![Here] = G], G.ready = gw[Here].ready,
           pass' \in Pass, pass'.agent = pass.agent, pass'.spec = pass.spec,
           pass'.stale = pass.stale, UNCHANGED <<chat, obj, script>>,
           pass'.step # "register" => HasEntry(G, pass.agent, pass.spec),
           pass'.step \in {"schedules", "save"} => pass.spec.servers \subseteq G.servers,
           pass'.step = "save" => HasJobs(G, pass.agent, pass.spec)
    PROVE  InstallInv'
<1>1. /\ Here \in Gateway /\ gw \in [Gateway -> GatewayState]
      /\ Here = pass.spec.gw
  <2>1. pass \in Pass
    BY DEF InstallInv, Inv, TypeOK
  <2>2. QED
    BY <2>1, SpecTyped DEF InstallInv, Inv, TypeOK, Pass, Here
<1>2. gw'[Here] = G /\ \A g \in Gateway \ {Here} : gw'[g] = gw[g]
  BY <1>1
<1>3. AllReady'
  BY <1>1, <1>2 DEF InstallInv, AllReady
<1>4. gw'[pass'.spec.gw] = G
  BY <1>1, <1>2
<1>5. /\ chat'[pass.agent] = "on"
      /\ ~pass'.stale => /\ obj'[pass.agent] # NoObject
                         /\ ~obj'[pass.agent].deleting
                         /\ obj'[pass.agent].spec = pass.spec
  BY DEF InstallInv, PassInstalls
<1>6. PassInstalls'
  BY <1>4, <1>5 DEF PassInstalls
<1>7. QED
  BY <1>3, <1>6 DEF InstallInv

\* The steps of a pass.
LEMMA InstallPassStep ==
    ASSUME InstallInv, Inv', Undisturbed,
           Register \/ RegisterFails \/ Tools \/ Converge \/ ConvergeFails
    PROVE  InstallInv'
<1>0. /\ pass \in Pass /\ pass # Idle /\ pass.agent \in Agent
      /\ pass.spec \in Spec0 /\ Here \in Gateway /\ gw[Here] \in GatewayState
      /\ UNCHANGED <<obj, chat, script>>
  BY UnderPass DEF InstallInv, Register, RegisterFails, Tools, Converge,
                   ConvergeFails
<1>a. gw \in [Gateway -> GatewayState] /\ CanExec /\ Here = pass.spec.gw
  BY <1>0 DEF InstallInv, Inv, TypeOK, AllReady, CanExec, Here
<1>b. ~Fault("exec")
  BY DEF Undisturbed, Fault
<1>1. CASE Register
  <2>1. gw' = [gw EXCEPT ![Here] = Registered(gw[Here])]
    BY <1>1, <1>0, <1>a DEF Register
  <2>2. /\ pass' = [pass EXCEPT !.step = "tools"]
    BY <1>1 DEF Register
  <2>3. /\ pass' \in Pass /\ pass'.agent = pass.agent
        /\ pass'.spec = pass.spec /\ pass'.stale = pass.stale
        /\ pass'.step = "tools"
    BY <1>0, <2>2 DEF Pass
  <2>4. QED
    BY <1>0, <2>1, <2>3, RegisteredHas, InstallHere
<1>2. CASE RegisterFails
  <2>1. FALSE
    BY <1>2, <1>a, <1>b DEF RegisterFails
  <2>2. QED
    BY <2>1
<1>3. CASE Tools
  <2>1. \E done \in BOOLEAN :
           gw' = [gw EXCEPT ![Here] =
             Disposed(WithServers(gw[Here], Drift(gw[Here], pass.spec)), done)]
    <3>1. PICK set \in SUBSET Drift(gw[Here], pass.spec), reload \in BOOLEAN :
            /\ IF (set = Drift(gw[Here], pass.spec) /\ reload) \/ ~CanExec
               THEN NoFault ELSE Fault("exec")
            /\ gw' = [gw EXCEPT ![Here] =
                    Disposed(WithServers(@, IF CanExec THEN set ELSE {}),
                             (reload /\ CanExec) /\ Reloads(TRUE))]
      BY <1>3 DEF Tools
    <3>2. set = Drift(gw[Here], pass.spec) /\ reload = TRUE
      BY <3>1, <1>a, <1>b
    <3> DEFINE done == (reload /\ CanExec) /\ Reloads(TRUE)
    <3>3. done \in BOOLEAN
      OBVIOUS
    <3>4. gw' = [gw EXCEPT ![Here] =
             Disposed(WithServers(gw[Here], set), done)]
      BY <3>1, <1>a
    <3> HIDE DEF done
    <3>5. QED
      BY <3>2, <3>3, <3>4
  <2>2. PICK done \in BOOLEAN :
           gw' = [gw EXCEPT ![Here] =
             Disposed(WithServers(gw[Here], Drift(gw[Here], pass.spec)), done)]
    BY <2>1
  <2> DEFINE G == Disposed(WithServers(gw[Here], Drift(gw[Here], pass.spec)), done)
  <2>3. /\ G.ready = gw[Here].ready /\ pass.spec.servers \subseteq G.servers
        /\ HasEntry(gw[Here], pass.agent, pass.spec)
              => HasEntry(G, pass.agent, pass.spec)
    BY <1>0, ToolsHave
  <2> HIDE DEF G
  <2>4. HasEntry(gw[Here], pass.agent, pass.spec)
    <3>1. pass.step # "register"
      BY <1>3 DEF Tools
    <3>2. QED
      BY <3>1, <1>0, <1>a DEF InstallInv, PassInstalls
  <2>5. HasEntry(G, pass.agent, pass.spec) /\ G.ready = gw[Here].ready
    BY <2>3, <2>4
  <2>6. PICK seen \in Regs \cup {Unseen} :
           pass' = [pass EXCEPT !.step = "schedules", !.seen = seen]
    <3>1. regs \in Regs /\ pass.seen \in Regs \cup {Unseen}
      BY <1>0 DEF InstallInv, Inv, TypeOK, Pass
    <3>2. \E seen \in {regs, pass.seen} :
            pass' = [pass EXCEPT !.step = "schedules", !.seen = seen]
      BY <1>3, <1>0 DEF Tools, Pass
    <3>3. QED
      BY <3>1, <3>2
  <2>7. /\ pass' \in Pass /\ pass'.agent = pass.agent
        /\ pass'.spec = pass.spec /\ pass'.stale = pass.stale
        /\ pass'.step = "schedules"
    BY <1>0, <2>6 DEF Pass
  <2>8. gw' = [gw EXCEPT ![Here] = G]
    BY <2>2 DEF G
  <2>9. QED
    BY <1>0, <2>3, <2>5, <2>7, <2>8, InstallHere
<1>4. CASE Converge
  <2>1. PICK failed \in SUBSET Job :
           /\ IF failed = {} THEN NoFault ELSE Fault("exec")
           /\ gw' = [gw EXCEPT ![Here].cron =
                    Converged(Here, pass.agent, pass.spec, pass.known, failed)]
    BY <1>4 DEF Converge
  <2>2. failed = {}
    BY <2>1, <1>b
  <2> DEFINE cron == Converged(Here, pass.agent, pass.spec, pass.known, {})
             G == [gw[Here] EXCEPT !.cron = cron]
  <2>3. \A j \in pass.spec.jobs : \E c \in cron :
            c.name = j.name /\ c.text = j.text /\ c.owner \in {pass.agent, NoAgent}
    BY <1>0, ConvergedHas
  <2> HIDE DEF cron
  <2>4. gw' = [gw EXCEPT ![Here] = G]
    BY <1>0, <1>a, <2>1, <2>2 DEF cron
  <2>5. /\ G.cron = cron /\ G.ready = gw[Here].ready
        /\ G.agents = gw[Here].agents /\ G.spaces = gw[Here].spaces
        /\ G.profiles = gw[Here].profiles /\ G.routes = gw[Here].routes
        /\ G.servers = gw[Here].servers
    BY <1>0 DEF GatewayState
  <2> HIDE DEF G
  <2>6. /\ HasEntry(gw[Here], pass.agent, pass.spec)
        /\ pass.spec.servers \subseteq gw[Here].servers
    <3>1. pass.step = "schedules"
      BY <1>4 DEF Converge
    <3>2. QED
      BY <3>1, <1>0, <1>a DEF InstallInv, PassInstalls
  <2>7. /\ HasEntry(G, pass.agent, pass.spec) /\ pass.spec.servers \subseteq G.servers
        /\ HasJobs(G, pass.agent, pass.spec)
    BY <2>3, <2>5, <2>6 DEF HasEntry, HasJobs, RoutesOf
  <2>8. pass' = [pass EXCEPT !.step = "save", !.known = Names(pass.spec.jobs)]
    BY <1>4 DEF Converge
  <2>9. /\ pass' \in Pass /\ pass'.agent = pass.agent
        /\ pass'.spec = pass.spec /\ pass'.stale = pass.stale
    BY <1>0, <2>8, NamesDeclared DEF Pass
  <2>10. QED
    BY <1>0, <2>4, <2>5, <2>7, <2>9, InstallHere
<1>5. CASE ConvergeFails
  <2>1. FALSE
    BY <1>5, <1>a, <1>b DEF ConvergeFails
  <2>2. QED
    BY <2>1
<1>6. QED
  BY <1>1, <1>2, <1>3, <1>4, <1>5

\* The other steps of the reconciler.
LEMMA InstallOtherStep ==
    ASSUME InstallInv, Inv', Undisturbed, NEW a \in Agent,
           \/ Begin(a) \/ Deregister(a) \/ DeregisterFails(a)
           \/ ReleaseUnreached(a) \/ Save \/ SaveFails \/ Crash
    PROVE  InstallInv'
<1>0. gw \in [Gateway -> GatewayState] /\ obj \in [Agent -> Object \cup {NoObject}]
      /\ AllReady
  BY DEF InstallInv, Inv, TypeOK
<1>1. CASE Begin(a)
  <2>1. /\ obj[a] # NoObject /\ obj[a] \in Object /\ ~obj[a].deleting
        /\ obj' = [obj EXCEPT ![a].fin = TRUE] /\ gw' = gw /\ script' = script
    BY <1>0, <1>1 DEF Begin
  <2>2. obj'[a] \in Object /\ ~obj'[a].deleting /\ obj'[a].spec = obj[a].spec
    BY <1>0, <2>1 DEF Object
  <2>3. obj'[a] # NoObject
    BY <2>2, NoObjectAssumption
  <2>4. chat'[a] = "on"
    BY <1>1 DEF Begin, Undisturbed, Fault, ChatOn, InstallInv, Inv, TypeOK
  <2>5. pass' # Idle => /\ pass'.agent = a /\ pass'.step = "register"
                        /\ pass'.spec = obj[a].spec
    BY <1>1 DEF Begin
  <2>6. PassInstalls'
    BY <2>2, <2>3, <2>4, <2>5 DEF PassInstalls
  <2>7. QED
    BY <1>0, <2>1, <2>6 DEF InstallInv, AllReady
<1>2. CASE Deregister(a) \/ DeregisterFails(a)
  <2>1. pass' = Idle /\ obj[a] \in Object /\ script' = script
    BY <1>0, <1>2 DEF Deregister, DeregisterFails
  <2>2. obj[a].spec.gw \in Gateway
    BY <2>1, SpecTyped DEF Object
  <2> DEFINE G == Without(gw[obj[a].spec.gw], a, obj[a].spec)
  <2>3. gw' = [gw EXCEPT ![obj[a].spec.gw] = G]
    BY <1>2 DEF Deregister, DeregisterFails
  <2>4. G.ready = gw[obj[a].spec.gw].ready
    BY <1>0, <2>2 DEF Without, GatewayState
  <2> HIDE DEF G
  <2>5. AllReady'
    BY <1>0, <2>1, <2>2, <2>3, <2>4 DEF AllReady
  <2>6. QED
    BY <2>1, <2>5 DEF InstallInv, PassInstalls
<1>3. CASE ReleaseUnreached(a)
  <2>1. obj[a] \in Object
    BY <1>0, <1>3 DEF ReleaseUnreached
  <2>2. obj[a].spec.gw \in Gateway
    BY <2>1, SpecTyped DEF Object
  <2>3. QED
    BY <1>0, <1>3, <2>2 DEF ReleaseUnreached, AllReady
<1>4. CASE Save \/ SaveFails \/ Crash
  <2>1. pass' = Idle /\ gw' = gw /\ script' = script
    BY <1>4 DEF Save, SaveFails, Crash
  <2>2. QED
    BY <1>0, <2>1 DEF InstallInv, AllReady, PassInstalls
<1>5. QED
  BY <1>1, <1>2, <1>3, <1>4

\* Users: what changes under the pass makes it stale.
LEMMA InstallUserStep ==
    ASSUME InstallInv, Inv', NEW a \in Agent, NEW s \in Spec0,
           Create(a, s) \/ EditSpec(a, s) \/ Delete(a) \/ NoteActivity(a)
    PROVE  InstallInv'
<1>0. /\ gw' = gw /\ chat' = chat /\ obj \in [Agent -> Object \cup {NoObject}]
      /\ script' = script
      /\ \A b \in Agent \ {a} : obj'[b] = obj[b]
      /\ pass' = Overtaken(a) \/ (Create(a, s) /\ pass' = pass)
  BY DEF Create, EditSpec, Delete, NoteActivity, Edit, InstallInv, Inv, TypeOK
<1>1. \A g \in Gateway : Extends(gw[g], gw'[g])
  BY <1>0 DEF Extends
<1>2. CASE pass = Idle
  <2>1. pass' = Idle
    BY <1>0, <1>2 DEF Overtaken
  <2>2. QED
    BY <1>0, <1>1, <2>1, InstallFrame
<1>3. CASE pass # Idle
  <2>1. pass \in Pass
    BY <1>3 DEF InstallInv, Inv, TypeOK
  <2>2. CASE pass.agent = a
    <3>1. ~Create(a, s)
      BY <2>2, <1>3 DEF Create, InstallInv, Inv, PassGuarded
    <3>2. pass' = [pass EXCEPT !.stale = TRUE]
      BY <1>0, <1>3, <2>2, <3>1 DEF Overtaken
    <3>3. /\ pass'.agent = pass.agent /\ pass'.spec = pass.spec
          /\ pass'.step = pass.step /\ pass'.stale
      BY <2>1, <3>2 DEF Pass
    <3>4. QED
      BY <1>0, <1>1, <1>3, <3>3, InstallFrame
  <2>3. CASE pass.agent # a
    <3>1. pass' = pass
      BY <1>0, <2>3 DEF Overtaken
    <3>2. pass.agent \in Agent /\ obj'[pass.agent] = obj[pass.agent]
      BY <1>0, <2>1, <2>3 DEF Pass
    <3>3. QED
      BY <1>0, <1>1, <1>3, <3>1, <3>2, InstallFrame
  <2>4. QED
    BY <2>2, <2>3
<1>4. QED
  BY <1>2, <1>3

\* Gateways by themselves, and people at them.
LEMMA InstallGatewayStep ==
    ASSUME InstallInv, Inv', Undisturbed, NEW g \in Gateway,
           \/ \E j \in HandJobs : HandAdds(g, j)
           \/ \E a \in Agent : Connect(g, a)
           \/ GatewayReads(g) \/ GatewayWrites(g)
           \/ PodDown(g) \/ PodUp(g) \/ Recreate(g)
    PROVE  InstallInv'
<1>0. gw \in [Gateway -> GatewayState] /\ gw[g] \in GatewayState /\ gw[g].ready
      /\ script[g] = NoScript
      /\ ~Fault("down") /\ ~Fault("wipe") /\ ~Fault("overwrite")
  BY DEF InstallInv, Inv, TypeOK, AllReady, Undisturbed, Fault
<1>1. \E G : gw' = [gw EXCEPT ![g] = G] /\ Extends(gw[g], G)
  <2>1. CASE \E j \in HandJobs : HandAdds(g, j)
    <3>1. PICK j \in HandJobs : HandAdds(g, j)
      BY <2>1
    <3> DEFINE G == [gw[g] EXCEPT !.cron = @ \cup {j}]
    <3>2. gw' = [gw EXCEPT ![g] = G]
      BY <1>0, <3>1 DEF HandAdds
    <3>3. Extends(gw[g], G)
      BY <1>0 DEF Extends, GatewayState
    <3> HIDE DEF G
    <3>4. QED
      BY <3>2, <3>3
  <2>2. CASE \E a \in Agent : Connect(g, a)
    <3>1. PICK a \in Agent : Connect(g, a)
      BY <2>2
    <3> DEFINE l == [gw[g].listed EXCEPT ![a] = regs]
               G == [gw[g] EXCEPT !.listed = l]
    <3>2. gw' = [gw EXCEPT ![g] = G]
      BY <1>0, <3>1 DEF Connect
    <3> HIDE DEF l
    <3>3. Extends(gw[g], G)
      BY <1>0 DEF Extends, GatewayState
    <3> HIDE DEF G
    <3>4. QED
      BY <3>2, <3>3
  <2>3. /\ ~PodDown(g) /\ ~PodUp(g) /\ ~Recreate(g)
        /\ ~GatewayReads(g) /\ ~GatewayWrites(g)
    BY <1>0 DEF PodDown, PodUp, Recreate, GatewayReads, GatewayWrites
  <2>4. QED
    BY <2>1, <2>2, <2>3
<1>2. \A h \in Gateway : Extends(gw[h], gw'[h])
  <2>1. PICK G : gw' = [gw EXCEPT ![g] = G] /\ Extends(gw[g], G)
    BY <1>1
  <2>2. \A h \in Gateway : Extends(gw[h], gw[h])
    BY DEF Extends
  <2>3. QED
    BY <1>0, <2>1, <2>2
<1>3. UNCHANGED <<obj, chat, pass, script>>
  BY <1>0 DEF HandAdds, Edit, Connect, PodDown, PodUp, Recreate,
              GatewayReads, GatewayWrites
<1>4. CASE pass = Idle
  BY <1>2, <1>3, <1>4, InstallFrame
<1>5. CASE pass # Idle
  BY <1>2, <1>3, <1>5, InstallFrame
<1>6. QED
  BY <1>4, <1>5

LEMMA InstallInit == Init => InstallInv
<1> SUFFICES ASSUME Init PROVE InstallInv
  OBVIOUS
<1>1. \A g \in Gateway : gw[g].ready /\ script[g] = NoScript
  BY DEF Init, NewVolume
<1>2. pass = Idle
  BY DEF Init
<1>3. QED
  BY <1>1, <1>2, InitInv DEF InstallInv, AllReady, PassInstalls

LEMMA InstallStep ==
    ASSUME InstallInv, [Next]_vars, Undisturbed
    PROVE  InstallInv'
<1>0. Inv'
  BY NextInv DEF InstallInv
<1>1. CASE Reconciler
  <2>1. CASE Register \/ RegisterFails \/ Tools \/ Converge \/ ConvergeFails
    BY <1>0, <2>1, InstallPassStep
  <2>2. CASE \E a \in Agent : \/ Begin(a) \/ Deregister(a)
                              \/ DeregisterFails(a) \/ ReleaseUnreached(a)
    BY <1>0, <2>2, InstallOtherStep
  <2>3. CASE Save \/ SaveFails \/ Crash
    <3>1. pass \in Pass
      BY <2>3, PassTyped DEF Save, SaveFails, Crash, InstallInv, Inv, TypeOK, Idle
    <3>2. pass.agent \in Agent
      BY <3>1 DEF Pass
    <3>3. QED
      BY <1>0, <2>3, <3>2, InstallOtherStep
  <2>4. QED
    BY <1>1, <2>1, <2>2, <2>3 DEF Reconciler
<1>2. CASE Environment
  <2>1. CASE \E a \in Agent : \/ \E s \in Spec0 : Create(a, s) \/ EditSpec(a, s)
                              \/ Delete(a)
                              \/ NoteActivity(a)
    <3>1. PICK a \in Agent : \/ \E s \in Spec0 : Create(a, s) \/ EditSpec(a, s)
                             \/ Delete(a)
                             \/ NoteActivity(a)
      BY <2>1
    <3>2. PICK s \in Spec0 : \/ Create(a, s) \/ EditSpec(a, s)
                             \/ Delete(a) \/ NoteActivity(a)
      <4>1. CASE Delete(a) \/ NoteActivity(a)
        <5>1. obj[a] \in Object
          BY <4>1 DEF Delete, NoteActivity, InstallInv, Inv, TypeOK
        <5>2. obj[a].spec \in Spec0
          BY <5>1 DEF Object
        <5>3. QED
          BY <4>1, <5>2
      <4>2. QED
        BY <3>1, <4>1
    <3>3. QED
      BY <1>0, <3>2, InstallUserStep
  <2>2. CASE \E g \in Gateway : \/ \E j \in HandJobs : HandAdds(g, j)
                                \/ \E a \in Agent : Connect(g, a)
                                \/ GatewayReads(g)
                                \/ GatewayWrites(g)
                                \/ PodDown(g)
                                \/ PodUp(g)
                                \/ Recreate(g)
    BY <1>0, <2>2, InstallGatewayStep
  <2>3. CASE RegsChange
    <3>1. UNCHANGED <<gw, pass, obj, chat, script>>
      BY <2>3 DEF RegsChange
    <3>2. \A g \in Gateway : Extends(gw[g], gw'[g])
      BY <3>1 DEF Extends
    <3>3. CASE pass = Idle
      BY <1>0, <3>1, <3>2, <3>3, InstallFrame
    <3>4. CASE pass # Idle
      BY <1>0, <3>1, <3>2, <3>4, InstallFrame
    <3>5. QED
      BY <3>3, <3>4
  <2>4. QED
    BY <1>2, <2>1, <2>2, <2>3 DEF Environment
<1>3. CASE UNCHANGED vars
  <2>1. UNCHANGED <<gw, pass, obj, chat, script>>
    BY <1>3 DEF vars
  <2>2. \A g \in Gateway : Extends(gw[g], gw'[g])
    BY <2>1 DEF Extends
  <2>3. CASE pass = Idle
    BY <1>0, <2>1, <2>2, <2>3, InstallFrame
  <2>4. CASE pass # Idle
    BY <1>0, <2>1, <2>2, <2>4, InstallFrame
  <2>5. QED
    BY <2>3, <2>4
<1>4. QED
  BY <1>1, <1>2, <1>3 DEF Next

\* A status update that is accepted says so of a workstation that is installed
\* as its spec says at that moment, with its schedules and servers: a pass that
\* was overtaken by an edit or a deletion is refused, and nothing that people
\* and the passes of other workstations do meanwhile takes away what it did.
\* Even a server that another workstation configures differently is its own
\* at that moment, until the other's next pass.
OwnServers(a) == obj[a].spec.servers \subseteq gw[obj[a].spec.gw].servers

SavedInstalled ==
    [][\A a \in Agent :
          Save /\ pass.agent = a => (Installed(a) /\ OwnServers(a))']_vars

THEOREM SavedIsInstalled ==
    ASSUME Undisturbed
    PROVE  Spec => SavedInstalled
<1>1. InstallInv /\ [Next]_vars => InstallInv'
  BY InstallStep
<1>2. ASSUME InstallInv, Save
      PROVE  Installed(pass.agent) /\ OwnServers(pass.agent) /\ Live(pass.agent)
  <2>1. pass \in Pass /\ pass # Idle /\ pass.step = "save" /\ ~pass.stale
    BY <1>2, UnderPass DEF Save, InstallInv
  <2>2. /\ obj[pass.agent].spec = pass.spec /\ Live(pass.agent)
        /\ chat[pass.agent] = "on"
        /\ HasEntry(gw[pass.spec.gw], pass.agent, pass.spec)
        /\ pass.spec.servers \subseteq gw[pass.spec.gw].servers
        /\ HasJobs(gw[pass.spec.gw], pass.agent, pass.spec)
    BY <1>2, <2>1 DEF InstallInv, PassInstalls
  <2>3. QED
    BY <2>2 DEF Installed, OwnServers, HasEntry, HasJobs, RoutesOf
<1>3. ASSUME InstallInv, NEW a \in Agent, Save, pass.agent = a
      PROVE  (Installed(a) /\ OwnServers(a))'
  <2>1. /\ Installed(a) /\ OwnServers(a)
        /\ obj[a] \in Object /\ obj[a] # NoObject
    BY <1>2, <1>3 DEF InstallInv, Inv, TypeOK
  <2>2. /\ UNCHANGED <<gw, chat>>
        /\ obj' = [obj EXCEPT ![a].known = pass.known, ![a].seen = pass.seen]
        /\ obj \in [Agent -> Object \cup {NoObject}]
    BY <1>3 DEF Save, InstallInv, Inv, TypeOK
  <2>3. obj'[a].spec = obj[a].spec
    BY <2>1, <2>2 DEF Object
  <2>4. OwnServers(a)'
    BY <2>1, <2>2, <2>3 DEF OwnServers
  <2>5. Installed(a)'
    BY <2>1, <2>2, <2>3, <2>4 DEF Installed, OwnServers
  <2>6. QED
    BY <2>4, <2>5
<1>4. InstallInv =>
        [\A a \in Agent :
            Save /\ pass.agent = a => (Installed(a) /\ OwnServers(a))']_vars
  BY <1>3
<1>5. QED
  BY <1>1, <1>4, InstallInit, PTL DEF Spec, SavedInstalled
=============================================================================
