------------------------ MODULE GatewayConfigProofs ------------------------
(***************************************************************************)
(* Theorems about GatewayConfig for any number of connections and          *)
(* workstations, any number of edits and any faults, except the two that   *)
(* break it: a Secret that cannot be read, and a workstation that gets     *)
(* another connection while a pass is under way.  What hooks need survives *)
(* these too.  A gateway that runs what it is asked to run is left alone.  *)
(*                                                                         *)
(* BootableConfig is not inductive: what a script will write was computed  *)
(* from an older file, and what the Deployment carries was decided at an   *)
(* earlier step.  The invariant says of every document that may still      *)
(* become the file what the property says of the file, and follows the     *)
(* keys and the decision about hooks through the steps of a pass.          *)
(***************************************************************************)
EXTENDS GatewayConfig, TLAPS

\* The two faults that break it do not happen.
Undisturbed == "busy" \notin Faults /\ "unreadable" \notin Faults

\* A script lives in a Ready container and at the step that waits for it.
ScriptsLive ==
    /\ script # Killed => Ready /\ Writing
    /\ aw.script # Killed => Ready /\ aw.agent # NoAgent
    /\ script # Killed => script.keyed \subseteq script.blocks
    /\ aw.script # Killed => aw.script.keyed \subseteq aw.script.blocks

\* There is a Deployment before there is a pod, and before a pass gets to the
\* scripts.
Deployed ==
    /\ pod.tmpl # NoDeploy => deploy # NoDeploy
    /\ step \notin {"idle", "keys", "deploy"} => deploy # NoDeploy

\* A reference to the hooks token is written only where it resolves.
HooksOnlyWhereCarried ==
    /\ Ready /\ file.hooks => pod.tmpl.hooks
    /\ script # Killed /\ script.hooks => pod.tmpl.hooks
    /\ aw.script # Killed /\ aw.script.hooks => pod.tmpl.hooks

\* Hooks were enabled and their Secret existed at some time.
HooksWere == hooksSpec # "before" /\ token # "before"

\* As long as hooks resolve, nothing takes the variable out of the template
\* again: not the pass under way, not the Deployment.
HooksStayCarried ==
    /\ deploy # NoDeploy => (deploy.hooks => HooksWere)
    /\ step \in {"keys", "deploy"} /\ hooks => HooksWere
    /\ HooksResolved /\ step \in {"keys", "deploy"} /\ deploy # NoDeploy =>
          (deploy.hooks => hooks)
    /\ pod.tmpl # NoDeploy =>
          (pod.tmpl.hooks => HooksWere /\ (HooksResolved => deploy.hooks))

\* Every key document d refers to is in the derived Secret, and the
\* Deployment puts that Secret into the environment.
Carries(d) ==
    \A c \in d.keyed \cap offered :
        c \in keys /\ deploy # NoDeploy /\ deploy.keys # {}

\* So does every document that is, or may become, the file; and between the
\* Secret and the script a pass carries whatever the script will refer to.
KeysCarried ==
    /\ file # Unseeded => Carries(file)
    /\ script # Killed => Carries(script)
    /\ aw.script # Killed => Carries(aw.script)
    /\ step \in {"deploy", "models"} => Collected \subseteq keys
    /\ step = "models" => (Collected # {} => deploy.keys # {})

\* What holds under every fault, and what needs the two to be excluded.
PassInv ==
    /\ TypeOK /\ ScriptsLive /\ Deployed
    /\ HooksOnlyWhereCarried /\ HooksStayCarried

GatewayInv == PassInv /\ KeysCarried

-----------------------------------------------------------------------------
USE DEF inputs, objects, volume, pass, counts

\* What the models script makes of a document: still a document in which a key
\* belongs to a block, with no key that was neither there nor wanted.
LEMMA ModelsDocumentOK ==
    ASSUME NEW d \in Document, d.keyed \subseteq d.blocks,
           NEW want \in SUBSET Conn, NEW lost, managed \subseteq Conn
    PROVE  LET n == ModelsDocument(d, want, lost)
           IN  /\ n \in Document /\ n.keyed \subseteq n.blocks
               /\ n.keyed \subseteq d.keyed \cup want
               /\ n.hooks = d.hooks /\ n.agents = d.agents
BY DEF ModelsDocument, Document

\* The models script either leaves the file as it is, and the pass goes on, or
\* has such a document to write.
LEMMA ModelsReadOK ==
    ASSUME TypeOK, ModelsRead
    PROVE  /\ UNCHANGED hooks
           /\ \/ script' = Killed /\ step' = "hooks"
              \/ /\ step' = "modelsWrite"
                 /\ script' \in Document /\ script'.keyed \subseteq script'.blocks
                 /\ script'.keyed \subseteq file.keyed \cup Collected
                 /\ script'.hooks = file.hooks
<1>1. file \in Document /\ file.keyed \subseteq file.blocks /\ managed \subseteq Conn
  BY DEF TypeOK, ModelsRead
<1>2. Collected \in SUBSET Conn
  BY DEF TypeOK, Collected, Carried
<1>3. PICK lost \in Unreadable :
        \/ script' = Killed /\ step' = "hooks" /\ UNCHANGED hooks
        \/ /\ script' = ModelsDocument(file, Collected, lost)
           /\ step' = "modelsWrite" /\ UNCHANGED hooks
  BY DEF ModelsRead, Goto
<1>4. LET n == ModelsDocument(file, Collected, lost)
      IN  /\ n \in Document /\ n.keyed \subseteq n.blocks
          /\ n.keyed \subseteq file.keyed \cup Collected
          /\ n.hooks = file.hooks
  BY <1>1, <1>2, ModelsDocumentOK
<1>5. QED
  BY <1>3, <1>4

\* The invariant holds before anything has been rendered.
LEMMA GatewayInit == Init => GatewayInv
<1> SUFFICES ASSUME Init PROVE GatewayInv
  OBVIOUS
<1>1. TypeOK
  <2>1. edits \in 0..MaxEdits /\ faults \in 0..MaxFaults
    BY GatewayAssumption DEF Init
  <2>2. pod \in [phase : {"none", "starting", "ready"}, tmpl : Template \cup {NoDeploy},
                run : Document \cup {Unseeded}]
    BY DEF Init
  <2>3. aw \in [agent : Agent \cup {NoAgent}, script : Document \cup {Killed}]
    BY DEF Init
  <2>4. agent \in [Agent -> {"live", "deleting", "gone"}]
    BY DEF Init
  <2>5. QED
    BY <2>1, <2>2, <2>3, <2>4 DEF Init, TypeOK, Stage, Step, Ready
<1>2. ScriptsLive /\ Deployed
  BY DEF Init, ScriptsLive, Deployed
<1>3. HooksOnlyWhereCarried /\ HooksStayCarried
  BY DEF Init, HooksOnlyWhereCarried, HooksStayCarried, Ready
<1>4. KeysCarried
  BY DEF Init, KeysCarried
<1>5. QED
  BY <1>1, <1>2, <1>3, <1>4 DEF GatewayInv, PassInv

\* Every step keeps the types.
LEMMA TypeStep ==
    ASSUME PassInv, [Next]_vars
    PROVE  TypeOK'
<1> USE GatewayAssumption DEF PassInv, TypeOK, ScriptsLive, Deployed,
            Writing, Ready, Stage, Step, Template, Document
<1>1. CASE UNCHANGED vars
  BY <1>1 DEF vars
<1>2. CASE Begin
  BY <1>2 DEF Begin, HooksResolved
<1>3. CASE EnsureKeys
  BY <1>3 DEF EnsureKeys, Goto, Unreadable, Collected, Carried
<1>4. CASE ApplyDeployment
  BY <1>4 DEF ApplyDeployment, Goto
<1>5. CASE ModelsSkip
  BY <1>5 DEF ModelsSkip, Goto
<1>6. CASE ModelsRead
  <2>1. managed' \in SUBSET Conn
    BY <1>6 DEF ModelsRead, Collected, Carried
  <2>2. QED
    BY <1>6, <2>1, ModelsReadOK DEF ModelsRead
<1>7. CASE HooksSkip
  BY <1>7 DEF HooksSkip, Goto
<1>8. CASE HooksRead
  BY <1>8 DEF HooksRead, HooksDocument, Goto
<1>9. CASE Write
  BY <1>9 DEF Write, Goto, AfterChanged
<1>10. CASE WriteKilled
  BY <1>10 DEF WriteKilled, Goto, AfterError
<1>11. CASE WriteFails
  BY <1>11 DEF WriteFails, Goto, AfterError, Fault
<1>12. CASE RestartPods
  BY <1>12 DEF RestartPods, Restarted, Goto
<1>13. CASE RestartFails
  BY <1>13 DEF RestartFails, Fault, Goto
<1>14. CASE Crash
  BY <1>14 DEF Crash, Fault, Goto
<1>15. ASSUME NEW a \in Agent, Register(a)
      PROVE  TypeOK'
  BY <1>15 DEF Register, MergeDocument
<1>16. ASSUME NEW a \in Agent, Deregister(a)
      PROVE  TypeOK'
  BY <1>16 DEF Deregister
<1>17. CASE AgentWrite
  BY <1>17 DEF AgentWrite
<1>18. CASE AgentWriteFails
  BY <1>18 DEF AgentWriteFails
<1>19. CASE Rollout
  BY <1>19 DEF Rollout, ContainerEnds, Restarted
<1>20. CASE Seed
  BY <1>20 DEF Seed
<1>21. CASE Boot
  <2>1. /\ pod' = [pod EXCEPT !.phase = "ready", !.run = file]
        /\ pod.phase = "starting" /\ file \in Document
        /\ UNCHANGED <<inputs, objects, volume, pass, aw, counts>>
    BY <1>21 DEF Boot
  <2>2. /\ pod' \in [phase : {"none", "starting", "ready"},
                     tmpl : Template \cup {NoDeploy},
                     run : Document \cup {Unseeded}]
        /\ pod'.phase = "ready" /\ pod'.tmpl = pod.tmpl /\ pod'.run = file
    BY <2>1
  <2>3. QED
    BY <2>1, <2>2
<1>22. CASE ContainerDies
  BY <1>22 DEF ContainerDies, ContainerEnds, Restarted, Fault
<1>23. CASE EnableHooks
  BY <1>23 DEF EnableHooks, Edit
<1>24. CASE CreateToken
  BY <1>24 DEF CreateToken, Edit
<1>25. CASE DisableHooks
  BY <1>25 DEF DisableHooks, Edit
<1>26. CASE DeleteToken
  BY <1>26 DEF DeleteToken, Edit
<1>27. ASSUME NEW c \in Conn, Withdraw(c)
      PROVE  TypeOK'
  BY <1>27 DEF Withdraw, Edit
<1>28. ASSUME NEW a \in Agent, DeleteAgent(a)
      PROVE  TypeOK'
  BY <1>28 DEF DeleteAgent, Edit
<1>29. ASSUME NEW a \in Agent, NEW c \in Conn, SwapBrain(a, c)
      PROVE  TypeOK'
  BY <1>29 DEF SwapBrain, Edit
<1>30. QED
  BY <1>1, <1>2, <1>3, <1>4, <1>5, <1>6, <1>7, <1>8, <1>9, <1>10, <1>11,
      <1>12, <1>13, <1>14, <1>15, <1>16, <1>17, <1>18, <1>19, <1>20, <1>21,
      <1>22, <1>23, <1>24, <1>25, <1>26, <1>27, <1>28, <1>29 DEF Next, Pass,
      Workstation, Cluster, People, vars

\* A script is started only in a Ready container, and dies with it.
LEMMA ScriptsStep ==
    ASSUME PassInv, [Next]_vars
    PROVE  ScriptsLive'
<1> USE GatewayAssumption DEF PassInv, TypeOK, ScriptsLive, Writing,
            Ready, Document
<1>1. CASE UNCHANGED <<pod, step, script, aw>>
  BY <1>1
<1>2. CASE Begin
  BY <1>2 DEF Begin
<1>3. CASE EnsureKeys
  BY <1>3 DEF EnsureKeys, Goto, Unreadable
<1>4. CASE ApplyDeployment
  BY <1>4 DEF ApplyDeployment, Goto
<1>5. CASE ModelsSkip
  BY <1>5 DEF ModelsSkip, Goto
<1>6. CASE ModelsRead
  BY <1>6, ModelsReadOK DEF ModelsRead
<1>7. CASE HooksSkip
  BY <1>7 DEF HooksSkip, Goto
<1>8. CASE HooksRead
  BY <1>8 DEF HooksRead, HooksDocument, Goto
<1>9. CASE Write
  BY <1>9 DEF Write, Goto, AfterChanged
<1>10. CASE WriteKilled
  BY <1>10 DEF WriteKilled, Goto, AfterError
<1>11. CASE WriteFails
  BY <1>11 DEF WriteFails, Goto, AfterError, Fault
<1>12. CASE RestartPods
  BY <1>12 DEF RestartPods, Restarted, Goto
<1>13. CASE RestartFails
  BY <1>13 DEF RestartFails, Fault, Goto
<1>14. CASE Crash
  BY <1>14 DEF Crash, Fault, Goto
<1>15. ASSUME NEW a \in Agent, Register(a)
      PROVE  ScriptsLive'
  BY <1>15 DEF Register, MergeDocument
<1>16. ASSUME NEW a \in Agent, Deregister(a)
      PROVE  ScriptsLive'
  BY <1>16 DEF Deregister
<1>17. CASE AgentWrite
  BY <1>17 DEF AgentWrite
<1>18. CASE AgentWriteFails
  BY <1>18 DEF AgentWriteFails
<1>19. CASE Rollout
  BY <1>19 DEF Rollout, ContainerEnds, Restarted
<1>20. CASE Boot
  BY <1>20 DEF Boot
<1>21. CASE ContainerDies
  BY <1>21 DEF ContainerDies, ContainerEnds, Restarted, Fault
<1>22. QED
  BY <1>1, <1>2, <1>3, <1>4, <1>5, <1>6, <1>7, <1>8, <1>9, <1>10, <1>11,
      <1>12, <1>13, <1>14, <1>15, <1>16, <1>17, <1>18, <1>19, <1>20, <1>21
      DEF Next, Pass, Workstation, Cluster, People, vars, Seed, EnableHooks,
      CreateToken, DisableHooks, DeleteToken, Withdraw, DeleteAgent,
      SwapBrain

\* The Deployment is applied before anything needs it, and stays.
LEMMA DeployedStep ==
    ASSUME PassInv, [Next]_vars
    PROVE  Deployed'
<1> USE GatewayAssumption DEF PassInv, TypeOK, Deployed, Writing, Template
<1>1. CASE UNCHANGED <<deploy, pod, step>>
  BY <1>1
<1>2. CASE Begin
  BY <1>2 DEF Begin
<1>3. CASE EnsureKeys
  BY <1>3 DEF EnsureKeys, Goto, Unreadable
<1>4. CASE ApplyDeployment
  BY <1>4 DEF ApplyDeployment, Goto
<1>5. CASE ModelsSkip
  BY <1>5 DEF ModelsSkip, Goto
<1>6. CASE ModelsRead
  BY <1>6 DEF ModelsRead, ModelsDocument, Unreadable, Goto
<1>7. CASE HooksSkip
  BY <1>7 DEF HooksSkip, Goto
<1>8. CASE HooksRead
  BY <1>8 DEF HooksRead, HooksDocument, Goto
<1>9. CASE Write
  BY <1>9 DEF Write, Goto, AfterChanged
<1>10. CASE WriteKilled
  BY <1>10 DEF WriteKilled, Goto, AfterError
<1>11. CASE WriteFails
  BY <1>11 DEF WriteFails, Goto, AfterError, Fault
<1>12. CASE RestartPods
  BY <1>12 DEF RestartPods, Restarted, Goto
<1>13. CASE RestartFails
  BY <1>13 DEF RestartFails, Fault, Goto
<1>14. CASE Crash
  BY <1>14 DEF Crash, Fault, Goto
<1>15. CASE Rollout
  BY <1>15 DEF Rollout, ContainerEnds, Restarted
<1>16. CASE Boot
  BY <1>16 DEF Boot
<1>17. CASE ContainerDies
  BY <1>17 DEF ContainerDies, ContainerEnds, Restarted, Fault
<1>18. QED
  BY <1>1, <1>2, <1>3, <1>4, <1>5, <1>6, <1>7, <1>8, <1>9, <1>10, <1>11,
      <1>12, <1>13, <1>14, <1>15, <1>16, <1>17 DEF Next, Pass, Workstation,
      Cluster, People, vars, Seed, Register, Deregister, AgentWrite,
      AgentWriteFails, EnableHooks, CreateToken, DisableHooks, DeleteToken,
      Withdraw, DeleteAgent, SwapBrain

\* The reference to the hooks token gets into a document only in a container
\* that carries the variable, or with a container that has yet to boot.
LEMMA HooksOnlyStep ==
    ASSUME PassInv, [Next]_vars
    PROVE  HooksOnlyWhereCarried'
<1> USE GatewayAssumption DEF PassInv, TypeOK, ScriptsLive,
            HooksOnlyWhereCarried, Writing, Ready, Document, Template
<1>1. CASE UNCHANGED <<pod, file, aw>> /\ script' \in {script, Killed}
  BY <1>1
<1>2. CASE ModelsRead
  BY <1>2, ModelsReadOK DEF ModelsRead
<1>3. CASE HooksRead
  BY <1>3 DEF HooksRead, HooksDocument, Goto
<1>4. CASE Write
  BY <1>4 DEF Write, Goto, AfterChanged
<1>5. CASE WriteFails
  BY <1>5 DEF WriteFails, Goto, AfterError, Fault
<1>6. CASE RestartPods
  BY <1>6 DEF RestartPods, Restarted, Goto
<1>7. CASE Crash
  BY <1>7 DEF Crash, Fault, Goto
<1>8. ASSUME NEW a \in Agent, Register(a)
      PROVE  HooksOnlyWhereCarried'
  BY <1>8 DEF Register, MergeDocument
<1>9. ASSUME NEW a \in Agent, Deregister(a)
      PROVE  HooksOnlyWhereCarried'
  BY <1>9 DEF Deregister
<1>10. CASE AgentWrite
  BY <1>10 DEF AgentWrite
<1>11. CASE AgentWriteFails
  BY <1>11 DEF AgentWriteFails
<1>12. CASE Rollout
  BY <1>12 DEF Rollout, ContainerEnds, Restarted
<1>13. CASE Seed
  BY <1>13 DEF Seed
<1>14. CASE Boot
  BY <1>14 DEF Boot, Bootable
<1>15. CASE ContainerDies
  BY <1>15 DEF ContainerDies, ContainerEnds, Restarted, Fault
<1>16. QED
  BY <1>1, <1>2, <1>3, <1>4, <1>5, <1>6, <1>7, <1>8, <1>9, <1>10, <1>11,
      <1>12, <1>13, <1>14, <1>15 DEF Next, Pass, Workstation, Cluster,
      People, vars, Goto, Begin, EnsureKeys, ApplyDeployment, ModelsSkip,
      HooksSkip, WriteKilled, RestartFails, EnableHooks, CreateToken,
      DisableHooks, DeleteToken, Withdraw, DeleteAgent, SwapBrain

\* Once hooks are carried, every pass carries them until they are taken away.
LEMMA HooksStayStep ==
    ASSUME PassInv, [Next]_vars
    PROVE  HooksStayCarried'
<1> USE GatewayAssumption DEF PassInv, TypeOK, Deployed, HooksStayCarried,
            HooksWere, HooksResolved, Stage, Template
<1>1. CASE UNCHANGED <<hooksSpec, token, deploy, pod, step, hooks>>
  BY <1>1
<1>2. CASE Begin
  BY <1>2 DEF Begin
<1>3. CASE EnsureKeys
  BY <1>3 DEF EnsureKeys, Goto, Unreadable
<1>4. CASE ApplyDeployment
  BY <1>4 DEF ApplyDeployment, Goto
<1>5. CASE ModelsSkip
  BY <1>5 DEF ModelsSkip, Goto
<1>6. CASE ModelsRead
  BY <1>6 DEF ModelsRead, ModelsDocument, Unreadable, Goto
<1>7. CASE HooksSkip
  BY <1>7 DEF HooksSkip, Goto
<1>8. CASE HooksRead
  BY <1>8 DEF HooksRead, HooksDocument, Goto
<1>9. CASE Write
  BY <1>9 DEF Write, Goto, AfterChanged
<1>10. CASE WriteKilled
  BY <1>10 DEF WriteKilled, Goto, AfterError
<1>11. CASE WriteFails
  BY <1>11 DEF WriteFails, Goto, AfterError, Fault
<1>12. CASE RestartPods
  BY <1>12 DEF RestartPods, Restarted, Goto
<1>13. CASE RestartFails
  BY <1>13 DEF RestartFails, Fault, Goto
<1>14. CASE Crash
  BY <1>14 DEF Crash, Fault, Goto
<1>15. CASE Rollout
  BY <1>15 DEF Rollout, ContainerEnds, Restarted
<1>16. CASE Boot
  BY <1>16 DEF Boot
<1>17. CASE ContainerDies
  BY <1>17 DEF ContainerDies, ContainerEnds, Restarted, Fault
<1>18. CASE EnableHooks
  BY <1>18 DEF EnableHooks, Edit
<1>19. CASE CreateToken
  BY <1>19 DEF CreateToken, Edit
<1>20. CASE DisableHooks
  BY <1>20 DEF DisableHooks, Edit
<1>21. CASE DeleteToken
  BY <1>21 DEF DeleteToken, Edit
<1>22. QED
  BY <1>1, <1>2, <1>3, <1>4, <1>5, <1>6, <1>7, <1>8, <1>9, <1>10, <1>11,
      <1>12, <1>13, <1>14, <1>15, <1>16, <1>17, <1>18, <1>19, <1>20, <1>21
      DEF Next, Pass, Workstation, Cluster, People, vars, Seed, Register,
      Deregister, AgentWrite, AgentWriteFails, Withdraw, DeleteAgent,
      SwapBrain

\* No step takes a key that a document, written or in flight, refers to.
LEMMA KeysStep ==
    ASSUME GatewayInv, Undisturbed, [Next]_vars
    PROVE  KeysCarried'
<1> USE GatewayAssumption DEF GatewayInv, PassInv, TypeOK, ScriptsLive, Deployed,
            KeysCarried, Carries, Collected, Carried, Refs, Writing, Ready,
            Document, Template, Undisturbed
<1>1. CASE UNCHANGED <<brain, agent, offered, keys, deploy, file, script, aw, step>>
  BY <1>1
<1>2. CASE Begin
  BY <1>2 DEF Begin
<1>3. CASE EnsureKeys
  BY <1>3 DEF EnsureKeys, Goto, Unreadable
<1>4. CASE ApplyDeployment
  BY <1>4 DEF ApplyDeployment, Goto
<1>5. CASE ModelsSkip
  BY <1>5 DEF ModelsSkip, Goto
<1>6. CASE ModelsRead
  <2>1. script' # Killed => script'.keyed \subseteq file.keyed \cup Collected
    BY <1>6, ModelsReadOK
  <2>2. \A c \in Collected : c \in keys /\ deploy # NoDeploy /\ deploy.keys # {}
    BY <1>6 DEF ModelsRead
  <2>3. script' # Killed => Carries(script)'
    BY <1>6, <2>1, <2>2 DEF ModelsRead
  <2>4. step' \notin {"deploy", "models"}
    BY <1>6, ModelsReadOK
  <2>5. QED
    BY <1>6, <2>3, <2>4 DEF ModelsRead
<1>7. CASE HooksSkip
  BY <1>7 DEF HooksSkip, Goto
<1>8. CASE HooksRead
  BY <1>8 DEF HooksRead, HooksDocument, Goto
<1>9. CASE Write
  BY <1>9 DEF Write, Goto, AfterChanged
<1>10. CASE WriteKilled
  BY <1>10 DEF WriteKilled, Goto, AfterError
<1>11. CASE WriteFails
  BY <1>11 DEF WriteFails, Goto, AfterError, Fault
<1>12. CASE RestartPods
  BY <1>12 DEF RestartPods, Restarted, Goto
<1>13. CASE RestartFails
  BY <1>13 DEF RestartFails, Fault, Goto
<1>14. CASE Crash
  BY <1>14 DEF Crash, Fault, Goto
<1>15. ASSUME NEW a \in Agent, Register(a)
      PROVE  KeysCarried'
  BY <1>15 DEF Register, MergeDocument
<1>16. ASSUME NEW a \in Agent, Deregister(a)
      PROVE  KeysCarried'
  BY <1>16 DEF Deregister
<1>17. CASE AgentWrite
  BY <1>17 DEF AgentWrite
<1>18. CASE AgentWriteFails
  BY <1>18 DEF AgentWriteFails
<1>19. CASE Rollout
  BY <1>19 DEF Rollout, ContainerEnds, Restarted
<1>20. CASE Seed
  BY <1>20 DEF Seed
<1>21. CASE ContainerDies
  BY <1>21 DEF ContainerDies, ContainerEnds, Restarted, Fault
<1>22. ASSUME NEW c \in Conn, Withdraw(c)
      PROVE  KeysCarried'
  BY <1>22 DEF Withdraw, Edit
<1>23. ASSUME NEW a \in Agent, DeleteAgent(a)
      PROVE  KeysCarried'
  BY <1>23 DEF DeleteAgent, Edit
<1>24. ASSUME NEW a \in Agent, NEW c \in Conn, SwapBrain(a, c)
      PROVE  KeysCarried'
  BY <1>24 DEF SwapBrain, Edit
<1>25. QED
  BY <1>1, <1>2, <1>3, <1>4, <1>5, <1>6, <1>7, <1>8, <1>9, <1>10, <1>11,
      <1>12, <1>13, <1>14, <1>15, <1>16, <1>17, <1>18, <1>19, <1>20, <1>21,
      <1>22, <1>23, <1>24 DEF Next, Pass, Workstation, Cluster, People, vars,
      Boot, EnableHooks, CreateToken, DisableHooks, DeleteToken

\* The parts that hold under every fault keep themselves.
LEMMA PassStep ==
    ASSUME PassInv, [Next]_vars
    PROVE  PassInv'
BY TypeStep, ScriptsStep, DeployedStep, HooksOnlyStep, HooksStayStep DEF PassInv

-----------------------------------------------------------------------------
\* Every variable keeps its type, a key belongs to a block of the document, and
\* only a pod that was rendered, on a file that was seeded, runs the gateway:
\* under every fault.  (agentgateway_controller.go, Reconcile)
THEOREM GatewayTypes == Spec => []TypeOK
<1>1. Init => PassInv
  BY GatewayInit DEF GatewayInv
<1>2. PassInv => TypeOK
  BY DEF PassInv
<1>3. QED
  BY <1>1, <1>2, PassStep, PTL DEF Spec

\* openclaw.json never refers to a variable the operator does not put into the
\* environment, for whatever is still enabled and offered: neither a swap of
\* connections, nor a crash of the operator or of the container, nor a script
\* that writes back an old document takes the gateway its next start.
\* (agentgateway_modelconnections.go:122-134, agentgateway_hooks.go:130-137)
THEOREM GatewayCanRestart ==
    ASSUME Undisturbed
    PROVE  Spec => []BootableConfig
<1>1. GatewayInv /\ [Next]_vars => GatewayInv'
  BY PassStep, KeysStep DEF GatewayInv
<1>2. GatewayInv => BootableConfig
  <2> SUFFICES ASSUME GatewayInv PROVE BootableConfig
    OBVIOUS
  <2>1. Ready /\ file.hooks => pod.tmpl.hooks /\ (HooksResolved => deploy.hooks)
    BY DEF GatewayInv, PassInv, TypeOK, HooksOnlyWhereCarried, HooksStayCarried, Ready
  <2>2. file # Unseeded => \A c \in file.keyed \cap offered : c \in EnvKeys(deploy)
    BY DEF GatewayInv, KeysCarried, Carries, EnvKeys
  <2>3. QED
    BY <2>1, <2>2 DEF BootableConfig
<1>3. QED
  BY GatewayInit, <1>1, <1>2, PTL DEF Spec

-----------------------------------------------------------------------------
(* The hooks half of BootableConfig                                        *)

\* The reference to the hooks token resolves in the pod that runs, and will
\* in the one that follows it.
HooksBootable ==
    Ready /\ file.hooks => pod.tmpl.hooks /\ (HooksResolved => deploy.hooks)

\* What hooks need to start again is never missing, under every fault: the
\* two that break BootableConfig break it for the keys of connections alone.
THEOREM HooksCanRestart == Spec => []HooksBootable
<1>1. Init => PassInv
  BY GatewayInit DEF GatewayInv
<1>2. PassInv /\ [Next]_vars => PassInv'
  BY TypeStep, ScriptsStep, DeployedStep, HooksOnlyStep, HooksStayStep DEF PassInv
<1>3. PassInv => HooksBootable
  <2>1. PassInv /\ Ready => pod.tmpl # NoDeploy
    BY DEF PassInv, TypeOK, Ready
  <2>2. QED
    BY <2>1 DEF PassInv, HooksOnlyWhereCarried, HooksStayCarried, HooksBootable
<1>4. QED
  BY <1>1, <1>2, <1>3, PTL DEF Spec

-----------------------------------------------------------------------------
(* A gateway that has converged                                            *)

\* No script has something to write, the pass under way decided what hooks
\* mean as one that starts now would, and nobody is to be de-registered.
Resting ==
    /\ step \in {"idle", "keys", "deploy", "models", "hooks"}
    /\ step # "idle" => hooks = HooksResolved
    /\ script = Killed /\ aw.script = Killed
    /\ \A a \in Agent : agent[a] # "deleting"

\* The Secret and the Deployment are what a pass would render.
Rendered ==
    /\ keys = Collected
    /\ deploy = [hooks |-> HooksResolved, keys |-> keys]

\* openclaw.json is what both reconcilers would make of it.
FileAsked ==
    /\ file # Unseeded
    /\ file.hooks = HooksResolved
    /\ Collected \subseteq file.keyed /\ file.blocks \cap managed \subseteq Collected
    /\ \A a \in Agent : agent[a] = "live" => a \in file.agents

Settled ==
    /\ Resting /\ Rendered /\ FileAsked
    /\ Ready /\ pod.tmpl = deploy
    /\ \A k \in {"hooks", "blocks", "keyed"} : pod.run[k] = file[k]

\* What is settled is what Converges asks for.
LEMMA SettledConverged == TypeOK /\ Settled => Converged
<1> SUFFICES ASSUME TypeOK, Settled
             PROVE  Converged
  OBVIOUS
<1>1. /\ Ready /\ pod.run.hooks = HooksResolved
      /\ \A k \in {"hooks", "blocks", "keyed"} : pod.run[k] = file[k]
      /\ Collected \subseteq file.keyed
  BY DEF Settled, FileAsked
<1>2. Refs \cap offered \subseteq Collected
  BY DEF Collected
<1>3. QED
  BY <1>1, <1>2 DEF Converged

\* Steps that touch neither what was rendered nor what runs.
LEMMA SettledFrame ==
    ASSUME Settled, UNCHANGED <<inputs, keys, deploy, file, pod>>,
           managed' \in {managed, Collected}, Resting'
    PROVE  Settled' /\ UNCHANGED <<keys, deploy, file, pod>>
<1>1. Collected' = Collected /\ HooksResolved' = HooksResolved
  BY DEF Collected, Refs, Carried, HooksResolved
<1>2. Rendered'
  BY <1>1 DEF Settled, Rendered
<1>3. FileAsked'
  BY <1>1 DEF Settled, FileAsked
<1>4. QED
  BY <1>2, <1>3 DEF Settled, Ready

\* The models script finds nothing to change.
LEMMA ModelsSettled ==
    ASSUME TypeOK, Settled, "unreadable" \notin Faults, ModelsRead
    PROVE  UNCHANGED file /\ Goto("hooks")
<1>1. Unreadable = {{}}
  BY DEF Unreadable
<1>2. file \in Document /\ file.keyed \subseteq file.blocks
  BY DEF TypeOK, Settled, FileAsked
<1>3. /\ Collected \subseteq file.keyed
      /\ file.blocks \cap managed \subseteq Collected
  BY DEF Settled, FileAsked
<1>4. (file.blocks \ managed) \cup Collected = file.blocks
  BY <1>2, <1>3
<1>5. (file.keyed \ (managed \cup Collected)) \cup (Collected \ {}) = file.keyed
  BY <1>2, <1>3
<1>6. ModelsDocument(file, Collected, {}) = file
  BY <1>2, <1>4, <1>5 DEF ModelsDocument, Document
<1>7. QED
  BY <1>1, <1>6 DEF ModelsRead

LEMMA SettledStep ==
    ASSUME TypeOK, Settled, "unreadable" \notin Faults, [Next]_vars,
           UNCHANGED <<inputs, faults>>
    PROVE  Settled' /\ UNCHANGED <<keys, deploy, file, pod>>
<1>0. /\ file \in Document /\ deploy \in Template /\ pod.phase = "ready"
      /\ HooksResolved' = HooksResolved /\ Refs' = Refs
  BY DEF TypeOK, Settled, FileAsked, Rendered, HooksResolved, Refs, Ready,
         Template, Collected, Carried
<1>a. Resting /\ step \notin {"modelsWrite", "hooksWrite", "modelsRestart",
                              "hooksRestart"}
  BY DEF Settled, Resting
<1>b. ASSUME NEW s \in {"idle", "deploy", "models", "hooks"}, Goto(s),
             UNCHANGED aw, step # "idle"
      PROVE  Resting'
  BY <1>0, <1>a, <1>b DEF Resting, Goto
<1>1. CASE UNCHANGED vars
  <2>1. Resting'
    BY <1>0, <1>1, <1>a DEF Resting, vars
  <2>2. QED
    BY <1>1, <2>1, SettledFrame DEF vars
<1>2. CASE Begin
  <2>1. Resting'
    BY <1>0, <1>a, <1>2 DEF Begin, Resting
  <2>2. QED
    BY <1>2, <2>1, SettledFrame DEF Begin
<1>3. CASE EnsureKeys
  <2>1. keys' = Collected
    BY <1>3 DEF EnsureKeys, Unreadable
  <2>2. keys' = keys
    BY <2>1 DEF Settled, Rendered
  <2>3. Resting'
    BY <1>3, <1>b DEF EnsureKeys
  <2>4. QED
    BY <1>3, <2>2, <2>3, SettledFrame DEF EnsureKeys
<1>4. CASE ApplyDeployment
  <2>1. deploy' = [hooks |-> hooks, keys |-> keys] /\ hooks = HooksResolved
    BY <1>4, <1>a DEF ApplyDeployment, Resting
  <2>2. deploy' = deploy
    BY <2>1 DEF Settled, Rendered
  <2>3. Resting'
    BY <1>4, <1>b DEF ApplyDeployment
  <2>4. QED
    BY <1>4, <2>2, <2>3, SettledFrame DEF ApplyDeployment
<1>5. CASE ModelsRead
  <2>1. UNCHANGED file /\ Goto("hooks")
    BY <1>5, ModelsSettled
  <2>2. Resting'
    BY <1>5, <2>1, <1>b DEF ModelsRead
  <2>3. QED
    BY <1>5, <2>1, <2>2, SettledFrame DEF ModelsRead
<1>6. CASE HooksRead
  <2>1. hooks = HooksResolved /\ file.hooks = HooksResolved
        /\ pod.tmpl.hooks = HooksResolved
    BY <1>6, <1>a DEF HooksRead, Resting, Settled, FileAsked, Rendered
  <2>2. HooksDocument(file) = file
    BY <2>1, <1>0 DEF HooksDocument, Document
  <2>3. Goto("idle")
    BY <1>6, <2>2 DEF HooksRead
  <2>4. Resting'
    BY <1>6, <2>3, <1>b DEF HooksRead
  <2>5. QED
    BY <1>6, <2>4, SettledFrame DEF HooksRead
<1>7. CASE ModelsSkip \/ HooksSkip \/ Write \/ WriteKilled \/ WriteFails
           \/ RestartPods \/ RestartFails \/ Rollout \/ Seed \/ Boot
  <2>1. Ready /\ pod.tmpl = deploy
    BY DEF Settled
  <2>2. FALSE
    BY <1>0, <1>7, <1>a, <2>1 DEF ModelsSkip, HooksSkip, Write, WriteKilled,
       WriteFails, RestartPods, RestartFails, Rollout, Seed, Boot, Writing
  <2>3. QED
    BY <2>2
<1>8. CASE Crash \/ ContainerDies
  <2>1. faults' = faults + 1 /\ faults \in Nat
    BY <1>8 DEF Crash, ContainerDies, Fault, TypeOK
  <2>2. QED
    BY <2>1
<1>9. ASSUME NEW a \in Agent, Register(a)
      PROVE  FALSE
  <2>1. a \in file.agents
    BY <1>9 DEF Register, Settled, FileAsked
  <2>2. MergeDocument(file, a) = file
    <3>1. file.agents \cup {a} = file.agents
      BY <2>1
    <3>2. QED
      BY <3>1, <1>0 DEF MergeDocument, Document
  <2>3. QED
    BY <1>9, <2>2 DEF Register
<1>10. ASSUME NEW a \in Agent, Deregister(a)
       PROVE  FALSE
  BY <1>10, <1>a DEF Deregister, Resting
<1>11. CASE AgentWrite
  BY <1>11, <1>a DEF AgentWrite, Resting
<1>12. CASE AgentWriteFails
  <2>1. Resting'
    BY <1>0, <1>12, <1>a DEF AgentWriteFails, Resting, TypeOK
  <2>2. QED
    BY <1>12, <2>1, SettledFrame DEF AgentWriteFails
<1>13. CASE People
  <2>1. \/ hooksSpec' # hooksSpec \/ token' # token \/ offered' # offered
        \/ brain' # brain \/ agent' # agent
    BY <1>13 DEF People, EnableHooks, CreateToken, DisableHooks, DeleteToken,
       Withdraw, SwapBrain, DeleteAgent, TypeOK
  <2>2. QED
    BY <2>1
<1>14. QED
  BY <1>1, <1>2, <1>3, <1>4, <1>5, <1>6, <1>7, <1>8, <1>9, <1>10, <1>11,
     <1>12, <1>13 DEF Next, Pass, Workstation, Cluster

\* A gateway that runs what it is asked to run is left alone: while nobody
\* edits anything and nothing fails no pass of either reconciler writes the
\* file, renders another Secret or Deployment, or restarts the pod, whatever
\* order the steps of both come in.  With Converges, which says that a gateway
\* gets there, it never restarts for ever.
SettledStays ==
    [][Settled /\ UNCHANGED <<inputs, faults>> =>
         Settled' /\ UNCHANGED <<keys, deploy, file, pod>>]_vars

THEOREM SettledIsStable ==
    ASSUME "unreadable" \notin Faults
    PROVE  Spec => SettledStays
<1>1. TypeOK /\ [Next]_vars =>
        [Settled /\ UNCHANGED <<inputs, faults>> =>
           Settled' /\ UNCHANGED <<keys, deploy, file, pod>>]_vars
  BY SettledStep
<1>2. QED
  BY <1>1, GatewayTypes, PTL DEF Spec, SettledStays
=============================================================================
