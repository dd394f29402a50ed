------------------------- MODULE SkillBindingsProofs -------------------------
(***************************************************************************)
(* Theorems about SkillBindings for every set of workstations, Skills and  *)
(* bindings, any number of edits and restarts, and every order in which    *)
(* the three controllers take what their queues hold.                      *)
(*                                                                         *)
(* The status of an object at rest is exact because whatever it was        *)
(* computed from cannot change without putting the object back into its    *)
(* queue, also while the pass that computes it is under way.  Once nothing *)
(* is due everything is bound and stays so, and no pass ever takes another *)
(* owner's binding.                                                        *)
(***************************************************************************)
EXTENDS SkillBindings, TLAPS

-----------------------------------------------------------------------------
(* 1. Types                                                                *)

\* The parts of TypeOK.
ObjectsTyped ==
    /\ ws \in [Workstation -> WsSpec \cup {Nothing}]
    /\ skill \in [SkillName -> SkillObject \cup {Nothing}]
    /\ binding \in [Binding -> BindingObject \cup {Nothing}]
    /\ map \in Text \cup {Nothing}
    /\ registry \in Registry

QueueTyped ==
    queue \in [skill : SUBSET SkillName, binding : SUBSET Binding,
               ws : SUBSET Workstation]

PassesTyped ==
    /\ skillPass \in SkillPass \cup {Nothing}
    /\ bindingPass \in BindingPass \cup {Nothing}
    /\ wsPass \in WsPass \cup {Nothing}
    /\ wsPass # Nothing => wsPass.wanted \subseteq DOMAIN wsPass.refs

Events == [skill : SUBSET SkillName, binding : SUBSET Binding, ws : SUBSET Workstation]

\* What a write adds to the queues is names of objects.
LEMMA EventTypes ==
    ASSUME ObjectsTyped
    PROVE  /\ NoEvent \in Events /\ Everything \in Events
           /\ \A k \in SkillName : OnSkill(k) \in Events
           /\ \A a \in Workstation : OnWorkstation(a) \in Events
           /\ \A b \in Binding, o, n \in BindingObject \cup {Nothing} :
                 OnBinding(b, o, n) \in Events
<1>1. /\ Existing(ws) \subseteq Workstation /\ Existing(skill) \subseteq SkillName
      /\ Existing(binding) \subseteq Binding
  BY DEF ObjectsTyped, Existing
<1>2. ASSUME NEW o \in BindingObject \cup {Nothing}
      PROVE  /\ Audience(o) \subseteq Workstation
             /\ o # Nothing => o.skill \in SkillName
  BY <1>1 DEF Audience, BindingObject
<1>3. ASSUME NEW b \in Binding, NEW o \in BindingObject \cup {Nothing},
             NEW n \in BindingObject \cup {Nothing}
      PROVE  OnBinding(b, o, n) \in Events
  <2>1. {x.skill : x \in {o, n} \ {Nothing}} \subseteq SkillName
    BY <1>2, <1>3
  <2>2. Audience(o) \cup Audience(n) \subseteq Workstation
    BY <1>2
  <2>3. QED
    BY <2>1, <2>2 DEF OnBinding, Events
<1>4. \A k \in SkillName : BindingsOf(k) \subseteq Binding
  BY <1>1 DEF BindingsOf
<1>5. QED
  BY <1>1, <1>3, <1>4
  DEF NoEvent, Everything, OnSkill, OnWorkstation, Events

\* Queues stay sets of names when events are added.
LEMMA EnqueueTyped ==
    ASSUME QueueTyped, NEW e \in Events, Enqueue(e)
    PROVE  /\ QueueTyped'
           /\ queue'.skill = queue.skill \cup e.skill
           /\ queue'.binding = queue.binding \cup e.binding
           /\ queue'.ws = queue.ws \cup e.ws
<1>1. DOMAIN queue = {"skill", "binding", "ws"}
  BY DEF QueueTyped
<1>2. queue' = [q \in {"skill", "binding", "ws"} |-> queue[q] \cup e[q]]
  BY <1>1 DEF Enqueue, Join
<1>3. /\ queue'.skill = queue.skill \cup e.skill
      /\ queue'.binding = queue.binding \cup e.binding
      /\ queue'.ws = queue.ws \cup e.ws
  BY <1>2
<1>4. queue' = [skill |-> queue'.skill, binding |-> queue'.binding, ws |-> queue'.ws]
  BY <1>2
<1>5. QED
  BY <1>3, <1>4 DEF QueueTyped, Events

\* What the passes compute is of the type of what they write.
LEMMA PassTypes ==
    ASSUME ObjectsTyped
    PROVE  /\ \A k \in Existing(skill) : Contents(k) \subseteq Text \cup {Nothing}
           /\ \A k \in SkillName : References(k) \subseteq Workstation
           /\ \A b \in Existing(binding) :
                 /\ Subjects(b) \subseteq Workstation
                 /\ Verdict(b) \in Pin \X (Version \cup {Nothing})
                 /\ Conflicts(b) \subseteq Workstation \X Binding
<1>1. /\ Existing(ws) \subseteq Workstation
      /\ \A k \in Existing(skill) : k \in SkillName /\ skill[k] \in SkillObject
      /\ \A b \in Existing(binding) : b \in Binding /\ binding[b] \in BindingObject
  BY DEF ObjectsTyped, Existing
<1>2. ASSUME NEW k \in Existing(skill) PROVE Contents(k) \subseteq Text \cup {Nothing}
  <2>1. /\ map \in Text \cup {Nothing} /\ registry.ever \subseteq Text
        /\ skill[k].source \in Text \cup {FromMap, FromPackage}
    BY <1>1 DEF ObjectsTyped, Registry, SkillObject
  <2>2. QED
    BY <2>1 DEF Contents
<1>3. \A b : Subjects(b) \subseteq Workstation
  BY <1>1 DEF Subjects
<1>4. \A b \in Existing(binding) : Reported(b) \subseteq Workstation
  BY <1>1, <1>3 DEF Reported, BindingObject
<1>5. \A k : BindingsOf(k) \subseteq Existing(binding)
  BY DEF BindingsOf
<1>6. \A k \in SkillName : References(k) \subseteq Workstation
  BY <1>4, <1>5 DEF References
<1>7. ASSUME NEW b \in Existing(binding) PROVE Conflicts(b) \subseteq Workstation \X Binding
  <2> SUFFICES ASSUME NEW c \in Conflicts(b) PROVE c \in Workstation \X Binding
    OBVIOUS
  <2>1. PICK o \in BindingsOf(binding[b].skill) \ {b} :
           c \in {<<a, o>> : a \in Reported(o) \cap Subjects(b)}
    BY DEF Conflicts
  <2>2. PICK a \in Reported(o) \cap Subjects(b) : c = <<a, o>>
    BY <2>1
  <2>3. a \in Workstation /\ o \in Binding
    BY <1>1, <1>3, <1>5, <2>1, <2>2
  <2>4. QED
    BY <2>2, <2>3
<1>8. ASSUME NEW b \in Existing(binding)
      PROVE  Verdict(b) \in Pin \X (Version \cup {Nothing})
  <2>1. binding[b].pin \in Pin /\ binding[b].skill \in SkillName
    BY <1>1 DEF BindingObject
  <2>2. skill[binding[b].skill] = Nothing \/ skill[binding[b].skill].version \in Version
    BY <2>1 DEF ObjectsTyped, SkillObject
  <2>3. QED
    BY <2>1, <2>2 DEF Verdict
<1>9. QED
  BY <1>2, <1>3, <1>6, <1>7, <1>8

\* A pass that has been touched is not fresh any more; otherwise it is as it was.
LEMMA TouchedTyped ==
    ASSUME PassesTyped, NEW bs, BindingsTouched(bs)
    PROVE  /\ bindingPass' \in BindingPass \cup {Nothing}
           /\ bindingPass = Nothing => bindingPass' = Nothing
           /\ bindingPass # Nothing =>
                 /\ bindingPass' # Nothing /\ bindingPass'.key = bindingPass.key
                 /\ bindingPass.key \notin bs => bindingPass' = bindingPass
                 /\ bindingPass.key \in bs => ~bindingPass'.fresh
<1>1. CASE bindingPass # Nothing /\ bindingPass.key \in bs
  <2>1. bindingPass \in BindingPass /\ bindingPass' = [bindingPass EXCEPT !.fresh = FALSE]
    BY <1>1 DEF PassesTyped, BindingsTouched
  <2>2. /\ bindingPass' \in BindingPass /\ bindingPass'.key = bindingPass.key
        /\ ~bindingPass'.fresh
    BY <2>1 DEF BindingPass
  <2>3. QED
    BY <1>1, <2>2, NothingAssumption
<1>2. CASE ~(bindingPass # Nothing /\ bindingPass.key \in bs)
  <2>1. bindingPass' = bindingPass
    BY <1>2 DEF BindingsTouched
  <2>2. QED
    BY <1>2, <2>1 DEF PassesTyped
<1>3. QED
  BY <1>1, <1>2

\* A queue an object is taken from stays a set of names.
LEMMA DequeueTyped ==
    ASSUME QueueTyped, NEW S, NEW T, NEW U,
           S \subseteq queue.skill, T \subseteq queue.binding, U \subseteq queue.ws
    PROVE  /\ [queue EXCEPT !.skill = S] \in Events
           /\ [queue EXCEPT !.binding = T] \in Events
           /\ [queue EXCEPT !.ws = U] \in Events
BY DEF QueueTyped, Events

\* A new binding, and what CreateOrUpdate makes of one.
LEMMA BindingTypes ==
    ASSUME ObjectsTyped, BindingAssumption, NothingAssumption
    PROVE  /\ \A s \in BindingSpec : NewBinding(s) \in BindingObject
           /\ \A s \in BindingSpec, o \in BindingObject :
                 [o EXCEPT !.skill = s.skill, !.pin = s.pin, !.subjects = s.subjects,
                           !.selector = s.selector] \in BindingObject
           /\ wsPass \in WsPass => \A b \in Binding, k \in SkillName :
                 k \in DOMAIN wsPass.refs => Upserted(b, k) \in BindingObject
<1>1. ASSUME NEW s \in BindingSpec PROVE NewBinding(s) \in BindingObject
  BY <1>1 DEF BindingAssumption, NewBinding, BindingObject
<1>2. ASSUME NEW s \in BindingSpec, NEW o \in BindingObject
      PROVE  [o EXCEPT !.skill = s.skill, !.pin = s.pin, !.subjects = s.subjects,
                       !.selector = s.selector] \in BindingObject
  BY <1>2 DEF BindingAssumption, BindingObject
<1>3. ASSUME wsPass \in WsPass, NEW b \in Binding, NEW k \in SkillName,
             k \in DOMAIN wsPass.refs
      PROVE  Upserted(b, k) \in BindingObject
  <2>1. /\ wsPass.key \in Workstation /\ wsPass.alive \in BOOLEAN
        /\ wsPass.refs[k] \in Pin
    <3>1. PICK K \in SUBSET SkillName : wsPass.refs \in [K -> Pin]
      BY <1>3 DEF WsPass
    <3>2. QED
      BY <1>3, <3>1 DEF WsPass
  <2> DEFINE old == IF binding[b] # Nothing THEN binding[b]
                    ELSE NewBinding([skill |-> k, pin |-> Floating, subjects |-> {},
                                     selector |-> FALSE])
  <2>2. old \in BindingObject
    BY DEF ObjectsTyped, NewBinding, BindingObject, Pin
  <2>3. Upserted(b, k) = [old EXCEPT !.skill = k, !.pin = wsPass.refs[k],
                             !.subjects = {wsPass.key}, !.owner = wsPass.key,
                             !.orphan = ~wsPass.alive]
    BY DEF Upserted
  <2> HIDE DEF old
  <2> DEFINE new == [old EXCEPT !.skill = k, !.pin = wsPass.refs[k]]
  <2>4. new \in BindingObject
    BY <2>1, <2>2 DEF BindingObject
  <2>5. PICK dead \in BOOLEAN : dead = (~wsPass.alive)
    BY <2>1
  <2>6. Upserted(b, k) = [new EXCEPT !.subjects = {wsPass.key}, !.owner = wsPass.key,
                                     !.orphan = dead]
    BY <2>3, <2>5 DEF new
  <2> HIDE DEF new
  <2>7. {wsPass.key} \in SUBSET Workstation
    BY <2>1
  <2>8. [new EXCEPT !.subjects = {wsPass.key}, !.owner = wsPass.key, !.orphan = dead]
           \in BindingObject
    BY <2>1, <2>4, <2>5, <2>7 DEF BindingObject
  <2>9. QED
    BY <2>6, <2>8
<1>4. QED
  BY <1>1, <1>2, <1>3

\* An object a fresh pass is about is there: deleting it would have been noted.
PassesAlive ==
    /\ skillPass # Nothing /\ skillPass.fresh => skill[skillPass.key] # Nothing
    /\ bindingPass # Nothing /\ bindingPass.fresh => binding[bindingPass.key] # Nothing

TypeInv ==
    ObjectsTyped /\ QueueTyped /\ PassesTyped /\ PassesAlive /\ edits \in 0..MaxEdits

\* What an edit of a user counts.
LEMMA EditTyped == edits \in 0..MaxEdits /\ Edit => edits' \in 0..MaxEdits
BY BindingAssumption DEF Edit

\* The initial state is in type.
LEMMA TypeInit == Init => TypeInv
<1> SUFFICES ASSUME Init PROVE TypeInv
  OBVIOUS
<1>1. ObjectsTyped
  <2>1. \A s \in SkillSpec : NewSkill(s) \in SkillObject
    BY BindingAssumption DEF NewSkill, SkillObject
  <2>2. QED
    BY <2>1 DEF Init, ObjectsTyped, Registry
<1>2. QueueTyped
  BY <1>1, EventTypes DEF Init, QueueTyped, Events
<1>3. PassesTyped /\ PassesAlive /\ edits \in 0..MaxEdits
  BY BindingAssumption DEF Init, PassesTyped, PassesAlive
<1>4. QED
  BY <1>1, <1>2, <1>3 DEF TypeInv

\* What an answer of the cache or of the registry leaves.
LEMMA FetchTyped ==
    ASSUME registry \in Registry, NEW f \in Fetches
    PROVE  /\ f.text \in registry.ever \cup {Nothing}
           /\ [registry EXCEPT !.cached = f.cached] \in Registry
           /\ [registry EXCEPT !.cached = f.cached].ever = registry.ever
<1>1. /\ f.text \in {registry.now, registry.cached}
      /\ f.cached \in {registry.now, registry.cached}
  BY DEF Fetches
<1>2. QED
  BY <1>1 DEF Registry

\* The pass of a Skill begins with a text its source holds or has held.
LEMMA SkillBegins ==
    ASSUME ObjectsTyped, NEW k \in SkillName, BeginSkill(k)
    PROVE  /\ registry' \in Registry /\ registry'.ever = registry.ever
           /\ skill[k] = Nothing => skillPass' = Nothing
           /\ skill[k] # Nothing => \E c \in Contents(k) : skillPass' = PassOn(k, c)
<1>1. registry \in Registry
  BY DEF ObjectsTyped
<1>2. CASE skill[k] = Nothing
  BY <1>1, <1>2 DEF BeginSkill
<1>3. CASE skill[k] # Nothing /\ skill[k].source # FromPackage
  BY <1>1, <1>3 DEF BeginSkill
<1>4. CASE skill[k] # Nothing /\ skill[k].source = FromPackage
  <2>1. PICK f \in Fetches : /\ skillPass' = PassOn(k, f.text)
                             /\ registry' = [registry EXCEPT !.cached = f.cached]
    BY <1>4 DEF BeginSkill
  <2>2. Contents(k) = registry.ever \cup {Nothing}
    BY <1>4, SourceAssumption DEF Contents
  <2>3. QED
    BY <1>1, <1>4, <2>1, <2>2, FetchTyped
<1>5. QED
  BY <1>2, <1>3, <1>4

\* The pass of a Skill keeps the types.
LEMMA SkillStepTyped ==
    ASSUME TypeInv, (\E k \in SkillName : BeginSkill(k)) \/ EndSkill
    PROVE  TypeInv'
<1> USE DEF objects, passes
<1>1. /\ ObjectsTyped /\ QueueTyped /\ PassesTyped /\ PassesAlive
      /\ edits \in 0..MaxEdits
  BY DEF TypeInv
<1>2. ASSUME NEW k \in SkillName, BeginSkill(k) PROVE TypeInv'
  <2>1. QueueTyped'
    BY <1>1, <1>2, DequeueTyped DEF BeginSkill, QueueTyped, Events
  <2>2. /\ skillPass' \in SkillPass \cup {Nothing}
        /\ skillPass' # Nothing => skillPass'.key = k /\ skill[k] # Nothing
    <3>1. CASE skill[k] = Nothing
      BY <1>1, <1>2, <3>1, SkillBegins
    <3>2. CASE skill[k] # Nothing
      <4>1. k \in Existing(skill)
        BY <1>1, <1>2, <3>2 DEF Existing, ObjectsTyped
      <4>2. PICK c \in Text \cup {Nothing} : skillPass' = PassOn(k, c)
        BY <1>1, <1>2, <3>2, <4>1, PassTypes, SkillBegins
      <4>3. References(k) \subseteq Workstation
        BY <1>1, PassTypes
      <4>4. QED
        BY <3>2, <4>2, <4>3 DEF PassOn, SkillPass
    <3>3. QED
      BY <3>1, <3>2
  <2>3. PassesAlive'
    BY <1>1, <1>2, <2>2 DEF BeginSkill, PassesAlive
  <2>4. UNCHANGED <<objects, bindingPass, wsPass, edits>> /\ registry' \in Registry
    BY <1>1, <1>2, SkillBegins DEF BeginSkill
  <2>5. QED
    BY <1>1, <2>1, <2>2, <2>3, <2>4 DEF TypeInv, ObjectsTyped, PassesTyped
<1>3. CASE EndSkill
  <2>1. skillPass \in SkillPass /\ skillPass.key \in SkillName
    BY <1>1, <1>3 DEF EndSkill, PassesTyped, SkillPass
  <2> DEFINE k == skillPass.key
             new == [skill[k] EXCEPT !.hash = skillPass.hash, !.refs = skillPass.refs]
  <2>2. QueueTyped'
    <3>1. CASE skillPass.fresh
      <4>1. PICK e \in Events : Enqueue(e)
        BY <1>1, <1>3, <2>1, <3>1, EventTypes DEF EndSkill
      <4>2. QED
        BY <1>1, <4>1, EnqueueTyped
    <3>2. CASE ~skillPass.fresh
      BY <1>1, <1>3, <2>1, <3>2 DEF EndSkill, QueueTyped
    <3>3. QED
      BY <3>1, <3>2
  <2>3. skill' \in [SkillName -> SkillObject \cup {Nothing}]
    <3>1. CASE skillPass.fresh
      <4>1. skill[k] \in SkillObject
        BY <1>1, <1>3, <2>1, <3>1 DEF ObjectsTyped, PassesAlive, EndSkill
      <4>2. new \in SkillObject
        BY <2>1, <4>1 DEF SkillObject, SkillPass
      <4>3. skill' = [skill EXCEPT ![k] = new]
        BY <1>3, <3>1 DEF EndSkill
      <4>4. QED
        BY <1>1, <2>1, <4>2, <4>3 DEF ObjectsTyped
    <3>2. CASE ~skillPass.fresh
      BY <1>1, <1>3, <3>2 DEF EndSkill, ObjectsTyped
    <3>3. QED
      BY <3>1, <3>2
  <2>4. skillPass' = Nothing /\ UNCHANGED <<ws, binding, map, registry, bindingPass, wsPass, edits>>
    BY <1>3 DEF EndSkill
  <2>5. QED
    BY <1>1, <2>2, <2>3, <2>4 DEF TypeInv, ObjectsTyped, PassesTyped, PassesAlive
<1>4. QED
  BY <1>2, <1>3

\* The pass of a SkillBinding keeps the types.
LEMMA BindingStepTyped ==
    ASSUME TypeInv, (\E b \in Binding : BeginBinding(b)) \/ EndBinding
    PROVE  TypeInv'
<1> USE DEF objects, passes
<1>1. /\ ObjectsTyped /\ QueueTyped /\ PassesTyped /\ PassesAlive
      /\ edits \in 0..MaxEdits
  BY DEF TypeInv
<1>2. ASSUME NEW b \in Binding, BeginBinding(b) PROVE TypeInv'
  <2>1. QueueTyped'
    BY <1>1, <1>2, DequeueTyped DEF BeginBinding, QueueTyped, Events
  <2>2. /\ bindingPass' \in BindingPass \cup {Nothing}
        /\ bindingPass' # Nothing => bindingPass'.key = b /\ binding[b] # Nothing
    <3>1. CASE binding[b] = Nothing
      BY <1>2, <3>1 DEF BeginBinding
    <3>2. CASE binding[b] # Nothing
      <4>1. b \in Existing(binding)
        BY <1>1, <1>2, <3>2 DEF Existing, ObjectsTyped
      <4>2. /\ Subjects(b) \subseteq Workstation
            /\ Verdict(b) \in Pin \X (Version \cup {Nothing})
            /\ Conflicts(b) \subseteq Workstation \X Binding
        BY <1>1, <4>1, PassTypes
      <4>3. QED
        BY <1>2, <3>2, <4>2 DEF BeginBinding, BindingPass
    <3>3. QED
      BY <3>1, <3>2
  <2>3. PassesAlive'
    BY <1>1, <1>2, <2>2 DEF BeginBinding, PassesAlive
  <2>4. QED
    BY <1>1, <1>2, <2>1, <2>2, <2>3 DEF BeginBinding, TypeInv, ObjectsTyped, PassesTyped
<1>3. CASE EndBinding
  <2>1. bindingPass \in BindingPass /\ bindingPass.key \in Binding
    BY <1>1, <1>3 DEF EndBinding, PassesTyped, BindingPass
  <2> DEFINE b == bindingPass.key
             new == [binding[b] EXCEPT !.applied = bindingPass.applied,
                                       !.verdict = bindingPass.verdict,
                                       !.conflicts = bindingPass.conflicts]
  <2>2. CASE bindingPass.fresh
    <3>1. binding[b] \in BindingObject
      BY <1>1, <1>3, <2>1, <2>2 DEF ObjectsTyped, PassesAlive, EndBinding
    <3>2. new \in BindingObject
      BY <2>1, <3>1 DEF BindingObject, BindingPass
    <3>3. binding' = [binding EXCEPT ![b] = new]
      BY <1>3, <2>2 DEF EndBinding
    <3>4. binding' \in [Binding -> BindingObject \cup {Nothing}]
      BY <1>1, <2>1, <3>2, <3>3 DEF ObjectsTyped
    <3>5. \E e \in Events : Enqueue(e)
      <4>1. OnBinding(b, binding[b], new) \in Events /\ NoEvent \in Events
        BY <1>1, <2>1, <3>1, <3>2, EventTypes
      <4>2. QED
        BY <1>3, <2>2, <4>1 DEF EndBinding
    <3>6. QueueTyped'
      BY <1>1, <3>5, EnqueueTyped
    <3>7. bindingPass' = Nothing /\ UNCHANGED <<ws, skill, map, registry, skillPass, wsPass, edits>>
      BY <1>3 DEF EndBinding
    <3>8. QED
      BY <1>1, <3>4, <3>6, <3>7 DEF TypeInv, ObjectsTyped, PassesTyped, PassesAlive
  <2>3. CASE ~bindingPass.fresh
    <3>1. QueueTyped'
      BY <1>1, <1>3, <2>1, <2>3 DEF EndBinding, QueueTyped
    <3>2. /\ bindingPass' = Nothing
          /\ UNCHANGED <<ws, skill, binding, map, registry, skillPass, wsPass, edits>>
      BY <1>3, <2>3 DEF EndBinding
    <3>3. QED
      BY <1>1, <3>1, <3>2 DEF TypeInv, ObjectsTyped, PassesTyped, PassesAlive
  <2>4. QED
    BY <2>2, <2>3
<1>4. QED
  BY <1>2, <1>3

\* The bindings a step writes.
Changed == {b \in Binding : binding'[b] # binding[b]}

\* Nothing leaves a queue, and those concerned by a binding that was written
\* get into one: itself, and the Skills it is and was of.
Told ==
    /\ queue.skill \subseteq queue'.skill /\ queue.binding \subseteq queue'.binding
    /\ Changed \subseteq queue'.binding
    /\ \A b \in Changed :
          /\ binding[b] # Nothing => binding[b].skill \in queue'.skill
          /\ binding'[b] # Nothing => binding'[b].skill \in queue'.skill

\* The event of one binding tells those concerned.
LEMMA ToldByEvent ==
    ASSUME QueueTyped, NEW e \in Events, Enqueue(e),
           \A b \in Changed :
              /\ OnBinding(b, binding[b], binding'[b]).skill \subseteq e.skill
              /\ OnBinding(b, binding[b], binding'[b]).binding \subseteq e.binding
    PROVE  Told
<1>1. /\ queue'.skill = queue.skill \cup e.skill
      /\ queue'.binding = queue.binding \cup e.binding
  BY EnqueueTyped
<1>2. ASSUME NEW b \in Changed
      PROVE  /\ b \in e.binding
             /\ binding[b] # Nothing => binding[b].skill \in e.skill
             /\ binding'[b] # Nothing => binding'[b].skill \in e.skill
  BY DEF OnBinding
<1>3. QED
  BY <1>1, <1>2 DEF Told

\* The pass of a workstation writes bindings of the type, tells those concerned
\* and spoils the pass of a binding that it changes.
LEMMA WsStepTyped ==
    ASSUME TypeInv, EndWs
    PROVE  TypeInv' /\ Told /\ BindingsTouched(Changed)
<1>1. /\ ObjectsTyped /\ QueueTyped /\ PassesTyped /\ PassesAlive
      /\ edits \in 0..MaxEdits
  BY DEF TypeInv
<1>2. /\ wsPass \in WsPass /\ wsPass.key \in Workstation /\ wsPass.owned \subseteq Binding
      /\ wsPass.wanted \subseteq SkillName /\ wsPass.wanted \subseteq DOMAIN wsPass.refs
  BY <1>1 DEF EndWs, PassesTyped, WsPass
<1> DEFINE nm(k) == NameOf[<<wsPass.key, k>>]
<1>3. PICK done \in SUBSET wsPass.wanted, gone \in SUBSET Binding :
         /\ binding' = [b \in Binding |->
                           IF b \in gone THEN Nothing
                           ELSE IF \E k \in done : nm(k) = b
                           THEN Upserted(b, CHOOSE k \in done : nm(k) = b)
                           ELSE binding[b]]
         /\ BindingsTouched(Changed)
         /\ Enqueue([q \in DOMAIN NoEvent |->
               UNION {OnBinding(b, binding[b], binding'[b])[q] : b \in Changed}])
  <2>1. \A done : Drift(done) \subseteq Binding
    BY <1>2 DEF Drift
  <2>2. PICK done \in SUBSET {k \in wsPass.wanted : ~Blocked(wsPass.key, k)} :
          LET gone == IF done = wsPass.wanted THEN Drift(done) ELSE {}
              after == [b \in Binding |->
                           IF b \in gone THEN Nothing
                           ELSE IF \E k \in done : nm(k) = b
                           THEN Upserted(b, CHOOSE k \in done : nm(k) = b)
                           ELSE binding[b]]
              changed == {b \in Binding : after[b] # binding[b]}
              events == [b \in changed |-> OnBinding(b, binding[b], after[b])]
          IN /\ binding' = after
             /\ BindingsTouched(changed)
             /\ Enqueue([q \in DOMAIN NoEvent |->
                            UNION {events[b][q] : b \in changed}])
    BY DEF EndWs
  <2> DEFINE gone == IF done = wsPass.wanted THEN Drift(done) ELSE {}
  <2>3. gone \in SUBSET Binding /\ done \in SUBSET wsPass.wanted
    BY <2>1
  <2>4. BindingsTouched(Changed)
    BY <2>2 DEF Changed
  <2>5. \A q :
           UNION {[c \in Changed |-> OnBinding(c, binding[c], binding'[c])][b][q] :
                    b \in Changed}
           = UNION {OnBinding(b, binding[b], binding'[b])[q] : b \in Changed}
    OBVIOUS
  <2>6. Enqueue([q \in DOMAIN NoEvent |->
               UNION {OnBinding(b, binding[b], binding'[b])[q] : b \in Changed}])
    BY <2>2, <2>5 DEF Changed
  <2>7. QED
    BY <2>2, <2>3, <2>4, <2>6
<1>4. binding' \in [Binding -> BindingObject \cup {Nothing}]
  <2> SUFFICES ASSUME NEW b \in Binding
               PROVE  /\ b \in gone \/ (\E k \in done : nm(k) = b) \/ binding'[b] = binding[b]
                      /\ binding'[b] \in BindingObject \cup {Nothing}
    BY <1>3
  <2>1. CASE b \in gone
    BY <1>3, <2>1
  <2>2. CASE b \notin gone /\ \E k \in done : nm(k) = b
    <3> DEFINE k == CHOOSE k \in done : nm(k) = b
    <3>1. k \in done
      BY <2>2
    <3>2. k \in SkillName /\ k \in DOMAIN wsPass.refs
      BY <1>2, <1>3, <3>1
    <3>3. binding'[b] = Upserted(b, k)
      BY <1>3, <2>2
    <3> HIDE DEF k
    <3>4. Upserted(b, k) \in BindingObject
      BY <1>1, <1>2, <3>2, BindingTypes, BindingAssumption, NothingAssumption
    <3>5. QED
      BY <2>2, <3>3, <3>4
  <2>3. CASE b \notin gone /\ ~\E k \in done : nm(k) = b
    BY <1>1, <1>3, <2>3 DEF ObjectsTyped
  <2>4. QED
    BY <2>1, <2>2, <2>3
<1> DEFINE e == [q \in DOMAIN NoEvent |->
                   UNION {OnBinding(b, binding[b], binding'[b])[q] : b \in Changed}]
<1>5. \A b \in Changed : OnBinding(b, binding[b], binding'[b]) \in Events
  BY <1>1, <1>4, EventTypes DEF Changed, ObjectsTyped
<1>6. e = [q \in {"skill", "binding", "ws"} |->
             UNION {OnBinding(b, binding[b], binding'[b])[q] : b \in Changed}]
  BY DEF NoEvent
<1>7. /\ e.skill = UNION {OnBinding(b, binding[b], binding'[b]).skill : b \in Changed}
      /\ e.binding = UNION {OnBinding(b, binding[b], binding'[b]).binding : b \in Changed}
      /\ e.ws = UNION {OnBinding(b, binding[b], binding'[b]).ws : b \in Changed}
      /\ e = [skill |-> e.skill, binding |-> e.binding, ws |-> e.ws]
  <2> DEFINE u(q) == UNION {OnBinding(b, binding[b], binding'[b])[q] : b \in Changed}
  <2>1. e = [q \in {"skill", "binding", "ws"} |-> u(q)]
    BY <1>6
  <2>2. /\ u("skill") = UNION {OnBinding(b, binding[b], binding'[b]).skill : b \in Changed}
        /\ u("binding") = UNION {OnBinding(b, binding[b], binding'[b]).binding : b \in Changed}
        /\ u("ws") = UNION {OnBinding(b, binding[b], binding'[b]).ws : b \in Changed}
    BY DEF OnBinding
  <2> HIDE DEF u, e
  <2>3. /\ e.skill = u("skill") /\ e.binding = u("binding") /\ e.ws = u("ws")
        /\ e = [skill |-> e.skill, binding |-> e.binding, ws |-> e.ws]
    BY <2>1
  <2>4. QED
    BY <2>2, <2>3
<1>8. Enqueue(e)
  BY <1>3
<1> HIDE DEF e
<1>9. e \in Events
  <2>1. e.skill \subseteq SkillName /\ e.binding \subseteq Binding /\ e.ws \subseteq Workstation
    BY <1>5, <1>7 DEF Events
  <2>2. QED
    BY <1>7, <2>1 DEF Events
<1>10. \A b \in Changed :
          /\ OnBinding(b, binding[b], binding'[b]).skill \subseteq e.skill
          /\ OnBinding(b, binding[b], binding'[b]).binding \subseteq e.binding
  BY <1>7
<1>11. Told /\ QueueTyped'
  BY <1>1, <1>8, <1>9, <1>10, ToldByEvent, EnqueueTyped
<1>12. /\ wsPass' = Nothing /\ UNCHANGED <<ws, skill, map, registry, skillPass, edits>>
  BY DEF EndWs
<1>13. /\ bindingPass' \in BindingPass \cup {Nothing}
       /\ bindingPass' # Nothing /\ bindingPass'.fresh => binding'[bindingPass'.key] # Nothing
  <2>1. bindingPass # Nothing => bindingPass.key \in Binding
    BY <1>1 DEF PassesTyped, BindingPass
  <2>2. bindingPass # Nothing /\ bindingPass.key \notin Changed =>
           binding'[bindingPass.key] = binding[bindingPass.key]
    BY <2>1 DEF Changed
  <2>3. QED
    BY <1>1, <1>3, <2>2, TouchedTyped DEF PassesAlive
<1>14. QED
  BY <1>1, <1>3, <1>4, <1>11, <1>12, <1>13
  DEF TypeInv, ObjectsTyped, PassesTyped, PassesAlive

-----------------------------------------------------------------------------
(* 2. Who is told of a step                                                *)

\* A binding that is not put into its queue is as it was, and so is all that
\* its status is computed from, and the pass on it.
BindingsTold ==
    /\ queue.binding \subseteq queue'.binding /\ Changed \subseteq queue'.binding
    /\ \/ bindingPass' = bindingPass
       \/ /\ bindingPass # Nothing /\ bindingPass' # Nothing
          /\ bindingPass'.key = bindingPass.key /\ bindingPass.key \in queue'.binding
    /\ ws' = ws \/ Existing(binding) \subseteq queue'.binding
    /\ \A k \in SkillName :
          skill'[k] = skill[k] \/ BindingsOf(k) \subseteq queue'.binding

\* The same for Skills.  A binding matters to its Skill by what its status says.
SkillsTold ==
    /\ queue.skill \subseteq queue'.skill
    /\ \/ map' = map
       \/ \A k \in Existing(skill) : skill[k].source = FromMap => k \in queue'.skill
    /\ registry.ever \subseteq registry'.ever
    /\ \/ skillPass' = skillPass
       \/ /\ skillPass # Nothing /\ skillPass' # Nothing
          /\ skillPass'.key = skillPass.key /\ skillPass.key \in queue'.skill
    /\ \A k \in SkillName : skill'[k] = skill[k] \/ k \in queue'.skill
    /\ \A b \in Binding : binding'[b] # Nothing =>
          \/ binding'[b].skill \in queue'.skill
          \/ /\ binding[b] # Nothing /\ binding'[b].skill = binding[b].skill
             /\ binding'[b].applied = binding[b].applied

\* What one write of one binding does: EndBinding, EditBinding and Collect.
LEMMA BindingWritten ==
    ASSUME ObjectsTyped, QueueTyped, NEW b \in Binding,
           NEW n \in BindingObject \cup {Nothing}, n # binding[b],
           binding' = [binding EXCEPT ![b] = n],
           Enqueue(OnBinding(b, binding[b], n))
    PROVE  /\ QueueTyped' /\ Changed = {b} /\ Told
           /\ binding' \in [Binding -> BindingObject \cup {Nothing}]
<1>1. binding' \in [Binding -> BindingObject \cup {Nothing}]
  BY DEF ObjectsTyped
<1>2. /\ Changed = {b} /\ binding'[b] = n
  BY DEF ObjectsTyped, Changed
<1>3. OnBinding(b, binding[b], n) \in Events
  BY EventTypes DEF ObjectsTyped
<1>4. QueueTyped'
  BY <1>3, EnqueueTyped
<1>5. \A c \in Changed :
         /\ OnBinding(c, binding[c], binding'[c]).skill
              \subseteq OnBinding(b, binding[b], n).skill
         /\ OnBinding(c, binding[c], binding'[c]).binding
              \subseteq OnBinding(b, binding[b], n).binding
  BY <1>2
<1>6. Told
  BY <1>3, <1>5, ToldByEvent
<1>7. QED
  BY <1>1, <1>2, <1>4, <1>6

\* Told is all the Skills need when nothing else is written.
LEMMA ToldSkills ==
    ASSUME ObjectsTyped, ObjectsTyped', Told, UNCHANGED <<skill, map, registry, skillPass>>
    PROVE  SkillsTold
<1>1. ASSUME NEW b \in Binding, binding'[b] # Nothing
      PROVE  \/ binding'[b].skill \in queue'.skill
             \/ /\ binding[b] # Nothing /\ binding'[b].skill = binding[b].skill
                /\ binding'[b].applied = binding[b].applied
  BY <1>1 DEF Told, Changed
<1>2. QED
  BY <1>1 DEF SkillsTold, Told

\* And the bindings, when the pass on a binding that is written is spoilt.
LEMMA ToldBindings ==
    ASSUME PassesTyped, Told, BindingsTouched(Changed), UNCHANGED <<ws, skill>>
    PROVE  BindingsTold
<1>1. CASE bindingPass # Nothing /\ bindingPass.key \in Changed
  BY <1>1, TouchedTyped DEF BindingsTold, Told
<1>2. CASE ~(bindingPass # Nothing /\ bindingPass.key \in Changed)
  BY <1>2 DEF BindingsTold, Told, BindingsTouched
<1>3. QED
  BY <1>1, <1>2

\* The pass of a Skill writes what no binding looks at, or tells its bindings.
LEMMA SkillStepTold ==
    ASSUME TypeInv, (\E k \in SkillName : BeginSkill(k)) \/ EndSkill
    PROVE  BindingsTold
<1> USE DEF objects, passes
<1>1. ObjectsTyped /\ QueueTyped /\ PassesTyped /\ PassesAlive
  BY DEF TypeInv
<1>2. ASSUME NEW k \in SkillName, BeginSkill(k) PROVE BindingsTold
  BY <1>1, <1>2 DEF BeginSkill, BindingsTold, Changed, QueueTyped
<1>3. CASE EndSkill
  <2>1. skillPass.key \in SkillName
    BY <1>1, <1>3 DEF EndSkill, PassesTyped, SkillPass
  <2> DEFINE k == skillPass.key
             new == [skill[k] EXCEPT !.hash = skillPass.hash, !.refs = skillPass.refs]
  <2>2. UNCHANGED <<ws, binding, map, registry, bindingPass, wsPass, edits>> /\ Changed = {}
    BY <1>3 DEF EndSkill, Changed
  <2>3. CASE ~skillPass.fresh
    BY <1>1, <1>3, <2>2, <2>3 DEF EndSkill, BindingsTold, QueueTyped
  <2>4. CASE skillPass.fresh /\ new = skill[k]
    <3>1. skill' = skill
      BY <1>1, <1>3, <2>1, <2>4 DEF EndSkill, ObjectsTyped
    <3>2. Enqueue(NoEvent) /\ NoEvent \in Events
      BY <1>1, <1>3, <2>4, EventTypes DEF EndSkill
    <3>3. queue.binding \subseteq queue'.binding
      BY <1>1, <3>2, EnqueueTyped
    <3>4. QED
      BY <2>2, <3>1, <3>3 DEF BindingsTold
  <2>5. CASE skillPass.fresh /\ new # skill[k]
    <3>1. skill' = [skill EXCEPT ![k] = new]
      BY <1>3, <2>5 DEF EndSkill
    <3>2. Enqueue(OnSkill(k)) /\ OnSkill(k) \in Events
      BY <1>1, <1>3, <2>1, <2>5, EventTypes DEF EndSkill
    <3>3. queue'.binding = queue.binding \cup BindingsOf(k)
      BY <1>1, <3>2, EnqueueTyped DEF OnSkill
    <3>4. \A j \in SkillName : j # k => skill'[j] = skill[j]
      BY <1>1, <3>1 DEF ObjectsTyped
    <3>5. QED
      BY <2>2, <3>3, <3>4 DEF BindingsTold
  <2>6. QED
    BY <2>3, <2>4, <2>5
<1>4. QED
  BY <1>2, <1>3

\* The pass of a SkillBinding tells its Skill when it writes.
LEMMA BindingStepTold ==
    ASSUME TypeInv, (\E b \in Binding : BeginBinding(b)) \/ EndBinding
    PROVE  SkillsTold
<1> USE DEF objects, passes
<1>1. ObjectsTyped /\ QueueTyped /\ PassesTyped /\ PassesAlive
  BY DEF TypeInv
<1>2. ASSUME NEW b \in Binding, BeginBinding(b) PROVE SkillsTold
  BY <1>1, <1>2 DEF BeginBinding, SkillsTold, QueueTyped
<1>3. CASE EndBinding
  <2>1. bindingPass \in BindingPass /\ bindingPass.key \in Binding
    BY <1>1, <1>3 DEF EndBinding, PassesTyped, BindingPass
  <2> DEFINE b == bindingPass.key
             new == [binding[b] EXCEPT !.applied = bindingPass.applied,
                                       !.verdict = bindingPass.verdict,
                                       !.conflicts = bindingPass.conflicts]
  <2>2. UNCHANGED <<ws, skill, map, registry, skillPass, wsPass, edits>>
    BY <1>3 DEF EndBinding
  <2>3. CASE ~bindingPass.fresh
    BY <1>1, <1>3, <2>2, <2>3 DEF EndBinding, SkillsTold, QueueTyped
  <2>4. CASE bindingPass.fresh /\ new = binding[b]
    <3>1. binding' = binding
      BY <1>1, <1>3, <2>1, <2>4 DEF EndBinding, ObjectsTyped
    <3>2. Enqueue(NoEvent) /\ NoEvent \in Events
      BY <1>1, <1>3, <2>4, EventTypes DEF EndBinding
    <3>3. queue.skill \subseteq queue'.skill
      BY <1>1, <3>2, EnqueueTyped
    <3>4. QED
      BY <2>2, <3>1, <3>3 DEF SkillsTold
  <2>5. CASE bindingPass.fresh /\ new # binding[b]
    <3>1. binding[b] \in BindingObject
      BY <1>1, <1>3, <2>1, <2>5 DEF ObjectsTyped, PassesAlive, EndBinding
    <3>2. new \in BindingObject
      BY <2>1, <3>1 DEF BindingObject, BindingPass
    <3>3. binding' = [binding EXCEPT ![b] = new] /\ Enqueue(OnBinding(b, binding[b], new))
      BY <1>3, <2>5 DEF EndBinding
    <3> HIDE DEF new
    <3>4. Told /\ binding' \in [Binding -> BindingObject \cup {Nothing}]
      BY <1>1, <2>1, <2>5, <3>2, <3>3, BindingWritten
    <3>5. ObjectsTyped'
      BY <1>1, <2>2, <3>4 DEF ObjectsTyped
    <3>6. QED
      BY <1>1, <2>2, <3>4, <3>5, ToldSkills
  <2>6. QED
    BY <2>3, <2>4, <2>5
<1>4. QED
  BY <1>2, <1>3

\* The begin of a workstation's pass, and its timer.
LEMMA WsBeginTold ==
    ASSUME TypeInv, \E a \in Workstation : BeginWs(a) \/ Timer(a)
    PROVE  TypeInv' /\ BindingsTold /\ SkillsTold
<1> USE DEF objects, passes
<1>1. /\ ObjectsTyped /\ QueueTyped /\ PassesTyped /\ PassesAlive
      /\ edits \in 0..MaxEdits
  BY DEF TypeInv
<1>2. ASSUME NEW a \in Workstation, BeginWs(a)
      PROVE  TypeInv' /\ BindingsTold /\ SkillsTold
  <2>1. QueueTyped'
    BY <1>1, <1>2, DequeueTyped DEF BeginWs, QueueTyped, Events
  <2>2. /\ wsPass' \in WsPass \cup {Nothing}
        /\ wsPass' # Nothing => wsPass'.wanted \subseteq DOMAIN wsPass'.refs
    <3>1. CASE ws[a] = Nothing
      BY <1>2, <3>1 DEF BeginWs
    <3>2. CASE ws[a] # Nothing
      <4> DEFINE owned == {b \in Existing(binding) : binding[b].owner = a}
                 wanted == DOMAIN ws[a].refs \cap Existing(skill)
      <4>1. ws[a] \in WsSpec
        BY <1>1, <3>2 DEF ObjectsTyped
      <4>2. ws[a].refs \in UNION {[K -> Pin] : K \in SUBSET SkillName}
        BY <4>1, BindingAssumption DEF BindingAssumption
      <4>3. owned \subseteq Binding /\ wanted \subseteq SkillName
        BY <1>1 DEF ObjectsTyped, Existing
      <4>4. wsPass' = [key |-> a, alive |-> TRUE, refs |-> ws[a].refs,
                       wanted |-> wanted, owned |-> owned]
        BY <1>2, <3>2 DEF BeginWs
      <4> HIDE DEF owned
      <4>5. wsPass' \in WsPass
        BY <4>2, <4>3, <4>4 DEF WsPass
      <4>6. QED
        BY <4>4, <4>5
    <3>3. QED
      BY <3>1, <3>2
  <2>3. TypeInv'
    BY <1>1, <1>2, <2>1, <2>2 DEF BeginWs, TypeInv, ObjectsTyped, PassesTyped, PassesAlive
  <2>4. BindingsTold /\ SkillsTold
    BY <1>1, <1>2 DEF BeginWs, BindingsTold, SkillsTold, Changed, QueueTyped
  <2>5. QED
    BY <2>3, <2>4
<1>3. ASSUME NEW a \in Workstation, Timer(a)
      PROVE  TypeInv' /\ BindingsTold /\ SkillsTold
  <2>1. QueueTyped'
    BY <1>1, <1>3 DEF Timer, QueueTyped
  <2>2. TypeInv'
    BY <1>1, <1>3, <2>1 DEF Timer, TypeInv, ObjectsTyped, PassesTyped, PassesAlive
  <2>3. BindingsTold /\ SkillsTold
    BY <1>1, <1>3 DEF Timer, BindingsTold, SkillsTold, Changed, QueueTyped
  <2>4. QED
    BY <2>2, <2>3
<1>4. QED
  BY <1>2, <1>3

\* The end of a workstation's pass.
LEMMA WsEndTold ==
    ASSUME TypeInv, EndWs
    PROVE  TypeInv' /\ BindingsTold /\ SkillsTold
<1>1. TypeInv' /\ Told /\ BindingsTouched(Changed)
  BY WsStepTyped
<1>2. UNCHANGED <<ws, skill, map, registry, skillPass>>
  BY DEF EndWs
<1>3. QED
  BY <1>1, <1>2, ToldBindings, ToldSkills DEF TypeInv

\* A Skill is created, edited or deleted.
LEMMA EditSkillTold ==
    ASSUME TypeInv, NEW k \in SkillName, EditSkill(k)
    PROVE  TypeInv' /\ BindingsTold /\ SkillsTold
<1>1. /\ ObjectsTyped /\ QueueTyped /\ PassesTyped /\ PassesAlive
      /\ edits \in 0..MaxEdits
  BY DEF TypeInv
<1>2. /\ UNCHANGED <<ws, binding, map, registry, bindingPass, wsPass>> /\ edits' \in 0..MaxEdits
  BY <1>1, EditTyped DEF EditSkill
<1>3. PICK n \in SkillObject \cup {Nothing} : skill' = [skill EXCEPT ![k] = n]
  <2>1. PICK s \in SkillSpec \cup {Nothing} :
           skill' = [skill EXCEPT ![k] =
                        IF s = Nothing THEN Nothing
                        ELSE IF @ = Nothing THEN NewSkill(s)
                        ELSE [@ EXCEPT !.version = s.version, !.source = s.source]]
    BY DEF EditSkill
  <2>2. s \in SkillSpec => NewSkill(s) \in SkillObject
    BY BindingAssumption DEF BindingAssumption, NewSkill, SkillObject
  <2>3. s \in SkillSpec /\ skill[k] # Nothing =>
           [skill[k] EXCEPT !.version = s.version, !.source = s.source] \in SkillObject
    BY <1>1, BindingAssumption DEF BindingAssumption, ObjectsTyped, SkillObject
  <2>4. QED
    BY <1>1, <2>1, <2>2, <2>3 DEF ObjectsTyped
<1>4. ObjectsTyped' /\ \A j \in SkillName : j # k => skill'[j] = skill[j]
  BY <1>1, <1>2, <1>3 DEF ObjectsTyped
<1>5. /\ QueueTyped'
      /\ queue'.skill = queue.skill \cup {k}
      /\ queue'.binding = queue.binding \cup BindingsOf(k)
  <2>1. Enqueue(OnSkill(k)) /\ OnSkill(k) \in Events
    BY <1>1, EventTypes DEF EditSkill
  <2>2. QED
    BY <1>1, <2>1, EnqueueTyped DEF OnSkill
<1>6. /\ skillPass' \in SkillPass \cup {Nothing}
      /\ \/ skillPass' = skillPass /\ (skillPass = Nothing \/ skillPass.key # k)
         \/ /\ skillPass # Nothing /\ skillPass' # Nothing /\ ~skillPass'.fresh
            /\ skillPass'.key = skillPass.key /\ skillPass.key = k
  <2>1. CASE skillPass # Nothing /\ skillPass.key = k
    <3>1. skillPass \in SkillPass /\ skillPass' = [skillPass EXCEPT !.fresh = FALSE]
      BY <1>1, <2>1 DEF EditSkill, PassesTyped
    <3>2. /\ skillPass' \in SkillPass /\ ~skillPass'.fresh
          /\ skillPass'.key = skillPass.key
      BY <3>1 DEF SkillPass
    <3>3. QED
      BY <2>1, <3>2, NothingAssumption DEF NothingAssumption
  <2>2. CASE ~(skillPass # Nothing /\ skillPass.key = k)
    <3>1. skillPass' = skillPass
      BY <2>2 DEF EditSkill
    <3>2. QED
      BY <1>1, <2>2, <3>1 DEF PassesTyped
  <2>3. QED
    BY <2>1, <2>2
<1>7. PassesTyped' /\ PassesAlive'
  <2>1. skillPass # Nothing => skillPass.key \in SkillName
    BY <1>1 DEF PassesTyped, SkillPass
  <2>2. QED
    BY <1>1, <1>2, <1>4, <1>6, <2>1 DEF PassesTyped, PassesAlive
<1>8. BindingsTold /\ SkillsTold
  <2>1. Changed = {}
    BY <1>2 DEF Changed
  <2>2. BindingsTold
    BY <1>2, <1>4, <1>5, <2>1 DEF BindingsTold
  <2>3. SkillsTold
    BY <1>2, <1>4, <1>5, <1>6 DEF SkillsTold
  <2>4. QED
    BY <2>2, <2>3
<1>9. QED
  BY <1>2, <1>4, <1>5, <1>7, <1>8 DEF TypeInv

\* The ConfigMap is written or deleted.
LEMMA EditMapTold ==
    ASSUME TypeInv, EditMap
    PROVE  TypeInv' /\ BindingsTold /\ SkillsTold
<1> USE DEF passes
<1>1. /\ ObjectsTyped /\ QueueTyped /\ PassesTyped /\ PassesAlive
      /\ edits \in 0..MaxEdits
  BY DEF TypeInv
<1>2. /\ UNCHANGED <<ws, skill, binding, registry, passes>> /\ edits' \in 0..MaxEdits
      /\ map' \in Text \cup {Nothing}
  BY <1>1, EditTyped DEF EditMap
<1> DEFINE K == {k \in Existing(skill) : skill[k].source = FromMap}
           e == [NoEvent EXCEPT !.skill = K]
<1>3. K \subseteq SkillName
  BY <1>1 DEF Existing, ObjectsTyped
<1>4. Enqueue(e)
  BY DEF EditMap
<1> HIDE DEF K
<1>5. e = [skill |-> K, binding |-> {}, ws |-> {}]
  BY DEF NoEvent
<1> HIDE DEF e
<1>6. e \in Events /\ e.skill = K
  BY <1>3, <1>5 DEF Events
<1>7. QueueTyped' /\ queue'.skill = queue.skill \cup K /\ queue.binding \subseteq queue'.binding
  BY <1>1, <1>4, <1>6, EnqueueTyped
<1>8. BindingsTold
  BY <1>2, <1>7 DEF BindingsTold, Changed
<1>9. SkillsTold
  BY <1>2, <1>7 DEF SkillsTold, K
<1>10. TypeInv'
  BY <1>1, <1>2, <1>7 DEF TypeInv, ObjectsTyped, PassesTyped, PassesAlive
<1>11. QED
  BY <1>8, <1>9, <1>10

\* The package is published, withdrawn or out of reach: nobody is told.
LEMMA EditPackageTold ==
    ASSUME TypeInv, EditPackage
    PROVE  TypeInv' /\ BindingsTold /\ SkillsTold
<1> USE DEF objects, passes
<1>1. /\ ObjectsTyped /\ QueueTyped /\ PassesTyped /\ PassesAlive
      /\ edits \in 0..MaxEdits /\ registry \in Registry
  BY DEF TypeInv, ObjectsTyped
<1>2. UNCHANGED <<objects, queue, passes>> /\ edits' \in 0..MaxEdits
  BY <1>1, EditTyped DEF EditPackage
<1>3. PICK c \in Text \cup {Nothing} :
         registry' = [registry EXCEPT !.now = c, !.ever = @ \cup ({c} \ {Nothing})]
  BY DEF EditPackage
<1>4. /\ registry'.now = c /\ registry'.cached = registry.cached
      /\ registry'.ever = registry.ever \cup ({c} \ {Nothing})
      /\ registry' = [now |-> registry'.now, ever |-> registry'.ever,
                      cached |-> registry'.cached]
  BY <1>1, <1>3 DEF Registry
<1>5. registry' \in Registry /\ registry.ever \subseteq registry'.ever
  BY <1>1, <1>4 DEF Registry
<1>6. TypeInv'
  BY <1>1, <1>2, <1>5 DEF TypeInv, ObjectsTyped, QueueTyped, PassesTyped, PassesAlive
<1>7. BindingsTold /\ SkillsTold
  BY <1>2, <1>5 DEF BindingsTold, SkillsTold, Changed
<1>8. QED
  BY <1>6, <1>7

\* One binding is written by a user or deleted by the garbage collector.
LEMMA BindingEditTold ==
    ASSUME TypeInv, NEW b \in Binding, EditBinding(b) \/ Collect(b)
    PROVE  TypeInv' /\ BindingsTold /\ SkillsTold
<1>1. /\ ObjectsTyped /\ QueueTyped /\ PassesTyped /\ PassesAlive
      /\ edits \in 0..MaxEdits
  BY DEF TypeInv
<1>2. /\ UNCHANGED <<ws, skill, map, registry, skillPass, wsPass>> /\ BindingsTouched({b})
      /\ edits' \in 0..MaxEdits
  BY <1>1, EditTyped DEF EditBinding, Collect
<1>3. PICK n \in BindingObject \cup {Nothing} :
         /\ n # binding[b] /\ binding' = [binding EXCEPT ![b] = n]
         /\ Enqueue(OnBinding(b, binding[b], n))
  <2>1. CASE Collect(b)
    BY <2>1 DEF Collect
  <2>2. CASE EditBinding(b)
    <3>1. PICK s \in BindingSpec \cup {Nothing} :
             LET new == IF s = Nothing THEN Nothing
                        ELSE IF binding[b] = Nothing THEN NewBinding(s)
                        ELSE [binding[b] EXCEPT !.skill = s.skill, !.pin = s.pin,
                                !.subjects = s.subjects, !.selector = s.selector]
             IN /\ IF binding[b] = Nothing THEN s # Nothing /\ b \in UserBinding
                   ELSE new # binding[b]
                /\ binding' = [binding EXCEPT ![b] = new]
                /\ Enqueue(OnBinding(b, binding[b], new))
      BY <2>2 DEF EditBinding
    <3> DEFINE new == IF s = Nothing THEN Nothing
                      ELSE IF binding[b] = Nothing THEN NewBinding(s)
                      ELSE [binding[b] EXCEPT !.skill = s.skill, !.pin = s.pin,
                              !.subjects = s.subjects, !.selector = s.selector]
    <3>2. s = Nothing => new = Nothing
      OBVIOUS
    <3>3. s # Nothing /\ binding[b] = Nothing => new \in BindingObject
      BY <1>1, BindingTypes, BindingAssumption, NothingAssumption
    <3>4. s # Nothing /\ binding[b] # Nothing => new \in BindingObject
      <4>1. binding[b] # Nothing => binding[b] \in BindingObject
        BY <1>1 DEF ObjectsTyped
      <4>2. QED
        BY <1>1, <4>1, BindingTypes, BindingAssumption, NothingAssumption
    <3>5. /\ binding' = [binding EXCEPT ![b] = new]
          /\ Enqueue(OnBinding(b, binding[b], new))
          /\ binding[b] = Nothing => s # Nothing
          /\ binding[b] # Nothing => new # binding[b]
      BY <3>1
    <3> HIDE DEF new
    <3>6. new # binding[b]
      BY <3>3, <3>5, NothingAssumption DEF NothingAssumption
    <3>7. QED
      BY <3>2, <3>3, <3>4, <3>5, <3>6
  <2>3. QED
    BY <2>1, <2>2
<1>4. /\ QueueTyped' /\ Changed = {b} /\ Told
      /\ binding' \in [Binding -> BindingObject \cup {Nothing}]
  BY <1>1, <1>3, BindingWritten
<1>5. ObjectsTyped'
  BY <1>1, <1>2, <1>4 DEF ObjectsTyped
<1>6. PassesTyped' /\ PassesAlive'
  <2>1. bindingPass # Nothing => bindingPass.key \in Binding
    BY <1>1 DEF PassesTyped, BindingPass
  <2>2. bindingPass # Nothing /\ bindingPass.key # b =>
           binding'[bindingPass.key] = binding[bindingPass.key]
    BY <1>4, <2>1 DEF Changed
  <2>3. /\ bindingPass' \in BindingPass \cup {Nothing}
        /\ bindingPass' # Nothing /\ bindingPass'.fresh =>
              binding'[bindingPass'.key] # Nothing
    BY <1>1, <1>2, <2>2, TouchedTyped DEF PassesAlive
  <2>4. QED
    BY <1>1, <1>2, <2>3 DEF PassesTyped, PassesAlive
<1>7. BindingsTold /\ SkillsTold
  BY <1>1, <1>2, <1>4, <1>5, ToldBindings, ToldSkills
<1>8. QED
  BY <1>2, <1>4, <1>5, <1>6, <1>7 DEF TypeInv

\* A workstation is created, edited or deleted.
LEMMA EditWsTold ==
    ASSUME TypeInv, NEW a \in Workstation, EditWs(a)
    PROVE  TypeInv' /\ BindingsTold /\ SkillsTold
<1>1. /\ ObjectsTyped /\ QueueTyped /\ PassesTyped /\ PassesAlive
      /\ edits \in 0..MaxEdits
  BY DEF TypeInv
<1>2. /\ UNCHANGED <<skill, map, registry, skillPass, bindingPass>> /\ edits' \in 0..MaxEdits
      /\ ws' \in [Workstation -> WsSpec \cup {Nothing}]
  BY <1>1, EditTyped DEF EditWs, ObjectsTyped
<1>3. PICK owned \in SUBSET Existing(binding) :
         binding' = [b \in Binding |->
                       IF b \in owned THEN [binding[b] EXCEPT !.orphan = TRUE]
                       ELSE binding[b]]
  <2> DEFINE owned == IF ws'[a] # Nothing THEN {}
                      ELSE {b \in Existing(binding) : binding[b].owner = a}
  <2>1. owned \in SUBSET Existing(binding)
    OBVIOUS
  <2>2. binding' = [b \in Binding |->
                       IF b \in owned THEN [binding[b] EXCEPT !.orphan = TRUE]
                       ELSE binding[b]]
    BY DEF EditWs
  <2>3. QED
    BY <2>1, <2>2
<1>4. ASSUME NEW b \in Binding
      PROVE  /\ binding[b] = Nothing => binding'[b] = Nothing
             /\ binding[b] # Nothing =>
                   /\ binding'[b] \in BindingObject /\ binding'[b] # Nothing
                   /\ binding'[b].skill = binding[b].skill
                   /\ binding'[b].applied = binding[b].applied
  <2>1. CASE b \in owned
    <3>1. binding[b] \in BindingObject /\ binding[b] # Nothing
      BY <1>1, <1>3, <2>1 DEF Existing, ObjectsTyped
    <3>2. binding'[b] = [binding[b] EXCEPT !.orphan = TRUE]
      BY <1>3, <2>1
    <3>3. /\ binding'[b] \in BindingObject
          /\ binding'[b].skill = binding[b].skill
          /\ binding'[b].applied = binding[b].applied
      BY <3>1, <3>2 DEF BindingObject
    <3>4. QED
      BY <3>1, <3>3, NothingAssumption DEF NothingAssumption
  <2>2. CASE b \notin owned
    BY <1>1, <1>3, <2>2 DEF ObjectsTyped
  <2>3. QED
    BY <2>1, <2>2
<1>5. ObjectsTyped'
  <2>1. \A b \in Binding : binding'[b] \in BindingObject \cup {Nothing}
    BY <1>4
  <2>2. binding' \in [Binding -> BindingObject \cup {Nothing}]
    BY <1>3, <2>1
  <2>3. QED
    BY <1>1, <1>2, <2>2 DEF ObjectsTyped
<1>6. /\ QueueTyped' /\ queue.skill \subseteq queue'.skill
      /\ queue'.binding = queue.binding \cup Existing(binding)
  <2>1. Enqueue(OnWorkstation(a)) /\ OnWorkstation(a) \in Events
    BY <1>1, EventTypes DEF EditWs
  <2>2. QED
    BY <1>1, <2>1, EnqueueTyped DEF OnWorkstation
<1>7. PassesTyped' /\ PassesAlive'
  <2>1. CASE wsPass # Nothing /\ wsPass.key = a /\ ws'[a] = Nothing
    <3>1. wsPass \in WsPass /\ wsPass' = [wsPass EXCEPT !.alive = FALSE]
      BY <1>1, <2>1 DEF EditWs, PassesTyped
    <3>2. wsPass' \in WsPass /\ wsPass'.wanted = wsPass.wanted /\ wsPass'.refs = wsPass.refs
      BY <3>1 DEF WsPass
    <3>3. PassesTyped'
      BY <1>1, <1>2, <2>1, <3>2 DEF PassesTyped
    <3>4. PassesAlive'
      BY <1>1, <1>2, <1>4 DEF PassesAlive, PassesTyped, BindingPass
    <3>5. QED
      BY <3>3, <3>4
  <2>2. CASE ~(wsPass # Nothing /\ wsPass.key = a /\ ws'[a] = Nothing)
    <3>1. wsPass' = wsPass
      BY <2>2 DEF EditWs
    <3>2. PassesAlive'
      BY <1>1, <1>2, <1>4 DEF PassesAlive, PassesTyped, BindingPass
    <3>3. QED
      BY <1>1, <1>2, <3>1, <3>2 DEF PassesTyped
  <2>3. QED
    BY <2>1, <2>2
<1>8. Changed \subseteq Existing(binding)
  BY <1>1, <1>4 DEF Changed, Existing, ObjectsTyped
<1>9. BindingsTold /\ SkillsTold
  <2>1. BindingsTold
    BY <1>2, <1>6, <1>8 DEF BindingsTold
  <2>2. SkillsTold
    BY <1>2, <1>4, <1>6 DEF SkillsTold
  <2>3. QED
    BY <2>1, <2>2
<1>10. QED
  BY <1>2, <1>5, <1>6, <1>7, <1>9 DEF TypeInv

\* The operator starts again, or its informers list again: everything that
\* exists is queued.
LEMMA RestartTyped ==
    ASSUME TypeInv, Restart \/ Resync
    PROVE  /\ TypeInv' /\ queue' = Everything /\ UNCHANGED objects
           /\ skillPass' = Nothing /\ bindingPass' = Nothing
<1>1. ObjectsTyped /\ edits \in 0..MaxEdits /\ registry \in Registry
  BY DEF TypeInv, ObjectsTyped
<1>2. /\ UNCHANGED objects /\ edits' \in 0..MaxEdits /\ queue' = Everything
      /\ skillPass' = Nothing /\ bindingPass' = Nothing /\ wsPass' = Nothing
      /\ registry' \in Registry
  <2>1. CASE Restart
    <3>1. [registry EXCEPT !.cached = Nothing] \in Registry
      BY <1>1 DEF Registry
    <3>2. QED
      BY <1>1, <2>1, <3>1, EditTyped DEF Restart
  <2>2. CASE Resync
    BY <1>1, <2>2 DEF Resync, passes
  <2>3. QED
    BY <2>1, <2>2
<1>3. QueueTyped'
  BY <1>1, <1>2, EventTypes DEF QueueTyped, Events
<1>4. QED
  BY <1>1, <1>2, <1>3
  DEF TypeInv, ObjectsTyped, PassesTyped, PassesAlive, objects

\* The types are kept by every step, and whoever starts no pass and ends none
\* tells everybody concerned.
LEMMA StepTold ==
    ASSUME TypeInv, Next
    PROVE  /\ TypeInv'
           /\ \/ BindingsTold
              \/ (\E b \in Binding : BeginBinding(b)) \/ EndBinding
              \/ queue' = Everything /\ bindingPass' = Nothing /\ UNCHANGED objects
           /\ \/ SkillsTold
              \/ (\E k \in SkillName : BeginSkill(k)) \/ EndSkill
              \/ queue' = Everything /\ skillPass' = Nothing /\ UNCHANGED objects
<1>1. CASE (\E k \in SkillName : BeginSkill(k)) \/ EndSkill
  BY <1>1, SkillStepTyped, SkillStepTold
<1>2. CASE (\E b \in Binding : BeginBinding(b)) \/ EndBinding
  BY <1>2, BindingStepTyped, BindingStepTold
<1>3. CASE \E a \in Workstation : BeginWs(a) \/ Timer(a)
  BY <1>3, WsBeginTold
<1>4. CASE EndWs
  BY <1>4, WsEndTold
<1>5. CASE \E k \in SkillName : EditSkill(k)
  BY <1>5, EditSkillTold
<1>6. CASE EditMap
  BY <1>6, EditMapTold
<1>7. CASE \E b \in Binding : EditBinding(b) \/ Collect(b)
  BY <1>7, BindingEditTold
<1>8. CASE \E a \in Workstation : EditWs(a)
  BY <1>8, EditWsTold
<1>9. CASE Restart \/ Resync
  BY <1>9, RestartTyped
<1>10. CASE EditPackage
  BY <1>10, EditPackageTold
<1>11. QED
  BY <1>1, <1>2, <1>3, <1>4, <1>5, <1>6, <1>7, <1>8, <1>9, <1>10
  DEF Next, Controllers, Users

\* A step that changes nothing.
LEMMA StutterTyped == TypeInv /\ UNCHANGED vars => TypeInv'
BY DEF TypeInv, ObjectsTyped, QueueTyped, PassesTyped, PassesAlive, vars

\* Every object, queue and pass is of its type (the API types of the three kinds
\* and what the passes keep in their locals).
THEOREM TypeCorrect == Spec => []TypeOK
<1>1. Init => TypeInv
  BY TypeInit
<1>2. TypeInv /\ [Next]_vars => TypeInv'
  BY StepTold, StutterTyped
<1>3. TypeInv => TypeOK
  BY DEF TypeInv, ObjectsTyped, QueueTyped, PassesTyped, TypeOK
<1>4. QED
  BY <1>1, <1>2, <1>3, PTL DEF Spec

-----------------------------------------------------------------------------
(* 3. What the statuses say                                                *)

\* What the status of a binding says, or will say once the pass on it ends.
Applied(b) ==
    IF bindingPass # Nothing /\ bindingPass.key = b THEN bindingPass.applied
    ELSE binding[b].applied
Judged(b) ==
    IF bindingPass # Nothing /\ bindingPass.key = b THEN bindingPass.verdict
    ELSE binding[b].verdict
Listed(b) ==
    IF bindingPass # Nothing /\ bindingPass.key = b THEN bindingPass.conflicts
    ELSE binding[b].conflicts

\* The bindings that no event is due for.
Heard == {b \in Binding : binding[b] # Nothing /\ b \notin queue.binding}

\* What such a binding says is exact, and the pass on it will be let write.
HeardExact ==
    \A b \in Heard :
        /\ bindingPass # Nothing /\ bindingPass.key = b => bindingPass.fresh
        /\ Applied(b) = Subjects(b) /\ Judged(b) = Verdict(b)

\* Of two that overlap, one says so.
HeardOverlap ==
    \A b, o \in Heard :
        b # o /\ binding[b].skill = binding[o].skill
        => \A a \in Subjects(b) \cap Subjects(o) :
              <<a, o>> \in Listed(b) \/ <<a, b>> \in Listed(o)

\* A Skill that no event is due for: what it says, or will say.
SkillHeard ==
    \A k \in SkillName : skill[k] # Nothing /\ k \notin queue.skill =>
        IF skillPass # Nothing /\ skillPass.key = k
        THEN /\ skillPass.fresh /\ skillPass.hash \in Contents(k)
             /\ \A b \in BindingsOf(k) : binding[b].applied \subseteq skillPass.refs
        ELSE /\ skill[k].hash \in Contents(k)
             /\ \A b \in BindingsOf(k) : binding[b].applied \subseteq skill[k].refs

\* A step that tells the bindings leaves those it does not tell exact.
LEMMA HeardKept ==
    ASSUME TypeInv, TypeInv', HeardExact, HeardOverlap, BindingsTold
    PROVE  HeardExact' /\ HeardOverlap'
<1>1. ObjectsTyped /\ QueueTyped /\ PassesTyped /\ ObjectsTyped'
  BY DEF TypeInv
<1>2. ASSUME NEW b \in Binding, binding'[b] # Nothing, b \notin queue'.binding
      PROVE  /\ b \in Heard /\ binding'[b] = binding[b]
             /\ Subjects(b)' = Subjects(b) /\ Verdict(b)' = Verdict(b)
             /\ Applied(b)' = Applied(b) /\ Judged(b)' = Judged(b)
             /\ Listed(b)' = Listed(b)
             /\ bindingPass' # Nothing /\ bindingPass'.key = b => bindingPass' = bindingPass
  <2>1. binding'[b] = binding[b] /\ b \in Heard
    BY <1>2 DEF BindingsTold, Changed, Heard
  <2>2. b \in Existing(binding)
    BY <1>1, <1>2, <2>1 DEF Existing, ObjectsTyped
  <2>3. ws' = ws
    BY <1>2, <2>2 DEF BindingsTold
  <2>4. Subjects(b)' = Subjects(b)
    BY <2>1, <2>3 DEF Subjects, Audience, Existing
  <2>5. skill'[binding[b].skill] = skill[binding[b].skill]
    <3>1. binding[b].skill \in SkillName
      BY <1>1, <1>2, <2>1 DEF ObjectsTyped, BindingObject
    <3>2. b \in BindingsOf(binding[b].skill)
      BY <2>2 DEF BindingsOf
    <3>3. QED
      BY <1>2, <3>1, <3>2 DEF BindingsTold
  <2>6. Verdict(b)' = Verdict(b)
    BY <2>1, <2>5 DEF Verdict
  <2>7. \/ bindingPass' = bindingPass
        \/ /\ bindingPass' # Nothing => bindingPass'.key # b
           /\ bindingPass # Nothing => bindingPass.key # b
    BY <1>2 DEF BindingsTold
  <2>8. /\ Applied(b)' = Applied(b) /\ Judged(b)' = Judged(b)
        /\ Listed(b)' = Listed(b)
        /\ bindingPass' # Nothing /\ bindingPass'.key = b => bindingPass' = bindingPass
    BY <2>1, <2>7 DEF Applied, Judged, Listed
  <2>9. QED
    BY <2>1, <2>4, <2>6, <2>8
<1>3. HeardExact'
  <2> SUFFICES ASSUME NEW b \in Heard'
               PROVE  /\ bindingPass' # Nothing /\ bindingPass'.key = b => bindingPass'.fresh
                      /\ Applied(b)' = Subjects(b)' /\ Judged(b)' = Verdict(b)'
    BY DEF HeardExact
  <2>1. b \in Binding /\ binding'[b] # Nothing /\ b \notin queue'.binding
    BY DEF Heard
  <2>2. QED
    BY <1>2, <2>1 DEF HeardExact
<1>4. HeardOverlap'
  <2> SUFFICES ASSUME NEW b \in Heard', NEW o \in Heard', b # o,
                      binding'[b].skill = binding'[o].skill,
                      NEW a \in Subjects(b)' \cap Subjects(o)'
               PROVE  <<a, o>> \in Listed(b)' \/ <<a, b>> \in Listed(o)'
    BY DEF HeardOverlap
  <2>1. /\ b \in Binding /\ binding'[b] # Nothing /\ b \notin queue'.binding
        /\ o \in Binding /\ binding'[o] # Nothing /\ o \notin queue'.binding
    BY DEF Heard
  <2>2. /\ b \in Heard /\ binding'[b] = binding[b] /\ Subjects(b)' = Subjects(b)
        /\ Listed(b)' = Listed(b)
        /\ o \in Heard /\ binding'[o] = binding[o] /\ Subjects(o)' = Subjects(o)
        /\ Listed(o)' = Listed(o)
    BY <1>2, <2>1
  <2>3. QED
    BY <2>2 DEF HeardOverlap
<1>5. QED
  BY <1>3, <1>4

\* The pass of a binding takes all of what it is to say at its beginning; of the
\* others it relies on what they say, which is exact if no event is due for them.
LEMMA HeardByPass ==
    ASSUME TypeInv, TypeInv', HeardExact, HeardOverlap,
           (\E b \in Binding : BeginBinding(b)) \/ EndBinding
    PROVE  HeardExact' /\ HeardOverlap'
<1> USE DEF objects, passes
<1>1. ObjectsTyped /\ QueueTyped /\ PassesTyped /\ PassesAlive
  BY DEF TypeInv
<1>2. ASSUME NEW b \in Binding, BeginBinding(b) PROVE HeardExact' /\ HeardOverlap'
  <2>1. /\ UNCHANGED <<ws, skill, binding, map, registry>> /\ bindingPass = Nothing
        /\ queue'.binding = queue.binding \ {b}
    BY <1>1, <1>2 DEF BeginBinding, QueueTyped
  <2>2. ASSUME NEW c \in Binding
        PROVE  Subjects(c)' = Subjects(c) /\ Verdict(c)' = Verdict(c)
    BY <2>1 DEF Subjects, Audience, Existing, Verdict
  <2>3. ASSUME NEW c \in Heard', c # b
        PROVE  /\ c \in Heard /\ Applied(c)' = Applied(c) /\ Judged(c)' = Judged(c)
               /\ Listed(c)' = Listed(c) /\ Applied(c) = binding[c].applied
               /\ ~(bindingPass' # Nothing /\ bindingPass'.key = c)
    <3>1. c \in Heard
      BY <2>1, <2>3 DEF Heard
    <3>2. ~(bindingPass' # Nothing /\ bindingPass'.key = c)
      BY <1>2, <2>3 DEF BeginBinding
    <3>3. QED
      BY <2>1, <3>1, <3>2 DEF Applied, Judged, Listed
  <2>4. ASSUME b \in Heard'
        PROVE  /\ binding[b] # Nothing /\ bindingPass' # Nothing
               /\ bindingPass'.key = b /\ bindingPass'.fresh
               /\ Applied(b)' = Subjects(b) /\ Judged(b)' = Verdict(b)
               /\ Listed(b)' = Conflicts(b)
    <3>1. binding[b] # Nothing
      BY <2>1, <2>4 DEF Heard
    <3>2. bindingPass' = [key |-> b, fresh |-> TRUE, applied |-> Subjects(b),
                          verdict |-> Verdict(b), conflicts |-> Conflicts(b)]
      BY <1>2, <3>1 DEF BeginBinding
    <3>3. b \in Existing(binding)
      BY <1>1, <1>2, <3>1 DEF Existing, ObjectsTyped
    <3>4. bindingPass' # Nothing
      <4>1. bindingPass' \in BindingPass
        BY <1>1, <1>2, <3>2, <3>3, PassTypes DEF BindingPass
      <4>2. QED
        BY <4>1, NothingAssumption DEF NothingAssumption
    <3>5. QED
      BY <3>1, <3>2, <3>4 DEF Applied, Judged, Listed
  <2>5. HeardExact'
    <3> SUFFICES ASSUME NEW c \in Heard'
                 PROVE  /\ bindingPass' # Nothing /\ bindingPass'.key = c => bindingPass'.fresh
                        /\ Applied(c)' = Subjects(c)' /\ Judged(c)' = Verdict(c)'
      BY DEF HeardExact
    <3>1. c \in Binding
      BY DEF Heard
    <3>2. CASE c = b
      BY <2>2, <2>4, <3>1, <3>2
    <3>3. CASE c # b
      BY <2>2, <2>3, <3>1, <3>3 DEF HeardExact
    <3>4. QED
      BY <3>2, <3>3
  <2>6. ASSUME b \in Heard', NEW o \in Heard', o # b, binding[b].skill = binding[o].skill,
               NEW a \in Subjects(b) \cap Subjects(o)
        PROVE  <<a, o>> \in Listed(b)'
    <3>1. o \in Heard /\ binding[o].applied = Subjects(o)
      BY <2>3, <2>6 DEF HeardExact
    <3>2. a \in Reported(o) \cap Subjects(b)
      BY <2>6, <3>1 DEF Reported
    <3>3. o \in BindingsOf(binding[b].skill) \ {b}
      BY <1>1, <2>6, <3>1 DEF BindingsOf, Existing, Heard, ObjectsTyped
    <3>4. <<a, o>> \in Conflicts(b)
      BY <3>2, <3>3 DEF Conflicts
    <3>5. QED
      BY <2>4, <2>6, <3>4
  <2>7. HeardOverlap'
    <3> SUFFICES ASSUME NEW c \in Heard', NEW o \in Heard', c # o,
                        binding'[c].skill = binding'[o].skill,
                        NEW a \in Subjects(c)' \cap Subjects(o)'
                 PROVE  <<a, o>> \in Listed(c)' \/ <<a, c>> \in Listed(o)'
      BY DEF HeardOverlap
    <3>1. /\ c \in Binding /\ o \in Binding /\ binding[c].skill = binding[o].skill
          /\ a \in Subjects(c) \cap Subjects(o)
      BY <2>1, <2>2 DEF Heard
    <3>2. CASE c = b
      BY <2>6, <3>1, <3>2
    <3>3. CASE o = b
      BY <2>6, <3>1, <3>3
    <3>4. CASE c # b /\ o # b
      BY <2>3, <3>1, <3>4 DEF HeardOverlap
    <3>5. QED
      BY <3>2, <3>3, <3>4
  <2>8. QED
    BY <2>5, <2>7
<1>3. CASE EndBinding
  <2>1. bindingPass \in BindingPass /\ bindingPass.key \in Binding /\ bindingPass # Nothing
    BY <1>1, <1>3 DEF EndBinding, PassesTyped, BindingPass
  <2> DEFINE b == bindingPass.key
             new == [binding[b] EXCEPT !.applied = bindingPass.applied,
                                       !.verdict = bindingPass.verdict,
                                       !.conflicts = bindingPass.conflicts]
  <2>2. bindingPass' = Nothing /\ UNCHANGED <<ws, skill>>
    BY <1>3 DEF EndBinding
  <2>3. ASSUME NEW c \in Heard'
        PROVE  /\ c \in Binding /\ c \in Heard /\ binding'[c].skill = binding[c].skill
               /\ Subjects(c)' = Subjects(c) /\ Verdict(c)' = Verdict(c)
               /\ Applied(c)' = Applied(c) /\ Judged(c)' = Judged(c)
               /\ Listed(c)' = Listed(c)
    <3>1. CASE ~bindingPass.fresh
      <4>1. binding' = binding /\ queue'.binding = queue.binding \cup {b}
        BY <1>1, <1>3, <3>1 DEF EndBinding, QueueTyped
      <4>2. c \in Heard /\ c # b
        BY <2>3, <4>1 DEF Heard
      <4>3. Subjects(c)' = Subjects(c) /\ Verdict(c)' = Verdict(c)
        BY <2>2, <4>1 DEF Subjects, Audience, Existing, Verdict
      <4>4. /\ Applied(c)' = Applied(c) /\ Judged(c)' = Judged(c)
            /\ Listed(c)' = Listed(c)
        BY <2>2, <4>1, <4>2 DEF Applied, Judged, Listed
      <4>5. QED
        BY <4>1, <4>2, <4>3, <4>4 DEF Heard
    <3>2. CASE bindingPass.fresh
      <4>1. binding[b] \in BindingObject
        BY <1>1, <2>1, <3>2 DEF ObjectsTyped, PassesAlive
      <4>2. new \in BindingObject
        BY <2>1, <4>1 DEF BindingObject, BindingPass
      <4>3. /\ new.skill = binding[b].skill /\ new.pin = binding[b].pin
            /\ new.subjects = binding[b].subjects /\ new.selector = binding[b].selector
            /\ new.applied = bindingPass.applied /\ new.verdict = bindingPass.verdict
            /\ new.conflicts = bindingPass.conflicts
        BY <4>1 DEF BindingObject
      <4>4. binding' = [binding EXCEPT ![b] = new]
        BY <1>3, <3>2 DEF EndBinding
      <4>5. queue.binding \subseteq queue'.binding
        <5>1. OnBinding(b, binding[b], new) \in Events /\ NoEvent \in Events
          BY <1>1, <2>1, <4>1, <4>2, EventTypes
        <5>2. \E e \in Events : Enqueue(e)
          BY <1>3, <3>2, <5>1 DEF EndBinding
        <5>3. QED
          BY <1>1, <5>2, EnqueueTyped
      <4> HIDE DEF new
      <4>6. binding[b] # Nothing /\ new # Nothing
        BY <4>1, <4>2, NothingAssumption DEF NothingAssumption
      <4>7. /\ binding'[b] = new /\ \A d \in Binding : d # b => binding'[d] = binding[d]
        BY <1>1, <2>1, <4>4 DEF ObjectsTyped
      <4>8. c \in Binding /\ c \in Heard
        BY <2>3, <4>5, <4>6, <4>7 DEF Heard
      <4>9. CASE c = b
        <5>1. Audience(binding[c])' = Audience(binding[c])
          BY <2>2, <4>3, <4>6, <4>7, <4>9 DEF Audience, Existing
        <5>2. Subjects(c)' = Subjects(c)
          BY <2>2, <5>1 DEF Subjects, Existing
        <5>3. Verdict(c)' = Verdict(c)
          BY <2>2, <4>3, <4>7, <4>9 DEF Verdict
        <5>4. QED
          BY <2>1, <2>2, <4>3, <4>7, <4>8, <4>9, <5>2, <5>3 DEF Applied, Judged, Listed
      <4>10. CASE c # b
        <5>1. binding'[c] = binding[c]
          BY <4>7, <4>8, <4>10
        <5>2. Subjects(c)' = Subjects(c) /\ Verdict(c)' = Verdict(c)
          BY <2>2, <5>1 DEF Subjects, Audience, Existing, Verdict
        <5>3. /\ Applied(c)' = Applied(c) /\ Judged(c)' = Judged(c)
              /\ Listed(c)' = Listed(c)
          BY <2>2, <4>10, <5>1 DEF Applied, Judged, Listed
        <5>4. QED
          BY <4>8, <5>1, <5>2, <5>3
      <4>11. QED
        BY <4>9, <4>10
    <3>3. QED
      BY <3>1, <3>2
  <2>4. HeardExact'
    BY <2>2, <2>3 DEF HeardExact
  <2>5. HeardOverlap'
    <3> SUFFICES ASSUME NEW c \in Heard', NEW o \in Heard', c # o,
                        binding'[c].skill = binding'[o].skill,
                        NEW a \in Subjects(c)' \cap Subjects(o)'
                 PROVE  <<a, o>> \in Listed(c)' \/ <<a, c>> \in Listed(o)'
      BY DEF HeardOverlap
    <3>1. QED
      BY <2>3 DEF HeardOverlap
  <2>6. QED
    BY <2>4, <2>5
<1>4. QED
  BY <1>2, <1>3

\* When the operator starts again, something is due for everybody.
LEMMA NobodyHeard ==
    ASSUME ObjectsTyped, queue = Everything
    PROVE  /\ Heard = {}
           /\ \A k \in SkillName : skill[k] # Nothing => k \in queue.skill
<1>1. queue.binding = Existing(binding) /\ queue.skill = Existing(skill)
  BY DEF Everything
<1>2. DOMAIN binding = Binding /\ DOMAIN skill = SkillName
  BY DEF ObjectsTyped
<1>3. QED
  BY <1>1, <1>2 DEF Heard, Existing

\* A step that tells the Skills leaves those it does not tell right.
LEMMA SkillHeardKept ==
    ASSUME TypeInv, TypeInv', SkillHeard, SkillsTold
    PROVE  SkillHeard'
<1> SUFFICES ASSUME NEW k \in SkillName, skill'[k] # Nothing, k \notin queue'.skill
             PROVE  IF skillPass' # Nothing /\ skillPass'.key = k
                    THEN /\ skillPass'.fresh /\ skillPass'.hash \in Contents(k)'
                         /\ \A b \in BindingsOf(k)' :
                               binding'[b].applied \subseteq skillPass'.refs
                    ELSE /\ skill'[k].hash \in Contents(k)'
                         /\ \A b \in BindingsOf(k)' :
                               binding'[b].applied \subseteq skill'[k].refs
  BY DEF SkillHeard
<1>1. ObjectsTyped /\ ObjectsTyped'
  BY DEF TypeInv
<1>2. skill'[k] = skill[k] /\ k \notin queue.skill
  BY DEF SkillsTold
<1>3. Contents(k) \subseteq Contents(k)'
  <2>1. k \in Existing(skill)
    BY <1>1, <1>2 DEF Existing, ObjectsTyped
  <2>2. map' = map \/ skill[k].source # FromMap
    BY <2>1 DEF SkillsTold
  <2>3. QED
    BY <1>2, <2>2 DEF Contents, SkillsTold
<1>4. ASSUME NEW b \in BindingsOf(k)'
      PROVE  b \in BindingsOf(k) /\ binding'[b].applied = binding[b].applied
  <2>1. b \in Binding /\ binding'[b] # Nothing /\ binding'[b].skill = k
    BY <1>1 DEF BindingsOf, Existing, ObjectsTyped
  <2>2. /\ binding[b] # Nothing /\ binding[b].skill = k
        /\ binding'[b].applied = binding[b].applied
    BY <2>1 DEF SkillsTold
  <2>3. QED
    BY <1>1, <2>1, <2>2 DEF BindingsOf, Existing, ObjectsTyped
<1>5. \/ skillPass' = skillPass
      \/ /\ ~(skillPass' # Nothing /\ skillPass'.key = k)
         /\ ~(skillPass # Nothing /\ skillPass.key = k)
  BY DEF SkillsTold
<1>6. QED
  BY <1>2, <1>3, <1>4, <1>5 DEF SkillHeard

\* The pass of a Skill unites what the bindings of the Skill say.
LEMMA SkillHeardByPass ==
    ASSUME TypeInv, TypeInv', SkillHeard, (\E k \in SkillName : BeginSkill(k)) \/ EndSkill
    PROVE  SkillHeard'
<1> USE DEF objects, passes
<1>1. ObjectsTyped /\ QueueTyped /\ PassesTyped /\ PassesAlive
  BY DEF TypeInv
<1>2. ASSUME NEW j \in SkillName, BeginSkill(j) PROVE SkillHeard'
  <2>1. /\ UNCHANGED <<ws, skill, binding, map>> /\ skillPass = Nothing
        /\ queue'.skill = queue.skill \ {j}
    BY <1>1, <1>2 DEF BeginSkill, QueueTyped
  <2>2. \A k : Contents(k)' = Contents(k) /\ BindingsOf(k)' = BindingsOf(k)
    <3>1. registry'.ever = registry.ever
      BY <1>1, <1>2, SkillBegins
    <3>2. QED
      BY <2>1, <3>1 DEF Contents, BindingsOf, Existing
  <2>3. CASE skill[j] # Nothing
    <3>1. PICK c \in Contents(j) :
             skillPass' = [key |-> j, fresh |-> TRUE, hash |-> c,
                           refs |-> References(j)]
      BY <1>1, <1>2, <2>3, SkillBegins DEF PassOn
    <3>2. \A b \in BindingsOf(j) : binding[b].applied \subseteq References(j)
      BY DEF References, Reported
    <3>3. skillPass' # Nothing
      <4>1. j \in Existing(skill)
        BY <1>1, <1>2, <2>3 DEF Existing, ObjectsTyped
      <4>2. skillPass' \in SkillPass
        BY <1>1, <1>2, <3>1, <4>1, PassTypes DEF SkillPass
      <4>3. QED
        BY <4>2, NothingAssumption DEF NothingAssumption
    <3>4. QED
      BY <2>1, <2>2, <3>1, <3>2, <3>3 DEF SkillHeard
  <2>4. CASE skill[j] = Nothing
    <3>1. skillPass' = Nothing
      BY <1>1, <1>2, <2>4, SkillBegins
    <3>2. QED
      BY <2>1, <2>2, <2>4, <3>1 DEF SkillHeard
  <2>5. QED
    BY <2>3, <2>4
<1>3. CASE EndSkill
  <2>1. skillPass \in SkillPass /\ skillPass.key \in SkillName /\ skillPass # Nothing
    BY <1>1, <1>3 DEF EndSkill, PassesTyped, SkillPass
  <2> DEFINE j == skillPass.key
             new == [skill[j] EXCEPT !.hash = skillPass.hash, !.refs = skillPass.refs]
  <2>2. skillPass' = Nothing /\ UNCHANGED <<binding, map, registry>>
    BY <1>3 DEF EndSkill
  <2>3. \A k : BindingsOf(k)' = BindingsOf(k)
    BY <2>2 DEF BindingsOf, Existing
  <2>4. CASE ~skillPass.fresh
    <3>1. skill' = skill /\ queue'.skill = queue.skill \cup {j}
      BY <1>1, <1>3, <2>4 DEF EndSkill, QueueTyped
    <3>2. \A k : Contents(k)' = Contents(k)
      BY <2>2, <3>1 DEF Contents
    <3>3. QED
      BY <2>2, <2>3, <3>1, <3>2 DEF SkillHeard
  <2>5. CASE skillPass.fresh
    <3>1. skill[j] \in SkillObject
      BY <1>1, <2>1, <2>5 DEF ObjectsTyped, PassesAlive
    <3>2. /\ new.source = skill[j].source /\ new.hash = skillPass.hash
          /\ new.refs = skillPass.refs
      BY <3>1 DEF SkillObject
    <3>3. skill' = [skill EXCEPT ![j] = new]
      BY <1>3, <2>5 DEF EndSkill
    <3>4. queue.skill \subseteq queue'.skill
      <4>1. \E e \in Events : Enqueue(e)
        BY <1>1, <1>3, <2>1, <2>5, EventTypes DEF EndSkill
      <4>2. QED
        BY <1>1, <4>1, EnqueueTyped
    <3> HIDE DEF new
    <3>5. skill[j] # Nothing
      BY <3>1, NothingAssumption DEF NothingAssumption
    <3>6. skill'[j] = new /\ \A k \in SkillName : k # j => skill'[k] = skill[k]
      BY <1>1, <2>1, <3>3 DEF ObjectsTyped
    <3>7. \A k \in SkillName : Contents(k)' = Contents(k)
      BY <2>2, <3>2, <3>6 DEF Contents
    <3> SUFFICES ASSUME NEW k \in SkillName, skill'[k] # Nothing, k \notin queue'.skill
                 PROVE  /\ skill'[k].hash \in Contents(k)'
                        /\ \A b \in BindingsOf(k)' :
                              binding'[b].applied \subseteq skill'[k].refs
      BY <2>2 DEF SkillHeard
    <3>8. CASE k = j
      BY <2>1, <2>2, <2>3, <3>2, <3>4, <3>5, <3>6, <3>7, <3>8 DEF SkillHeard
    <3>9. CASE k # j
      BY <2>1, <2>2, <2>3, <3>4, <3>6, <3>7, <3>9 DEF SkillHeard
    <3>10. QED
      BY <3>8, <3>9
  <2>6. QED
    BY <2>4, <2>5
<1>4. QED
  BY <1>2, <1>3

-----------------------------------------------------------------------------
(* 4. The theorems                                                         *)

StatusInv == TypeInv /\ HeardExact /\ HeardOverlap /\ SkillHeard

\* What is said stays as it is when nothing changes.
LEMMA StutterHeard == StatusInv /\ UNCHANGED vars => StatusInv'
<1> SUFFICES ASSUME StatusInv, UNCHANGED vars PROVE StatusInv'
  OBVIOUS
<1>1. TypeInv'
  BY StutterTyped DEF StatusInv
<1>2. UNCHANGED <<ws, skill, binding, map, registry, queue, skillPass, bindingPass>>
  BY DEF vars
<1>3. \A k : Contents(k)' = Contents(k) /\ BindingsOf(k)' = BindingsOf(k)
  BY <1>2 DEF Contents, BindingsOf, Existing
<1>4. \A b : /\ Subjects(b)' = Subjects(b) /\ Verdict(b)' = Verdict(b)
             /\ Applied(b)' = Applied(b) /\ Judged(b)' = Judged(b)
             /\ Listed(b)' = Listed(b)
  BY <1>2 DEF Subjects, Audience, Existing, Verdict, Applied, Judged, Listed
<1>5. Heard' = Heard
  BY <1>2 DEF Heard
<1>6. HeardExact' /\ HeardOverlap'
  BY <1>2, <1>4, <1>5 DEF StatusInv, HeardExact, HeardOverlap
<1>7. SkillHeard'
  BY <1>2, <1>3 DEF StatusInv, SkillHeard
<1>8. QED
  BY <1>1, <1>6, <1>7 DEF StatusInv

\* The invariant is kept by every step.
LEMMA StatusKept == StatusInv /\ [Next]_vars => StatusInv'
<1> SUFFICES ASSUME StatusInv, Next PROVE StatusInv'
  BY StutterHeard
<1>1. TypeInv /\ TypeInv' /\ HeardExact /\ HeardOverlap /\ SkillHeard
  BY StepTold DEF StatusInv
<1>2. HeardExact' /\ HeardOverlap'
  <2>1. CASE BindingsTold
    BY <1>1, <2>1, HeardKept
  <2>2. CASE (\E b \in Binding : BeginBinding(b)) \/ EndBinding
    BY <1>1, <2>2, HeardByPass
  <2>3. CASE queue' = Everything /\ bindingPass' = Nothing /\ UNCHANGED objects
    <3>1. Heard' = {}
      <4>1. ObjectsTyped /\ queue'.binding = Existing(binding)
        BY <1>1, <2>3 DEF TypeInv, Everything
      <4>2. binding' = binding
        BY <2>3 DEF objects
      <4>3. QED
        BY <4>1, <4>2 DEF Heard, Existing, ObjectsTyped
    <3>2. QED
      BY <3>1 DEF HeardExact, HeardOverlap
  <2>4. QED
    BY <1>1, <2>1, <2>2, <2>3, StepTold
<1>3. SkillHeard'
  <2>1. CASE SkillsTold
    BY <1>1, <2>1, SkillHeardKept
  <2>2. CASE (\E k \in SkillName : BeginSkill(k)) \/ EndSkill
    BY <1>1, <2>2, SkillHeardByPass
  <2>3. CASE queue' = Everything /\ skillPass' = Nothing /\ UNCHANGED objects
    <3>1. ObjectsTyped /\ queue'.skill = Existing(skill)
      BY <1>1, <2>3 DEF TypeInv, Everything
    <3>2. skill' = skill
      BY <2>3 DEF objects
    <3>3. \A k \in SkillName : skill'[k] # Nothing => k \in queue'.skill
      BY <3>1, <3>2 DEF Existing, ObjectsTyped
    <3>4. QED
      BY <3>3 DEF SkillHeard
  <2>4. QED
    BY <1>1, <2>1, <2>2, <2>3, StepTold
<1>4. QED
  BY <1>1, <1>2, <1>3 DEF StatusInv

\* In the beginning everybody is queued.
LEMMA StatusInit == Init => StatusInv
<1> SUFFICES ASSUME Init PROVE StatusInv
  OBVIOUS
<1>1. TypeInv /\ ObjectsTyped /\ queue = Everything
  BY TypeInit DEF Init, TypeInv
<1>2. Heard = {} /\ \A k \in SkillName : skill[k] # Nothing => k \in queue.skill
  BY <1>1, NobodyHeard
<1>3. QED
  BY <1>1, <1>2 DEF StatusInv, HeardExact, HeardOverlap, SkillHeard

\* The invariant gives both properties: at rest is heard, with no pass on it.
LEMMA StatusEnough == StatusInv => BindingStatusExact /\ SkillStatusFollows
<1> SUFFICES ASSUME StatusInv PROVE BindingStatusExact /\ SkillStatusFollows
  OBVIOUS
<1>1. TypeInv /\ HeardExact /\ HeardOverlap /\ SkillHeard
  BY DEF StatusInv
<1>2. ASSUME NEW b \in Binding, BindingAtRest(b)
      PROVE  /\ b \in Heard /\ Applied(b) = binding[b].applied
             /\ Judged(b) = binding[b].verdict /\ Listed(b) = binding[b].conflicts
  BY <1>2 DEF BindingAtRest, Heard, Applied, Judged, Listed
<1>3. OverlapReported
  BY <1>1, <1>2 DEF OverlapReported, HeardOverlap
<1>4. BindingStatusExact
  BY <1>1, <1>2, <1>3 DEF BindingStatusExact, HeardExact
<1>5. SkillStatusFollows
  BY <1>1 DEF SkillStatusFollows, SkillAtRest, SkillHeard
<1>6. QED
  BY <1>4, <1>5

\* A binding at rest applies to exactly the workstations it names or selects
\* that exist, with the verdict on the version there is; of two bindings at rest
\* that overlap, one reports it (SkillBindingReconciler.Reconcile).
THEOREM BindingsAreExact == Spec => []BindingStatusExact
BY StatusInit, StatusKept, StatusEnough, PTL DEF Spec

\* A Skill at rest shows the hash of its inline text or ConfigMap as it is now,
\* of a package whatever the registry has served at some time or that it could
\* not be had, and misses no workstation that a binding of it reports
\* (SkillReconciler.Reconcile, resolvePackageRef).
THEOREM SkillsFollow == Spec => []SkillStatusFollows
BY StatusInit, StatusKept, StatusEnough, PTL DEF Spec
-----------------------------------------------------------------------------
(***************************************************************************)
(* Whose bindings a pass of a workstation writes.                          *)
(***************************************************************************)

\* Only managed names get an owner, and what a pass read as its own has since
\* come under nobody else.
OwnersInv ==
    /\ \A b \in Existing(binding) :
          binding[b].owner # Nothing \/ binding[b].orphan => b \in ManagedBinding
    /\ wsPass # Nothing => \A b \in wsPass.owned :
          /\ b \in ManagedBinding
          /\ binding[b] # Nothing => binding[b].owner \in {wsPass.key, Nothing}

\* What a binding grants, and for whom it is managed.
Grant(b) ==
    LET o == binding[b]
    IN IF o = Nothing THEN Nothing
       ELSE <<o.skill, o.pin, o.subjects, o.selector, o.owner>>

\* A pass of a workstation writes no binding but those of a managed name that
\* are its own or nobody's.
LEMMA WsWritesItsOwn ==
    ASSUME TypeInv, OwnersInv, EndWs
    PROVE  \A b \in Binding :
              \/ binding'[b] = binding[b]
              \/ /\ b \in ManagedBinding
                 /\ binding[b] # Nothing => binding[b].owner \in {wsPass.key, Nothing}
                 /\ binding'[b] # Nothing => binding'[b].owner = wsPass.key
<1> DEFINE nm(k) == NameOf[<<wsPass.key, k>>]
<1>1. /\ wsPass \in WsPass /\ wsPass # Nothing /\ wsPass.key \in Workstation
      /\ wsPass.wanted \subseteq SkillName
  BY DEF EndWs, TypeInv, PassesTyped, WsPass
<1>2. PICK done \in SUBSET {k \in wsPass.wanted : ~Blocked(wsPass.key, k)},
           gone \in SUBSET wsPass.owned :
         binding' = [b \in Binding |->
                        IF b \in gone THEN Nothing
                        ELSE IF \E k \in done : nm(k) = b
                        THEN Upserted(b, CHOOSE k \in done : nm(k) = b)
                        ELSE binding[b]]
  <2>1. PICK done \in SUBSET {k \in wsPass.wanted : ~Blocked(wsPass.key, k)} :
           binding' = [b \in Binding |->
                          IF b \in (IF done = wsPass.wanted THEN Drift(done) ELSE {})
                          THEN Nothing
                          ELSE IF \E k \in done : nm(k) = b
                          THEN Upserted(b, CHOOSE k \in done : nm(k) = b)
                          ELSE binding[b]]
    BY DEF EndWs
  <2> DEFINE gone == IF done = wsPass.wanted THEN Drift(done) ELSE {}
  <2>2. gone \subseteq wsPass.owned
    BY DEF Drift
  <2>3. QED
    BY <2>1, <2>2
<1> SUFFICES ASSUME NEW b \in Binding
             PROVE  \/ binding'[b] = binding[b]
                    \/ /\ b \in ManagedBinding
                       /\ binding[b] # Nothing =>
                             binding[b].owner \in {wsPass.key, Nothing}
                       /\ binding'[b] # Nothing => binding'[b].owner = wsPass.key
  OBVIOUS
<1>3. CASE b \in gone
  BY <1>1, <1>2, <1>3 DEF OwnersInv
<1>4. CASE b \notin gone /\ \E k \in done : nm(k) = b
  <2> DEFINE k == CHOOSE k \in done : nm(k) = b
  <2>1. k \in done /\ nm(k) = b /\ binding'[b] = Upserted(b, k)
    BY <1>2, <1>4
  <2> HIDE DEF k
  <2>2. k \in SkillName /\ ~Blocked(wsPass.key, k) /\ k \in DOMAIN wsPass.refs
    BY <1>1, <1>2, <2>1 DEF TypeInv, PassesTyped
  <2>3. b \in ManagedBinding
    BY <1>1, <2>1, <2>2, BindingAssumption
  <2>4. binding[b] # Nothing => binding[b].owner \in {wsPass.key, Nothing}
    BY <2>1, <2>2 DEF Blocked
  <2>5. Upserted(b, k).owner = wsPass.key
    <3> DEFINE old == IF binding[b] # Nothing THEN binding[b]
                      ELSE NewBinding([skill |-> k, pin |-> Floating, subjects |-> {},
                                       selector |-> FALSE])
    <3>1. old \in BindingObject
      BY <2>2 DEF TypeInv, ObjectsTyped, NewBinding, BindingObject, Pin
    <3>2. Upserted(b, k) = [old EXCEPT !.skill = k, !.pin = wsPass.refs[k],
                               !.subjects = {wsPass.key}, !.owner = wsPass.key,
                               !.orphan = ~wsPass.alive]
      BY DEF Upserted
    <3> HIDE DEF old
    <3>3. QED
      BY <3>1, <3>2 DEF BindingObject
  <2>6. QED
    BY <2>1, <2>3, <2>4, <2>5
<1>5. CASE b \notin gone /\ ~\E k \in done : nm(k) = b
  BY <1>2, <1>5
<1>6. QED
  BY <1>3, <1>4, <1>5

\* An edit of a binding leaves its owner, and a new one has none.
LEMMA EditedOwner ==
    ASSUME TypeInv, NEW b \in Binding, EditBinding(b)
    PROVE  /\ \A o \in Binding \ {b} : binding'[o] = binding[o]
           /\ binding'[b] # Nothing =>
                 \/ /\ binding[b] # Nothing
                    /\ binding'[b].owner = binding[b].owner
                    /\ binding'[b].orphan = binding[b].orphan
                 \/ binding'[b].owner = Nothing /\ binding'[b].orphan = FALSE
<1>1. ObjectsTyped
  BY DEF TypeInv
<1>2. PICK s \in BindingSpec \cup {Nothing} :
         binding' = [binding EXCEPT ![b] =
                        IF s = Nothing THEN Nothing
                        ELSE IF binding[b] = Nothing THEN NewBinding(s)
                        ELSE [binding[b] EXCEPT !.skill = s.skill, !.pin = s.pin,
                                !.subjects = s.subjects, !.selector = s.selector]]
  BY DEF EditBinding
<1>3. CASE s = Nothing
  BY <1>1, <1>2, <1>3 DEF ObjectsTyped
<1>4. CASE s # Nothing /\ binding[b] = Nothing
  BY <1>1, <1>2, <1>4 DEF ObjectsTyped, NewBinding
<1>5. CASE s # Nothing /\ binding[b] # Nothing
  <2>1. binding[b] \in BindingObject
    BY <1>1, <1>5 DEF ObjectsTyped
  <2>2. /\ [binding[b] EXCEPT !.skill = s.skill, !.pin = s.pin,
              !.subjects = s.subjects, !.selector = s.selector].owner = binding[b].owner
        /\ [binding[b] EXCEPT !.skill = s.skill, !.pin = s.pin,
              !.subjects = s.subjects, !.selector = s.selector].orphan = binding[b].orphan
    BY <2>1 DEF BindingObject
  <2>3. QED
    BY <1>1, <1>2, <1>5, <2>2 DEF ObjectsTyped
<1>6. QED
  BY <1>3, <1>4, <1>5

\* What every step keeps of the owners.
LEMMA OwnersKept == TypeInv /\ OwnersInv /\ [Next]_vars => OwnersInv'
<1> SUFFICES ASSUME TypeInv, OwnersInv, [Next]_vars PROVE OwnersInv'
  OBVIOUS
<1>1. ObjectsTyped /\ QueueTyped /\ PassesTyped
  BY DEF TypeInv
<1>2. ASSUME UNCHANGED <<binding, wsPass>> PROVE OwnersInv'
  BY <1>2 DEF OwnersInv, Existing
<1>3. CASE \/ \E k \in SkillName : BeginSkill(k) \/ EditSkill(k)
           \/ EndSkill \/ EditMap \/ EditPackage \/ (\E b \in Binding : BeginBinding(b))
           \/ (\E a \in Workstation : Timer(a)) \/ UNCHANGED vars
  BY <1>2, <1>3 DEF BeginSkill, EditSkill, EndSkill, EditMap, EditPackage, BeginBinding, Timer,
                    vars, objects, passes
<1>4. CASE EndBinding
  <2>1. \A b \in Binding :
           /\ binding'[b] # Nothing =>
                 /\ binding[b] # Nothing
                 /\ binding'[b].owner = binding[b].owner
                 /\ binding'[b].orphan = binding[b].orphan
    <3>1. CASE ~bindingPass.fresh
      BY <1>4, <3>1 DEF EndBinding
    <3>2. CASE bindingPass.fresh
      <4> DEFINE c == bindingPass.key
                 new == [binding[c] EXCEPT !.applied = bindingPass.applied,
                                           !.verdict = bindingPass.verdict,
                                           !.conflicts = bindingPass.conflicts]
      <4>1. binding[c] # Nothing /\ binding[c] \in BindingObject
        BY <1>1, <1>4, <3>2 DEF EndBinding, TypeInv, PassesAlive, PassesTyped,
                                BindingPass, ObjectsTyped
      <4>2. new.owner = binding[c].owner /\ new.orphan = binding[c].orphan
        BY <4>1 DEF BindingObject
      <4>3. binding' = [binding EXCEPT ![c] = new]
        BY <1>4, <3>2 DEF EndBinding
      <4>4. QED
        BY <1>1, <4>1, <4>2, <4>3 DEF ObjectsTyped
    <3>3. QED
      BY <3>1, <3>2
  <2>2. DOMAIN binding' = Binding /\ DOMAIN binding = Binding /\ wsPass' = wsPass
    BY <1>1, <1>4 DEF EndBinding, ObjectsTyped
  <2>3. wsPass # Nothing => wsPass.owned \subseteq Binding
    BY <1>1 DEF PassesTyped, WsPass
  <2>4. QED
    BY <2>1, <2>2, <2>3 DEF OwnersInv, Existing
<1>5. ASSUME NEW a \in Workstation, BeginWs(a) PROVE OwnersInv'
  <2>1. binding' = binding
    BY <1>5 DEF BeginWs, objects
  <2>2. a # Nothing
    BY NothingAssumption
  <2>3. wsPass' # Nothing =>
           /\ wsPass'.key = a
           /\ \A b \in wsPass'.owned : b \in Existing(binding) /\ binding[b].owner = a
    BY <1>5 DEF BeginWs
  <2>4. QED
    BY <2>1, <2>2, <2>3 DEF OwnersInv, Existing
<1>6. CASE EndWs
  <2>1. wsPass' = Nothing /\ DOMAIN binding' = Binding /\ DOMAIN binding = Binding
    BY <1>1, <1>6 DEF EndWs, ObjectsTyped
  <2>2. QED
    BY <1>6, <2>1, WsWritesItsOwn DEF OwnersInv, Existing
<1>7. ASSUME NEW b \in Binding, EditBinding(b) PROVE OwnersInv'
  <2>1. wsPass' = wsPass /\ DOMAIN binding' = Binding /\ DOMAIN binding = Binding
    BY <1>1, <1>7 DEF EditBinding, ObjectsTyped
  <2>2. wsPass # Nothing => wsPass.owned \subseteq Binding
    BY <1>1 DEF PassesTyped, WsPass
  <2>3. QED
    BY <1>7, <2>1, <2>2, EditedOwner DEF OwnersInv, Existing
<1>8. ASSUME NEW a \in Workstation, EditWs(a) PROVE OwnersInv'
  <2>1. a # Nothing
    BY NothingAssumption
  <2>2. \A b \in Binding :
           /\ binding'[b] # Nothing =>
                 /\ binding[b] # Nothing
                 /\ binding'[b].owner = binding[b].owner
                 /\ binding'[b].orphan => binding[b].orphan \/ binding[b].owner = a
    <3> SUFFICES ASSUME NEW b \in Binding, binding'[b] # Nothing
                 PROVE  /\ binding[b] # Nothing
                        /\ binding'[b].owner = binding[b].owner
                        /\ binding'[b].orphan => binding[b].orphan \/ binding[b].owner = a
      OBVIOUS
    <3>1. \/ binding'[b] = binding[b]
          \/ /\ b \in Existing(binding) /\ binding[b].owner = a
             /\ binding'[b] = [binding[b] EXCEPT !.orphan = TRUE]
      BY <1>8 DEF EditWs
    <3>2. QED
      BY <1>1, <3>1 DEF ObjectsTyped, Existing, BindingObject
  <2>3. /\ DOMAIN binding' = Binding /\ DOMAIN binding = Binding
        /\ wsPass' # Nothing => wsPass # Nothing /\ wsPass'.owned = wsPass.owned
                                /\ wsPass'.key = wsPass.key
    BY <1>1, <1>8 DEF EditWs, ObjectsTyped, PassesTyped, WsPass
  <2>4. wsPass # Nothing => wsPass.owned \subseteq Binding
    BY <1>1 DEF PassesTyped, WsPass
  <2>5. QED
    BY <2>1, <2>2, <2>3, <2>4 DEF OwnersInv, Existing
<1>9. ASSUME NEW b \in Binding, Collect(b) PROVE OwnersInv'
  <2>1. wsPass' = wsPass /\ binding' = [binding EXCEPT ![b] = Nothing]
    BY <1>9 DEF Collect
  <2>2. wsPass # Nothing => wsPass.owned \subseteq Binding
    BY <1>1 DEF PassesTyped, WsPass
  <2>3. QED
    BY <1>1, <2>1, <2>2 DEF OwnersInv, Existing, ObjectsTyped
<1>10. CASE Restart \/ Resync
  BY <1>10 DEF Restart, Resync, objects, passes, OwnersInv, Existing
<1>11. QED
  BY <1>3, <1>4, <1>5, <1>6, <1>7, <1>8, <1>9, <1>10 DEF Next, Controllers, Users

\* Between the edits of users, what a binding grants is only changed where it
\* bears a managed name, and then by the garbage collector or by the pass of
\* the workstation it belongs to, or that takes over one nobody controls.
GrantsLeftAlone ==
    [][edits' = edits =>
         \A b \in Existing(binding) : Grant(b)' # Grant(b) =>
            /\ b \in ManagedBinding
            /\ \/ binding[b].orphan
               \/ /\ EndWs
                  /\ binding[b].owner \in {wsPass.key, Nothing}]_vars

\* One step of GrantsLeftAlone.
LEMMA GrantsStep ==
    ASSUME TypeInv, OwnersInv, [Next]_vars, edits' = edits,
           NEW b \in Existing(binding), Grant(b)' # Grant(b)
    PROVE  /\ b \in ManagedBinding
           /\ \/ binding[b].orphan
              \/ EndWs /\ binding[b].owner \in {wsPass.key, Nothing}
<1>1. /\ ObjectsTyped /\ PassesTyped /\ edits \in Nat
      /\ b \in Binding /\ binding[b] \in BindingObject /\ binding[b] # Nothing
  BY BindingAssumption DEF TypeInv, ObjectsTyped, Existing
<1>2. binding'[b] # binding[b]
  BY DEF Grant
<1>3. CASE EndWs
  BY <1>1, <1>2, <1>3, WsWritesItsOwn
<1>4. CASE EndBinding
  <2>1. Grant(b)' = Grant(b)
    <3>1. bindingPass.fresh /\ b = bindingPass.key
      BY <1>1, <1>2, <1>4 DEF EndBinding, ObjectsTyped
    <3>2. binding'[b] = [binding[b] EXCEPT !.applied = bindingPass.applied,
                                           !.verdict = bindingPass.verdict,
                                           !.conflicts = bindingPass.conflicts]
      BY <1>1, <1>4, <3>1 DEF EndBinding, ObjectsTyped
    <3>3. /\ binding'[b].skill = binding[b].skill /\ binding'[b].pin = binding[b].pin
          /\ binding'[b].subjects = binding[b].subjects
          /\ binding'[b].selector = binding[b].selector
          /\ binding'[b].owner = binding[b].owner
          /\ binding'[b] \in BindingObject
      <4>1. bindingPass \in BindingPass
        BY <1>1, <1>4 DEF EndBinding, PassesTyped
      <4>2. QED
        BY <1>1, <3>2, <4>1 DEF BindingObject, BindingPass
    <3>4. binding'[b] # Nothing
      BY <3>3, NothingAssumption
    <3>5. QED
      BY <1>1, <3>3, <3>4 DEF Grant
  <2>2. QED
    BY <2>1
<1>5. ASSUME NEW c \in Binding, Collect(c)
      PROVE  b \in ManagedBinding /\ binding[b].orphan
  <2>1. c = b /\ binding[b].orphan
    BY <1>1, <1>2, <1>5 DEF Collect, ObjectsTyped
  <2>2. QED
    BY <2>1 DEF OwnersInv
<1>6. ~Edit
  BY <1>1 DEF Edit
<1>7. CASE \/ \E k \in SkillName : BeginSkill(k)
           \/ EndSkill \/ (\E c \in Binding : BeginBinding(c))
           \/ (\E a \in Workstation : BeginWs(a) \/ Timer(a)) \/ Resync
           \/ UNCHANGED vars
  BY <1>2, <1>7 DEF BeginSkill, EndSkill, BeginBinding, BeginWs, Timer, Resync, vars,
                    objects
<1>8. CASE Users \/ Restart
  BY <1>6, <1>8 DEF Users, EditSkill, EditMap, EditPackage, EditBinding, EditWs, Restart
<1>9. QED
  BY <1>3, <1>4, <1>5, <1>7, <1>8 DEF Next, Controllers

\* A pass of a workstation works from the list of bindings it read when it
\* began, and deletes by name.  Nevertheless no pass changes or deletes what
\* belongs to another workstation, nor what a user wrote under a name of his
\* own: what a pass listed can since have been deleted and made anew, but by
\* a user only, as there is one worker.
\* (reconcileSkillRefs, agentworkstation_skillrefs.go)
THEOREM GrantsStayWithTheirOwners == Spec => GrantsLeftAlone
<1>1. Init => OwnersInv
  <2> SUFFICES ASSUME Init PROVE OwnersInv
    OBVIOUS
  <2>1. Existing(binding) = {} /\ wsPass = Nothing
    BY DEF Init, Existing
  <2>2. QED
    BY <2>1 DEF OwnersInv
<1>2. StatusInv => TypeInv
  BY DEF StatusInv
<1>3. TypeInv /\ OwnersInv /\ [Next]_vars
      => [edits' = edits =>
            \A b \in Existing(binding) : Grant(b)' # Grant(b) =>
               /\ b \in ManagedBinding
               /\ \/ binding[b].orphan
                  \/ /\ EndWs
                     /\ binding[b].owner \in {wsPass.key, Nothing}]_vars
  BY GrantsStep
<1>4. QED
  BY <1>1, <1>2, <1>3, StatusInit, StatusKept, OwnersKept, PTL
     DEF Spec, GrantsLeftAlone
-----------------------------------------------------------------------------
(***************************************************************************)
(* Where ControllersSettle and RefsBound come to rest.                     *)
(***************************************************************************)
OwnedBy(a) == {b \in Existing(binding) : binding[b].owner = a}

\* The managed binding of a ref is as the workstation's pass would make it.
AsAsked(a, k) ==
    LET o == binding[NameOf[<<a, k>>]]
    IN /\ o # Nothing
       /\ o.skill = k /\ o.pin = ws[a].refs[k] /\ o.subjects = {a}
       /\ o.owner = a /\ ~o.orphan

\* A pass of the workstation would find nothing to do.
Kept(a) ==
    /\ \A k \in Wanted(a) : ~Blocked(a, k) => AsAsked(a, k)
    /\ (\A k \in Wanted(a) : ~Blocked(a, k))
          => OwnedBy(a) \subseteq {NameOf[<<a, k>>] : k \in Wanted(a)}

\* The pass under way has read what is so now.
WsPassCurrent ==
    wsPass # Nothing =>
        /\ wsPass.key \in Existing(ws) /\ wsPass.alive
        /\ wsPass.refs = ws[wsPass.key].refs
        /\ wsPass.wanted = Wanted(wsPass.key) /\ wsPass.owned = OwnedBy(wsPass.key)

\* Nothing is due for Skills and bindings, nothing to collect, and nothing to
\* do for workstations, whose passes go on every five minutes.
Quiet ==
    /\ queue.skill = {} /\ queue.binding = {}
    /\ skillPass = Nothing /\ bindingPass = Nothing
    /\ \A b \in Existing(binding) : ~binding[b].orphan
    /\ \A a \in Existing(ws) : Kept(a)
    /\ WsPassCurrent

\* CreateOrUpdate finds a binding that is as asked, and leaves it.
LEMMA UpsertIdempotent ==
    ASSUME TypeInv, WsPassCurrent, wsPass # Nothing,
           NEW k \in SkillName, AsAsked(wsPass.key, k)
    PROVE  LET b == NameOf[<<wsPass.key, k>>] IN Upserted(b, k) = binding[b]
<1> DEFINE a == wsPass.key
           b == NameOf[<<a, k>>]
           o == binding[b]
<1>1. a \in Workstation /\ wsPass \in WsPass
  BY DEF TypeInv, PassesTyped, WsPass
<1>2. b \in Binding
  BY <1>1, BindingAssumption DEF Binding
<1>3. o \in BindingObject /\ o # Nothing
  BY <1>2 DEF TypeInv, ObjectsTyped, AsAsked
<1>4. /\ o.skill = k /\ o.pin = wsPass.refs[k] /\ o.subjects = {a} /\ o.owner = a
      /\ o.orphan = FALSE
  BY <1>3 DEF AsAsked, WsPassCurrent, BindingObject
<1>5. wsPass.alive
  BY DEF WsPassCurrent
<1>6. Upserted(b, k) = [o EXCEPT !.skill = k, !.pin = wsPass.refs[k],
                            !.subjects = {a}, !.owner = a, !.orphan = FALSE]
  BY <1>3, <1>5 DEF Upserted
<1> HIDE DEF o, a
<1>7. [o EXCEPT !.skill = k, !.pin = wsPass.refs[k], !.subjects = {a}, !.owner = a,
                !.orphan = FALSE] = o
  BY <1>3, <1>4 DEF BindingObject
<1>8. QED
  BY <1>6, <1>7 DEF a, o

\* The pass of a workstation with nothing to do writes nothing and wakes nobody.
LEMMA QuietWsPass ==
    ASSUME TypeInv, Quiet, EndWs
    PROVE  /\ binding' = binding /\ bindingPass' = bindingPass
           /\ queue'.skill = {} /\ queue'.binding = {}
<1> DEFINE nm(k) == NameOf[<<wsPass.key, k>>]
<1>1. /\ ObjectsTyped /\ QueueTyped /\ wsPass # Nothing /\ WsPassCurrent
      /\ wsPass.key \in Existing(ws) /\ wsPass.wanted \subseteq SkillName
      /\ Kept(wsPass.key) /\ bindingPass = Nothing
  BY DEF EndWs, TypeInv, Quiet, WsPassCurrent, PassesTyped, WsPass
<1>2. PICK done \in SUBSET {k \in wsPass.wanted : ~Blocked(wsPass.key, k)} :
        LET gone == IF done = wsPass.wanted THEN Drift(done) ELSE {}
            after == [b \in Binding |->
                         IF b \in gone THEN Nothing
                         ELSE IF \E k \in done : nm(k) = b
                         THEN Upserted(b, CHOOSE k \in done : nm(k) = b)
                         ELSE binding[b]]
            changed == {b \in Binding : after[b] # binding[b]}
            events == [b \in changed |-> OnBinding(b, binding[b], after[b])]
        IN /\ binding' = after
           /\ BindingsTouched(changed)
           /\ Enqueue([q \in DOMAIN NoEvent |->
                          UNION {events[b][q] : b \in changed}])
  BY DEF EndWs
<1> DEFINE gone == IF done = wsPass.wanted THEN Drift(done) ELSE {}
           after == [b \in Binding |->
                        IF b \in gone THEN Nothing
                        ELSE IF \E k \in done : nm(k) = b
                        THEN Upserted(b, CHOOSE k \in done : nm(k) = b)
                        ELSE binding[b]]
           changed == {b \in Binding : after[b] # binding[b]}
           events == [b \in changed |-> OnBinding(b, binding[b], after[b])]
           all == [q \in DOMAIN NoEvent |-> UNION {events[b][q] : b \in changed}]
<1>3. binding' = after /\ Enqueue(all)
  BY <1>2
<1>4. gone = {}
  <2> SUFFICES ASSUME done = wsPass.wanted PROVE Drift(done) = {}
    OBVIOUS
  <2>1. wsPass.wanted = Wanted(wsPass.key) /\ wsPass.owned = OwnedBy(wsPass.key)
    BY <1>1 DEF WsPassCurrent
  <2>2. \A k \in Wanted(wsPass.key) : ~Blocked(wsPass.key, k)
    BY <1>2, <2>1
  <2>3. OwnedBy(wsPass.key) \subseteq {nm(k) : k \in Wanted(wsPass.key)}
    BY <1>1, <2>2 DEF Kept
  <2>4. QED
    BY <2>1, <2>3 DEF Drift
<1>5. ASSUME NEW b \in Binding, \E k \in done : nm(k) = b
      PROVE  Upserted(b, CHOOSE k \in done : nm(k) = b) = binding[b]
  <2> DEFINE k == CHOOSE k \in done : nm(k) = b
  <2>1. k \in done /\ nm(k) = b
    BY <1>5
  <2> HIDE DEF k
  <2>2. k \in SkillName /\ k \in Wanted(wsPass.key) /\ ~Blocked(wsPass.key, k)
    BY <1>1, <1>2, <2>1 DEF WsPassCurrent
  <2>3. AsAsked(wsPass.key, k)
    BY <1>1, <2>2 DEF Kept
  <2>4. Upserted(b, k) = binding[b]
    BY <1>1, <2>1, <2>2, <2>3, UpsertIdempotent
  <2>5. QED
    BY <2>4 DEF k
<1> HIDE DEF gone
<1>6. \A b \in Binding : after[b] = binding[b]
  BY <1>4, <1>5
<1>7. binding' = binding
  <2>1. after = binding
    BY <1>1, <1>6 DEF ObjectsTyped
  <2>2. QED
    BY <1>3, <2>1
<1>8. changed = {}
  BY <1>6
<1>9. all = [q \in {"skill", "binding", "ws"} |-> {}]
  <2> HIDE DEF changed, events
  <2>1. \A q : UNION {events[b][q] : b \in changed} = {}
    BY <1>8
  <2>2. QED
    BY <2>1 DEF NoEvent
<1> HIDE DEF all
<1>10. all \in Events
  BY <1>9 DEF Events
<1>11. queue'.skill = {} /\ queue'.binding = {}
  BY <1>1, <1>3, <1>9, <1>10, EnqueueTyped DEF Quiet
<1>12. bindingPass' = bindingPass
  BY <1>1 DEF EndWs, BindingsTouched
<1>13. QED
  BY <1>7, <1>11, <1>12

\* What is bound for the workstations, as RefsBound states it of the end.
Bound ==
    \A a \in Existing(ws) : (\A k \in Wanted(a) : ~Blocked(a, k)) =>
        /\ {b \in Existing(binding) : binding[b].owner = a}
              = {NameOf[<<a, k>>] : k \in Wanted(a)}
        /\ \A k \in Wanted(a) :
              LET o == binding[NameOf[<<a, k>>]]
              IN o.skill = k /\ o.pin = ws[a].refs[k] /\ o.subjects = {a}

LEMMA QuietIsBound == TypeInv /\ Quiet => Bound
<1> SUFFICES ASSUME TypeInv, Quiet, NEW a \in Existing(ws),
                    \A k \in Wanted(a) : ~Blocked(a, k)
             PROVE  /\ OwnedBy(a) = {NameOf[<<a, k>>] : k \in Wanted(a)}
                    /\ \A k \in Wanted(a) :
                          LET o == binding[NameOf[<<a, k>>]]
                          IN o.skill = k /\ o.pin = ws[a].refs[k] /\ o.subjects = {a}
  BY Zenon DEF Bound, OwnedBy
<1>1. /\ OwnedBy(a) \subseteq {NameOf[<<a, k>>] : k \in Wanted(a)}
      /\ \A k \in Wanted(a) : AsAsked(a, k)
  BY DEF Quiet, Kept
<1>2. ASSUME NEW k \in Wanted(a) PROVE NameOf[<<a, k>>] \in OwnedBy(a)
  <2>1. ObjectsTyped /\ a \in Workstation /\ k \in SkillName
    BY DEF TypeInv, ObjectsTyped, Existing, Wanted
  <2>2. NameOf[<<a, k>>] \in Binding
    BY <2>1, BindingAssumption DEF Binding
  <2>3. binding[NameOf[<<a, k>>]] # Nothing /\ binding[NameOf[<<a, k>>]].owner = a
    BY <1>1 DEF AsAsked
  <2>4. DOMAIN binding = Binding
    BY <2>1 DEF ObjectsTyped
  <2>5. QED
    BY <2>2, <2>3, <2>4 DEF OwnedBy, Existing
<1>3. OwnedBy(a) = {NameOf[<<a, k>>] : k \in Wanted(a)}
  BY <1>1, <1>2
<1>4. QED
  BY <1>1, <1>3 DEF AsAsked

\* Everything Quiet says of the objects depends on the objects alone.
LEMMA QuietObjects ==
    ASSUME Quiet, UNCHANGED objects
    PROVE  /\ \A b \in Existing(binding)' : ~binding'[b].orphan
           /\ \A a \in Existing(ws)' : Kept(a)'
           /\ wsPass' = wsPass => WsPassCurrent'
<1>1. ws' = ws /\ binding' = binding /\ skill' = skill
  BY DEF objects
<1>2. Existing(ws)' = Existing(ws) /\ Existing(binding)' = Existing(binding)
  BY <1>1 DEF Existing
<1>3. \A a : Wanted(a)' = Wanted(a) /\ OwnedBy(a)' = OwnedBy(a)
  BY <1>1 DEF Wanted, OwnedBy, Existing
<1>4. \A a, k : (Blocked(a, k)' <=> Blocked(a, k)) /\ (AsAsked(a, k)' <=> AsAsked(a, k))
  BY <1>1 DEF Blocked, AsAsked
<1>5. \A a \in Existing(ws)' : Kept(a)'
  BY <1>2, <1>3, <1>4 DEF Quiet, Kept
<1>6. wsPass' = wsPass => WsPassCurrent'
  BY <1>1, <1>2, <1>3 DEF Quiet, WsPassCurrent
<1>7. QED
  BY <1>1, <1>2, <1>5, <1>6 DEF Quiet

\* Until the next edit nobody leaves the quiet but by a resync of the
\* informers, and nobody writes.
LEMMA QuietStep ==
    ASSUME TypeInv, Quiet, [Next]_vars, edits' = edits
    PROVE  (Quiet' \/ Resync) /\ UNCHANGED objects
<1>1. ObjectsTyped /\ QueueTyped /\ PassesTyped /\ edits \in Nat
  BY BindingAssumption DEF TypeInv
<1>2. CASE EndWs
  <2>1. UNCHANGED objects /\ wsPass' = Nothing
    BY <1>2, QuietWsPass DEF EndWs, objects
  <2>2. skillPass' = Nothing /\ bindingPass' = Nothing
    BY <1>2, QuietWsPass DEF EndWs, Quiet
  <2>3. queue'.skill = {} /\ queue'.binding = {}
    BY <1>2, QuietWsPass
  <2>4. QED
    BY <2>1, <2>2, <2>3, QuietObjects DEF Quiet, WsPassCurrent
<1>3. ASSUME NEW a \in Workstation, BeginWs(a) PROVE Quiet' /\ UNCHANGED objects
  <2>1. /\ UNCHANGED objects /\ skillPass' = Nothing /\ bindingPass' = Nothing
        /\ queue'.skill = {} /\ queue'.binding = {}
    BY <1>1, <1>3 DEF BeginWs, Quiet, QueueTyped
  <2>2. WsPassCurrent'
    <3>1. CASE ws[a] = Nothing
      BY <1>3, <3>1 DEF BeginWs, WsPassCurrent
    <3>2. CASE ws[a] # Nothing
      <4>1. a \in Existing(ws)'
        BY <1>1, <1>3, <2>1, <3>2 DEF ObjectsTyped, Existing, objects
      <4>2. wsPass' = [key |-> a, alive |-> TRUE, refs |-> ws[a].refs,
                       wanted |-> Wanted(a), owned |-> OwnedBy(a)]
        BY <1>3, <3>2 DEF BeginWs, Wanted, OwnedBy
      <4>3. Wanted(a)' = Wanted(a) /\ OwnedBy(a)' = OwnedBy(a) /\ ws' = ws
        BY <2>1 DEF Wanted, OwnedBy, Existing, objects
      <4>4. QED
        BY <4>1, <4>2, <4>3 DEF WsPassCurrent
    <3>3. QED
      BY <3>1, <3>2
  <2>3. QED
    BY <2>1, <2>2, QuietObjects DEF Quiet
<1>4. ASSUME NEW a \in Workstation, Timer(a) PROVE Quiet' /\ UNCHANGED objects
  <2>1. /\ UNCHANGED <<objects, wsPass>> /\ skillPass' = Nothing /\ bindingPass' = Nothing
        /\ queue'.skill = {} /\ queue'.binding = {}
    BY <1>1, <1>4 DEF Timer, Quiet, QueueTyped, passes
  <2>2. QED
    BY <2>1, QuietObjects DEF Quiet
<1>5. CASE UNCHANGED vars
  <2>1. UNCHANGED <<objects, queue, skillPass, bindingPass, wsPass>>
    BY <1>5 DEF vars, objects
  <2>2. QED
    BY <2>1, QuietObjects DEF Quiet
<1>6. ~EndSkill /\ ~EndBinding
  BY DEF EndSkill, EndBinding, Quiet
<1>7. \A k \in SkillName : ~BeginSkill(k)
  BY DEF BeginSkill, Quiet
<1>8. \A b \in Binding : ~BeginBinding(b) /\ ~Collect(b)
  BY <1>1 DEF BeginBinding, Collect, Quiet, Existing, ObjectsTyped
<1>9. ~Users /\ ~Restart
  <2>1. ~Edit
    BY <1>1 DEF Edit
  <2>2. QED
    BY <2>1 DEF Users, EditSkill, EditMap, EditPackage, EditBinding, EditWs, Restart
<1>10. CASE Resync
  BY <1>10 DEF Resync
<1>11. QED
  BY <1>2, <1>3, <1>4, <1>5, <1>6, <1>7, <1>8, <1>9, <1>10 DEF Next, Controllers

\* Once quiet, no pass writes an object until a user edits one or the
\* informers list everything again.
QuietStays ==
    [][Quiet /\ edits' = edits => (Quiet' \/ Resync) /\ UNCHANGED objects]_vars

\* The safety half of ControllersSettle and RefsBound: when nothing is due for
\* the status of any object and no workstation has anything to do, all refs
\* are bound, the status of every binding is exact and that of every Skill as
\* SkillStatusFollows says, and nothing is written although the passes of the
\* workstations go on (CreateOrUpdate finds what it would write) until a user
\* edits something or the informers start every pass anew.
THEOREM QuietIsRight ==
    Spec => /\ [](Quiet => Bound /\ BindingStatusExact /\ SkillStatusFollows)
            /\ QuietStays
<1>1. StatusInv => (Quiet => Bound /\ BindingStatusExact /\ SkillStatusFollows)
  BY QuietIsBound, StatusEnough DEF StatusInv
<1>2. StatusInv /\ [Next]_vars
      => [Quiet /\ edits' = edits => (Quiet' \/ Resync) /\ UNCHANGED objects]_vars
  BY QuietStep DEF StatusInv
<1>3. QED
  BY <1>1, <1>2, StatusInit, StatusKept, PTL DEF Spec, QuietStays
=============================================================================
