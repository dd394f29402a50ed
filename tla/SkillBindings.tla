---------------------------- MODULE SkillBindings ----------------------------
(***************************************************************************)
(* Who has which skill, as the status of the objects of one namespace      *)
(* tells it.  Three controllers with one worker each read and write the    *)
(* same objects:                                                           *)
(*   - a SkillBinding's pass resolves its subjects to existing             *)
(*     workstations, checks the pinned version and lists the overlaps with *)
(*     other bindings;                                                     *)
(*   - a Skill's pass hashes its content and unites the workstations its   *)
(*     bindings report;                                                    *)
(*   - a workstation's pass keeps one managed binding for every ref of     *)
(*     spec.skillRefs that names a Skill of the namespace.                 *)
(* Every write is an event that puts other objects into the work queues.   *)
(* A pass reads first and writes later; in between users and the other     *)
(* controllers write too, and a status update is refused when its own      *)
(* object has changed.  Nothing but these events starts a pass, except     *)
(* that a workstation's pass comes back every five minutes and that the    *)
(* informers list everything again every ten hours.  A Skill may take its  *)
(* content from a package of a registry outside, which changes and fails   *)
(* without any event; what was fetched of it is cached for a while.        *)
(***************************************************************************)
EXTENDS Naturals, FiniteSets

CONSTANTS
    Workstation,    \* names of AgentWorkstations
    SkillName,      \* names of Skills
    UserBinding,    \* names of SkillBindings users create
    ManagedBinding, \* names the operator gives to managed bindings
    NameOf,         \* managedSkillBindingName, on <<workstation, skill>>
    Version,        \* spec.version of a Skill
    Text,           \* contents of a SKILL.md
    WsSpec,         \* the specs users give to workstations
    SkillSpec,      \* the specs users give to Skills
    BindingSpec,    \* the specs users give to SkillBindings
    Floating,       \* a skillRef without version
    FromMap,        \* the content comes from the ConfigMap
    FromPackage,    \* the content comes from the package (packageRef)
    Nothing,        \* no object, no content, no pass
    MaxEdits        \* bound: edits by users, and restarts
                    \* and changes of the registry

Binding == UserBinding \cup ManagedBinding
Pin == Version \cup {Floating}

ASSUME BindingAssumption ==
    /\ NameOf \in [Workstation \X SkillName -> ManagedBinding]
    /\ WsSpec \subseteq
          [label : BOOLEAN, refs : UNION {[K -> Pin] : K \in SUBSET SkillName}]
    /\ SkillSpec \subseteq
          [version : Version, source : Text \cup {FromMap, FromPackage}]
    /\ BindingSpec \subseteq
          [skill : SkillName, pin : Pin, subjects : SUBSET Workstation,
           selector : BOOLEAN]
    /\ MaxEdits \in Nat

\* The objects and the passes.
SkillObject ==
    [version : Version, source : Text \cup {FromMap, FromPackage},
     hash : Text \cup {Nothing}, refs : SUBSET Workstation]
\* The package: what the registry serves now, what it ever served, and what
\* the cache of the operator answers with until the entry expires.
Registry ==
    {r \in [now : Text \cup {Nothing}, ever : SUBSET Text,
            cached : Text \cup {Nothing}] :
        {r.now, r.cached} \subseteq r.ever \cup {Nothing}}
BindingObject ==
    [skill : SkillName, pin : Pin, subjects : SUBSET Workstation,
     selector : BOOLEAN, owner : Workstation \cup {Nothing},
     orphan : BOOLEAN, applied : SUBSET Workstation,
     verdict : (Pin \X (Version \cup {Nothing})) \cup {Nothing},
     conflicts : SUBSET (Workstation \X Binding)]
SkillPass ==
    [key : SkillName, fresh : BOOLEAN, hash : Text \cup {Nothing},
     refs : SUBSET Workstation]
BindingPass ==
    [key : Binding, fresh : BOOLEAN, applied : SUBSET Workstation,
     verdict : Pin \X (Version \cup {Nothing}),
     conflicts : SUBSET (Workstation \X Binding)]
WsPass ==
    [key : Workstation, alive : BOOLEAN,
     refs : UNION {[K -> Pin] : K \in SUBSET SkillName},
     wanted : SUBSET SkillName, owned : SUBSET Binding]

ASSUME SourceAssumption ==
    FromMap \notin Text /\ FromPackage \notin Text /\ FromMap # FromPackage

ASSUME NothingAssumption ==
    /\ Nothing \notin Text \cup Version \cup Workstation \cup SkillName \cup Binding
    /\ Nothing \notin WsSpec /\ Nothing \notin SkillSpec /\ Nothing \notin BindingSpec
    /\ Nothing \notin SkillObject /\ Nothing \notin BindingObject
    /\ Nothing \notin SkillPass /\ Nothing \notin BindingPass /\ Nothing \notin WsPass

(***************************************************************************)
(* The objects.  The status of a binding keeps the verdict on its skillRef *)
(* as the pin and the version it was compared with: resolvedSkillVersion   *)
(* and the text of the conditions are functions of the two.  A binding is  *)
(* orphaned when the workstation its owner reference names is gone.        *)
(***************************************************************************)
VARIABLES
    ws,         \* AgentWorkstations
    skill,      \* Skills
    binding,    \* SkillBindings
    map,        \* the ConfigMap Skills take their content from
    registry,   \* the package Skills take their content from
    queue,      \* the work queues of the three controllers
    skillPass, bindingPass, wsPass,     \* the pass of each controller
    edits

objects == <<ws, skill, binding, map>>
passes == <<skillPass, bindingPass, wsPass>>
vars == <<ws, skill, binding, map, registry, queue, skillPass, bindingPass, wsPass, edits>>

NewSkill(s) ==
    [version |-> s.version, source |-> s.source, hash |-> Nothing, refs |-> {}]

NewBinding(s) ==
    [skill |-> s.skill, pin |-> s.pin, subjects |-> s.subjects,
     selector |-> s.selector, owner |-> Nothing, orphan |-> FALSE,
     applied |-> {}, verdict |-> Nothing, conflicts |-> {}]

Existing(objs) == {o \in DOMAIN objs : objs[o] # Nothing}

\* The workstations a binding names or selects, and those that exist.
Audience(o) ==
    IF o = Nothing THEN {}
    ELSE o.subjects \cup {a \in Existing(ws) : o.selector /\ ws[a].label}

Subjects(b) == Audience(binding[b]) \cap Existing(ws)

\* What the source of a Skill holds; of a package, whatever it has held, as
\* nothing tells that it changed, and nothing at all, as nothing retries.
Contents(k) ==
    CASE skill[k].source = FromMap -> {map}
      [] skill[k].source = FromPackage -> registry.ever \cup {Nothing}
      [] OTHER -> {skill[k].source}

\* The answers of the cache and of the registry, with the cache after each.
Fetches ==
    {[text |-> registry.now, cached |-> registry.now]}
        \cup {[text |-> c, cached |-> c] : c \in {registry.cached} \ {Nothing}}

Verdict(b) ==
    LET k == binding[b].skill
    IN <<binding[b].pin, IF skill[k] = Nothing THEN Nothing ELSE skill[k].version>>

\* What other controllers take a binding to apply to: its status, or when
\* that is empty what it would resolve to now.
Reported(b) ==
    IF binding[b].applied # {} THEN binding[b].applied ELSE Subjects(b)

BindingsOf(k) == {b \in Existing(binding) : binding[b].skill = k}

Conflicts(b) ==
    UNION {{<<a, o>> : a \in Reported(o) \cap Subjects(b)} :
              o \in BindingsOf(binding[b].skill) \ {b}}

References(k) == UNION {Reported(b) : b \in BindingsOf(k)}

(***************************************************************************)
(* The events of a write, as what they add to the work queues.  An update  *)
(* is mapped with the old and with the new object.                         *)
(***************************************************************************)
NoEvent == [skill |-> {}, binding |-> {}, ws |-> {}]

Join(e, f) == [q \in DOMAIN e |-> e[q] \cup f[q]]

OnSkill(k) ==
    [skill |-> {k}, binding |-> BindingsOf(k), ws |-> Existing(ws)]

\* Mutant: a status-only update of a binding is not passed on.
MutOnBinding(b, old, new) ==
    [skill |-> IF old = Nothing \/ new = Nothing \/ old.skill # new.skill
               THEN {o.skill : o \in {old, new} \ {Nothing}} ELSE {},
     binding |-> {b}, ws |-> Audience(old) \cup Audience(new)]

OnBinding(b, old, new) ==
    [skill |-> {o.skill : o \in {old, new} \ {Nothing}}, binding |-> {b},
     ws |-> Audience(old) \cup Audience(new)]

\* Mutant: only the bindings that apply to the workstation are told.
MutOnWorkstation(a) ==
    [skill |-> {},
     binding |-> {b \in Existing(binding) : a \in binding[b].applied}, ws |-> {a}]

OnWorkstation(a) ==
    [skill |-> {}, binding |-> Existing(binding), ws |-> {a}]

\* The controllers list everything when they start.
Everything ==
    [skill |-> Existing(skill), binding |-> Existing(binding), ws |-> Existing(ws)]

\* The operator starts in a namespace with nothing but Skills.
Init ==
    /\ ws = [a \in Workstation |-> Nothing]
    /\ \E s \in SkillSpec : skill = [k \in SkillName |-> NewSkill(s)]
    /\ binding = [b \in Binding |-> Nothing]
    /\ map \in Text
    /\ \E c \in Text : registry = [now |-> c, ever |-> {c}, cached |-> Nothing]
    /\ queue = Everything
    /\ skillPass = Nothing /\ bindingPass = Nothing /\ wsPass = Nothing
    /\ edits = 0

Enqueue(e) == queue' = Join(queue, e)

(***************************************************************************)
(* SkillReconciler.                                                        *)
(***************************************************************************)
PassOn(k, text) == [key |-> k, fresh |-> TRUE, hash |-> text, refs |-> References(k)]

BeginSkill(k) ==
    /\ skillPass = Nothing /\ k \in queue.skill
    /\ queue' = [queue EXCEPT !.skill = @ \ {k}]
    /\ \/ /\ skill[k] = Nothing
          /\ UNCHANGED <<skillPass, registry>>
       \/ /\ skill[k] # Nothing /\ skill[k].source # FromPackage
          /\ \E c \in Contents(k) : skillPass' = PassOn(k, c)
          /\ UNCHANGED registry
       \/ /\ skill[k] # Nothing /\ skill[k].source = FromPackage
          /\ \E f \in Fetches : /\ skillPass' = PassOn(k, f.text)
                               /\ registry' = [registry EXCEPT !.cached = f.cached]
    /\ UNCHANGED <<objects, bindingPass, wsPass, edits>>

EndSkill ==
    /\ skillPass # Nothing
    /\ LET k == skillPass.key
           new == [skill[k] EXCEPT !.hash = skillPass.hash, !.refs = skillPass.refs]
       IN IF skillPass.fresh
          THEN /\ skill' = [skill EXCEPT ![k] = new]
               /\ Enqueue(IF new = skill[k] THEN NoEvent ELSE OnSkill(k))
          ELSE /\ queue' = [queue EXCEPT !.skill = @ \cup {k}]
               /\ UNCHANGED skill
    /\ skillPass' = Nothing
    /\ UNCHANGED <<ws, binding, map, registry, bindingPass, wsPass, edits>>

(***************************************************************************)
(* SkillBindingReconciler.                                                 *)
(***************************************************************************)
BeginBinding(b) ==
    /\ bindingPass = Nothing /\ b \in queue.binding
    /\ queue' = [queue EXCEPT !.binding = @ \ {b}]
    /\ bindingPass' =
          IF binding[b] = Nothing THEN Nothing
          ELSE [key |-> b, fresh |-> TRUE, applied |-> Subjects(b),
                verdict |-> Verdict(b), conflicts |-> Conflicts(b)]
    /\ UNCHANGED <<objects, registry, skillPass, wsPass, edits>>

EndBinding ==
    /\ bindingPass # Nothing
    /\ LET b == bindingPass.key
           new == [binding[b] EXCEPT !.applied = bindingPass.applied,
                                     !.verdict = bindingPass.verdict,
                                     !.conflicts = bindingPass.conflicts]
       IN IF bindingPass.fresh
          THEN /\ binding' = [binding EXCEPT ![b] = new]
               /\ Enqueue(IF new = binding[b] THEN NoEvent
                          ELSE OnBinding(b, binding[b], new))
          ELSE /\ queue' = [queue EXCEPT !.binding = @ \cup {b}]
               /\ UNCHANGED binding
    /\ bindingPass' = Nothing
    /\ UNCHANGED <<ws, skill, map, registry, skillPass, wsPass, edits>>

\* The bindings in bs have changed under a pass that is about one of them.
BindingsTouched(bs) ==
    bindingPass' =
        IF bindingPass # Nothing /\ bindingPass.key \in bs
        THEN [bindingPass EXCEPT !.fresh = FALSE] ELSE bindingPass

(***************************************************************************)
(* reconcileSkillRefs.  The pass holds the workstation it read, the refs   *)
(* that name a Skill of the namespace and the bindings labelled with its   *)
(* name.                                                                   *)
(***************************************************************************)
BeginWs(a) ==
    /\ wsPass = Nothing /\ a \in queue.ws
    /\ queue' = [queue EXCEPT !.ws = @ \ {a}]
    /\ wsPass' =
          IF ws[a] = Nothing THEN Nothing
          ELSE [key |-> a, alive |-> TRUE, refs |-> ws[a].refs,
                wanted |-> DOMAIN ws[a].refs \cap Existing(skill),
                owned |-> {b \in Existing(binding) : binding[b].owner = a}]
    /\ UNCHANGED <<objects, registry, skillPass, bindingPass, edits>>

\* Mutant: a binding of another workstation is taken over.
MutBlocked(a, k) == FALSE

\* The name is taken by a binding another workstation controls.
Blocked(a, k) ==
    LET b == NameOf[<<a, k>>]
    IN binding[b] # Nothing /\ binding[b].owner \notin {a, Nothing}

\* Mutant: the subject is the binding instead of the workstation.
MutUpserted(b, k) ==
    [skill |-> k, pin |-> wsPass.refs[k], subjects |-> {b}, selector |-> FALSE,
     owner |-> wsPass.key, orphan |-> ~wsPass.alive, applied |-> {},
     verdict |-> Nothing, conflicts |-> {}]

\* What CreateOrUpdate sets; selector and status are left alone.
Upserted(b, k) ==
    LET old == IF binding[b] # Nothing THEN binding[b]
               ELSE NewBinding([skill |-> k, pin |-> Floating, subjects |-> {},
                                selector |-> FALSE])
    IN [old EXCEPT !.skill = k, !.pin = wsPass.refs[k],
                   !.subjects = {wsPass.key}, !.owner = wsPass.key,
                   !.orphan = ~wsPass.alive]

\* Mutant: a binding whose Skill is gone stays.
MutDrift(done) ==
    wsPass.owned \ {NameOf[<<wsPass.key, k>>] : k \in DOMAIN wsPass.refs}

\* The bindings the workstation had and no ref asks for.
Drift(done) == wsPass.owned \ {NameOf[<<wsPass.key, k>>] : k \in done}

(***************************************************************************)
(* The refs are walked in the order of a Go map.  The first one whose name *)
(* is taken ends the loop with an error: the refs before it are done, and  *)
(* nothing is deleted.  The error is logged and forgotten.                 *)
(***************************************************************************)
EndWs ==
    /\ wsPass # Nothing
    /\ \E done \in SUBSET {k \in wsPass.wanted : ~Blocked(wsPass.key, k)} :
          LET gone == IF done = wsPass.wanted THEN Drift(done) ELSE {}
              after == [b \in Binding |->
                           IF b \in gone THEN Nothing
                           ELSE IF \E k \in done : NameOf[<<wsPass.key, k>>] = b
                           THEN Upserted(b, CHOOSE k \in done :
                                               NameOf[<<wsPass.key, k>>] = b)
                           ELSE binding[b]]
              changed == {b \in Binding : after[b] # binding[b]}
              events == [b \in changed |-> OnBinding(b, binding[b], after[b])]
          IN /\ done = wsPass.wanted \/ \E k \in wsPass.wanted : Blocked(wsPass.key, k)
             /\ binding' = after
             /\ BindingsTouched(changed)
             /\ Enqueue([q \in DOMAIN NoEvent |->
                            UNION {events[b][q] : b \in changed}])
    /\ wsPass' = Nothing
    /\ UNCHANGED <<ws, skill, map, registry, skillPass, edits>>

\* RequeueAfter: five minutes, in which the controller gets idle.
Timer(a) ==
    /\ ws[a] # Nothing /\ queue.ws = {} /\ wsPass = Nothing
    /\ queue' = [queue EXCEPT !.ws = @ \cup {a}]
    /\ UNCHANGED <<objects, registry, passes, edits>>

(***************************************************************************)
(* Users, the garbage collector and the operator's own restarts.           *)
(***************************************************************************)
Edit == edits < MaxEdits /\ edits' = edits + 1

EditSkill(k) ==
    /\ Edit
    /\ \E s \in SkillSpec \cup {Nothing} :
          /\ s # Nothing \/ skill[k] # Nothing
          /\ skill' = [skill EXCEPT ![k] =
                          IF s = Nothing THEN Nothing
                          ELSE IF @ = Nothing THEN NewSkill(s)
                          ELSE [@ EXCEPT !.version = s.version, !.source = s.source]]
    /\ Enqueue(OnSkill(k))
    /\ skillPass' = IF skillPass # Nothing /\ skillPass.key = k
                    THEN [skillPass EXCEPT !.fresh = FALSE] ELSE skillPass
    /\ UNCHANGED <<ws, binding, map, registry, bindingPass, wsPass>>

\* The Skills that take their content from the ConfigMap are told.
EditMap ==
    /\ Edit
    /\ map' \in (Text \cup {Nothing}) \ {map}
    /\ Enqueue([NoEvent EXCEPT !.skill =
                   {k \in Existing(skill) : skill[k].source = FromMap}])
    /\ UNCHANGED <<ws, skill, binding, registry, passes>>

\* The package is published anew, withdrawn or out of reach.
EditPackage ==
    /\ Edit
    /\ \E c \in (Text \cup {Nothing}) \ {registry.now} :
          registry' = [registry EXCEPT !.now = c, !.ever = @ \cup ({c} \ {Nothing})]
    /\ UNCHANGED <<objects, queue, passes>>

EditBinding(b) ==
    /\ Edit
    /\ \E s \in BindingSpec \cup {Nothing} :
          LET new == IF s = Nothing THEN Nothing
                     ELSE IF binding[b] = Nothing THEN NewBinding(s)
                     ELSE [binding[b] EXCEPT !.skill = s.skill, !.pin = s.pin,
                             !.subjects = s.subjects, !.selector = s.selector]
          IN /\ IF binding[b] = Nothing THEN s # Nothing /\ b \in UserBinding
                ELSE new # binding[b]
             /\ binding' = [binding EXCEPT ![b] = new]
             /\ Enqueue(OnBinding(b, binding[b], new))
    /\ BindingsTouched({b})
    /\ UNCHANGED <<ws, skill, map, registry, skillPass, wsPass>>

\* A workstation is created, edited, relabelled or deleted; the bindings of
\* a deleted one are left to the garbage collector.
EditWs(a) ==
    /\ Edit
    /\ \E s \in (WsSpec \cup {Nothing}) \ {ws[a]} : ws' = [ws EXCEPT ![a] = s]
    /\ LET owned == IF ws'[a] # Nothing THEN {}
                    ELSE {b \in Existing(binding) : binding[b].owner = a}
       IN /\ binding' = [b \in Binding |->
                            IF b \in owned THEN [binding[b] EXCEPT !.orphan = TRUE]
                            ELSE binding[b]]
    /\ wsPass' = IF wsPass # Nothing /\ wsPass.key = a /\ ws'[a] = Nothing
                 THEN [wsPass EXCEPT !.alive = FALSE] ELSE wsPass
    /\ Enqueue(OnWorkstation(a))
    /\ UNCHANGED <<skill, map, registry, skillPass, bindingPass>>

\* A binding whose owner is gone is deleted some time later.
Collect(b) ==
    /\ binding[b] # Nothing /\ binding[b].orphan
    /\ binding' = [binding EXCEPT ![b] = Nothing]
    /\ Enqueue(OnBinding(b, binding[b], Nothing))
    /\ BindingsTouched({b})
    /\ UNCHANGED <<ws, skill, map, registry, skillPass, wsPass, edits>>

\* The operator starts anew, with whatever it was doing forgotten.
Restart ==
    /\ Edit
    /\ queue' = Everything
    /\ skillPass' = Nothing /\ bindingPass' = Nothing /\ wsPass' = Nothing
    /\ registry' = [registry EXCEPT !.cached = Nothing]
    /\ UNCHANGED objects

\* The informers' resync, ten hours apart, by when the operator is idle.
Resync ==
    /\ queue = NoEvent
    /\ skillPass = Nothing /\ bindingPass = Nothing /\ wsPass = Nothing
    /\ queue' = Everything
    /\ UNCHANGED <<objects, registry, passes, edits>>

Controllers ==
    \/ \E k \in SkillName : BeginSkill(k)
    \/ EndSkill
    \/ \E b \in Binding : BeginBinding(b)
    \/ EndBinding
    \/ \E a \in Workstation : BeginWs(a) \/ Timer(a)
    \/ EndWs

Users ==
    \/ \E k \in SkillName : EditSkill(k)
    \/ EditMap
    \/ EditPackage
    \/ \E b \in Binding : EditBinding(b)
    \/ \E a \in Workstation : EditWs(a)

Next ==
    \/ Controllers
    \/ Users
    \/ \E b \in Binding : Collect(b)
    \/ Restart
    \/ Resync

Spec == Init /\ [][Next]_vars

(***************************************************************************)
(* A controller with a queue starts a pass, a pass ends, the timer of      *)
(* every workstation fires and the garbage collector works.                *)
(***************************************************************************)
FairSpec ==
    /\ Spec
    /\ WF_vars(\E k \in SkillName : BeginSkill(k)) /\ WF_vars(EndSkill)
    /\ WF_vars(\E b \in Binding : BeginBinding(b)) /\ WF_vars(EndBinding)
    /\ WF_vars(\E a \in Workstation : BeginWs(a)) /\ WF_vars(EndWs)
    /\ \A a \in Workstation : SF_vars(Timer(a))
    /\ WF_vars(\E b \in Binding : Collect(b))

(***************************************************************************)
(* Properties.                                                             *)
(***************************************************************************)

\* The types of the variables.
TypeOK ==
    /\ ws \in [Workstation -> WsSpec \cup {Nothing}]
    /\ skill \in [SkillName -> SkillObject \cup {Nothing}]
    /\ binding \in [Binding -> BindingObject \cup {Nothing}]
    /\ map \in Text \cup {Nothing} /\ registry \in Registry
    /\ queue \in [skill : SUBSET SkillName, binding : SUBSET Binding,
                  ws : SUBSET Workstation]
    /\ skillPass \in SkillPass \cup {Nothing}
    /\ bindingPass \in BindingPass \cup {Nothing}
    /\ wsPass \in WsPass \cup {Nothing}
    /\ edits \in 0..MaxEdits

\* Neither queued nor in a pass.
SkillAtRest(k) ==
    /\ skill[k] # Nothing /\ k \notin queue.skill
    /\ skillPass # Nothing => skillPass.key # k

BindingAtRest(b) ==
    /\ binding[b] # Nothing /\ b \notin queue.binding
    /\ bindingPass # Nothing => bindingPass.key # b

\* Of two bindings that grant one skill to one workstation, at least one says
\* so once both are at rest, although a change of one starts no pass of the
\* other (detectSkillBindingConflicts).
OverlapReported ==
    \A b, o \in Binding :
        BindingAtRest(b) /\ BindingAtRest(o) /\ b # o
        /\ binding[b].skill = binding[o].skill
        => \A a \in Subjects(b) \cap Subjects(o) :
              <<a, o>> \in binding[b].conflicts \/ <<a, b>> \in binding[o].conflicts

\* The status of a binding no pass is due for is exact, whatever was created,
\* relabelled, re-versioned or deleted while its last pass was under way: no
\* edit reaches a pass's gap without an event of its own
\* (SkillBindingReconciler.SetupWithManager).
BindingStatusExact ==
    /\ OverlapReported
    /\ \A b \in Binding : BindingAtRest(b) =>
          binding[b].applied = Subjects(b) /\ binding[b].verdict = Verdict(b)

\* A Skill no pass is due for shows the hash of what its inline text or its
\* ConfigMap holds now, or of what its package held at some time or of
\* nothing, and misses no workstation a binding reports, although neither the
\* workstations nor the subjects of a binding are watched by its controller
\* (resolveReferencedBy, mapSB, mapCM).
SkillStatusFollows ==
    \A k \in SkillName : SkillAtRest(k) =>
        /\ skill[k].hash \in Contents(k)
        /\ \A b \in BindingsOf(k) : binding[b].applied \subseteq skill[k].refs

\* referencedBy "stays accurate" (SkillReconciler.SetupWithManager).
ReferencesExact ==
    \A k \in SkillName :
        SkillAtRest(k) /\ (\A b \in BindingsOf(k) : BindingAtRest(b))
        => skill[k].refs = UNION {binding[b].applied : b \in BindingsOf(k)}

\* The three controllers, which wake each other with every status they write,
\* and two workstations whose managed bindings would have the same name, stop
\* writing once the users do.
ControllersSettle == <>[][UNCHANGED objects]_vars

Wanted(a) == DOMAIN ws[a].refs \cap Existing(skill)

\* A workstation none of whose names is taken ends up with one managed binding
\* for every ref that names a Skill, granting just that, and no other one
\* (reconcileSkillRefs), whatever users do to the bindings.
RefsBound ==
    <>[](\A a \in Existing(ws) : (\A k \in Wanted(a) : ~Blocked(a, k)) =>
            /\ {b \in Existing(binding) : binding[b].owner = a}
                  = {NameOf[<<a, k>>] : k \in Wanted(a)}
            /\ \A k \in Wanted(a) :
                  LET o == binding[NameOf[<<a, k>>]]
                  IN o.skill = k /\ o.pin = ws[a].refs[k] /\ o.subjects = {a})
=============================================================================
