------------------------- MODULE SkillDeliveryProofs -------------------------
(***************************************************************************)
(* Theorems about SkillDelivery for every set of Skills, packages and      *)
(* workspaces, any number of edits, faults, outages and restarts, and      *)
(* every order in which the requests of two workers are answered.          *)
(*                                                                         *)
(* A text travels from the registry through a job and the cache into what  *)
(* a pass has found, and from there into the workspace.  What is pinned by *)
(* digest is compared with it once, before it enters the cache; the rest   *)
(* of the way it has to be carried under a key, a job and a name that      *)
(* nobody else can put another text under.                                 *)
(*                                                                         *)
(* A workspace that has what is due stays as it is: section 8 says of the  *)
(* cache, the jobs and the pass what they are while nothing moves.         *)
(***************************************************************************)
EXTENDS SkillDelivery, WellFoundedInduction, TLAPS

-----------------------------------------------------------------------------
(* 1. Looking a ref up                                                     *)

\* The order of the natural numbers has no infinite descent.
Less == {p \in Nat \X Nat : p[1] < p[2]}

LEMMA LessDescends == IsWellFoundedOn(Less, Nat)
BY Zenon, NatLessThanWellFounded DEF OpToRel, Less

\* A set of Skills that is not empty has a first one by name.
LEMMA FirstIsIn ==
    ASSUME NEW S \in SUBSET Resource, S # {}
    PROVE  FirstByName(S) \in S
<1> DEFINE T == {Order[r] : r \in S}
<1>1. T \subseteq Nat /\ T # {} /\ \A r \in S : Order[r] \in Nat
  BY DeliveryAssumption DEF DeliveryAssumption
<1>2. PICK x \in T : \A y \in T : ~ (<<y, x>> \in Less)
  <2> HIDE DEF T
  <2>1. QED
    BY <1>1, LessDescends, WFMin
<1>3. \A y \in T : x <= y
  <2> HIDE DEF T
  <2>1. ASSUME NEW y \in T PROVE x <= y
    <3>1. x \in Nat /\ y \in Nat /\ ~ (<<y, x>> \in Less)
      BY <1>1, <1>2, <2>1
    <3>2. y < x => <<y, x>> \in Less
      BY <3>1 DEF Less
    <3>3. QED
      BY <3>1, <3>2
  <2>2. QED
    BY <2>1
<1>4. \E r \in S : \A q \in S : Order[r] <= Order[q]
  BY <1>3
<1>5. QED
  BY <1>4 DEF FirstByName

\* A ref resolves to a Skill that exists and bears the name, by label or by
\* its own name, in whichever of the five sets it was found.
LEMMA RefIsMeant ==
    ASSUME NEW n \in Folder, NEW pin, NEW listed, skills \in [Resource -> SkillSpec \cup {Nothing}],
           RefSkill(n, pin, listed) # Nothing
    PROVE  /\ RefSkill(n, pin, listed) \in Existing
           /\ RefSkill(n, pin, listed) \in Meant(n)
<1> DEFINE sets == Preference(n, pin, listed)
           tried == {i \in 1..5 : sets[i] # {}}
           i == CHOOSE k \in tried : \A j \in tried : k <= j
<1>1. \A k \in 1..5 : sets[k] \subseteq Existing \cap Meant(n)
  <2>1. Existing \subseteq Resource
    BY DEF Existing
  <2>2. Labelled(n) \subseteq Existing \cap Meant(n) /\ Named(n) \subseteq Existing \cap Meant(n)
    BY <2>1 DEF Labelled, Named, Meant
  <2>3. /\ sets[1] \subseteq Labelled(n) /\ sets[2] \subseteq Labelled(n)
        /\ sets[3] \subseteq Labelled(n) /\ sets[4] \subseteq Named(n)
        /\ sets[5] \subseteq Named(n)
    BY DEF Preference
  <2>4. QED
    BY <2>2, <2>3
<1>2. tried # {} /\ RefSkill(n, pin, listed) = FirstByName(sets[i])
  BY DEF RefSkill
<1> HIDE DEF sets
<1>3. \E k \in tried : \A j \in tried : k <= j
  <2>1. CASE 1 \in tried
    BY <2>1
  <2>2. CASE 1 \notin tried /\ 2 \in tried
    BY <2>2
  <2>3. CASE 1 \notin tried /\ 2 \notin tried /\ 3 \in tried
    BY <2>3
  <2>4. CASE 1 \notin tried /\ 2 \notin tried /\ 3 \notin tried /\ 4 \in tried
    BY <2>4
  <2>5. CASE 1 \notin tried /\ 2 \notin tried /\ 3 \notin tried /\ 4 \notin tried
    BY <1>2, <2>5
  <2>6. QED
    BY <2>1, <2>2, <2>3, <2>4, <2>5
<1>4. i \in tried
  BY <1>3
<1> HIDE DEF i
<1>5. sets[i] \subseteq Existing \cap Meant(n) /\ sets[i] # {} /\ sets[i] \in SUBSET Resource
  BY <1>1, <1>4 DEF Existing
<1>6. QED
  BY <1>2, <1>5, FirstIsIn

-----------------------------------------------------------------------------
(* 2. Types                                                                *)

\* The parts of TypeOK.
WorldTyped ==
    /\ skills \in [Resource -> SkillSpec \cup {Nothing}]
    /\ \A r \in Existing : skills[r] \in SpecOf[r]
    /\ map \in Text \cup {Nothing} /\ refs \in RefSpec
    /\ registry \in Registry
    /\ up \in BOOLEAN /\ image \in Image /\ kbs \subseteq KnowledgeBase
    /\ kbRefs \subseteq KnowledgeBase

OutcomeTyped ==
    /\ skillSet \subseteq Folder \X Version /\ epoch \in Nat
    /\ folder \in [Folder -> Text \cup {Nothing}]
    /\ bundled \in [Folder -> SUBSET Text]
    /\ wiki \in (SUBSET KnowledgeBase) \cup {Nothing}
    /\ index = Nothing \/ index \in [listed : SUBSET KnowledgeBase,
                                     refused : SUBSET KnowledgeBase]

CacheTyped == cache \in [Package -> Entry \cup {Nothing}]

WorkTyped ==
    /\ pass \in Pass \cup {Nothing}
    /\ job \in [Worker -> Job \cup {Nothing}]

CountersTyped == edits \in 0..MaxEdits /\ faults \in 0..MaxFaults

\* The agent resolves only in a pass, and for a name; a pass that has seeded
\* takes nothing more; the Skills a pass has listed are those it saw.
Coupled ==
    /\ job["agent"] # Nothing => pass # Nothing /\ pass.taking # Nothing
    /\ pass # Nothing =>
          /\ pass.seeded => pass.todo = {} /\ job["agent"] = Nothing
          /\ ~Declared => \A r \in pass.todo : r \in Resource /\ pass.seen[r] \in SpecOf[r]

-----------------------------------------------------------------------------
(* 3. Where a text may be                                                  *)

\* What may be under a name.
Good(f, text) == Vouchable(f) => text \in Vouched(f)

\* What the cache keeps for a digest is the text with that digest.
CacheGood ==
    \A p \in Package :
        p.digest # Unpinned /\ cache[p] # Nothing => cache[p].text = p.digest

\* What a worker has fetched for a digest is the text with that digest.
FetchedGood ==
    \A w \in Worker :
        job[w] # Nothing /\ job[w].source \in Package
        /\ job[w].source.digest # Unpinned /\ job[w].body # Nothing
        => job[w].body = job[w].source.digest

\* What a pass has found, and what it is resolving, is from a Skill of the name.
FoundGood ==
    pass # Nothing =>
        /\ \A f \in Folder : pass.found[f] # Nothing => Good(f, pass.found[f].text)
        /\ job["agent"] # Nothing => job["agent"].source \in Sources(pass.taking.as)

WorkInv == WorkTyped /\ Coupled /\ FetchedGood /\ FoundGood

DeliveryInv ==
    /\ WorldTyped /\ OutcomeTyped /\ CacheTyped /\ CountersTyped
    /\ WorkInv /\ CacheGood /\ PinnedContentOnly

\* Faults and edits are counted up to their bounds.
LEMMA CountersKept ==
    ASSUME CountersTyped
    PROVE  /\ Edit => edits' \in 0..MaxEdits
           /\ Fault => faults' \in 0..MaxFaults
BY DeliveryAssumption DEF DeliveryAssumption, CountersTyped, Edit, Fault

\* The digest of a package that a Skill of the name may have is good for it,
\* and so is a body of its own; a ConfigMap and what is not pinned leave a name
\* for which nothing is promised.
LEMMA SourcesGood ==
    ASSUME NEW f \in Folder, NEW s \in Sources(f)
    PROVE  /\ s \in Text => Good(f, s)
           /\ s = FromMap => \A text : Good(f, text)
           /\ s \in Package /\ s.digest # Unpinned => Good(f, s.digest)
           /\ s \in Package /\ s.digest = Unpinned => \A text : Good(f, text)
BY DEF Good, Vouchable, Vouched

\* A Skill that bears a name has a source of the name.
LEMMA MeantSources ==
    ASSUME NEW f \in Folder, NEW r \in Meant(f), NEW spec \in SpecOf[r]
    PROVE  spec.source \in Sources(f) /\ spec \in SkillSpec
<1>1. spec.source \in Sources(f)
  BY DEF Sources
<1>2. r \in Resource
  BY DEF Meant
<1>3. QED
  BY <1>1, <1>2, DeliveryAssumption DEF DeliveryAssumption, SkillSpec

-----------------------------------------------------------------------------
(* 4. Taking and resolving a Skill                                         *)

\* A pass takes a Skill that bears the name.
LEMMA TakeKept ==
    ASSUME WorkInv, pass # Nothing, job["agent"] = Nothing, NEW task \in pass.todo,
           NEW as \in Folder, NEW spec \in SkillSpec, spec.source \in Sources(as),
           Take(task, as, spec)
    PROVE  WorkInv'
<1>1. /\ WorkTyped /\ Coupled /\ FetchedGood /\ FoundGood
      /\ pass \in Pass /\ ~pass.seeded /\ job \in [Worker -> Job \cup {Nothing}]
      /\ spec.version \in Version /\ spec.source \in Text \cup {FromMap} \cup Package
  BY DEF WorkInv, WorkTyped, Coupled, SkillSpec, Source
<1> DEFINE left == pass.todo \ {task}
<1>2. left \in SUBSET (Folder \cup Resource) /\ left \subseteq pass.todo
  BY <1>1 DEF Pass
<1>3. CASE spec.source \in Text
  <2> DEFINE item == [version |-> spec.version, text |-> spec.source]
             found == [pass.found EXCEPT ![as] = item]
  <2>1. pass' = [pass EXCEPT !.todo = left, !.found = found] /\ job' = job
    BY <1>1, <1>3 DEF Take, Pass
  <2>2. item \in Found /\ found \in [Folder -> Found \cup {Nothing}]
    BY <1>1, <1>3 DEF Found, Pass
  <2>3. /\ \A f \in Folder : found[f] = IF f = as THEN item ELSE pass.found[f]
        /\ item.text = spec.source
    BY <1>1 DEF Pass
  <2> HIDE DEF left, found, item
  <2>4. /\ pass' \in Pass /\ pass'.todo = left /\ pass'.found = found
        /\ pass'.refs = pass.refs /\ pass'.seen = pass.seen
        /\ pass'.taking = pass.taking /\ ~pass'.seeded
    BY <1>1, <1>2, <2>1, <2>2 DEF Pass
  <2>5. pass' # Nothing
    BY <2>4, DistinctAssumption DEF DistinctAssumption
  <2>6. WorkTyped' /\ Coupled' /\ FetchedGood'
    BY <1>1, <1>2, <2>1, <2>4, <2>5 DEF WorkTyped, Coupled, Declared, FetchedGood
  <2>7. FoundGood'
    <3>1. Good(as, item.text)
      BY <1>3, <2>3, SourcesGood
    <3>2. \A f \in Folder : pass.found[f] # Nothing => Good(f, pass.found[f].text)
      BY <1>1 DEF FoundGood
    <3>3. job'["agent"] = Nothing
      BY <2>1
    <3>4. \A f \in Folder : found[f] # Nothing => Good(f, found[f].text)
      BY <2>3, <3>1, <3>2
    <3>5. QED
      BY <2>4, <3>3, <3>4 DEF FoundGood, Good, Vouchable, Vouched, Sources, Meant
  <2>8. QED
    BY <2>6, <2>7 DEF WorkInv
<1>4. CASE spec.source \notin Text
  <2> DEFINE tk == [as |-> as, version |-> spec.version]
             start == [source |-> spec.source, url |-> Nothing, body |-> Nothing]
  <2>1. /\ pass' = [pass EXCEPT !.todo = left, !.taking = tk]
        /\ job' = [job EXCEPT !["agent"] = start]
    BY <1>4 DEF Take, Start
  <2>2. /\ tk \in [as : Folder, version : Version] /\ tk.as = as
        /\ start \in Job /\ start.body = Nothing /\ start.source = spec.source
    BY <1>1, <1>4 DEF Job
  <2> HIDE DEF left, tk, start
  <2>3. /\ pass' \in Pass /\ pass'.todo = left /\ pass'.found = pass.found
        /\ pass'.refs = pass.refs /\ pass'.seen = pass.seen
        /\ pass'.taking = tk /\ ~pass'.seeded
    BY <1>1, <1>2, <2>1, <2>2 DEF Pass
  <2>4. /\ job' \in [Worker -> Job \cup {Nothing}] /\ job'["agent"] = start
        /\ \A w \in Worker : w # "agent" => job'[w] = job[w]
    BY <1>1, <2>1, <2>2 DEF Worker
  <2>5. pass' # Nothing /\ tk # Nothing /\ start # Nothing
    BY <2>2, <2>3, DistinctAssumption DEF DistinctAssumption
  <2>6. WorkTyped' /\ Coupled'
    BY <1>1, <1>2, <2>3, <2>4, <2>5 DEF WorkTyped, Coupled, Declared
  <2>7. FetchedGood'
    BY <1>1, <2>2, <2>4 DEF FetchedGood
  <2>8. FoundGood'
    BY <1>1, <2>2, <2>3, <2>4 DEF FoundGood, Good, Vouchable, Vouched, Sources, Meant
  <2>9. QED
    BY <2>6, <2>7, <2>8 DEF WorkInv
<1>5. QED
  BY <1>3, <1>4

\* A worker's resolve ends; the agent's with a text that is good for the name.
LEMMA AnswerKept ==
    ASSUME WorkInv, NEW w \in Worker, job[w] # Nothing, NEW text \in Text \cup {Nothing},
           w = "agent" /\ text # Nothing => Good(pass.taking.as, text),
           Answer(w, text)
    PROVE  WorkInv'
<1>1. /\ WorkTyped /\ Coupled /\ FetchedGood /\ FoundGood
      /\ job \in [Worker -> Job \cup {Nothing}] /\ pass \in Pass \cup {Nothing}
  BY DEF WorkInv, WorkTyped
<1>2. job' = [job EXCEPT ![w] = Nothing]
  BY DEF Answer
<1>3. /\ job' \in [Worker -> Job \cup {Nothing}] /\ job'[w] = Nothing
      /\ \A v \in Worker : v # w => job'[v] = job[v]
  BY <1>1, <1>2
<1>4. FetchedGood'
  BY <1>1, <1>3 DEF FetchedGood
<1>5. CASE w = "other"
  <2>1. pass' = pass /\ job'["agent"] = job["agent"]
    BY <1>3, <1>5 DEF Answer, Worker
  <2>2. WorkTyped' /\ Coupled'
    BY <1>1, <1>3, <2>1 DEF WorkTyped, Coupled, Declared
  <2>3. FoundGood'
    BY <1>1, <2>1 DEF FoundGood, Good, Vouchable, Vouched, Sources, Meant
  <2>4. QED
    BY <1>4, <2>2, <2>3 DEF WorkInv
<1>6. CASE w = "agent"
  <2>1. /\ pass \in Pass /\ pass # Nothing /\ ~pass.seeded /\ job'["agent"] = Nothing
        /\ pass.taking \in [as : Folder, version : Version]
    BY <1>1, <1>3, <1>6 DEF Coupled, Pass
  <2>2. CASE text = Nothing
    <3>1. pass' = [pass EXCEPT !.taking = Nothing]
      BY <1>6, <2>2 DEF Answer
    <3>2. /\ pass' \in Pass /\ pass'.todo = pass.todo /\ pass'.found = pass.found
          /\ pass'.refs = pass.refs /\ pass'.seen = pass.seen /\ ~pass'.seeded
      BY <2>1, <3>1 DEF Pass
    <3>3. WorkTyped' /\ Coupled'
      BY <1>1, <1>3, <2>1, <3>2 DEF WorkTyped, Coupled, Declared
    <3>4. FoundGood'
      BY <1>1, <2>1, <3>2 DEF FoundGood, Good, Vouchable, Vouched, Sources, Meant
    <3>5. QED
      BY <1>4, <3>3, <3>4 DEF WorkInv
  <2>3. CASE text # Nothing
    <3> DEFINE as == pass.taking.as
               item == [version |-> pass.taking.version, text |-> text]
               found == [pass.found EXCEPT ![as] = item]
    <3>1. pass' = [pass EXCEPT !.taking = Nothing, !.found = found]
      BY <1>6, <2>1, <2>3 DEF Answer, Pass
    <3>2. item \in Found /\ as \in Folder /\ item.text = text
      BY <2>1, <2>3 DEF Found
    <3>3. /\ found \in [Folder -> Found \cup {Nothing}]
          /\ \A f \in Folder : found[f] = IF f = as THEN item ELSE pass.found[f]
      BY <2>1, <3>2 DEF Pass
    <3>4. Good(as, text)
      BY <1>6, <2>3
    <3> HIDE DEF found, item, as
    <3>5. /\ pass' \in Pass /\ pass'.todo = pass.todo /\ pass'.found = found
          /\ pass'.refs = pass.refs /\ pass'.seen = pass.seen /\ ~pass'.seeded
      BY <2>1, <3>1, <3>3 DEF Pass
    <3>6. WorkTyped' /\ Coupled'
      BY <1>1, <1>3, <2>1, <3>5 DEF WorkTyped, Coupled, Declared
    <3>7. FoundGood'
      <4>1. \A f \in Folder : pass.found[f] # Nothing => Good(f, pass.found[f].text)
        BY <1>1, <2>1 DEF FoundGood
      <4>2. \A f \in Folder : found[f] # Nothing => Good(f, found[f].text)
        BY <3>2, <3>3, <3>4, <4>1
      <4>3. QED
        BY <2>1, <3>5, <4>2 DEF FoundGood, Good, Vouchable, Vouched, Sources, Meant
    <3>8. QED
      BY <1>4, <3>6, <3>7 DEF WorkInv
  <2>4. QED
    BY <2>2, <2>3
<1>7. QED
  BY <1>5, <1>6 DEF Worker

\* A pass begins with nothing found and nothing being resolved.
LEMMA BeginKept ==
    ASSUME WorldTyped, WorkInv, NEW listed \in BOOLEAN, Begin(listed)
    PROVE  WorkInv'
<1>1. /\ WorkTyped /\ Coupled /\ FetchedGood
      /\ pass = Nothing /\ job["agent"] = Nothing /\ job' = job
  BY DEF WorkInv, Coupled, Begin, Idle
<1>2. DOMAIN refs \subseteq Folder
  BY DeliveryAssumption DEF DeliveryAssumption, WorldTyped
<1> DEFINE todo == IF DOMAIN refs # {} THEN DOMAIN refs
                   ELSE {r \in Existing \ Platform : listed}
           seen == IF DOMAIN refs = {} THEN skills
                   ELSE [r \in Resource |-> Nothing]
           new == [refs |-> refs, kbRefs |-> kbRefs, overtaken |-> FALSE,
                   todo |-> todo, seen |-> seen, found |-> NoText,
                   taking |-> Nothing, seeded |-> FALSE]
<1>3. pass' = new
  BY DEF Begin
<1>4. /\ todo \in SUBSET (Folder \cup Resource)
      /\ seen \in [Resource -> SkillSpec \cup {Nothing}]
      /\ NoText \in [Folder -> Found \cup {Nothing}]
      /\ \A f \in Folder : NoText[f] = Nothing
      /\ refs \in RefSpec /\ kbRefs \in SUBSET KnowledgeBase
  BY <1>2 DEF WorldTyped, Existing, NoText
<1>5. DOMAIN refs = {} => \A r \in todo : r \in Resource /\ seen[r] \in SpecOf[r]
  BY DEF WorldTyped, Existing
<1> HIDE DEF todo, seen
<1>6. /\ new \in Pass /\ new.seeded = FALSE /\ new.refs = refs
      /\ new.todo = todo /\ new.seen = seen /\ new.found = NoText
  BY <1>4 DEF Pass
<1> HIDE DEF new
<1>7. pass' # Nothing
  BY <1>3, <1>6, DistinctAssumption DEF DistinctAssumption
<1>8. WorkTyped' /\ Coupled' /\ FetchedGood'
  BY <1>1, <1>3, <1>5, <1>6 DEF WorkTyped, Coupled, Declared, FetchedGood
<1>9. FoundGood'
  BY <1>1, <1>3, <1>4, <1>6 DEF FoundGood
<1>10. QED
  BY <1>8, <1>9 DEF WorkInv

\* A name is done without a Skill.
LEMMA SkipKept ==
    ASSUME WorkInv, pass # Nothing, NEW task \in pass.todo,
           pass' = [pass EXCEPT !.todo = @ \ {task}], UNCHANGED job
    PROVE  WorkInv'
<1>1. /\ WorkTyped /\ Coupled /\ FetchedGood /\ FoundGood /\ pass \in Pass
  BY DEF WorkInv, WorkTyped
<1> DEFINE left == pass.todo \ {task}
<1>2. left \in SUBSET (Folder \cup Resource) /\ left \subseteq pass.todo
  BY <1>1 DEF Pass
<1>3. pass' = [pass EXCEPT !.todo = left]
  BY <1>1 DEF Pass
<1> HIDE DEF left
<1>4. /\ pass' \in Pass /\ pass'.todo = left /\ pass'.found = pass.found
      /\ pass'.refs = pass.refs /\ pass'.seen = pass.seen
      /\ pass'.taking = pass.taking /\ pass'.seeded = pass.seeded
  BY <1>1, <1>2, <1>3 DEF Pass
<1>5. pass' # Nothing
  BY <1>4, DistinctAssumption DEF DistinctAssumption
<1>6. WorkTyped' /\ Coupled' /\ FetchedGood'
  BY <1>1, <1>2, <1>4, <1>5 DEF WorkTyped, Coupled, Declared, FetchedGood
<1>7. FoundGood'
  BY <1>1, <1>4 DEF FoundGood, Good, Vouchable, Vouched, Sources, Meant
<1>8. QED
  BY <1>6, <1>7 DEF WorkInv

\* The Skill a ref resolves to bears the ref's name.
LEMMA LookUpKept ==
    ASSUME WorldTyped, WorkInv, NEW n \in Folder, NEW listed \in BOOLEAN,
           LookUp(n, listed)
    PROVE  WorkInv'
<1> DEFINE r == RefSkill(n, pass.refs[n], listed)
<1>1. pass # Nothing /\ job["agent"] = Nothing /\ n \in pass.todo
  BY DEF LookUp, Idle
<1>2. CASE r # Nothing /\ Fits(r, pass.refs[n])
  <2>1. r \in Existing /\ r \in Meant(n)
    BY <1>2, RefIsMeant DEF WorldTyped
  <2>2. Take(n, n, skills[r])
    BY <1>2 DEF LookUp
  <2> HIDE DEF r
  <2>3. skills[r] \in SpecOf[r]
    BY <2>1 DEF WorldTyped
  <2>4. skills[r].source \in Sources(n) /\ skills[r] \in SkillSpec
    BY <2>1, <2>3, MeantSources
  <2>5. QED
    BY <1>1, <2>2, <2>4, TakeKept
<1>3. CASE ~(r # Nothing /\ Fits(r, pass.refs[n]))
  <2>1. pass' = [pass EXCEPT !.todo = @ \ {n}] /\ UNCHANGED job
    BY <1>3 DEF LookUp
  <2>2. QED
    BY <1>1, <2>1, SkipKept
<1>4. QED
  BY <1>2, <1>3

\* So does a listed Skill.
LEMMA TakeListedKept ==
    ASSUME WorkInv, NEW r \in Resource, TakeListed(r)
    PROVE  WorkInv'
<1>1. /\ pass # Nothing /\ job["agent"] = Nothing /\ r \in pass.todo
      /\ Take(r, Called[r], pass.seen[r]) /\ pass.seen[r] \in SpecOf[r]
  BY DEF TakeListed, Idle, WorkInv, Coupled
<1>2. Called[r] \in Folder /\ r \in Meant(Called[r])
  BY DeliveryAssumption DEF DeliveryAssumption, Meant
<1>3. pass.seen[r].source \in Sources(Called[r]) /\ pass.seen[r] \in SkillSpec
  BY <1>1, <1>2, MeantSources
<1>4. QED
  BY <1>1, <1>2, <1>3, TakeKept

\* What a worker resolves changes but for its source.
LEMMA JobKept ==
    ASSUME WorkInv, NEW w \in Worker, NEW j \in Job,
           w = "agent" => job[w] # Nothing /\ j.source = job[w].source,
           j.body # Nothing /\ j.source \in Package /\ j.source.digest # Unpinned
               => j.body = j.source.digest,
           job' = [job EXCEPT ![w] = j], UNCHANGED pass
    PROVE  WorkInv'
<1>1. /\ WorkTyped /\ Coupled /\ FetchedGood /\ FoundGood
      /\ job \in [Worker -> Job \cup {Nothing}]
  BY DEF WorkInv, WorkTyped
<1>2. /\ job' \in [Worker -> Job \cup {Nothing}] /\ job'[w] = j
      /\ \A v \in Worker : v # w => job'[v] = job[v]
  BY <1>1
<1>3. WorkTyped' /\ FetchedGood'
  BY <1>1, <1>2 DEF WorkTyped, FetchedGood
<1>4. Coupled' /\ FoundGood'
  <2>1. CASE w = "agent"
    <3>1. job["agent"] # Nothing /\ job'["agent"].source = job["agent"].source
      BY <1>2, <2>1
    <3>2. Coupled'
      BY <1>1, <3>1 DEF Coupled, Declared
    <3>3. FoundGood'
      BY <1>1, <3>1 DEF FoundGood, Good, Vouchable, Vouched, Sources, Meant
    <3>4. QED
      BY <3>2, <3>3
  <2>2. CASE w # "agent"
    <3>1. job'["agent"] = job["agent"]
      BY <1>2, <2>2 DEF Worker
    <3>2. Coupled'
      BY <1>1, <3>1 DEF Coupled, Declared
    <3>3. FoundGood'
      BY <1>1, <3>1 DEF FoundGood, Good, Vouchable, Vouched, Sources, Meant
    <3>4. QED
      BY <3>2, <3>3
  <2>3. QED
    BY <2>1, <2>2
<1>5. QED
  BY <1>3, <1>4 DEF WorkInv

\* The agent resolves a source of the name it takes.
LEMMA TakingIsMeant ==
    ASSUME WorkInv, job["agent"] # Nothing
    PROVE  /\ pass.taking.as \in Folder
           /\ job["agent"].source \in Sources(pass.taking.as)
<1>1. /\ pass \in Pass /\ pass # Nothing /\ pass.taking # Nothing
      /\ job["agent"].source \in Sources(pass.taking.as)
  BY DEF WorkInv, WorkTyped, Coupled, FoundGood
<1>2. pass.taking \in [as : Folder, version : Version]
  BY <1>1 DEF Pass
<1>3. QED
  BY <1>1, <1>2

LEMMA OtherBeginsKept ==
    ASSUME WorkInv, NEW r \in Resource, OtherBegins(r)
    PROVE  WorkInv'
<1> DEFINE j == [source |-> skills[r].source, url |-> Nothing, body |-> Nothing]
<1>1. /\ j \in Job /\ j.body = Nothing
      /\ job' = [job EXCEPT !["other"] = j] /\ UNCHANGED pass
  BY DEF OtherBegins, Start, Job
<1> HIDE DEF j
<1>2. QED
  BY <1>1, JobKept DEF Worker

\* A ConfigMap promises nothing for the name.
LEMMA ReadMapKept ==
    ASSUME WorldTyped, WorkInv, NEW w \in Worker, ReadMap(w)
    PROVE  WorkInv'
<1>1. job[w] # Nothing /\ job[w].source = FromMap /\ Answer(w, map)
  BY DEF ReadMap
<1>2. w = "agent" => Good(pass.taking.as, map)
  BY <1>1, TakingIsMeant, SourcesGood
<1>3. map \in Text \cup {Nothing}
  BY DEF WorldTyped
<1>4. QED
  BY <1>1, <1>2, <1>3, AnswerKept

\* What is cached under a digest has it.
LEMMA CacheHitKept ==
    ASSUME WorkInv, CacheTyped, CacheGood, NEW w \in Worker, CacheHit(w)
    PROVE  WorkInv'
<1> DEFINE p == job[w].source
           text == cache[p].text
<1>1. /\ job[w] # Nothing /\ p \in Package /\ cache[p] # Nothing /\ Answer(w, text)
  BY DEF CacheHit, Resolves, Cached, Key
<1>2. cache[p] \in Entry
  BY <1>1 DEF CacheTyped
<1>3. text \in Text
  BY <1>2 DEF Entry
<1>4. p.digest # Unpinned => text = p.digest
  BY <1>1 DEF CacheGood
<1> HIDE DEF text
<1>5. w = "agent" => Good(pass.taking.as, text)
  <2>1. ASSUME w = "agent" PROVE Good(pass.taking.as, text)
    <3>1. pass.taking.as \in Folder /\ p \in Sources(pass.taking.as)
      BY <1>1, <2>1, TakingIsMeant
    <3>2. QED
      BY <1>1, <1>4, <3>1, SourcesGood
  <2>2. QED
    BY <2>1
<1>6. QED
  BY <1>1, <1>3, <1>5, AnswerKept

LEMMA AskManifestKept ==
    ASSUME WorldTyped, WorkInv, NEW w \in Worker, NEW answered \in BOOLEAN,
           AskManifest(w, answered)
    PROVE  WorkInv'
<1> DEFINE coord == job[w].source.coord
           named == IF up /\ answered THEN registry[coord].manifest ELSE Nothing
           at == IF named = Nothing THEN Conventional ELSE named
<1>1. /\ job[w] # Nothing /\ job[w] \in Job /\ job[w].source \in Package
      /\ job[w].url = Nothing
  BY DEF AskManifest, Resolves, WorkInv, WorkTyped
<1>2. at \in Url
  <2>1. coord \in Coord
    BY <1>1 DEF Package
  <2>2. registry[coord].manifest \in Url \cup {Nothing}
    BY <2>1 DEF WorldTyped, Registry
  <2>3. QED
    BY <2>2, DeliveryAssumption DEF DeliveryAssumption
<1>3. CASE named = Nothing /\ coord \in Oci
  <2>1. Answer(w, Nothing)
    BY <1>3 DEF AskManifest
  <2>2. QED
    BY <1>1, <2>1, AnswerKept
<1>4. CASE ~(named = Nothing /\ coord \in Oci)
  <2> DEFINE j == [job[w] EXCEPT !.url = at]
  <2>1. job' = [job EXCEPT ![w].url = at] /\ UNCHANGED pass
    BY <1>4 DEF AskManifest
  <2> HIDE DEF coord, named, at
  <2>2. job' = [job EXCEPT ![w] = j]
    BY <2>1
  <2>3. j \in Job /\ j.source = job[w].source /\ j.body = job[w].body
    BY <1>1, <1>2 DEF Job
  <2>4. job[w].body # Nothing /\ job[w].source.digest # Unpinned
            => job[w].body = job[w].source.digest
    BY <1>1 DEF WorkInv, FetchedGood
  <2> HIDE DEF j
  <2>5. QED
    BY <1>1, <2>1, <2>2, <2>3, <2>4, JobKept
<1>5. QED
  BY <1>3, <1>4

\* What is fetched for a digest is refused unless it has it.
LEMMA FetchContentKept ==
    ASSUME WorldTyped, WorkInv, NEW w \in Worker, FetchContent(w)
    PROVE  WorkInv'
<1> DEFINE source == job[w].source
           text == IF up THEN registry[source.coord].files[job[w].url] ELSE Nothing
<1>1. /\ job[w] # Nothing /\ job[w] \in Job /\ source \in Package
      /\ job[w].url \in Url
  BY DEF FetchContent, Resolves, WorkInv, WorkTyped, Job
<1>2. text \in Text \cup {Nothing}
  <2>1. source.coord \in Coord
    BY <1>1 DEF Package
  <2>2. registry[source.coord].files \in [Url -> Text \cup {Nothing}]
    BY <2>1 DEF WorldTyped, Registry
  <2>3. QED
    BY <1>1, <2>2
<1>3. CASE Refused(source, text)
  <2>1. Answer(w, Nothing)
    BY <1>3 DEF FetchContent
  <2>2. QED
    BY <1>1, <2>1, AnswerKept
<1>4. CASE ~Refused(source, text)
  <2> DEFINE j == [job[w] EXCEPT !.body = text]
  <2>1. job' = [job EXCEPT ![w].body = text] /\ UNCHANGED pass
    BY <1>4 DEF FetchContent
  <2>2. text # Nothing /\ (source.digest # Unpinned => text = source.digest)
    BY <1>4 DEF Refused
  <2> HIDE DEF text
  <2>3. job' = [job EXCEPT ![w] = j]
    BY <2>1
  <2>4. j \in Job /\ j.source = job[w].source /\ j.body = text
    BY <1>1, <1>2 DEF Job
  <2> HIDE DEF j
  <2>5. QED
    BY <1>1, <2>1, <2>2, <2>3, <2>4, JobKept
<1>5. QED
  BY <1>3, <1>4

\* What is stored was compared when it was fetched.
LEMMA StoreContentKept ==
    ASSUME WorkInv, CacheTyped, CacheGood, NEW w \in Worker, StoreContent(w)
    PROVE  WorkInv' /\ CacheTyped' /\ CacheGood'
<1> DEFINE p == job[w].source
           text == job[w].body
           entry == [text |-> text, fresh |-> TRUE]
<1>1. /\ job[w] # Nothing /\ job[w] \in Job /\ p \in Package
      /\ text # Nothing /\ text \in Text /\ Answer(w, text)
      /\ cache' = [cache EXCEPT ![p] = entry]
  BY DEF StoreContent, Resolves, WorkInv, WorkTyped, Job, Key
<1>2. p.digest # Unpinned => text = p.digest
  BY <1>1 DEF WorkInv, FetchedGood
<1>3. entry \in Entry /\ entry.text = text
  BY <1>1 DEF Entry
<1> HIDE DEF text, entry
<1>4. /\ CacheTyped'
      /\ \A k \in Package : cache'[k] = IF k = p THEN entry ELSE cache[k]
  BY <1>1, <1>3 DEF CacheTyped
<1>5. CacheGood'
  BY <1>2, <1>3, <1>4 DEF CacheGood
<1>6. w = "agent" => Good(pass.taking.as, text)
  <2>1. ASSUME w = "agent" PROVE Good(pass.taking.as, text)
    <3>1. pass.taking.as \in Folder /\ p \in Sources(pass.taking.as)
      BY <1>1, <2>1, TakingIsMeant
    <3>2. QED
      BY <1>1, <1>2, <3>1, SourcesGood
  <2>2. QED
    BY <2>1
<1>7. WorkInv'
  BY <1>1, <1>6, AnswerKept
<1>8. QED
  BY <1>4, <1>5, <1>7

-----------------------------------------------------------------------------
(* 5. The pass ends, and the rest stays                                    *)

\* What a step leaves alone keeps its part of the invariant.
LEMMA Frames ==
    ASSUME DeliveryInv
    PROVE  /\ UNCHANGED world => WorldTyped'
           /\ UNCHANGED <<status, workspace>> => OutcomeTyped' /\ PinnedContentOnly'
           /\ UNCHANGED cache => CacheTyped' /\ CacheGood'
           /\ UNCHANGED edits \/ Edit => edits' \in 0..MaxEdits
           /\ UNCHANGED faults \/ Fault => faults' \in 0..MaxFaults
           /\ UNCHANGED <<pass, job>> => WorkInv'
<1>1. /\ WorldTyped /\ OutcomeTyped /\ CacheTyped /\ CountersTyped
      /\ WorkInv /\ CacheGood /\ PinnedContentOnly
  BY DEF DeliveryInv
<1>2. UNCHANGED world => WorldTyped'
  BY <1>1 DEF world, WorldTyped, Existing
<1>3. UNCHANGED <<status, workspace>> => OutcomeTyped'
  BY <1>1 DEF status, workspace, OutcomeTyped
<1>4. UNCHANGED <<status, workspace>> => PinnedContentOnly'
  BY <1>1 DEF workspace, PinnedContentOnly, Vouchable, Vouched, Sources, Meant
<1>5. UNCHANGED cache => CacheTyped' /\ CacheGood'
  BY <1>1 DEF CacheTyped, CacheGood
<1>6. /\ UNCHANGED edits \/ Edit => edits' \in 0..MaxEdits
      /\ UNCHANGED faults \/ Fault => faults' \in 0..MaxFaults
  BY <1>1, CountersKept DEF CountersTyped
<1>7. UNCHANGED <<pass, job>> => WorkTyped' /\ Coupled' /\ FetchedGood'
  BY <1>1 DEF WorkInv, WorkTyped, Coupled, Declared, FetchedGood
<1>8. UNCHANGED <<pass, job>> => FoundGood'
  BY <1>1 DEF WorkInv, FoundGood, Good, Vouchable, Vouched, Sources, Meant
<1>9. QED
  BY <1>2, <1>3, <1>4, <1>5, <1>6, <1>7, <1>8 DEF WorkInv

\* A pass that resolves nothing may end.
LEMMA EndKept ==
    ASSUME WorkInv, job["agent"] = Nothing, pass' = Nothing, UNCHANGED job
    PROVE  WorkInv'
BY DEF WorkInv, WorkTyped, Coupled, FetchedGood, FoundGood

\* A pass is overtaken by another writer of the workstation.
LEMMA OvertakenKept ==
    ASSUME WorkInv, pass' = Overtaken, UNCHANGED job
    PROVE  WorkInv'
<1>1. /\ WorkTyped /\ Coupled /\ FetchedGood /\ FoundGood
  BY DEF WorkInv
<1>2. CASE pass = Nothing
  <2>1. job["agent"] = Nothing /\ pass' = Nothing
    BY <1>1, <1>2 DEF Overtaken, Idle, Coupled
  <2>2. QED
    BY <2>1, EndKept
<1>3. CASE pass # Nothing
  <2>1. pass' = [pass EXCEPT !.overtaken = TRUE] /\ pass \in Pass
    BY <1>1, <1>3 DEF Overtaken, Idle, WorkTyped
  <2>2. /\ pass' \in Pass /\ pass'.todo = pass.todo /\ pass'.found = pass.found
        /\ pass'.refs = pass.refs /\ pass'.seen = pass.seen
        /\ pass'.taking = pass.taking /\ pass'.seeded = pass.seeded
    BY <2>1 DEF Pass
  <2>3. WorkTyped' /\ Coupled' /\ FetchedGood'
    <3>1. job' = job /\ pass' # Nothing
      BY <2>2, DistinctAssumption DEF DistinctAssumption
    <3>2. WorkTyped' /\ FetchedGood'
      BY <1>1, <2>2, <3>1 DEF WorkTyped, FetchedGood
    <3>3. Coupled'
      BY <1>1, <1>3, <2>2, <3>1 DEF Coupled, Declared
    <3>4. QED
      BY <3>2, <3>3
  <2>4. FoundGood'
    BY <1>1, <1>3, <2>2 DEF FoundGood, Good, Vouchable, Vouched, Sources, Meant
  <2>5. QED
    BY <2>3, <2>4 DEF WorkInv
<1>4. QED
  BY <1>2, <1>3

\* What the script writes under a name is the image's text, what the pass
\* found, or what was there.
LEMMA WrittenIsGood ==
    ASSUME DeliveryInv, pass # Nothing, NEW f \in Folder
    PROVE  Written(f) \in Text \cup {Nothing} /\ Good(f, Written(f))
<1>1. CASE FromImage(f)
  <2>1. image \in Image
    BY DEF DeliveryInv, WorldTyped
  <2>2. image[f] \in Text \cup {Nothing}
    BY <2>1, DeliveryAssumption DEF DeliveryAssumption
  <2>3. Good(f, image[f])
    BY <2>1 DEF Good, Vouched
  <2>4. QED
    BY <1>1, <2>2, <2>3 DEF Written
<1>2. CASE ~FromImage(f) /\ pass.found[f] # Nothing
  <2>1. pass \in Pass /\ Good(f, pass.found[f].text)
    BY <1>2 DEF DeliveryInv, WorkInv, WorkTyped, FoundGood
  <2>2. pass.found[f] \in Found
    BY <1>2, <2>1 DEF Pass
  <2>3. pass.found[f].text \in Text
    BY <2>2 DEF Found
  <2>4. QED
    BY <1>2, <2>1, <2>3 DEF Written
<1>3. CASE ~FromImage(f) /\ pass.found[f] = Nothing
  BY <1>3 DEF Written, DeliveryInv, OutcomeTyped, PinnedContentOnly, Good
<1>4. QED
  BY <1>1, <1>2, <1>3

\* The files beside SKILL.md are those of images.
LEMMA BundledTyped ==
    ASSUME DeliveryInv, NEW f \in Folder
    PROVE  Bundled(f) \subseteq Text
<1>1. image \in [Folder -> Text \cup {Nothing}] /\ bundled[f] \subseteq Text
  BY DeliveryAssumption DEF DeliveryAssumption, DeliveryInv, WorldTyped, OutcomeTyped
<1>2. QED
  BY <1>1 DEF Bundled, FromImage

\* A script that writes so keeps the workspace.
LEMMA WorkspaceKept ==
    ASSUME DeliveryInv, UNCHANGED <<status, index>>,
           folder' \in [Folder -> Text \cup {Nothing}],
           \A f \in Folder : Good(f, folder'[f]) \/ folder'[f] = Nothing,
           bundled' \in [Folder -> SUBSET Text],
           wiki' = WikiMd
    PROVE  OutcomeTyped' /\ PinnedContentOnly'
<1>1. OutcomeTyped /\ kbs \subseteq KnowledgeBase
  BY DEF DeliveryInv, WorldTyped
<1>2. wiki' \in (SUBSET KnowledgeBase) \cup {Nothing}
  BY <1>1 DEF WikiMd, OutcomeTyped
<1>3. OutcomeTyped'
  BY <1>1, <1>2 DEF status, OutcomeTyped
<1>4. \A f \in Folder : Vouchable(f) => folder'[f] \in Vouched(f)
  BY DEF Good, Vouched
<1>5. PinnedContentOnly'
  BY <1>4 DEF PinnedContentOnly, Vouchable, Vouched, Sources, Meant
<1>6. QED
  BY <1>3, <1>5

LEMMA SeedKept ==
    ASSUME DeliveryInv, Seed
    PROVE  DeliveryInv'
<1>1. pass # Nothing /\ pass.todo = {} /\ job["agent"] = Nothing
  BY DEF Seed, Seeding, Idle
<1>2. OutcomeTyped' /\ PinnedContentOnly'
  <2>1. folder' = [f \in Folder |-> IF Keep(f) THEN Written(f) ELSE Nothing]
    BY DEF Seed
  <2>2. /\ folder' \in [Folder -> Text \cup {Nothing}]
        /\ \A f \in Folder : Good(f, folder'[f]) \/ folder'[f] = Nothing
    BY <1>1, <2>1, WrittenIsGood
  <2>3. wiki' = WikiMd /\ UNCHANGED <<status, index>>
    BY DEF Seed
  <2>4. bundled' \in [Folder -> SUBSET Text]
    BY BundledTyped DEF Seed
  <2>5. QED
    BY <2>2, <2>3, <2>4, WorkspaceKept
<1>3. WorkInv'
  <2>1. /\ WorkTyped /\ Coupled /\ FetchedGood /\ FoundGood /\ pass \in Pass
    BY <1>1 DEF DeliveryInv, WorkInv, WorkTyped
  <2>2. pass' = [pass EXCEPT !.seeded = TRUE] /\ UNCHANGED job
    BY DEF Seed
  <2>3. /\ pass' \in Pass /\ pass'.todo = {} /\ pass'.found = pass.found
    BY <1>1, <2>1, <2>2 DEF Pass
  <2>4. pass' # Nothing
    BY <2>3, DistinctAssumption DEF DistinctAssumption
  <2>5. WorkTyped' /\ Coupled' /\ FetchedGood'
    BY <1>1, <2>1, <2>2, <2>3, <2>4 DEF WorkTyped, Coupled, FetchedGood
  <2>6. FoundGood'
    BY <1>1, <2>1, <2>2, <2>3 DEF FoundGood, Good, Vouchable, Vouched, Sources, Meant
  <2>7. QED
    BY <2>5, <2>6 DEF WorkInv
<1>4. WorldTyped' /\ CacheTyped' /\ CacheGood' /\ CountersTyped'
  BY Frames DEF Seed, CountersTyped
<1>5. QED
  BY <1>2, <1>3, <1>4 DEF DeliveryInv

LEMMA SeedFailsKept ==
    ASSUME DeliveryInv, NEW ran \in BOOLEAN, SeedFails(ran)
    PROVE  DeliveryInv'
<1>1. /\ pass # Nothing /\ job["agent"] = Nothing /\ Fault /\ pass' = Nothing
      /\ UNCHANGED <<world, status, index, cache, job, edits>>
  BY DEF SeedFails, Seeding, Idle
<1>2. OutcomeTyped' /\ PinnedContentOnly'
  <2>1. CASE ran
    <3>1. folder' = [f \in Folder |-> Written(f)] /\ wiki' = WikiMd
      BY <2>1 DEF SeedFails
    <3>2. /\ folder' \in [Folder -> Text \cup {Nothing}]
          /\ \A f \in Folder : Good(f, folder'[f])
      BY <1>1, <3>1, WrittenIsGood
    <3>3. bundled' \in [Folder -> SUBSET Text]
      BY <2>1, BundledTyped DEF SeedFails
    <3>4. QED
      BY <1>1, <3>1, <3>2, <3>3, WorkspaceKept
  <2>2. CASE ~ran
    BY <1>1, <2>2, Frames DEF SeedFails, workspace
  <2>3. QED
    BY <2>1, <2>2
<1>3. WorkInv'
  BY <1>1, EndKept DEF DeliveryInv
<1>4. WorldTyped' /\ CacheTyped' /\ CacheGood' /\ CountersTyped'
  BY <1>1, Frames DEF CountersTyped
<1>5. QED
  BY <1>2, <1>3, <1>4 DEF DeliveryInv

LEMMA FinishKept ==
    ASSUME DeliveryInv, NEW wrote \in BOOLEAN, Finish(wrote)
    PROVE  DeliveryInv'
<1>1. /\ pass # Nothing /\ pass \in Pass /\ job["agent"] = Nothing
      /\ pass' = Nothing /\ UNCHANGED <<world, folder, bundled, wiki, cache, job, edits>>
      /\ UNCHANGED faults \/ Fault
  BY DEF Finish, Idle, DeliveryInv, WorkInv, WorkTyped, Coupled
<1>2. WorkInv'
  BY <1>1, EndKept DEF DeliveryInv
<1>3. WorldTyped' /\ CacheTyped' /\ CacheGood' /\ CountersTyped'
  BY <1>1, Frames DEF CountersTyped
<1>4. PinnedContentOnly'
  BY <1>1 DEF DeliveryInv, PinnedContentOnly, Vouchable, Vouched, Sources, Meant
<1>5. OutcomeTyped'
  <2>1. OutcomeTyped /\ pass.kbRefs \subseteq KnowledgeBase
    BY <1>1 DEF DeliveryInv, Pass
  <2>2. Delivered \subseteq Folder \X Version
    <3>1. \A f \in Folder : pass.found[f] # Nothing => pass.found[f] \in Found
      BY <1>1 DEF Pass
    <3>2. \A f \in Folder : pass.found[f] # Nothing => pass.found[f].version \in Version
      BY <3>1 DEF Found
    <3>3. QED
      BY <3>2 DEF Delivered
  <2>3. skillSet' \subseteq Folder \X Version
    BY <2>1, <2>2 DEF Finish, OutcomeTyped
  <2>4. epoch' \in Nat
    BY <2>1 DEF Finish, OutcomeTyped
  <2>5. index' = index \/ index' \in [listed : SUBSET KnowledgeBase,
                                      refused : SUBSET KnowledgeBase]
    <3>1. index' = index \/ index' = KbsMd(pass.kbRefs)
      BY DEF Finish
    <3>2. QED
      BY <2>1, <3>1 DEF KbsMd
  <2>6. UNCHANGED <<folder, bundled, wiki>>
    BY <1>1
  <2>7. QED
    BY <2>1, <2>3, <2>4, <2>5, <2>6 DEF OutcomeTyped
<1>6. QED
  BY <1>2, <1>3, <1>4, <1>5 DEF DeliveryInv

-----------------------------------------------------------------------------
(* 6. Every step                                                           *)

\* The steps of a pass before its script.
LEMMA PassKept ==
    ASSUME DeliveryInv,
           \/ \E listed \in BOOLEAN :
                 Begin(listed) \/ \E n \in Folder : LookUp(n, listed)
           \/ \E r \in Resource : TakeListed(r) \/ OtherBegins(r)
    PROVE  DeliveryInv'
<1>1. CASE \E listed \in BOOLEAN : Begin(listed)
  <2>1. PICK listed \in BOOLEAN : Begin(listed)
    BY <1>1
  <2>2. WorkInv'
    BY <2>1, BeginKept DEF DeliveryInv
  <2>3. /\ UNCHANGED <<world, status, workspace, cache, edits>>
        /\ UNCHANGED faults \/ Fault
    BY <2>1 DEF Begin
  <2>4. QED
    BY <2>2, <2>3, Frames DEF DeliveryInv, CountersTyped
<1>2. CASE \E listed \in BOOLEAN, n \in Folder : LookUp(n, listed)
  <2>1. PICK listed \in BOOLEAN, n \in Folder : LookUp(n, listed)
    BY <1>2
  <2>2. WorkInv'
    BY <2>1, LookUpKept DEF DeliveryInv
  <2>3. /\ UNCHANGED <<world, status, workspace, cache, edits>>
        /\ UNCHANGED faults \/ Fault
    BY <2>1 DEF LookUp
  <2>4. QED
    BY <2>2, <2>3, Frames DEF DeliveryInv, CountersTyped
<1>3. CASE \E r \in Resource : TakeListed(r)
  <2>1. PICK r \in Resource : TakeListed(r)
    BY <1>3
  <2>2. WorkInv'
    BY <2>1, TakeListedKept DEF DeliveryInv
  <2>3. UNCHANGED <<world, status, workspace, cache, edits, faults>>
    BY <2>1 DEF TakeListed
  <2>4. QED
    BY <2>2, <2>3, Frames DEF DeliveryInv, CountersTyped
<1>4. CASE \E r \in Resource : OtherBegins(r)
  <2>1. PICK r \in Resource : OtherBegins(r)
    BY <1>4
  <2>2. WorkInv'
    BY <2>1, OtherBeginsKept DEF DeliveryInv
  <2>3. UNCHANGED <<world, status, workspace, cache, edits, faults>>
    BY <2>1 DEF OtherBegins
  <2>4. QED
    BY <2>2, <2>3, Frames DEF DeliveryInv, CountersTyped
<1>5. QED
  BY <1>1, <1>2, <1>3, <1>4

\* The steps of a worker that resolves a source.
LEMMA ResolveKept ==
    ASSUME DeliveryInv, NEW w \in Worker, Resolve(w)
    PROVE  DeliveryInv'
<1>1. WorldTyped /\ WorkInv /\ CacheTyped /\ CacheGood
  BY DEF DeliveryInv
<1>2. CASE ReadMap(w)
  <2>1. WorkInv' /\ UNCHANGED <<world, status, workspace, cache, edits, faults>>
    BY <1>1, <1>2, ReadMapKept DEF ReadMap
  <2>2. QED
    BY <2>1, Frames DEF DeliveryInv, CountersTyped
<1>3. CASE CacheHit(w)
  <2>1. WorkInv' /\ UNCHANGED <<world, status, workspace, cache, edits, faults>>
    BY <1>1, <1>3, CacheHitKept DEF CacheHit
  <2>2. QED
    BY <2>1, Frames DEF DeliveryInv, CountersTyped
<1>4. CASE \E answered \in BOOLEAN : AskManifest(w, answered)
  <2>1. PICK answered \in BOOLEAN : AskManifest(w, answered)
    BY <1>4
  <2>2. WorkInv'
    BY <1>1, <2>1, AskManifestKept
  <2>3. /\ UNCHANGED <<world, status, workspace, cache, edits>>
        /\ UNCHANGED faults \/ Fault
    BY <2>1 DEF AskManifest
  <2>4. QED
    BY <2>2, <2>3, Frames DEF DeliveryInv, CountersTyped
<1>5. CASE FetchContent(w)
  <2>1. WorkInv' /\ UNCHANGED <<world, status, workspace, cache, edits, faults>>
    BY <1>1, <1>5, FetchContentKept DEF FetchContent
  <2>2. QED
    BY <2>1, Frames DEF DeliveryInv, CountersTyped
<1>6. CASE StoreContent(w)
  <2>1. /\ WorkInv' /\ CacheTyped' /\ CacheGood'
        /\ UNCHANGED <<world, status, workspace, edits, faults>>
    BY <1>1, <1>6, StoreContentKept DEF StoreContent
  <2>2. QED
    BY <2>1, Frames DEF DeliveryInv, CountersTyped
<1>7. QED
  BY <1>2, <1>3, <1>4, <1>5, <1>6 DEF Resolve

\* Age is nothing to a digest.
LEMMA AgesKept ==
    ASSUME DeliveryInv, NEW c \in Coord, Ages(c)
    PROVE  DeliveryInv'
<1> DEFINE key == [coord |-> c, digest |-> Unpinned]
           entry == [cache[key] EXCEPT !.fresh = FALSE]
<1>1. /\ cache[key] # Nothing /\ cache' = [cache EXCEPT ![key].fresh = FALSE]
      /\ UNCHANGED <<world, status, workspace, pass, job, edits, faults>>
  BY DEF Ages
<1>2. key \in Package /\ key.digest = Unpinned
  BY DEF Package
<1> HIDE DEF key
<1>3. cache' = [cache EXCEPT ![key] = entry] /\ CacheTyped
  BY <1>1 DEF DeliveryInv
<1>4. entry \in Entry
  BY <1>1, <1>2, <1>3 DEF CacheTyped, Entry
<1> HIDE DEF entry
<1>5. CacheTyped' /\ (\A p \in Package : p # key => cache'[p] = cache[p])
  BY <1>2, <1>3, <1>4 DEF CacheTyped
<1>6. CacheGood'
  BY <1>2, <1>5 DEF DeliveryInv, CacheGood
<1>7. QED
  BY <1>1, <1>5, <1>6, Frames DEF DeliveryInv, CountersTyped

\* The objects of the cluster are edited.
LEMMA ObjectsKept ==
    ASSUME DeliveryInv,
           \/ \E r \in Resource : \E spec \in SpecOf[r] \cup {Nothing} : EditSkill(r, spec)
           \/ \E text \in Text \cup {Nothing} : EditMap(text)
           \/ \E new \in RefSpec : EditRefs(new)
           \/ \E new \in SUBSET KnowledgeBase : EditKbRefs(new) \/ Attach(new)
           \/ NoteActivity
    PROVE  DeliveryInv'
<1>1. WorldTyped /\ WorkInv
  BY DEF DeliveryInv
<1>2. CASE \E r \in Resource : \E spec \in SpecOf[r] \cup {Nothing} : EditSkill(r, spec)
  <2>1. PICK r \in Resource : \E spec \in SpecOf[r] \cup {Nothing} : EditSkill(r, spec)
    BY <1>2
  <2>2. PICK spec \in SpecOf[r] \cup {Nothing} : EditSkill(r, spec)
    BY <2>1
  <2>3. skills' = [skills EXCEPT ![r] = spec]
    BY <2>2 DEF EditSkill
  <2>4. spec \in SkillSpec \cup {Nothing}
    BY DeliveryAssumption DEF DeliveryAssumption, SkillSpec
  <2>5. /\ skills' \in [Resource -> SkillSpec \cup {Nothing}]
        /\ \A q \in Resource : skills'[q] = IF q = r THEN spec ELSE skills[q]
    BY <1>1, <2>3, <2>4 DEF WorldTyped
  <2>6. \A q \in Existing' : skills'[q] \in SpecOf[q]
    BY <1>1, <2>5 DEF Existing, WorldTyped
  <2>7. /\ UNCHANGED <<map, refs, kbRefs, registry, up, image, kbs>>
        /\ UNCHANGED <<status, workspace, cache, pass, job, faults>> /\ Edit
    BY <2>2 DEF EditSkill
  <2>8. WorldTyped'
    BY <1>1, <2>5, <2>6, <2>7 DEF WorldTyped
  <2>9. QED
    BY <2>7, <2>8, Frames DEF DeliveryInv, CountersTyped
<1>3. CASE \E text \in Text \cup {Nothing} : EditMap(text)
  <2>1. /\ map' \in Text \cup {Nothing}
        /\ UNCHANGED <<skills, refs, kbRefs, registry, up, image, kbs>>
        /\ UNCHANGED <<status, workspace, cache, pass, job, faults>> /\ Edit
    BY <1>3 DEF EditMap
  <2>2. WorldTyped'
    BY <1>1, <2>1 DEF WorldTyped, Existing
  <2>3. QED
    BY <2>1, <2>2, Frames DEF DeliveryInv, CountersTyped
<1>4. CASE \E new \in RefSpec : EditRefs(new)
  <2>1. /\ refs' \in RefSpec /\ pass' = Overtaken
        /\ UNCHANGED <<skills, map, kbRefs, registry, up, image, kbs>>
        /\ UNCHANGED <<status, workspace, cache, job, faults>> /\ Edit
    BY <1>4 DEF EditRefs
  <2>2. WorldTyped'
    BY <1>1, <2>1 DEF WorldTyped, Existing
  <2>3. WorkInv'
    BY <1>1, <2>1, OvertakenKept
  <2>4. QED
    BY <2>1, <2>2, <2>3, Frames DEF DeliveryInv, CountersTyped
<1>5. CASE \E new \in SUBSET KnowledgeBase : EditKbRefs(new)
  <2>1. /\ kbRefs' \subseteq KnowledgeBase /\ pass' = Overtaken
        /\ UNCHANGED <<skills, map, refs, registry, up, image, kbs>>
        /\ UNCHANGED <<status, workspace, cache, job, faults>> /\ Edit
    BY <1>5 DEF EditKbRefs
  <2>2. WorldTyped'
    BY <1>1, <2>1 DEF WorldTyped, Existing
  <2>3. WorkInv'
    BY <1>1, <2>1, OvertakenKept
  <2>4. QED
    BY <2>1, <2>2, <2>3, Frames DEF DeliveryInv, CountersTyped
<1>6. CASE \E new \in SUBSET KnowledgeBase : Attach(new)
  <2>1. /\ kbs' \subseteq KnowledgeBase
        /\ UNCHANGED <<skills, map, refs, kbRefs, registry, up, image>>
        /\ UNCHANGED <<status, workspace, cache, pass, job, faults>> /\ Edit
    BY <1>6 DEF Attach
  <2>2. WorldTyped'
    BY <1>1, <2>1 DEF WorldTyped, Existing
  <2>3. QED
    BY <2>1, <2>2, Frames DEF DeliveryInv, CountersTyped
<1>7. CASE NoteActivity
  <2>1. WorkInv'
    BY <1>1, <1>7, OvertakenKept DEF NoteActivity
  <2>2. QED
    BY <1>7, <2>1, Frames DEF NoteActivity, DeliveryInv, CountersTyped
<1>8. QED
  BY <1>2, <1>3, <1>4, <1>5, <1>6, <1>7

\* The registry and the gateway pod change, and the operator restarts.
LEMMA OutsideKept ==
    ASSUME DeliveryInv,
           \/ \E c \in Coord, u \in Url, text \in Text \cup {Nothing} : Publish(c, u, text)
           \/ \E c \in Coord, u \in Url \cup {Nothing} : PublishManifest(c, u)
           \/ RegistryDown \/ RegistryUp \/ Restart
           \/ \E new \in Image : Rollout(new)
    PROVE  DeliveryInv'
<1>1. WorldTyped /\ WorkInv
  BY DEF DeliveryInv
<1>2. CASE \E c \in Coord, u \in Url, text \in Text \cup {Nothing} : Publish(c, u, text)
  <2>1. PICK c \in Coord, u \in Url, text \in Text \cup {Nothing} : Publish(c, u, text)
    BY <1>2
  <2> DEFINE files == [registry[c].files EXCEPT ![u] = text]
             entry == [registry[c] EXCEPT !.files = files]
  <2>2. registry' = [registry EXCEPT ![c] = entry]
    BY <2>1 DEF Publish
  <2>3. registry[c].files \in [Url -> Text \cup {Nothing}]
    BY <1>1 DEF WorldTyped, Registry
  <2>4. files \in [Url -> Text \cup {Nothing}]
    BY <2>3
  <2> HIDE DEF files
  <2>5. entry \in [manifest : Url \cup {Nothing}, files : [Url -> Text \cup {Nothing}]]
    BY <1>1, <2>4 DEF WorldTyped, Registry
  <2> HIDE DEF entry
  <2>6. registry' \in Registry
    BY <1>1, <2>2, <2>5 DEF WorldTyped, Registry
  <2>7. /\ UNCHANGED <<skills, map, refs, kbRefs, up, image, kbs>>
        /\ UNCHANGED <<status, workspace, cache, pass, job, faults>> /\ Edit
    BY <2>1 DEF Publish
  <2>8. WorldTyped'
    BY <1>1, <2>6, <2>7 DEF WorldTyped, Existing
  <2>9. QED
    BY <2>7, <2>8, Frames DEF DeliveryInv, CountersTyped
<1>3. CASE \E c \in Coord, u \in Url \cup {Nothing} : PublishManifest(c, u)
  <2>1. PICK c \in Coord, u \in Url \cup {Nothing} : PublishManifest(c, u)
    BY <1>3
  <2> DEFINE entry == [registry[c] EXCEPT !.manifest = u]
  <2>2. registry' = [registry EXCEPT ![c] = entry]
    BY <2>1 DEF PublishManifest
  <2>3. entry \in [manifest : Url \cup {Nothing}, files : [Url -> Text \cup {Nothing}]]
    BY <1>1 DEF WorldTyped, Registry
  <2> HIDE DEF entry
  <2>4. registry' \in Registry
    BY <1>1, <2>2, <2>3 DEF WorldTyped, Registry
  <2>5. /\ UNCHANGED <<skills, map, refs, kbRefs, up, image, kbs>>
        /\ UNCHANGED <<status, workspace, cache, pass, job, faults>> /\ Edit
    BY <2>1 DEF PublishManifest
  <2>6. WorldTyped'
    BY <1>1, <2>4, <2>5 DEF WorldTyped, Existing
  <2>7. QED
    BY <2>5, <2>6, Frames DEF DeliveryInv, CountersTyped
<1>4. CASE RegistryDown \/ RegistryUp
  <2>1. /\ up' \in BOOLEAN
        /\ UNCHANGED <<skills, map, refs, kbRefs, registry, image, kbs>>
        /\ UNCHANGED <<status, workspace, cache, pass, job, edits>>
        /\ UNCHANGED faults \/ Fault
    BY <1>4 DEF RegistryDown, RegistryUp
  <2>2. WorldTyped'
    BY <1>1, <2>1 DEF WorldTyped, Existing
  <2>3. QED
    BY <2>1, <2>2, Frames DEF DeliveryInv, CountersTyped
<1>5. CASE Restart
  <2>1. /\ pass' = Nothing /\ job' = [w \in Worker |-> Nothing]
        /\ cache' = [key \in Package |-> Nothing] /\ Edit
        /\ UNCHANGED <<world, status, workspace, faults>>
    BY <1>5 DEF Restart
  <2>2. WorkInv'
    BY <2>1 DEF WorkInv, WorkTyped, Coupled, FetchedGood, FoundGood, Worker
  <2>3. CacheTyped' /\ CacheGood'
    BY <2>1 DEF CacheTyped, CacheGood
  <2>4. QED
    BY <2>1, <2>2, <2>3, Frames DEF DeliveryInv, CountersTyped
<1>6. CASE \E new \in Image : Rollout(new)
  <2>1. /\ image' \in Image
        /\ UNCHANGED <<skills, map, refs, kbRefs, registry, up, kbs>>
        /\ UNCHANGED <<status, workspace, cache, pass, job, faults>> /\ Edit
    BY <1>6 DEF Rollout
  <2>2. WorldTyped'
    BY <1>1, <2>1 DEF WorldTyped, Existing
  <2>3. QED
    BY <2>1, <2>2, Frames DEF DeliveryInv, CountersTyped
<1>7. QED
  BY <1>2, <1>3, <1>4, <1>5, <1>6

-----------------------------------------------------------------------------
(* 7. The theorems                                                         *)

LEMMA DeliveryInvInit == Init => DeliveryInv
<1> SUFFICES ASSUME Init PROVE DeliveryInv
  OBVIOUS
<1>1. WorldTyped
  <2>1. /\ skills \in [Resource -> SkillSpec \cup {Nothing}]
        /\ \A r \in Existing : skills[r] \in SpecOf[r]
    BY DeliveryAssumption DEF DeliveryAssumption, Init, Existing
  <2>2. QED
    BY <2>1, DeliveryAssumption DEF DeliveryAssumption, Init, WorldTyped
<1>2. OutcomeTyped /\ PinnedContentOnly
  <2>1. folder \in [Folder -> {Nothing}] /\ wiki = Nothing /\ index = Nothing
    BY DEF Init, NoText
  <2>2. skillSet = {} /\ epoch = 0
    BY DEF Init
  <2>3. OutcomeTyped
    <3>1. skillSet \subseteq Folder \X Version
      BY <2>2
    <3>2. epoch \in Nat
      BY <2>2
    <3>3. folder \in [Folder -> Text \cup {Nothing}]
      BY <2>1
    <3>4. wiki \in (SUBSET KnowledgeBase) \cup {Nothing} /\ index = Nothing
      BY <2>1
    <3>5. bundled \in [Folder -> SUBSET Text]
      BY DEF Init
    <3>6. QED
      BY Zenon, <3>1, <3>2, <3>3, <3>4, <3>5 DEF OutcomeTyped
  <2>4. \A f \in Folder : folder[f] = Nothing
    BY <2>1
  <2>5. PinnedContentOnly
    BY <2>4 DEF PinnedContentOnly, Vouched
  <2>6. QED
    BY <2>3, <2>5
<1>3. CacheTyped /\ CacheGood
  BY DEF Init, CacheTyped, CacheGood
<1>4. CountersTyped
  BY DeliveryAssumption DEF DeliveryAssumption, Init, CountersTyped
<1>5. WorkInv
  BY DEF Init, WorkInv, WorkTyped, Coupled, FetchedGood, FoundGood, Worker
<1>6. QED
  BY <1>1, <1>2, <1>3, <1>4, <1>5 DEF DeliveryInv

LEMMA DeliveryInvStep == DeliveryInv /\ [Next]_vars => DeliveryInv'
<1> SUFFICES ASSUME DeliveryInv, [Next]_vars PROVE DeliveryInv'
  OBVIOUS
<1>1. CASE Agent
  <2>1. "agent" \in Worker
    BY DEF Worker
  <2>2. QED
    BY <1>1, <2>1, PassKept, ResolveKept, SeedKept, SeedFailsKept, FinishKept DEF Agent
<1>2. CASE Environment
  <2>1. "other" \in Worker
    BY DEF Worker
  <2>2. QED
    BY <1>2, <2>1, PassKept, ResolveKept, AgesKept, ObjectsKept, OutsideKept
    DEF Environment
<1>3. CASE UNCHANGED vars
  BY <1>3, Frames DEF vars, DeliveryInv, CountersTyped
<1>4. QED
  BY <1>1, <1>2, <1>3 DEF Next

LEMMA DeliveryInvIsTyped == DeliveryInv => TypeOK
BY DEF DeliveryInv, WorldTyped, OutcomeTyped, CacheTyped, CountersTyped,
       WorkInv, WorkTyped, TypeOK

\* The variables keep their types through every pass, fault and edit.
THEOREM TypeCorrect == Spec => []TypeOK
<1>1. Init => DeliveryInv
  BY DeliveryInvInit
<1>2. DeliveryInv /\ [Next]_vars => DeliveryInv'
  BY DeliveryInvStep
<1>3. DeliveryInv => TypeOK
  BY DeliveryInvIsTyped
<1>4. QED
  BY <1>1, <1>2, <1>3, PTL DEF Spec

\* Under a name whose Skills all carry their body or a digest, the workspace
\* never has a text but those and the images' (resolveSkillPackage compares a
\* pinned package with its digest before it is cached, and the cache is keyed
\* by the digest too).
THEOREM PinnedDelivered == Spec => []PinnedContentOnly
<1>1. Init => DeliveryInv
  BY DeliveryInvInit
<1>2. DeliveryInv /\ [Next]_vars => DeliveryInv'
  BY DeliveryInvStep
<1>3. DeliveryInv => PinnedContentOnly
  BY DEF DeliveryInv
<1>4. QED
  BY <1>1, <1>2, <1>3, PTL DEF Spec
-----------------------------------------------------------------------------
(***************************************************************************)
(* 8. Where WorkspaceConverges comes to rest.  The names of the Skills of  *)
(* one namespace differ, as Kubernetes has it; the platform's are in       *)
(* another namespace.                                                      *)
(***************************************************************************)
NamesDiffer ==
    \A r, q \in Resource \ Platform : Called[r] = Called[q] => r = q

\* The first Skill by name of the first set that is not empty.
FirstOf(sets) ==
    LET tried == {i \in 1..5 : sets[i] # {}}
    IN IF tried = {} THEN Nothing
       ELSE FirstByName(sets[CHOOSE i \in tried : \A j \in tried : i <= j])

\* The Skill a pass finds for a name now, if any.
Referred(f) == RefSkill(f, refs[f], TRUE)
Unlabelled(f) == {r \in Existing \ Platform : Called[r] = f}
SkillFor(f) ==
    IF DOMAIN refs = {}
    THEN IF Unlabelled(f) = {} THEN Nothing ELSE FirstByName(Unlabelled(f))
    ELSE IF f \in DOMAIN refs /\ Referred(f) # Nothing
    THEN IF Fits(Referred(f), refs[f]) THEN Referred(f) ELSE Nothing
    ELSE Nothing

\* What it finds there, and the signature of all of it.
Due(f) ==
    LET r == SkillFor(f)
    IN IF r = Nothing THEN Nothing
       ELSE IF TextOf(skills[r].source) = Nothing THEN Nothing
       ELSE [version |-> skills[r].version, text |-> TextOf(skills[r].source)]
Signature == {<<f, Due(f).version>> : f \in {g \in Folder : Due(g) # Nothing}}

\* Where the content of a package is now, and what it is.
At(p) ==
    LET named == registry[p.coord].manifest
    IN IF named = Nothing THEN Conventional ELSE named
Served(p) == registry[p.coord].files[At(p)]

\* What the cache keeps without digest, while it is fresh, is what is served.
CacheSettled ==
    \A p \in Package : p.digest = Unpinned /\ cache[p] # Nothing =>
        (cache[p].fresh => cache[p].text = Obtains(p))

\* A worker asks where the content is, and has or will have what is served.
JobSettled(w) ==
    job[w] # Nothing =>
        /\ job[w].url = Nothing => job[w].body = Nothing
        /\ job[w].source \in Package /\ job[w].url # Nothing =>
              LET p == job[w].source
              IN /\ job[w].url = At(p)
                 /\ registry[p.coord].manifest = Nothing => p.coord \notin Oci
                 /\ IF job[w].body # Nothing THEN job[w].body = Obtains(p)
                    ELSE w = "agent" /\ Refused(p, Served(p)) => Obtains(p) = Nothing

\* The names a pass has still to look up, and with them the one it resolves.
ToDo(f) == IF Declared THEN f \in pass.todo ELSE \E r \in pass.todo : Called[r] = f
Ahead(f) == ToDo(f) \/ (pass.taking # Nothing /\ pass.taking.as = f)

\* A pass has found what is due, as far as it got.
PassSettled ==
    ~Idle =>
        /\ pass.refs = refs /\ pass.kbRefs = kbRefs
        /\ IF Declared THEN pass.todo \subseteq DOMAIN refs
           ELSE pass.seen = skills /\ pass.todo \subseteq Existing \ Platform
        /\ \A f \in Folder : pass.found[f] = IF Ahead(f) THEN Nothing ELSE Due(f)
        /\ IF pass.taking = Nothing THEN job["agent"] = Nothing
           ELSE /\ ~ToDo(pass.taking.as) /\ SkillFor(pass.taking.as) # Nothing
                /\ pass.taking.version = skills[SkillFor(pass.taking.as)].version
                /\ job["agent"] # Nothing
                /\ job["agent"].source = skills[SkillFor(pass.taking.as)].source

\* The workspace and the status are what a pass would make them.
OutcomeSettled ==
    /\ \A f \in Folder : folder[f] = Wanted(f)
    /\ \A f \in Folder : /\ Wanted(f) = Nothing => bundled[f] = {}
                         /\ FromCatalog(f) => image[f] \in bundled[f]
    /\ kbs # {} => wiki = kbs
    /\ index = KbsMd(kbRefs)
    /\ DOMAIN refs # {} => skillSet = Signature

Settled ==
    /\ up /\ OutcomeSettled /\ CacheSettled /\ PassSettled
    /\ \A w \in Worker : JobSettled(w)

\* The Skill found for a name exists.
LEMMA SkillForExists ==
    ASSUME WorldTyped, NEW f \in Folder, SkillFor(f) # Nothing
    PROVE  /\ SkillFor(f) \in Existing
           /\ skills[SkillFor(f)] \in SkillSpec
           /\ skills[SkillFor(f)].source \in Sources(f)
           /\ skills[SkillFor(f)].source \in Text \cup {FromMap} \cup Package
           /\ skills[SkillFor(f)].version \in Version
<1>1. SkillFor(f) \in Existing /\ SkillFor(f) \in Meant(f)
  <2>1. CASE DOMAIN refs = {}
    <3>1. Unlabelled(f) # {} /\ SkillFor(f) = FirstByName(Unlabelled(f))
      BY <2>1 DEF SkillFor
    <3>2. Unlabelled(f) \in SUBSET Resource
      BY DEF Unlabelled, Existing
    <3>3. SkillFor(f) \in Unlabelled(f)
      BY <3>1, <3>2, FirstIsIn
    <3>4. QED
      BY <3>2, <3>3 DEF Unlabelled, Meant
  <2>2. CASE DOMAIN refs # {}
    <3>1. SkillFor(f) = Referred(f) /\ Referred(f) # Nothing
      BY <2>2 DEF SkillFor
    <3>2. QED
      BY <3>1, RefIsMeant DEF Referred, WorldTyped
  <2>3. QED
    BY <2>1, <2>2
<1>2. SkillFor(f) \in Resource /\ skills[SkillFor(f)] \in SkillSpec
  BY <1>1 DEF Existing, WorldTyped
<1>3. skills[SkillFor(f)] \in SpecOf[SkillFor(f)]
  BY <1>1 DEF WorldTyped
<1>4. skills[SkillFor(f)].source \in Sources(f)
  BY <1>1, <1>3 DEF Sources
<1>5. QED
  BY <1>1, <1>2, <1>4 DEF SkillSpec, Source

\* A package gives a text, or nothing.
LEMMA ObtainsTyped ==
    ASSUME WorldTyped, CacheTyped, NEW p \in Package
    PROVE  /\ At(p) \in Url /\ Served(p) \in Text \cup {Nothing}
           /\ Obtains(p) \in Text \cup {Nothing}
<1>1. p.coord \in Coord /\ p.digest \in Text \cup {Unpinned}
  BY DEF Package
<1>2. /\ registry[p.coord].manifest \in Url \cup {Nothing}
      /\ registry[p.coord].files \in [Url -> Text \cup {Nothing}]
  BY <1>1 DEF WorldTyped, Registry
<1>3. At(p) \in Url
  BY <1>2, DeliveryAssumption DEF DeliveryAssumption, At
<1>4. Served(p) \in Text \cup {Nothing}
  BY <1>2, <1>3 DEF Served
<1>5. Obtains(p) \in {p.digest, Served(p), Nothing}
      /\ (Obtains(p) = p.digest => p.digest # Unpinned \/ Obtains(p) \in {Served(p), Nothing})
  BY DEF Obtains, Served, At
<1>6. QED
  BY <1>1, <1>3, <1>4, <1>5

\* So does every source of a Skill.
LEMMA TextTyped ==
    ASSUME WorldTyped, CacheTyped, NEW s \in Source
    PROVE  TextOf(s) \in Text \cup {Nothing}
  BY ObtainsTyped DEF TextOf, Source, WorldTyped

\* What is due under a name is a version and a text.
LEMMA DueTyped ==
    ASSUME WorldTyped, CacheTyped, NEW f \in Folder
    PROVE  /\ Due(f) \in Found \cup {Nothing}
           /\ Due(f) # Nothing =>
                 /\ SkillFor(f) # Nothing /\ Due(f).version \in Version
                 /\ Due(f).version = skills[SkillFor(f)].version
                 /\ Due(f).text = TextOf(skills[SkillFor(f)].source)
           /\ Due(f) = Nothing <=>
                 SkillFor(f) = Nothing \/ TextOf(skills[SkillFor(f)].source) = Nothing
<1> DEFINE r == SkillFor(f)
           text == TextOf(skills[r].source)
           item == [version |-> skills[r].version, text |-> text]
<1>1. CASE r = Nothing
  BY <1>1 DEF Due
<1>2. CASE r # Nothing
  <2>1. skills[r].version \in Version /\ skills[r].source \in Source
    BY <1>2, SkillForExists DEF Source
  <2>2. text \in Text \cup {Nothing}
    BY <2>1, TextTyped
  <2>3. Due(f) = IF text = Nothing THEN Nothing ELSE item
    BY <1>2 DEF Due
  <2> HIDE DEF r, text
  <2>4. text # Nothing => item \in Found /\ item # Nothing
    BY <2>1, <2>2, DistinctAssumption DEF DistinctAssumption, Found
  <2>5. item.version = skills[r].version /\ item.text = text
    OBVIOUS
  <2>6. QED
    BY <1>2, <2>1, <2>3, <2>4, <2>5 DEF r, text
<1>3. QED
  BY <1>1, <1>2

\* The workspace is to have what is due, unless an image has it.
DueText(f) ==
    IF DOMAIN refs # {} /\ f \notin DOMAIN refs THEN Nothing
    ELSE IF image[f] # Nothing THEN image[f]
    ELSE IF Due(f) # Nothing THEN Due(f).text ELSE Nothing

LEMMA WantedIsDue ==
    WorldTyped /\ CacheTyped => \A f \in Folder : Wanted(f) = DueText(f)
<1> SUFFICES ASSUME WorldTyped, CacheTyped, NEW f \in Folder
             PROVE  Wanted(f) = DueText(f)
  OBVIOUS
<1> DEFINE out == DOMAIN refs # {} /\ f \notin DOMAIN refs
           content == IF SkillFor(f) = Nothing THEN Nothing
                      ELSE TextOf(skills[SkillFor(f)].source)
<1>1. content = IF Due(f) # Nothing THEN Due(f).text ELSE Nothing
  BY DueTyped
<1>2. CASE out \/ image[f] # Nothing
  BY <1>2 DEF Wanted, DueText
<1>3. CASE ~out /\ image[f] = Nothing
  <2>1. Wanted(f) = content
    <3>1. CASE DOMAIN refs = {}
      <4>1. f \notin DOMAIN refs
        BY <3>1
      <4>2. Unlabelled(f) # {} => FirstByName(Unlabelled(f)) # Nothing
        BY FirstIsIn, DistinctAssumption DEF DistinctAssumption, Unlabelled, Existing
      <4>3. QED
        BY <1>3, <3>1, <4>1, <4>2 DEF Wanted, SkillFor, Unlabelled
    <3>2. CASE DOMAIN refs # {}
      BY <1>3, <3>2 DEF Wanted, SkillFor, Referred
    <3>3. QED
      BY <3>1, <3>2
  <2>2. QED
    BY <1>1, <1>3, <2>1 DEF DueText
<1>4. QED
  BY <1>2, <1>3

LEMMA WantedIsDueThen ==
    (WorldTyped /\ CacheTyped)' => (\A f \in Folder : Wanted(f) = DueText(f))'
  BY WantedIsDue, PTL

(***************************************************************************)
(* While the world stays, so does what is due, whatever workers put into   *)
(* the cache.                                                              *)
(***************************************************************************)

\* A package gives what it gave, if for a digest only what has it is kept.
LEMMA ObtainsStays ==
    ASSUME UNCHANGED world, NEW p \in Package,
           p.digest # Unpinned /\ cache[p] # Nothing => cache'[p] # Nothing,
           p.digest # Unpinned /\ cache'[p] # Nothing
              => cache[p] # Nothing \/ Obtains(p) = p.digest
    PROVE  At(p)' = At(p) /\ Served(p)' = Served(p) /\ Obtains(p)' = Obtains(p)
<1>1. registry' = registry
  BY DEF world
<1>2. At(p)' = At(p) /\ Served(p)' = Served(p)
  BY <1>1 DEF At, Served
<1> DEFINE given == IF \/ registry[p.coord].manifest = Nothing /\ p.coord \in Oci
                       \/ p.digest # Unpinned /\ Served(p) # p.digest
                    THEN Nothing ELSE Served(p)
<1>3. Obtains(p) = IF p.digest # Unpinned /\ cache[p] # Nothing
                   THEN p.digest ELSE given
  BY DEF Obtains, Served, At
<1>4. Obtains(p)' = IF p.digest # Unpinned /\ cache'[p] # Nothing
                    THEN p.digest ELSE given
  BY <1>1 DEF Obtains, Served, At
<1>5. QED
  BY <1>2, <1>3, <1>4

\* The same of everything that is due.
LEMMA DueStays ==
    ASSUME UNCHANGED world, WorldTyped, CacheTyped, CacheTyped',
           \A p \in Package : Obtains(p)' = Obtains(p), NEW f \in Folder
    PROVE  /\ SkillFor(f)' = SkillFor(f) /\ Due(f)' = Due(f)
           /\ Wanted(f)' = Wanted(f)
           /\ \A s \in Source : TextOf(s)' = TextOf(s)
<1>1. UNCHANGED <<skills, map, refs, image>> /\ WorldTyped'
  BY DEF world, WorldTyped, Existing
<1>2. Existing' = Existing
  BY <1>1 DEF Existing
<1>3. Referred(f)' = Referred(f)
  <2> DEFINE pin == refs[f]
             sets == Preference(f, pin, TRUE)
  <2>1. RefSkill(f, pin, TRUE) = FirstOf(sets)
    BY DEF RefSkill, FirstOf
  <2>2. RefSkill(f, pin, TRUE)' = FirstOf(sets')
    BY DEF RefSkill, FirstOf
  <2>3. pin' = pin /\ Labelled(f)' = Labelled(f) /\ Named(f)' = Named(f)
    BY <1>1, <1>2 DEF Labelled, Named
  <2>4. sets' = sets
    BY <1>1, <2>3 DEF Preference
  <2>5. QED
    BY <2>1, <2>2, <2>4 DEF Referred
<1>4. Unlabelled(f)' = Unlabelled(f)
  BY <1>2 DEF Unlabelled
<1>5. SkillFor(f)' = SkillFor(f)
  <2>1. (Fits(Referred(f), refs[f]))' <=> Fits(Referred(f), refs[f])
    BY <1>1, <1>3 DEF Fits
  <2>2. QED
    BY <1>1, <1>3, <1>4, <2>1 DEF SkillFor
<1>6. ASSUME NEW s \in Source PROVE TextOf(s)' = TextOf(s)
  BY <1>1, <1>6 DEF TextOf, Source
<1>7. TextOf(skills[SkillFor(f)].source)' = TextOf(skills[SkillFor(f)].source)
      \/ SkillFor(f) = Nothing
  BY <1>1, <1>5, <1>6, SkillForExists DEF Source
<1>8. Due(f)' = Due(f)
  BY <1>1, <1>5, <1>7 DEF Due
<1>9. Wanted(f)' = Wanted(f)
  <2>1. Wanted(f) = DueText(f) /\ Wanted(f)' = DueText(f)'
    BY <1>1, WantedIsDue, WantedIsDueThen
  <2>2. DueText(f)' = DueText(f)
    BY <1>1, <1>8 DEF DueText
  <2>3. QED
    BY <2>1, <2>2
<1>10. QED
  BY <1>5, <1>6, <1>8, <1>9

\* What the rest of a step needs: the types, the world, and what packages give.
Steady ==
    /\ UNCHANGED world
    /\ WorldTyped /\ CacheTyped /\ CacheTyped' /\ WorkTyped /\ WorkTyped'
    /\ Coupled /\ Coupled'
    /\ \A p \in Package :
          At(p)' = At(p) /\ Served(p)' = Served(p) /\ Obtains(p)' = Obtains(p)

LEMMA SteadyDue ==
    ASSUME Steady
    PROVE  /\ UNCHANGED <<skills, map, refs, kbRefs, registry, up, image, kbs>>
           /\ \A f \in Folder : /\ SkillFor(f)' = SkillFor(f) /\ Due(f)' = Due(f)
                                /\ Wanted(f)' = Wanted(f)
           /\ \A s \in Source : TextOf(s)' = TextOf(s)
           /\ Signature' = Signature
<1>1. UNCHANGED <<skills, map, refs, kbRefs, registry, up, image, kbs>>
  BY DEF Steady, world
<1>2. ASSUME NEW f \in Folder
      PROVE  /\ SkillFor(f)' = SkillFor(f) /\ Due(f)' = Due(f) /\ Wanted(f)' = Wanted(f)
             /\ \A s \in Source : TextOf(s)' = TextOf(s)
  BY <1>2, DueStays DEF Steady
<1>3. ASSUME NEW s \in Source PROVE TextOf(s)' = TextOf(s)
  BY <1>1, <1>3 DEF TextOf, Source, Steady
<1>4. Signature' = Signature
  BY <1>2 DEF Signature
<1>5. QED
  BY <1>1, <1>2, <1>3, <1>4

\* What nobody writes stays settled.
LEMMA OutcomeStays ==
    ASSUME Steady, OutcomeSettled, UNCHANGED <<workspace, skillSet>>
    PROVE  OutcomeSettled'
<1>1. UNCHANGED <<folder, bundled, wiki, index, skillSet>>
  BY DEF workspace
<1>2. KbsMd(kbRefs)' = KbsMd(kbRefs)
  BY <1>1, SteadyDue DEF KbsMd
<1>3. QED
  BY <1>1, <1>2, SteadyDue DEF OutcomeSettled, FromCatalog

LEMMA JobStays ==
    ASSUME Steady, NEW w \in Worker, JobSettled(w), job'[w] = job[w]
    PROVE  JobSettled(w)'
<1>1. registry' = registry
  BY SteadyDue
<1>2. QED
  BY <1>1 DEF JobSettled, Steady, Refused

LEMMA CacheStays == ASSUME Steady, CacheSettled, cache' = cache PROVE CacheSettled'
  BY DEF CacheSettled, Steady

LEMMA PassStays ==
    ASSUME Steady, PassSettled, pass' = pass, job'["agent"] = job["agent"]
    PROVE  PassSettled'
<1>1. (\A f \in Folder : (Ahead(f)' <=> Ahead(f)) /\ (ToDo(f)' <=> ToDo(f)))
      /\ (Declared' <=> Declared)
  BY DEF Ahead, ToDo, Declared
<1>2. Existing' = Existing
  BY SteadyDue DEF Existing
<1>3. pass # Nothing /\ pass.taking # Nothing => pass.taking.as \in Folder
  BY DEF Steady, WorkTyped, Pass
<1>4. QED
  BY <1>1, <1>2, <1>3, SteadyDue DEF PassSettled, Idle

(***************************************************************************)
(* The steps of a pass, each given what it does to the names ahead.        *)
(***************************************************************************)

\* A name has been looked up: left is what is still to do.
LookedUp(f, left) ==
    /\ ToDo(f)
    /\ \A g \in Folder :
          (IF Declared THEN g \in left ELSE \E r \in left : Called[r] = g)
             <=> ToDo(g) /\ g # f

\* What a pass has found so far, and the same while the world stays.
LEMMA FoundSoFar ==
    ASSUME PassSettled, pass # Nothing
    PROVE  \A f \in Folder : pass.found[f] = IF Ahead(f) THEN Nothing ELSE Due(f)
  BY DEF PassSettled, Idle

LEMMA DueSteady == ASSUME Steady PROVE \A f \in Folder : Due(f)' = Due(f)
  BY SteadyDue

\* Nothing is due under a name, or a skill is found there at once.
LEMMA FoundSettled ==
    ASSUME Steady, PassSettled, pass # Nothing, job["agent"] = Nothing,
           NEW f \in Folder, NEW left \in SUBSET pass.todo, LookedUp(f, left),
           pass' = [pass EXCEPT !.todo = left, !.found = [pass.found EXCEPT ![f] = Due(f)]],
           job' = job
    PROVE  PassSettled'
<1>1. /\ pass \in Pass /\ pass.taking = Nothing /\ Due(f) \in Found \cup {Nothing}
      /\ pass.found \in [Folder -> Found \cup {Nothing}]
  BY DueTyped DEF Steady, WorkTyped, Pass, PassSettled, Idle
<1> DEFINE found == [pass.found EXCEPT ![f] = Due(f)]
<1>2. \A g \in Folder : found[g] = IF g = f THEN Due(f) ELSE pass.found[g]
  BY <1>1
<1> HIDE DEF found
<1>3. /\ pass'.todo = left /\ pass'.found = found /\ pass'.taking = Nothing
      /\ pass'.refs = pass.refs /\ pass'.kbRefs = pass.kbRefs /\ pass'.seen = pass.seen
  BY <1>1 DEF Pass, found
<1>4. /\ Declared' <=> Declared
      /\ \A g \in Folder : (Ahead(g)' <=> Ahead(g) /\ g # f)
  BY <1>1, <1>3 DEF Declared, Ahead, ToDo, LookedUp
<1>5. Existing' = Existing
  BY SteadyDue DEF Existing
<1>6. \A g \in Folder : pass'.found[g] = IF Ahead(g)' THEN Nothing ELSE Due(g)'
  BY <1>2, <1>3, <1>4, FoundSoFar, DueSteady
<1>7. QED
  BY <1>3, <1>4, <1>5, <1>6, SteadyDue DEF PassSettled, Idle

\* A Skill is found whose content has to be resolved.
LEMMA TakingSettled ==
    ASSUME Steady, PassSettled, pass # Nothing, job["agent"] = Nothing,
           NEW f \in Folder, NEW left \in SUBSET pass.todo, LookedUp(f, left),
           SkillFor(f) # Nothing,
           pass' = [pass EXCEPT !.todo = left,
                       !.taking = [as |-> f, version |-> skills[SkillFor(f)].version]],
           job' = [job EXCEPT !["agent"] = [source |-> skills[SkillFor(f)].source,
                                            url |-> Nothing, body |-> Nothing]],
           skills[SkillFor(f)].source \notin Text
    PROVE  PassSettled' /\ JobSettled("agent")'
<1> DEFINE tk == [as |-> f, version |-> skills[SkillFor(f)].version]
           start == [source |-> skills[SkillFor(f)].source, url |-> Nothing,
                     body |-> Nothing]
<1>1. /\ pass \in Pass /\ pass.taking = Nothing
      /\ job \in [Worker -> Job \cup {Nothing}]
  BY DEF Steady, WorkTyped, Pass, PassSettled, Idle
<1>2. /\ tk \in [as : Folder, version : Version] /\ start \in Job
      /\ tk.as = f /\ tk.version = skills[SkillFor(f)].version
      /\ start.source = skills[SkillFor(f)].source
      /\ start.url = Nothing /\ start.body = Nothing
  BY SkillForExists DEF Steady, Job
<1>3. tk # Nothing /\ start # Nothing
  BY <1>2, DistinctAssumption DEF DistinctAssumption
<1> HIDE DEF tk, start
<1>4. /\ pass'.todo = left /\ pass'.found = pass.found /\ pass'.taking = tk
      /\ pass'.refs = pass.refs /\ pass'.kbRefs = pass.kbRefs /\ pass'.seen = pass.seen
  BY <1>1 DEF Pass, tk
<1>5. job'["agent"] = start
  BY <1>1 DEF Worker, start
<1>6. /\ Declared' <=> Declared
      /\ \A g \in Folder : (Ahead(g)' <=> Ahead(g)) /\ (ToDo(g)' <=> ToDo(g) /\ g # f)
  BY <1>1, <1>2, <1>3, <1>4 DEF Declared, Ahead, ToDo, LookedUp
<1>7. Existing' = Existing
  BY SteadyDue DEF Existing
<1>8. \A g \in Folder : pass'.found[g] = IF Ahead(g)' THEN Nothing ELSE Due(g)'
  BY <1>4, <1>6, FoundSoFar, DueSteady
<1>9. PassSettled'
  BY <1>2, <1>3, <1>4, <1>5, <1>6, <1>7, <1>8, SteadyDue DEF PassSettled, Idle
<1>10. JobSettled("agent")'
  BY <1>2, <1>5 DEF JobSettled
<1>11. QED
  BY <1>9, <1>10


\* A Skill is taken for a name.
LEMMA TakeSettled ==
    ASSUME Steady, PassSettled, pass # Nothing, job["agent"] = Nothing,
           \A w \in Worker : JobSettled(w),
           NEW f \in Folder, NEW task \in pass.todo, LookedUp(f, pass.todo \ {task}),
           SkillFor(f) # Nothing, Take(task, f, skills[SkillFor(f)])
    PROVE  PassSettled' /\ \A w \in Worker : JobSettled(w)'
<1> DEFINE spec == skills[SkillFor(f)]
           left == pass.todo \ {task}
<1>1. /\ spec.source \in Source /\ pass \in Pass /\ WorldTyped /\ CacheTyped
      /\ pass.found \in [Folder -> Found \cup {Nothing}]
      /\ job \in [Worker -> Job \cup {Nothing}]
  BY SkillForExists DEF Steady, WorkTyped, Source, Pass
<1>2. left \in SUBSET pass.todo
  OBVIOUS
<1>3. CASE spec.source \in Text
  <2>1. TextOf(spec.source) = spec.source /\ spec.source # Nothing
    BY <1>3, DistinctAssumption DEF DistinctAssumption, TextOf
  <2>2. Due(f) = [version |-> spec.version, text |-> spec.source]
    BY <2>1 DEF Due
  <2>3. /\ pass' = [pass EXCEPT !.todo = left, !.found = [pass.found EXCEPT ![f] = Due(f)]]
        /\ job' = job
    BY <1>1, <1>3, <2>2 DEF Take, Pass
  <2> HIDE DEF left, spec
  <2>4. PassSettled'
    BY <1>2, <2>3, FoundSettled DEF left
  <2>5. QED
    BY <2>3, <2>4, JobStays
<1>4. CASE spec.source \notin Text
  <2>1. /\ pass' = [pass EXCEPT !.todo = left,
                       !.taking = [as |-> f, version |-> spec.version]]
        /\ job' = [job EXCEPT !["agent"] = [source |-> spec.source,
                                            url |-> Nothing, body |-> Nothing]]
    BY <1>1, <1>4 DEF Take, Start, Pass
  <2>2. PassSettled' /\ JobSettled("agent")'
    BY <1>2, <1>4, <2>1, TakingSettled
  <2>3. job'["other"] = job["other"] /\ Worker = {"agent", "other"}
    BY <1>1, <2>1 DEF Worker
  <2>4. JobSettled("other")'
    BY <2>3, JobStays
  <2>5. QED
    BY <2>2, <2>3, <2>4
<1>5. QED
  BY <1>3, <1>4

\* A worker's resolve ends, the agent's with what its source gives.
LEMMA AnswerSettled ==
    ASSUME Steady, PassSettled, \A w \in Worker : JobSettled(w),
           NEW w \in Worker, job[w] # Nothing, NEW text,
           w = "agent" => text = TextOf(job[w].source), Answer(w, text)
    PROVE  PassSettled' /\ \A v \in Worker : JobSettled(v)'
<1>1. /\ job \in [Worker -> Job \cup {Nothing}] /\ WorldTyped /\ CacheTyped
      /\ pass \in Pass \cup {Nothing}
  BY DEF Steady, WorkTyped
<1>2. job' = [job EXCEPT ![w] = Nothing]
  BY DEF Answer
<1>3. job'[w] = Nothing /\ \A v \in Worker : v # w => job'[v] = job[v]
  BY <1>1, <1>2
<1>4. ASSUME NEW v \in Worker PROVE JobSettled(v)'
  <2>1. CASE v = w
    BY <1>3, <2>1 DEF JobSettled
  <2>2. CASE v # w
    BY <1>3, <2>2, JobStays
  <2>3. QED
    BY <2>1, <2>2
<1>5. CASE w = "other"
  <2>1. pass' = pass /\ job'["agent"] = job["agent"]
    BY <1>3, <1>5 DEF Answer, Worker
  <2>2. QED
    BY <1>4, <2>1, PassStays
<1>6. CASE w = "agent"
  <2> DEFINE as == pass.taking.as
             item == [version |-> pass.taking.version, text |-> text]
             found == IF text = Nothing THEN pass.found
                      ELSE [pass.found EXCEPT ![as] = item]
  <2>1. pass # Nothing /\ pass \in Pass /\ pass.taking # Nothing
    BY <1>1, <1>6 DEF Steady, Coupled
  <2>2. /\ pass.taking \in [as : Folder, version : Version] /\ as \in Folder
        /\ pass.found \in [Folder -> Found \cup {Nothing}]
    BY <2>1 DEF Pass
  <2>3. /\ ~ToDo(as) /\ SkillFor(as) # Nothing /\ Ahead(as)
        /\ pass.taking.version = skills[SkillFor(as)].version
        /\ text = TextOf(skills[SkillFor(as)].source)
    BY <1>6, <2>1 DEF PassSettled, Idle, Ahead
  <2>4. Due(as) = IF text = Nothing THEN Nothing ELSE item
    BY <2>3 DEF Due
  <2>5. pass' = [pass EXCEPT !.taking = Nothing, !.found = found]
    BY <1>6, <2>1 DEF Answer, Pass
  <2>6. \A g \in Folder : found[g] = IF g = as THEN Due(as) ELSE pass.found[g]
    <3>1. pass.found[as] = Nothing
      BY <2>1, <2>2, <2>3 DEF PassSettled, Idle
    <3> HIDE DEF item
    <3>2. QED
      BY <2>2, <2>4, <3>1
  <2> HIDE DEF found, item
  <2>7. /\ pass'.todo = pass.todo /\ pass'.found = found /\ pass'.taking = Nothing
        /\ pass'.refs = pass.refs /\ pass'.kbRefs = pass.kbRefs /\ pass'.seen = pass.seen
    BY <2>1, <2>5 DEF Pass
  <2>8. /\ Declared' <=> Declared
        /\ \A g \in Folder : (Ahead(g)' <=> Ahead(g) /\ g # as)
    BY <2>1, <2>3, <2>7 DEF Declared, Ahead, ToDo
  <2>9. Existing' = Existing
    BY SteadyDue DEF Existing
  <2> HIDE DEF as
  <2>10. \A g \in Folder : pass'.found[g] = IF Ahead(g)' THEN Nothing ELSE Due(g)'
    BY <2>1, <2>6, <2>7, <2>8, FoundSoFar, DueSteady
  <2>11. PassSettled'
    BY <1>3, <1>6, <2>1, <2>7, <2>8, <2>9, <2>10, SteadyDue DEF PassSettled, Idle
  <2>12. QED
    BY <1>4, <2>11
<1>7. QED
  BY <1>5, <1>6 DEF Worker

\* A worker other than by its answer: only its job changes.
LEMMA JobSettles ==
    ASSUME Steady, PassSettled, \A w \in Worker : JobSettled(w),
           NEW w \in Worker, NEW j \in Job, job' = [job EXCEPT ![w] = j], pass' = pass,
           w = "agent" => job[w] # Nothing /\ j.source = job[w].source,
           JobSettled(w)'
    PROVE  PassSettled' /\ \A v \in Worker : JobSettled(v)'
<1>1. /\ job'[w] = j /\ \A v \in Worker : v # w => job'[v] = job[v]
      /\ j # Nothing
  BY DistinctAssumption DEF DistinctAssumption, Steady, WorkTyped
<1>2. ASSUME NEW v \in Worker PROVE JobSettled(v)'
  BY <1>1, JobStays
<1>3. CASE w = "other"
  BY <1>1, <1>2, <1>3, PassStays DEF Worker
<1>4. CASE w = "agent"
  <2>1. /\ job'["agent"] # Nothing /\ job["agent"] # Nothing
        /\ job'["agent"].source = job["agent"].source
    BY <1>1, <1>4
  <2>2. (\A f \in Folder : (Ahead(f)' <=> Ahead(f)) /\ (ToDo(f)' <=> ToDo(f)))
        /\ (Declared' <=> Declared)
    BY DEF Ahead, ToDo, Declared
  <2>3. Existing' = Existing
    BY SteadyDue DEF Existing
  <2>4. pass # Nothing /\ pass.taking # Nothing /\ pass.taking.as \in Folder
    BY <2>1 DEF Steady, WorkTyped, Pass, Coupled
  <2>5. PassSettled'
    BY <2>1, <2>2, <2>3, <2>4, SteadyDue DEF PassSettled, Idle
  <2>6. QED
    BY <1>2, <2>5
<1>5. QED
  BY <1>3, <1>4 DEF Worker

(***************************************************************************)
(* Every step but an edit, a fault and the end of an outage.               *)
(***************************************************************************)

\* What the steps below start from and come to.
Rested ==
    /\ Steady /\ PassSettled /\ OutcomeSettled /\ CacheSettled /\ up
    /\ CacheGood /\ FetchedGood /\ OutcomeTyped
    /\ \A w \in Worker : JobSettled(w)
RestedThen ==
    /\ PassSettled' /\ CacheSettled' /\ UNCHANGED <<workspace, status>>
    /\ \A w \in Worker : JobSettled(w)'

\* A pass that has no name to do and resolves nothing has found what is due.
LEMMA AllFound ==
    ASSUME Steady, PassSettled, pass # Nothing, pass.todo = {}, job["agent"] = Nothing
    PROVE  \A f \in Folder : pass.found[f] = Due(f)
<1>1. pass.taking = Nothing /\ \A f \in Folder : ~Ahead(f)
  BY DEF PassSettled, Idle, Ahead, ToDo
<1>2. QED
  BY <1>1 DEF PassSettled, Idle

LEMMA BeginRests ==
    ASSUME Rested, Begin(TRUE), UNCHANGED faults
    PROVE  RestedThen
<1>1. Steady /\ pass = Nothing /\ job' = job /\ cache' = cache
      /\ UNCHANGED <<workspace, status>> /\ job["agent"] = Nothing
  BY DEF Begin, Idle, Rested, Steady, Coupled
<1> DEFINE todo == IF DOMAIN refs # {} THEN DOMAIN refs ELSE Existing \ Platform
           seen == IF DOMAIN refs = {} THEN skills
                   ELSE [r \in Resource |-> Nothing]
           new == [refs |-> refs, kbRefs |-> kbRefs, overtaken |-> FALSE,
                   todo |-> todo, seen |-> seen, found |-> NoText,
                   taking |-> Nothing, seeded |-> FALSE]
<1>2. pass' = new
  BY DEF Begin
<1>3. /\ pass'.refs = refs /\ pass'.kbRefs = kbRefs /\ pass'.taking = Nothing
      /\ pass'.todo = todo /\ pass'.seen = seen /\ pass'.found = NoText
  BY <1>2
<1>4. Declared' <=> DOMAIN refs # {}
  BY <1>3 DEF Declared
<1>5. ASSUME NEW f \in Folder
      PROVE  pass'.found[f] = IF Ahead(f)' THEN Nothing ELSE Due(f)'
  <2>1. NoText[f] = Nothing
    BY DEF NoText
  <2>2. ~Ahead(f)' => SkillFor(f) = Nothing
    <3>1. CASE DOMAIN refs # {}
      BY <1>3, <1>4, <3>1 DEF Ahead, ToDo, SkillFor
    <3>2. CASE DOMAIN refs = {}
      <4>1. ~Ahead(f)' => Unlabelled(f) = {}
        BY <1>3, <1>4, <3>2 DEF Ahead, ToDo, Unlabelled
      <4>2. QED
        BY <3>2, <4>1 DEF SkillFor
    <3>3. QED
      BY <3>1, <3>2
  <2>3. ~Ahead(f)' => Due(f) = Nothing
    BY <2>2 DEF Due
  <2>4. QED
    BY <1>1, <1>3, <2>1, <2>3, SteadyDue
<1>6. Existing' = Existing
  BY <1>1, SteadyDue DEF Existing
<1> HIDE DEF new
<1>7. PassSettled'
  BY <1>1, <1>3, <1>4, <1>5, <1>6, SteadyDue DEF PassSettled, Idle
<1>8. QED
  BY <1>1, <1>7, CacheStays, JobStays DEF Rested, RestedThen

LEMMA LookUpRests ==
    ASSUME Rested, NEW n \in Folder, LookUp(n, TRUE)
    PROVE  RestedThen
<1>1. /\ Steady /\ PassSettled /\ pass # Nothing /\ Declared
      /\ job["agent"] = Nothing /\ n \in pass.todo
      /\ cache' = cache /\ UNCHANGED <<workspace, status>>
  BY DEF LookUp, Idle, Rested
<1>2. pass.refs = refs /\ n \in DOMAIN refs /\ DOMAIN refs # {}
  BY <1>1 DEF PassSettled, Idle, Declared
<1>3. LookedUp(n, pass.todo \ {n})
  BY <1>1 DEF LookedUp, ToDo
<1>4. CASE Referred(n) # Nothing /\ Fits(Referred(n), refs[n])
  <2>1. SkillFor(n) = Referred(n)
    BY <1>2, <1>4 DEF SkillFor
  <2>2. Take(n, n, skills[SkillFor(n)])
    BY <1>2, <1>4, <2>1 DEF LookUp, Referred
  <2>3. QED
    BY <1>1, <1>3, <1>4, <2>1, <2>2, TakeSettled, CacheStays DEF Rested, RestedThen
<1>5. CASE ~(Referred(n) # Nothing /\ Fits(Referred(n), refs[n]))
  <2> DEFINE left == pass.todo \ {n}
  <2>1. SkillFor(n) = Nothing
    BY <1>2, <1>5 DEF SkillFor
  <2>2. Due(n) = Nothing
    BY <2>1 DEF Due
  <2>3. pass \in Pass /\ pass.found \in [Folder -> Found \cup {Nothing}]
    BY <1>1 DEF Steady, WorkTyped, Pass
  <2>4. pass.found[n] = Nothing
    BY <1>1 DEF PassSettled, Idle, Ahead, ToDo
  <2>5. [pass.found EXCEPT ![n] = Due(n)] = pass.found
    BY <2>2, <2>3, <2>4
  <2>6. pass' = [pass EXCEPT !.todo = left] /\ job' = job
    BY <1>2, <1>5, <2>3 DEF LookUp, Referred, Pass
  <2> HIDE DEF left
  <2>7. pass' = [pass EXCEPT !.todo = left, !.found = pass.found]
    BY <2>3, <2>6 DEF Pass
  <2>8. pass' = [pass EXCEPT !.todo = left, !.found = [pass.found EXCEPT ![n] = Due(n)]]
    BY <2>5, <2>7
  <2>9. left \in SUBSET pass.todo /\ LookedUp(n, left)
    BY <1>3 DEF left
  <2>10. PassSettled'
    BY <1>1, <2>6, <2>8, <2>9, FoundSettled
  <2>11. QED
    BY <1>1, <2>6, <2>10, CacheStays, JobStays DEF Rested, RestedThen
<1>6. QED
  BY <1>4, <1>5

LEMMA TakeListedRests ==
    ASSUME NamesDiffer, Rested, NEW r \in Resource, TakeListed(r)
    PROVE  RestedThen
<1> DEFINE f == Called[r]
<1>1. /\ Steady /\ PassSettled /\ pass # Nothing /\ ~Declared
      /\ job["agent"] = Nothing /\ r \in pass.todo
      /\ cache' = cache /\ UNCHANGED <<workspace, status>>
      /\ Take(r, f, pass.seen[r])
  BY DEF TakeListed, Idle, Rested
<1>2. /\ pass.refs = refs /\ DOMAIN refs = {} /\ pass.seen = skills
      /\ pass.todo \subseteq Existing \ Platform
  BY <1>1 DEF PassSettled, Idle, Declared
<1>3. f \in Folder
  BY DeliveryAssumption DEF DeliveryAssumption
<1>4. SkillFor(f) = r
  <2>1. Unlabelled(f) = {r}
    BY <1>1, <1>2 DEF Unlabelled, NamesDiffer, Existing
  <2>2. FirstByName(Unlabelled(f)) \in Unlabelled(f)
    BY <2>1, FirstIsIn
  <2>3. QED
    BY <1>2, <2>1, <2>2 DEF SkillFor
<1>5. LookedUp(f, pass.todo \ {r})
  <2>1. ToDo(f)
    BY <1>1 DEF ToDo
  <2>2. \A q \in pass.todo : Called[q] = f => q = r
    BY <1>1, <1>2 DEF NamesDiffer, Existing
  <2>3. QED
    BY <1>1, <2>1, <2>2 DEF LookedUp, ToDo
<1>6. SkillFor(f) # Nothing
  BY <1>4, DistinctAssumption DEF DistinctAssumption
<1>7. Take(r, f, skills[SkillFor(f)])
  BY <1>1, <1>2, <1>4
<1> HIDE DEF f
<1>8. QED
  BY <1>1, <1>3, <1>5, <1>6, <1>7, TakeSettled, CacheStays DEF Rested, RestedThen

LEMMA SeedRests ==
    ASSUME Rested, Seed
    PROVE  RestedThen
<1>1. /\ Steady /\ PassSettled /\ pass # Nothing /\ pass.todo = {}
      /\ job["agent"] = Nothing /\ cache' = cache /\ job' = job
      /\ UNCHANGED <<index, status>> /\ pass' = [pass EXCEPT !.seeded = TRUE]
  BY DEF Seed, Seeding, Idle, Rested
<1>2. /\ \A f \in Folder : pass.found[f] = Due(f)
      /\ pass.refs = refs /\ pass \in Pass
  BY <1>1, AllFound DEF PassSettled, Idle, Steady, WorkTyped
<1>3. ASSUME NEW f \in Folder
      PROVE  (IF Keep(f) THEN Written(f) ELSE Nothing) = folder[f]
  <2>1. folder[f] = DueText(f)
    BY <1>1, WantedIsDue DEF Steady, Rested, OutcomeSettled
  <2>2. CASE DOMAIN refs # {} /\ f \notin DOMAIN refs
    <3>1. Due(f) = Nothing
      BY <2>2 DEF Due, SkillFor
    <3>2. ~Keep(f)
      BY <1>2, <2>2, <3>1 DEF Keep, FromImage, Allowed, Declared
    <3>3. QED
      BY <2>1, <2>2, <3>2 DEF DueText
  <2>3. CASE DOMAIN refs = {} \/ f \in DOMAIN refs
    BY <1>2, <2>1, <2>3 DEF Keep, Written, FromImage, Allowed, Declared, DueText
  <2>4. QED
    BY <2>2, <2>3
<1>4. folder' = folder
  BY <1>3 DEF Seed, Rested, OutcomeTyped
<1>5. wiki' = wiki
  BY DEF Seed, WikiMd, Rested, OutcomeSettled
<1>6. bundled' = bundled
  <2>1. ASSUME NEW f \in Folder
        PROVE  (IF Keep(f) THEN Bundled(f) ELSE {}) = bundled[f]
    <3>1. CASE ~Keep(f)
      <4>1. folder[f] = Nothing
        BY <1>3, <3>1
      <4>2. QED
        BY <3>1, <4>1 DEF Rested, OutcomeSettled
    <3>2. CASE Keep(f) /\ FromImage(f)
      <4>1. FromCatalog(f)
        BY <1>2, <3>2 DEF FromImage, Allowed, Declared, FromCatalog
      <4>2. image[f] \in bundled[f]
        BY <4>1 DEF Rested, OutcomeSettled
      <4>3. QED
        BY <3>2, <4>2 DEF Bundled
    <3>3. CASE Keep(f) /\ ~FromImage(f)
      BY <3>3 DEF Bundled
    <3>4. QED
      BY <3>1, <3>2, <3>3
  <2>2. QED
    BY <2>1 DEF Seed, Rested, OutcomeTyped
<1>7. /\ pass'.refs = pass.refs /\ pass'.kbRefs = pass.kbRefs /\ pass'.seen = pass.seen
      /\ pass'.todo = pass.todo /\ pass'.taking = pass.taking /\ pass'.found = pass.found
  BY <1>1, <1>2 DEF Pass
<1>8. /\ Declared' <=> Declared
      /\ \A f \in Folder : (Ahead(f)' <=> Ahead(f)) /\ (ToDo(f)' <=> ToDo(f))
  BY <1>7 DEF Declared, Ahead, ToDo
<1>9. pass.taking = Nothing
  BY <1>1 DEF PassSettled, Idle
<1>10. Existing' = Existing
  BY <1>1, SteadyDue DEF Existing
<1>11. PassSettled'
  BY <1>1, <1>7, <1>8, <1>9, <1>10, SteadyDue DEF PassSettled, Idle
<1>12. QED
  BY <1>1, <1>4, <1>5, <1>11, <1>6, CacheStays, JobStays
  DEF Rested, RestedThen, workspace

LEMMA FinishRests ==
    ASSUME Rested, Finish(TRUE)
    PROVE  RestedThen
<1>1. /\ Steady /\ PassSettled /\ pass # Nothing /\ pass.todo = {}
      /\ job["agent"] = Nothing /\ cache' = cache /\ job' = job
      /\ UNCHANGED <<folder, bundled, wiki>> /\ pass' = Nothing
  BY DEF Finish, Idle, Rested, Steady, Coupled
<1>2. pass.refs = refs /\ pass.kbRefs = kbRefs
  BY <1>1 DEF PassSettled, Idle
<1>3. index' = index
  BY <1>2 DEF Finish, Rested, OutcomeSettled
<1>4. Declared => Delivered = Signature /\ skillSet = Signature
  <2>1. Delivered = Signature
    BY <1>1, AllFound DEF Delivered, Signature
  <2>2. QED
    BY <1>2, <2>1 DEF Declared, Rested, OutcomeSettled
<1>5. UNCHANGED status
  BY <1>4 DEF Finish, status
<1>6. PassSettled'
  BY <1>1 DEF PassSettled, Idle
<1>7. QED
  BY <1>1, <1>3, <1>5, <1>6, CacheStays, JobStays DEF Rested, RestedThen, workspace

LEMMA OtherBeginsRests ==
    ASSUME Rested, NEW r \in Resource, OtherBegins(r)
    PROVE  RestedThen
<1> DEFINE start == [source |-> skills[r].source, url |-> Nothing, body |-> Nothing]
<1>1. /\ Steady /\ PassSettled /\ cache' = cache /\ pass' = pass
      /\ UNCHANGED <<workspace, status>> /\ job' = [job EXCEPT !["other"] = start]
      /\ skills[r].source \in Package
  BY DEF OtherBegins, Start, Rested
<1>2. start \in Job /\ start.url = Nothing /\ start.body = Nothing
  BY <1>1 DEF Job
<1> HIDE DEF start
<1>3. job'["other"] = start
  BY <1>1 DEF Steady, WorkTyped, Worker
<1>4. JobSettled("other")'
  BY <1>2, <1>3 DEF JobSettled
<1>5. PassSettled' /\ \A v \in Worker : JobSettled(v)'
  BY <1>1, <1>2, <1>4, JobSettles DEF Rested, Worker
<1>6. QED
  BY <1>1, <1>5, CacheStays DEF Rested, RestedThen

LEMMA ReadMapRests ==
    ASSUME Rested, NEW w \in Worker, ReadMap(w)
    PROVE  RestedThen
<1>1. /\ Steady /\ PassSettled /\ cache' = cache /\ job[w] # Nothing
      /\ UNCHANGED <<workspace, status>> /\ Answer(w, map)
      /\ TextOf(job[w].source) = map
  BY DistinctAssumption DEF DistinctAssumption, ReadMap, Rested, TextOf
<1>2. QED
  BY <1>1, AnswerSettled, CacheStays DEF Rested, RestedThen

\* The text of a package is what the package gives.
LEMMA PackageText ==
    ASSUME NEW p \in Package
    PROVE  TextOf(p) = Obtains(p)
  BY DistinctAssumption DEF DistinctAssumption, TextOf

LEMMA CacheHitRests ==
    ASSUME Rested, NEW w \in Worker, CacheHit(w)
    PROVE  RestedThen
<1> DEFINE p == job[w].source
<1>1. /\ Steady /\ PassSettled /\ cache' = cache /\ job[w] # Nothing /\ p \in Package
      /\ UNCHANGED <<workspace, status>> /\ Answer(w, cache[p].text) /\ Cached(p)
  BY DEF CacheHit, Resolves, Key, Rested
<1> HIDE DEF p
<1>2. cache[p].text = Obtains(p)
  <2>1. CASE p.digest # Unpinned
    BY <1>1, <2>1 DEF Cached, Rested, CacheGood, Obtains
  <2>2. CASE p.digest = Unpinned
    BY <1>1, <2>2 DEF Cached, Rested, CacheSettled
  <2>3. QED
    BY <2>1, <2>2
<1>3. cache[p].text = TextOf(p)
  BY <1>1, <1>2, PackageText
<1>4. QED
  BY <1>1, <1>3, AnswerSettled, CacheStays DEF Rested, RestedThen, p

LEMMA AskManifestRests ==
    ASSUME Rested, NEW w \in Worker, AskManifest(w, TRUE)
    PROVE  RestedThen
<1> DEFINE p == job[w].source
           named == registry[p.coord].manifest
           asked == [job[w] EXCEPT !.url = At(p)]
<1>1. /\ Steady /\ PassSettled /\ cache' = cache /\ job[w] # Nothing /\ p \in Package
      /\ UNCHANGED <<workspace, status>> /\ ~Cached(p) /\ job[w].url = Nothing
      /\ up
  BY DEF AskManifest, Resolves, Key, Rested
<1>2. CASE named = Nothing /\ p.coord \in Oci
  <2>1. Answer(w, Nothing)
    BY <1>1, <1>2 DEF AskManifest
  <2>2. TextOf(p) = Nothing
    BY <1>1, <1>2, PackageText DEF Obtains, Cached
  <2>3. QED
    BY <1>1, <2>1, <2>2, AnswerSettled, CacheStays DEF Rested, RestedThen
<1>3. CASE ~(named = Nothing /\ p.coord \in Oci)
  <2>1. /\ job[w] \in Job /\ At(p) \in Url /\ job \in [Worker -> Job \cup {Nothing}]
        /\ Served(p) \in Text \cup {Nothing}
    BY <1>1, ObtainsTyped DEF Steady, WorkTyped
  <2>2. job' = [job EXCEPT ![w] = asked] /\ pass' = pass
    BY <1>1, <1>3 DEF AskManifest, At
  <2>3. /\ asked \in Job /\ asked.source = p /\ asked.url = At(p)
        /\ asked.body = job[w].body
    BY <2>1 DEF Job
  <2> HIDE DEF asked
  <2>4. job'[w] = asked /\ registry' = registry
    BY <1>1, <2>1, <2>2, SteadyDue
  <2>5. job[w].body = Nothing
    BY <1>1 DEF Rested, JobSettled
  <2>6. Refused(p, Served(p)) => Obtains(p) = Nothing
    BY <1>1, <1>3 DEF Refused, Obtains, Served, At, Cached
  <2>7. JobSettled(w)'
    BY <1>1, <1>3, <2>3, <2>4, <2>5, <2>6 DEF JobSettled, Steady, Refused
  <2> HIDE DEF p
  <2>8. PassSettled' /\ \A v \in Worker : JobSettled(v)'
    BY <1>1, <2>2, <2>3, <2>7, JobSettles DEF Rested, p
  <2>9. QED
    BY <1>1, <2>8, CacheStays DEF Rested, RestedThen
<1>4. QED
  BY <1>2, <1>3

LEMMA FetchContentRests ==
    ASSUME Rested, NEW w \in Worker, FetchContent(w)
    PROVE  RestedThen
<1> DEFINE p == job[w].source
           text == Served(p)
           fetched == [job[w] EXCEPT !.body = text]
<1>1. /\ Steady /\ PassSettled /\ cache' = cache /\ job[w] # Nothing /\ p \in Package
      /\ UNCHANGED <<workspace, status>> /\ job[w].url = At(p) /\ job[w].url # Nothing
      /\ registry[p.coord].manifest = Nothing => p.coord \notin Oci
      /\ w = "agent" /\ Refused(p, text) => Obtains(p) = Nothing
      /\ up
  BY DEF FetchContent, Resolves, Rested, JobSettled
<1>2. CASE Refused(p, text)
  <2>1. Answer(w, Nothing)
    BY <1>1, <1>2 DEF FetchContent, Served
  <2>2. w = "agent" => TextOf(p) = Nothing
    BY <1>1, <1>2, PackageText
  <2>3. QED
    BY <1>1, <2>1, <2>2, AnswerSettled, CacheStays DEF Rested, RestedThen
<1>3. CASE ~Refused(p, text)
  <2>1. job[w] \in Job /\ job \in [Worker -> Job \cup {Nothing}]
        /\ text \in Text \cup {Nothing}
    BY <1>1, ObtainsTyped DEF Steady, WorkTyped
  <2>2. job' = [job EXCEPT ![w] = fetched] /\ pass' = pass
    BY <1>1, <1>3, <2>1 DEF FetchContent, Served, Job
  <2>3. text # Nothing /\ text = Obtains(p)
    BY <1>1, <1>3 DEF Refused, Obtains, Served, At
  <2> HIDE DEF text
  <2>4. /\ fetched \in Job /\ fetched.source = p /\ fetched.url = At(p)
        /\ fetched.body = text
    BY <1>1, <2>1 DEF Job
  <2> HIDE DEF fetched
  <2>5. job'[w] = fetched /\ registry' = registry
    BY <1>1, <2>1, <2>2, SteadyDue
  <2>6. JobSettled(w)'
    BY <1>1, <2>3, <2>4, <2>5 DEF JobSettled, Steady
  <2> HIDE DEF p
  <2>7. PassSettled' /\ \A v \in Worker : JobSettled(v)'
    BY <1>1, <2>2, <2>4, <2>6, JobSettles DEF Rested, p
  <2>8. QED
    BY <1>1, <2>7, CacheStays DEF Rested, RestedThen
<1>4. QED
  BY <1>2, <1>3

LEMMA StoreContentRests ==
    ASSUME Rested, NEW w \in Worker, StoreContent(w)
    PROVE  RestedThen
<1> DEFINE p == job[w].source
           entry == [text |-> job[w].body, fresh |-> TRUE]
<1>1. /\ Steady /\ PassSettled /\ job[w] # Nothing /\ p \in Package
      /\ UNCHANGED <<workspace, status>> /\ job[w].body = Obtains(p)
      /\ cache' = [cache EXCEPT ![p] = entry] /\ Answer(w, job[w].body)
  BY DEF StoreContent, Resolves, Key, Rested, JobSettled
<1> HIDE DEF p
<1>2. job[w].body = TextOf(job[w].source)
  BY <1>1, PackageText DEF p
<1>3. \A q \in Package : cache'[q] = IF q = p THEN entry ELSE cache[q]
  BY <1>1 DEF Steady, CacheTyped
<1>4. entry.text = job[w].body
  OBVIOUS
<1> HIDE DEF entry
<1>5. CacheSettled'
  <2>1. ASSUME NEW q \in Package, q.digest = Unpinned, cache'[q] # Nothing,
               cache'[q].fresh
        PROVE  cache'[q].text = Obtains(q)
    BY <1>1, <1>3, <1>4, <2>1 DEF Rested, CacheSettled
  <2>2. QED
    BY <1>1, <2>1 DEF CacheSettled, Steady
<1>6. QED
  BY <1>1, <1>2, <1>5, AnswerSettled DEF Rested, RestedThen

LEMMA AgesRests ==
    ASSUME Rested, NEW c \in Coord, Ages(c)
    PROVE  RestedThen
<1> DEFINE key == [coord |-> c, digest |-> Unpinned]
           aged == [cache[key] EXCEPT !.fresh = FALSE]
<1>1. /\ Steady /\ PassSettled /\ pass' = pass /\ job' = job
      /\ UNCHANGED <<workspace, status>> /\ cache[key] # Nothing
      /\ cache' = [cache EXCEPT ![key].fresh = FALSE]
      /\ key \in Package /\ cache \in [Package -> Entry \cup {Nothing}]
  BY DEF Ages, Rested, Steady, CacheTyped, Package
<1> HIDE DEF key
<1>2. cache[key] \in Entry /\ cache' = [cache EXCEPT ![key] = aged]
  BY <1>1
<1>3. aged.fresh = FALSE
  BY <1>2 DEF Entry
<1> HIDE DEF aged
<1>4. \A q \in Package : cache'[q] = IF q = key THEN aged ELSE cache[q]
  BY <1>1, <1>2
<1>5. CacheSettled'
  BY <1>1, <1>3, <1>4 DEF Rested, CacheSettled, Steady
<1>6. QED
  BY <1>1, <1>5, PassStays, JobStays DEF Rested, RestedThen

(***************************************************************************)
(* What the steps above need of the invariant.                             *)
(***************************************************************************)

\* A step that is no edit and no fault, and no end of an outage.
Work ==
    \/ Begin(TRUE) \/ (\E n \in Folder : LookUp(n, TRUE))
    \/ (\E r \in Resource : TakeListed(r) \/ OtherBegins(r))
    \/ (\E w \in Worker : \/ ReadMap(w) \/ CacheHit(w) \/ AskManifest(w, TRUE)
                          \/ FetchContent(w) \/ StoreContent(w))
    \/ Seed \/ Finish(TRUE) \/ (\E c \in Coord : Ages(c))

\* A step that counts leaves its counter another number.
LEMMA CountedMove ==
    ASSUME CountersTyped, UNCHANGED <<edits, faults>>
    PROVE  ~Edit /\ ~Fault
  BY DeliveryAssumption DEF DeliveryAssumption, CountersTyped, Edit, Fault

LEMMA OnlyWork ==
    ASSUME CountersTyped, up, Next, UNCHANGED <<edits, faults>>
    PROVE  Work
<1>1. ~Edit /\ ~Fault
  BY CountedMove
<1>2. \A w \in Worker : Resolve(w) => Work
  <2>1. ASSUME NEW w \in Worker, NEW answered \in BOOLEAN, AskManifest(w, answered)
        PROVE  answered = TRUE
    BY <1>1, <2>1 DEF AskManifest
  <2>2. QED
    BY <2>1 DEF Resolve, Work
<1>3. ASSUME Agent PROVE Work
  <2>1. ASSUME NEW listed \in BOOLEAN, Begin(listed) PROVE Work
    BY <1>1, <2>1 DEF Begin, Work
  <2>2. ASSUME NEW listed \in BOOLEAN, NEW n \in Folder, LookUp(n, listed) PROVE Work
    BY <1>1, <2>2 DEF LookUp, Work
  <2>3. ASSUME NEW ok \in BOOLEAN, SeedFails(ok) \/ Finish(ok) PROVE Work
    BY <1>1, <2>3 DEF SeedFails, Finish, Work
  <2>4. ASSUME (\E r \in Resource : TakeListed(r)) \/ Seed PROVE Work
    BY <2>4 DEF Work
  <2>5. QED
    BY <1>2, <1>3, <2>1, <2>2, <2>3, <2>4 DEF Agent, Worker
<1>4. ASSUME Environment PROVE Work
  <2>1. ASSUME NEW r \in Resource, OtherBegins(r) PROVE Work
    BY <2>1 DEF Work
  <2>2. ASSUME NEW c \in Coord, Ages(c) PROVE Work
    BY <2>2 DEF Work
  <2>3. /\ \A r \in Resource : \A spec \in SpecOf[r] \cup {Nothing} : ~EditSkill(r, spec)
        /\ \A text \in Text \cup {Nothing} :
              ~EditMap(text) /\ \A c \in Coord, u \in Url : ~Publish(c, u, text)
        /\ \A c \in Coord, u \in Url \cup {Nothing} : ~PublishManifest(c, u)
        /\ \A new \in RefSpec : ~EditRefs(new)
        /\ ~NoteActivity /\ ~RegistryDown /\ ~Restart /\ ~RegistryUp
        /\ \A new \in Image : ~Rollout(new)
        /\ \A new \in SUBSET KnowledgeBase : ~Attach(new) /\ ~EditKbRefs(new)
    BY <1>1 DEF EditSkill, EditMap, Publish, PublishManifest, EditRefs, NoteActivity,
         RegistryDown, RegistryUp, Restart, Rollout, Attach, EditKbRefs
  <2>4. QED
    BY <1>2, <1>4, <2>1, <2>2, <2>3 DEF Environment, Worker
<1>5. QED
  BY <1>3, <1>4 DEF Next

\* Work touches no world.
LEMMA WorkFrame == Work => UNCHANGED world
  BY DEF Work, Begin, LookUp, TakeListed, OtherBegins, ReadMap, CacheHit, AskManifest,
     FetchContent, StoreContent, Seed, Finish, Ages

\* What a package gives stays, also when its text is stored.
LEMMA WorkSteady ==
    ASSUME DeliveryInv, DeliveryInv', Settled, Work
    PROVE  Steady
<1>1. /\ UNCHANGED world /\ cache \in [Package -> Entry \cup {Nothing}]
      /\ WorldTyped /\ CacheTyped /\ CacheTyped' /\ WorkTyped /\ WorkTyped'
      /\ Coupled /\ Coupled'
  BY WorkFrame DEF DeliveryInv, WorkInv, CacheTyped
<1>2. ASSUME NEW p \in Package, p.digest # Unpinned
      PROVE  /\ cache[p] # Nothing => cache'[p] # Nothing
             /\ cache'[p] # Nothing => cache[p] # Nothing \/ Obtains(p) = p.digest
  <2>1. CASE cache' = cache
    BY <2>1
  <2>2. ASSUME NEW w \in Worker, StoreContent(w)
        PROVE  /\ cache[p] # Nothing => cache'[p] # Nothing
               /\ cache'[p] # Nothing => cache[p] # Nothing \/ Obtains(p) = p.digest
    <3> DEFINE entry == [text |-> job[w].body, fresh |-> TRUE]
    <3>1. /\ job[w] # Nothing /\ job[w].source \in Package /\ job[w].body # Nothing
          /\ cache' = [cache EXCEPT ![job[w].source] = entry]
      BY <2>2 DEF StoreContent, Resolves, Key
    <3>2. job[w] \in Job /\ job[w].body \in Text
      BY <1>1, <3>1 DEF WorkTyped, Job
    <3>3. entry \in Entry
      BY <3>2 DEF Entry
    <3> HIDE DEF entry
    <3>4. entry # Nothing
      BY <3>3, DistinctAssumption DEF DistinctAssumption
    <3>5. CASE p = job[w].source
      <4>1. job[w].body = Obtains(p)
        BY <2>2, <3>1, <3>5 DEF Settled, JobSettled
      <4>2. job[w].body = p.digest
        BY <1>2, <3>1, <3>5 DEF DeliveryInv, WorkInv, FetchedGood
      <4>3. QED
        BY <1>1, <3>1, <3>4, <3>5, <4>1, <4>2
    <3>6. CASE p # job[w].source
      BY <1>1, <3>1, <3>6
    <3>7. QED
      BY <3>5, <3>6
  <2>3. ASSUME NEW c \in Coord, Ages(c) PROVE cache'[p] = cache[p]
    <3>1. [coord |-> c, digest |-> Unpinned] # p
      BY <1>2
    <3>2. QED
      BY <1>1, <2>3, <3>1 DEF Ages
  <2>4. QED
    BY <2>1, <2>2, <2>3 DEF Work, Begin, LookUp, TakeListed, OtherBegins, ReadMap,
       CacheHit, AskManifest, FetchContent, Seed, Finish
<1>3. ASSUME NEW p \in Package
      PROVE  At(p)' = At(p) /\ Served(p)' = Served(p) /\ Obtains(p)' = Obtains(p)
  BY <1>1, <1>2, ObtainsStays
<1>4. QED
  BY <1>1, <1>3 DEF Steady

LEMMA WorkRests ==
    ASSUME NamesDiffer, DeliveryInv, DeliveryInv', Settled, Work
    PROVE  Settled' /\ UNCHANGED <<workspace, status>>
<1>1. Steady
  BY WorkSteady
<1>2. Rested
  BY <1>1 DEF Rested, Settled, DeliveryInv, WorkInv
<1>3. RestedThen
  BY <1>2, BeginRests, LookUpRests, TakeListedRests, OtherBeginsRests, ReadMapRests,
     CacheHitRests, AskManifestRests, FetchContentRests, StoreContentRests, SeedRests,
     FinishRests, AgesRests DEF Work, Begin
<1>4. OutcomeSettled'
  BY <1>1, <1>3, OutcomeStays DEF RestedThen, Settled, status
<1>5. up'
  BY <1>1 DEF Steady, world, Settled
<1>6. QED
  BY <1>3, <1>4, <1>5 DEF RestedThen, Settled

LEMMA StutterRests ==
    ASSUME DeliveryInv, DeliveryInv', Settled, UNCHANGED vars
    PROVE  Settled' /\ UNCHANGED <<workspace, status>>
<1>1. /\ UNCHANGED <<world, cache, pass, job>> /\ UNCHANGED <<workspace, status>>
  BY DEF vars
<1>2. \A p \in Package :
         At(p)' = At(p) /\ Served(p)' = Served(p) /\ Obtains(p)' = Obtains(p)
  BY <1>1, ObtainsStays
<1>3. Steady
  BY <1>1, <1>2 DEF Steady, DeliveryInv, WorkInv
<1>4. QED
  BY <1>1, <1>3, OutcomeStays, CacheStays, PassStays, JobStays DEF Settled, status, world

(***************************************************************************)
(* A settled workspace has the declared skills with the content their      *)
(* sources have now, WIKI.md and KBS.md tell the KnowledgeBases, and       *)
(* status.skillSet tells the declared skills (the state                    *)
(* WorkspaceConverges comes to).                                           *)
(***************************************************************************)
WorkspaceRight ==
    /\ \A f \in Folder : /\ folder[f] = Wanted(f)
                         /\ Wanted(f) = Nothing => bundled[f] = {}
                         /\ FromCatalog(f) => image[f] \in bundled[f]
    /\ kbs # {} => wiki = kbs
    /\ index = KbsMd(kbRefs)

(***************************************************************************)
(* Until somebody edits, publishes, restarts the operator or a request     *)
(* fails, no pass changes a settled workspace, nor status.skillSet and the *)
(* epoch: the agent's sessions are not reset again for a skill set it      *)
(* has.  Passes of other workers, aging and refilling of the cache do not  *)
(* disturb it.                                                             *)
(***************************************************************************)
WorkspaceStays ==
    [][Settled /\ UNCHANGED <<edits, faults>>
         => Settled' /\ UNCHANGED <<workspace, status>>]_vars

\* The safety half of WorkspaceConverges: a settled workspace is what it is to
\* come to, and the passes that go on every few minutes leave it so, whatever
\* the registry is asked for in between (reconcileSharedFull, resolvePackageRef).
THEOREM WorkspaceIsStable ==
    ASSUME NamesDiffer
    PROVE  Spec => [](Settled => WorkspaceRight) /\ WorkspaceStays
<1>1. DeliveryInv => (Settled => WorkspaceRight)
  BY DEF Settled, OutcomeSettled, WorkspaceRight
<1>2. DeliveryInv /\ DeliveryInv' /\ [Next]_vars
        => (Settled /\ UNCHANGED <<edits, faults>>
              => Settled' /\ UNCHANGED <<workspace, status>>)
  BY OnlyWork, WorkRests, StutterRests DEF Settled, DeliveryInv
<1>3. QED
  BY <1>1, <1>2, DeliveryInvInit, DeliveryInvStep, PTL DEF Spec, WorkspaceStays
=============================================================================
