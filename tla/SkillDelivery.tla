---------------------------- MODULE SkillDelivery ----------------------------
(***************************************************************************)
(* How skills reach the workspace of one agent.  A pass of the             *)
(* AgentWorkstation reconciler looks its skills up (the refs of its spec,  *)
(* or without refs every Skill of the namespace), resolves the content of  *)
(* each, and runs a script in the gateway pod that copies baked skills out *)
(* of the mounted catalog image, writes the others, and removes every      *)
(* folder that is in neither set.  Content named by a package reference    *)
(* comes from a registry over several requests, through a cache that all   *)
(* workers of the operator share: what is pinned by digest stays, anything *)
(* else ages.  Between any two requests the objects, the registry, the     *)
(* image and the other workers move on.                                    *)
(***************************************************************************)
EXTENDS Naturals

CONSTANTS
    Folder,     \* names of skills and of Skill objects: folders of the workspace
    Resource,   \* Skill objects
    Called,     \* metadata.name of a Skill
    Means,      \* the skill-name label of a Skill, or NoLabel
    Mine,       \* the Skills labelled with this agent
    Platform,   \* the Skills of the platform catalog's namespace
    Order,      \* the order of Skills by name
    Version, Text, Coord, Url,
    Oci,        \* the coordinates that are oci:// references
    Conventional,   \* the path content has when no manifest names another
    SpecOf,     \* the specs a Skill may have
    RefSpec,    \* the values spec.skillRefs may have
    Image,      \* the catalog images a gateway pod may have mounted
    Catalog,    \* what the Skills may be at the start
    Shared,     \* bound: the packages other workers resolve too
    Published,  \* what the registry may have at the start
    KnowledgeBase,
    Curated,    \* what spec.knowledgeBaseRefs may be at the start
    NoLabel, Floating, Unpinned, FromMap, Nothing,
    MaxEdits,   \* bound: edits by users and publishers, rollouts, restarts
    MaxFaults   \* bound: failed requests and refused writes

Pin == Version \cup {Floating}
Package == [coord : Coord, digest : Text \cup {Unpinned}]
\* A text is an inline body, or the template of a Skill without source.
Source == Text \cup {FromMap} \cup Package
SkillSpec == [version : Version, source : Source]
Worker == {"agent", "other"}
\* What is kept of a package, what a pass found under a name, what a worker is
\* resolving, and the pass.
Entry == [text : Text, fresh : BOOLEAN]
Found == [version : Version, text : Text]
Job == [source : {FromMap} \cup Package, url : Url \cup {Nothing},
        body : Text \cup {Nothing}]
Pass == [refs : RefSpec, kbRefs : SUBSET KnowledgeBase, overtaken : BOOLEAN,
         todo : SUBSET (Folder \cup Resource),
         seen : [Resource -> SkillSpec \cup {Nothing}],
         found : [Folder -> Found \cup {Nothing}],
         taking : [as : Folder, version : Version] \cup {Nothing},
         seeded : BOOLEAN]
\* The content URL of a package's manifest, when it has one, and the files.
Registry == [Coord -> [manifest : Url \cup {Nothing},
                       files : [Url -> Text \cup {Nothing}]]]

ASSUME DeliveryAssumption ==
    /\ Called \in [Resource -> Folder]
    /\ Means \in [Resource -> Folder \cup {NoLabel}]
    /\ Mine \subseteq Resource /\ Platform \subseteq Resource
    /\ Order \in [Resource -> Nat]
    /\ Oci \subseteq Coord /\ Conventional \in Url
    /\ SpecOf \in [Resource -> SUBSET [version : Version, source : Source]]
    /\ RefSpec \subseteq UNION {[F -> Pin] : F \in SUBSET Folder}
    /\ Image \subseteq [Folder -> Text \cup {Nothing}]
    /\ Catalog \subseteq [Resource -> SkillSpec \cup {Nothing}]
    /\ \A s \in Catalog, r \in Resource : s[r] \in SpecOf[r] \cup {Nothing}
    /\ Published \subseteq Registry /\ Curated \subseteq SUBSET KnowledgeBase
    /\ MaxEdits \in Nat /\ MaxFaults \in Nat

ASSUME DistinctAssumption ==
    /\ Nothing \notin Text \cup Url \cup Folder \cup Resource
    /\ Nothing \notin SkillSpec /\ Nothing \notin Entry /\ Nothing \notin Found
    /\ Nothing \notin Job /\ Nothing \notin Pass
    /\ Nothing \notin [as : Folder, version : Version]
    /\ Unpinned \notin Text
    /\ \A p \in Package : p \notin Text \cup {FromMap} /\ p # Nothing
    /\ FromMap \notin Text

VARIABLES
    skills,     \* the Skill objects of the two namespaces
    map,        \* the ConfigMap Skills take their content from
    refs,       \* spec.skillRefs
    kbRefs,     \* spec.knowledgeBaseRefs
    skillSet, epoch,    \* status.skillSet and status.sessionEpoch
    registry,   \* per coordinate: the manifest's content URL and the files
    up,         \* the registry answers
    image,      \* the catalog image of the gateway pod
    kbs,        \* KnowledgeBases attached to the gateway
    folder,     \* SKILL.md per skill folder of the agent's workspace, on the
                \* gateway's volume
    bundled,    \* and the images, as their text, whose other files it has
    wiki,       \* WIKI.md of the workspace
    index,      \* KBS.md of the workspace
    cache,      \* packageRefCache
    pass,       \* the reconcile of this agent under way
    job,        \* the skill each worker is resolving
    edits, faults

world == <<skills, map, refs, kbRefs, registry, up, image, kbs>>
status == <<skillSet, epoch>>
workspace == <<folder, bundled, wiki, index>>
vars == <<world, status, workspace, cache, pass, job, edits, faults>>

Existing == {r \in Resource : skills[r] # Nothing}
NoText == [f \in Folder |-> Nothing]

Fault == faults < MaxFaults /\ faults' = faults + 1

-----------------------------------------------------------------------------
(***************************************************************************)
(* Looking a ref up.  The sets are tried in this order, and in each the    *)
(* first Skill by name is taken.  Labels are only seen by a list request   *)
(* that succeeds.                                                          *)
(***************************************************************************)
Labelled(n) == {r \in Existing \ Platform : Means[r] = n}
Named(n) == {r \in Existing : Called[r] = n}

Preference(n, pin, listed) ==
    <<{r \in Labelled(n) \cap Mine : listed},
      {r \in Labelled(n) : listed /\ skills[r].version = pin},
      {r \in Labelled(n) : listed},
      Named(n) \ Platform,
      Named(n) \cap Platform>>

FirstByName(S) == CHOOSE r \in S : \A q \in S : Order[r] <= Order[q]

RefSkill(n, pin, listed) ==
    LET sets == Preference(n, pin, listed)
        tried == {i \in 1..5 : sets[i] # {}}
    IN IF tried = {} THEN Nothing
       ELSE FirstByName(sets[CHOOSE i \in tried : \A j \in tried : i <= j])

Fits(r, pin) == pin = Floating \/ skills[r].version = pin

-----------------------------------------------------------------------------
Idle == pass = Nothing
Declared == DOMAIN pass.refs # {}

\* A pass reads the workstation, finds a ready gateway pod and, for an agent
\* without refs, lists the Skills of the namespace; a failed list is logged
\* and leaves no skills.
Begin(listed) ==
    /\ Idle
    /\ IF listed THEN UNCHANGED faults ELSE DOMAIN refs = {} /\ Fault
    /\ pass' = [refs |-> refs, kbRefs |-> kbRefs, overtaken |-> FALSE,
                todo |-> IF DOMAIN refs # {} THEN DOMAIN refs
                         ELSE {r \in Existing \ Platform : listed},
                seen |-> IF DOMAIN refs = {} THEN skills
                         ELSE [r \in Resource |-> Nothing],
                found |-> NoText, taking |-> Nothing,
                seeded |-> FALSE]
    /\ UNCHANGED <<world, status, workspace, cache, job, edits>>

Start(w, source) ==
    job' = [job EXCEPT ![w] = [source |-> source, url |-> Nothing,
                               body |-> Nothing]]

\* A Skill is taken: its own body is there at once, other content is not.
Take(task, as, spec) ==
    IF spec.source \in Text
    THEN /\ pass' = [pass EXCEPT !.todo = @ \ {task}, !.found[as] =
                        [version |-> spec.version, text |-> spec.source]]
         /\ UNCHANGED job
    ELSE /\ pass' = [pass EXCEPT !.todo = @ \ {task},
                        !.taking = [as |-> as, version |-> spec.version]]
         /\ Start("agent", spec.source)

\* The next ref is looked up: it resolves to a Skill whose version the pin
\* allows, or the condition SkillRefsResolved names it.
LookUp(n, listed) ==
    /\ ~Idle /\ Declared /\ job["agent"] = Nothing /\ n \in pass.todo
    /\ IF listed THEN UNCHANGED faults ELSE Fault
    /\ \E r \in {RefSkill(n, pass.refs[n], listed)} :
          IF r # Nothing /\ Fits(r, pass.refs[n])
          THEN Take(n, n, skills[r])
          ELSE pass' = [pass EXCEPT !.todo = @ \ {n}] /\ UNCHANGED job
    /\ UNCHANGED <<world, status, workspace, cache, edits>>

\* Without refs the listed Skills are taken as they were when listed, here in
\* the order of their names.
TakeListed(r) ==
    /\ ~Idle /\ ~Declared /\ job["agent"] = Nothing /\ r \in pass.todo
    /\ \A q \in pass.todo : Order[r] <= Order[q]
    /\ Take(r, Called[r], pass.seen[r])
    /\ UNCHANGED <<world, status, workspace, cache, edits, faults>>

\* Another worker resolves the package of a Skill: the Skill controller for
\* its hash, or the pass of another agent.
OtherBegins(r) ==
    /\ job["other"] = Nothing /\ r \in Existing
    /\ skills[r].source \in Package \cap Shared
    /\ Start("other", skills[r].source)
    /\ UNCHANGED <<world, status, workspace, cache, pass, edits, faults>>

-----------------------------------------------------------------------------
(***************************************************************************)
(* Resolving the content of a Skill.                                       *)
(***************************************************************************)
\* The worker's resolve ends with a text, or with Nothing when it failed.
Answer(w, text) ==
    /\ job' = [job EXCEPT ![w] = Nothing]
    /\ pass' = IF w = "other" THEN pass
               ELSE IF text = Nothing THEN [pass EXCEPT !.taking = Nothing]
               ELSE [pass EXCEPT !.taking = Nothing, !.found[pass.taking.as] =
                        [version |-> pass.taking.version, text |-> text]]

ReadMap(w) ==
    /\ job[w] # Nothing /\ job[w].source = FromMap
    /\ Answer(w, map)
    /\ UNCHANGED <<world, status, workspace, cache, edits, faults>>

Resolves(w) == job[w] # Nothing /\ job[w].source \in Package

\* Mutant: the key of a cached package lacks the digest.
MutKey(source) == [coord |-> source.coord, digest |-> Unpinned]

Key(source) == source

\* Mutant: an entry never ages.
MutCached(key) == cache[key] # Nothing

Cached(key) == cache[key] # Nothing /\ (key.digest # Unpinned \/ cache[key].fresh)

CacheHit(w) ==
    /\ Resolves(w) /\ job[w].url = Nothing /\ Cached(Key(job[w].source))
    /\ Answer(w, cache[Key(job[w].source)].text)
    /\ UNCHANGED <<world, status, workspace, cache, edits, faults>>

\* The manifest says where the content is.  When it cannot be read, an HTTP
\* package is looked for at the conventional path; an OCI artifact fails.
AskManifest(w, answered) ==
    /\ Resolves(w) /\ job[w].url = Nothing /\ ~Cached(Key(job[w].source))
    /\ IF answered THEN UNCHANGED faults ELSE Fault
    /\ LET coord == job[w].source.coord
           named == IF up /\ answered THEN registry[coord].manifest ELSE Nothing
       IN IF named = Nothing /\ coord \in Oci
          THEN Answer(w, Nothing)
          ELSE /\ job' = [job EXCEPT ![w].url =
                             IF named = Nothing THEN Conventional ELSE named]
               /\ UNCHANGED pass
    /\ UNCHANGED <<world, status, workspace, cache, edits>>

Refused(source, text) ==
    text = Nothing \/ (source.digest # Unpinned /\ text # source.digest)

FetchContent(w) ==
    /\ Resolves(w) /\ job[w].url # Nothing /\ job[w].body = Nothing
    /\ LET source == job[w].source
           text == IF up THEN registry[source.coord].files[job[w].url]
                   ELSE Nothing
       IN IF Refused(source, text) THEN Answer(w, Nothing)
          ELSE job' = [job EXCEPT ![w].body = text] /\ UNCHANGED pass
    /\ UNCHANGED <<world, status, workspace, cache, edits, faults>>

StoreContent(w) ==
    /\ Resolves(w) /\ job[w].body # Nothing
    /\ cache' = [cache EXCEPT ![Key(job[w].source)] =
                    [text |-> job[w].body, fresh |-> TRUE]]
    /\ Answer(w, job[w].body)
    /\ UNCHANGED <<world, status, workspace, edits, faults>>

\* registryTTL passes.  Nothing asks for the age of pinned content.
Ages(c) ==
    LET key == [coord |-> c, digest |-> Unpinned]
    IN /\ cache[key] # Nothing /\ cache[key].fresh
       /\ cache' = [cache EXCEPT ![key].fresh = FALSE]
       /\ UNCHANGED <<world, status, workspace, pass, job, edits, faults>>

-----------------------------------------------------------------------------
(***************************************************************************)
(* The seed script: copy what the image has, write the rest, remove what   *)
(* is in neither.                                                          *)
(***************************************************************************)
Allowed(f) == ~Declared \/ f \in DOMAIN pass.refs

FromImage(f) == image[f] # Nothing /\ Allowed(f)

Written(f) ==
    IF FromImage(f) THEN image[f]
    ELSE IF pass.found[f] # Nothing THEN pass.found[f].text ELSE folder[f]

\* The scripts and references beside SKILL.md: cpSync copies over what is there
\* and deletes nothing.
Bundled(f) == IF FromImage(f) THEN bundled[f] \cup {image[f]} ELSE bundled[f]

Keep(f) == FromImage(f) \/ pass.found[f] # Nothing

Seeding ==
    ~Idle /\ pass.todo = {} /\ job["agent"] = Nothing /\ ~pass.seeded

\* WIKI.md lists the attached KnowledgeBases; without any nothing is written.
WikiMd == IF kbs # {} THEN kbs ELSE wiki

Seed ==
    /\ Seeding
    /\ folder' = [f \in Folder |-> IF Keep(f) THEN Written(f) ELSE Nothing]
    /\ bundled' = [f \in Folder |-> IF Keep(f) THEN Bundled(f) ELSE {}]
    /\ wiki' = WikiMd
    /\ pass' = [pass EXCEPT !.seeded = TRUE]
    /\ UNCHANGED <<world, status, index, cache, job, edits, faults>>

\* The exec fails before the script ran, or dies before it removed anything:
\* the pass returns the error and its status is lost.
SeedFails(ran) ==
    /\ Seeding /\ Fault
    /\ folder' = IF ran THEN [f \in Folder |-> Written(f)] ELSE folder
    /\ bundled' = IF ran THEN [f \in Folder |-> Bundled(f)] ELSE bundled
    /\ wiki' = IF ran THEN WikiMd ELSE wiki
    /\ pass' = Nothing
    /\ UNCHANGED <<world, status, index, cache, job, edits>>

\* Mutant: the signature is made of contents.
MutDelivered ==
    {<<f, pass.found[f].text>> : f \in {g \in Folder : pass.found[g] # Nothing}}

\* skillSetSignature: what the pass delivered for the declared refs.
Delivered ==
    {<<f, pass.found[f].version>> : f \in {g \in Folder : pass.found[g] # Nothing}}

\* KBS.md: the KnowledgeBases an agent names, those of its gateway with what
\* they are for, the others as refused.  An agent that names none has its
\* file left alone.
KbsMd(named) ==
    IF named = {} THEN index
    ELSE [listed |-> named \cap kbs, refused |-> named \ kbs]

\* The pass ends with KBS.md, whose failure it only logs, and a status
\* update.  It carries the new skill set, and another epoch when the set
\* differs from the last one (as the pass read it: nobody else writes the
\* two); it is refused when the object has changed since the pass read it.
Finish(wrote) ==
    /\ ~Idle /\ pass.seeded
    /\ IF wrote THEN index' = KbsMd(pass.kbRefs) /\ UNCHANGED faults
       ELSE pass.kbRefs # {} /\ Fault /\ UNCHANGED index
    /\ skillSet' = IF Declared /\ ~pass.overtaken THEN Delivered ELSE skillSet
    /\ epoch' = IF /\ Declared /\ ~pass.overtaken
                   /\ skillSet # {} /\ skillSet # Delivered
                THEN epoch + 1 ELSE epoch
    /\ pass' = Nothing
    /\ UNCHANGED <<world, folder, bundled, wiki, cache, job, edits>>

-----------------------------------------------------------------------------
(***************************************************************************)
(* What others do.                                                         *)
(***************************************************************************)
Edit == edits < MaxEdits /\ edits' = edits + 1

Overtaken == IF Idle THEN pass ELSE [pass EXCEPT !.overtaken = TRUE]

EditSkill(r, spec) ==
    /\ Edit /\ skills[r] # spec
    /\ skills' = [skills EXCEPT ![r] = spec]
    /\ UNCHANGED <<map, refs, kbRefs, registry, up, image, kbs, status,
                   workspace, cache, pass, job, faults>>

EditMap(text) ==
    /\ Edit /\ map # text /\ map' = text
    /\ UNCHANGED <<skills, refs, kbRefs, registry, up, image, kbs, status,
                   workspace, cache, pass, job, faults>>

EditRefs(new) ==
    /\ Edit /\ refs # new /\ refs' = new /\ pass' = Overtaken
    /\ UNCHANGED <<skills, map, kbRefs, registry, up, image, kbs, status,
                   workspace, cache, job, faults>>

EditKbRefs(new) ==
    /\ Edit /\ kbRefs # new /\ kbRefs' = new /\ pass' = Overtaken
    /\ UNCHANGED <<skills, map, refs, registry, up, image, kbs, status,
                   workspace, cache, job, faults>>

\* The gateway's reconciler notes the agent's activity on the same object.
NoteActivity ==
    /\ ~Idle /\ ~pass.overtaken /\ Fault /\ pass' = Overtaken
    /\ UNCHANGED <<world, status, workspace, cache, job, edits>>

\* A file is published, or withdrawn.  The layers of an OCI artifact stay.
Publish(c, u, text) ==
    /\ Edit /\ registry[c].files[u] # text
    /\ c \in Oci => registry[c].files[u] = Nothing
    /\ registry' = [registry EXCEPT ![c].files[u] = text]
    /\ UNCHANGED <<skills, map, refs, kbRefs, up, image, kbs, status,
                   workspace, cache, pass, job, faults>>

PublishManifest(c, u) ==
    /\ Edit /\ registry[c].manifest # u
    /\ registry' = [registry EXCEPT ![c].manifest = u]
    /\ UNCHANGED <<skills, map, refs, kbRefs, up, image, kbs, status,
                   workspace, cache, pass, job, faults>>

RegistryDown ==
    /\ up /\ Fault /\ up' = FALSE
    /\ UNCHANGED <<skills, map, refs, kbRefs, registry, image, kbs, status,
                   workspace, cache, pass, job, edits>>

RegistryUp ==
    /\ ~up /\ up' = TRUE
    /\ UNCHANGED <<skills, map, refs, kbRefs, registry, image, kbs, status,
                   workspace, cache, pass, job, edits, faults>>

\* The gateway pod comes back with another image, or without the mount.
Rollout(new) ==
    /\ Edit /\ image # new /\ image' = new
    /\ UNCHANGED <<skills, map, refs, kbRefs, registry, up, kbs, status,
                   workspace, cache, pass, job, faults>>

Attach(new) ==
    /\ Edit /\ kbs # new /\ kbs' = new
    /\ UNCHANGED <<skills, map, refs, kbRefs, registry, up, image, status,
                   workspace, cache, pass, job, faults>>

\* The operator restarts: the cache and the passes under way are gone.
Restart ==
    /\ Edit /\ pass' = Nothing
    /\ job' = [w \in Worker |-> Nothing]
    /\ cache' = [key \in Package |-> Nothing]
    /\ UNCHANGED <<world, status, workspace, faults>>

-----------------------------------------------------------------------------
Init ==
    /\ skills \in Catalog /\ map = Nothing /\ refs \in RefSpec
    /\ kbRefs \in Curated /\ index = Nothing
    /\ image \in Image /\ registry \in Published
    /\ kbs = {} /\ up = TRUE
    /\ skillSet = {} /\ epoch = 0 /\ folder = NoText /\ wiki = Nothing
    /\ bundled = [f \in Folder |-> {}]
    /\ cache = [key \in Package |-> Nothing]
    /\ pass = Nothing /\ job = [w \in Worker |-> Nothing]
    /\ edits = 0 /\ faults = 0

Resolve(w) ==
    \/ ReadMap(w) \/ CacheHit(w)
    \/ \E answered \in BOOLEAN : AskManifest(w, answered)
    \/ FetchContent(w) \/ StoreContent(w)

Agent ==
    \/ \E listed \in BOOLEAN :
          Begin(listed) \/ \E n \in Folder : LookUp(n, listed)
    \/ \E r \in Resource : TakeListed(r)
    \/ Resolve("agent")
    \/ Seed \/ (\E ok \in BOOLEAN : SeedFails(ok) \/ Finish(ok))

Environment ==
    \/ \E r \in Resource : \/ \E spec \in SpecOf[r] \cup {Nothing} :
                                 EditSkill(r, spec)
                           \/ OtherBegins(r)
    \/ Resolve("other")
    \/ \E c \in Coord : Ages(c)
    \/ \E text \in Text \cup {Nothing} :
          EditMap(text) \/ \E c \in Coord, u \in Url : Publish(c, u, text)
    \/ \E c \in Coord, u \in Url \cup {Nothing} : PublishManifest(c, u)
    \/ \E new \in RefSpec : EditRefs(new)
    \/ NoteActivity \/ RegistryDown \/ RegistryUp \/ Restart
    \/ \E new \in Image : Rollout(new)
    \/ \E new \in SUBSET KnowledgeBase : Attach(new) \/ EditKbRefs(new)

Next == Agent \/ Environment

Spec == Init /\ [][Next]_vars

(***************************************************************************)
(* The pass of an agent comes back: every pass ends with a requeue, after  *)
(* an error with a back-off.  Other passes come to their end too, time     *)
(* passes for the cache, and an outage ends.                               *)
(***************************************************************************)
FairSpec ==
    /\ Spec /\ WF_vars(Agent) /\ WF_vars(Resolve("other"))
    /\ \A c \in Coord : WF_vars(Ages(c))
    /\ WF_vars(RegistryUp)

-----------------------------------------------------------------------------
\* The types of the variables.
TypeOK ==
    /\ skills \in [Resource -> SkillSpec \cup {Nothing}]
    /\ \A r \in Existing : skills[r] \in SpecOf[r]
    /\ map \in Text \cup {Nothing} /\ refs \in RefSpec
    /\ skillSet \subseteq Folder \X Version /\ epoch \in Nat
    /\ registry \in Registry
    /\ up \in BOOLEAN /\ image \in Image /\ kbs \subseteq KnowledgeBase
    /\ folder \in [Folder -> Text \cup {Nothing}]
    /\ bundled \in [Folder -> SUBSET Text]
    /\ wiki \in (SUBSET KnowledgeBase) \cup {Nothing}
    /\ kbRefs \subseteq KnowledgeBase
    /\ index = Nothing \/ index \in [listed : SUBSET KnowledgeBase,
                                     refused : SUBSET KnowledgeBase]
    /\ cache \in [Package -> Entry \cup {Nothing}]
    /\ pass \in Pass \cup {Nothing}
    /\ job \in [Worker -> Job \cup {Nothing}]
    /\ edits \in 0..MaxEdits /\ faults \in 0..MaxFaults

\* What vouches for a text under the name f: an inline body or a digest of
\* some spec a Skill of that name may have, or an image.
Meant(f) == {r \in Resource : f \in {Called[r], Means[r]}}
Sources(f) == UNION {{s.source : s \in SpecOf[r]} : r \in Meant(f)}
Vouched(f) ==
    (Sources(f) \cap Text)
    \cup {p.digest : p \in Sources(f) \cap Package}
    \cup {i[f] : i \in Image} \cup {Nothing}
Vouchable(f) ==
    FromMap \notin Sources(f)
    /\ \A p \in Sources(f) \cap Package : p.digest # Unpinned

(***************************************************************************)
(* "With it set, a drifted or compromised registry cannot change what this *)
(* Skill delivers": under a name whose Skills all carry their body or a    *)
(* digest, the workspace never has a text but those and the images', in    *)
(* whatever order publishing, aging, other workers' requests for the same  *)
(* package without digest, outages and restarts come.                      *)
(***************************************************************************)
PinnedContentOnly == \A f \in Folder : Vouchable(f) => folder[f] \in Vouched(f)

\* What a package gives now: what the cache keeps for ever, or the registry.
Obtains(p) ==
    LET entry == registry[p.coord]
        url == IF entry.manifest = Nothing THEN Conventional ELSE entry.manifest
        text == entry.files[url]
    IN IF p.digest # Unpinned /\ cache[p] # Nothing THEN p.digest
       ELSE IF \/ entry.manifest = Nothing /\ p.coord \in Oci
               \/ p.digest # Unpinned /\ text # p.digest
            THEN Nothing
       ELSE text

TextOf(source) ==
    IF source \in Text THEN source
    ELSE IF source = FromMap THEN map ELSE Obtains(source)

Wanted(f) ==
    LET listed == {r \in Existing \ Platform : Called[r] = f}
        r == IF f \in DOMAIN refs THEN RefSkill(f, refs[f], TRUE) ELSE Nothing
    IN IF DOMAIN refs # {} /\ f \notin DOMAIN refs THEN Nothing
       ELSE IF image[f] # Nothing THEN image[f]
       ELSE IF DOMAIN refs = {}
            THEN IF listed = {} THEN Nothing
                 ELSE TextOf(skills[FirstByName(listed)].source)
       ELSE IF r = Nothing THEN Nothing
       ELSE IF Fits(r, refs[f]) THEN TextOf(skills[r].source) ELSE Nothing

\* The folder comes with all the image has for the skill.
FromCatalog(f) == image[f] # Nothing /\ (DOMAIN refs # {} => f \in DOMAIN refs)

(***************************************************************************)
(* Once users, publishers and faults are quiet, the workspace comes to     *)
(* hold exactly the declared skills with the SKILL.md their sources have   *)
(* now ("a republished version converges"), and no folder of earlier sets. *)
(***************************************************************************)
WorkspaceConverges ==
    <>[](/\ \A f \in Folder : /\ folder[f] = Wanted(f)
                              /\ Wanted(f) = Nothing => bundled[f] = {}
                              /\ FromCatalog(f) => image[f] \in bundled[f]
         /\ kbs # {} => wiki = kbs
         /\ index = KbsMd(kbRefs))

-----------------------------------------------------------------------------
\* "whole skill folders": what lies beside SKILL.md is that of the image, and
\* nothing where the image has no such skill.  The code does not have it; the
\* README says why.
BundlesExact ==
    <>[](\A f \in Folder :
            bundled[f] \subseteq IF image[f] = Nothing THEN {} ELSE {image[f]})
=============================================================================
