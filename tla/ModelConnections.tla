--------------------------- MODULE ModelConnections ---------------------------
(***************************************************************************)
(* One ModelConnection, a model route the platform publishes, and who may  *)
(* use it.  A namespace that carries the tenant annotations acts for a     *)
(* principal; the offer reconciler projects the connection as a            *)
(* ModelConnectionOffer into every such namespace whose principal its      *)
(* access list admits, and withdraws it elsewhere.  In one namespace there *)
(* is a gateway, which renders the connection into its configuration when  *)
(* the same rule admits it, and a workstation on that gateway, whose model *)
(* string names the connection and whose status says whether it is         *)
(* offered.                                                                *)
(*                                                                         *)
(* The reconciler works from informers.  Nobody but people writes          *)
(* connections and namespaces, and an edit here is its arrival in the      *)
(* informer; offers it writes itself and sees again only later.            *)
(***************************************************************************)
EXTENDS Naturals, Sequences

CONSTANTS
    Namespace,
    Home,           \* the namespace of the gateway and the workstation
    User, Group,    \* names as they are written
    Lower,          \* a name in lower case, spaces trimmed
    Last,           \* the last segment of a group reference
    ConnSpec,       \* the specs the connection may have
    Annotations,    \* the annotations each namespace may have
    Model,          \* what the workstation may ask for
    Handiwork,      \* what people write into an offer
    Absent, Empty, Nothing,
    MaxEdits,       \* bound: edits by people
    MaxFaults       \* bound: failed requests, lost writes, restarts

\* ModelConnectionAccess lists groups and users in order.  url: spec.baseUrl
\* is set.  models: a model is listed.  keyed: the API key can be read.
Kind == {"subscription", "apiKey", "endpoint"}

Access == [users : Seq(User), groups : Seq(Group)]

\* What an offer shows of the connection, and what the principal matched.
OfferFace == [kind : Kind, models : BOOLEAN, access : Access,
              by : User \cup Group \cup {Nothing}]

\* tenantOf reads two annotations; an empty one counts as being there.
Annotated == [user : User \cup {Absent, Empty}, groups : {Absent} \cup SUBSET Group]

ASSUME ConnectionAssumption ==
    /\ Home \in Namespace
    /\ ConnSpec \subseteq [kind : Kind, url : BOOLEAN, models : BOOLEAN,
                           keyed : BOOLEAN, access : Access]
    /\ Annotations \in [Namespace -> SUBSET Annotated]
    /\ Model \subseteq [ref : BOOLEAN, named : BOOLEAN]
    /\ Handiwork \subseteq {Nothing} \cup [labelled : BOOLEAN, face : OfferFace]
    /\ \A gs \in SUBSET Group : Absent # gs
    /\ Absent \notin User \cup {Empty} /\ Empty \notin User
    /\ Nothing \notin User \cup Group /\ User \cap Group = {}
    /\ MaxEdits \in Nat /\ MaxFaults \in Nat

VARIABLES
    conn,       \* the connection: incarnation, generation and spec
    born,       \* incarnations there have been
    ann,        \* the annotations of each namespace
    offers,     \* the offer in each namespace, as the API server has it
    cache,      \* the same as the reconciler's informer has it
    stale,      \* namespaces with a change the informer has not seen
    queued,     \* the connection is in the reconciler's work queue
    pass,       \* the pass of the offer reconciler under way
    model,      \* spec.model of the workstation
    awPass,     \* the pass of the workstation's reconciler under way
    lane,       \* the route of its model string in openclaw.json
    told,       \* its condition ModelConnectionOffered
    block,      \* openclaw.json has a provider block of the connection
    key,        \* the gateway's derived Secret has its key
    edits, faults

inputs == <<conn, born, ann, model>>
store  == <<offers, stale>>
menu   == <<store, cache, queued, pass>>
route  == <<awPass, lane, told, block, key>>
counts == <<edits, faults>>
vars   == <<inputs, menu, route, counts>>

Fault == faults < MaxFaults /\ faults' = faults + 1

\* The API server's offer in n becomes o.
Store(n, o) ==
    /\ offers' = [offers EXCEPT ![n] = o]
    /\ stale' = IF o = offers[n] THEN stale ELSE stale \cup {n}

-----------------------------------------------------------------------------
(***************************************************************************)
(* The access rule.                                                        *)
(***************************************************************************)
Tenant(a) == a.user # Absent \/ a.groups # Absent

\* The first of a list that is in S.
FirstIn(list, S) ==
    LET first == {i \in DOMAIN list :
                     list[i] \in S /\ \A j \in 1..i - 1 : list[j] \notin S}
    IN IF first = {} THEN Nothing ELSE list[CHOOSE i \in first : TRUE]

ByUser(a) == {u \in User : a.user \in User /\ Lower[u] = Lower[a.user]}

\* A group the principal is in counts by its name and by its last segment.
Mine(a) ==
    IF a.groups = Absent THEN {}
    ELSE UNION {{Lower[g], Last[Lower[g]]} : g \in a.groups}

ByGroup(a) == {g \in Group : {Lower[g], Last[Lower[g]]} \cap Mine(a) # {}}

\* connectionOfferedTo: the first user, or else the first group, that matches.
OfferedBy(spec, a) ==
    LET user == FirstIn(spec.access.users, ByUser(a))
    IN IF user # Nothing THEN user ELSE FirstIn(spec.access.groups, ByGroup(a))

\* Where connection c should be offered, and by what match.
WantedFor(c, as) ==
    [n \in Namespace |-> IF c # Nothing /\ Tenant(as[n])
                         THEN OfferedBy(c.spec, as[n]) ELSE Nothing]

\* offerSpecFor: what an offer shows of the connection.
Face(spec, by) ==
    [kind |-> spec.kind, models |-> spec.models, access |-> spec.access, by |-> by]

\* What CreateOrUpdate converges in an offer: owner, label and spec.
Mirror(c, by) == [owner |-> c.uid, labelled |-> TRUE, face |-> Face(c.spec, by)]

-----------------------------------------------------------------------------
(***************************************************************************)
(* The offer reconciler.                                                   *)
(***************************************************************************)
Idle == pass = Nothing

\* A pass takes the connection from the queue and reads it.
Begin ==
    /\ Idle /\ queued
    /\ queued' = FALSE
    /\ pass' = [conn |-> conn, listed |-> FALSE, drop |-> {}, todo |-> {},
                wanted |-> [n \in Namespace |-> Nothing]]
    /\ UNCHANGED <<inputs, store, cache, route, counts>>

\* It lists the namespaces and the labelled offers.
List ==
    /\ ~Idle /\ ~pass.listed
    /\ LET wanted == WantedFor(pass.conn, ann)
       IN pass' = [pass EXCEPT !.listed = TRUE, !.wanted = wanted,
                      !.drop = {n \in Namespace : /\ cache[n] # Nothing
                                                  /\ cache[n].mirror.labelled
                                                  /\ wanted[n] = Nothing},
                      !.todo = {n \in Namespace : wanted[n] # Nothing}]
    /\ UNCHANGED <<inputs, store, cache, queued, route, counts>>

\* An offer that is not wanted is withdrawn, whatever it has become.
Withdraw(n) ==
    /\ ~Idle /\ n \in pass.drop
    /\ Store(n, Nothing)
    /\ pass' = [pass EXCEPT !.drop = @ \ {n}]
    /\ UNCHANGED <<inputs, cache, queued, route, counts>>

Target(n) == Mirror(pass.conn, pass.wanted[n])

\* CreateOrUpdate starts from the informer's offer, and writes nothing when
\* that is as it should be.
Unneeded(n) == cache[n] # Nothing /\ cache[n].mirror = Target(n)

\* Creating what exists, or writing over a change not seen, is refused.
Conflicts(n) ==
    ~Unneeded(n) /\ IF cache[n] = Nothing THEN offers[n] # Nothing ELSE n \in stale

\* Mutant: a new offer's generation is not a number.
MutGeneration(n) == IF cache[n] = Nothing THEN Nothing ELSE cache[n].gen

\* The generation the status of the offer names before it is updated.
Generation(n) == IF cache[n] = Nothing THEN 0 ELSE cache[n].gen

\* A wanted offer is projected or refreshed; then its status names the
\* generation it mirrors, and a failure of that is only logged.
Project(n, saved) ==
    /\ ~Idle /\ pass.drop = {} /\ n \in pass.todo /\ ~Conflicts(n)
    /\ IF saved THEN UNCHANGED faults ELSE Fault
    /\ IF Unneeded(n) /\ n \in stale THEN UNCHANGED store
       ELSE Store(n, [mirror |-> Target(n),
                      gen |-> IF saved THEN pass.conn.gen ELSE Generation(n)])
    /\ pass' = [pass EXCEPT !.todo = @ \ {n}]
    /\ UNCHANGED <<inputs, cache, queued, route, edits>>

End ==
    /\ ~Idle /\ pass.listed /\ pass.drop = {} /\ pass.todo = {}
    /\ pass' = Nothing
    /\ UNCHANGED <<inputs, store, cache, queued, route, counts>>

\* A request fails: the pass ends with an error and is queued again.
PassFails ==
    /\ ~Idle
    /\ IF \E n \in pass.todo : pass.drop = {} /\ Conflicts(n)
       THEN UNCHANGED faults ELSE Fault
    /\ pass' = Nothing /\ queued' = TRUE
    /\ UNCHANGED <<inputs, store, cache, route, edits>>

\* An offer's change arrives; every offer is owned by the connection.
Sync(n) ==
    /\ n \in stale
    /\ stale' = stale \ {n} /\ cache' = [cache EXCEPT ![n] = offers[n]]
    /\ queued' = TRUE
    /\ UNCHANGED <<inputs, offers, pass, route, counts>>

\* The garbage collector removes what a deleted connection owned.
Collect(n) ==
    /\ offers[n] # Nothing
    /\ conn # Nothing => conn.uid # offers[n].mirror.owner
    /\ Store(n, Nothing)
    /\ UNCHANGED <<inputs, cache, queued, pass, route, counts>>

\* The operator restarts: every pass is lost, the informers list everything
\* anew, and what they list is queued.
Restart ==
    /\ Fault
    /\ cache' = offers /\ stale' = {}
    /\ queued' = (conn # Nothing \/ \E n \in Namespace : offers[n] # Nothing)
    /\ pass' = Nothing /\ awPass' = Nothing
    /\ UNCHANGED <<inputs, offers, lane, told, block, key, edits>>

-----------------------------------------------------------------------------
(***************************************************************************)
(* The workstation and its gateway.                                        *)
(***************************************************************************)
\* The model string goes through the connection when that resolves to an
\* endpoint with a model to name, and through the provider otherwise.
LaneOf(m, c) ==
    IF /\ m.ref /\ c # Nothing /\ c.spec.kind = "endpoint"
       /\ m.named \/ c.spec.models
    THEN "connection" ELSE "provider"

\* Mutant: a connection that exists counts as offered.
MutNoted(m, c, a) ==
    IF ~m.ref \/ ~Tenant(a) THEN Nothing
    ELSE IF c = Nothing THEN "ConnectionNotFound" ELSE "Offered"

\* noteModelConnectionOffer: the reason of the condition, when there is one.
Noted(m, c, a) ==
    IF ~m.ref \/ ~Tenant(a) THEN Nothing
    ELSE IF c = Nothing THEN "ConnectionNotFound"
    ELSE IF OfferedBy(c.spec, a) # Nothing THEN "Offered" ELSE "NotOffered"

AwBegin ==
    /\ awPass = Nothing
    /\ awPass' = [model |-> model, lane |-> LaneOf(model, conn)]
    /\ UNCHANGED <<inputs, menu, lane, told, block, key, counts>>

\* The condition is worked out from another read of the connection and of the
\* namespace (when that cannot be read it stays), the agent's entry is merged
\* into openclaw.json, and the status is saved; a refused save is tried again
\* with another pass.
AwMerge(read, saved) ==
    /\ awPass # Nothing
    /\ IF read /\ saved THEN UNCHANGED faults ELSE Fault
    /\ lane' = awPass.lane
    /\ told' = IF read /\ saved THEN Noted(awPass.model, conn, ann[Home]) ELSE told
    /\ awPass' = Nothing
    /\ UNCHANGED <<inputs, menu, block, key, edits>>

\* An exec fails before the merge, and the pass is tried again.
AwFails ==
    /\ awPass # Nothing /\ Fault
    /\ awPass' = Nothing
    /\ UNCHANGED <<inputs, menu, lane, told, block, key, edits>>

\* collectModelConnections: a connection the workstation refers to, or whose
\* key is projected, is rendered while it is a complete endpoint and, in a
\* tenant's namespace, offered to the tenant.
Rendered ==
    /\ model.ref \/ key
    /\ conn # Nothing
    /\ Tenant(ann[Home]) => OfferedBy(conn.spec, ann[Home]) # Nothing
    /\ conn.spec.kind = "endpoint" /\ conn.spec.url

\* A whole pass of the gateway reconciler, up to its model providers.
Render ==
    /\ block' = Rendered /\ key' = (Rendered /\ conn.spec.keyed)
    /\ UNCHANGED <<inputs, menu, awPass, lane, told, counts>>

-----------------------------------------------------------------------------
(***************************************************************************)
(* People.                                                                 *)
(***************************************************************************)
Edit == edits < MaxEdits /\ edits' = edits + 1 /\ UNCHANGED faults

Publish(spec) ==
    /\ Edit /\ conn = Nothing
    /\ born' = born + 1
    /\ conn' = [uid |-> born + 1, gen |-> 1, spec |-> spec]
    /\ queued' = TRUE
    /\ UNCHANGED <<ann, model, store, cache, pass, route>>

EditConnection(spec) ==
    /\ Edit /\ conn # Nothing /\ spec # conn.spec
    /\ conn' = [conn EXCEPT !.gen = @ + 1, !.spec = spec]
    /\ queued' = TRUE
    /\ UNCHANGED <<born, ann, model, store, cache, pass, route>>

Unpublish ==
    /\ Edit /\ conn # Nothing
    /\ conn' = Nothing
    /\ queued' = TRUE
    /\ UNCHANGED <<born, ann, model, store, cache, pass, route>>

\* Mutant: only namespaces that are tenants now matter.
MutMatters(old, new) == Tenant(new)

\* The predicate of the namespace watch.
Matters(old, new) == Tenant(old) \/ Tenant(new)

\* The map function of the watch lists the connections there are.
Annotate(n, a) ==
    /\ Edit /\ a # ann[n]
    /\ queued' = (queued \/ (conn # Nothing /\ Matters(ann[n], a)))
    /\ ann' = [ann EXCEPT ![n] = a]
    /\ UNCHANGED <<conn, born, model, store, cache, pass, route>>

\* An offer is edited or deleted by hand.
HandEdit(n, h) ==
    /\ Edit /\ offers[n] # Nothing
    /\ Store(n, IF h = Nothing THEN Nothing
                ELSE [offers[n] EXCEPT !.mirror.labelled = h.labelled,
                                       !.mirror.face = h.face])
    /\ UNCHANGED <<inputs, cache, queued, pass, route>>

Hire(m) ==
    /\ Edit /\ m # model
    /\ model' = m
    /\ UNCHANGED <<conn, born, ann, menu, route>>

-----------------------------------------------------------------------------
Init ==
    /\ conn \in {Nothing} \cup [uid : {1}, gen : {1}, spec : ConnSpec]
    /\ born = 1
    /\ ann \in {as \in [Namespace -> Annotated] :
               \A n \in Namespace : as[n] \in Annotations[n]}
    /\ model \in Model
    /\ offers = [n \in Namespace |-> Nothing] /\ cache = offers
    /\ stale = {} /\ queued = (conn # Nothing) /\ pass = Nothing
    /\ awPass = Nothing /\ lane = "provider" /\ told = Nothing
    /\ block = FALSE /\ key = FALSE
    /\ edits = 0 /\ faults = 0

Offerer ==
    \/ Begin \/ List \/ End \/ PassFails
    \/ \E n \in Namespace : Withdraw(n) \/ \E saved \in BOOLEAN : Project(n, saved)

Workstation ==
    AwBegin \/ (\E read, saved \in BOOLEAN : AwMerge(read, saved)) \/ AwFails

People ==
    \/ \E spec \in ConnSpec : Publish(spec) \/ EditConnection(spec)
    \/ Unpublish
    \/ \E n \in Namespace : \/ \E a \in Annotations[n] : Annotate(n, a)
                            \/ \E h \in Handiwork : HandEdit(n, h)
    \/ \E m \in Model : Hire(m)

Next ==
    \/ Offerer \/ Restart
    \/ \E n \in Namespace : Sync(n) \/ Collect(n)
    \/ Workstation \/ Render
    \/ People

Spec == Init /\ [][Next]_vars

(***************************************************************************)
(* The work queue is served, informers catch up and the garbage collector  *)
(* collects; the workstation and the gateway come back every five minutes. *)
(***************************************************************************)
FairSpec ==
    /\ Spec /\ WF_vars(Offerer)
    /\ \A n \in Namespace : WF_vars(Sync(n)) /\ WF_vars(Collect(n))
    /\ WF_vars(Workstation) /\ WF_vars(Render)

-----------------------------------------------------------------------------
Connection == [uid : Nat, gen : Nat, spec : ConnSpec]
Offer == [mirror : [owner : Nat, labelled : BOOLEAN, face : OfferFace], gen : Nat]
Pass == [conn : Connection \cup {Nothing}, listed : BOOLEAN,
         drop : SUBSET Namespace, todo : SUBSET Namespace,
         wanted : [Namespace -> User \cup Group \cup {Nothing}]]

ASSUME NothingAssumption == Nothing \notin Connection \cup Offer \cup Pass

\* The types of the variables.
TypeOK ==
    /\ conn \in Connection \cup {Nothing} /\ born \in Nat
    /\ ann \in [Namespace -> Annotated] /\ model \in Model
    /\ offers \in [Namespace -> Offer \cup {Nothing}]
    /\ cache \in [Namespace -> Offer \cup {Nothing}]
    /\ stale \subseteq Namespace /\ queued \in BOOLEAN
    /\ pass \in Pass \cup {Nothing}
    /\ awPass \in {Nothing} \cup [model : Model, lane : {"provider", "connection"}]
    /\ lane \in {"provider", "connection"}
    /\ told \in {Nothing, "Offered", "NotOffered", "ConnectionNotFound"}
    /\ block \in BOOLEAN /\ key \in BOOLEAN
    /\ edits \in 0..MaxEdits /\ faults \in 0..MaxFaults

AtRest == Idle /\ ~queued /\ stale = {}

\* The offer in n is what the connection and the namespace call for now.
Exact(n) ==
    LET by == WantedFor(conn, ann)[n]
    IN IF by = Nothing THEN offers[n] = Nothing
       ELSE offers[n] # Nothing /\ offers[n].mirror = Mirror(conn, by)

(***************************************************************************)
(* "A workspace's offer list is the same menu": when the reconciler has    *)
(* nothing to do and has seen all changes, every namespace has exactly the *)
(* offer its principal is to have.  No change of the connection, of        *)
(* annotations, or of an offer by hand slips through between two requests, *)
(* behind a stale informer, a refused write or a restart.                  *)
(* (modelconnectionoffer_controller.go:35-44)                              *)
(***************************************************************************)
OffersExact == AtRest => \A n \in Namespace : Exact(n)

\* A workstation whose model string names the connection has a provider block
\* for it on its gateway, or its status says why not; except that an endpoint
\* without baseUrl is skipped by the gateway and by nobody else.
LaneTold ==
    lane = "connection" =>
        \/ block
        \/ told \in {"NotOffered", "ConnectionNotFound"}
        \/ conn # Nothing /\ ~conn.spec.url

(***************************************************************************)
(* Left alone, the offer reconciler comes to rest (its own writes, which   *)
(* wake it again, do not keep it running for ever), and the workstation    *)
(* is not left on "a silent dead lane": three readers, of the lane, of the *)
(* condition and of the provider block, see the connection and the         *)
(* namespace at different times, and end up telling the same.              *)
(* (agentworkstation_types.go:84-91)                                       *)
(***************************************************************************)
RoutesSettle == <>[](AtRest /\ LaneTold)
=============================================================================
