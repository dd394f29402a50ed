----------------------- MODULE ModelConnectionsProofs -----------------------
(***************************************************************************)
(* Theorems about ModelConnections, for any namespaces, principals, access *)
(* lists, edits and faults: the menu is exact whenever the reconciler is   *)
(* at rest, and once its readers are caught up nothing moves.              *)
(***************************************************************************)
EXTENDS ModelConnections, TLAPS

Name == User \cup Group

(***************************************************************************)
(* The access rule names somebody on the connection's list, or nobody.     *)
(***************************************************************************)

\* The first match of a list is a member of it.
LEMMA FirstIsListed ==
    ASSUME NEW T, NEW list \in Seq(T), NEW S
    PROVE  FirstIn(list, S) \in T \cup {Nothing}
<1> DEFINE first == {i \in DOMAIN list :
                        list[i] \in S /\ \A j \in 1..i - 1 : list[j] \notin S}
<1>1. CASE first = {}
  BY <1>1 DEF FirstIn
<1>2. CASE first # {}
  <2>1. (CHOOSE i \in first : TRUE) \in DOMAIN list
    BY <1>2
  <2>2. FirstIn(list, S) = list[CHOOSE i \in first : TRUE]
    BY <1>2 DEF FirstIn
  <2>3. QED
    BY <2>1, <2>2
<1>3. QED
  BY <1>1, <1>2

\* connectionOfferedTo returns a name of the access list.
LEMMA OfferedByName ==
    ASSUME NEW spec \in ConnSpec, NEW a
    PROVE  OfferedBy(spec, a) \in Name \cup {Nothing}
<1>1. spec.access.users \in Seq(User) /\ spec.access.groups \in Seq(Group)
  BY ConnectionAssumption DEF Access
<1>2. /\ FirstIn(spec.access.users, ByUser(a)) \in User \cup {Nothing}
      /\ FirstIn(spec.access.groups, ByGroup(a)) \in Group \cup {Nothing}
  BY <1>1, FirstIsListed
<1>3. QED
  BY <1>2 DEF OfferedBy, Name

\* The list of wanted offers has an entry for every namespace.
LEMMA WantedNames ==
    ASSUME NEW c \in Connection \cup {Nothing}, NEW as
    PROVE  WantedFor(c, as) \in [Namespace -> Name \cup {Nothing}]
<1> SUFFICES ASSUME NEW n \in Namespace, c # Nothing
             PROVE  OfferedBy(c.spec, as[n]) \in Name \cup {Nothing}
  BY DEF WantedFor
<1>1. c.spec \in ConnSpec
  BY DEF Connection
<1>2. QED
  BY <1>1, OfferedByName

\* Nobody is wanted for a connection that is gone.
LEMMA WantedNobody ==
    ASSUME NEW as, NEW n \in Namespace
    PROVE  WantedFor(Nothing, as)[n] = Nothing
  BY DEF WantedFor

\* What a pass projects is an offer.
LEMMA MirrorType ==
    ASSUME NEW c \in Connection, NEW by \in Name \cup {Nothing}, NEW g \in Nat
    PROVE  /\ [mirror |-> Mirror(c, by), gen |-> g] \in Offer
           /\ Mirror(c, by).labelled
<1>1. c.uid \in Nat /\ c.spec \in ConnSpec
  BY DEF Connection
<1>2. Face(c.spec, by) \in OfferFace
  BY <1>1, ConnectionAssumption DEF Face, OfferFace, Name
<1>3. QED
  BY <1>1, <1>2 DEF Mirror, Offer

-----------------------------------------------------------------------------
(***************************************************************************)
(* Types, in the parts that the groups of actions disturb.                 *)
(***************************************************************************)
InputsOK ==
    /\ conn \in Connection \cup {Nothing} /\ born \in Nat
    /\ ann \in [Namespace -> Annotated] /\ model \in Model
MenuOK ==
    /\ offers \in [Namespace -> Offer \cup {Nothing}]
    /\ cache \in [Namespace -> Offer \cup {Nothing}]
    /\ stale \subseteq Namespace /\ queued \in BOOLEAN
    /\ pass \in Pass \cup {Nothing}
RouteOK ==
    /\ awPass \in {Nothing} \cup [model : Model, lane : {"provider", "connection"}]
    /\ lane \in {"provider", "connection"}
    /\ told \in {Nothing, "Offered", "NotOffered", "ConnectionNotFound"}
    /\ block \in BOOLEAN /\ key \in BOOLEAN
CountsOK == edits \in 0..MaxEdits /\ faults \in 0..MaxFaults

LEMMA TypeParts == TypeOK <=> InputsOK /\ MenuOK /\ RouteOK /\ CountsOK
  BY DEF TypeOK, InputsOK, MenuOK, RouteOK, CountsOK

\* A write of an offer keeps the store typed.
LEMMA StoreType ==
    ASSUME MenuOK, NEW n \in Namespace, NEW o \in Offer \cup {Nothing}, Store(n, o)
    PROVE  /\ offers' \in [Namespace -> Offer \cup {Nothing}]
           /\ stale' \subseteq Namespace
  BY DEF MenuOK, Store

\* The offer a pass leaves behind is one.
LEMMA ProjectedType ==
    ASSUME InputsOK, MenuOK, ~Idle, pass.conn # Nothing,
           NEW n \in Namespace, NEW saved \in BOOLEAN
    PROVE  [mirror |-> Target(n),
            gen |-> IF saved THEN pass.conn.gen ELSE Generation(n)] \in Offer
<1>1. pass.conn \in Connection /\ pass.wanted[n] \in Name \cup {Nothing}
  BY DEF MenuOK, Idle, Pass, Name
<1>2. pass.conn.gen \in Nat
  BY <1>1 DEF Connection
<1>3. Generation(n) \in Nat
  BY DEF Generation, MenuOK, Offer
<1>4. (IF saved THEN pass.conn.gen ELSE Generation(n)) \in Nat
  BY <1>2, <1>3
<1>5. QED
  BY <1>1, <1>4, MirrorType DEF Target

\* A pass has something to project only for a connection that it found.
TodoHasConn == ~Idle /\ pass.todo # {} => pass.conn # Nothing

TypeInv == TypeOK /\ TodoHasConn

LEMMA TypesAtStart == Init => TypeInv
<1> SUFFICES ASSUME Init PROVE TypeInv
  OBVIOUS
<1>1. InputsOK
  <2>1. ann \in [Namespace -> Annotated]
    BY ConnectionAssumption DEF Init
  <2>2. conn \in Connection \cup {Nothing}
    BY DEF Init, Connection
  <2>3. QED
    BY <2>1, <2>2 DEF Init, InputsOK
<1>2. MenuOK
  <2>1. queued \in BOOLEAN
    <3>1. queued = (conn # Nothing)
      BY DEF Init
    <3>2. QED
      BY <3>1
  <2>2. QED
    BY <2>1 DEF Init, MenuOK
<1>3. RouteOK /\ CountsOK
  <2>1. RouteOK
    BY DEF Init, RouteOK
  <2>2. CountsOK
    BY ConnectionAssumption DEF Init, CountsOK
  <2>3. QED
    BY <2>1, <2>2
<1>4. QED
  BY <1>1, <1>2, <1>3, TypeParts DEF Init, TypeInv, TodoHasConn, Idle

LEMMA TypesKept == TypeInv /\ [Next]_vars => TypeInv'
<1> SUFFICES ASSUME TypeInv, [Next]_vars PROVE TypeInv'
  OBVIOUS
<1>1. InputsOK /\ MenuOK /\ RouteOK /\ CountsOK
  BY TypeParts DEF TypeInv
<1>2. ASSUME InputsOK', MenuOK', RouteOK', CountsOK', TodoHasConn'
      PROVE  TypeInv'
  BY <1>2 DEF TypeInv, TypeOK, InputsOK, MenuOK, RouteOK, CountsOK
<1>3. Fault => faults' \in 0..MaxFaults
  BY <1>1, ConnectionAssumption DEF Fault, CountsOK
<1>4. Edit => CountsOK'
  BY <1>1, ConnectionAssumption DEF Edit, CountsOK
<1>5. CASE Begin
  <2>1. pass' \in Pass
    BY <1>1, <1>5 DEF Begin, InputsOK, Pass
  <2>2. MenuOK' /\ TodoHasConn'
    BY <1>1, <1>5, <2>1 DEF Begin, MenuOK, TodoHasConn, store
  <2>3. InputsOK' /\ RouteOK' /\ CountsOK'
    BY <1>1, <1>5 DEF Begin, InputsOK, RouteOK, CountsOK, inputs, route, counts
  <2>4. QED
    BY <1>2, <2>2, <2>3
<1>6. CASE List
  <2>1. pass.conn \in Connection \cup {Nothing} /\ pass \in Pass
    BY <1>1, <1>6 DEF List, Idle, MenuOK, Pass
  <2>2. WantedFor(pass.conn, ann) \in [Namespace -> Name \cup {Nothing}]
    BY <2>1, WantedNames
  <2>3. pass' \in Pass /\ pass'.conn = pass.conn
    BY <1>6, <2>1, <2>2 DEF List, Pass, Name
  <2>4. pass'.todo # {} => pass'.conn # Nothing
    <3> SUFFICES ASSUME pass.conn = Nothing PROVE pass'.todo = {}
      BY <2>3
    <3>1. pass'.todo = {n \in Namespace : WantedFor(pass.conn, ann)[n] # Nothing}
      BY <1>6, <2>1 DEF List, Pass
    <3>2. QED
      BY <3>1, WantedNobody
  <2>5. MenuOK' /\ TodoHasConn'
    BY <1>1, <1>6, <2>3, <2>4 DEF List, MenuOK, TodoHasConn, store
  <2>6. InputsOK' /\ RouteOK' /\ CountsOK'
    BY <1>1, <1>6 DEF List, InputsOK, RouteOK, CountsOK, inputs, route, counts
  <2>7. QED
    BY <1>2, <2>5, <2>6
<1>7. ASSUME NEW n \in Namespace, Withdraw(n) PROVE TypeInv'
  <2>1. pass \in Pass
    BY <1>1, <1>7 DEF Withdraw, Idle, MenuOK
  <2>2. pass' \in Pass /\ pass'.todo = pass.todo /\ pass'.conn = pass.conn
    BY <1>7, <2>1 DEF Withdraw, Pass
  <2>3. MenuOK'
    BY <1>1, <1>7, <2>2, StoreType DEF Withdraw, MenuOK
  <2>4. TodoHasConn'
    BY <1>7, <2>2 DEF Withdraw, TypeInv, TodoHasConn, Idle
  <2>5. InputsOK' /\ RouteOK' /\ CountsOK'
    BY <1>1, <1>7 DEF Withdraw, InputsOK, RouteOK, CountsOK, inputs, route, counts
  <2>6. QED
    BY <1>2, <2>3, <2>4, <2>5
<1>8. ASSUME NEW n \in Namespace, NEW saved \in BOOLEAN, Project(n, saved)
      PROVE  TypeInv'
  <2>1. pass \in Pass /\ pass.conn # Nothing
    BY <1>1, <1>8 DEF Project, Idle, MenuOK, TypeInv, TodoHasConn
  <2>2. pass' \in Pass /\ pass'.conn = pass.conn
    BY <1>8, <2>1 DEF Project, Pass
  <2>3. offers' \in [Namespace -> Offer \cup {Nothing}] /\ stale' \subseteq Namespace
    <3>1. CASE UNCHANGED store
      BY <1>1, <3>1 DEF MenuOK, store
    <3>2. CASE Store(n, [mirror |-> Target(n),
                         gen |-> IF saved THEN pass.conn.gen ELSE Generation(n)])
      BY <1>1, <1>8, <2>1, <3>2, ProjectedType, StoreType DEF Project
    <3>3. QED
      BY <1>8, <3>1, <3>2 DEF Project
  <2>4. MenuOK' /\ TodoHasConn'
    BY <1>1, <1>8, <2>1, <2>2, <2>3 DEF Project, MenuOK, TodoHasConn
  <2>5. InputsOK' /\ RouteOK'
    BY <1>1, <1>8 DEF Project, InputsOK, RouteOK, inputs, route
  <2>6. CountsOK'
    BY <1>1, <1>3, <1>8 DEF Project, CountsOK
  <2>7. QED
    BY <1>2, <2>4, <2>5, <2>6
<1>9. CASE End \/ PassFails
  <2>1. MenuOK' /\ TodoHasConn'
    BY <1>1, <1>9 DEF End, PassFails, MenuOK, TodoHasConn, Idle, store
  <2>2. InputsOK' /\ RouteOK'
    BY <1>1, <1>9 DEF End, PassFails, InputsOK, RouteOK, inputs, route
  <2>3. CountsOK'
    BY <1>1, <1>3, <1>9 DEF End, PassFails, CountsOK, counts
  <2>4. QED
    BY <1>2, <2>1, <2>2, <2>3
<1>10. CASE Restart
  <2>1. MenuOK' /\ TodoHasConn'
    BY <1>1, <1>10 DEF Restart, MenuOK, TodoHasConn, Idle
  <2>2. InputsOK' /\ RouteOK' /\ CountsOK'
    BY <1>1, <1>3, <1>10 DEF Restart, InputsOK, RouteOK, CountsOK, inputs
  <2>3. QED
    BY <1>2, <2>1, <2>2
<1>11. ASSUME NEW n \in Namespace, Sync(n) \/ Collect(n) PROVE TypeInv'
  <2>1. offers' \in [Namespace -> Offer \cup {Nothing}] /\ stale' \subseteq Namespace
    BY <1>1, <1>11, StoreType DEF Sync, Collect, MenuOK
  <2>2. MenuOK'
    BY <1>1, <1>11, <2>1 DEF Sync, Collect, MenuOK
  <2>3. TodoHasConn'
    BY <1>11 DEF Sync, Collect, TypeInv, TodoHasConn, Idle
  <2>4. InputsOK' /\ RouteOK' /\ CountsOK'
    BY <1>1, <1>11
       DEF Sync, Collect, InputsOK, RouteOK, CountsOK, inputs, route, counts
  <2>5. QED
    BY <1>2, <2>2, <2>3, <2>4
<1>12. CASE Workstation \/ Render
  <2>1. InputsOK' /\ MenuOK' /\ TodoHasConn'
    BY <1>1, <1>12
       DEF Workstation, AwBegin, AwMerge, AwFails, Render, InputsOK, MenuOK,
           TypeInv, TodoHasConn, Idle, inputs, menu, store
  <2>2. CountsOK'
    BY <1>1, <1>3, <1>12
       DEF Workstation, AwBegin, AwMerge, AwFails, Render, CountsOK, counts
  <2>3. RouteOK'
    <3>1. CASE AwBegin
      <4>1. awPass' \in [model : Model, lane : {"provider", "connection"}]
        BY <1>1, <3>1 DEF AwBegin, LaneOf, InputsOK
      <4>2. QED
        BY <1>1, <3>1, <4>1 DEF AwBegin, RouteOK
    <3>2. ASSUME NEW read \in BOOLEAN, NEW saved \in BOOLEAN, AwMerge(read, saved)
          PROVE  RouteOK'
      <4>1. Noted(awPass.model, conn, ann[Home])
              \in {Nothing, "Offered", "NotOffered", "ConnectionNotFound"}
        BY DEF Noted
      <4>2. QED
        BY <1>1, <3>2, <4>1 DEF AwMerge, RouteOK
    <3>3. CASE AwFails
      BY <1>1, <3>3 DEF AwFails, RouteOK
    <3>4. CASE Render
      <4>1. block' \in BOOLEAN
        BY <3>4 DEF Render, Rendered
      <4>2. key' \in BOOLEAN
        BY <3>4 DEF Render
      <4>3. QED
        BY <1>1, <3>4, <4>1, <4>2 DEF Render, RouteOK
    <3>5. QED
      BY <1>12, <3>1, <3>2, <3>3, <3>4 DEF Workstation
  <2>4. QED
    BY <1>2, <2>1, <2>2, <2>3
<1>13. CASE \/ \E spec \in ConnSpec : Publish(spec) \/ EditConnection(spec)
            \/ Unpublish
  <2>1. conn' \in Connection \cup {Nothing} /\ born' \in Nat
    <3>1. CASE \E spec \in ConnSpec : Publish(spec)
      BY <1>1, <3>1 DEF Publish, InputsOK, Connection
    <3>2. ASSUME NEW spec \in ConnSpec, EditConnection(spec)
          PROVE  conn' \in Connection /\ born' = born
      <4>1. conn \in Connection
        BY <1>1, <3>2 DEF EditConnection, InputsOK
      <4>2. conn' = [conn EXCEPT !.gen = @ + 1, !.spec = spec] /\ born' = born
        BY <3>2 DEF EditConnection
      <4>3. conn.gen + 1 \in Nat
        BY <4>1 DEF Connection
      <4>4. conn' = [uid |-> conn.uid, gen |-> conn.gen + 1, spec |-> spec]
        BY <4>1, <4>2 DEF Connection
      <4>5. QED
        BY <4>1, <4>2, <4>3, <4>4 DEF Connection
    <3>3. CASE Unpublish
      BY <1>1, <3>3 DEF Unpublish, InputsOK
    <3>4. QED
      BY <1>1, <1>13, <3>1, <3>2, <3>3 DEF InputsOK
  <2>2. InputsOK' /\ MenuOK' /\ TodoHasConn'
    BY <1>1, <1>13, <2>1
       DEF Publish, EditConnection, Unpublish, InputsOK, MenuOK, TypeInv,
           TodoHasConn, Idle, store
  <2>3. RouteOK' /\ CountsOK'
    BY <1>1, <1>4, <1>13 DEF Publish, EditConnection, Unpublish, RouteOK, route
  <2>4. QED
    BY <1>2, <2>2, <2>3
<1>14. ASSUME NEW n \in Namespace, NEW a \in Annotations[n], Annotate(n, a)
       PROVE  TypeInv'
  <2>1. a \in Annotated
    BY <1>14, ConnectionAssumption
  <2>2. InputsOK' /\ MenuOK' /\ TodoHasConn'
    BY <1>1, <1>14, <2>1
       DEF Annotate, InputsOK, MenuOK, TypeInv, TodoHasConn, Idle, store
  <2>3. RouteOK' /\ CountsOK'
    BY <1>1, <1>4, <1>14 DEF Annotate, RouteOK, route
  <2>4. QED
    BY <1>2, <2>2, <2>3
<1>15. ASSUME NEW n \in Namespace, NEW h \in Handiwork, HandEdit(n, h)
       PROVE  TypeInv'
  <2>1. offers' \in [Namespace -> Offer \cup {Nothing}] /\ stale' \subseteq Namespace
    <3>1. CASE h = Nothing
      BY <1>1, <1>15, <3>1, StoreType DEF HandEdit
    <3>2. CASE h # Nothing
      <4>1. h \in [labelled : BOOLEAN, face : OfferFace] /\ offers[n] \in Offer
        BY <1>1, <1>15, <3>2, ConnectionAssumption DEF HandEdit, MenuOK
      <4>2. [offers[n] EXCEPT !.mirror.labelled = h.labelled,
                              !.mirror.face = h.face] \in Offer
        BY <4>1 DEF Offer
      <4>3. QED
        BY <1>1, <1>15, <3>2, <4>2, StoreType DEF HandEdit
    <3>3. QED
      BY <3>1, <3>2
  <2>2. InputsOK' /\ MenuOK' /\ TodoHasConn'
    BY <1>1, <1>15, <2>1
       DEF HandEdit, InputsOK, MenuOK, TypeInv, TodoHasConn, Idle, inputs
  <2>3. RouteOK' /\ CountsOK'
    BY <1>1, <1>4, <1>15 DEF HandEdit, RouteOK, route
  <2>4. QED
    BY <1>2, <2>2, <2>3
<1>16. ASSUME NEW m \in Model, Hire(m) PROVE TypeInv'
  <2>1. InputsOK' /\ MenuOK' /\ TodoHasConn'
    BY <1>1, <1>16
       DEF Hire, InputsOK, MenuOK, TypeInv, TodoHasConn, Idle, menu, store
  <2>2. RouteOK' /\ CountsOK'
    BY <1>1, <1>4, <1>16 DEF Hire, RouteOK, route
  <2>3. QED
    BY <1>2, <2>1, <2>2
<1>17. CASE UNCHANGED vars
  BY <1>1, <1>2, <1>17
     DEF vars, inputs, menu, store, route, counts, InputsOK, MenuOK, RouteOK,
         CountsOK, TypeInv, TodoHasConn, Idle
<1>18. QED
  BY <1>5, <1>6, <1>7, <1>8, <1>9, <1>10, <1>11, <1>12, <1>13, <1>14, <1>15,
     <1>16, <1>17
     DEF Next, Offerer, People

\* The variables have their types, through every edit, lost write and restart.
THEOREM TypeCorrect == Spec => []TypeOK
<1>1. TypeInv => TypeOK
  BY DEF TypeInv
<1>2. QED
  BY <1>1, TypesAtStart, TypesKept, PTL DEF Spec
-----------------------------------------------------------------------------
(***************************************************************************)
(* The offers are exact at rest, for people who leave the label of an      *)
(* offer alone.  The invariant says what is known before: whatever has not *)
(* been queued is right already, or the pass under way will make it right. *)
(***************************************************************************)
LabelsLeftAlone == \A h \in Handiwork : h # Nothing => h.labelled

Labelled ==
    \A n \in Namespace :
        /\ offers[n] # Nothing => offers[n].mirror.labelled
        /\ cache[n] # Nothing => cache[n].mirror.labelled

\* The informer is right about what it has no change outstanding for.
Seen == \A n \in Namespace \ stale : cache[n] = offers[n]

\* What a pass still has to do, before and after it listed.
InOrder ==
    ~Idle => IF pass.listed
             THEN /\ \A n \in pass.drop : pass.wanted[n] = Nothing
                  /\ \A n \in pass.todo : pass.wanted[n] # Nothing
             ELSE pass.drop = {} /\ pass.todo = {}

\* Between passes, and during one, the namespaces whose offer is exact.
AtRestExact == Idle => \A n \in Namespace \ stale : Exact(n)
PassCurrent ==
    ~Idle => /\ pass.conn = conn
             /\ pass.listed =>
                   /\ pass.wanted = WantedFor(conn, ann)
                   /\ \A n \in Namespace \ (stale \cup pass.drop \cup pass.todo) :
                          Exact(n)

OfferInv ==
    /\ TypeInv /\ Labelled /\ Seen /\ InOrder
    /\ ~queued => AtRestExact /\ PassCurrent

\* Of a write, only the namespaces that were not written are as they were
\* and seen.
LEMMA StoreSeen ==
    ASSUME MenuOK, Seen, NEW n \in Namespace, NEW o, Store(n, o), cache' = cache
    PROVE  /\ Seen'
           /\ offers'[n] = o /\ stale \subseteq stale'
           /\ \A m \in Namespace \ stale' : offers'[m] = offers[m]
  BY DEF MenuOK, Seen, Store

\* An offer stays exact while it, the connection and who is wanted stay.
LEMMA ExactStays ==
    ASSUME NEW n \in Namespace, Exact(n), offers'[n] = offers[n],
           conn' = conn, WantedFor(conn, ann)' = WantedFor(conn, ann)
    PROVE  Exact(n)'
  BY DEF Exact

\* The same for all that was settled before a step that leaves the pass, the
\* connection and the annotations alone.
LEMMA SettledStays ==
    ASSUME OfferInv, UNCHANGED <<conn, queued, pass>>,
           WantedFor(conn, ann)' = WantedFor(conn, ann), stale \subseteq stale',
           \A n \in Namespace \ stale' : offers'[n] = offers[n]
    PROVE  (~queued => AtRestExact /\ PassCurrent)'
<1> SUFFICES ASSUME ~queued PROVE AtRestExact' /\ PassCurrent'
  OBVIOUS
<1>1. AtRestExact /\ PassCurrent
  BY DEF OfferInv
<1>2. ASSUME NEW n \in Namespace \ stale', Exact(n) PROVE Exact(n)'
  BY <1>2, ExactStays
<1>3. AtRestExact'
  BY <1>1, <1>2 DEF AtRestExact, Idle
<1>4. PassCurrent'
  BY <1>1, <1>2 DEF PassCurrent, Idle
<1>5. QED
  BY <1>3, <1>4

LEMMA OffersAtStart == Init => OfferInv
<1> SUFFICES ASSUME Init PROVE OfferInv
  OBVIOUS
<1>1. TypeInv /\ Labelled /\ Seen /\ InOrder /\ PassCurrent
  BY TypesAtStart DEF Init, Labelled, Seen, InOrder, PassCurrent, Idle
<1>2. ~queued => AtRestExact
  BY WantedNobody DEF Init, AtRestExact, Exact
<1>3. QED
  BY <1>1, <1>2 DEF OfferInv

LEMMA OffersKept ==
    ASSUME LabelsLeftAlone
    PROVE  OfferInv /\ [Next]_vars => OfferInv'
<1> SUFFICES ASSUME OfferInv, [Next]_vars PROVE OfferInv'
  OBVIOUS
<1> USE DEF OfferInv
<1>1. TypeInv' /\ InputsOK /\ MenuOK
  BY TypesKept, TypeParts DEF TypeInv
<1>2. CASE Begin
  <2>1. pass' \in Pass
    BY <1>1, <1>2 DEF Begin, MenuOK, InputsOK, Pass
  <2>2. Labelled' /\ Seen' /\ InOrder' /\ PassCurrent'
    BY <1>1, <1>2
       DEF Begin, Labelled, Seen, InOrder, PassCurrent, store, inputs
  <2>3. AtRestExact'
    BY <2>1, NothingAssumption DEF AtRestExact, Idle
  <2>4. QED
    BY <1>1, <2>2, <2>3
<1>3. CASE List
  <2> DEFINE wanted == WantedFor(pass.conn, ann)
  <2>1. /\ pass \in Pass
        /\ pass' = [pass EXCEPT !.listed = TRUE, !.wanted = wanted,
                       !.drop = {n \in Namespace : /\ cache[n] # Nothing
                                                   /\ cache[n].mirror.labelled
                                                   /\ wanted[n] = Nothing},
                       !.todo = {n \in Namespace : wanted[n] # Nothing}]
    BY <1>1, <1>3 DEF List, MenuOK, Idle
  <2>2. /\ pass'.conn = pass.conn /\ pass'.listed /\ pass'.wanted = wanted
        /\ pass'.drop = {n \in Namespace : /\ cache[n] # Nothing
                                           /\ cache[n].mirror.labelled
                                           /\ wanted[n] = Nothing}
        /\ pass'.todo = {n \in Namespace : wanted[n] # Nothing}
        /\ ~Idle'
    <3> HIDE DEF wanted
    <3>1. wanted \in [Namespace -> Name \cup {Nothing}]
      BY <2>1, WantedNames DEF Pass, wanted
    <3>2. pass' \in Pass
      BY <2>1, <3>1 DEF Pass, Name
    <3>3. ~Idle'
      BY <3>2, NothingAssumption DEF Idle
    <3>4. QED
      BY <2>1, <3>3 DEF Pass
  <2>3. Labelled' /\ Seen' /\ InOrder' /\ AtRestExact'
    BY <1>3, <2>2 DEF List, Labelled, Seen, InOrder, AtRestExact, store
  <2>4. ASSUME ~queued PROVE PassCurrent'
    <3>1. pass.conn = conn
      BY <1>3, <2>4 DEF List, PassCurrent
    <3>2. ASSUME NEW n \in Namespace \ (stale \cup pass'.drop \cup pass'.todo)
          PROVE  Exact(n)'
      <4>1. wanted[n] = Nothing /\ cache[n] = Nothing
        BY <2>2, <3>2 DEF Labelled
      <4>2. offers[n] = Nothing
        BY <3>2, <4>1 DEF Seen
      <4>3. QED
        BY <1>3, <3>1, <4>1, <4>2 DEF List, Exact, inputs, store
    <3>3. QED
      BY <1>3, <2>2, <3>1, <3>2 DEF List, PassCurrent, inputs, store
  <2>5. QED
    BY <1>1, <1>3, <2>3, <2>4 DEF List
<1>4. ASSUME NEW n \in Namespace, Withdraw(n) PROVE OfferInv'
  <2>1. /\ pass \in Pass
        /\ pass' = [pass EXCEPT !.drop = @ \ {n}]
    BY <1>1, <1>4 DEF Withdraw, Idle, MenuOK
  <2>2. /\ ~Idle' /\ pass'.conn = pass.conn /\ pass'.listed = pass.listed
        /\ pass'.wanted = pass.wanted /\ pass'.todo = pass.todo
        /\ pass'.drop = pass.drop \ {n}
    BY <1>1, <2>1, NothingAssumption DEF Pass, Idle, TypeInv, TypeOK
  <2>3. /\ Seen' /\ offers'[n] = Nothing /\ stale \subseteq stale'
        /\ \A m \in Namespace \ stale' : offers'[m] = offers[m]
    BY <1>1, <1>4, StoreSeen DEF Withdraw
  <2>4. Labelled' /\ AtRestExact'
    BY <1>1, <1>4, <2>2 DEF Withdraw, Store, MenuOK, Labelled, AtRestExact
  <2>5. InOrder'
    BY <1>4, <2>2 DEF Withdraw, InOrder
  <2>6. ASSUME ~queued PROVE PassCurrent'
    <3>1. pass.listed /\ pass.wanted[n] = Nothing
      BY <1>4 DEF Withdraw, InOrder
    <3>2. pass.conn = conn /\ pass.wanted = WantedFor(conn, ann)
      BY <1>4, <2>6, <3>1 DEF Withdraw, PassCurrent
    <3>3. ASSUME NEW m \in Namespace \ (stale' \cup pass'.drop \cup pass'.todo)
          PROVE  Exact(m)'
      <4>1. CASE m = n
        BY <1>4, <2>3, <3>1, <3>2, <4>1 DEF Withdraw, Exact, inputs
      <4>2. CASE m # n
        <5>1. Exact(m)
          BY <1>4, <2>2, <2>3, <2>6, <3>1, <3>3, <4>2 DEF Withdraw, PassCurrent
        <5>2. QED
          BY <1>4, <2>3, <3>3, <5>1, ExactStays DEF Withdraw, inputs
      <4>3. QED
        BY <4>1, <4>2
    <3>4. QED
      BY <1>4, <2>2, <3>2, <3>3 DEF Withdraw, PassCurrent, inputs
  <2>7. QED
    BY <1>1, <1>4, <2>3, <2>4, <2>5, <2>6 DEF Withdraw
<1>5. ASSUME NEW n \in Namespace, NEW saved \in BOOLEAN, Project(n, saved)
      PROVE  OfferInv'
  <2> DEFINE o == [mirror |-> Target(n),
                   gen |-> IF saved THEN pass.conn.gen ELSE Generation(n)]
  <2>1. /\ pass \in Pass /\ pass.conn # Nothing
        /\ pass' = [pass EXCEPT !.todo = @ \ {n}]
    BY <1>1, <1>5 DEF Project, Idle, MenuOK, TypeInv, TodoHasConn
  <2>2. /\ ~Idle' /\ pass'.conn = pass.conn /\ pass'.listed = pass.listed
        /\ pass'.wanted = pass.wanted /\ pass'.drop = pass.drop
        /\ pass'.todo = pass.todo \ {n}
    BY <1>1, <2>1, NothingAssumption DEF Pass, Idle, TypeInv, TypeOK
  <2>3. \/ UNCHANGED store /\ n \in stale
        \/ Store(n, o)
    BY <1>5 DEF Project
  <2>4. /\ o.mirror = Target(n) /\ o \in Offer /\ o.mirror.labelled
    <3>1. pass.conn \in Connection /\ pass.wanted[n] \in Name \cup {Nothing}
      BY <2>1 DEF Pass, Name
    <3>2. o \in Offer
      BY <1>1, <1>5, <2>1, ProjectedType DEF Project
    <3>3. Target(n).labelled
      BY DEF Target, Mirror
    <3>4. QED
      BY <3>2, <3>3
  <2> HIDE DEF o
  <2>5. /\ Seen' /\ stale \subseteq stale'
        /\ \A m \in Namespace \ stale' : offers'[m] = offers[m]
        /\ n \in stale \/ offers'[n] = o
    BY <1>1, <1>5, <2>3, StoreSeen DEF Project, Seen, store
  <2>6. Labelled'
    BY <1>1, <1>5, <2>3, <2>4 DEF Project, Store, MenuOK, Labelled, store
  <2>7. InOrder' /\ AtRestExact'
    BY <1>5, <2>2 DEF Project, InOrder, AtRestExact
  <2>8. ASSUME ~queued PROVE PassCurrent'
    <3>1. pass.listed /\ pass.wanted[n] # Nothing
      BY <1>5 DEF Project, InOrder
    <3>2. pass.conn = conn /\ pass.wanted = WantedFor(conn, ann)
      BY <1>5, <2>8, <3>1 DEF Project, PassCurrent
    <3>3. ASSUME NEW m \in Namespace \ (stale' \cup pass'.drop \cup pass'.todo)
          PROVE  Exact(m)'
      <4>1. CASE m = n
        <5>1. offers'[n] = o /\ o # Nothing
          BY <2>4, <2>5, <3>3, <4>1, NothingAssumption
        <5>2. offers'[n].mirror = Mirror(conn, WantedFor(conn, ann)[n])
          BY <2>4, <3>2, <5>1 DEF Target
        <5>3. QED
          BY <1>5, <3>1, <3>2, <4>1, <5>1, <5>2 DEF Project, Exact, inputs
      <4>2. CASE m # n
        <5>1. Exact(m)
          BY <1>5, <2>2, <2>5, <2>8, <3>1, <3>3, <4>2 DEF Project, PassCurrent
        <5>2. QED
          BY <1>5, <2>5, <3>3, <5>1, ExactStays DEF Project, inputs
      <4>3. QED
        BY <4>1, <4>2
    <3>4. QED
      BY <1>5, <2>2, <3>2, <3>3 DEF Project, PassCurrent, inputs
  <2>9. QED
    BY <1>1, <1>5, <2>5, <2>6, <2>7, <2>8 DEF Project
<1>6. CASE End
  <2>1. Labelled' /\ Seen' /\ InOrder' /\ PassCurrent'
    BY <1>6 DEF End, Labelled, Seen, InOrder, PassCurrent, Idle, store
  <2>2. ~queued => AtRestExact'
    BY <1>6 DEF End, PassCurrent, AtRestExact, Exact, inputs, store
  <2>3. QED
    BY <1>1, <1>6, <2>1, <2>2 DEF End
<1>7. CASE PassFails
  BY <1>1, <1>7 DEF PassFails, Labelled, Seen, InOrder, Idle, store
<1>8. CASE Restart
  <2>1. Labelled' /\ Seen' /\ InOrder' /\ PassCurrent'
    BY <1>8 DEF Restart, Labelled, Seen, InOrder, PassCurrent, Idle
  <2>2. ~queued' => AtRestExact'
    <3> SUFFICES ASSUME ~queued', NEW n \in Namespace PROVE Exact(n)'
      BY DEF AtRestExact
    <3>1. conn' = Nothing /\ offers'[n] = Nothing
      BY <1>8 DEF Restart, inputs
    <3>2. QED
      BY <3>1, WantedNobody DEF Exact
  <2>3. QED
    BY <1>1, <2>1, <2>2
<1>9. ASSUME NEW n \in Namespace, Sync(n) PROVE OfferInv'
  BY <1>1, <1>9 DEF Sync, Labelled, Seen, InOrder, MenuOK, Idle
<1>10. ASSUME NEW n \in Namespace, Collect(n) PROVE OfferInv'
  <2>1. /\ Seen' /\ stale \subseteq stale'
        /\ \A m \in Namespace \ stale' : offers'[m] = offers[m]
    BY <1>1, <1>10, StoreSeen DEF Collect
  <2>2. Labelled' /\ InOrder'
    BY <1>1, <1>10 DEF Collect, Store, MenuOK, Labelled, InOrder, Idle
  <2>3. QED
    BY <1>1, <1>10, <2>1, <2>2, SettledStays DEF Collect, inputs
<1>11. CASE Workstation \/ Render \/ (\E m \in Model : Hire(m)) \/ UNCHANGED vars
  <2>1. UNCHANGED <<conn, ann, offers, stale, cache, queued, pass>>
    BY <1>11 DEF Workstation, AwBegin, AwMerge, AwFails, Render, Hire, vars,
                 inputs, menu, store
  <2>2. Labelled' /\ Seen' /\ InOrder'
    BY <2>1 DEF Labelled, Seen, InOrder, Idle
  <2>3. QED
    BY <1>1, <2>1, <2>2, SettledStays
<1>12. CASE \/ \E spec \in ConnSpec : Publish(spec) \/ EditConnection(spec)
            \/ Unpublish
  BY <1>1, <1>12
     DEF Publish, EditConnection, Unpublish, Labelled, Seen, InOrder, Idle, store
<1>13. ASSUME NEW n \in Namespace, NEW a \in Annotations[n], Annotate(n, a)
       PROVE  OfferInv'
  <2>1. Labelled' /\ Seen' /\ InOrder'
    BY <1>13 DEF Annotate, Labelled, Seen, InOrder, Idle, store
  <2>2. CASE queued'
    BY <1>1, <2>1, <2>2
  <2>3. CASE ~queued'
    <3>1. ~queued /\ (conn = Nothing \/ ~Matters(ann[n], a))
      BY <1>13, <2>3 DEF Annotate
    <3>2. /\ conn' = conn /\ ann' = [ann EXCEPT ![n] = a]
          /\ ann \in [Namespace -> Annotated]
      BY <1>1, <1>13 DEF Annotate, InputsOK
    <3>3. WantedFor(conn, ann)' = WantedFor(conn, ann)
      BY <3>1, <3>2 DEF WantedFor, Matters
    <3>4. UNCHANGED <<conn, pass, offers, stale>>
      BY <1>13 DEF Annotate, store
    <3>5. AtRestExact /\ PassCurrent
      BY <1>1, <3>1
    <3>6. ASSUME NEW m \in Namespace, Exact(m) PROVE Exact(m)'
      BY <3>3, <3>4, <3>6, ExactStays
    <3>7. AtRestExact'
      BY <3>4, <3>5, <3>6 DEF AtRestExact, Idle
    <3>8. PassCurrent'
      BY <3>3, <3>4, <3>5, <3>6 DEF PassCurrent, Idle
    <3>9. QED
      BY <1>1, <2>1, <3>7, <3>8
  <2>4. QED
    BY <2>2, <2>3
<1>14. ASSUME NEW n \in Namespace, NEW h \in Handiwork, HandEdit(n, h)
       PROVE  OfferInv'
  <2> DEFINE o == IF h = Nothing THEN Nothing
                  ELSE [offers[n] EXCEPT !.mirror.labelled = h.labelled,
                                         !.mirror.face = h.face]
  <2>1. Store(n, o) /\ offers[n] \in Offer
    BY <1>1, <1>14 DEF HandEdit, MenuOK
  <2>2. o # Nothing => o.mirror.labelled
    BY <2>1, LabelsLeftAlone DEF LabelsLeftAlone, Offer
  <2> HIDE DEF o
  <2>3. /\ Seen' /\ stale \subseteq stale'
        /\ \A m \in Namespace \ stale' : offers'[m] = offers[m]
    BY <1>1, <1>14, <2>1, StoreSeen DEF HandEdit
  <2>4. Labelled' /\ InOrder'
    BY <1>1, <1>14, <2>1, <2>2
       DEF HandEdit, Store, MenuOK, Labelled, InOrder, Idle
  <2>5. QED
    BY <1>1, <1>14, <2>3, <2>4, SettledStays DEF HandEdit, inputs
<1>15. QED
  BY <1>2, <1>3, <1>4, <1>5, <1>6, <1>7, <1>8, <1>9, <1>10, <1>11, <1>12,
     <1>13, <1>14
     DEF Next, Offerer, People

\* While people leave the label of an offer alone, a reconciler at rest has
\* every offer as the connection and the tenants call for, through any
\* interleaving of edits, stale informers, refused writes and restarts.
THEOREM OffersAreExact == ASSUME LabelsLeftAlone PROVE Spec => []OffersExact
<1>1. OfferInv => OffersExact
  BY DEF OfferInv, OffersExact, AtRest, AtRestExact
<1>2. Init => OfferInv
  BY OffersAtStart
<1>3. OfferInv /\ [Next]_vars => OfferInv'
  BY OffersKept
<1>4. QED
  BY <1>1, <1>2, <1>3, PTL DEF Spec
-----------------------------------------------------------------------------
(***************************************************************************)
(* What RoutesSettle comes to rest at.  The three readers of the           *)
(* connection are caught up when what each has written is what it would    *)
(* write now.                                                              *)
(***************************************************************************)
CaughtUp ==
    /\ awPass # Nothing => awPass = [model |-> model, lane |-> LaneOf(model, conn)]
    /\ lane = LaneOf(model, conn)
    /\ told = Noted(model, conn, ann[Home])
    /\ block = Rendered /\ key = (Rendered /\ conn.spec.keyed)

\* The readers of the lane, of the condition and of the provider block, each
\* with a rule of its own, then tell the same: there is no silent dead lane
\* (agentworkstation_types.go:84-91).
LEMMA CaughtUpTellsTheSame == CaughtUp => LaneTold
<1> SUFFICES ASSUME CaughtUp, lane = "connection", ~block,
                    conn # Nothing => conn.spec.url
             PROVE  told \in {"NotOffered", "ConnectionNotFound"}
  BY DEF LaneTold
<1>1. /\ model.ref /\ conn # Nothing /\ conn.spec.kind = "endpoint"
      /\ told = Noted(model, conn, ann[Home])
  BY DEF CaughtUp, LaneOf
<1>2. Tenant(ann[Home]) /\ OfferedBy(conn.spec, ann[Home]) = Nothing
  BY <1>1 DEF CaughtUp, Rendered
<1>3. QED
  BY <1>1, <1>2 DEF Noted

\* Readers that are caught up stay so until the next edit, also through
\* failed reads, refused saves and restarts: no pass writes anything new.
LEMMA CaughtUpStays ==
    ASSUME CaughtUp, [Next]_vars, UNCHANGED inputs
    PROVE  CaughtUp' /\ UNCHANGED <<lane, told, block, key>>
<1> DEFINE now == [model |-> model, lane |-> LaneOf(model, conn)]
<1>1. UNCHANGED <<model, conn, ann>>
  BY DEF inputs
<1>2. UNCHANGED <<lane, told, block, key>> /\ (awPass' # Nothing => awPass' = now)
  <2>1. CASE AwBegin
    BY <2>1 DEF AwBegin
  <2>2. ASSUME NEW read \in BOOLEAN, NEW saved \in BOOLEAN, AwMerge(read, saved)
        PROVE  UNCHANGED <<lane, told, block, key>> /\ awPass' = Nothing
    <3>1. awPass.model = model /\ awPass.lane = LaneOf(model, conn)
      BY <2>2 DEF AwMerge, CaughtUp
    <3>2. QED
      BY <2>2, <3>1 DEF AwMerge, CaughtUp
  <2>3. CASE Render
    BY <2>3 DEF Render, CaughtUp
  <2>4. CASE Restart \/ AwFails
    BY <2>4 DEF Restart, AwFails
  <2>5. CASE Offerer \/ (\E n \in Namespace : Sync(n) \/ Collect(n)) \/ People
    BY <2>5 DEF Offerer, Begin, List, Withdraw, Project, End, PassFails, Sync,
                Collect, People, Publish, EditConnection, Unpublish, Annotate,
                HandEdit, Hire, route, CaughtUp
  <2>6. CASE UNCHANGED vars
    BY <2>6 DEF vars, route, CaughtUp
  <2>7. QED
    BY <2>1, <2>2, <2>3, <2>4, <2>5, <2>6 DEF Next, Workstation
<1>3. Rendered' = Rendered
  BY <1>1, <1>2 DEF Rendered
<1>4. QED
  BY <1>1, <1>2, <1>3 DEF CaughtUp

\* At rest the menu stays: no offer is left that the garbage collector could
\* still take, and neither the other reconcilers nor a change that is still
\* on its way can wake this one.
LEMMA MenuStays ==
    ASSUME OfferInv, AtRest, [Next]_vars, UNCHANGED <<inputs, counts>>
    PROVE  AtRest' /\ UNCHANGED offers
<1>1. \A n \in Namespace : Exact(n)
  BY DEF OfferInv, AtRest, AtRestExact
<1>2. UNCHANGED <<offers, stale, queued, pass>>
  <2>1. ASSUME NEW n \in Namespace, Collect(n) PROVE FALSE
    <3>1. WantedFor(conn, ann)[n] # Nothing /\ conn # Nothing
      BY <1>1, <2>1, WantedNobody DEF Exact, Collect
    <3>2. offers[n].mirror = Mirror(conn, WantedFor(conn, ann)[n])
      BY <1>1, <3>1 DEF Exact
    <3>3. offers[n].mirror.owner = conn.uid
      BY <3>2 DEF Mirror
    <3>4. QED
      BY <2>1, <3>1, <3>3 DEF Collect
  <2>2. ~Offerer
    BY DEF Offerer, Begin, List, Withdraw, Project, End, PassFails, AtRest, Idle
  <2>3. ~Restart /\ ~People
    <3>1. edits \in Nat /\ faults \in Nat /\ edits' = edits /\ faults' = faults
      BY ConnectionAssumption DEF OfferInv, TypeInv, TypeOK, counts
    <3>2. ~Edit /\ ~Fault
      BY <3>1 DEF Edit, Fault
    <3>3. QED
      BY <3>2 DEF Restart, People, Publish, EditConnection, Unpublish, Annotate,
                  HandEdit, Hire
  <2>4. ASSUME NEW n \in Namespace PROVE ~Sync(n)
    BY DEF Sync, AtRest
  <2>5. CASE Workstation \/ Render
    BY <2>5 DEF Workstation, AwBegin, AwMerge, AwFails, Render, menu, store
  <2>6. CASE UNCHANGED vars
    BY <2>6 DEF vars, menu, store
  <2>7. QED
    BY <2>1, <2>2, <2>3, <2>4, <2>5, <2>6 DEF Next
<1>3. QED
  BY <1>2 DEF AtRest, Idle

\* Once the reconciler is at rest and the readers are caught up, and while
\* nobody edits and nothing fails, no step of anybody writes an offer, the
\* lane, the condition, the provider block or the key.
RestStays ==
    [][AtRest /\ CaughtUp /\ UNCHANGED <<inputs, counts>>
       => AtRest' /\ CaughtUp' /\ UNCHANGED <<offers, lane, told, block, key>>]_vars

\* The safety half of RoutesSettle, while people leave the label of an offer
\* alone: to come to rest is to have the menu exact and to tell the same in
\* all three places, and a system that is there stays there.
THEOREM RestIsRight ==
    ASSUME LabelsLeftAlone
    PROVE  Spec => /\ [](AtRest /\ CaughtUp => OffersExact /\ LaneTold)
                   /\ RestStays
<1>1. OfferInv => (AtRest /\ CaughtUp => OffersExact /\ LaneTold)
  BY CaughtUpTellsTheSame DEF OfferInv, OffersExact, AtRest, AtRestExact
<1>2. Init => OfferInv
  BY OffersAtStart
<1>3. OfferInv /\ [Next]_vars => OfferInv'
  BY OffersKept
<1>4. OfferInv /\ [Next]_vars
      => [AtRest /\ CaughtUp /\ UNCHANGED <<inputs, counts>>
          => AtRest' /\ CaughtUp' /\ UNCHANGED <<offers, lane, told, block, key>>]_vars
  <2> SUFFICES ASSUME OfferInv, [Next]_vars, AtRest, CaughtUp,
                      UNCHANGED <<inputs, counts>>
               PROVE  /\ AtRest' /\ CaughtUp'
                      /\ UNCHANGED <<offers, lane, told, block, key>>
    OBVIOUS
  <2>1. UNCHANGED inputs
    OBVIOUS
  <2>2. QED
    BY <2>1, MenuStays, CaughtUpStays
<1>5. QED
  BY <1>1, <1>2, <1>3, <1>4, PTL DEF Spec, RestStays
=============================================================================
