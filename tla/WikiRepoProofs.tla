--------------------------- MODULE WikiRepoProofs ---------------------------
(***************************************************************************)
(* Theorems about WikiRepo for any number of rounds, edits and restarts    *)
(* and any faults: the records of the operator stay on the branch, every   *)
(* result has its proposal (in validation mode there is none), and the     *)
(* volume keeps what was never pushed, once it is bootstrapped.            *)
(* What leaves the volume was forced off the remote or reset by the        *)
(* bootstrap, what leaves the branch was forced off it; a branch without   *)
(* commits stays so.                                                       *)
(*                                                                         *)
(* None of these is inductive.  That a forced push keeps the records       *)
(* needs that the clone of the transaction has them all; that the plain    *)
(* push of the sidecar takes none back needs that the volume has no record *)
(* the remote lacks; that a rebase drops nothing unpushed needs that every *)
(* tip the reflog knows was once on the remote.                            *)
(***************************************************************************)
EXTENDS WikiRepo, FiniteSetTheorems, TLAPS

OpRecord(kind, r) == [by |-> "operator", kind |-> kind, n |-> r]

\* A transaction has every record the remote has, and no other.
CloneHasRecords ==
    tx.state = "cloned" =>
        /\ OperatorEdits(remote) \subseteq Edits(tx.base)
        /\ OperatorEdits(tx.base) \subseteq Edits(remote)

\* The volume has no record that the remote does not have.
VolumeHasNoOther == OperatorEdits(head) \subseteq Edits(remote)

\* The proposal of a round is on the remote, or the round needs none.
Recorded(r) == OpRecord("proposal", r) \in Edits(remote) \/ r \in validated

\* The proposal of every round that was submitted, or is about to be, is on
\* the remote, but for those of the validation mode.
ProposalsFirst ==
    /\ \A r \in unsettled : Recorded(r)
    /\ tx.state = "cloned" /\ tx.kind = "result" => tx.round \in unsettled
    /\ tx.state = "done" /\ tx.kind = "proposal" =>
          OpRecord("proposal", tx.round) \in Edits(remote)

\* What the reflog of the volume and the clone of the operator name was on
\* the remote.
TipsLanded ==
    /\ Edits(remote) \subseteq landed
    /\ \A t \in seen : Edits(t) \subseteq landed
    /\ Edits(tx.base) \subseteq landed

\* A volume that was not bootstrapped has no commits, and the sidecar gets
\* past the bootstrap only with a repository.
Unborn ==
    /\ ~git => head = <<>>
    /\ pc = "boot" => ~git
    /\ pc \notin {"off", "boot"} => git

Inv ==
    /\ TypeOK
    /\ CloneHasRecords /\ VolumeHasNoOther
    /\ ProposalsFirst /\ ResultHasProposal
    /\ TipsLanded /\ Unborn

-----------------------------------------------------------------------------
(* Branches                                                                *)

\* A commit on top of a branch adds its edits.
LEMMA EditsAppend ==
    ASSUME NEW b \in Branch, NEW c \in Commit
    PROVE  Append(b, c) \in Branch /\ Edits(Append(b, c)) = Edits(b) \cup c
<1>1. /\ Append(b, c) \in Branch
      /\ Len(Append(b, c)) = Len(b) + 1
      /\ \A i \in 1..Len(b) : Append(b, c)[i] = b[i]
      /\ Append(b, c)[Len(b) + 1] = c
      /\ Len(b) \in Nat
  BY DEF Branch
<1>2. Edits(Append(b, c)) \subseteq Edits(b) \cup c
  <2>1. ASSUME NEW i \in 1..(Len(b) + 1)
        PROVE  Append(b, c)[i] \subseteq Edits(b) \cup c
    <3>1. CASE i \in 1..Len(b)
      BY <3>1, <1>1 DEF Edits
    <3>2. CASE i = Len(b) + 1
      BY <3>2, <1>1
    <3>3. QED
      BY <3>1, <3>2, <1>1
  <2>2. QED
    BY <2>1, <1>1 DEF Edits
<1>3. Edits(b) \subseteq Edits(Append(b, c))
  <2>1. ASSUME NEW i \in 1..Len(b)
        PROVE  b[i] \subseteq Edits(Append(b, c))
    <3>1. i \in 1..Len(Append(b, c)) /\ Append(b, c)[i] = b[i]
      BY <1>1
    <3>2. QED
      BY <3>1 DEF Edits
  <2>2. QED
    BY <2>1 DEF Edits
<1>4. c \subseteq Edits(Append(b, c))
  <2>1. Len(b) + 1 \in 1..Len(Append(b, c))
    BY <1>1
  <2>2. QED
    BY <2>1, <1>1 DEF Edits
<1>5. QED
  BY <1>1, <1>2, <1>3, <1>4

\* A rebase has the edits of the remote and of what it replays, which are
\* commits of the old branch.
LEMMA EditsRebased ==
    ASSUME NEW a \in Branch, NEW b \in Branch, NEW k \in Nat
    PROVE  /\ a \o SubSeq(b, k + 1, Len(b)) \in Branch
           /\ Edits(a) \subseteq Edits(a \o SubSeq(b, k + 1, Len(b)))
           /\ Edits(a \o SubSeq(b, k + 1, Len(b))) \subseteq Edits(a) \cup Edits(b)
           /\ \A i \in 1..Len(b) :
                 i > k => b[i] \subseteq Edits(a \o SubSeq(b, k + 1, Len(b)))
<1> DEFINE s == SubSeq(b, k + 1, Len(b))
           c == a \o s
<1>1. /\ s \in Branch
      /\ Len(s) = IF k + 1 <= Len(b) THEN Len(b) - k ELSE 0
      /\ \A i \in 1..Len(s) : s[i] = b[k + i]
      /\ Len(b) \in Nat /\ Len(a) \in Nat
  BY DEF Branch
<1>2. /\ c \in Branch
      /\ Len(c) = Len(a) + Len(s)
      /\ \A i \in 1..Len(a) : c[i] = a[i]
      /\ \A i \in 1..Len(s) : c[Len(a) + i] = s[i]
  BY <1>1 DEF Branch
<1> HIDE DEF c, s
<1>3. Edits(a) \subseteq Edits(c)
  <2>1. \A i \in 1..Len(a) : i \in 1..Len(c) /\ c[i] = a[i]
    BY <1>1, <1>2
  <2>2. QED
    BY <2>1 DEF Edits
<1>4. Edits(c) \subseteq Edits(a) \cup Edits(b)
  <2>1. ASSUME NEW i \in 1..Len(c)
        PROVE  c[i] \subseteq Edits(a) \cup Edits(b)
    <3>1. CASE i \in 1..Len(a)
      BY <3>1, <1>2 DEF Edits
    <3>2. CASE i \notin 1..Len(a)
      <4> DEFINE j == i - Len(a)
      <4>1. j \in 1..Len(s) /\ Len(a) + j = i
        BY <3>2, <1>1, <1>2
      <4> HIDE DEF j
      <4>2. c[Len(a) + j] = s[j]
        BY <4>1, <1>2
      <4>3. s[j] = b[k + j]
        BY <4>1, <1>1
      <4>4. k + j \in 1..Len(b)
        BY <4>1, <1>1
      <4>5. QED
        BY <4>1, <4>2, <4>3, <4>4 DEF Edits
    <3>3. QED
      BY <3>1, <3>2
  <2>2. QED
    BY <2>1 DEF Edits
<1>5. ASSUME NEW i \in 1..Len(b), i > k
      PROVE  b[i] \subseteq Edits(c)
  <2>1. i - k \in 1..Len(s) /\ s[i - k] = b[i]
    BY <1>1, <1>5
  <2>2. Len(a) + (i - k) \in 1..Len(c) /\ c[Len(a) + (i - k)] = b[i]
    BY <2>1, <1>1, <1>2
  <2>3. QED
    BY <2>2 DEF Edits
<1>6. QED
  BY <1>2, <1>3, <1>4, <1>5 DEF c, s

\* Shared counts a common prefix.
LEMMA SharedIsPrefix ==
    ASSUME NEW a \in Branch, NEW b \in Branch
    PROVE  /\ Shared(a, b) \in Nat
           /\ \A i \in 1..Shared(a, b) :
                 i <= Len(a) /\ i <= Len(b) /\ a[i] = b[i]
<1> DEFINE D == {i \in 1..Len(a) :
                    i <= Len(b) /\ \A j \in 1..i : a[j] = b[j]}
           k == Cardinality(D)
<1>0. Len(a) \in Nat /\ Len(b) \in Nat
  BY DEF Branch
<1>1. IsFiniteSet(D) /\ k \in Nat
  <2>1. IsFiniteSet(1..Len(a))
    BY <1>0, FS_Interval
  <2>2. IsFiniteSet(D)
    BY <2>1, FS_Subset
  <2>3. QED
    BY <2>2, FS_CardinalityType
<1>2. ASSUME NEW i \in D
      PROVE  i <= k
  <2>1. 1..i \subseteq D
    BY <1>0
  <2>2. IsFiniteSet(1..i) /\ Cardinality(1..i) = i
    BY <1>0, FS_Interval
  <2>3. Cardinality(1..i) <= k
    BY <2>1, <1>1, FS_Subset
  <2>4. QED
    BY <2>2, <2>3
<1>3. D \subseteq 1..k
  BY <1>2, <1>0, <1>1
<1>4. IsFiniteSet(1..k) /\ Cardinality(1..k) = k
  BY <1>1, FS_Interval
<1>5. D = 1..k
  BY <1>3, <1>4, FS_Subset
<1>6. Shared(a, b) = k
  BY DEF Shared
<1>7. \A i \in D : i <= Len(a) /\ i <= Len(b) /\ a[i] = b[i]
  BY <1>0
<1> HIDE DEF D, k
<1>8. QED
  BY <1>1, <1>5, <1>6, <1>7

\* What a rebase leaves behind was a tip of the remote-tracking branch, or
\* is on the remote.
LEMMA ForkPointLanded ==
    ASSUME TypeOK, TipsLanded
    PROVE  /\ ForkPoint(seen \cup {remote}) \in Nat
           /\ \A i \in 1..Len(head) :
                 i <= ForkPoint(seen \cup {remote}) => head[i] \subseteq landed
<1> DEFINE tips == seen \cup {remote}
           had == {t \in tips : IsAncestor(t, head)}
           f == CHOOSE t \in had : \A s \in tips : Shared(head, s) <= Len(t)
<1>1. head \in Branch /\ remote \in Branch /\ tips \subseteq Branch
  BY DEF TypeOK
<1>2. \A t \in tips : Edits(t) \subseteq landed
  BY DEF TipsLanded
<1>3. CASE \E t \in had : \A s \in tips : Shared(head, s) <= Len(t)
  <2>1. f \in had
    BY <1>3
  <2>2. ForkPoint(tips) = Len(f)
    BY <1>3 DEF ForkPoint
  <2> HIDE DEF f
  <2>3. Len(f) \in Nat /\ f \in tips /\ IsAncestor(f, head)
    BY <2>1, <1>1 DEF Branch
  <2>4. ASSUME NEW i \in 1..Len(head), i <= Len(f)
        PROVE  head[i] \subseteq landed
    <3>1. i \in 1..Len(f) /\ f[i] = head[i]
      BY <2>3, <2>4, <1>1 DEF IsAncestor, Branch
    <3>2. f[i] \subseteq Edits(f)
      BY <3>1 DEF Edits
    <3>3. QED
      BY <3>1, <3>2, <2>3, <1>2
  <2>5. QED
    BY <2>2, <2>3, <2>4
<1>4. CASE ~\E t \in had : \A s \in tips : Shared(head, s) <= Len(t)
  <2>1. ForkPoint(tips) = Shared(head, remote)
    BY <1>4 DEF ForkPoint
  <2>2. /\ Shared(head, remote) \in Nat
        /\ \A i \in 1..Shared(head, remote) :
              i <= Len(head) /\ i <= Len(remote) /\ head[i] = remote[i]
    BY <1>1, SharedIsPrefix
  <2>3. ASSUME NEW i \in 1..Len(head), i <= Shared(head, remote)
        PROVE  head[i] \subseteq landed
    <3>1. i \in 1..Len(remote) /\ head[i] = remote[i]
      BY <2>2, <2>3, <1>1 DEF Branch
    <3>2. remote[i] \subseteq Edits(remote)
      BY <3>1 DEF Edits
    <3>3. QED
      BY <3>1, <3>2, <1>2
  <2>4. QED
    BY <2>1, <2>2, <2>3
<1>5. QED
  BY <1>3, <1>4

-----------------------------------------------------------------------------
(* The invariant                                                           *)

LEMMA InitInv ==
    ASSUME Init
    PROVE  Inv
<1> DEFINE first == {[by |-> "human", kind |-> "page", n |-> 0]}
<1>1. <<>> \in Branch /\ Edits(<<>>) = {}
  BY DEF Branch, Edits
<1>2. <<first>> \in Branch /\ Edits(<<first>>) = first
  <2>1. first \in Commit /\ first \cap OpEdit = {}
    BY WikiAssumption DEF Commit, Edit, HumanEdit, OpEdit
  <2>2. Len(<<first>>) = 1 /\ <<first>>[1] = first
    OBVIOUS
  <2>3. QED
    BY <2>1, <2>2 DEF Branch, Edits
<1>3. first \subseteq HumanEdit /\ HumanEdit \cap OpEdit = {}
  BY WikiAssumption DEF HumanEdit, OpEdit
<1>4. /\ remote \in Branch /\ Edits(remote) \subseteq HumanEdit
  BY <1>1, <1>2, <1>3 DEF Init
<1> HIDE DEF first
<1>5. TypeOK
  <2>1. remote \in Branch /\ head \in Branch /\ seen \subseteq Branch
    BY <1>1, <1>4 DEF Init
  <2>2. tx \in [state: {"idle", "cloned", "done"},
               kind: {"proposal", "result", "hypotheses"},
               round: Round, base: Branch]
    BY <1>1, WikiAssumption DEF Init, Idle, Round
  <2>3. landed \subseteq Edit
    BY <1>4 DEF Init, Edit
  <2>4. kb \in [pvc: BOOLEAN, cm: BOOLEAN, secret: {"none", "live", "expired"}]
    BY DEF Init
  <2>5. round \in 0..RoundLimit /\ restarts \in 0..MaxRestarts
    BY WikiAssumption DEF Init
  <2>6. /\ unsettled \subseteq Round /\ validated \subseteq Round
        /\ written \subseteq AgentEdit
        /\ pc \in {"off", "boot", "scaffold", "pull", "stage", "push"}
        /\ token \in {"none", "live", "expired"} /\ git \in BOOLEAN
        /\ dirty \subseteq AgentEdit \cup ScaffoldEdit
        /\ copied \subseteq AgentEdit \cup ScaffoldEdit
    BY DEF Init
  <2>7. QED
    BY <2>1, <2>2, <2>3, <2>4, <2>5, <2>6 DEF TypeOK
<1>6. ResultHasProposal
  <2>1. \A r : [by |-> "operator", kind |-> "result", n |-> r] \notin HumanEdit
    BY DEF HumanEdit
  <2>2. QED
    BY <2>1, <1>4 DEF ResultHasProposal
<1>7. CloneHasRecords /\ VolumeHasNoOther /\ ProposalsFirst
  BY <1>1 DEF Init, Idle, CloneHasRecords, VolumeHasNoOther, ProposalsFirst,
              OperatorEdits
<1>8. TipsLanded /\ Unborn
  BY <1>1 DEF Init, Idle, TipsLanded, Unborn
<1>9. QED
  BY <1>5, <1>6, <1>7, <1>8 DEF Inv

\* What a push of the operator makes of the remote.
LEMMA PushedRecords ==
    ASSUME Inv, tx.state = "cloned", Pushed
    PROVE  /\ remote' \in Branch /\ landed' \subseteq Edit
           /\ OperatorEdits(remote) \subseteq Edits(remote')
           /\ TxEdit \in Edits(remote')
           /\ OperatorEdits(remote') \subseteq OperatorEdits(remote) \cup {TxEdit}
           /\ landed \subseteq landed' /\ Edits(remote') \subseteq landed'
<1>1. tx.base \in Branch /\ remote \in Branch /\ landed \subseteq Edit
  BY DEF Inv, TypeOK
<1>2. TxEdit \in OpEdit /\ {TxEdit} \in Commit
  BY DEF Inv, TypeOK, TxEdit, OpEdit, Commit, Edit
<1>3. /\ OperatorEdits(remote) \subseteq Edits(tx.base)
      /\ OperatorEdits(tx.base) \subseteq Edits(remote)
      /\ Edits(tx.base) \subseteq landed /\ Edits(remote) \subseteq landed
  BY DEF Inv, CloneHasRecords, TipsLanded
<1>4. CASE Land(Append(tx.base, {TxEdit}))
  <2>1. /\ Append(tx.base, {TxEdit}) \in Branch
        /\ Edits(Append(tx.base, {TxEdit})) = Edits(tx.base) \cup {TxEdit}
    BY <1>1, <1>2, EditsAppend
  <2>2. remote' \in Branch /\ Edits(remote') = Edits(tx.base) \cup {TxEdit}
    BY <1>4, <2>1 DEF Land
  <2>3. landed' = landed \cup Edits(tx.base) \cup {TxEdit}
    BY <1>4, <2>1 DEF Land
  <2>4. QED
    BY <2>2, <2>3, <1>1, <1>2, <1>3 DEF OperatorEdits, Commit
<1>5. CASE TxEdit \in Edits(tx.base) /\ UNCHANGED <<remote, landed>>
  BY <1>5, <1>1, <1>2, <1>3 DEF OperatorEdits
<1>6. QED
  BY <1>4, <1>5 DEF Pushed

\* The steps of the operator.
LEMMA OperatorStep ==
    ASSUME Inv, Operator
    PROVE  Inv' /\ OperatorEdits(remote) \subseteq OperatorEdits(remote')
<1> USE DEF Inv
<1>1. ASSUME NEW kind \in {"proposal", "result", "hypotheses"},
             NEW r \in Round, Begin(kind, r)
      PROVE  Inv' /\ OperatorEdits(remote) \subseteq OperatorEdits(remote')
  <2>1. TypeOK'
    BY <1>1 DEF Begin, TypeOK, podVars
  <2>2. CloneHasRecords' /\ VolumeHasNoOther'
    BY <1>1 DEF Begin, podVars, CloneHasRecords, VolumeHasNoOther, OperatorEdits
  <2>3. ProposalsFirst' /\ ResultHasProposal'
    BY <1>1 DEF Begin, Recorded, ProposalsFirst, ResultHasProposal
  <2>4. TipsLanded' /\ Unborn'
    BY <1>1 DEF Begin, podVars, TipsLanded, Unborn
  <2>5. QED
    BY <1>1, <2>1, <2>2, <2>3, <2>4 DEF Begin
<1>2. ASSUME NEW r \in Round, BeginFails(r)
      PROVE  Inv' /\ OperatorEdits(remote) \subseteq OperatorEdits(remote')
  <2>1. <<>> \in Branch /\ Edits(<<>>) = {}
    BY DEF Branch, Edits
  <2>2. TypeOK'
    BY <1>2, <2>1 DEF BeginFails, TypeOK, podVars
  <2>3. CloneHasRecords' /\ VolumeHasNoOther'
    BY <1>2 DEF BeginFails, podVars, CloneHasRecords, VolumeHasNoOther
  <2>4. ProposalsFirst' /\ ResultHasProposal'
    BY <1>2 DEF BeginFails, Recorded, ProposalsFirst, ResultHasProposal
  <2>5. TipsLanded' /\ Unborn'
    BY <1>2, <2>1 DEF BeginFails, podVars, TipsLanded, Unborn
  <2>6. QED
    BY <1>2, <2>2, <2>3, <2>4, <2>5 DEF BeginFails
<1>3. ASSUME tx.state = "cloned", Pushed,
             UNCHANGED <<round, unsettled, validated, kb, podVars, written>>,
             \/ tx' = Idle
             \/ tx' = [tx EXCEPT !.state = "done"]
      PROVE  Inv' /\ OperatorEdits(remote) \subseteq OperatorEdits(remote')
  <2>1. /\ remote' \in Branch /\ landed' \subseteq Edit
        /\ OperatorEdits(remote) \subseteq Edits(remote')
        /\ TxEdit \in Edits(remote')
        /\ OperatorEdits(remote') \subseteq OperatorEdits(remote) \cup {TxEdit}
        /\ landed \subseteq landed' /\ Edits(remote') \subseteq landed'
    BY <1>3, PushedRecords
  <2>2. tx' \in [state: {"idle", "cloned", "done"},
                kind: {"proposal", "result", "hypotheses"},
                round: Round, base: Branch]
        /\ tx'.state # "cloned"
    <3>1. <<>> \in Branch /\ 1 \in Round
      BY WikiAssumption DEF Branch, Round
    <3>2. QED
      BY <1>3, <3>1 DEF TypeOK, Idle
  <2>3. TypeOK'
    BY <1>3, <2>1, <2>2 DEF TypeOK, podVars
  <2>4. CloneHasRecords' /\ VolumeHasNoOther'
    BY <1>3, <2>1, <2>2 DEF podVars, CloneHasRecords, VolumeHasNoOther,
                            OperatorEdits
  <2>5. \A r \in Round : OpRecord("proposal", r) \in Edits(remote)
                        => OpRecord("proposal", r) \in Edits(remote')
    BY <2>1 DEF OperatorEdits, OpEdit, OpRecord
  <2>6. ProposalsFirst'
    <3>1. \A r \in unsettled' : Recorded(r)'
      BY <1>3, <2>5 DEF ProposalsFirst, Recorded, TypeOK
    <3>2. tx'.state = "done" /\ tx'.kind = "proposal" =>
             OpRecord("proposal", tx'.round) \in Edits(remote')
      BY <1>3, <2>1 DEF TxEdit, OpRecord, Idle, TypeOK
    <3>3. QED
      BY <3>1, <3>2, <2>2 DEF ProposalsFirst
  <2>7. ResultHasProposal'
    <3>1. ASSUME NEW r \in Round,
                 OpRecord("result", r) \in Edits(remote')
          PROVE  Recorded(r)'
      <4>1. OpRecord("result", r) \in OperatorEdits(remote')
        BY <3>1 DEF OperatorEdits, OpRecord, OpEdit
      <4>2. CASE OpRecord("result", r) \in OperatorEdits(remote)
        BY <4>2, <2>5, <1>3 DEF ResultHasProposal, OperatorEdits, OpRecord,
                                 Recorded
      <4>3. CASE OpRecord("result", r) = TxEdit
        <5>1. tx.kind = "result" /\ tx.round = r
          BY <4>3 DEF TxEdit, OpRecord
        <5>2. r \in unsettled
          BY <5>1, <1>3 DEF ProposalsFirst
        <5>3. QED
          BY <5>2, <2>5, <1>3 DEF ProposalsFirst, Recorded
      <4>4. QED
        BY <4>1, <4>2, <4>3, <2>1
    <3>2. QED
      BY <3>1 DEF ResultHasProposal, OpRecord, Recorded
  <2>8. TipsLanded'
    <3>1. Edits(tx'.base) \subseteq landed'
      <4>1. Edits(<<>>) = {}
        BY DEF Edits
      <4>2. tx'.base = tx.base \/ tx'.base = <<>>
        BY <1>3 DEF Idle, TypeOK
      <4>3. QED
        BY <4>1, <4>2, <2>1 DEF TipsLanded
    <3>2. QED
      BY <1>3, <2>1, <3>1 DEF TipsLanded, podVars
  <2>9. Unborn'
    BY <1>3, <2>1 DEF Unborn, podVars
  <2>10. QED
    BY <2>1, <2>3, <2>4, <2>6, <2>7, <2>8, <2>9 DEF OperatorEdits
<1>4. CASE PushTx
  BY <1>4, <1>3 DEF PushTx
<1>5. ASSUME tx.state # "idle" \/ tx.state = "cloned",
             UNCHANGED <<remote, landed, round, unsettled, validated, kb, podVars,
                         written>>,
             \/ tx' = Idle
             \/ tx' = [tx EXCEPT !.state = "done"] /\ tx.kind = "result"
      PROVE  Inv' /\ OperatorEdits(remote) \subseteq OperatorEdits(remote')
  <2>1. <<>> \in Branch /\ Edits(<<>>) = {} /\ 1 \in Round
    BY WikiAssumption DEF Branch, Edits, Round
  <2>2. TypeOK'
    BY <1>5, <2>1 DEF TypeOK, podVars, Idle
  <2>3. CloneHasRecords' /\ VolumeHasNoOther'
    BY <1>5 DEF podVars, CloneHasRecords, VolumeHasNoOther, Idle, TypeOK
  <2>4. ProposalsFirst' /\ ResultHasProposal'
    BY <1>5 DEF Recorded, ProposalsFirst, ResultHasProposal, Idle, TypeOK
  <2>5. TipsLanded'
    <3>1. tx'.base = tx.base \/ tx'.base = <<>>
      BY <1>5 DEF Idle, TypeOK
    <3>2. QED
      BY <1>5, <2>1, <3>1 DEF TipsLanded, podVars
  <2>6. Unborn'
    BY <1>5 DEF Unborn, podVars
  <2>7. QED
    BY <1>5, <2>2, <2>3, <2>4, <2>5, <2>6
<1>6. CASE TxFails
  <2>1. CASE Pushed
    BY <1>6, <2>1, <1>3 DEF TxFails
  <2>2. CASE UNCHANGED <<remote, landed>>
    BY <1>6, <2>2, <1>5 DEF TxFails
  <2>3. QED
    BY <1>6, <2>1, <2>2 DEF TxFails
<1>7. CASE Finish
  <2>1. <<>> \in Branch /\ Edits(<<>>) = {} /\ 1 \in Round
    BY WikiAssumption DEF Branch, Edits, Round
  <2>2. /\ unsettled' \subseteq Round /\ round' \in 0..RoundLimit
        /\ \A r \in unsettled' :
              r \in unsettled \/ (tx.kind = "proposal" /\ r = tx.round)
    <3>1. /\ tx.round \in Round /\ tx.round \in 0..RoundLimit
          /\ unsettled \subseteq Round /\ round \in 0..RoundLimit
          /\ tx.kind \in {"proposal", "result", "hypotheses"}
      BY WikiAssumption DEF TypeOK, Round
    <3>2. CASE tx.kind = "result"
      BY <1>7, <3>1, <3>2 DEF Finish
    <3>3. CASE tx.kind = "proposal"
      BY <1>7, <3>1, <3>3 DEF Finish
    <3>4. CASE tx.kind = "hypotheses"
      BY <1>7, <3>1, <3>4 DEF Finish
    <3>5. QED
      BY <3>1, <3>2, <3>3, <3>4
  <2>3. TypeOK'
    BY <1>7, <2>1, <2>2 DEF Finish, TypeOK, Idle, podVars
  <2>4. CloneHasRecords' /\ VolumeHasNoOther'
    BY <1>7 DEF Finish, Idle, podVars, CloneHasRecords, VolumeHasNoOther
  <2>5. ProposalsFirst' /\ ResultHasProposal'
    BY <1>7, <2>2 DEF Finish, Idle, Recorded, ProposalsFirst,
                          ResultHasProposal
  <2>6. TipsLanded' /\ Unborn'
    BY <1>7, <2>1 DEF Finish, Idle, podVars, TipsLanded, Unborn
  <2>7. QED
    BY <1>7, <2>3, <2>4, <2>5, <2>6 DEF Finish
<1>8. CASE Crash
  BY <1>8, <1>5 DEF Crash
<1>10. CASE Validate
  <2>1. round + 1 \in Round /\ round + 1 \in 0..RoundLimit
    BY <1>10, WikiAssumption DEF Validate, TypeOK, Round
  <2>2. TypeOK'
    BY <1>10, <2>1 DEF Validate, TypeOK, podVars
  <2>3. CloneHasRecords' /\ VolumeHasNoOther'
    BY <1>10 DEF Validate, podVars, CloneHasRecords, VolumeHasNoOther
  <2>4. ProposalsFirst' /\ ResultHasProposal'
    BY <1>10 DEF Validate, Recorded, ProposalsFirst, ResultHasProposal
  <2>5. TipsLanded' /\ Unborn'
    BY <1>10 DEF Validate, podVars, TipsLanded, Unborn
  <2>6. QED
    BY <1>10, <2>2, <2>3, <2>4, <2>5 DEF Validate
<1>9. CASE ReconcileKB
  <2>1. kb' \in [pvc: BOOLEAN, cm: BOOLEAN, secret: {"none", "live", "expired"}]
    BY <1>9 DEF ReconcileKB, TypeOK
  <2>2. TypeOK'
    BY <1>9, <2>1 DEF ReconcileKB, TypeOK, podVars
  <2>3. CloneHasRecords' /\ VolumeHasNoOther' /\ ProposalsFirst'
    BY <1>9 DEF ReconcileKB, podVars, CloneHasRecords, VolumeHasNoOther,
                Recorded, ProposalsFirst
  <2>4. ResultHasProposal' /\ TipsLanded' /\ Unborn'
    BY <1>9 DEF ReconcileKB, podVars, ResultHasProposal, TipsLanded, Unborn
  <2>5. QED
    BY <1>9, <2>2, <2>3, <2>4 DEF ReconcileKB
<1>11. QED
  BY <1>1, <1>2, <1>4, <1>6, <1>7, <1>8, <1>9, <1>10 DEF Operator

\* Steps that leave the branches and the records alone.
LEMMA QuietStep ==
    ASSUME Inv, TypeOK', Unborn', head' = head, seen' = seen,
           UNCHANGED <<remote, tx, round, unsettled, validated, landed>>
    PROVE  Inv' /\ OperatorEdits(remote) \subseteq OperatorEdits(remote')
<1>1. CloneHasRecords' /\ VolumeHasNoOther' /\ ProposalsFirst'
  BY DEF Inv, CloneHasRecords, VolumeHasNoOther, Recorded, ProposalsFirst
<1>2. ResultHasProposal' /\ TipsLanded'
  BY DEF Inv, ResultHasProposal, TipsLanded
<1>3. QED
  BY <1>1, <1>2 DEF Inv

\* The steps of the sidecar.
LEMMA SidecarStep ==
    ASSUME Inv, Sidecar
    PROVE  Inv' /\ OperatorEdits(remote) \subseteq OperatorEdits(remote')
<1>0. /\ remote \in Branch /\ head \in Branch /\ seen \subseteq Branch
      /\ dirty \subseteq AgentEdit \cup ScaffoldEdit
      /\ written \subseteq AgentEdit
      /\ OperatorEdits(head) \subseteq Edits(remote)
      /\ Edits(remote) \subseteq landed
  BY DEF Inv, TypeOK, VolumeHasNoOther, TipsLanded
<1>a. ASSUME dirty # {}
      PROVE  dirty \in Commit /\ dirty \cap OpEdit = {}
  BY <1>a, <1>0 DEF Commit, Edit, AgentEdit, ScaffoldEdit, OpEdit
<1>1. CASE Start
  <2>1. TypeOK'
    BY <1>1 DEF Inv, Start, TypeOK, opVars
  <2>2. Unborn'
    BY <1>1 DEF Inv, Start, Unborn, TypeOK
  <2>3. QED
    BY <1>1, <2>1, <2>2, QuietStep DEF Start, opVars
<1>2. CASE Bootstrap
  <2>1. head = <<>>
    BY <1>2 DEF Inv, Bootstrap, Unborn
  <2>2. \/ head' = remote
        \/ head' = Append(remote, dirty) /\ dirty # {}
    BY <1>2 DEF Bootstrap
  <2>3. /\ head' \in Branch
        /\ Edits(head') \subseteq Edits(remote) \cup dirty
    <3>1. CASE head' = Append(remote, dirty) /\ dirty # {}
      BY <3>1, <1>0, <1>a, EditsAppend
    <3>2. CASE head' = remote
      BY <3>2, <1>0
    <3>3. QED
      BY <3>1, <3>2, <2>2
  <2>4. copied' \subseteq AgentEdit \cup ScaffoldEdit
    <3>1. copied' = copied \/ copied' = copied \cup dirty
      BY <1>2 DEF Bootstrap
    <3>2. QED
      BY <3>1, <1>0 DEF Inv, TypeOK
  <2>5. TypeOK'
    BY <1>2, <1>0, <2>3, <2>4 DEF Inv, Bootstrap, TypeOK, opVars
  <2>6. OperatorEdits(head') \subseteq Edits(remote)
    <3>1. dirty \cap OpEdit = {}
      BY <1>0 DEF AgentEdit, ScaffoldEdit, OpEdit
    <3>2. QED
      BY <2>3, <3>1 DEF OperatorEdits
  <2>7. CloneHasRecords' /\ VolumeHasNoOther' /\ ProposalsFirst'
        /\ ResultHasProposal'
    BY <1>2, <2>6 DEF Inv, Bootstrap, opVars, CloneHasRecords, VolumeHasNoOther,
                      Recorded, ProposalsFirst, ResultHasProposal
  <2>8. TipsLanded' /\ Unborn'
    BY <1>2, <1>0 DEF Inv, Bootstrap, opVars, TipsLanded, Unborn
  <2>9. QED
    BY <1>2, <2>5, <2>7, <2>8 DEF Inv, Bootstrap
<1>3. CASE BootstrapEmpty
  <2>1. TypeOK' /\ Unborn'
    BY <1>3 DEF Inv, BootstrapEmpty, TypeOK, Unborn, opVars
  <2>2. QED
    BY <1>3, <2>1, QuietStep DEF BootstrapEmpty, opVars
<1>4. CASE Scaffold
  <2>1. TypeOK' /\ Unborn'
    BY <1>4, <1>0 DEF Inv, Scaffold, TypeOK, Unborn, opVars
  <2>2. QED
    BY <1>4, <2>1, QuietStep DEF Scaffold, opVars
<1>5. CASE Pull
  <2> DEFINE k == ForkPoint(seen \cup {remote})
  <2>1. k \in Nat /\ \A i \in 1..Len(head) : i <= k => head[i] \subseteq landed
    BY ForkPointLanded DEF Inv
  <2>2. head' = remote \o SubSeq(head, k + 1, Len(head))
    BY <1>5 DEF Pull, Replayed
  <2> HIDE DEF k
  <2>3. /\ head' \in Branch
        /\ Edits(remote) \subseteq Edits(head')
        /\ Edits(head') \subseteq Edits(remote) \cup Edits(head)
        /\ \A i \in 1..Len(head) : i > k => head[i] \subseteq Edits(head')
    BY <1>0, <2>1, <2>2, EditsRebased
  <2>5. TypeOK'
    BY <1>5, <1>0, <2>3 DEF Inv, Pull, TypeOK, opVars
  <2>6. CloneHasRecords' /\ VolumeHasNoOther' /\ ProposalsFirst'
        /\ ResultHasProposal'
    BY <1>5, <1>0, <2>3 DEF Inv, Pull, opVars, CloneHasRecords,
         VolumeHasNoOther, Recorded, ProposalsFirst, ResultHasProposal,
         OperatorEdits
  <2>7. TipsLanded'
    BY <1>5, <1>0 DEF Inv, Pull, opVars, TipsLanded
  <2>8. Unborn'
    BY <1>5 DEF Inv, Pull, Unborn
  <2>9. QED
    BY <1>5, <2>5, <2>6, <2>7, <2>8 DEF Inv, Pull
<1>6. CASE PullConflict
  <2>1. TypeOK'
    BY <1>6, <1>0 DEF Inv, PullConflict, TypeOK, opVars
  <2>2. CloneHasRecords' /\ VolumeHasNoOther' /\ ProposalsFirst'
        /\ ResultHasProposal'
    BY <1>6 DEF Inv, PullConflict, opVars, CloneHasRecords, VolumeHasNoOther,
                Recorded, ProposalsFirst, ResultHasProposal
  <2>3. TipsLanded' /\ Unborn'
    BY <1>6, <1>0 DEF Inv, PullConflict, opVars, TipsLanded, Unborn
  <2>4. QED
    BY <1>6, <2>1, <2>2, <2>3 DEF Inv, PullConflict
<1>7. CASE Stage
  <2>1. CASE dirty = {}
    <3>1. TypeOK' /\ Unborn'
      BY <1>7, <2>1 DEF Inv, Stage, TypeOK, Unborn, opVars
    <3>2. QED
      BY <1>7, <2>1, <3>1, QuietStep DEF Stage, opVars
  <2>2. CASE dirty # {}
    <3>1. head' = Append(head, dirty) /\ dirty' = {} /\ pc' = "push"
      BY <1>7, <2>2 DEF Stage
    <3>2. head' \in Branch /\ Edits(head') = Edits(head) \cup dirty
      BY <3>1, <2>2, <1>0, <1>a, EditsAppend
    <3>3. TypeOK'
      BY <1>7, <3>1, <3>2 DEF Inv, Stage, TypeOK, opVars
    <3>4. CloneHasRecords' /\ VolumeHasNoOther' /\ ProposalsFirst'
          /\ ResultHasProposal'
      BY <1>7, <3>2, <2>2, <1>0, <1>a DEF Inv, Stage, opVars, CloneHasRecords,
           VolumeHasNoOther, Recorded, ProposalsFirst, ResultHasProposal,
         OperatorEdits
    <3>5. TipsLanded'
      BY <1>7 DEF Inv, Stage, opVars, TipsLanded
    <3>6. Unborn'
      <4>1. git
        BY <1>7 DEF Inv, Stage, Unborn
      <4>2. QED
        BY <1>7, <4>1, <3>1 DEF Stage, Unborn
    <3>7. QED
      BY <1>7, <3>3, <3>4, <3>5, <3>6 DEF Inv, Stage
  <2>3. QED
    BY <2>1, <2>2
<1>8. CASE Push
  <2>1. remote' = head /\ landed' = landed \cup Edits(head)
    BY <1>8 DEF Push, Land
  <2>2. Edits(remote) \subseteq Edits(head)
    <3>1. Len(remote) <= Len(head) /\ \A i \in 1..Len(remote) : remote[i] = head[i]
      BY <1>8 DEF Push, IsAncestor
    <3>2. \A i \in 1..Len(remote) : i \in 1..Len(head)
      BY <3>1, <1>0 DEF Branch
    <3>3. QED
      BY <3>1, <3>2 DEF Edits
  <2>3. Edits(head) \subseteq Edit
    BY <1>0 DEF Edits, Branch, Commit
  <2>4. TypeOK'
    BY <1>8, <1>0, <2>1, <2>3 DEF Inv, Push, TypeOK, opVars
  <2>5. OperatorEdits(head) = OperatorEdits(remote)
    BY <2>2, <1>0 DEF OperatorEdits
  <2>6. CloneHasRecords' /\ VolumeHasNoOther'
    BY <1>8, <2>1, <2>2, <2>5 DEF Inv, Push, opVars, CloneHasRecords,
         VolumeHasNoOther, OperatorEdits
  <2>7. ProposalsFirst'
    BY <1>8, <2>1, <2>2 DEF Inv, Push, opVars, Recorded, ProposalsFirst
  <2>8. ResultHasProposal'
    <3>1. ASSUME NEW r \in Round, OpRecord("result", r) \in Edits(head)
          PROVE  OpRecord("proposal", r) \in Edits(head) \/ r \in validated
      <4>1. OpRecord("result", r) \in Edits(remote)
        BY <3>1, <2>5 DEF OperatorEdits, OpEdit, OpRecord
      <4>2. QED
        BY <4>1, <2>2 DEF Inv, ResultHasProposal, OpRecord
    <3>2. QED
      BY <1>8, <3>1, <2>1 DEF Push, opVars, ResultHasProposal, OpRecord
  <2>9. TipsLanded'
    BY <1>8, <2>1 DEF Inv, Push, opVars, TipsLanded
  <2>10. Unborn'
    BY <1>8, <2>1 DEF Inv, Push, Unborn
  <2>11. QED
    BY <2>1, <2>2, <2>4, <2>6, <2>7, <2>8, <2>9, <2>10 DEF Inv, OperatorEdits
<1>9. CASE PushFails
  <2>1. TypeOK' /\ Unborn'
    BY <1>9 DEF Inv, PushFails, TypeOK, Unborn, opVars
  <2>2. QED
    BY <1>9, <2>1, QuietStep DEF PushFails, opVars
<1>10. QED
  BY <1>1, <1>2, <1>3, <1>4, <1>5, <1>6, <1>7, <1>8, <1>9 DEF Sidecar

\* The steps of agents, humans, the node and the clock.
LEMMA EnvironmentStep ==
    ASSUME Inv, Environment
    PROVE  Inv' /\ OperatorEdits(remote) \subseteq OperatorEdits(remote')
<1>1. ASSUME NEW n \in 1..MaxEdits, AgentWrites(n)
      PROVE  Inv' /\ OperatorEdits(remote) \subseteq OperatorEdits(remote')
  <2>1. PICK e \in AgentEdit : dirty' = dirty \cup {e} /\ written' = written \cup {e}
    BY <1>1 DEF AgentWrites, Kinds, AgentEdit
  <2>2. TypeOK' /\ Unborn'
    BY <1>1, <2>1 DEF Inv, AgentWrites, TypeOK, Unborn, opVars
  <2>3. QED
    BY <1>1, <2>1, <2>2, QuietStep DEF AgentWrites, opVars
<1>2. ASSUME NEW n \in 1..MaxEdits, HumanPushes(n)
      PROVE  Inv' /\ OperatorEdits(remote) \subseteq OperatorEdits(remote')
  <2>1. PICK e \in HumanEdit : Land(Append(remote, {e}))
    <3>1. PICK kind \in Kinds :
             Land(Append(remote, {[by |-> "human", kind |-> kind, n |-> n]}))
      BY <1>2 DEF HumanPushes
    <3>2. kind \in {"page", "log"} /\ n \in 0..MaxEdits
      BY WikiAssumption DEF Kinds
    <3>3. QED
      BY <3>1, <3>2 DEF HumanEdit
  <2>2. {e} \in Commit /\ e \notin OpEdit /\ remote \in Branch
    BY DEF Inv, TypeOK, Commit, Edit, HumanEdit, OpEdit
  <2>3. remote' \in Branch /\ Edits(remote') = Edits(remote) \cup {e}
    BY <2>1, <2>2, EditsAppend DEF Land
  <2>4. landed' = landed \cup Edits(remote) \cup {e}
    BY <2>1, <2>2, EditsAppend DEF Land
  <2>5. TypeOK'
    BY <1>2, <2>2, <2>3, <2>4 DEF Inv, HumanPushes, TypeOK, TipsLanded, opVars,
                                  podVars, Commit
  <2>6. CloneHasRecords' /\ VolumeHasNoOther' /\ ProposalsFirst'
    BY <1>2, <2>2, <2>3 DEF Inv, HumanPushes, opVars, podVars, CloneHasRecords,
         VolumeHasNoOther, Recorded, ProposalsFirst, OperatorEdits
  <2>7. ResultHasProposal'
    BY <1>2, <2>2, <2>3 DEF Inv, HumanPushes, opVars, ResultHasProposal, OpEdit
  <2>8. TipsLanded' /\ Unborn'
    BY <1>2, <2>3, <2>4 DEF Inv, HumanPushes, opVars, podVars, TipsLanded,
         Unborn
  <2>9. QED
    BY <2>3, <2>5, <2>6, <2>7, <2>8 DEF Inv, OperatorEdits
<1>3. CASE Restart
  <2>1. restarts' \in 0..MaxRestarts
    BY <1>3, WikiAssumption DEF Inv, Restart, TypeOK
  <2>2. TypeOK' /\ Unborn'
    BY <1>3, <2>1 DEF Inv, Restart, TypeOK, Unborn, opVars
  <2>3. QED
    BY <1>3, <2>2, QuietStep DEF Restart, opVars
<1>4. CASE TokenExpires
  <2>1. TypeOK' /\ Unborn'
    BY <1>4 DEF Inv, TokenExpires, TypeOK, Unborn
  <2>2. QED
    BY <1>4, <2>1, QuietStep DEF TokenExpires
<1>5. QED
  BY <1>1, <1>2, <1>3, <1>4 DEF Environment

\* Every step keeps the invariant, and takes no record off the branch.
LEMMA NextInv ==
    ASSUME Inv, [Next]_vars
    PROVE  Inv' /\ OperatorEdits(remote) \subseteq OperatorEdits(remote')
<1>1. CASE UNCHANGED vars
  <2>1. TypeOK' /\ Unborn'
    BY <1>1 DEF Inv, TypeOK, Unborn, vars, opVars, podVars
  <2>2. QED
    BY <1>1, <2>1, QuietStep DEF vars, opVars, podVars
<1>2. QED
  BY <1>1, OperatorStep, SidecarStep, EnvironmentStep DEF Next

\* The invariant holds.
THEOREM Invariance == Spec => []Inv
BY InitInv, NextInv, PTL DEF Spec

\* Every variable stays in its type, and no commit is empty.
THEOREM TypeCorrect == Spec => []TypeOK
<1>1. Inv => TypeOK
  BY DEF Inv
<1>2. QED
  BY <1>1, Invariance, PTL

\* The wiki never holds a result without its proposal.
THEOREM ResultsHaveProposals == Spec => []ResultHasProposal
<1>1. Inv => ResultHasProposal
  BY DEF Inv
<1>2. QED
  BY <1>1, Invariance, PTL

\* No push, forced or not, takes a record of the operator off the branch.
THEOREM RecordsKept == Spec => OperatorRecordsKept
<1>1. Inv /\ [Next]_vars =>
         [OperatorEdits(remote) \subseteq OperatorEdits(remote')]_vars
  BY NextInv
<1>2. QED
  BY <1>1, Invariance, PTL DEF Spec, OperatorRecordsKept

-----------------------------------------------------------------------------
(* What leaves the volume, and what leaves the branch                      *)

\* What is about to leave the volume had been on the remote.
LeavesLanded == OnVolume \ OnVolume' \subseteq landed \ Edits(remote')

\* The clone is being made, of a remote that clashes with the volume.
ClashAtBoot == ~git /\ git' /\ BootClash

\* A rebase drops of the local branch what was on the remote and is not now.
LEMMA PullDrops ==
    ASSUME Inv, Pull
    PROVE  Edits(head) \ Edits(head') \subseteq landed \ Edits(remote)
<1> DEFINE k == ForkPoint(seen \cup {remote})
<1>1. k \in Nat /\ \A i \in 1..Len(head) : i <= k => head[i] \subseteq landed
  BY ForkPointLanded DEF Inv
<1>2. head' = remote \o SubSeq(head, k + 1, Len(head))
  BY DEF Pull, Replayed
<1>3. remote \in Branch /\ head \in Branch
  BY DEF Inv, TypeOK
<1> HIDE DEF k
<1>4. /\ Edits(remote) \subseteq Edits(head')
      /\ \A i \in 1..Len(head) : i > k => head[i] \subseteq Edits(head')
  BY <1>1, <1>2, <1>3, EditsRebased
<1>5. ASSUME NEW i \in 1..Len(head)
      PROVE  head[i] \subseteq landed \cup Edits(head')
  <2>1. i <= k \/ i > k
    BY <1>1
  <2>2. QED
    BY <1>1, <1>4, <2>1
<1>6. Edits(head) \subseteq landed \cup Edits(head')
  BY <1>5 DEF Edits
<1>7. QED
  BY <1>4, <1>6

\* Every step leaves on the volume all but what a pull drops, or the reset of
\* the bootstrap.
LEMMA VolumeStep ==
    ASSUME Inv, [Next]_vars
    PROVE  LeavesLanded \/ ClashAtBoot
<1> USE DEF OnVolume, LeavesLanded
<1>1. CASE UNCHANGED podVars
  BY <1>1 DEF podVars
<1>2. CASE Bootstrap
  <2>1. Edits(head) = {}
    BY <1>2 DEF Inv, Bootstrap, Unborn, Edits
  <2>2. \/ head' = remote /\ dirty = {}
        \/ head' = Append(remote, dirty) /\ dirty # {}
        \/ BootClash
    BY <1>2 DEF Bootstrap
  <2>3. remote \in Branch /\ (dirty # {} => dirty \in Commit)
    BY DEF Inv, TypeOK, Commit, Edit, AgentEdit, ScaffoldEdit
  <2>4. CASE head' = Append(remote, dirty) /\ dirty # {}
    <3>1. Edits(head') = Edits(remote) \cup dirty
      BY <2>3, <2>4, EditsAppend
    <3>2. QED
      BY <3>1, <2>1
  <2>5. CASE BootClash
    BY <1>2, <2>5 DEF Inv, Unborn, Bootstrap, ClashAtBoot
  <2>6. QED
    BY <2>1, <2>2, <2>4, <2>5
<1>3. CASE Pull
  <2>1. dirty' = dirty /\ remote' = remote
    BY <1>3 DEF Pull
  <2>2. QED
    BY <1>3, <2>1, PullDrops
<1>4. CASE Stage
  <2>1. CASE dirty = {}
    BY <1>4, <2>1 DEF Stage
  <2>2. CASE dirty # {}
    <3>1. dirty \in Commit /\ head \in Branch
      BY <2>2 DEF Inv, TypeOK, Commit, Edit, AgentEdit, ScaffoldEdit
    <3>2. head' = Append(head, dirty)
      BY <1>4, <2>2 DEF Stage
    <3>3. Edits(head') = Edits(head) \cup dirty
      BY <3>1, <3>2, EditsAppend
    <3>4. QED
      BY <3>2, <3>3
  <2>3. QED
    BY <2>1, <2>2
<1>5. CASE Start \/ BootstrapEmpty \/ Scaffold \/ PullConflict \/ Push
           \/ PushFails
  <2>1. head' = head /\ dirty \subseteq dirty'
    BY <1>5 DEF Start, BootstrapEmpty, Scaffold, PullConflict, Push, PushFails
  <2>2. QED
    BY <2>1
<1>6. CASE Operator
  <2>1. UNCHANGED podVars
    BY <1>6 DEF Operator, Begin, BeginFails, PushTx, TxFails, Finish, Validate,
                Crash, ReconcileKB
  <2>2. QED
    BY <1>1, <2>1
<1>7. CASE Environment
  <2>1. ASSUME NEW n \in 1..MaxEdits, AgentWrites(n)
        PROVE  head' = head /\ dirty \subseteq dirty'
    BY <2>1 DEF AgentWrites
  <2>2. ASSUME NEW n \in 1..MaxEdits, HumanPushes(n)
        PROVE  head' = head /\ dirty \subseteq dirty'
    BY <2>2 DEF HumanPushes, podVars
  <2>3. ASSUME Restart \/ TokenExpires
        PROVE  head' = head /\ dirty \subseteq dirty'
    BY <2>3 DEF Restart, TokenExpires
  <2>4. \/ \E n \in 1..MaxEdits : AgentWrites(n) \/ HumanPushes(n)
        \/ Restart \/ TokenExpires
    BY <1>7 DEF Environment
  <2>5. head' = head /\ dirty \subseteq dirty'
    BY <2>1, <2>2, <2>3, <2>4
  <2>6. QED
    BY <2>5
<1>8. CASE UNCHANGED vars
  BY <1>1, <1>8 DEF vars
<1>9. QED
  BY <1>2, <1>3, <1>4, <1>5, <1>6, <1>7, <1>8 DEF Next, Sidecar

\* An edit leaves the volume in two ways only.  It had been on the remote, and
\* a forced push of the operator took it off: the rebase that follows takes it
\* for upstream history.  Or the bootstrap found files on the volume that clash
\* with those of the remote, and reset the clone.  A refused push, a later
\* conflict or a restart never does it.
VolumeLosesForcedOut == [][LeavesLanded \/ ClashAtBoot]_vars

THEOREM OnlyForcedOutLeaves == Spec => VolumeLosesForcedOut
<1>1. Inv /\ [Next]_vars => [LeavesLanded \/ ClashAtBoot]_vars
  BY VolumeStep
<1>2. QED
  BY <1>1, Invariance, PTL DEF Spec, VolumeLosesForcedOut

\* Conflicts, refused pushes and rebases lose nothing that was never pushed,
\* once the volume is bootstrapped.
THEOREM UnpushedEditsKept == Spec => UnpushedKept
<1>1. LeavesLanded => OnVolume \ landed \subseteq OnVolume'
  BY DEF LeavesLanded
<1>2. Inv /\ [Next]_vars =>
         [\/ OnVolume \ landed \subseteq OnVolume'
          \/ ~git /\ git' /\ BootClash]_vars
  BY <1>1, VolumeStep DEF ClashAtBoot
<1>3. QED
  BY <1>2, Invariance, PTL DEF Spec, UnpushedKept

\* The branch grows, or the operator pushes a clone that is behind.
GrowsOrForced ==
    \/ IsAncestor(remote, remote')
    \/ /\ tx.state = "cloned" /\ tx'.state # "cloned"
       /\ ~IsAncestor(remote, tx.base)
       /\ remote' = Append(tx.base, {TxEdit})

LEMMA GrowsByAppend ==
    ASSUME NEW a \in Branch, NEW b \in Branch, NEW c \in Commit,
           IsAncestor(a, b)
    PROVE  IsAncestor(a, Append(b, c))
<1>1. Len(a) \in Nat /\ Len(b) \in Nat /\ Len(a) <= Len(b)
  BY DEF IsAncestor, Branch
<1>2. ASSUME NEW i \in 1..Len(a)
      PROVE  a[i] = Append(b, c)[i]
  <2>1. i \in 1..Len(b) /\ a[i] = b[i]
    BY <1>1 DEF IsAncestor
  <2>2. Append(b, c)[i] = b[i]
    BY <2>1 DEF Branch
  <2>3. QED
    BY <2>1, <2>2
<1>3. Len(a) <= Len(Append(b, c))
  BY <1>1 DEF Branch
<1>4. QED
  BY <1>2, <1>3 DEF IsAncestor

LEMMA BranchStep ==
    ASSUME Inv, [Next]_vars
    PROVE  GrowsOrForced
<1>1. remote \in Branch /\ IsAncestor(remote, remote)
  BY DEF Inv, TypeOK, IsAncestor, Branch
<1>2. CASE remote' = remote
  BY <1>1, <1>2 DEF GrowsOrForced
<1>3. ASSUME tx.state = "cloned", tx'.state # "cloned", Pushed
      PROVE  GrowsOrForced
  <2>1. tx.base \in Branch /\ {TxEdit} \in Commit
    BY <1>3 DEF Inv, TypeOK, TxEdit, Commit, Edit, OpEdit
  <2>2. CASE remote' = remote
    BY <2>2, <1>2
  <2>3. CASE remote' = Append(tx.base, {TxEdit})
    <3>1. CASE IsAncestor(remote, tx.base)
      BY <3>1, <2>1, <2>3, <1>1, GrowsByAppend DEF GrowsOrForced
    <3>2. CASE ~IsAncestor(remote, tx.base)
      BY <3>2, <2>3, <1>3 DEF GrowsOrForced
    <3>3. QED
      BY <3>1, <3>2
  <2>4. QED
    BY <2>2, <2>3, <1>3 DEF Pushed, Land
<1>4. CASE Operator
  <2>1. CASE PushTx
    <3>1. tx.state = "cloned" /\ Pushed /\ tx' = [tx EXCEPT !.state = "done"]
      BY <2>1 DEF PushTx
    <3>2. tx'.state = "done"
      BY <3>1 DEF Inv, TypeOK
    <3>3. QED
      BY <3>1, <3>2, <1>3
  <2>2. CASE TxFails
    <3>1. tx.state = "cloned" /\ (Pushed \/ remote' = remote)
      BY <2>2 DEF TxFails
    <3>2. tx'.state # "cloned"
      <4>1. tx' = [tx EXCEPT !.state = "done"] \/ tx' = Idle
        BY <2>2 DEF TxFails
      <4>2. QED
        BY <4>1 DEF Inv, TypeOK, Idle
    <3>3. QED
      BY <3>1, <3>2, <1>2, <1>3
  <2>3. ASSUME ~PushTx, ~TxFails
        PROVE  remote' = remote
    BY <1>4, <2>3 DEF Operator, Begin, BeginFails, Finish, Validate, Crash,
                         ReconcileKB
  <2>4. QED
    BY <2>1, <2>2, <2>3, <1>2
<1>5. CASE Push
  <2>1. remote' = head /\ IsAncestor(remote, head)
    BY <1>5 DEF Push, Land
  <2>2. QED
    BY <2>1 DEF GrowsOrForced
<1>6. CASE Sidecar /\ ~Push
  <2>1. remote' = remote
    BY <1>6 DEF Sidecar, Start, Bootstrap, BootstrapEmpty, Scaffold, Pull,
                PullConflict, Stage, PushFails
  <2>2. QED
    BY <2>1, <1>2
<1>7. CASE Environment
  <2>1. ASSUME NEW n \in 1..MaxEdits, HumanPushes(n)
        PROVE  GrowsOrForced
    <3>1. PICK kind \in Kinds :
             Land(Append(remote, {[by |-> "human", kind |-> kind, n |-> n]}))
      BY <2>1 DEF HumanPushes
    <3> DEFINE c == {[by |-> "human", kind |-> kind, n |-> n]}
    <3>2. kind \in {"page", "log"} /\ n \in 0..MaxEdits
      BY WikiAssumption DEF Kinds
    <3>3. c \in Commit
      BY <3>2 DEF Commit, Edit, HumanEdit
    <3>4. remote' = Append(remote, c)
      BY <3>1 DEF Land
    <3> HIDE DEF c
    <3>5. QED
      BY <3>3, <3>4, <1>1, GrowsByAppend DEF GrowsOrForced
  <2>2. ASSUME NEW n \in 1..MaxEdits, AgentWrites(n)
        PROVE  remote' = remote
    BY <2>2 DEF AgentWrites
  <2>3. ASSUME Restart \/ TokenExpires
        PROVE  remote' = remote
    BY <2>3 DEF Restart, TokenExpires
  <2>4. \/ \E n \in 1..MaxEdits : AgentWrites(n) \/ HumanPushes(n)
        \/ Restart \/ TokenExpires
    BY <1>7 DEF Environment
  <2>5. QED
    BY <1>2, <2>1, <2>2, <2>3, <2>4
<1>8. CASE UNCHANGED vars
  BY <1>2, <1>8 DEF vars
<1>9. QED
  BY <1>4, <1>5, <1>6, <1>7, <1>8 DEF Next

\* A commit leaves the branch in one way only: the operator's forcing push of
\* a transaction whose clone is behind.  The sidecar and people only ever put
\* commits on top.
THEOREM OnlyTheOperatorForces == Spec => [][GrowsOrForced]_vars
<1>1. Inv /\ [Next]_vars => [GrowsOrForced]_vars
  BY BranchStep
<1>2. QED
  BY <1>1, Invariance, PTL DEF Spec

-----------------------------------------------------------------------------
(* The repository that was empty                                           *)

\* The pull of an empty branch fails, so no cycle gets to the commit; there
\* is nothing for the operator to clone.
NoFirstCommit ==
    remote = <<>> /\ pc \notin {"stage", "push"} /\ tx.state # "cloned"

LEMMA NoFirstCommitInit == Init /\ ~Seeded => NoFirstCommit
BY DEF Init, Idle, NoFirstCommit

LEMMA NoFirstCommitStep ==
    ASSUME NoFirstCommit, TypeOK, [Next]_vars
    PROVE  NoFirstCommit'
<1> USE DEF NoFirstCommit
<1>1. CASE Operator
  <2>1. remote' = remote /\ pc' = pc
    BY <1>1 DEF Operator, Begin, BeginFails, PushTx, TxFails, Finish, Validate,
                Crash, ReconcileKB, podVars
  <2>2. tx' = tx \/ tx' = Idle
        \/ \E r \in Round : tx' = [state |-> "done", kind |-> "result",
                                   round |-> r, base |-> <<>>]
    BY <1>1 DEF Operator, Begin, BeginFails, PushTx, TxFails, Finish, Validate,
                Crash, ReconcileKB
  <2>3. tx'.state # "cloned"
    BY <2>2 DEF Idle
  <2>4. QED
    BY <2>1, <2>3
<1>2. CASE Sidecar
  <2>1. remote' = remote /\ tx' = tx
    BY <1>2 DEF Sidecar, Start, Bootstrap, BootstrapEmpty, Scaffold, Pull,
                PullConflict, Stage, Push, PushFails, opVars
  <2>2. pc' \notin {"stage", "push"}
    BY <1>2 DEF Sidecar, Start, Bootstrap, BootstrapEmpty, Scaffold, Pull,
                PullConflict, Stage, Push, PushFails
  <2>3. QED
    BY <2>1, <2>2
<1>3. CASE Environment
  <2>1. \A n \in 1..MaxEdits : ~HumanPushes(n)
    BY DEF HumanPushes
  <2>2. remote' = remote /\ tx' = tx /\ (pc' = pc \/ pc' = "off")
    BY <1>3, <2>1 DEF Environment, AgentWrites, Restart, TokenExpires, opVars
  <2>3. QED
    BY <2>2
<1>4. CASE UNCHANGED vars
  BY <1>4 DEF vars, opVars, podVars
<1>5. QED
  BY <1>1, <1>2, <1>3, <1>4 DEF Next

\* A repository that was made without a commit never gets its first one from
\* the sidecar or the operator: what its agents write is never pushed.
THEOREM EmptyStaysEmpty == ~Seeded => (Spec => [](remote = <<>>))
<1>1. ASSUME ~Seeded
      PROVE  Init => NoFirstCommit
  BY <1>1, NoFirstCommitInit
<1>2. NoFirstCommit /\ TypeOK /\ [Next]_vars => NoFirstCommit'
  BY NoFirstCommitStep
<1>3. NoFirstCommit => remote = <<>>
  BY DEF NoFirstCommit
<1>4. ASSUME ~Seeded
      PROVE  Spec => [](remote = <<>>)
  <2>1. Init => NoFirstCommit
    BY <1>1, <1>4
  <2>2. QED
    BY <2>1, <1>2, <1>3, TypeCorrect, PTL DEF Spec
<1>5. QED
  BY <1>4
=============================================================================
