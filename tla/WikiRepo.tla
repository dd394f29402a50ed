------------------------------ MODULE WikiRepo ------------------------------
(***************************************************************************)
(* The wiki of a KnowledgeBase: one branch of a remote repository that the *)
(* operator, the git-sync sidecar of the gateway pod and humans all push   *)
(* to, and the volume (PVC) with the clone the agents write into.          *)
(*                                                                         *)
(* The operator works in transactions: a shallow clone, one commit, one    *)
(* push with a forcing refspec.  The sidecar repeats pull --rebase, commit *)
(* and a plain push.  Commits hold sets of edits; the identity of a commit *)
(* is the sequence of edits it ends, as a hash covers the parents.         *)
(***************************************************************************)
EXTENDS Integers, Sequences, FiniteSets

CONSTANTS
    RoundLimit,     \* bound: rounds the AutoResearch loop gets to
    MaxEdits,       \* bound: edits of agents and humans together
    MaxCommits,     \* bound: length of a branch at which pushes are still made
    MaxRestarts,    \* bound: restarts of the sidecar container
    Seeded,         \* the repository had a first commit when the KB was made
    Faults          \* which of FaultClass the environment exhibits

(***************************************************************************)
(* crash: the operator stops inside a transaction.  transient: a clone, a  *)
(* push or a mint fails, or a push lands and its answer is lost.           *)
(* restart: the sidecar container restarts.  expiry: an installation token *)
(* gets an hour old.  clash: agents and humans edit log/log.md too.        *)
(***************************************************************************)
FaultClass == {"crash", "transient", "restart", "expiry", "clash"}

ASSUME WikiAssumption ==
    /\ RoundLimit \in Nat \ {0} /\ MaxEdits \in Nat /\ MaxCommits \in Nat
    /\ MaxRestarts \in Nat /\ Seeded \in BOOLEAN /\ Faults \subseteq FaultClass

Round == 1..RoundLimit

OpEdit ==
    [by: {"operator"}, kind: {"proposal", "result", "hypotheses"}, n: Round]
AgentEdit == [by: {"agent"}, kind: {"page", "log"}, n: 1..MaxEdits]
HumanEdit == [by: {"human"}, kind: {"page", "log"}, n: 0..MaxEdits]
ScaffoldEdit == [by: {"scaffold"}, kind: {"log", "dashboard"}, n: {0}]
Edit == OpEdit \cup AgentEdit \cup HumanEdit \cup ScaffoldEdit

Commit == (SUBSET Edit) \ {{}}

\* The files an edit touches: a proposal comes with DASHBOARD.md, a result
\* with an entry in log/log.md.
Files(e) ==
    CASE e.kind = "proposal"   -> {<<"proposals", e.n>>, <<"DASHBOARD", 0>>}
      [] e.kind = "result"     -> {<<"results", e.n>>, <<"log", 0>>}
      [] e.kind = "hypotheses" -> {<<"HYPOTHESES", 0>>}
      [] e.kind = "log"        -> {<<"log", 0>>}
      [] e.kind = "dashboard"  -> {<<"DASHBOARD", 0>>}
      [] e.kind = "page"       -> {<<e.by, e.n>>}

Touched(edits) == UNION {Files(e) : e \in edits}

\* The edits on a branch.
Edits(branch) == UNION {branch[i] : i \in 1..Len(branch)}

\* How many commits two branches share.
Shared(a, b) ==
    Cardinality({i \in 1..Len(a) :
        i <= Len(b) /\ \A j \in 1..i : a[j] = b[j]})

IsAncestor(a, b) == Len(a) <= Len(b) /\ \A i \in 1..Len(a) : a[i] = b[i]

VARIABLES
    remote,     \* the branch at the remote
    (***********************************************************************)
    (* The operator                                                        *)
    (***********************************************************************)
    tx,         \* the transaction under way
    round,      \* status.currentRound
    unsettled,  \* the rounds in status.openRuns
    validated,  \* history: rounds that spec.validationMode submitted
    kb,         \* what the KnowledgeBase reconciler has made
    (***********************************************************************)
    (* The gateway pod                                                     *)
    (***********************************************************************)
    pc,         \* the step the sidecar is at
    token,      \* GIT_TOKEN of the running container
    git,        \* the volume has a .git
    head,       \* the branch checked out on the volume
    dirty,      \* edits in its working tree that no commit has
    seen,       \* the reflog of origin/<branch>: every tip it had
    copied,     \* the copy a bootstrap conflict made beside the mount
    restarts,   \* restarts of the container so far
    (***********************************************************************)
    (* History                                                             *)
    (***********************************************************************)
    written,    \* edits the agents ever made
    landed      \* edits that were ever on the remote

opVars   == <<tx, round, unsettled, validated, kb>>
podVars  == <<pc, token, git, head, dirty, seen, copied, restarts>>
vars     == <<remote, opVars, podVars, written, landed>>

Idle == [state |-> "idle", kind |-> "result", round |-> 1, base |-> <<>>]

Init ==
    /\ remote = IF Seeded THEN <<{[by |-> "human", kind |-> "page", n |-> 0]}>>
                          ELSE <<>>
    /\ tx = Idle /\ round = 0 /\ unsettled = {} /\ validated = {}
    /\ kb = [pvc |-> FALSE, cm |-> FALSE, secret |-> "none"]
    /\ pc = "off" /\ token = "none" /\ git = FALSE
    /\ head = <<>> /\ dirty = {} /\ seen = {} /\ copied = {} /\ restarts = 0
    /\ written = {} /\ landed = Edits(remote)

\* The remote takes branch b.
Land(b) == remote' = b /\ landed' = landed \cup Edits(b)

-----------------------------------------------------------------------------
(* The operator.  Its reconciles are serial: one replica, one worker.      *)

\* GitHubAppBasicAuth: the Secret is read and a token of one hour is minted,
\* or one of its many steps fails.
Mints == {TRUE} \cup (IF "transient" \in Faults THEN {FALSE} ELSE {})

\* wiki.Begin: mint a token and clone.  An empty repository has no branch
\* to clone.  A result is pushed when its run is drained, a proposal for the
\* next round before it is submitted, HYPOTHESES.md when the strategist ran.
Begin(kind, r) ==
    /\ tx.state = "idle" /\ remote # <<>>
    /\ CASE kind = "result"     -> r \in unsettled
         [] kind = "proposal"   -> r = round + 1
         [] kind = "hypotheses" -> r = round
    /\ tx' = [state |-> "cloned", kind |-> kind, round |-> r, base |-> remote]
    /\ UNCHANGED <<remote, round, unsettled, validated, kb, podVars, written,
                   landed>>

\* Without a transaction the drained result is not pushed, and the drain
\* goes on; a proposal or hypotheses wait for another reconcile.
BeginFails(r) ==
    /\ tx.state = "idle" /\ r \in unsettled
    /\ remote = <<>> \/ FALSE \in Mints
    /\ tx' = [state |-> "done", kind |-> "result", round |-> r, base |-> <<>>]
    /\ UNCHANGED <<remote, round, unsettled, validated, kb, podVars, written,
                   landed>>

TxEdit == [by |-> "operator", kind |-> tx.kind, n |-> tx.round]

\* CommitAndPush: the remote becomes what was cloned plus one commit.  With
\* nothing to commit it returns before the push.
Pushed ==
    \/ Len(tx.base) < MaxCommits /\ Land(Append(tx.base, {TxEdit}))
    \/ /\ tx.kind # "result" /\ TxEdit \in Edits(tx.base)
       /\ UNCHANGED <<remote, landed>>

PushTx ==
    /\ tx.state = "cloned"
    /\ Pushed
    /\ tx' = [tx EXCEPT !.state = "done"]
    /\ UNCHANGED <<round, unsettled, validated, kb, podVars, written>>

\* Mutant: a round goes on without its proposal.
MutTxFails ==
    /\ "transient" \in Faults
    /\ tx.state = "cloned"
    /\ Pushed \/ UNCHANGED <<remote, landed>>
    /\ tx' = [tx EXCEPT !.state = "done"]
    /\ UNCHANGED <<round, unsettled, validated, kb, podVars, written>>

\* The push fails, or its answer is lost.  The drain of a result goes on
\* (WikiSyncOK=False); a round without its proposal does not happen.
TxFails ==
    /\ "transient" \in Faults
    /\ tx.state = "cloned"
    /\ Pushed \/ UNCHANGED <<remote, landed>>
    /\ tx' = IF tx.kind = "result" THEN [tx EXCEPT !.state = "done"] ELSE Idle
    /\ UNCHANGED <<round, unsettled, validated, kb, podVars, written>>

\* The reconcile saves its status: the drained round leaves OpenRuns, the
\* proposed one is submitted and enters it.
Finish ==
    /\ tx.state = "done"
    /\ tx' = Idle
    /\ CASE tx.kind = "result" ->
              unsettled' = unsettled \ {tx.round} /\ UNCHANGED round
         [] tx.kind = "proposal" ->
              round' = tx.round /\ unsettled' = unsettled \cup {tx.round}
         [] tx.kind = "hypotheses" -> UNCHANGED <<round, unsettled>>
    /\ UNCHANGED <<remote, validated, kb, podVars, written, landed>>

\* With spec.validationMode, which people set and take back, a round gets a
\* fixed config and is submitted; the wiki is not told.
Validate ==
    /\ tx.state = "idle" /\ round < RoundLimit
    /\ round' = round + 1
    /\ unsettled' = unsettled \cup {round + 1}
    /\ validated' = validated \cup {round + 1}
    /\ UNCHANGED <<remote, tx, kb, podVars, written, landed>>

\* The operator stops, or the status update is refused.
Crash ==
    /\ "crash" \in Faults
    /\ tx.state # "idle"
    /\ tx' = Idle
    /\ UNCHANGED <<remote, round, unsettled, validated, kb, podVars, written,
                   landed>>

\* One pass of the KnowledgeBase reconciler.  The ConfigMap and the token
\* are best effort: the pass goes on without them.
ReconcileKB ==
    /\ \E ok \in BOOLEAN, minted \in Mints :
          /\ ok \/ "transient" \in Faults
          /\ kb' = [pvc |-> TRUE, cm |-> kb.cm \/ ok,
                    secret |-> IF minted THEN "live" ELSE kb.secret]
    /\ kb' # kb
    /\ UNCHANGED <<remote, tx, round, unsettled, validated, podVars, written,
                   landed>>

-----------------------------------------------------------------------------
(* The sidecar                                                             *)

\* The container starts once its mounts and its Secret exist; it reads the
\* token from its environment, once.
Start ==
    /\ pc = "off"
    /\ kb.pvc /\ kb.cm /\ kb.secret # "none"
    /\ pc' = IF git THEN "scaffold" ELSE "boot"
    /\ token' = kb.secret
    /\ UNCHANGED <<remote, opVars, git, head, dirty, seen, copied, restarts,
                   written, landed>>

Reaches == token = "live"

\* What the volume holds and the remote both touch a file.
BootClash == Touched(dirty) \cap Touched(Edits(remote)) # {}

\* The first run with the remote in reach: what the volume holds already is
\* committed and rebased on the remote.  On a conflict the clone is reset to
\* the remote; the copy made first is best effort, and lies beside the mount,
\* in the file system of the container.
Bootstrap ==
    /\ pc = "boot" /\ Reaches /\ remote # <<>>
    /\ pc' = "scaffold"
    /\ git' = TRUE
    /\ dirty' = {}
    /\ seen' = {remote}
    /\ \/ /\ head' = IF dirty = {} THEN remote ELSE Append(remote, dirty)
          /\ UNCHANGED copied
       \/ BootClash /\ head' = remote /\ copied' \in {copied, copied \cup dirty}
    /\ UNCHANGED <<remote, opVars, token, restarts, written, landed>>

\* ls-remote fails or finds no branch: git init is all that happens.
BootstrapEmpty ==
    /\ pc = "boot"
    /\ remote = <<>> \/ ~Reaches \/ "transient" \in Faults
    /\ pc' = "scaffold" /\ git' = TRUE
    /\ UNCHANGED <<remote, opVars, token, head, dirty, seen, copied, restarts,
                   written, landed>>

\* write_if_missing for the files of the ConfigMap; those the operator
\* writes as well, log/log.md and DASHBOARD.md, stand for the others.
Scaffold ==
    /\ pc = "scaffold"
    /\ pc' = "pull"
    /\ dirty' = dirty \cup {e \in ScaffoldEdit :
                   Files(e) \cap Touched(Edits(head) \cup dirty) = {}}
    /\ UNCHANGED <<remote, opVars, token, git, head, seen, copied, restarts,
                   written, landed>>

\* git merge-base --fork-point: how much of head the remote-tracking branch
\* ever had, if that was one of its tips; else what head shares with it now.
ForkPoint(tips) ==
    LET had == {t \in tips : IsAncestor(t, head)}
        k   == Shared(head, remote)
    IN IF \E t \in had : \A s \in tips : Shared(head, s) <= Len(t)
       THEN Len(CHOOSE t \in had : \A s \in tips : Shared(head, s) <= Len(t))
       ELSE k

\* The commits of head that a rebase puts on top of the remote.
Replayed == SubSeq(head, ForkPoint(seen \cup {remote}) + 1, Len(head))

News == {i \in 1..Len(remote) : i > Shared(head, remote)}
NewEdits == UNION {remote[i] : i \in News}

\* An untracked file that the remote has too makes git refuse the pull.
Blocked ==
    (Touched(dirty) \ Touched(Edits(head))) \cap Touched(NewEdits) # {}

\* A commit to be replayed and the news of the remote touch the same file.
Clashing == Touched(Edits(Replayed)) \cap Touched(NewEdits) # {}

\* Mutant: only a fast-forward is pulled.
MutPull ==
    /\ pc = "pull" /\ Reaches /\ remote # <<>> /\ ~Blocked
    /\ IsAncestor(head, remote)
    /\ head' = remote
    /\ seen' = seen \cup {remote}
    /\ pc' = "stage"
    /\ UNCHANGED <<remote, opVars, token, git, dirty, copied, restarts,
                   written, landed>>

\* git fetch and git pull --rebase, the working tree stashed around it.  The
\* pull may still succeed where files overlap: the edits can be far apart.
\* A fetch or a pull that fails leaves all as it was until the next cycle;
\* a remote without the branch is one it fails on.
Pull ==
    /\ pc = "pull" /\ Reaches /\ remote # <<>> /\ ~Blocked
    /\ head' = remote \o Replayed
    /\ seen' = seen \cup {remote}
    /\ pc' = "stage"
    /\ UNCHANGED <<remote, opVars, token, git, dirty, copied, restarts,
                   written, landed>>

\* Mutant: a conflict is resolved for the remote.
MutPullConflict ==
    /\ pc = "pull" /\ Reaches /\ remote # <<>>
    /\ Blocked \/ Clashing
    /\ seen' = seen \cup {remote}
    /\ head' = remote /\ dirty' = {}
    /\ UNCHANGED <<remote, opVars, pc, token, git, copied, restarts, written,
                   landed>>

\* The fetch moves origin/<branch> and the pull is aborted.
PullConflict ==
    /\ pc = "pull" /\ Reaches /\ remote # <<>>
    /\ Blocked \/ Clashing
    /\ seen' = seen \cup {remote} /\ seen' # seen
    /\ UNCHANGED <<remote, opVars, pc, token, git, head, dirty, copied,
                   restarts, written, landed>>

\* Mutant: a cycle commits whether or not something is staged.
MutStage ==
    /\ pc = "stage"
    /\ Len(head) < MaxCommits
    /\ head' = Append(head, dirty) /\ dirty' = {}
    /\ pc' = "push"
    /\ UNCHANGED <<remote, opVars, token, git, seen, copied, restarts, written,
                   landed>>

\* git add -A and git commit.  With nothing staged the cycle ends without a
\* push, whatever earlier commits were never pushed.
Stage ==
    /\ pc = "stage"
    /\ IF dirty = {}
       THEN pc' = "pull" /\ UNCHANGED <<head, dirty>>
       ELSE pc' = "push" /\ head' = Append(head, dirty) /\ dirty' = {}
    /\ UNCHANGED <<remote, opVars, token, git, seen, copied, restarts, written,
                   landed>>

\* Mutant: the sidecar forces its push.
MutPush ==
    /\ pc = "push" /\ Reaches
    /\ pc' = "pull"
    /\ Land(head)
    /\ seen' = seen \cup {head}
    /\ UNCHANGED <<opVars, token, git, head, dirty, copied, restarts, written>>

\* git push, which takes a fast-forward only, and moves origin/<branch>.
Push ==
    /\ pc = "push" /\ Reaches /\ IsAncestor(remote, head)
    /\ pc' = "pull"
    /\ Land(head)
    /\ seen' = seen \cup {head}
    /\ UNCHANGED <<opVars, token, git, head, dirty, copied, restarts, written>>

\* The remote moved since the pull, or is out of reach: the commit stays.
PushFails ==
    /\ pc = "push"
    /\ ~IsAncestor(remote, head) \/ ~Reaches \/ "transient" \in Faults
    /\ pc' = "pull"
    /\ UNCHANGED <<remote, opVars, token, git, head, dirty, seen, copied,
                   restarts, written, landed>>

-----------------------------------------------------------------------------
(* The environment                                                         *)

Kinds == IF "clash" \in Faults THEN {"page", "log"} ELSE {"page"}

Unused(n) ==
    \A e \in written \cup landed : e.by \in {"agent", "human"} => e.n # n

\* An agent edits a file on the mounted volume.
AgentWrites(n) ==
    /\ kb.pvc
    /\ Unused(n)
    /\ \E kind \in Kinds :
          LET e == [by |-> "agent", kind |-> kind, n |-> n] IN
          dirty' = dirty \cup {e} /\ written' = written \cup {e}
    /\ UNCHANGED <<remote, opVars, pc, token, git, head, seen, copied,
                   restarts, landed>>

\* A human pushes a commit on top of the branch.
HumanPushes(n) ==
    /\ remote # <<>> /\ Len(remote) < MaxCommits
    /\ Unused(n)
    /\ \E kind \in Kinds :
          Land(Append(remote, {[by |-> "human", kind |-> kind, n |-> n]}))
    /\ UNCHANGED <<opVars, podVars, written>>

\* The container restarts; the volume stays, what lies beside it is gone.
Restart ==
    /\ "restart" \in Faults /\ restarts < MaxRestarts
    /\ pc # "off"
    /\ pc' = "off" /\ token' = "none" /\ restarts' = restarts + 1
    /\ copied' = {}
    /\ UNCHANGED <<remote, opVars, git, head, dirty, seen, written, landed>>

\* An hour passes: the tokens minted so far expire.
TokenExpires ==
    /\ "expiry" \in Faults
    /\ kb.secret = "live"
    /\ kb' = [kb EXCEPT !.secret = "expired"]
    /\ token' = IF token = "live" THEN "expired" ELSE token
    /\ UNCHANGED <<remote, tx, round, unsettled, validated, pc, git, head, dirty,
                   seen, copied, restarts, written, landed>>

-----------------------------------------------------------------------------
Operator ==
    \/ \E kind \in {"proposal", "result", "hypotheses"}, r \in Round :
          Begin(kind, r)
    \/ \E r \in Round : BeginFails(r)
    \/ PushTx
    \/ TxFails
    \/ Finish
    \/ Validate
    \/ Crash
    \/ ReconcileKB

Sidecar ==
    \/ Start
    \/ Bootstrap
    \/ BootstrapEmpty
    \/ Scaffold
    \/ Pull
    \/ PullConflict
    \/ Stage
    \/ Push
    \/ PushFails

Environment ==
    \/ \E n \in 1..MaxEdits : AgentWrites(n) \/ HumanPushes(n)
    \/ Restart
    \/ TokenExpires

Next == Operator \/ Sidecar \/ Environment

Spec == Init /\ [][Next]_vars

(***************************************************************************)
(* The sidecar is a shell loop with a sleep.  The KnowledgeBase reconciler *)
(* asks for no requeue; the resync of the informers (ten hours, as nothing *)
(* sets another period) calls it again, and the API server does not refuse *)
(* the ConfigMap for ever.  Pull is weakly fair: nor is the network down.  *)
(***************************************************************************)
FairSpec ==
    /\ Spec
    /\ WF_vars(ReconcileKB /\ kb'.cm)
    /\ WF_vars(Start)
    /\ WF_vars(Bootstrap \/ BootstrapEmpty)
    /\ WF_vars(Scaffold)
    /\ WF_vars(Pull)
    /\ WF_vars(Stage)
    /\ WF_vars(Push \/ PushFails)

-----------------------------------------------------------------------------
Branch == Seq(Commit)

\* Every variable stays in its type; in particular no commit is empty.
TypeOK ==
    /\ remote \in Branch /\ head \in Branch /\ seen \subseteq Branch
    /\ tx \in [state: {"idle", "cloned", "done"},
               kind: {"proposal", "result", "hypotheses"},
               round: Round, base: Branch]
    /\ round \in 0..RoundLimit
    /\ unsettled \subseteq Round /\ validated \subseteq Round
    /\ kb \in [pvc: BOOLEAN, cm: BOOLEAN, secret: {"none", "live", "expired"}]
    /\ pc \in {"off", "boot", "scaffold", "pull", "stage", "push"}
    /\ token \in {"none", "live", "expired"} /\ git \in BOOLEAN
    /\ dirty \subseteq AgentEdit \cup ScaffoldEdit
    /\ copied \subseteq AgentEdit \cup ScaffoldEdit
    /\ restarts \in 0..MaxRestarts
    /\ written \subseteq AgentEdit /\ landed \subseteq Edit

OperatorEdits(branch) == Edits(branch) \cap OpEdit

\* What the operator records (a proposal, a result, hypotheses) never leaves
\* the branch again, although its own push is forced and the sidecar rebases:
\* the search history is read from there.
OperatorRecordsKept ==
    [][OperatorEdits(remote) \subseteq OperatorEdits(remote')]_vars

\* A result on the wiki has the proposal it belongs to beside it, or its round
\* was submitted in validation mode, which pushes no proposal but lets the
\* drain push the result.  The history loader drops a result without proposal,
\* and the measurement with it.
ResultHasProposal ==
    \A r \in Round :
        [by |-> "operator", kind |-> "result", n |-> r] \in Edits(remote)
        => \/ [by |-> "operator", kind |-> "proposal", n |-> r] \in Edits(remote)
           \/ r \in validated

\* What the volume holds: commits and the working tree.
OnVolume == Edits(head) \cup dirty

\* What is on the volume and never was on the remote stays on the volume:
\* neither a pull, a conflict, a refused push, a forced push of the operator
\* nor a restart takes it away.  The one exception is the reset of the
\* bootstrap, when the files the volume has already clash with the remote.
UnpushedKept ==
    [][\/ OnVolume \ landed \subseteq OnVolume'
       \/ ~git /\ git' /\ BootClash]_vars

\* Again and again the volume the agents read has every record of the
\* operator, whatever is pushed meanwhile.  Exceptions: the token of the running
\* container has expired, which the code says cannot be (TokenNeverExpires),
\* and a conflict, for which somebody has to step in.
RecordsReachVolume ==
    []<>(\/ OperatorEdits(remote) \subseteq Edits(head)
         \/ token = "expired"
         \/ Blocked \/ Clashing)

-----------------------------------------------------------------------------
(* What the repository says and the code does not do; the README says why. *)

\* "so the token never expires from the sidecar's perspective"
TokenNeverExpires == token # "expired"

\* "resetting to remote (preserving local in $WIKI_DIR.local-conflict)": what
\* never reached the remote is on the volume or in the copy.
LocalPreserved == written \ landed \subseteq OnVolume \cup copied

\* "agent's local state on the PVC is preserved": a pull never takes an edit
\* of an agent out of the volume.
PullPreserves ==
    [][pc = "pull" =>
       Edits(head) \cap AgentEdit \subseteq Edits(head') \cup dirty']_vars

\* "remote is empty; will create initial commit on first sync cycle".
EmptyRemoteGetsCommit == <>(remote # <<>>)
=============================================================================
