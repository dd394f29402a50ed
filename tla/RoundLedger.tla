---------------------------- MODULE RoundLedger ----------------------------
(***************************************************************************)
(* What an AutoResearchProject promises about its rounds, with no operator *)
(* in it: a ledger that opens round after round and settles each of them   *)
(* once.  One step is one write of the project's status.                   *)
(***************************************************************************)
EXTENDS Integers, FiniteSets

CONSTANTS
    RoundLimit,         \* rounds a project gets to
    MaxConcurrent       \* rounds that may be open at once

VARIABLE ledger

Rounds   == 1..RoundLimit
Settling == {"measured", "failed", "superseded"}

Entries == {"none", "open"} \cup Settling

Init == ledger = [r \in Rounds |-> "none"]

Opened(l) == {r \in Rounds : l[r] = "open"}

\* The first round that was never opened.
IsNext(r) ==
    /\ ledger[r] = "none"
    /\ \A p \in 1..(r - 1) : ledger[p] # "none"

\* Open rounds settle, and the next round opens if there is room for it.
Advance ==
    /\ ledger' \in [Rounds -> Entries]
    /\ \A r \in Rounds :
          \/ ledger'[r] = ledger[r]
          \/ ledger[r] = "open" /\ ledger'[r] \in Settling
          \/ IsNext(r) /\ ledger'[r] = "open"
    /\ Cardinality(Opened(ledger')) <= MaxConcurrent

Spec == Init /\ [][Advance]_ledger
=============================================================================
