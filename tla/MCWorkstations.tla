---- MODULE MCWorkstations ----
(***************************************************************************)
(* Small instances of Workstations: specs that share a profile, a channel  *)
(* or nothing, with and without a schedule, or disagree about a server.    *)
(***************************************************************************)
EXTENDS Workstations
CONSTANTS g1, g2, j1, byHand
One == [gw |-> g1, profile |-> "p", channel |-> {"c"},
        jobs |-> {[name |-> j1, text |-> "t"]}, servers |-> {[name |-> "s", cfg |-> "x"]}]
Other == [gw |-> g1, profile |-> "p", channel |-> {"c"}, jobs |-> {},
          servers |-> {}]
Moved == [One EXCEPT !.gw = g2, !.profile = "q", !.channel = {}]
Specs == {One, Other, Moved}
Rival == [Other EXCEPT !.servers = {[name |-> "s", cfg |-> "y"]}]
Small == {One, Rival}
AnyJob == CronJob
=============================================================================
