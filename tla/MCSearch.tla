---- MODULE MCSearch ----
(***************************************************************************)
(* Small instances of Search.  The adjustment of Numbers narrows a range,  *)
(* widens it past its end, asks for another step and for a logarithmic     *)
(* scale over 0; those of Replacing invert a range and take choices away.  *)
(***************************************************************************)
EXTENDS Search
QLoRASpace ==
    [int |-> [low |-> 2, high |-> 3, step |-> 2],
     float |-> [low |-> 0, high |-> 0, log |-> FALSE],
     choice |-> {"none", "cpu"}]
Keep == [low |-> Omitted, high |-> Omitted, step |-> Omitted, log |-> Omitted]
Shift == [int |-> [Keep EXCEPT !.low = 3, !.high = 4, !.step = 1],
          float |-> [Keep EXCEPT !.high = 2, !.log = TRUE], choice |-> {}]
Invert == [Shift EXCEPT !.int.low = 4, !.float.high = -1]
Numbers == {Shift}
Replacing == {[Invert EXCEPT !.choice = {"cpu"}], [Invert EXCEPT !.choice = {"disk"}]}
=============================================================================
