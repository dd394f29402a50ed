-------------------------- MODULE MCModelConnections --------------------------
(***************************************************************************)
(* A small instance of ModelConnections.                                   *)
(***************************************************************************)
EXTENDS ModelConnections, TLC

Names == {"ann", "Ann", "default/staff", "staff"}
Lowers == [n \in Names |-> IF n = "Ann" THEN "ann" ELSE n]
Lasts == [n \in Names |-> IF n = "default/staff" THEN "staff" ELSE n]

To(users, groups) == [users |-> users, groups |-> groups]
Is(kind, url, access) ==
    [kind |-> kind, url |-> url, models |-> TRUE, keyed |-> TRUE, access |-> access]

\* An endpoint for Ann or for the staff, and a subscription for the staff.
Specs == {Is("endpoint", TRUE, To(<<"Ann">>, <<>>)),
          Is("endpoint", TRUE, To(<<>>, <<"staff">>)),
          Is("subscription", FALSE, To(<<>>, <<"staff">>))}

Seat(user, groups) == [user |-> user, groups |-> groups]

\* The platform's namespace that becomes Ann's, or was; a seat of the staff.
Seats == ("home" :> {Seat(Absent, Absent), Seat("ann", Absent)})
         @@ ("seat" :> {Seat(Empty, {"default/staff"})})

Brains == {[ref |-> TRUE, named |-> FALSE], [ref |-> FALSE, named |-> TRUE]}

Hands == {Nothing,
          [labelled |-> TRUE,
           face |-> [kind |-> "endpoint", models |-> FALSE,
                     access |-> To(<<>>, <<>>), by |-> "Ann"]]}
===============================================================================
