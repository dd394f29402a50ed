---- MODULE MCSkillDelivery ----
(***************************************************************************)
(* A small instance of SkillDelivery.  The skill "pin" comes from a        *)
(* package pinned by digest, in a Skill of this agent, in one of another   *)
(* agent and in the platform's; "any" takes the same package without       *)
(* digest, or the ConfigMap, or a body of its own.                         *)
(***************************************************************************)
EXTENDS SkillDelivery
CONSTANTS mine, theirs, base, plain, v1, v2, t1, t2, c, u1, u2
Name == [r \in {mine, theirs, base, plain} |->
            IF r = mine THEN "mine-pin" ELSE IF r = theirs THEN "theirs-pin"
            ELSE IF r = base THEN "pin" ELSE "any"]
Label == [r \in {mine, theirs, base, plain} |->
            IF r \in {mine, theirs} THEN "pin" ELSE NoLabel]
ByName == [r \in {mine, theirs, base, plain} |->
            IF r = plain THEN 1 ELSE IF r = mine THEN 2
            ELSE IF r = base THEN 3 ELSE 4]
Pinned(t) == [coord |-> c, digest |-> t]
Floats == {Pinned(Unpinned)}
Specs == [r \in {mine, theirs, base, plain} |->
    IF r = plain
    THEN {[version |-> v1, source |-> Pinned(Unpinned)],
          [version |-> v1, source |-> FromMap]}
    ELSE IF r = mine THEN {[version |-> v1, source |-> Pinned(t1)]}
    ELSE IF r = theirs THEN {[version |-> v2, source |-> t1]}
    ELSE {[version |-> v2, source |-> Pinned(t1)]}]
Refs == {[n \in {} |-> Floating], [n \in {"pin"} |-> v1],
         [n \in {"pin", "any"} |-> Floating]}
Images == {[f \in Folder |-> Nothing],
           [f \in Folder |-> IF f = "any" THEN t1 ELSE Nothing]}
Everything == {[r \in {mine, theirs, base, plain} |-> CHOOSE s \in Specs[r] :
    s.source # o] : o \in {FromMap, Pinned(Unpinned)}}
Shelf == {[k \in {c} |-> [manifest |-> Nothing,
                        files |-> [u \in {u1, u2} |-> IF u = u1 THEN t1 ELSE Nothing]]]}
=============================================================================
