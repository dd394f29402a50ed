---- MODULE MCSkillBindings ----
(***************************************************************************)
(* A small instance of SkillBindings.  Both workstations give their        *)
(* binding for the skill the same name, as two workstations do whose long  *)
(* names begin alike: managedSkillBindingName cuts them.                   *)
(***************************************************************************)
EXTENDS SkillBindings
CONSTANTS a1, a2, sk, u, m, v1, v2, t
Name == [p \in {a1, a2} \X {sk} |-> m]
Agents ==
    {[label |-> TRUE, refs |-> [x \in {} |-> Floating]],
     [label |-> FALSE, refs |-> [x \in {sk} |-> v1]]}
Skills == {[version |-> v1, source |-> FromMap], [version |-> v2, source |-> FromPackage]}
Grants ==
    {[skill |-> sk, pin |-> Floating, subjects |-> {a1}, selector |-> TRUE]}
=============================================================================
