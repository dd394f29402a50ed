------------------------ MODULE MCAutoResearchLoop ------------------------
(* Instances of AutoResearchLoop small enough for TLC. *)
EXTENDS AutoResearchLoop, TLC

\* DSP picks run IDs as it likes and no property tells one configuration or
\* one version from another.
Symmetry == Permutations(RunId) \cup Permutations(Config) \cup Permutations(Version)
============================================================================
