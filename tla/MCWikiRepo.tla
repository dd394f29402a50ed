---- MODULE MCWikiRepo ----
(***************************************************************************)
(* Small instances of WikiRepo.                                            *)
(***************************************************************************)
EXTENDS WikiRepo
AllFaults == FaultClass
=============================================================================
