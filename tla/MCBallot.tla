------------------------------ MODULE MCBallot ------------------------------
(***************************************************************************)
(* Every rule with up to five voters.  The percentages lie on, just below  *)
(* and between the multiples that five and fewer voters can reach; a count *)
(* may exceed the number of voters.                                        *)
(***************************************************************************)
EXTENDS Ballot

CONSTANTS MaxVoters, Percents, MaxCount

Rules == [type : {"all", "any", "majority"}, value : {0}]
           \cup [type : {"percent"}, value : Percents]
           \cup [type : {"count"}, value : 1..MaxCount]

MCInit == /\ rule \in Rules
          /\ left \in 1..MaxVoters
          /\ BInit

MCSpec == MCInit /\ [][BNext]_bvars
=============================================================================
