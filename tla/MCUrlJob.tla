------------------------------- MODULE MCUrlJob -------------------------------
(***************************************************************************)
(* Small instances of UrlJob.                                              *)
(***************************************************************************)
EXTENDS UrlJob, TLC

CONSTANTS r1, r2, r3, a, b

MCObjects == {a, b}
MCOneRun == {r1}
MCTwoRuns == {r1, r2}
MCThreeRuns == {r1, r2, r3}
MCOneObject == {a}
MCModes == {"use", "refresh", "off"}
MCUse == {"use"}
MCNoExtracts == {}
MCNoFailures == {}
MCFailures == {"exhausted"}

(* One process may use every cache mode and the parser.  Two at once use    *)
(* the cache; they leave recovery reports to the instance with two          *)
(* processes in turn, only one of them is cut short, and the parser of one  *)
(* stores its artifact only beside the body of the other.                   *)
MCLaunched == {r \in Runs : pc[r] # "idle"}

MCCutShort ==
  {r \in Runs : guard[r] \notin {"off", "armed"} \/ exit[r] \in {"interrupted", "killed"}}

MCOneOrTwo ==
  \/ Cardinality(MCLaunched) <= 1
  \/ /\ \A r \in MCLaunched : mode[r] = "use" /\ pc[r] \notin {"reporting", "unrecovered"}
     /\ Cardinality(MCCutShort) <= 1
     /\ \A r, q \in MCLaunched : pc[r] = "parsing" /\ q # r =>
          pc[q] \in {"storing", "finish"} /\ MCCutShort = {}

(* A short road to a killed cache hit: nobody is interrupted, and only the  *)
(* run that serves a hit may be killed.                                     *)
MCKilledHit ==
  /\ \A r \in Runs : guard[r] # "claimed"
  /\ exit[r1] \in {None, "ok"}
  /\ pc[r1] \in {"idle", "threw"} => pc[r2] = "idle"
  /\ pc[r2] \in {"idle", "threw"} => pc[r3] = "idle"

MCSymmetry == Permutations(Runs) \cup Permutations(Objects)

=============================================================================
