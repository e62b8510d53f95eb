------------------------------ MODULE RunLedger ------------------------------
(***************************************************************************)
(* What one data root promises about the life of its runs, whoever writes  *)
(* to it and whatever fails: a run is begun once, sealed with a manifest   *)
(* once, never unsealed, and only a sealed run can be what the cache       *)
(* serves.  EvidenceStore implements it, and so does UrlJob.               *)
(***************************************************************************)
CONSTANTS Runs, None

VARIABLES
  life,    (* of each run: "absent", "open" or "sealed"                      *)
  served   (* the run the cache index names, or None                         *)

ledgerVars == <<life, served>>

LedgerInit ==
  /\ life = [r \in Runs |-> "absent"]
  /\ served = None

Open(r) ==
  /\ life[r] = "absent"
  /\ life' = [life EXCEPT ![r] = "open"]
  /\ UNCHANGED served

Seal(r) ==
  /\ life[r] = "open"
  /\ life' = [life EXCEPT ![r] = "sealed"]
  /\ UNCHANGED served

Serve(r) ==
  /\ life[r] = "sealed"
  /\ served' = r
  /\ UNCHANGED life

LedgerNext == \E r \in Runs : Open(r) \/ Seal(r) \/ Serve(r)

LedgerSpec == LedgerInit /\ [][LedgerNext]_ledgerVars

=============================================================================
