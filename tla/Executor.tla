------------------------------ MODULE Executor ------------------------------
(***************************************************************************)
(* createProductionExecutor of src/src/core.mjs: one process, one job.  A  *)
(* job is explained, or answered from the snapshot, or sent to one of the  *)
(* commands: search, extract and crawl run here on one store, everything   *)
(* that the native adapter cannot do goes to the model route, and a url    *)
(* job is UrlJob's.  Before a command touches the store, what an earlier   *)
(* process left unfinished is reported.                                    *)
(***************************************************************************)
EXTENDS RouteLoop, SearchRun, CrawlCommand

CONSTANTS
  Earlier,     (* the run of an earlier process                              *)
  Left,        (* what earlier processes may have left of the objects        *)
  Fragile,     (* objects that may be damaged while the process runs         *)
  Health,      (* the job that asks for the snapshot                         *)
  Jobs         (* the other jobs                                             *)

(* job is the job at hand, registry the snapshot, which never changes, and  *)
(* executor where the dispatch stands: "dispatch", "recovering", a kind of  *)
(* job once its command runs, "route" or "returned".                        *)
VARIABLES executor, job, registry

dispatchVars == <<executor, job, registry>>

vars == <<dispatchVars, route, search, commandVars, storeVars>>

ASSUME ExecutorAssumption ==
  /\ Earlier \in Runs \ {Run}
  /\ Left \subseteq [Objects -> {"absent", "intact", "damaged"}]
  /\ Fragile \subseteq Objects
  /\ Jobs \subseteq Job /\ Health \notin Job

(* The store as an earlier process left it: it may have died before it      *)
(* sealed its run, and its objects may have been damaged since.             *)
ExecutorInit ==
  /\ executor = "dispatch"
  /\ job \in Jobs \cup {Health} /\ registry \in Registries
  /\ RouteInit /\ SearchInit /\ CommandInit
  /\ jobs \in {{}, {Earlier}}
  /\ journals = [r \in Runs |-> [exists |-> r \in jobs, torn |-> FALSE, refs |-> {}]]
  /\ objects \in Left
  /\ jobs = {} => \A o \in Objects : objects[o] = "absent"
  /\ manifests = [r \in Runs |-> None]
  /\ cache = None /\ report = None
  /\ outputs = [r \in Runs |-> None]
  /\ op = [w \in Writers |-> Idle]

-----------------------------------------------------------------------------
(* The dispatch.                                                            *)

NativeEligible ==
  \E i \in DOMAIN registry :
    registry[i].id = "native" /\ Planned(job, registry[i]) /\ Eligible(job, registry[i])

Local ==
  /\ job.kind \in {"url", "crawl", "extract"}
  /\ job.forced \in {Unforced, "native"}
  /\ NativeEligible

Moves(from, to) == executor = from /\ executor' = to /\ UNCHANGED <<job, registry>>

CommandsKeep == UNCHANGED <<route, search, commandVars>>

Explain ==
  /\ job # Health /\ job.explain
  /\ Moves("dispatch", "returned") /\ CommandsKeep /\ UNCHANGED storeVars

ToRoute ==
  /\ job # Health /\ ~job.explain /\ job.kind # "search" /\ ~Local
  /\ Moves("dispatch", "route") /\ StartRoute(job, registry)
  /\ UNCHANGED <<search, commandVars, storeVars>>

(* The schema of an extract is read before the store is opened.             *)
InvalidSchema ==
  /\ job # Health /\ ~job.explain /\ job.kind = "extract" /\ Local
  /\ Moves("dispatch", "returned") /\ CommandsKeep /\ UNCHANGED storeVars

UsesStore ==
  \/ job = Health
  \/ job # Health /\ ~job.explain /\ (job.kind = "search" \/ Local)

After == IF job = Health THEN "returned" ELSE job.kind

(* recoverOnce: a scan that fails never keeps the command from running.     *)
StartRecovery ==
  /\ UsesStore /\ Moves("dispatch", "recovering") /\ CommandsKeep
  /\ Recover(Main)

(* Faulty: a command may begin without a scan.                              *)
SkipRecovery ==
  /\ UsesStore /\ Moves("dispatch", After) /\ CommandsKeep
  /\ UNCHANGED storeVars

NoRecovery ==
  /\ UsesStore /\ Moves("dispatch", After) /\ CommandsKeep
  /\ NothingToReport
  /\ UNCHANGED storeVars

EndRecovery ==
  /\ CommandsKeep
  /\ \/ Moves("recovering", "recovering") /\ Stage(Main)
     \/ Moves("recovering", After) /\ Rename(Main)

RecoveryFails ==
  /\ UNCHANGED <<route, search, command, pc, page, batch, collected, draft>>
  /\ faults' = TRUE
  /\ \/ Moves("recovering", After) /\ WriteFails(Main)
     \/ UsesStore /\ Moves("dispatch", After) /\ UNCHANGED storeVars

Dispatch ==
  Explain \/ ToRoute \/ InvalidSchema \/ StartRecovery \/ NoRecovery \/ EndRecovery

-----------------------------------------------------------------------------
(* The commands.                                                            *)

RunRoute ==
  /\ executor = "route" /\ RouteStep
  /\ UNCHANGED <<dispatchVars, search, commandVars, storeVars>>

RunSearch ==
  /\ executor = "search"
  /\ StartSearch \/ SearchStep(Main, Run)
  /\ UNCHANGED <<dispatchVars, route, commandVars>>

RunCommand ==
  /\ executor \in {"extract", "crawl"}
  /\ Begin(executor) \/ CommandStep
  /\ UNCHANGED <<dispatchVars, route, search>>

SearchFaults ==
  /\ executor = "search"
  /\ StopSearch \/ SearchWriteFails(Main)
  /\ UNCHANGED <<dispatchVars, route, commandVars>>

CommandFaults ==
  /\ executor \in {"extract", "crawl"}
  /\ \/ Fault \/ Kill
     \/ ~Ended /\ UNCHANGED commandVars /\ \E o \in Fragile : Damage(o)
  /\ UNCHANGED <<dispatchVars, route, search>>

ExecutorStep == Dispatch \/ RunRoute \/ RunSearch \/ RunCommand

Over ==
  \/ executor \in {"returned", "url"}
  \/ route.pc = "done" \/ search.pc \in {"done", "threw"} \/ Ended

(* The process has exited.                                                  *)
Exited == Over /\ UNCHANGED vars

Next == ExecutorStep \/ RecoveryFails \/ SearchFaults \/ CommandFaults \/ Exited

(* The chains of awaits are run by the event loop: a chain that can go on   *)
(* does.  Nothing has to fail.                                              *)
Fairness == WF_vars(ExecutorStep)

Spec == ExecutorInit /\ [][Next]_vars /\ Fairness

-----------------------------------------------------------------------------
(* Properties.                                                              *)

(* What a run needs to be begun: the free native adapter, or a provider     *)
(* that has answered.                                                       *)
HasReason ==
  /\ job # Health /\ ~job.explain
  /\ job.kind = "search" => search.answer # <<>>
  /\ job.kind # "search" =>
       job.forced \in {Unforced, "native"} /\ \E c \in {registry[i] : i \in DOMAIN registry} :
         c.id = "native" /\ c.ready /\ c.free /\ job.kind \in c.kinds

(* core.mjs:1658: a fresh run can never mask a crashed predecessor.  A run  *)
(* is begun only for a job that the free native adapter can run, or that a  *)
(* provider has answered: an explained job, a forced engine and a search    *)
(* without a provider leave the store as it was but for the report.  And    *)
(* once it is begun, the earlier run that was never sealed is in the        *)
(* report, and the fresh run is not; unless the scan failed.                *)
PredecessorReported ==
  Run \in jobs =>
    /\ HasReason
    /\ ~faults /\ Earlier \in jobs => report # None /\ Earlier \in report.incomplete
    /\ ~faults /\ report # None => Run \notin report.incomplete \cup report.corrupt

(* The search that is run on this store keeps the promises of SearchRun.    *)
SearchHonest == SealedSearchIsHonest(Run)

(* The executor answers, whatever the adapters, the pages and the store do. *)
EveryJobEnds == <>Over

=============================================================================
