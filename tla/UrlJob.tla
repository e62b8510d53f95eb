-------------------------------- MODULE UrlJob --------------------------------
(***************************************************************************)
(* The url command of src/src/core.mjs: one process per run, all of them   *)
(* on one data root and asking for one request fingerprint.  A process has *)
(* two chains of awaits that share the event loop and the run directory:   *)
(*                                                                         *)
(*   main   startup recovery, cache lookup, then either the answer from    *)
(*          the cache (finishCacheHit) or a fetch (runUrlJobLegacy);       *)
(*   guard  createInterruptionGuard, armed while the fetch is under way:   *)
(*          the first signal or the wall deadline claims it, and it then   *)
(*          appends a termination line, commits an interrupted manifest    *)
(*          and exits the process.                                         *)
(*                                                                         *)
(* The guard of the url command has nothing that stops the main chain (the *)
(* gateway has no abort method, and no signal reaches the pipeline), so    *)
(* after the claim both chains go on until the exit.  pc[r] names the      *)
(* await the main chain of run r is at.                                    *)
(*                                                                         *)
(* The attempts of one fetch are collapsed to the last one: their retries  *)
(* are modelled by NativeAttempts.                                         *)
(***************************************************************************)
EXTENDS Naturals, FiniteSets

CONSTANTS
  Runs, Objects, ManifestName, None,
  Failures,      (* terminal statuses of a fetch or of a rejected page       *)
  Modes,         (* cache modes of the jobs                                  *)
  Extracts,      (* artifacts the optional local parser produces: none where *)
                 (* it is not installed or not asked for                     *)
  ToFile,        (* whether the jobs name an output file                     *)
  MaxLive        (* processes alive at the same time                         *)

Roles == {"main", "guard"}

Actors == Runs \X Roles

VARIABLES
  jobs, journals, objects, manifests, cache, report, outputs, op,
  pc,         (* of the main chain                                           *)
  guard,      (* of the interruption guard                                   *)
  exit,       (* exit of the process, or None while it is alive              *)
  mode,       (* the cache mode of the job                                   *)
  cached,     (* the cache record found by the lookup, or None               *)
  reply,      (* what the last attempt brought                               *)
  source,     (* sourceRef                                                   *)
  artifact,   (* artifactRef                                                 *)
  draft       (* the manifest being committed                                *)

Store == INSTANCE EvidenceStore WITH Writers <- Actors, Submissions <- {}, Lines <- {}

storeVars == <<jobs, journals, objects, manifests, cache, report, outputs, op>>

memory == <<mode, cached, reply, source, artifact, draft>>

vars == <<jobs, journals, objects, manifests, cache, report, outputs, op,
          pc, guard, exit, mode, cached, reply, source, artifact, draft>>

ASSUME JobAssumption ==
  /\ Failures \subseteq Store!Status \ {"ok", "interrupted"}
  /\ Modes \subseteq {"use", "refresh", "off"}
  /\ Extracts \subseteq Objects
  /\ ToFile \in BOOLEAN
  /\ MaxLive \in Nat \ {0}

(* Absent files and the name of a manifest are told from what is stored.    *)
ASSUME NamesAssumption ==
  /\ None \notin Objects /\ ManifestName \notin Objects
  /\ None \notin {"body", "ok", "failed", "error", "interrupted", "killed"}
  /\ None \notin Store!Manifest /\ None \notin Store!CacheRecord /\ None \notin Store!Report

Main(r) == <<r, "main">>
Guard(r) == <<r, "guard">>

Live == {r \in Runs : pc[r] # "idle" /\ exit[r] = None}

(* The main chain of r moves from one await to the next.                    *)
Goto(r, from, to) == pc[r] = from /\ pc' = [pc EXCEPT ![r] = to]

Keep == UNCHANGED <<guard, exit, memory>>

-----------------------------------------------------------------------------
(* Startup: createProductionExecutor and the lookup of runUrlJobLegacy.     *)

Launch(r, m) ==
  /\ Cardinality(Live) < MaxLive
  /\ Goto(r, "idle", "recover")
  /\ mode' = [mode EXCEPT ![r] = m]
  /\ UNCHANGED <<storeVars, guard, exit, cached, reply, source, artifact, draft>>

Scan(r) ==
  /\ Goto(r, "recover", "reporting")
  /\ Store!Recover(Main(r))
  /\ Keep

ScanFindsNothing(r) ==
  /\ Goto(r, "recover", "lookup")
  /\ Store!NothingToReport
  /\ UNCHANGED storeVars
  /\ Keep

Reported(r) ==
  /\ Goto(r, "reporting", "lookup")
  /\ Store!Rename(Main(r))
  /\ Keep

(* recoverOnce swallows a scan that rejects, and a report that cannot be    *)
(* written: it returns null, and the process goes on knowing nothing of the *)
(* runs that crashed.                                                       *)
Unrecovered(r) ==
  /\ \/ Goto(r, "recover", "unrecovered") /\ UNCHANGED storeVars
     \/ Goto(r, "reporting", "unrecovered") /\ Store!WriteRejects(Main(r))
  /\ Keep

(* A hit is served without a fetch only in mode "use" and while fresh; an   *)
(* expired or refreshed hit is kept for a conditional request.              *)
LookUp(r) ==
  LET hit == mode[r] # "off" /\ Store!CacheHit IN
  /\ cached' = [cached EXCEPT ![r] = IF hit THEN cache ELSE None]
  /\ \E from \in {"lookup", "unrecovered"},
        plan \in IF hit /\ mode[r] = "use" THEN {"beginHit", "beginFetch"} ELSE {"beginFetch"} :
        Goto(r, from, plan)
  /\ UNCHANGED <<storeVars, guard, exit, mode, reply, source, artifact, draft>>

(* beginRun, on either path: the four awaits are named by the caller.       *)
Begin(r, begin, job, opened, journal) ==
  \/ /\ Goto(r, begin, job)
     /\ Store!CreateJob(Main(r), r)
     /\ Keep
  \/ /\ Goto(r, job, opened)
     /\ Store!Rename(Main(r))
     /\ Keep
  \/ /\ Goto(r, opened, journal)
     /\ Store!CreateJournal(Main(r), r)
     /\ Keep

(* The hit path goes on; the fetch path installs the guard first.           *)
BegunHit(r) ==
  /\ Goto(r, "journalHit", "serve")
  /\ Store!Rename(Main(r))
  /\ Keep

BegunFetch(r) ==
  /\ Goto(r, "journalFetch", "attempt")
  /\ Store!Rename(Main(r))
  /\ guard' = [guard EXCEPT ![r] = "armed"]
  /\ UNCHANGED <<exit, memory>>

-----------------------------------------------------------------------------
(* Manifests.                                                               *)

ManifestOf(r, status, src, art, arts) ==
  [run |-> r, status |-> status, source |-> src, artifact |-> art, artifacts |-> arts]

Present(o) == {o} \ {None}

(* The next manifest of r to commit, from pc "from".                        *)
Draft(r, from, m) ==
  /\ Goto(r, from, "seal")
  /\ draft' = [draft EXCEPT ![r] = m]
  /\ UNCHANGED <<storeVars, guard, exit, mode, cached, reply, source, artifact>>

(* finishCacheHit and a 304: the cached evidence under this run's name.     *)
Reuse(r) == ManifestOf(r, "ok", cached[r].source, cached[r].artifact, cached[r].digest.artifacts)

ServeHit(r) ==
  /\ Goto(r, "serve", "serving")
  /\ Store!AppendAttempt(Main(r), r, {cached[r].source, ManifestName})
  /\ Keep

HitLogged(r) ==
  /\ Goto(r, "serving", "served")
  /\ Store!AppendLands(Main(r))
  /\ Keep

DraftHit(r) == Draft(r, "served", Reuse(r))

-----------------------------------------------------------------------------
(* The fetch: runNativeAttempts with the callbacks of runUrlJobLegacy.      *)

Attempt(r) ==
  \/ /\ Goto(r, "attempt", "starting")
     /\ Store!AppendAttempt(Main(r), r, {})
     /\ Keep
  \/ /\ Goto(r, "starting", "fetching")
     /\ Store!AppendLands(Main(r))
     /\ Keep

Answer(r, what, src) ==
  /\ reply' = [reply EXCEPT ![r] = what]
  /\ source' = [source EXCEPT ![r] = src]
  /\ UNCHANGED <<guard, exit, mode, cached, artifact, draft>>

FetchEmpty(r) ==
  /\ \E what \in {"failure", "notModified"} : Answer(r, what, None)
  /\ Goto(r, "fetching", "finish")
  /\ UNCHANGED storeVars

(* A body is stored before the line that mentions it, unless it is known.   *)
FetchKnown(r, o) ==
  /\ Store!PutKnown(Main(r), r, o)
  /\ Answer(r, "body", o)
  /\ Goto(r, "fetching", "finish")

(* Faulty: the body is not stored before the line that mentions it.         *)
FetchUnstored(r, o) ==
  /\ Store!Free(Main(r))
  /\ Answer(r, "body", o)
  /\ Goto(r, "fetching", "finish")
  /\ UNCHANGED storeVars

FetchNew(r, o) ==
  /\ Goto(r, "fetching", "storing")
  /\ Store!PutNew(Main(r), r, o)
  /\ Keep

BodyStored(r) ==
  /\ Answer(r, "body", op[Main(r)].value)
  /\ Goto(r, "storing", "finish")
  /\ Store!Rename(Main(r))

Finished(r) ==
  \/ /\ Goto(r, "finish", "finishing")
     /\ Store!AppendAttempt(Main(r), r, Present(source[r]))
     /\ Keep
  \/ /\ Goto(r, "finishing", "decide")
     /\ Store!AppendLands(Main(r))
     /\ Keep

DraftFailure(r) ==
  /\ reply[r] = "failure"
  /\ \E status \in Failures : Draft(r, "decide", ManifestOf(r, status, None, None, {}))

DraftNotModified(r) ==
  /\ reply[r] = "notModified"
  /\ Draft(r, "decide", IF cached[r] = None
                        THEN ManifestOf(r, "internal_error", None, None, {})
                        ELSE Reuse(r))

-----------------------------------------------------------------------------
(* The body: projection, acceptance, and the optional local parser.         *)

Select(r, o) ==
  /\ artifact' = [artifact EXCEPT ![r] = o]
  /\ UNCHANGED <<guard, exit, mode, cached, reply, source, draft>>

(* The raw format selects the source itself.                                *)
DeriveRaw(r) ==
  /\ reply[r] = "body"
  /\ Select(r, source[r])
  /\ Goto(r, "decide", "transform")
  /\ UNCHANGED storeVars

DeriveKnown(r, o) ==
  /\ reply[r] = "body"
  /\ Store!PutKnown(Main(r), r, o)
  /\ Select(r, o)
  /\ Goto(r, "decide", "transform")

DeriveNew(r, o) ==
  /\ reply[r] = "body"
  /\ Goto(r, "decide", "deriving")
  /\ Store!PutNew(Main(r), r, o)
  /\ Keep

Derived(r) ==
  /\ Select(r, op[Main(r)].value)
  /\ Goto(r, "deriving", "transform")
  /\ Store!Rename(Main(r))

(* Only the derivation sits in a try block: its failure, or that of its     *)
(* putObject, still commits a manifest that keeps the captured source.      *)
SourceOnly(r, status) == ManifestOf(r, status, source[r], None, {source[r]})

DeriveFails(r) ==
  /\ reply[r] = "body"
  /\ \E status \in {"output_failure", "blocked"} : Draft(r, "decide", SourceOnly(r, status))

DerivedLost(r) ==
  /\ Goto(r, "deriving", "seal")
  /\ draft' = [draft EXCEPT ![r] = SourceOnly(r, "output_failure")]
  /\ UNCHANGED <<guard, exit, mode, cached, reply, source, artifact>>

DerivedRefused(r) == Store!Refuse(Main(r)) /\ DerivedLost(r)

(* recordTransform, after the builtin, after the parser, and when the       *)
(* browser fallback is skipped although the parser was tried.               *)
Transform(r, from, via, to) ==
  \/ /\ Goto(r, from, via)
     /\ Store!AppendAttempt(Main(r), r, {})
     /\ Keep
  \/ /\ Goto(r, via, to)
     /\ Store!AppendLands(Main(r))
     /\ Keep

(* The parser helper stores its artifact through the same store.            *)
ParseKnown(r, o) ==
  /\ Goto(r, "judge", "parsed")
  /\ Select(r, o)
  /\ Store!PutKnown(Main(r), r, o)

ParseNew(r, o) ==
  /\ Goto(r, "judge", "parsing")
  /\ Store!PutNew(Main(r), r, o)
  /\ Keep

Parsed(r) ==
  /\ Goto(r, "parsing", "parsed")
  /\ Select(r, op[Main(r)].value)
  /\ Store!Rename(Main(r))

(* Neither a refused nor a failed put leaves the parser: the helper answers *)
(* BROKEN, and the run goes on as if the parser had failed.                 *)
Unparsed(r) ==
  /\ Goto(r, "parsing", "parsed")
  /\ Select(r, None)

ParseRefused(r) == Store!Refuse(Main(r)) /\ Unparsed(r)

(* The parser fails, or the browser fallback is skipped: another transform  *)
(* line, and no artifact left to select.                                    *)
NoFallback(r) ==
  /\ Goto(r, "judge", "parsed")
  /\ Select(r, None)
  /\ UNCHANGED storeVars

Accept(r) ==
  \E from \in {"judge", "rejudge"} :
     /\ artifact[r] # None
     /\ Draft(r, from, ManifestOf(r, "ok", source[r], artifact[r], {source[r], artifact[r]}))

(* The builtin projection is not listed by a rejection, the parser's is.    *)
Reject(r) ==
  \E status \in Failures :
     \/ Draft(r, "judge", SourceOnly(r, status))
     \/ \E from \in {"rejudge", "refused"} :
          Draft(r, from,
                ManifestOf(r, status, source[r], None, {source[r]} \cup Present(artifact[r])))

-----------------------------------------------------------------------------
(* Publication: manifest, then cache entry, then output file.               *)

Output == IF ToFile THEN "publish" ELSE "done"

Seal(r) ==
  \/ /\ Goto(r, "seal", "sealing")
     /\ Store!CommitManifest(Main(r), draft[r])
     /\ Keep
  \/ /\ Goto(r, "sealing", IF draft[r].status # "ok" THEN "done"
                           ELSE IF mode[r] = "off" THEN Output ELSE "index")
     /\ Store!Rename(Main(r))
     /\ Keep

RecordOf(r) == [run |-> r, digest |-> draft[r],
                source |-> draft[r].source, artifact |-> draft[r].artifact]

Index(r) ==
  \/ /\ Goto(r, "index", "indexing")
     /\ Store!CommitCache(Main(r), RecordOf(r))
     /\ Keep
  \/ /\ Goto(r, "indexing", Output)
     /\ Store!Rename(Main(r))
     /\ Keep

Publish(r) ==
  \/ /\ Goto(r, "publish", "publishing")
     /\ Store!PublishOutput(Main(r), r, draft[r].artifact)
     /\ Keep
  \/ /\ Goto(r, "publishing", "done")
     /\ Store!Rename(Main(r))
     /\ Keep

(* A validation that fails, or a write that is refused or fails, rejects    *)
(* the pipeline: nothing catches it before runCli.                          *)
Threw(r) ==
  /\ pc[r] \notin {"reporting", "deriving", "parsing"}
  /\ pc' = [pc EXCEPT ![r] = "threw"]
  /\ Keep

Rejected(r) ==
  \/ pc[r] = "seal" /\ ~Store!ManifestValid(draft[r])
  \/ pc[r] = "index" /\ ~Store!RecordValid(RecordOf(r))

Throw(r) ==
  /\ Threw(r)
  /\ Store!Refuse(Main(r)) \/ (Rejected(r) /\ UNCHANGED storeVars)

Flush(r) == Store!Stage(Main(r)) /\ UNCHANGED pc /\ Keep

-----------------------------------------------------------------------------
(* The end of a process.  Its memory is gone with it.                       *)

Die(r, code) ==
  /\ exit' = [exit EXCEPT ![r] = code]
  /\ pc' = [pc EXCEPT ![r] = "dead"]
  /\ cached' = [cached EXCEPT ![r] = None]
  /\ reply' = [reply EXCEPT ![r] = None]
  /\ source' = [source EXCEPT ![r] = None]
  /\ artifact' = [artifact EXCEPT ![r] = None]
  /\ draft' = [draft EXCEPT ![r] = None]
  /\ mode' = [mode EXCEPT ![r] = "off"]

ExitCode(r) ==
  IF pc[r] = "threw" THEN "error" ELSE IF draft[r].status = "ok" THEN "ok" ELSE "failed"

(* Faulty: the command returns although the guard has claimed the process.  *)
ReturnClaimed(r) ==
  /\ pc[r] \in {"done", "threw"}
  /\ guard' = [guard EXCEPT ![r] = "off"]
  /\ Die(r, ExitCode(r))
  /\ Store!Crash({Main(r), Guard(r)})

(* dispose detaches an unclaimed guard and the process ends with the result *)
(* of the command; once claimed, the guard has the last word.               *)
Return(r) ==
  /\ pc[r] \in {"done", "threw"}
  /\ guard[r] \in {"off", "armed"}
  /\ guard' = [guard EXCEPT ![r] = "off"]
  /\ Die(r, ExitCode(r))
  /\ UNCHANGED storeVars

(* SIGKILL, or the machine taking the process away.                         *)
Kill(r) ==
  /\ r \in Live
  /\ guard' = [guard EXCEPT ![r] = "off"]
  /\ Die(r, "killed")
  /\ Store!Crash({Main(r), Guard(r)})

-----------------------------------------------------------------------------
(* The interruption guard.                                                  *)

GuardGoto(r, from, to) ==
  /\ guard[r] = from
  /\ guard' = [guard EXCEPT ![r] = to]
  /\ UNCHANGED <<pc, exit, memory>>

(* SIGINT, SIGTERM or the wall deadline.  Only the first one claims.        *)
Interrupt(r) == GuardGoto(r, "armed", "claimed") /\ UNCHANGED storeVars

NoteTermination(r) ==
  \/ GuardGoto(r, "claimed", "noting") /\ Store!AppendAttempt(Guard(r), r, {})
  \/ /\ GuardGoto(r, "noting", "noted")
     /\ Store!AppendLands(Guard(r))

InterruptedManifest(r) == ManifestOf(r, "interrupted", source[r], None, Present(source[r]))

CommitInterrupted(r) ==
  /\ GuardGoto(r, "noted", "committing")
  /\ Store!CommitManifest(Guard(r), InterruptedManifest(r))

GuardFlush(r) ==
  Store!Stage(Guard(r)) /\ UNCHANGED <<pc, guard, exit, memory>>

(* Faulty: a refused commit leaves the guard waiting.                       *)
CommitEndsUnlessRefused(r) == GuardGoto(r, "committing", "leaving") /\ Store!Rename(Guard(r))

(* Whatever becomes of the commit, finally detaches and exits.              *)
CommitEnds(r) ==
  /\ GuardGoto(r, "committing", "leaving")
  /\ Store!Rename(Guard(r)) \/ Store!Refuse(Guard(r))

Leave(r) ==
  /\ guard[r] \in {"leaving", "leavingUnsaved"}
  /\ guard' = [guard EXCEPT ![r] = IF guard[r] = "leaving" THEN "left" ELSE "leftUnsaved"]
  /\ Die(r, "interrupted")
  /\ Store!Crash({Main(r), Guard(r)})

-----------------------------------------------------------------------------
(* Disk errors.  The startup recovery swallows those of its scan and of its *)
(* report, the derivation and the parser catch those of their artifacts,    *)
(* and the guard goes on to the exit with those of its line and of its      *)
(* manifest.                                                                *)
Fault(r) ==
  \/ Unrecovered(r)
  \/ Store!WriteRejects(Main(r)) /\ (DerivedLost(r) \/ Unparsed(r))
  \/ Threw(r) /\ (Store!WriteRejects(Main(r)) \/ Store!AppendFails(Main(r)))
  \/ GuardGoto(r, "noting", "noted") /\ Store!AppendFails(Guard(r))
  \/ GuardGoto(r, "committing", "leavingUnsaved") /\ Store!WriteRejects(Guard(r))

Init ==
  /\ Store!StoreInit
  /\ pc = [r \in Runs |-> "idle"]
  /\ guard = [r \in Runs |-> "off"]
  /\ exit = [r \in Runs |-> None]
  /\ mode = [r \in Runs |-> "off"]
  /\ cached = [r \in Runs |-> None]
  /\ reply = [r \in Runs |-> None]
  /\ source = [r \in Runs |-> None]
  /\ artifact = [r \in Runs |-> None]
  /\ draft = [r \in Runs |-> None]

MainStep(r) ==
  \/ Scan(r) \/ ScanFindsNothing(r) \/ Reported(r) \/ LookUp(r)
  \/ Begin(r, "beginHit", "jobHit", "openedHit", "journalHit") \/ BegunHit(r)
  \/ Begin(r, "beginFetch", "jobFetch", "openedFetch", "journalFetch") \/ BegunFetch(r)
  \/ ServeHit(r) \/ HitLogged(r) \/ DraftHit(r)
  \/ Attempt(r) \/ FetchEmpty(r) \/ BodyStored(r) \/ Finished(r)
  \/ DraftFailure(r) \/ DraftNotModified(r)
  \/ DeriveRaw(r) \/ Derived(r) \/ DeriveFails(r) \/ DerivedRefused(r)
  \/ \E o \in Objects : \/ FetchKnown(r, o) \/ FetchNew(r, o)
                        \/ DeriveKnown(r, o) \/ DeriveNew(r, o)
  \/ \E o \in Extracts : ParseKnown(r, o) \/ ParseNew(r, o)
  \/ Transform(r, "transform", "transforming", "judge")
  \/ Parsed(r) \/ ParseRefused(r) \/ NoFallback(r)
  \/ Transform(r, "parsed", "reparsed", "rejudge")
  \/ Transform(r, "rejudge", "skipping", "refused")
  \/ Accept(r) \/ Reject(r)
  \/ Seal(r) \/ Index(r) \/ Publish(r) \/ Throw(r) \/ Flush(r)
  \/ Return(r)

GuardStep(r) ==
  NoteTermination(r) \/ CommitInterrupted(r) \/ GuardFlush(r) \/ CommitEnds(r) \/ Leave(r)

Next ==
  \E r \in Runs :
     \/ \E m \in Modes : Launch(r, m)
     \/ MainStep(r) \/ GuardStep(r) \/ Fault(r) \/ Interrupt(r) \/ Kill(r)

(* Every await settles: disk operations return, the fetch is bounded by its *)
(* attempt timer and the parser by its own.  The event loop of a live       *)
(* process therefore always has one of the two chains to resume, and needs  *)
(* no disk error for that.                                                  *)
Fairness == \A r \in Runs : WF_vars(MainStep(r) \/ GuardStep(r))

Spec == Init /\ [][Next]_vars

FairSpec == Spec /\ Fairness

-----------------------------------------------------------------------------
(* Properties.                                                              *)

UrlTypeOK ==
  /\ Store!TypeOK
  /\ exit \in [Runs -> {None, "ok", "failed", "error", "interrupted", "killed"}]
  /\ mode \in [Runs -> {"use", "refresh", "off"}]
  /\ cached \in [Runs -> Store!CacheRecord \cup {None}]
  /\ reply \in [Runs -> {None, "failure", "notModified", "body"}]
  /\ source \in [Runs -> Objects \cup {None}]
  /\ artifact \in [Runs -> Objects \cup {None}]
  /\ draft \in [Runs -> Store!Manifest \cup {None}]

(* A journal never speaks of evidence that is not stored: a body is put in  *)
(* the store before the attempt_finished line that carries its hash, so a   *)
(* crash between the two leaves an unreferenced object and never a dangling *)
(* hash for the recovery to trip over.                                      *)
JournalBehindObjects ==
  \A r \in Runs : \A h \in journals[r].refs : h \in Objects => objects[h] # "absent"

(* The exit and the files agree: a process that reports success left an ok  *)
(* manifest, and the output it was asked for; one that reports a failure    *)
(* left a manifest that says so, never the guard's; and an interrupted exit *)
(* leaves a manifest behind, the guard's or the one the pipeline got in     *)
(* first, unless the disk itself refused the guard's write.                 *)
ExitMatchesManifest ==
  /\ UrlTypeOK
  /\ \A r \in Runs :
       /\ exit[r] \in {"ok", "failed"} => manifests[r] # None
       /\ exit[r] = "ok" => /\ manifests[r].status = "ok"
                            /\ ToFile => outputs[r] = manifests[r].artifact
       /\ exit[r] = "failed" => manifests[r].status \notin {"ok", "interrupted"}
       /\ guard[r] = "left" => manifests[r] # None

(* A recovery that returns leaves no crash out: the report that lands names *)
(* every run that had begun and died unsealed, though the scan and the      *)
(* write are different steps, and a process goes on without a report only   *)
(* if there was none, or if the scan or the write failed: that one is told  *)
(* of no recovery and says nothing of crashes.  Only with one process at a  *)
(* time: a run of another process can die between the two.                  *)
Crashed == {q \in jobs : exit[q] # None /\ manifests[q] = None}

Named(found) == found.incomplete \cup found.corrupt

ReportNamesEveryCrash ==
  [][/\ report' # report => Crashed \subseteq Named(report')
     /\ \A r \in Runs : pc[r] # "lookup" /\ pc'[r] = "lookup" =>
          IF pc[r] = "reporting" THEN Crashed \subseteq Named(report') ELSE Crashed = {}
    ]_<<report, pc>>

(* The processes of the url command, their guards and their deaths keep the *)
(* promise of RunLedger: a run is begun once, sealed once and only then     *)
(* served, whichever chain of whichever process does it.                    *)
JobsKeepLedger == Store!KeepsLedger

(* Every process that is launched ends: no refusal, failure or lost race    *)
(* between the pipeline and the guard leaves either waiting.                *)
EveryProcessEnds == \A r \in Runs : pc[r] = "recover" ~> exit[r] # None

(* core.mjs:31-32: the guard "commits exactly one interrupted manifest      *)
(* (never a cache record)", so the cache index never names a run that was   *)
(* interrupted.                                                             *)
InterruptedNeverCached ==
  \A r \in Runs : exit[r] = "interrupted" => (cache = None \/ cache.run # r)

(* recovery.test.mjs: "the killed run must be reported as incomplete", with *)
(* corruption reserved for broken journals.  Here no object is ever damaged *)
(* or missing, so only a torn line may make a run corrupt.                  *)
CorruptMeansTorn ==
  report # None => \A r \in report.corrupt : journals[r].torn

=============================================================================
