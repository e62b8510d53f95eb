---------------------------- MODULE EvidenceStore ----------------------------
(***************************************************************************)
(* The evidence store of src/src/storage.mjs: one data root, seen through  *)
(* one request fingerprint.  Every public operation is a chain of awaits,  *)
(* so the operations of several writers (the URL pipeline and the          *)
(* interruption guard of one process, or two processes on one root)        *)
(* interleave between them.  Each writer has at most one operation in      *)
(* flight; an atomic write passes through                                  *)
(*                                                                         *)
(*      "check"   the caller has validated its input;                      *)
(*      "rename"  the immutability check has passed and the temporary file *)
(*                is flushed: only the rename is left,                     *)
(*                                                                         *)
(* and a journal append through "append".  Any step can fail or be cut     *)
(* short by the death of the process.                                      *)
(*                                                                         *)
(* The SHA-256 of a manifest file is modelled by the manifest itself, and  *)
(* the content of an object by its name: both hashes are injective.        *)
(***************************************************************************)
EXTENDS FiniteSets

CONSTANTS
  Runs,          (* run identifiers, one per invocation of beginRun          *)
  Objects,       (* object contents, one per distinct body                   *)
  Writers,       (* chains of awaits that call the store                     *)
  Submissions,   (* the manifests callers try to commit                      *)
  Lines,         (* the sets of hashes that journal lines mention            *)
  ManifestName,  (* the hash of a manifest file: no object has that name     *)
  None           (* absent file or null field                                *)

Status == {"ok", "partial", "exhausted", "blocked",
           "internal_error", "output_failure", "interrupted"}

Manifest == [run: Runs, status: Status, source: Objects \cup {None},
             artifact: Objects \cup {None}, artifacts: SUBSET Objects]

CacheRecord == [run: Runs, digest: Manifest, source: Objects, artifact: Objects]

Journal == [exists: BOOLEAN, torn: BOOLEAN, refs: SUBSET (Objects \cup {ManifestName})]

Report == [incomplete: SUBSET Runs, corrupt: SUBSET Runs]

Line == [run: Runs, refs: SUBSET (Objects \cup {ManifestName})]

Output == [run: Runs, object: Objects]

Value == Runs \cup Objects \cup Manifest \cup CacheRecord \cup Report \cup Output \cup Line \cup {None}

ASSUME StoreAssumption ==
  /\ Submissions \subseteq Manifest
  /\ Lines \subseteq SUBSET (Objects \cup {ManifestName})
  /\ None \notin Objects
  /\ None \notin Manifest
  /\ None \notin CacheRecord
  /\ None \notin Report
  /\ ManifestName \notin Objects

VARIABLES
  jobs,       (* runs whose job.json is on disk                              *)
  journals,   (* attempts.ndjson of each run                                 *)
  objects,    (* objects/sha256: "absent", "intact" or "damaged"             *)
  manifests,  (* manifest.json of each run, or None                          *)
  cache,      (* the cache index entry of the fingerprint, or None           *)
  report,     (* incomplete.json, or None                                    *)
  outputs,    (* artifact each run has published to its output path, or None *)
  op          (* the operation each writer has in flight                     *)

storeVars == <<jobs, journals, objects, manifests, cache, report, outputs, op>>

disk == <<jobs, journals, objects, manifests, cache, report, outputs>>

-----------------------------------------------------------------------------
(* Operations in flight.                                                    *)

Pending(phase, file, value) == [phase |-> phase, file |-> file, value |-> value]

Idle == Pending("idle", "none", None)

File == {"none", "job", "journal", "object", "manifest", "cache", "report", "output", "line"}

Phase == {"idle", "check", "rename", "append"}

(* Files written with replaceExisting: false.                               *)
Immutable == {"job", "journal", "object", "manifest"}

Free(w) == op[w].phase = "idle"

Start(w, file, value) ==
  /\ Free(w)
  /\ op' = [op EXCEPT ![w] = Pending("check", file, value)]
  /\ UNCHANGED disk

OnDisk(file, value) ==
  CASE file = "job" -> value \in jobs
    [] file = "journal" -> journals[value].exists
    [] file = "object" -> objects[value] # "absent"
    [] file = "manifest" -> manifests[value.run] # None
    [] OTHER -> FALSE

(* The immutability check, then the flushed temporary file.  The second     *)
(* inspectSafePath discards its answer, so nothing is checked later.        *)
Stage(w) ==
  /\ op[w].phase = "check"
  /\ op[w].file \in Immutable => ~OnDisk(op[w].file, op[w].value)
  /\ op' = [op EXCEPT ![w] = Pending("rename", op[w].file, op[w].value)]
  /\ UNCHANGED disk

(* Faulty: the cleanup of the refused write unlinks the target.             *)
RefuseUnlinking(w) ==
  /\ op[w].phase = "check"
  /\ op[w].file = "manifest"
  /\ manifests[op[w].value.run] # None
  /\ manifests' = [manifests EXCEPT ![op[w].value.run] = None]
  /\ op' = [op EXCEPT ![w] = Idle]
  /\ UNCHANGED <<jobs, journals, objects, cache, report, outputs>>

(* IMMUTABLE_FILE is thrown to the caller.                                  *)
Refuse(w) ==
  /\ op[w].phase = "check"
  /\ op[w].file \in Immutable
  /\ OnDisk(op[w].file, op[w].value)
  /\ op' = [op EXCEPT ![w] = Idle]
  /\ UNCHANGED disk

(* The rename replaces whatever is at the target path by then.              *)
Rename(w) ==
  LET file == op[w].file
      value == op[w].value IN
  /\ op[w].phase = "rename"
  /\ op' = [op EXCEPT ![w] = Idle]
  /\ jobs' = IF file = "job" THEN jobs \cup {value} ELSE jobs
  /\ journals' = IF file = "journal"
                 THEN [journals EXCEPT ![value] = [exists |-> TRUE, torn |-> FALSE, refs |-> {}]]
                 ELSE journals
  /\ objects' = IF file = "object" THEN [objects EXCEPT ![value] = "intact"] ELSE objects
  /\ manifests' = IF file = "manifest" THEN [manifests EXCEPT ![value.run] = value] ELSE manifests
  /\ cache' = IF file = "cache" THEN value ELSE cache
  /\ report' = IF file = "report" THEN value ELSE report
  /\ outputs' = IF file = "output" THEN [outputs EXCEPT ![value.run] = value.object] ELSE outputs

(* An I/O error: the temporary file is unlinked and the error escapes.      *)
WriteFails(w) ==
  /\ op[w].phase \in {"check", "rename"}
  /\ op' = [op EXCEPT ![w] = Idle]
  /\ UNCHANGED disk

(* What a caller learns of: that, or an error of the chmod or of the flush  *)
(* of the directory, with the target already in place.                      *)
WriteRejects(w) == WriteFails(w) \/ Rename(w)

-----------------------------------------------------------------------------
(* beginRun: job.json and then attempts.ndjson, in a directory whose name   *)
(* is unique to this call.                                                  *)

CreateJob(w, r) ==
  /\ r \notin jobs
  /\ \A v \in Writers : ~(op[v].file = "job" /\ op[v].value = r)
  /\ Start(w, "job", r)

CreateJournal(w, r) ==
  /\ r \in jobs
  /\ ~journals[r].exists
  /\ \A v \in Writers : ~(op[v].file = "journal" /\ op[v].value = r)
  /\ Start(w, "journal", r)

-----------------------------------------------------------------------------
(* putObject: an object already stored is verified and reused.              *)

PutNew(w, r, o) ==
  /\ r \in jobs
  /\ objects[o] = "absent"
  /\ Start(w, "object", o)

PutKnown(w, r, o) ==
  /\ r \in jobs
  /\ Free(w)
  /\ objects[o] = "intact"
  /\ UNCHANGED storeVars

-----------------------------------------------------------------------------
(* appendAttempt: one line appended to the journal, then fsync.             *)

AppendAttempt(w, r, refs) ==
  /\ Free(w)
  /\ journals[r].exists
  /\ op' = [op EXCEPT ![w] = Pending("append", "line", [run |-> r, refs |-> refs])]
  /\ UNCHANGED disk

(* Faulty: the line is written over the journal.                            *)
WithOnlyLine(j, refs) == [j EXCEPT !.refs = refs]

WithLine(j, refs) == [j EXCEPT !.refs = @ \cup refs]

Torn(j) == [j EXCEPT !.torn = TRUE]

AppendLands(w) ==
  LET line == op[w].value IN
  /\ op[w].phase = "append"
  /\ op' = [op EXCEPT ![w] = Idle]
  /\ journals' = [journals EXCEPT ![line.run] = WithLine(@, line.refs)]
  /\ UNCHANGED <<jobs, objects, manifests, cache, report, outputs>>

(* The write or the flush fails: the line may be missing, whole or cut.     *)
AppendFails(w) ==
  LET line == op[w].value IN
  /\ op[w].phase = "append"
  /\ op' = [op EXCEPT ![w] = Idle]
  /\ \E j \in {journals[line.run], Torn(journals[line.run]),
               WithLine(journals[line.run], line.refs)} :
        journals' = [journals EXCEPT ![line.run] = j]
  /\ UNCHANGED <<jobs, objects, manifests, cache, report, outputs>>

-----------------------------------------------------------------------------
(* commitManifest: the job exists, every artifact hashes to its name, and   *)
(* an ok manifest selects a source and an artifact among its artifacts.     *)

(* Faulty: the artifacts are not verified.                                  *)
ManifestUnverified(m) ==
  /\ m.status = "ok" => m.source \in m.artifacts /\ m.artifact \in m.artifacts
  /\ m.source # None => m.source \in m.artifacts

ManifestValid(m) ==
  /\ \A a \in m.artifacts : objects[a] = "intact"
  /\ m.status = "ok" => m.source \in m.artifacts /\ m.artifact \in m.artifacts
  /\ m.source # None => m.source \in m.artifacts

CommitManifest(w, m) ==
  /\ m.run \in jobs
  /\ ManifestValid(m)
  /\ Start(w, "manifest", m)

(* Faulty: the record is not checked against the manifest on disk.          *)
RecordUnbound(c) ==
  LET m == c.digest IN
  /\ m.run = c.run
  /\ m.status = "ok"
  /\ ManifestValid(m)
  /\ c.source = m.source
  /\ c.artifact = m.artifact

(* commitCache: the record is checked against the manifest on disk.         *)
RecordValid(c) ==
  LET m == c.digest IN
  /\ manifests[c.run] = m
  /\ m.run = c.run
  /\ m.status = "ok"
  /\ ManifestValid(m)
  /\ m.source \in m.artifacts
  /\ m.artifact \in m.artifacts
  /\ c.source = m.source
  /\ c.artifact = m.artifact

CommitCache(w, c) ==
  /\ RecordValid(c)
  /\ Start(w, "cache", c)

(* readCache: a missing or invalid record is a miss.                        *)
CacheHit == cache # None /\ RecordValid(cache)

(* publishOutput: a replaceable file outside the protected roots.           *)
PublishOutput(w, r, o) == Start(w, "output", [run |-> r, object |-> o])

-----------------------------------------------------------------------------
(* recoverIncompleteRuns.                                                   *)

(* Faulty: a run that died before its journal was created is passed over.   *)
UnfinishedWithJournal(r) == manifests[r] = None /\ r \in jobs /\ journals[r].exists

Unfinished(r) == manifests[r] = None /\ (r \in jobs \/ journals[r].exists)

(* Every hash in the journal must name an intact object.                    *)
JournalIntact(r) ==
  /\ ~journals[r].torn
  /\ \A h \in journals[r].refs : h \in Objects /\ objects[h] = "intact"

ScanResult ==
  [incomplete |-> {r \in Runs : Unfinished(r) /\ JournalIntact(r)},
   corrupt |-> {r \in Runs : Unfinished(r) /\ ~JournalIntact(r)}]

NothingToReport == ScanResult.incomplete \cup ScanResult.corrupt = {}

Recover(w) ==
  /\ ~NothingToReport
  /\ Start(w, "report", ScanResult)

-----------------------------------------------------------------------------
(* Faults the code is written for.                                          *)

(* The process running the writers W dies: what they had in flight is lost, *)
(* except that a line being appended may have reached the disk, or part.    *)
Crash(W) ==
  LET cut == {w \in W : op[w].phase = "append"}
      appending(r) == {w \in cut : op[w].value.run = r} IN
  /\ op' = [w \in Writers |-> IF w \in W THEN Idle ELSE op[w]]
  /\ \E fate \in [cut -> {"lost", "torn", "whole"}] :
        journals' = [r \in Runs |->
          [exists |-> journals[r].exists,
           torn |-> journals[r].torn \/ \E w \in appending(r) : fate[w] = "torn",
           refs |-> journals[r].refs \cup
                      UNION {op[w].value.refs : w \in {v \in appending(r) : fate[v] = "whole"}}]]
  /\ UNCHANGED <<jobs, objects, manifests, cache, report, outputs>>

(* A stored object no longer hashes to its name.                            *)
Damage(o) ==
  /\ objects[o] = "intact"
  /\ objects' = [objects EXCEPT ![o] = "damaged"]
  /\ UNCHANGED <<jobs, journals, manifests, cache, report, outputs, op>>

-----------------------------------------------------------------------------
(* The store under arbitrary callers.                                       *)

StoreInit ==
  /\ jobs = {}
  /\ journals = [r \in Runs |-> [exists |-> FALSE, torn |-> FALSE, refs |-> {}]]
  /\ objects = [o \in Objects |-> "absent"]
  /\ manifests = [r \in Runs |-> None]
  /\ cache = None
  /\ report = None
  /\ outputs = [r \in Runs |-> None]
  /\ op = [w \in Writers |-> Idle]

CallerRecords == [run: Runs, digest: Submissions, source: Objects, artifact: Objects]

Call(w) ==
  \/ \E r \in Runs : CreateJob(w, r) \/ CreateJournal(w, r)
  \/ \E r \in Runs, o \in Objects : PutNew(w, r, o) \/ PutKnown(w, r, o) \/ PublishOutput(w, r, o)
  \/ \E r \in Runs, refs \in Lines : AppendAttempt(w, r, refs)
  \/ \E m \in Submissions : CommitManifest(w, m)
  \/ \E c \in CallerRecords : CommitCache(w, c)
  \/ Recover(w)

Progress(w) ==
  \/ Stage(w) \/ Refuse(w) \/ Rename(w) \/ WriteFails(w)
  \/ AppendLands(w) \/ AppendFails(w)

StoreNext ==
  \/ \E w \in Writers : Call(w) \/ Progress(w)
  \/ \E W \in SUBSET Writers : Crash(W)
  \/ \E o \in Objects : Damage(o)

StoreSpec == StoreInit /\ [][StoreNext]_storeVars

-----------------------------------------------------------------------------
(* Properties.                                                              *)

ValueOK(file, value) ==
  /\ file \in {"job", "journal"} => value \in Runs
  /\ file = "object" => value \in Objects
  /\ file = "manifest" => value \in Manifest
  /\ file = "cache" => value \in CacheRecord
  /\ file = "report" => value \in Report
  /\ file = "output" => value \in Output
  /\ file = "line" => value \in Line

(* The files have the shapes the store writes, and every operation in       *)
(* flight carries a value its file can hold.                                *)
TypeOK ==
  /\ jobs \subseteq Runs
  /\ journals \in [Runs -> Journal]
  /\ objects \in [Objects -> {"absent", "intact", "damaged"}]
  /\ manifests \in [Runs -> Manifest \cup {None}]
  /\ cache \in CacheRecord \cup {None}
  /\ report \in Report \cup {None}
  /\ outputs \in [Runs -> Objects \cup {None}]
  /\ op \in [Writers -> [phase: Phase, file: File, value: Value]]
  /\ \A w \in Writers : /\ ValueOK(op[w].file, op[w].value)
                        /\ (op[w].phase = "append") <=> (op[w].file = "line")
                        /\ (op[w].phase = "idle") <=> (op[w].file = "none")

Stored(m) == \A a \in m.artifacts : objects[a] # "absent"

(* A manifest on disk belongs to a run that was begun, sits in that run's   *)
(* directory, and names only objects that were stored before it: whichever  *)
(* writer dies, fails or overtakes another, a manifest never precedes its   *)
(* evidence (commitManifest verifies before it writes, and the store never  *)
(* removes an object).                                                      *)
EvidencePresent ==
  \A r \in Runs : manifests[r] # None =>
    /\ r \in jobs
    /\ manifests[r].run = r
    /\ Stored(manifests[r])

Bound(c) ==
  /\ manifests[c.run] # None
  /\ c.digest.run = c.run
  /\ c.digest.status = "ok"
  /\ {c.source, c.artifact} \subseteq c.digest.artifacts
  /\ Stored(c.digest)

(* The cache index never runs ahead of the manifests: the entry names a run *)
(* that has a manifest, and was bound to an ok manifest of that run whose   *)
(* source and artifact are stored, although the validation and the rename   *)
(* of commitCache are separate steps that other writers and crashes split.  *)
CacheBehindManifest == cache # None => Bound(cache)

(* Seen from outside, every run is begun, sealed and served in that order.  *)
Life == [r \in Runs |-> IF manifests[r] # None THEN "sealed"
                        ELSE IF r \in jobs THEN "open" ELSE "absent"]

Served == IF cache = None THEN None ELSE cache.run

Ledger == INSTANCE RunLedger WITH life <- Life, served <- Served

(* The store keeps the promise of RunLedger under arbitrary callers: the    *)
(* split writes, the refused and failed ones, crashes and damaged objects   *)
(* are all either one ledger step or invisible to it.                       *)
KeepsLedger == Ledger!LedgerSpec

(* Journals are append-only and torn journals stay torn: no second beginRun, *)
(* no append that overtakes another and no crash loses a line that was      *)
(* acknowledged or hides that one was cut, so what a recovery concludes     *)
(* from a journal stays true.                                               *)
JournalsOnlyGrow ==
  [][\A r \in Runs : journals[r].exists =>
       /\ journals'[r].exists
       /\ journals[r].torn => journals'[r].torn
       /\ journals[r].refs \subseteq journals'[r].refs]_journals

=============================================================================
