---------------------------- MODULE UrlJob_proofs ----------------------------
(***************************************************************************)
(* The processes of the url command are callers of the evidence store:     *)
(* every step of a main chain, of a guard or of a death is a step of       *)
(* EvidenceStore or leaves the store alone, for any number of processes.   *)
(* What is proved of the store under arbitrary callers therefore holds of  *)
(* them, and they implement RunLedger.                                     *)
(*                                                                         *)
(* The store only takes manifests, cache records and lines of the right    *)
(* shape.  That a chain has them in hand when it needs them is Fits: what  *)
(* its memory holds at each of its awaits.                                 *)
(*                                                                         *)
(* What the store is left with is then followed run by run: Own says which *)
(* file each chain has in hand at each of its awaits, and that manifests   *)
(* and outputs of a run are only written by its own two chains.            *)
(***************************************************************************)
EXTENDS UrlJob, FiniteSetTheorems, TLAPS

Held == SUBSET (Objects \cup {ManifestName})

Data == INSTANCE EvidenceStore_proofs
          WITH Writers <- Actors, Submissions <- Store!Manifest, Lines <- Held

Serving == {"beginHit", "jobHit", "openedHit", "journalHit", "serve", "serving", "served"}

Judged == {"deriving", "transform", "transforming", "judge", "parsing",
           "parsed", "reparsed", "rejudge", "skipping", "refused"}

Saved == {"index", "indexing", "publish", "publishing"}

Putting == {"storing", "deriving", "parsing"}

(* At its awaits, what a chain may use is there.                            *)
Ready(r, at) ==
  /\ at \in Serving => cached[r] # None
  /\ at \in Judged => reply[r] = "body"
  /\ at \in {"seal", "sealing"} \cup Saved => draft[r] # None
  /\ at \in {"sealing"} \cup Saved /\ draft[r].status = "ok" => draft[r].artifact # None
  /\ at \in Saved => draft[r].status = "ok"

Fits(r) ==
  /\ Ready(r, pc[r])
  /\ reply[r] = "body" => source[r] # None
  /\ pc[r] \in Putting => op[Main(r)].file = "object"

Memory ==
  /\ pc = [r \in Runs |-> pc[r]]
  /\ cached \in [Runs -> Store!CacheRecord \cup {None}]
  /\ reply \in [Runs -> {None, "failure", "notModified", "body"}]
  /\ source \in [Runs -> Objects \cup {None}]
  /\ artifact \in [Runs -> Objects \cup {None}]
  /\ draft \in [Runs -> Store!Manifest \cup {None}]

JInv == Data!TypeOK /\ Memory /\ \A r \in Runs : Fits(r)

(* Nothing of another writer's operation, or of another process.            *)
Touch(w) == \A v \in Actors \ {w} : op'[v] = op[v]

Elsewhere(r) ==
  \A q \in Runs \ {r} :
    /\ pc'[q] = pc[q] /\ cached'[q] = cached[q] /\ reply'[q] = reply[q]
    /\ source'[q] = source[q] /\ draft'[q] = draft[q] /\ op'[Main(q)] = op[Main(q)]

(* A step of the processes that is one of the store, or none.               *)
Simulates(r) ==
  /\ Data!StoreNext \/ UNCHANGED storeVars
  /\ Elsewhere(r) /\ Memory' /\ Fits(r)'

-----------------------------------------------------------------------------
LEMMA Names == Data!StoreAssumption
BY NamesAssumption DEF Data!StoreAssumption, Held, Store!Manifest, Data!Manifest, Store!Status,
   Data!Status, Store!CacheRecord, Data!CacheRecord, Store!Report, Data!Report

LEMMA SameShapes ==
  /\ Data!Manifest = Store!Manifest /\ Data!CacheRecord = Store!CacheRecord
BY DEF Data!Manifest, Store!Manifest, Data!Status, Store!Status, Data!CacheRecord, Store!CacheRecord

LEMMA Chains ==
  ASSUME NEW r \in Runs
  PROVE  /\ Main(r) \in Actors /\ Guard(r) \in Actors
         /\ \A q \in Runs : Main(q) # Guard(r)
         /\ \A q \in Runs \ {r} : Main(q) # Main(r) /\ Guard(q) # Guard(r)
BY DEF Main, Guard, Actors, Roles

(* The operations the chains call are those of the store.                   *)
LEMMA Writes ==
  ASSUME NEW w \in Actors, Data!TypeOK,
         \/ Store!Stage(w) \/ Store!Refuse(w) \/ Store!Rename(w) \/ Store!WriteFails(w)
         \/ Store!AppendLands(w) \/ Store!AppendFails(w)
  PROVE  Data!StoreNext /\ Touch(w)
<1>1. /\ Store!Stage(w) => Data!Stage(w)
      /\ Store!Refuse(w) => Data!Refuse(w)
  BY DEF Store!Stage, Data!Stage, Store!Refuse, Data!Refuse, Store!OnDisk, Data!OnDisk, Store!disk,
         Data!disk, Store!Immutable, Data!Immutable, Store!Pending, Data!Pending, Store!Idle, Data!Idle
<1>2. /\ Store!Rename(w) => Data!Rename(w)
      /\ Store!WriteFails(w) => Data!WriteFails(w)
  BY DEF Store!Rename, Data!Rename, Store!WriteFails, Data!WriteFails, Store!disk, Data!disk,
         Store!Pending, Data!Pending, Store!Idle, Data!Idle
<1>3. /\ Store!AppendLands(w) => Data!AppendLands(w)
      /\ Store!AppendFails(w) => Data!AppendFails(w)
  BY DEF Store!AppendLands, Data!AppendLands, Store!AppendFails, Data!AppendFails, Store!WithLine,
         Data!WithLine, Store!Torn, Data!Torn, Store!Pending, Data!Pending, Store!Idle, Data!Idle
<1>4. Data!StoreNext
  BY <1>1, <1>2, <1>3 DEF Data!StoreNext, Data!Progress
<1>5. Touch(w)
  BY DEF Touch, Data!TypeOK, Store!Stage, Store!Refuse, Store!Rename, Store!WriteFails,
         Store!AppendLands, Store!AppendFails
<1> QED
  BY <1>4, <1>5

LEMMA Calls ==
  ASSUME NEW w \in Actors, Data!TypeOK,
         \/ Store!Recover(w)
         \/ \E r \in Runs : Store!CreateJob(w, r) \/ Store!CreateJournal(w, r)
         \/ \E r \in Runs, o \in Objects :
              Store!PutNew(w, r, o) \/ Store!PutKnown(w, r, o) \/ Store!PublishOutput(w, r, o)
         \/ \E r \in Runs, refs \in Held : Store!AppendAttempt(w, r, refs)
         \/ \E m \in Store!Manifest : Store!CommitManifest(w, m)
         \/ \E c \in Data!CallerRecords : Store!CommitCache(w, c)
  PROVE  Data!StoreNext /\ Touch(w)
<1> USE DEF Store!Start, Data!Start, Store!Free, Data!Free, Store!Pending, Data!Pending,
            Store!disk, Data!disk
<1>1. Store!Recover(w) => Data!Recover(w)
  BY DEF Store!Recover, Data!Recover, Store!NothingToReport, Data!NothingToReport, Store!ScanResult,
         Data!ScanResult, Store!Unfinished, Data!Unfinished, Store!JournalIntact, Data!JournalIntact
<1>2. ASSUME NEW r \in Runs
      PROVE  /\ Store!CreateJob(w, r) => Data!CreateJob(w, r)
             /\ Store!CreateJournal(w, r) => Data!CreateJournal(w, r)
  BY DEF Store!CreateJob, Data!CreateJob, Store!CreateJournal, Data!CreateJournal
<1>3. ASSUME NEW r \in Runs, NEW o \in Objects
      PROVE  /\ Store!PutNew(w, r, o) => Data!PutNew(w, r, o)
             /\ Store!PutKnown(w, r, o) => Data!PutKnown(w, r, o)
             /\ Store!PublishOutput(w, r, o) => Data!PublishOutput(w, r, o)
  BY DEF Store!PutNew, Data!PutNew, Store!PutKnown, Data!PutKnown, Store!PublishOutput,
         Data!PublishOutput, Store!storeVars, Data!storeVars
<1>4. ASSUME NEW r \in Runs, NEW refs \in Held
      PROVE  Store!AppendAttempt(w, r, refs) => Data!AppendAttempt(w, r, refs)
  BY DEF Store!AppendAttempt, Data!AppendAttempt
<1>5. ASSUME NEW m
      PROVE  /\ Store!CommitManifest(w, m) => Data!CommitManifest(w, m)
             /\ Store!CommitCache(w, m) => Data!CommitCache(w, m)
  BY DEF Store!CommitManifest, Data!CommitManifest, Store!ManifestValid, Data!ManifestValid,
         Store!CommitCache, Data!CommitCache, Store!RecordValid, Data!RecordValid
<1>6. Data!StoreNext
  BY <1>1, <1>2, <1>3, <1>4, <1>5 DEF Data!StoreNext, Data!Call
<1>7. Touch(w)
  BY DEF Touch, Data!TypeOK, Store!Recover, Store!CreateJob, Store!CreateJournal, Store!PutNew,
         Store!PutKnown, Store!PublishOutput, Store!AppendAttempt, Store!CommitManifest,
         Store!CommitCache, Store!storeVars
<1> QED
  BY <1>6, <1>7

LEMMA Crashes ==
  ASSUME NEW r \in Runs, Data!TypeOK, Store!Crash({Main(r), Guard(r)})
  PROVE  Data!StoreNext /\ \A q \in Runs \ {r} : op'[Main(q)] = op[Main(q)]
<1>1. Data!Crash({Main(r), Guard(r)})
  BY DEF Store!Crash, Data!Crash, Store!Idle, Data!Idle, Store!Pending, Data!Pending
<1>2. {Main(r), Guard(r)} \in SUBSET Actors
  BY Chains
<1>3. \A q \in Runs \ {r} : op'[Main(q)] = op[Main(q)]
  BY Chains DEF Store!Crash
<1> QED
  BY <1>1, <1>2, <1>3 DEF Data!StoreNext

-----------------------------------------------------------------------------
(* The kinds of step a main chain takes.                                    *)

StoreStep(r) == (Data!StoreNext /\ Touch(Main(r))) \/ UNCHANGED storeVars

LEMMA OtherChains ==
  ASSUME NEW r \in Runs, StoreStep(r)
  PROVE  /\ Data!StoreNext \/ UNCHANGED storeVars
         /\ \A q \in Runs \ {r} : op'[Main(q)] = op[Main(q)]
BY Chains DEF StoreStep, Touch, storeVars

(* It only goes on.                                                         *)
LEMMA Moves ==
  ASSUME JInv, NEW r \in Runs, NEW to, pc' = [pc EXCEPT ![r] = to],
         UNCHANGED memory, StoreStep(r), Ready(r, to),
         to \in Putting => op'[Main(r)].file = "object"
  PROVE  Simulates(r)
<1>1. Memory'
  BY DEF JInv, Memory, memory
<1>2. Elsewhere(r)
  BY OtherChains DEF JInv, Memory, memory, Elsewhere
<1>3. Fits(r)'
  BY DEF JInv, Memory, memory, Fits, Ready
<1> QED
  BY <1>1, <1>2, <1>3, OtherChains DEF Simulates

(* It decides on a manifest.                                                *)
LEMMA Drafts ==
  ASSUME JInv, NEW r \in Runs, NEW m \in Store!Manifest, pc' = [pc EXCEPT ![r] = "seal"],
         draft' = [draft EXCEPT ![r] = m],
         UNCHANGED <<mode, cached, reply, source, artifact>>, StoreStep(r)
  PROVE  Simulates(r)
<1>1. Memory' /\ m # None
  BY NamesAssumption DEF JInv, Memory
<1>2. Elsewhere(r)
  BY OtherChains DEF JInv, Memory, Elsewhere
<1>3. pc'[r] = "seal" /\ draft'[r] = m
  BY DEF JInv, Memory
<1>4. Fits(r)'
  BY <1>1, <1>3 DEF JInv, Fits, Ready, Serving, Judged, Saved, Putting
<1> QED
  BY <1>1, <1>2, <1>4, OtherChains DEF Simulates

(* It has an artifact, or has lost it.                                      *)
LEMMA Selects ==
  ASSUME JInv, NEW r \in Runs, NEW to \in {"transform", "parsed"}, NEW o \in Objects \cup {None},
         pc' = [pc EXCEPT ![r] = to], Select(r, o), reply[r] = "body", StoreStep(r)
  PROVE  Simulates(r)
<1>1. Memory'
  BY DEF JInv, Memory, Select
<1>2. Elsewhere(r)
  BY OtherChains DEF JInv, Memory, Select, Elsewhere
<1>3. pc'[r] = to
  BY DEF JInv, Memory
<1>4. Fits(r)'
  BY <1>3 DEF JInv, Select, Fits, Ready, Serving, Judged, Saved, Putting
<1> QED
  BY <1>1, <1>2, <1>4, OtherChains DEF Simulates

(* It has its answer.                                                       *)
LEMMA Answers ==
  ASSUME JInv, NEW r \in Runs, NEW what \in {"failure", "notModified", "body"},
         NEW o \in Objects \cup {None}, what = "body" => o # None,
         pc' = [pc EXCEPT ![r] = "finish"], Answer(r, what, o), StoreStep(r)
  PROVE  Simulates(r)
<1>1. Memory'
  BY DEF JInv, Memory, Answer
<1>2. Elsewhere(r)
  BY OtherChains DEF JInv, Memory, Answer, Elsewhere
<1>3. pc'[r] = "finish" /\ reply'[r] = what /\ source'[r] = o
  BY DEF JInv, Memory, Answer
<1>4. Fits(r)'
  BY <1>3 DEF JInv, Answer, Fits, Ready, Serving, Judged, Saved, Putting
<1> QED
  BY <1>1, <1>2, <1>4, OtherChains DEF Simulates

(* Its process dies.                                                        *)
LEMMA Dies ==
  ASSUME JInv, NEW r \in Runs, NEW code, Die(r, code),
         UNCHANGED storeVars \/ Store!Crash({Main(r), Guard(r)})
  PROVE  Simulates(r)
<1>1. Memory'
  BY DEF JInv, Memory, Die
<1>2. /\ Data!StoreNext \/ UNCHANGED storeVars
      /\ \A q \in Runs \ {r} : op'[Main(q)] = op[Main(q)]
  BY Crashes DEF JInv, storeVars
<1>3. Elsewhere(r)
  BY <1>2 DEF JInv, Memory, Die, Elsewhere
<1>4. pc'[r] = "dead" /\ reply'[r] = None
  BY DEF JInv, Memory, Die
<1>5. Fits(r)'
  BY <1>4, NamesAssumption DEF JInv, Fits, Ready, Serving, Judged, Saved, Putting
<1> QED
  BY <1>1, <1>2, <1>3, <1>4, <1>5 DEF Simulates

-----------------------------------------------------------------------------
(* The steps, section by section of UrlJob.                                 *)

LEMMA Places ==
  ASSUME JInv, NEW r \in Runs
  PROVE  /\ Ready(r, pc[r]) /\ (reply[r] = "body" => source[r] \in Objects)
         /\ pc[r] \in Putting => op[Main(r)].file = "object" /\ op[Main(r)].value \in Objects
         /\ cached[r] # None => cached[r] \in Store!CacheRecord
         /\ draft[r] # None => draft[r] \in Store!Manifest
         /\ source[r] \in Objects \cup {None} /\ artifact[r] \in Objects \cup {None}
<1>1. /\ Data!ValueOK(op[Main(r)].file, op[Main(r)].value) /\ Fits(r)
      /\ cached[r] \in Store!CacheRecord \cup {None} /\ draft[r] \in Store!Manifest \cup {None}
      /\ source[r] \in Objects \cup {None} /\ artifact[r] \in Objects \cup {None}
  BY Chains DEF JInv, Data!TypeOK, Memory
<1> QED
  BY <1>1 DEF Fits, Data!ValueOK

LEMMA Startup ==
  ASSUME JInv, NEW r \in Runs,
         \/ \E m \in Modes : Launch(r, m)
         \/ Scan(r) \/ ScanFindsNothing(r) \/ Reported(r)
         \/ Begin(r, "beginHit", "jobHit", "openedHit", "journalHit") \/ BegunHit(r)
         \/ Begin(r, "beginFetch", "jobFetch", "openedFetch", "journalFetch") \/ BegunFetch(r)
  PROVE  Simulates(r)
<1> USE DEF Goto
<1>1. CASE \E m \in Modes : Launch(r, m)
  <2>1. /\ pc' = [pc EXCEPT ![r] = "recover"] /\ UNCHANGED storeVars
        /\ UNCHANGED <<cached, reply, source, artifact, draft>>
    BY <1>1 DEF Launch
  <2>2. Memory' /\ Elsewhere(r)
    BY <2>1, OtherChains DEF JInv, Memory, Elsewhere, StoreStep
  <2>3. Fits(r)'
    BY <2>1 DEF JInv, Memory, Fits, Ready, Serving, Judged, Saved, Putting
  <2> QED
    BY <2>1, <2>2, <2>3 DEF Simulates
<1>2. CASE \/ Scan(r) \/ ScanFindsNothing(r) \/ Reported(r) \/ BegunFetch(r)
           \/ Begin(r, "beginFetch", "jobFetch", "openedFetch", "journalFetch")
  <2>1. StoreStep(r)
    BY <1>2, Writes, Calls, Chains DEF Scan, ScanFindsNothing, Reported, BegunFetch, Begin, StoreStep,
                                       JInv
  <2>2. /\ UNCHANGED memory
        /\ \E to \in {"reporting", "lookup", "attempt", "jobFetch", "openedFetch", "journalFetch"} :
              pc' = [pc EXCEPT ![r] = to]
    BY <1>2 DEF Scan, ScanFindsNothing, Reported, BegunFetch, Begin, Keep
  <2> QED
    BY <2>1, <2>2, Moves DEF Ready, Serving, Judged, Saved, Putting
<1>3. CASE Begin(r, "beginHit", "jobHit", "openedHit", "journalHit") \/ BegunHit(r)
  <2>1. StoreStep(r)
    BY <1>3, Writes, Calls, Chains DEF BegunHit, Begin, StoreStep, JInv
  <2>2. /\ UNCHANGED memory /\ pc[r] \in Serving
        /\ \E to \in {"serve", "jobHit", "openedHit", "journalHit"} : pc' = [pc EXCEPT ![r] = to]
    BY <1>3 DEF BegunHit, Begin, Keep, Serving
  <2>3. cached[r] # None
    BY <2>2, Places DEF Ready
  <2> QED
    BY <2>1, <2>2, <2>3, Moves DEF Ready, Serving, Judged, Saved, Putting
<1> QED
  BY <1>1, <1>2, <1>3

(* A hit is a record that is there.                                         *)
LEMMA LooksUp ==
  ASSUME JInv, NEW r \in Runs, LookUp(r)
  PROVE  Simulates(r)
<1>1. PICK plan \in {"beginHit", "beginFetch"} :
        /\ pc' = [pc EXCEPT ![r] = plan]
        /\ plan = "beginHit" => Store!CacheHit /\ mode[r] # "off"
  BY DEF LookUp, Goto
<1>2. /\ UNCHANGED <<storeVars, reply, source, artifact, draft>>
      /\ cached' = [cached EXCEPT ![r] = IF mode[r] # "off" /\ Store!CacheHit THEN cache ELSE None]
  BY DEF LookUp
<1>3. cache \in Store!CacheRecord \cup {None}
  BY SameShapes DEF JInv, Data!TypeOK
<1>4. Memory' /\ Elsewhere(r)
  BY <1>1, <1>2, <1>3, OtherChains DEF JInv, Memory, Elsewhere, StoreStep
<1>5. pc'[r] = plan /\ (plan = "beginHit" => cached'[r] # None)
  BY <1>1, <1>2 DEF JInv, Memory, Store!CacheHit
<1>6. Fits(r)'
  BY <1>2, <1>5 DEF JInv, Memory, Fits, Ready, Serving, Judged, Saved, Putting
<1> QED
  BY <1>2, <1>4, <1>6 DEF Simulates

LEMMA Fetching ==
  ASSUME JInv, NEW r \in Runs,
         \/ ServeHit(r) \/ HitLogged(r) \/ DraftHit(r)
         \/ Attempt(r) \/ FetchEmpty(r) \/ BodyStored(r) \/ Finished(r)
         \/ DraftFailure(r) \/ DraftNotModified(r)
         \/ \E o \in Objects : FetchKnown(r, o) \/ FetchNew(r, o)
  PROVE  Simulates(r)
<1> USE DEF Goto
<1>1. CASE ServeHit(r) \/ HitLogged(r)
  <2>1. pc[r] \in Serving /\ cached[r] # None /\ cached[r].source \in Objects
    BY <1>1, Places DEF ServeHit, HitLogged, Ready, Serving, Store!CacheRecord
  <2>2. {cached[r].source, ManifestName} \in Held
    BY <2>1 DEF Held
  <2>3. StoreStep(r)
    BY <1>1, <2>2, Writes, Calls, Chains DEF ServeHit, HitLogged, StoreStep, JInv
  <2>4. UNCHANGED memory /\ \E to \in {"serving", "served"} : pc' = [pc EXCEPT ![r] = to]
    BY <1>1 DEF ServeHit, HitLogged, Keep
  <2> QED
    BY <2>1, <2>3, <2>4, Moves DEF Ready, Serving, Judged, Saved, Putting
<1>2. ASSUME cached[r] # None PROVE Reuse(r) \in Store!Manifest
  <2>1. cached[r] \in Store!CacheRecord
    BY <1>2, Places
  <2> QED
    BY <2>1 DEF Reuse, ManifestOf, Store!CacheRecord, Store!Manifest, Store!Status
<1>3. ASSUME NEW status \in Store!Status PROVE ManifestOf(r, status, None, None, {}) \in Store!Manifest
  BY DEF ManifestOf, Store!Manifest
<1>4. CASE DraftHit(r)
  <2>1. Reuse(r) \in Store!Manifest
    BY <1>2, <1>4, Places DEF DraftHit, Draft, Ready, Serving
  <2> QED
    BY <1>4, <2>1, Drafts DEF DraftHit, Draft, StoreStep
<1>5. CASE DraftFailure(r) \/ DraftNotModified(r)
  <2>1. \E m \in Store!Manifest : Draft(r, "decide", m)
    BY <1>2, <1>3, <1>5, JobAssumption DEF DraftFailure, DraftNotModified, Store!Status
  <2> QED
    BY <2>1, Drafts DEF Draft, StoreStep
<1>6. CASE Attempt(r) \/ Finished(r)
  <2>1. {} \in Held /\ Present(source[r]) \in Held
    BY Places DEF Held, Present
  <2>2. StoreStep(r)
    BY <1>6, <2>1, Writes, Calls, Chains DEF Attempt, Finished, StoreStep, JInv
  <2>3. /\ UNCHANGED memory
        /\ \E to \in {"starting", "fetching", "finishing", "decide"} : pc' = [pc EXCEPT ![r] = to]
    BY <1>6 DEF Attempt, Finished, Keep
  <2> QED
    BY <2>2, <2>3, Moves DEF Ready, Serving, Judged, Saved, Putting
<1>7. CASE FetchEmpty(r)
  BY <1>7, Answers DEF FetchEmpty, StoreStep
<1>8. CASE \E o \in Objects : FetchKnown(r, o)
  <2>1. PICK o \in Objects : FetchKnown(r, o)
    BY <1>8
  <2>2. StoreStep(r)
    BY <2>1, Calls, Chains DEF FetchKnown, StoreStep, JInv
  <2> QED
    BY <2>1, <2>2, Answers, NamesAssumption DEF FetchKnown
<1>9. CASE \E o \in Objects : FetchNew(r, o)
  <2>1. PICK o \in Objects : FetchNew(r, o)
    BY <1>9
  <2>2. StoreStep(r)
    BY <2>1, Calls, Chains DEF FetchNew, StoreStep, JInv
  <2>3. op'[Main(r)].file = "object"
    BY <2>1, Chains DEF FetchNew, Store!PutNew, Store!Start, Store!Pending, JInv, Data!TypeOK
  <2> QED
    BY <2>1, <2>2, <2>3, Moves DEF FetchNew, Keep, Ready, Serving, Judged, Saved
<1>10. CASE BodyStored(r)
  <2>1. op[Main(r)].value \in Objects
    BY <1>10, Places DEF BodyStored, Putting
  <2>2. StoreStep(r)
    BY <1>10, Writes, Chains DEF BodyStored, StoreStep, JInv
  <2> QED
    BY <1>10, <2>1, <2>2, Answers, NamesAssumption DEF BodyStored
<1> QED
  BY <1>1, <1>4, <1>5, <1>6, <1>7, <1>8, <1>9, <1>10

(* Manifests of a body keep the source that was captured.                   *)
LEMMA BodyManifests ==
  ASSUME JInv, NEW r \in Runs, reply[r] = "body",
         NEW status \in Failures \cup {"ok", "output_failure", "blocked"}
  PROVE  /\ SourceOnly(r, status) \in Store!Manifest
         /\ ManifestOf(r, status, source[r], None, {source[r]} \cup Present(artifact[r]))
               \in Store!Manifest
         /\ artifact[r] # None =>
              ManifestOf(r, status, source[r], artifact[r], {source[r], artifact[r]}) \in Store!Manifest
<1>1. source[r] \in Objects /\ artifact[r] \in Objects \cup {None} /\ status \in Store!Status
  BY Places, JobAssumption DEF Store!Status
<1> QED
  BY <1>1 DEF SourceOnly, ManifestOf, Present, Store!Manifest

LEMMA Deriving ==
  ASSUME JInv, NEW r \in Runs,
         \/ DeriveRaw(r) \/ Derived(r) \/ DeriveFails(r) \/ DerivedRefused(r)
         \/ Store!WriteRejects(Main(r)) /\ DerivedLost(r)
         \/ \E o \in Objects : DeriveKnown(r, o) \/ DeriveNew(r, o)
  PROVE  Simulates(r)
<1> USE DEF Goto
<1>1. CASE DeriveRaw(r)
  BY <1>1, Places, Selects DEF DeriveRaw, StoreStep
<1>2. CASE Derived(r)
  <2>1. op[Main(r)].value \in Objects /\ reply[r] = "body"
    BY <1>2, Places DEF Derived, Putting, Ready, Judged
  <2>2. StoreStep(r)
    BY <1>2, Writes, Chains DEF Derived, StoreStep, JInv
  <2> QED
    BY <1>2, <2>1, <2>2, Selects DEF Derived
<1>3. CASE DeriveFails(r)
  BY <1>3, BodyManifests, Drafts DEF DeriveFails, Draft, StoreStep
<1>4. CASE DerivedRefused(r) \/ (Store!WriteRejects(Main(r)) /\ DerivedLost(r))
  <2>1. DerivedLost(r) /\ reply[r] = "body"
    BY <1>4, Places DEF DerivedRefused, DerivedLost, Ready, Judged
  <2>2. StoreStep(r)
    BY <1>4, Writes, Chains DEF DerivedRefused, Store!WriteRejects, StoreStep, JInv
  <2> QED
    BY <2>1, <2>2, BodyManifests, Drafts DEF DerivedLost
<1>5. CASE \E o \in Objects : DeriveKnown(r, o)
  <2>1. PICK o \in Objects : DeriveKnown(r, o)
    BY <1>5
  <2>2. StoreStep(r)
    BY <2>1, Calls, Chains DEF DeriveKnown, StoreStep, JInv
  <2> QED
    BY <2>1, <2>2, Selects DEF DeriveKnown
<1>6. CASE \E o \in Objects : DeriveNew(r, o)
  <2>1. PICK o \in Objects : DeriveNew(r, o)
    BY <1>6
  <2>2. StoreStep(r)
    BY <2>1, Calls, Chains DEF DeriveNew, StoreStep, JInv
  <2>3. op'[Main(r)].file = "object"
    BY <2>1, Chains DEF DeriveNew, Store!PutNew, Store!Start, Store!Pending, JInv, Data!TypeOK
  <2> QED
    BY <2>1, <2>2, <2>3, Moves DEF DeriveNew, Keep, Ready, Serving, Judged, Saved
<1> QED
  BY <1>1, <1>2, <1>3, <1>4, <1>5, <1>6

LEMMA Judging ==
  ASSUME JInv, NEW r \in Runs,
         \/ \E o \in Extracts : ParseKnown(r, o) \/ ParseNew(r, o)
         \/ Transform(r, "transform", "transforming", "judge")
         \/ Parsed(r) \/ NoFallback(r) \/ Transform(r, "parsed", "reparsed", "rejudge")
         \/ Transform(r, "rejudge", "skipping", "refused")
         \/ ParseRefused(r) \/ (Store!WriteRejects(Main(r)) /\ Unparsed(r))
         \/ Accept(r) \/ Reject(r)
  PROVE  Simulates(r)
<1> USE DEF Goto
<1>1. pc[r] \in Judged /\ reply[r] = "body"
  BY Places DEF ParseKnown, ParseNew, Transform, Parsed, ParseRefused, Unparsed, NoFallback, Accept,
                Reject, Draft, Ready, Judged
<1>2. CASE \E o \in Extracts : ParseKnown(r, o)
  <2>1. PICK o \in Objects : ParseKnown(r, o)
    BY <1>2, JobAssumption
  <2>2. StoreStep(r)
    BY <2>1, Calls, Chains DEF ParseKnown, StoreStep, JInv
  <2> QED
    BY <1>1, <2>1, <2>2, Selects DEF ParseKnown
<1>3. CASE \E o \in Extracts : ParseNew(r, o)
  <2>1. PICK o \in Objects : ParseNew(r, o)
    BY <1>3, JobAssumption
  <2>2. StoreStep(r)
    BY <2>1, Calls, Chains DEF ParseNew, StoreStep, JInv
  <2>3. op'[Main(r)].file = "object"
    BY <2>1, Chains DEF ParseNew, Store!PutNew, Store!Start, Store!Pending, JInv, Data!TypeOK
  <2> QED
    BY <1>1, <2>1, <2>2, <2>3, Moves DEF ParseNew, Keep, Ready, Serving, Judged, Saved
<1>4. CASE \/ Transform(r, "transform", "transforming", "judge")
           \/ Transform(r, "parsed", "reparsed", "rejudge")
           \/ Transform(r, "rejudge", "skipping", "refused")
  <2>1. {} \in Held
    BY DEF Held
  <2>2. StoreStep(r)
    BY <1>4, <2>1, Writes, Calls, Chains DEF Transform, StoreStep, JInv
  <2>3. /\ UNCHANGED memory
        /\ \E to \in {"transforming", "judge", "reparsed", "rejudge", "skipping", "refused"} :
              pc' = [pc EXCEPT ![r] = to]
    BY <1>4 DEF Transform, Keep
  <2> QED
    BY <1>1, <2>2, <2>3, Moves DEF Ready, Serving, Judged, Saved, Putting
<1>5. CASE Parsed(r)
  <2>1. op[Main(r)].value \in Objects
    BY <1>5, Places DEF Parsed, Putting
  <2>2. StoreStep(r)
    BY <1>5, Writes, Chains DEF Parsed, StoreStep, JInv
  <2> QED
    BY <1>1, <1>5, <2>1, <2>2, Selects DEF Parsed
<1>6. CASE NoFallback(r)
  BY <1>1, <1>6, Selects DEF NoFallback, StoreStep
<1>7. CASE Accept(r)
  BY <1>1, <1>7, BodyManifests, Drafts DEF Accept, Draft, StoreStep
<1>8. CASE Reject(r)
  BY <1>1, <1>8, BodyManifests, Drafts DEF Reject, Draft, StoreStep
<1>9. CASE ParseRefused(r) \/ (Store!WriteRejects(Main(r)) /\ Unparsed(r))
  <2>1. StoreStep(r)
    BY <1>9, Writes, Chains DEF ParseRefused, Store!WriteRejects, StoreStep, JInv
  <2> QED
    BY <1>1, <1>9, <2>1, Selects DEF ParseRefused, Unparsed
<1> QED
  BY <1>2, <1>3, <1>4, <1>5, <1>6, <1>7, <1>8, <1>9

LEMMA Publishing ==
  ASSUME JInv, NEW r \in Runs, Seal(r) \/ Index(r) \/ Publish(r)
  PROVE  Simulates(r)
<1> USE DEF Goto
<1>1. /\ pc[r] \in {"seal", "sealing"} \cup Saved /\ draft[r] \in Store!Manifest /\ Ready(r, pc[r])
      /\ UNCHANGED memory
  BY Places DEF Seal, Index, Publish, Ready, Saved, Keep
<1>2. CASE Seal(r) /\ pc[r] = "seal"
  <2>1. Store!CommitManifest(Main(r), draft[r]) /\ pc' = [pc EXCEPT ![r] = "sealing"]
    BY <1>2 DEF Seal
  <2>2. StoreStep(r)
    BY <1>1, <2>1, Calls, Chains DEF StoreStep, JInv
  <2>3. draft[r].status = "ok" => draft[r].artifact # None
    BY <1>1, <2>1, NamesAssumption DEF Store!CommitManifest, Store!ManifestValid, Store!Manifest
  <2> QED
    BY <1>1, <2>1, <2>2, <2>3, NamesAssumption, Moves DEF Ready, Serving, Judged, Saved, Putting
<1>3. CASE Seal(r) /\ pc[r] = "sealing"
  <2>1. StoreStep(r)
    BY <1>3, Writes, Chains DEF Seal, StoreStep, JInv
  <2>2. \E to \in {"done", "publish", "index"} :
          pc' = [pc EXCEPT ![r] = to] /\ (to # "done" => draft[r].status = "ok")
    BY <1>3 DEF Seal, Output
  <2> QED
    BY <1>1, <1>3, <2>1, <2>2, Moves DEF Ready, Serving, Judged, Saved, Putting
<1>4. CASE Index(r) /\ pc[r] = "index"
  <2>1. Store!CommitCache(Main(r), RecordOf(r)) /\ pc' = [pc EXCEPT ![r] = "indexing"]
    BY <1>4 DEF Index
  <2>2. draft[r].source \in Objects /\ draft[r].artifact \in Objects
    BY <1>1, <2>1 DEF Store!CommitCache, Store!RecordValid, RecordOf, Store!Manifest
  <2>3. RecordOf(r) \in Data!CallerRecords
    BY <1>1, <2>2 DEF RecordOf, Data!CallerRecords
  <2>4. StoreStep(r)
    BY <2>1, <2>3, Calls, Chains DEF StoreStep, JInv
  <2> QED
    BY <1>1, <1>4, <2>1, <2>4, Moves DEF Ready, Serving, Judged, Saved, Putting
<1>5. CASE Index(r) /\ pc[r] = "indexing"
  <2>1. StoreStep(r)
    BY <1>5, Writes, Chains DEF Index, StoreStep, JInv
  <2>2. \E to \in {"done", "publish"} : pc' = [pc EXCEPT ![r] = to]
    BY <1>5 DEF Index, Output
  <2> QED
    BY <1>1, <1>5, <2>1, <2>2, Moves DEF Ready, Serving, Judged, Saved, Putting
<1>6. CASE Publish(r)
  <2>1. draft[r].artifact \in Objects
    BY <1>1, <1>6 DEF Publish, Ready, Saved, Store!Manifest
  <2>2. StoreStep(r)
    BY <1>6, <2>1, Writes, Calls, Chains DEF Publish, StoreStep, JInv
  <2>3. pc[r] \in Saved /\ \E to \in {"done", "publishing"} : pc' = [pc EXCEPT ![r] = to]
    BY <1>6 DEF Publish, Saved
  <2> QED
    BY <1>1, <2>2, <2>3, Moves DEF Ready, Serving, Judged, Saved, Putting
<1> QED
  BY <1>2, <1>3, <1>4, <1>5, <1>6 DEF Seal, Index

(* What ends a chain, and what leaves it where it is.                       *)
LEMMA Ending ==
  ASSUME JInv, NEW r \in Runs,
         \/ Throw(r) \/ Flush(r) \/ Return(r) \/ Kill(r) \/ Leave(r)
         \/ Unrecovered(r)
         \/ Threw(r) /\ (Store!WriteRejects(Main(r)) \/ Store!AppendFails(Main(r)))
  PROVE  Simulates(r)
<1> USE DEF Goto
<1>1. CASE Return(r) \/ Kill(r) \/ Leave(r)
  BY <1>1, Dies DEF Return, Kill, Leave
<1>2. CASE Flush(r)
  <2>1. StoreStep(r)
    BY <1>2, Writes, Chains DEF Flush, StoreStep, JInv
  <2>2. op'[Main(r)].file = op[Main(r)].file
    BY <1>2, Chains DEF Flush, Store!Stage, Store!Pending, JInv, Data!TypeOK
  <2>3. pc' = [pc EXCEPT ![r] = pc[r]] /\ UNCHANGED memory
    BY <1>2 DEF Flush, Keep, JInv, Memory
  <2> QED
    BY <2>1, <2>2, <2>3, Places, Moves
<1>3. CASE \/ Throw(r)
           \/ Unrecovered(r)
           \/ Threw(r) /\ (Store!WriteRejects(Main(r)) \/ Store!AppendFails(Main(r)))
  <2>1. StoreStep(r)
    BY <1>3, Writes, Chains DEF Throw, Unrecovered, Store!WriteRejects, StoreStep, JInv
  <2>2. UNCHANGED memory /\ \E to \in {"threw", "unrecovered"} : pc' = [pc EXCEPT ![r] = to]
    BY <1>3 DEF Throw, Threw, Unrecovered, Keep
  <2> QED
    BY <2>1, <2>2, Moves DEF Ready, Serving, Judged, Saved, Putting
<1> QED
  BY <1>1, <1>2, <1>3

(* A guard changes nothing that its chain remembers.                        *)
GuardFault(r) ==
  \/ GuardGoto(r, "noting", "noted") /\ Store!AppendFails(Guard(r))
  \/ GuardGoto(r, "committing", "leavingUnsaved") /\ Store!WriteRejects(Guard(r))

LEMMA Guarding ==
  ASSUME JInv, NEW r \in Runs,
         \/ Interrupt(r) \/ NoteTermination(r) \/ CommitInterrupted(r) \/ GuardFlush(r)
         \/ CommitEnds(r) \/ GuardFault(r)
  PROVE  Simulates(r)
<1>1. UNCHANGED <<pc, memory>>
  BY DEF Interrupt, NoteTermination, CommitInterrupted, GuardFlush, CommitEnds, GuardFault, GuardGoto
<1>2. InterruptedManifest(r) \in Store!Manifest /\ {} \in Held
  <2>1. source[r] \in Objects \cup {None} /\ Present(source[r]) \subseteq Objects
    BY Places DEF Present
  <2> QED
    BY <2>1 DEF InterruptedManifest, ManifestOf, Store!Manifest, Store!Status, Held
<1>3. (Data!StoreNext /\ Touch(Guard(r))) \/ UNCHANGED storeVars
  BY <1>2, Writes, Calls, Chains DEF Interrupt, NoteTermination, CommitInterrupted, GuardFlush,
                                     CommitEnds, GuardFault, Store!WriteRejects, JInv
<1>4. \A q \in Runs : op'[Main(q)] = op[Main(q)]
  BY <1>3, Chains DEF Touch, storeVars
<1>5. Memory' /\ Elsewhere(r)
  BY <1>1, <1>4 DEF JInv, Memory, memory, Elsewhere
<1>6. Fits(r)'
  BY <1>1, <1>4 DEF JInv, Fits, Ready, memory
<1> QED
  BY <1>3, <1>5, <1>6 DEF Simulates

StepOf(r) ==
  \/ \E m \in Modes : Launch(r, m)
  \/ MainStep(r) \/ GuardStep(r) \/ Fault(r) \/ Interrupt(r) \/ Kill(r)

LEMMA Steps ==
  ASSUME JInv, NEW r \in Runs, StepOf(r)
  PROVE  Simulates(r)
<1>1. CASE MainStep(r)
  BY <1>1, Startup, LooksUp, Fetching, Deriving, Judging, Publishing, Ending DEF MainStep
<1>2. CASE GuardStep(r)
  BY <1>2, Guarding, Ending DEF GuardStep
<1>3. CASE Fault(r)
  BY <1>3, Guarding, Deriving, Judging, Ending DEF Fault, GuardFault
<1> QED
  BY <1>1, <1>2, <1>3, Startup, Guarding, Ending DEF StepOf

LEMMA InitJInv == Init => Data!StoreInit /\ JInv
<1> SUFFICES ASSUME Init PROVE Data!StoreInit /\ JInv
  OBVIOUS
<1>1. Data!StoreInit
  BY DEF Init, Store!StoreInit, Data!StoreInit, Store!Idle, Data!Idle, Store!Pending, Data!Pending
<1>2. Data!TypeOK
  BY <1>1, Names, Data!InitTyped
<1>3. Memory
  BY DEF Init, Memory
<1>4. \A r \in Runs : Fits(r)
  BY NamesAssumption DEF Init, Fits, Ready, Serving, Judged, Saved, Putting
<1> QED
  BY <1>1, <1>2, <1>3, <1>4 DEF JInv

LEMMA NextJInv == JInv /\ [Next]_vars => JInv' /\ [Data!StoreNext]_(Data!storeVars)
<1> SUFFICES ASSUME JInv, [Next]_vars PROVE JInv' /\ [Data!StoreNext]_(Data!storeVars)
  OBVIOUS
<1>1. CASE UNCHANGED vars
  <2>1. UNCHANGED storeVars /\ UNCHANGED <<pc, memory>>
    BY <1>1 DEF vars, storeVars, memory
  <2>2. Data!TypeOK'
    BY <2>1, Names, Data!NextTyped DEF JInv, storeVars, Data!storeVars
  <2> QED
    BY <2>1, <2>2 DEF JInv, Memory, memory, Fits, Ready, storeVars, Data!storeVars
<1>2. CASE Next
  <2>1. PICK r \in Runs : Simulates(r)
    BY <1>2, Steps DEF Next, StepOf
  <2>2. [Data!StoreNext]_(Data!storeVars)
    BY <2>1 DEF Simulates, storeVars, Data!storeVars
  <2>3. Data!TypeOK'
    BY <2>2, Names, Data!NextTyped DEF JInv
  <2>4. \A q \in Runs \ {r} : Fits(q)'
    BY <2>1 DEF Simulates, Elsewhere, JInv, Fits, Ready
  <2> QED
    BY <2>1, <2>2, <2>3, <2>4 DEF JInv, Simulates
<1> QED
  BY <1>1, <1>2

-----------------------------------------------------------------------------
(* The processes of the url command, their guards and their deaths only use *)
(* the store the way EvidenceStore allows (core.mjs 386-905 over            *)
(* storage.mjs), for any number of processes at once.                       *)
THEOREM JobsUseStore == Spec => Data!StoreSpec
<1>1. JInv /\ [Next]_vars => JInv'
  BY NextJInv
<1>2. JInv /\ [Next]_vars => [Data!StoreNext]_(Data!storeVars)
  BY NextJInv
<1> QED
  BY <1>1, <1>2, InitJInv, PTL DEF Spec, Data!StoreSpec

(* Whatever the processes do to each other, the manifest of a run never     *)
(* precedes its evidence, and the cache index never runs ahead of the       *)
(* manifests.                                                               *)
THEOREM JobsKeepEvidence == Spec => [](Data!EvidencePresent /\ Data!CacheBehindManifest)
<1>1. Data!StoreSpec => []Data!EvidencePresent
  BY Names, Data!ManifestsHaveEvidence
<1>2. Data!StoreSpec => []Data!CacheBehindManifest
  BY Names, Data!CacheFollowsManifests
<1> QED
  BY <1>1, <1>2, JobsUseStore, PTL

(* A run is begun once, sealed once and only then served, whichever chain   *)
(* of whichever process does it.                                            *)
THEOREM JobsImplementLedger == Spec => JobsKeepLedger
<1>1. Data!StoreSpec => Data!KeepsLedger
  BY Names, Data!StoreImplementsLedger
<1>2. Data!Ledger!LedgerInit => Store!Ledger!LedgerInit
  BY DEF Data!Ledger!LedgerInit, Store!Ledger!LedgerInit, Data!Life, Store!Life, Data!Served,
         Store!Served
<1>3. [Data!Ledger!LedgerNext]_(Data!Ledger!ledgerVars)
        => [Store!Ledger!LedgerNext]_(Store!Ledger!ledgerVars)
  BY DEF Data!Ledger!LedgerNext, Store!Ledger!LedgerNext, Data!Ledger!ledgerVars,
         Store!Ledger!ledgerVars, Data!Life, Store!Life, Data!Served, Store!Served,
         Data!Ledger!Open, Store!Ledger!Open, Data!Ledger!Seal, Store!Ledger!Seal,
         Data!Ledger!Serve, Store!Ledger!Serve
<1> QED
  BY <1>1, <1>2, <1>3, JobsUseStore, PTL
     DEF JobsKeepLedger, Data!KeepsLedger, Store!KeepsLedger, Data!Ledger!LedgerSpec,
         Store!Ledger!LedgerSpec

-----------------------------------------------------------------------------
(* Journals and objects.  What a chain will mention in its next line is in  *)
(* the store by then, and so is what the lines in flight mention.           *)

There(o) == o \in Objects => objects[o] # "absent"

Known(r) ==
  /\ source[r] # None => There(source[r])
  /\ cached[r] # None => There(cached[r].source)

LinesKnown == \A w \in Actors : op[w].file = "line" => \A h \in op[w].value.refs : There(h)

EInv == JInv /\ (\A r \in Runs : Known(r)) /\ LinesKnown /\ JournalBehindObjects

(* Every operation but an append.                                           *)
Silent(w) ==
  \/ Store!Stage(w) \/ Store!Refuse(w) \/ Store!Rename(w) \/ Store!WriteFails(w)
  \/ Store!AppendLands(w) \/ Store!AppendFails(w) \/ Store!Recover(w)
  \/ \E r \in Runs : \/ Store!CreateJob(w, r) \/ Store!CreateJournal(w, r)
                     \/ \E o : Store!PutNew(w, r, o) \/ Store!PutKnown(w, r, o)
                                \/ Store!PublishOutput(w, r, o)
  \/ \E v : Store!CommitManifest(w, v) \/ Store!CommitCache(w, v)

(* The hashes a chain of r puts in a line.                                  *)
Mentioned(r) ==
  {{}, Present(source[r])} \cup {m \in {{cached[r].source, ManifestName}} : cached[r] # None}

LinesFrom(r) ==
  \A w \in Actors : op'[w].file = "line" =>
    (op[w].file = "line" /\ op'[w].value = op[w].value) \/ op'[w].value.refs \in Mentioned(r)

LEMMA SilentLines ==
  ASSUME JInv, NEW r \in Runs,
         \/ UNCHANGED storeVars
         \/ \E w \in Actors : Silent(w)
         \/ Store!Crash({Main(r), Guard(r)})
  PROVE  LinesFrom(r)
<1>1. Data!TypeOK
  BY DEF JInv
<1>2. CASE UNCHANGED storeVars
  BY <1>2 DEF LinesFrom, storeVars
<1>3. CASE \E w \in Actors : Silent(w)
  <2>1. PICK w \in Actors : Silent(w)
    BY <1>3
  <2>2. ASSUME op'[w].file # "line", Touch(w)
        PROVE  LinesFrom(r)
    BY <2>2 DEF LinesFrom, Touch
  <2>3. CASE Store!Stage(w)
    <3>1. op[w].file # "line"
      BY <1>1, <2>3 DEF Store!Stage, Data!TypeOK
    <3> QED
      BY <1>1, <2>2, <2>3, <3>1 DEF Store!Stage, Store!Pending, Touch, Data!TypeOK
  <2>4. CASE \/ Store!Refuse(w) \/ Store!Rename(w) \/ Store!WriteFails(w)
             \/ Store!AppendLands(w) \/ Store!AppendFails(w)
    <3>1. op' = [op EXCEPT ![w] = Store!Idle]
      BY <2>4 DEF Store!Refuse, Store!Rename, Store!WriteFails, Store!AppendLands, Store!AppendFails
    <3> QED
      BY <1>1, <2>2, <3>1 DEF Store!Idle, Store!Pending, Touch, Data!TypeOK
  <2>5. CASE \E q \in Runs : \E o : Store!PutKnown(w, q, o)
    BY <2>5 DEF Store!PutKnown, Store!storeVars, LinesFrom
  <2>6. CASE \/ Store!Recover(w)
             \/ \E q \in Runs : Store!CreateJob(w, q) \/ Store!CreateJournal(w, q)
             \/ \E q \in Runs : \E o : Store!PutNew(w, q, o) \/ Store!PublishOutput(w, q, o)
             \/ \E v : Store!CommitManifest(w, v) \/ Store!CommitCache(w, v)
    <3>1. PICK file \in {"report", "job", "journal", "object", "output", "manifest", "cache"} :
            \E v : op' = [op EXCEPT ![w] = Store!Pending("check", file, v)]
      BY <2>6 DEF Store!Recover, Store!CreateJob, Store!CreateJournal, Store!PutNew,
                  Store!PublishOutput, Store!CommitManifest, Store!CommitCache, Store!Start
    <3> QED
      BY <1>1, <2>2, <3>1 DEF Store!Pending, Touch, Data!TypeOK
  <2> QED
    BY <2>1, <2>3, <2>4, <2>5, <2>6 DEF Silent
<1>4. CASE Store!Crash({Main(r), Guard(r)})
  BY <1>4 DEF LinesFrom, Store!Crash, Store!Idle, Store!Pending
<1> QED
  BY <1>2, <1>3, <1>4

LEMMA AppendedLines ==
  ASSUME JInv, NEW r \in Runs, NEW w \in Actors, NEW refs \in Mentioned(r),
         Store!AppendAttempt(w, r, refs)
  PROVE  LinesFrom(r)
BY DEF LinesFrom, Store!AppendAttempt, Store!Pending, JInv, Data!TypeOK

LEMMA ChainLines ==
  ASSUME JInv, NEW r \in Runs, MainStep(r)
  PROVE  LinesFrom(r)
<1>1. CASE \/ Scan(r) \/ ScanFindsNothing(r) \/ Reported(r) \/ LookUp(r)
           \/ Begin(r, "beginHit", "jobHit", "openedHit", "journalHit") \/ BegunHit(r)
           \/ Begin(r, "beginFetch", "jobFetch", "openedFetch", "journalFetch") \/ BegunFetch(r)
  BY <1>1, SilentLines, Chains DEF Scan, ScanFindsNothing, Reported, LookUp, Begin, BegunHit,
                                   BegunFetch, Silent
<1>2. CASE \/ HitLogged(r) \/ DraftHit(r) \/ FetchEmpty(r) \/ BodyStored(r) \/ DraftFailure(r)
           \/ DraftNotModified(r) \/ \E o \in Objects : FetchKnown(r, o) \/ FetchNew(r, o)
  BY <1>2, SilentLines, Chains DEF HitLogged, DraftHit, FetchEmpty, BodyStored, DraftFailure,
                                   DraftNotModified, FetchKnown, FetchNew, Draft, Silent
<1>3. CASE \/ DeriveRaw(r) \/ Derived(r) \/ DeriveFails(r) \/ DerivedRefused(r)
           \/ \E o \in Objects : DeriveKnown(r, o) \/ DeriveNew(r, o)
  BY <1>3, SilentLines, Chains DEF DeriveRaw, Derived, DeriveFails, DerivedRefused, DeriveKnown,
                                   DeriveNew, Draft, Silent
<1>4. CASE \/ Parsed(r) \/ ParseRefused(r) \/ NoFallback(r) \/ Accept(r) \/ Reject(r)
           \/ \E o \in Extracts : ParseKnown(r, o) \/ ParseNew(r, o)
  BY <1>4, SilentLines, Chains DEF Parsed, ParseRefused, NoFallback, Accept, Reject, ParseKnown, ParseNew, Draft,
                                   Silent
<1>5. CASE Seal(r) \/ Index(r) \/ Publish(r)
  BY <1>5, SilentLines, Chains DEF Seal, Index, Publish, Silent
<1>6. CASE Throw(r) \/ Flush(r) \/ Return(r)
  BY <1>6, SilentLines, Chains DEF Throw, Flush, Return, Silent
<1>7. CASE ServeHit(r)
  <2>1. cached[r] # None
    BY <1>7, Places DEF ServeHit, Goto, Ready, Serving
  <2> QED
    BY <1>7, <2>1, AppendedLines, Chains DEF ServeHit, Mentioned
<1>8. CASE Attempt(r)
  BY <1>8, SilentLines, AppendedLines, Chains DEF Attempt, Silent, Mentioned
<1>9. CASE Finished(r)
  BY <1>9, SilentLines, AppendedLines, Chains DEF Finished, Silent, Mentioned
<1>10. CASE \/ Transform(r, "transform", "transforming", "judge")
            \/ Transform(r, "parsed", "reparsed", "rejudge")
            \/ Transform(r, "rejudge", "skipping", "refused")
  BY <1>10, SilentLines, AppendedLines, Chains DEF Transform, Silent, Mentioned
<1> QED
  BY <1>1, <1>2, <1>3, <1>4, <1>5, <1>6, <1>7, <1>8, <1>9, <1>10 DEF MainStep

LEMMA OtherLines ==
  ASSUME JInv, NEW r \in Runs,
         GuardStep(r) \/ Fault(r) \/ Interrupt(r) \/ Kill(r) \/ \E m \in Modes : Launch(r, m)
  PROVE  LinesFrom(r)
<1>1. CASE NoteTermination(r)
  BY <1>1, SilentLines, AppendedLines, Chains DEF NoteTermination, Silent, Mentioned
<1>2. CASE CommitInterrupted(r) \/ GuardFlush(r) \/ CommitEnds(r) \/ Leave(r)
  BY <1>2, SilentLines, Chains DEF CommitInterrupted, GuardFlush, CommitEnds, Leave, Silent
<1>3. CASE Fault(r)
  BY <1>3, SilentLines, Chains DEF Fault, Unrecovered, Store!WriteRejects, Silent
<1>4. CASE Interrupt(r) \/ Kill(r) \/ \E m \in Modes : Launch(r, m)
  BY <1>4, SilentLines DEF Interrupt, Kill, Launch
<1> QED
  BY <1>1, <1>2, <1>3, <1>4 DEF GuardStep

(* What a chain remembers was stored when it learned of it.                 *)
Learns(r) ==
  \/ UNCHANGED <<source, cached>>
  \/ /\ cached' = cached
     /\ \E o : /\ source' = [source EXCEPT ![r] = o]
               /\ o = None \/ objects'[o] = "intact"
  \/ /\ source' = source
     /\ \E c : /\ cached' = [cached EXCEPT ![r] = c]
               /\ c = None \/ objects'[c.source] = "intact"
  \/ /\ source' = [source EXCEPT ![r] = None]
     /\ cached' = [cached EXCEPT ![r] = None]

LEMMA ChainLearns ==
  ASSUME JInv, NEW r \in Runs, MainStep(r)
  PROVE  Learns(r)
<1>1. CASE \/ Scan(r) \/ ScanFindsNothing(r) \/ Reported(r)
           \/ Begin(r, "beginHit", "jobHit", "openedHit", "journalHit") \/ BegunHit(r)
           \/ Begin(r, "beginFetch", "jobFetch", "openedFetch", "journalFetch") \/ BegunFetch(r)
  BY <1>1 DEF Scan, ScanFindsNothing, Reported, Begin, BegunHit, BegunFetch, Keep, memory, Learns
<1>2. CASE LookUp(r)
  <2>1. /\ source' = source /\ objects' = objects
        /\ cached' = [cached EXCEPT ![r] = IF mode[r] # "off" /\ Store!CacheHit THEN cache ELSE None]
    BY <1>2 DEF LookUp, storeVars
  <2>2. Store!CacheHit => objects[cache.source] = "intact"
    BY DEF Store!CacheHit, Store!RecordValid, Store!ManifestValid
  <2> QED
    BY <2>1, <2>2 DEF Learns
<1>3. CASE \/ ServeHit(r) \/ HitLogged(r) \/ DraftHit(r) \/ Attempt(r) \/ Finished(r)
           \/ DraftFailure(r) \/ DraftNotModified(r) \/ \E o \in Objects : FetchNew(r, o)
  BY <1>3 DEF ServeHit, HitLogged, DraftHit, Attempt, Finished, DraftFailure, DraftNotModified,
              FetchNew, Draft, Keep, memory, Learns
<1>4. CASE FetchEmpty(r)
  BY <1>4 DEF FetchEmpty, Answer, Learns
<1>5. CASE \E o \in Objects : FetchKnown(r, o)
  BY <1>5 DEF FetchKnown, Answer, Store!PutKnown, Store!storeVars, Learns
<1>6. CASE BodyStored(r)
  <2>1. op[Main(r)].file = "object" /\ op[Main(r)].value \in Objects
    BY <1>6, Places DEF BodyStored, Goto, Putting
  <2>2. objects'[op[Main(r)].value] = "intact"
    BY <1>6, <2>1 DEF BodyStored, Store!Rename, JInv, Data!TypeOK
  <2> QED
    BY <1>6, <2>2 DEF BodyStored, Answer, Learns
<1>7. CASE \/ DeriveRaw(r) \/ Derived(r) \/ DeriveFails(r) \/ DerivedRefused(r)
           \/ \E o \in Objects : DeriveKnown(r, o) \/ DeriveNew(r, o)
  BY <1>7 DEF DeriveRaw, Derived, DeriveFails, DerivedRefused, DerivedLost, DeriveKnown, DeriveNew,
              Draft, Select, Keep, memory, Learns
<1>8. CASE \/ Parsed(r) \/ ParseRefused(r) \/ NoFallback(r) \/ Accept(r) \/ Reject(r)
           \/ \E o \in Extracts : ParseKnown(r, o) \/ ParseNew(r, o)
  BY <1>8 DEF Parsed, ParseRefused, Unparsed, NoFallback, Accept, Reject, ParseKnown, ParseNew, Draft,
              Select, Keep, memory, Learns
<1>9. CASE \/ Transform(r, "transform", "transforming", "judge")
           \/ Transform(r, "parsed", "reparsed", "rejudge")
           \/ Transform(r, "rejudge", "skipping", "refused")
  BY <1>9 DEF Transform, Keep, memory, Learns
<1>10. CASE Seal(r) \/ Index(r) \/ Publish(r) \/ Throw(r) \/ Flush(r)
  BY <1>10 DEF Seal, Index, Publish, Throw, Threw, Flush, Keep, memory, Learns
<1>11. CASE Return(r)
  BY <1>11 DEF Return, Die, Learns
<1> QED
  BY <1>1, <1>2, <1>3, <1>4, <1>5, <1>6, <1>7, <1>8, <1>9, <1>10, <1>11 DEF MainStep

LEMMA OthersLearn ==
  ASSUME JInv, NEW r \in Runs,
         GuardStep(r) \/ Fault(r) \/ Interrupt(r) \/ Kill(r) \/ \E m \in Modes : Launch(r, m)
  PROVE  Learns(r)
<1>1. CASE Leave(r) \/ Kill(r)
  BY <1>1 DEF Leave, Kill, Die, Learns
<1>2. CASE NoteTermination(r) \/ CommitInterrupted(r) \/ GuardFlush(r) \/ CommitEnds(r) \/ Interrupt(r)
  BY <1>2 DEF NoteTermination, CommitInterrupted, GuardFlush, CommitEnds, Interrupt, GuardGoto, memory,
              Learns
<1>3. CASE Fault(r) \/ \E m \in Modes : Launch(r, m)
  BY <1>3 DEF Fault, Launch, Unrecovered, Threw, DerivedLost, Unparsed, Select, GuardGoto, Keep,
              memory, Learns
<1> QED
  BY <1>1, <1>2, <1>3 DEF GuardStep

LEMMA NextEInv == EInv /\ [Next]_vars => EInv'
<1> SUFFICES ASSUME EInv, [Next]_vars PROVE EInv'
  OBVIOUS
<1>1. JInv /\ JInv' /\ [Data!StoreNext]_(Data!storeVars)
  BY NextJInv DEF EInv
<1>2. Data!TypeOK /\ Data!TypeOK' /\ Memory /\ Memory'
  BY <1>1 DEF JInv
<1>3. \A o : There(o) => There(o)'
  BY <1>1, <1>2, Names, Data!StoreGrows DEF Data!Grows, There
<1>4. JournalBehindObjects'
  <2> SUFFICES ASSUME NEW q \in Runs, NEW h \in journals'[q].refs
               PROVE  There(h)'
    BY DEF JournalBehindObjects, There
  <2>1. \/ h \in journals[q].refs
        \/ \E w \in Actors : op[w].file = "line" /\ h \in op[w].value.refs
    BY <1>1, <1>2, Names, Data!JournalLines
  <2>2. There(h)
    BY <2>1 DEF EInv, JournalBehindObjects, LinesKnown, There
  <2> QED
    BY <1>3, <2>2
<1>5. CASE UNCHANGED vars
  <2>1. UNCHANGED <<source, cached, op, objects>>
    BY <1>5 DEF vars
  <2> QED
    BY <1>1, <1>4, <2>1 DEF EInv, Known, LinesKnown, There
<1>6. CASE Next
  <2>1. PICK r \in Runs : LinesFrom(r) /\ Learns(r)
    BY <1>1, <1>6, ChainLines, OtherLines, ChainLearns, OthersLearn DEF Next
  <2>2. ASSUME NEW w \in Actors, op'[w].file = "line", NEW h \in op'[w].value.refs
        PROVE  There(h)'
    <3>1. CASE op[w].file = "line" /\ op'[w].value = op[w].value
      BY <1>3, <2>2, <3>1 DEF EInv, LinesKnown
    <3>2. CASE op'[w].value.refs \in Mentioned(r)
      <4>1. \/ h = source[r] /\ h # None
            \/ cached[r] # None /\ h = cached[r].source
            \/ h = ManifestName
        BY <2>2, <3>2 DEF Mentioned, Present
      <4>2. There(h)
        BY <4>1, NamesAssumption DEF EInv, Known, There
      <4> QED
        BY <1>3, <4>2
    <3> QED
      BY <2>1, <2>2, <3>1, <3>2 DEF LinesFrom
  <2>3. ASSUME NEW q \in Runs
        PROVE  Known(q)'
    <3>1. Known(q)
      BY DEF EInv
    <3>2. source'[q] = source[q] \/ source'[q] = None \/ objects'[source'[q]] = "intact"
      BY <1>2, <2>1 DEF Learns, Memory
    <3>3. cached'[q] = cached[q] \/ cached'[q] = None \/ objects'[cached'[q].source] = "intact"
      BY <1>2, <2>1 DEF Learns, Memory
    <3>4. (source[q] # None => There(source[q]))'
      BY <1>3, <3>1, <3>2 DEF Known, There
    <3>5. (cached[q] # None => There(cached[q].source))'
      BY <1>3, <3>1, <3>3 DEF Known, There
    <3> QED
      BY <3>4, <3>5 DEF Known
  <2> QED
    BY <1>1, <1>4, <2>2, <2>3 DEF EInv, LinesKnown
<1> QED
  BY <1>5, <1>6

(* A journal never mentions an object that is not stored, whatever is cut   *)
(* short and whichever process runs beside (core.mjs 487-520 stores the     *)
(* body before the attempt_finished line, 386-405 mentions only what the    *)
(* cache record names).                                                     *)
THEOREM JobsKeepJournals == Spec => []JournalBehindObjects
<1>1. Init => EInv
  <2> SUFFICES ASSUME Init PROVE EInv
    OBVIOUS
  <2>1. JInv
    BY InitJInv
  <2>2. (\A r \in Runs : Known(r)) /\ LinesKnown /\ JournalBehindObjects
    BY DEF Init, Store!StoreInit, Store!Idle, Store!Pending, Known, LinesKnown, JournalBehindObjects
  <2> QED
    BY <2>1, <2>2 DEF EInv
<1>2. EInv => JournalBehindObjects
  BY DEF EInv
<1> QED
  BY <1>1, <1>2, NextEInv, PTL DEF Spec

-----------------------------------------------------------------------------
(* The exit and the files.  Every manifest, output and report of a run is   *)
(* written by the chains of that run, and the place of a chain tells what   *)
(* it has in hand.                                                          *)

(* The file a main chain has in hand at each of its awaits.                 *)
InHand(at) ==
  CASE at = "reporting" -> {"report"}
    [] at \in {"jobHit", "jobFetch"} -> {"job"}
    [] at \in {"journalHit", "journalFetch"} -> {"journal"}
    [] at \in {"serving", "starting", "finishing", "transforming", "reparsed", "skipping"} -> {"line"}
    [] at \in Putting -> {"object"}
    [] at = "sealing" -> {"manifest"}
    [] at = "indexing" -> {"cache"}
    [] at = "publishing" -> {"output"}
    [] OTHER -> {"none"}

Early == {"idle", "recover", "reporting", "lookup", "unrecovered",
          "beginFetch", "jobFetch", "openedFetch", "journalFetch"}

GuardInHand(at) ==
  CASE at = "noting" -> {"line"} [] at = "committing" -> {"manifest"} [] OTHER -> {"none"}

(* What the two chains of a run are about to write is theirs.               *)
Hands(r) ==
  /\ op[Main(r)].file \in InHand(pc[r])
  /\ pc[r] \in {"jobHit", "jobFetch"} => op[Main(r)].value = r
  /\ pc[r] = "sealing" => op[Main(r)].value = draft[r]
  /\ pc[r] = "publishing" => op[Main(r)].value = [run |-> r, object |-> draft[r].artifact]

GuardHands(r) ==
  /\ op[Guard(r)].file \in GuardInHand(guard[r])
  /\ guard[r] = "committing" => op[Guard(r)].value.run = r

Ours(r) ==
  /\ draft[r] # None => draft[r].run = r /\ draft[r].status # "interrupted"
  /\ pc[r] = "done" => draft[r] # None
  /\ pc[r] \in Early => guard[r] = "off"
  /\ pc[r] = "dead" <=> exit[r] # None
  /\ pc[r] = "dead" => guard[r] \in {"off", "left", "leftUnsaved"}

(* As long as the guard has not claimed the process, what the main chain    *)
(* has committed is on disk.                                                *)
Committed(r) ==
  /\ guard[r] \in {"off", "armed"} /\ pc[r] \in Saved \cup {"done"} => manifests[r] = draft[r]
  /\ pc[r] = "done" /\ draft[r].status = "ok" /\ ToFile => outputs[r] = draft[r].artifact
  /\ guard[r] \in {"leaving", "left"} => manifests[r] # None

(* What a process that ended itself left behind.                            *)
Left(r) ==
  /\ exit[r] \in {"ok", "failed"} => manifests[r] # None
  /\ exit[r] = "ok" => /\ manifests[r].status = "ok"
                       /\ ToFile => outputs[r] = manifests[r].artifact
  /\ exit[r] = "failed" => manifests[r].status \notin {"ok", "interrupted"}

Own(r) == Hands(r) /\ GuardHands(r) /\ Ours(r) /\ Committed(r) /\ Left(r)

Exits == {None, "ok", "failed", "error", "interrupted", "killed"}

Shape ==
  /\ guard = [r \in Runs |-> guard[r]]
  /\ exit \in [Runs -> Exits]
  /\ mode \in [Runs -> {"use", "refresh", "off"}]

XInv == JInv /\ Shape /\ \A r \in Runs : Own(r)

Quiet == UNCHANGED <<manifests, outputs>>

(* What the operations of the store do to the writer that calls them, and   *)
(* to manifests and outputs.                                                *)
LEMMA Started ==
  ASSUME JInv, NEW w \in Actors, NEW file, NEW value, Store!Start(w, file, value)
  PROVE  /\ Quiet /\ Touch(w)
         /\ op'[w].file = file /\ op'[w].value = value
BY DEF JInv, Data!TypeOK, Store!Start, Store!Pending, Store!disk, Quiet, Touch

LEMMA Appended ==
  ASSUME JInv, NEW w \in Actors, NEW r, NEW refs, Store!AppendAttempt(w, r, refs)
  PROVE  Quiet /\ Touch(w) /\ op'[w].file = "line"
BY DEF JInv, Data!TypeOK, Store!AppendAttempt, Store!Pending, Store!disk, Quiet, Touch

LEMMA Staged ==
  ASSUME JInv, NEW w \in Actors, Store!Stage(w)
  PROVE  /\ Quiet /\ Touch(w)
         /\ op'[w].file = op[w].file /\ op'[w].value = op[w].value
BY DEF JInv, Data!TypeOK, Store!Stage, Store!Pending, Store!disk, Quiet, Touch

LEMMA Dropped ==
  ASSUME JInv, NEW w \in Actors,
         Store!Refuse(w) \/ Store!WriteFails(w) \/ Store!AppendLands(w) \/ Store!AppendFails(w)
  PROVE  /\ Quiet /\ Touch(w) /\ op'[w].file = "none"
         /\ op[w].file # "none"
BY DEF JInv, Data!TypeOK, Store!Refuse, Store!WriteFails, Store!AppendLands, Store!AppendFails,
       Store!Idle, Store!Pending, Store!disk, Quiet, Touch

LEMMA Landed ==
  ASSUME JInv, NEW w \in Actors, Store!Rename(w)
  PROVE  /\ Touch(w) /\ op'[w].file = "none" /\ op[w].file # "none"
         /\ op[w].file # "manifest" => manifests' = manifests
         /\ op[w].file = "manifest" =>
              manifests' = [manifests EXCEPT ![op[w].value.run] = op[w].value]
         /\ op[w].file # "output" => outputs' = outputs
         /\ op[w].file = "output" =>
              outputs' = [outputs EXCEPT ![op[w].value.run] = op[w].value.object]
BY DEF JInv, Data!TypeOK, Store!Rename, Store!Idle, Store!Pending, Touch

(* Other runs are left alone.                                               *)
Apart(r) ==
  \A q \in Runs \ {r} :
    /\ guard'[q] = guard[q] /\ exit'[q] = exit[q] /\ op'[Guard(q)] = op[Guard(q)]
    /\ manifests'[q] = manifests[q] /\ outputs'[q] = outputs[q]

OwnOp(r, w) == Silent(w) \/ \E refs : Store!AppendAttempt(w, r, refs)

LEMMA OwnFiles ==
  ASSUME XInv, NEW r \in Runs, NEW w \in {Main(r), Guard(r)},
         op[w].file \in {"manifest", "output"}
  PROVE  op[w].value.run = r
<1>1. Own(r) /\ Fits(r)
  BY DEF XInv, JInv
<1>2. CASE w = Guard(r)
  BY <1>1, <1>2 DEF Own, GuardHands, GuardInHand
<1>3. CASE w = Main(r)
  <2>1. pc[r] \in {"sealing", "publishing"}
    BY <1>1, <1>3 DEF Own, Hands, InHand, Putting
  <2>2. CASE pc[r] = "sealing"
    BY <1>1, <1>3, <2>2 DEF Own, Hands, Ours, Fits, Ready
  <2>3. CASE pc[r] = "publishing"
    BY <1>1, <1>3, <2>3 DEF Own, Hands
  <2> QED
    BY <2>1, <2>2, <2>3
<1> QED
  BY <1>2, <1>3

LEMMA OwnOpApart ==
  ASSUME XInv, NEW r \in Runs, NEW w \in {Main(r), Guard(r)}, OwnOp(r, w)
  PROVE  /\ Touch(w)
         /\ \A q \in Runs \ {r} : manifests'[q] = manifests[q] /\ outputs'[q] = outputs[q]
<1>1. w \in Actors /\ JInv
  BY Chains DEF XInv
<1>2. CASE Store!Rename(w)
  <2>1. /\ manifests \in [Runs -> Data!Manifest \cup {None}]
        /\ outputs \in [Runs -> Objects \cup {None}]
    BY <1>1 DEF JInv, Data!TypeOK
  <2> QED
    BY <1>1, <1>2, <2>1, OwnFiles, Landed
<1>3. CASE Store!Stage(w)
  BY <1>1, <1>3, Staged DEF Quiet
<1>4. CASE Store!Refuse(w) \/ Store!WriteFails(w) \/ Store!AppendLands(w) \/ Store!AppendFails(w)
  BY <1>1, <1>4, Dropped DEF Quiet
<1>5. CASE \E refs : Store!AppendAttempt(w, r, refs)
  BY <1>1, <1>5, Appended DEF Quiet
<1>6. CASE \E q, o : Store!PutKnown(w, q, o)
  BY <1>6 DEF Store!PutKnown, Store!storeVars, Touch
<1>7. CASE \E file, value : Store!Start(w, file, value)
  BY <1>1, <1>7, Started DEF Quiet
<1> QED
  BY <1>2, <1>3, <1>4, <1>5, <1>6, <1>7 DEF OwnOp, Silent, Store!Recover, Store!CreateJob,
     Store!CreateJournal, Store!PutNew, Store!PublishOutput, Store!CommitManifest, Store!CommitCache

(* A step of a main chain calls the store once, or not.                     *)
ChainStep(r) == UNCHANGED storeVars \/ OwnOp(r, Main(r))

LEMMA ChainOps ==
  ASSUME NEW r \in Runs, MainStep(r)
  PROVE  ChainStep(r)
<1> USE DEF ChainStep, OwnOp, Silent
<1>1. CASE \/ Scan(r) \/ ScanFindsNothing(r) \/ Reported(r) \/ LookUp(r)
           \/ Begin(r, "beginHit", "jobHit", "openedHit", "journalHit") \/ BegunHit(r)
           \/ Begin(r, "beginFetch", "jobFetch", "openedFetch", "journalFetch") \/ BegunFetch(r)
  BY <1>1 DEF Scan, ScanFindsNothing, Reported, LookUp, Begin, BegunHit, BegunFetch
<1>2. CASE \/ ServeHit(r) \/ HitLogged(r) \/ DraftHit(r) \/ Attempt(r) \/ FetchEmpty(r)
           \/ BodyStored(r) \/ Finished(r) \/ DraftFailure(r) \/ DraftNotModified(r)
           \/ \E o \in Objects : FetchKnown(r, o) \/ FetchNew(r, o)
  BY <1>2 DEF ServeHit, HitLogged, DraftHit, Attempt, FetchEmpty, BodyStored, Finished, DraftFailure,
              DraftNotModified, FetchKnown, FetchNew, Draft
<1>3. CASE \/ DeriveRaw(r) \/ Derived(r) \/ DeriveFails(r) \/ DerivedRefused(r)
           \/ \E o \in Objects : DeriveKnown(r, o) \/ DeriveNew(r, o)
  BY <1>3 DEF DeriveRaw, Derived, DeriveFails, DerivedRefused, DeriveKnown, DeriveNew, Draft
<1>4. CASE \/ Parsed(r) \/ ParseRefused(r) \/ NoFallback(r) \/ Accept(r) \/ Reject(r)
           \/ \E o \in Extracts : ParseKnown(r, o) \/ ParseNew(r, o)
           \/ Transform(r, "transform", "transforming", "judge")
           \/ Transform(r, "parsed", "reparsed", "rejudge")
           \/ Transform(r, "rejudge", "skipping", "refused")
  BY <1>4 DEF Parsed, ParseRefused, NoFallback, Accept, Reject, ParseKnown, ParseNew, Draft, Transform
<1>5. CASE Seal(r) \/ Index(r) \/ Publish(r) \/ Throw(r) \/ Flush(r) \/ Return(r)
  BY <1>5 DEF Seal, Index, Publish, Throw, Flush, Return
<1> QED
  BY <1>1, <1>2, <1>3, <1>4, <1>5 DEF MainStep

(* And of what a guard or a fault does.                                     *)
LEMMA OtherOps ==
  ASSUME NEW r \in Runs,
         GuardStep(r) \/ Fault(r) \/ Interrupt(r) \/ Kill(r) \/ \E m \in Modes : Launch(r, m)
  PROVE  \/ UNCHANGED storeVars
         \/ \E w \in {Main(r), Guard(r)} : OwnOp(r, w)
         \/ Store!Crash({Main(r), Guard(r)})
<1> USE DEF OwnOp, Silent
<1>1. CASE GuardStep(r)
  BY <1>1 DEF GuardStep, NoteTermination, CommitInterrupted, GuardFlush, CommitEnds, Leave
<1>2. CASE Fault(r)
  BY <1>2 DEF Fault, Unrecovered, Store!WriteRejects
<1>3. CASE Interrupt(r) \/ Kill(r) \/ \E m \in Modes : Launch(r, m)
  BY <1>3 DEF Interrupt, Kill, Launch
<1> QED
  BY <1>1, <1>2, <1>3

(* guard, exit and mode: one entry at most.                                 *)
Ticks(r) ==
  /\ guard' = guard \/ \E g : guard' = [guard EXCEPT ![r] = g]
  /\ exit' = exit \/ \E code \in Exits : exit' = [exit EXCEPT ![r] = code]
  /\ mode' = mode \/ \E m \in {"use", "refresh", "off"} : mode' = [mode EXCEPT ![r] = m]

LEMMA ChainTicks ==
  ASSUME NEW r \in Runs, MainStep(r)
  PROVE  Ticks(r)
<1>1. CASE \/ Scan(r) \/ ScanFindsNothing(r) \/ Reported(r) \/ LookUp(r)
           \/ Begin(r, "beginHit", "jobHit", "openedHit", "journalHit") \/ BegunHit(r)
           \/ Begin(r, "beginFetch", "jobFetch", "openedFetch", "journalFetch") \/ BegunFetch(r)
  BY <1>1 DEF Ticks, Scan, ScanFindsNothing, Reported, LookUp, Begin, BegunHit, BegunFetch, Keep,
              memory
<1>2. CASE \/ ServeHit(r) \/ HitLogged(r) \/ DraftHit(r) \/ Attempt(r) \/ FetchEmpty(r)
           \/ BodyStored(r) \/ Finished(r) \/ DraftFailure(r) \/ DraftNotModified(r)
           \/ \E o \in Objects : FetchKnown(r, o) \/ FetchNew(r, o)
  BY <1>2 DEF Ticks, ServeHit, HitLogged, DraftHit, Attempt, FetchEmpty, BodyStored, Finished,
              DraftFailure, DraftNotModified, FetchKnown, FetchNew, Draft, Answer, Keep, memory
<1>3. CASE \/ DeriveRaw(r) \/ Derived(r) \/ DeriveFails(r) \/ DerivedRefused(r)
           \/ \E o \in Objects : DeriveKnown(r, o) \/ DeriveNew(r, o)
  BY <1>3 DEF Ticks, DeriveRaw, Derived, DeriveFails, DerivedRefused, DerivedLost, DeriveKnown,
              DeriveNew, Draft, Select, Keep, memory
<1>4. CASE \/ Parsed(r) \/ ParseRefused(r) \/ NoFallback(r) \/ Accept(r) \/ Reject(r)
           \/ \E o \in Extracts : ParseKnown(r, o) \/ ParseNew(r, o)
           \/ Transform(r, "transform", "transforming", "judge")
           \/ Transform(r, "parsed", "reparsed", "rejudge")
           \/ Transform(r, "rejudge", "skipping", "refused")
  BY <1>4 DEF Ticks, Parsed, ParseRefused, Unparsed, NoFallback, Accept, Reject, ParseKnown, ParseNew,
              Draft, Select, Transform, Keep, memory
<1>5. CASE Seal(r) \/ Index(r) \/ Publish(r) \/ Throw(r) \/ Flush(r)
  BY <1>5 DEF Ticks, Seal, Index, Publish, Throw, Threw, Flush, Keep, memory
<1>6. CASE Return(r)
  BY <1>6 DEF Ticks, Return, Die, ExitCode, Exits
<1> QED
  BY <1>1, <1>2, <1>3, <1>4, <1>5, <1>6 DEF MainStep

LEMMA OtherTicks ==
  ASSUME NEW r \in Runs,
         GuardStep(r) \/ Fault(r) \/ Interrupt(r) \/ Kill(r) \/ \E m \in Modes : Launch(r, m)
  PROVE  Ticks(r)
<1>1. CASE NoteTermination(r) \/ CommitInterrupted(r) \/ GuardFlush(r) \/ CommitEnds(r) \/ Interrupt(r)
  BY <1>1 DEF Ticks, NoteTermination, CommitInterrupted, GuardFlush, CommitEnds, Interrupt,
              GuardGoto, memory
<1>2. CASE Leave(r) \/ Kill(r)
  BY <1>2 DEF Ticks, Leave, Kill, Die, Exits
<1>3. CASE Fault(r)
  BY <1>3 DEF Ticks, Fault, Unrecovered, Threw, DerivedLost, Unparsed, Select, GuardGoto, Keep, memory
<1>4. CASE \E m \in Modes : Launch(r, m)
  BY <1>4, JobAssumption DEF Ticks, Launch
<1> QED
  BY <1>1, <1>2, <1>3, <1>4 DEF GuardStep

(* So a step of one run is none of another's.                               *)
LEMMA OthersApart ==
  ASSUME XInv, NEW r \in Runs, StepOf(r)
  PROVE  Apart(r) /\ Shape'
<1>1. Ticks(r)
  BY ChainTicks, OtherTicks DEF StepOf
<1>2. Shape' /\ \A q \in Runs \ {r} : guard'[q] = guard[q] /\ exit'[q] = exit[q]
  BY <1>1 DEF XInv, Shape, Ticks
<1>3. \/ UNCHANGED storeVars
      \/ \E w \in {Main(r), Guard(r)} : OwnOp(r, w)
      \/ Store!Crash({Main(r), Guard(r)})
  BY ChainOps, OtherOps DEF StepOf, ChainStep
<1>4. CASE UNCHANGED storeVars
  BY <1>2, <1>4 DEF Apart, storeVars
<1>5. CASE \E w \in {Main(r), Guard(r)} : OwnOp(r, w)
  <2>1. PICK w \in {Main(r), Guard(r)} : OwnOp(r, w)
    BY <1>5
  <2>2. \A q \in Runs \ {r} : Guard(q) \in Actors \ {w}
    BY Chains
  <2> QED
    BY <1>2, <2>1, <2>2, OwnOpApart DEF Apart, Touch
<1>6. CASE Store!Crash({Main(r), Guard(r)})
  <2>1. \A q \in Runs \ {r} : Guard(q) \in Actors \ {Main(r), Guard(r)}
    BY Chains
  <2> QED
    BY <1>2, <1>6, <2>1 DEF Apart, Store!Crash
<1> QED
  BY <1>3, <1>4, <1>5, <1>6

-----------------------------------------------------------------------------
(* The steps of one run keep what is said of it.                            *)

LEMMA OwnOpQuiet ==
  ASSUME XInv, NEW r \in Runs, NEW w \in {Main(r), Guard(r)}, OwnOp(r, w),
         op[w].file \notin {"manifest", "output"}
  PROVE  Quiet
<1>1. w \in Actors /\ JInv
  BY Chains DEF XInv
<1>2. CASE Store!Rename(w)
  BY <1>1, <1>2, Landed DEF Quiet
<1>3. CASE Store!Stage(w)
  BY <1>1, <1>3, Staged DEF Quiet
<1>4. CASE Store!Refuse(w) \/ Store!WriteFails(w) \/ Store!AppendLands(w) \/ Store!AppendFails(w)
  BY <1>1, <1>4, Dropped DEF Quiet
<1>5. CASE \E refs : Store!AppendAttempt(w, r, refs)
  BY <1>1, <1>5, Appended DEF Quiet
<1>6. CASE \E q, o : Store!PutKnown(w, q, o)
  BY <1>6 DEF Store!PutKnown, Store!storeVars, Quiet
<1>7. CASE \E file, value : Store!Start(w, file, value)
  BY <1>1, <1>7, Started DEF Quiet
<1> QED
  BY <1>2, <1>3, <1>4, <1>5, <1>6, <1>7 DEF OwnOp, Silent, Store!Recover, Store!CreateJob,
     Store!CreateJournal, Store!PutNew, Store!PublishOutput, Store!CommitManifest, Store!CommitCache

(* Away from the two writes that count, a chain leaves the guard, manifests *)
(* and outputs alone.                                                       *)
LEMMA ChainQuiet ==
  ASSUME XInv, NEW r \in Runs, ChainStep(r), pc[r] \notin {"sealing", "publishing"}
  PROVE  Quiet /\ op'[Guard(r)] = op[Guard(r)]
<1>1. op[Main(r)].file \notin {"manifest", "output"}
  BY DEF XInv, Own, Hands, InHand, Putting
<1>2. CASE UNCHANGED storeVars
  BY <1>2 DEF storeVars, Quiet
<1>3. CASE OwnOp(r, Main(r))
  <2>1. Touch(Main(r)) /\ Quiet
    BY <1>1, <1>3, OwnOpApart, OwnOpQuiet
  <2> QED
    BY <2>1, Chains DEF Touch
<1> QED
  BY <1>2, <1>3 DEF ChainStep

(* It only goes on.                                                         *)
LEMMA Onward ==
  ASSUME XInv, NEW r \in Runs, NEW to, pc' = [pc EXCEPT ![r] = to], ChainStep(r),
         pc[r] \notin {"dead", "sealing", "publishing"},
         to \notin {"idle", "dead", "done", "sealing", "publishing"},
         to \in Early => pc[r] \in Early,
         to \in Saved => pc[r] \in Saved,
         UNCHANGED <<guard, exit, draft>>,
         op'[Main(r)].file \in InHand(to),
         to \in {"jobHit", "jobFetch"} => op'[Main(r)].value = r
  PROVE  Own(r)'
<1>1. /\ pc'[r] = to /\ Own(r) /\ Shape /\ UNCHANGED <<guard, exit, draft, manifests, outputs>>
      /\ op'[Guard(r)] = op[Guard(r)]
  BY ChainQuiet DEF XInv, JInv, Memory, Quiet
<1>2. Hands(r)' /\ GuardHands(r)'
  BY <1>1 DEF Own, Hands, GuardHands
<1>3. Ours(r)'
  BY <1>1 DEF Own, Ours
<1>4. Committed(r)'
  BY <1>1 DEF Own, Committed
<1>5. Left(r)'
  BY <1>1 DEF Own, Left
<1> QED
  BY <1>2, <1>3, <1>4, <1>5 DEF Own

(* It has a manifest to commit.                                             *)
LEMMA DraftsOwn ==
  ASSUME XInv, NEW r \in Runs, NEW m, pc' = [pc EXCEPT ![r] = "seal"], ChainStep(r),
         pc[r] \notin {"dead", "sealing", "publishing"},
         draft' = [draft EXCEPT ![r] = m], UNCHANGED <<guard, exit>>,
         op'[Main(r)].file = "none", m.run = r, m.status # "interrupted"
  PROVE  Own(r)'
<1>1. /\ pc'[r] = "seal" /\ draft'[r] = m /\ Own(r) /\ Shape
      /\ UNCHANGED <<guard, exit, manifests, outputs>> /\ op'[Guard(r)] = op[Guard(r)]
  BY ChainQuiet DEF XInv, JInv, Memory, Quiet
<1>2. Hands(r)' /\ GuardHands(r)'
  BY <1>1 DEF Own, Hands, GuardHands, InHand, Putting
<1>3. Ours(r)'
  BY <1>1 DEF Own, Ours, Early
<1>4. Committed(r)'
  BY <1>1 DEF Own, Committed, Saved
<1>5. Left(r)'
  BY <1>1 DEF Own, Left
<1> QED
  BY <1>2, <1>3, <1>4, <1>5 DEF Own

LEMMA StartupOwn ==
  ASSUME XInv, NEW r \in Runs, ChainStep(r),
         \/ Scan(r) \/ ScanFindsNothing(r) \/ Reported(r) \/ LookUp(r)
         \/ Begin(r, "beginHit", "jobHit", "openedHit", "journalHit") \/ BegunHit(r)
         \/ Begin(r, "beginFetch", "jobFetch", "openedFetch", "journalFetch") \/ BegunFetch(r)
  PROVE  Own(r)'
<1> USE DEF Goto, InHand, Putting
<1>1. JInv /\ Main(r) \in Actors /\ op[Main(r)].file \in InHand(pc[r])
  BY Chains DEF XInv, Own, Hands
<1>2. CASE Scan(r)
  BY <1>1, <1>2, Started, Onward DEF Scan, Store!Recover, Keep, memory, Early, Saved
<1>3. CASE ScanFindsNothing(r)
  BY <1>1, <1>3, Onward DEF ScanFindsNothing, Keep, memory, Early, Saved, storeVars
<1>4. CASE Reported(r)
  BY <1>1, <1>4, Landed, Onward DEF Reported, Keep, memory, Early, Saved
<1>5. CASE LookUp(r)
  BY <1>1, <1>5, Onward DEF LookUp, Early, Saved, storeVars
<1>6. CASE Begin(r, "beginHit", "jobHit", "openedHit", "journalHit")
  BY <1>1, <1>6, Started, Landed, Onward DEF Begin, Store!CreateJob, Store!CreateJournal, Keep,
     memory, Early, Saved
<1>7. CASE Begin(r, "beginFetch", "jobFetch", "openedFetch", "journalFetch")
  BY <1>1, <1>7, Started, Landed, Onward DEF Begin, Store!CreateJob, Store!CreateJournal, Keep,
     memory, Early, Saved
<1>8. CASE BegunHit(r)
  BY <1>1, <1>8, Landed, Onward DEF BegunHit, Keep, memory, Early, Saved
<1>9. CASE BegunFetch(r)
  <2>1. /\ pc[r] = "journalFetch" /\ pc'[r] = "attempt" /\ guard'[r] = "armed"
        /\ exit'[r] = exit[r] /\ draft'[r] = draft[r] /\ op'[Main(r)].file = "none"
    BY <1>1, <1>9, Landed DEF BegunFetch, memory, XInv, JInv, Memory, Shape
  <2>2. Own(r) /\ Quiet /\ op'[Guard(r)] = op[Guard(r)] /\ guard[r] = "off"
    BY <2>1, ChainQuiet DEF XInv, Own, Ours, Early
  <2>3. Hands(r)' /\ GuardHands(r)'
    BY <2>1, <2>2 DEF Own, Hands, GuardHands, GuardInHand
  <2>4. Ours(r)'
    BY <2>1, <2>2 DEF Own, Ours, Early
  <2>5. Committed(r)' /\ Left(r)'
    BY <2>1, <2>2 DEF Own, Committed, Left, Ours, Saved, Quiet
  <2> QED
    BY <2>3, <2>4, <2>5 DEF Own
<1> QED
  BY <1>2, <1>3, <1>4, <1>5, <1>6, <1>7, <1>8, <1>9

LEMMA FetchingOwn ==
  ASSUME XInv, NEW r \in Runs, ChainStep(r),
         \/ ServeHit(r) \/ HitLogged(r) \/ DraftHit(r)
         \/ Attempt(r) \/ FetchEmpty(r) \/ BodyStored(r) \/ Finished(r)
         \/ DraftFailure(r) \/ DraftNotModified(r)
         \/ \E o \in Objects : FetchKnown(r, o) \/ FetchNew(r, o)
  PROVE  Own(r)'
<1> USE DEF Goto, InHand, Putting
<1>1. JInv /\ Main(r) \in Actors /\ op[Main(r)].file \in InHand(pc[r])
  BY Chains DEF XInv, Own, Hands
<1>2. CASE ServeHit(r) \/ HitLogged(r)
  BY <1>1, <1>2, Appended, Dropped, Onward DEF ServeHit, HitLogged, Keep, memory, Early, Saved
<1>3. CASE Attempt(r) \/ Finished(r)
  BY <1>1, <1>3, Appended, Dropped, Onward DEF Attempt, Finished, Keep, memory, Early, Saved
<1>4. CASE FetchEmpty(r) \/ \E o \in Objects : FetchKnown(r, o)
  <2>1. UNCHANGED <<storeVars, guard, exit, draft>> /\ pc[r] = "fetching"
        /\ pc' = [pc EXCEPT ![r] = "finish"]
    BY <1>4 DEF FetchEmpty, FetchKnown, Answer, Store!PutKnown, Store!storeVars, storeVars
  <2> QED
    BY <1>1, <2>1, Onward DEF Early, Saved, storeVars
<1>5. CASE \E o \in Objects : FetchNew(r, o)
  BY <1>1, <1>5, Started, Onward DEF FetchNew, Store!PutNew, Keep, memory, Early, Saved
<1>6. CASE BodyStored(r)
  BY <1>1, <1>6, Landed, Onward DEF BodyStored, Answer, Early, Saved
<1>7. ASSUME NEW from, NEW m, Draft(r, from, m), m.run = r, m.status # "interrupted",
             from \in {"served", "decide"}
      PROVE  Own(r)'
  BY <1>1, <1>7, DraftsOwn DEF Draft, storeVars
<1>8. CASE DraftHit(r) \/ DraftFailure(r) \/ DraftNotModified(r)
  BY <1>7, <1>8, JobAssumption DEF DraftHit, DraftFailure, DraftNotModified, Reuse, ManifestOf
<1> QED
  BY <1>2, <1>3, <1>4, <1>5, <1>6, <1>8

LEMMA JudgingOwn ==
  ASSUME XInv, NEW r \in Runs, ChainStep(r),
         \/ DeriveRaw(r) \/ Derived(r) \/ DeriveFails(r) \/ DerivedRefused(r)
         \/ \E o \in Objects : DeriveKnown(r, o) \/ DeriveNew(r, o)
         \/ \E o \in Extracts : ParseKnown(r, o) \/ ParseNew(r, o)
         \/ Transform(r, "transform", "transforming", "judge")
         \/ Parsed(r) \/ ParseRefused(r) \/ NoFallback(r)
         \/ Transform(r, "parsed", "reparsed", "rejudge")
         \/ Transform(r, "rejudge", "skipping", "refused")
         \/ Accept(r) \/ Reject(r)
  PROVE  Own(r)'
<1> USE DEF Goto, InHand, Putting
<1>1. JInv /\ Main(r) \in Actors /\ op[Main(r)].file \in InHand(pc[r])
  BY Chains DEF XInv, Own, Hands
<1>2. CASE \/ DeriveRaw(r) \/ NoFallback(r) \/ \E o \in Objects : DeriveKnown(r, o)
           \/ \E o \in Extracts : ParseKnown(r, o)
  <2>1. /\ UNCHANGED <<storeVars, guard, exit, draft>>
        /\ \/ pc[r] = "decide" /\ pc' = [pc EXCEPT ![r] = "transform"]
           \/ pc[r] = "judge" /\ pc' = [pc EXCEPT ![r] = "parsed"]
    BY <1>2 DEF DeriveRaw, NoFallback, DeriveKnown, ParseKnown, Select, Store!PutKnown,
                Store!storeVars, storeVars
  <2> QED
    BY <1>1, <2>1, Onward DEF Early, Saved, storeVars
<1>3. CASE (\E o \in Objects : DeriveNew(r, o)) \/ \E o \in Extracts : ParseNew(r, o)
  BY <1>1, <1>3, Started, Onward DEF DeriveNew, ParseNew, Store!PutNew, Keep, memory, Early, Saved
<1>4. CASE Derived(r) \/ Parsed(r)
  BY <1>1, <1>4, Landed, Onward DEF Derived, Parsed, Select, Early, Saved
<1>5. CASE Transform(r, "transform", "transforming", "judge")
  BY <1>1, <1>5, Appended, Dropped, Onward DEF Transform, Keep, memory, Early, Saved
<1>6. CASE Transform(r, "parsed", "reparsed", "rejudge")
  BY <1>1, <1>6, Appended, Dropped, Onward DEF Transform, Keep, memory, Early, Saved
<1>7. CASE Transform(r, "rejudge", "skipping", "refused")
  BY <1>1, <1>7, Appended, Dropped, Onward DEF Transform, Keep, memory, Early, Saved
<1>8. CASE DerivedRefused(r)
  <2>1. /\ draft' = [draft EXCEPT ![r] = SourceOnly(r, "output_failure")] /\ UNCHANGED <<guard, exit>>
        /\ pc[r] = "deriving" /\ pc' = [pc EXCEPT ![r] = "seal"]
    BY <1>8 DEF DerivedRefused, DerivedLost
  <2>2. op'[Main(r)].file = "none"
    BY <1>1, <1>8, Dropped DEF DerivedRefused
  <2>3. SourceOnly(r, "output_failure").run = r
        /\ SourceOnly(r, "output_failure").status # "interrupted"
    BY DEF SourceOnly, ManifestOf
  <2> QED
    BY <2>1, <2>2, <2>3, DraftsOwn
<1>9. ASSUME NEW from, NEW m, Draft(r, from, m), m.run = r, m.status # "interrupted",
             from \in {"decide", "judge", "rejudge", "refused"}
      PROVE  Own(r)'
  BY <1>1, <1>9, DraftsOwn DEF Draft, storeVars
<1>10. CASE DeriveFails(r)
  BY <1>9, <1>10 DEF DeriveFails, SourceOnly, ManifestOf
<1>11. CASE Accept(r)
  BY <1>9, <1>11 DEF Accept, ManifestOf
<1>12. CASE Reject(r)
  <2>1. PICK status \in Failures :
          \E from \in {"judge", "rejudge", "refused"} :
             \/ Draft(r, from, SourceOnly(r, status))
             \/ Draft(r, from, ManifestOf(r, status, source[r], None,
                                         {source[r]} \cup Present(artifact[r])))
    BY <1>12 DEF Reject
  <2>2. status # "interrupted"
    BY JobAssumption
  <2> QED
    BY <1>9, <2>1, <2>2 DEF SourceOnly, ManifestOf
<1>13. CASE ParseRefused(r)
  BY <1>1, <1>13, Dropped, Onward DEF ParseRefused, Unparsed, Select, Early, Saved
<1> QED
  BY <1>2, <1>3, <1>4, <1>5, <1>6, <1>7, <1>8, <1>10, <1>11, <1>12, <1>13

LEMMA SealOwn ==
  ASSUME XInv, NEW r \in Runs, Seal(r)
  PROVE  Own(r)'
<1> USE DEF Goto, InHand, Putting
<1>1. /\ JInv /\ Own(r) /\ Main(r) \in Actors /\ Guard(r) \in Actors \ {Main(r)} /\ Shape
      /\ draft' = draft /\ guard' = guard /\ exit' = exit
  BY Chains DEF XInv, Seal, Keep, memory
<1>2. CASE pc[r] = "seal"
  <2>1. /\ Store!Start(Main(r), "manifest", draft[r]) /\ pc'[r] = "sealing"
        /\ draft[r] # None
    BY <1>1, <1>2, Places, NamesAssumption DEF Seal, Store!CommitManifest, JInv, Memory, Ready
  <2>2. Quiet /\ Touch(Main(r)) /\ op'[Main(r)].file = "manifest" /\ op'[Main(r)].value = draft[r]
    BY <1>1, <2>1, Started
  <2> QED
    BY <1>1, <1>2, <2>1, <2>2 DEF Own, Hands, GuardHands, Ours, Committed, Left, Quiet, Touch, Saved,
                             Early
<1>3. CASE pc[r] = "sealing"
  <2>1. /\ Store!Rename(Main(r)) /\ draft[r] # None /\ draft[r].run = r
        /\ op[Main(r)].file = "manifest" /\ op[Main(r)].value = draft[r]
        /\ manifests \in [Runs -> Data!Manifest \cup {None}]
    BY <1>1, <1>3, Places DEF Seal, Own, Hands, Ours, Ready, JInv, Data!TypeOK
  <2>2. /\ manifests'[r] = draft[r] /\ outputs' = outputs
        /\ Touch(Main(r)) /\ op'[Main(r)].file = "none"
    BY <1>1, <2>1, Landed
  <2>3. /\ pc'[r] \in {"done", "publish", "index"}
        /\ pc'[r] = "done" => draft[r].status # "ok" \/ ~ToFile
    BY <1>1, <1>3 DEF Seal, Output, JInv, Memory
  <2>4. Hands(r)' /\ GuardHands(r)'
    BY <1>1, <2>2, <2>3 DEF Own, Hands, GuardHands, Touch
  <2>5. Ours(r)'
    BY <1>1, <1>3, <2>1, <2>2, <2>3 DEF Own, Ours, Early
  <2>6. Left(r)'
    BY <1>1, <1>3, NamesAssumption DEF Own, Ours, Left
  <2>7. Committed(r)'
    BY <1>1, <2>1, <2>2, <2>3 DEF Own, Committed
  <2> QED
    BY <2>4, <2>5, <2>6, <2>7 DEF Own
<1> QED
  BY <1>2, <1>3 DEF Seal

LEMMA IndexOwn ==
  ASSUME XInv, NEW r \in Runs, Index(r)
  PROVE  Own(r)'
<1> USE DEF Goto, InHand, Putting
<1>1. /\ JInv /\ Own(r) /\ Main(r) \in Actors /\ Guard(r) \in Actors \ {Main(r)} /\ Shape
      /\ draft' = draft /\ guard' = guard /\ exit' = exit
  BY Chains DEF XInv, Index, Keep, memory
<1>2. /\ pc[r] \in {"index", "indexing"} /\ draft[r] # None
      /\ pc'[r] \in {"indexing", "publish", "done"} /\ (pc'[r] = "done" => ~ToFile)
  BY <1>1, Places DEF Index, Output, JInv, Memory, Ready, Saved
<1>3. Quiet /\ Touch(Main(r)) /\ op'[Main(r)].file \in InHand(pc'[r])
  BY <1>1, <1>2, Started, Landed DEF Index, Store!CommitCache, Own, Hands, Quiet, Output, JInv,
     Memory
<1>4. Hands(r)' /\ GuardHands(r)'
  BY <1>1, <1>2, <1>3 DEF Own, Hands, GuardHands, Touch
<1>5. Ours(r)' /\ Left(r)' /\ Committed(r)'
  BY <1>1, <1>2, <1>3 DEF Own, Ours, Left, Committed, Early, Saved, Quiet
<1> QED
  BY <1>4, <1>5 DEF Own

LEMMA PublishOwn ==
  ASSUME XInv, NEW r \in Runs, Publish(r)
  PROVE  Own(r)'
<1> USE DEF Goto, InHand, Putting
<1>1. /\ JInv /\ Own(r) /\ Main(r) \in Actors /\ Guard(r) \in Actors \ {Main(r)} /\ Shape
      /\ draft' = draft /\ guard' = guard /\ exit' = exit
  BY Chains DEF XInv, Publish, Keep, memory
<1>2. CASE pc[r] = "publish"
  <2>1. pc'[r] = "publishing" /\ draft[r] # None
    BY <1>1, <1>2, Places DEF Publish, JInv, Memory, Ready, Saved
  <2>2. /\ Quiet /\ Touch(Main(r)) /\ op'[Main(r)].file = "output"
        /\ op'[Main(r)].value = [run |-> r, object |-> draft[r].artifact]
    BY <1>1, <1>2, Started DEF Publish, Store!PublishOutput
  <2> QED
    BY <1>1, <1>2, <2>1, <2>2 DEF Own, Hands, GuardHands, Ours, Committed, Left, Quiet, Touch, Saved,
                             Early
<1>3. CASE pc[r] = "publishing"
  <2>1. /\ Store!Rename(Main(r)) /\ pc'[r] = "done" /\ draft[r] # None
        /\ op[Main(r)].file = "output"
        /\ op[Main(r)].value = [run |-> r, object |-> draft[r].artifact]
        /\ outputs \in [Runs -> Objects \cup {None}]
    BY <1>1, <1>3, Places DEF Publish, Own, Hands, Ready, Saved, JInv, Memory, Data!TypeOK
  <2>2. /\ manifests' = manifests /\ outputs'[r] = draft[r].artifact
        /\ Touch(Main(r)) /\ op'[Main(r)].file = "none"
    BY <1>1, <2>1, Landed
  <2>3. Hands(r)' /\ GuardHands(r)'
    BY <1>1, <2>1, <2>2 DEF Own, Hands, GuardHands, Touch
  <2>4. Ours(r)' /\ Left(r)'
    BY <1>1, <1>3, <2>1, <2>2, NamesAssumption DEF Own, Ours, Left, Early
  <2>5. Committed(r)'
    BY <1>1, <1>3, <2>1, <2>2 DEF Own, Committed, Saved
  <2> QED
    BY <2>3, <2>4, <2>5 DEF Own
<1> QED
  BY <1>2, <1>3 DEF Publish

(* What leaves a chain where it is, or stops it.                            *)
LEMMA StallsOwn ==
  ASSUME XInv, NEW r \in Runs, ChainStep(r),
         \/ Throw(r) \/ Flush(r)
         \/ Unrecovered(r)
         \/ Store!WriteRejects(Main(r)) /\ (DerivedLost(r) \/ Unparsed(r))
         \/ Threw(r) /\ (Store!WriteRejects(Main(r)) \/ Store!AppendFails(Main(r)))
  PROVE  Own(r)'
<1> USE DEF Goto, InHand, Putting
<1>1. /\ JInv /\ Main(r) \in Actors /\ Guard(r) \in Actors \ {Main(r)} /\ Own(r) /\ Shape
      /\ op[Main(r)].file \in InHand(pc[r])
  BY Chains DEF XInv, Own, Hands
<1> DEFINE Drop == Store!Refuse(Main(r)) \/ Store!WriteFails(Main(r)) \/ Store!AppendFails(Main(r))
<1>2. CASE Throw(r) \/ (Threw(r) /\ Drop)
  <2>1. /\ pc'[r] = "threw" /\ pc[r] # "dead" /\ draft' = draft /\ guard' = guard /\ exit' = exit
        /\ Quiet /\ op'[Main(r)].file = "none" /\ op'[Guard(r)] = op[Guard(r)]
    <3>1. /\ pc' = [pc EXCEPT ![r] = "threw"] /\ draft' = draft /\ guard' = guard /\ exit' = exit
          /\ \/ Store!Refuse(Main(r)) \/ Store!WriteFails(Main(r)) \/ Store!AppendFails(Main(r))
             \/ Rejected(r) /\ UNCHANGED storeVars
      BY <1>2 DEF Throw, Threw, Keep, memory
    <3>2. CASE Store!Refuse(Main(r)) \/ Store!WriteFails(Main(r)) \/ Store!AppendFails(Main(r))
      BY <1>1, <3>1, <3>2, Dropped DEF JInv, Memory, Touch
    <3>3. CASE Rejected(r) /\ UNCHANGED storeVars
      BY <1>1, <3>1, <3>3 DEF Rejected, storeVars, Quiet, JInv, Memory
    <3> QED
      BY <3>1, <3>2, <3>3
  <2>2. Hands(r)' /\ GuardHands(r)'
    BY <1>1, <2>1 DEF Own, Hands, GuardHands
  <2>3. Ours(r)' /\ Committed(r)' /\ Left(r)'
    BY <1>1, <2>1 DEF Own, Ours, Committed, Left, Early, Saved, Quiet
  <2> QED
    BY <2>2, <2>3 DEF Own
<1>3. CASE Flush(r)
  <2>1. UNCHANGED <<pc, draft, guard, exit>> /\ Store!Stage(Main(r))
    BY <1>3 DEF Flush, Keep, memory
  <2>2. /\ Quiet /\ Touch(Main(r))
        /\ op'[Main(r)].file = op[Main(r)].file /\ op'[Main(r)].value = op[Main(r)].value
    BY <1>1, <2>1, Staged
  <2>3. Hands(r)' /\ GuardHands(r)'
    BY <1>1, <2>1, <2>2 DEF Own, Hands, GuardHands, Touch
  <2>4. Ours(r)' /\ Committed(r)' /\ Left(r)'
    BY <1>1, <2>1, <2>2 DEF Own, Ours, Committed, Left, Quiet
  <2> QED
    BY <2>3, <2>4 DEF Own
<1>4. CASE Unrecovered(r) \/ (Store!WriteRejects(Main(r)) /\ Unparsed(r))
  <2>1. op'[Main(r)].file = "none" /\ UNCHANGED <<guard, exit, draft>>
    BY <1>1, <1>4, Dropped, Landed DEF Unrecovered, Unparsed, Select, Keep, memory, storeVars,
                                       Store!WriteRejects
  <2>2. \/ pc[r] = "parsing" /\ pc' = [pc EXCEPT ![r] = "parsed"]
        \/ pc[r] \in {"recover", "reporting"} /\ pc' = [pc EXCEPT ![r] = "unrecovered"]
    BY <1>4 DEF Unrecovered, Unparsed
  <2> QED
    BY <1>1, <2>1, <2>2, Onward DEF Early, Saved
<1>5. CASE Store!WriteRejects(Main(r)) /\ DerivedLost(r)
  <2>1. /\ draft' = [draft EXCEPT ![r] = SourceOnly(r, "output_failure")] /\ UNCHANGED <<guard, exit>>
        /\ pc[r] = "deriving" /\ pc' = [pc EXCEPT ![r] = "seal"]
    BY <1>5 DEF DerivedLost
  <2>2. op'[Main(r)].file = "none"
    BY <1>1, <1>5, Dropped, Landed DEF Store!WriteRejects
  <2>3. SourceOnly(r, "output_failure").run = r
        /\ SourceOnly(r, "output_failure").status # "interrupted"
    BY DEF SourceOnly, ManifestOf
  <2> QED
    BY <2>1, <2>2, <2>3, DraftsOwn
<1>6. CASE Threw(r) /\ Store!Rename(Main(r))
  <2>1. /\ pc'[r] = "threw" /\ pc[r] # "dead" /\ draft' = draft /\ guard' = guard /\ exit' = exit
        /\ Touch(Main(r)) /\ op'[Main(r)].file = "none" /\ op'[Guard(r)] = op[Guard(r)]
    <3>1. /\ pc' = [pc EXCEPT ![r] = "threw"] /\ draft' = draft /\ guard' = guard /\ exit' = exit
      BY <1>6 DEF Threw, Keep, memory
    <3> QED
      BY <1>1, <1>6, <3>1, Landed DEF JInv, Memory, Touch, Store!Rename
  <2>2. manifests[r] # None => manifests'[r] # None
    <3>1. op[Main(r)].file = "manifest" =>
            op[Main(r)].value \in Data!Manifest /\ manifests \in [Runs -> Data!Manifest \cup {None}]
      BY <1>1 DEF JInv, Data!TypeOK, Data!ValueOK
    <3> QED
      BY <1>1, <1>6, <3>1, Landed, SameShapes, NamesAssumption
  <2>3. Hands(r)' /\ GuardHands(r)'
    BY <1>1, <2>1 DEF Own, Hands, GuardHands
  <2>4. Ours(r)' /\ Committed(r)' /\ Left(r)'
    BY <1>1, <2>1, <2>2, NamesAssumption DEF Own, Ours, Committed, Left, Early, Saved
  <2> QED
    BY <2>3, <2>4 DEF Own
<1> QED
  BY <1>2, <1>3, <1>4, <1>5, <1>6 DEF Store!WriteRejects

LEMMA LaunchOwn ==
  ASSUME XInv, NEW r \in Runs, NEW m \in Modes, Launch(r, m)
  PROVE  Own(r)'
<1>1. /\ Own(r) /\ pc[r] = "idle" /\ pc'[r] = "recover"
      /\ UNCHANGED <<draft, guard, exit, manifests, outputs, op>>
  BY DEF Launch, Goto, storeVars, XInv, JInv, Memory
<1>2. Hands(r)' /\ GuardHands(r)'
  BY <1>1 DEF Own, Hands, GuardHands, InHand, Putting
<1>3. Ours(r)' /\ Committed(r)' /\ Left(r)'
  BY <1>1 DEF Own, Ours, Committed, Left, Early, Saved
<1> QED
  BY <1>2, <1>3 DEF Own

(* A process ends: with its own result, or cut short.                       *)
LEMMA DiesOwn ==
  ASSUME XInv, NEW r \in Runs, Return(r) \/ Kill(r) \/ Leave(r)
  PROVE  Own(r)'
<1>1. PICK code, last :
        /\ Die(r, code) /\ guard' = [guard EXCEPT ![r] = last]
        /\ \/ Return(r) /\ code = ExitCode(r) /\ last = "off"
           \/ Kill(r) /\ code = "killed" /\ last = "off"
           \/ Leave(r) /\ code = "interrupted"
                /\ last = (IF guard[r] = "leaving" THEN "left" ELSE "leftUnsaved")
  BY DEF Return, Kill, Leave
<1>2. /\ JInv /\ Own(r) /\ Shape /\ Main(r) \in Actors /\ Guard(r) \in Actors
      /\ pc'[r] = "dead" /\ exit'[r] = code /\ guard'[r] = last /\ draft'[r] = None
      /\ code \in Exits \ {None}
  BY <1>1, Chains, NamesAssumption DEF XInv, JInv, Memory, Shape, Die, Exits, ExitCode
<1>3. Quiet /\ op'[Main(r)].file = "none" /\ op'[Guard(r)].file = "none"
  <2>1. CASE Return(r)
    <3>1. UNCHANGED storeVars /\ pc[r] \in {"done", "threw"} /\ guard[r] \in {"off", "armed"}
      BY <2>1 DEF Return
    <3>2. op[Main(r)].file = "none" /\ op[Guard(r)].file = "none"
      BY <1>2, <3>1 DEF Own, Hands, GuardHands, InHand, GuardInHand, Putting
    <3> QED
      BY <3>1, <3>2 DEF storeVars, Quiet
  <2>2. CASE Store!Crash({Main(r), Guard(r)})
    BY <1>2, <2>2 DEF Store!Crash, Store!Idle, Store!Pending, Quiet
  <2> QED
    BY <1>1, <2>1, <2>2 DEF Kill, Leave
<1>4. Hands(r)' /\ GuardHands(r)'
  BY <1>1, <1>2, <1>3 DEF Own, Hands, GuardHands, InHand, GuardInHand, Putting
<1>5. Ours(r)'
  BY <1>1, <1>2 DEF Own, Ours, Early
<1>6. Committed(r)'
  BY <1>1, <1>2, <1>3 DEF Own, Committed, Saved, Quiet, Leave
<1>7. Left(r)'
  <2>1. CASE Return(r) /\ pc[r] = "done"
    <3>1. /\ guard[r] \in {"off", "armed"}
          /\ exit'[r] = IF draft[r].status = "ok" THEN "ok" ELSE "failed"
      BY <1>2, <2>1 DEF Return, ExitCode, Die, Shape
    <3>2. /\ manifests[r] = draft[r] /\ draft[r] # None /\ draft[r].status # "interrupted"
          /\ draft[r].status = "ok" /\ ToFile => outputs[r] = draft[r].artifact
      BY <1>2, <2>1, <3>1 DEF Own, Ours, Committed, Saved
    <3> QED
      BY <1>2, <1>3, <3>1, <3>2 DEF Left, Quiet
  <2>2. CASE code \in {"error", "killed", "interrupted"}
    BY <1>2, <2>2 DEF Left
  <2> QED
    BY <1>1, <2>1, <2>2 DEF Return, ExitCode
<1> QED
  BY <1>4, <1>5, <1>6, <1>7 DEF Own

LEMMA GuardOwn ==
  ASSUME XInv, NEW r \in Runs,
         \/ Interrupt(r) \/ NoteTermination(r) \/ CommitInterrupted(r) \/ GuardFlush(r)
         \/ CommitEnds(r) \/ GuardFault(r)
  PROVE  Own(r)'
<1> USE DEF GuardInHand
<1>1. /\ JInv /\ Own(r) /\ Shape /\ Guard(r) \in Actors /\ Main(r) \in Actors \ {Guard(r)}
      /\ UNCHANGED <<pc, exit, draft>>
  BY Chains DEF XInv, Interrupt, NoteTermination, CommitInterrupted, GuardFlush, CommitEnds,
                GuardFault, GuardGoto, memory
<1>2. ASSUME Quiet, Touch(Guard(r)) \/ UNCHANGED storeVars, NEW to, guard'[r] = to,
             guard[r] \notin {"off", "left", "leftUnsaved"},
             to \notin {"off", "armed", "leaving", "left"},
             op'[Guard(r)].file \in GuardInHand(to),
             to = "committing" => op'[Guard(r)].value.run = r
      PROVE  Own(r)'
  <2>1. op'[Main(r)] = op[Main(r)]
    BY <1>1, <1>2 DEF Touch, storeVars
  <2>2. Hands(r)' /\ GuardHands(r)'
    BY <1>1, <1>2, <2>1 DEF Own, Hands, GuardHands
  <2>3. Ours(r)' /\ Committed(r)' /\ Left(r)'
    BY <1>1, <1>2 DEF Own, Ours, Committed, Left, Quiet
  <2> QED
    BY <2>2, <2>3 DEF Own
<1>3. CASE Interrupt(r)
  <2>1. /\ UNCHANGED storeVars /\ guard[r] = "armed" /\ guard'[r] = "claimed"
    BY <1>1, <1>3 DEF Interrupt, GuardGoto, Shape
  <2>2. Quiet /\ op'[Guard(r)].file = "none"
    BY <1>1, <2>1 DEF storeVars, Quiet, Own, GuardHands
  <2> QED
    BY <1>2, <2>1, <2>2
<1>4. CASE NoteTermination(r)
  <2>1. /\ \/ /\ Store!AppendAttempt(Guard(r), r, {}) /\ guard[r] = "claimed" /\ guard'[r] = "noting"
           \/ /\ Store!AppendLands(Guard(r)) /\ guard[r] = "noting" /\ guard'[r] = "noted"
    BY <1>1, <1>4 DEF NoteTermination, GuardGoto, Shape
  <2> QED
    BY <1>1, <1>2, <2>1, Appended, Dropped
<1>5. CASE CommitInterrupted(r)
  <2>1. /\ Store!Start(Guard(r), "manifest", InterruptedManifest(r))
        /\ guard[r] = "noted" /\ guard'[r] = "committing"
    BY <1>1, <1>5 DEF CommitInterrupted, Store!CommitManifest, GuardGoto, Shape
  <2>2. InterruptedManifest(r).run = r
    BY DEF InterruptedManifest, ManifestOf
  <2> QED
    BY <1>1, <1>2, <2>1, <2>2, Started
<1>6. CASE GuardFlush(r)
  <2>1. Store!Stage(Guard(r)) /\ guard' = guard
    BY <1>6 DEF GuardFlush
  <2>2. op[Guard(r)].file # "none"
    BY <1>1, <2>1 DEF Store!Stage, JInv, Data!TypeOK
  <2>3. guard[r] \in {"noting", "committing"}
    BY <1>1, <2>2 DEF Own, GuardHands
  <2> QED
    BY <1>1, <1>2, <2>1, <2>3, Staged DEF Own, GuardHands
<1>7. CASE GuardFault(r)
  <2>1. \/ /\ Store!AppendFails(Guard(r)) /\ guard[r] = "noting" /\ guard'[r] = "noted"
        \/ /\ Store!WriteRejects(Guard(r)) /\ guard[r] = "committing"
           /\ guard'[r] = "leavingUnsaved"
    BY <1>1, <1>7 DEF GuardFault, GuardGoto, Shape
  <2>2. CASE Store!AppendFails(Guard(r)) \/ Store!WriteFails(Guard(r))
    BY <1>1, <1>2, <2>1, <2>2, Dropped DEF Store!WriteRejects
  <2>3. CASE Store!Rename(Guard(r)) /\ guard[r] = "committing" /\ guard'[r] = "leavingUnsaved"
    <3>1. op[Guard(r)].file = "manifest"
      BY <1>1, <2>3 DEF Own, GuardHands
    <3>2. Touch(Guard(r)) /\ op'[Guard(r)].file = "none" /\ outputs' = outputs
      BY <1>1, <2>3, <3>1, Landed
    <3>3. Hands(r)' /\ GuardHands(r)'
      BY <1>1, <2>3, <3>2 DEF Own, Hands, GuardHands, Touch
    <3>4. Ours(r)' /\ Committed(r)' /\ Left(r)'
      BY <1>1, <2>3, <3>2, NamesAssumption DEF Own, Ours, Committed, Left
    <3> QED
      BY <3>3, <3>4 DEF Own
  <2> QED
    BY <2>1, <2>2, <2>3 DEF Store!WriteRejects, Store!AppendFails, Store!Rename
<1>8. CASE CommitEnds(r)
  <2>1. /\ guard[r] = "committing" /\ guard'[r] = "leaving"
        /\ Store!Rename(Guard(r)) \/ Store!Refuse(Guard(r))
    BY <1>1, <1>8 DEF CommitEnds, GuardGoto, Shape
  <2>2. /\ op[Guard(r)].file = "manifest" /\ op[Guard(r)].value.run = r
        /\ op[Guard(r)].value \in Data!Manifest
        /\ manifests \in [Runs -> Data!Manifest \cup {None}]
    BY <1>1, <2>1 DEF Own, GuardHands, JInv, Data!TypeOK, Data!ValueOK
  <2>3. /\ Touch(Guard(r)) /\ op'[Guard(r)].file = "none" /\ outputs' = outputs
        /\ manifests'[r] # None
    <3>1. CASE Store!Rename(Guard(r))
      BY <1>1, <2>2, <3>1, Landed, SameShapes, NamesAssumption
    <3>2. CASE Store!Refuse(Guard(r))
      BY <1>1, <2>2, <3>2, Dropped DEF Store!Refuse, Store!OnDisk, Quiet
    <3> QED
      BY <2>1, <3>1, <3>2
  <2>4. Hands(r)' /\ GuardHands(r)'
    BY <1>1, <2>1, <2>3 DEF Own, Hands, GuardHands, Touch
  <2>5. Ours(r)'
    BY <1>1, <2>1 DEF Own, Ours
  <2>6. Committed(r)'
    BY <1>1, <2>1, <2>3 DEF Own, Committed
  <2>7. Left(r)'
    BY <1>1, <2>1, NamesAssumption DEF Own, Ours, Left
  <2> QED
    BY <2>4, <2>5, <2>6, <2>7 DEF Own
<1> QED
  BY <1>3, <1>4, <1>5, <1>6, <1>7, <1>8

LEMMA StepOwn ==
  ASSUME XInv, NEW r \in Runs, StepOf(r)
  PROVE  Own(r)'
<1>1. CASE MainStep(r)
  BY <1>1, ChainOps, StartupOwn, FetchingOwn, JudgingOwn, SealOwn, IndexOwn, PublishOwn, StallsOwn,
     DiesOwn DEF MainStep
<1>2. CASE GuardStep(r)
  BY <1>2, GuardOwn, DiesOwn DEF GuardStep
<1>3. CASE Fault(r)
  <2>1. CASE GuardFault(r)
    BY <2>1, GuardOwn
  <2>2. CASE ~GuardFault(r)
    <3>1. ChainStep(r)
      BY <1>3, <2>2 DEF Fault, GuardFault, Unrecovered, Store!WriteRejects, ChainStep, OwnOp, Silent
    <3> QED
      BY <1>3, <2>2, <3>1, StallsOwn DEF Fault, GuardFault
  <2> QED
    BY <2>1, <2>2
<1> QED
  BY <1>1, <1>2, <1>3, LaunchOwn, GuardOwn, DiesOwn DEF StepOf

LEMMA InitXInv == Init => XInv
<1> SUFFICES ASSUME Init PROVE XInv
  OBVIOUS
<1>1. JInv /\ Shape
  BY InitJInv DEF Init, Shape, Exits
<1>2. ASSUME NEW r \in Runs
      PROVE  Own(r)
  BY Chains, NamesAssumption DEF Init, Store!StoreInit, Store!Idle, Store!Pending, Own, Hands,
     GuardHands, Ours, Committed, Left, InHand, GuardInHand, Putting, Early, Saved
<1> QED
  BY <1>1, <1>2 DEF XInv

LEMMA NextXInv == XInv /\ [Next]_vars => XInv'
<1> SUFFICES ASSUME XInv, [Next]_vars PROVE XInv'
  OBVIOUS
<1>1. JInv'
  BY NextJInv DEF XInv
<1>2. CASE UNCHANGED vars
  BY <1>1, <1>2 DEF XInv, vars, Shape, Own, Hands, GuardHands, Ours, Committed, Left
<1>3. CASE Next
  <2>1. PICK r \in Runs : StepOf(r)
    BY <1>3 DEF Next, StepOf
  <2>2. Own(r)' /\ Apart(r) /\ Shape' /\ Elsewhere(r)
    BY <2>1, StepOwn, OthersApart, Steps DEF XInv, Simulates
  <2>3. ASSUME NEW q \in Runs \ {r}
        PROVE  Own(q)'
    BY <2>2 DEF XInv, Elsewhere, Apart, Own, Hands, GuardHands, Ours, Committed, Left
  <2> QED
    BY <1>1, <2>2, <2>3 DEF XInv
<1> QED
  BY <1>2, <1>3

LEMMA JobsInv == Spec => []XInv
BY InitXInv, NextXInv, PTL DEF Spec

(* The exit of a process and the files of its run agree, whatever the       *)
(* pipeline, its guard and other processes do to each other (core.mjs       *)
(* 34-97 and 386-905).                                                      *)
THEOREM ExitsMatchManifests == Spec => []ExitMatchesManifest
<1>1. XInv => ExitMatchesManifest
  <2> SUFFICES ASSUME XInv PROVE ExitMatchesManifest
    OBVIOUS
  <2>1. UrlTypeOK
    BY SameShapes DEF XInv, JInv, Memory, Shape, Exits, UrlTypeOK, Data!TypeOK, Store!TypeOK,
       Data!ValueOK, Store!ValueOK, Data!Journal, Store!Journal, Data!Report, Store!Report,
       Data!Phase, Store!Phase, Data!File, Store!File, Data!Value, Store!Value, Data!Output,
       Store!Output, Data!Line, Store!Line
  <2> QED
    BY <2>1 DEF XInv, Own, Left, Committed, ExitMatchesManifest
<1> QED
  BY <1>1, JobsInv, PTL

-----------------------------------------------------------------------------
(* Recovery reports.  With one process at a time nobody can crash between   *)
(* the scan of a run and the rename of its report but the run itself.       *)

OneLive == \A p, q \in Live : p = q

Covers(found) == Crashed \subseteq Named(found)

RInv ==
  /\ XInv /\ OneLive
  /\ \A r \in Runs : pc[r] = "reporting" => Covers(op[Main(r)].value)

(* What a writer does to its report in hand, to the report and to the jobs. *)
LEMMA ReportInHand ==
  ASSUME JInv, NEW r \in Runs, NEW w \in Actors, OwnOp(r, w), op'[w].file = "report"
  PROVE  \/ op[w].file = "report" /\ op'[w].value = op[w].value
         \/ op'[w].value = Store!ScanResult
<1> USE DEF OwnOp, Silent
<1>1. CASE Store!Recover(w)
  BY <1>1, Started DEF Store!Recover
<1>2. CASE Store!Stage(w)
  BY <1>2, Staged
<1>3. CASE Store!Rename(w)
  BY <1>3, Landed
<1>4. CASE Store!Refuse(w) \/ Store!WriteFails(w) \/ Store!AppendLands(w) \/ Store!AppendFails(w)
  BY <1>4, Dropped
<1>5. CASE \E refs : Store!AppendAttempt(w, r, refs)
  BY <1>5, Appended
<1>6. CASE \E q, o : Store!PutKnown(w, q, o)
  BY <1>6 DEF Store!PutKnown, Store!storeVars
<1>7. ASSUME NEW file \in {"job", "journal", "object", "output", "manifest", "cache"}, NEW value,
             Store!Start(w, file, value)
      PROVE  FALSE
  BY <1>7, Started
<1> QED
  BY <1>1, <1>2, <1>3, <1>4, <1>5, <1>6, <1>7 DEF Store!CreateJob, Store!CreateJournal, Store!PutNew,
     Store!PublishOutput, Store!CommitManifest, Store!CommitCache

LEMMA OwnOpLands ==
  ASSUME NEW r \in Runs, NEW w, OwnOp(r, w)
  PROVE  \/ jobs' = jobs /\ report' = report
         \/ /\ Store!Rename(w)
            /\ jobs' = IF op[w].file = "job" THEN jobs \cup {op[w].value} ELSE jobs
            /\ report' = IF op[w].file = "report" THEN op[w].value ELSE report
BY DEF OwnOp, Silent, Store!Rename, Store!Recover, Store!CreateJob, Store!CreateJournal, Store!PutNew,
       Store!PutKnown, Store!PublishOutput, Store!CommitManifest, Store!CommitCache, Store!Start,
       Store!Stage, Store!Refuse, Store!WriteFails, Store!AppendLands, Store!AppendFails,
       Store!AppendAttempt, Store!disk, Store!storeVars

(* A run begins only itself, and reports only what its chain has in hand.   *)
LEMMA OwnReport ==
  ASSUME XInv, NEW r \in Runs, StepOf(r)
  PROVE  /\ jobs' \subseteq jobs \cup {r}
         /\ report' # report => pc[r] = "reporting" /\ report' = op[Main(r)].value
<1>1. \/ UNCHANGED storeVars
      \/ \E w \in {Main(r), Guard(r)} : OwnOp(r, w)
      \/ Store!Crash({Main(r), Guard(r)})
  BY ChainOps, OtherOps DEF StepOf, ChainStep
<1>2. CASE UNCHANGED storeVars \/ Store!Crash({Main(r), Guard(r)})
  BY <1>2 DEF storeVars, Store!Crash
<1>3. CASE \E w \in {Main(r), Guard(r)} : OwnOp(r, w)
  <2>1. PICK w \in {Main(r), Guard(r)} : OwnOp(r, w)
    BY <1>3
  <2>2. /\ op[w].file = "job" => op[w].value = r
        /\ op[w].file = "report" => w = Main(r) /\ pc[r] = "reporting"
    BY DEF XInv, Own, Hands, GuardHands, InHand, GuardInHand, Putting
  <2> QED
    BY <2>1, <2>2, OwnOpLands
<1> QED
  BY <1>1, <1>2, <1>3

(* Only a live process takes a step, other than to be launched.             *)
LEMMA OnlyLive ==
  ASSUME XInv, NEW r \in Runs, StepOf(r), ~ \E m \in Modes : Launch(r, m)
  PROVE  r \in Live
<1> SUFFICES ASSUME pc[r] \in {"idle", "dead"} PROVE FALSE
  BY DEF Live, XInv, Own, Ours
<1>1. /\ guard[r] \in {"off", "left", "leftUnsaved"}
      /\ op[Main(r)].phase = "idle" /\ op[Guard(r)].phase = "idle"
  <2>1. guard[r] \in {"off", "left", "leftUnsaved"}
    BY DEF XInv, Own, Ours, Early
  <2>2. op[Main(r)].file = "none" /\ op[Guard(r)].file = "none"
    BY <2>1 DEF XInv, Own, Hands, GuardHands, InHand, GuardInHand, Putting
  <2> QED
    BY <2>1, <2>2, Chains DEF XInv, JInv, Data!TypeOK
<1>2. ASSUME NEW w \in {Main(r), Guard(r)}
      PROVE  /\ ~Store!Stage(w) /\ ~Store!Refuse(w) /\ ~Store!WriteFails(w)
             /\ ~Store!AppendFails(w) /\ ~Store!WriteRejects(w)
  BY <1>1, <1>2 DEF Store!WriteRejects, Store!Rename, Store!Stage, Store!Refuse, Store!WriteFails, Store!AppendFails
<1>3. CASE MainStep(r)
  BY <1>2, <1>3 DEF MainStep, Goto, Scan, ScanFindsNothing, Reported, LookUp, Begin, BegunHit,
     BegunFetch, ServeHit, HitLogged, DraftHit, Draft, Attempt, FetchEmpty, BodyStored, Finished,
     DraftFailure, DraftNotModified, DeriveRaw, Derived, DeriveFails, DerivedRefused, FetchKnown,
     FetchNew, DeriveKnown, DeriveNew, ParseKnown, ParseNew, Transform, Parsed, ParseRefused,
     NoFallback, Accept, Reject, Seal, Index, Publish, Throw, Rejected, Flush, Return
<1>4. CASE GuardStep(r) \/ Interrupt(r) \/ Kill(r)
  BY <1>1, <1>2, <1>4 DEF GuardStep, NoteTermination, CommitInterrupted, GuardFlush, CommitEnds, Leave,
     Interrupt, GuardGoto, Kill, Live, XInv, Own, Ours
<1>5. CASE Fault(r)
  BY <1>2, <1>5 DEF Fault, Unrecovered, Goto
<1> QED
  BY <1>3, <1>4, <1>5 DEF StepOf

LEMMA OneLiveKept ==
  ASSUME RInv, MaxLive = 1, NEW r \in Runs, StepOf(r)
  PROVE  /\ \A q \in Live : q = r
         /\ OneLive'
<1>1. \A q \in Live : q = r
  <2>1. CASE \E m \in Modes : Launch(r, m)
    <3>1. Cardinality(Live) < 1
      BY <2>1 DEF Launch
    <3>2. ASSUME NEW q \in Live PROVE FALSE
      <4>1. Live = {q}
        BY <3>2 DEF RInv, OneLive
      <4>2. Cardinality({q}) = 1
        BY FS_Singleton
      <4> QED
        BY <3>1, <4>1, <4>2
    <3> QED
      BY <3>2
  <2>2. CASE ~ \E m \in Modes : Launch(r, m)
    BY <2>2, OnlyLive DEF RInv, OneLive
  <2> QED
    BY <2>1, <2>2
<1>2. \A q \in Runs \ {r} : pc'[q] = pc[q] /\ exit'[q] = exit[q]
  BY Steps, OthersApart DEF RInv, XInv, Simulates, Elsewhere, Apart
<1>3. \A q \in Live' : q = r
  BY <1>1, <1>2 DEF Live
<1> QED
  BY <1>1, <1>3 DEF OneLive

LEMMA AwaitedKept ==
  ASSUME RInv, MaxLive = 1, NEW r \in Runs, StepOf(r), XInv', NEW q \in Runs, pc'[q] = "reporting"
  PROVE  Covers(op[Main(q)].value)'
<1>1. XInv /\ JInv /\ Apart(r) /\ Elsewhere(r)
  BY Steps, OthersApart DEF RInv, XInv, Simulates
<1>2. q = r
  BY <1>1, OneLiveKept DEF Elsewhere, XInv, Own, Ours, Live, RInv
<1>3. Crashed' \subseteq Crashed
  <2>1. exit'[r] = None
    BY <1>2 DEF XInv, Own, Ours
  <2> SUFFICES ASSUME NEW p \in jobs', exit'[p] # None, manifests'[p] = None
               PROVE  p \in jobs /\ exit[p] # None /\ manifests[p] = None
    BY DEF Crashed
  <2>2. p \in jobs /\ p # r /\ p \in Runs
    BY <1>1, <2>1, OwnReport DEF JInv, Data!TypeOK
  <2> QED
    BY <1>1, <2>2 DEF Apart
<1>4. /\ op[Main(r)].file = "report" => Covers(op[Main(r)].value)
      /\ op'[Main(r)].file = "report"
  BY <1>1, <1>2 DEF RInv, XInv, Own, Hands, InHand, Putting
<1>5. Covers(Store!ScanResult)
  BY <1>1 DEF Covers, Named, Crashed, Store!ScanResult, Store!Unfinished, JInv, Data!TypeOK
<1>6. \/ op'[Main(r)] = op[Main(r)]
      \/ OwnOp(r, Main(r))
  <2>1. \/ UNCHANGED storeVars
        \/ \E w \in {Main(r), Guard(r)} : OwnOp(r, w)
        \/ Store!Crash({Main(r), Guard(r)})
    BY ChainOps, OtherOps DEF StepOf, ChainStep
  <2>2. CASE Store!Crash({Main(r), Guard(r)})
    BY <1>4, <2>2, Chains DEF Store!Crash, Store!Idle, Store!Pending
  <2>3. CASE OwnOp(r, Guard(r))
    BY <1>1, <2>3, Chains, OwnOpApart DEF Touch
  <2> QED
    BY <2>1, <2>2, <2>3 DEF storeVars
<1>7. Covers(op'[Main(r)].value)
  BY <1>1, <1>4, <1>5, <1>6, ReportInHand, Chains
<1> QED
  BY <1>2, <1>3, <1>7 DEF Covers, Named

LEMMA NextRInv ==
  ASSUME MaxLive = 1
  PROVE  RInv /\ [Next]_vars => RInv'
<1> SUFFICES ASSUME RInv, [Next]_vars PROVE RInv'
  OBVIOUS
<1>1. XInv'
  BY NextXInv DEF RInv
<1>2. CASE UNCHANGED vars
  BY <1>1, <1>2 DEF RInv, OneLive, Live, Covers, Crashed, vars
<1>3. CASE Next
  <2>1. PICK r \in Runs : StepOf(r)
    BY <1>3 DEF Next, StepOf
  <2> QED
    BY <1>1, <2>1, OneLiveKept, AwaitedKept DEF RInv
<1> QED
  BY <1>2, <1>3

(* A run comes to the lookup with a report only after a scan that found     *)
(* nothing, or once its report has landed.                                  *)
LEMMA PassesOver ==
  ASSUME XInv, NEW r \in Runs, StepOf(r), pc[r] # "lookup", pc'[r] = "lookup"
  PROVE  \/ pc[r] = "recover" /\ Store!NothingToReport
         \/ pc[r] = "reporting" /\ Store!Rename(Main(r))
<1>1. \A to : pc' = [pc EXCEPT ![r] = to] => to = "lookup"
  BY DEF XInv, JInv, Memory
<1>2. CASE MainStep(r)
  BY <1>1, <1>2 DEF MainStep, Goto, Scan, ScanFindsNothing, Reported, LookUp, Begin, BegunHit,
     BegunFetch, ServeHit, HitLogged, DraftHit, Draft, Attempt, FetchEmpty, BodyStored, Finished,
     DraftFailure, DraftNotModified, DeriveRaw, Derived, DeriveFails, DerivedRefused, FetchKnown,
     DerivedLost, FetchNew, DeriveKnown, DeriveNew, ParseKnown, ParseNew, Transform, Parsed,
     ParseRefused, Unparsed, NoFallback, Accept, Reject, Seal, Output, Index, Publish, Throw, Threw,
     Rejected, Flush, Return, Die
<1>3. CASE GuardStep(r) \/ Interrupt(r) \/ Kill(r)
  BY <1>1, <1>3 DEF GuardStep, NoteTermination, CommitInterrupted, GuardFlush, CommitEnds, Leave,
     Interrupt, GuardGoto, Kill, Die
<1>4. CASE Fault(r) \/ \E m \in Modes : Launch(r, m)
  BY <1>1, <1>4 DEF Fault, Unrecovered, Launch, Goto, Threw, DerivedLost, Unparsed, GuardGoto
<1> QED
  BY <1>2, <1>3, <1>4 DEF StepOf

(* With one process at a time, the report that lands names every run that   *)
(* died unsealed, and a process goes on without one only if there was none, *)
(* or if its scan or its write failed (recoverIncompleteRuns, called once   *)
(* by each process through recoverOnce).                                    *)
THEOREM ReportsNameEveryCrash ==
  ASSUME MaxLive = 1
  PROVE  Spec => ReportNamesEveryCrash
<1> DEFINE Tells(r) ==
      pc[r] # "lookup" /\ pc'[r] = "lookup" =>
        IF pc[r] = "reporting" THEN Crashed \subseteq Named(report') ELSE Crashed = {}
<1>1. Init => RInv
  <2> SUFFICES ASSUME Init PROVE RInv
    OBVIOUS
  <2>1. \A r \in Runs : pc[r] = "idle"
    BY DEF Init
  <2> QED
    BY <2>1, InitXInv DEF RInv, OneLive, Live
<1>2. RInv /\ [Next]_vars => RInv'
  BY NextRInv
<1>3. RInv /\ [Next]_vars =>
        [/\ report' # report => Crashed \subseteq Named(report')
         /\ \A r \in Runs : Tells(r)]_<<report, pc>>
  <2> SUFFICES ASSUME RInv, Next
               PROVE  /\ report' # report => Crashed \subseteq Named(report')
                      /\ \A q \in Runs : Tells(q)
    BY DEF vars
  <2>1. PICK r \in Runs : StepOf(r)
    BY DEF Next, StepOf
  <2>2. report' # report => Crashed \subseteq Named(report')
    BY <2>1, OwnReport DEF RInv, Covers
  <2>3. ASSUME NEW q \in Runs, pc[q] # "lookup", pc'[q] = "lookup"
        PROVE  IF pc[q] = "reporting" THEN Crashed \subseteq Named(report') ELSE Crashed = {}
    <3>1. q = r
      BY <2>1, <2>3, Steps DEF RInv, XInv, Simulates, Elsewhere
    <3>2. CASE pc[q] = "recover" /\ Store!NothingToReport
      BY <3>2 DEF Store!NothingToReport, Store!ScanResult, Store!Unfinished, Crashed, RInv, XInv, JInv,
         Data!TypeOK
    <3>3. CASE pc[q] = "reporting" /\ Store!Rename(Main(q))
      <4>1. op[Main(q)].file = "report"
        BY <3>3 DEF RInv, XInv, Own, Hands, InHand, Putting
      <4>2. report' = op[Main(q)].value
        BY <3>3, <4>1 DEF Store!Rename
      <4> QED
        BY <3>3, <4>2 DEF RInv, Covers
    <3> QED
      BY <2>1, <2>3, <3>1, <3>2, <3>3, PassesOver DEF RInv
  <2> QED
    BY <2>2, <2>3
<1> QED
  BY <1>1, <1>2, <1>3, PTL DEF Spec, ReportNamesEveryCrash

=============================================================================
