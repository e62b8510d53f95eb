------------------------- MODULE EvidenceStore_proofs -------------------------
(***************************************************************************)
(* Proofs about EvidenceStore, for any number of runs, objects, writers,   *)
(* manifests and journal lines.                                            *)
(***************************************************************************)
EXTENDS EvidenceStore, TLAPS

-----------------------------------------------------------------------------
(* Types.                                                                   *)

(* A value that a file can hold is one an operation can carry.              *)
LEMMA ValueOKIsValue ==
  ASSUME NEW file \in File \ {"none"}, NEW value, ValueOK(file, value)
  PROVE  value \in Value
BY DEF File, ValueOK, Value

(* Starting an operation keeps the types, if the value fits the file.       *)
LEMMA StartTyped ==
  ASSUME TypeOK, NEW w \in Writers, NEW file \in File \ {"none", "line"}, NEW value,
         ValueOK(file, value), Start(w, file, value)
  PROVE  TypeOK'
<1>1. value \in Value
  BY ValueOKIsValue
<1>2. op' = [op EXCEPT ![w] = [phase |-> "check", file |-> file, value |-> value]]
  BY DEF Start, Pending
<1>3. op' \in [Writers -> [phase: Phase, file: File, value: Value]]
  BY <1>1, <1>2 DEF TypeOK, Phase
<1>4. ASSUME NEW v \in Writers
      PROVE  /\ ValueOK(op'[v].file, op'[v].value)
             /\ (op'[v].phase = "append") <=> (op'[v].file = "line")
             /\ (op'[v].phase = "idle") <=> (op'[v].file = "none")
  <2>1. CASE v = w
    BY <1>2, <2>1 DEF TypeOK, File
  <2>2. CASE v # w
    BY <1>2, <2>2 DEF TypeOK
  <2> QED BY <2>1, <2>2
<1> QED
  BY <1>3, <1>4 DEF TypeOK, Start, disk, ValueOK

(* So does ending one, if what it left on the disk is well-formed.          *)
LEMMA EndTyped ==
  ASSUME TypeOK, NEW w \in Writers, op' = [op EXCEPT ![w] = Idle],
         jobs' \subseteq Runs,
         journals' \in [Runs -> Journal],
         objects' \in [Objects -> {"absent", "intact", "damaged"}],
         manifests' \in [Runs -> Manifest \cup {None}],
         cache' \in CacheRecord \cup {None},
         report' \in Report \cup {None},
         outputs' \in [Runs -> Objects \cup {None}]
  PROVE  TypeOK'
<1>1. op' = [op EXCEPT ![w] = [phase |-> "idle", file |-> "none", value |-> None]]
  BY DEF Idle, Pending
<1>2. op' \in [Writers -> [phase: Phase, file: File, value: Value]]
  BY <1>1 DEF TypeOK, Phase, File, Value
<1>3. ASSUME NEW v \in Writers
      PROVE  /\ ValueOK(op'[v].file, op'[v].value)
             /\ (op'[v].phase = "append") <=> (op'[v].file = "line")
             /\ (op'[v].phase = "idle") <=> (op'[v].file = "none")
  <2>1. CASE v = w
    BY <1>1, <2>1 DEF TypeOK, ValueOK
  <2>2. CASE v # w
    BY <1>1, <2>2 DEF TypeOK
  <2> QED BY <2>1, <2>2
<1> QED
  BY <1>2, <1>3 DEF TypeOK, ValueOK

(* A failed, refused or idle step leaves the disk alone.                    *)
LEMMA EndUntouchedTyped ==
  ASSUME TypeOK, NEW w \in Writers, op' = [op EXCEPT ![w] = Idle], UNCHANGED disk
  PROVE  TypeOK'
<1> QED
  BY EndTyped DEF TypeOK, disk

(* Journal lines and cuts keep a journal a journal.                         *)
LEMMA JournalTyped ==
  ASSUME NEW j \in Journal, NEW refs \in SUBSET (Objects \cup {ManifestName})
  PROVE  WithLine(j, refs) \in Journal /\ Torn(j) \in Journal
BY DEF Journal, WithLine, Torn

LEMMA RenameTyped ==
  ASSUME TypeOK, NEW w \in Writers, Rename(w)
  PROVE  TypeOK'
<1> DEFINE file == op[w].file
           value == op[w].value
<1>1. ValueOK(file, value) /\ op' = [op EXCEPT ![w] = Idle]
  BY DEF TypeOK, Rename
<1>2. jobs' \subseteq Runs
  BY <1>1 DEF TypeOK, Rename, ValueOK
<1>3. journals' \in [Runs -> Journal]
  BY <1>1 DEF TypeOK, Rename, ValueOK, Journal
<1>4. objects' \in [Objects -> {"absent", "intact", "damaged"}]
  BY <1>1 DEF TypeOK, Rename, ValueOK
<1>5. manifests' \in [Runs -> Manifest \cup {None}]
  BY <1>1 DEF TypeOK, Rename, ValueOK, Manifest
<1>6. cache' \in CacheRecord \cup {None}
  BY <1>1 DEF TypeOK, Rename, ValueOK
<1>7. report' \in Report \cup {None}
  BY <1>1 DEF TypeOK, Rename, ValueOK
<1>8. outputs' \in [Runs -> Objects \cup {None}]
  BY <1>1 DEF TypeOK, Rename, ValueOK, Output
<1> QED
  BY <1>1, <1>2, <1>3, <1>4, <1>5, <1>6, <1>7, <1>8, EndTyped

LEMMA AppendTyped ==
  ASSUME TypeOK, NEW w \in Writers, NEW r \in Runs,
         NEW refs \in SUBSET (Objects \cup {ManifestName}), AppendAttempt(w, r, refs)
  PROVE  TypeOK'
<1> DEFINE line == [run |-> r, refs |-> refs]
<1>1. line \in Line
  BY DEF Line
<1>2. op' = [op EXCEPT ![w] = [phase |-> "append", file |-> "line", value |-> line]]
  BY DEF AppendAttempt, Pending
<1> HIDE DEF line
<1>3. op' \in [Writers -> [phase: Phase, file: File, value: Value]]
  BY <1>1, <1>2 DEF TypeOK, Phase, File, Value
<1>4. ASSUME NEW v \in Writers
      PROVE  /\ ValueOK(op'[v].file, op'[v].value)
             /\ (op'[v].phase = "append") <=> (op'[v].file = "line")
             /\ (op'[v].phase = "idle") <=> (op'[v].file = "none")
  <2>1. CASE v = w
    BY <1>1, <1>2, <2>1 DEF TypeOK, ValueOK
  <2>2. CASE v # w
    BY <1>2, <2>2 DEF TypeOK
  <2> QED BY <2>1, <2>2
<1> QED
  BY <1>3, <1>4 DEF TypeOK, AppendAttempt, disk, ValueOK

(* What AppendLands and AppendFails leave in the journal.                   *)
LEMMA AppendEndTyped ==
  ASSUME TypeOK, NEW w \in Writers, AppendLands(w) \/ AppendFails(w)
  PROVE  TypeOK'
<1> DEFINE line == op[w].value
           j == journals[line.run]
<1>1. line.run \in Runs /\ line.refs \in SUBSET (Objects \cup {ManifestName})
  <2>1. ValueOK(op[w].file, op[w].value) /\ op[w].file = "line"
    BY DEF TypeOK, AppendLands, AppendFails
  <2> QED BY <2>1 DEF ValueOK, Line
<1>2. j \in Journal
  BY <1>1 DEF TypeOK
<1>3. j \in Journal /\ WithLine(j, line.refs) \in Journal /\ Torn(j) \in Journal
  BY <1>1, <1>2, JournalTyped
<1>4. \E k \in Journal : journals' = [journals EXCEPT ![line.run] = k]
  BY <1>3 DEF AppendLands, AppendFails
<1>5. journals' \in [Runs -> Journal]
  BY <1>4 DEF TypeOK
<1> QED
  BY <1>5, EndTyped DEF TypeOK, AppendLands, AppendFails

(* A crash leaves the journals of the runs well-formed.                     *)
LEMMA CrashTyped ==
  ASSUME TypeOK, NEW W \in SUBSET Writers, Crash(W)
  PROVE  TypeOK'
<1> DEFINE cut == {w \in W : op[w].phase = "append"}
           appending(r) == {w \in cut : op[w].value.run = r}
<1>1. PICK fate \in [cut -> {"lost", "torn", "whole"}] :
        journals' = [r \in Runs |->
          [exists |-> journals[r].exists,
           torn |-> journals[r].torn \/ \E w \in appending(r) : fate[w] = "torn",
           refs |-> journals[r].refs \cup
                      UNION {op[w].value.refs : w \in {v \in appending(r) : fate[v] = "whole"}}]]
  BY DEF Crash
<1>2. ASSUME NEW w \in cut
      PROVE  op[w].value.refs \in SUBSET (Objects \cup {ManifestName})
  <2>1. ValueOK(op[w].file, op[w].value) /\ op[w].file = "line"
    BY DEF TypeOK
  <2> QED BY <2>1 DEF ValueOK, Line
<1>3. ASSUME NEW r \in Runs
      PROVE  journals'[r] \in Journal
  <2>1. UNION {op[w].value.refs : w \in {v \in appending(r) : fate[v] = "whole"}}
          \in SUBSET (Objects \cup {ManifestName})
    BY <1>2
  <2>2. journals[r] \in Journal
    BY DEF TypeOK
  <2> QED BY <1>1, <2>1, <2>2 DEF Journal
<1>4. journals' \in [Runs -> Journal]
  BY <1>1, <1>3
<1>5. op' \in [Writers -> [phase: Phase, file: File, value: Value]]
  BY DEF TypeOK, Crash, Idle, Pending, Phase, File, Value
<1>6. ASSUME NEW v \in Writers
      PROVE  /\ ValueOK(op'[v].file, op'[v].value)
             /\ (op'[v].phase = "append") <=> (op'[v].file = "line")
             /\ (op'[v].phase = "idle") <=> (op'[v].file = "none")
  BY DEF TypeOK, Crash, Idle, Pending, ValueOK
<1> QED
  BY <1>4, <1>5, <1>6 DEF TypeOK, Crash, ValueOK

(* Each call hands the store a value that fits the file it asks for.        *)
LEMMA CallTyped ==
  ASSUME TypeOK, NEW w \in Writers, Call(w)
  PROVE  TypeOK'
<1>1. ASSUME NEW r \in Runs, CreateJob(w, r)
      PROVE  TypeOK'
  BY <1>1, StartTyped DEF CreateJob, ValueOK, File
<1>2. ASSUME NEW r \in Runs, CreateJournal(w, r)
      PROVE  TypeOK'
  BY <1>2, StartTyped DEF CreateJournal, ValueOK, File
<1>3. ASSUME NEW r \in Runs, NEW o \in Objects, PutNew(w, r, o)
      PROVE  TypeOK'
  BY <1>3, StartTyped DEF PutNew, ValueOK, File
<1>4. ASSUME NEW r \in Runs, NEW o \in Objects, PutKnown(w, r, o)
      PROVE  TypeOK'
  BY <1>4 DEF PutKnown, storeVars, TypeOK, ValueOK
<1>5. ASSUME NEW r \in Runs, NEW o \in Objects, PublishOutput(w, r, o)
      PROVE  TypeOK'
  <2>1. [run |-> r, object |-> o] \in Output
    BY DEF Output
  <2> QED BY <1>5, <2>1, StartTyped DEF PublishOutput, ValueOK, File
<1>6. ASSUME NEW r \in Runs, NEW refs \in Lines, AppendAttempt(w, r, refs)
      PROVE  TypeOK'
  BY <1>6, AppendTyped, StoreAssumption
<1>7. ASSUME NEW m \in Submissions, CommitManifest(w, m)
      PROVE  TypeOK'
  BY <1>7, StartTyped, StoreAssumption DEF CommitManifest, ValueOK, File
<1>8. ASSUME NEW c \in CallerRecords, CommitCache(w, c)
      PROVE  TypeOK'
  <2>1. c \in CacheRecord
    BY StoreAssumption DEF CallerRecords, CacheRecord
  <2> QED BY <1>8, <2>1, StartTyped DEF CommitCache, ValueOK, File
<1>9. CASE Recover(w)
  <2>1. ScanResult \in Report
    BY DEF ScanResult, Report
  <2> QED BY <1>9, <2>1, StartTyped DEF Recover, ValueOK, File
<1> QED
  BY <1>1, <1>2, <1>3, <1>4, <1>5, <1>6, <1>7, <1>8, <1>9 DEF Call

LEMMA InitTyped == StoreInit => TypeOK
BY DEF StoreInit, TypeOK, Journal, Idle, Pending, Phase, File, Value, ValueOK

LEMMA NextTyped == TypeOK /\ [StoreNext]_storeVars => TypeOK'
<1> SUFFICES ASSUME TypeOK, [StoreNext]_storeVars
             PROVE  TypeOK'
  OBVIOUS
<1>1. ASSUME NEW w \in Writers, Call(w)
      PROVE  TypeOK'
  BY <1>1, CallTyped
<1>2. ASSUME NEW w \in Writers, Progress(w)
      PROVE  TypeOK'
  <2>1. CASE Stage(w)
    <3> DEFINE file == op[w].file
               value == op[w].value
    <3>1. op' = [op EXCEPT ![w] = [phase |-> "rename", file |-> file, value |-> value]]
      BY <2>1 DEF Stage, Pending
    <3>2. op' \in [Writers -> [phase: Phase, file: File, value: Value]]
      BY <3>1 DEF TypeOK, Phase
    <3>3. ASSUME NEW v \in Writers
          PROVE  /\ ValueOK(op'[v].file, op'[v].value)
                 /\ (op'[v].phase = "append") <=> (op'[v].file = "line")
                 /\ (op'[v].phase = "idle") <=> (op'[v].file = "none")
      BY <2>1, <3>1 DEF TypeOK, Stage
    <3> QED BY <2>1, <3>2, <3>3 DEF TypeOK, Stage, disk, ValueOK
  <2>2. CASE Refuse(w) \/ WriteFails(w)
    BY <2>2, EndUntouchedTyped DEF Refuse, WriteFails
  <2>3. CASE Rename(w)
    BY <2>3, RenameTyped
  <2>4. CASE AppendLands(w) \/ AppendFails(w)
    BY <2>4, AppendEndTyped
  <2> QED BY <1>2, <2>1, <2>2, <2>3, <2>4 DEF Progress
<1>3. ASSUME NEW W \in SUBSET Writers, Crash(W)
      PROVE  TypeOK'
  BY <1>3, CrashTyped
<1>4. ASSUME NEW o \in Objects, Damage(o)
      PROVE  TypeOK'
  BY <1>4 DEF Damage, TypeOK, ValueOK
<1>5. CASE UNCHANGED storeVars
  BY <1>5 DEF storeVars, TypeOK, ValueOK
<1> QED
  BY <1>1, <1>2, <1>3, <1>4, <1>5 DEF StoreNext

(* The files and the operations in flight keep their types, whatever the    *)
(* callers submit and whoever dies.                                         *)
THEOREM StoreTyped == StoreSpec => []TypeOK
<1>1. StoreInit => TypeOK
  BY InitTyped
<1>2. TypeOK /\ [StoreNext]_storeVars => TypeOK'
  BY NextTyped
<1> QED
  BY <1>1, <1>2, PTL DEF StoreSpec

-----------------------------------------------------------------------------
(* Safety, and the refinement of RunLedger.  A validation and the rename it *)
(* allows are two steps, so each property needs to know that what a writer  *)
(* validated still holds when it renames: that is InFlight.  It stays true  *)
(* because the store only grows.                                            *)

(* What the pending operation of w relies on.                               *)
InFlight(w) ==
  /\ op[w].file = "manifest" => op[w].value.run \in jobs /\ Stored(op[w].value)
  /\ op[w].file = "cache" => Bound(op[w].value)
  /\ op[w].file = "journal" => ~journals[op[w].value].exists

(* A run's journal is created by one writer.                                *)
OneCreator ==
  \A v, w \in Writers :
    op[v].file = "journal" /\ op[w].file = "journal" /\ op[v].value = op[w].value => v = w

Inv ==
  /\ TypeOK
  /\ EvidencePresent
  /\ CacheBehindManifest
  /\ \A w \in Writers : InFlight(w)
  /\ OneCreator

(* No step takes a job, an object or a manifest away.                       *)
Grows ==
  /\ jobs \subseteq jobs'
  /\ \A o \in Objects : objects[o] # "absent" => objects'[o] # "absent"
  /\ \A r \in Runs : manifests[r] # None => manifests'[r] # None

(* A journal keeps its existence, its cut and its lines.                    *)
JournalGrows(r) ==
  journals[r].exists =>
    /\ journals'[r].exists
    /\ journals[r].torn => journals'[r].torn
    /\ journals[r].refs \subseteq journals'[r].refs

-----------------------------------------------------------------------------
(* What one step can do.                                                    *)

(* To an operation in flight: nothing, end it, stage it, or start one whose *)
(* validation has just succeeded.                                           *)
LEMMA OpStep ==
  ASSUME TypeOK, [StoreNext]_storeVars, NEW v \in Writers
  PROVE  \/ op'[v] = op[v]
         \/ op'[v] = Idle
         \/ op'[v] = Pending("rename", op[v].file, op[v].value)
         \/ \E m \in Submissions : /\ op'[v] = Pending("check", "manifest", m)
                                   /\ m.run \in jobs /\ ManifestValid(m)
         \/ \E c \in CallerRecords : op'[v] = Pending("check", "cache", c) /\ RecordValid(c)
         \/ \E r \in Runs : /\ op'[v] = Pending("check", "journal", r)
                            /\ ~journals[r].exists
                            /\ \A w \in Writers : ~(op[w].file = "journal" /\ op[w].value = r)
                            /\ \A w \in Writers : w # v => op'[w] = op[w]
         \/ op'[v].file \in {"job", "object", "report", "output", "line"}
<1> USE DEF TypeOK
<1>1. ASSUME NEW w \in Writers, Call(w)
      PROVE  \/ op'[v] = op[v]
             \/ \E m \in Submissions : /\ op'[v] = Pending("check", "manifest", m)
                                       /\ m.run \in jobs /\ ManifestValid(m)
             \/ \E c \in CallerRecords : op'[v] = Pending("check", "cache", c) /\ RecordValid(c)
             \/ \E r \in Runs : /\ op'[v] = Pending("check", "journal", r)
                                /\ ~journals[r].exists
                                /\ \A u \in Writers : ~(op[u].file = "journal" /\ op[u].value = r)
                                /\ \A u \in Writers : u # v => op'[u] = op[u]
             \/ op'[v].file \in {"job", "object", "report", "output", "line"}
  <2>1. CASE v # w
    BY <1>1, <2>1 DEF Call, CreateJob, CreateJournal, PutNew, PutKnown, PublishOutput, AppendAttempt,
                      CommitManifest, CommitCache, Recover, Start, storeVars
  <2>2. CASE v = w
    <3>1. CASE \E r \in Runs : CreateJob(w, r)
      BY <2>2, <3>1 DEF CreateJob, Start, Pending
    <3>2. CASE \E r \in Runs : CreateJournal(w, r)
      BY <2>2, <3>2 DEF CreateJournal, Start
    <3>3. CASE \E r \in Runs, o \in Objects :
                 PutNew(w, r, o) \/ PutKnown(w, r, o) \/ PublishOutput(w, r, o)
      BY <2>2, <3>3 DEF PutNew, PutKnown, PublishOutput, Start, Pending, storeVars
    <3>4. CASE \E r \in Runs, refs \in Lines : AppendAttempt(w, r, refs)
      BY <2>2, <3>4 DEF AppendAttempt, Pending
    <3>5. CASE \E m \in Submissions : CommitManifest(w, m)
      BY <2>2, <3>5 DEF CommitManifest, Start
    <3>6. CASE \E c \in CallerRecords : CommitCache(w, c)
      BY <2>2, <3>6 DEF CommitCache, Start
    <3>7. CASE Recover(w)
      BY <2>2, <3>7 DEF Recover, Start, Pending
    <3> QED BY <1>1, <3>1, <3>2, <3>3, <3>4, <3>5, <3>6, <3>7 DEF Call
  <2> QED BY <2>1, <2>2
<1>2. ASSUME NEW w \in Writers, Progress(w)
      PROVE  \/ op'[v] = op[v] \/ op'[v] = Idle
             \/ op'[v] = Pending("rename", op[v].file, op[v].value)
  BY <1>2 DEF Progress, Stage, Refuse, Rename, WriteFails, AppendLands, AppendFails
<1>3. ASSUME NEW W \in SUBSET Writers, Crash(W)
      PROVE  op'[v] = op[v] \/ op'[v] = Idle
  BY <1>3 DEF Crash
<1>4. ASSUME NEW o \in Objects, Damage(o)
      PROVE  op'[v] = op[v]
  BY <1>4 DEF Damage
<1>5. CASE UNCHANGED storeVars
  BY <1>5 DEF storeVars
<1> QED
  BY <1>1, <1>2, <1>3, <1>4, <1>5 DEF StoreNext

(* The same, read by the file that is written.                              *)
LEMMA OpFile ==
  ASSUME TypeOK, [StoreNext]_storeVars, NEW v \in Writers
  PROVE  /\ op'[v].file \in {"manifest", "cache", "journal"} =>
              \/ op'[v].file = op[v].file /\ op'[v].value = op[v].value
              \/ /\ op'[v].file = "manifest"
                 /\ op'[v].value \in Submissions
                 /\ op'[v].value.run \in jobs
                 /\ ManifestValid(op'[v].value)
              \/ /\ op'[v].file = "cache"
                 /\ op'[v].value \in CallerRecords
                 /\ RecordValid(op'[v].value)
              \/ /\ op'[v].file = "journal"
                 /\ op'[v].value \in Runs
                 /\ ~journals[op'[v].value].exists
                 /\ \A w \in Writers : ~(op[w].file = "journal" /\ op[w].value = op'[v].value)
                 /\ \A w \in Writers : w # v => op'[w] = op[w]
<1>1. CASE op'[v] = op[v]
  BY <1>1
<1>2. CASE op'[v] = Idle
  BY <1>2 DEF Idle, Pending
<1>3. CASE op'[v] = Pending("rename", op[v].file, op[v].value)
  BY <1>3 DEF Pending
<1>4. CASE \E m \in Submissions : /\ op'[v] = Pending("check", "manifest", m)
                                 /\ m.run \in jobs /\ ManifestValid(m)
  BY <1>4 DEF Pending
<1>5. CASE \E c \in CallerRecords : op'[v] = Pending("check", "cache", c) /\ RecordValid(c)
  BY <1>5 DEF Pending
<1>6. CASE \E r \in Runs : /\ op'[v] = Pending("check", "journal", r)
                           /\ ~journals[r].exists
                           /\ \A w \in Writers : ~(op[w].file = "journal" /\ op[w].value = r)
                           /\ \A w \in Writers : w # v => op'[w] = op[w]
  BY <1>6 DEF Pending
<1>7. CASE op'[v].file \in {"job", "object", "report", "output", "line"}
  BY <1>7
<1> QED
  BY <1>1, <1>2, <1>3, <1>4, <1>5, <1>6, <1>7, OpStep

(* To the files other than the journals: nothing but a rename, or damage to *)
(* an object.                                                               *)
LEMMA DiskStep ==
  ASSUME TypeOK, [StoreNext]_storeVars
  PROVE  \/ \E w \in Writers : Rename(w)
         \/ \E o \in Objects : Damage(o)
         \/ UNCHANGED <<jobs, objects, manifests, cache>>
BY DEF StoreNext, Call, Progress, CreateJob, CreateJournal, PutNew, PutKnown, PublishOutput,
       AppendAttempt, CommitManifest, CommitCache, Recover, Start, Stage, Refuse, WriteFails,
       AppendLands, AppendFails, Crash, disk, storeVars

LEMMA StoreGrows ==
  ASSUME TypeOK, [StoreNext]_storeVars
  PROVE  Grows
<1>1. ASSUME NEW w \in Writers, Rename(w)
      PROVE  Grows
  <2>1. ValueOK(op[w].file, op[w].value)
    BY DEF TypeOK
  <2>2. op[w].file = "manifest" => op[w].value # None /\ op[w].value.run \in Runs
    BY <2>1, StoreAssumption DEF ValueOK, Manifest
  <2> QED BY <1>1, <2>1, <2>2 DEF Rename, Grows, TypeOK, ValueOK
<1>2. ASSUME NEW o \in Objects, Damage(o)
      PROVE  Grows
  BY <1>2 DEF Damage, Grows, TypeOK
<1>3. CASE UNCHANGED <<jobs, objects, manifests, cache>>
  BY <1>3 DEF Grows
<1> QED
  BY <1>1, <1>2, <1>3, DiskStep

(* What a validation has found stays true while the store grows.            *)
LEMMA StoredKept ==
  ASSUME NEW m \in Manifest, Stored(m), Grows
  PROVE  \A a \in m.artifacts : objects'[a] # "absent"
BY DEF Stored, Grows, Manifest

LEMMA BoundKept ==
  ASSUME NEW c \in CacheRecord, Bound(c), Grows
  PROVE  /\ manifests'[c.run] # None
         /\ c.digest.run = c.run
         /\ c.digest.status = "ok"
         /\ {c.source, c.artifact} \subseteq c.digest.artifacts
         /\ \A a \in c.digest.artifacts : objects'[a] # "absent"
<1>1. c.run \in Runs /\ c.digest \in Manifest
  BY DEF CacheRecord
<1> QED
  BY <1>1, StoredKept DEF Bound, Grows

(* The validations establish what the operations rely on.                   *)
LEMMA ManifestValidStored ==
  ASSUME NEW m, ManifestValid(m)
  PROVE  Stored(m)
BY DEF ManifestValid, Stored

LEMMA RecordValidBound ==
  ASSUME TypeOK, NEW c \in CacheRecord, RecordValid(c)
  PROVE  Bound(c)
<1>1. c.digest \in Manifest /\ c.digest # None
  BY StoreAssumption DEF CacheRecord
<1> QED
  BY <1>1, ManifestValidStored DEF RecordValid, Bound

-----------------------------------------------------------------------------
(* To the journals: only a rename can replace one.                          *)

LEMMA JournalStep ==
  ASSUME TypeOK, [StoreNext]_storeVars, NEW r \in Runs
  PROVE  \/ JournalGrows(r) /\ (journals'[r].exists => journals[r].exists)
         \/ \E w \in Writers : op[w].file = "journal" /\ op[w].value = r /\ op'[w] = Idle
<1> USE DEF TypeOK
<1>1. ASSUME NEW w \in Writers, Rename(w)
      PROVE  \/ journals'[r] = journals[r]
             \/ op[w].file = "journal" /\ op[w].value = r /\ op'[w] = Idle
  BY <1>1 DEF Rename
<1>2. ASSUME NEW w \in Writers, AppendLands(w) \/ AppendFails(w)
      PROVE  /\ JournalGrows(r)
             /\ journals'[r].exists => journals[r].exists
  <2> DEFINE line == op[w].value
             j == journals[line.run]
  <2>1. line.run \in Runs
    BY <1>2 DEF AppendLands, AppendFails, ValueOK, Line
  <2>2. PICK k \in {j, Torn(j), WithLine(j, line.refs)} :
          journals' = [journals EXCEPT ![line.run] = k]
    BY <1>2 DEF AppendLands, AppendFails
  <2>3. j \in Journal
    BY <2>1
  <2>4. k.exists = j.exists /\ (j.torn => k.torn) /\ j.refs \subseteq k.refs
    BY <2>3 DEF Torn, WithLine, Journal
  <2> QED BY <2>1, <2>2, <2>4 DEF JournalGrows
<1>3. ASSUME NEW W \in SUBSET Writers, Crash(W)
      PROVE  /\ JournalGrows(r)
             /\ journals'[r].exists => journals[r].exists
  <2> DEFINE cut == {w \in W : op[w].phase = "append"}
             appending(q) == {w \in cut : op[w].value.run = q}
  <2>1. PICK fate \in [cut -> {"lost", "torn", "whole"}] :
          journals' = [q \in Runs |->
            [exists |-> journals[q].exists,
             torn |-> journals[q].torn \/ \E w \in appending(q) : fate[w] = "torn",
             refs |-> journals[q].refs \cup
                        UNION {op[w].value.refs : w \in {v \in appending(q) : fate[v] = "whole"}}]]
    BY <1>3 DEF Crash
  <2>2. journals'[r].exists = journals[r].exists
    BY <2>1
  <2>3. journals'[r].torn = (journals[r].torn \/ \E w \in appending(r) : fate[w] = "torn")
    BY <2>1
  <2>4. journals[r].refs \subseteq journals'[r].refs
    BY <2>1
  <2> HIDE DEF appending
  <2> QED BY <2>2, <2>3, <2>4 DEF JournalGrows
<1>4. CASE UNCHANGED journals
  BY <1>4 DEF JournalGrows
<1>5. \/ \E w \in Writers : Rename(w) \/ AppendLands(w) \/ AppendFails(w)
      \/ \E W \in SUBSET Writers : Crash(W)
      \/ UNCHANGED journals
  BY DEF StoreNext, Call, Progress, CreateJob, CreateJournal, PutNew, PutKnown, PublishOutput,
         AppendAttempt, CommitManifest, CommitCache, Recover, Start, Stage, Refuse, WriteFails,
         Damage, disk, storeVars
<1> QED
  BY <1>1, <1>2, <1>3, <1>4, <1>5 DEF JournalGrows

(* What a journal says was there, or is a line that was being appended.     *)
LEMMA JournalLines ==
  ASSUME TypeOK, [StoreNext]_storeVars, NEW r \in Runs, NEW h \in journals'[r].refs
  PROVE  \/ h \in journals[r].refs
         \/ \E w \in Writers : op[w].file = "line" /\ h \in op[w].value.refs
<1> USE DEF TypeOK
<1>1. ASSUME NEW w \in Writers, Rename(w)
      PROVE  h \in journals[r].refs
  BY <1>1 DEF Rename
<1>2. ASSUME NEW w \in Writers, AppendLands(w) \/ AppendFails(w)
      PROVE  h \in journals[r].refs \/ (op[w].file = "line" /\ h \in op[w].value.refs)
  <2> DEFINE line == op[w].value
             j == journals[line.run]
  <2>1. line.run \in Runs /\ op[w].file = "line"
    BY <1>2 DEF AppendLands, AppendFails, ValueOK, Line
  <2>2. PICK k \in {j, Torn(j), WithLine(j, line.refs)} :
          journals' = [journals EXCEPT ![line.run] = k]
    BY <1>2 DEF AppendLands, AppendFails
  <2>3. j \in Journal
    BY <2>1
  <2>4. k.refs \subseteq j.refs \cup line.refs
    BY <2>3 DEF Torn, WithLine, Journal
  <2> QED BY <2>1, <2>2, <2>4
<1>3. ASSUME NEW W \in SUBSET Writers, Crash(W)
      PROVE  \/ h \in journals[r].refs
             \/ \E w \in Writers : op[w].file = "line" /\ h \in op[w].value.refs
  <2> DEFINE cut == {w \in W : op[w].phase = "append"}
             appending(q) == {w \in cut : op[w].value.run = q}
  <2>1. PICK fate \in [cut -> {"lost", "torn", "whole"}] :
          journals' = [q \in Runs |->
            [exists |-> journals[q].exists,
             torn |-> journals[q].torn \/ \E w \in appending(q) : fate[w] = "torn",
             refs |-> journals[q].refs \cup
                        UNION {op[w].value.refs : w \in {v \in appending(q) : fate[v] = "whole"}}]]
    BY <1>3 DEF Crash
  <2>2. journals'[r].refs = journals[r].refs \cup
                              UNION {op[w].value.refs : w \in {v \in appending(r) : fate[v] = "whole"}}
    BY <2>1
  <2>3. h \in journals[r].refs \/ \E w \in appending(r) : h \in op[w].value.refs
    BY <2>2
  <2>4. \A w \in appending(r) : w \in Writers /\ op[w].file = "line"
    OBVIOUS
  <2> QED BY <2>3, <2>4
<1>4. CASE UNCHANGED journals
  BY <1>4
<1>5. \/ \E w \in Writers : Rename(w) \/ AppendLands(w) \/ AppendFails(w)
      \/ \E W \in SUBSET Writers : Crash(W)
      \/ UNCHANGED journals
  BY DEF StoreNext, Call, Progress, CreateJob, CreateJournal, PutNew, PutKnown, PublishOutput,
         AppendAttempt, CommitManifest, CommitCache, Recover, Start, Stage, Refuse, WriteFails,
         Damage, disk, storeVars
<1> QED
  BY <1>1, <1>2, <1>3, <1>4, <1>5

-----------------------------------------------------------------------------
(* The invariant is inductive.                                              *)

LEMMA InitInv == StoreInit => Inv
<1> SUFFICES ASSUME StoreInit PROVE Inv
  OBVIOUS
<1>1. TypeOK
  BY InitTyped
<1> QED
  BY <1>1 DEF StoreInit, Inv, EvidencePresent, CacheBehindManifest, InFlight, OneCreator,
              Idle, Pending

LEMMA InFlightKept ==
  ASSUME Inv, [StoreNext]_storeVars, NEW v \in Writers
  PROVE  InFlight(v)'
<1> DEFINE file == op[v].file
           value == op[v].value
<1>1. TypeOK /\ TypeOK' /\ Grows
  BY NextTyped, StoreGrows DEF Inv
<1>2. ValueOK(file, value) /\ InFlight(v)
  BY DEF Inv, TypeOK
<1>3. op'[v].file = "manifest" => /\ op'[v].value.run \in jobs'
                                  /\ \A a \in op'[v].value.artifacts : objects'[a] # "absent"
  <2> SUFFICES ASSUME op'[v].file = "manifest",
                      NEW m, m = op'[v].value
               PROVE  m.run \in jobs' /\ \A a \in m.artifacts : objects'[a] # "absent"
    OBVIOUS
  <2>1. m \in Manifest
    BY <1>1 DEF TypeOK, ValueOK
  <2>2. m.run \in jobs /\ Stored(m)
    <3>1. CASE file = "manifest" /\ value = m
      BY <1>2, <3>1 DEF InFlight
    <3>2. CASE m.run \in jobs /\ ManifestValid(m)
      BY <3>2, ManifestValidStored
    <3> QED BY <1>1, <3>1, <3>2, OpFile
  <2> QED BY <1>1, <2>1, <2>2, StoredKept DEF Grows
<1>4. op'[v].file = "cache" =>
        LET c == op'[v].value IN
        /\ manifests'[c.run] # None
        /\ c.digest.run = c.run
        /\ c.digest.status = "ok"
        /\ {c.source, c.artifact} \subseteq c.digest.artifacts
        /\ \A a \in c.digest.artifacts : objects'[a] # "absent"
  <2> SUFFICES ASSUME op'[v].file = "cache",
                      NEW c, c = op'[v].value
               PROVE  c \in CacheRecord /\ Bound(c)
    BY <1>1, BoundKept
  <2>1. c \in CacheRecord
    BY <1>1 DEF TypeOK, ValueOK
  <2>2. CASE file = "cache" /\ value = c
    BY <1>2, <2>1, <2>2 DEF InFlight
  <2>3. CASE RecordValid(c)
    BY <1>1, <2>1, <2>3, RecordValidBound
  <2> QED BY <1>1, <2>1, <2>2, <2>3, OpFile
<1>5. op'[v].file = "journal" => ~journals'[op'[v].value].exists
  <2> SUFFICES ASSUME op'[v].file = "journal",
                      NEW r, r = op'[v].value
               PROVE  ~journals'[r].exists
    OBVIOUS
  <2>1. r \in Runs
    BY <1>1 DEF TypeOK, ValueOK
  <2>2. CASE file = "journal" /\ value = r
    <3>1. ~journals[r].exists
      BY <1>2, <2>2 DEF InFlight
    <3>2. ASSUME NEW w \in Writers, op[w].file = "journal", op[w].value = r, op'[w] = Idle
          PROVE  FALSE
      BY <2>2, <3>2 DEF Inv, OneCreator, Idle, Pending
    <3> QED BY <1>1, <2>1, <3>1, <3>2, JournalStep
  <2>3. CASE /\ ~journals[r].exists
             /\ \A w \in Writers : ~(op[w].file = "journal" /\ op[w].value = r)
    BY <1>1, <2>1, <2>3, JournalStep
  <2> QED BY <1>1, <2>2, <2>3, OpFile
<1> QED
  BY <1>3, <1>4, <1>5 DEF InFlight, Stored, Bound

LEMMA OneCreatorKept ==
  ASSUME Inv, [StoreNext]_storeVars
  PROVE  OneCreator'
<1> SUFFICES ASSUME NEW v \in Writers, NEW w \in Writers, v # w,
                    op'[v].file = "journal", op'[w].file = "journal",
                    op'[v].value = op'[w].value
             PROVE  FALSE
  BY DEF OneCreator
<1>1. TypeOK
  BY DEF Inv
<1>2. ASSUME NEW x \in Writers, NEW y \in Writers, x # y,
             op'[x].file = "journal", op'[y].file = "journal", op'[x].value = op'[y].value
      PROVE  op'[x].file = op[x].file /\ op'[x].value = op[x].value
  <2>1. CASE /\ \A u \in Writers : ~(op[u].file = "journal" /\ op[u].value = op'[x].value)
             /\ \A u \in Writers : u # x => op'[u] = op[u]
    BY <1>2, <2>1
  <2> QED BY <1>1, <1>2, <2>1, OpFile
<1>3. op[v].file = "journal" /\ op[w].file = "journal" /\ op[v].value = op[w].value
  BY <1>2
<1> QED
  BY <1>3 DEF Inv, OneCreator

(* What the manifests and the cache entry can become.                       *)
LEMMA ManifestStep ==
  ASSUME TypeOK, [StoreNext]_storeVars, NEW r \in Runs
  PROVE  \/ manifests'[r] = manifests[r]
         \/ \E w \in Writers : /\ op[w].file = "manifest" /\ op[w].value.run = r
                              /\ manifests'[r] = op[w].value
<1>1. ASSUME NEW w \in Writers, Rename(w)
      PROVE  \/ manifests'[r] = manifests[r]
             \/ /\ op[w].file = "manifest" /\ op[w].value.run = r
                /\ manifests'[r] = op[w].value
  BY <1>1 DEF Rename, TypeOK
<1>2. CASE UNCHANGED manifests
  BY <1>2
<1> QED
  BY <1>1, <1>2, DiskStep DEF Damage

LEMMA CacheStep ==
  ASSUME TypeOK, [StoreNext]_storeVars
  PROVE  \/ cache' = cache
         \/ \E w \in Writers : op[w].file = "cache" /\ cache' = op[w].value
<1>1. ASSUME NEW w \in Writers, Rename(w)
      PROVE  \/ cache' = cache
             \/ op[w].file = "cache" /\ cache' = op[w].value
  BY <1>1 DEF Rename
<1>2. CASE UNCHANGED cache
  BY <1>2
<1> QED
  BY <1>1, <1>2, DiskStep DEF Damage

LEMMA NextInv == Inv /\ [StoreNext]_storeVars => Inv'
<1> SUFFICES ASSUME Inv, [StoreNext]_storeVars
             PROVE  Inv'
  OBVIOUS
<1>1. TypeOK /\ TypeOK' /\ Grows
  BY NextTyped, StoreGrows DEF Inv
<1>2. ASSUME NEW w \in Writers
      PROVE  InFlight(w) /\ ValueOK(op[w].file, op[w].value)
  BY DEF Inv, TypeOK
<1>3. EvidencePresent'
  <2> SUFFICES ASSUME NEW r \in Runs, manifests'[r] # None
               PROVE  /\ r \in jobs'
                      /\ manifests'[r].run = r
                      /\ \A a \in manifests'[r].artifacts : objects'[a] # "absent"
    BY DEF EvidencePresent, Stored
  <2> SUFFICES ASSUME NEW m, m = manifests'[r]
               PROVE  m \in Manifest /\ m.run = r /\ r \in jobs /\ Stored(m)
    BY <1>1, StoredKept DEF Grows
  <2>1. m \in Manifest
    BY <1>1 DEF TypeOK
  <2>2. CASE m = manifests[r]
    BY <2>1, <2>2 DEF Inv, EvidencePresent
  <2>3. CASE \E w \in Writers : op[w].file = "manifest" /\ op[w].value.run = r /\ m = op[w].value
    BY <1>2, <2>1, <2>3 DEF InFlight
  <2> QED BY <1>1, <2>2, <2>3, ManifestStep
<1>4. CacheBehindManifest'
  <2> SUFFICES ASSUME NEW c, c = cache', c # None
               PROVE  c \in CacheRecord /\ Bound(c)
    BY <1>1, BoundKept DEF CacheBehindManifest, Bound, Stored
  <2>1. c \in CacheRecord
    BY <1>1 DEF TypeOK
  <2>2. CASE c = cache
    BY <2>1, <2>2 DEF Inv, CacheBehindManifest
  <2>3. CASE \E w \in Writers : op[w].file = "cache" /\ c = op[w].value
    BY <1>2, <2>1, <2>3 DEF InFlight
  <2> QED BY <1>1, <2>2, <2>3, CacheStep
<1>5. \A w \in Writers : InFlight(w)'
  BY InFlightKept
<1>6. OneCreator'
  BY OneCreatorKept
<1> QED
  BY <1>1, <1>3, <1>4, <1>5, <1>6 DEF Inv

LEMMA StoreInv == StoreSpec => []Inv
<1>1. StoreInit => Inv
  BY InitInv
<1>2. Inv /\ [StoreNext]_storeVars => Inv'
  BY NextInv
<1> QED
  BY <1>1, <1>2, PTL DEF StoreSpec

-----------------------------------------------------------------------------
(* The properties.                                                          *)

(* A manifest never precedes its job or its evidence, for any number of     *)
(* writers that interleave, fail and die (commitManifest, putObject).       *)
THEOREM ManifestsHaveEvidence == StoreSpec => []EvidencePresent
<1>1. Inv => EvidencePresent
  BY DEF Inv
<1> QED
  BY <1>1, StoreInv, PTL

(* The cache index never runs ahead of the manifests (commitCache).         *)
THEOREM CacheFollowsManifests == StoreSpec => []CacheBehindManifest
<1>1. Inv => CacheBehindManifest
  BY DEF Inv
<1> QED
  BY <1>1, StoreInv, PTL

(* Journals are append-only and torn journals stay torn (appendAttempt,     *)
(* beginRun).                                                               *)
THEOREM JournalsAreAppendOnly == StoreSpec => JournalsOnlyGrow
<1>1. ASSUME Inv, [StoreNext]_storeVars, NEW r \in Runs
      PROVE  JournalGrows(r)
  <2>1. ASSUME NEW w \in Writers, op[w].file = "journal", op[w].value = r
        PROVE  ~journals[r].exists
    BY <1>1, <2>1 DEF Inv, InFlight
  <2> QED BY <1>1, <2>1, JournalStep DEF Inv, JournalGrows
<1>2. Inv /\ [StoreNext]_storeVars =>
        [\A r \in Runs : journals[r].exists =>
           /\ journals'[r].exists
           /\ journals[r].torn => journals'[r].torn
           /\ journals[r].refs \subseteq journals'[r].refs]_journals
  BY <1>1 DEF JournalGrows
<1> QED
  BY <1>2, StoreInv, PTL DEF StoreSpec, JournalsOnlyGrow

-----------------------------------------------------------------------------
(* EvidenceStore implements RunLedger: a rename of a job, a manifest or a   *)
(* cache record is Open, Seal or Serve or invisible, every other step is    *)
(* invisible.                                                               *)

LEMMA LifeOf ==
  \A r \in Runs : Life[r] = IF manifests[r] # None THEN "sealed"
                            ELSE IF r \in jobs THEN "open" ELSE "absent"
BY DEF Life

LEMMA StepRefines ==
  ASSUME Inv, Inv', [StoreNext]_storeVars
  PROVE  [Ledger!LedgerNext]_(Ledger!ledgerVars)
<1>1. TypeOK
  BY DEF Inv
<1>2. CASE UNCHANGED <<jobs, manifests, cache>>
  BY <1>2 DEF Ledger!ledgerVars, Life, Served
<1>3. ASSUME NEW w \in Writers, Rename(w)
      PROVE  [Ledger!LedgerNext]_(Ledger!ledgerVars)
  <2> DEFINE file == op[w].file
             value == op[w].value
  <2>1. ValueOK(file, value) /\ InFlight(w)
    BY DEF Inv, TypeOK
  <2>2. CASE file = "job"
    <3>1. value \in Runs /\ jobs' = jobs \cup {value} /\ manifests' = manifests /\ cache' = cache
      BY <1>3, <2>1, <2>2 DEF Rename, ValueOK
    <3>2. Served' = Served
      BY <3>1 DEF Served
    <3>3. CASE value \in jobs
      BY <1>2, <3>1, <3>3
    <3>4. CASE value \notin jobs
      <4>1. manifests[value] = None
        BY <3>1, <3>4 DEF Inv, EvidencePresent
      <4>2. Life[value] = "absent"
        BY <3>1, <3>4, <4>1, LifeOf
      <4>3. Life' = [Life EXCEPT ![value] = "open"]
        BY <3>1, <4>1 DEF Life
      <4>4. Ledger!Open(value)
        BY <3>2, <4>2, <4>3 DEF Ledger!Open
      <4> QED BY <3>1, <4>4 DEF Ledger!LedgerNext
    <3> QED BY <3>3, <3>4
  <2>3. CASE file = "manifest"
    <3> DEFINE r == value.run
    <3>1. /\ value \in Manifest /\ value # None /\ r \in Runs /\ r \in jobs
          /\ manifests' = [manifests EXCEPT ![r] = value] /\ jobs' = jobs /\ cache' = cache
      BY <1>3, <2>1, <2>3, StoreAssumption DEF Rename, ValueOK, InFlight, Manifest
    <3>2. Served' = Served
      BY <3>1 DEF Served
    <3>3. CASE manifests[r] # None
      <4>1. Life' = Life
        BY <1>1, <3>1, <3>3 DEF Life, TypeOK
      <4> QED BY <3>2, <4>1 DEF Ledger!ledgerVars
    <3>4. CASE manifests[r] = None
      <4>1. Life[r] = "open"
        BY <3>1, <3>4, LifeOf
      <4>2. Life' = [Life EXCEPT ![r] = "sealed"]
        BY <1>1, <3>1 DEF Life, TypeOK
      <4>3. Ledger!Seal(r)
        BY <3>2, <4>1, <4>2 DEF Ledger!Seal
      <4> QED BY <3>1, <4>3 DEF Ledger!LedgerNext
    <3> QED BY <3>3, <3>4
  <2>4. CASE file = "cache"
    <3> DEFINE r == value.run
    <3>1. /\ value \in CacheRecord /\ value # None /\ r \in Runs /\ manifests[r] # None
          /\ cache' = value /\ jobs' = jobs /\ manifests' = manifests
      BY <1>3, <2>1, <2>4, StoreAssumption DEF Rename, ValueOK, InFlight, Bound, CacheRecord
    <3>2. Life' = Life
      BY <3>1 DEF Life
    <3>3. Life[r] = "sealed"
      BY <3>1, LifeOf
    <3>4. Served' = r
      BY <3>1 DEF Served
    <3>5. Ledger!Serve(r)
      BY <3>2, <3>3, <3>4 DEF Ledger!Serve
    <3> QED BY <3>1, <3>5 DEF Ledger!LedgerNext
  <2>5. CASE file \notin {"job", "manifest", "cache"}
    BY <1>2, <1>3, <2>5 DEF Rename
  <2> QED BY <2>2, <2>3, <2>4, <2>5
<1> QED
  BY <1>1, <1>2, <1>3, DiskStep DEF Damage

(* Whoever calls the store and whatever fails, each run is begun once,      *)
(* sealed once, and only a sealed run is ever what the cache serves.        *)
THEOREM StoreImplementsLedger == StoreSpec => KeepsLedger
<1>1. StoreInit => Ledger!LedgerInit
  BY DEF StoreInit, Ledger!LedgerInit, Life, Served
<1>2. Inv /\ Inv' /\ [StoreNext]_storeVars => [Ledger!LedgerNext]_(Ledger!ledgerVars)
  BY StepRefines
<1> QED
  BY <1>1, <1>2, StoreInv, PTL DEF StoreSpec, KeepsLedger, Ledger!LedgerSpec
=============================================================================
