---------------------------- MODULE CrawlCommand ----------------------------
(***************************************************************************)
(* The crawl and extract commands of src/src/core.mjs on the store: one    *)
(* run, a main chain of awaits, and one more chain, runUrlPipeline, for    *)
(* each page.  A crawl starts the pages of a batch side by side, awaits    *)
(* them all, and goes on; when it is done it stores its ledgers as an      *)
(* object, commits one manifest over everything it collected, and          *)
(* publishes.  An extract has one page and awaits it itself.               *)
(*                                                                         *)
(* No interruption guard is armed: a signal simply ends the process.  What *)
(* the crawl decides between pages is Crawl's, and the attempts of a page, *)
(* collapsed to the last one, are NativeAttempts'.                         *)
(***************************************************************************)
EXTENDS Naturals, EvidenceStore

CONSTANTS
  Run, Main,
  Pages,          (* the pages there are                                     *)
  Concurrency,
  Bodies,         (* what a page may answer                                  *)
  Projection,     (* of each body: an object, or None if it is taken as is   *)
  Extracts,       (* what the local parser may store: none without a parser  *)
  Ledgers,        (* the JSON of a crawl                                     *)
  ToFile          (* whether an output path was given                        *)

VARIABLES
  command,        (* "extract" or "crawl", once begun                        *)
  pc,             (* of the main chain                                       *)
  page,           (* the chain of each page, and what it found               *)
  batch,          (* pages started since the last join                       *)
  collected,      (* collected                                               *)
  draft,          (* the manifest to commit                                  *)
  faults          (* whether a step has failed that was not refused          *)

commandVars == <<command, pc, page, batch, collected, draft, faults>>

ASSUME CommandAssumption ==
  /\ Run \in Runs
  /\ Main \notin Pages /\ Writers = Pages \cup {Main}
  /\ Concurrency \in Nat \ {0}
  /\ Bodies \subseteq Objects /\ Extracts \subseteq Objects
  /\ Projection \in [Bodies -> Objects \cup {None}]
  /\ Ledgers \in Objects
  /\ ToFile \in BOOLEAN
  /\ None \notin {"accepted", "blocked", "failed", "crashed"}

PageStates == {"idle", "starting", "fetching", "capturing", "captured", "finishing", "derive",
               "deriving", "judge", "noting", "parse", "parsing", "parsed", "reparsing", "skip",
               "skipping", "settled"}

PageOutcomes == {None, "accepted", "blocked", "failed", "crashed"}

Unstarted == [pc |-> "idle", source |-> None, artifact |-> None, outcome |-> None]

Present(o) == {o} \ {None}

CommandInit ==
  /\ command = "none"
  /\ pc = "idle"
  /\ page = [p \in Pages |-> Unstarted]
  /\ batch = {}
  /\ collected = {}
  /\ draft = None
  /\ faults = FALSE

-----------------------------------------------------------------------------
(* The main chain goes from one await to the next.                          *)
Goto(from, to) == pc = from /\ pc' = to

MainKeeps == UNCHANGED <<command, page, batch, collected, draft, faults>>

(* beginRun.                                                                *)
Begin(kind) ==
  /\ Goto("idle", "job")
  /\ command' = kind
  /\ CreateJob(Main, Run)
  /\ UNCHANGED <<page, batch, collected, draft, faults>>

Begun ==
  \/ Goto("job", "opened") /\ Rename(Main) /\ MainKeeps
  \/ Goto("opened", "journal") /\ CreateJournal(Main, Run) /\ MainKeeps
  \/ Goto("journal", "pages") /\ Rename(Main) /\ MainKeeps

-----------------------------------------------------------------------------
(* runUrlPipeline.                                                          *)
PageKeeps == UNCHANGED <<command, pc, batch, collected, draft, faults>>

Turn(p, from, to) ==
  /\ page[p].pc = from
  /\ page' = [page EXCEPT ![p].pc = to]
  /\ PageKeeps

Turns(p, from, to, field, value) ==
  /\ page[p].pc = from
  /\ page' = [page EXCEPT ![p].pc = to, ![p][field] = value]
  /\ PageKeeps

(* The next page of a batch, or the page of an extract; with no time left   *)
(* it is given up before its first attempt.                                 *)
StartPage(p) ==
  /\ pc = "pages"
  /\ Cardinality(batch) < IF command = "crawl" THEN Concurrency ELSE 1
  /\ command = "extract" => \A q \in Pages : page[q].pc = "idle"
  /\ page[p].pc = "idle"
  /\ batch' = batch \cup {p}
  /\ \/ page' = [page EXCEPT ![p].pc = "starting"] /\ AppendAttempt(p, Run, {})
     \/ /\ page' = [page EXCEPT ![p].pc = "settled", ![p].outcome = "blocked"]
        /\ UNCHANGED storeVars
  /\ UNCHANGED <<command, pc, collected, draft, faults>>

Started(p) == Turn(p, "starting", "fetching") /\ AppendLands(p)

(* No body: the outcome of the last attempt goes into its line.             *)
FetchFails(p) ==
  /\ \E outcome \in {"blocked", "failed"} : Turns(p, "fetching", "finishing", "outcome", outcome)
  /\ AppendAttempt(p, Run, {})

(* Faulty: a body is put without asking whether it is there.                *)
CaptureAgain(p, o) ==
  /\ Turn(p, "fetching", "capturing")
  /\ Start(p, "object", o)

CaptureKnown(p, o) ==
  /\ Turns(p, "fetching", "captured", "source", o)
  /\ PutKnown(p, Run, o)

(* Faulty: the finish line is written while the body is being stored.       *)
FinishAtOnce(p, o) ==
  /\ Turns(p, "fetching", "finishing", "source", o)
  /\ AppendAttempt(p, Run, {o})

CaptureNew(p, o) ==
  /\ Turn(p, "fetching", "capturing")
  /\ PutNew(p, Run, o)

Captured(p) ==
  /\ Turns(p, "capturing", "captured", "source", op[p].value)
  /\ Rename(p)

FinishAttempt(p) ==
  \/ Turn(p, "captured", "finishing") /\ AppendAttempt(p, Run, {page[p].source})
  \/ /\ Turn(p, "finishing", IF page[p].outcome # None THEN "settled"
                             ELSE IF command = "crawl" THEN "derive"
                             ELSE IF Extracts # {} THEN "parse" ELSE "parsed")
     /\ AppendLands(p)

(* builtinRepresentation: raw, JSON and binary bodies are their own         *)
(* artifact; a projection is stored, and whatever keeps it from being       *)
(* stored makes the page inadequate.                                        *)
Projected(p) == Projection[page[p].source]

DeriveNone(p) ==
  /\ page[p].source # None /\ Projected(p) = None
  /\ Turns(p, "derive", "judge", "artifact", page[p].source)
  /\ UNCHANGED storeVars

DeriveKnown(p) ==
  /\ page[p].source # None /\ Projected(p) # None
  /\ Turns(p, "derive", "judge", "artifact", Projected(p))
  /\ PutKnown(p, Run, Projected(p))

DeriveNew(p) ==
  /\ page[p].source # None /\ Projected(p) # None
  /\ Turn(p, "derive", "deriving")
  /\ PutNew(p, Run, Projected(p))

Derived(p) ==
  /\ Turns(p, "deriving", "judge", "artifact", op[p].value)
  /\ Rename(p)

Underived(p) ==
  \/ Turn(p, "derive", "judge") /\ UNCHANGED storeVars
  \/ Turn(p, "deriving", "judge") /\ Refuse(p)

(* acceptRepresentation and recordTransform.                                *)
Verdicts(p) == IF page[p].artifact = None THEN {"failed", "blocked"} ELSE {"accepted", "failed"}

Judge(p) ==
  /\ \E verdict \in Verdicts(p) : Turns(p, "judge", "noting", "outcome", verdict)
  /\ AppendAttempt(p, Run, {})

(* An inadequate page goes to the parser, and then to the browser that is   *)
(* not there.                                                               *)
Judged(p) ==
  /\ \E to \in IF page[p].outcome # "failed" THEN {"settled"}
               ELSE IF Extracts # {} THEN {"parse"} ELSE {"skip", "settled"} :
        Turn(p, "noting", to)
  /\ AppendLands(p)

ParseKnown(p, o) ==
  /\ Turns(p, "parse", "parsed", "artifact", o)
  /\ PutKnown(p, Run, o)

ParseNew(p, o) ==
  /\ Turn(p, "parse", "parsing")
  /\ PutNew(p, Run, o)

Parsed(p) ==
  /\ Turns(p, "parsing", "parsed", "artifact", op[p].value)
  /\ Rename(p)

(* Faulty: a refused artifact is not caught.                                *)
UnparsedUnlessRefused(p) ==
  Turns(p, "parse", "parsed", "artifact", None) /\ UNCHANGED storeVars

(* The helper fails, or its artifact is not stored: an outcome, not a throw. *)
Unparsed(p) ==
  \/ Turns(p, "parse", "parsed", "artifact", None) /\ UNCHANGED storeVars
  \/ Turns(p, "parsing", "parsed", "artifact", None) /\ Refuse(p)

Rejudge(p) ==
  /\ \E verdict \in IF page[p].artifact = None THEN {"failed"}
                    ELSE IF command = "extract" THEN {"accepted"} ELSE {"accepted", "failed"} :
        Turns(p, "parsed", "reparsing", "outcome", verdict)
  /\ AppendAttempt(p, Run, {})

Rejudged(p) ==
  /\ \E to \in IF page[p].outcome = "failed" /\ page[p].artifact # None
               THEN {"skip", "settled"} ELSE {"settled"} : Turn(p, "reparsing", to)
  /\ AppendLands(p)

Skip(p) ==
  \/ Turn(p, "skip", "skipping") /\ AppendAttempt(p, Run, {})
  \/ Turn(p, "skipping", "settled") /\ AppendLands(p)

Flush(w) == Stage(w) /\ UNCHANGED commandVars

(* Whatever the pipeline throws, the page is lost to the crawl: what it had *)
(* captured is not reported.                                                *)
Crashes(p) ==
  /\ page' = [page EXCEPT ![p] = [Unstarted EXCEPT !.pc = "settled", !.outcome = "crashed"]]
  /\ UNCHANGED <<command, pc, batch, collected, draft>>

(* A put that is refused, or finds a damaged object.                        *)
Thrown(p) ==
  \/ page[p].pc = "capturing" /\ Crashes(p) /\ Refuse(p) /\ UNCHANGED faults
  \/ /\ page[p].pc = "fetching" /\ \E o \in Bodies : objects[o] = "damaged"
     /\ Crashes(p) /\ faults' = TRUE /\ UNCHANGED storeVars

PageStep(p) ==
  \/ Started(p) \/ FetchFails(p) \/ Captured(p) \/ FinishAttempt(p)
  \/ \E o \in Bodies : CaptureKnown(p, o) \/ CaptureNew(p, o)
  \/ DeriveNone(p) \/ DeriveKnown(p) \/ DeriveNew(p) \/ Derived(p) \/ Underived(p)
  \/ Judge(p) \/ Judged(p)
  \/ \E o \in Extracts : ParseKnown(p, o) \/ ParseNew(p, o)
  \/ Parsed(p) \/ Unparsed(p) \/ Rejudge(p) \/ Rejudged(p) \/ Skip(p)
  \/ Flush(p) \/ Thrown(p)

-----------------------------------------------------------------------------
(* Back in the main chain.                                                  *)

Settled(p) == page[p].pc = "settled"

Outcomes == {page[p].outcome : p \in Pages}

(* The pipeline returns the artifact of a page only with its acceptance.    *)
Result(p) == IF page[p].outcome = "accepted" THEN page[p].artifact ELSE None

Found(p) == Present(page[p].source) \cup Present(Result(p))

(* Faulty: the first page to settle ends the batch.                         *)
JoinFirst ==
  /\ pc = "pages" /\ batch # {} /\ \E p \in batch : Settled(p)
  /\ collected' = collected \cup UNION {Found(p) : p \in batch}
  /\ batch' = {}
  /\ pc' = IF command = "crawl" THEN "pages"
           ELSE IF "crashed" \in Outcomes THEN "threw" ELSE "drafting"
  /\ UNCHANGED <<storeVars, command, page, draft, faults>>

(* Promise.all of a batch; the await of an extract, which rejects with it.  *)
Join ==
  /\ pc = "pages" /\ batch # {} /\ \A p \in batch : Settled(p)
  /\ collected' = collected \cup UNION {Found(p) : p \in batch}
  /\ batch' = {}
  /\ pc' = IF command = "crawl" THEN "pages"
           ELSE IF "crashed" \in Outcomes THEN "threw" ELSE "drafting"
  /\ UNCHANGED <<storeVars, command, page, draft, faults>>

(* The crawl is done, for whatever reason; its ledgers are stored.          *)
PutLedgersKnown ==
  /\ command = "crawl" /\ batch = {}
  /\ Goto("pages", "drafting") /\ PutKnown(Main, Run, Ledgers)
  /\ collected' = collected \cup {Ledgers}
  /\ UNCHANGED <<command, page, batch, draft, faults>>

PutLedgers ==
  \/ /\ command = "crawl" /\ batch = {}
     /\ Goto("pages", "ledgers") /\ PutNew(Main, Run, Ledgers) /\ MainKeeps
  \/ /\ Goto("ledgers", "drafting") /\ Rename(Main)
     /\ collected' = collected \cup {Ledgers}
     /\ UNCHANGED <<command, page, batch, draft, faults>>

(* resultStatus: pages that were never started were not found, denied by    *)
(* robots.txt, or left by a cap; an accepted page may exceed the byte cap.  *)
CrawlStatus ==
  IF "accepted" \in Outcomes
  THEN {"partial", "blocked"} \cup (IF Outcomes \subseteq {"accepted", None} THEN {"ok"} ELSE {})
  ELSE (IF "blocked" \in Outcomes THEN {"blocked"} ELSE {"exhausted"})
         \cup (IF None \in Outcomes THEN {"blocked"} ELSE {})

(* pipelineResultStatus.                                                    *)
ExtractStatus ==
  IF "accepted" \in Outcomes THEN {"ok"}
  ELSE IF "blocked" \in Outcomes THEN {"blocked", "exhausted"} ELSE {"exhausted", "internal_error"}

ManifestOf(status, source, artifact) ==
  [run |-> Run, status |-> status, source |-> source, artifact |-> artifact,
   artifacts |-> collected]

Draft ==
  /\ Goto("drafting", "seal")
  /\ IF command = "crawl"
     THEN \E status \in CrawlStatus : draft' = ManifestOf(status, Ledgers, Ledgers)
     ELSE \E status \in ExtractStatus, p \in {q \in Pages : Settled(q)} :
            draft' = ManifestOf(status, page[p].source, Result(p))
  /\ UNCHANGED <<storeVars, command, page, batch, collected, faults>>

Seal ==
  \/ Goto("seal", "sealing") /\ CommitManifest(Main, draft) /\ MainKeeps
  \/ /\ Goto("sealing", IF command = "crawl" \/ draft.status = "ok" THEN "publish" ELSE "done")
     /\ Rename(Main) /\ MainKeeps

(* publishSelectedOutput; an extract reads its artifact back first.         *)
Publish ==
  \/ /\ Goto("publish", IF ToFile THEN "publishing" ELSE "done")
     /\ command = "extract" => objects[draft.artifact] = "intact"
     /\ IF ToFile THEN PublishOutput(Main, Run, draft.artifact) ELSE UNCHANGED storeVars
     /\ MainKeeps
  \/ Goto("publishing", "done") /\ Rename(Main) /\ MainKeeps

(* The chain rejects: on what commitManifest or readObject finds, or on a   *)
(* write that is refused.                                                   *)
Rejected ==
  \/ pc = "seal" /\ ~ManifestValid(draft)
  \/ pc = "publish" /\ command = "extract" /\ objects[draft.artifact] # "intact"
  \/ pc = "pages" /\ command = "crawl" /\ batch = {} /\ objects[Ledgers] = "damaged"

Throw ==
  /\ Rejected /\ pc' = "threw"
  /\ UNCHANGED <<storeVars, command, page, batch, collected, draft, faults>>

MainStep ==
  Begun \/ Join \/ PutLedgersKnown \/ PutLedgers \/ Draft \/ Seal \/ Publish \/ Throw \/ Flush(Main)

-----------------------------------------------------------------------------
(* Faults: a write that fails rejects the chain that made it, except where  *)
(* the pipeline catches it; and the process may be killed.                  *)
Fault ==
  \/ /\ pc \notin {"threw", "dead", "done"} /\ pc' = "threw" /\ faults' = TRUE
     /\ WriteFails(Main)
     /\ UNCHANGED <<command, page, batch, collected, draft>>
  \/ \E p \in Pages :
       /\ faults' = TRUE
       /\ \/ /\ page[p].pc \in {"deriving", "parsing"}
             /\ page' = [page EXCEPT ![p].pc = IF @ = "deriving" THEN "judge" ELSE "parsed",
                                     ![p].artifact = None]
             /\ WriteFails(p)
             /\ UNCHANGED <<command, pc, batch, collected, draft>>
          \/ page[p].pc = "capturing" /\ WriteFails(p) /\ Crashes(p)
          \/ AppendFails(p) /\ Crashes(p)

(* What the process remembered goes with it.                                *)
Kill ==
  /\ pc \notin {"idle", "done", "threw", "dead"}
  /\ pc' = "dead"
  /\ page' = [p \in Pages |-> Unstarted]
  /\ batch' = {} /\ collected' = {} /\ draft' = None
  /\ Crash(Writers)
  /\ UNCHANGED <<command, faults>>

CommandStep == MainStep \/ \E p \in Pages : StartPage(p) \/ PageStep(p)

Ended == pc \in {"done", "threw", "dead"}

-----------------------------------------------------------------------------
(* Properties.                                                              *)

CommandTypeOK ==
  /\ TypeOK
  /\ command \in {"none", "extract", "crawl"}
  /\ page \in [Pages -> [pc: PageStates, source: Objects \cup {None},
                         artifact: Objects \cup {None}, outcome: PageOutcomes]]
  /\ batch \subseteq Pages /\ collected \subseteq Objects
  /\ draft \in Manifest \cup {None}
  /\ faults \in BOOLEAN

Sealed == manifests[Run] # None

(* A sealed run is finished: its manifest lists the source and the artifact *)
(* of every page that was accepted, and the source of every page that did   *)
(* not crash, and no chain of a page is left that could still write.  A     *)
(* command that returns has sealed its run with the status it returns, and  *)
(* what it says it has published is there; one that rejects has sealed      *)
(* nothing else.                                                            *)
SealedIsFinished ==
  /\ CommandTypeOK
  /\ Sealed =>
       /\ \A p \in Pages : page[p].pc \in {"idle", "settled"} /\ Free(p)
       /\ \A p \in Pages : Found(p) \subseteq manifests[Run].artifacts
       /\ \A p \in Pages : page[p].outcome = "accepted" => Cardinality(Found(p)) > 0
       /\ command # "none" /\ pc # "dead" => manifests[Run] = draft
  /\ pc = "done" =>
       /\ Sealed
       /\ ToFile /\ (command = "crawl" \/ draft.status = "ok") => outputs[Run] = draft.artifact

(* What page p has put, or found stored: its body, what it projected of it, *)
(* and its artifact.                                                        *)
Wrote(p) == {page[p].source, page[p].artifact} \cup {Projection[b] : b \in Bodies \cap {page[p].source}}

(* storage.mjs:783: of two pages with one body that are captured at the     *)
(* same time, one is lost.  That is the only way a page is lost without a   *)
(* disk error or damage, and its evidence is then in the store: another     *)
(* page of the batch put it there.                                          *)
LostPagesHaveTwins ==
  [][\A p \in Pages :
       page[p].outcome # "crashed" /\ page'[p].outcome = "crashed" /\ ~faults' =>
         \E q \in batch \ {p} : op[p].value \in Wrote(q)]_<<page, faults>>

(* The run of a killed crawl or extract can be recovered: its journal names *)
(* no object that is not stored, in whatever order the chains of its pages  *)
(* got to the store.                                                        *)
JournalBehindObjects ==
  \A h \in journals[Run].refs : h \in Objects /\ objects[h] # "absent"

=============================================================================
