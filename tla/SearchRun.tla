----------------------------- MODULE SearchRun -----------------------------
(***************************************************************************)
(* The search command of src/src/search.mjs on the store: a provider is    *)
(* asked once, its results are put through the URL policy and freed of     *)
(* duplicates, the first of them are handed to the url command one after   *)
(* the other, and one manifest says what was scraped.  The shared signal   *)
(* and deadline are looked at before each child, so they never stop one    *)
(* that is running.                                                        *)
(*                                                                         *)
(* A child is one step: UrlJob has its runs.                               *)
(***************************************************************************)
EXTENDS Naturals, Sequences, EvidenceStore

CONSTANTS
  Links,          (* URLs as a provider writes them                          *)
  Canonical,      (* their canonical form, or Refused by the URL policy      *)
  Refused,
  Answers,        (* what a provider may answer; none if there is no provider *)
  ScrapeResults,  (* job.search.scrapeResults                                *)
  Sources         (* what a child may store                                  *)

VARIABLE search

ASSUME SearchAssumption ==
  /\ Canonical \in [Links -> {Canonical[l] : l \in Links}]
  /\ Answers \subseteq Seq(Links)
  /\ ScrapeResults \in Nat \ {0}
  /\ Sources \subseteq Objects

Urls == {Canonical[l] : l \in Links} \ {Refused}

Evidence == [url: Urls, source: Objects]

(* stopped: the signal is aborted or the deadline has passed.               *)
Search ==
  [pc: {"off", "asking", "beginning", "job", "opened", "journal", "children", "sealing",
        "done", "threw"},
   answer: Seq(Links), plan: Seq(Urls), scraped: Nat, evidence: SUBSET Evidence,
   stopped: BOOLEAN, status: Status \cup {None}]

SearchInit ==
  search = [pc |-> "off", answer |-> <<>>, plan |-> <<>>, scraped |-> 0, evidence |-> {},
            stopped |-> FALSE, status |-> None]

-----------------------------------------------------------------------------
(* normalizeCandidates, and the slice of its result.  What is allowed of    *)
(* the first n results is a recursive function, so that it can be reasoned  *)
(* about.                                                                   *)
Allow(allowed, url) ==
  IF url = Refused \/ \E i \in DOMAIN allowed : allowed[i] = url THEN allowed
  ELSE Append(allowed, url)

Allowed(answer) ==
  LET allowed[n \in 0..Len(answer)] ==
        IF n = 0 THEN <<>> ELSE Allow(allowed[n - 1], Canonical[answer[n]])
  IN allowed[Len(answer)]

Shortened(urls) == SubSeq(urls, 1, IF Len(urls) < ScrapeResults THEN Len(urls) ELSE ScrapeResults)

ScrapePlan(answer) == Shortened(Allowed(answer))

-----------------------------------------------------------------------------
(* runSearchJob.                                                            *)
SearchTurn(from, to) == search.pc = from /\ search' = [search EXCEPT !.pc = to]

SearchReturn(from, status) ==
  search.pc = from /\ search' = [search EXCEPT !.pc = "done", !.status = status]

StartSearch ==
  /\ IF Answers = {} THEN SearchReturn("off", "exhausted")
     ELSE IF search.stopped THEN SearchReturn("off", "interrupted") ELSE SearchTurn("off", "asking")
  /\ UNCHANGED storeVars

(* The provider throws, or answers out of bounds: an empty list, too.       *)
ProviderFails ==
  SearchReturn("asking", "internal_error") /\ UNCHANGED storeVars

ProviderAnswers(answer) ==
  /\ search.pc = "asking" /\ answer # <<>>
  /\ search' = [search EXCEPT !.pc = "beginning", !.answer = answer, !.plan = ScrapePlan(answer)]
  /\ UNCHANGED storeVars

SearchBegins(w, r) ==
  \/ SearchTurn("beginning", "job") /\ CreateJob(w, r)
  \/ SearchTurn("job", "opened") /\ Rename(w)
  \/ SearchTurn("opened", "journal") /\ CreateJournal(w, r)
  \/ SearchTurn("journal", "children") /\ Rename(w)

More == search.scraped < Len(search.plan)

(* One child after the other; only an ok child with a source is evidence.   *)
ScrapeWith(o) ==
  LET url == search.plan[search.scraped + 1] IN
  /\ search.pc = "children" /\ More /\ ~search.stopped
  /\ objects[o] # "damaged"
  /\ search' = [search EXCEPT !.scraped = @ + 1,
                              !.evidence = @ \cup {[url |-> url, source |-> o]}]
  /\ objects' = [objects EXCEPT ![o] = "intact"]
  /\ UNCHANGED <<jobs, journals, manifests, cache, report, outputs, op>>

ScrapeWithout ==
  /\ search.pc = "children" /\ More /\ ~search.stopped
  /\ search' = [search EXCEPT !.scraped = @ + 1]
  /\ UNCHANGED storeVars

(* The signal or the deadline, whatever the search is doing.                *)
StopSearch ==
  /\ search.pc \notin {"done", "threw"} /\ ~search.stopped
  /\ search' = [search EXCEPT !.stopped = TRUE]
  /\ UNCHANGED storeVars

SearchManifest(r) ==
  [run |-> r, status |-> "partial", source |-> None, artifact |-> None, artifacts |-> {}]

(* Faulty: the manifest is committed whether or not a child is left.        *)
SearchSealsEarly(w, r) ==
  \/ SearchTurn("children", "sealing") /\ CommitManifest(w, SearchManifest(r))
  \/ SearchReturn("sealing", "partial") /\ Rename(w)

SearchSeals(w, r) ==
  \/ ~More /\ SearchTurn("children", "sealing") /\ CommitManifest(w, SearchManifest(r))
  \/ search.stopped /\ SearchTurn("children", "sealing") /\ CommitManifest(w, SearchManifest(r))
  \/ SearchReturn("sealing", "partial") /\ Rename(w)

(* A child throws, or a write fails: the search rejects and seals nothing.  *)
ChildThrows ==
  More /\ ~search.stopped /\ SearchTurn("children", "threw") /\ UNCHANGED storeVars

SearchWriteFails(w) ==
  /\ search' = [search EXCEPT !.pc = "threw"]
  /\ search.pc \notin {"off", "threw", "done"} /\ WriteFails(w)

SearchFlush(w) ==
  search.pc \notin {"off", "threw", "done"} /\ Stage(w) /\ UNCHANGED search

SearchStep(w, r) ==
  \/ ProviderFails \/ \E answer \in Answers : ProviderAnswers(answer)
  \/ SearchBegins(w, r) \/ ScrapeWithout \/ \E o \in Sources : ScrapeWith(o)
  \/ SearchSeals(w, r) \/ ChildThrows \/ SearchFlush(w)

-----------------------------------------------------------------------------
(* Properties.                                                              *)

FirstMentions(answer) ==
  {i \in DOMAIN answer :
     /\ Canonical[answer[i]] # Refused
     /\ \A j \in 1..(i - 1) : Canonical[answer[j]] # Canonical[answer[i]]}

(* What is scraped are the first permitted results of the provider, each    *)
(* once and in the provider's order, as many as were asked for: a refused   *)
(* result or another spelling of a URL takes nobody's place.                *)
PlanIsFair ==
  LET firsts == FirstMentions(search.answer)
      wanted == {i \in firsts : Cardinality({j \in firsts : j < i}) < ScrapeResults} IN
  search.plan = [n \in 1..Cardinality(wanted) |->
                   Canonical[search.answer[CHOOSE i \in wanted :
                                             Cardinality({j \in wanted : j < i}) = n - 1]]]

(* A sealed search is partial, whatever it scraped; it leaves a candidate   *)
(* out only when the signal or the deadline told it to; and each source it  *)
(* claims as evidence is of a candidate it scraped and is stored.           *)
SealedSearchIsHonest(r) ==
  /\ search \in Search
  /\ PlanIsFair
  /\ search.pc # "off" /\ manifests[r] # None =>
       /\ manifests[r].status = "partial" /\ search.status \in {"partial", None}
       /\ More => search.stopped
       /\ \A e \in search.evidence :
            /\ \E i \in 1..search.scraped : search.plan[i] = e.url
            /\ objects[e.source] # "absent"

=============================================================================
