-------------------------------- MODULE Crawl --------------------------------
(***************************************************************************)
(* The bounded crawl of src/src/frontier.mjs: createFrontier and           *)
(* runBoundedCrawl.  One loop takes pages from a FIFO frontier in batches: *)
(* each page of a batch passes the robots gate, the page, byte and time    *)
(* caps and the pacing delay, and its pipeline is then started without     *)
(* being awaited.  When the batch is full the loop awaits all of its       *)
(* pipelines and folds their results into the ledgers in batch order,      *)
(* whatever order they settled in; the links of accepted pages enter the   *)
(* frontier.  One retry budget and one redirect budget serve the whole     *)
(* crawl: the first page of a batch gets all that is left of them.         *)
(*                                                                         *)
(* A page's pipeline is one step here, with any outcome: its attempts are  *)
(* NativeAttempts, which is why it uses at most the retries it was given.  *)
(***************************************************************************)
EXTENDS Naturals, Sequences, FiniteSets

LOCAL INSTANCE Functions

CONSTANTS
  URLs, Seed,
  Links,          (* the links and alternatives each page shows, in order    *)
  Sitemaps,       (* what robots.txt announces, if sitemaps are a source     *)
  Included, Excluded,                       (* the scope globs               *)
  CrawlDelayMs,   (* of robots.txt                                           *)
  MaxPages, MaxDepth, WallMs, MaxTotalBytes, MaxFrontier, Concurrency,
  DelayMs, RetriesPerAdapter, MaxRedirects, (* normalizeLimits               *)
  PageBytes,      (* sizes an accepted page may have                         *)
  Abortable,      (* whether the caller passes an abort signal               *)
  Late,           (* how late a timer can fire                               *)
  MaxTime         (* bound on the clock                                      *)

ASSUME CrawlAssumption ==
  /\ Seed \in URLs
  /\ Links \in [URLs -> Seq(URLs)]
  /\ Sitemaps \in Seq(URLs) /\ IsInjective(Sitemaps)
  /\ Included \subseteq URLs /\ Excluded \subseteq URLs
  /\ {MaxPages, MaxDepth, WallMs, MaxTotalBytes, MaxFrontier, Concurrency, DelayMs}
       \subseteq Nat \ {0}
  /\ {CrawlDelayMs, RetriesPerAdapter, MaxRedirects, Late, MaxTime} \subseteq Nat
  /\ PageBytes \subseteq Nat /\ \E b \in PageBytes : \A c \in PageBytes : b >= c
  /\ Abortable \in BOOLEAN

VARIABLES
  announced,       (* whether the sitemaps of robots.txt have been taken up, *)
                   (* or are no source of this job                           *)
  pc,              (* where the loop is                                      *)
  now, aborted,    (* the clock and the caller's signal                      *)
  queue, seen,     (* the frontier                                           *)
  ledger,          (* the five ledgers, in one sequence                      *)
  limit,           (* the first limit that was hit, or "none"                *)
  stop,
  entry,           (* the page the loop has just dequeued                    *)
  planned,         (* now + waitMs, the start planned for it                 *)
  batch,           (* the pages started since the last join                  *)
  starts,          (* when each page was started: its length is pipelineCalls *)
  nextPageStartAt,
  retriesRemaining, redirectsRemaining,
  batchRetryAllowance, batchRedirectAllowance,
  totalBytes, retriesUsed,
  retried,         (* retries the pages really made (history)                *)
  uncharged,       (* pages whose retries were never charged (history)       *)
  followed         (* redirects the pages really followed (history)          *)

frontierVars == <<queue, seen, ledger, limit>>

budgetVars == <<retriesRemaining, redirectsRemaining, totalBytes, retriesUsed,
                retried, uncharged, followed>>

startVars == <<planned, batch, starts, nextPageStartAt,
               batchRetryAllowance, batchRedirectAllowance>>

vars == <<announced, pc, now, aborted, queue, seen, ledger, limit, stop, entry, planned, batch,
          starts, nextPageStartAt, retriesRemaining, redirectsRemaining, batchRetryAllowance,
          batchRedirectAllowance, totalBytes, retriesUsed, retried, uncharged, followed>>

deadline == WallMs

pipelineCalls == Len(starts)

Largest(a, b) == IF a >= b THEN a ELSE b

Less(a, b) == IF a >= b THEN a - b ELSE 0

-----------------------------------------------------------------------------
(* Ledgers and the frontier.  The operators below work on a record of the   *)
(* four frontier variables.                                                 *)

Page == [url: URLs, depth: Nat]

Reasons == {"ok", "outcome", "robots_denied", "hard_limit", "excluded", "not_included", "duplicate",
            "max_depth", "max_frontier", "max_pages", "max_total_bytes", "max_time", "aborted",
            "not_visited"}

LedgerEntry == [state: {"accepted", "skipped", "blocked", "failed", "unvisited"},
                url: URLs, depth: Nat, reason: Reasons]

Note(state, page, reason) ==
  [state |-> state, url |-> page.url, depth |-> page.depth, reason |-> reason]

Books == [queue |-> queue, seen |-> seen, ledger |-> ledger, limit |-> limit]

Keep(books) ==
  /\ queue' = books.queue
  /\ seen' = books.seen
  /\ ledger' = books.ledger
  /\ limit' = books.limit

Record(books, note) == [books EXCEPT !.ledger = Append(@, note)]

(* setLimit: the first limit stays.                                         *)
Limit(books, reason) == [books EXCEPT !.limit = IF @ = "none" THEN reason ELSE @]

(* recordEnqueue: enqueue with appendEnqueueResult.                         *)
Enqueue(books, page, seed) ==
  LET refused(reason) == Record(books, Note("skipped", page, reason))
      cutOff(reason) == Limit(Record(books, Note("unvisited", page, reason)), reason) IN
  CASE page.depth > MaxDepth -> cutOff("max_depth")
    [] page.depth <= MaxDepth /\ page.url \in Excluded -> refused("excluded")
    [] page.depth <= MaxDepth /\ page.url \notin Excluded
       /\ ~seed /\ page.url \notin Included -> refused("not_included")
    [] OTHER ->
         IF page.url \in books.seen THEN refused("duplicate")
         ELSE IF Len(books.queue) >= MaxFrontier THEN cutOff("max_frontier")
         ELSE [books EXCEPT !.seen = @ \cup {page.url}, !.queue = Append(@, page)]

(* recordEnqueue for every one of urls, in order, all at the same depth.    *)
Follow(books, urls, depth) ==
  LET after[n \in 0..Len(urls)] ==
        IF n = 0 THEN books
        ELSE Enqueue(after[n - 1], [url |-> urls[n], depth |-> depth], FALSE) IN
  after[Len(urls)]

(* Faulty: a crawl that is stopping ignores what its last pages link to.    *)
DiscoverUnlessStopped(books, urls, from) ==
  IF stop THEN books ELSE Follow(books, urls, from.depth + 1)

(* addDiscoveries, and the sitemaps of robots.txt: one hop further.         *)
Discover(books, urls, from) == Follow(books, urls, from.depth + 1)

-----------------------------------------------------------------------------
Nowhere == [url |-> Seed, depth |-> 0]

NoBooks == [queue |-> <<>>, seen |-> {}, ledger |-> <<>>, limit |-> "none"]

Init ==
  /\ announced \in BOOLEAN
  /\ pc = "top"
  /\ now = 0
  /\ aborted = FALSE
  /\ LET books == Enqueue(NoBooks, [url |-> Seed, depth |-> 0], TRUE) IN
       /\ queue = books.queue
       /\ seen = books.seen
       /\ ledger = books.ledger
       /\ limit = books.limit
  /\ stop = FALSE
  /\ entry = Nowhere
  /\ planned = 0
  /\ batch = <<>>
  /\ starts = <<>>
  /\ nextPageStartAt = 0
  /\ retriesRemaining = RetriesPerAdapter
  /\ redirectsRemaining = MaxRedirects
  /\ batchRetryAllowance = 0
  /\ batchRedirectAllowance = 0
  /\ totalBytes = 0
  /\ retriesUsed = 0
  /\ retried = 0
  /\ uncharged = 0
  /\ followed = 0

(* The reason to stop that both loop heads look for.                        *)
Halt == IF aborted THEN "aborted" ELSE IF now >= deadline THEN "max_time" ELSE "none"

(* The outer loop: the end, or a new batch.                                 *)
Finish ==
  /\ pc = "top"
  /\ stop \/ queue = <<>> \/ Halt # "none"
  /\ pc' = "drain"
  /\ Keep(IF stop \/ queue = <<>> THEN Books ELSE Limit(Books, Halt))
  /\ UNCHANGED <<announced, now, aborted, stop, entry, startVars, budgetVars>>

OpenBatch ==
  /\ pc = "top"
  /\ ~stop /\ queue # <<>> /\ Halt = "none"
  /\ pc' = "fill"
  /\ batch' = <<>>
  /\ batchRetryAllowance' = retriesRemaining
  /\ batchRedirectAllowance' = redirectsRemaining
  /\ UNCHANGED <<announced, now, aborted, frontierVars, stop, entry, planned, starts,
                 nextPageStartAt, budgetVars>>

(* The inner loop: leave page unvisited, name the limit and stop.           *)
LeaveOut(books, page, reason) ==
  /\ Keep(Limit(Record(books, Note("unvisited", page, reason)), reason))
  /\ stop' = TRUE
  /\ pc' = "fill"

(* Faulty: a batch is closed only when it is full.                          *)
CloseFullBatch ==
  /\ pc = "fill"
  /\ stop \/ Len(batch) = Concurrency
  /\ pc' = "join"
  /\ UNCHANGED <<announced, now, aborted, frontierVars, stop, entry, startVars, budgetVars>>

CloseBatch ==
  /\ pc = "fill"
  /\ stop \/ Len(batch) = Concurrency \/ queue = <<>>
  /\ pc' = "join"
  /\ UNCHANGED <<announced, now, aborted, frontierVars, stop, entry, startVars, budgetVars>>

Dequeue ==
  /\ pc = "fill"
  /\ ~stop /\ Len(batch) < Concurrency /\ queue # <<>>
  /\ entry' = Head(queue)
  /\ LET books == [Books EXCEPT !.queue = Tail(@)] IN
       IF Halt = "none" THEN Keep(books) /\ pc' = "robots" /\ UNCHANGED stop
                        ELSE LeaveOut(books, Head(queue), Halt)
  /\ UNCHANGED <<announced, now, aborted, startVars, budgetVars>>

(* The robots gate refuses the page, cannot be reached, or rejects.         *)
Deny ==
  /\ pc = "robots"
  /\ pc' = "fill"
  /\ Keep(Record(Books, Note("blocked", entry, "robots_denied")))
  /\ UNCHANGED <<announced, now, aborted, stop, entry, startVars, budgetVars>>

(* The caps that are checked once the gate has allowed the page.            *)
Cap ==
  IF pipelineCalls >= MaxPages THEN "max_pages"
  ELSE IF totalBytes >= MaxTotalBytes THEN "max_total_bytes"
  ELSE IF Largest(now, nextPageStartAt) >= deadline THEN "max_time"
  ELSE "none"

Allow ==
  LET books == IF announced THEN Books ELSE Discover(Books, Sitemaps, entry) IN
  /\ pc = "robots"
  /\ announced' = TRUE
  /\ IF Cap # "none" THEN LeaveOut(books, entry, Cap) /\ UNCHANGED planned
     ELSE /\ Keep(books)
          /\ planned' = Largest(now, nextPageStartAt)
          /\ pc' = IF nextPageStartAt > now THEN "sleep" ELSE "go"
          /\ UNCHANGED stop
  /\ UNCHANGED <<now, aborted, entry, batch, starts, nextPageStartAt,
                 batchRetryAllowance, batchRedirectAllowance, budgetVars>>

(* Faulty: the page that was waiting is forgotten.                          *)
SleepForgets ==
  /\ pc = "sleep"
  /\ aborted
  /\ stop' = TRUE
  /\ pc' = "fill"
  /\ Keep(Limit(Books, "aborted"))
  /\ UNCHANGED <<announced, now, aborted, entry, startVars, budgetVars>>

(* The pacing sleep rejects when the signal aborts it.                      *)
SleepRejects ==
  /\ pc = "sleep"
  /\ aborted
  /\ LeaveOut(Books, entry, "aborted")
  /\ UNCHANGED <<announced, now, aborted, entry, startVars, budgetVars>>

Started(page, retries, redirects) ==
  [page |-> page, retries |-> retries, redirects |-> redirects, settled |-> FALSE,
   kind |-> "failed", bytes |-> 0, retried |-> 0, charged |-> 0, traced |-> 0, followed |-> 0]

EffectiveDelay == Largest(DelayMs, CrawlDelayMs)

(* Faulty: every page of a batch gets the whole retry budget.               *)
StartWithFullBudget ==
  /\ pc \in {"go", "sleep"}
  /\ now >= planned
  /\ pc' = "fill"
  /\ nextPageStartAt' = planned + EffectiveDelay
  /\ starts' = Append(starts, now)
  /\ batch' = Append(batch, Started(entry, batchRetryAllowance, batchRedirectAllowance))
  /\ UNCHANGED <<announced, now, aborted, frontierVars, stop, entry, planned,
                 batchRetryAllowance, batchRedirectAllowance, budgetVars>>

(* Faulty: the next start is paced from an old one.                         *)
StartBehindPace ==
  /\ pc \in {"go", "sleep"}
  /\ now >= planned
  /\ pc' = "fill"
  /\ nextPageStartAt' = nextPageStartAt + EffectiveDelay
  /\ starts' = Append(starts, now)
  /\ batch' = Append(batch, Started(entry, batchRetryAllowance, batchRedirectAllowance))
  /\ batchRetryAllowance' = 0
  /\ batchRedirectAllowance' = 0
  /\ UNCHANGED <<announced, now, aborted, frontierVars, stop, entry, planned, budgetVars>>

(* The page is started with what is left of the budgets for this batch.     *)
StartPage ==
  /\ pc \in {"go", "sleep"}
  /\ now >= planned
  /\ pc' = "fill"
  /\ nextPageStartAt' = planned + EffectiveDelay
  /\ starts' = Append(starts, now)
  /\ batch' = Append(batch, Started(entry, batchRetryAllowance, batchRedirectAllowance))
  /\ batchRetryAllowance' = 0
  /\ batchRedirectAllowance' = 0
  /\ UNCHANGED <<announced, now, aborted, frontierVars, stop, entry, planned, budgetVars>>

-----------------------------------------------------------------------------
(* The pipelines of the batch, which run beside the loop.  Only an accepted *)
(* page reports its usage.  A page is charged by its timeline: a pipeline   *)
(* that rejects, after whatever it has done, has none and is charged        *)
(* nothing.  Each attempt may follow as many redirects as the page was      *)
(* allowed, and those of an attempt that ended in an error leave no trace.  *)
Settle(i) ==
  /\ pc \in {"robots", "sleep", "join"}
  /\ ~batch[i].settled
  /\ \E kind \in {"accepted", "blocked", "failed"}, n \in 0..batch[i].retries :
     \E charged \in IF kind = "failed" THEN {0, n} ELSE {n},
        b \in IF kind = "accepted" THEN PageBytes ELSE {0},
        f \in 0..((n + 1) * batch[i].redirects) :
     \E traced \in IF charged < n THEN {0}
                   ELSE (IF kind = "accepted" THEN Less(f, n * batch[i].redirects) ELSE 0)..f :
        batch' = [batch EXCEPT ![i] = [@ EXCEPT !.settled = TRUE, !.kind = kind, !.bytes = b,
                                       !.retried = n, !.charged = charged,
                                       !.traced = traced, !.followed = f]]
  /\ UNCHANGED <<announced, pc, now, aborted, frontierVars, stop, entry, planned, starts,
                 nextPageStartAt, batchRetryAllowance, batchRedirectAllowance, budgetVars>>

Join ==
  /\ pc = "join"
  /\ \A i \in DOMAIN batch : batch[i].settled
  /\ pc' = "fold"
  /\ UNCHANGED <<announced, now, aborted, frontierVars, stop, entry, startVars, budgetVars>>

(* The body of the loop over the completed pages.                           *)
Verdict(run) ==
  IF totalBytes + run.bytes > MaxTotalBytes THEN "over"
  ELSE run.kind

FoldPage ==
  LET run == Head(batch) IN
  /\ pc = "fold"
  /\ batch # <<>>
  /\ batch' = Tail(batch)
  /\ retriesUsed' = retriesUsed + run.charged
  /\ retried' = retried + run.retried
  /\ uncharged' = IF run.charged < run.retried THEN uncharged + 1 ELSE uncharged
  /\ followed' = followed + run.followed
  /\ retriesRemaining' = Less(retriesRemaining, run.charged)
  /\ redirectsRemaining' = Less(redirectsRemaining, run.traced)
  /\ totalBytes' = totalBytes + run.bytes
  /\ stop' = (stop \/ Verdict(run) = "over")
  /\ \/ /\ Verdict(run) = "over"
        /\ Keep(Limit(Record(Books, Note("blocked", run.page, "hard_limit")), "max_total_bytes"))
     \/ /\ Verdict(run) = "accepted"
        /\ Keep(Discover(Record(Books, Note("accepted", run.page, "ok")),
                         Links[run.page.url], run.page))
     \/ /\ Verdict(run) \in {"blocked", "failed"}
        /\ Keep(Record(Books, Note(run.kind, run.page, "outcome")))
  /\ UNCHANGED <<announced, pc, now, aborted, entry, planned, starts, nextPageStartAt,
                 batchRetryAllowance, batchRedirectAllowance>>

EndBatch ==
  /\ pc = "fold"
  /\ batch = <<>>
  /\ pc' = "top"
  /\ IF now > deadline THEN Keep(Limit(Books, "max_time")) /\ stop' = TRUE
                       ELSE UNCHANGED <<frontierVars, stop>>
  /\ UNCHANGED <<announced, now, aborted, entry, startVars, budgetVars>>

(* What is left in the frontier is reported, never dropped.                 *)
Drain ==
  LET reason == IF limit = "none" THEN "not_visited" ELSE limit IN
  /\ pc = "drain"
  /\ pc' = "done"
  /\ Keep([Books EXCEPT !.ledger = @ \o [i \in DOMAIN queue |-> Note("unvisited", queue[i], reason)],
                        !.queue = <<>>])
  /\ UNCHANGED <<announced, now, aborted, stop, entry, startVars, budgetVars>>

-----------------------------------------------------------------------------
Abort ==
  /\ Abortable /\ ~aborted
  /\ pc \in {"robots", "sleep", "join"}
  /\ aborted' = TRUE
  /\ UNCHANGED <<announced, pc, now, frontierVars, stop, entry, startVars, budgetVars>>

(* Time passes while the loop awaits the gate, the pacing sleep or a batch. *)
Tick ==
  /\ pc \in {"robots", "sleep", "join"}
  /\ now < MaxTime
  /\ pc = "sleep" => now < planned + Late
  /\ now' = now + 1
  /\ UNCHANGED <<announced, pc, aborted, frontierVars, stop, entry, startVars, budgetVars>>

Step ==
  \/ Finish \/ OpenBatch \/ CloseBatch \/ Dequeue \/ Deny \/ Allow \/ SleepRejects \/ StartPage
  \/ Join \/ FoldPage \/ EndBatch \/ Drain

Next == Step \/ Tick \/ Abort \/ \E i \in DOMAIN batch : Settle(i)

Spec == Init /\ [][Next]_vars

(* The gate answers, the pipelines settle and the clock advances.           *)
FairSpec == Spec /\ WF_vars(Step) /\ WF_vars(Tick)
                 /\ WF_vars(\E i \in DOMAIN batch : Settle(i))

-----------------------------------------------------------------------------
(* resultStatus.                                                            *)

In(state) == {i \in DOMAIN ledger : ledger[i].state = state}

(* Faulty: only the limits make a crawl partial.                            *)
StatusByLimit ==
  IF In("accepted") # {} THEN IF limit # "none" THEN "partial" ELSE "ok"
  ELSE IF In("blocked") # {} THEN "blocked" ELSE "exhausted"

Status ==
  IF In("accepted") # {}
  THEN IF limit # "none" \/ In("blocked") \cup In("failed") \cup In("unvisited") # {}
       THEN "partial" ELSE "ok"
  ELSE IF In("blocked") # {} THEN "blocked" ELSE "exhausted"

-----------------------------------------------------------------------------
(* Properties.                                                              *)
InScope == Included \ Excluded

Visited == In("accepted") \cup In("blocked") \cup In("failed")

Mentioned(u) == {i \in DOMAIN ledger : ledger[i].url = u /\ ledger[i].state # "skipped"}

TypeOK ==
  /\ pc \in {"top", "fill", "robots", "sleep", "go", "join", "fold", "drain", "done"}
  /\ {now, planned, nextPageStartAt, retriesRemaining, redirectsRemaining, batchRetryAllowance,
      batchRedirectAllowance, totalBytes, retriesUsed, retried, uncharged, followed} \subseteq Nat
  /\ {announced, aborted, stop} \subseteq BOOLEAN
  /\ queue \in Seq(Page) /\ entry \in Page
  /\ seen \subseteq URLs
  /\ ledger \in Seq(LedgerEntry)
  /\ limit \in Reasons \cup {"none"}
  /\ starts \in Seq(Nat)

(* Every URL the frontier ever admitted ends in the ledger, however the     *)
(* crawl stops (a cap, the deadline, an abort in mid-batch, a rejected      *)
(* sleep), and none is visited twice.                                       *)
EveryPageAccountedFor ==
  /\ pc = "done" => \A u \in seen : Mentioned(u) # {}
  /\ \A i, j \in Visited : ledger[i].url = ledger[j].url => i = j

(* A link of an accepted page is never lost, nor found farther than it is:  *)
(* if it is in scope the ledger mentions it, at most one hop deeper than    *)
(* the page.  The depth cap would otherwise cut pages that are near enough; *)
(* it takes a FIFO frontier, folds in batch order and a depth recorded at   *)
(* the first discovery.                                                     *)
LinksAccountedFor ==
  pc = "done" =>
    \A i \in In("accepted") : \A k \in DOMAIN Links[ledger[i].url] :
      LET u == Links[ledger[i].url][k] IN
      u \in InScope => \E j \in Mentioned(u) : ledger[j].depth <= ledger[i].depth + 1

(* Status ok is a claim of completeness: every page in scope that can be    *)
(* reached from the seed through accepted pages was itself accepted.        *)
OkMeansComplete ==
  pc = "done" /\ Status = "ok" =>
    \A i \in In("accepted") : \A k \in DOMAIN Links[ledger[i].url] :
      Links[ledger[i].url][k] \in InScope =>
        \E j \in In("accepted") : ledger[j].url = Links[ledger[i].url][k]

(* What is counted page by page: pages started, pages side by side, and the *)
(* retries of the crawl.  What is charged keeps within the one budget also  *)
(* when the pages of a batch run side by side; what is really made exceeds  *)
(* it by at most one budget for each page whose pipeline rejected and so    *)
(* gave its retries out again.                                              *)
CountsKept ==
  /\ pipelineCalls <= MaxPages
  /\ Len(batch) <= Concurrency
  /\ retriesUsed <= RetriesPerAdapter
  /\ retried <= retriesUsed + uncharged * RetriesPerAdapter

MaxPageBytes == CHOOSE b \in PageBytes : \A c \in PageBytes : b >= c

(* The caps hold at every moment, except that the byte cap is checked       *)
(* before a page starts: the pages of one batch may overrun it together.    *)
CapsKept ==
  /\ TypeOK
  /\ CountsKept
  /\ Len(queue) <= MaxFrontier
  /\ \A i \in Visited : ledger[i].depth <= MaxDepth
  /\ totalBytes < MaxTotalBytes + Concurrency * MaxPageBytes

(* Pages are paced: two starts are never closer than the effective delay,   *)
(* but for the lateness of the timer that started the first.  No page       *)
(* starts at the deadline or later, but for the lateness of its timer.      *)
PagesArePaced ==
  /\ \A i \in 2..Len(starts) : starts[i] + Late >= starts[i-1] + EffectiveDelay
  /\ \A i \in 1..Len(starts) : starts[i] < deadline + Late

(* The crawl ends.                                                          *)
CrawlEnds == <>(pc = "done")

(* p0-acceptance.test.mjs:771, "spends redirect budget once across the      *)
(* whole frontier".                                                         *)
RedirectBudgetOnce == followed <= MaxRedirects

=============================================================================
