----------------------------- MODULE Crawl_proofs -----------------------------
(***************************************************************************)
(* The bounded crawl of frontier.mjs, for every site, every limit and every *)
(* moment at which gates, sleeps and pages end.                            *)
(*                                                                         *)
(* The pace and the counts depend on the loop's clock, its planned starts  *)
(* and its batch, never on what the frontier's books hold, so every step   *)
(* that only turns the books is alike to them.                             *)
(*                                                                         *)
(* The ledgers are about the books.  The pages that run, the one in hand   *)
(* and the frontier are one line (Ahead, then queue); a page leaves it only *)
(* to be listed, and a URL that is discovered is in it or listed, no       *)
(* deeper than where it was found.  What makes this inductive is that the  *)
(* line is at most one hop deep (Level).                                   *)
(***************************************************************************)
EXTENDS Crawl, TLAPS, WellFoundedInduction

Waiting == pc \in {"sleep", "go"}

Places == {"top", "fill", "robots", "sleep", "go", "join", "fold", "drain", "done"}

(* A page that waits was let through by the caps, and the clock is at most  *)
(* Late past its planned start.  The next start is planned from the last.   *)
PaceInv ==
  /\ pc \in Places
  /\ now \in Nat /\ planned \in Nat /\ nextPageStartAt \in Nat
  /\ starts \in Seq(Nat)
  /\ Waiting => /\ planned < deadline /\ planned >= nextPageStartAt
                /\ now <= planned + Late
                /\ Len(starts) < MaxPages
  /\ Len(starts) > 0 => nextPageStartAt + Late >= starts[Len(starts)] + EffectiveDelay
  /\ Len(starts) <= MaxPages
  /\ PagesArePaced

LEMMA Numbers ==
  /\ WallMs \in Nat /\ WallMs > 0 /\ MaxPages \in Nat /\ MaxPages > 0
  /\ Concurrency \in Nat /\ Concurrency > 0
  /\ Late \in Nat /\ RetriesPerAdapter \in Nat /\ EffectiveDelay \in Nat
<1>1. \A n \in {MaxPages, MaxDepth, WallMs, MaxTotalBytes, MaxFrontier, Concurrency, DelayMs} :
        n \in Nat \ {0}
  BY CrawlAssumption
<1>2. \A n \in {CrawlDelayMs, RetriesPerAdapter, MaxRedirects, Late, MaxTime} : n \in Nat
  BY CrawlAssumption
<1> QED
  BY <1>1, <1>2 DEF EffectiveDelay, Largest

LEMMA InitPace == Init => PaceInv
BY Numbers DEF Init, PaceInv, Waiting, Places, PagesArePaced

LEMMA AllowPaces == PaceInv /\ Allow => PaceInv'
<1> SUFFICES ASSUME PaceInv, Allow PROVE PaceInv'
  OBVIOUS
<1>1. UNCHANGED <<now, starts, nextPageStartAt>>
  BY DEF Allow
<1>2. CASE Cap # "none"
  <2>1. pc' = "fill" /\ planned' = planned
    BY <1>2 DEF Allow, LeaveOut
  <2> QED
    BY <1>1, <2>1 DEF PaceInv, Waiting, Places, PagesArePaced
<1>3. CASE Cap = "none"
  <2>1. /\ planned' = Largest(now, nextPageStartAt)
        /\ pc' = IF nextPageStartAt > now THEN "sleep" ELSE "go"
    BY <1>3 DEF Allow
  <2>2. Len(starts) < MaxPages /\ planned' < deadline
    BY <1>3, <2>1, Numbers DEF Cap, pipelineCalls, PaceInv, Largest, deadline
  <2> QED
    BY <1>1, <2>1, <2>2, Numbers DEF PaceInv, Waiting, Places, PagesArePaced, Largest, deadline
<1> QED
  BY <1>2, <1>3

LEMMA StartPaces == PaceInv /\ StartPage => PaceInv'
<1> SUFFICES ASSUME PaceInv, StartPage PROVE PaceInv'
  OBVIOUS
<1> DEFINE n == Len(starts)
<1>1. /\ Waiting /\ pc' = "fill" /\ now >= planned
      /\ nextPageStartAt' = planned + EffectiveDelay /\ starts' = Append(starts, now)
      /\ UNCHANGED <<now, planned>>
  BY DEF StartPage, Waiting
<1>2. /\ starts' \in Seq(Nat) /\ Len(starts') = n + 1 /\ starts'[n + 1] = now
      /\ \A i \in 1..n : starts'[i] = starts[i]
      /\ n \in Nat
  BY <1>1 DEF PaceInv
<1>3. ASSUME NEW i \in 2..(n + 1)
      PROVE  starts'[i] + Late >= starts'[i-1] + EffectiveDelay
  <2>1. CASE i \in 2..n
    <3>1. starts[i] + Late >= starts[i-1] + EffectiveDelay
      BY <2>1 DEF PaceInv, PagesArePaced
    <3>2. i \in 1..n /\ i - 1 \in 1..n
      BY <1>2, <2>1
    <3> QED
      BY <1>2, <3>1, <3>2
  <2>2. CASE i = n + 1
    BY <1>1, <1>2, <1>3, <2>2, Numbers DEF PaceInv
  <2> QED
    BY <1>2, <1>3, <2>1, <2>2
<1>4. ASSUME NEW i \in 1..(n + 1)
      PROVE  starts'[i] < deadline + Late
  BY <1>1, <1>2, <1>4, Numbers DEF PaceInv, PagesArePaced, deadline
<1>5. PagesArePaced'
  BY <1>2, <1>3, <1>4 DEF PagesArePaced, EffectiveDelay, deadline
<1>6. Len(starts') > 0 => nextPageStartAt' + Late >= starts'[Len(starts')] + EffectiveDelay
  BY <1>1, <1>2, Numbers DEF PaceInv
<1>7. n < MaxPages
  BY <1>1 DEF PaceInv
<1> QED
  BY <1>1, <1>2, <1>5, <1>6, <1>7, Numbers DEF PaceInv, Waiting, Places, EffectiveDelay

LEMMA NextPace == PaceInv /\ [Next]_vars => PaceInv'
<1> SUFFICES ASSUME PaceInv, [Next]_vars PROVE PaceInv'
  OBVIOUS
<1>1. CASE Tick
  BY <1>1, Numbers DEF Tick, startVars, PaceInv, Waiting, Places, PagesArePaced
<1>2. CASE \/ Finish \/ OpenBatch \/ CloseBatch \/ Dequeue \/ Deny \/ SleepRejects
           \/ Join \/ FoldPage \/ EndBatch \/ Drain
  <2>1. /\ UNCHANGED <<now, planned, starts, nextPageStartAt>>
        /\ pc' \in Places \ {"sleep", "go"}
    BY <1>2 DEF Finish, OpenBatch, CloseBatch, Dequeue, Deny, SleepRejects, LeaveOut, Join, FoldPage,
                EndBatch, Drain, startVars, Places
  <2> QED
    BY <2>1 DEF PaceInv, Waiting, Places, PagesArePaced
<1>3. CASE Abort \/ (\E i \in DOMAIN batch : Settle(i)) \/ UNCHANGED vars
  <2>1. UNCHANGED <<pc, now, planned, starts, nextPageStartAt>>
    BY <1>3 DEF Abort, Settle, vars, startVars
  <2> QED
    BY <2>1 DEF PaceInv, Waiting, PagesArePaced
<1> QED
  BY <1>1, <1>2, <1>3, AllowPaces, StartPaces DEF Next, Step

LEMMA Paces == Spec => []PaceInv
BY InitPace, NextPace, PTL DEF Spec

(* Two pages are never started closer than the effective delay, and none at *)
(* the deadline or later, but for the lateness of the timer that started    *)
(* one, whatever the site, the limits and the moments at which the gate, the *)
(* sleeps and the pages end.                                                *)
THEOREM CrawlPaces == Spec => []PagesArePaced
<1>1. PaceInv => PagesArePaced
  BY DEF PaceInv
<1> QED
  BY <1>1, Paces, PTL

-----------------------------------------------------------------------------
(* The counts.  The first page of a batch gets all that is left of the      *)
(* retries and the others none, so what the batch may still spend is what   *)
(* its first page was given, before and while it is folded.  A page whose   *)
(* pipeline rejected has made at most what it was given, too, but is        *)
(* charged none of it.                                                      *)

Filling == pc \in {"fill", "robots", "sleep", "go"}

SomeBatch == \E S : batch \in Seq(S)

Spends == {"retries", "retried", "charged"}

Spenders ==
  /\ \A i \in 1..Len(batch) : Spends \subseteq DOMAIN batch[i]
  /\ \A i \in 1..Len(batch) : /\ batch[i].retries \in Nat
                               /\ batch[i].retried \in 0..batch[i].retries
                               /\ batch[i].charged \in 0..batch[i].retried
  /\ \A i \in 2..Len(batch) : batch[i].retries = 0
  /\ batch # <<>> => batch[1].retries <= retriesRemaining

CountInv ==
  /\ SomeBatch
  /\ retriesRemaining \in Nat /\ retriesUsed \in Nat /\ batchRetryAllowance \in Nat
  /\ retriesUsed + retriesRemaining = RetriesPerAdapter
  /\ retried \in Nat /\ uncharged \in Nat
  /\ retried <= retriesUsed + uncharged * RetriesPerAdapter
  /\ Len(batch) <= Concurrency
  /\ pc \in {"robots", "sleep", "go"} => Len(batch) < Concurrency
  /\ Filling => IF batch = <<>> THEN batchRetryAllowance <= retriesRemaining
                                ELSE batchRetryAllowance = 0
  /\ Spenders

LEMMA InitCounts == Init => CountInv
<1> SUFFICES ASSUME Init PROVE CountInv
  OBVIOUS
<1>1. SomeBatch
  BY DEF Init, SomeBatch
<1>2. 0 * RetriesPerAdapter = 0
  BY Numbers
<1> QED
  BY <1>1, <1>2, Numbers DEF Init, CountInv, Spenders, Filling

LEMMA OpenCounts == CountInv /\ OpenBatch => CountInv'
<1> SUFFICES ASSUME CountInv, OpenBatch PROVE CountInv'
  OBVIOUS
<1>1. /\ batch' = <<>> /\ batchRetryAllowance' = retriesRemaining /\ pc' = "fill"
      /\ UNCHANGED <<retriesRemaining, retriesUsed, retried, uncharged>>
  BY DEF OpenBatch, budgetVars
<1>2. SomeBatch'
  BY <1>1 DEF SomeBatch
<1> QED
  BY <1>1, <1>2, Numbers DEF CountInv, Spenders, Filling

LEMMA StartCounts == CountInv /\ StartPage => CountInv'
<1> SUFFICES ASSUME CountInv, StartPage PROVE CountInv'
  OBVIOUS
<1> DEFINE n == Len(batch)
           run == Started(entry, batchRetryAllowance, batchRedirectAllowance)
<1>1. /\ batch' = Append(batch, run) /\ batchRetryAllowance' = 0 /\ pc' = "fill"
      /\ Filling /\ n < Concurrency
      /\ UNCHANGED <<retriesRemaining, retriesUsed, retried, uncharged>>
  BY DEF StartPage, budgetVars, CountInv, Filling
<1>2. PICK S : batch \in Seq(S)
  BY DEF CountInv, SomeBatch
<1>3. batch' \in Seq(S \cup {run})
  BY <1>1, <1>2
<1>4. /\ n \in Nat /\ Len(batch') = n + 1 /\ batch'[n + 1] = run
      /\ \A i \in 1..n : batch'[i] = batch[i]
      /\ (batch = <<>>) <=> (n = 0)
  BY <1>1, <1>2
<1>5. run.retries = batchRetryAllowance /\ run.retried = 0 /\ run.charged = 0
  BY DEF Started
<1>6. Spenders'
  <2>1. Spends \subseteq DOMAIN run
    BY DEF Started, Spends
  <2>2. ASSUME NEW i \in 1..(n + 1)
        PROVE  Spends \subseteq DOMAIN batch'[i]
    BY <1>4, <2>1, <2>2 DEF CountInv, Spenders
  <2>3. ASSUME NEW i \in 1..(n + 1)
        PROVE  /\ batch'[i].retries \in Nat
               /\ batch'[i].retried \in 0..batch'[i].retries
               /\ batch'[i].charged \in 0..batch'[i].retried
    BY <1>4, <1>5, <2>3 DEF CountInv, Spenders
  <2>4. ASSUME NEW i \in 2..(n + 1)
        PROVE  batch'[i].retries = 0
    BY <1>1, <1>4, <1>5, <2>4 DEF CountInv, Spenders
  <2>5. batch'[1].retries <= retriesRemaining
    BY <1>1, <1>4, <1>5 DEF CountInv, Spenders
  <2> QED
    BY <1>1, <1>4, <2>3, <2>4, <2>5, <2>2 DEF Spenders
<1>7. batch' # <<>>
  BY <1>1, <1>2
<1>8. SomeBatch'
  BY <1>3 DEF SomeBatch
<1> QED
  BY <1>1, <1>4, <1>6, <1>7, <1>8, Numbers DEF CountInv, Filling

(* Of the page that settles, only what it has retried and what it will be   *)
(* charged matter here.                                                     *)
LEMMA SettleCounts == CountInv /\ (\E i \in DOMAIN batch : Settle(i)) => CountInv'
<1> SUFFICES ASSUME CountInv, NEW i \in DOMAIN batch, Settle(i) PROVE CountInv'
  OBVIOUS
<1>1. PICK S : batch \in Seq(S)
  BY DEF CountInv, SomeBatch
<1>2. i \in 1..Len(batch) /\ Len(batch) \in Nat
  BY <1>1
<1>3. Spends \subseteq DOMAIN batch[i] /\ batch[i].retries \in Nat
  BY <1>2 DEF CountInv, Spenders
<1>4. PICK n \in 0..batch[i].retries : \E charged \in {0, n} : \E run :
        /\ batch' = [batch EXCEPT ![i] = run]
        /\ Spends \subseteq DOMAIN run
        /\ run.retries = batch[i].retries /\ run.retried = n /\ run.charged = charged
  <2>1. PICK kind \in {"accepted", "blocked", "failed"}, n \in 0..batch[i].retries :
          \E charged \in IF kind = "failed" THEN {0, n} ELSE {n},
             b \in IF kind = "accepted" THEN PageBytes ELSE {0}, f \in 0..((n + 1) * batch[i].redirects) :
          \E traced \in IF charged < n THEN {0}
                     ELSE (IF kind = "accepted" THEN Less(f, n * batch[i].redirects) ELSE 0)..f :
            batch' = [batch EXCEPT ![i] = [batch[i] EXCEPT !.settled = TRUE, !.kind = kind, !.bytes = b,
                                                     !.retried = n, !.charged = charged,
                                                     !.traced = traced, !.followed = f]]
    BY DEF Settle
  <2>2. PICK charged \in IF kind = "failed" THEN {0, n} ELSE {n},
             b \in IF kind = "accepted" THEN PageBytes ELSE {0}, f \in 0..((n + 1) * batch[i].redirects) :
          \E traced \in IF charged < n THEN {0}
                     ELSE (IF kind = "accepted" THEN Less(f, n * batch[i].redirects) ELSE 0)..f :
            batch' = [batch EXCEPT ![i] = [batch[i] EXCEPT !.settled = TRUE, !.kind = kind, !.bytes = b,
                                                     !.retried = n, !.charged = charged,
                                                     !.traced = traced, !.followed = f]]
    BY <2>1
  <2>3. PICK traced \in IF charged < n THEN {0}
                     ELSE (IF kind = "accepted" THEN Less(f, n * batch[i].redirects) ELSE 0)..f :
          batch' = [batch EXCEPT ![i] = [batch[i] EXCEPT !.settled = TRUE, !.kind = kind, !.bytes = b,
                                                   !.retried = n, !.charged = charged,
                                                   !.traced = traced, !.followed = f]]
    BY <2>2
  <2> DEFINE run == [batch[i] EXCEPT !.settled = TRUE, !.kind = kind, !.bytes = b,
                                     !.retried = n, !.charged = charged,
                                     !.traced = traced, !.followed = f]
  <2>4. /\ Spends \subseteq DOMAIN run
        /\ run.retries = batch[i].retries /\ run.retried = n /\ run.charged = charged
    BY <1>3 DEF Spends
  <2>5. charged \in {0, n}
    OBVIOUS
  <2> QED
    BY <2>3, <2>4, <2>5
<1>5. PICK charged \in {0, n} : \E run :
        /\ batch' = [batch EXCEPT ![i] = run]
        /\ Spends \subseteq DOMAIN run
        /\ run.retries = batch[i].retries /\ run.retried = n /\ run.charged = charged
  BY <1>4
<1>51. PICK run :
        /\ batch' = [batch EXCEPT ![i] = run]
        /\ Spends \subseteq DOMAIN run
        /\ run.retries = batch[i].retries /\ run.retried = n /\ run.charged = charged
  BY <1>5
<1>6. /\ batch' \in Seq(S \cup {run}) /\ Len(batch') = Len(batch) /\ batch'[i] = run
      /\ \A j \in 1..Len(batch) : j # i => batch'[j] = batch[j]
  BY <1>1, <1>2, <1>5, <1>51
<1>7. SomeBatch' /\ ((batch' = <<>>) <=> (batch = <<>>))
  BY <1>1, <1>6 DEF SomeBatch
<1>8. UNCHANGED <<pc, retriesRemaining, retriesUsed, retried, uncharged, batchRetryAllowance>>
  BY DEF Settle, budgetVars
<1>9. Spenders'
  <2>1. ASSUME NEW j \in 1..Len(batch)
        PROVE  /\ Spends \subseteq DOMAIN batch'[j]
               /\ batch'[j].retries = batch[j].retries
               /\ batch'[j].retried \in 0..batch'[j].retries
               /\ batch'[j].charged \in 0..batch'[j].retried
    <3>1. CASE j = i
      <4>1. charged \in 0..n
        BY <1>3, <1>5, <1>51
      <4> QED
        BY <1>5, <1>51, <1>6, <3>1, <4>1
    <3>2. CASE j # i
      BY <1>6, <2>1, <3>2 DEF CountInv, Spenders
    <3> QED
      BY <3>1, <3>2
  <2>2. ASSUME NEW j \in 2..Len(batch)
        PROVE  batch'[j].retries = 0
    <3>1. j \in 1..Len(batch) /\ batch[j].retries = 0
      BY <1>2 DEF CountInv, Spenders
    <3> QED
      BY <2>1, <3>1
  <2>3. batch' # <<>> => batch'[1].retries <= retriesRemaining
    <3>1. batch # <<>> => 1 \in 1..Len(batch)
      BY <1>2
    <3> QED
      BY <1>7, <2>1, <3>1 DEF CountInv, Spenders
  <2>4. \A j \in 1..Len(batch) : batch'[j].retries \in Nat
    BY <2>1 DEF CountInv, Spenders
  <2> QED
    BY <1>6, <1>8, <2>1, <2>2, <2>3, <2>4 DEF Spenders
<1> QED
  BY <1>6, <1>7, <1>8, <1>9 DEF CountInv, Filling

(* A page that is folded spends what it was given; those behind it were     *)
(* given nothing.  One that is charged less has made no more than one       *)
(* budget.                                                                  *)
LEMMA FoldCounts == CountInv /\ FoldPage => CountInv'
<1> SUFFICES ASSUME CountInv, FoldPage PROVE CountInv'
  OBVIOUS
<1> DEFINE n == Len(batch)
           spent == batch[1].charged
           made == batch[1].retried
<1>1. PICK S : batch \in Seq(S)
  BY DEF CountInv, SomeBatch
<1>2. /\ batch # <<>> /\ batch' = Tail(batch) /\ pc = "fold" /\ pc' = pc
      /\ retriesUsed' = retriesUsed + spent
      /\ retriesRemaining' = Less(retriesRemaining, spent)
      /\ retried' = retried + made
      /\ uncharged' = IF spent < made THEN uncharged + 1 ELSE uncharged
      /\ batchRetryAllowance' = batchRetryAllowance
  BY <1>1 DEF FoldPage
<1>3. /\ n \in Nat \ {0} /\ batch' \in Seq(S) /\ Len(batch') = n - 1
      /\ \A i \in 1..(n - 1) : batch'[i] = batch[i + 1]
  BY <1>1, <1>2
<1>4. /\ spent \in Nat /\ made \in Nat /\ spent <= made
      /\ made <= retriesRemaining /\ made <= RetriesPerAdapter
  BY <1>2, <1>3, Numbers DEF CountInv, Spenders
<1>5. /\ retriesRemaining' = retriesRemaining - spent
      /\ retriesRemaining' \in Nat /\ retriesUsed' \in Nat
      /\ retriesUsed' + retriesRemaining' = RetriesPerAdapter
  <2>1. /\ retriesRemaining \in Nat /\ retriesUsed \in Nat
        /\ retriesUsed + retriesRemaining = RetriesPerAdapter
    BY DEF CountInv
  <2>2. spent <= retriesRemaining
    BY <1>4, <2>1, Numbers
  <2> HIDE DEF spent, made
  <2> QED
    BY <1>2, <1>4, <2>1, <2>2, Numbers DEF Less
<1>6. Spenders'
  <2>1. ASSUME NEW i \in 1..(n - 1)
        PROVE  /\ Spends \subseteq DOMAIN batch'[i]
               /\ batch'[i].retries = 0
               /\ batch'[i].retried \in 0..batch'[i].retries
               /\ batch'[i].charged \in 0..batch'[i].retried
    <3>1. i + 1 \in 2..n /\ i + 1 \in 1..n
      BY <1>3, <2>1
    <3> QED
      BY <1>3, <3>1 DEF CountInv, Spenders
  <2>2. batch' # <<>> => batch'[1].retries = 0
    BY <1>3, <2>1
  <2> QED
    BY <1>3, <1>5, <2>1, <2>2 DEF Spenders
<1>8. /\ retried' \in Nat /\ uncharged' \in Nat
      /\ retried' <= retriesUsed' + uncharged' * RetriesPerAdapter
  <2> DEFINE lost == uncharged * RetriesPerAdapter
  <2>1. /\ retried \in Nat /\ uncharged \in Nat /\ retriesUsed \in Nat /\ lost \in Nat
        /\ retried <= retriesUsed + lost
    BY Numbers DEF CountInv
  <2>2. (uncharged + 1) * RetriesPerAdapter = lost + RetriesPerAdapter
    BY <2>1, Numbers
  <2>3. CASE spent < made
    <3>1. uncharged' * RetriesPerAdapter = lost + RetriesPerAdapter
      BY <1>2, <2>2, <2>3
    <3> HIDE DEF lost, spent, made
    <3> QED
      BY <1>2, <1>4, <2>1, <2>3, <3>1, Numbers
  <2>4. CASE ~(spent < made)
    <3>1. uncharged' * RetriesPerAdapter = lost
      BY <1>2, <2>4
    <3> HIDE DEF lost, spent, made
    <3> QED
      BY <1>2, <1>4, <2>1, <2>4, <3>1, Numbers
  <2> QED
    BY <2>3, <2>4
<1>7. SomeBatch'
  BY <1>3 DEF SomeBatch
<1> QED
  BY <1>2, <1>3, <1>5, <1>6, <1>7, <1>8, Numbers DEF CountInv, Filling

LEMMA NextCounts == CountInv /\ [Next]_vars => CountInv'
<1> SUFFICES ASSUME CountInv, [Next]_vars PROVE CountInv'
  OBVIOUS
<1>1. ASSUME UNCHANGED <<batch, retriesRemaining, retriesUsed, retried, uncharged, batchRetryAllowance>>,
             Filling' => Filling, pc' \in {"robots", "sleep", "go"} => Len(batch) < Concurrency
      PROVE  CountInv'
  BY <1>1 DEF CountInv, SomeBatch, Spenders
<1>2. CASE Finish \/ CloseBatch \/ Deny \/ SleepRejects \/ Join \/ EndBatch \/ Drain
  <2>1. /\ UNCHANGED <<batch, retriesRemaining, retriesUsed, retried, uncharged, batchRetryAllowance>>
        /\ Filling' => Filling
    BY <1>2 DEF Finish, CloseBatch, Deny, SleepRejects, LeaveOut, Join, EndBatch, Drain, startVars,
                budgetVars, Filling
  <2>2. pc' \notin {"robots", "sleep", "go"}
    BY <1>2 DEF Finish, CloseBatch, Deny, SleepRejects, LeaveOut, Join, EndBatch, Drain
  <2> QED
    BY <1>1, <2>1, <2>2
<1>3. CASE Dequeue
  BY <1>1, <1>3 DEF Dequeue, LeaveOut, startVars, budgetVars, Filling
<1>4. CASE Allow
  <2>1. /\ UNCHANGED <<batch, retriesRemaining, retriesUsed, retried, uncharged, batchRetryAllowance>>
        /\ pc = "robots"
    BY <1>4 DEF Allow, budgetVars
  <2> QED
    BY <1>1, <2>1 DEF CountInv, Filling
<1>5. CASE Tick \/ Abort \/ UNCHANGED vars
  <2>1. UNCHANGED <<pc, batch, retriesRemaining, retriesUsed, retried, uncharged,
                   batchRetryAllowance>>
    BY <1>5 DEF Tick, Abort, vars, startVars, budgetVars
  <2> QED
    BY <1>1, <2>1 DEF CountInv, Filling
<1> QED
  BY <1>2, <1>3, <1>4, <1>5, OpenCounts, StartCounts, SettleCounts, FoldCounts DEF Next, Step

(* However the batches are filled and in whatever order their pages settle, *)
(* no more pages are started than the cap allows, no more run at once than  *)
(* the concurrency, and the retries the crawl charges stay within one       *)
(* adapter's budget.  Those its pages make are more by at most one budget   *)
(* for each page whose pipeline rejected (frontier.mjs:551-572), and only   *)
(* then.                                                                    *)
THEOREM CrawlKeepsCounts == Spec => []CountsKept
<1>1. Spec => []CountInv
  BY InitCounts, NextCounts, PTL DEF Spec
<1>2. PaceInv /\ CountInv => CountsKept
  BY Numbers DEF PaceInv, CountInv, CountsKept, pipelineCalls
<1> QED
  BY <1>1, <1>2, Paces, PTL

-----------------------------------------------------------------------------
(* The ledgers.  What is known of a page is where it stands: among those    *)
(* running, in hand, in the frontier, or in the ledgers.                    *)

(* A URL is listed at most d deep.                                          *)
Listed(book, u, d) ==
  \E j \in DOMAIN book : book[j].url = u /\ book[j].state # "skipped" /\ book[j].depth <= d

(* It is listed, or in line to be.                                          *)
Reached(line, book, u, d) ==
  (\E n \in DOMAIN line : line[n].url = u /\ line[n].depth <= d) \/ Listed(book, u, d)

VisitedIn(book) == {i \in DOMAIN book : book[i].state \in {"accepted", "blocked", "failed"}}

(* Nothing is in line twice or once it was visited; what is near comes      *)
(* first.                                                                   *)
Orderly(line, known, book) ==
  /\ line \in Seq(Page) /\ book \in Seq(LedgerEntry) /\ known \subseteq URLs
  /\ \A m, n \in DOMAIN line : line[m].url = line[n].url => m = n
  /\ \A m, n \in DOMAIN line : m <= n => line[m].depth <= line[n].depth
  /\ \A n \in DOMAIN line : line[n].url \in known /\ line[n].depth <= MaxDepth
  /\ \A i \in VisitedIn(book) :
       /\ book[i].url \in known /\ book[i].depth <= MaxDepth
       /\ \A n \in DOMAIN line : line[n].url # book[i].url
       /\ \A j \in VisitedIn(book) : book[i].url = book[j].url => i = j

(* The line is at most one hop deep, and nothing known lies beyond it: this *)
(* is what makes the first depth recorded the least.                        *)
Level(line, known, book, e) ==
  /\ \A n \in DOMAIN line : line[n].depth \in {e - 1, e}
  /\ \A u \in known : Reached(line, book, u, e)

(* What can be reached can still be reached.                                *)
Nearer(line1, book1, line2, book2) ==
  \A u \in URLs, d \in Nat : Reached(line1, book1, u, d) => Reached(line2, book2, u, d)

LEMMA InLine ==
  ASSUME NEW line \in Seq(Page), NEW n \in DOMAIN line
  PROVE  line[n] \in Page /\ line[n].url \in URLs /\ line[n].depth \in Nat
<1>1. line[n] \in Page
  OBVIOUS
<1> QED
  BY <1>1 DEF Page

LEMMA InBook ==
  ASSUME NEW book \in Seq(LedgerEntry), NEW j \in DOMAIN book
  PROVE  /\ book[j] \in LedgerEntry /\ book[j].url \in URLs /\ book[j].depth \in Nat
         /\ book[j].state \in {"accepted", "skipped", "blocked", "failed", "unvisited"}
<1>1. book[j] \in LedgerEntry
  OBVIOUS
<1> QED
  BY <1>1 DEF LedgerEntry

LEMMA ReachedDeeper ==
  ASSUME NEW line \in Seq(Page), NEW book \in Seq(LedgerEntry), NEW u, NEW d \in Nat, NEW e \in Nat,
         d <= e, Reached(line, book, u, d)
  PROVE  Reached(line, book, u, e)
<1>1. CASE \E n \in DOMAIN line : line[n].url = u /\ line[n].depth <= d
  <2>1. PICK n \in DOMAIN line : line[n].url = u /\ line[n].depth <= d
    BY <1>1
  <2>2. line[n].depth \in Nat
    BY <2>1, InLine
  <2>3. line[n].depth <= e
    BY <2>1, <2>2
  <2> QED
    BY <2>1, <2>3 DEF Reached
<1>2. CASE Listed(book, u, d)
  <2>1. PICK j \in DOMAIN book : book[j].url = u /\ book[j].state # "skipped" /\ book[j].depth <= d
    BY <1>2 DEF Listed
  <2>2. book[j].depth \in Nat
    BY <2>1, InBook
  <2>3. book[j].depth <= e
    BY <2>1, <2>2
  <2> QED
    BY <2>1, <2>3 DEF Reached, Listed
<1> QED
  BY <1>1, <1>2 DEF Reached

(* Seen from the first page in line, the next level is one hop from it.     *)
LEMMA LevelOfHead ==
  ASSUME NEW line, NEW known, NEW book, Orderly(line, known, book),
         NEW e \in Nat, Level(line, known, book, e), 1 \in DOMAIN line
  PROVE  line[1].depth \in Nat /\ Level(line, known, book, line[1].depth + 1)
<1> DEFINE d == line[1].depth
<1>1. d \in Nat /\ \A n \in DOMAIN line : line[n].depth \in Nat
  BY InLine DEF Orderly
<1>2. d \in {e - 1, e}
  BY DEF Level
<1>3. ASSUME NEW n \in DOMAIN line PROVE line[n].depth \in {d, d + 1}
  <2>1. line[n].depth \in {e - 1, e} /\ d <= line[n].depth
    <3>1. 1 <= n
      BY <1>3 DEF Orderly
    <3> QED
      BY <1>3, <3>1 DEF Level, Orderly
  <2> QED
    BY <1>1, <1>2, <2>1
<1>4. ASSUME NEW u \in known PROVE Reached(line, book, u, d + 1)
  <2>1. e <= d + 1
    BY <1>1, <1>2
  <2>2. Reached(line, book, u, e)
    BY <1>4 DEF Level
  <2> QED
    BY <1>1, <2>1, <2>2, ReachedDeeper DEF Orderly
<1>5. \A n \in DOMAIN line : line[n].depth \in {(d + 1) - 1, d + 1}
  BY <1>1, <1>3
<1> QED
  BY <1>1, <1>4, <1>5 DEF Level

(* A page leaves the line, from wherever it stands in it, and is listed.    *)
TakenOut(line1, k, line2) ==
  /\ k \in DOMAIN line1
  /\ line2 \in Seq(Page) /\ Len(line2) = Len(line1) - 1
  /\ \A n \in DOMAIN line2 : line2[n] = line1[IF n < k THEN n ELSE n + 1]

LEMMA LeavingLine ==
  ASSUME NEW line1 \in Seq(Page), NEW line2, NEW k, TakenOut(line1, k, line2)
  PROVE  /\ \A n \in DOMAIN line2 : (IF n < k THEN n ELSE n + 1) \in DOMAIN line1 \ {k}
         /\ \A m \in DOMAIN line1 : m # k => \E n \in DOMAIN line2 : line2[n] = line1[m]
<1>1. /\ k \in 1..Len(line1) /\ Len(line1) \in Nat /\ DOMAIN line1 = 1..Len(line1)
      /\ DOMAIN line2 = 1..(Len(line1) - 1)
  BY DEF TakenOut
<1>2. ASSUME NEW m \in DOMAIN line1, m # k PROVE \E n \in DOMAIN line2 : line2[n] = line1[m]
  <2>1. CASE m < k
    <3>1. m \in DOMAIN line2
      BY <1>1, <1>2, <2>1
    <3>2. line2[m] = line1[m]
      BY <2>1, <3>1 DEF TakenOut
    <3> QED
      BY <3>1, <3>2
  <2>2. CASE ~(m < k)
    <3>1. m - 1 \in DOMAIN line2 /\ ~(m - 1 < k) /\ (m - 1) + 1 = m
      BY <1>1, <1>2, <2>2
    <3>2. line2[m - 1] = line1[m]
      BY <3>1 DEF TakenOut
    <3> QED
      BY <3>1, <3>2
  <2> QED
    BY <2>1, <2>2
<1> QED
  BY <1>1, <1>2

LEMMA NotedDoes ==
  ASSUME NEW book \in Seq(LedgerEntry), NEW page \in Page, NEW reason \in Reasons,
         NEW state \in {"accepted", "skipped", "blocked", "failed", "unvisited"}
  PROVE  LET more == Append(book, Note(state, page, reason)) IN
         /\ more \in Seq(LedgerEntry) /\ Len(more) = Len(book) + 1
         /\ \A i \in DOMAIN book : more[i] = book[i]
         /\ DOMAIN more = DOMAIN book \cup {Len(book) + 1} /\ Len(book) + 1 \notin DOMAIN book
         /\ more[Len(book) + 1].state = state /\ more[Len(book) + 1].url = page.url
         /\ more[Len(book) + 1].depth = page.depth
<1>1. Note(state, page, reason) \in LedgerEntry
  BY DEF Note, Page, LedgerEntry
<1>2. Note(state, page, reason).state = state /\ Note(state, page, reason).url = page.url
      /\ Note(state, page, reason).depth = page.depth
  BY DEF Note
<1> QED
  BY <1>1, <1>2

(* What is listed stays listed.                                             *)
LEMMA NotedReaches ==
  ASSUME NEW book \in Seq(LedgerEntry), NEW page \in Page, NEW reason \in Reasons,
         NEW state \in {"accepted", "skipped", "blocked", "failed", "unvisited"}
  PROVE  LET more == Append(book, Note(state, page, reason)) IN
         /\ \A u, d : Listed(book, u, d) => Listed(more, u, d)
         /\ state # "skipped" => \A d \in Nat : page.depth <= d => Listed(more, page.url, d)
         /\ VisitedIn(more) = VisitedIn(book) \cup
              (IF state \in {"accepted", "blocked", "failed"} THEN {Len(book) + 1} ELSE {})
<1> DEFINE more == Append(book, Note(state, page, reason))
<1>1. /\ more \in Seq(LedgerEntry) /\ Len(more) = Len(book) + 1
      /\ \A i \in DOMAIN book : more[i] = book[i]
      /\ DOMAIN more = DOMAIN book \cup {Len(book) + 1} /\ Len(book) + 1 \notin DOMAIN book
      /\ more[Len(book) + 1].state = state /\ more[Len(book) + 1].url = page.url
      /\ more[Len(book) + 1].depth = page.depth
  BY NotedDoes
<1> HIDE DEF more
<1>2. \A u, d : Listed(book, u, d) => Listed(more, u, d)
  BY <1>1 DEF Listed
<1>3. state # "skipped" => \A d \in Nat : page.depth <= d => Listed(more, page.url, d)
  BY <1>1 DEF Listed
<1>4. VisitedIn(more) = VisitedIn(book) \cup
              (IF state \in {"accepted", "blocked", "failed"} THEN {Len(book) + 1} ELSE {})
  BY <1>1 DEF VisitedIn
<1> QED
  BY <1>2, <1>3, <1>4 DEF more

LEMMA LeaveKeeps ==
  ASSUME NEW line1, NEW line2, NEW known, NEW book, NEW k, Orderly(line1, known, book),
         TakenOut(line1, k, line2), NEW reason \in Reasons,
         NEW state \in {"accepted", "blocked", "failed", "unvisited"}
  PROVE  LET more == Append(book, Note(state, line1[k], reason)) IN
         /\ Orderly(line2, known, more)
         /\ Nearer(line1, book, line2, more)
         /\ \A e \in Nat : Level(line1, known, book, e) => Level(line2, known, more, e)
<1> DEFINE page == line1[k]
           more == Append(book, Note(state, line1[k], reason))
           old(n) == IF n < k THEN n ELSE n + 1
<1>1. /\ line1 \in Seq(Page) /\ book \in Seq(LedgerEntry) /\ k \in DOMAIN line1 /\ page \in Page
      /\ line2 \in Seq(Page) /\ Len(line2) = Len(line1) - 1 /\ known \subseteq URLs
  BY DEF Orderly, TakenOut
<1>2. /\ \A n \in DOMAIN line2 : old(n) \in DOMAIN line1 \ {k} /\ line2[n] = line1[old(n)]
      /\ \A m \in DOMAIN line1 : m # k => \E n \in DOMAIN line2 : line2[n] = line1[m]
  <2>1. /\ \A n \in DOMAIN line2 : (IF n < k THEN n ELSE n + 1) \in DOMAIN line1 \ {k}
        /\ \A m \in DOMAIN line1 : m # k => \E n \in DOMAIN line2 : line2[n] = line1[m]
    <3> HIDE DEF page, more
    <3>1. line1 \in Seq(Page) /\ k \in DOMAIN line1
      BY <1>1
    <3> QED
      BY <3>1, LeavingLine
  <2>2. \A n \in DOMAIN line2 : line2[n] = line1[IF n < k THEN n ELSE n + 1]
    BY DEF TakenOut
  <2> QED
    BY <2>1, <2>2
<1>3. /\ more \in Seq(LedgerEntry) /\ Len(more) = Len(book) + 1
      /\ \A i \in DOMAIN book : more[i] = book[i]
      /\ DOMAIN more = DOMAIN book \cup {Len(book) + 1} /\ Len(book) + 1 \notin DOMAIN book
      /\ more[Len(book) + 1].state = state /\ more[Len(book) + 1].url = page.url
      /\ more[Len(book) + 1].depth = page.depth
  BY <1>1, NotedDoes
<1>4. /\ \A u, d : Listed(book, u, d) => Listed(more, u, d)
      /\ \A d \in Nat : page.depth <= d => Listed(more, page.url, d)
      /\ VisitedIn(more) = VisitedIn(book) \cup
              (IF state \in {"accepted", "blocked", "failed"} THEN {Len(book) + 1} ELSE {})
  BY <1>1, NotedReaches
<1> HIDE DEF more, page
<1>5. \A m, n \in DOMAIN line2 : m <= n => old(m) <= old(n)
  <2>1. k \in Nat /\ \A n \in DOMAIN line2 : n \in Nat
    BY <1>1
  <2> QED
    BY <2>1
<1>6. \A m, n \in DOMAIN line2 : old(m) = old(n) => m = n
  <2>1. k \in Nat /\ \A n \in DOMAIN line2 : n \in Nat
    BY <1>1
  <2> QED
    BY <2>1
<1> HIDE DEF old
<1>7. ASSUME NEW u \in URLs, NEW d \in Nat, Reached(line1, book, u, d) PROVE Reached(line2, more, u, d)
  <2>1. CASE Listed(book, u, d)
    BY <1>4, <2>1 DEF Reached
  <2>2. CASE \E n \in DOMAIN line1 : line1[n].url = u /\ line1[n].depth <= d
    <3>1. PICK n \in DOMAIN line1 : line1[n].url = u /\ line1[n].depth <= d
      BY <2>2
    <3>2. CASE n = k
      BY <1>4, <3>1, <3>2 DEF Reached, page
    <3>3. CASE n # k
      BY <1>2, <3>1, <3>3 DEF Reached
    <3> QED
      BY <3>2, <3>3
  <2> QED
    BY <1>7, <2>1, <2>2 DEF Reached
<1>8. ASSUME NEW e \in Nat, Level(line1, known, book, e) PROVE Level(line2, known, more, e)
  <2>1. \A n \in DOMAIN line2 : line2[n].depth \in {e - 1, e}
    BY <1>2, <1>8 DEF Level
  <2>2. \A u \in known : Reached(line2, more, u, e)
    BY <1>1, <1>7, <1>8 DEF Level
  <2> QED
    BY <2>1, <2>2 DEF Level
<1>9. Orderly(line2, known, more)
  <2>1. \A m, n \in DOMAIN line2 : line2[m].url = line2[n].url => m = n
    BY <1>2, <1>6 DEF Orderly
  <2>2. \A m, n \in DOMAIN line2 : m <= n => line2[m].depth <= line2[n].depth
    BY <1>2, <1>5 DEF Orderly
  <2>3. \A n \in DOMAIN line2 : line2[n].url \in known /\ line2[n].depth <= MaxDepth
    BY <1>2 DEF Orderly
  <2>4. \A n \in DOMAIN line2 : line2[n].url # page.url
    BY <1>1, <1>2 DEF Orderly, page
  <2>5. VisitedIn(book) \subseteq DOMAIN book
    BY DEF VisitedIn
  <2>6. ASSUME NEW i \in VisitedIn(book)
        PROVE  /\ more[i] = book[i] /\ more[i].url \in known /\ more[i].depth <= MaxDepth
               /\ \A n \in DOMAIN line2 : line2[n].url # more[i].url
               /\ \A j \in VisitedIn(book) : more[i].url = more[j].url => i = j
               /\ more[i].url # page.url
    <3>1. \A j \in VisitedIn(book) : more[j] = book[j]
      BY <1>3, <2>5
    <3>2. /\ book[i].url \in known /\ book[i].depth <= MaxDepth
          /\ \A n \in DOMAIN line1 : line1[n].url # book[i].url
          /\ \A j \in VisitedIn(book) : book[i].url = book[j].url => i = j
      BY <2>6 DEF Orderly
    <3>3. \A n \in DOMAIN line2 : line2[n].url # book[i].url
      BY <1>2, <3>2
    <3>4. book[i].url # page.url
      BY <1>1, <3>2 DEF page
    <3> QED
      BY <2>6, <3>1, <3>2, <3>3, <3>4
  <2>7. page.url \in known /\ page.depth <= MaxDepth
    BY <1>1 DEF Orderly, page
  <2>8. ASSUME NEW i \in VisitedIn(more)
        PROVE  /\ more[i].url \in known /\ more[i].depth <= MaxDepth
               /\ \A n \in DOMAIN line2 : line2[n].url # more[i].url
               /\ \A j \in VisitedIn(more) : more[i].url = more[j].url => i = j
    <3>1. \A j \in VisitedIn(more) : j \in VisitedIn(book) \/ j = Len(book) + 1
      BY <1>4
    <3>2. CASE i \in VisitedIn(book)
      BY <1>3, <2>6, <3>1, <3>2
    <3>3. CASE i = Len(book) + 1
      BY <1>3, <2>4, <2>6, <2>7, <3>1, <3>3
    <3> QED
      BY <2>8, <3>1, <3>2, <3>3
  <2> QED
    BY <1>1, <1>3, <2>1, <2>2, <2>3, <2>8 DEF Orderly
<1> QED
  BY <1>7, <1>8, <1>9 DEF Nearer, more

-----------------------------------------------------------------------------
(* What enqueue does to the books, for the pages p that are ahead of the    *)
(* frontier.                                                                *)
BookSet == [queue: Seq(Page), seen: SUBSET URLs, ledger: Seq(LedgerEntry), limit: Reasons \cup {"none"}]

Sound(p, b) ==
  /\ b \in BookSet /\ Len(b.queue) <= MaxFrontier
  /\ Orderly(p \o b.queue, b.seen, b.ledger)

At(p, b, e) == Level(p \o b.queue, b.seen, b.ledger, e)

(* Nothing comes out of reach, the ledger only grows, and no page is        *)
(* visited.                                                                 *)
Grows(p, b, c) ==
  /\ Nearer(p \o b.queue, b.ledger, p \o c.queue, c.ledger)
  /\ DOMAIN b.ledger \subseteq DOMAIN c.ledger
  /\ \A i \in DOMAIN b.ledger : c.ledger[i] = b.ledger[i]
  /\ \A i \in DOMAIN c.ledger \ DOMAIN b.ledger : c.ledger[i].state \notin {"accepted", "blocked", "failed"}

LEMMA GrowsOn ==
  ASSUME NEW p, NEW b, NEW c, NEW d, Grows(p, b, c), Grows(p, c, d) PROVE Grows(p, b, d)
<1>1. Nearer(p \o b.queue, b.ledger, p \o d.queue, d.ledger)
  BY DEF Grows, Nearer
<1>2. /\ DOMAIN b.ledger \subseteq DOMAIN d.ledger
      /\ \A i \in DOMAIN b.ledger : d.ledger[i] = b.ledger[i]
  BY DEF Grows
<1>3. ASSUME NEW i \in DOMAIN d.ledger, i \notin DOMAIN b.ledger
      PROVE  d.ledger[i].state \notin {"accepted", "blocked", "failed"}
  BY <1>3 DEF Grows
<1> QED
  BY <1>1, <1>2, <1>3 DEF Grows

LEMMA BookParts ==
  ASSUME NEW b \in BookSet
  PROVE  /\ b.queue \in Seq(Page) /\ b.seen \subseteq URLs /\ b.ledger \in Seq(LedgerEntry)
         /\ b.limit \in Reasons \cup {"none"} /\ DOMAIN b = {"queue", "seen", "ledger", "limit"}
BY DEF BookSet

LEMMA RecordDoes ==
  ASSUME NEW b \in BookSet, NEW page \in Page, NEW reason \in Reasons,
         NEW state \in {"accepted", "skipped", "blocked", "failed", "unvisited"}
  PROVE  LET c == Record(b, Note(state, page, reason)) IN
         /\ c \in BookSet /\ c.queue = b.queue /\ c.seen = b.seen /\ c.limit = b.limit
         /\ c.ledger = Append(b.ledger, Note(state, page, reason))
<1>1. Append(b.ledger, Note(state, page, reason)) \in Seq(LedgerEntry)
  BY BookParts, NotedDoes
<1> QED
  BY <1>1 DEF BookSet, Record

LEMMA LimitDoes ==
  ASSUME NEW b \in BookSet, NEW reason \in Reasons
  PROVE  LET c == Limit(b, reason) IN
         c \in BookSet /\ c.queue = b.queue /\ c.seen = b.seen /\ c.ledger = b.ledger
BY DEF BookSet, Limit

LEMMA Counted ==
  /\ \A n \in {MaxPages, MaxDepth, WallMs, MaxTotalBytes, MaxFrontier, Concurrency} : n \in Nat /\ n > 0
  /\ Seed \in URLs /\ Links \in [URLs -> Seq(URLs)] /\ Sitemaps \in Seq(URLs)
BY CrawlAssumption

LEMMA ReasonsAre ==
  {"ok", "outcome", "robots_denied", "hard_limit", "excluded", "not_included", "duplicate", "max_depth",
   "max_frontier", "max_pages", "max_total_bytes", "max_time", "aborted", "not_visited"} \subseteq Reasons
BY DEF Reasons

(* A page that is only noted.                                               *)
LEMMA NotedKeeps ==
  ASSUME NEW p \in Seq(Page), NEW b, Sound(p, b), NEW page \in Page, NEW reason \in Reasons,
         NEW state \in {"skipped", "unvisited"}, NEW e \in Nat, At(p, b, e),
         NEW c \in BookSet, c.queue = b.queue, c.seen = b.seen,
         c.ledger = Append(b.ledger, Note(state, page, reason))
  PROVE  Sound(p, c) /\ At(p, c, e) /\ Grows(p, b, c)
<1> DEFINE line == p \o b.queue
           book == b.ledger
           more == Append(b.ledger, Note(state, page, reason))
<1>1. b \in BookSet /\ book \in Seq(LedgerEntry) /\ b.seen \subseteq URLs
  BY BookParts DEF Sound
<1>2. /\ more \in Seq(LedgerEntry) /\ Len(more) = Len(book) + 1
      /\ \A i \in DOMAIN book : more[i] = book[i]
      /\ DOMAIN more = DOMAIN book \cup {Len(book) + 1} /\ Len(book) + 1 \notin DOMAIN book
      /\ more[Len(book) + 1].state = state
  BY <1>1, NotedDoes
<1>3. /\ \A u, d : Listed(book, u, d) => Listed(more, u, d)
      /\ VisitedIn(more) = VisitedIn(book)
  <2>1. state \notin {"accepted", "blocked", "failed"}
        /\ state \in {"accepted", "skipped", "blocked", "failed", "unvisited"}
    OBVIOUS
  <2> QED
    <3>1. /\ \A u, d : Listed(book, u, d) => Listed(more, u, d)
          /\ VisitedIn(more) = VisitedIn(book) \cup
               (IF state \in {"accepted", "blocked", "failed"} THEN {Len(book) + 1} ELSE {})
      BY <1>1, <2>1, NotedReaches
    <3> QED
      BY <2>1, <3>1
<1> HIDE DEF line, more, book
<1>4. Nearer(line, book, line, more)
  BY <1>3 DEF Nearer, Reached
<1>5. Orderly(line, b.seen, book) /\ Level(line, b.seen, book, e)
  BY DEF Sound, At, line, book
<1>6. Level(line, b.seen, more, e)
  BY <1>1, <1>4, <1>5 DEF Level, Nearer
<1>7. Orderly(line, b.seen, more)
  <2>1. \A i \in VisitedIn(book) : more[i] = book[i]
    BY <1>2 DEF VisitedIn
  <2> QED
    BY <1>2, <1>3, <1>5, <2>1 DEF Orderly
<1>8. \A i \in DOMAIN more \ DOMAIN book : more[i].state \notin {"accepted", "blocked", "failed"}
  BY <1>2
<1>9. c.ledger = more /\ p \o c.queue = line /\ Len(c.queue) <= MaxFrontier /\ p \o b.queue = line
      /\ b.ledger = book
  BY DEF more, line, book, Sound
<1> QED
  BY <1>2, <1>4, <1>6, <1>7, <1>8, <1>9 DEF Sound, At, Grows

LEMMA OneMore ==
  ASSUME NEW p \in Seq(Page), NEW q \in Seq(Page), NEW page \in Page
  PROVE  p \o Append(q, page) = Append(p \o q, page)
OBVIOUS

LEMMA LineGrows ==
  ASSUME NEW line \in Seq(Page), NEW page \in Page
  PROVE  LET more == Append(line, page) IN
         /\ more \in Seq(Page) /\ Len(line) + 1 \notin DOMAIN line
         /\ DOMAIN more = DOMAIN line \cup {Len(line) + 1}
         /\ more[Len(line) + 1] = page
         /\ \A n \in DOMAIN line : more[n] = line[n] /\ n <= Len(line) + 1 /\ ~(Len(line) + 1 <= n)
OBVIOUS

(* A page that is new comes last.                                           *)
LEMMA QueuedKeeps ==
  ASSUME NEW line, NEW known, NEW book, Orderly(line, known, book), NEW page \in Page,
         Level(line, known, book, page.depth), page.url \notin known, page.depth <= MaxDepth
  PROVE  LET more == Append(line, page)
             known1 == known \cup {page.url} IN
         /\ Orderly(more, known1, book) /\ Level(more, known1, book, page.depth)
         /\ Nearer(line, book, more, book) /\ Reached(more, book, page.url, page.depth)
<1> DEFINE more == Append(line, page)
           known1 == known \cup {page.url}
           last == Len(line) + 1
<1>1. line \in Seq(Page) /\ book \in Seq(LedgerEntry) /\ known \subseteq URLs
  BY DEF Orderly
<1>2. /\ more \in Seq(Page) /\ last \notin DOMAIN line
      /\ DOMAIN more = DOMAIN line \cup {last} /\ more[last] = page
      /\ \A n \in DOMAIN line : more[n] = line[n] /\ n <= last /\ ~(last <= n)
  BY <1>1, LineGrows
<1>3. page.url \in URLs /\ page.depth \in Nat
  BY DEF Page
<1> HIDE DEF more, last
<1>4. Nearer(line, book, more, book)
  BY <1>2 DEF Nearer, Reached
<1>5. Reached(more, book, page.url, page.depth)
  BY <1>2, <1>3 DEF Reached
<1>6. Level(more, known1, book, page.depth)
  <2>1. \A n \in DOMAIN more : more[n].depth \in {page.depth - 1, page.depth}
    BY <1>2 DEF Level
  <2>2. \A u \in known1 : Reached(more, book, u, page.depth)
    BY <1>1, <1>3, <1>4, <1>5 DEF Level, Nearer
  <2> QED
    BY <2>1, <2>2 DEF Level
<1>7. Orderly(more, known1, book)
  <2>1. \A n \in DOMAIN line : line[n].url # page.url /\ line[n].depth <= page.depth
    <3>1. \A n \in DOMAIN line : line[n].url # page.url
      BY DEF Orderly
    <3>2. \A n \in DOMAIN line : line[n].depth <= page.depth
      BY <1>3 DEF Level
    <3> QED
      BY <3>1, <3>2
  <2>2. \A m, n \in DOMAIN more : more[m].url = more[n].url => m = n
    BY <1>2, <2>1 DEF Orderly
  <2>3. ASSUME NEW m \in DOMAIN more, NEW n \in DOMAIN more, m <= n
        PROVE  more[m].depth <= more[n].depth
    <3>1. CASE m = last
      <4>1. n = last
        BY <1>2, <2>3, <3>1
      <4> QED
        BY <1>2, <1>3, <3>1, <4>1
    <3>2. CASE m \in DOMAIN line /\ n = last
      BY <1>2, <2>1, <3>2
    <3>3. CASE m \in DOMAIN line /\ n \in DOMAIN line
      BY <1>2, <2>3, <3>3 DEF Orderly
    <3> QED
      BY <1>2, <3>1, <3>2, <3>3
  <2>4. \A n \in DOMAIN more : more[n].url \in known1 /\ more[n].depth <= MaxDepth
    BY <1>2 DEF Orderly
  <2>5. ASSUME NEW i \in VisitedIn(book)
        PROVE  /\ book[i].url \in known1 /\ book[i].depth <= MaxDepth
               /\ \A n \in DOMAIN more : more[n].url # book[i].url
               /\ \A j \in VisitedIn(book) : book[i].url = book[j].url => i = j
    <3>1. /\ book[i].url \in known /\ book[i].depth <= MaxDepth
          /\ \A n \in DOMAIN line : line[n].url # book[i].url
          /\ \A j \in VisitedIn(book) : book[i].url = book[j].url => i = j
      BY <2>5 DEF Orderly
    <3> QED
      BY <1>2, <3>1
  <2>6. known1 \subseteq URLs
    BY <1>1, <1>3
  <2> QED
    BY <1>1, <1>2, <2>2, <2>3, <2>4, <2>5, <2>6 DEF Orderly
<1> QED
  BY <1>4, <1>5, <1>6, <1>7 DEF more

LEMMA RefusedKeeps ==
  ASSUME NEW p \in Seq(Page), NEW b, Sound(p, b), NEW page \in Page, At(p, b, page.depth),
         NEW reason \in Reasons, NEW c, c = Record(b, Note("skipped", page, reason))
  PROVE  /\ Sound(p, c) /\ At(p, c, page.depth) /\ Grows(p, b, c)
         /\ page.url \in b.seen => Reached(p \o c.queue, c.ledger, page.url, page.depth)
<1>1. b \in BookSet /\ page.depth \in Nat /\ page.url \in URLs
  BY DEF Sound, Page
<1>2. /\ c \in BookSet /\ c.queue = b.queue /\ c.seen = b.seen
      /\ c.ledger = Append(b.ledger, Note("skipped", page, reason))
  BY <1>1, RecordDoes
<1>3. Sound(p, c) /\ At(p, c, page.depth) /\ Grows(p, b, c)
  BY <1>1, <1>2, NotedKeeps
<1>4. page.url \in b.seen => Reached(p \o c.queue, c.ledger, page.url, page.depth)
  BY <1>2, <1>3 DEF At, Level
<1> QED
  BY <1>3, <1>4

LEMMA CutOffKeeps ==
  ASSUME NEW p \in Seq(Page), NEW b, Sound(p, b), NEW page \in Page, At(p, b, page.depth),
         NEW reason \in Reasons, NEW c, c = Limit(Record(b, Note("unvisited", page, reason)), reason)
  PROVE  /\ Sound(p, c) /\ At(p, c, page.depth) /\ Grows(p, b, c)
         /\ Reached(p \o c.queue, c.ledger, page.url, page.depth)
<1> DEFINE d == Record(b, Note("unvisited", page, reason))
<1>1. b \in BookSet /\ page.depth \in Nat /\ page.url \in URLs /\ b.ledger \in Seq(LedgerEntry)
  BY BookParts DEF Sound, Page
<1>2. /\ d \in BookSet /\ d.queue = b.queue /\ d.seen = b.seen
      /\ d.ledger = Append(b.ledger, Note("unvisited", page, reason))
  BY <1>1, RecordDoes
<1>3. c = Limit(d, reason)
  OBVIOUS
<1> HIDE DEF d
<1>4. /\ c \in BookSet /\ c.queue = b.queue /\ c.seen = b.seen
      /\ c.ledger = Append(b.ledger, Note("unvisited", page, reason))
  BY <1>2, <1>3, LimitDoes
<1>5. Listed(c.ledger, page.url, page.depth)
  <2>1. Listed(Append(b.ledger, Note("unvisited", page, reason)), page.url, page.depth)
    <3>1. "unvisited" # "skipped" /\ "unvisited" \in {"accepted", "skipped", "blocked", "failed", "unvisited"}
      OBVIOUS
    <3>2. page.depth <= page.depth
      BY <1>1
    <3> QED
    BY <1>1, <3>1, <3>2, NotedReaches
  <2> QED
    BY <1>4, <2>1
<1>6. Sound(p, c) /\ At(p, c, page.depth) /\ Grows(p, b, c)
  BY <1>1, <1>4, NotedKeeps
<1> QED
  BY <1>5, <1>6 DEF Reached

LEMMA JoinedKeeps ==
  ASSUME NEW p \in Seq(Page), NEW b, Sound(p, b), NEW page \in Page, At(p, b, page.depth),
         page.url \notin b.seen, ~(Len(b.queue) >= MaxFrontier), page.depth <= MaxDepth,
         NEW c, c = [b EXCEPT !.seen = b.seen \cup {page.url}, !.queue = Append(b.queue, page)]
  PROVE  /\ Sound(p, c) /\ At(p, c, page.depth) /\ Grows(p, b, c)
         /\ Reached(p \o c.queue, c.ledger, page.url, page.depth)
<1>1. b \in BookSet /\ page.depth \in Nat /\ page.url \in URLs
  BY DEF Sound, Page
<1>2. /\ b.queue \in Seq(Page) /\ b.seen \subseteq URLs /\ b.ledger \in Seq(LedgerEntry)
      /\ b.limit \in Reasons \cup {"none"}
      /\ b = [queue |-> b.queue, seen |-> b.seen, ledger |-> b.ledger, limit |-> b.limit]
  BY <1>1 DEF BookSet
<1>3. c = [queue |-> Append(b.queue, page), seen |-> b.seen \cup {page.url}, ledger |-> b.ledger,
           limit |-> b.limit]
  BY <1>2
<1>4. /\ c.queue = Append(b.queue, page) /\ c.ledger = b.ledger
      /\ c.seen = b.seen \cup {page.url}
  BY <1>3
<1>5. c \in BookSet
  <2>1. Append(b.queue, page) \in Seq(Page) /\ b.seen \cup {page.url} \in SUBSET URLs
    BY <1>1, <1>2
  <2> QED
    BY <1>2, <1>3, <2>1 DEF BookSet
<1>6. p \o c.queue = Append(p \o b.queue, page)
  BY <1>2, <1>4, OneMore
<1>7. Len(c.queue) <= MaxFrontier
  BY <1>2, <1>4, Counted
<1>8. Orderly(p \o b.queue, b.seen, b.ledger) /\ Level(p \o b.queue, b.seen, b.ledger, page.depth)
  BY DEF Sound, At
<1>9. LET line == p \o b.queue
          more == Append(line, page)
          known1 == b.seen \cup {page.url} IN
       /\ Orderly(more, known1, b.ledger) /\ Level(more, known1, b.ledger, page.depth)
       /\ Nearer(line, b.ledger, more, b.ledger) /\ Reached(more, b.ledger, page.url, page.depth)
  BY <1>8, QueuedKeeps
<1> QED
  BY <1>4, <1>5, <1>6, <1>7, <1>9 DEF Sound, At, Grows

LEMMA EnqueueKeeps ==
  ASSUME NEW p \in Seq(Page), NEW b, Sound(p, b), NEW page \in Page, At(p, b, page.depth),
         NEW c, c = Enqueue(b, page, FALSE)
  PROVE  /\ Sound(p, c) /\ At(p, c, page.depth) /\ Grows(p, b, c)
         /\ page.url \in InScope => Reached(p \o c.queue, c.ledger, page.url, page.depth)
<1>1. page.depth \in Nat /\ MaxDepth \in Nat
  BY Counted DEF Page
<1>2. CASE page.depth > MaxDepth
  <2>1. c = Limit(Record(b, Note("unvisited", page, "max_depth")), "max_depth")
    BY <1>1, <1>2 DEF Enqueue
  <2> QED
    BY ReasonsAre, <2>1, CutOffKeeps
<1>3. CASE page.depth <= MaxDepth /\ page.url \in Excluded
  <2>1. c = Record(b, Note("skipped", page, "excluded"))
    BY <1>1, <1>3 DEF Enqueue
  <2>2. page.url \notin InScope
    BY <1>3 DEF InScope
  <2> QED
    BY <2>1, ReasonsAre, <2>2, RefusedKeeps
<1>4. CASE page.depth <= MaxDepth /\ page.url \notin Excluded /\ page.url \notin Included
  <2>1. c = Record(b, Note("skipped", page, "not_included"))
    BY <1>1, <1>4 DEF Enqueue
  <2>2. page.url \notin InScope
    BY <1>4 DEF InScope
  <2> QED
    BY <2>1, ReasonsAre, <2>2, RefusedKeeps
<1>5. CASE page.depth <= MaxDepth /\ page.url \notin Excluded /\ page.url \in Included
  <2>1. c = IF page.url \in b.seen THEN Record(b, Note("skipped", page, "duplicate"))
            ELSE IF Len(b.queue) >= MaxFrontier
            THEN Limit(Record(b, Note("unvisited", page, "max_frontier")), "max_frontier")
            ELSE [b EXCEPT !.seen = b.seen \cup {page.url}, !.queue = Append(b.queue, page)]
    BY <1>1, <1>5 DEF Enqueue
  <2>2. CASE page.url \in b.seen
    BY <2>1, ReasonsAre, <2>2, RefusedKeeps
  <2>3. CASE page.url \notin b.seen /\ Len(b.queue) >= MaxFrontier
    BY <2>1, ReasonsAre, <2>3, CutOffKeeps
  <2>4. CASE page.url \notin b.seen /\ ~(Len(b.queue) >= MaxFrontier)
    BY <1>5, <2>1, <2>4, JoinedKeeps
  <2> QED
    BY <2>2, <2>3, <2>4
<1>6. \/ page.depth > MaxDepth
      \/ page.depth <= MaxDepth /\ page.url \in Excluded
      \/ page.depth <= MaxDepth /\ page.url \notin Excluded /\ page.url \notin Included
      \/ page.depth <= MaxDepth /\ page.url \notin Excluded /\ page.url \in Included
  BY <1>1
<1> QED
  BY <1>2, <1>3, <1>4, <1>5, <1>6

-----------------------------------------------------------------------------
(* What a sequence of links does: by induction, over a set of naturals.     *)
LEMMA Least ==
  ASSUME NEW T, T \subseteq Nat, T # {}
  PROVE  \E n \in T : \A m \in T : n <= m
<1>1. IsWellFoundedOn(OpToRel(<, Nat), Nat)
  BY NatLessThanWellFounded
<1>2. PICK n \in T : \A m \in T : ~(<<m, n>> \in OpToRel(<, Nat))
  BY <1>1, WFMin
<1>3. OpToRel(<, Nat) = {ss \in Nat \X Nat : ss[1] < ss[2]}
  BY DEF OpToRel
<1>4. \A m \in T : ~(m < n)
  BY <1>2, <1>3
<1> QED
  BY <1>4

LEMMA Induction ==
  ASSUME NEW G, 0 \in G, \A n \in Nat : n \in G => n + 1 \in G
  PROVE  Nat \subseteq G
<1> SUFFICES ASSUME NEW k \in Nat, k \notin G PROVE FALSE
  OBVIOUS
<1>1. PICK n \in Nat \ G : \A m \in Nat \ G : n <= m
  BY Least
<1>2. n - 1 \in Nat /\ n - 1 \in G
  BY <1>1
<1> QED
  BY <1>1, <1>2

FollowNext(b, urls, depth, f, n) ==
  IF n = 0 THEN b ELSE Enqueue(f[n - 1], [url |-> urls[n], depth |-> depth], FALSE)

FollowsUpTo(b, urls, depth, m, f) == f = [n \in 0..m |-> FollowNext(b, urls, depth, f, n)]

LEMMA FollowExists ==
  ASSUME NEW b, NEW urls, NEW depth, NEW m \in Nat PROVE \E f : FollowsUpTo(b, urls, depth, m, f)
<1> DEFINE G == {k \in Nat : \E f : FollowsUpTo(b, urls, depth, k, f)}
<1>1. 0 \in G
  <2> DEFINE f == [n \in 0..0 |-> b]
  <2>1. FollowsUpTo(b, urls, depth, 0, f)
    BY DEF FollowsUpTo, FollowNext
  <2> QED
    BY <2>1
<1>2. ASSUME NEW k \in Nat, k \in G PROVE k + 1 \in G
  <2>1. PICK f : FollowsUpTo(b, urls, depth, k, f)
    BY <1>2
  <2> DEFINE g == [n \in 0..(k + 1) |-> IF n \in 0..k THEN f[n] ELSE FollowNext(b, urls, depth, f, n)]
  <2>2. \A n \in 0..(k + 1) : g[n] = FollowNext(b, urls, depth, f, n)
    BY <2>1 DEF FollowsUpTo
  <2>3. \A n \in 0..(k + 1) : n # 0 => g[n - 1] = f[n - 1]
    OBVIOUS
  <2>4. \A n \in 0..(k + 1) : FollowNext(b, urls, depth, g, n) = FollowNext(b, urls, depth, f, n)
    <3> HIDE DEF g
    <3> QED
      BY <2>3 DEF FollowNext
  <2>5. FollowsUpTo(b, urls, depth, k + 1, g)
    BY <2>2, <2>4 DEF FollowsUpTo
  <2> HIDE DEF g
  <2> QED
    BY <2>5
<1> HIDE DEF G
<1>3. Nat \subseteq G
  BY <1>1, <1>2, Induction
<1> QED
  BY <1>3 DEF G

(* However many links a page has, each that is in scope is in line or       *)
(* listed, no farther than one hop from the page.                           *)
LEMMA FollowKeeps ==
  ASSUME NEW p \in Seq(Page), NEW b, Sound(p, b), NEW urls \in Seq(URLs), NEW e \in Nat, At(p, b, e),
         NEW c, c = Follow(b, urls, e)
  PROVE  /\ Sound(p, c) /\ At(p, c, e) /\ Grows(p, b, c)
         /\ \A k \in DOMAIN urls :
              urls[k] \in InScope => Reached(p \o c.queue, c.ledger, urls[k], e)
<1> DEFINE f == CHOOSE f : FollowsUpTo(b, urls, e, Len(urls), f)
           Fine(d, m) == /\ Sound(p, d) /\ At(p, d, e) /\ Grows(p, b, d)
                         /\ \A k \in 1..m :
                              urls[k] \in InScope => Reached(p \o d.queue, d.ledger, urls[k], e)
           G == {m \in Nat : m <= Len(urls) => Fine(f[m], m)}
<1>1. Len(urls) \in Nat /\ DOMAIN urls = 1..Len(urls)
  OBVIOUS
<1>2. FollowsUpTo(b, urls, e, Len(urls), f)
  BY <1>1, FollowExists
<1>3. c = f[Len(urls)]
  BY DEF Follow, FollowsUpTo, FollowNext
<1> HIDE DEF f
<1>4. \A n \in 0..Len(urls) : f[n] = FollowNext(b, urls, e, f, n)
  BY <1>2 DEF FollowsUpTo
<1>5. 0 \in G
  <2>1. 0 \in 0..Len(urls)
    BY <1>1
  <2>2. f[0] = b
    BY <1>4, <2>1 DEF FollowNext
  <2>3. Grows(p, b, b)
    BY DEF Grows, Nearer
  <2> QED
    BY <2>2, <2>3
<1>6. ASSUME NEW m \in Nat, m \in G PROVE m + 1 \in G
  <2> SUFFICES ASSUME m + 1 <= Len(urls) PROVE Fine(f[m + 1], m + 1)
    OBVIOUS
  <2> DEFINE page == [url |-> urls[m + 1], depth |-> e]
  <2>1. Fine(f[m], m) /\ m + 1 \in 0..Len(urls) /\ m + 1 \in DOMAIN urls
    BY <1>1, <1>6
  <2>2. f[m + 1] = Enqueue(f[m], page, FALSE)
    <3>1. m + 1 # 0 /\ (m + 1) - 1 = m
      OBVIOUS
    <3> QED
      BY <1>4, <2>1, <3>1 DEF FollowNext
  <2>3. page \in Page /\ page.depth = e /\ page.url = urls[m + 1]
    BY <2>1 DEF Page
  <2> HIDE DEF page
  <2>4. /\ Sound(p, f[m + 1]) /\ At(p, f[m + 1], e) /\ Grows(p, f[m], f[m + 1])
        /\ urls[m + 1] \in InScope => Reached(p \o f[m + 1].queue, f[m + 1].ledger, urls[m + 1], e)
    BY <2>1, <2>2, <2>3, EnqueueKeeps
  <2>5. Grows(p, b, f[m + 1])
    BY <2>1, <2>4, GrowsOn
  <2>6. ASSUME NEW k \in 1..(m + 1), urls[k] \in InScope
        PROVE  Reached(p \o f[m + 1].queue, f[m + 1].ledger, urls[k], e)
    <3>1. CASE k = m + 1
      BY <2>4, <2>6, <3>1
    <3>2. CASE k # m + 1
      <4>1. k \in 1..m /\ k \in DOMAIN urls
        BY <1>1, <2>1, <2>6, <3>2
      <4>2. urls[k] \in URLs
        BY <4>1
      <4>3. Reached(p \o f[m].queue, f[m].ledger, urls[k], e)
        BY <2>1, <2>6, <4>1
      <4> QED
        BY <2>4, <4>2, <4>3 DEF Grows, Nearer
    <3> QED
      BY <3>1, <3>2
  <2> QED
    BY <2>4, <2>5, <2>6
<1> HIDE DEF G
<1>7. Nat \subseteq G
  BY <1>5, <1>6, Induction
<1>8. Fine(f[Len(urls)], Len(urls))
  BY <1>1, <1>7 DEF G
<1> QED
  BY <1>1, <1>3, <1>8

(* The links of the accepted pages among I are in line or listed.           *)
Done(line, book, i) ==
  \A k \in DOMAIN Links[book[i].url] :
    Links[book[i].url][k] \in InScope =>
      Reached(line, book, Links[book[i].url][k], book[i].depth + 1)

DoneFor(line, book, I) == \A i \in I : book[i].state = "accepted" => Done(line, book, i)

LEMMA DoneGrows ==
  ASSUME NEW line1, NEW book1 \in Seq(LedgerEntry), NEW line2, NEW book2, NEW I, I \subseteq DOMAIN book1,
         DoneFor(line1, book1, I), Nearer(line1, book1, line2, book2),
         \A i \in I : book2[i] = book1[i]
  PROVE  DoneFor(line2, book2, I)
<1> SUFFICES ASSUME NEW i \in I, book1[i].state = "accepted", NEW k \in DOMAIN Links[book1[i].url],
                    Links[book1[i].url][k] \in InScope
             PROVE  Reached(line2, book2, Links[book1[i].url][k], book1[i].depth + 1)
  BY DEF DoneFor, Done
<1>1. book1[i].url \in URLs /\ book1[i].depth \in Nat
  BY InBook
<1>2. Links[book1[i].url] \in Seq(URLs)
  BY <1>1, Counted
<1>3. Links[book1[i].url][k] \in URLs
  BY <1>2
<1>4. Reached(line1, book1, Links[book1[i].url][k], book1[i].depth + 1)
  BY DEF DoneFor, Done
<1> QED
  BY <1>1, <1>3, <1>4 DEF Nearer

-----------------------------------------------------------------------------
(* The books of the crawl and the pages ahead of its frontier.              *)
Core(p, b) ==
  /\ p \in Seq(Page) /\ Sound(p, b)
  /\ \E e \in Nat : At(p, b, e)
  /\ DoneFor(p \o b.queue, b.ledger, DOMAIN b.ledger)

LEMMA CoreSame ==
  ASSUME NEW p, NEW b, Core(p, b), NEW q \in Seq(Page), NEW c \in BookSet,
         q \o c.queue = p \o b.queue, c.seen = b.seen, c.ledger = b.ledger,
         Len(c.queue) <= MaxFrontier
  PROVE  Core(q, c)
BY DEF Core, Sound, At

LEMMA CoreLeave ==
  ASSUME NEW p, NEW b, Core(p, b), NEW q \in Seq(Page), NEW c \in BookSet, NEW k,
         TakenOut(p \o b.queue, k, q \o c.queue), c.seen = b.seen, Len(c.queue) <= MaxFrontier,
         NEW reason \in Reasons, NEW state \in {"accepted", "blocked", "failed", "unvisited"},
         c.ledger = Append(b.ledger, Note(state, (p \o b.queue)[k], reason))
  PROVE  /\ Sound(q, c) /\ \A e \in Nat : At(p, b, e) => At(q, c, e)
         /\ DoneFor(q \o c.queue, c.ledger, DOMAIN b.ledger)
         /\ state # "accepted" => Core(q, c)
<1> DEFINE line1 == p \o b.queue
           line2 == q \o c.queue
           page == line1[k]
<1>1. /\ Orderly(line1, b.seen, b.ledger) /\ b.ledger \in Seq(LedgerEntry)
      /\ TakenOut(line1, k, line2) /\ line1 \in Seq(Page)
  BY BookParts DEF Core, Sound, Orderly
<1>2. /\ Orderly(line2, b.seen, c.ledger) /\ Nearer(line1, b.ledger, line2, c.ledger)
      /\ \A e \in Nat : Level(line1, b.seen, b.ledger, e) => Level(line2, b.seen, c.ledger, e)
  <2>1. c.ledger = Append(b.ledger, Note(state, line1[k], reason))
    OBVIOUS
  <2> HIDE DEF line1, line2
  <2> QED
    BY <1>1, <2>1, LeaveKeeps
<1>3. k \in DOMAIN line1 /\ page \in Page
  BY <1>1, InLine DEF TakenOut
<1>4. /\ \A i \in DOMAIN b.ledger : c.ledger[i] = b.ledger[i]
      /\ DOMAIN c.ledger = DOMAIN b.ledger \cup {Len(b.ledger) + 1}
      /\ c.ledger[Len(b.ledger) + 1].state = state
  <2>1. c.ledger = Append(b.ledger, Note(state, page, reason))
    OBVIOUS
  <2>2. state \in {"accepted", "skipped", "blocked", "failed", "unvisited"}
    OBVIOUS
  <2> HIDE DEF page
  <2> QED
    BY <1>1, <1>3, <2>1, <2>2, NotedDoes
<1>5. DoneFor(line1, b.ledger, DOMAIN b.ledger)
  BY DEF Core
<1> HIDE DEF line1, line2, page
<1>6. DoneFor(line2, c.ledger, DOMAIN b.ledger)
  BY <1>1, <1>2, <1>4, <1>5, DoneGrows
<1>7. Sound(q, c)
  BY <1>2 DEF Sound, line2
<1>8. \A e \in Nat : At(p, b, e) => At(q, c, e)
  BY <1>2 DEF At, line1, line2
<1>9. state # "accepted" => Core(q, c)
  <2>1. state # "accepted" => DoneFor(line2, c.ledger, DOMAIN c.ledger)
    BY <1>4, <1>6 DEF DoneFor
  <2>2. \E e \in Nat : At(q, c, e)
    BY <1>8 DEF Core
  <2> QED
    BY <1>7, <2>1, <2>2 DEF Core, line2
<1> QED
  BY <1>6, <1>7, <1>8, <1>9 DEF line2

LEMMA CoreFollow ==
  ASSUME NEW p \in Seq(Page), NEW b, Sound(p, b), NEW e \in Nat, At(p, b, e), NEW urls \in Seq(URLs),
         NEW c, c = Follow(b, urls, e), NEW I, I \subseteq DOMAIN b.ledger,
         DoneFor(p \o b.queue, b.ledger, I),
         \A i \in DOMAIN b.ledger \ I :
           b.ledger[i].state = "accepted" => urls = Links[b.ledger[i].url] /\ b.ledger[i].depth + 1 = e
  PROVE  Core(p, c) /\ Grows(p, b, c)
<1>1. /\ Sound(p, c) /\ At(p, c, e) /\ Grows(p, b, c)
      /\ \A k \in DOMAIN urls : urls[k] \in InScope => Reached(p \o c.queue, c.ledger, urls[k], e)
  BY FollowKeeps
<1>2. /\ \A i \in DOMAIN b.ledger : c.ledger[i] = b.ledger[i]
      /\ \A i \in DOMAIN c.ledger \ DOMAIN b.ledger : c.ledger[i].state # "accepted"
      /\ Nearer(p \o b.queue, b.ledger, p \o c.queue, c.ledger)
  BY <1>1 DEF Grows
<1>3. b.ledger \in Seq(LedgerEntry)
  BY BookParts DEF Sound
<1>4. DoneFor(p \o c.queue, c.ledger, I)
  BY <1>2, <1>3, DoneGrows
<1>5. ASSUME NEW i \in DOMAIN c.ledger, c.ledger[i].state = "accepted"
      PROVE  Done(p \o c.queue, c.ledger, i)
  <2>1. i \in DOMAIN b.ledger
    BY <1>2, <1>5
  <2>2. CASE i \in I
    BY <1>4, <1>5, <2>2 DEF DoneFor
  <2>3. CASE i \notin I
    <3>1. urls = Links[c.ledger[i].url] /\ c.ledger[i].depth + 1 = e
      BY <1>2, <1>5, <2>1, <2>3
    <3> QED
      BY <1>1, <3>1 DEF Done
  <2> QED
    BY <2>2, <2>3
<1> QED
  BY <1>1, <1>5 DEF Core, DoneFor

(* A page that is out of the middle.                                        *)
LEMMA OutOfTheMiddle ==
  ASSUME NEW p \in Seq(Page), NEW page \in Page, NEW q \in Seq(Page)
  PROVE  /\ TakenOut((p \o <<page>>) \o q, Len(p) + 1, p \o q)
         /\ ((p \o <<page>>) \o q)[Len(p) + 1] = page
         /\ p \o <<page>> \in Seq(Page)
<1> DEFINE line1 == (p \o <<page>>) \o q
           line2 == p \o q
<1>1. p \o <<page>> \in Seq(Page) /\ Len(p \o <<page>>) = Len(p) + 1 /\ (p \o <<page>>)[Len(p) + 1] = page
      /\ \A n \in 1..Len(p) : (p \o <<page>>)[n] = p[n]
  OBVIOUS
<1>2. /\ line1 \in Seq(Page) /\ line2 \in Seq(Page) /\ Len(p) \in Nat /\ Len(q) \in Nat
      /\ Len(line1) = Len(p) + 1 + Len(q) /\ Len(line2) = Len(p) + Len(q)
      /\ DOMAIN line1 = 1..Len(line1) /\ DOMAIN line2 = 1..Len(line2)
  BY <1>1
<1>3. line1[Len(p) + 1] = page
  BY <1>1, <1>2
<1>4. ASSUME NEW n \in DOMAIN line2
      PROVE  line2[n] = line1[IF n < Len(p) + 1 THEN n ELSE n + 1]
  <2>1. CASE n <= Len(p)
    <3>1. line2[n] = p[n] /\ line1[n] = (p \o <<page>>)[n]
      BY <1>1, <1>2, <2>1
    <3> QED
      BY <1>1, <1>2, <2>1, <3>1
  <2>2. CASE n > Len(p)
    <3>1. line2[n] = q[n - Len(p)]
      BY <1>2, <2>2
    <3>2. line1[n + 1] = q[(n + 1) - (Len(p) + 1)]
      BY <1>1, <1>2, <2>2
    <3>3. (n + 1) - (Len(p) + 1) = n - Len(p)
      BY <1>2
    <3> QED
      BY <1>2, <2>2, <3>1, <3>2, <3>3
  <2> QED
    BY <1>2, <2>1, <2>2
<1> QED
  BY <1>1, <1>2, <1>3, <1>4 DEF TakenOut

(* A page that is the first.                                                *)
LEMMA OutOfTheFront ==
  ASSUME NEW p \in Seq(Page), p # <<>>, NEW q \in Seq(Page)
  PROVE  /\ TakenOut(p \o q, 1, Tail(p) \o q) /\ (p \o q)[1] = p[1]
         /\ Tail(p) \in Seq(Page) /\ p[1] \in Page
<1> DEFINE line1 == p \o q
           line2 == Tail(p) \o q
<1>1. /\ Len(p) \in Nat \ {0} /\ Len(q) \in Nat /\ Tail(p) \in Seq(Page) /\ Len(Tail(p)) = Len(p) - 1
      /\ p[1] \in Page /\ \A n \in 1..(Len(p) - 1) : Tail(p)[n] = p[n + 1]
  OBVIOUS
<1>2. /\ line1 \in Seq(Page) /\ line2 \in Seq(Page)
      /\ Len(line1) = Len(p) + Len(q) /\ Len(line2) = (Len(p) - 1) + Len(q)
      /\ DOMAIN line1 = 1..Len(line1) /\ DOMAIN line2 = 1..Len(line2)
  BY <1>1
<1>3. ASSUME NEW n \in DOMAIN line2
      PROVE  line2[n] = line1[IF n < 1 THEN n ELSE n + 1]
  <2>1. CASE n <= Len(p) - 1
    <3>1. line2[n] = Tail(p)[n] /\ line1[n + 1] = p[n + 1]
      BY <1>1, <1>2, <2>1
    <3> QED
      BY <1>1, <1>2, <2>1, <3>1
  <2>2. CASE n > Len(p) - 1
    <3>1. line2[n] = q[n - (Len(p) - 1)]
      BY <1>1, <1>2, <2>2
    <3>2. line1[n + 1] = q[(n + 1) - Len(p)]
      BY <1>1, <1>2, <2>2
    <3>3. (n + 1) - Len(p) = n - (Len(p) - 1) /\ ~(n < 1)
      BY <1>1, <1>2
    <3> QED
      BY <3>1, <3>2, <3>3
  <2> QED
    BY <1>1, <1>2, <2>1, <2>2
<1> QED
  BY <1>1, <1>2, <1>3 DEF TakenOut

(* What is left in the frontier is listed.                                  *)
LEMMA DrainKeeps ==
  ASSUME NEW b, Core(<<>>, b), NEW reason \in Reasons, NEW c,
         c = [b EXCEPT !.ledger = b.ledger \o [i \in DOMAIN b.queue |-> Note("unvisited", b.queue[i], reason)],
                       !.queue = <<>>]
  PROVE  Core(<<>>, c)
<1> DEFINE line == b.queue
           book == b.ledger
           notes == [i \in DOMAIN b.queue |-> Note("unvisited", b.queue[i], reason)]
           more == b.ledger \o notes
<1>1. /\ b \in BookSet /\ line \in Seq(Page) /\ book \in Seq(LedgerEntry) /\ b.seen \subseteq URLs
      /\ b.limit \in Reasons \cup {"none"}
      /\ b = [queue |-> b.queue, seen |-> b.seen, ledger |-> b.ledger, limit |-> b.limit]
  BY DEF Core, Sound, BookSet
<1>2. <<>> \o line = line /\ <<>> \in Seq(Page) /\ <<>> \o <<>> = <<>> /\ Len(<<>>) = 0
  BY <1>1
<1>3. /\ notes \in Seq(LedgerEntry) /\ Len(notes) = Len(line) /\ DOMAIN notes = DOMAIN line
      /\ \A i \in DOMAIN line : notes[i].url = line[i].url /\ notes[i].depth = line[i].depth
                               /\ notes[i].state = "unvisited"
  <2>1. \A i \in DOMAIN line : Note("unvisited", line[i], reason) \in LedgerEntry
    BY <1>1, InLine DEF Note, LedgerEntry
  <2>2. DOMAIN line = 1..Len(line) /\ Len(line) \in Nat
    BY <1>1
  <2>3. notes \in [1..Len(line) -> LedgerEntry]
    BY <2>1, <2>2
  <2>4. notes \in Seq(LedgerEntry) /\ Len(notes) = Len(line)
    BY <2>2, <2>3
  <2> QED
    BY <2>4 DEF Note
<1>4. /\ more \in Seq(LedgerEntry) /\ DOMAIN book \subseteq DOMAIN more
      /\ \A i \in DOMAIN book : more[i] = book[i]
      /\ \A i \in DOMAIN more \ DOMAIN book : i - Len(book) \in DOMAIN line /\ more[i] = notes[i - Len(book)]
      /\ \A n \in DOMAIN line : Len(book) + n \in DOMAIN more /\ more[Len(book) + n] = notes[n]
  <2> HIDE DEF notes
  <2> QED
    BY <1>1, <1>3
<1>5. c = [queue |-> <<>>, seen |-> b.seen, ledger |-> more, limit |-> b.limit]
  BY <1>1
<1>6. c \in BookSet /\ c.queue = <<>> /\ c.seen = b.seen /\ c.ledger = more
  BY <1>1, <1>2, <1>4, <1>5 DEF BookSet
<1>7. /\ Orderly(line, b.seen, book) /\ \E e \in Nat : Level(line, b.seen, book, e)
      /\ DoneFor(line, book, DOMAIN book)
  BY <1>2 DEF Core, Sound, At
<1> HIDE DEF line, book, notes, more
<1>8. \A i \in DOMAIN more \ DOMAIN book : more[i].state = "unvisited"
  BY <1>3, <1>4
<1>9. \A u, d : Listed(book, u, d) => Listed(more, u, d)
  BY <1>4 DEF Listed
<1>10. \A n \in DOMAIN line, d \in Nat : line[n].depth <= d => Listed(more, line[n].url, d)
  <2> SUFFICES ASSUME NEW n \in DOMAIN line, NEW d \in Nat, line[n].depth <= d
               PROVE  Listed(more, line[n].url, d)
    OBVIOUS
  <2>1. Len(book) + n \in DOMAIN more /\ more[Len(book) + n] = notes[n]
    BY <1>4
  <2>2. notes[n].url = line[n].url /\ notes[n].depth = line[n].depth /\ notes[n].state = "unvisited"
    BY <1>3
  <2> QED
    BY <2>1, <2>2 DEF Listed
<1>11. Nearer(line, book, <<>>, more)
  BY <1>9, <1>10 DEF Nearer, Reached
<1>12. VisitedIn(more) = VisitedIn(book)
  BY <1>4, <1>8 DEF VisitedIn
<1>13. Orderly(<<>>, b.seen, more)
  <2>1. \A i \in VisitedIn(book) : more[i] = book[i]
    BY <1>4 DEF VisitedIn
  <2>2. DOMAIN <<>> = {} /\ <<>> \in Seq(Page)
    OBVIOUS
  <2>3. ASSUME NEW i \in VisitedIn(book)
        PROVE  /\ book[i].url \in b.seen /\ book[i].depth <= MaxDepth
               /\ \A j \in VisitedIn(book) : book[i].url = book[j].url => i = j
    BY <1>7, <2>3 DEF Orderly
  <2> QED
    BY <1>1, <1>4, <1>12, <2>1, <2>2, <2>3 DEF Orderly
<1>14. ASSUME NEW e \in Nat, Level(line, b.seen, book, e) PROVE Level(<<>>, b.seen, more, e)
  BY <1>1, <1>11, <1>14 DEF Level, Nearer
<1>15. DoneFor(<<>>, more, DOMAIN book)
  BY <1>1, <1>4, <1>7, <1>11, DoneGrows DEF book
<1>16. DoneFor(<<>>, more, DOMAIN more)
  BY <1>8, <1>15 DEF DoneFor
<1>17. Len(c.queue) <= MaxFrontier
  BY <1>2, <1>6, Counted
<1> QED
  BY <1>2, <1>6, <1>7, <1>13, <1>14, <1>16, <1>17 DEF Core, Sound, At

-----------------------------------------------------------------------------
(* The loop.  Ahead of the frontier are the pages that run and the one in   *)
(* hand.                                                                    *)
Run == [page: Page, retries: Nat, redirects: Nat, settled: BOOLEAN,
        kind: {"accepted", "blocked", "failed"}, bytes: 0..MaxPageBytes, retried: Nat,
        charged: Nat, traced: Nat, followed: Nat]

Running == [i \in 1..Len(batch) |-> batch[i].page]

InHand == pc \in {"robots", "sleep", "go"}

Ahead == IF InHand THEN Running \o <<entry>> ELSE Running

LedgerInv ==
  /\ pc \in Places /\ entry \in Page /\ batch \in Seq(Run)
  /\ announced \in BOOLEAN
  /\ Core(Ahead, Books)
  /\ pc \in {"top", "drain", "done"} => batch = <<>>
  /\ pc = "done" => queue = <<>>
  /\ ~announced => batch = <<>> /\ pc \notin {"sleep", "go"}

(* What is counted along.  Each page started may still bring a page's bytes, *)
(* and none is started once the cap is reached.                             *)
BudgetInv ==
  /\ redirectsRemaining \in Nat /\ batchRetryAllowance \in Nat /\ batchRedirectAllowance \in Nat
  /\ totalBytes \in Nat /\ followed \in Nat /\ retriesUsed \in Nat /\ retriesRemaining \in Nat
  /\ aborted \in BOOLEAN /\ stop \in BOOLEAN
  /\ totalBytes + Len(batch) * MaxPageBytes < MaxTotalBytes + Concurrency * MaxPageBytes
  /\ pc \in {"sleep", "go"} => totalBytes < MaxTotalBytes

LEMMA PageBytesAre ==
  MaxPageBytes \in Nat /\ \A b \in PageBytes : b \in Nat /\ b <= MaxPageBytes
<1>1. PageBytes \subseteq Nat /\ \E b \in PageBytes : \A c \in PageBytes : b >= c
  BY CrawlAssumption
<1>2. MaxPageBytes \in PageBytes /\ \A c \in PageBytes : MaxPageBytes >= c
  BY <1>1 DEF MaxPageBytes
<1> QED
  BY <1>1, <1>2

LEMMA SettledRun ==
  ASSUME batch \in Seq(Run), NEW i \in 1..Len(batch), Settle(i)
  PROVE  \E run \in Run : run.page = batch[i].page /\ batch' = [batch EXCEPT ![i] = run]
<1>1. PICK kind \in {"accepted", "blocked", "failed"}, n \in 0..batch[i].retries :
        \E charged \in IF kind = "failed" THEN {0, n} ELSE {n},
           b \in IF kind = "accepted" THEN PageBytes ELSE {0}, f \in 0..((n + 1) * batch[i].redirects) :
        \E traced \in IF charged < n THEN {0}
                   ELSE (IF kind = "accepted" THEN Less(f, n * batch[i].redirects) ELSE 0)..f :
          batch' = [batch EXCEPT ![i] = [batch[i] EXCEPT !.settled = TRUE, !.kind = kind, !.bytes = b,
                                                   !.retried = n, !.charged = charged,
                                                   !.traced = traced, !.followed = f]]
  BY DEF Settle
<1>2. PICK charged \in IF kind = "failed" THEN {0, n} ELSE {n},
           b \in IF kind = "accepted" THEN PageBytes ELSE {0}, f \in 0..((n + 1) * batch[i].redirects) :
        \E traced \in IF charged < n THEN {0}
                   ELSE (IF kind = "accepted" THEN Less(f, n * batch[i].redirects) ELSE 0)..f :
          batch' = [batch EXCEPT ![i] = [batch[i] EXCEPT !.settled = TRUE, !.kind = kind, !.bytes = b,
                                                   !.retried = n, !.charged = charged,
                                                   !.traced = traced, !.followed = f]]
  BY <1>1
<1>3. PICK traced \in IF charged < n THEN {0}
                   ELSE (IF kind = "accepted" THEN Less(f, n * batch[i].redirects) ELSE 0)..f :
        batch' = [batch EXCEPT ![i] = [batch[i] EXCEPT !.settled = TRUE, !.kind = kind, !.bytes = b,
                                                 !.retried = n, !.charged = charged,
                                                 !.traced = traced, !.followed = f]]
  BY <1>2
<1>4. batch[i] \in Run
  OBVIOUS
<1>5. PICK page \in Page, retries \in Nat, redirects \in Nat :
        /\ page = batch[i].page /\ retries = batch[i].retries /\ redirects = batch[i].redirects
        /\ DOMAIN batch[i] = {"page", "retries", "redirects", "settled", "kind", "bytes", "retried",
                              "charged", "traced", "followed"}
  BY <1>4 DEF Run
<1>6. n \in Nat /\ charged \in Nat
  BY <1>5
<1>7. (n + 1) * redirects \in Nat /\ n * redirects \in Nat
  BY <1>6
<1>8. f \in Nat
  BY <1>5, <1>7
<1>9. traced \in Nat
  <2>1. (IF kind = "accepted" THEN Less(f, n * redirects) ELSE 0) \in Nat
    BY <1>7, <1>8 DEF Less
  <2> QED
    BY <1>5, <1>8, <2>1
<1>10. b \in 0..MaxPageBytes
  BY PageBytesAre
<1> DEFINE run == [batch[i] EXCEPT !.settled = TRUE, !.kind = kind, !.bytes = b, !.retried = n,
                                   !.charged = charged, !.traced = traced, !.followed = f]
<1>11. run \in Run
  BY <1>4, <1>6, <1>8, <1>9, <1>10 DEF Run
<1>12. run.page = batch[i].page
  BY <1>4, <1>5
<1>13. batch' = [batch EXCEPT ![i] = run]
  BY <1>3
<1> HIDE DEF run
<1> QED
  BY <1>11, <1>12, <1>13

LEMMA RunningAre ==
  ASSUME NEW s \in Seq(Run)
  PROVE  /\ [i \in 1..Len(s) |-> s[i].page] \in Seq(Page)
         /\ Len([i \in 1..Len(s) |-> s[i].page]) = Len(s)
         /\ \A i \in 1..Len(s) : s[i] \in Run /\ s[i].page \in Page
<1>1. Len(s) \in Nat /\ \A i \in 1..Len(s) : s[i] \in Run
  OBVIOUS
<1>2. \A i \in 1..Len(s) : s[i].page \in Page
  BY <1>1 DEF Run
<1>3. [i \in 1..Len(s) |-> s[i].page] \in [1..Len(s) -> Page]
  BY <1>2
<1> QED
  BY <1>1, <1>2, <1>3

(* The books of the state, as a record.                                     *)
LEMMA BooksAre ==
  /\ Books.queue = queue /\ Books.seen = seen /\ Books.ledger = ledger /\ Books.limit = limit
BY DEF Books

LEMMA KeepMakes ==
  ASSUME NEW c, c \in BookSet, Keep(c) PROVE Books' = c
<1>1. c = [queue |-> c.queue, seen |-> c.seen, ledger |-> c.ledger, limit |-> c.limit]
  BY DEF BookSet
<1> QED
  BY <1>1 DEF Keep, Books

LEMMA LedgerParts ==
  ASSUME LedgerInv
  PROVE  /\ Books \in BookSet /\ queue \in Seq(Page) /\ seen \subseteq URLs /\ ledger \in Seq(LedgerEntry)
         /\ Len(queue) <= MaxFrontier /\ Running \in Seq(Page) /\ Ahead \in Seq(Page)
         /\ Len(Running) = Len(batch)
<1>1. Books \in BookSet /\ Len(Books.queue) <= MaxFrontier
  BY DEF LedgerInv, Core, Sound
<1>2. Running \in Seq(Page) /\ Len(Running) = Len(batch)
  BY RunningAre DEF LedgerInv, Running
<1> QED
  BY <1>1, <1>2, BooksAre, BookParts DEF LedgerInv, Core

LEMMA CoreLimit ==
  ASSUME NEW p, NEW b, Core(p, b), NEW reason \in Reasons
  PROVE  Core(p, Limit(b, reason)) /\ Limit(b, reason) \in BookSet
<1>1. b \in BookSet /\ p \in Seq(Page) /\ Len(b.queue) <= MaxFrontier
  BY DEF Core, Sound
<1>2. LET c == Limit(b, reason) IN
      c \in BookSet /\ c.queue = b.queue /\ c.seen = b.seen /\ c.ledger = b.ledger
  BY <1>1, LimitDoes
<1> QED
  BY <1>1, <1>2, CoreSame

(* A page is listed as state, and the limit it met may be named.            *)
LEMMA CoreRecord ==
  ASSUME NEW p, NEW b, Core(p, b), NEW q \in Seq(Page), NEW k,
         NEW b1 \in BookSet, b1.seen = b.seen, b1.ledger = b.ledger, Len(b1.queue) <= MaxFrontier,
         TakenOut(p \o b.queue, k, q \o b1.queue), NEW page \in Page, (p \o b.queue)[k] = page,
         NEW reason \in Reasons, NEW state \in {"blocked", "failed", "unvisited"},
         NEW named \in Reasons
  PROVE  LET c == Record(b1, Note(state, page, reason)) IN
         /\ c \in BookSet /\ Core(q, c)
         /\ Limit(c, named) \in BookSet /\ Core(q, Limit(c, named))
<1> DEFINE c == Record(b1, Note(state, page, reason))
<1>1. state \in {"accepted", "skipped", "blocked", "failed", "unvisited"}
      /\ state \in {"accepted", "blocked", "failed", "unvisited"} /\ state # "accepted"
  OBVIOUS
<1>2. /\ c \in BookSet /\ c.queue = b1.queue /\ c.seen = b1.seen
      /\ c.ledger = Append(b1.ledger, Note(state, page, reason))
  BY <1>1, RecordDoes
<1> HIDE DEF c
<1>3. Core(q, c)
  BY <1>1, <1>2, CoreLeave
<1>4. Core(q, Limit(c, named)) /\ Limit(c, named) \in BookSet
  BY <1>3, CoreLimit
<1> QED
  BY <1>2, <1>3, <1>4 DEF c

LEMMA InitLedger == Init => LedgerInv
<1> SUFFICES ASSUME Init PROVE LedgerInv
  OBVIOUS
<1> DEFINE page == [url |-> Seed, depth |-> 0]
<1>1. /\ page \in Page /\ page.depth = 0 /\ page.url = Seed /\ Seed \in URLs
      /\ MaxDepth \in Nat /\ MaxFrontier \in Nat
      /\ MaxFrontier > 0 /\ MaxDepth > 0
  BY Counted DEF Page
<1>2. NoBooks \in BookSet /\ NoBooks.queue = <<>> /\ NoBooks.seen = {} /\ NoBooks.ledger = <<>>
  BY DEF NoBooks, BookSet
<1>3. Running = <<>> /\ ~InHand /\ batch = <<>> /\ Ahead = <<>>
  <2>1. batch = <<>> /\ ~InHand
    BY DEF Init, InHand
  <2>2. Running = <<>>
    BY <2>1 DEF Running
  <2> QED
    BY <2>1, <2>2 DEF Ahead
<1>5. Books = Enqueue(NoBooks, page, TRUE) /\ Books \in BookSet /\ Core(<<>>, Books)
  <2>1. CASE Seed \in Excluded
    <3> DEFINE c == Record(NoBooks, Note("skipped", page, "excluded"))
    <3>1. Enqueue(NoBooks, page, TRUE) = c
      BY <1>1, <2>1 DEF Enqueue
    <3>2. /\ c \in BookSet /\ c.queue = <<>> /\ c.seen = {}
          /\ c.ledger = Append(<<>>, Note("skipped", page, "excluded"))
      <4>1. "skipped" \in {"accepted", "skipped", "blocked", "failed", "unvisited"}
            /\ "excluded" \in Reasons
        BY ReasonsAre
      <4> HIDE DEF page
      <4>2. /\ c \in BookSet /\ c.queue = NoBooks.queue /\ c.seen = NoBooks.seen
            /\ c.ledger = Append(NoBooks.ledger, Note("skipped", page, "excluded"))
        BY <1>1, <1>2, <4>1, RecordDoes
      <4> QED
        BY <1>2, <4>2
    <3>3. c.ledger \in Seq(LedgerEntry) /\ DOMAIN c.ledger = {1} /\ c.ledger[1].state = "skipped"
      <4>1. c.ledger = <<Note("skipped", page, "excluded")>>
        BY <3>2
      <4> QED
        BY <3>2, <4>1, BookParts DEF Note
    <3>4. Books = c
      BY <3>1, <3>2 DEF Init, Books, BookSet
    <3> HIDE DEF c
    <3>5. <<>> \o c.queue = <<>> /\ DOMAIN <<>> = {} /\ <<>> \in Seq(Page) /\ Len(c.queue) = 0
      BY <3>2
    <3>6. VisitedIn(c.ledger) = {}
      BY <3>3 DEF VisitedIn
    <3>7. Orderly(<<>>, c.seen, c.ledger) /\ Level(<<>>, c.seen, c.ledger, 0)
          /\ DoneFor(<<>>, c.ledger, DOMAIN c.ledger)
      BY <3>2, <3>3, <3>5, <3>6 DEF Orderly, Level, DoneFor
    <3>8. Core(<<>>, c)
      <4>1. Sound(<<>>, c)
        BY <1>1, <3>2, <3>5, <3>7 DEF Sound
      <4>2. At(<<>>, c, 0)
        BY <3>5, <3>7 DEF At
      <4> QED
        BY <3>5, <3>7, <4>1, <4>2 DEF Core
    <3> QED
      BY <3>1, <3>2, <3>4, <3>8
  <2>2. CASE Seed \notin Excluded
    <3> DEFINE c == [queue |-> <<page>>, seen |-> {Seed}, ledger |-> <<>>, limit |-> "none"]
    <3>1. Enqueue(NoBooks, page, TRUE) = c
      <4>1. Enqueue(NoBooks, page, TRUE) =
              [NoBooks EXCEPT !.seen = NoBooks.seen \cup {page.url}, !.queue = Append(NoBooks.queue, page)]
        <5>1. /\ ~(page.depth > MaxDepth) /\ page.url \notin Excluded
              /\ page.url \notin NoBooks.seen /\ ~(Len(NoBooks.queue) >= MaxFrontier)
          BY <1>1, <1>2, <2>2
        <5> HIDE DEF page
        <5> QED
          BY <5>1 DEF Enqueue
      <4>2. Append(NoBooks.queue, page) = <<page>> /\ NoBooks.seen \cup {page.url} = {Seed}
        BY <1>1, <1>2
      <4> HIDE DEF page
      <4> QED
        BY <4>1, <4>2 DEF NoBooks
    <3>2. c \in BookSet /\ c.queue = <<page>> /\ c.seen = {Seed} /\ c.ledger = <<>>
      BY <1>1 DEF BookSet
    <3>4. Books = c
      BY <3>1 DEF Init, Books
    <3> HIDE DEF c
    <3>5. <<>> \o c.queue = <<page>> /\ DOMAIN <<page>> = {1} /\ <<>> \in Seq(Page)
          /\ <<page>> \in Seq(Page) /\ Len(c.queue) = 1 /\ <<page>>[1] = page /\ DOMAIN <<>> = {}
          /\ <<>> \in Seq(LedgerEntry)
      BY <1>1, <3>2
    <3>6. VisitedIn(<<>>) = {}
      BY <3>5 DEF VisitedIn
    <3> HIDE DEF page
    <3>7. Orderly(<<page>>, {Seed}, <<>>)
      BY <1>1, <3>5, <3>6 DEF Orderly
    <3>8. Level(<<page>>, {Seed}, <<>>, 1)
      BY <1>1, <3>5 DEF Level, Reached
    <3>9. DoneFor(<<page>>, <<>>, DOMAIN <<>>)
      BY <3>5 DEF DoneFor
    <3>10. Core(<<>>, c)
      <4>1. Sound(<<>>, c)
        BY <1>1, <3>2, <3>5, <3>7 DEF Sound
      <4>2. At(<<>>, c, 1)
        BY <3>2, <3>5, <3>8 DEF At
      <4> QED
        BY <3>2, <3>5, <3>9, <4>1, <4>2 DEF Core
    <3> QED
      BY <3>1, <3>2, <3>4, <3>10 DEF page
  <2> QED
    BY <2>1, <2>2
<1>6. /\ pc \in Places /\ entry \in Page /\ batch \in Seq(Run) /\ announced \in BOOLEAN /\ pc = "top"
  <2>1. pc \in Places /\ announced \in BOOLEAN /\ pc = "top"
    BY DEF Init, Places
  <2>2. entry \in Page
    BY <1>1 DEF Init, Nowhere
  <2> QED
    BY <1>3, <2>1, <2>2
<1> QED
  BY <1>3, <1>5, <1>6 DEF LedgerInv

(* A step that leaves the pages where they are.                             *)
LEMMA StayLedger ==
  ASSUME LedgerInv, UNCHANGED <<batch, entry>>, InHand' = InHand, pc' \in Places, announced' = announced,
         pc' \in {"top", "drain", "done"} => batch = <<>>, pc' # "done",
         ~announced => pc' \notin {"sleep", "go"},
         Core(Ahead, Books')
  PROVE  LedgerInv'
<1>1. Ahead' = Ahead
  BY DEF Ahead, Running
<1> QED
  BY <1>1 DEF LedgerInv

LEMMA HaltsAre == Halt \in {"none", "aborted", "max_time"}
BY DEF Halt

LEMMA FinishLedger == LedgerInv /\ Finish => LedgerInv'
<1> SUFFICES ASSUME LedgerInv, Finish PROVE LedgerInv'
  OBVIOUS
<1>1. /\ UNCHANGED <<batch, entry, announced>> /\ pc = "top" /\ pc' = "drain" /\ InHand' = InHand
      /\ Keep(IF stop \/ queue = <<>> THEN Books ELSE Limit(Books, Halt))
      /\ ~(stop \/ queue = <<>>) => Halt # "none"
  BY DEF Finish, startVars, InHand
<1>2. Core(Ahead, Books) /\ Books \in BookSet
  BY LedgerParts DEF LedgerInv
<1>5. /\ pc' \in Places /\ batch = <<>> /\ pc' # "done" /\ pc' \notin {"sleep", "go"}
  BY <1>1 DEF LedgerInv, Places
<1>3. CASE stop \/ queue = <<>>
  <2>1. Books' = Books
    BY <1>1, <1>2, <1>3, KeepMakes
  <2> QED
    BY <1>1, <1>2, <1>5, <2>1, StayLedger
<1>4. CASE ~(stop \/ queue = <<>>)
  <2>1. Halt \in Reasons
    BY <1>1, <1>4, HaltsAre, ReasonsAre
  <2>2. Core(Ahead, Limit(Books, Halt)) /\ Limit(Books, Halt) \in BookSet
    BY <1>2, <2>1, CoreLimit
  <2>3. Books' = Limit(Books, Halt)
    BY <1>1, <1>4, <2>2, KeepMakes
  <2> QED
    BY <1>1, <1>5, <2>2, <2>3, StayLedger
<1> QED
  BY <1>3, <1>4

LEMMA EndLedger == LedgerInv /\ EndBatch => LedgerInv'
<1> SUFFICES ASSUME LedgerInv, EndBatch PROVE LedgerInv'
  OBVIOUS
<1>1. /\ UNCHANGED <<batch, entry, announced>> /\ pc = "fold" /\ pc' = "top" /\ InHand' = InHand
      /\ batch = <<>>
      /\ Keep(Limit(Books, "max_time")) \/ UNCHANGED frontierVars
  BY DEF EndBatch, startVars, InHand
<1>2. Core(Ahead, Books) /\ Books \in BookSet
  BY LedgerParts DEF LedgerInv
<1>3. Core(Ahead, Books')
  <2>1. CASE UNCHANGED frontierVars
    BY <1>2, <2>1 DEF frontierVars, Books
  <2>2. CASE Keep(Limit(Books, "max_time"))
    <3>1. Core(Ahead, Limit(Books, "max_time")) /\ Limit(Books, "max_time") \in BookSet
      BY <1>2, ReasonsAre, CoreLimit
    <3> QED
      BY <2>2, <3>1, KeepMakes
  <2> QED
    BY <1>1, <2>1, <2>2
<1> QED
  BY <1>1, <1>3, StayLedger DEF Places

LEMMA IdleLedger ==
  LedgerInv /\ (OpenBatch \/ CloseBatch \/ Join \/ Tick \/ Abort \/ UNCHANGED vars) => LedgerInv'
<1> SUFFICES ASSUME LedgerInv, OpenBatch \/ CloseBatch \/ Join \/ Tick \/ Abort \/ UNCHANGED vars
             PROVE LedgerInv'
  OBVIOUS
<1>1. UNCHANGED <<queue, seen, ledger, limit, entry, announced, batch>> /\ InHand' = InHand
  <2>1. CASE OpenBatch
    BY <2>1 DEF OpenBatch, LedgerInv, frontierVars, InHand
  <2>2. CASE CloseBatch \/ Join
    BY <2>2 DEF CloseBatch, Join, frontierVars, startVars, InHand
  <2>3. CASE Tick \/ Abort \/ UNCHANGED vars
    BY <2>3 DEF Tick, Abort, vars, frontierVars, startVars, InHand
  <2> QED
    BY <2>1, <2>2, <2>3
<1>2. pc' = pc \/ (pc' \in {"fill", "join", "fold"} /\ pc' \in Places)
  BY DEF OpenBatch, CloseBatch, Join, Tick, Abort, vars, Places
<1>3. Books' = Books
  BY <1>1 DEF Books
<1>4. Ahead' = Ahead
  BY <1>1 DEF Ahead, Running
<1> QED
  BY <1>1, <1>2, <1>3, <1>4 DEF LedgerInv

LEMMA HeadTaken ==
  ASSUME NEW p \in Seq(Page), NEW q \in Seq(Page), q # <<>>
  PROVE  /\ Head(q) \in Page /\ Tail(q) \in Seq(Page) /\ Len(Tail(q)) <= Len(q)
         /\ (p \o <<Head(q)>>) \o Tail(q) = p \o q
<1>1. /\ Head(q) \in Page /\ Tail(q) \in Seq(Page)
      /\ Len(Tail(q)) = Len(q) - 1 /\ Len(q) \in Nat /\ Len(p) \in Nat
      /\ Head(q) = q[1] /\ Len(q) > 0 /\ \A n \in 1..(Len(q) - 1) : Tail(q)[n] = q[n + 1]
  OBVIOUS
<1> DEFINE one == <<Head(q)>>
           left == p \o one
<1>2. /\ left \in Seq(Page) /\ Len(left) = Len(p) + 1 /\ left[Len(p) + 1] = Head(q)
      /\ \A n \in 1..Len(p) : left[n] = p[n]
  BY <1>1
<1> HIDE DEF left
<1>3. /\ left \o Tail(q) \in Seq(Page) /\ p \o q \in Seq(Page)
      /\ Len(left \o Tail(q)) = Len(p) + Len(q) /\ Len(p \o q) = Len(p) + Len(q)
  BY <1>1, <1>2
<1>4. ASSUME NEW n \in 1..(Len(p) + Len(q)) PROVE (left \o Tail(q))[n] = (p \o q)[n]
  <2>1. CASE n <= Len(p)
    BY <1>1, <1>2, <2>1
  <2>2. CASE n = Len(p) + 1
    BY <1>1, <1>2, <2>2
  <2>3. CASE n > Len(p) + 1
    <3>1. (left \o Tail(q))[n] = Tail(q)[n - (Len(p) + 1)]
      BY <1>1, <1>2, <2>3
    <3>2. n - (Len(p) + 1) \in 1..(Len(q) - 1)
      BY <1>1, <2>3
    <3>3. Tail(q)[n - (Len(p) + 1)] = q[(n - (Len(p) + 1)) + 1]
      BY <1>1, <3>2
    <3>4. (p \o q)[n] = q[n - Len(p)] /\ (n - (Len(p) + 1)) + 1 = n - Len(p)
      BY <1>1, <2>3
    <3> QED
      BY <3>1, <3>3, <3>4
  <2> QED
    <3>1. n \in Nat /\ (n <= Len(p) \/ n = Len(p) + 1 \/ n > Len(p) + 1)
      BY <1>1
    <3> QED
      BY <2>1, <2>2, <2>3, <3>1
<1>5. left \o Tail(q) = p \o q
  BY <1>1, <1>3, <1>4
<1> QED
  BY <1>1, <1>5 DEF left

LEMMA RequeueDoes ==
  ASSUME NEW b \in BookSet, NEW q \in Seq(Page)
  PROVE  LET c == [b EXCEPT !.queue = q] IN
         c \in BookSet /\ c.queue = q /\ c.seen = b.seen /\ c.ledger = b.ledger
<1>1. /\ b.seen \in SUBSET URLs /\ b.ledger \in Seq(LedgerEntry) /\ b.limit \in Reasons \cup {"none"}
      /\ b = [queue |-> b.queue, seen |-> b.seen, ledger |-> b.ledger, limit |-> b.limit]
  BY DEF BookSet
<1> DEFINE c == [b EXCEPT !.queue = q]
<1>2. c = [queue |-> q, seen |-> b.seen, ledger |-> b.ledger, limit |-> b.limit]
  BY <1>1
<1>3. c \in BookSet
  BY <1>1, <1>2 DEF BookSet
<1> QED
  BY <1>2, <1>3

LEMMA DequeueLedger == LedgerInv /\ Dequeue => LedgerInv'
<1> SUFFICES ASSUME LedgerInv, Dequeue PROVE LedgerInv'
  OBVIOUS
<1> DEFINE b1 == [Books EXCEPT !.queue = Tail(Books.queue)]
           page == Head(queue)
<1>1. /\ pc = "fill" /\ queue # <<>> /\ entry' = page /\ UNCHANGED <<announced, batch>>
      /\ \/ Halt = "none" /\ Keep(b1) /\ pc' = "robots"
         \/ Halt # "none" /\ LeaveOut(b1, page, Halt)
  BY DEF Dequeue, startVars
<1>2. /\ Books \in BookSet /\ queue \in Seq(Page) /\ Running \in Seq(Page) /\ Ahead = Running
      /\ Core(Running, Books) /\ Len(queue) <= MaxFrontier
      /\ seen \subseteq URLs /\ ledger \in Seq(LedgerEntry)
  BY <1>1, LedgerParts DEF LedgerInv, Ahead, InHand
<1>3. /\ page \in Page /\ Tail(queue) \in Seq(Page) /\ Len(Tail(queue)) <= Len(queue)
      /\ (Running \o <<page>>) \o Tail(queue) = Running \o queue
  BY <1>1, <1>2, HeadTaken
<1>4. /\ b1 \in BookSet /\ b1.queue = Tail(queue) /\ b1.seen = seen /\ b1.ledger = ledger
      /\ Len(b1.queue) <= MaxFrontier
  <2>1. /\ b1 \in BookSet /\ b1.queue = Tail(Books.queue) /\ b1.seen = Books.seen
        /\ b1.ledger = Books.ledger
    BY <1>2, <1>3, BooksAre, RequeueDoes
  <2>2. Len(queue) \in Nat /\ Len(Tail(queue)) \in Nat
    BY <1>2, <1>3
  <2>3. Len(Tail(queue)) <= MaxFrontier
    BY <1>2, <1>3, <2>2, Counted
  <2> HIDE DEF b1
  <2> QED
    BY <2>1, <2>3, BooksAre
<1> HIDE DEF b1, page
<1>5. Running' = Running
  BY <1>1 DEF Running
<1>6. CASE Halt = "none"
  <2>1. Keep(b1) /\ pc' = "robots"
    BY <1>1, <1>6
  <2>2. Books' = b1 /\ Ahead' = Running \o <<page>>
    BY <1>1, <1>4, <1>5, <2>1, KeepMakes DEF Ahead, InHand
  <2>3. Running \o <<page>> \in Seq(Page)
    BY <1>2, <1>3
  <2>4. Core(Running \o <<page>>, b1)
    <3>1. (Running \o <<page>>) \o b1.queue = Running \o Books.queue
      BY <1>3, <1>4, BooksAre
    <3> QED
      BY <1>2, <1>4, <2>3, <3>1, BooksAre, CoreSame
  <2> QED
    BY <1>1, <1>3, <2>1, <2>2, <2>4 DEF LedgerInv, Places
<1>7. CASE Halt # "none"
  <2> DEFINE c == Record(b1, Note("unvisited", page, Halt))
  <2>1. LeaveOut(b1, page, Halt) /\ Halt \in Reasons /\ pc' = "fill"
    BY <1>1, <1>7, HaltsAre, ReasonsAre DEF LeaveOut
  <2>2. /\ TakenOut(Running \o queue, Len(Running) + 1, Running \o Tail(queue))
        /\ (Running \o queue)[Len(Running) + 1] = page
    <3>1. /\ TakenOut((Running \o <<page>>) \o Tail(queue), Len(Running) + 1, Running \o Tail(queue))
          /\ ((Running \o <<page>>) \o Tail(queue))[Len(Running) + 1] = page
      BY <1>2, <1>3, OutOfTheMiddle
    <3> QED
      BY <1>3, <3>1
  <2>3. Core(Running, Limit(c, Halt)) /\ Limit(c, Halt) \in BookSet
    <3>1. /\ TakenOut(Running \o Books.queue, Len(Running) + 1, Running \o b1.queue)
          /\ (Running \o Books.queue)[Len(Running) + 1] = page
      BY <1>4, <2>2, BooksAre
    <3>2. b1.seen = Books.seen /\ b1.ledger = Books.ledger
      BY <1>4, BooksAre
    <3> QED
      BY <1>2, <1>3, <1>4, <2>1, <3>1, <3>2, CoreRecord
  <2>4. Books' = Limit(c, Halt)
    BY <2>1, <2>3, KeepMakes DEF LeaveOut
  <2>5. Ahead' = Running
    BY <1>5, <2>1 DEF Ahead, InHand
  <2> QED
    BY <1>1, <1>3, <2>1, <2>3, <2>4, <2>5 DEF LedgerInv, Places
<1> QED
  BY <1>6, <1>7

(* The page in hand is listed, whatever has just been discovered.           *)
LEMMA HandListed ==
  ASSUME NEW p \in Seq(Page), NEW page \in Page, NEW b, Core(p \o <<page>>, b), NEW reason \in Reasons,
         NEW state \in {"blocked", "failed", "unvisited"}, NEW named \in Reasons
  PROVE  LET c == Record(b, Note(state, page, reason)) IN
         /\ c \in BookSet /\ Core(p, c) /\ Limit(c, named) \in BookSet /\ Core(p, Limit(c, named))
<1>1. b \in BookSet /\ Len(b.queue) <= MaxFrontier /\ b.queue \in Seq(Page)
  BY BookParts DEF Core, Sound
<1>2. /\ TakenOut((p \o <<page>>) \o b.queue, Len(p) + 1, p \o b.queue)
      /\ ((p \o <<page>>) \o b.queue)[Len(p) + 1] = page
  BY <1>1, OutOfTheMiddle
<1> QED
  BY <1>1, <1>2, CoreRecord

LEMMA DenyLedger == LedgerInv /\ (Deny \/ SleepRejects) => LedgerInv'
<1> SUFFICES ASSUME LedgerInv, Deny \/ SleepRejects PROVE LedgerInv'
  OBVIOUS
<1> DEFINE denied == Record(Books, Note("blocked", entry, "robots_denied"))
           left == Record(Books, Note("unvisited", entry, "aborted"))
<1>1. /\ InHand /\ pc' = "fill" /\ UNCHANGED <<announced, batch, entry>>
      /\ Keep(denied) \/ Keep(Limit(left, "aborted"))
  BY DEF Deny, SleepRejects, LeaveOut, startVars, InHand
<1>2. /\ Running \in Seq(Page) /\ entry \in Page /\ Core(Running \o <<entry>>, Books)
  BY <1>1, LedgerParts DEF LedgerInv, Ahead
<1>3. Core(Running, denied) /\ denied \in BookSet
  BY <1>2, ReasonsAre, HandListed
<1>4. Core(Running, Limit(left, "aborted")) /\ Limit(left, "aborted") \in BookSet
  BY <1>2, ReasonsAre, HandListed
<1>5. Core(Running, Books')
  BY <1>1, <1>3, <1>4, KeepMakes
<1>6. Ahead' = Running
  BY <1>1 DEF Ahead, InHand, Running
<1> QED
  BY <1>1, <1>5, <1>6 DEF LedgerInv, Places

LEMMA AllowLedger == LedgerInv /\ Allow => LedgerInv'
<1> SUFFICES ASSUME LedgerInv, Allow PROVE LedgerInv'
  OBVIOUS
<1> DEFINE books == IF announced THEN Books ELSE Discover(Books, Sitemaps, entry)
           left == Record(books, Note("unvisited", entry, Cap))
<1>1. /\ pc = "robots" /\ InHand /\ announced' = TRUE /\ UNCHANGED <<entry, batch>>
      /\ \/ Cap # "none" /\ LeaveOut(books, entry, Cap)
         \/ Cap = "none" /\ Keep(books) /\ pc' \in {"sleep", "go"}
  BY DEF Allow, InHand
<1>2. /\ Running \in Seq(Page) /\ entry \in Page /\ Core(Running \o <<entry>>, Books)
      /\ Running \o <<entry>> \in Seq(Page)
  <2>1. Running \in Seq(Page) /\ entry \in Page /\ Core(Running \o <<entry>>, Books)
    BY <1>1, LedgerParts DEF LedgerInv, Ahead
  <2> QED
    BY <2>1
<1>3. Core(Running \o <<entry>>, books)
  <2>1. CASE announced
    BY <1>2, <2>1
  <2>2. CASE ~announced
    <3> DEFINE p == <<entry>>
    <3>1. batch = <<>> /\ Running \o <<entry>> = p
      <4>1. batch = <<>>
        BY <2>2 DEF LedgerInv
      <4>2. Len(Running) = 0 /\ Running \in Seq(Page)
        BY <4>1, LedgerParts
      <4>3. Running = <<>>
        BY <4>2
      <4> QED
        BY <1>2, <4>1, <4>3
    <3>2. p \in Seq(Page) /\ Core(p, Books) /\ Sound(p, Books)
      BY <1>2, <3>1 DEF Core
    <3>3. PICK e \in Nat : At(p, Books, e)
      BY <3>2 DEF Core
    <3>4. /\ 1 \in DOMAIN (p \o Books.queue) /\ (p \o Books.queue)[1] = entry
      <4>1. Books.queue \in Seq(Page)
        BY <3>2, BookParts DEF Sound
      <4> QED
        BY <1>2, <4>1
    <3>5. entry.depth \in Nat /\ At(p, Books, entry.depth + 1)
      <4>1. Orderly(p \o Books.queue, Books.seen, Books.ledger)
            /\ Level(p \o Books.queue, Books.seen, Books.ledger, e)
        BY <3>2, <3>3 DEF Sound, At
      <4> HIDE DEF p
      <4> QED
        BY <3>4, <4>1, LevelOfHead DEF At
    <3>6. books = Follow(Books, Sitemaps, entry.depth + 1)
      BY <2>2 DEF Discover
    <3>7. DoneFor(p \o Books.queue, Books.ledger, DOMAIN Books.ledger) /\ entry.depth + 1 \in Nat
          /\ Sitemaps \in Seq(URLs)
      BY <3>2, <3>5, Counted DEF Core
    <3> HIDE DEF books, p
    <3>8. Core(p, books)
      BY <3>2, <3>5, <3>6, <3>7, CoreFollow
    <3> QED
      BY <3>1, <3>8
  <2> QED
    BY <2>1, <2>2
<1> HIDE DEF books
<1>4. books \in BookSet
  BY <1>3 DEF Core, Sound
<1>5. CASE Cap # "none"
  <2>1. Cap \in Reasons
    BY <1>5, ReasonsAre DEF Cap
  <2>2. Core(Running, Limit(left, Cap)) /\ Limit(left, Cap) \in BookSet
    BY <1>2, <1>3, <2>1, HandListed
  <2>3. Keep(Limit(left, Cap)) /\ pc' = "fill"
    BY <1>1, <1>5 DEF LeaveOut
  <2>4. Books' = Limit(left, Cap) /\ Ahead' = Running
    BY <1>1, <2>2, <2>3, KeepMakes DEF Ahead, InHand, Running
  <2> QED
    BY <1>1, <2>2, <2>3, <2>4 DEF LedgerInv, Places
<1>6. CASE Cap = "none"
  <2>1. Keep(books) /\ pc' \in {"sleep", "go"}
    BY <1>1, <1>6
  <2>2. Books' = books /\ Ahead' = Running \o <<entry>>
    BY <1>1, <1>4, <2>1, KeepMakes DEF Ahead, InHand, Running
  <2> QED
    BY <1>1, <1>3, <2>1, <2>2 DEF LedgerInv, Places
<1> QED
  BY <1>5, <1>6

LEMMA OneLonger ==
  ASSUME NEW s \in Seq(Page), NEW page \in Page
  PROVE  /\ s \o <<page>> \in Seq(Page) /\ Len(s \o <<page>>) = Len(s) + 1
         /\ (s \o <<page>>)[Len(s) + 1] = page
         /\ \A i \in 1..Len(s) : (s \o <<page>>)[i] = s[i]
OBVIOUS

LEMMA StartLedger == LedgerInv /\ BudgetInv /\ StartPage => LedgerInv'
<1> SUFFICES ASSUME LedgerInv, BudgetInv, StartPage PROVE LedgerInv'
  OBVIOUS
<1> DEFINE run == Started(entry, batchRetryAllowance, batchRedirectAllowance)
           n == Len(batch)
<1>1. /\ pc \in {"go", "sleep"} /\ InHand /\ pc' = "fill" /\ batch' = Append(batch, run)
      /\ UNCHANGED <<announced, entry, queue, seen, ledger, limit>>
  BY DEF StartPage, InHand, frontierVars
<1>2. batch \in Seq(Run) /\ entry \in Page /\ announced
  BY <1>1 DEF LedgerInv
<1>3. run \in Run /\ run.page = entry
  <2>1. batchRetryAllowance \in Nat /\ batchRedirectAllowance \in Nat /\ MaxPageBytes \in Nat
    BY PageBytesAre DEF BudgetInv
  <2> QED
    BY <1>2, <2>1 DEF Started, Run
<1> HIDE DEF run
<1>4. /\ batch' \in Seq(Run) /\ Len(batch') = n + 1 /\ n \in Nat /\ batch'[n + 1] = run
      /\ \A i \in 1..n : batch'[i] = batch[i]
  BY <1>1, <1>2, <1>3
<1>5. Running' = Running \o <<entry>>
  <2>1. Running \in Seq(Page) /\ Len(Running) = n /\ \A i \in 1..n : Running[i] = batch[i].page
    BY <1>2, RunningAre DEF Running
  <2>2. Running' \in Seq(Page) /\ Len(Running') = n + 1
        /\ \A i \in 1..(n + 1) : Running'[i] = batch'[i].page
    <3>1. Running' = [i \in 1..Len(batch') |-> batch'[i].page]
      BY DEF Running
    <3> QED
      BY <1>4, <3>1, RunningAre
  <2>3. /\ Running \o <<entry>> \in Seq(Page) /\ Len(Running \o <<entry>>) = n + 1
        /\ (Running \o <<entry>>)[n + 1] = entry
        /\ \A i \in 1..n : (Running \o <<entry>>)[i] = Running[i]
    BY <1>2, <2>1, OneLonger
  <2>4. ASSUME NEW i \in 1..(n + 1) PROVE Running'[i] = (Running \o <<entry>>)[i]
    <3>1. CASE i = n + 1
      BY <1>3, <1>4, <2>2, <2>3, <3>1
    <3>2. CASE i # n + 1
      <4>1. i \in 1..n
        BY <1>4, <2>4, <3>2
      <4> QED
        BY <1>4, <2>1, <2>2, <2>3, <2>4, <4>1
    <3> QED
      BY <3>1, <3>2
  <2> QED
    BY <1>4, <2>2, <2>3, <2>4
<1>6. Ahead' = Ahead /\ Books' = Books
  BY <1>1, <1>5 DEF Ahead, InHand, Books
<1> QED
  BY <1>1, <1>2, <1>4, <1>6 DEF LedgerInv, Places

(* A page that settles stays where it is.                                   *)
LEMMA SettleLedger == LedgerInv /\ (\E i \in DOMAIN batch : Settle(i)) => LedgerInv'
<1> SUFFICES ASSUME LedgerInv, NEW i \in DOMAIN batch, Settle(i) PROVE LedgerInv'
  OBVIOUS
<1>1. batch \in Seq(Run) /\ i \in 1..Len(batch) /\ batch[i] \in Run
  BY DEF LedgerInv
<1>2. PICK run \in Run : run.page = batch[i].page /\ batch' = [batch EXCEPT ![i] = run]
  BY <1>1, SettledRun
<1>3. /\ batch' \in Seq(Run) /\ Len(batch') = Len(batch) /\ Len(batch) \in Nat
      /\ \A j \in 1..Len(batch) : batch'[j].page = batch[j].page
  <2>1. batch' \in Seq(Run) /\ Len(batch') = Len(batch) /\ batch'[i] = run
        /\ \A j \in 1..Len(batch) : j # i => batch'[j] = batch[j]
    BY <1>1, <1>2
  <2> QED
    BY <1>1, <1>2, <2>1
<1>4. UNCHANGED <<announced, entry, queue, seen, ledger, limit, pc>>
  BY DEF Settle, frontierVars
<1>5. Running' = Running
  BY <1>3 DEF Running
<1>6. Ahead' = Ahead /\ Books' = Books
  BY <1>4, <1>5 DEF Ahead, InHand, Books
<1>7. (batch = <<>>) => (batch' = <<>>)
  BY <1>1
<1> QED
  BY <1>3, <1>4, <1>6, <1>7 DEF LedgerInv

LEMMA FoldLedger == LedgerInv /\ FoldPage => LedgerInv'
<1> SUFFICES ASSUME LedgerInv, FoldPage PROVE LedgerInv'
  OBVIOUS
<1> DEFINE run == batch[1]
           page == batch[1].page
           p == Tail(Running)
           noted == Record(Books, Note("accepted", page, "ok"))
           blocked == Record(Books, Note("blocked", page, "hard_limit"))
           told == Record(Books, Note(run.kind, page, "outcome"))
<1>1. batch \in Seq(Run) /\ batch # <<>> /\ Head(batch) = run
  BY DEF LedgerInv, FoldPage
<1>2. /\ pc = "fold" /\ pc' = "fold" /\ batch' = Tail(batch) /\ UNCHANGED <<announced, entry>>
      /\ \/ Keep(Limit(blocked, "max_total_bytes"))
         \/ Keep(Discover(noted, Links[page.url], page))
         \/ Verdict(run) \in {"blocked", "failed"} /\ Keep(told)
  BY <1>1 DEF FoldPage
<1>3. /\ Len(batch) \in Nat \ {0} /\ 1 \in 1..Len(batch) /\ run \in Run /\ page \in Page
      /\ Tail(batch) \in Seq(Run) /\ Len(Tail(batch)) = Len(batch) - 1
      /\ \A i \in 1..(Len(batch) - 1) : Tail(batch)[i] = batch[i + 1]
  <2>1. /\ Len(batch) \in Nat \ {0} /\ 1 \in 1..Len(batch) /\ run \in Run
        /\ Tail(batch) \in Seq(Run) /\ Len(Tail(batch)) = Len(batch) - 1
        /\ \A i \in 1..(Len(batch) - 1) : Tail(batch)[i] = batch[i + 1]
    BY <1>1
  <2> QED
    BY <1>1, <2>1, RunningAre
<1>4. /\ Running \in Seq(Page) /\ Len(Running) = Len(batch) /\ Running[1] = page /\ Running # <<>>
      /\ \A i \in 1..Len(batch) : Running[i] = batch[i].page
  <2>1. Running \in Seq(Page) /\ Len(Running) = Len(batch)
        /\ \A i \in 1..Len(batch) : Running[i] = batch[i].page
    BY <1>1, RunningAre DEF Running
  <2> QED
    BY <1>3, <2>1
<1>5. Running' = p /\ p \in Seq(Page)
  <2>1. p \in Seq(Page) /\ Len(p) = Len(batch) - 1
        /\ \A i \in 1..(Len(batch) - 1) : p[i] = Running[i + 1]
    BY <1>3, <1>4
  <2>2. Running' = [i \in 1..Len(Tail(batch)) |-> Tail(batch)[i].page]
    BY <1>2 DEF Running
  <2>3. Running' \in Seq(Page) /\ Len(Running') = Len(batch) - 1
    BY <1>3, <2>2, RunningAre
  <2>4. ASSUME NEW i \in 1..(Len(batch) - 1) PROVE Running'[i] = p[i]
    <3>1. i + 1 \in 1..Len(batch)
      BY <1>3, <2>4
    <3>2. Running'[i] = Tail(batch)[i].page
      BY <1>3, <2>2, <2>4
    <3> QED
      BY <1>3, <1>4, <2>1, <2>4, <3>1, <3>2
  <2> QED
    BY <1>3, <2>1, <2>3, <2>4
<1>6. Core(Running, Books) /\ Ahead' = p
  BY <1>2, <1>5 DEF LedgerInv, Ahead, InHand
<1>7. /\ Books \in BookSet /\ Books.queue \in Seq(Page) /\ Len(Books.queue) <= MaxFrontier
      /\ Books.ledger \in Seq(LedgerEntry)
  BY <1>6, BookParts DEF Core, Sound
<1>8. /\ TakenOut(Running \o Books.queue, 1, p \o Books.queue)
      /\ (Running \o Books.queue)[1] = page /\ 1 \in DOMAIN (Running \o Books.queue)
  <2>1. /\ TakenOut(Running \o Books.queue, 1, p \o Books.queue)
        /\ (Running \o Books.queue)[1] = Running[1]
    BY <1>4, <1>7, OutOfTheFront
  <2> QED
    BY <1>4, <2>1 DEF TakenOut
<1> HIDE DEF page, p
<1>9. CASE Keep(Limit(blocked, "max_total_bytes"))
  <2>1. /\ "blocked" \in {"blocked", "failed", "unvisited"}
        /\ "hard_limit" \in Reasons /\ "max_total_bytes" \in Reasons
    BY ReasonsAre
  <2>2. Core(p, Limit(blocked, "max_total_bytes")) /\ Limit(blocked, "max_total_bytes") \in BookSet
    BY <1>3, <1>5, <1>6, <1>7, <1>8, <2>1, CoreRecord
  <2>3. Core(p, Books')
    BY <1>9, <2>2, KeepMakes
  <2> QED
    BY <1>2, <1>3, <1>6, <2>3 DEF LedgerInv, Places
<1>10. CASE Verdict(run) \in {"blocked", "failed"} /\ Keep(told)
  <2>1. run.kind \in {"blocked", "failed"}
    BY <1>10 DEF Verdict
  <2>2. run.kind \in {"blocked", "failed", "unvisited"} /\ "outcome" \in Reasons
    BY <2>1, ReasonsAre
  <2>3. Core(p, told) /\ told \in BookSet
    BY <1>3, <1>5, <1>6, <1>7, <1>8, <2>2, CoreRecord
  <2>4. Core(p, Books')
    BY <1>10, <2>3, KeepMakes
  <2> QED
    BY <1>2, <1>3, <1>6, <2>4 DEF LedgerInv, Places
<1>11. CASE Keep(Discover(noted, Links[page.url], page))
  <2> DEFINE c == Discover(noted, Links[page.url], page)
             e == page.depth + 1
  <2>1. /\ "accepted" \in {"accepted", "skipped", "blocked", "failed", "unvisited"} /\ "ok" \in Reasons
        /\ "accepted" \in {"accepted", "blocked", "failed", "unvisited"}
    BY ReasonsAre
  <2>2. /\ noted \in BookSet /\ noted.queue = Books.queue /\ noted.seen = Books.seen
        /\ noted.ledger = Append(Books.ledger, Note("accepted", page, "ok"))
    BY <1>3, <1>7, <2>1, RecordDoes
  <2> HIDE DEF noted
  <2>3. /\ Sound(p, noted) /\ \A d \in Nat : At(Running, Books, d) => At(p, noted, d)
        /\ DoneFor(p \o noted.queue, noted.ledger, DOMAIN Books.ledger)
    BY <1>5, <1>6, <1>7, <1>8, <2>1, <2>2, CoreLeave
  <2>4. page.depth \in Nat /\ page.url \in URLs /\ At(Running, Books, e)
    <3>1. PICK d \in Nat : At(Running, Books, d)
      BY <1>6 DEF Core
    <3>2. Orderly(Running \o Books.queue, Books.seen, Books.ledger)
          /\ Level(Running \o Books.queue, Books.seen, Books.ledger, d)
      BY <1>6, <3>1 DEF Core, Sound, At
    <3>3. Level(Running \o Books.queue, Books.seen, Books.ledger, (Running \o Books.queue)[1].depth + 1)
      BY <1>8, <3>2, LevelOfHead
    <3> QED
      BY <1>3, <1>8, <3>3 DEF At, Page
  <2>5. /\ DOMAIN noted.ledger = DOMAIN Books.ledger \cup {Len(Books.ledger) + 1}
        /\ noted.ledger[Len(Books.ledger) + 1].url = page.url
        /\ noted.ledger[Len(Books.ledger) + 1].depth = page.depth
    BY <1>3, <1>7, <2>1, <2>2, NotedDoes
  <2>6. c = Follow(noted, Links[page.url], e)
    BY DEF Discover
  <2>7. Links[page.url] \in Seq(URLs) /\ e \in Nat
    BY <2>4, Counted
  <2>8. \A i \in DOMAIN noted.ledger \ DOMAIN Books.ledger :
          /\ Links[page.url] = Links[noted.ledger[i].url] /\ noted.ledger[i].depth + 1 = e
    BY <2>5
  <2> DEFINE urls == Links[page.url]
  <2> HIDE DEF c, e, urls
  <2>9. Core(p, c)
    <3>1. At(p, noted, e) /\ DOMAIN Books.ledger \subseteq DOMAIN noted.ledger
      BY <2>3, <2>4, <2>5, <2>7
    <3>2. urls \in Seq(URLs) /\ c = Follow(noted, urls, e) /\ e \in Nat
      BY <2>6, <2>7 DEF urls
    <3>3. \A i \in DOMAIN noted.ledger \ DOMAIN Books.ledger :
            noted.ledger[i].state = "accepted" =>
              urls = Links[noted.ledger[i].url] /\ noted.ledger[i].depth + 1 = e
      BY <2>8 DEF urls
    <3> QED
      BY <1>5, <2>3, <3>1, <3>2, <3>3, CoreFollow
  <2>10. c \in BookSet
    BY <2>9 DEF Core, Sound
  <2>11. Core(p, Books')
    BY <1>11, <2>9, <2>10, KeepMakes DEF c
  <2> QED
    BY <1>2, <1>3, <1>6, <2>11 DEF LedgerInv, Places
<1> QED
  BY <1>2, <1>9, <1>10, <1>11

LEMMA DrainLedger == LedgerInv /\ Drain => LedgerInv'
<1> SUFFICES ASSUME LedgerInv, Drain PROVE LedgerInv'
  OBVIOUS
<1> DEFINE reason == IF limit = "none" THEN "not_visited" ELSE limit
           c == [Books EXCEPT !.ledger = Books.ledger \o
                                [i \in DOMAIN Books.queue |-> Note("unvisited", Books.queue[i], reason)],
                              !.queue = <<>>]
<1>1. /\ pc = "drain" /\ pc' = "done" /\ UNCHANGED <<announced, entry, batch>>
      /\ Keep(c)
  BY BooksAre DEF Drain, startVars
<1>2. Books \in BookSet /\ batch = <<>> /\ Ahead = <<>> /\ Ahead' = <<>>
  <2>1. batch = <<>> /\ batch' = <<>> /\ ~InHand /\ ~InHand'
    BY <1>1 DEF LedgerInv, InHand
  <2>2. Running = <<>> /\ Running' = <<>>
    BY <2>1 DEF Running
  <2> QED
    BY <2>1, <2>2, LedgerParts DEF Ahead
<1>3. reason \in Reasons
  BY <1>2, BookParts, BooksAre, ReasonsAre
<1>4. Core(<<>>, Books)
  BY <1>2 DEF LedgerInv
<1> HIDE DEF reason
<1>5. Core(<<>>, c)
  BY <1>3, <1>4, DrainKeeps
<1>6. c.queue = <<>>
  BY <1>2 DEF BookSet
<1> HIDE DEF c
<1>7. Books' = c
  BY <1>1, <1>5, KeepMakes DEF Core, Sound
<1>8. queue' = <<>>
  BY <1>1, <1>6 DEF Keep
<1> QED
  BY <1>1, <1>2, <1>5, <1>7, <1>8 DEF LedgerInv, Places

LEMMA NextLedger == LedgerInv /\ BudgetInv /\ [Next]_vars => LedgerInv'
BY InitLedger, FinishLedger, EndLedger, IdleLedger, DequeueLedger, DenyLedger, AllowLedger, StartLedger,
   SettleLedger, FoldLedger, DrainLedger DEF Next, Step


-----------------------------------------------------------------------------
(* The bytes.  m is the largest page.                                       *)
LEMMA Fewer ==
  ASSUME NEW a \in Nat, NEW b \in Nat, a <= b, NEW m \in Nat
  PROVE  a * m \in Nat /\ b * m \in Nat /\ a * m <= b * m
<1>1. PICK d \in Nat : b = a + d
  <2>1. b - a \in Nat /\ b = a + (b - a)
    OBVIOUS
  <2> QED
    BY <2>1
<1>2. d * m \in Nat /\ a * m \in Nat /\ (a + d) * m = a * m + d * m
  OBVIOUS
<1> QED
  BY <1>1, <1>2

LEMMA OneMorePage ==
  ASSUME NEW n \in Nat, NEW m \in Nat
  PROVE  n * m \in Nat /\ (n + 1) * m = n * m + m
OBVIOUS

LEMMA InitBudget == Init => BudgetInv
<1> SUFFICES ASSUME Init PROVE BudgetInv
  OBVIOUS
<1>1. MaxRedirects \in Nat /\ RetriesPerAdapter \in Nat /\ MaxTotalBytes \in Nat /\ MaxTotalBytes > 0
      /\ Concurrency \in Nat
  <2>1. MaxRedirects \in Nat
    BY CrawlAssumption
  <2> QED
    BY <2>1, Numbers, Counted
<1>2. batch = <<>> /\ totalBytes = 0 /\ Len(batch) = 0
  BY DEF Init
<1>3. 0 * MaxPageBytes = 0 /\ Concurrency * MaxPageBytes \in Nat
  BY <1>1, PageBytesAre
<1>4. totalBytes + Len(batch) * MaxPageBytes < MaxTotalBytes + Concurrency * MaxPageBytes
  BY <1>1, <1>2, <1>3
<1> QED
  BY <1>1, <1>4 DEF Init, BudgetInv

LEMMA StartBudget == LedgerInv /\ BudgetInv /\ CountInv /\ StartPage => BudgetInv'
<1> SUFFICES ASSUME LedgerInv, BudgetInv, CountInv, StartPage PROVE BudgetInv'
  OBVIOUS
<1>1. /\ batch' = Append(batch, Started(entry, batchRetryAllowance, batchRedirectAllowance))
      /\ batchRetryAllowance' = 0 /\ batchRedirectAllowance' = 0 /\ pc' = "fill"
      /\ UNCHANGED <<redirectsRemaining, totalBytes, followed, retriesUsed, retriesRemaining, aborted, stop>>
      /\ pc \in {"go", "sleep"}
  BY DEF StartPage, budgetVars
<1>2. Len(batch') = Len(batch) + 1 /\ Len(batch) \in Nat
  <2>1. PICK S : batch \in Seq(S)
    BY DEF LedgerInv
  <2> QED
    BY <1>1, <2>1
<1>3. Len(batch) < Concurrency /\ totalBytes < MaxTotalBytes
  BY <1>1 DEF CountInv, BudgetInv
<1>4. Len(batch') <= Concurrency /\ Concurrency \in Nat /\ MaxTotalBytes \in Nat /\ MaxPageBytes \in Nat
  BY <1>2, <1>3, Counted, PageBytesAre
<1>5. /\ Len(batch') * MaxPageBytes \in Nat /\ Concurrency * MaxPageBytes \in Nat
      /\ Len(batch') * MaxPageBytes <= Concurrency * MaxPageBytes
  BY <1>2, <1>4, Fewer
<1>6. totalBytes' + Len(batch') * MaxPageBytes < MaxTotalBytes + Concurrency * MaxPageBytes
  BY <1>1, <1>3, <1>4, <1>5 DEF BudgetInv
<1>7. MaxPageBytes' = MaxPageBytes /\ MaxTotalBytes' = MaxTotalBytes /\ Concurrency' = Concurrency
  BY DEF MaxPageBytes
<1> QED
  BY <1>1, <1>6, <1>7 DEF BudgetInv

LEMMA FoldBudget == LedgerInv /\ BudgetInv /\ FoldPage => BudgetInv'
<1> SUFFICES ASSUME LedgerInv, BudgetInv, FoldPage PROVE BudgetInv'
  OBVIOUS
<1> DEFINE n == Len(batch) - 1
<1>1. /\ Head(batch) \in Run /\ Len(batch') = n /\ n \in Nat /\ Len(batch) = n + 1 /\ pc' = "fold"
  BY DEF FoldPage, LedgerInv
<1>2. PICK run \in Run : run = Head(batch)
  BY <1>1
<1>3. /\ totalBytes' = totalBytes + run.bytes /\ retriesUsed' = retriesUsed + run.charged
      /\ followed' = followed + run.followed
      /\ retriesRemaining' = Less(retriesRemaining, run.charged)
      /\ redirectsRemaining' = Less(redirectsRemaining, run.traced)
      /\ UNCHANGED <<batchRetryAllowance, batchRedirectAllowance, aborted>>
  BY <1>2 DEF FoldPage
<1>4. stop' \in BOOLEAN
  BY DEF FoldPage
<1>5. run.bytes \in Nat /\ run.bytes <= MaxPageBytes /\ run.retried \in Nat /\ run.followed \in Nat
      /\ run.traced \in Nat /\ run.charged \in Nat
  BY PageBytesAre DEF Run
<1>6. /\ totalBytes' \in Nat /\ retriesUsed' \in Nat /\ followed' \in Nat /\ retriesRemaining' \in Nat
      /\ redirectsRemaining' \in Nat
  <2>1. /\ totalBytes \in Nat /\ retriesUsed \in Nat /\ followed \in Nat /\ retriesRemaining \in Nat
        /\ redirectsRemaining \in Nat
    BY DEF BudgetInv
  <2>2. \A a, b \in Nat : Less(a, b) \in Nat
    BY DEF Less
  <2>3. PICK bytes \in Nat, charged \in Nat, went \in Nat, traced \in Nat :
          run.bytes = bytes /\ run.charged = charged /\ run.followed = went /\ run.traced = traced
    BY <1>5
  <2>4. /\ totalBytes' = totalBytes + bytes /\ retriesUsed' = retriesUsed + charged
        /\ followed' = followed + went
        /\ retriesRemaining' = Less(retriesRemaining, charged)
        /\ redirectsRemaining' = Less(redirectsRemaining, traced)
    BY <1>3, <2>3
  <2> QED
    BY <2>1, <2>2, <2>4
<1>7. n * MaxPageBytes \in Nat /\ (n + 1) * MaxPageBytes = n * MaxPageBytes + MaxPageBytes
  BY <1>1, PageBytesAre, OneMorePage
<1>8. Concurrency * MaxPageBytes \in Nat /\ MaxTotalBytes \in Nat
  BY PageBytesAre, Counted, Fewer
<1>9. totalBytes + (n + 1) * MaxPageBytes < MaxTotalBytes + Concurrency * MaxPageBytes
  BY <1>1 DEF BudgetInv
<1>10. totalBytes' + n * MaxPageBytes < MaxTotalBytes + Concurrency * MaxPageBytes
  <2>1. PICK x \in Nat, y \in Nat : x = n * MaxPageBytes /\ y = Concurrency * MaxPageBytes
    BY <1>7, <1>8
  <2>2. totalBytes + (x + MaxPageBytes) < MaxTotalBytes + y
    BY <1>7, <1>9, <2>1
  <2>3. totalBytes \in Nat /\ MaxPageBytes \in Nat /\ MaxTotalBytes \in Nat
    BY <1>8, PageBytesAre DEF BudgetInv
  <2>4. totalBytes' + x < MaxTotalBytes + y
    <3>1. PICK bytes \in Nat : run.bytes = bytes /\ bytes <= MaxPageBytes
      BY <1>5
    <3>2. totalBytes' = totalBytes + bytes
      BY <1>3, <3>1
    <3> QED
      BY <2>2, <2>3, <3>1, <3>2
  <2> QED
    BY <2>1, <2>4
<1>11. MaxPageBytes' = MaxPageBytes /\ MaxTotalBytes' = MaxTotalBytes /\ Concurrency' = Concurrency
  BY DEF MaxPageBytes
<1> QED
  BY <1>1, <1>3, <1>4, <1>6, <1>10, <1>11 DEF BudgetInv

LEMMA NextBudget == LedgerInv /\ BudgetInv /\ CountInv /\ [Next]_vars => BudgetInv'
<1> SUFFICES ASSUME LedgerInv, BudgetInv, CountInv, [Next]_vars PROVE BudgetInv'
  OBVIOUS
<1> DEFINE spent == <<redirectsRemaining, totalBytes, followed, retriesUsed, retriesRemaining>>
<1>1. MaxPageBytes' = MaxPageBytes /\ MaxTotalBytes' = MaxTotalBytes /\ Concurrency' = Concurrency
  BY DEF MaxPageBytes
<1>2. ASSUME UNCHANGED spent, batchRetryAllowance' \in Nat, batchRedirectAllowance' \in Nat,
             aborted' \in BOOLEAN, stop' \in BOOLEAN, Len(batch') = Len(batch),
             pc' \in {"sleep", "go"} => totalBytes < MaxTotalBytes
      PROVE  BudgetInv'
  BY <1>1, <1>2 DEF BudgetInv
<1>3. CASE Finish \/ CloseBatch \/ Dequeue \/ Deny \/ SleepRejects \/ Join \/ EndBatch \/ Drain
  <2>1. UNCHANGED <<spent, batchRetryAllowance, batchRedirectAllowance, aborted, batch>>
        /\ pc' \notin {"sleep", "go"}
    BY <1>3 DEF Finish, CloseBatch, Dequeue, Deny, SleepRejects, Join, EndBatch, Drain, LeaveOut,
                startVars, budgetVars
  <2>2. stop' \in {TRUE, stop}
    BY <1>3 DEF Finish, CloseBatch, Dequeue, Deny, SleepRejects, Join, EndBatch, Drain, LeaveOut
  <2>3. stop' \in BOOLEAN
    BY <2>2 DEF BudgetInv
  <2> QED
    BY <1>2, <2>1, <2>3 DEF BudgetInv
<1>4. CASE OpenBatch
  <2>1. /\ UNCHANGED <<spent, aborted, stop>> /\ pc' = "fill" /\ batch' = <<>> /\ batch = <<>>
        /\ batchRetryAllowance' = retriesRemaining /\ batchRedirectAllowance' = redirectsRemaining
    BY <1>4 DEF OpenBatch, budgetVars, LedgerInv
  <2> QED
    BY <1>2, <2>1 DEF BudgetInv
<1>5. CASE Allow
  <2>1. /\ UNCHANGED <<spent, batchRetryAllowance, batchRedirectAllowance, aborted, batch>>
        /\ pc' \in {"sleep", "go"} => Cap = "none"
        /\ stop' \in {TRUE, stop}
    BY <1>5 DEF Allow, LeaveOut, budgetVars
  <2>2. Cap = "none" => totalBytes < MaxTotalBytes
    BY Counted DEF Cap, BudgetInv
  <2>3. stop' \in BOOLEAN
    BY <2>1 DEF BudgetInv
  <2> QED
    BY <1>2, <2>1, <2>2, <2>3 DEF BudgetInv
<1>6. CASE Tick \/ Abort \/ UNCHANGED vars
  <2>1. UNCHANGED <<spent, batchRetryAllowance, batchRedirectAllowance, batch, stop, pc>>
    BY <1>6 DEF Tick, Abort, vars, startVars, budgetVars
  <2>2. aborted' \in {TRUE, aborted}
    BY <1>6 DEF Tick, Abort, vars
  <2>3. aborted' \in BOOLEAN
    BY <2>2 DEF BudgetInv
  <2> QED
    BY <1>2, <2>1, <2>3 DEF BudgetInv
<1>7. CASE \E i \in DOMAIN batch : Settle(i)
  <2>1. PICK i \in DOMAIN batch : Settle(i)
    BY <1>7
  <2>2. UNCHANGED <<spent, batchRetryAllowance, batchRedirectAllowance, aborted, stop, pc>>
    BY <2>1 DEF Settle, budgetVars
  <2>3. batch \in Seq(Run) /\ i \in 1..Len(batch)
    BY DEF LedgerInv
  <2>4. Len(batch') = Len(batch)
    <3>1. PICK run \in Run : batch' = [batch EXCEPT ![i] = run]
      BY <2>1, <2>3, SettledRun
    <3> QED
      BY <2>3, <3>1
  <2> QED
    BY <1>2, <2>2, <2>4 DEF BudgetInv
<1> QED
  BY <1>3, <1>4, <1>5, <1>6, <1>7, StartBudget, FoldBudget DEF Next, Step

LEMMA CountsHold == Spec => []CountInv
BY InitCounts, NextCounts, PTL DEF Spec

LEMMA LedgerHolds == Spec => [](LedgerInv /\ BudgetInv)
<1>1. Init => LedgerInv /\ BudgetInv
  BY InitLedger, InitBudget
<1>2. CountInv /\ (LedgerInv /\ BudgetInv) /\ [Next]_vars => (LedgerInv /\ BudgetInv)'
  BY NextLedger, NextBudget
<1> QED
  BY <1>1, <1>2, CountsHold, PTL DEF Spec

-----------------------------------------------------------------------------
LEMMA AtTheEnd ==
  ASSUME LedgerInv, pc = "done"
  PROVE  /\ \A u, d : Reached(Ahead \o queue, ledger, u, d) => Listed(ledger, u, d)
         /\ ledger \in Seq(LedgerEntry)
<1>1. batch = <<>> /\ queue = <<>> /\ ~InHand
  BY DEF LedgerInv, InHand
<1>2. Ahead = <<>>
  BY <1>1 DEF Ahead, Running
<1>3. Ahead \o queue = <<>> /\ DOMAIN <<>> = {}
  BY <1>1, <1>2
<1> QED
  BY <1>3, LedgerParts DEF Reached

LEMMA ListedMentioned ==
  ASSUME NEW u, NEW d, Listed(ledger, u, d)
  PROVE  \E j \in Mentioned(u) : ledger[j].depth <= d
BY DEF Listed, Mentioned

(* Every URL that was ever admitted is in the ledgers when the crawl is      *)
(* done, and none was visited twice, whatever the pages answer, link to and *)
(* how they settle, whichever cap is hit and whenever the caller aborts.    *)
THEOREM CrawlAccountsForPages == Spec => []EveryPageAccountedFor
<1>1. ASSUME LedgerInv PROVE EveryPageAccountedFor
  <2>1. Orderly(Ahead \o queue, seen, ledger) /\ \E e \in Nat : Level(Ahead \o queue, seen, ledger, e)
    BY <1>1, BooksAre DEF LedgerInv, Core, Sound, At
  <2>2. ASSUME pc = "done", NEW u \in seen PROVE Mentioned(u) # {}
    <3>1. PICK e \in Nat : Reached(Ahead \o queue, ledger, u, e)
      BY <2>1, <2>2 DEF Level
    <3>2. Listed(ledger, u, e)
      BY <1>1, <2>2, <3>1, AtTheEnd
    <3> QED
      BY <3>2, ListedMentioned
  <2>3. Visited = VisitedIn(ledger)
    BY DEF Visited, VisitedIn, In
  <2>4. \A i, j \in VisitedIn(ledger) : ledger[i].url = ledger[j].url => i = j
    BY <2>1 DEF Orderly
  <2> QED
    BY <2>2, <2>3, <2>4 DEF EveryPageAccountedFor
<1> QED
  BY <1>1, LedgerHolds, PTL

LEMMA LinksListed == LedgerInv => LinksAccountedFor
<1> SUFFICES ASSUME LedgerInv, pc = "done", NEW i \in In("accepted"),
                    NEW k \in DOMAIN Links[ledger[i].url], Links[ledger[i].url][k] \in InScope
             PROVE  \E j \in Mentioned(Links[ledger[i].url][k]) : ledger[j].depth <= ledger[i].depth + 1
  BY DEF LinksAccountedFor
<1>1. DoneFor(Ahead \o queue, ledger, DOMAIN ledger)
  BY BooksAre DEF LedgerInv, Core
<1>2. i \in DOMAIN ledger /\ ledger[i].state = "accepted"
  BY DEF In
<1>3. Reached(Ahead \o queue, ledger, Links[ledger[i].url][k], ledger[i].depth + 1)
  BY <1>1, <1>2 DEF DoneFor, Done
<1>4. Listed(ledger, Links[ledger[i].url][k], ledger[i].depth + 1)
  BY <1>3, AtTheEnd
<1> QED
  BY <1>4, ListedMentioned

(* A link in scope of an accepted page is in the ledgers, no deeper than one *)
(* hop from the page, although pages are fetched side by side and the depth *)
(* of a URL is that of its first discovery.                                 *)
THEOREM CrawlAccountsForLinks == Spec => []LinksAccountedFor
BY LinksListed, LedgerHolds, PTL

(* A crawl that reports ok has accepted every page in scope that its        *)
(* accepted pages link to.                                                  *)
THEOREM CrawlOkIsComplete == Spec => []OkMeansComplete
<1>1. ASSUME LedgerInv PROVE OkMeansComplete
  <2> SUFFICES ASSUME pc = "done", Status = "ok", NEW i \in In("accepted"),
                      NEW k \in DOMAIN Links[ledger[i].url], Links[ledger[i].url][k] \in InScope
               PROVE  \E j \in In("accepted") : ledger[j].url = Links[ledger[i].url][k]
    BY DEF OkMeansComplete
  <2>1. PICK j \in Mentioned(Links[ledger[i].url][k]) : TRUE
    BY <1>1, LinksListed DEF LinksAccountedFor
  <2>2. In("blocked") = {} /\ In("failed") = {} /\ In("unvisited") = {}
    BY DEF Status
  <2>3. /\ j \in DOMAIN ledger /\ ledger[j].url = Links[ledger[i].url][k]
        /\ ledger[j].state # "skipped"
    BY <2>1 DEF Mentioned
  <2>4. ledger[j].state \in {"accepted", "skipped", "blocked", "failed", "unvisited"}
    BY <1>1, <2>3, LedgerParts, InBook
  <2>5. ledger[j].state = "accepted"
    BY <2>2, <2>3, <2>4 DEF In
  <2> QED
    BY <2>3, <2>5 DEF In
<1> QED
  BY <1>1, LedgerHolds, PTL

(* The caps of normalizeLimits hold in every state: pages, pages side by    *)
(* side, the retries charged, frontier and depth exactly, bytes but for     *)
(* what the pages of one batch bring, and the retries made but for those of *)
(* the pages whose pipeline rejected.                                       *)
THEOREM CrawlKeepsCaps == Spec => []CapsKept
<1>1. ASSUME LedgerInv, BudgetInv, PaceInv, CountInv PROVE CapsKept
  <2>1. TypeOK
    <3>1. /\ queue \in Seq(Page) /\ seen \subseteq URLs /\ ledger \in Seq(LedgerEntry)
          /\ limit \in Reasons \cup {"none"}
      BY <1>1, LedgerParts, BooksAre, BookParts
    <3>2. pc \in {"top", "fill", "robots", "sleep", "go", "join", "fold", "drain", "done"}
      BY <1>1 DEF LedgerInv, Places
    <3>3. {now, planned, nextPageStartAt, retriesRemaining, redirectsRemaining, batchRetryAllowance,
           batchRedirectAllowance, totalBytes, retriesUsed, retried, uncharged, followed} \subseteq Nat
      BY <1>1 DEF PaceInv, BudgetInv, CountInv
    <3>4. {announced, aborted, stop} \subseteq BOOLEAN
      BY <1>1 DEF LedgerInv, BudgetInv
    <3>5. entry \in Page /\ starts \in Seq(Nat)
      BY <1>1 DEF LedgerInv, PaceInv
    <3> QED
      BY <3>1, <3>2, <3>3, <3>4, <3>5 DEF TypeOK
  <2>2. CountsKept
    BY <1>1, Numbers DEF PaceInv, CountInv, CountsKept, pipelineCalls
  <2>3. Len(queue) <= MaxFrontier
    BY <1>1, LedgerParts
  <2>4. \A i \in Visited : ledger[i].depth <= MaxDepth
    <3>1. Orderly(Ahead \o queue, seen, ledger)
      BY <1>1, BooksAre DEF LedgerInv, Core, Sound
    <3>2. Visited = VisitedIn(ledger)
      BY DEF Visited, VisitedIn, In
    <3> QED
      BY <3>1, <3>2 DEF Orderly
  <2>5. totalBytes < MaxTotalBytes + Concurrency * MaxPageBytes
    <3>1. Len(batch) \in Nat /\ Len(batch) * MaxPageBytes \in Nat
          /\ Concurrency * MaxPageBytes \in Nat /\ totalBytes \in Nat /\ MaxTotalBytes \in Nat
      <4>1. Len(batch) \in Nat
        BY <1>1 DEF LedgerInv
      <4> QED
        BY <1>1, <4>1, PageBytesAre, Counted, Fewer DEF BudgetInv
    <3>2. totalBytes + Len(batch) * MaxPageBytes < MaxTotalBytes + Concurrency * MaxPageBytes
      BY <1>1 DEF BudgetInv
    <3> QED
      BY <3>1, <3>2
  <2> QED
    BY <2>1, <2>2, <2>3, <2>4, <2>5 DEF CapsKept
<1> QED
  BY <1>1, LedgerHolds, Paces, CountsHold, PTL

=============================================================================
