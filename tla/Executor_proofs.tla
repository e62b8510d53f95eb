--------------------------- MODULE Executor_proofs ---------------------------
(***************************************************************************)
(* What holds in every state of the executor of core.mjs, whatever the     *)
(* job, the registry, the pages, the provider and the store do, and        *)
(* whenever a write fails or the process is killed.                        *)
(*                                                                         *)
(* Two facts carry the proof.  Each chain of awaits has one operation of   *)
(* the store in flight at most, and where the chain stands says which:     *)
(* MainHands and PageHands.  And what a chain remembers of the store is    *)
(* there: PageInv, RefsInv, SearchInv.  From these, and from where the     *)
(* dispatch stands, a manifest can be followed from its draft to the disk. *)
(*                                                                         *)
(* The route of a job that runs elsewhere has its own invariant.  What is  *)
(* planned, for the route and for a search, is a recursive function of a   *)
(* list of any length: it is reasoned about by induction over a set.       *)
(*                                                                         *)
(* Last, the executor is a caller of the store, so that what is proved of  *)
(* EvidenceStore under arbitrary callers holds of it too.                  *)
(***************************************************************************)
EXTENDS Executor, EvidenceStore_proofs, WellFoundedInduction, FiniteSetTheorems, TLAPS

-----------------------------------------------------------------------------
(* Induction over the naturals, for a set.                                  *)
LEMMA Least ==
  ASSUME NEW T, T \subseteq Nat, T # {}
  PROVE  \E n \in T : \A m \in T : n <= m
<1>1. IsWellFoundedOn(OpToRel(<, Nat), Nat)
  BY NatLessThanWellFounded
<1>2. PICK n \in T : \A m \in T : ~(<<m, n>> \in OpToRel(<, Nat))
  BY <1>1, WFMin
<1>3. OpToRel(<, Nat) = {ss \in Nat \X Nat : ss[1] < ss[2]}
  BY DEF OpToRel
<1>4. \A m \in T : ~(m < n)
  BY <1>2, <1>3
<1> QED
  BY <1>4

(* What is true of 0 and of every successor is true: a set of naturals that *)
(* holds both is all of them.                                               *)
LEMMA Induction ==
  ASSUME NEW G, 0 \in G, \A n \in Nat : n \in G => n + 1 \in G
  PROVE  Nat \subseteq G
<1> SUFFICES ASSUME NEW k \in Nat, k \notin G PROVE FALSE
  OBVIOUS
<1>1. PICK n \in Nat \ G : \A m \in Nat \ G : n <= m
  BY Least
<1>2. n - 1 \in Nat /\ n - 1 \in G
  BY <1>1
<1> QED
  BY <1>1, <1>2

KeptNext(s, I, f, n) ==
  IF n = 0 THEN <<>> ELSE IF n \in I THEN Append(f[n - 1], s[n]) ELSE f[n - 1]

KeptUpTo(s, I, m, f) == f = [n \in 0..m |-> KeptNext(s, I, f, n)]

LEMMA KeptExists == ASSUME NEW s, NEW I, NEW m \in Nat PROVE \E f : KeptUpTo(s, I, m, f)
<1> DEFINE G == {k \in Nat : \E f : KeptUpTo(s, I, k, f)}
<1>1. 0 \in G
  <2> DEFINE f == [n \in 0..0 |-> <<>>]
  <2>1. KeptUpTo(s, I, 0, f)
    BY DEF KeptUpTo, KeptNext
  <2> QED
    BY <2>1
<1>2. ASSUME NEW k \in Nat, k \in G PROVE k + 1 \in G
  <2>1. PICK f : KeptUpTo(s, I, k, f)
    BY <1>2
  <2> DEFINE g == [n \in 0..(k + 1) |-> IF n \in 0..k THEN f[n] ELSE KeptNext(s, I, f, n)]
  <2>2. \A n \in 0..(k + 1) : g[n] = KeptNext(s, I, f, n)
    BY <2>1 DEF KeptUpTo
  <2>3. \A n \in 0..(k + 1) : n # 0 => g[n - 1] = f[n - 1]
    OBVIOUS
  <2>4. \A n \in 0..(k + 1) : KeptNext(s, I, g, n) = KeptNext(s, I, f, n)
    <3> HIDE DEF g
    <3> QED
      BY <2>3 DEF KeptNext
  <2>5. KeptUpTo(s, I, k + 1, g)
    BY <2>2, <2>4 DEF KeptUpTo
  <2> HIDE DEF g
  <2> QED
    BY <2>5
<1> HIDE DEF G
<1>3. Nat \subseteq G
  BY <1>1, <1>2, Induction
<1> QED
  BY <1>3 DEF G

(* A filtered sequence is a sequence, of elements from the places it keeps. *)
LEMMA FilteredSeq ==
  ASSUME NEW S, NEW s \in Seq(S), NEW I
  PROVE  Filtered(s, I) \in Seq({s[i] : i \in I \cap DOMAIN s})
<1> DEFINE K == {s[i] : i \in I \cap DOMAIN s}
<1> DEFINE f == CHOOSE f : KeptUpTo(s, I, Len(s), f)
<1>1. Len(s) \in Nat /\ DOMAIN s = 1..Len(s)
  OBVIOUS
<1>2. KeptUpTo(s, I, Len(s), f)
  BY <1>1, KeptExists
<1>3. Filtered(s, I) = f[Len(s)]
  BY DEF Filtered, KeptUpTo, KeptNext
<1> HIDE DEF f
<1>4. \A n \in 0..Len(s) : f[n] = KeptNext(s, I, f, n)
  BY <1>2 DEF KeptUpTo
<1> DEFINE G == {k \in Nat : k <= Len(s) => f[k] \in Seq(K)}
<1>5. 0 \in G
  <2>1. 0 \in 0..Len(s) /\ <<>> \in Seq(K)
    BY <1>1
  <2>2. f[0] = <<>>
    BY <1>4, <2>1 DEF KeptNext
  <2> QED
    BY <2>1, <2>2
<1>6. ASSUME NEW k \in Nat, k \in G PROVE k + 1 \in G
  <2> SUFFICES ASSUME k + 1 <= Len(s) PROVE f[k + 1] \in Seq(K)
    OBVIOUS
  <2>1. f[k] \in Seq(K) /\ k + 1 \in 0..Len(s) /\ k + 1 \in DOMAIN s
    BY <1>1, <1>6
  <2>2. f[k + 1] = IF k + 1 \in I THEN Append(f[k], s[k + 1]) ELSE f[k]
    <3>1. k + 1 # 0 /\ k + 1 - 1 = k
      OBVIOUS
    <3> QED
      BY <1>4, <2>1, <3>1 DEF KeptNext
  <2>3. k + 1 \in I => s[k + 1] \in K
    BY <2>1
  <2> HIDE DEF K
  <2> QED
    BY <2>1, <2>2, <2>3
<1> HIDE DEF G
<1>7. Nat \subseteq G
  BY <1>5, <1>6, Induction
<1> QED
  BY <1>1, <1>3, <1>7 DEF G

(* A plan is a sequence of adapters of the registry.                        *)
LEMMA CandidatesPlanned ==
  ASSUME NEW task, NEW adapters \in Registries
  PROVE  Candidates(task, adapters) \in Seq(Capability)
<1> DEFINE I == {i \in DOMAIN adapters : Planned(task, adapters[i]) /\ Eligible(task, adapters[i])}
<1>1. adapters \in Seq(Capability)
  BY RouteAssumption
<1>2. Filtered(adapters, I) \in Seq({adapters[i] : i \in I \cap DOMAIN adapters})
  BY <1>1, FilteredSeq
<1>3. {adapters[i] : i \in I \cap DOMAIN adapters} \subseteq Capability
  BY <1>1
<1> HIDE DEF I
<1> QED
  BY <1>2, <1>3 DEF Candidates, I

Try == [at: Nat, outcome: Outcome]

RouteShape ==
  /\ route = [pc |-> route.pc, candidates |-> route.candidates, at |-> route.at,
              retries |-> route.retries, runs |-> route.runs, status |-> route.status]
  /\ route.pc \in {"off", "run", "sleep", "done"}
  /\ route.at \in Nat /\ route.retries \in Nat
  /\ route.runs \in Seq(Try)

Under == route.pc \in {"off", "run", "sleep"}

(* The last runs are the tries of the adapter at hand.                      *)
TriesAtEnd ==
  LET n == Len(route.runs) IN
  /\ route.retries <= Retries /\ route.retries <= n
  /\ \A i \in 1..n : IF i > n - route.retries THEN route.runs[i].at = route.at
                                              ELSE route.runs[i].at < route.at
  /\ n = 0 => route.at = 1
  /\ n > 0 => route.runs[n].at \in {route.at, route.at - 1}

LastResumes ==
  LET last == route.runs[Len(route.runs)] IN
  route.runs # <<>> =>
    /\ Resumable(last.outcome)
    /\ last.outcome.code = "rate_limited" => last.at = route.at

(* While the route is under way, the adapter at hand is one of the plan.    *)
AtHand ==
  /\ route.pc = "off" => route.runs = <<>> /\ route.candidates = <<>>
  /\ route.pc \in {"run", "sleep"} =>
       route.candidates \in Seq(Capability) /\ route.at \in 1..Len(route.candidates)

RouteInv ==
  /\ RouteShape
  /\ Under => TriesAtEnd /\ LastResumes
  /\ AtHand
  /\ StatusTells
  /\ VerdictsAreFinal
  /\ TriesBounded

-----------------------------------------------------------------------------
LEMMA InitRouteInv == RouteInit => RouteInv
<1> SUFFICES ASSUME RouteInit PROVE RouteInv
  OBVIOUS
<1>1. route.runs = <<>> /\ route.at = 1 /\ route.retries = 0 /\ route.pc = "off"
  BY DEF RouteInit
<1>2. RouteShape
  BY <1>1 DEF RouteInit, RouteShape
<1>3. TriesAtEnd /\ LastResumes
  BY <1>1, RouteAssumption DEF TriesAtEnd, LastResumes
<1>4. VerdictsAreFinal /\ TriesBounded
  BY <1>1 DEF VerdictsAreFinal, TriesBounded
<1> QED
  BY <1>2, <1>3, <1>4 DEF RouteInv, RouteInit, AtHand, StatusTells

(* The transition table lets a route go on only after an outcome within its *)
(* contract, and after a rate limit only with the same adapter.             *)
LEMMA Onwards ==
  ASSUME NEW o \in Outcome, NEW hasNext \in BOOLEAN, NEW used \in Nat
  PROVE  /\ Transition(o, hasNext, used) = "same" => Resumable(o) /\ used < Retries
         /\ Transition(o, hasNext, used) = "next" =>
              Resumable(o) /\ o.code # "rate_limited" /\ hasNext
  BY DEF Transition, Onward, Resumable, InContract, KindOf, Outcome, Codes, Kinds

(* The tries before those of the adapter at hand are of earlier candidates. *)
LEMMA EarlierTries ==
  ASSUME RouteShape, TriesAtEnd, NEW i \in 1..Len(route.runs)
  PROVE  /\ route.runs[i].at \in Nat /\ route.runs[i].at <= route.at
         /\ i <= Len(route.runs) - route.retries => route.runs[i].at < route.at
<1>1. route.runs[i] \in Try /\ route.at \in Nat /\ route.retries \in Nat /\ Len(route.runs) \in Nat
  BY DEF RouteShape
<1>2. route.runs[i].at \in Nat
  BY <1>1 DEF Try
<1>3. IF i > Len(route.runs) - route.retries THEN route.runs[i].at = route.at
                                            ELSE route.runs[i].at < route.at
  BY DEF TriesAtEnd
<1> QED
  BY <1>1, <1>2, <1>3

(* One more run keeps what the runs so far had.                             *)
LEMMA NotedKeeps ==
  ASSUME RouteInv, route.pc = "run", NEW o \in Outcome,
         route'.runs = Append(route.runs, [at |-> route.at, outcome |-> o])
  PROVE  /\ VerdictsAreFinal'
         /\ TriesBounded'
         /\ route'.runs \in Seq(Try) /\ Len(route'.runs) = Len(route.runs) + 1
         /\ \A i \in 1..Len(route.runs) : route'.runs[i] = route.runs[i]
         /\ route'.runs[Len(route.runs) + 1] = [at |-> route.at, outcome |-> o]
<1> DEFINE n == Len(route.runs)
<1> DEFINE e == [at |-> route.at, outcome |-> o]
<1>1. e \in Try /\ e.at = route.at /\ e.outcome = o
  BY DEF RouteInv, RouteShape, Try
<1>2. /\ route'.runs \in Seq(Try) /\ Len(route'.runs) = n + 1 /\ n \in Nat
      /\ \A i \in 1..n : route'.runs[i] = route.runs[i]
      /\ route'.runs[n + 1] = e
  <2>1. route.runs \in Seq(Try)
    BY DEF RouteInv, RouteShape
  <2> QED
    BY <1>1, <2>1
<1>3. TriesAtEnd /\ LastResumes /\ VerdictsAreFinal /\ TriesBounded
  BY DEF RouteInv, Under
<1>4. route.runs # <<>> <=> n > 0
  BY DEF RouteInv, RouteShape
<1>5. VerdictsAreFinal'
  <2>1. \A i \in 1..n : /\ Resumable(route'.runs[i].outcome)
                        /\ route'.runs[i].outcome.code = "rate_limited" =>
                             route'.runs[i + 1].at = route'.runs[i].at
    <3> SUFFICES ASSUME NEW i \in 1..n
                 PROVE  /\ Resumable(route'.runs[i].outcome)
                        /\ route'.runs[i].outcome.code = "rate_limited" =>
                             route'.runs[i + 1].at = route'.runs[i].at
      OBVIOUS
    <3>1. CASE i < n
      <4>1. i \in 1..(n - 1) /\ i + 1 \in 1..n
        BY <3>1, <1>2
      <4>2. route'.runs[i] = route.runs[i] /\ route'.runs[i + 1] = route.runs[i + 1]
        BY <4>1, <1>2
      <4> QED
        BY <4>1, <4>2, <1>3 DEF VerdictsAreFinal
    <3>2. CASE i = n
      <4>1. route'.runs[i] = route.runs[n] /\ route'.runs[i + 1] = e
        BY <3>2, <1>2
      <4> QED
        BY <4>1, <1>1, <1>2, <1>3, <1>4, <3>2 DEF LastResumes
    <3>3. i < n \/ i = n
      BY <1>2
    <3> QED
      BY <3>1, <3>2, <3>3
  <2> QED
    BY <2>1, <1>2 DEF VerdictsAreFinal
<1>6. TriesBounded'
  <2> DEFINE runs == route'.runs
  <2>1. Retries \in Nat /\ DOMAIN runs = 1..(n + 1) /\ DOMAIN route.runs = 1..n
    BY <1>2, RouteAssumption DEF RouteInv, RouteShape
  <2>2. ASSUME NEW i \in DOMAIN runs, i + Retries + 1 \in DOMAIN runs
        PROVE  runs[i + Retries + 1].at > runs[i].at
    <3>1. i \in 1..n /\ runs[i] = route.runs[i]
      BY <2>1, <2>2, <1>2
    <3>2. CASE i + Retries + 1 \in 1..n
      BY <3>1, <3>2, <2>1, <1>2, <1>3 DEF TriesBounded
    <3>3. CASE i + Retries + 1 = n + 1
      <4>1. i <= n - route.retries /\ route.at \in Nat
        BY <3>3, <1>2, <1>3, <2>1 DEF TriesAtEnd, RouteInv, RouteShape
      <4>2. route.runs[i].at < route.at /\ route.runs[i].at \in Nat
        BY <4>1, <3>1, <1>3, EarlierTries DEF RouteInv
      <4> QED
        BY <4>1, <4>2, <3>1, <3>3, <1>1, <1>2
    <3> QED
      BY <3>2, <3>3, <2>1, <2>2, <1>2
  <2>3. runs[1].at = 1
    <3>1. CASE n = 0
      BY <3>1, <1>1, <1>2, <1>3 DEF TriesAtEnd
    <3>2. CASE n > 0
      BY <3>2, <1>2, <1>3, <1>4 DEF TriesBounded
    <3> QED
      BY <3>1, <3>2, <1>2
  <2>4. ASSUME NEW i \in 1..n PROVE runs[i + 1].at \in {runs[i].at, runs[i].at + 1}
    <3>1. CASE i < n
      <4>1. i \in 1..(n - 1) /\ i + 1 \in 1..n
        BY <3>1, <2>4, <1>2
      <4> QED
        BY <4>1, <1>2, <1>3 DEF TriesBounded
    <3>2. CASE i = n
      <4>1. runs[i] = route.runs[n] /\ runs[i + 1].at = route.at
        BY <3>2, <1>1, <1>2
      <4>2. route.runs[n].at \in {route.at, route.at - 1} /\ route.at \in Nat
        BY <3>2, <1>2, <1>3 DEF TriesAtEnd, RouteInv, RouteShape
      <4> QED
        BY <4>1, <4>2
    <3> QED
      BY <3>1, <3>2, <1>2, <2>4
  <2> QED
    BY <2>2, <2>3, <2>4, <1>2 DEF TriesBounded
<1> QED
  BY <1>2, <1>5, <1>6

-----------------------------------------------------------------------------
(* What the table stops with, and why.                                      *)
LEMMA Stops ==
  ASSUME NEW o \in Outcome, NEW hasNext \in BOOLEAN, NEW used \in Nat,
         Transition(o, hasNext, used) \notin {"same", "next"}
  PROVE  \/ Transition(o, hasNext, used) = "ok" /\ InContract(o) /\ o.code = "ok"
         \/ /\ Transition(o, hasNext, used) = "blocked"
            /\ InContract(o) /\ o.code \in {"denied", "rate_limited"}
         \/ /\ Transition(o, hasNext, used) = "exhausted" /\ InContract(o)
            /\ \/ o.code = "missing"
               \/ ~hasNext /\ o.code \in {"skipped", "inadequate", "transient"}
         \/ /\ Transition(o, hasNext, used) = "internal_error"
            /\ ~InContract(o) \/ o.code = "broken"
BY DEF Transition, Onward, InContract, KindOf, Outcome, Codes, Kinds

LEMMA RunKeeps == ASSUME RouteInv, NEW o \in Outcome, RunAdapter(o) PROVE RouteInv'
<1> DEFINE said == Transition(o, HasNext, route.retries)
<1> DEFINE n == Len(route.runs)
<1> DEFINE noted == Append(route.runs, [at |-> route.at, outcome |-> o])
<1>0. /\ route.pc = "run" /\ RouteShape /\ TriesAtEnd /\ LastResumes
      /\ route.at \in Nat /\ route.retries \in Nat /\ n \in Nat
      /\ route.candidates \in Seq(Capability) /\ route.at \in 1..Len(route.candidates)
  BY DEF RouteInv, Under, RunAdapter, RouteShape, AtHand
<1>1. /\ said = "same" => Resumable(o) /\ route.retries < Retries
      /\ said = "next" => Resumable(o) /\ o.code # "rate_limited" /\ HasNext
  <2>1. HasNext \in BOOLEAN
    BY DEF HasNext
  <2> QED
    BY <1>0, <2>1, Onwards
<1>2. CASE said = "same"
  <2>1. route' = [route EXCEPT !.pc = "sleep", !.retries = @ + 1, !.runs = noted]
    BY <1>2 DEF RunAdapter
  <2>2. /\ route'.pc = "sleep" /\ route'.retries = route.retries + 1
        /\ route'.runs = noted /\ route'.at = route.at /\ RouteShape'
    <3>1. noted \in Seq(Try)
      BY <1>0 DEF RouteShape, Try
    <3> HIDE DEF noted
    <3>2. /\ route'.pc \in {"off", "run", "sleep", "done"} /\ route'.runs = noted
          /\ route'.candidates = route.candidates /\ route'.status = route.status
      BY <2>1, <1>0 DEF RouteShape
    <3>3. route'.at \in Nat /\ route'.retries \in Nat
      BY <2>1, <1>0 DEF RouteShape
    <3>4. route' = [pc |-> route'.pc, candidates |-> route'.candidates, at |-> route'.at,
                    retries |-> route'.retries, runs |-> route'.runs, status |-> route'.status]
      BY <2>1, <1>0 DEF RouteShape
    <3> QED
      BY <2>1, <3>1, <3>2, <3>3, <3>4, <1>0 DEF RouteShape
  <2>3. /\ VerdictsAreFinal' /\ TriesBounded' /\ Len(route'.runs) = n + 1
        /\ \A i \in 1..n : route'.runs[i] = route.runs[i]
        /\ route'.runs[n + 1] = [at |-> route.at, outcome |-> o]
    BY <1>0, <2>2, NotedKeeps
  <2>4. TriesAtEnd'
    BY <1>0, <1>1, <1>2, <2>2, <2>3, RouteAssumption DEF TriesAtEnd
  <2>5. LastResumes'
    BY <1>0, <1>1, <1>2, <2>2, <2>3 DEF LastResumes
  <2>6. AtHand' /\ StatusTells'
    BY <2>1, <2>2, <1>0 DEF AtHand, StatusTells, RouteShape
  <2> QED
    BY <2>2, <2>3, <2>4, <2>5, <2>6 DEF RouteInv
<1>3. CASE said = "next"
  <2>1. route' = [route EXCEPT !.at = @ + 1, !.retries = 0, !.runs = noted]
    BY <1>3 DEF RunAdapter
  <2>2. /\ route'.pc = "run" /\ route'.retries = 0
        /\ route'.runs = noted /\ route'.at = route.at + 1 /\ RouteShape'
    <3>1. noted \in Seq(Try)
      BY <1>0 DEF RouteShape, Try
    <3> HIDE DEF noted
    <3>2. /\ route'.pc \in {"off", "run", "sleep", "done"} /\ route'.runs = noted
          /\ route'.candidates = route.candidates /\ route'.status = route.status
      BY <2>1, <1>0 DEF RouteShape
    <3>3. route'.at \in Nat /\ route'.retries \in Nat
      BY <2>1, <1>0 DEF RouteShape
    <3>4. route' = [pc |-> route'.pc, candidates |-> route'.candidates, at |-> route'.at,
                    retries |-> route'.retries, runs |-> route'.runs, status |-> route'.status]
      BY <2>1, <1>0 DEF RouteShape
    <3> QED
      BY <2>1, <3>1, <3>2, <3>3, <3>4, <1>0 DEF RouteShape
  <2>3. /\ VerdictsAreFinal' /\ TriesBounded' /\ Len(route'.runs) = n + 1
        /\ \A i \in 1..n : route'.runs[i] = route.runs[i]
        /\ route'.runs[n + 1] = [at |-> route.at, outcome |-> o]
    BY <1>0, <2>2, NotedKeeps
  <2>4. TriesAtEnd'
    <3>1. \A i \in 1..n : route.runs[i].at \in Nat /\ route.runs[i].at <= route.at
      BY <1>0, EarlierTries
    <3>2. \A i \in 1..(n + 1) : route'.runs[i].at < route'.at
      BY <3>1, <1>0, <2>2, <2>3
    <3> QED
      BY <3>2, <1>0, <2>2, <2>3, RouteAssumption DEF TriesAtEnd
  <2>5. LastResumes'
    BY <1>0, <1>1, <1>3, <2>2, <2>3 DEF LastResumes
  <2>6. AtHand' /\ StatusTells'
    BY <2>1, <2>2, <1>0, <1>1, <1>3 DEF AtHand, StatusTells, RouteShape, HasNext
  <2> QED
    BY <2>2, <2>3, <2>4, <2>5, <2>6 DEF RouteInv
<1>4. CASE said \notin {"same", "next"}
  <2>1. route' = [Stop(said) EXCEPT !.runs = noted]
    BY <1>4 DEF RunAdapter
  <2>2. /\ route'.pc = "done" /\ route'.runs = noted /\ RouteShape'
        /\ route'.status = said /\ route'.candidates = route.candidates
    <3>1. noted \in Seq(Try)
      BY <1>0 DEF RouteShape, Try
    <3> QED
      BY <2>1, <3>1, <1>0 DEF RouteShape, Stop
  <2>3. /\ VerdictsAreFinal' /\ TriesBounded' /\ Len(route'.runs) = n + 1
        /\ route'.runs[n + 1] = [at |-> route.at, outcome |-> o]
    BY <1>0, <2>2, NotedKeeps
  <2>4. StatusTells'
    <3>1. HasNext \in BOOLEAN /\ (~HasNext => route.at = Len(route.candidates))
      BY <1>0 DEF HasNext
    <3>2. /\ n + 1 > 0 /\ [at |-> route.at, outcome |-> o].outcome = o
          /\ [at |-> route.at, outcome |-> o].at = route.at
      BY <1>0
    <3> HIDE DEF said, n, noted
    <3>3. \/ said = "ok" /\ InContract(o) /\ o.code = "ok"
          \/ said = "blocked" /\ InContract(o) /\ o.code \in {"denied", "rate_limited"}
          \/ /\ said = "exhausted" /\ InContract(o)
             /\ \/ o.code = "missing"
                \/ ~HasNext /\ o.code \in {"skipped", "inadequate", "transient"}
          \/ said = "internal_error" /\ (~InContract(o) \/ o.code = "broken")
      BY <1>0, <1>4, <3>1, Stops DEF said
    <3> QED
      BY <2>2, <2>3, <3>1, <3>2, <3>3 DEF StatusTells
  <2> QED
    BY <2>2, <2>3, <2>4 DEF RouteInv, Under, AtHand
<1> QED
  BY <1>2, <1>3, <1>4

(* The steps that run nothing.                                              *)
LEMMA OthersKeep ==
  ASSUME RouteInv,
         NoAdapter \/ Slept \/ \E task \in Job, adapters \in Registries : StartRoute(task, adapters)
  PROVE  RouteInv'
<1>1. /\ RouteShape /\ VerdictsAreFinal /\ TriesBounded /\ (Under => TriesAtEnd /\ LastResumes)
      /\ AtHand
  BY DEF RouteInv
<1>2. /\ RouteShape'
      /\ route'.runs = route.runs /\ route'.at = route.at /\ route'.retries = route.retries
      /\ Under
  BY <1>1 DEF NoAdapter, Slept, StartRoute, Stop, RouteShape, Under
<1>3. VerdictsAreFinal' /\ TriesBounded' /\ TriesAtEnd' /\ LastResumes'
  BY <1>1, <1>2 DEF VerdictsAreFinal, TriesBounded, TriesAtEnd, LastResumes
<1>4. CASE NoAdapter \/ Slept
  <2>1. \/ route' = Stop("internal_error")
        \/ route' = [route EXCEPT !.pc = "run"] /\ route.pc = "sleep"
    BY <1>4 DEF NoAdapter, Slept
  <2>2. AtHand'
    BY <2>1, <1>1, <1>2 DEF AtHand, Stop, RouteShape
  <2>3. CASE route' = Stop("internal_error")
    <3>1. route'.pc = "done" /\ route'.status = "internal_error"
      BY <2>3, <1>1 DEF Stop, RouteShape
    <3>2. Len(route'.runs) > 0 => Resumable(route'.runs[Len(route'.runs)].outcome)
      BY <1>1, <1>2 DEF LastResumes, RouteShape
    <3> QED
      BY <2>2, <3>1, <3>2, <1>2, <1>3 DEF RouteInv, StatusTells
  <2>4. CASE route' = [route EXCEPT !.pc = "run"] /\ route.pc = "sleep"
    <3>1. route'.pc = "run"
      BY <2>4, <1>1 DEF RouteShape
    <3> QED
      BY <2>2, <3>1, <1>2, <1>3 DEF RouteInv, StatusTells
  <2> QED
    BY <2>1, <2>3, <2>4
<1>5. ASSUME NEW task \in Job, NEW adapters \in Registries, StartRoute(task, adapters)
      PROVE  RouteInv'
  <2> DEFINE candidates == Candidates(task, adapters)
  <2>1. candidates \in Seq(Capability)
    BY CandidatesPlanned
  <2> HIDE DEF candidates
  <2>2. /\ route.pc = "off" /\ route.runs = <<>> /\ route.candidates = <<>>
        /\ route' = IF candidates = <<>> THEN Stop("exhausted")
                    ELSE [route EXCEPT !.pc = "run", !.candidates = candidates]
    BY <1>1, <1>5 DEF AtHand, StartRoute, candidates
  <2>3. route.at = 1
    BY <1>1, <2>2 DEF TriesAtEnd, Under
  <2>4. CASE candidates = <<>>
    <3>1. route'.pc = "done" /\ route'.status = "exhausted" /\ route'.candidates = <<>>
      BY <2>2, <2>4, <1>1 DEF Stop, RouteShape
    <3> QED
      BY <3>1, <2>2, <1>2, <1>3 DEF RouteInv, AtHand, StatusTells
  <2>5. CASE candidates # <<>>
    <3>1. route'.pc = "run" /\ route'.candidates = candidates
      BY <2>2, <2>5, <1>1 DEF RouteShape
    <3>2. 1 \in 1..Len(candidates)
      BY <2>1, <2>5
    <3> QED
      BY <3>1, <3>2, <2>1, <2>3, <1>2, <1>3 DEF RouteInv, AtHand, StatusTells
  <2> QED
    BY <2>4, <2>5
<1> QED
  BY <1>4, <1>5

LEMMA NextRouteInv == RouteInv /\ [RouteNext]_route => RouteInv'
<1> SUFFICES ASSUME RouteInv, [RouteNext]_route PROVE RouteInv'
  OBVIOUS
<1>1. CASE \E o \in Outcome : RunAdapter(o)
  BY <1>1, RunKeeps
<1>2. CASE NoAdapter \/ Slept \/ \E task \in Job, adapters \in Registries : StartRoute(task, adapters)
  BY <1>2, OthersKeep
<1>3. CASE UNCHANGED route
  BY <1>3 DEF RouteInv, RouteShape, Under, AtHand, StatusTells, TriesAtEnd, LastResumes, VerdictsAreFinal, TriesBounded
<1> QED
  BY <1>1, <1>2, <1>3 DEF RouteNext, RouteStep

-----------------------------------------------------------------------------
(* Whatever the registry, the adapters and the retry limit: nothing runs    *)
(* after a final outcome, and no rate limit is walked around.               *)
THEOREM RouteVerdicts == RouteSpec => []VerdictsAreFinal
<1>1. RouteInv => VerdictsAreFinal
  BY DEF RouteInv
<1> QED
  BY <1>1, InitRouteInv, NextRouteInv, PTL DEF RouteSpec

(* Whatever the registry, the adapters and the retry limit: each candidate  *)
(* has its turn in order and no more tries than its retries and one.        *)
THEOREM RouteTries == RouteSpec => []TriesBounded
<1>1. RouteInv => TriesBounded
  BY DEF RouteInv
<1> QED
  BY <1>1, InitRouteInv, NextRouteInv, PTL DEF RouteSpec

(* Whatever the registry, the adapters and the retry limit: the status of a *)
(* route can be read off its runs.                                          *)
THEOREM RouteStatus == RouteSpec => []StatusTells
<1>1. RouteInv => StatusTells
  BY DEF RouteInv
<1> QED
  BY <1>1, InitRouteInv, NextRouteInv, PTL DEF RouteSpec

-----------------------------------------------------------------------------
(* Who holds what.  Each chain of awaits has one operation of the store in  *)
(* flight at most, and where the chain stands says which.                   *)

MainTask ==
  IF executor = "recovering" THEN "report"
  ELSE IF "job" \in {pc, search.pc} THEN "job"
  ELSE IF "journal" \in {pc, search.pc} THEN "journal"
  ELSE IF "sealing" \in {pc, search.pc} THEN "manifest"
  ELSE IF pc = "ledgers" THEN "object"
  ELSE IF pc = "publishing" THEN "output"
  ELSE "none"

PageTask(p) ==
  IF page[p].pc \in {"starting", "finishing", "noting", "reparsing", "skipping"} THEN "line"
  ELSE IF page[p].pc \in {"capturing", "deriving", "parsing"} THEN "object"
  ELSE "none"

InStore(o) == o \in Objects /\ objects[o] # "absent"

(* What a recovery writes was found before the run of this process began.   *)
ReportOK(v) ==
  /\ v \in Report /\ Run \notin v.incomplete \cup v.corrupt
  /\ Earlier \in jobs => Earlier \in v.incomplete

MainHands ==
  LET value == op[Main].value IN
  /\ op[Main].file = MainTask
  /\ MainTask = "report" => ReportOK(value)
  /\ MainTask \in {"job", "journal"} => value = Run
  /\ MainTask = "manifest" => value = IF executor = "search" THEN SearchManifest(Run) ELSE draft
  /\ MainTask = "object" => value = Ledgers
  /\ MainTask = "output" => value = [run |-> Run, object |-> draft.artifact]

PageHands(p) ==
  LET value == op[p].value IN
  /\ op[p].file = PageTask(p)
  /\ PageTask(p) = "line" => value.run = Run /\ \A h \in value.refs : InStore(h)
  /\ page[p].pc = "capturing" => value \in Bodies

-----------------------------------------------------------------------------
(* Where the dispatch stands, and what it has started.                      *)
DispatchInv ==
  /\ job \in Jobs \cup {Health} /\ registry \in Registries
  /\ executor \in {"dispatch", "recovering", "route", "returned"} \cup CommandKinds
  /\ executor = "recovering" => UsesStore
  /\ executor \in CommandKinds =>
       job # Health /\ ~job.explain /\ job.kind = executor /\ (executor = "search" \/ Local)
  /\ search.pc # "off" => executor = "search"
  /\ pc # "idle" => executor \in {"extract", "crawl"} /\ command = executor
  /\ pc = "idle" => command = "none"

(* Before a command has begun its run, the store is as it was found, but    *)
(* for the report.                                                          *)
FilesInv ==
  /\ executor = "dispatch" =>
       /\ report = None /\ manifests[Earlier] = None
       /\ ~journals[Earlier].torn /\ journals[Earlier].refs = {}
  /\ executor \notin CommandKinds => Run \notin jobs /\ ~journals[Run].exists
  /\ executor \notin {"extract", "crawl", "search"} => manifests[Run] = None
  /\ pc \in {"idle", "job", "opened", "journal", "pages", "ledgers", "drafting", "seal", "sealing"}
     /\ executor # "search" => manifests[Run] = None
  /\ search.pc # "done" /\ executor = "search" => manifests[Run] = None
  /\ search.pc \in {"beginning", "job", "opened", "journal", "children", "sealing"} =>
       search.answer # <<>>
  /\ Run \in jobs => HasReason
  /\ report # None => Run \notin report.incomplete \cup report.corrupt
  /\ executor \in CommandKinds /\ ~faults /\ Earlier \in jobs =>
       report # None /\ Earlier \in report.incomplete

-----------------------------------------------------------------------------
(* The chains of the pages.                                                 *)
PageInv(p) ==
  /\ page[p].pc = "idle" => page[p] = Unstarted
  /\ p \notin batch => page[p].pc \in {"idle", "settled"}
  /\ p \in batch => page[p].pc # "idle"
  /\ page[p].source \in Bodies \cup {None}
  /\ page[p].source # None => InStore(page[p].source)
  /\ page[p].pc = "captured" => page[p].source # None
  /\ page[p].outcome = "accepted" =>
       page[p].artifact # None /\ page[p].pc \in {"noting", "reparsing", "settled"}
  /\ page[p].pc = "settled" /\ p \notin batch => Found(p) \subseteq collected
  /\ command = "extract" => \A q \in Pages : page[p].pc # "idle" /\ page[q].pc # "idle" => p = q

Drafted == {"seal", "sealing", "publish", "publishing", "done"}

MainInv ==
  /\ pc \in {"idle", "job", "opened", "journal", "pages", "ledgers", "drafting", "threw", "dead"}
            \cup Drafted
  /\ pc # "pages" => batch = {}
  /\ pc \in {"idle", "job", "opened", "journal", "dead"} => \A p \in Pages : page[p] = Unstarted
  /\ pc \in Drafted =>
       /\ draft # None /\ draft.run = Run /\ draft.artifacts = collected
       /\ command = "crawl" => draft.artifact = Ledgers
       /\ command = "extract" /\ draft.status = "ok" => draft.artifact # None
  /\ pc \in {"publish", "publishing"} => command = "crawl" \/ draft.status = "ok"
  /\ pc \in {"publish", "publishing", "done"} => Sealed
  /\ executor # "search" /\ Sealed /\ pc # "dead" =>
       manifests[Run] = draft /\ draft.artifacts = collected
  /\ pc = "done" /\ ToFile /\ (command = "crawl" \/ draft.status = "ok") =>
       outputs[Run] = draft.artifact

(* What the journal mentions is stored.                                     *)
RefsInv == \A h \in journals[Run].refs : InStore(h)

EInv ==
  /\ CommandTypeOK
  /\ MainHands /\ \A p \in Pages : PageHands(p)
  /\ DispatchInv /\ FilesInv
  /\ \A p \in Pages : PageInv(p)
  /\ MainInv /\ RefsInv

-----------------------------------------------------------------------------
(* What each operation of the store does, to the chain that runs it and to  *)
(* the files.                                                               *)

Others(w) == \A v \in Writers \ {w} : op'[v] = op[v]

Grow == \A o \in Objects : objects[o] # "absent" => objects'[o] # "absent"

LEMMA OpAt ==
  ASSUME TypeOK, NEW w \in Writers, NEW x, op' = [op EXCEPT ![w] = x]
  PROVE  op'[w] = x /\ Others(w)
BY DEF TypeOK, Others

LEMMA StartDoes ==
  ASSUME TypeOK, NEW w \in Writers, NEW file \in File \ {"none", "line"}, NEW value,
         ValueOK(file, value), Start(w, file, value)
  PROVE  /\ TypeOK' /\ Others(w) /\ UNCHANGED disk /\ Grow
         /\ op[w].file = "none"
         /\ op'[w].phase = "check" /\ op'[w].file = file /\ op'[w].value = value
<1>1. op' = [op EXCEPT ![w] = Pending("check", file, value)] /\ UNCHANGED disk
  BY DEF Start
<1>2. op'[w] = Pending("check", file, value) /\ Others(w)
  BY <1>1, OpAt
<1>3. op[w].file = "none"
  BY DEF Start, Free, TypeOK
<1>4. TypeOK'
  BY StartTyped
<1> QED
  BY <1>1, <1>2, <1>3, <1>4 DEF Pending, Grow, disk

LEMMA AppendDoes ==
  ASSUME TypeOK, NEW w \in Writers, NEW r \in Runs,
         NEW refs \in SUBSET (Objects \cup {ManifestName}), AppendAttempt(w, r, refs)
  PROVE  /\ TypeOK' /\ Others(w) /\ UNCHANGED disk /\ Grow
         /\ op[w].file = "none"
         /\ op'[w].file = "line" /\ op'[w].value = [run |-> r, refs |-> refs]
<1>1. /\ op' = [op EXCEPT ![w] = Pending("append", "line", [run |-> r, refs |-> refs])]
      /\ UNCHANGED disk
  BY DEF AppendAttempt
<1>2. op'[w] = Pending("append", "line", [run |-> r, refs |-> refs]) /\ Others(w)
  BY <1>1, OpAt
<1>3. op[w].file = "none"
  BY DEF AppendAttempt, Free, TypeOK
<1>4. TypeOK'
  BY AppendTyped
<1> QED
  BY <1>1, <1>2, <1>3, <1>4 DEF Pending, Grow, disk

LEMMA StageDoes ==
  ASSUME TypeOK, NEW w \in Writers, Stage(w)
  PROVE  /\ TypeOK' /\ Others(w) /\ UNCHANGED disk /\ Grow
         /\ op'[w].phase = "rename" /\ op'[w].file = op[w].file /\ op'[w].value = op[w].value
         /\ op[w].file \notin {"none", "line"}
<1>1. /\ op' = [op EXCEPT ![w] = Pending("rename", op[w].file, op[w].value)]
      /\ UNCHANGED disk /\ op[w].phase = "check"
  BY DEF Stage
<1>2. op'[w] = Pending("rename", op[w].file, op[w].value) /\ Others(w)
  BY <1>1, OpAt
<1>3. op[w].file \notin {"none", "line"} /\ ValueOK(op[w].file, op[w].value) /\ op[w].file \in File
  BY <1>1 DEF TypeOK
<1>4. TypeOK'
  <2>1. op'[w] \in [phase: Phase, file: File, value: Value]
    <3>1. op[w].value \in Value
      BY DEF TypeOK
    <3> QED
      BY <1>2, <1>3, <3>1 DEF Pending, Phase
  <2>2. op' \in [Writers -> [phase: Phase, file: File, value: Value]]
    BY <1>1, <1>2, <2>1 DEF TypeOK
  <2>3. ASSUME NEW v \in Writers
        PROVE  /\ ValueOK(op'[v].file, op'[v].value)
               /\ (op'[v].phase = "append") <=> (op'[v].file = "line")
               /\ (op'[v].phase = "idle") <=> (op'[v].file = "none")
    <3>1. CASE v = w
      BY <3>1, <1>2, <1>3 DEF Pending
    <3>2. CASE v # w
      BY <3>2, <1>2 DEF Others, TypeOK
    <3> QED
      BY <3>1, <3>2
  <2>4. /\ jobs' \subseteq Runs
        /\ journals' \in [Runs -> Journal]
        /\ objects' \in [Objects -> {"absent", "intact", "damaged"}]
        /\ manifests' \in [Runs -> Manifest \cup {None}]
        /\ cache' \in CacheRecord \cup {None}
        /\ report' \in Report \cup {None}
        /\ outputs' \in [Runs -> Objects \cup {None}]
    BY <1>1 DEF TypeOK, disk
  <2>5. \A v \in Writers : /\ ValueOK(op[v].file, op[v].value)'
                           /\ ((op[v].phase = "append") <=> (op[v].file = "line"))'
                           /\ ((op[v].phase = "idle") <=> (op[v].file = "none"))'
    BY <2>3 DEF ValueOK
  <2> QED
    BY <2>2, <2>4, <2>5 DEF TypeOK
<1> QED
  BY <1>1, <1>2, <1>3, <1>4 DEF Pending, Grow, disk

(* A write that is refused, or fails.                                       *)
LEMMA GiveUpDoes ==
  ASSUME TypeOK, NEW w \in Writers, Refuse(w) \/ WriteFails(w)
  PROVE  /\ TypeOK' /\ Others(w) /\ UNCHANGED disk /\ Grow
         /\ op'[w].file = "none" /\ op[w].file \notin {"none", "line"}
         /\ op[w].phase \in {"check", "rename"}
<1>1. op' = [op EXCEPT ![w] = Idle] /\ UNCHANGED disk /\ op[w].phase \in {"check", "rename"}
  BY DEF Refuse, WriteFails
<1>2. op'[w] = Idle /\ Others(w)
  BY <1>1, OpAt
<1>3. op[w].file \notin {"none", "line"}
  BY <1>1 DEF TypeOK
<1>4. TypeOK'
  BY <1>1, EndUntouchedTyped
<1> QED
  BY <1>1, <1>2, <1>3, <1>4 DEF Pending, Idle, Grow, disk

LEMMA RenameDoes ==
  ASSUME TypeOK, NEW w \in Writers, Rename(w)
  PROVE  /\ TypeOK' /\ Others(w) /\ Grow
         /\ op'[w].file = "none"
         /\ op[w].file = "job" => /\ jobs' = jobs \cup {op[w].value}
                                  /\ UNCHANGED <<journals, objects, manifests, report, outputs>>
         /\ op[w].file = "journal" =>
              /\ journals' = [journals EXCEPT ![op[w].value] =
                                [exists |-> TRUE, torn |-> FALSE, refs |-> {}]]
              /\ UNCHANGED <<jobs, objects, manifests, report, outputs>>
         /\ op[w].file = "object" =>
              /\ objects' = [objects EXCEPT ![op[w].value] = "intact"]
              /\ UNCHANGED <<jobs, journals, manifests, report, outputs>>
         /\ op[w].file = "manifest" =>
              /\ manifests' = [manifests EXCEPT ![op[w].value.run] = op[w].value]
              /\ UNCHANGED <<jobs, journals, objects, report, outputs>>
         /\ op[w].file = "report" =>
              report' = op[w].value /\ UNCHANGED <<jobs, journals, objects, manifests, outputs>>
         /\ op[w].file = "output" =>
              /\ outputs' = [outputs EXCEPT ![op[w].value.run] = op[w].value.object]
              /\ UNCHANGED <<jobs, journals, objects, manifests, report>>
         /\ op[w].file \notin {"none", "line"}
<1>1. op' = [op EXCEPT ![w] = Idle]
  BY DEF Rename
<1>2. op'[w] = Idle /\ Others(w)
  BY <1>1, OpAt
<1>3. op[w].file \notin {"none", "line"} /\ ValueOK(op[w].file, op[w].value)
  BY DEF TypeOK, Rename
<1>4. TypeOK'
  BY RenameTyped
<1>5. Grow
  BY <1>3 DEF Rename, TypeOK, ValueOK, Grow
<1> QED
  BY <1>2, <1>3, <1>4, <1>5 DEF Pending, Idle, Rename

LEMMA AppendEndDoes ==
  ASSUME TypeOK, NEW w \in Writers, AppendLands(w) \/ AppendFails(w)
  PROVE  /\ TypeOK' /\ Others(w) /\ Grow
         /\ op'[w].file = "none" /\ op[w].file = "line"
         /\ UNCHANGED <<jobs, objects, manifests, cache, report, outputs>>
         /\ \A r \in Runs \ {op[w].value.run} : journals'[r] = journals[r]
         /\ \A r \in Runs : /\ journals'[r].exists = journals[r].exists
                            /\ journals'[r].refs \subseteq journals[r].refs \cup op[w].value.refs
<1>1. /\ op' = [op EXCEPT ![w] = Idle]
      /\ UNCHANGED <<jobs, objects, manifests, cache, report, outputs>>
      /\ op[w].phase = "append"
  BY DEF AppendLands, AppendFails
<1>2. op'[w] = Idle /\ Others(w)
  BY <1>1, OpAt
<1>3. op[w].file = "line" /\ op[w].value \in Line
  BY <1>1 DEF TypeOK, ValueOK
<1>4. TypeOK'
  BY AppendEndTyped
<1> DEFINE run == op[w].value.run
<1>5. /\ \A r \in Runs \ {run} : journals'[r] = journals[r]
      /\ journals'[run] \in {journals[run], Torn(journals[run]),
                             WithLine(journals[run], op[w].value.refs)}
  <2>1. journals \in [Runs -> Journal] /\ run \in Runs
    BY <1>3 DEF TypeOK, Line
  <2>2. CASE AppendLands(w)
    BY <2>1, <2>2 DEF AppendLands
  <2>3. CASE AppendFails(w)
    BY <2>1, <2>3 DEF AppendFails
  <2> QED
    BY <2>2, <2>3
<1>6. \A r \in Runs : journals[r] \in Journal
  BY DEF TypeOK
<1>7. \A r \in Runs : /\ journals'[r].exists = journals[r].exists
                      /\ journals'[r].refs \subseteq journals[r].refs \cup op[w].value.refs
  BY <1>5, <1>6 DEF Torn, WithLine, Journal
<1> QED
  BY <1>1, <1>2, <1>3, <1>4, <1>5, <1>7 DEF Pending, Idle, Grow

LEMMA CrashDoes ==
  ASSUME TypeOK, Crash(Writers)
  PROVE  /\ TypeOK' /\ \A w \in Writers : op'[w].file = "none"
         /\ UNCHANGED <<jobs, objects, manifests, report, outputs>>
         /\ \A r \in Runs : \A h \in journals'[r].refs :
              \/ h \in journals[r].refs
              \/ \E w \in Writers : op[w].file = "line" /\ op[w].value.run = r /\ h \in op[w].value.refs
<1>1. TypeOK'
  BY CrashTyped
<1>2. op' = [w \in Writers |-> Idle]
  BY DEF Crash
<1>3. UNCHANGED <<jobs, objects, manifests, report, outputs>>
  BY DEF Crash
<1>4. ASSUME NEW r \in Runs, NEW h \in journals'[r].refs, h \notin journals[r].refs
      PROVE  \E w \in Writers : op[w].file = "line" /\ op[w].value.run = r /\ h \in op[w].value.refs
  <2> DEFINE cut == {w \in Writers : op[w].phase = "append"}
             appending(s) == {w \in cut : op[w].value.run = s}
  <2>1. PICK fate \in [cut -> {"lost", "torn", "whole"}] :
          journals' = [s \in Runs |->
            [exists |-> journals[s].exists,
             torn |-> journals[s].torn \/ \E w \in appending(s) : fate[w] = "torn",
             refs |-> journals[s].refs \cup
                        UNION {op[w].value.refs : w \in {v \in appending(s) : fate[v] = "whole"}}]]
    BY DEF Crash
  <2>2. journals'[r].refs = journals[r].refs \cup
                        UNION {op[w].value.refs : w \in {v \in appending(r) : fate[v] = "whole"}}
    BY <2>1
  <2>3. PICK w \in appending(r) : h \in op[w].value.refs
    BY <1>4, <2>2
  <2>4. op[w].file = "line"
    BY <2>3 DEF TypeOK
  <2> QED
    BY <2>3, <2>4
<1> QED
  BY <1>1, <1>2, <1>3, <1>4 DEF Idle, Pending

-----------------------------------------------------------------------------
(* A step of the chain of one page.                                         *)

PageState ==
  [pc: PageStates, source: Objects \cup {None}, artifact: Objects \cup {None},
   outcome: PageOutcomes]

Moved(p) == page' \in [Pages -> PageState] /\ \A q \in Pages \ {p} : page'[q] = page[q]

LEMMA TurnDoes ==
  ASSUME CommandTypeOK, NEW p \in Pages, NEW from, NEW to \in PageStates, Turn(p, from, to)
  PROVE  /\ Moved(p) /\ PageKeeps
         /\ page[p].pc = from /\ page'[p].pc = to
         /\ page'[p].source = page[p].source /\ page'[p].artifact = page[p].artifact
         /\ page'[p].outcome = page[p].outcome
BY DEF CommandTypeOK, Turn, Moved, PageState

LEMMA TurnsSource ==
  ASSUME CommandTypeOK, NEW p \in Pages, NEW from, NEW to \in PageStates,
         NEW value \in Objects \cup {None}, Turns(p, from, to, "source", value)
  PROVE  /\ Moved(p) /\ PageKeeps
         /\ page[p].pc = from /\ page'[p].pc = to
         /\ page'[p].source = value /\ page'[p].artifact = page[p].artifact
         /\ page'[p].outcome = page[p].outcome
BY DEF CommandTypeOK, Turns, Moved, PageState

LEMMA TurnsArtifact ==
  ASSUME CommandTypeOK, NEW p \in Pages, NEW from, NEW to \in PageStates,
         NEW value \in Objects \cup {None}, Turns(p, from, to, "artifact", value)
  PROVE  /\ Moved(p) /\ PageKeeps
         /\ page[p].pc = from /\ page'[p].pc = to
         /\ page'[p].source = page[p].source /\ page'[p].artifact = value
         /\ page'[p].outcome = page[p].outcome
BY DEF CommandTypeOK, Turns, Moved, PageState

LEMMA TurnsOutcome ==
  ASSUME CommandTypeOK, NEW p \in Pages, NEW from, NEW to \in PageStates,
         NEW value \in PageOutcomes, Turns(p, from, to, "outcome", value)
  PROVE  /\ Moved(p) /\ PageKeeps
         /\ page[p].pc = from /\ page'[p].pc = to
         /\ page'[p].source = page[p].source /\ page'[p].artifact = page[p].artifact
         /\ page'[p].outcome = value
BY DEF CommandTypeOK, Turns, Moved, PageState

(* What a step of page p leaves behind: its own hands and fields in order,  *)
(* and everything else alone.                                               *)
PageGoes(p) ==
  /\ Moved(p) /\ TypeOK' /\ Others(p) /\ Grow
  /\ UNCHANGED <<command, pc, collected, draft, jobs, manifests, report, outputs>>
  /\ batch' = batch \cup {p}
  /\ faults' \in BOOLEAN /\ (faults => faults')
  /\ \A r \in Runs : journals'[r].exists = journals[r].exists
  /\ RefsInv'
  /\ PageHands(p)'
  /\ page'[p].pc # "idle"
  /\ page'[p].source \in Bodies \cup {None}
  /\ (page'[p].source # None => objects'[page'[p].source] # "absent")
  /\ (page'[p].pc = "captured" => page'[p].source # None)
  /\ page'[p].outcome = "accepted" =>
       page'[p].artifact # None /\ page'[p].pc \in {"noting", "reparsing", "settled"}

(* The files, when a step of page p writes none of them.                    *)
Quiet(p) ==
  /\ TypeOK' /\ Others(p) /\ Grow
  /\ UNCHANGED disk

LEMMA QuietIf == ASSUME TypeOK, NEW p, UNCHANGED storeVars PROVE Quiet(p) /\ op' = op
<1>1. TypeOK'
  BY DEF TypeOK, ValueOK, storeVars
<1> QED
  BY <1>1 DEF Quiet, Others, Grow, disk, storeVars

LEMMA StoreKept ==
  ASSUME Grow, TypeOK
  PROVE  \A h : InStore(h) => InStore(h)'
BY DEF Grow, InStore

LEMMA WritersAre == Main \in Writers /\ Main \notin Pages /\ Pages \subseteq Writers /\ Run \in Runs
BY CommandAssumption

LEMMA PageFacts ==
  ASSUME EInv, NEW p \in Pages
  PROVE  /\ TypeOK /\ CommandTypeOK /\ p \in Writers /\ Run \in Runs
         /\ PageHands(p) /\ PageInv(p) /\ page[p] \in PageState
         /\ batch \subseteq Pages /\ faults \in BOOLEAN
         /\ page[p].pc \notin {"idle", "settled"} => p \in batch /\ pc = "pages"
         /\ RefsInv
<1>1. page[p] \in PageState
  BY DEF EInv, CommandTypeOK, PageState
<1>2. /\ TypeOK /\ CommandTypeOK /\ p \in Writers /\ Run \in Runs
      /\ PageHands(p) /\ PageInv(p) /\ batch \subseteq Pages /\ faults \in BOOLEAN /\ RefsInv
  BY WritersAre DEF EInv, CommandTypeOK
<1>3. page[p].pc \notin {"idle", "settled"} => p \in batch
  BY <1>2 DEF PageInv
<1>4. p \in batch => pc = "pages"
  BY DEF EInv, MainInv
<1> QED
  BY <1>1, <1>2, <1>3, <1>4

(* What the operation of p does to the files that other chains rely on.     *)
Works(p) ==
  /\ TypeOK' /\ Others(p) /\ Grow
  /\ UNCHANGED <<jobs, manifests, report, outputs>>
  /\ \A r \in Runs : journals'[r].exists = journals[r].exists
  /\ RefsInv'

LEMMA QuietWorks == ASSUME EInv, NEW p \in Pages, Quiet(p) PROVE Works(p)
<1>1. RefsInv /\ \A h : InStore(h) => InStore(h)'
  BY PageFacts, StoreKept DEF Quiet
<1>2. RefsInv' /\ \A r \in Runs : journals'[r].exists = journals[r].exists
  BY <1>1 DEF RefsInv, Quiet, disk
<1> QED
  BY <1>2 DEF Works, Quiet, disk

LEMMA LineWorks ==
  ASSUME EInv, NEW p \in Pages, AppendLands(p) \/ AppendFails(p)
  PROVE  Works(p) /\ op'[p].file = "none"
<1>1. TypeOK /\ p \in Writers /\ PageHands(p) /\ RefsInv /\ Run \in Runs
  BY PageFacts
<1>2. /\ TypeOK' /\ Others(p) /\ Grow
      /\ op'[p].file = "none" /\ op[p].file = "line"
      /\ UNCHANGED <<jobs, objects, manifests, cache, report, outputs>>
      /\ \A r \in Runs : /\ journals'[r].exists = journals[r].exists
                         /\ journals'[r].refs \subseteq journals[r].refs \cup op[p].value.refs
  BY <1>1, AppendEndDoes
<1>3. \A h \in op[p].value.refs : InStore(h)
  BY <1>1, <1>2 DEF PageHands
<1>4. RefsInv'
  BY <1>1, <1>2, <1>3 DEF RefsInv, InStore
<1> QED
  BY <1>2, <1>4 DEF Works

LEMMA ObjectWorks ==
  ASSUME EInv, NEW p \in Pages, PageTask(p) = "object", Rename(p)
  PROVE  /\ Works(p) /\ op'[p].file = "none"
         /\ op[p].value \in Objects /\ objects' = [objects EXCEPT ![op[p].value] = "intact"]
<1>1. TypeOK /\ p \in Writers /\ PageHands(p) /\ RefsInv
  BY PageFacts
<1>2. op[p].file = "object" /\ op[p].value \in Objects
  BY <1>1 DEF PageHands, TypeOK, ValueOK
<1>3. /\ TypeOK' /\ Others(p) /\ Grow /\ op'[p].file = "none"
      /\ objects' = [objects EXCEPT ![op[p].value] = "intact"]
      /\ UNCHANGED <<jobs, journals, manifests, report, outputs>>
  BY <1>1, <1>2, RenameDoes
<1>4. \A h : InStore(h) => InStore(h)'
  BY <1>1, <1>3, StoreKept
<1>5. RefsInv'
  BY <1>1, <1>3, <1>4 DEF RefsInv
<1> QED
  BY <1>2, <1>3, <1>5 DEF Works

(* What p has to show for a step of its own.                                *)
LEMMA GoesOn ==
  ASSUME EInv, NEW p \in Pages, p \in batch,
         Moved(p), UNCHANGED <<command, pc, batch, collected, draft>>,
         faults' \in BOOLEAN, faults => faults',
         Works(p), PageHands(p)',
         page'[p].pc # "idle", page'[p].pc = "captured" => page'[p].source # None,
         \/ page'[p].source \in {page[p].source, None}
         \/ page'[p].source \in Bodies /\ objects[page'[p].source] # "absent"
         \/ page'[p].source \in Bodies /\ objects'[page'[p].source] # "absent",
         page'[p].outcome = "accepted" =>
           page'[p].artifact # None /\ page'[p].pc \in {"noting", "reparsing", "settled"}
  PROVE  PageGoes(p)
<1>1. TypeOK /\ PageInv(p)
  BY PageFacts
<1>2. \A h : InStore(h) => InStore(h)'
  BY <1>1, StoreKept DEF Works
<1>3. page'[p].source \in Bodies \cup {None} /\ (page'[p].source # None => objects'[page'[p].source] # "absent")
  <2>1. CASE page'[p].source = page[p].source
    BY <1>1, <1>2, <2>1 DEF PageInv, InStore
  <2>2. CASE page'[p].source \in Bodies /\ objects[page'[p].source] # "absent"
    BY <2>2, CommandAssumption DEF Works, Grow
  <2> QED
    BY <2>1, <2>2
<1>4. batch' = batch \cup {p} /\ UNCHANGED <<command, pc, collected, draft>>
  OBVIOUS
<1> QED
  BY <1>3, <1>4 DEF PageGoes, Works

LEMMA Goes ==
  ASSUME EInv, NEW p \in Pages, p \in batch,
         Moved(p), PageKeeps, Works(p), PageHands(p)',
         page'[p].pc # "idle", page'[p].pc = "captured" => page'[p].source # None,
         \/ page'[p].source = page[p].source
         \/ page'[p].source \in Bodies /\ objects[page'[p].source] # "absent"
         \/ page'[p].source \in Bodies /\ objects'[page'[p].source] # "absent",
         page'[p].outcome = "accepted" =>
           page'[p].artifact # None /\ page'[p].pc \in {"noting", "reparsing", "settled"}
  PROVE  PageGoes(p)
<1>1. /\ UNCHANGED <<command, pc, batch, collected, draft>>
      /\ faults' \in BOOLEAN /\ (faults => faults')
  BY PageFacts DEF PageKeeps
<1> QED
  BY <1>1, GoesOn

(* With empty hands before and after, a chain may turn as it likes.         *)
LEMMA EmptyHands ==
  ASSUME NEW p, op'[p].file = "none",
         page'[p].pc \notin {"starting", "finishing", "noting", "reparsing", "skipping",
                             "capturing", "deriving", "parsing"}
  PROVE  PageHands(p)'
BY DEF PageHands, PageTask

LEMMA ProjectedTyped ==
  ASSUME EInv, NEW p \in Pages, page[p].source # None
  PROVE  Projected(p) \in Objects \cup {None}
BY PageFacts, CommandAssumption DEF Projected, PageInv

(* Known objects, no projection, no parser: no file is written.             *)
LEMMA QuietTurns ==
  ASSUME EInv, NEW p \in Pages,
         \/ \E o \in Bodies : CaptureKnown(p, o)
         \/ DeriveNone(p) \/ DeriveKnown(p)
         \/ Turn(p, "derive", "judge") /\ UNCHANGED storeVars
         \/ \E o \in Extracts : ParseKnown(p, o)
         \/ Turns(p, "parse", "parsed", "artifact", None) /\ UNCHANGED storeVars
  PROVE  PageGoes(p)
<1>0. CommandTypeOK
  BY PageFacts
<1>1. /\ TypeOK /\ PageHands(p) /\ PageInv(p) /\ page[p] \in PageState
      /\ page[p].pc \notin {"idle", "settled"} => p \in batch
  BY PageFacts
<1>2. UNCHANGED storeVars
  BY DEF CaptureKnown, DeriveNone, DeriveKnown, ParseKnown, PutKnown
<1>3. Quiet(p) /\ op' = op /\ Works(p)
  BY <1>1, <1>2, QuietIf, QuietWorks
<1>4. ASSUME NEW o \in Bodies, CaptureKnown(p, o) PROVE PageGoes(p)
  <2>1. o \in Objects /\ objects[o] # "absent" /\ o # None
    BY <1>4, CommandAssumption, StoreAssumption DEF CaptureKnown, PutKnown
  <2>2. /\ Moved(p) /\ PageKeeps
        /\ page[p].pc = "fetching" /\ page'[p].pc = "captured"
        /\ page'[p].source = o /\ page'[p].artifact = page[p].artifact
        /\ page'[p].outcome = page[p].outcome
    BY <1>0, <1>4, <2>1, TurnsSource DEF CaptureKnown, PageStates
  <2>3. PageHands(p)'
    BY <1>1, <1>3, <2>2, EmptyHands DEF PageHands, PageTask
  <2> QED
    BY <1>1, <1>3, <2>1, <2>2, <2>3, Goes DEF PageInv
<1>5. ASSUME DeriveNone(p) \/ DeriveKnown(p) PROVE PageGoes(p)
  <2>1. page[p].source \in Objects /\ Projected(p) \in Objects \cup {None}
    BY <1>1, <1>5, ProjectedTyped DEF DeriveNone, DeriveKnown, PageState
  <2>2. PICK a \in Objects \cup {None} : Turns(p, "derive", "judge", "artifact", a)
    BY <1>5, <2>1 DEF DeriveNone, DeriveKnown
  <2>3. /\ Moved(p) /\ PageKeeps
        /\ page[p].pc = "derive" /\ page'[p].pc = "judge"
        /\ page'[p].source = page[p].source /\ page'[p].outcome = page[p].outcome
    BY <1>0, <2>2, TurnsArtifact DEF PageStates
  <2>4. PageHands(p)'
    BY <1>1, <1>3, <2>3, EmptyHands DEF PageHands, PageTask
  <2> QED
    BY <1>1, <1>3, <2>3, <2>4, Goes DEF PageInv
<1>6. ASSUME Turn(p, "derive", "judge") PROVE PageGoes(p)
  <2>1. /\ Moved(p) /\ PageKeeps
        /\ page[p].pc = "derive" /\ page'[p].pc = "judge"
        /\ page'[p].source = page[p].source /\ page'[p].outcome = page[p].outcome
    BY <1>0, <1>6, TurnDoes DEF PageStates
  <2>2. PageHands(p)'
    BY <1>1, <1>3, <2>1, EmptyHands DEF PageHands, PageTask
  <2> QED
    BY <1>1, <1>3, <2>1, <2>2, Goes DEF PageInv
<1>7. ASSUME NEW a \in Objects \cup {None}, Turns(p, "parse", "parsed", "artifact", a)
      PROVE  PageGoes(p)
  <2>1. /\ Moved(p) /\ PageKeeps
        /\ page[p].pc = "parse" /\ page'[p].pc = "parsed"
        /\ page'[p].source = page[p].source /\ page'[p].outcome = page[p].outcome
    BY <1>0, <1>7, TurnsArtifact DEF PageStates
  <2>2. PageHands(p)'
    BY <1>1, <1>3, <2>1, EmptyHands DEF PageHands, PageTask
  <2> QED
    BY <1>1, <1>3, <2>1, <2>2, Goes DEF PageInv
<1>8. Extracts \subseteq Objects
  BY CommandAssumption
<1> QED
  BY <1>4, <1>5, <1>6, <1>7, <1>8 DEF ParseKnown

(* A new object is put: the chain holds it from now on.                     *)
LEMMA PutTurns ==
  ASSUME EInv, NEW p \in Pages,
         \/ \E o \in Bodies : CaptureNew(p, o)
         \/ DeriveNew(p)
         \/ \E o \in Extracts : ParseNew(p, o)
  PROVE  PageGoes(p)
<1>0. CommandTypeOK
  BY PageFacts
<1>1. /\ TypeOK /\ PageHands(p) /\ PageInv(p) /\ page[p] \in PageState
      /\ page[p].pc \notin {"idle", "settled"} => p \in batch
      /\ p \in Writers
  BY PageFacts
<1>2. ASSUME NEW o \in Objects, PutNew(p, Run, o)
      PROVE  Works(p) /\ op'[p].file = "object" /\ op'[p].value = o
  <2>1. Start(p, "object", o)
    BY <1>2 DEF PutNew
  <2>2. /\ TypeOK' /\ Others(p) /\ UNCHANGED disk /\ Grow
        /\ op'[p].file = "object" /\ op'[p].value = o
    BY <1>1, <2>1, StartDoes DEF File, ValueOK
  <2> QED
    BY <2>2, QuietWorks DEF Quiet
<1>3. ASSUME NEW o \in Bodies, CaptureNew(p, o) PROVE PageGoes(p)
  <2>1. o \in Objects
    BY CommandAssumption
  <2>2. /\ Moved(p) /\ PageKeeps
        /\ page[p].pc = "fetching" /\ page'[p].pc = "capturing"
        /\ page'[p].source = page[p].source /\ page'[p].outcome = page[p].outcome
    BY <1>0, <1>3, TurnDoes DEF CaptureNew, PageStates
  <2>3. Works(p) /\ op'[p].file = "object" /\ op'[p].value = o
    BY <1>2, <1>3, <2>1 DEF CaptureNew
  <2>4. PageHands(p)'
    BY <2>2, <2>3 DEF PageHands, PageTask
  <2> QED
    BY <1>1, <2>2, <2>3, <2>4, Goes DEF PageInv
<1>4. ASSUME NEW o \in Objects, PutNew(p, Run, o),
             Turn(p, "derive", "deriving") \/ Turn(p, "parse", "parsing")
      PROVE  PageGoes(p)
  <2>1. /\ Moved(p) /\ PageKeeps
        /\ page[p].pc \in {"derive", "parse"} /\ page'[p].pc \in {"deriving", "parsing"}
        /\ page'[p].source = page[p].source /\ page'[p].outcome = page[p].outcome
    BY <1>0, <1>4, TurnDoes DEF PageStates
  <2>2. Works(p) /\ op'[p].file = "object"
    BY <1>2, <1>4
  <2>3. PageHands(p)'
    BY <2>1, <2>2 DEF PageHands, PageTask
  <2> QED
    BY <1>1, <2>1, <2>2, <2>3, Goes DEF PageInv
<1>5. ASSUME DeriveNew(p) PROVE PageGoes(p)
  <2>1. Projected(p) \in Objects
    BY <1>5, ProjectedTyped DEF DeriveNew
  <2> QED
    BY <1>4, <1>5, <2>1 DEF DeriveNew
<1>6. Extracts \subseteq Objects
  BY CommandAssumption
<1> QED
  BY <1>3, <1>4, <1>5, <1>6 DEF ParseNew

(* The object lands.                                                        *)
LEMMA ObjectTurns ==
  ASSUME EInv, NEW p \in Pages, Captured(p) \/ Derived(p) \/ Parsed(p)
  PROVE  PageGoes(p)
<1>0. CommandTypeOK
  BY PageFacts
<1>1. /\ TypeOK /\ PageHands(p) /\ PageInv(p) /\ page[p] \in PageState
      /\ page[p].pc \notin {"idle", "settled"} => p \in batch
      /\ p \in Writers
  BY PageFacts
<1>2. PageTask(p) = "object" /\ Rename(p)
  BY DEF Captured, Derived, Parsed, Turns, PageTask
<1>3. /\ Works(p) /\ op'[p].file = "none"
      /\ op[p].value \in Objects /\ objects' = [objects EXCEPT ![op[p].value] = "intact"]
  BY <1>2, ObjectWorks
<1>4. CASE Captured(p)
  <2>1. /\ Moved(p) /\ PageKeeps
        /\ page[p].pc = "capturing" /\ page'[p].pc = "captured"
        /\ page'[p].source = op[p].value /\ page'[p].outcome = page[p].outcome
    <3>1. PICK o \in Objects : o = op[p].value
      BY <1>3
    <3>2. Turns(p, "capturing", "captured", "source", o)
      BY <1>4, <3>1 DEF Captured
    <3>3. /\ Moved(p) /\ PageKeeps
          /\ page[p].pc = "capturing" /\ page'[p].pc = "captured"
          /\ page'[p].source = o /\ page'[p].outcome = page[p].outcome
      BY <1>0, <3>2, TurnsSource DEF PageStates
    <3> QED
      BY <3>1, <3>3
  <2>2. page'[p].source \in Bodies /\ page'[p].source # None
    BY <1>1, <1>3, <2>1, StoreAssumption DEF PageHands
  <2>3. objects'[page'[p].source] # "absent"
    BY <1>1, <1>3, <2>1 DEF TypeOK
  <2>4. PageHands(p)'
    BY <1>3, <2>1, EmptyHands
  <2> QED
    BY <1>1, <1>3, <2>1, <2>2, <2>3, <2>4, Goes DEF PageInv
<1>5. CASE Derived(p) \/ Parsed(p)
  <2>1. /\ Moved(p) /\ PageKeeps
        /\ page[p].pc \in {"deriving", "parsing"} /\ page'[p].pc \in {"judge", "parsed"}
        /\ page'[p].source = page[p].source /\ page'[p].outcome = page[p].outcome
    <3>1. PICK o \in Objects : o = op[p].value
      BY <1>3
    <3>2. \/ Turns(p, "deriving", "judge", "artifact", o)
          \/ Turns(p, "parsing", "parsed", "artifact", o)
      BY <1>5, <3>1 DEF Derived, Parsed
    <3>3. CASE Turns(p, "deriving", "judge", "artifact", o)
      <4>0. "judge" \in PageStates /\ o \in Objects \cup {None}
        BY DEF PageStates
      <4>1. /\ Moved(p) /\ PageKeeps
            /\ page[p].pc = "deriving" /\ page'[p].pc = "judge"
            /\ page'[p].source = page[p].source /\ page'[p].artifact = o
            /\ page'[p].outcome = page[p].outcome
        BY <1>0, <4>0, <3>3, TurnsArtifact
      <4> QED
        BY <4>1
    <3>4. CASE Turns(p, "parsing", "parsed", "artifact", o)
      <4>0. "parsed" \in PageStates /\ o \in Objects \cup {None}
        BY DEF PageStates
      <4>1. /\ Moved(p) /\ PageKeeps
            /\ page[p].pc = "parsing" /\ page'[p].pc = "parsed"
            /\ page'[p].source = page[p].source /\ page'[p].artifact = o
            /\ page'[p].outcome = page[p].outcome
        BY <1>0, <4>0, <3>4, TurnsArtifact
      <4> QED
        BY <4>1
    <3> QED
      BY <3>2, <3>3, <3>4
  <2>2. PageHands(p)'
    BY <1>3, <2>1, EmptyHands
  <2> QED
    BY <1>1, <1>3, <2>1, <2>2, Goes DEF PageInv
<1> QED
  BY <1>4, <1>5

(* A line is written: it mentions the source that is stored, or nothing.    *)
LEMMA LineTurns ==
  ASSUME EInv, NEW p \in Pages,
         \/ FetchFails(p) \/ Judge(p) \/ Rejudge(p)
         \/ Turn(p, "captured", "finishing") /\ AppendAttempt(p, Run, {page[p].source})
         \/ Turn(p, "skip", "skipping") /\ AppendAttempt(p, Run, {})
  PROVE  PageGoes(p)
<1>0. CommandTypeOK
  BY PageFacts
<1>1. /\ TypeOK /\ PageHands(p) /\ PageInv(p) /\ page[p] \in PageState
      /\ page[p].pc \notin {"idle", "settled"} => p \in batch
      /\ p \in Writers /\ Run \in Runs
  BY PageFacts
<1>2. ASSUME NEW refs \in SUBSET Objects, AppendAttempt(p, Run, refs), \A h \in refs : InStore(h)
      PROVE  /\ Works(p) /\ op'[p].file = "line" /\ op'[p].value.run = Run
             /\ \A h \in op'[p].value.refs : h \in Objects /\ objects'[h] # "absent"
  <2>1. /\ TypeOK' /\ Others(p) /\ UNCHANGED disk /\ Grow
        /\ op'[p].file = "line" /\ op'[p].value = [run |-> Run, refs |-> refs]
    BY <1>1, <1>2, AppendDoes
  <2>2. Works(p)
    BY <2>1, QuietWorks DEF Quiet
  <2>3. \A h \in refs : h \in Objects /\ objects'[h] # "absent"
    BY <1>2, <2>1 DEF InStore, Grow
  <2> QED
    BY <2>1, <2>2, <2>3
<1>3. ASSUME AppendAttempt(p, Run, {})
      PROVE  /\ Works(p) /\ op'[p].file = "line" /\ op'[p].value.run = Run
             /\ \A h \in op'[p].value.refs : h \in Objects /\ objects'[h] # "absent"
  BY <1>2, <1>3
<1>4. ASSUME op'[p].file = "line", op'[p].value.run = Run,
             \A h \in op'[p].value.refs : h \in Objects /\ objects'[h] # "absent",
             page'[p].pc \in {"starting", "finishing", "noting", "reparsing", "skipping"}
      PROVE  PageHands(p)'
  BY <1>4 DEF PageHands, PageTask, InStore
<1>5. CASE FetchFails(p)
  <2>1. PICK outcome \in {"blocked", "failed"} :
          Turns(p, "fetching", "finishing", "outcome", outcome)
    BY <1>5 DEF FetchFails
  <2>2. /\ Moved(p) /\ PageKeeps
        /\ page[p].pc = "fetching" /\ page'[p].pc = "finishing"
        /\ page'[p].source = page[p].source /\ page'[p].outcome = outcome
    BY <1>0, <2>1, TurnsOutcome DEF PageStates, PageOutcomes
  <2>3. Works(p) /\ PageHands(p)'
    BY <1>3, <1>4, <1>5, <2>2 DEF FetchFails
  <2> QED
    BY <1>1, <2>2, <2>3, Goes
<1>6. CASE Judge(p)
  <2>1. PICK verdict \in Verdicts(p) : Turns(p, "judge", "noting", "outcome", verdict)
    BY <1>6 DEF Judge
  <2>2. verdict \in PageOutcomes /\ (verdict = "accepted" => page[p].artifact # None)
    BY <2>1 DEF Verdicts, PageOutcomes
  <2>3. /\ Moved(p) /\ PageKeeps
        /\ page[p].pc = "judge" /\ page'[p].pc = "noting"
        /\ page'[p].source = page[p].source /\ page'[p].artifact = page[p].artifact
        /\ page'[p].outcome = verdict
    BY <1>0, <2>1, <2>2, TurnsOutcome DEF PageStates
  <2>4. Works(p) /\ PageHands(p)'
    BY <1>3, <1>4, <1>6, <2>3 DEF Judge
  <2> QED
    BY <1>1, <2>2, <2>3, <2>4, Goes
<1>7. CASE Rejudge(p)
  <2>1. PICK verdict \in IF page[p].artifact = None THEN {"failed"}
                         ELSE IF command = "extract" THEN {"accepted"} ELSE {"accepted", "failed"} :
          Turns(p, "parsed", "reparsing", "outcome", verdict)
    BY <1>7 DEF Rejudge
  <2>2. verdict \in PageOutcomes /\ (verdict = "accepted" => page[p].artifact # None)
    BY <2>1 DEF PageOutcomes
  <2>3. /\ Moved(p) /\ PageKeeps
        /\ page[p].pc = "parsed" /\ page'[p].pc = "reparsing"
        /\ page'[p].source = page[p].source /\ page'[p].artifact = page[p].artifact
        /\ page'[p].outcome = verdict
    BY <1>0, <2>1, <2>2, TurnsOutcome DEF PageStates
  <2>4. Works(p) /\ PageHands(p)'
    BY <1>3, <1>4, <1>7, <2>3 DEF Rejudge
  <2> QED
    BY <1>1, <2>2, <2>3, <2>4, Goes
<1>8. CASE Turn(p, "captured", "finishing") /\ AppendAttempt(p, Run, {page[p].source})
  <2>1. /\ Moved(p) /\ PageKeeps
        /\ page[p].pc = "captured" /\ page'[p].pc = "finishing"
        /\ page'[p].source = page[p].source /\ page'[p].outcome = page[p].outcome
    BY <1>0, <1>8, TurnDoes DEF PageStates
  <2>2. page[p].source # None
    BY <1>1, <2>1 DEF PageInv
  <2>3. Works(p) /\ PageHands(p)'
    <3>1. \A h \in {page[p].source} : InStore(h)
      BY <1>1, <2>2 DEF PageInv
    <3>2. {page[p].source} \in SUBSET Objects
      BY <3>1 DEF InStore
    <3>3. /\ Works(p) /\ op'[p].file = "line" /\ op'[p].value.run = Run
          /\ \A h \in op'[p].value.refs : h \in Objects /\ objects'[h] # "absent"
      BY <1>2, <1>8, <3>1, <3>2
    <3> QED
      BY <1>4, <2>1, <3>3
  <2> QED
    BY <1>1, <2>1, <2>3, Goes DEF PageInv
<1>9. CASE Turn(p, "skip", "skipping") /\ AppendAttempt(p, Run, {})
  <2>1. /\ Moved(p) /\ PageKeeps
        /\ page[p].pc = "skip" /\ page'[p].pc = "skipping"
        /\ page'[p].source = page[p].source /\ page'[p].outcome = page[p].outcome
    BY <1>0, <1>9, TurnDoes DEF PageStates
  <2>2. Works(p) /\ PageHands(p)'
    BY <1>3, <1>4, <1>9, <2>1
  <2> QED
    BY <1>1, <2>1, <2>2, Goes DEF PageInv
<1> QED
  BY <1>5, <1>6, <1>7, <1>8, <1>9

(* The line has landed.                                                     *)
LEMMA LandTurns ==
  ASSUME EInv, NEW p \in Pages,
         \/ Started(p) \/ Judged(p) \/ Rejudged(p)
         \/ FinishAttempt(p) /\ page[p].pc = "finishing"
         \/ Skip(p) /\ page[p].pc = "skipping"
  PROVE  PageGoes(p)
<1> DEFINE Landed == {"fetching", "settled", "derive", "parse", "parsed", "skip"}
<1>0. CommandTypeOK
  BY PageFacts
<1>1. /\ PageInv(p) /\ page[p] \in PageState
      /\ page[p].pc \notin {"idle", "settled"} => p \in batch
  BY PageFacts
<1>2. /\ AppendLands(p)
      /\ \E to \in Landed : /\ Turn(p, page[p].pc, to)
                            /\ page[p].outcome = "accepted" => to = "settled"
      /\ page[p].pc \in {"starting", "finishing", "noting", "reparsing", "skipping"}
  <2>1. CASE Started(p)
    BY <1>1, <2>1 DEF Started, Turn, PageInv
  <2>2. CASE Judged(p)
    <3>1. PICK to \in IF page[p].outcome # "failed" THEN {"settled"}
                      ELSE IF Extracts # {} THEN {"parse"} ELSE {"skip", "settled"} :
            Turn(p, "noting", to)
      BY <2>2 DEF Judged
    <3>2. to \in Landed /\ (page[p].outcome = "accepted" => to = "settled")
      BY <3>1
    <3>3. page[p].pc = "noting"
      BY <3>1 DEF Turn
    <3> QED
      BY <2>2, <3>1, <3>2, <3>3 DEF Judged
  <2>3. CASE Rejudged(p)
    <3>1. PICK to \in IF page[p].outcome = "failed" /\ page[p].artifact # None
                      THEN {"skip", "settled"} ELSE {"settled"} : Turn(p, "reparsing", to)
      BY <2>3 DEF Rejudged
    <3>2. to \in Landed /\ (page[p].outcome = "accepted" => to = "settled")
      BY <3>1
    <3>3. page[p].pc = "reparsing"
      BY <3>1 DEF Turn
    <3> QED
      BY <2>3, <3>1, <3>2, <3>3 DEF Rejudged
  <2>4. CASE FinishAttempt(p) /\ page[p].pc = "finishing"
    <3> DEFINE to == IF page[p].outcome # None THEN "settled"
                     ELSE IF command = "crawl" THEN "derive"
                     ELSE IF Extracts # {} THEN "parse" ELSE "parsed"
    <3>1. Turn(p, "finishing", to) /\ AppendLands(p)
      BY <2>4 DEF FinishAttempt, Turn
    <3>2. to \in Landed
      OBVIOUS
    <3>3. page[p].outcome # "accepted"
      BY <1>1, <2>4 DEF PageInv
    <3> QED
      BY <2>4, <3>1, <3>2, <3>3
  <2>5. CASE Skip(p) /\ page[p].pc = "skipping"
    BY <1>1, <2>5 DEF Skip, Turn, PageInv
  <2> QED
    BY <2>1, <2>2, <2>3, <2>4, <2>5
<1>3. PICK to \in Landed : /\ Turn(p, page[p].pc, to)
                           /\ page[p].outcome = "accepted" => to = "settled"
  BY <1>2
<1>4. Works(p) /\ op'[p].file = "none"
  BY <1>2, LineWorks
<1>5. /\ Moved(p) /\ PageKeeps /\ page'[p].pc = to
      /\ page'[p].source = page[p].source /\ page'[p].artifact = page[p].artifact
      /\ page'[p].outcome = page[p].outcome
  <2>1. to \in PageStates
    BY DEF PageStates
  <2> QED
    BY <1>0, <1>3, <2>1, TurnDoes
<1>6. PageHands(p)'
  BY <1>4, <1>5, EmptyHands
<1>7. p \in batch /\ page'[p].pc # "idle" /\ page'[p].pc # "captured"
  BY <1>1, <1>2, <1>5
<1>8. page'[p].outcome = "accepted" =>
        page'[p].artifact # None /\ page'[p].pc \in {"noting", "reparsing", "settled"}
  BY <1>1, <1>3, <1>5 DEF PageInv
<1> QED
  BY <1>4, <1>5, <1>6, <1>7, <1>8, Goes

(* An operation that a chain gives up writes nothing.                       *)
LEMMA GiveUpWorks ==
  ASSUME EInv, NEW p \in Pages, Refuse(p) \/ WriteFails(p)
  PROVE  /\ Works(p) /\ op'[p].file = "none"
         /\ p \in batch
<1>1. TypeOK /\ p \in Writers /\ PageHands(p)
  BY PageFacts
<1>2. /\ TypeOK' /\ Others(p) /\ UNCHANGED disk /\ Grow
      /\ op'[p].file = "none" /\ op[p].file \notin {"none", "line"}
  BY <1>1, GiveUpDoes
<1>3. page[p].pc \notin {"idle", "settled"}
  BY <1>1, <1>2 DEF PageHands, PageTask
<1> QED
  BY <1>2, <1>3, PageFacts, QuietWorks DEF Quiet

(* An artifact that is not stored is an outcome.                            *)
LEMMA GiveUpTurns ==
  ASSUME EInv, NEW p \in Pages,
         \/ Turn(p, "deriving", "judge") /\ Refuse(p)
         \/ Turns(p, "parsing", "parsed", "artifact", None) /\ Refuse(p)
  PROVE  PageGoes(p)
<1>0. CommandTypeOK /\ PageInv(p)
  BY PageFacts
<1>1. Works(p) /\ op'[p].file = "none" /\ p \in batch
  BY GiveUpWorks
<1>2. /\ Moved(p) /\ PageKeeps
      /\ page[p].pc \in {"deriving", "parsing"} /\ page'[p].pc \in {"judge", "parsed"}
      /\ page'[p].source = page[p].source /\ page'[p].outcome = page[p].outcome
  <2>1. CASE Turn(p, "deriving", "judge")
    BY <1>0, <2>1, TurnDoes DEF PageStates
  <2>2. CASE Turns(p, "parsing", "parsed", "artifact", None)
    BY <1>0, <2>2, TurnsArtifact DEF PageStates
  <2> QED
    BY <2>1, <2>2
<1>3. PageHands(p)'
  BY <1>1, <1>2, EmptyHands
<1> QED
  BY <1>0, <1>1, <1>2, <1>3, Goes DEF PageInv

LEMMA FieldsSet ==
  ASSUME CommandTypeOK, NEW p \in Pages, NEW to \in PageStates,
         page' = [page EXCEPT ![p].pc = to, ![p].artifact = None]
  PROVE  /\ Moved(p) /\ page'[p].pc = to
         /\ page'[p].source = page[p].source /\ page'[p].artifact = None
         /\ page'[p].outcome = page[p].outcome
BY DEF CommandTypeOK, Moved, PageState

LEMMA FailTurns ==
  ASSUME EInv, NEW p \in Pages, faults' = TRUE,
         page[p].pc \in {"deriving", "parsing"},
         page' = [page EXCEPT ![p].pc = IF @ = "deriving" THEN "judge" ELSE "parsed",
                              ![p].artifact = None],
         WriteFails(p), UNCHANGED <<command, pc, batch, collected, draft>>
  PROVE  PageGoes(p)
<1>0. CommandTypeOK /\ PageInv(p)
  BY PageFacts
<1>1. Works(p) /\ op'[p].file = "none" /\ p \in batch
  BY GiveUpWorks
<1>2. /\ Moved(p) /\ page'[p].pc \in {"judge", "parsed"}
      /\ page'[p].source = page[p].source /\ page'[p].outcome = page[p].outcome
  <2>1. PICK to \in {"judge", "parsed"} : page' = [page EXCEPT ![p].pc = to, ![p].artifact = None]
    <3>1. CASE page[p].pc = "deriving"
      BY <3>1
    <3>2. CASE page[p].pc # "deriving"
      BY <3>2
    <3> QED
      BY <3>1, <3>2
  <2>2. to \in PageStates
    BY DEF PageStates
  <2>3. CommandTypeOK
    BY <1>0
  <2>4. /\ Moved(p) /\ page'[p].pc = to
        /\ page'[p].source = page[p].source /\ page'[p].outcome = page[p].outcome
    BY <2>1, <2>2, <2>3, FieldsSet
  <2> QED
    BY <2>4
<1>3. PageHands(p)'
  BY <1>1, <1>2, EmptyHands
<1> QED
  BY <1>0, <1>1, <1>2, <1>3, GoesOn DEF PageInv

(* The temporary file is flushed: nobody can tell.                          *)
LEMMA FlushTurns ==
  ASSUME EInv, NEW p \in Pages, Flush(p)
  PROVE  PageGoes(p)
<1>1. /\ TypeOK /\ PageHands(p) /\ PageInv(p) /\ page[p] \in PageState /\ p \in Writers
      /\ page[p].pc \notin {"idle", "settled"} => p \in batch
  BY PageFacts
<1>2. /\ TypeOK' /\ Others(p) /\ UNCHANGED disk /\ Grow
      /\ op'[p].file = op[p].file /\ op'[p].value = op[p].value
      /\ op[p].file \notin {"none", "line"}
  BY <1>1, StageDoes DEF Flush
<1>3. UNCHANGED commandVars
  BY DEF Flush
<1>4. page[p].pc \in {"capturing", "deriving", "parsing"}
  BY <1>1, <1>2 DEF PageHands, PageTask
<1>5. PageHands(p)'
  BY <1>1, <1>2, <1>3, <1>4 DEF PageHands, PageTask, commandVars
<1>6. Works(p)
  BY <1>2, QuietWorks DEF Quiet
<1>7. Moved(p) /\ PageKeeps /\ page'[p] = page[p]
  BY <1>3, PageFacts DEF Moved, PageKeeps, commandVars, CommandTypeOK, PageState
<1> QED
  BY <1>1, <1>4, <1>5, <1>6, <1>7, Goes DEF PageInv

(* The pipeline throws.                                                     *)
LEMMA CrashTurns ==
  ASSUME EInv, NEW p \in Pages, p \in batch, Crashes(p),
         faults' \in BOOLEAN, faults => faults',
         Works(p), op'[p].file = "none"
  PROVE  PageGoes(p)
<1>1. CommandTypeOK
  BY PageFacts
<1>2. page' = [page EXCEPT ![p] = [Unstarted EXCEPT !.pc = "settled", !.outcome = "crashed"]]
  BY DEF Crashes
<1> DEFINE crashed == [pc |-> "settled", source |-> None, artifact |-> None, outcome |-> "crashed"]
<1>3. [Unstarted EXCEPT !.pc = "settled", !.outcome = "crashed"] = crashed
  <2> DEFINE settled == [Unstarted EXCEPT !.pc = "settled"]
  <2>1. settled = [pc |-> "settled", source |-> None, artifact |-> None, outcome |-> None]
    BY DEF Unstarted
  <2> HIDE DEF settled
  <2>2. [settled EXCEPT !.outcome = "crashed"] = crashed
    BY <2>1
  <2> USE DEF settled
  <2> QED
    BY <2>2
<1>4. crashed \in PageState
  BY DEF PageState, PageStates, PageOutcomes
<1>5. /\ Moved(p) /\ page'[p].pc = "settled" /\ page'[p].source = None
      /\ page'[p].outcome # "accepted"
  <2>1. page' = [page EXCEPT ![p] = crashed]
    BY <1>2, <1>3
  <2>2. page \in [Pages -> PageState]
    BY <1>1 DEF CommandTypeOK, PageState
  <2> HIDE DEF crashed
  <2>3. Moved(p) /\ page'[p] = crashed
    BY <2>1, <2>2, <1>4 DEF Moved
  <2> QED
    BY <2>3 DEF crashed
<1>6. PageHands(p)'
  BY <1>5, EmptyHands
<1>7. UNCHANGED <<command, pc, batch, collected, draft>>
  BY DEF Crashes
<1> QED
  BY <1>5, <1>6, <1>7, GoesOn

LEMMA ThrownTurns ==
  ASSUME EInv, NEW p \in Pages,
         \/ Thrown(p)
         \/ faults' = TRUE /\ WriteFails(p) /\ Crashes(p)
         \/ faults' = TRUE /\ AppendFails(p) /\ Crashes(p)
  PROVE  PageGoes(p)
<1>1. /\ TypeOK /\ PageHands(p) /\ faults \in BOOLEAN
      /\ page[p].pc \notin {"idle", "settled"} => p \in batch
  BY PageFacts
<1>2. CASE page[p].pc = "capturing" /\ Crashes(p) /\ Refuse(p) /\ UNCHANGED faults
  BY <1>1, <1>2, GiveUpWorks, CrashTurns
<1>3. CASE page[p].pc = "fetching" /\ Crashes(p) /\ faults' = TRUE /\ UNCHANGED storeVars
  <2>1. Works(p) /\ op' = op
    BY <1>1, <1>3, QuietIf, QuietWorks
  <2>2. op'[p].file = "none" /\ p \in batch
    BY <1>1, <1>3, <2>1 DEF PageHands, PageTask
  <2> QED
    BY <1>3, <2>1, <2>2, CrashTurns
<1>4. CASE faults' = TRUE /\ WriteFails(p) /\ Crashes(p)
  BY <1>1, <1>4, GiveUpWorks, CrashTurns
<1>5. CASE faults' = TRUE /\ AppendFails(p) /\ Crashes(p)
  <2>1. Works(p) /\ op'[p].file = "none"
    BY <1>5, LineWorks
  <2>2. op[p].file = "line"
    BY <1>1, <1>5, WritersAre DEF AppendFails, TypeOK
  <2>3. p \in batch
    BY <1>1, <2>2 DEF PageHands, PageTask
  <2> QED
    BY <1>5, <2>1, <2>3, CrashTurns
<1> QED
  BY <1>2, <1>3, <1>4, <1>5 DEF Thrown

(* Every step of a page that is under way.                                  *)
LEMMA PageStepGoes ==
  ASSUME EInv, NEW p \in Pages, PageStep(p)
  PROVE  PageGoes(p) /\ p \in batch
<1>1. PageGoes(p)
  <2>1. CASE FinishAttempt(p)
    BY <2>1, LineTurns, LandTurns DEF FinishAttempt, Turn
  <2>2. CASE Skip(p)
    BY <2>2, LineTurns, LandTurns DEF Skip, Turn
  <2>3. CASE Underived(p) \/ Unparsed(p)
    BY <2>3, QuietTurns, GiveUpTurns DEF Underived, Unparsed
  <2> QED
    BY <2>1, <2>2, <2>3, QuietTurns, PutTurns, ObjectTurns, LineTurns, LandTurns, FlushTurns,
       ThrownTurns DEF PageStep
<1>2. batch' = batch
  <2>1. ASSUME NEW from, NEW to, Turn(p, from, to) PROVE batch' = batch
    BY <2>1 DEF Turn, PageKeeps
  <2>2. ASSUME NEW from, NEW to, NEW field, NEW value, Turns(p, from, to, field, value)
        PROVE  batch' = batch
    BY <2>2 DEF Turns, PageKeeps
  <2>3. CASE Started(p) \/ FinishAttempt(p) \/ DeriveNew(p) \/ Judged(p) \/ Rejudged(p) \/ Skip(p)
    BY <2>1, <2>3 DEF Started, FinishAttempt, DeriveNew, Judged, Rejudged, Skip
  <2>4. CASE \/ FetchFails(p) \/ Captured(p) \/ DeriveNone(p) \/ DeriveKnown(p) \/ Derived(p)
             \/ Judge(p) \/ Parsed(p) \/ Rejudge(p)
    BY <2>4 DEF Turns, PageKeeps, FetchFails, Captured, DeriveNone, DeriveKnown, Derived, Judge,
       Parsed, Rejudge
  <2>5. CASE Underived(p) \/ Unparsed(p)
    BY <2>1, <2>2, <2>5 DEF Underived, Unparsed
  <2>6. CASE \E o \in Bodies : CaptureKnown(p, o) \/ CaptureNew(p, o)
    BY <2>1, <2>2, <2>6 DEF CaptureKnown, CaptureNew
  <2>7. CASE \E o \in Extracts : ParseKnown(p, o) \/ ParseNew(p, o)
    BY <2>1, <2>2, <2>7 DEF ParseKnown, ParseNew
  <2>8. CASE Flush(p) \/ Thrown(p)
    BY <2>8 DEF Flush, commandVars, Thrown, Crashes
  <2> QED
    BY <2>3, <2>4, <2>5, <2>6, <2>7, <2>8 DEF PageStep
<1> QED
  BY <1>1, <1>2 DEF PageGoes

(* The next page of a batch.                                                *)
LEMMA StartTurns ==
  ASSUME EInv, NEW p \in Pages, StartPage(p)
  PROVE  /\ PageGoes(p) /\ pc = "pages"
         /\ command = "extract" => \A q \in Pages : page[q].pc = "idle"
<1>1. /\ TypeOK /\ CommandTypeOK /\ PageHands(p) /\ PageInv(p) /\ p \in Writers /\ Run \in Runs
      /\ faults \in BOOLEAN
  BY PageFacts
<1>2. /\ pc = "pages" /\ page[p].pc = "idle" /\ batch' = batch \cup {p}
      /\ UNCHANGED <<command, pc, collected, draft, faults>>
      /\ command = "extract" => \A q \in Pages : page[q].pc = "idle"
  BY DEF StartPage
<1>3. page[p] = Unstarted
  BY <1>1, <1>2 DEF PageInv
<1>4. page \in [Pages -> PageState]
  BY <1>1 DEF CommandTypeOK, PageState
<1>5. CASE page' = [page EXCEPT ![p].pc = "starting"] /\ AppendAttempt(p, Run, {})
  <2>1. /\ TypeOK' /\ Others(p) /\ UNCHANGED disk /\ Grow
        /\ op'[p].file = "line" /\ op'[p].value = [run |-> Run, refs |-> {}]
    BY <1>1, <1>5, AppendDoes
  <2>2. Works(p)
    BY <2>1, QuietWorks DEF Quiet
  <2>3. /\ Moved(p) /\ page'[p].pc = "starting"
        /\ page'[p].source = page[p].source /\ page'[p].outcome = page[p].outcome
    BY <1>4, <1>5 DEF Moved, PageState, PageStates
  <2>4. page'[p].source = None /\ page'[p].outcome = None
    BY <1>3, <2>3 DEF Unstarted
  <2>5. PageHands(p)'
    <3>1. op'[p].value.run = Run /\ \A h \in op'[p].value.refs : InStore(h)'
      BY <2>1
    <3> QED
      BY <2>1, <2>3, <3>1 DEF PageHands, PageTask
  <2>6. page'[p].outcome # "accepted"
    BY <2>4, CommandAssumption
  <2> QED
    BY <1>1, <1>2, <2>2, <2>3, <2>4, <2>5, <2>6 DEF PageGoes, Works
<1>6. CASE /\ page' = [page EXCEPT ![p].pc = "settled", ![p].outcome = "blocked"]
           /\ UNCHANGED storeVars
  <2>1. Works(p) /\ op' = op
    BY <1>1, <1>6, QuietIf, QuietWorks
  <2>2. op'[p].file = "none"
    BY <1>1, <1>2, <2>1 DEF PageHands, PageTask
  <2>3. /\ Moved(p) /\ page'[p].pc = "settled"
        /\ page'[p].source = page[p].source /\ page'[p].outcome = "blocked"
    BY <1>4, <1>6 DEF Moved, PageState, PageStates, PageOutcomes
  <2>4. page'[p].source = None
    BY <1>3, <2>3 DEF Unstarted
  <2>5. PageHands(p)'
    BY <2>2, <2>3, EmptyHands
  <2> QED
    BY <1>1, <1>2, <2>1, <2>3, <2>4, <2>5 DEF PageGoes, Works
<1>7. PageGoes(p)
  BY <1>5, <1>6 DEF StartPage
<1> QED
  BY <1>2, <1>7

LEMMA SameJob ==
  ASSUME UNCHANGED <<job, registry>>
  PROVE  (UsesStore' <=> UsesStore) /\ (Local' <=> Local)
BY DEF UsesStore, Local, NativeEligible

LEMMA SameReason ==
  ASSUME UNCHANGED <<job, registry, search>>
  PROVE  HasReason' <=> HasReason
BY DEF HasReason

(* A step of one page keeps the invariant: it runs on its own.              *)
LEMMA PageKeepsInv ==
  ASSUME EInv, NEW p \in Pages, PageGoes(p), pc = "pages",
         UNCHANGED <<dispatchVars, search>>,
         command = "extract" => \A q \in Pages \ {p} : page[q].pc = "idle"
  PROVE  EInv'
<1>1. /\ TypeOK /\ CommandTypeOK /\ p \in Writers /\ Main \in Writers /\ Main # p
      /\ batch \subseteq Pages
  BY PageFacts, WritersAre
<1>2. /\ MainHands /\ DispatchInv /\ FilesInv /\ MainInv
      /\ \A q \in Pages : PageHands(q) /\ PageInv(q)
  BY DEF EInv
<1>3. executor \in {"extract", "crawl"} /\ command = executor /\ search.pc = "off"
  BY <1>2 DEF DispatchInv
<1>4. UNCHANGED <<executor, job, registry, search, command, pc, collected, draft,
                  jobs, manifests, report, outputs>>
  BY DEF PageGoes, dispatchVars
<1>5. /\ TypeOK' /\ Moved(p) /\ Others(p) /\ Grow /\ batch' = batch \cup {p}
      /\ RefsInv' /\ PageHands(p)'
      /\ \A r \in Runs : journals'[r].exists = journals[r].exists
  BY DEF PageGoes
<1>6. \A h : InStore(h) => InStore(h)'
  BY <1>1, <1>5, StoreKept
<1>7. CommandTypeOK'
  BY <1>1, <1>4, <1>5 DEF CommandTypeOK, PageGoes, Moved, PageState
<1>8. MainHands'
  <2>1. op'[Main] = op[Main]
    BY <1>1, <1>5 DEF Others
  <2>2. MainTask' = "none" /\ MainTask = "none"
    BY <1>3, <1>4 DEF MainTask
  <2> QED
    BY <1>2, <2>1, <2>2 DEF MainHands
<1>9. ASSUME NEW q \in Pages PROVE PageHands(q)'
  <2>1. CASE q = p
    BY <1>5, <2>1
  <2>2. CASE q # p
    <3>1. op'[q] = op[q] /\ page'[q] = page[q] /\ PageHands(q)
      BY <1>2, <1>5, <2>2, WritersAre DEF Others, Moved
    <3> QED
      BY <1>6, <3>1 DEF PageHands, PageTask
  <2> QED
    BY <2>1, <2>2
<1>10. DispatchInv'
  BY <1>2, <1>4, SameJob DEF DispatchInv
<1>11. FilesInv'
  <2>1. HasReason' <=> HasReason
    BY <1>4, SameReason
  <2>2. faults => faults'
    BY DEF PageGoes
  <2>3. executor \in CommandKinds
    BY <1>3 DEF CommandKinds
  <2>4. FilesInv
    BY <1>2
  <2> QED
    BY <1>3, <1>4, <2>1, <2>2, <2>3, <2>4 DEF FilesInv
<1>12. ASSUME NEW q \in Pages PROVE PageInv(q)'
  <2>0. command = "extract" => \A r \in Pages : page'[q].pc # "idle" /\ page'[r].pc # "idle" => q = r
    BY <1>5 DEF Moved
  <2>1. CASE q = p
    BY <1>4, <1>5, <2>0, <2>1, CommandAssumption DEF PageInv, PageGoes, InStore
  <2>2. CASE q # p
    <3>1. page'[q] = page[q] /\ PageInv(q) /\ (q \in batch' <=> q \in batch)
      BY <1>2, <1>5, <2>2 DEF Moved
    <3>2. Found(q)' = Found(q)
      BY <3>1 DEF Found, Result
    <3> QED
      BY <1>4, <1>6, <2>0, <3>1, <3>2 DEF PageInv
  <2> QED
    BY <2>1, <2>2
<1>13. MainInv'
  <2>1. Sealed' <=> Sealed
    BY <1>4 DEF Sealed
  <2> QED
    BY <1>2, <1>3, <1>4, <2>1 DEF MainInv, Drafted
<1> QED
  BY <1>5, <1>7, <1>8, <1>9, <1>10, <1>11, <1>12, <1>13 DEF EInv

(* Whatever the chain of one page does, the invariant holds after it.       *)
PageActs(p) ==
  \/ PageStep(p) \/ StartPage(p)
  \/ /\ faults' = TRUE
     /\ \/ /\ page[p].pc \in {"deriving", "parsing"}
           /\ page' = [page EXCEPT ![p].pc = IF @ = "deriving" THEN "judge" ELSE "parsed",
                                   ![p].artifact = None]
           /\ WriteFails(p)
           /\ UNCHANGED <<command, pc, batch, collected, draft>>
        \/ page[p].pc = "capturing" /\ WriteFails(p) /\ Crashes(p)
        \/ AppendFails(p) /\ Crashes(p)

LEMMA PageActsKeep ==
  ASSUME EInv, NEW p \in Pages, PageActs(p), UNCHANGED <<dispatchVars, search>>
  PROVE  EInv'
<1>1. \A q \in Pages : PageInv(q)
  BY DEF EInv
<1>2. CASE StartPage(p)
  BY <1>2, StartTurns, PageKeepsInv
<1>3. ASSUME PageGoes(p), page[p].pc \notin {"idle", "settled"} PROVE EInv'
  <2>1. pc = "pages"
    BY <1>3, PageFacts
  <2>2. command = "extract" => \A q \in Pages \ {p} : page[q].pc = "idle"
    BY <1>1, <1>3 DEF PageInv
  <2> QED
    BY <1>3, <2>1, <2>2, PageKeepsInv
<1>4. CASE PageStep(p)
  <2>1. PageGoes(p) /\ p \in batch
    BY <1>4, PageStepGoes
  <2>2. page[p].pc # "idle" /\ pc = "pages"
    BY <1>1, <2>1 DEF PageInv, EInv, MainInv
  <2>3. command = "extract" => \A q \in Pages \ {p} : page[q].pc = "idle"
    BY <1>1, <2>2 DEF PageInv
  <2> QED
    BY <2>1, <2>2, <2>3, PageKeepsInv
<1>5. CASE /\ faults' = TRUE
           /\ page[p].pc \in {"deriving", "parsing"}
           /\ page' = [page EXCEPT ![p].pc = IF @ = "deriving" THEN "judge" ELSE "parsed",
                                   ![p].artifact = None]
           /\ WriteFails(p)
           /\ UNCHANGED <<command, pc, batch, collected, draft>>
  <2>1. PageGoes(p)
    BY <1>5, FailTurns
  <2>2. page[p].pc \notin {"idle", "settled"}
    BY <1>5
  <2> QED
    BY <1>3, <2>1, <2>2
<1>6. CASE faults' = TRUE /\ page[p].pc = "capturing" /\ WriteFails(p) /\ Crashes(p)
  BY <1>3, <1>6, ThrownTurns
<1>7. CASE faults' = TRUE /\ AppendFails(p) /\ Crashes(p)
  <2>1. PageGoes(p)
    BY <1>7, ThrownTurns
  <2>2. TypeOK /\ PageHands(p) /\ p \in Writers
    BY PageFacts
  <2>3. op[p].file = "line"
    BY <1>7, <2>2 DEF AppendFails, TypeOK
  <2>4. page[p].pc \notin {"idle", "settled"}
    BY <2>2, <2>3 DEF PageHands, PageTask
  <2> QED
    BY <1>3, <2>1, <2>4
<1> QED
  BY <1>2, <1>4, <1>5, <1>6, <1>7 DEF PageActs

-----------------------------------------------------------------------------
(* The pages, when somebody else takes a step.                              *)
LEMMA PagesRest ==
  ASSUME EInv, Grow, Others(Main), UNCHANGED <<page, command>>,
         collected \subseteq collected',
         \/ batch' = batch
         \/ batch' = {} /\ \A p \in batch : Settled(p) /\ Found(p) \subseteq collected'
  PROVE  \A p \in Pages : PageHands(p)' /\ PageInv(p)'
<1> SUFFICES ASSUME NEW p \in Pages PROVE PageHands(p)' /\ PageInv(p)'
  OBVIOUS
<1>1. TypeOK /\ PageHands(p) /\ PageInv(p) /\ p \in Writers \ {Main}
  BY PageFacts, WritersAre
<1>2. \A h : InStore(h) => InStore(h)'
  BY <1>1, StoreKept
<1>3. op'[p] = op[p] /\ page'[p] = page[p]
  BY <1>1 DEF Others
<1>4. PageHands(p)'
  BY <1>1, <1>2, <1>3 DEF PageHands, PageTask
<1>5. Found(p)' = Found(p)
  BY <1>3 DEF Found, Result
<1>6. /\ p \notin batch' => page[p].pc \in {"idle", "settled"}
      /\ p \in batch' => page[p].pc # "idle"
      /\ page[p].pc = "settled" /\ p \notin batch' => Found(p) \subseteq collected'
  BY <1>1 DEF PageInv, Settled
<1>7. PageInv(p)'
  BY <1>1, <1>2, <1>3, <1>5, <1>6 DEF PageInv
<1> QED
  BY <1>4, <1>7

(* The free native adapter is a reason to begin.                            *)
LEMMA LocalReason ==
  ASSUME DispatchInv, executor \in {"extract", "crawl"}
  PROVE  HasReason
<1>1. /\ job # Health /\ ~job.explain /\ job.kind = executor /\ Local
  BY DEF DispatchInv, CommandKinds
<1>2. PICK i \in DOMAIN registry :
        registry[i].id = "native" /\ Planned(job, registry[i]) /\ Eligible(job, registry[i])
  BY <1>1 DEF Local, NativeEligible
<1>3. registry[i].ready /\ registry[i].free /\ job.kind \in registry[i].kinds
  BY <1>2 DEF Eligible
<1>4. job.forced \in {Unforced, "native"} /\ job.kind # "search"
  BY <1>1 DEF Local
<1> QED
  BY <1>1, <1>2, <1>3, <1>4 DEF HasReason

(* What the main chain of a command has to show.                            *)
MainGoes ==
  /\ CommandTypeOK' /\ Others(Main) /\ Grow
  /\ UNCHANGED <<dispatchVars, search, command, page>>
  /\ faults => faults'
  /\ collected \subseteq collected'
  /\ \/ batch' = batch
     \/ batch' = {} /\ \A p \in batch : Settled(p) /\ Found(p) \subseteq collected'
  /\ jobs' \subseteq jobs \cup {Run} /\ jobs \subseteq jobs'
  /\ report' = report
  /\ pc' # "idle"
  /\ pc' \in {"job", "opened", "journal", "pages", "ledgers", "drafting", "seal", "sealing"} =>
       manifests'[Run] = None
  /\ MainHands' /\ MainInv' /\ RefsInv'

LEMMA MainKeepsInv ==
  ASSUME EInv, executor \in {"extract", "crawl"}, pc # "idle", MainGoes
  PROVE  EInv'
<1>1. DispatchInv /\ FilesInv /\ search.pc = "off"
  BY DEF EInv, DispatchInv
<1>2. UNCHANGED <<executor, job, registry, search, command, page>>
  BY DEF MainGoes, dispatchVars
<1>3. \A p \in Pages : PageHands(p)' /\ PageInv(p)'
  BY PagesRest DEF MainGoes
<1>4. DispatchInv'
  <2>1. pc' # "idle"
    BY DEF MainGoes
  <2> QED
    BY <1>1, <1>2, <2>1, SameJob DEF DispatchInv
<1>5. FilesInv'
  <2>1. HasReason'
    BY <1>1, <1>2, LocalReason, SameReason
  <2>2. executor \in CommandKinds /\ executor # "search" /\ executor # "dispatch"
    BY DEF CommandKinds
  <2>3. Earlier \in jobs' <=> Earlier \in jobs
    BY ExecutorAssumption DEF MainGoes
  <2>4. /\ report' = report /\ (faults => faults') /\ pc' # "idle"
        /\ pc' \in {"job", "opened", "journal", "pages", "ledgers", "drafting", "seal", "sealing"} =>
             manifests'[Run] = None
    BY DEF MainGoes
  <2> QED
    BY <1>1, <1>2, <2>1, <2>2, <2>3, <2>4 DEF FilesInv
<1> QED
  BY <1>3, <1>4, <1>5 DEF EInv, MainGoes

Commands == executor \in {"extract", "crawl"}

LEMMA MainFacts ==
  ASSUME EInv
  PROVE  /\ TypeOK /\ CommandTypeOK /\ Main \in Writers /\ Run \in Runs
         /\ MainHands /\ DispatchInv /\ FilesInv /\ MainInv /\ RefsInv
         /\ Commands => search.pc = "off"
         /\ collected \subseteq Objects /\ batch \subseteq Pages /\ faults \in BOOLEAN
         /\ draft \in Manifest \cup {None}
BY WritersAre DEF EInv, CommandTypeOK, DispatchInv, Commands

(* What the main chain has in hand while a command runs.                    *)
LEMMA CommandTask ==
  ASSUME EInv, Commands
  PROVE  MainTask = IF pc \in {"job", "journal"} THEN pc
                    ELSE IF pc = "sealing" THEN "manifest"
                    ELSE IF pc = "ledgers" THEN "object"
                    ELSE IF pc = "publishing" THEN "output" ELSE "none"
BY MainFacts DEF MainTask, Commands

LEMMA EmptyMain ==
  ASSUME EInv, Commands, UNCHANGED <<dispatchVars, search>>, op'[Main].file = "none",
         pc' \notin {"job", "journal", "sealing", "ledgers", "publishing"}
  PROVE  MainHands'
BY MainFacts DEF MainHands, MainTask, Commands, dispatchVars

LEMMA RefsKeep ==
  ASSUME EInv, Grow, journals'[Run].refs \subseteq journals[Run].refs
  PROVE  RefsInv'
<1>1. \A h : InStore(h) => InStore(h)'
  BY MainFacts, StoreKept
<1> QED
  BY <1>1, MainFacts DEF RefsInv

(* A step of the main chain that changes nothing but where it stands and    *)
(* the store.                                                               *)
LEMMA MainMoves ==
  ASSUME EInv, Commands, MainKeeps, UNCHANGED <<dispatchVars, search>>,
         TypeOK', Others(Main), Grow, journals'[Run].refs \subseteq journals[Run].refs,
         jobs' \subseteq jobs \cup {Run}, jobs \subseteq jobs', report' = report,
         pc' # "idle",
         pc' \in {"job", "opened", "journal", "pages", "ledgers", "drafting", "seal", "sealing"} =>
           manifests'[Run] = None,
         MainHands', MainInv'
  PROVE  MainGoes
<1>1. UNCHANGED <<command, page, batch, collected, draft, faults>>
  BY DEF MainKeeps
<1>2. CommandTypeOK'
  BY <1>1, MainFacts DEF CommandTypeOK
<1> QED
  BY <1>1, <1>2, RefsKeep DEF MainGoes

(* Steps that leave the manifest and the output of the run alone.           *)
LEMMA MainInvKept ==
  ASSUME EInv, Commands, pc # "idle", MainKeeps, UNCHANGED <<dispatchVars, search>>,
         UNCHANGED <<manifests, outputs>>,
         \/ pc' = pc
         \/ <<pc, pc'>> \in {<<"job", "opened">>, <<"opened", "journal">>, <<"journal", "pages">>,
                             <<"seal", "sealing">>, <<"publish", "publishing">>}
         \/ <<pc, pc'>> = <<"pages", "ledgers">> /\ batch = {}
         \/ pc' = "threw" /\ pc # "dead" /\ batch = {}
         \/ <<pc, pc'>> = <<"publish", "done">> /\ ~ToFile
  PROVE  MainInv'
<1>1. UNCHANGED <<command, page, batch, collected, draft, executor>> /\ Sealed' = Sealed
  BY DEF MainKeeps, dispatchVars, Sealed
<1>2. MainInv
  BY MainFacts
<1>3. pc \in {"idle", "job", "opened", "journal", "pages", "ledgers", "drafting", "threw", "dead"}
            \cup Drafted
  BY <1>2 DEF MainInv
<1>4. CASE pc' = pc
  BY <1>1, <1>2, <1>4 DEF MainInv, Drafted
<1>5. CASE pc' = "threw" /\ pc # "dead" /\ batch = {}
  BY <1>1, <1>2, <1>3, <1>5 DEF MainInv, Drafted
<1>6. CASE \/ <<pc, pc'>> \in {<<"job", "opened">>, <<"opened", "journal">>, <<"journal", "pages">>}
           \/ <<pc, pc'>> = <<"pages", "ledgers">> /\ batch = {}
  BY <1>1, <1>2, <1>6 DEF MainInv, Drafted
<1>7. CASE <<pc, pc'>> = <<"seal", "sealing">>
  BY <1>1, <1>2, <1>7 DEF MainInv, Drafted
<1>8. CASE \/ <<pc, pc'>> = <<"publish", "publishing">>
           \/ <<pc, pc'>> = <<"publish", "done">> /\ ~ToFile
  BY <1>1, <1>2, <1>8 DEF MainInv, Drafted
<1> QED
  BY <1>4, <1>5, <1>6, <1>7, <1>8

-----------------------------------------------------------------------------
(* The run is created.                                                      *)
LEMMA BegunGoes ==
  ASSUME EInv, Commands, UNCHANGED <<dispatchVars, search>>, Begun
  PROVE  MainGoes /\ pc # "idle"
<1>0. /\ TypeOK /\ Main \in Writers /\ Run \in Runs /\ MainHands /\ FilesInv
      /\ Commands /\ executor # "search" /\ search.pc = "off" /\ MainKeeps
  BY MainFacts DEF Begun, Commands
<1>1. CASE Goto("job", "opened") /\ Rename(Main)
  <2>1. op[Main].file = "job" /\ op[Main].value = Run
    BY <1>0, <1>1, CommandTask DEF Goto, MainHands
  <2>2. /\ TypeOK' /\ Others(Main) /\ Grow /\ op'[Main].file = "none"
        /\ jobs' = jobs \cup {Run}
        /\ UNCHANGED <<journals, objects, manifests, report, outputs>>
    BY <1>0, <1>1, <2>1, RenameDoes
  <2>3. pc = "job" /\ pc' = "opened" /\ manifests[Run] = None
    BY <1>0, <1>1 DEF Goto, FilesInv
  <2>4. MainHands'
    BY <1>0, <2>2, <2>3, EmptyMain
  <2>5. MainInv'
    BY <1>0, <2>2, <2>3, MainInvKept
  <2> QED
    BY <1>0, <2>2, <2>3, <2>4, <2>5, MainMoves
<1>2. CASE Goto("opened", "journal") /\ CreateJournal(Main, Run)
  <2>1. Start(Main, "journal", Run)
    BY <1>2 DEF CreateJournal
  <2>2. /\ TypeOK' /\ Others(Main) /\ UNCHANGED disk /\ Grow
        /\ op'[Main].file = "journal" /\ op'[Main].value = Run
    BY <1>0, <2>1, StartDoes DEF File, ValueOK
  <2>3. pc = "opened" /\ pc' = "journal" /\ manifests[Run] = None
    BY <1>0, <1>2 DEF Goto, FilesInv
  <2>4. UNCHANGED <<jobs, journals, objects, manifests, report, outputs>>
    BY <2>2 DEF disk
  <2>5. MainHands'
    BY <1>0, <2>2, <2>3 DEF MainHands, MainTask, Commands, dispatchVars
  <2>6. MainInv'
    BY <1>0, <2>3, <2>4, MainInvKept
  <2> QED
    BY <1>0, <2>2, <2>3, <2>4, <2>5, <2>6, MainMoves
<1>3. CASE Goto("journal", "pages") /\ Rename(Main)
  <2>1. op[Main].file = "journal" /\ op[Main].value = Run
    BY <1>0, <1>3, CommandTask DEF Goto, MainHands
  <2>2. /\ TypeOK' /\ Others(Main) /\ Grow /\ op'[Main].file = "none"
        /\ journals' = [journals EXCEPT ![Run] = [exists |-> TRUE, torn |-> FALSE, refs |-> {}]]
        /\ UNCHANGED <<jobs, objects, manifests, report, outputs>>
    BY <1>0, <1>3, <2>1, RenameDoes
  <2>3. pc = "journal" /\ pc' = "pages" /\ manifests[Run] = None
    BY <1>0, <1>3 DEF Goto, FilesInv
  <2>4. journals'[Run].refs \subseteq journals[Run].refs
    <3>1. journals'[Run] = [exists |-> TRUE, torn |-> FALSE, refs |-> {}]
      BY <1>0, <2>2 DEF TypeOK
    <3> QED
      BY <3>1
  <2>5. MainHands'
    BY <1>0, <2>2, <2>3, EmptyMain
  <2>6. MainInv'
    BY <1>0, <2>2, <2>3, MainInvKept
  <2> QED
    BY <1>0, <2>2, <2>3, <2>4, <2>5, <2>6, MainMoves
<1>4. pc # "idle"
  BY DEF Begun, Goto
<1> QED
  BY <1>1, <1>2, <1>3, <1>4 DEF Begun

(* A flush, and a rejection.                                                *)
LEMMA FlushGoes ==
  ASSUME EInv, Commands, pc # "idle", UNCHANGED <<dispatchVars, search>>, Flush(Main)
  PROVE  MainGoes
<1>0. TypeOK /\ Main \in Writers /\ MainHands /\ FilesInv /\ executor # "search"
  BY MainFacts DEF Commands
<1>1. /\ TypeOK' /\ Others(Main) /\ UNCHANGED disk /\ Grow
      /\ op'[Main].file = op[Main].file /\ op'[Main].value = op[Main].value
      /\ UNCHANGED commandVars
  BY <1>0, StageDoes DEF Flush
<1>2. /\ UNCHANGED <<jobs, journals, objects, manifests, report, outputs>>
      /\ pc' = pc /\ MainKeeps /\ UNCHANGED <<executor, search, draft, jobs>>
  BY <1>1 DEF disk, commandVars, MainKeeps, dispatchVars
<1>3. MainHands'
  <2>1. MainTask' = MainTask
    BY <1>2 DEF MainTask
  <2>2. MainTask # "report"
    BY CommandTask
  <2> QED
    BY <1>0, <1>1, <1>2, <2>1, <2>2 DEF MainHands
<1>4. MainInv'
  BY <1>2, MainInvKept
<1>5. pc' \in {"job", "opened", "journal", "pages", "ledgers", "drafting", "seal", "sealing"} =>
           manifests'[Run] = None
  BY <1>0, <1>2 DEF FilesInv
<1> QED
  BY <1>1, <1>2, <1>3, <1>4, <1>5, MainMoves

LEMMA ThrowGoes ==
  ASSUME EInv, Commands, UNCHANGED <<dispatchVars, search>>, Throw
  PROVE  MainGoes /\ pc # "idle"
<1>0. TypeOK /\ MainHands /\ MainInv
  BY MainFacts
<1>1. /\ UNCHANGED storeVars /\ MainKeeps /\ pc' = "threw"
      /\ pc \in {"seal", "publish"} \/ (pc = "pages" /\ batch = {})
  BY DEF Throw, MainKeeps, Rejected
<1>2. /\ TypeOK' /\ op' = op /\ Others(Main) /\ Grow
      /\ UNCHANGED <<jobs, journals, objects, manifests, report, outputs>>
  BY <1>0, <1>1, QuietIf DEF Quiet, disk, storeVars, Others, Grow, TypeOK, ValueOK
<1>3. batch = {}
  BY <1>0, <1>1 DEF MainInv
<1>4. MainHands'
  <2>1. op[Main].file = "none"
    BY <1>0, <1>1, CommandTask DEF MainHands
  <2> QED
    BY <1>1, <1>2, <2>1, EmptyMain
<1>5. MainInv'
  BY <1>1, <1>2, <1>3, MainInvKept
<1> QED
  BY <1>1, <1>2, <1>4, <1>5, MainMoves

LEMMA FoundTyped == ASSUME EInv, NEW p \in Pages PROVE Found(p) \subseteq Objects
BY PageFacts DEF Found, Result, Present, PageState

(* A batch is joined.                                                       *)
LEMMA JoinGoes ==
  ASSUME EInv, Commands, UNCHANGED <<dispatchVars, search>>, Join
  PROVE  MainGoes /\ pc # "idle"
<1>0. /\ TypeOK /\ CommandTypeOK /\ MainHands /\ MainInv /\ FilesInv /\ Main \in Writers /\ Run \in Runs
      /\ collected \subseteq Objects /\ batch \subseteq Pages /\ executor # "search"
  BY MainFacts DEF Commands
<1>1. /\ pc = "pages" /\ \A p \in batch : Settled(p)
      /\ collected' = collected \cup UNION {Found(p) : p \in batch} /\ batch' = {}
      /\ pc' \in {"pages", "threw", "drafting"}
      /\ UNCHANGED storeVars /\ UNCHANGED <<command, page, draft, faults>>
  BY DEF Join
<1>2. /\ TypeOK' /\ Others(Main) /\ Grow /\ op' = op
      /\ UNCHANGED <<jobs, journals, objects, manifests, report, outputs>>
  BY <1>0, <1>1, QuietIf DEF Quiet, disk, storeVars
<1>3. manifests[Run] = None /\ op[Main].file = "none"
  BY <1>0, <1>1, CommandTask DEF FilesInv, MainHands
<1>4. \A p \in batch : Settled(p) /\ Found(p) \subseteq collected'
  BY <1>1
<1>5. collected' \subseteq Objects /\ collected \subseteq collected'
  BY <1>0, <1>1, FoundTyped
<1>6. CommandTypeOK'
  BY <1>0, <1>1, <1>2, <1>5 DEF CommandTypeOK
<1>7. MainHands'
  BY <1>1, <1>2, <1>3, EmptyMain
<1>8. MainInv'
  <2>1. ~Sealed'
    BY <1>2, <1>3 DEF Sealed
  <2> QED
    BY <1>0, <1>1, <2>1 DEF MainInv, Drafted
<1>9. RefsInv'
  BY <1>2, RefsKeep
<1> QED
  BY <1>1, <1>2, <1>3, <1>4, <1>5, <1>6, <1>7, <1>8, <1>9 DEF MainGoes

(* The ledgers are among what is collected.                                 *)
LEMMA CollectedGoes ==
  ASSUME EInv, Commands, UNCHANGED <<dispatchVars, search>>,
         pc \in {"pages", "ledgers"}, batch = {}, pc' = "drafting",
         collected' = collected \cup {Ledgers},
         UNCHANGED <<command, page, batch, draft, faults>>,
         TypeOK', Others(Main), Grow, op'[Main].file = "none",
         UNCHANGED <<jobs, journals, manifests, report, outputs>>
  PROVE  MainGoes
<1>0. /\ CommandTypeOK /\ MainInv /\ FilesInv /\ executor # "search" /\ collected \subseteq Objects
      /\ Ledgers \in Objects
  BY MainFacts, CommandAssumption DEF Commands
<1>1. manifests'[Run] = None /\ ~Sealed'
  BY <1>0 DEF FilesInv, Sealed
<1>2. CommandTypeOK'
  BY <1>0 DEF CommandTypeOK
<1>3. MainHands'
  BY EmptyMain
<1>4. MainInv'
  BY <1>0, <1>1 DEF MainInv, Drafted
<1>5. RefsInv'
  BY RefsKeep
<1> QED
  BY <1>1, <1>2, <1>3, <1>4, <1>5 DEF MainGoes

LEMMA LedgersGo ==
  ASSUME EInv, Commands, UNCHANGED <<dispatchVars, search>>, PutLedgersKnown \/ PutLedgers
  PROVE  MainGoes /\ pc # "idle"
<1>0. /\ TypeOK /\ MainHands /\ MainInv /\ FilesInv /\ Main \in Writers /\ Run \in Runs
      /\ Ledgers \in Objects /\ executor # "search"
  BY MainFacts, CommandAssumption DEF Commands
<1>1. CASE PutLedgersKnown
  <2>1. /\ pc = "pages" /\ pc' = "drafting" /\ batch = {} /\ UNCHANGED storeVars
        /\ collected' = collected \cup {Ledgers}
        /\ UNCHANGED <<command, page, batch, draft, faults>>
    BY <1>1 DEF PutLedgersKnown, Goto, PutKnown
  <2>2. /\ TypeOK' /\ Others(Main) /\ Grow /\ op' = op
        /\ UNCHANGED <<jobs, journals, manifests, report, outputs>>
    BY <1>0, <2>1, QuietIf DEF Quiet, disk, storeVars
  <2>3. op'[Main].file = "none"
    BY <1>0, <2>1, <2>2, CommandTask DEF MainHands
  <2> QED
    BY <2>1, <2>2, <2>3, CollectedGoes
<1>2. CASE /\ command = "crawl" /\ batch = {}
           /\ Goto("pages", "ledgers") /\ PutNew(Main, Run, Ledgers) /\ MainKeeps
  <2>1. Start(Main, "object", Ledgers) /\ pc = "pages" /\ pc' = "ledgers"
    BY <1>2 DEF PutNew, Goto
  <2>2. /\ TypeOK' /\ Others(Main) /\ UNCHANGED disk /\ Grow
        /\ op'[Main].file = "object" /\ op'[Main].value = Ledgers
    BY <1>0, <2>1, StartDoes DEF File, ValueOK
  <2>3. UNCHANGED <<jobs, journals, objects, manifests, report, outputs>>
    BY <2>2 DEF disk
  <2>4. MainHands'
    BY <1>0, <2>1, <2>2, MainFacts DEF MainHands, MainTask, Commands, dispatchVars
  <2>5. MainInv'
    BY <1>2, <2>1, <2>3, MainInvKept
  <2>6. manifests'[Run] = None
    BY <1>0, <2>1, <2>3 DEF FilesInv
  <2> QED
    BY <1>2, <2>1, <2>2, <2>3, <2>4, <2>5, <2>6, MainMoves
<1>3. CASE /\ Goto("ledgers", "drafting") /\ Rename(Main)
           /\ collected' = collected \cup {Ledgers}
           /\ UNCHANGED <<command, page, batch, draft, faults>>
  <2>1. pc = "ledgers" /\ pc' = "drafting" /\ batch = {}
    BY <1>0, <1>3 DEF Goto, MainInv
  <2>2. op[Main].file = "object"
    BY <1>0, <2>1, CommandTask DEF MainHands
  <2>3. /\ TypeOK' /\ Others(Main) /\ Grow /\ op'[Main].file = "none"
        /\ UNCHANGED <<jobs, journals, manifests, report, outputs>>
    BY <1>0, <1>3, <2>2, RenameDoes
  <2> QED
    BY <1>3, <2>1, <2>3, CollectedGoes
<1> QED
  BY <1>1, <1>2, <1>3 DEF PutLedgers, Goto

(* The manifest is drafted over all that was collected.                     *)
LEMMA DraftGoes ==
  ASSUME EInv, Commands, UNCHANGED <<dispatchVars, search>>, Draft
  PROVE  MainGoes /\ pc # "idle"
<1>0. /\ TypeOK /\ CommandTypeOK /\ MainHands /\ MainInv /\ FilesInv /\ Main \in Writers /\ Run \in Runs
      /\ DispatchInv /\ Ledgers \in Objects /\ executor # "search" /\ collected \subseteq Objects
  BY MainFacts, CommandAssumption DEF Commands
<1>1. /\ pc = "drafting" /\ pc' = "seal" /\ UNCHANGED storeVars
      /\ UNCHANGED <<command, page, batch, collected, faults>>
  BY DEF Draft, Goto
<1>2. /\ TypeOK' /\ Others(Main) /\ Grow /\ op' = op
      /\ UNCHANGED <<jobs, journals, objects, manifests, report, outputs>>
  BY <1>0, <1>1, QuietIf DEF Quiet, disk, storeVars
<1>3. manifests[Run] = None /\ op[Main].file = "none" /\ batch = {}
  BY <1>0, <1>1, CommandTask DEF FilesInv, MainHands, MainInv
<1>4. /\ draft' \in Manifest /\ draft'.run = Run /\ draft'.artifacts = collected
      /\ command = "crawl" => draft'.artifact = Ledgers
      /\ command = "extract" /\ draft'.status = "ok" => draft'.artifact # None
  <2>1. CASE command = "crawl"
    <3>1. PICK status \in CrawlStatus : draft' = ManifestOf(status, Ledgers, Ledgers)
      BY <2>1 DEF Draft
    <3>2. status \in Status
      BY <3>1 DEF CrawlStatus, Status
    <3> QED
      BY <1>0, <2>1, <3>1, <3>2 DEF ManifestOf, Manifest
  <2>2. CASE command # "crawl"
    <3>1. PICK status \in ExtractStatus :
            \E p \in {q \in Pages : Settled(q)} :
              draft' = ManifestOf(status, page[p].source, Result(p))
      BY <2>2 DEF Draft
    <3>2. PICK p \in {q \in Pages : Settled(q)} :
            draft' = ManifestOf(status, page[p].source, Result(p))
      BY <3>1
    <3>3. status \in Status /\ (status = "ok" => "accepted" \in Outcomes)
      BY <3>1 DEF ExtractStatus, Status
    <3>4. page[p].source \in Objects \cup {None} /\ Result(p) \in Objects \cup {None}
      BY PageFacts DEF PageState, Result
    <3>5. ASSUME status = "ok" PROVE Result(p) # None
      <4>1. PICK q \in Pages : page[q].outcome = "accepted"
        BY <3>3, <3>5 DEF Outcomes
      <4>2. /\ PageInv(q) /\ page[q].artifact # None
            /\ page[q].pc # "idle"
        <5>1. page[q].pc = "idle" => page[q].outcome = None
          BY PageFacts DEF PageInv, Unstarted
        <5> QED
          BY <4>1, <5>1, PageFacts, CommandAssumption DEF PageInv
      <4>3. page[p].pc # "idle" /\ command = "extract"
        BY <1>0, <1>1, <2>2 DEF Settled, DispatchInv, Commands
      <4>4. p = q
        BY <4>2, <4>3 DEF PageInv
      <4> QED
        BY <4>1, <4>2, <4>4 DEF Result
    <3>6. draft' = [run |-> Run, status |-> status, source |-> page[p].source,
                    artifact |-> Result(p), artifacts |-> collected]
      BY <3>2 DEF ManifestOf
    <3>7. draft' \in Manifest
      BY <1>0, <3>3, <3>4, <3>6 DEF Manifest
    <3> QED
      BY <2>2, <3>5, <3>6, <3>7
  <2> QED
    BY <2>1, <2>2
<1>5. CommandTypeOK'
  BY <1>0, <1>1, <1>2, <1>4 DEF CommandTypeOK
<1>6. MainHands'
  BY <1>1, <1>2, <1>3, EmptyMain
<1>7. MainInv'
  <2>1. ~Sealed' /\ draft' # None
    BY <1>2, <1>3, <1>4, StoreAssumption DEF Sealed
  <2> QED
    BY <1>0, <1>1, <1>3, <1>4, <2>1 DEF MainInv, Drafted
<1>8. RefsInv'
  BY <1>2, RefsKeep
<1> QED
  BY <1>1, <1>2, <1>3, <1>5, <1>6, <1>7, <1>8 DEF MainGoes

(* The manifest is sealed.                                                  *)
LEMMA SealGoes ==
  ASSUME EInv, Commands, UNCHANGED <<dispatchVars, search>>, Seal
  PROVE  MainGoes /\ pc # "idle"
<1>0. /\ TypeOK /\ CommandTypeOK /\ MainHands /\ MainInv /\ FilesInv /\ Main \in Writers /\ Run \in Runs
      /\ search.pc = "off" /\ executor # "search" /\ MainKeeps
  BY MainFacts DEF Commands, Seal
<1>1. CASE Goto("seal", "sealing") /\ CommitManifest(Main, draft)
  <2>1. Start(Main, "manifest", draft) /\ pc = "seal" /\ pc' = "sealing"
    BY <1>1 DEF CommitManifest, Goto
  <2>2. draft \in Manifest
    BY <1>0, <2>1 DEF CommandTypeOK, MainInv, Drafted
  <2>3. /\ TypeOK' /\ Others(Main) /\ UNCHANGED disk /\ Grow
        /\ op'[Main].file = "manifest" /\ op'[Main].value = draft
    BY <1>0, <2>1, <2>2, StartDoes DEF File, ValueOK
  <2>4. UNCHANGED <<jobs, journals, objects, manifests, report, outputs>>
    BY <2>3 DEF disk
  <2>5. MainHands'
    BY <1>0, <2>1, <2>3 DEF MainHands, MainTask, Commands, dispatchVars, MainKeeps
  <2>6. MainInv'
    BY <1>0, <2>1, <2>4, MainInvKept
  <2>7. manifests'[Run] = None
    BY <1>0, <2>1, <2>4 DEF FilesInv
  <2> QED
    BY <1>0, <2>1, <2>3, <2>4, <2>5, <2>6, <2>7, MainMoves
<1>2. CASE /\ Goto("sealing", IF command = "crawl" \/ draft.status = "ok" THEN "publish" ELSE "done")
           /\ Rename(Main)
  <2>1. /\ pc = "sealing" /\ pc' \in {"publish", "done"}
        /\ pc' = "publish" <=> (command = "crawl" \/ draft.status = "ok")
    BY <1>2 DEF Goto
  <2>2. op[Main].file = "manifest" /\ op[Main].value = draft
    BY <1>0, <2>1, CommandTask DEF MainHands
  <2>3. /\ draft # None /\ draft.run = Run /\ draft.artifacts = collected /\ batch = {}
        /\ command = "crawl" => draft.artifact = Ledgers
        /\ command = "extract" /\ draft.status = "ok" => draft.artifact # None
        /\ \A p \in Pages : page[p].pc \in {"idle"} => page[p] = Unstarted
    BY <1>0, <2>1, PageFacts DEF MainInv, Drafted, PageInv
  <2>4. /\ TypeOK' /\ Others(Main) /\ Grow /\ op'[Main].file = "none"
        /\ manifests' = [manifests EXCEPT ![draft.run] = draft]
        /\ UNCHANGED <<jobs, journals, objects, report, outputs>>
    <3>1. PICK m : m = op[Main].value
      OBVIOUS
    <3>2. manifests' = [manifests EXCEPT ![m.run] = m]
      BY <1>0, <1>2, <2>2, <3>1, RenameDoes
    <3>3. /\ TypeOK' /\ Others(Main) /\ Grow /\ op'[Main].file = "none"
          /\ UNCHANGED <<jobs, journals, objects, report, outputs>>
      BY <1>0, <1>2, <2>2, RenameDoes
    <3> QED
      BY <2>2, <3>1, <3>2, <3>3
  <2>5. manifests'[Run] = draft /\ Sealed'
    BY <1>0, <2>3, <2>4 DEF TypeOK, Sealed
  <2>6. MainHands'
    BY <2>1, <2>4, EmptyMain, <1>0
  <2>7. MainInv'
    <3>1. UNCHANGED <<command, page, batch, collected, draft>>
      BY <1>0 DEF MainKeeps
    <3>2. draft' = draft /\ manifests'[Run] = draft' /\ draft'.artifacts = collected'
      BY <2>3, <2>5, <3>1
    <3>3. command = "crawl" \/ draft.status = "ok" => pc' # "done"
      BY <2>1
    <3> QED
      BY <2>1, <2>3, <2>5, <3>1, <3>2, <3>3 DEF MainInv, Drafted
  <2> QED
    BY <1>0, <2>1, <2>4, <2>6, <2>7, MainMoves
<1> QED
  BY <1>1, <1>2 DEF Seal, Goto

(* The artifact is published.                                               *)
LEMMA PublishGoes ==
  ASSUME EInv, Commands, UNCHANGED <<dispatchVars, search>>, Publish
  PROVE  MainGoes /\ pc # "idle"
<1>0. /\ TypeOK /\ CommandTypeOK /\ MainHands /\ MainInv /\ FilesInv /\ Main \in Writers /\ Run \in Runs
      /\ search.pc = "off" /\ executor # "search" /\ MainKeeps /\ DispatchInv
  BY MainFacts DEF Commands, Publish
<1>1. /\ pc \in {"publish", "publishing"} /\ pc' \in {"publishing", "done"}
  BY DEF Publish, Goto
<1>2. /\ draft # None /\ draft.artifact \in Objects /\ batch = {} /\ Sealed
      /\ manifests[Run] = draft /\ draft.artifacts = collected /\ draft.run = Run
      /\ command = "crawl" => draft.artifact = Ledgers
      /\ command = "extract" /\ draft.status = "ok" => draft.artifact # None
  <2>1. /\ draft # None /\ batch = {} /\ Sealed /\ draft.run = Run /\ draft.artifacts = collected
        /\ command = "crawl" => draft.artifact = Ledgers
        /\ command = "extract" /\ draft.status = "ok" => draft.artifact # None
        /\ command = "crawl" \/ draft.status = "ok"
    BY <1>0, <1>1 DEF MainInv, Drafted
  <2>2. manifests[Run] = draft
    BY <1>0, <1>1, <2>1 DEF MainInv
  <2>3. command \in {"crawl", "extract"}
    BY <1>0, <1>1 DEF DispatchInv, Commands
  <2>4. draft \in Manifest
    BY <1>0, <2>1 DEF CommandTypeOK
  <2>5. draft.artifact \in Objects \cup {None} /\ Ledgers \in Objects
    BY <2>4, CommandAssumption DEF Manifest
  <2> QED
    BY <2>1, <2>2, <2>3, <2>5
<1>3. CASE /\ Goto("publish", "publishing") /\ PublishOutput(Main, Run, draft.artifact) /\ ToFile
  <2>1. Start(Main, "output", [run |-> Run, object |-> draft.artifact])
        /\ pc = "publish" /\ pc' = "publishing"
    BY <1>3 DEF PublishOutput, Goto
  <2>2. PICK v \in Output : v = [run |-> Run, object |-> draft.artifact]
    BY <1>0, <1>2 DEF Output
  <2>3. /\ TypeOK' /\ Others(Main) /\ UNCHANGED disk /\ Grow
        /\ op'[Main].file = "output" /\ op'[Main].value = v
    BY <1>0, <2>1, <2>2, StartDoes DEF File, ValueOK
  <2>4. UNCHANGED <<jobs, journals, objects, manifests, report, outputs>>
    BY <2>3 DEF disk
  <2>5. MainHands'
    BY <1>0, <2>1, <2>2, <2>3 DEF MainHands, MainTask, Commands, dispatchVars, MainKeeps
  <2>6. MainInv'
    BY <1>0, <2>1, <2>4, MainInvKept
  <2> QED
    BY <1>0, <2>1, <2>3, <2>4, <2>5, <2>6, MainMoves
<1>4. CASE Goto("publish", "done") /\ ~ToFile /\ UNCHANGED storeVars
  <2>1. pc = "publish" /\ pc' = "done"
    BY <1>4 DEF Goto
  <2>2. /\ TypeOK' /\ Others(Main) /\ Grow /\ op' = op
        /\ UNCHANGED <<jobs, journals, objects, manifests, report, outputs>>
    BY <1>0, <1>4, QuietIf DEF Quiet, disk, storeVars
  <2>3. op'[Main].file = "none"
    BY <1>0, <2>1, <2>2, CommandTask DEF MainHands
  <2>4. MainHands'
    BY <2>1, <2>3, EmptyMain
  <2>5. MainInv'
    BY <1>0, <1>4, <2>1, <2>2, MainInvKept
  <2> QED
    BY <1>0, <2>1, <2>2, <2>4, <2>5, MainMoves
<1>5. CASE Goto("publishing", "done") /\ Rename(Main)
  <2>1. pc = "publishing" /\ pc' = "done"
    BY <1>5 DEF Goto
  <2>2. op[Main].file = "output" /\ op[Main].value = [run |-> Run, object |-> draft.artifact]
    BY <1>0, <2>1, CommandTask DEF MainHands
  <2>3. op[Main].value.run = Run /\ op[Main].value.object = draft.artifact
    BY <2>2
  <2>4. /\ TypeOK' /\ Others(Main) /\ Grow /\ op'[Main].file = "none"
        /\ outputs' = [outputs EXCEPT ![op[Main].value.run] = op[Main].value.object]
        /\ UNCHANGED <<jobs, journals, objects, manifests, report>>
    BY <1>0, <1>5, <2>2, RenameDoes
  <2>5. outputs'[Run] = draft.artifact
    BY <1>0, <2>3, <2>4 DEF TypeOK
  <2>6. MainHands'
    BY <2>1, <2>4, EmptyMain
  <2>7. MainInv'
    <3>1. UNCHANGED <<command, page, batch, collected, draft>>
      BY <1>0 DEF MainKeeps
    <3>2. Sealed' /\ manifests'[Run] = draft' /\ outputs'[Run] = draft'.artifact
      BY <1>2, <2>4, <2>5, <3>1 DEF Sealed
    <3> QED
      BY <1>2, <2>1, <3>1, <3>2 DEF MainInv, Drafted
  <2> QED
    BY <1>0, <2>1, <2>4, <2>6, <2>7, MainMoves
<1> QED
  BY <1>1, <1>3, <1>4, <1>5 DEF Publish, Goto

(* A write of the main chain fails.                                         *)
LEMMA FaultGoes ==
  ASSUME EInv, Commands, UNCHANGED <<dispatchVars, search>>,
         pc \notin {"threw", "dead", "done"}, pc' = "threw", faults' = TRUE, WriteFails(Main),
         UNCHANGED <<command, page, batch, collected, draft>>
  PROVE  MainGoes /\ pc # "idle"
<1>0. /\ TypeOK /\ CommandTypeOK /\ MainHands /\ MainInv /\ FilesInv /\ Main \in Writers
      /\ executor # "search"
  BY MainFacts DEF Commands
<1>1. /\ TypeOK' /\ Others(Main) /\ UNCHANGED disk /\ Grow
      /\ op'[Main].file = "none" /\ op[Main].file \notin {"none", "line"}
  BY <1>0, GiveUpDoes
<1>2. UNCHANGED <<jobs, journals, objects, manifests, report, outputs>>
  BY <1>1 DEF disk
<1>3. pc \in {"job", "journal", "sealing", "ledgers", "publishing"}
  BY <1>0, <1>1, CommandTask DEF MainHands
<1>4. MainHands'
  BY <1>1, EmptyMain
<1>5. MainInv'
  <2>1. Sealed' = Sealed /\ batch = {}
    BY <1>0, <1>2, <1>3 DEF Sealed, MainInv
  <2>2. executor' = executor
    BY DEF dispatchVars
  <2> QED
    BY <1>0, <1>2, <1>3, <2>1, <2>2 DEF MainInv, Drafted
<1>6. CommandTypeOK'
  BY <1>0, <1>1 DEF CommandTypeOK
<1>7. RefsInv'
  BY <1>1, <1>2, RefsKeep
<1> QED
  BY <1>1, <1>2, <1>3, <1>4, <1>5, <1>6, <1>7 DEF MainGoes

(* The command begins its run.                                              *)
LEMMA BeginKeeps ==
  ASSUME EInv, Commands, UNCHANGED <<dispatchVars, search>>, Begin(executor)
  PROVE  EInv'
<1>0. /\ TypeOK /\ CommandTypeOK /\ MainHands /\ MainInv /\ FilesInv /\ DispatchInv
      /\ Main \in Writers /\ Run \in Runs /\ search.pc = "off" /\ executor \in {"extract", "crawl"}
      /\ \A p \in Pages : PageHands(p) /\ PageInv(p)
  BY MainFacts DEF Commands, EInv
<1>1. /\ pc = "idle" /\ pc' = "job" /\ command' = executor /\ Start(Main, "job", Run)
      /\ UNCHANGED <<page, batch, collected, draft, faults>>
  BY DEF Begin, Goto, CreateJob
<1>2. /\ TypeOK' /\ Others(Main) /\ UNCHANGED disk /\ Grow
      /\ op'[Main].file = "job" /\ op'[Main].value = Run
  BY <1>0, <1>1, StartDoes DEF File, ValueOK
<1>3. UNCHANGED <<jobs, journals, objects, manifests, report, outputs, executor, job, registry>>
  BY <1>2 DEF disk, dispatchVars
<1>4. \A h : InStore(h) <=> InStore(h)'
  BY <1>3 DEF InStore
<1>5. CommandTypeOK'
  BY <1>0, <1>1, <1>2 DEF CommandTypeOK
<1>6. MainHands'
  BY <1>0, <1>1, <1>2, <1>3 DEF MainHands, MainTask
<1>7. \A p \in Pages : page[p] = Unstarted /\ page[p].pc = "idle"
  BY <1>0, <1>1 DEF MainInv, Unstarted
<1>8. ASSUME NEW p \in Pages PROVE PageHands(p)' /\ PageInv(p)'
  <2>1. op'[p] = op[p] /\ page'[p] = page[p] /\ PageHands(p) /\ PageInv(p)
    BY <1>0, <1>1, <1>2, WritersAre DEF Others
  <2>2. PageHands(p)'
    BY <1>4, <2>1 DEF PageHands, PageTask
  <2>3. \A q \in Pages : page'[q].pc = "idle"
    BY <1>1, <1>7
  <2>4. batch' = batch /\ page'[p] = Unstarted /\ page'[p].pc = "idle"
    BY <1>1, <1>7
  <2>5. PageInv(p)'
    BY <1>4, <2>1, <2>3, <2>4 DEF PageInv, Unstarted
  <2> QED
    BY <2>2, <2>5
<1>9. DispatchInv'
  BY <1>0, <1>1, <1>3, SameJob DEF DispatchInv
<1>10. FilesInv'
  <2>1. HasReason' <=> HasReason
    BY <1>3, SameReason
  <2> QED
    BY <1>0, <1>1, <1>3, <2>1 DEF FilesInv, CommandKinds
<1>11. MainInv'
  <2>1. Sealed' <=> Sealed
    BY <1>3 DEF Sealed
  <2> QED
    BY <1>0, <1>1, <1>3, <2>1 DEF MainInv, Drafted
<1>12. RefsInv'
  BY <1>2, <1>3, RefsKeep
<1> QED
  BY <1>5, <1>6, <1>8, <1>9, <1>10, <1>11, <1>12 DEF EInv

(* The process is killed: only what is on disk is left of the run.          *)
LEMMA KillKeeps ==
  ASSUME EInv, Commands, UNCHANGED <<dispatchVars, search>>, Kill
  PROVE  EInv'
<1>0. /\ TypeOK /\ CommandTypeOK /\ MainHands /\ MainInv /\ FilesInv /\ DispatchInv
      /\ Main \in Writers /\ Run \in Runs /\ search.pc = "off" /\ executor \in {"extract", "crawl"}
      /\ executor # "search" /\ RefsInv /\ faults \in BOOLEAN
      /\ \A p \in Pages : PageHands(p)
  BY MainFacts DEF Commands, EInv
<1>1. /\ pc # "idle" /\ pc' = "dead" /\ page' = [p \in Pages |-> Unstarted]
      /\ batch' = {} /\ collected' = {} /\ draft' = None
      /\ Crash(Writers) /\ UNCHANGED <<command, faults>>
  BY DEF Kill
<1>2. /\ TypeOK' /\ \A w \in Writers : op'[w].file = "none"
      /\ UNCHANGED <<jobs, objects, manifests, report, outputs>>
      /\ \A r \in Runs : \A h \in journals'[r].refs :
           \/ h \in journals[r].refs
           \/ \E w \in Writers : op[w].file = "line" /\ op[w].value.run = r /\ h \in op[w].value.refs
  BY <1>0, <1>1, CrashDoes
<1>3. UNCHANGED <<executor, job, registry>>
  BY DEF dispatchVars
<1>4. CommandTypeOK'
  <2>1. Unstarted \in PageState
    BY DEF Unstarted, PageState, PageStates, PageOutcomes
  <2>2. page' \in [Pages -> PageState]
    BY <1>1, <2>1
  <2> QED
    BY <1>0, <1>1, <1>2, <2>2 DEF CommandTypeOK, PageState
<1>5. MainHands'
  BY <1>0, <1>1, <1>2, <1>3, EmptyMain
<1>6. ASSUME NEW p \in Pages PROVE PageHands(p)' /\ PageInv(p)'
  <2>1. page'[p] = [pc |-> "idle", source |-> None, artifact |-> None, outcome |-> None]
        /\ p \in Writers
    BY <1>1, WritersAre DEF Unstarted
  <2>2. \A q \in Pages : page'[q].pc = "idle"
    BY <1>1 DEF Unstarted
  <2>3. PageHands(p)'
    BY <1>2, <2>1 DEF PageHands, PageTask
  <2>4. PageInv(p)'
    BY <1>1, <2>1, <2>2, CommandAssumption DEF PageInv, Unstarted
  <2> QED
    BY <2>3, <2>4
<1>7. DispatchInv'
  BY <1>0, <1>1, <1>3, SameJob DEF DispatchInv
<1>8. FilesInv'
  <2>1. HasReason' <=> HasReason
    BY <1>3, SameReason
  <2> QED
    BY <1>0, <1>1, <1>2, <1>3, <2>1 DEF FilesInv, CommandKinds
<1>9. MainInv'
  BY <1>1 DEF MainInv, Drafted
<1>10. RefsInv'
  <2>1. ASSUME NEW h \in journals'[Run].refs PROVE h \in Objects /\ objects[h] # "absent"
    <3>1. CASE h \in journals[Run].refs
      BY <1>0, <3>1 DEF RefsInv, InStore
    <3>2. ASSUME NEW w \in Writers, op[w].file = "line", op[w].value.run = Run, h \in op[w].value.refs
          PROVE  h \in Objects /\ objects[h] # "absent"
      <4>1. w # Main
        BY <1>0, <3>2, CommandTask DEF MainHands
      <4>2. w \in Pages
        BY <4>1, CommandAssumption
      <4> QED
        BY <1>0, <3>2, <4>2 DEF PageHands, InStore
    <3> QED
      BY <1>0, <1>2, <2>1, <3>1, <3>2
  <2> QED
    BY <1>2, <2>1 DEF RefsInv, InStore
<1> QED
  BY <1>4, <1>5, <1>6, <1>7, <1>8, <1>9, <1>10 DEF EInv

(* A step that leaves the commands and the operations alone.                *)
LEMMA RestKeeps ==
  ASSUME EInv, UNCHANGED <<dispatchVars, search, commandVars>>, TypeOK', Grow,
         UNCHANGED <<op, jobs, journals, manifests, report, outputs>>
  PROVE  EInv'
<1>0. /\ TypeOK /\ CommandTypeOK /\ MainHands /\ MainInv /\ FilesInv /\ DispatchInv /\ RefsInv
  BY MainFacts
<1>1. UNCHANGED <<executor, job, registry, command, pc, page, batch, collected, draft, faults>>
  BY DEF dispatchVars, commandVars
<1>2. \A p \in Pages : PageHands(p)' /\ PageInv(p)'
  BY <1>1, PagesRest DEF Others
<1>3. CommandTypeOK'
  BY <1>0, <1>1 DEF CommandTypeOK
<1>4. MainHands'
  BY <1>0, <1>1 DEF MainHands, MainTask, ReportOK, SearchManifest
<1>5. DispatchInv'
  BY <1>0, <1>1, SameJob DEF DispatchInv
<1>6. FilesInv'
  BY <1>0, <1>1, SameReason DEF FilesInv
<1>7. MainInv'
  BY <1>0, <1>1 DEF MainInv, Sealed
<1>8. RefsInv'
  BY RefsKeep
<1> QED
  BY <1>2, <1>3, <1>4, <1>5, <1>6, <1>7, <1>8 DEF EInv

LEMMA DamageKeeps ==
  ASSUME EInv, UNCHANGED <<dispatchVars, search, commandVars>>, NEW o \in Objects, Damage(o)
  PROVE  EInv'
<1>1. TypeOK
  BY MainFacts
<1>2. UNCHANGED <<op, jobs, journals, manifests, cache, report, outputs>> /\ Grow
      /\ objects' \in [Objects -> {"absent", "intact", "damaged"}]
  BY <1>1 DEF Damage, Grow, TypeOK
<1>3. TypeOK'
  BY <1>1, <1>2 DEF TypeOK, ValueOK
<1> QED
  BY <1>2, <1>3, RestKeeps

-----------------------------------------------------------------------------
(* Every step of a command, and what may go wrong in it.                    *)
LEMMA CommandKeeps ==
  ASSUME EInv, RunCommand \/ CommandFaults
  PROVE  EInv'
<1>0. Commands /\ UNCHANGED <<dispatchVars, route, search>>
  BY DEF RunCommand, CommandFaults, Commands
<1>1. ASSUME MainGoes, pc # "idle" PROVE EInv'
  BY <1>0, <1>1, MainKeepsInv DEF Commands
<1>2. CASE Begin(executor)
  BY <1>0, <1>2, BeginKeeps
<1>3. CASE MainStep
  <2>1. CASE Begun \/ Join \/ PutLedgersKnown \/ PutLedgers \/ Draft \/ Seal \/ Publish \/ Throw
    BY <1>0, <1>1, <2>1, BegunGoes, JoinGoes, LedgersGo, DraftGoes, SealGoes, PublishGoes, ThrowGoes
  <2>2. CASE Flush(Main)
    <3>1. pc # "idle"
      <4>1. op[Main].file # "none" /\ MainHands
        BY <2>2, MainFacts DEF Flush, Stage, TypeOK
      <4> QED
        BY <1>0, <4>1, CommandTask DEF MainHands
    <3> QED
      BY <1>0, <1>1, <2>2, <3>1, FlushGoes
  <2> QED
    BY <1>3, <2>1, <2>2 DEF MainStep
<1>4. ASSUME NEW p \in Pages, StartPage(p) \/ PageStep(p) PROVE EInv'
  BY <1>0, <1>4, PageActsKeep DEF PageActs
<1>5. CASE Fault
  <2>1. CASE /\ pc \notin {"threw", "dead", "done"} /\ pc' = "threw" /\ faults' = TRUE
             /\ WriteFails(Main)
             /\ UNCHANGED <<command, page, batch, collected, draft>>
    BY <1>0, <1>1, <2>1, FaultGoes
  <2>2. ASSUME NEW p \in Pages, PageActs(p) PROVE EInv'
    BY <1>0, <2>2, PageActsKeep
  <2> QED
    BY <1>5, <2>1, <2>2 DEF Fault, PageActs
<1>6. CASE Kill
  BY <1>0, <1>6, KillKeeps
<1>7. CASE UNCHANGED commandVars /\ \E o \in Fragile : Damage(o)
  BY <1>0, <1>7, DamageKeeps, ExecutorAssumption
<1> QED
  BY <1>2, <1>3, <1>4, <1>5, <1>6, <1>7 DEF RunCommand, CommandFaults, CommandStep

-----------------------------------------------------------------------------
(* Before, and beside, a crawl or an extract.                               *)
LEMMA IdleKeeps ==
  ASSUME EInv, pc = "idle", UNCHANGED <<command, pc, page, batch, collected, draft>>,
         faults' \in BOOLEAN, TypeOK', Others(Main), Grow,
         journals'[Run].refs \subseteq journals[Run].refs,
         MainHands', DispatchInv', FilesInv'
  PROVE  EInv'
<1>0. CommandTypeOK /\ MainInv
  BY MainFacts
<1>1. \A p \in Pages : PageHands(p)' /\ PageInv(p)'
  BY PagesRest
<1>2. CommandTypeOK'
  BY <1>0 DEF CommandTypeOK
<1>3. MainInv'
  <2>1. executor' # "search" => ~Sealed'
    BY DEF FilesInv, Sealed
  <2> QED
    BY <1>0, <2>1 DEF MainInv, Drafted
<1>4. RefsInv'
  BY RefsKeep
<1> QED
  BY <1>1, <1>2, <1>3, <1>4 DEF EInv

(* While the dispatch stands before the commands, nothing has been started. *)
Before == executor \in {"dispatch", "recovering"}

LEMMA BeforeFacts ==
  ASSUME EInv, Before
  PROVE  /\ TypeOK /\ DispatchInv /\ FilesInv /\ MainHands /\ Main \in Writers
         /\ pc = "idle" /\ search.pc = "off" /\ command = "none"
         /\ Run \notin jobs /\ ~journals[Run].exists /\ manifests[Run] = None
         /\ report # None => Run \notin report.incomplete \cup report.corrupt
         /\ MainTask = IF executor = "recovering" THEN "report" ELSE "none"
         /\ Run \in Runs /\ Earlier \in Runs /\ Earlier # Run /\ faults \in BOOLEAN
<1>1. /\ TypeOK /\ DispatchInv /\ FilesInv /\ MainHands /\ Main \in Writers
      /\ Run \in Runs /\ faults \in BOOLEAN
  BY MainFacts
<1>2. /\ pc = "idle" /\ search.pc = "off" /\ command = "none"
  BY <1>1 DEF DispatchInv, Before
<1>3. /\ Run \notin jobs /\ ~journals[Run].exists /\ manifests[Run] = None
      /\ report # None => Run \notin report.incomplete \cup report.corrupt
  BY <1>1 DEF FilesInv, Before, CommandKinds
<1>4. MainTask = IF executor = "recovering" THEN "report" ELSE "none"
  BY <1>2 DEF MainTask, Before
<1> QED
  BY <1>1, <1>2, <1>3, <1>4, ExecutorAssumption

(* What a step of the dispatch has to show.                                 *)
LEMMA DispatchKeeps ==
  ASSUME EInv, Before, UNCHANGED <<job, registry, search, command, pc, page, batch, collected, draft>>,
         faults' \in BOOLEAN, faults => faults',
         executor' \in {"recovering", "route", "returned"} \cup CommandKinds,
         executor' = "recovering" => UsesStore,
         executor' \in CommandKinds =>
           job # Health /\ ~job.explain /\ job.kind = executor' /\ (executor' = "search" \/ Local),
         TypeOK', Others(Main), Grow, UNCHANGED <<jobs, journals, manifests, outputs>>,
         op'[Main].file = IF executor' = "recovering" THEN "report" ELSE "none",
         executor' = "recovering" => ReportOK(op[Main].value)',
         report' # None => Run \notin report'.incomplete \cup report'.corrupt,
         executor' \in CommandKinds /\ ~faults' /\ Earlier \in jobs =>
           report' # None /\ Earlier \in report'.incomplete
  PROVE  EInv'
<1>1. /\ TypeOK /\ DispatchInv /\ FilesInv /\ MainHands
      /\ pc = "idle" /\ search.pc = "off" /\ command = "none"
      /\ Run \notin jobs /\ ~journals[Run].exists /\ manifests[Run] = None
  BY BeforeFacts
<1>2. MainHands'
  <2>1. MainTask' = IF executor' = "recovering" THEN "report" ELSE "none"
    BY <1>1 DEF MainTask
  <2> QED
    BY <2>1 DEF MainHands
<1>3. DispatchInv'
  BY <1>1, SameJob DEF DispatchInv
<1>4. FilesInv'
  BY <1>1 DEF FilesInv, CommandKinds
<1> QED
  BY <1>1, <1>2, <1>3, <1>4, IdleKeeps

(* After a report, or without one, a command begins or a snapshot returns.  *)
LEMMA AfterIs ==
  ASSUME EInv, Before, UsesStore
  PROVE  /\ After \in {"returned"} \cup CommandKinds
         /\ After \in CommandKinds =>
              job # Health /\ ~job.explain /\ job.kind = After /\ (After = "search" \/ Local)
<1>1. job \in Jobs \cup {Health}
  BY BeforeFacts DEF DispatchInv
<1>2. CASE job = Health
  BY <1>2 DEF After, CommandKinds
<1>3. CASE job # Health
  <2>1. job \in Job
    BY <1>1, <1>3, ExecutorAssumption
  <2>2. job.kind \in CommandKinds
    BY <2>1 DEF Job
  <2> QED
    BY <1>3, <2>2 DEF After, UsesStore
<1> QED
  BY <1>2, <1>3

(* The scan finds the earlier run, and no other.                            *)
LEMMA ScanFinds ==
  ASSUME EInv, executor = "dispatch"
  PROVE  /\ ReportOK(ScanResult)
         /\ Earlier \in jobs => ~NothingToReport
<1>1. /\ Run \notin jobs /\ ~journals[Run].exists /\ Earlier \in Runs
      /\ FilesInv
  BY BeforeFacts DEF Before
<1>2. ScanResult \in Report
  BY DEF ScanResult, Report
<1>3. ~Unfinished(Run)
  BY <1>1 DEF Unfinished
<1>4. Earlier \in jobs => Unfinished(Earlier) /\ JournalIntact(Earlier)
  BY <1>1 DEF FilesInv, Unfinished, JournalIntact
<1>5. Earlier \in jobs => Earlier \in ScanResult.incomplete
  BY <1>1, <1>4 DEF ScanResult
<1>6. Run \notin ScanResult.incomplete \cup ScanResult.corrupt
  BY <1>3 DEF ScanResult
<1> QED
  BY <1>2, <1>5, <1>6 DEF ReportOK, NothingToReport

LEMMA DispatchStepKeeps ==
  ASSUME EInv, Dispatch \/ RecoveryFails
  PROVE  EInv'
<1>1. ASSUME executor = "dispatch"
      PROVE  Before /\ report = None /\ op[Main].file = "none" /\ EInv
  BY <1>1, BeforeFacts DEF Before, FilesInv, MainHands
<1>2. ASSUME executor = "dispatch", executor' \in {"route", "returned"}, UNCHANGED <<job, registry>>,
             UNCHANGED <<search, commandVars>>, UNCHANGED storeVars
      PROVE  EInv'
  <2>1. Before /\ report = None /\ op[Main].file = "none" /\ TypeOK /\ faults \in BOOLEAN
    BY <1>1, <1>2, BeforeFacts
  <2>2. /\ TypeOK' /\ Others(Main) /\ Grow /\ op' = op
        /\ UNCHANGED <<jobs, journals, manifests, outputs, report>>
    BY <1>2, <2>1, QuietIf DEF Quiet, disk, storeVars
  <2>3. UNCHANGED <<command, pc, page, batch, collected, draft, faults>>
    BY <1>2 DEF commandVars
  <2>4. executor' \notin CommandKinds /\ executor' # "recovering"
    BY <1>2 DEF CommandKinds
  <2> QED
    BY <1>2, <2>1, <2>2, <2>3, <2>4, DispatchKeeps
<1>3. CASE Explain \/ InvalidSchema
  BY <1>2, <1>3 DEF Explain, InvalidSchema, Moves, CommandsKeep
<1>4. CASE ToRoute
  BY <1>2, <1>4 DEF ToRoute, Moves
<1>5. CASE StartRecovery
  <2>1. /\ executor = "dispatch" /\ executor' = "recovering" /\ UNCHANGED <<job, registry>>
        /\ UNCHANGED <<search, command, pc, page, batch, collected, draft, faults>>
        /\ UsesStore /\ Start(Main, "report", ScanResult)
    BY <1>5 DEF StartRecovery, Moves, CommandsKeep, commandVars, Recover
  <2>2. Before /\ report = None /\ TypeOK /\ faults \in BOOLEAN /\ Main \in Writers
    BY <1>1, <2>1, BeforeFacts
  <2>3. PICK scan : scan = ScanResult
    OBVIOUS
  <2>4. ReportOK(scan) /\ scan \in Report
    BY <2>1, <2>3, ScanFinds DEF ReportOK
  <2>5. /\ TypeOK' /\ Others(Main) /\ UNCHANGED disk /\ Grow
        /\ op'[Main].file = "report" /\ op'[Main].value = scan
    <3>1. Start(Main, "report", scan) /\ ValueOK("report", scan)
      BY <2>1, <2>3, <2>4 DEF ValueOK
    <3> QED
      BY <2>2, <3>1, StartDoes DEF File
  <2>6. UNCHANGED <<jobs, journals, manifests, outputs, report>>
    BY <2>5 DEF disk
  <2>7. ReportOK(op[Main].value)'
    BY <2>4, <2>5, <2>6 DEF ReportOK
  <2> QED
    BY <2>1, <2>2, <2>5, <2>6, <2>7, DispatchKeeps DEF CommandKinds
<1>6. CASE NoRecovery
  <2>1. /\ executor = "dispatch" /\ executor' = After /\ UNCHANGED <<job, registry>>
        /\ UNCHANGED <<search, command, pc, page, batch, collected, draft, faults>>
        /\ UsesStore /\ NothingToReport /\ UNCHANGED storeVars
    BY <1>6 DEF NoRecovery, Moves, CommandsKeep, commandVars
  <2>2. Before /\ report = None /\ op[Main].file = "none" /\ TypeOK /\ faults \in BOOLEAN
    BY <1>1, <2>1, BeforeFacts
  <2>3. Earlier \notin jobs
    BY <2>1, ScanFinds
  <2>4. /\ TypeOK' /\ Others(Main) /\ Grow /\ op' = op
        /\ UNCHANGED <<jobs, journals, manifests, outputs, report>>
    BY <2>1, <2>2, QuietIf DEF Quiet, disk, storeVars
  <2>5. /\ After \in {"returned"} \cup CommandKinds
        /\ After \in CommandKinds =>
              job # Health /\ ~job.explain /\ job.kind = After /\ (After = "search" \/ Local)
    BY <2>1, <2>2, AfterIs
  <2>6. executor' # "recovering"
    BY <2>1, <2>5 DEF CommandKinds
  <2> QED
    BY <2>1, <2>2, <2>3, <2>4, <2>5, <2>6, DispatchKeeps
<1>7. CASE EndRecovery
  <2>1. /\ executor = "recovering" /\ UNCHANGED <<job, registry>>
        /\ UNCHANGED <<search, command, pc, page, batch, collected, draft, faults>>
    BY <1>7 DEF EndRecovery, Moves, CommandsKeep, commandVars
  <2>2. /\ Before /\ TypeOK /\ faults \in BOOLEAN /\ Main \in Writers /\ UsesStore
        /\ op[Main].file = "report" /\ ReportOK(op[Main].value)
        /\ report # None => Run \notin report.incomplete \cup report.corrupt
    BY <2>1, BeforeFacts DEF Before, MainHands, DispatchInv
  <2>3. CASE executor' = "recovering" /\ Stage(Main)
    <3>1. /\ TypeOK' /\ Others(Main) /\ UNCHANGED disk /\ Grow
          /\ op'[Main].file = "report" /\ op'[Main].value = op[Main].value
      BY <2>2, <2>3, StageDoes
    <3>2. UNCHANGED <<jobs, journals, manifests, outputs, report>>
      BY <3>1 DEF disk
    <3>3. ReportOK(op[Main].value)'
      BY <2>2, <3>1, <3>2 DEF ReportOK
    <3> QED
      BY <2>1, <2>2, <2>3, <3>1, <3>2, <3>3, DispatchKeeps DEF CommandKinds
  <2>4. CASE executor' = After /\ Rename(Main)
    <3>1. /\ TypeOK' /\ Others(Main) /\ Grow /\ op'[Main].file = "none"
          /\ report' = op[Main].value /\ UNCHANGED <<jobs, journals, objects, manifests, outputs>>
      BY <2>2, <2>4, RenameDoes
    <3>2. /\ Run \notin report'.incomplete \cup report'.corrupt
          /\ Earlier \in jobs => report' # None /\ Earlier \in report'.incomplete
      BY <2>2, <3>1, StoreAssumption DEF ReportOK
    <3>3. /\ After \in {"returned"} \cup CommandKinds
          /\ After \in CommandKinds =>
                job # Health /\ ~job.explain /\ job.kind = After /\ (After = "search" \/ Local)
      BY <2>1, <2>2, AfterIs
    <3>4. executor' # "recovering"
      BY <2>4, <3>3 DEF CommandKinds
    <3> QED
      BY <2>1, <2>2, <2>4, <3>1, <3>2, <3>3, <3>4, DispatchKeeps
  <2> QED
    BY <1>7, <2>3, <2>4 DEF EndRecovery, Moves
<1>8. CASE RecoveryFails
  <2>1. /\ Before /\ executor' = After /\ UNCHANGED <<job, registry>>
        /\ UNCHANGED <<search, command, pc, page, batch, collected, draft>> /\ faults' = TRUE
    BY <1>8 DEF RecoveryFails, Moves, Before
  <2>2. /\ TypeOK /\ Main \in Writers /\ UsesStore /\ MainHands
        /\ report # None => Run \notin report.incomplete \cup report.corrupt
        /\ MainTask = IF executor = "recovering" THEN "report" ELSE "none"
    BY <1>8, <2>1, BeforeFacts DEF RecoveryFails, Moves, DispatchInv
  <2>3. /\ TypeOK' /\ Others(Main) /\ Grow /\ op'[Main].file = "none" /\ UNCHANGED disk
    <3>1. CASE WriteFails(Main)
      BY <2>2, <3>1, GiveUpDoes
    <3>2. CASE executor = "dispatch" /\ UNCHANGED storeVars
      BY <2>2, <3>2, QuietIf DEF Quiet, MainHands
    <3> QED
      BY <1>8, <3>1, <3>2 DEF RecoveryFails, Moves
  <2>4. UNCHANGED <<jobs, journals, manifests, outputs, report>>
    BY <2>3 DEF disk
  <2>5. /\ After \in {"returned"} \cup CommandKinds
        /\ After \in CommandKinds =>
              job # Health /\ ~job.explain /\ job.kind = After /\ (After = "search" \/ Local)
    BY <2>1, <2>2, AfterIs
  <2>6. executor' # "recovering"
    BY <2>1, <2>5 DEF CommandKinds
  <2> QED
    BY <2>1, <2>2, <2>3, <2>4, <2>5, <2>6, DispatchKeeps
<1> QED
  BY <1>3, <1>4, <1>5, <1>6, <1>7, <1>8 DEF Dispatch

-----------------------------------------------------------------------------
(* The plan of a search.                                                    *)
AllowedNext(answer, f, n) == IF n = 0 THEN <<>> ELSE Allow(f[n - 1], Canonical[answer[n]])

AllowedUpTo(answer, m, f) == f = [n \in 0..m |-> AllowedNext(answer, f, n)]

LEMMA AllowedExists == ASSUME NEW answer, NEW m \in Nat PROVE \E f : AllowedUpTo(answer, m, f)
<1> DEFINE G == {k \in Nat : \E f : AllowedUpTo(answer, k, f)}
<1>1. 0 \in G
  <2> DEFINE f == [n \in 0..0 |-> <<>>]
  <2>1. AllowedUpTo(answer, 0, f)
    BY DEF AllowedUpTo, AllowedNext
  <2> QED
    BY <2>1
<1>2. ASSUME NEW k \in Nat, k \in G PROVE k + 1 \in G
  <2>1. PICK f : AllowedUpTo(answer, k, f)
    BY <1>2
  <2> DEFINE g == [n \in 0..(k + 1) |-> IF n \in 0..k THEN f[n] ELSE AllowedNext(answer, f, n)]
  <2>2. \A n \in 0..(k + 1) : g[n] = AllowedNext(answer, f, n)
    BY <2>1 DEF AllowedUpTo
  <2>3. \A n \in 0..(k + 1) : n # 0 => g[n - 1] = f[n - 1]
    OBVIOUS
  <2>4. \A n \in 0..(k + 1) : AllowedNext(answer, g, n) = AllowedNext(answer, f, n)
    <3> HIDE DEF g
    <3> QED
      BY <2>3 DEF AllowedNext
  <2>5. AllowedUpTo(answer, k + 1, g)
    BY <2>2, <2>4 DEF AllowedUpTo
  <2> HIDE DEF g
  <2> QED
    BY <2>5
<1> HIDE DEF G
<1>3. Nat \subseteq G
  BY <1>1, <1>2, Induction
<1> QED
  BY <1>3 DEF G

LEMMA AllowedSteps ==
  ASSUME NEW answer \in Seq(Links)
  PROVE  \E f : /\ Allowed(answer) = f[Len(answer)] /\ f[0] = <<>>
                /\ \A n \in Nat : n + 1 <= Len(answer) =>
                     f[n + 1] = Allow(f[n], Canonical[answer[n + 1]])
<1> DEFINE f == CHOOSE f : AllowedUpTo(answer, Len(answer), f)
<1>1. Len(answer) \in Nat
  OBVIOUS
<1>2. AllowedUpTo(answer, Len(answer), f)
  BY <1>1, AllowedExists
<1>3. Allowed(answer) = f[Len(answer)]
  BY DEF Allowed, AllowedUpTo, AllowedNext
<1> HIDE DEF f
<1>4. \A n \in 0..Len(answer) : f[n] = AllowedNext(answer, f, n)
  BY <1>2 DEF AllowedUpTo
<1>5. f[0] = <<>>
  BY <1>1, <1>4 DEF AllowedNext
<1>6. ASSUME NEW n \in Nat, n + 1 <= Len(answer)
      PROVE  f[n + 1] = Allow(f[n], Canonical[answer[n + 1]])
  <2>1. n + 1 \in 0..Len(answer) /\ n + 1 # 0 /\ n + 1 - 1 = n
    BY <1>1, <1>6
  <2> QED
    BY <1>4, <2>1 DEF AllowedNext
<1> QED
  BY <1>3, <1>5, <1>6

(* The rank of a first mention among the first mentions.                    *)
Rank(answer, i) == Cardinality({j \in FirstMentions(answer) : j < i})

LEMMA RankFacts ==
  ASSUME NEW answer \in Seq(Links)
  PROVE  /\ FirstMentions(answer) \subseteq 1..Len(answer)
         /\ \A T \in SUBSET FirstMentions(answer) : IsFiniteSet(T) /\ Cardinality(T) \in Nat
         /\ \A i \in Nat : Rank(answer, i) \in Nat
         /\ \A i, j \in FirstMentions(answer) : i < j => Rank(answer, i) < Rank(answer, j)
<1> DEFINE F == FirstMentions(answer)
<1>1. F \subseteq 1..Len(answer) /\ Len(answer) \in Nat
  BY DEF FirstMentions
<1>2. \A T \in SUBSET F : IsFiniteSet(T) /\ Cardinality(T) \in Nat
  <2>1. IsFiniteSet(1..Len(answer))
    BY <1>1, FS_Interval
  <2> QED
    BY <1>1, <2>1, FS_Subset, FS_CardinalityType
<1> HIDE DEF F
<1>3. ASSUME NEW i \in Nat PROVE Rank(answer, i) \in Nat
  BY <1>2 DEF Rank, F
<1>4. ASSUME NEW i \in F, NEW j \in F, i < j PROVE Rank(answer, i) < Rank(answer, j)
  <2> DEFINE below == {k \in F : k < i}
             above == {k \in F : k < j}
  <2>1. below \cup {i} \in SUBSET above /\ i \notin below
    <3>1. i \in Nat /\ j \in Nat /\ \A k \in F : k \in Nat
      BY <1>1
    <3>2. \A k \in below : k \in above
      BY <1>4, <3>1
    <3>3. i \in above /\ i \notin below
      BY <1>4, <3>1
    <3> HIDE DEF below, above
    <3> QED
      BY <3>2, <3>3
  <2>2. IsFiniteSet(above) /\ IsFiniteSet(below) /\ Cardinality(below) \in Nat /\ Cardinality(above) \in Nat
    BY <1>2
  <2> HIDE DEF below, above
  <2>3. Cardinality(below \cup {i}) = Cardinality(below) + 1
    BY <2>1, <2>2, FS_AddElement
  <2>4. Cardinality(below \cup {i}) <= Cardinality(above)
    BY <2>1, <2>2, FS_Subset
  <2>5. Cardinality(below) < Cardinality(above)
    BY <2>2, <2>3, <2>4
  <2> QED
    BY <2>5 DEF Rank, below, above, F
<1> QED
  BY <1>1, <1>2, <1>3, <1>4 DEF F

(* What is allowed of the first n results are their first mentions.         *)
Lists(answer, n, d) ==
  /\ d \in Seq(Urls)
  /\ Len(d) = Cardinality({j \in FirstMentions(answer) : j <= n})
  /\ \A i \in FirstMentions(answer) :
       i <= n => Rank(answer, i) < Len(d) /\ d[Rank(answer, i) + 1] = Canonical[answer[i]]
  /\ \A i \in 1..n : Canonical[answer[i]] # Refused => \E k \in 1..Len(d) : d[k] = Canonical[answer[i]]
  /\ \A k \in 1..Len(d) : \E i \in 1..n : d[k] = Canonical[answer[i]]
  /\ \A r \in Nat : r < Len(d) => \E i \in FirstMentions(answer) : i <= n /\ Rank(answer, i) = r

LEMMA ListsOnMore ==
  ASSUME NEW answer \in Seq(Links), NEW n \in Nat, n + 1 <= Len(answer), NEW d, Lists(answer, n, d)
  PROVE  Lists(answer, n + 1, Allow(d, Canonical[answer[n + 1]]))
<1> DEFINE F == FirstMentions(answer)
           url == Canonical[answer[n + 1]]
           seen == {j \in F : j <= n}
           now == {j \in F : j <= n + 1}
<1>0. /\ d \in Seq(Urls) /\ Len(d) = Cardinality(seen)
      /\ \A i \in F :
           i <= n => Rank(answer, i) < Len(d) /\ d[Rank(answer, i) + 1] = Canonical[answer[i]]
      /\ \A i \in 1..n : Canonical[answer[i]] # Refused => \E k \in 1..Len(d) : d[k] = Canonical[answer[i]]
      /\ \A k \in 1..Len(d) : \E i \in 1..n : d[k] = Canonical[answer[i]]
      /\ \A r \in Nat : r < Len(d) => \E i \in F : i <= n /\ Rank(answer, i) = r
  BY DEF Lists
<1>1. /\ F \subseteq 1..Len(answer) /\ Len(answer) \in Nat /\ n + 1 \in 1..Len(answer)
      /\ Len(d) \in Nat /\ DOMAIN d = 1..Len(d) /\ IsFiniteSet(seen)
      /\ \A i \in F : Rank(answer, i) \in Nat /\ i \in Nat
  <2>1. seen \in SUBSET F
    OBVIOUS
  <2>2. F \subseteq 1..Len(answer) /\ IsFiniteSet(seen)
    BY <2>1, RankFacts
  <2>3. \A i \in Nat : Rank(answer, i) \in Nat
    BY RankFacts
  <2>4. Len(answer) \in Nat /\ n + 1 \in 1..Len(answer)
    OBVIOUS
  <2>5. Len(d) \in Nat /\ DOMAIN d = 1..Len(d)
    BY <1>0
  <2> HIDE DEF F
  <2>6. \A i \in F : i \in Nat
    BY <2>2, <2>4
  <2> QED
    BY <2>2, <2>3, <2>4, <2>5, <2>6
<1>2. url = Refused \/ url \in Urls
  BY <1>1 DEF Urls
<1>3. n + 1 \in F <=> (url # Refused /\ ~\E k \in DOMAIN d : d[k] = url)
  <2>1. n + 1 \in F <=> (url # Refused /\ \A j \in 1..n : Canonical[answer[j]] # url)
    BY <1>1 DEF FirstMentions
  <2> HIDE DEF F, url
  <2>a. \A i \in 1..n : Canonical[answer[i]] # Refused => \E k \in 1..Len(d) : d[k] = Canonical[answer[i]]
    BY <1>0
  <2>b. \A k \in 1..Len(d) : \E i \in 1..n : d[k] = Canonical[answer[i]]
    BY <1>0
  <2>2. ASSUME url # Refused
        PROVE  (\A j \in 1..n : Canonical[answer[j]] # url) <=> (~\E k \in 1..Len(d) : d[k] = url)
    <3>1. ASSUME NEW j \in 1..n, Canonical[answer[j]] = url PROVE \E k \in 1..Len(d) : d[k] = url
      BY <2>a, <2>2, <3>1
    <3>2. ASSUME NEW k \in 1..Len(d), d[k] = url PROVE \E j \in 1..n : Canonical[answer[j]] = url
      BY <2>b, <3>2
    <3> QED
      BY <3>1, <3>2
  <2> QED
    BY <1>1, <2>1, <2>2
<1>4. CASE n + 1 \notin F
  <2>1. Allow(d, url) = d
    BY <1>3, <1>4 DEF Allow
  <2>2. \A i \in F : i <= n + 1 <=> i <= n
    BY <1>1, <1>4
  <2>3. now = seen
    BY <2>2
  <2>4. url # Refused => \E k \in 1..Len(d) : d[k] = url
    BY <1>1, <1>3, <1>4
  <2>5. \A i \in 1..(n + 1) : i \in 1..n \/ i = n + 1
    OBVIOUS
  <2>6. \A i \in 1..n : i \in 1..(n + 1)
    OBVIOUS
  <2>7. \A i \in 1..(n + 1) : Canonical[answer[i]] # Refused => \E k \in 1..Len(d) : d[k] = Canonical[answer[i]]
    BY <1>0, <2>4, <2>5
  <2>8. \A k \in 1..Len(d) : \E i \in 1..(n + 1) : d[k] = Canonical[answer[i]]
    BY <1>0, <2>6
  <2>9. Len(d) = Cardinality({j \in F : j <= n + 1})
    BY <1>0, <2>3
  <2> HIDE DEF F, seen, now, url
  <2>10. Lists(answer, n + 1, d)
    BY <1>0, <2>2, <2>7, <2>8, <2>9 DEF Lists, F
  <2> QED
    BY <2>1, <2>10 DEF url
<1>5. CASE n + 1 \in F
  <2> DEFINE e == Append(d, url)
  <2>1. Allow(d, url) = e /\ url \in Urls
    BY <1>2, <1>3, <1>5 DEF Allow
  <2>2. /\ e \in Seq(Urls) /\ Len(e) = Len(d) + 1 /\ e[Len(d) + 1] = url
        /\ \A k \in 1..Len(d) : e[k] = d[k]
    <3>1. d \in Seq(Urls) /\ url \in Urls
      BY <1>0, <2>1
    <3> HIDE DEF url
    <3> QED
      BY <3>1
  <2> HIDE DEF e
  <2>3. \A i \in F : i <= n + 1 <=> (i <= n \/ i = n + 1)
    BY <1>1
  <2>4. now = seen \cup {n + 1} /\ n + 1 \notin seen
    BY <1>5, <2>3
  <2> HIDE DEF seen, now
  <2>5. Cardinality(now) = Len(e)
    <3>1. IsFiniteSet(seen) /\ Len(d) = Cardinality(seen)
      BY <1>0, <1>1
    <3>2. Cardinality(now) = Cardinality(seen) + 1
      BY <2>4, <3>1, FS_AddElement
    <3> QED
      BY <2>2, <3>1, <3>2
  <2> USE DEF seen, now
  <2>6. Rank(answer, n + 1) = Len(d)
    <3>1. {j \in F : j < n + 1} = seen
      BY <1>1
    <3> QED
      BY <1>0, <3>1 DEF Rank
  <2> HIDE DEF seen, now
  <2>7. ASSUME NEW i \in F, i <= n + 1
        PROVE  Rank(answer, i) < Len(e) /\ e[Rank(answer, i) + 1] = Canonical[answer[i]]
    <3>1. CASE i = n + 1
      BY <1>1, <2>2, <2>6, <3>1
    <3>2. CASE i <= n
      <4>1. Rank(answer, i) \in Nat /\ Rank(answer, i) < Len(d)
            /\ d[Rank(answer, i) + 1] = Canonical[answer[i]]
        BY <1>0, <1>1, <3>2
      <4>2. Rank(answer, i) + 1 \in 1..Len(d)
        BY <1>1, <4>1
      <4> QED
        BY <1>1, <2>2, <4>1, <4>2
    <3> QED
      BY <2>3, <2>7, <3>1, <3>2
  <2>8. ASSUME NEW i \in 1..(n + 1), Canonical[answer[i]] # Refused
        PROVE  \E k \in 1..Len(e) : e[k] = Canonical[answer[i]]
    <3>1. CASE i = n + 1
      BY <1>1, <2>2, <3>1
    <3>2. CASE i \in 1..n
      <4>1. PICK k \in 1..Len(d) : d[k] = Canonical[answer[i]]
        BY <1>0, <2>8, <3>2
      <4>2. k \in 1..Len(e) /\ e[k] = d[k]
        BY <1>1, <2>2
      <4> QED
        BY <4>1, <4>2
    <3> QED
      BY <3>1, <3>2
  <2>9. ASSUME NEW k \in 1..Len(e) PROVE \E i \in 1..(n + 1) : e[k] = Canonical[answer[i]]
    <3>1. CASE k = Len(d) + 1
      BY <2>2, <3>1
    <3>2. CASE k \in 1..Len(d)
      <4>1. PICK i \in 1..n : d[k] = Canonical[answer[i]]
        BY <1>0, <3>2
      <4> QED
        BY <2>2, <3>2, <4>1
    <3> QED
      BY <1>1, <2>2, <3>1, <3>2
  <2>10. ASSUME NEW r \in Nat, r < Len(e) PROVE \E i \in F : i <= n + 1 /\ Rank(answer, i) = r
    <3>1. CASE r = Len(d)
      BY <1>5, <2>6, <3>1
    <3>2. CASE r < Len(d)
      <4>1. PICK i \in F : i <= n /\ Rank(answer, i) = r
        BY <1>0, <3>2
      <4> QED
        BY <2>3, <4>1
    <3>3. Len(d) \in Nat /\ r < Len(d) + 1
      BY <1>1, <2>2, <2>10
    <3>4. r = Len(d) \/ r < Len(d)
      BY <3>3
    <3> QED
      BY <3>1, <3>2, <3>4
  <2>11. Len(e) = Cardinality({j \in F : j <= n + 1})
    BY <2>5 DEF now
  <2> HIDE DEF F, url
  <2>12. Lists(answer, n + 1, e)
    BY <2>2, <2>7, <2>8, <2>9, <2>10, <2>11 DEF Lists, F
  <2> QED
    BY <2>1, <2>12 DEF url
<1> QED
  BY <1>4, <1>5

LEMMA AllowedLists ==
  ASSUME NEW answer \in Seq(Links)
  PROVE  Lists(answer, Len(answer), Allowed(answer))
<1>1. PICK f : /\ Allowed(answer) = f[Len(answer)] /\ f[0] = <<>>
               /\ \A n \in Nat : n + 1 <= Len(answer) =>
                    f[n + 1] = Allow(f[n], Canonical[answer[n + 1]])
  BY AllowedSteps
<1> DEFINE G == {k \in Nat : k <= Len(answer) => Lists(answer, k, f[k])}
<1>2. 0 \in G
  <2>1. FirstMentions(answer) \subseteq 1..Len(answer)
    BY RankFacts
  <2>2. {j \in FirstMentions(answer) : j <= 0} = {} /\ Cardinality({}) = 0
    BY <2>1, FS_EmptySet
  <2>3. Lists(answer, 0, <<>>)
    <3>1. <<>> \in Seq(Urls) /\ Len(<<>>) = 0
      OBVIOUS
    <3>2. \A i \in FirstMentions(answer) : ~(i <= 0)
      BY <2>1
    <3>3. \A r \in Nat : ~(r < 0)
      OBVIOUS
    <3>4. 1..0 = {}
      OBVIOUS
    <3> QED
      BY <2>2, <3>1, <3>2, <3>3, <3>4 DEF Lists
  <2> QED
    BY <1>1, <2>3
<1>3. ASSUME NEW k \in Nat, k \in G PROVE k + 1 \in G
  BY <1>1, <1>3, ListsOnMore
<1> HIDE DEF G
<1>4. Nat \subseteq G
  BY <1>2, <1>3, Induction
<1>5. Len(answer) \in Nat
  OBVIOUS
<1> QED
  BY <1>1, <1>4, <1>5 DEF G

(* The plan is the fair one.                                                *)
FairPlan(answer) ==
  LET firsts == FirstMentions(answer)
      wanted == {i \in firsts : Cardinality({j \in firsts : j < i}) < ScrapeResults} IN
  [n \in 1..Cardinality(wanted) |->
     Canonical[answer[CHOOSE i \in wanted : Cardinality({j \in wanted : j < i}) = n - 1]]]

LEMMA PlansAreFair ==
  ASSUME NEW answer \in Seq(Links)
  PROVE  ScrapePlan(answer) \in Seq(Urls) /\ ScrapePlan(answer) = FairPlan(answer)
<1> DEFINE F == FirstMentions(answer)
           d == Allowed(answer)
           SR == ScrapeResults
           m == IF Len(d) < SR THEN Len(d) ELSE SR
           wanted == {i \in F : Rank(answer, i) < SR}
           before(i) == Cardinality({j \in wanted : j < i})
           nth(n) == CHOOSE i \in wanted : before(i) = n - 1
<1>1. SR \in Nat
  BY SearchAssumption
<1>2. /\ d \in Seq(Urls)
      /\ \A i \in F : Rank(answer, i) < Len(d) /\ d[Rank(answer, i) + 1] = Canonical[answer[i]]
      /\ \A r \in Nat : r < Len(d) => \E i \in F : Rank(answer, i) = r
      /\ Len(d) = Cardinality(F)
  <2>1. Lists(answer, Len(answer), d)
    BY AllowedLists
  <2>2. F \subseteq 1..Len(answer) /\ Len(answer) \in Nat
    BY RankFacts
  <2> HIDE DEF d, F
  <2>3. \A i \in F : i <= Len(answer)
    BY <2>2
  <2>4. {j \in F : j <= Len(answer)} = F
    BY <2>3
  <2>5. Len(d) = Cardinality({j \in F : j <= Len(answer)})
    BY <2>1 DEF Lists, F
  <2>6. d \in Seq(Urls)
    BY <2>1 DEF Lists
  <2>7. \A i \in F : Rank(answer, i) < Len(d) /\ d[Rank(answer, i) + 1] = Canonical[answer[i]]
    BY <2>1, <2>3 DEF Lists, F
  <2>8. \A r \in Nat : r < Len(d) => \E i \in F : Rank(answer, i) = r
    BY <2>1 DEF Lists, F
  <2> QED
    BY <2>4, <2>5, <2>6, <2>7, <2>8
<1>3. /\ \A i \in F : Rank(answer, i) \in Nat /\ i \in Nat
      /\ \A i, j \in F : i < j => Rank(answer, i) < Rank(answer, j)
  <2>1. F \subseteq 1..Len(answer) /\ Len(answer) \in Nat
    BY RankFacts
  <2>2. \A i \in Nat : Rank(answer, i) \in Nat
    BY RankFacts
  <2>3. \A i, j \in F : i < j => Rank(answer, i) < Rank(answer, j)
    BY RankFacts
  <2> HIDE DEF F
  <2> QED
    BY <2>1, <2>2, <2>3
<1>4. Len(d) \in Nat /\ m \in Nat /\ m <= Len(d) /\ m <= SR
  <2>1. Len(d) \in Nat
    BY <1>2
  <2> HIDE DEF d, SR
  <2> QED
    BY <1>1, <2>1
<1>5. ASSUME NEW i \in wanted PROVE before(i) = Rank(answer, i)
  <2> HIDE DEF F, SR
  <2>1. ASSUME NEW j \in F, j < i PROVE j \in wanted
    BY <1>1, <1>3, <2>1
  <2>2. {j \in wanted : j < i} = {j \in F : j < i}
    BY <2>1
  <2> QED
    BY <2>2 DEF Rank, F
<1>6. Cardinality(wanted) = m
  <2> HIDE DEF F, d, SR
  <2>1. CASE Len(d) <= SR
    <3>1. \A i \in F : Rank(answer, i) < SR
      BY <1>1, <1>2, <1>3, <1>4, <2>1
    <3>2. wanted = F
      BY <3>1
    <3>3. m = Len(d)
      BY <1>1, <1>4, <2>1
    <3> QED
      BY <1>2, <3>2, <3>3
  <2>2. CASE SR < Len(d)
    <3>1. PICK i \in F : Rank(answer, i) = SR
      BY <1>1, <1>2, <2>2
    <3>2. ASSUME NEW j \in F PROVE Rank(answer, j) < SR <=> j < i
      <4>1. i \in Nat /\ j \in Nat /\ Rank(answer, j) \in Nat
        BY <1>3
      <4>2. i < j => SR < Rank(answer, j)
        BY <1>3, <3>1
      <4>3. j < i => Rank(answer, j) < SR
        BY <1>3, <3>1
      <4>4. i = j => Rank(answer, j) = SR
        BY <3>1
      <4> QED
        BY <1>1, <4>1, <4>2, <4>3, <4>4
    <3>3. wanted = {j \in F : j < i}
      BY <3>2
    <3>4. m = SR
      BY <1>1, <1>4, <2>2
    <3> QED
      BY <3>1, <3>3, <3>4 DEF Rank, F
  <2> QED
    BY <1>1, <1>4, <2>1, <2>2
<1>7. ASSUME NEW n \in 1..m PROVE d[n] = Canonical[answer[nth(n)]]
  <2> HIDE DEF F, d, SR
  <2>1. n - 1 \in Nat /\ n - 1 < Len(d) /\ n - 1 < SR
    BY <1>1, <1>4
  <2>2. PICK i \in F : Rank(answer, i) = n - 1
    BY <1>2, <2>1
  <2>3. i \in wanted /\ before(i) = n - 1
    BY <1>5, <2>1, <2>2
  <2> HIDE DEF wanted, before
  <2>4. nth(n) \in wanted /\ before(nth(n)) = n - 1
    BY <2>3
  <2> HIDE DEF nth
  <2>5. nth(n) \in F /\ Rank(answer, nth(n)) = n - 1
    BY <1>5, <2>4 DEF wanted
  <2> QED
    BY <1>2, <2>1, <2>5
<1>8. ScrapePlan(answer) = SubSeq(d, 1, m)
  BY DEF ScrapePlan, Shortened
<1>9. SubSeq(d, 1, m) \in Seq(Urls) /\ SubSeq(d, 1, m) = [n \in 1..m |-> d[n]]
  <2> HIDE DEF d, m
  <2>1. 1 \in 1..(Len(d) + 1) /\ m \in Nat /\ m <= Len(d)
    BY <1>4
  <2>2. SubSeq(d, 1, m) \in Seq(Urls) /\ Len(SubSeq(d, 1, m)) = m
        /\ \A n \in 1..m : SubSeq(d, 1, m)[n] = d[n]
    BY <1>2, <1>4
  <2>3. SubSeq(d, 1, m) = [n \in 1..m |-> SubSeq(d, 1, m)[n]]
    BY <2>2
  <2> QED
    BY <2>2, <2>3
<1>10. FairPlan(answer) = [n \in 1..m |-> Canonical[answer[nth(n)]]]
  BY <1>6 DEF FairPlan, Rank
<1> HIDE DEF F, d, SR, m, wanted, before, nth
<1> QED
  BY <1>7, <1>8, <1>9, <1>10

-----------------------------------------------------------------------------
(* What the search has done so far is what its plan says.                   *)
SearchInv ==
  /\ search \in Search
  /\ search.plan = ScrapePlan(search.answer)
  /\ search.pc \in {"off", "asking"} => search.evidence = {}
  /\ search.pc = "off" => search.answer = <<>>
  /\ search.pc # "done" => search.status = None
  /\ search.pc = "sealing" /\ More => search.stopped
  /\ \A e \in search.evidence :
       /\ \E i \in 1..search.scraped : search.plan[i] = e.url
       /\ InStore(e.source)
  /\ search.pc = "done" /\ Sealed =>
       /\ manifests[Run] = SearchManifest(Run)
       /\ search.status = "partial"
       /\ More => search.stopped

LEMMA SearchFacts ==
  ASSUME EInv, SearchInv, executor = "search"
  PROVE  /\ TypeOK /\ DispatchInv /\ FilesInv /\ MainHands /\ Main \in Writers
         /\ pc = "idle" /\ command = "none" /\ Run \in Runs /\ faults \in BOOLEAN
         /\ Earlier \in Runs /\ Earlier # Run
         /\ search \in Search /\ job # Health /\ ~job.explain /\ job.kind = "search"
         /\ search.pc # "done" => manifests[Run] = None
<1>1. /\ TypeOK /\ DispatchInv /\ FilesInv /\ MainHands /\ Main \in Writers
      /\ Run \in Runs /\ faults \in BOOLEAN
  BY MainFacts
<1>2. /\ job # Health /\ ~job.explain /\ job.kind = "search"
  BY <1>1 DEF DispatchInv, CommandKinds
<1>3. pc = "idle" /\ command = "none"
  BY <1>1 DEF DispatchInv
<1>4. search.pc # "done" => manifests[Run] = None
  BY <1>1 DEF FilesInv
<1> QED
  BY <1>1, <1>2, <1>3, <1>4, ExecutorAssumption DEF SearchInv

SearchTask(q) == IF q \in {"job", "journal"} THEN q ELSE IF q = "sealing" THEN "manifest" ELSE "none"

LEMMA SearchTasks ==
  ASSUME EInv, SearchInv, executor = "search"
  PROVE  /\ op[Main].file = SearchTask(search.pc)
         /\ search.pc \in {"job", "journal"} => op[Main].value = Run
         /\ search.pc = "sealing" => op[Main].value = SearchManifest(Run)
<1>1. MainHands /\ pc = "idle"
  BY SearchFacts
<1>2. MainTask = SearchTask(search.pc)
  BY <1>1 DEF MainTask, SearchTask
<1> QED
  BY <1>1, <1>2 DEF MainHands, SearchTask

(* What a step of the search has to show.                                   *)
LEMMA SearchKeeps ==
  ASSUME EInv, SearchInv, executor = "search", UNCHANGED <<dispatchVars, commandVars>>,
         TypeOK', Others(Main), Grow,
         journals'[Run].refs \subseteq journals[Run].refs,
         jobs \subseteq jobs', jobs' \subseteq jobs \cup {Run}, report' = report,
         search'.pc # "done" => manifests'[Run] = None,
         search'.pc \in {"beginning", "job", "opened", "journal", "children", "sealing"} =>
           search'.answer # <<>>,
         Run \in jobs' => search'.answer # <<>>,
         op'[Main].file = SearchTask(search'.pc),
         search'.pc \in {"job", "journal"} => op'[Main].value = Run,
         search'.pc = "sealing" => op'[Main].value = SearchManifest(Run)
  PROVE  EInv'
<1>1. /\ DispatchInv /\ FilesInv /\ pc = "idle" /\ faults \in BOOLEAN
      /\ Earlier # Run /\ job # Health /\ ~job.explain /\ job.kind = "search"
  BY SearchFacts
<1>2. /\ UNCHANGED <<command, pc, page, batch, collected, draft, faults>>
      /\ UNCHANGED <<executor, job, registry>>
  BY DEF commandVars, dispatchVars
<1>3. MainHands'
  <2>1. MainTask' = SearchTask(search'.pc)
    BY <1>1, <1>2 DEF MainTask, SearchTask
  <2> QED
    BY <1>2, <2>1 DEF MainHands, SearchTask
<1>4. DispatchInv'
  BY <1>1, <1>2, SameJob DEF DispatchInv
<1>5. FilesInv'
  <2>1. Run \in jobs' => HasReason'
    BY <1>1, <1>2 DEF HasReason
  <2>2. Earlier \in jobs' => Earlier \in jobs
    BY <1>1
  <2> QED
    BY <1>1, <1>2, <2>1, <2>2 DEF FilesInv, CommandKinds
<1> QED
  BY <1>1, <1>2, <1>3, <1>4, <1>5, IdleKeeps

(* Steps that touch no file.                                                *)
LEMMA QuietSearch ==
  ASSUME EInv, SearchInv, executor = "search", UNCHANGED <<dispatchVars, commandVars>>,
         UNCHANGED storeVars, search.pc # "done",
         \/ search'.pc = search.pc
         \/ SearchTask(search.pc) = "none" /\ SearchTask(search'.pc) = "none",
         search'.answer # <<>> \/ search'.answer = search.answer,
         search'.pc \in {"beginning", "job", "opened", "journal", "children", "sealing"} =>
           search'.answer # <<>>
  PROVE  EInv'
<1>1. /\ TypeOK /\ FilesInv /\ job.kind = "search" /\ manifests[Run] = None
  BY SearchFacts
<1>2. /\ TypeOK' /\ Others(Main) /\ Grow /\ op' = op
      /\ UNCHANGED <<jobs, journals, objects, manifests, report, outputs>>
  BY <1>1, QuietIf DEF Quiet, disk, storeVars
<1>3. Run \in jobs => search.answer # <<>>
  BY <1>1 DEF FilesInv, HasReason
<1> QED
  BY <1>1, <1>2, <1>3, SearchTasks, SearchKeeps DEF SearchTask

(* What the fields of a search become.                                      *)
LEMMA SearchFields ==
  ASSUME search \in Search
  PROVE  /\ search.pc \in {"off", "asking", "beginning", "job", "opened", "journal", "children",
                           "sealing", "done", "threw"}
         /\ search.answer \in Seq(Links) /\ search.plan \in Seq(Urls) /\ search.scraped \in Nat
         /\ search.evidence \subseteq Evidence /\ search.status \in Status \cup {None}
BY DEF Search

LEMMA SearchGoesTo ==
  ASSUME search \in Search, NEW to \in {"off", "asking", "beginning", "job", "opened", "journal",
                                        "children", "sealing", "done", "threw"},
         search' = [search EXCEPT !.pc = to]
  PROVE  /\ search' \in Search /\ search'.pc = to
         /\ search'.answer = search.answer /\ search'.plan = search.plan
         /\ search'.scraped = search.scraped /\ search'.evidence = search.evidence
         /\ search'.stopped = search.stopped /\ search'.status = search.status
BY DEF Search

LEMMA SearchReturns ==
  ASSUME search \in Search, NEW status \in Status,
         search' = [search EXCEPT !.pc = "done", !.status = status]
  PROVE  /\ search' \in Search /\ search'.pc = "done"
         /\ search'.answer = search.answer /\ search'.plan = search.plan
         /\ search'.scraped = search.scraped /\ search'.evidence = search.evidence
         /\ search'.stopped = search.stopped /\ search'.status = status
BY DEF Search

LEMMA SearchStops ==
  ASSUME search \in Search, search' = [search EXCEPT !.stopped = TRUE]
  PROVE  /\ search' \in Search /\ search'.pc = search.pc
         /\ search'.answer = search.answer /\ search'.plan = search.plan
         /\ search'.scraped = search.scraped /\ search'.evidence = search.evidence
         /\ search'.stopped /\ search'.status = search.status
BY DEF Search

LEMMA SearchAnswered ==
  ASSUME search \in Search, NEW answer \in Seq(Links), NEW plan \in Seq(Urls),
         search' = [search EXCEPT !.pc = "beginning", !.answer = answer, !.plan = plan]
  PROVE  /\ search' \in Search /\ search'.pc = "beginning"
         /\ search'.answer = answer /\ search'.plan = plan
         /\ search'.scraped = search.scraped /\ search'.evidence = search.evidence
         /\ search'.stopped = search.stopped /\ search'.status = search.status
BY DEF Search

LEMMA SearchScrapes ==
  ASSUME search \in Search, NEW evidence \in SUBSET Evidence,
         search' = [search EXCEPT !.scraped = search.scraped + 1, !.evidence = evidence]
  PROVE  /\ search' \in Search /\ search'.pc = search.pc
         /\ search'.answer = search.answer /\ search'.plan = search.plan
         /\ search'.scraped = search.scraped + 1 /\ search'.evidence = evidence
         /\ search'.stopped = search.stopped /\ search'.status = search.status
<1>1. PICK n \in Nat : n = search.scraped + 1
  BY SearchFields
<1> QED
  BY <1>1 DEF Search

LEMMA SearchSkips ==
  ASSUME search \in Search, search' = [search EXCEPT !.scraped = search.scraped + 1]
  PROVE  /\ search' \in Search /\ search'.pc = search.pc
         /\ search'.answer = search.answer /\ search'.plan = search.plan
         /\ search'.scraped = search.scraped + 1 /\ search'.evidence = search.evidence
         /\ search'.stopped = search.stopped /\ search'.status = search.status
<1>1. PICK n \in Nat : n = search.scraped + 1
  BY SearchFields
<1> QED
  BY <1>1 DEF Search

(* Steps that leave the plan and the evidence alone.                        *)
LEMMA SearchInvKept ==
  ASSUME EInv, SearchInv, Grow, search' \in Search,
         search'.answer = search.answer, search'.plan = search.plan,
         search'.scraped = search.scraped, search'.evidence = search.evidence,
         search'.pc = "off" => search.pc = "off",
         search'.pc \in {"off", "asking"} => search.pc \in {"off", "asking"},
         search'.pc # "done" => search'.status = None,
         search'.pc = "sealing" /\ More => search'.stopped,
         search'.pc = "done" /\ Sealed' =>
           /\ manifests'[Run] = SearchManifest(Run)
           /\ search'.status = "partial"
           /\ More => search'.stopped
  PROVE  SearchInv'
<1>1. More' <=> More
  BY DEF More
<1>2. \A o : InStore(o) => InStore(o)'
  BY MainFacts, StoreKept
<1>3. \A e \in search'.evidence : (\E i \in 1..search'.scraped : search'.plan[i] = e.url) /\ InStore(e.source)'
  BY <1>2 DEF SearchInv
<1> QED
  BY <1>1, <1>3 DEF SearchInv

(* Steps of the search that start, stop or end it without a file.           *)
LEMMA QuietSearchSteps ==
  ASSUME EInv, SearchInv, executor = "search", UNCHANGED <<dispatchVars, commandVars>>,
         StartSearch \/ ProviderFails \/ ChildThrows \/ StopSearch
  PROVE  EInv' /\ SearchInv'
<1>1. /\ search \in Search /\ (search.pc # "done" => manifests[Run] = None) /\ TypeOK
      /\ FilesInv
      /\ search.pc # "done" => search.status = None
  BY SearchFacts DEF SearchInv
<1>2. UNCHANGED storeVars
  BY DEF StartSearch, ProviderFails, ChildThrows, StopSearch
<1>3. Grow /\ manifests' = manifests
  BY <1>2 DEF Grow, storeVars
<1>4. ASSUME search.pc # "done", NEW to \in {"asking", "threw"}, search' = [search EXCEPT !.pc = to],
             SearchTask(search.pc) = "none", to = "asking" => search.pc = "off"
      PROVE  EInv' /\ SearchInv'
  <2>1. /\ search' \in Search /\ search'.pc = to
        /\ search'.answer = search.answer /\ search'.plan = search.plan
        /\ search'.scraped = search.scraped /\ search'.evidence = search.evidence
        /\ search'.stopped = search.stopped /\ search'.status = search.status
    BY <1>1, <1>4, SearchGoesTo
  <2>2. EInv'
    BY <1>2, <1>4, <2>1, QuietSearch DEF SearchTask
  <2>3. SearchInv'
    BY <1>1, <1>3, <1>4, <2>1, SearchInvKept
  <2> QED
    BY <2>2, <2>3
<1>5. ASSUME search.pc \in {"off", "asking"}, NEW status \in Status,
             search' = [search EXCEPT !.pc = "done", !.status = status]
      PROVE  EInv' /\ SearchInv'
  <2>1. /\ search' \in Search /\ search'.pc = "done"
        /\ search'.answer = search.answer /\ search'.plan = search.plan
        /\ search'.scraped = search.scraped /\ search'.evidence = search.evidence
        /\ search'.stopped = search.stopped
    BY <1>1, <1>5, SearchReturns
  <2>2. EInv'
    BY <1>2, <1>5, <2>1, QuietSearch DEF SearchTask
  <2>3. ~Sealed'
    BY <1>1, <1>3, <1>5 DEF Sealed
  <2>4. SearchInv'
    BY <1>1, <1>3, <1>5, <2>1, <2>3, SearchInvKept
  <2> QED
    BY <2>2, <2>4
<1>6. CASE StartSearch
  <2>1. \/ SearchReturn("off", "exhausted") \/ SearchReturn("off", "interrupted")
        \/ SearchTurn("off", "asking")
    BY <1>6 DEF StartSearch
  <2> QED
    BY <1>4, <1>5, <2>1 DEF SearchReturn, SearchTurn, SearchTask, Status
<1>7. CASE ProviderFails
  BY <1>5, <1>7 DEF ProviderFails, SearchReturn, Status
<1>8. CASE ChildThrows
  BY <1>4, <1>8 DEF ChildThrows, SearchTurn, SearchTask
<1>9. CASE StopSearch
  <2>1. /\ search.pc # "done" /\ search' = [search EXCEPT !.stopped = TRUE]
    BY <1>9 DEF StopSearch
  <2>2. /\ search' \in Search /\ search'.pc = search.pc
        /\ search'.answer = search.answer /\ search'.plan = search.plan
        /\ search'.scraped = search.scraped /\ search'.evidence = search.evidence
        /\ search'.stopped /\ search'.status = search.status
    BY <1>1, <2>1, SearchStops
  <2>3. EInv'
    <3>1. search.pc \in {"beginning", "job", "opened", "journal", "children", "sealing"} =>
            search.answer # <<>>
      BY <1>1 DEF FilesInv
    <3> QED
      BY <1>2, <2>1, <2>2, <3>1, QuietSearch
  <2>4. SearchInv'
    BY <1>1, <1>3, <2>1, <2>2, SearchInvKept
  <2> QED
    BY <2>3, <2>4
<1> QED
  BY <1>6, <1>7, <1>8, <1>9

(* The provider answers, and its plan is made.                              *)
LEMMA AnswerKeeps ==
  ASSUME EInv, SearchInv, executor = "search", UNCHANGED <<dispatchVars, commandVars>>,
         NEW answer \in Answers, ProviderAnswers(answer)
  PROVE  EInv' /\ SearchInv'
<1>1. /\ search \in Search /\ manifests[Run] = None /\ search.pc = "asking" /\ answer # <<>>
      /\ search.status = None /\ search.evidence = {}
  BY SearchFacts DEF SearchInv, ProviderAnswers
<1>2. answer \in Seq(Links) /\ ScrapePlan(answer) \in Seq(Urls)
  BY PlansAreFair, SearchAssumption
<1>3. PICK plan \in Seq(Urls) : plan = ScrapePlan(answer)
  BY <1>2
<1>4. search' = [search EXCEPT !.pc = "beginning", !.answer = answer, !.plan = plan]
      /\ UNCHANGED storeVars
  BY <1>3 DEF ProviderAnswers
<1>5. /\ search' \in Search /\ search'.pc = "beginning"
      /\ search'.answer = answer /\ search'.plan = plan
      /\ search'.evidence = search.evidence /\ search'.status = search.status
  BY <1>1, <1>2, <1>4, SearchAnswered
<1>6. EInv'
  BY <1>1, <1>4, <1>5, QuietSearch DEF SearchTask
<1>7. SearchInv'
  BY <1>1, <1>3, <1>5 DEF SearchInv
<1> QED
  BY <1>6, <1>7

(* A child is scraped: what it stored is evidence of its candidate.         *)
LEMMA ScrapeKeeps ==
  ASSUME EInv, SearchInv, executor = "search", UNCHANGED <<dispatchVars, commandVars>>,
         NEW o \in Sources, ScrapeWith(o)
  PROVE  EInv' /\ SearchInv'
<1>1. /\ search \in Search /\ search.pc = "children" /\ More /\ manifests[Run] = None
      /\ search.status = None /\ TypeOK /\ FilesInv /\ Run \in Runs /\ Main \in Writers
      /\ o \in Objects
  BY SearchFacts, SearchAssumption DEF SearchInv, ScrapeWith
<1>2. /\ objects' = [objects EXCEPT ![o] = "intact"]
      /\ UNCHANGED <<jobs, journals, manifests, cache, report, outputs, op>>
  BY DEF ScrapeWith
<1>3. objects \in [Objects -> {"absent", "intact", "damaged"}]
  BY <1>1 DEF TypeOK
<1>4. Grow /\ objects'[o] = "intact" /\ objects' \in [Objects -> {"absent", "intact", "damaged"}]
  BY <1>1, <1>2, <1>3 DEF Grow
<1>5. TypeOK'
  <2>1. /\ jobs' \subseteq Runs
        /\ journals' \in [Runs -> Journal]
        /\ manifests' \in [Runs -> Manifest \cup {None}]
        /\ cache' \in CacheRecord \cup {None}
        /\ report' \in Report \cup {None}
        /\ outputs' \in [Runs -> Objects \cup {None}]
        /\ op' \in [Writers -> [phase: Phase, file: File, value: Value]]
    BY <1>1, <1>2 DEF TypeOK
  <2>2. \A w \in Writers : /\ ValueOK(op[w].file, op[w].value)'
                           /\ ((op[w].phase = "append") <=> (op[w].file = "line"))'
                           /\ ((op[w].phase = "idle") <=> (op[w].file = "none"))'
    BY <1>1, <1>2 DEF TypeOK, ValueOK
  <2> QED
    BY <1>4, <2>1, <2>2 DEF TypeOK
<1>6. PICK n \in Nat : n = search.scraped /\ n < Len(search.plan)
  BY <1>1, SearchFields DEF More
<1>7. PICK url \in Urls : url = search.plan[n + 1]
  <2>1. search.plan \in Seq(Urls)
    BY <1>1, SearchFields
  <2>2. PICK plan \in Seq(Urls) : plan = search.plan
    BY <2>1
  <2>3. plan[n + 1] \in Urls
    BY <1>6, <2>2
  <2> QED
    BY <2>2, <2>3
<1>8. PICK evidence \in SUBSET Evidence : evidence = search.evidence \cup {[url |-> url, source |-> o]}
  <2>1. [url |-> url, source |-> o] \in Evidence
    BY <1>1 DEF Evidence
  <2>2. search.evidence \subseteq Evidence
    BY <1>1, SearchFields
  <2> QED
    BY <2>1, <2>2
<1>9. search' = [search EXCEPT !.scraped = search.scraped + 1, !.evidence = evidence]
  BY <1>6, <1>7, <1>8 DEF ScrapeWith
<1>10. /\ search' \in Search /\ search'.pc = search.pc
       /\ search'.answer = search.answer /\ search'.plan = search.plan
       /\ search'.scraped = search.scraped + 1 /\ search'.evidence = evidence
       /\ search'.stopped = search.stopped /\ search'.status = search.status
  BY <1>1, <1>9, SearchScrapes
<1>11. EInv'
  <2>1. search.answer # <<>> /\ op[Main].file = "none"
    BY <1>1, SearchTasks DEF FilesInv, SearchTask
  <2>2. Others(Main) /\ SearchTask(search'.pc) = "none"
    BY <1>1, <1>2, <1>10 DEF Others, SearchTask
  <2> QED
    BY <1>1, <1>2, <1>4, <1>5, <1>10, <2>1, <2>2, SearchKeeps
<1>12. SearchInv'
  <2>1. \A h : InStore(h) => InStore(h)'
    BY <1>1, <1>4, StoreKept
  <2>2. InStore(o)'
    BY <1>1, <1>4 DEF InStore
  <2>3. n \in Nat /\ search'.scraped = n + 1
    BY <1>6, <1>10
  <2>4. ASSUME NEW e \in search'.evidence
        PROVE  (\E i \in 1..search'.scraped : search'.plan[i] = e.url) /\ InStore(e.source)'
    <3>1. CASE e \in search.evidence
      <4>1. PICK i \in 1..n : search.plan[i] = e.url
        BY <1>6, <3>1 DEF SearchInv
      <4>2. i \in 1..(n + 1)
        BY <2>3
      <4>3. InStore(e.source)'
        BY <2>1, <3>1 DEF SearchInv
      <4> QED
        BY <1>10, <2>3, <4>1, <4>2, <4>3
    <3>2. CASE e = [url |-> url, source |-> o]
      <4>1. n + 1 \in 1..(n + 1)
        BY <2>3
      <4> QED
        BY <1>7, <1>10, <2>2, <2>3, <3>2, <4>1
    <3> QED
      BY <1>8, <1>10, <3>1, <3>2
  <2> QED
    BY <1>1, <1>10, <2>4 DEF SearchInv
<1> QED
  BY <1>11, <1>12

LEMMA ScrapeWithoutKeeps ==
  ASSUME EInv, SearchInv, executor = "search", UNCHANGED <<dispatchVars, commandVars>>, ScrapeWithout
  PROVE  EInv' /\ SearchInv'
<1>1. /\ search \in Search /\ search.pc = "children" /\ search.status = None /\ TypeOK /\ FilesInv
      /\ search' = [search EXCEPT !.scraped = search.scraped + 1] /\ UNCHANGED storeVars
  BY SearchFacts DEF SearchInv, ScrapeWithout
<1>2. /\ search' \in Search /\ search'.pc = search.pc
      /\ search'.answer = search.answer /\ search'.plan = search.plan
      /\ search'.scraped = search.scraped + 1 /\ search'.evidence = search.evidence
      /\ search'.stopped = search.stopped /\ search'.status = search.status
  BY <1>1, SearchSkips
<1>3. EInv'
  <2>1. search.answer # <<>>
    BY <1>1 DEF FilesInv
  <2> QED
    BY <1>1, <1>2, <2>1, QuietSearch
<1>4. SearchInv'
  <2>1. Grow
    BY <1>1 DEF Grow, storeVars
  <2>2. \A h : InStore(h) => InStore(h)'
    BY <1>1, <2>1, StoreKept
  <2>3. PICK n \in Nat : n = search.scraped
    BY <1>1, SearchFields
  <2>4. \A i \in 1..n : i \in 1..(n + 1)
    OBVIOUS
  <2>5. \A e \in search'.evidence : (\E i \in 1..search'.scraped : search'.plan[i] = e.url) /\ InStore(e.source)'
    <3>1. \A e \in search.evidence : (\E i \in 1..n : search.plan[i] = e.url) /\ InStore(e.source)
      BY <2>3 DEF SearchInv
    <3> QED
      BY <1>2, <2>2, <2>3, <2>4, <3>1
  <2> QED
    BY <1>1, <1>2, <2>5 DEF SearchInv
<1> QED
  BY <1>3, <1>4

(* Steps of the search that move it along with an operation of the store.   *)
LEMMA SearchMoves ==
  ASSUME EInv, SearchInv, executor = "search", UNCHANGED <<dispatchVars, commandVars>>,
         NEW to \in {"job", "opened", "journal", "children", "sealing", "threw"},
         search.pc \notin {"off", "done"}, search' = [search EXCEPT !.pc = to],
         to # "threw" => search.answer # <<>>,
         TypeOK', Others(Main), Grow, journals'[Run].refs \subseteq journals[Run].refs,
         jobs \subseteq jobs', jobs' \subseteq jobs \cup {Run},
         to # "threw" \/ jobs' = jobs,
         report' = report, manifests'[Run] = None,
         op'[Main].file = SearchTask(to),
         to \in {"job", "journal"} => op'[Main].value = Run,
         to = "sealing" => op'[Main].value = SearchManifest(Run) /\ (More => search.stopped)
  PROVE  EInv' /\ SearchInv'
<1>1. search \in Search /\ search.status = None /\ FilesInv /\ job.kind = "search"
  BY SearchFacts DEF SearchInv
<1>2. /\ search' \in Search /\ search'.pc = to
      /\ search'.answer = search.answer /\ search'.plan = search.plan
      /\ search'.scraped = search.scraped /\ search'.evidence = search.evidence
      /\ search'.stopped = search.stopped /\ search'.status = search.status
  BY <1>1, SearchGoesTo
<1>3. Run \in jobs' => search.answer # <<>>
  BY <1>1 DEF FilesInv, HasReason
<1>4. EInv'
  BY <1>2, <1>3, SearchKeeps
<1>5. SearchInv'
  BY <1>1, <1>2, SearchInvKept
<1> QED
  BY <1>4, <1>5

LEMMA SearchFileKeeps ==
  ASSUME EInv, SearchInv, executor = "search", UNCHANGED <<dispatchVars, commandVars>>,
         SearchBegins(Main, Run) \/ SearchWriteFails(Main) \/ SearchFlush(Main)
  PROVE  EInv' /\ SearchInv'
<1>1. /\ TypeOK /\ FilesInv /\ Main \in Writers /\ Run \in Runs /\ search \in Search
      /\ op[Main].file = SearchTask(search.pc)
      /\ search.pc \in {"job", "journal"} => op[Main].value = Run
      /\ search.pc = "sealing" => op[Main].value = SearchManifest(Run)
      /\ search.pc # "done" => manifests[Run] = None
  BY SearchFacts, SearchTasks
<1>2. search.pc \in {"beginning", "job", "opened", "journal", "children", "sealing"} =>
        search.answer # <<>>
  BY <1>1 DEF FilesInv
<1>3. ASSUME SearchTurn("beginning", "job"), CreateJob(Main, Run)
      PROVE  EInv' /\ SearchInv'
  <2>1. Start(Main, "job", Run) /\ search.pc = "beginning" /\ search' = [search EXCEPT !.pc = "job"]
    BY <1>3 DEF CreateJob, SearchTurn
  <2>2. /\ TypeOK' /\ Others(Main) /\ UNCHANGED disk /\ Grow
        /\ op'[Main].file = "job" /\ op'[Main].value = Run
    BY <1>1, <2>1, StartDoes DEF File, ValueOK
  <2>3. UNCHANGED <<jobs, journals, objects, manifests, report>>
    BY <2>2 DEF disk
  <2> QED
    BY <1>1, <1>2, <2>1, <2>2, <2>3, SearchMoves DEF SearchTask
<1>4. ASSUME SearchTurn("opened", "journal"), CreateJournal(Main, Run)
      PROVE  EInv' /\ SearchInv'
  <2>1. /\ Start(Main, "journal", Run) /\ search.pc = "opened"
        /\ search' = [search EXCEPT !.pc = "journal"]
    BY <1>4 DEF CreateJournal, SearchTurn
  <2>2. /\ TypeOK' /\ Others(Main) /\ UNCHANGED disk /\ Grow
        /\ op'[Main].file = "journal" /\ op'[Main].value = Run
    BY <1>1, <2>1, StartDoes DEF File, ValueOK
  <2>3. UNCHANGED <<jobs, journals, objects, manifests, report>>
    BY <2>2 DEF disk
  <2> QED
    BY <1>1, <1>2, <2>1, <2>2, <2>3, SearchMoves DEF SearchTask
<1>5. ASSUME SearchTurn("job", "opened"), Rename(Main)
      PROVE  EInv' /\ SearchInv'
  <2>1. /\ search.pc = "job" /\ search' = [search EXCEPT !.pc = "opened"]
        /\ op[Main].file = "job" /\ op[Main].value = Run
    BY <1>1, <1>5 DEF SearchTurn, SearchTask
  <2>2. /\ TypeOK' /\ Others(Main) /\ Grow /\ op'[Main].file = "none"
        /\ jobs' = jobs \cup {Run} /\ UNCHANGED <<journals, objects, manifests, report>>
    BY <1>1, <1>5, <2>1, RenameDoes
  <2> QED
    BY <1>1, <1>2, <2>1, <2>2, SearchMoves DEF SearchTask
<1>6. ASSUME SearchTurn("journal", "children"), Rename(Main)
      PROVE  EInv' /\ SearchInv'
  <2>1. /\ search.pc = "journal" /\ search' = [search EXCEPT !.pc = "children"]
        /\ op[Main].file = "journal" /\ op[Main].value = Run
    BY <1>1, <1>6 DEF SearchTurn, SearchTask
  <2>2. /\ TypeOK' /\ Others(Main) /\ Grow /\ op'[Main].file = "none"
        /\ UNCHANGED <<jobs, objects, manifests, report>>
        /\ journals' = [journals EXCEPT ![op[Main].value] =
                          [exists |-> TRUE, torn |-> FALSE, refs |-> {}]]
    BY <1>1, <1>6, <2>1, RenameDoes
  <2>3. journals'[Run].refs = {}
    BY <1>1, <2>1, <2>2 DEF TypeOK
  <2> QED
    BY <1>1, <1>2, <2>1, <2>2, <2>3, SearchMoves DEF SearchTask
<1>7. ASSUME SearchWriteFails(Main) PROVE EInv' /\ SearchInv'
  <2>1. /\ search.pc \notin {"off", "threw", "done"} /\ search' = [search EXCEPT !.pc = "threw"]
        /\ WriteFails(Main)
    BY <1>7 DEF SearchWriteFails
  <2>2. /\ TypeOK' /\ Others(Main) /\ UNCHANGED disk /\ Grow /\ op'[Main].file = "none"
    BY <1>1, <2>1, GiveUpDoes
  <2>3. UNCHANGED <<jobs, journals, objects, manifests, report>>
    BY <2>2 DEF disk
  <2> QED
    BY <1>1, <1>2, <2>1, <2>2, <2>3, SearchMoves DEF SearchTask
<1>8. ASSUME SearchFlush(Main) PROVE EInv' /\ SearchInv'
  <2>1. /\ search.pc \notin {"off", "threw", "done"} /\ search' = search /\ Stage(Main)
    BY <1>8 DEF SearchFlush
  <2>2. /\ TypeOK' /\ Others(Main) /\ UNCHANGED disk /\ Grow
        /\ op'[Main].file = op[Main].file /\ op'[Main].value = op[Main].value
    BY <1>1, <2>1, StageDoes
  <2>3. UNCHANGED <<jobs, journals, objects, manifests, report>>
    BY <2>2 DEF disk
  <2>4. Run \in jobs => search.answer # <<>>
    BY <1>1, SearchFacts DEF FilesInv, HasReason
  <2>5. EInv'
    BY <1>1, <1>2, <2>1, <2>2, <2>3, <2>4, SearchKeeps
  <2>6. SearchInv'
    BY <1>1, <2>1, <2>2, SearchInvKept DEF SearchInv
  <2> QED
    BY <2>5, <2>6
<1> QED
  BY <1>3, <1>4, <1>5, <1>6, <1>7, <1>8 DEF SearchBegins

(* The search is sealed.                                                    *)
LEMMA SealingKeeps ==
  ASSUME EInv, SearchInv, executor = "search", UNCHANGED <<dispatchVars, commandVars>>,
         SearchSeals(Main, Run)
  PROVE  EInv' /\ SearchInv'
<1>1. /\ TypeOK /\ FilesInv /\ Main \in Writers /\ Run \in Runs /\ search \in Search
      /\ op[Main].file = SearchTask(search.pc)
      /\ search.pc = "sealing" => op[Main].value = SearchManifest(Run)
      /\ search.pc # "done" => manifests[Run] = None
      /\ search.pc = "sealing" /\ More => search.stopped
  BY SearchFacts, SearchTasks DEF SearchInv
<1>2. search.pc \in {"children", "sealing"} => search.answer # <<>>
  BY <1>1 DEF FilesInv
<1>3. PICK m \in Manifest : m = SearchManifest(Run)
  BY <1>1 DEF SearchManifest, Manifest, Status
<1>4. ASSUME ~More \/ search.stopped, SearchTurn("children", "sealing"),
             CommitManifest(Main, SearchManifest(Run))
      PROVE  EInv' /\ SearchInv'
  <2>1. /\ Start(Main, "manifest", m) /\ search.pc = "children"
        /\ search' = [search EXCEPT !.pc = "sealing"]
    BY <1>3, <1>4 DEF CommitManifest, SearchTurn
  <2>2. /\ TypeOK' /\ Others(Main) /\ UNCHANGED disk /\ Grow
        /\ op'[Main].file = "manifest" /\ op'[Main].value = m
    BY <1>1, <2>1, StartDoes DEF File, ValueOK
  <2>3. UNCHANGED <<jobs, journals, objects, manifests, report>>
    BY <2>2 DEF disk
  <2> QED
    BY <1>1, <1>2, <1>3, <1>4, <2>1, <2>2, <2>3, SearchMoves DEF SearchTask
<1>5. ASSUME SearchReturn("sealing", "partial"), Rename(Main)
      PROVE  EInv' /\ SearchInv'
  <2>1. /\ search.pc = "sealing" /\ search' = [search EXCEPT !.pc = "done", !.status = "partial"]
        /\ op[Main].file = "manifest" /\ op[Main].value = m
    BY <1>1, <1>3, <1>5 DEF SearchReturn, SearchTask
  <2>2. /\ search' \in Search /\ search'.pc = "done"
        /\ search'.answer = search.answer /\ search'.plan = search.plan
        /\ search'.scraped = search.scraped /\ search'.evidence = search.evidence
        /\ search'.stopped = search.stopped /\ search'.status = "partial"
    BY <1>1, <2>1, SearchReturns DEF Status
  <2>3. /\ TypeOK' /\ Others(Main) /\ Grow /\ op'[Main].file = "none"
        /\ UNCHANGED <<jobs, journals, objects, report, outputs>>
        /\ manifests' = [manifests EXCEPT ![op[Main].value.run] = op[Main].value]
    BY <1>1, <1>5, <2>1, RenameDoes
  <2>4. manifests'[Run] = m
    <3>1. m.run = Run
      BY <1>3 DEF SearchManifest
    <3> QED
      BY <1>1, <2>1, <2>3, <3>1 DEF TypeOK
  <2>5. Run \in jobs => search.answer # <<>>
    BY <1>2, <2>1
  <2>6. EInv'
    BY <1>1, <1>2, <2>1, <2>2, <2>3, <2>5, SearchKeeps DEF SearchTask
  <2>7. SearchInv'
    BY <1>1, <1>3, <2>1, <2>2, <2>3, <2>4, SearchInvKept
  <2> QED
    BY <2>6, <2>7
<1> QED
  BY <1>4, <1>5 DEF SearchSeals

LEMMA SearchStepKeeps ==
  ASSUME EInv, SearchInv, RunSearch \/ SearchFaults
  PROVE  EInv' /\ SearchInv'
<1>1. executor = "search" /\ UNCHANGED <<dispatchVars, commandVars>>
  BY DEF RunSearch, SearchFaults
<1>2. \/ StartSearch \/ ProviderFails \/ ChildThrows \/ StopSearch
      \/ \E answer \in Answers : ProviderAnswers(answer)
      \/ ScrapeWithout \/ \E o \in Sources : ScrapeWith(o)
      \/ SearchBegins(Main, Run) \/ SearchWriteFails(Main) \/ SearchFlush(Main)
      \/ SearchSeals(Main, Run)
  BY DEF RunSearch, SearchFaults, SearchStep
<1> QED
  BY <1>1, <1>2, QuietSearchSteps, AnswerKeeps, ScrapeKeeps, ScrapeWithoutKeeps,
     SearchFileKeeps, SealingKeeps

(* Steps of the rest of the executor.                                       *)
LEMMA SearchInvRests ==
  ASSUME SearchInv, search.pc = "off", UNCHANGED search
  PROVE  SearchInv'
BY DEF SearchInv, More

LEMMA RestSteps ==
  ASSUME EInv, SearchInv, RunRoute \/ UNCHANGED vars
  PROVE  EInv' /\ SearchInv'
<1>1. UNCHANGED <<dispatchVars, search, commandVars>> /\ UNCHANGED storeVars
  BY DEF RunRoute, vars
<1>2. TypeOK
  BY MainFacts
<1>3. TypeOK' /\ Grow /\ UNCHANGED <<op, jobs, journals, manifests, report, outputs>>
  BY <1>1, <1>2, QuietIf DEF Quiet, storeVars
<1>4. EInv'
  BY <1>1, <1>3, RestKeeps
<1>5. SearchInv'
  <2>1. \A o : InStore(o) => InStore(o)'
    BY <1>2, <1>3, StoreKept
  <2>2. More' <=> More
    BY <1>1 DEF More
  <2>3. Sealed' <=> Sealed
    BY <1>3 DEF Sealed
  <2> QED
    BY <1>1, <1>3, <2>1, <2>2, <2>3 DEF SearchInv
<1> QED
  BY <1>4, <1>5

LEMMA SearchIsOff ==
  ASSUME EInv, executor # "search"
  PROVE  search.pc = "off"
BY MainFacts DEF DispatchInv

(* Every step of the executor keeps both.                                   *)
LEMMA ExecutorKeeps == EInv /\ SearchInv /\ [Next]_vars => EInv' /\ SearchInv'
<1> SUFFICES ASSUME EInv, SearchInv, [Next]_vars
             PROVE  EInv' /\ SearchInv'
  OBVIOUS
<1>1. CASE Dispatch \/ RecoveryFails
  <2>1. executor # "search" /\ UNCHANGED search
    BY <1>1 DEF Dispatch, RecoveryFails, Explain, ToRoute, InvalidSchema, StartRecovery, NoRecovery,
                EndRecovery, Moves, CommandsKeep
  <2> QED
    BY <1>1, <2>1, DispatchStepKeeps, SearchIsOff, SearchInvRests
<1>2. CASE RunCommand \/ CommandFaults
  <2>1. executor # "search" /\ UNCHANGED search
    BY <1>2 DEF RunCommand, CommandFaults
  <2> QED
    BY <1>2, <2>1, CommandKeeps, SearchIsOff, SearchInvRests
<1>3. CASE RunSearch \/ SearchFaults
  BY <1>3, SearchStepKeeps
<1>4. CASE RunRoute \/ UNCHANGED vars
  BY <1>4, RestSteps
<1> QED
  BY <1>1, <1>2, <1>3, <1>4 DEF Next, ExecutorStep, Exited

LEMMA EmptyPlan == <<>> \in Seq(Links) /\ <<>> \in Seq(Urls) /\ ScrapePlan(<<>>) = <<>>
<1>1. <<>> \in Seq(Links) /\ <<>> \in Seq(Urls)
  OBVIOUS
<1>2. PICK f : Allowed(<<>>) = f[Len(<<>>)] /\ f[0] = <<>>
  BY <1>1, AllowedSteps
<1>3. Allowed(<<>>) = <<>>
  BY <1>2
<1>4. 0 < ScrapeResults /\ ScrapeResults \in Nat
  BY SearchAssumption
<1>5. ScrapePlan(<<>>) = SubSeq(<<>>, 1, 0)
  BY <1>3, <1>4 DEF ScrapePlan, Shortened
<1>6. SubSeq(<<>>, 1, 0) = <<>>
  OBVIOUS
<1> QED
  BY <1>1, <1>5, <1>6

LEMMA ExecutorBegins == ExecutorInit => EInv /\ SearchInv
<1> SUFFICES ASSUME ExecutorInit PROVE EInv /\ SearchInv
  OBVIOUS
<1>1. /\ Earlier \in Runs /\ Run \in Runs /\ Earlier # Run
      /\ \A f \in Left : f \in [Objects -> {"absent", "intact", "damaged"}]
  BY ExecutorAssumption, CommandAssumption
<1>2. /\ executor = "dispatch" /\ job \in Jobs \cup {Health} /\ registry \in Registries
      /\ SearchInit /\ CommandInit /\ jobs \in {{}, {Earlier}}
      /\ journals = [r \in Runs |-> [exists |-> r \in jobs, torn |-> FALSE, refs |-> {}]]
      /\ objects \in Left
      /\ manifests = [r \in Runs |-> None]
      /\ cache = None /\ report = None
      /\ outputs = [r \in Runs |-> None]
      /\ op = [w \in Writers |-> Idle]
  BY DEF ExecutorInit
<1>3. /\ jobs \subseteq Runs /\ Run \notin jobs /\ ~journals[Run].exists /\ journals[Run].refs = {}
      /\ ~journals[Earlier].torn /\ journals[Earlier].refs = {}
      /\ journals \in [Runs -> Journal]
  <2>1. jobs \subseteq Runs /\ Run \notin jobs
    BY <1>1, <1>2
  <2>2. \A r \in Runs : journals[r] = [exists |-> r \in jobs, torn |-> FALSE, refs |-> {}]
    BY <1>2
  <2>3. \A r \in Runs : journals[r] \in Journal
    <3>1. ASSUME NEW r \in Runs PROVE journals[r] \in Journal
      <4>1. (r \in jobs) \in BOOLEAN
        OBVIOUS
      <4>2. [exists |-> r \in jobs, torn |-> FALSE, refs |-> {}] \in Journal
        BY <4>1 DEF Journal
      <4> QED
        BY <2>2, <4>2
    <3> QED
      BY <3>1
  <2>4. journals \in [Runs -> Journal]
    BY <1>2, <2>3
  <2>5. ASSUME NEW r \in Runs
        PROVE  /\ journals[r].exists = (r \in jobs) /\ journals[r].torn = FALSE
               /\ journals[r].refs = {}
    <3>1. PICK j : j = [exists |-> r \in jobs, torn |-> FALSE, refs |-> {}]
      OBVIOUS
    <3>2. j = journals[r]
      BY <2>2, <3>1
    <3>3. j.exists = (r \in jobs)
      BY <3>1
    <3>4. j.torn = FALSE
      BY <3>1
    <3>5. j.refs = {}
      BY <3>1
    <3> QED
      BY <3>2, <3>3, <3>4, <3>5
  <2>6. ~journals[Run].exists
    BY <1>1, <2>1, <2>5
  <2> QED
    BY <1>1, <2>1, <2>4, <2>5, <2>6
<1>4. \A w \in Writers : op[w].phase = "idle" /\ op[w].file = "none"
  BY <1>2 DEF Idle, Pending
<1>5. TypeOK
  <2>1. op \in [Writers -> [phase: Phase, file: File, value: Value]]
    <3>1. Idle \in [phase: Phase, file: File, value: Value]
      BY DEF Idle, Pending, Phase, File, Value
    <3> QED
      BY <1>2, <3>1
  <2>2. \A w \in Writers : ValueOK(op[w].file, op[w].value)
    BY <1>4 DEF ValueOK
  <2> QED
    BY <1>1, <1>2, <1>3, <1>4, <2>1, <2>2 DEF TypeOK
<1>6. /\ command = "none" /\ pc = "idle" /\ batch = {} /\ collected = {} /\ draft = None
      /\ faults = FALSE /\ page = [p \in Pages |-> Unstarted]
  BY <1>2 DEF CommandInit
<1>7. \A p \in Pages : page[p] = Unstarted
  BY <1>6
<1>8. CommandTypeOK
  BY <1>5, <1>6 DEF CommandTypeOK, Unstarted, PageStates, PageOutcomes
<1>9. search.pc = "off" /\ search = [pc |-> "off", answer |-> <<>>, plan |-> <<>>, scraped |-> 0,
                                     evidence |-> {}, stopped |-> FALSE, status |-> None]
  BY <1>2 DEF SearchInit
<1>10. MainHands
  <2>1. MainTask = "none"
    BY <1>2, <1>6, <1>9 DEF MainTask
  <2> QED
    BY <1>4, <2>1, WritersAre DEF MainHands
<1>11. \A p \in Pages : PageHands(p)
  BY <1>4, <1>7, WritersAre DEF PageHands, PageTask, Unstarted
<1>12. DispatchInv
  BY <1>2, <1>6, <1>9 DEF DispatchInv, CommandKinds
<1>13. FilesInv
  BY <1>1, <1>2, <1>3, <1>6, <1>9 DEF FilesInv, CommandKinds
<1>14. \A p \in Pages : PageInv(p)
  BY <1>6, <1>7, CommandAssumption DEF PageInv, Unstarted
<1>15. MainInv
  BY <1>1, <1>2, <1>6, <1>7 DEF MainInv, Drafted, Sealed
<1>16. RefsInv
  BY <1>3 DEF RefsInv
<1>17. SearchInv
  <2>1. search \in Search
    BY <1>9, EmptyPlan DEF Search
  <2>2. search.evidence = {} /\ search.plan = ScrapePlan(search.answer) /\ search.status = None
        /\ search.answer = <<>>
    BY <1>9, EmptyPlan
  <2> QED
    BY <1>9, <2>1, <2>2 DEF SearchInv
<1> QED
  BY <1>8, <1>10, <1>11, <1>12, <1>13, <1>14, <1>15, <1>16, <1>17 DEF EInv

LEMMA ExecutorInv == Spec => [](EInv /\ SearchInv)
BY ExecutorBegins, ExecutorKeeps, PTL DEF Spec

-----------------------------------------------------------------------------
(* The theorems.                                                            *)

LEMMA UnstartedIs ==
  /\ Unstarted.pc = "idle" /\ Unstarted.source = None /\ Unstarted.outcome = None
  /\ Present(None) = {}
BY DEF Unstarted, Present

LEMMA Finished == EInv => SealedIsFinished
<1> SUFFICES ASSUME EInv PROVE SealedIsFinished
  OBVIOUS
<1>1. /\ TypeOK /\ CommandTypeOK /\ DispatchInv /\ FilesInv /\ MainInv
      /\ \A p \in Pages : PageHands(p) /\ PageInv(p)
  BY MainFacts DEF EInv
<1>2. pc = "idle" \/ pc = "dead" => \A p \in Pages : page[p] = Unstarted
  BY <1>1 DEF MainInv
<1>3. executor = "search" => pc = "idle"
  BY <1>1 DEF DispatchInv
<1>4. Sealed => executor = "search" \/ pc \in {"publish", "publishing", "done", "threw", "dead"}
  BY <1>1 DEF MainInv, FilesInv, Sealed, Drafted
<1>5. ASSUME Sealed, NEW p \in Pages
      PROVE  /\ page[p].pc \in {"idle", "settled"} /\ Free(p)
             /\ Found(p) \subseteq manifests[Run].artifacts
             /\ page[p].outcome = "accepted" => Cardinality(Found(p)) > 0
  <2>1. page[p].pc \in {"idle", "settled"}
    <3>1. batch = {}
      BY <1>1, <1>3, <1>4, <1>5 DEF MainInv
    <3> QED
      BY <1>1, <3>1 DEF PageInv
  <2>2. Free(p)
    <3>1. op[p].file = "none"
      BY <1>1, <2>1 DEF PageHands, PageTask
    <3> QED
      BY <1>1, <3>1, WritersAre DEF TypeOK, Free
  <2>3. Found(p) \subseteq manifests[Run].artifacts
    <3>1. CASE page[p].pc = "idle"
      <4>1. page[p] = Unstarted
        BY <1>1, <3>1 DEF PageInv
      <4>2. Result(p) = None
        BY <4>1, UnstartedIs, CommandAssumption DEF Result
      <4>3. Found(p) = {}
        BY <4>1, <4>2, UnstartedIs DEF Found
      <4> QED
        BY <4>3
    <3>2. CASE page[p].pc = "settled"
      <4>1. pc # "idle" /\ pc # "dead"
        BY <1>2, <3>2, UnstartedIs
      <4>2. executor # "search"
        BY <1>3, <4>1
      <4>3. manifests[Run].artifacts = collected
        BY <1>1, <1>5, <4>1, <4>2 DEF MainInv
      <4>4. batch = {}
        BY <1>1, <1>4, <1>5, <4>2 DEF MainInv
      <4> QED
        BY <1>1, <3>2, <4>3, <4>4 DEF PageInv
    <3> QED
      BY <2>1, <3>1, <3>2
  <2>4. ASSUME page[p].outcome = "accepted" PROVE Cardinality(Found(p)) > 0
    <3>1. page[p].artifact # None
      BY <1>1, <2>4 DEF PageInv
    <3>2. page[p].artifact \in Found(p)
      BY <2>4, <3>1 DEF Found, Result, Present
    <3>3. Found(p) \subseteq {page[p].source, page[p].artifact} \cup {}
      BY <2>4 DEF Found, Result, Present
    <3>4. IsFiniteSet({page[p].source, page[p].artifact})
      <4>1. IsFiniteSet({page[p].source}) /\ IsFiniteSet({page[p].artifact})
        BY FS_Singleton
      <4>2. {page[p].source, page[p].artifact} = {page[p].source} \cup {page[p].artifact}
        OBVIOUS
      <4> QED
        BY <4>1, <4>2, FS_Union
    <3>5. IsFiniteSet(Found(p)) /\ Found(p) # {}
      BY <3>2, <3>3, <3>4, FS_Subset
    <3>6. Cardinality(Found(p)) \in Nat /\ Cardinality(Found(p)) # 0
      BY <3>5, FS_CardinalityType, FS_EmptySet
    <3> HIDE DEF Found
    <3> QED
      BY <3>6
  <2> QED
    BY <2>1, <2>2, <2>3, <2>4
<1>6. ASSUME Sealed, command # "none", pc # "dead" PROVE manifests[Run] = draft
  <2>1. executor # "search"
    BY <1>1, <1>6 DEF DispatchInv
  <2> QED
    BY <1>1, <1>6, <2>1 DEF MainInv
<1>7. pc = "done" =>
        /\ Sealed
        /\ ToFile /\ (command = "crawl" \/ draft.status = "ok") => outputs[Run] = draft.artifact
  BY <1>1 DEF MainInv
<1> QED
  BY <1>1, <1>5, <1>6, <1>7 DEF SealedIsFinished

LEMMA Reported == EInv => PredecessorReported
<1> SUFFICES ASSUME EInv, Run \in jobs PROVE PredecessorReported
  BY DEF PredecessorReported
<1>1. FilesInv
  BY MainFacts
<1>2. executor \in CommandKinds
  BY <1>1 DEF FilesInv
<1> QED
  BY <1>1, <1>2 DEF FilesInv, PredecessorReported

LEMMA Honest == EInv /\ SearchInv => SearchHonest
<1> SUFFICES ASSUME EInv, SearchInv PROVE SearchHonest
  OBVIOUS
<1>1. search \in Search /\ search.plan = ScrapePlan(search.answer)
  BY DEF SearchInv
<1>2. search.answer \in Seq(Links)
  BY <1>1, SearchFields
<1>3. PlanIsFair
  BY <1>1, <1>2, PlansAreFair DEF PlanIsFair, FairPlan
<1>4. ASSUME search.pc # "off", manifests[Run] # None
      PROVE  /\ manifests[Run].status = "partial" /\ search.status \in {"partial", None}
             /\ More => search.stopped
             /\ \A e \in search.evidence :
                  /\ \E i \in 1..search.scraped : search.plan[i] = e.url
                  /\ objects[e.source] # "absent"
  <2>1. executor = "search"
    BY <1>4, MainFacts DEF DispatchInv
  <2>2. search.pc = "done"
    BY <1>4, <2>1, MainFacts DEF FilesInv
  <2>3. manifests[Run] = SearchManifest(Run) /\ search.status = "partial" /\ (More => search.stopped)
    BY <1>4, <2>2 DEF SearchInv, Sealed
  <2>4. manifests[Run].status = "partial"
    BY <2>3 DEF SearchManifest
  <2>5. \A e \in search.evidence :
          (\E i \in 1..search.scraped : search.plan[i] = e.url) /\ InStore(e.source)
    BY DEF SearchInv
  <2> QED
    BY <2>3, <2>4, <2>5 DEF InStore
<1> QED
  BY <1>1, <1>3, <1>4 DEF SearchHonest, SealedSearchIsHonest

(* Whatever the pages, the store and the disk do, and whenever the process  *)
(* is killed: a sealed crawl or extract is finished, and its manifest lists *)
(* the evidence of every page.                                              *)
THEOREM SealedRunsAreFinished == Spec => []SealedIsFinished
BY ExecutorInv, Finished, PTL

(* Whatever order the chains get to the store in, and whenever the process  *)
(* is killed: the journal of the run mentions only stored objects.          *)
THEOREM JournalStaysBehind == Spec => []JournalBehindObjects
<1>1. EInv => JournalBehindObjects
  BY MainFacts DEF RefsInv, InStore, JournalBehindObjects
<1> QED
  BY <1>1, ExecutorInv, PTL

(* No job begins a run without a reason, and none before the run of a       *)
(* process that died has been reported.                                     *)
THEOREM PredecessorsReported == Spec => []PredecessorReported
BY ExecutorInv, Reported, PTL

(* Whatever the provider answers: the plan of a search is fair, and what it *)
(* seals is honest about it.                                                *)
THEOREM SearchesAreHonest == Spec => []SearchHonest
BY ExecutorInv, Honest, PTL

-----------------------------------------------------------------------------
(* A page that is lost.  What each page has written so far can be told from *)
(* what it remembers, and a page whose put is about to be refused was       *)
(* overtaken by one that remembers it.                                      *)

Fetched == {"captured", "finishing", "derive", "deriving", "judge", "noting", "parse", "parsing"}

Reparsed == {"parsed", "reparsing", "skip", "skipping", "settled"}

Story(p) ==
  /\ page[p].pc \notin Fetched \cup Reparsed => page[p].source = None /\ page[p].artifact = None
  /\ page[p].pc \notin Reparsed =>
       page[p].artifact \in {None, page[p].source} \cup
                            {Projection[b] : b \in Bodies \cap {page[p].source}}
  /\ page[p].pc = "deriving" => page[p].source \in Bodies /\ op[p].value = Projected(p)

Overtaken(p) == page[p].pc = "capturing" /\ op[p].phase = "check" /\ InStore(op[p].value)

TwinInv ==
  /\ \A p \in Pages : Story(p)
  /\ ~faults => \A p \in Pages : Overtaken(p) =>
       \E q \in batch \ {p} : op[p].value \in Wrote(q)

(* What a step of page p has to show.                                       *)
Tells(p) ==
  /\ Story(p)'
  /\ ~faults' => \A o \in Objects : o \in Wrote(p) => o \in Wrote(p)'
  /\ \A o \in Objects : objects[o] = "absent" /\ objects'[o] # "absent" => o \in Wrote(p)'
  /\ ~Overtaken(p)'
  /\ page'[p].outcome = "crashed" /\ ~faults' =>
       \/ page[p].outcome = "crashed"
       \/ page[p].pc = "capturing" /\ Refuse(p)

(* A step that changes neither source nor artifact, and puts nothing.       *)
LEMMA SameTale ==
  ASSUME NEW p \in Pages, Story(p), UNCHANGED objects,
         page'[p].source = page[p].source, page'[p].artifact = page[p].artifact,
         page'[p].outcome \in {page[p].outcome, "accepted", "blocked", "failed"},
         page[p].pc \in Reparsed => page'[p].pc \in Reparsed,
         page[p].pc \in Fetched => page'[p].pc \in Fetched \cup Reparsed,
         page'[p].pc \notin {"capturing", "deriving"}
  PROVE  Tells(p)
<1>1. Story(p)'
  BY DEF Story, Fetched, Reparsed
<1>2. Wrote(p)' = Wrote(p)
  BY DEF Wrote
<1>3. /\ \A o \in Objects : o \in Wrote(p) => o \in Wrote(p)'
      /\ \A o \in Objects : objects[o] = "absent" /\ objects'[o] # "absent" => o \in Wrote(p)'
  BY <1>2
<1>4. ~Overtaken(p)'
  BY DEF Overtaken
<1>5. page'[p].outcome = "crashed" => page[p].outcome = "crashed"
  OBVIOUS
<1> QED
  BY <1>1, <1>3, <1>4, <1>5 DEF Tells

(* Every step of a page that is under way, and its first.                   *)
LEMMA QuietTells ==
  ASSUME EInv, NEW p \in Pages, Story(p),
         \/ StartPage(p) \/ Started(p) \/ FetchFails(p) \/ FinishAttempt(p)
         \/ Turn(p, "derive", "judge") /\ UNCHANGED storeVars
         \/ Turn(p, "deriving", "judge") /\ Refuse(p)
         \/ Judge(p) \/ Judged(p) \/ Rejudge(p) \/ Rejudged(p) \/ Skip(p)
         \/ \E o \in Extracts : ParseNew(p, o)
  PROVE  Tells(p)
<1>0. CommandTypeOK /\ page[p] \in PageState
  BY PageFacts
<1>1. UNCHANGED objects
  BY DEF StartPage, Started, FetchFails, FinishAttempt, Refuse, Judge, Judged, Rejudge, Rejudged,
     Skip, ParseNew, PutNew, Start, AppendAttempt, AppendLands, disk, storeVars
<1>2. ASSUME NEW from \in PageStates, NEW to \in PageStates, Turn(p, from, to),
             from \in Reparsed => to \in Reparsed,
             from \in Fetched => to \in Fetched \cup Reparsed,
             to \notin {"capturing", "deriving"}
      PROVE  Tells(p)
  <2>1. /\ page[p].pc = from /\ page'[p].pc = to
        /\ page'[p].source = page[p].source /\ page'[p].artifact = page[p].artifact
        /\ page'[p].outcome = page[p].outcome
    BY <1>0, <1>2, TurnDoes
  <2> QED
    BY <1>1, <1>2, <2>1, SameTale
<1>3. ASSUME NEW from \in PageStates, NEW to \in PageStates,
             NEW outcome \in {"accepted", "blocked", "failed"},
             Turns(p, from, to, "outcome", outcome),
             from \in Reparsed => to \in Reparsed,
             from \in Fetched => to \in Fetched \cup Reparsed,
             to \notin {"capturing", "deriving"}
      PROVE  Tells(p)
  <2>1. /\ page[p].pc = from /\ page'[p].pc = to
        /\ page'[p].source = page[p].source /\ page'[p].artifact = page[p].artifact
        /\ page'[p].outcome = outcome
    BY <1>0, <1>3, TurnsOutcome DEF PageOutcomes
  <2> QED
    BY <1>1, <1>3, <2>1, SameTale
<1> USE DEF PageStates, Fetched, Reparsed
<1>4. CASE StartPage(p)
  <2>1. page[p].pc = "idle"
    BY <1>4 DEF StartPage
  <2>2. \/ page' = [page EXCEPT ![p].pc = "starting"]
        \/ page' = [page EXCEPT ![p].pc = "settled", ![p].outcome = "blocked"]
    BY <1>4 DEF StartPage
  <2>3. page \in [Pages -> PageState]
    BY <1>0 DEF CommandTypeOK, PageState
  <2>4. /\ page'[p].pc \in {"starting", "settled"}
        /\ page'[p].source = page[p].source /\ page'[p].artifact = page[p].artifact
        /\ page'[p].outcome \in {page[p].outcome, "blocked"}
    BY <2>2, <2>3 DEF PageState
  <2> QED
    BY <1>1, <2>1, <2>4, SameTale
<1>5. CASE Started(p)
  BY <1>2, <1>5 DEF Started
<1>6. CASE FetchFails(p)
  BY <1>3, <1>6 DEF FetchFails
<1>7. CASE FinishAttempt(p)
  <2>1. CASE Turn(p, "captured", "finishing")
    BY <1>2, <2>1
  <2>2. PICK to \in {"settled", "derive", "parse", "parsed"} :
          Turn(p, "captured", "finishing") \/ Turn(p, "finishing", to)
    BY <1>7 DEF FinishAttempt
  <2> QED
    BY <1>2, <2>1, <2>2
<1>8. CASE Turn(p, "derive", "judge") \/ Turn(p, "deriving", "judge")
  BY <1>2, <1>8
<1>9. CASE Judge(p)
  BY <1>3, <1>9 DEF Judge, Verdicts
<1>10. CASE Judged(p)
  <2>1. PICK to \in {"settled", "parse", "skip"} : Turn(p, "noting", to)
    BY <1>10 DEF Judged
  <2> QED
    BY <1>2, <2>1
<1>11. CASE Rejudge(p)
  <2>1. PICK verdict \in {"accepted", "failed"} :
          Turns(p, "parsed", "reparsing", "outcome", verdict)
    BY <1>11 DEF Rejudge
  <2> QED
    BY <1>3, <2>1
<1>12. CASE Rejudged(p)
  <2>1. PICK to \in {"settled", "skip"} : Turn(p, "reparsing", to)
    BY <1>12 DEF Rejudged
  <2> QED
    BY <1>2, <2>1
<1>13. CASE Skip(p)
  BY <1>2, <1>13 DEF Skip
<1>14. CASE \E o \in Extracts : ParseNew(p, o)
  BY <1>2, <1>14 DEF ParseNew
<1> QED
  BY <1>4, <1>5, <1>6, <1>7, <1>8, <1>9, <1>10, <1>11, <1>12, <1>13, <1>14

(* A body is captured, or found stored.                                     *)
LEMMA CaptureTells ==
  ASSUME EInv, NEW p \in Pages, Story(p),
         \/ \E o \in Bodies : CaptureKnown(p, o) \/ CaptureNew(p, o)
         \/ Captured(p)
  PROVE  Tells(p)
<1>0. CommandTypeOK /\ TypeOK /\ page[p] \in PageState /\ p \in Writers /\ PageHands(p)
  BY PageFacts
<1>1. page[p].source = None /\ page[p].artifact = None
  BY DEF Story, CaptureKnown, CaptureNew, Captured, Turn, Turns, Fetched, Reparsed
<1>2. \A o \in Wrote(p) : o = None
  BY <1>1, CommandAssumption, StoreAssumption DEF Wrote
<1>3. ASSUME NEW o \in Bodies, CaptureNew(p, o) PROVE Tells(p)
  <2>1. /\ page'[p].pc = "capturing" /\ page'[p].source = None /\ page'[p].artifact = None
        /\ page'[p].outcome = page[p].outcome
    BY <1>0, <1>1, <1>3, TurnDoes DEF CaptureNew, PageStates
  <2>2. objects[o] = "absent" /\ op'[p].value = o /\ UNCHANGED objects
    <3>1. objects[o] = "absent" /\ Start(p, "object", o)
      BY <1>3 DEF CaptureNew, PutNew
    <3>2. o \in Objects
      BY CommandAssumption
    <3> QED
      BY <1>0, <3>1, <3>2, StartDoes DEF File, ValueOK, disk
  <2>3. ~Overtaken(p)'
    BY <2>2 DEF Overtaken, InStore
  <2>4. Story(p)'
    BY <2>1 DEF Story, Fetched, Reparsed
  <2>5. \A x \in Objects : x \notin Wrote(p)
    BY <1>2, StoreAssumption
  <2> QED
    BY <2>1, <2>2, <2>3, <2>4, <2>5 DEF Tells
<1>4. ASSUME NEW o \in Objects, page'[p].pc = "captured", page'[p].source = o,
             page'[p].artifact = None, page'[p].outcome = page[p].outcome,
             \A x \in Objects : objects[x] = "absent" /\ objects'[x] # "absent" => x = o
      PROVE  Tells(p)
  <2>1. o \in Wrote(p)'
    BY <1>4 DEF Wrote
  <2>2. Story(p)'
    BY <1>4 DEF Story, Fetched
  <2>3. ~Overtaken(p)'
    BY <1>4 DEF Overtaken
  <2>4. \A x \in Objects : x \notin Wrote(p)
    BY <1>2, StoreAssumption
  <2> QED
    BY <1>4, <2>1, <2>2, <2>3, <2>4 DEF Tells
<1>5. ASSUME NEW o \in Bodies, CaptureKnown(p, o) PROVE Tells(p)
  <2>1. o \in Objects /\ UNCHANGED objects
    BY <1>5, CommandAssumption DEF CaptureKnown, PutKnown, storeVars
  <2>2. /\ page'[p].pc = "captured" /\ page'[p].source = o
        /\ page'[p].artifact = page[p].artifact /\ page'[p].outcome = page[p].outcome
    <3>1. "captured" \in PageStates /\ o \in Objects \cup {None}
      BY <2>1 DEF PageStates
    <3>2. Turns(p, "fetching", "captured", "source", o)
      BY <1>5 DEF CaptureKnown
    <3> QED
      BY <1>0, <3>1, <3>2, TurnsSource
  <2> QED
    BY <1>1, <1>4, <2>1, <2>2
<1>6. CASE Captured(p)
  <2>1. PageTask(p) = "object" /\ Rename(p)
    BY <1>6 DEF Captured, Turns, PageTask
  <2>2. PICK o \in Objects : o = op[p].value /\ objects' = [objects EXCEPT ![o] = "intact"]
    BY <2>1, ObjectWorks
  <2>3. Turns(p, "capturing", "captured", "source", o)
    BY <1>6, <2>2 DEF Captured
  <2>4. /\ page'[p].pc = "captured" /\ page'[p].source = o
        /\ page'[p].artifact = page[p].artifact /\ page'[p].outcome = page[p].outcome
    <3>1. "captured" \in PageStates /\ o \in Objects \cup {None}
      BY DEF PageStates
    <3> QED
      BY <1>0, <2>3, <3>1, TurnsSource
  <2>5. \A x \in Objects : objects[x] = "absent" /\ objects'[x] # "absent" => x = o
    BY <1>0, <2>2 DEF TypeOK
  <2> QED
    BY <1>1, <1>4, <2>4, <2>5
<1> QED
  BY <1>3, <1>5, <1>6

(* A projection is about to be stored.                                      *)
LEMMA DeriveTells ==
  ASSUME EInv, NEW p \in Pages, Story(p), DeriveNew(p)
  PROVE  Tells(p)
<1>0. CommandTypeOK /\ TypeOK /\ p \in Writers /\ PageInv(p)
  BY PageFacts
<1>1. page[p].source \in Bodies /\ Projected(p) \in Objects
  BY <1>0, ProjectedTyped DEF DeriveNew, PageInv
<1>2. /\ page[p].pc = "derive" /\ page'[p].pc = "deriving"
      /\ page'[p].source = page[p].source /\ page'[p].artifact = page[p].artifact
      /\ page'[p].outcome = page[p].outcome
  BY <1>0, TurnDoes DEF DeriveNew, PageStates
<1>3. op'[p].value = Projected(p) /\ UNCHANGED objects
  <2>1. Start(p, "object", Projected(p))
    BY DEF DeriveNew, PutNew
  <2> QED
    BY <1>0, <1>1, <2>1, StartDoes DEF File, ValueOK, disk
<1>4. Wrote(p)' = Wrote(p) /\ Projected(p)' = Projected(p)
  BY <1>2 DEF Wrote, Projected
<1>5. Story(p)'
  BY <1>1, <1>2, <1>3, <1>4 DEF Story, Fetched, Reparsed
<1>6. ~Overtaken(p)'
  BY <1>2 DEF Overtaken
<1>7. /\ \A o \in Objects : o \in Wrote(p) => o \in Wrote(p)'
      /\ \A o \in Objects : objects[o] = "absent" /\ objects'[o] # "absent" => o \in Wrote(p)'
  BY <1>3, <1>4
<1> QED
  BY <1>2, <1>5, <1>6, <1>7 DEF Tells

(* A projection or an artifact is chosen, and may be new in the store.      *)
LEMMA ChosenTells ==
  ASSUME EInv, NEW p \in Pages, Story(p), NEW a \in Objects \cup {None},
         \/ page[p].pc \in {"derive", "deriving"} /\ page'[p].pc = "judge"
            /\ a \in {page[p].source} \cup {Projection[b] : b \in Bodies \cap {page[p].source}}
         \/ page[p].pc \in {"parse", "parsing"} /\ page'[p].pc = "parsed",
         page'[p].source = page[p].source, page'[p].artifact = a,
         page'[p].outcome = page[p].outcome,
         \A x \in Objects : objects[x] = "absent" /\ objects'[x] # "absent" => x = a
  PROVE  Tells(p)
<1> DEFINE remembered == {page[p].source} \cup {Projection[b] : b \in Bodies \cap {page[p].source}}
<1>1. page[p].artifact \in {None} \cup remembered
  BY DEF Story, Fetched, Reparsed
<1>2. Wrote(p)' = {a} \cup remembered
  BY DEF Wrote
<1>3. ASSUME NEW o \in Objects, o \in Wrote(p) PROVE o \in Wrote(p)'
  BY <1>1, <1>2, <1>3, StoreAssumption DEF Wrote
<1>4. \A o \in Objects : objects[o] = "absent" /\ objects'[o] # "absent" => o \in Wrote(p)'
  BY <1>2
<1>5. Story(p)'
  BY DEF Story, Fetched, Reparsed
<1>6. ~Overtaken(p)'
  BY DEF Overtaken
<1> QED
  BY <1>3, <1>4, <1>5, <1>6 DEF Tells

LEMMA ArtifactTells ==
  ASSUME EInv, NEW p \in Pages, Story(p),
         \/ DeriveNone(p) \/ DeriveKnown(p) \/ Derived(p) \/ Parsed(p)
         \/ \E o \in Extracts : ParseKnown(p, o)
         \/ Turns(p, "parse", "parsed", "artifact", None) /\ UNCHANGED storeVars
         \/ Turns(p, "parsing", "parsed", "artifact", None) /\ Refuse(p)
  PROVE  Tells(p)
<1>0. CommandTypeOK /\ TypeOK /\ page[p] \in PageState /\ PageInv(p)
  BY PageFacts
<1> DEFINE remembered == {page[p].source} \cup {Projection[b] : b \in Bodies \cap {page[p].source}}
<1>1. ASSUME NEW a \in Objects \cup {None}, NEW from \in {"derive", "deriving", "parse", "parsing"},
             NEW to \in {"judge", "parsed"}, Turns(p, from, to, "artifact", a),
             \/ from \in {"derive", "deriving"} /\ to = "judge" /\ a \in remembered
             \/ from \in {"parse", "parsing"} /\ to = "parsed",
             \A x \in Objects : objects[x] = "absent" /\ objects'[x] # "absent" => x = a
      PROVE  Tells(p)
  <2>1. /\ page[p].pc = from /\ page'[p].pc = to
        /\ page'[p].source = page[p].source /\ page'[p].artifact = a
        /\ page'[p].outcome = page[p].outcome
    <3>1. to \in PageStates
      BY DEF PageStates
    <3>2. Turns(p, from, to, "artifact", a)
      BY <1>1
    <3> QED
      BY <1>0, <3>1, <3>2, TurnsArtifact
  <2> QED
    BY <1>1, <2>1, ChosenTells
<1>2. ASSUME UNCHANGED objects
      PROVE  \A a : \A x \in Objects : objects[x] = "absent" /\ objects'[x] # "absent" => x = a
  BY <1>2
<1>3. ASSUME NEW o \in Objects, objects' = [objects EXCEPT ![o] = "intact"]
      PROVE  \A x \in Objects : objects[x] = "absent" /\ objects'[x] # "absent" => x = o
  BY <1>0, <1>3 DEF TypeOK
<1>4. ASSUME page[p].source # None PROVE Projected(p) \in remembered /\ Projected(p) \in Objects \cup {None}
  BY <1>0, <1>4, ProjectedTyped DEF PageInv, Projected
<1>5. CASE DeriveNone(p)
  <2>1. page[p].source \in Objects /\ page[p].source \in remembered /\ UNCHANGED objects
    BY <1>0, <1>5 DEF DeriveNone, PageState, storeVars
  <2> QED
    BY <1>1, <1>2, <1>5, <2>1 DEF DeriveNone
<1>6. CASE DeriveKnown(p)
  <2>1. UNCHANGED objects
    BY <1>6 DEF DeriveKnown, PutKnown, storeVars
  <2> QED
    BY <1>1, <1>2, <1>4, <1>6, <2>1 DEF DeriveKnown
<1>7. CASE Derived(p)
  <2>1. PageTask(p) = "object" /\ Rename(p) /\ page[p].pc = "deriving"
    BY <1>7 DEF Derived, Turns, PageTask
  <2>2. PICK o \in Objects : o = op[p].value /\ objects' = [objects EXCEPT ![o] = "intact"]
    BY <2>1, ObjectWorks
  <2>3. o \in remembered
    BY <2>1, <2>2 DEF Story, Projected
  <2>4. Turns(p, "deriving", "judge", "artifact", o)
    BY <1>7, <2>2 DEF Derived
  <2> QED
    BY <1>1, <1>3, <2>2, <2>3, <2>4
<1>8. CASE Parsed(p)
  <2>1. PageTask(p) = "object" /\ Rename(p)
    BY <1>8 DEF Parsed, Turns, PageTask
  <2>2. PICK o \in Objects : o = op[p].value /\ objects' = [objects EXCEPT ![o] = "intact"]
    BY <2>1, ObjectWorks
  <2>3. Turns(p, "parsing", "parsed", "artifact", o)
    BY <1>8, <2>2 DEF Parsed
  <2> QED
    BY <1>1, <1>3, <2>2, <2>3
<1>9. ASSUME NEW o \in Extracts, ParseKnown(p, o) PROVE Tells(p)
  <2>1. o \in Objects /\ UNCHANGED objects
    BY <1>9, CommandAssumption DEF ParseKnown, PutKnown, storeVars
  <2> QED
    BY <1>1, <1>2, <1>9, <2>1 DEF ParseKnown
<1>10. CASE \/ Turns(p, "parse", "parsed", "artifact", None) /\ UNCHANGED storeVars
            \/ Turns(p, "parsing", "parsed", "artifact", None) /\ Refuse(p)
  <2>1. UNCHANGED objects
    BY <1>10 DEF Refuse, disk, storeVars
  <2> QED
    BY <1>1, <1>2, <1>10, <2>1
<1> QED
  BY <1>5, <1>6, <1>7, <1>8, <1>9, <1>10

(* The pipeline throws, or its write is flushed.                            *)
LEMMA CrashTells ==
  ASSUME EInv, NEW p \in Pages, Story(p), Crashes(p), UNCHANGED objects,
         faults' = TRUE \/ (page[p].pc = "capturing" /\ Refuse(p))
  PROVE  Tells(p)
<1>1. page'[p].pc = "settled" /\ page'[p].source = None /\ page'[p].artifact = None
  <2> DEFINE crashed == [Unstarted EXCEPT !.pc = "settled", !.outcome = "crashed"]
  <2>1. crashed.pc = "settled" /\ crashed.source = None /\ crashed.artifact = None
    BY DEF Unstarted
  <2> HIDE DEF crashed
  <2>2. page' = [page EXCEPT ![p] = crashed] /\ p \in DOMAIN page
    BY PageFacts DEF Crashes, crashed, CommandTypeOK
  <2>3. page'[p] = crashed
    BY <2>2
  <2> QED
    BY <2>1, <2>3
<1>2. Story(p)'
  BY <1>1 DEF Story, Fetched, Reparsed
<1>3. ~faults' => \A o \in Objects : o \notin Wrote(p)
  <2>1. ~faults' => page[p].source = None /\ page[p].artifact = None
    BY DEF Story, Fetched, Reparsed
  <2> QED
    BY <2>1, CommandAssumption, StoreAssumption DEF Wrote
<1>4. ~Overtaken(p)'
  BY <1>1 DEF Overtaken
<1> QED
  BY <1>2, <1>3, <1>4 DEF Tells

LEMMA FlushTells ==
  ASSUME EInv, NEW p \in Pages, Story(p), Flush(p)
  PROVE  Tells(p)
<1>1. TypeOK /\ p \in Writers
  BY PageFacts
<1>2. page' = page /\ op'[p].phase = "rename" /\ op'[p].value = op[p].value /\ UNCHANGED objects
  BY <1>1, StageDoes DEF Flush, commandVars, disk
<1>3. Story(p)' /\ Wrote(p)' = Wrote(p)
  BY <1>2 DEF Story, Wrote, Projected
<1>4. ~Overtaken(p)'
  BY <1>2 DEF Overtaken
<1>5. /\ \A o \in Objects : o \in Wrote(p) => o \in Wrote(p)'
      /\ \A o \in Objects : objects[o] = "absent" /\ objects'[o] # "absent" => o \in Wrote(p)'
  BY <1>2, <1>3
<1> QED
  BY <1>2, <1>3, <1>4, <1>5 DEF Tells

(* A write of an artifact that fails.                                       *)
LEMMA FailTells ==
  ASSUME EInv, NEW p \in Pages, Story(p), faults' = TRUE,
         page[p].pc \in {"deriving", "parsing"},
         page' = [page EXCEPT ![p].pc = IF @ = "deriving" THEN "judge" ELSE "parsed",
                              ![p].artifact = None],
         WriteFails(p)
  PROVE  Tells(p)
<1>1. PICK to \in {"judge", "parsed"} : page' = [page EXCEPT ![p].pc = to, ![p].artifact = None]
  <2>1. CASE page[p].pc = "deriving"
    BY <2>1
  <2>2. CASE page[p].pc # "deriving"
    BY <2>2
  <2> QED
    BY <2>1, <2>2
<1>2. /\ page'[p].pc = to /\ page'[p].artifact = None
  <2>1. to \in PageStates /\ CommandTypeOK
    BY PageFacts DEF PageStates
  <2> QED
    BY <1>1, <2>1, FieldsSet
<1>3. UNCHANGED objects
  BY DEF WriteFails, disk
<1>4. Story(p)' /\ ~Overtaken(p)'
  BY <1>2 DEF Story, Overtaken, Fetched, Reparsed
<1> QED
  BY <1>3, <1>4 DEF Tells

LEMMA PageTells ==
  ASSUME EInv, NEW p \in Pages, Story(p), PageActs(p)
  PROVE  Tells(p)
<1>1. CASE StartPage(p)
  BY <1>1, QuietTells
<1>2. CASE PageStep(p)
  <2>1. CASE Underived(p) \/ Unparsed(p)
    BY <2>1, QuietTells, ArtifactTells DEF Underived, Unparsed
  <2>2. CASE Thrown(p)
    <3>1. /\ Crashes(p) /\ UNCHANGED objects
          /\ faults' = TRUE \/ (page[p].pc = "capturing" /\ Refuse(p))
      BY <2>2 DEF Thrown, Refuse, disk, storeVars
    <3> QED
      BY <3>1, CrashTells
  <2>3. CASE \E o \in Bodies : CaptureKnown(p, o) \/ CaptureNew(p, o)
    BY <2>3, CaptureTells
  <2>4. CASE \E o \in Extracts : ParseKnown(p, o) \/ ParseNew(p, o)
    BY <2>4, ArtifactTells, QuietTells
  <2> QED
    BY <1>2, <2>1, <2>2, <2>3, <2>4, QuietTells, CaptureTells, DeriveTells, ArtifactTells, FlushTells
       DEF PageStep
<1>3. CASE /\ faults' = TRUE
           /\ page[p].pc \in {"deriving", "parsing"}
           /\ page' = [page EXCEPT ![p].pc = IF @ = "deriving" THEN "judge" ELSE "parsed",
                                   ![p].artifact = None]
           /\ WriteFails(p)
  BY <1>3, FailTells
<1>4. CASE faults' = TRUE /\ Crashes(p) /\ (WriteFails(p) \/ AppendFails(p))
  <2>1. UNCHANGED objects
    BY <1>4 DEF WriteFails, AppendFails, disk
  <2> QED
    BY <1>4, <2>1, CrashTells
<1> QED
  BY <1>1, <1>2, <1>3, <1>4 DEF PageActs

(* A step of page p leaves what the others tell alone, and stays in batch.  *)
LEMMA PageActsGo ==
  ASSUME EInv, NEW p \in Pages, PageActs(p)
  PROVE  PageGoes(p)
<1>1. TypeOK /\ PageHands(p) /\ p \in Writers
  BY PageFacts
<1>2. CASE faults' = TRUE /\ AppendFails(p) /\ Crashes(p)
  BY <1>2, ThrownTurns
<1> QED
  BY <1>2, StartTurns, PageStepGoes, FailTurns, ThrownTurns DEF PageActs

LEMMA PageKeepsTwins ==
  ASSUME EInv, TwinInv, NEW p \in Pages, PageActs(p)
  PROVE  TwinInv'
<1>1. PageGoes(p) /\ Tells(p)
  BY PageActsGo, PageTells DEF TwinInv
<1>2. /\ \A q \in Pages \ {p} : page'[q] = page[q] /\ op'[q] = op[q]
      /\ batch' = batch \cup {p} /\ (faults => faults') /\ Grow /\ batch \subseteq Pages
      /\ TypeOK
  BY <1>1, WritersAre, PageFacts DEF PageGoes, Moved, Others
<1>3. \A q \in Pages \ {p} : Story(q)' /\ Wrote(q)' = Wrote(q)
  BY <1>2 DEF Story, Wrote, TwinInv, Projected
<1>4. ASSUME ~faults', NEW q \in Pages, Overtaken(q)'
      PROVE  \E r \in batch' \ {q} : op'[q].value \in Wrote(r)'
  <2>1. q # p
    BY <1>1, <1>4 DEF Tells
  <2> DEFINE o == op[q].value
  <2>2. /\ page[q].pc = "capturing" /\ op[q].phase = "check" /\ op'[q].value = o
        /\ o \in Objects /\ objects'[o] # "absent"
    BY <1>2, <1>4, <2>1 DEF Overtaken, InStore
  <2>3. CASE objects[o] = "absent"
    <3>1. o \in Wrote(p)'
      BY <1>1, <2>2, <2>3 DEF Tells
    <3>2. p \in batch' \ {q}
      BY <1>2, <2>1
    <3> QED
      BY <2>2, <3>1, <3>2
  <2>4. CASE objects[o] # "absent"
    <3>1. Overtaken(q)
      BY <2>2, <2>4 DEF Overtaken, InStore
    <3>2. PICK r \in batch \ {q} : o \in Wrote(r)
      BY <1>2, <1>4, <3>1 DEF TwinInv
    <3>3. o \in Wrote(r)'
      <4>1. CASE r = p
        BY <1>1, <1>4, <2>2, <3>2, <4>1 DEF Tells
      <4>2. CASE r # p
        BY <1>2, <1>3, <3>2, <4>2
      <4> QED
        BY <4>1, <4>2
    <3>4. r \in batch' \ {q}
      BY <1>2, <3>2
    <3> QED
      BY <2>2, <3>3, <3>4
  <2> QED
    BY <2>3, <2>4
<1>5. Story(p)'
  BY <1>1 DEF Tells
<1> QED
  BY <1>3, <1>4, <1>5 DEF TwinInv

(* While no page is being captured, nobody can be overtaken.                *)
LEMMA NobodyCaptures ==
  ASSUME EInv, \A p \in batch : Settled(p)
  PROVE  \A p \in Pages : page[p].pc \notin {"capturing", "deriving"}
BY PageFacts DEF Settled

LEMMA RestTwins ==
  ASSUME EInv, TwinInv, page' = page, faults => faults',
         \/ \A p \in batch : Settled(p)
         \/ batch' = batch /\ UNCHANGED objects /\ \A p \in Pages : op'[p] = op[p]
         \/ batch' = batch /\ UNCHANGED op /\ \A o : InStore(o)' => InStore(o)
  PROVE  TwinInv'
<1>1. \A p \in Pages : Wrote(p)' = Wrote(p)
  BY DEF Wrote
<1>2. CASE \A p \in batch : Settled(p)
  <2>1. \A p \in Pages : page[p].pc \notin {"capturing", "deriving"}
    BY <1>2, NobodyCaptures
  <2>2. \A p \in Pages : Story(p)' /\ ~Overtaken(p)'
    BY <2>1 DEF TwinInv, Story, Overtaken
  <2> QED
    BY <2>2 DEF TwinInv
<1>3. CASE /\ batch' = batch /\ \A p \in Pages : op'[p] = op[p]
           /\ \A o : InStore(o)' => InStore(o)
  <2>1. \A p \in Pages : Story(p)' /\ (Overtaken(p)' => Overtaken(p))
    BY <1>3 DEF TwinInv, Story, Overtaken, Projected
  <2> QED
    BY <1>1, <1>3, <2>1, PageFacts DEF TwinInv
<1>4. UNCHANGED objects => \A o : InStore(o)' => InStore(o)
  BY DEF InStore
<1> QED
  BY <1>2, <1>3, <1>4

LEMMA MainKeepsTwins ==
  ASSUME EInv, TwinInv, Commands, UNCHANGED <<dispatchVars, search>>, MainStep \/ Begin(executor)
  PROVE  TwinInv'
<1>1. /\ TypeOK /\ Main \in Writers /\ Main \notin Pages /\ Pages \subseteq Writers
      /\ MainInv /\ MainHands /\ page' = page /\ (faults => faults')
  <2>1. page' = page /\ faults' = faults
    BY DEF MainStep, Begin, Begun, Join, PutLedgersKnown, PutLedgers, Draft, Seal, Publish, Throw,
           Flush, MainKeeps, commandVars
  <2> QED
    BY <2>1, MainFacts, WritersAre
<1>2. CASE batch = {}
  BY <1>1, <1>2, RestTwins
<1>3. CASE Join
  BY <1>1, <1>3, RestTwins DEF Join
<1>4. CASE batch # {} /\ ~Join
  <2>1. pc = "pages"
    BY <1>1, <1>4 DEF MainInv
  <2>2. Flush(Main)
    BY <1>4, <2>1 DEF MainStep, Begin, Begun, PutLedgersKnown, PutLedgers, Draft, Seal, Publish,
                      Throw, Rejected, Goto
  <2>3. op[Main].file # "none"
    BY <1>1, <2>2 DEF Flush, Stage, TypeOK
  <2> QED
    BY <1>1, <2>1, <2>3, CommandTask DEF MainHands
<1> QED
  BY <1>2, <1>3, <1>4

(* Every step of the executor keeps the pages' stories.                     *)
LEMMA NextTwins == EInv /\ TwinInv /\ [Next]_vars => TwinInv'
<1> SUFFICES ASSUME EInv, TwinInv, [Next]_vars PROVE TwinInv'
  OBVIOUS
<1>1. MainInv /\ DispatchInv /\ TypeOK /\ MainHands /\ Main \in Writers
  BY MainFacts
<1>2. CASE RunCommand \/ CommandFaults
  <2>1. Commands /\ UNCHANGED <<dispatchVars, search>>
    BY <1>2 DEF RunCommand, CommandFaults, Commands
  <2>2. CASE MainStep \/ Begin(executor)
    BY <2>1, <2>2, MainKeepsTwins
  <2>3. ASSUME NEW p \in Pages, PageActs(p) PROVE TwinInv'
    BY <2>3, PageKeepsTwins
  <2>4. CASE Kill
    <3>1. \A p \in Pages : page'[p].pc = "idle" /\ page'[p].source = None /\ page'[p].artifact = None
      BY <2>4 DEF Kill, Unstarted
    <3> QED
      BY <3>1 DEF TwinInv, Story, Overtaken
  <2>5. CASE /\ pc \notin {"threw", "dead", "done"} /\ pc' = "threw" /\ faults' = TRUE
             /\ WriteFails(Main)
             /\ UNCHANGED <<command, page, batch, collected, draft>>
    <3>1. \A p \in Pages : Story(p)'
      <4>1. ASSUME NEW p \in Pages PROVE op'[p] = op[p] /\ page'[p] = page[p]
        BY <1>1, <2>5, GiveUpDoes, WritersAre DEF Others
      <4> QED
        BY <4>1 DEF TwinInv, Story, Projected
    <3> QED
      BY <2>5, <3>1 DEF TwinInv
  <2>6. CASE UNCHANGED commandVars /\ \E o \in Fragile : Damage(o)
    <3>1. page' = page /\ batch' = batch /\ faults' = faults /\ op' = op
      BY <2>6 DEF commandVars, Damage
    <3>2. \A o : InStore(o)' => InStore(o)
      BY <1>1, <2>6 DEF Damage, InStore, TypeOK
    <3> QED
      BY <3>1, <3>2, RestTwins
  <2> QED
    BY <1>2, <2>2, <2>3, <2>4, <2>5, <2>6 DEF RunCommand, CommandFaults, CommandStep, Fault, PageActs
<1>3. CASE Dispatch \/ RecoveryFails \/ RunSearch \/ SearchFaults
  <2>1. page' = page /\ (faults => faults')
    BY <1>3 DEF Dispatch, RecoveryFails, Explain, ToRoute, InvalidSchema, StartRecovery, NoRecovery,
                EndRecovery, CommandsKeep, RunSearch, SearchFaults, commandVars
  <2>2. executor \notin {"extract", "crawl"}
    BY <1>3 DEF Dispatch, RecoveryFails, Explain, ToRoute, InvalidSchema, StartRecovery, NoRecovery,
                EndRecovery, Moves, RunSearch, SearchFaults
  <2>3. batch = {}
    BY <1>1, <2>2 DEF DispatchInv, MainInv
  <2> QED
    BY <2>1, <2>3, RestTwins
<1>4. CASE RunRoute \/ UNCHANGED vars
  <2>1. UNCHANGED <<page, faults, batch, objects, op>>
    BY <1>4 DEF RunRoute, vars, commandVars, storeVars
  <2> QED
    BY <2>1, RestTwins
<1> QED
  BY <1>2, <1>3, <1>4 DEF Next, ExecutorStep, Exited

LEMMA InitTwins == ExecutorInit => TwinInv
<1> SUFFICES ASSUME ExecutorInit PROVE TwinInv
  OBVIOUS
<1>1. \A p \in Pages : page[p].pc = "idle" /\ page[p].source = None /\ page[p].artifact = None
  BY DEF ExecutorInit, CommandInit, Unstarted
<1> QED
  BY <1>1 DEF TwinInv, Story, Overtaken

(* Who loses a page: its own chain.                                         *)
LEMMA LostByItself ==
  ASSUME EInv, TwinInv, [Next]_vars, NEW p \in Pages,
         page[p].outcome # "crashed", page'[p].outcome = "crashed", ~faults'
  PROVE  page[p].pc = "capturing" /\ Refuse(p) /\ ~faults
<1>1. page' # page
  OBVIOUS
<1>2. RunCommand \/ CommandFaults
  BY <1>1 DEF Next, ExecutorStep, Exited, Dispatch, RecoveryFails, Explain, ToRoute, InvalidSchema,
     StartRecovery, NoRecovery, EndRecovery, CommandsKeep, RunSearch, SearchFaults, RunRoute, vars,
     commandVars
<1>3. ~Kill
  BY CommandAssumption DEF Kill, Unstarted
<1>4. ~MainStep /\ ~Begin(executor)
  BY <1>1 DEF MainStep, Begin, Begun, Join, PutLedgersKnown, PutLedgers, Draft, Seal, Publish, Throw,
     Flush, MainKeeps, commandVars
<1>5. PICK q \in Pages : PageActs(q)
  BY <1>1, <1>2, <1>3, <1>4 DEF RunCommand, CommandFaults, CommandStep, Fault, PageActs, commandVars
<1>6. PageGoes(q) /\ Tells(q)
  BY <1>5, PageActsGo, PageTells DEF TwinInv
<1>7. p = q
  BY <1>6 DEF PageGoes, Moved
<1>8. faults => faults'
  BY <1>6 DEF PageGoes
<1> QED
  BY <1>6, <1>7, <1>8 DEF Tells

(* Whatever the pages answer and however many run side by side: a page is   *)
(* lost without a disk error or damage only to another page of its batch,   *)
(* which has put the very object into the store (storage.mjs:783).          *)
THEOREM LostPagesAreStored == Spec => LostPagesHaveTwins
<1>1. ASSUME EInv, TwinInv, [Next]_vars, NEW p \in Pages,
             page[p].outcome # "crashed", page'[p].outcome = "crashed", ~faults'
      PROVE  \E q \in batch \ {p} : op[p].value \in Wrote(q)
  <2>1. page[p].pc = "capturing" /\ Refuse(p) /\ ~faults
    BY <1>1, LostByItself
  <2>2. op[p].phase = "check" /\ InStore(op[p].value)
    <3>1. PageHands(p) /\ TypeOK /\ p \in Writers
      BY <1>1, PageFacts
    <3>2. op[p].file = "object"
      BY <2>1, <3>1 DEF PageHands, PageTask
    <3> QED
      BY <2>1, <3>1, <3>2 DEF Refuse, OnDisk, InStore, TypeOK, ValueOK
  <2> QED
    BY <1>1, <2>1, <2>2 DEF TwinInv, Overtaken
<1>2. EInv /\ TwinInv /\ [Next]_vars =>
        [\A p \in Pages :
           page[p].outcome # "crashed" /\ page'[p].outcome = "crashed" /\ ~faults' =>
             \E q \in batch \ {p} : op[p].value \in Wrote(q)]_<<page, faults>>
  BY <1>1
<1> QED
  BY <1>2, InitTwins, NextTwins, ExecutorInv, PTL DEF Spec, LostPagesHaveTwins

-----------------------------------------------------------------------------
(* The route, as the executor runs it.                                      *)
LEMMA ExecutorRoutes == EInv /\ [Next]_vars => [RouteNext]_route
<1> SUFFICES ASSUME EInv, [Next]_vars PROVE [RouteNext]_route
  OBVIOUS
<1>1. CASE ToRoute
  <2>1. job \in Job /\ registry \in Registries /\ StartRoute(job, registry)
    BY <1>1, MainFacts, ExecutorAssumption DEF ToRoute, DispatchInv
  <2> QED
    BY <2>1 DEF RouteNext
<1>2. CASE RunRoute
  BY <1>2 DEF RunRoute, RouteNext
<1>3. CASE \/ Explain \/ InvalidSchema \/ StartRecovery \/ NoRecovery \/ EndRecovery \/ RecoveryFails
           \/ RunSearch \/ RunCommand \/ SearchFaults \/ CommandFaults \/ Exited \/ UNCHANGED vars
  <2>1. UNCHANGED route
    BY <1>3 DEF Explain, InvalidSchema, StartRecovery, NoRecovery, EndRecovery, RecoveryFails, CommandsKeep,
                RunSearch, RunCommand, SearchFaults, CommandFaults, Exited, vars
  <2> QED
    BY <2>1
<1> QED
  BY <1>1, <1>2, <1>3 DEF Next, ExecutorStep, Dispatch

LEMMA ExecutorRouteInv == Spec => []RouteInv
<1>1. ExecutorInit => RouteInv
  BY InitRouteInv DEF ExecutorInit
<1> QED
  BY <1>1, ExecutorInv, ExecutorRoutes, NextRouteInv, PTL DEF Spec

(* In the executor, too, nothing runs after a final outcome, no candidate   *)
(* is tried more often than its retries allow, and the status tells.        *)
THEOREM RoutesOfTheExecutor == Spec => [](VerdictsAreFinal /\ TriesBounded /\ StatusTells)
<1>1. RouteInv => VerdictsAreFinal /\ TriesBounded /\ StatusTells
  BY DEF RouteInv
<1> QED
  BY <1>1, ExecutorRouteInv, PTL

-----------------------------------------------------------------------------
(* The executor is a caller of the evidence store: every step it takes is   *)
(* one of EvidenceStore, or leaves the store alone, or is the run of a      *)
(* child that a search calls, which leaves an object there.                 *)
Data == INSTANCE EvidenceStore_proofs
          WITH Submissions <- Manifest, Lines <- SUBSET (Objects \cup {ManifestName})

ChildStores(o) ==
  /\ objects[o] # "damaged"
  /\ objects' = [objects EXCEPT ![o] = "intact"]
  /\ UNCHANGED <<jobs, journals, manifests, cache, report, outputs, op>>

StoreMoves == Data!StoreNext \/ UNCHANGED storeVars

LEMMA DataNames == Data!StoreAssumption
BY StoreAssumption DEF Data!StoreAssumption, StoreAssumption, Manifest, Data!Manifest, Status,
   Data!Status, CacheRecord, Data!CacheRecord, Report, Data!Report

LEMMA DataTyped == TypeOK <=> Data!TypeOK
<1>1. /\ Data!Manifest = Manifest /\ Data!CacheRecord = CacheRecord /\ Data!Report = Report
      /\ Data!Journal = Journal /\ Data!Output = Output /\ Data!Line = Line
      /\ Data!Phase = Phase /\ Data!File = File
  BY DEF Data!Manifest, Manifest, Data!Status, Status, Data!CacheRecord, CacheRecord, Data!Report, Report,
         Data!Journal, Journal, Data!Output, Output, Data!Line, Line, Data!Phase, Phase, Data!File, File
<1>2. Data!Value = Value
  BY <1>1 DEF Data!Value, Value
<1> QED
  BY <1>1, <1>2 DEF Data!TypeOK, TypeOK, Data!ValueOK, ValueOK

(* What a chain that has an operation in flight does.                       *)
LEMMA StoreProgress ==
  ASSUME NEW w \in Writers,
         \/ Stage(w) \/ Refuse(w) \/ Rename(w) \/ WriteFails(w) \/ AppendLands(w) \/ AppendFails(w)
  PROVE  StoreMoves
<1>1. /\ Stage(w) => Data!Stage(w)
      /\ Refuse(w) => Data!Refuse(w)
  BY DEF Stage, Data!Stage, Refuse, Data!Refuse, OnDisk, Data!OnDisk, disk, Data!disk,
         Immutable, Data!Immutable, Pending, Data!Pending, Idle, Data!Idle
<1>2. /\ Rename(w) => Data!Rename(w)
      /\ WriteFails(w) => Data!WriteFails(w)
  BY DEF Rename, Data!Rename, WriteFails, Data!WriteFails, disk, Data!disk, Pending, Data!Pending,
         Idle, Data!Idle
<1>3. /\ AppendLands(w) => Data!AppendLands(w)
      /\ AppendFails(w) => Data!AppendFails(w)
  BY DEF AppendLands, Data!AppendLands, AppendFails, Data!AppendFails, WithLine, Data!WithLine,
         Torn, Data!Torn, Pending, Data!Pending, Idle, Data!Idle
<1> QED
  BY <1>1, <1>2, <1>3 DEF StoreMoves, Data!StoreNext, Data!Progress

(* What a chain asks of the store, with what the store takes.               *)
LEMMA StoreCalls ==
  ASSUME NEW w \in Writers
  PROVE  /\ Recover(w) => StoreMoves
         /\ \A r \in Runs : CreateJob(w, r) \/ CreateJournal(w, r) => StoreMoves
         /\ \A r \in Runs, o \in Objects :
              PutNew(w, r, o) \/ PutKnown(w, r, o) \/ PublishOutput(w, r, o) => StoreMoves
         /\ \A r \in Runs, refs \in SUBSET Objects : AppendAttempt(w, r, refs) => StoreMoves
         /\ \A m \in Manifest : CommitManifest(w, m) => StoreMoves
<1> USE DEF Start, Data!Start, Free, Data!Free, Pending, Data!Pending, disk, Data!disk
<1>1. Recover(w) => Data!Recover(w)
  BY DEF Recover, Data!Recover, NothingToReport, Data!NothingToReport, ScanResult, Data!ScanResult,
         Unfinished, Data!Unfinished, JournalIntact, Data!JournalIntact
<1>2. ASSUME NEW r \in Runs
      PROVE  /\ CreateJob(w, r) => Data!CreateJob(w, r)
             /\ CreateJournal(w, r) => Data!CreateJournal(w, r)
  BY DEF CreateJob, Data!CreateJob, CreateJournal, Data!CreateJournal
<1>3. ASSUME NEW r \in Runs, NEW o \in Objects
      PROVE  /\ PutNew(w, r, o) => Data!PutNew(w, r, o)
             /\ PutKnown(w, r, o) => Data!PutKnown(w, r, o)
             /\ PublishOutput(w, r, o) => Data!PublishOutput(w, r, o)
  BY DEF PutNew, Data!PutNew, PutKnown, Data!PutKnown, PublishOutput, Data!PublishOutput,
         storeVars, Data!storeVars
<1>4. ASSUME NEW r \in Runs, NEW refs \in SUBSET Objects
      PROVE  /\ AppendAttempt(w, r, refs) => Data!AppendAttempt(w, r, refs)
             /\ refs \in SUBSET (Objects \cup {ManifestName})
  BY DEF AppendAttempt, Data!AppendAttempt
<1>5. ASSUME NEW m \in Manifest
      PROVE  CommitManifest(w, m) => Data!CommitManifest(w, m)
  BY DEF CommitManifest, Data!CommitManifest, ManifestValid, Data!ManifestValid
<1> QED
  BY <1>1, <1>2, <1>3, <1>4, <1>5 DEF StoreMoves, Data!StoreNext, Data!Call

-----------------------------------------------------------------------------
(* The chains of the pages and the main chain hand the store what it takes. *)
LEMMA PageUsesStore ==
  ASSUME EInv, NEW p \in Pages, PageActs(p)
  PROVE  StoreMoves
<1>1. /\ p \in Writers /\ Run \in Runs /\ Bodies \subseteq Objects /\ Extracts \subseteq Objects
      /\ {} \in SUBSET Objects
  BY PageFacts, CommandAssumption
<1>2. CASE StartPage(p)
  BY <1>1, <1>2, StoreCalls DEF StartPage, StoreMoves
<1>3. CASE Started(p) \/ Captured(p) \/ Derived(p) \/ Judged(p) \/ Parsed(p) \/ Rejudged(p) \/ Flush(p)
  BY <1>1, <1>3, StoreProgress DEF Started, Captured, Derived, Judged, Parsed, Rejudged, Flush
<1>4. CASE FetchFails(p) \/ Judge(p) \/ Rejudge(p)
  BY <1>1, <1>4, StoreCalls DEF FetchFails, Judge, Rejudge
<1>5. CASE FinishAttempt(p)
  <2>1. CASE page[p].pc = "captured" /\ AppendAttempt(p, Run, {page[p].source})
    <3>1. page[p].source \in Objects
      BY <1>1, <2>1, PageFacts DEF PageInv
    <3>2. {page[p].source} \in SUBSET Objects
      BY <3>1
    <3> QED
      BY <1>1, <2>1, <3>2, StoreCalls
  <2> QED
    BY <1>1, <1>5, <2>1, StoreProgress DEF FinishAttempt, Turn
<1>6. ASSUME NEW o \in Bodies, CaptureKnown(p, o) \/ CaptureNew(p, o) PROVE StoreMoves
  BY <1>1, <1>6, StoreCalls DEF CaptureKnown, CaptureNew
<1>7. ASSUME NEW o \in Extracts, ParseKnown(p, o) \/ ParseNew(p, o) PROVE StoreMoves
  BY <1>1, <1>7, StoreCalls DEF ParseKnown, ParseNew
<1>8. CASE DeriveKnown(p) \/ DeriveNew(p)
  <2>1. Projected(p) \in Objects
    BY <1>8, ProjectedTyped DEF DeriveKnown, DeriveNew
  <2> QED
    BY <1>1, <1>8, <2>1, StoreCalls DEF DeriveKnown, DeriveNew
<1>9. CASE DeriveNone(p) \/ Underived(p) \/ Unparsed(p) \/ Thrown(p)
  BY <1>1, <1>9, StoreProgress DEF DeriveNone, Underived, Unparsed, Thrown, StoreMoves
<1>10. CASE Skip(p)
  BY <1>1, <1>10, StoreCalls, StoreProgress DEF Skip
<1>11. CASE WriteFails(p) \/ AppendFails(p)
  BY <1>1, <1>11, StoreProgress
<1> QED
  BY <1>2, <1>3, <1>4, <1>5, <1>6, <1>7, <1>8, <1>9, <1>10, <1>11 DEF PageActs, PageStep

LEMMA MainUsesStore ==
  ASSUME EInv, MainStep \/ Begin(executor)
  PROVE  StoreMoves
<1>1. Main \in Writers /\ Run \in Runs /\ Ledgers \in Objects /\ MainInv /\ draft \in Manifest \cup {None}
  BY MainFacts, CommandAssumption
<1>2. CASE Begin(executor) \/ Begun
  BY <1>1, <1>2, StoreCalls, StoreProgress DEF Begin, Begun
<1>3. CASE Join \/ Draft \/ Throw
  BY <1>3 DEF Join, Draft, Throw, StoreMoves
<1>4. CASE PutLedgersKnown \/ PutLedgers
  BY <1>1, <1>4, StoreCalls, StoreProgress DEF PutLedgersKnown, PutLedgers
<1>5. CASE Seal
  <2>1. pc = "seal" => draft \in Manifest
    BY <1>1 DEF MainInv, Drafted
  <2> QED
    BY <1>1, <1>5, <2>1, StoreCalls, StoreProgress DEF Seal, Goto
<1>6. CASE Publish
  <2>1. ASSUME pc = "publish" PROVE draft.artifact \in Objects
    <3>1. draft \in Manifest
      BY <1>1, <2>1 DEF MainInv, Drafted
    <3>2. command \in {"crawl", "extract"} /\ DispatchInv
      BY <2>1, MainFacts DEF DispatchInv
    <3>3. draft.artifact # None
      BY <1>1, <2>1, <3>2, StoreAssumption DEF MainInv, Drafted
    <3> QED
      BY <3>1, <3>3 DEF Manifest
  <2> QED
    BY <1>1, <1>6, <2>1, StoreCalls, StoreProgress DEF Publish, Goto, StoreMoves
<1>7. CASE Flush(Main)
  BY <1>1, <1>7, StoreProgress DEF Flush
<1> QED
  BY <1>2, <1>3, <1>4, <1>5, <1>6, <1>7 DEF MainStep

(* Every step of the executor.                                              *)
LEMMA ExecutorUsesStore ==
  ASSUME EInv, SearchInv, [Next]_vars
  PROVE  StoreMoves \/ \E o \in Objects : ChildStores(o)
<1>1. Main \in Writers /\ Run \in Runs
  BY MainFacts
<1>2. CASE Dispatch \/ RecoveryFails
  BY <1>1, <1>2, StoreCalls, StoreProgress
     DEF Dispatch, RecoveryFails, Explain, ToRoute, InvalidSchema, StartRecovery, NoRecovery, EndRecovery,
         StoreMoves
<1>3. CASE RunCommand \/ CommandFaults
  <2>1. ASSUME NEW p \in Pages, PageActs(p) PROVE StoreMoves
    BY <2>1, PageUsesStore
  <2>2. CASE Kill
    <3>1. Data!Crash(Writers) /\ Writers \in SUBSET Writers
      BY <2>2 DEF Kill, Crash, Data!Crash, Idle, Data!Idle, Pending, Data!Pending
    <3> QED
      BY <3>1 DEF StoreMoves, Data!StoreNext
  <2>3. ASSUME NEW o \in Fragile, Damage(o) PROVE StoreMoves
    <3>1. Data!Damage(o) /\ o \in Objects
      BY <2>3, ExecutorAssumption DEF Damage, Data!Damage
    <3> QED
      BY <3>1 DEF StoreMoves, Data!StoreNext
  <2>4. CASE WriteFails(Main)
    BY <1>1, <2>4, StoreProgress
  <2>5. CASE MainStep \/ Begin(executor)
    BY <2>5, MainUsesStore
  <2> QED
    BY <1>3, <2>1, <2>2, <2>3, <2>4, <2>5 DEF RunCommand, CommandFaults, CommandStep, Fault, PageActs
<1>4. CASE RunSearch \/ SearchFaults
  <2>1. ASSUME NEW o \in Sources, ScrapeWith(o) PROVE o \in Objects /\ ChildStores(o)
    BY <2>1, SearchAssumption DEF ScrapeWith, ChildStores
  <2>2. CASE SearchSeals(Main, Run)
    <3>1. SearchManifest(Run) \in Manifest
      BY <1>1 DEF SearchManifest, Manifest, Status
    <3> QED
      BY <1>1, <2>2, <3>1, StoreCalls, StoreProgress DEF SearchSeals
  <2>3. CASE SearchBegins(Main, Run) \/ SearchWriteFails(Main) \/ SearchFlush(Main)
    BY <1>1, <2>3, StoreCalls, StoreProgress DEF SearchBegins, SearchWriteFails, SearchFlush
  <2>4. CASE \/ StartSearch \/ StopSearch \/ ProviderFails \/ ScrapeWithout \/ ChildThrows
             \/ \E answer \in Answers : ProviderAnswers(answer)
    BY <2>4 DEF StartSearch, StopSearch, ProviderFails, ScrapeWithout, ChildThrows, ProviderAnswers,
                StoreMoves
  <2> QED
    BY <1>4, <2>1, <2>2, <2>3, <2>4 DEF RunSearch, SearchFaults, SearchStep
<1>5. CASE RunRoute \/ UNCHANGED vars
  BY <1>5 DEF RunRoute, vars, StoreMoves
<1> QED
  BY <1>2, <1>3, <1>4, <1>5 DEF Next, ExecutorStep, Exited

(* The executor only uses the store the way EvidenceStore allows            *)
(* (core.mjs:1655-1762 over storage.mjs), whatever the job; and a child of  *)
(* a search only adds to the objects.                                       *)
THEOREM ExecutorCallsStore ==
  Spec => [][Data!StoreNext \/ \E o \in Objects : ChildStores(o)]_storeVars
<1>1. EInv /\ SearchInv /\ [Next]_vars =>
        [Data!StoreNext \/ \E o \in Objects : ChildStores(o)]_storeVars
  BY ExecutorUsesStore DEF StoreMoves
<1> QED
  BY <1>1, ExecutorInv, PTL DEF Spec

-----------------------------------------------------------------------------
(* What is proved of the store under arbitrary callers holds of the         *)
(* executor, on a store that an earlier process has left behind.            *)
LEMMA StoreIsFound == ExecutorInit => Data!Inv
<1> SUFFICES ASSUME ExecutorInit PROVE Data!Inv
  OBVIOUS
<1>1. Data!TypeOK
  BY ExecutorBegins, DataTyped DEF EInv, CommandTypeOK
<1>2. /\ manifests = [r \in Runs |-> None] /\ cache = None
      /\ \A w \in Writers : op[w].file = "none"
  BY DEF ExecutorInit, Idle, Pending
<1> QED
  BY <1>1, <1>2 DEF Data!Inv, Data!EvidencePresent, Data!CacheBehindManifest, Data!InFlight,
                    Data!OneCreator

LEMMA ChildKeepsStore ==
  ASSUME Data!Inv, NEW o \in Objects, ChildStores(o)
  PROVE  Data!Inv'
<1>1. /\ Data!TypeOK /\ objects' = [objects EXCEPT ![o] = "intact"]
      /\ UNCHANGED <<jobs, journals, manifests, cache, report, outputs, op>>
  BY DEF Data!Inv, ChildStores
<1>2. Data!TypeOK'
  BY <1>1 DEF Data!TypeOK, Data!ValueOK
<1>3. \A a \in Objects : objects[a] # "absent" => objects'[a] # "absent"
  BY <1>1 DEF Data!TypeOK
<1>4. ASSUME NEW m \in Data!Manifest, Data!Stored(m)
      PROVE  \A a \in m.artifacts : objects'[a] # "absent"
  BY <1>3, <1>4 DEF Data!Stored, Data!Manifest
<1>5. ASSUME NEW c \in Data!CacheRecord, Data!Bound(c)
      PROVE  /\ manifests'[c.run] # None
             /\ c.digest.run = c.run
             /\ c.digest.status = "ok"
             /\ {c.source, c.artifact} \subseteq c.digest.artifacts
             /\ \A a \in c.digest.artifacts : objects'[a] # "absent"
  BY <1>1, <1>4, <1>5 DEF Data!Bound, Data!CacheRecord
<1>6. Data!EvidencePresent'
  BY <1>1, <1>4 DEF Data!Inv, Data!EvidencePresent, Data!Stored, Data!TypeOK
<1>7. Data!CacheBehindManifest'
  BY <1>1, <1>5 DEF Data!Inv, Data!CacheBehindManifest, Data!Bound, Data!Stored, Data!TypeOK
<1>8. \A w \in Writers : Data!InFlight(w)'
  <2> SUFFICES ASSUME NEW w \in Writers PROVE Data!InFlight(w)'
    OBVIOUS
  <2>1. Data!InFlight(w) /\ Data!ValueOK(op[w].file, op[w].value)
    BY DEF Data!Inv, Data!TypeOK
  <2>2. op[w].file = "manifest" => Data!Stored(op[w].value)'
    BY <1>1, <1>4, <2>1 DEF Data!InFlight, Data!ValueOK, Data!Stored
  <2>3. op[w].file = "cache" => Data!Bound(op[w].value)'
    BY <1>1, <1>5, <2>1 DEF Data!InFlight, Data!ValueOK, Data!Bound, Data!Stored
  <2> QED
    BY <1>1, <2>1, <2>2, <2>3 DEF Data!InFlight
<1>9. Data!OneCreator'
  BY <1>1 DEF Data!Inv, Data!OneCreator
<1> QED
  BY <1>2, <1>6, <1>7, <1>8, <1>9 DEF Data!Inv

LEMMA ExecutorKeepsStore ==
  ASSUME EInv, SearchInv, Data!Inv, [Next]_vars
  PROVE  Data!Inv'
<1>1. CASE StoreMoves
  <2>1. [Data!StoreNext]_(Data!storeVars)
    BY <1>1 DEF StoreMoves, storeVars, Data!storeVars
  <2> QED
    BY <2>1, DataNames, Data!NextInv
<1> QED
  BY <1>1, ExecutorUsesStore, ChildKeepsStore

LEMMA ExecutorStore == Spec => []Data!Inv
<1>1. EInv /\ SearchInv /\ Data!Inv /\ [Next]_vars => Data!Inv'
  BY ExecutorKeepsStore
<1> QED
  BY <1>1, StoreIsFound, ExecutorInv, PTL DEF Spec

(* Whatever the job, however many pages a crawl runs side by side and       *)
(* whoever dies: the manifest of a run never precedes its evidence.         *)
THEOREM ExecutorKeepsEvidence == Spec => []EvidencePresent
<1>1. Data!Inv => EvidencePresent
  BY DEF Data!Inv, Data!EvidencePresent, EvidencePresent, Data!Stored, Stored
<1> QED
  BY <1>1, ExecutorStore, PTL

(* The journals of all runs, the earlier one's too, only grow.              *)
THEOREM ExecutorKeepsJournals == Spec => JournalsOnlyGrow
<1>1. ASSUME EInv, SearchInv, Data!Inv, [Next]_vars, NEW r \in Runs
      PROVE  journals[r].exists =>
               /\ journals'[r].exists
               /\ journals[r].torn => journals'[r].torn
               /\ journals[r].refs \subseteq journals'[r].refs
  <2>1. CASE StoreMoves
    <3>1. [Data!StoreNext]_(Data!storeVars) /\ Data!TypeOK
      BY <1>1, <2>1 DEF StoreMoves, storeVars, Data!storeVars, Data!Inv
    <3>2. ASSUME NEW w \in Writers, op[w].file = "journal", op[w].value = r
          PROVE  ~journals[r].exists
      BY <1>1, <3>2 DEF Data!Inv, Data!InFlight
    <3> QED
      BY <3>1, <3>2, DataNames, Data!JournalStep DEF Data!JournalGrows
  <2>2. CASE \E o \in Objects : ChildStores(o)
    BY <2>2 DEF ChildStores
  <2> QED
    BY <1>1, <2>1, <2>2, ExecutorUsesStore
<1>2. EInv /\ SearchInv /\ Data!Inv /\ [Next]_vars =>
        [\A r \in Runs : journals[r].exists =>
           /\ journals'[r].exists
           /\ journals[r].torn => journals'[r].torn
           /\ journals[r].refs \subseteq journals'[r].refs]_journals
  BY <1>1
<1> QED
  BY <1>2, ExecutorStore, ExecutorInv, PTL DEF Spec, JournalsOnlyGrow

(* From wherever an earlier process left the runs, each step of the         *)
(* executor keeps the promise of RunLedger: a run is begun once, sealed     *)
(* once and never unsealed, and only a sealed run is served.                *)
THEOREM ExecutorKeepsLedger == Spec => [][Ledger!LedgerNext]_(Ledger!ledgerVars)
<1>1. ASSUME Data!Inv, Data!Inv', EInv, SearchInv, [Next]_vars
      PROVE  [Ledger!LedgerNext]_(Ledger!ledgerVars)
  <2>1. CASE StoreMoves
    <3>1. [Data!StoreNext]_(Data!storeVars)
      BY <2>1 DEF StoreMoves, storeVars, Data!storeVars
    <3>2. [Data!Ledger!LedgerNext]_(Data!Ledger!ledgerVars)
      BY <1>1, <3>1, DataNames, Data!StepRefines
    <3> QED
      BY <3>2 DEF Data!Ledger!LedgerNext, Ledger!LedgerNext, Data!Ledger!ledgerVars, Ledger!ledgerVars,
                  Data!Life, Life, Data!Served, Served, Data!Ledger!Open, Ledger!Open,
                  Data!Ledger!Seal, Ledger!Seal, Data!Ledger!Serve, Ledger!Serve
  <2>2. CASE \E o \in Objects : ChildStores(o)
    BY <2>2 DEF ChildStores, Ledger!ledgerVars, Life, Served
  <2> QED
    BY <1>1, <2>1, <2>2, ExecutorUsesStore
<1> QED
  BY <1>1, ExecutorStore, ExecutorInv, PTL DEF Spec

=============================================================================
