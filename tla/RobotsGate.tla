----------------------------- MODULE RobotsGate -----------------------------
(***************************************************************************)
(* The robots gate of src/src/robots.mjs: check(url) decides whether a     *)
(* page may be fetched, from the robots.txt of its origin.  Answers are    *)
(* cached per origin for a time to live, in least-recently-used order; a   *)
(* check that finds nothing fetches the file itself, even when another     *)
(* check of the same origin is doing so, under one timer that spans its    *)
(* retries and the reading of the body.  Everything that is not an answer  *)
(* refuses the page and is not cached.                                     *)
(*                                                                         *)
(* A site answers that it has a robots.txt or that it has none, and may    *)
(* change its mind; every answer carries its origin and its age along      *)
(* (history).  A request may also bring no answer: an error, a refusal, a  *)
(* rate limit.                                                             *)
(*                                                                         *)
(* Times are relative: where the code stores now + ttl and compares it     *)
(* with a later now, the model stores how long ago it was.                 *)
(***************************************************************************)
EXTENDS Naturals, Sequences, FiniteSets

CONSTANTS
  Checks,           (* callers, each with one check at a time                *)
  Origins,
  Paths,            (* pages of an origin                                    *)
  Files,            (* texts of a robots.txt, sequences of lines             *)
  TokenLength,      (* of our product token, in which agents are looked for  *)
  Resources,        (* what a site may answer for /robots.txt                *)
  Nothing,          (* no answer yet                                         *)
  RetryAfters,      (* what a rate-limited answer may ask for                *)
  Ttl, Timeout, Retries, MaxCacheEntries,    (* options of createRobotsGate  *)
  SleepHearsAbort,  (* whether the injected sleep listens to its signal      *)
  Late              (* how late a timer can fire                             *)

VARIABLES
  cache,            (* the entries of the Map, in its insertion order        *)
  check

vars == <<cache, check>>

(* How old an answer can be when it decides a page: it was given after its  *)
(* check began, came back before that check's timer fired, and is served    *)
(* until it expires.                                                        *)
MaxAge == Ttl + Timeout + Late

Never == MaxAge + 1

(* Ages and waits stop where nothing distinguishes them any more.           *)
Older(age, most) == IF age < most THEN age + 1 ELSE most

Sooner(wait) == IF wait > 0 THEN wait - 1 ELSE 0

Awaiting == {"fetch", "sleep", "body"}

Reply == [origin: Origins, resource: Resources, age: 0..Never]

Entry == [origin: Origins, reply: Reply, age: 0..Ttl]

(* A check that has returned keeps the reply that decided it, if one did.   *)
Check == [pc: Awaiting \cup {"idle", "done"}, origin: Origins, elapsed: 0..(Timeout + Late),
          attempt: 0..Retries, stopped: BOOLEAN, wait: 0..Timeout, reply: Reply \cup {Nothing}]

(* A line of a robots.txt names agents (of a user agent, the length of its  *)
(* token if our product token contains it, or 0 for "*"), is a rule, which  *)
(* matches a set of paths and is as specific as its pattern is long, or is  *)
(* another directive of a group (a rule without a pattern, a crawl-delay).  *)
Rule == [allow: BOOLEAN, matches: SUBSET Paths, specificity: Nat]

Line == [field: {"agent"}, agents: SUBSET (0..TokenLength)]
          \cup [field: {"rule"}, rule: Rule] \cup [field: {"directive"}]

ASSUME GateAssumption ==
  /\ Origins # {}
  /\ TokenLength \in Nat
  /\ Files \subseteq Seq(Line)
  /\ \A res \in Resources : res.status \in {"found", "absent"}
  /\ Nothing \notin Reply
  /\ RetryAfters \subseteq Nat
  /\ {Ttl, Retries, Late} \subseteq Nat
  /\ {Timeout, MaxCacheEntries} \subseteq Nat \ {0}
  /\ SleepHearsAbort \in BOOLEAN

-----------------------------------------------------------------------------
(* parseRobots.                                                             *)

(* Faulty: a directive does not end the agents of its group.                *)
WithLineRunOn(groups, line) ==
  LET n == Len(groups) IN
  IF line.field = "agent"
  THEN IF groups = <<>>
       THEN <<[agents |-> line.agents, rules |-> <<>>, closed |-> FALSE]>>
       ELSE [groups EXCEPT ![n].agents = @ \cup line.agents]
  ELSE IF groups = <<>> \/ line.field = "directive" THEN groups
  ELSE [groups EXCEPT ![n].rules = Append(@, line.rule)]

(* Agents in a row share a group, which its first directive closes to more  *)
(* of them; directives before any agent belong to nobody.                   *)
WithLine(groups, line) ==
  LET n == Len(groups) IN
  IF line.field = "agent"
  THEN IF groups = <<>> \/ groups[n].closed
       THEN Append(groups, [agents |-> line.agents, rules |-> <<>>, closed |-> FALSE])
       ELSE [groups EXCEPT ![n].agents = @ \cup line.agents]
  ELSE IF groups = <<>> THEN groups
  ELSE [groups EXCEPT ![n].closed = TRUE,
                      ![n].rules = IF line.field = "rule" THEN Append(@, line.rule) ELSE @]

Groups(lines) ==
  LET after[n \in 0..Len(lines)] ==
        IF n = 0 THEN <<>> ELSE WithLine(after[n - 1], lines[n]) IN
  after[Len(lines)]

(* selectGroups: the longest token wins, "*" only when there is none.       *)
SelectGroups(groups) ==
  LET agents == {0} \cup UNION {groups[i].agents : i \in DOMAIN groups}
      best == CHOOSE n \in agents : \A m \in agents : m <= n IN
  {i \in DOMAIN groups : best \in groups[i].agents}

(* Their rules, in the order of the file.                                   *)
Rules(lines) ==
  LET groups == Groups(lines)
      upTo[n \in 0..Len(groups)] ==
        IF n = 0 THEN <<>>
        ELSE upTo[n - 1] \o (IF n \in SelectGroups(groups) THEN groups[n].rules ELSE <<>>) IN
  upTo[Len(groups)]

NoRule == [allow |-> TRUE, matches |-> {}, specificity |-> 0]

(* The first of the most specific rules that match, or the first of them    *)
(* that allows.                                                             *)
Better(rule, winner) ==
  \/ winner = NoRule
  \/ rule.specificity > winner.specificity
  \/ rule.specificity = winner.specificity /\ rule.allow /\ ~winner.allow

Winner(rules, path) ==
  LET after[n \in 0..Len(rules)] ==
        IF n = 0 THEN NoRule
        ELSE IF path \in rules[n].matches /\ Better(rules[n], after[n - 1]) THEN rules[n]
        ELSE after[n - 1] IN
  after[Len(rules)]

(* decide: whether a robots.txt lets us fetch a path.                       *)
Allows(lines, path) == Winner(Rules(lines), path).allow

-----------------------------------------------------------------------------
(* The cache.                                                               *)

(* Map.delete: an origin has one entry at most.                             *)
Without(origin) ==
  LET places == {i \in DOMAIN cache : cache[i].origin = origin}
      place == CHOOSE i \in places : TRUE IN
  IF places = {} THEN cache
  ELSE SubSeq(cache, 1, place - 1) \o SubSeq(cache, place + 1, Len(cache))

(* Faulty: an entry is still served at the moment it expires.               *)
HitsLonger(origin) ==
  {i \in DOMAIN cache : cache[i].origin = origin /\ cache[i].age <= Ttl}

(* cached: the entry of the origin, unless it has expired.                  *)
Hits(origin) ==
  {i \in DOMAIN cache : cache[i].origin = origin /\ cache[i].age < Ttl}

(* Faulty: room is made for the entries there were, not for the new one.    *)
RememberOneMore(origin, reply) ==
  LET longer == Append(Without(origin), [origin |-> origin, reply |-> reply, age |-> 0])
      over == IF Len(cache) > MaxCacheEntries THEN Len(cache) - MaxCacheEntries ELSE 0 IN
  cache' = IF Ttl = 0 THEN cache ELSE SubSeq(longer, over + 1, Len(longer))

(* remember: the newest entry goes last, the oldest ones make room.         *)
Remember(origin, reply) ==
  LET longer == Append(Without(origin), [origin |-> origin, reply |-> reply, age |-> 0])
      over == IF Len(longer) > MaxCacheEntries THEN Len(longer) - MaxCacheEntries ELSE 0 IN
  cache' = IF Ttl = 0 THEN cache ELSE SubSeq(longer, over + 1, Len(longer))

-----------------------------------------------------------------------------
Unused == [pc |-> "idle", origin |-> CHOOSE o \in Origins : TRUE, elapsed |-> 0, attempt |-> 0,
           stopped |-> FALSE, wait |-> 0, reply |-> Nothing]

Init ==
  /\ cache = <<>>
  /\ check = [c \in Checks |-> Unused]

(* A check of any page of o that has returned.                              *)
Decided(o, reply) == [Unused EXCEPT !.pc = "done", !.origin = o, !.reply = reply]

(* Every terminal outcome of the gate; nothing is remembered.               *)
Fail(c) ==
  /\ check' = [check EXCEPT ![c] = [Unused EXCEPT !.pc = "done"]]
  /\ UNCHANGED cache

(* An answer came before the timer and the caller's signal.                 *)
Accept(c) ==
  /\ Remember(check[c].origin, check[c].reply)
  /\ check' = [check EXCEPT ![c] = Decided(check[c].origin, check[c].reply)]

(* check, up to its first await.  A hit moves to the end of the Map.  (A    *)
(* caller's signal that is already aborted is an Abort right after.)        *)
Begin(c, o) ==
  /\ check[c].pc \notin Awaiting
  /\ \/ \E i \in Hits(o) :
          /\ cache' = Append(Without(o), cache[i])
          /\ check' = [check EXCEPT ![c] = Decided(o, cache[i].reply)]
     \/ /\ Hits(o) = {}
        /\ cache' = Without(o)
        /\ check' = [check EXCEPT ![c] = [Unused EXCEPT !.pc = "fetch", !.origin = o]]

(* The site answers; the answer may be long on its way.                     *)
Answer(c) ==
  /\ check[c].pc = "fetch" /\ check[c].reply = Nothing /\ ~check[c].stopped
  /\ \E res \in Resources :
       check' = [check EXCEPT ![c].reply = [origin |-> check[c].origin, resource |-> res, age |-> 0]]
  /\ UNCHANGED cache

(* No answer: gateway.execute rejects (DNS, policy, connection, redirects   *)
(* or abort), or the site says 401, 403, 5xx or something malformed.        *)
NoAnswer(c) == check[c].pc = "fetch" /\ Fail(c)

(* A 429 is tried again within the retries, if it asks for less than the    *)
(* timeout and the check has not been aborted.                              *)
RateLimited(c) ==
  /\ check[c].pc = "fetch" /\ ~check[c].stopped
  /\ check[c].attempt < Retries
  /\ \E delay \in RetryAfters :
       /\ delay < Timeout
       /\ check' = [check EXCEPT ![c].pc = "sleep", ![c].wait = delay]
  /\ UNCHANGED cache

Wake(c) ==
  /\ check[c].pc = "sleep"
  /\ \/ /\ check[c].wait = 0
        /\ check' = [check EXCEPT ![c].pc = "fetch", ![c].reply = Nothing, ![c].attempt = @ + 1]
        /\ UNCHANGED cache
     \/ SleepHearsAbort /\ check[c].stopped /\ Fail(c)

(* 404 and other 4xx: there is no robots.txt, every page may be fetched.    *)
Absent(c) ==
  /\ check[c].pc = "fetch" /\ ~check[c].stopped
  /\ check[c].reply # Nothing /\ check[c].reply.resource.status = "absent"
  /\ Accept(c)

(* 200: the body is read under the same timer.                              *)
Found(c) ==
  /\ check[c].pc = "fetch" /\ ~check[c].stopped
  /\ check[c].reply # Nothing /\ check[c].reply.resource.status = "found"
  /\ check' = [check EXCEPT ![c].pc = "body"]
  /\ UNCHANGED cache

(* The body is read, decoded and parsed.                                    *)
Read(c) == check[c].pc = "body" /\ ~check[c].stopped /\ Accept(c)

(* Faulty: an abort goes unnoticed while the body is read.                  *)
ReadFailsByItself(c) == check[c].pc = "body" /\ ~check[c].stopped /\ Fail(c)

(* It is too large, malformed, lost or aborted.                             *)
ReadFails(c) == check[c].pc = "body" /\ Fail(c)

-----------------------------------------------------------------------------
(* The timer of the check and the caller's signal abort the same            *)
(* controller: no reply counts any more.                                    *)
Stop(c) ==
  /\ check[c].pc \in Awaiting /\ ~check[c].stopped
  /\ check' = [check EXCEPT ![c] = [@ EXCEPT !.stopped = TRUE, !.elapsed = 0, !.reply = Nothing]]
  /\ UNCHANGED cache

Expire(c) == check[c].elapsed >= Timeout /\ Stop(c)

Abort(c) == Stop(c)

Aged(reply) == IF reply = Nothing THEN reply ELSE [reply EXCEPT !.age = Older(@, Never)]

(* Time passes, but no timer is later than Late.                            *)
Tick ==
  /\ \A c \in Checks : check[c].pc \in Awaiting /\ ~check[c].stopped
                         => check[c].elapsed < Timeout + Late
  /\ cache' = [i \in DOMAIN cache |-> [cache[i] EXCEPT !.age = Older(@, Ttl),
                                                       !.reply.age = Older(@, Never)]]
  /\ check' = [c \in Checks |->
       IF check[c].pc \notin Awaiting THEN check[c]
       ELSE [check[c] EXCEPT !.elapsed = IF check[c].stopped THEN @ ELSE Older(@, Timeout + Late),
                             !.wait = Sooner(@),
                             !.reply = Aged(@)]]

(* What an aborted check is waiting for rejects.                            *)
Rejects(c) == check[c].stopped /\ (NoAnswer(c) \/ ReadFails(c))

Next ==
  \/ \E c \in Checks :
       \/ \E o \in Origins : Begin(c, o)
       \/ Answer(c) \/ NoAnswer(c) \/ RateLimited(c) \/ Wake(c) \/ Absent(c) \/ Found(c)
       \/ Read(c) \/ ReadFails(c) \/ Expire(c) \/ Abort(c)
  \/ Tick

Spec == Init /\ [][Next]_vars

(* Time passes, timers fire, and what listens to an aborted signal rejects. *)
(* The site owes no answer.                                                 *)
FairSpec ==
  /\ Spec
  /\ WF_vars(Tick)
  /\ \A c \in Checks : WF_vars(Expire(c)) /\ WF_vars(Rejects(c)) /\ WF_vars(Wake(c))

-----------------------------------------------------------------------------
(* Properties.                                                              *)

TypeOK ==
  /\ cache \in Seq(Entry)
  /\ check \in [Checks -> Check]

(* robots.mjs fails closed: whichever checks of whichever origins overlap,  *)
(* time out or retry, a page is decided only by an answer that its own      *)
(* origin gave at most MaxAge before the check returned.                    *)
DecidedWhileFresh ==
  \A c \in Checks : check[c].pc = "done" /\ check[c].reply # Nothing =>
    check[c].reply.origin = check[c].origin /\ check[c].reply.age <= MaxAge

(* A robots.txt by the book.  A rule is about the agents named above it,    *)
(* with no agent named anew in between; it is ours if one of them is the    *)
(* longest of the whole file.                                               *)
AgentsOf(lines, i) ==
  UNION {lines[j].agents : j \in {j \in 1..(i - 1) :
           /\ lines[j].field = "agent"
           /\ ~\E d, k \in (j + 1)..(i - 1) :
                 d < k /\ lines[d].field # "agent" /\ lines[k].field = "agent"}}

Ours(lines) ==
  LET agents == {0} \cup UNION {lines[j].agents : j \in {j \in DOMAIN lines : lines[j].field = "agent"}} IN
  {lines[i].rule : i \in {i \in DOMAIN lines :
     /\ lines[i].field = "rule"
     /\ \E n \in AgentsOf(lines, i) : \A m \in agents : m <= n}}

Permits(lines, path) ==
  LET matching == {rule \in Ours(lines) : path \in rule.matches} IN
  matching # {} => \E rule \in matching :
                     rule.allow /\ \A other \in matching : other.specificity <= rule.specificity

Misread == {lines \in Files : \E p \in Paths : Allows(lines, p) # Permits(lines, p)}

(* robots.mjs:124-275: whatever file it is that decides, a page is let      *)
(* through if and only if, of the rules for the agents that name us best,   *)
(* one of the most specific that match allows it, in whatever order the     *)
(* file has its lines.                                                      *)
RulesByTheBook ==
  \A c \in Checks : check[c].pc = "done" /\ check[c].reply # Nothing =>
    (check[c].reply.resource.status = "found" => Misread = {})

(* The cache stays within its size with one entry per origin, although      *)
(* overlapping checks of one origin each remember their own answer; an      *)
(* entry is its origin's own answer and, while it is served, hardly younger *)
(* than that answer.                                                        *)
CacheSound ==
  /\ TypeOK
  /\ Len(cache) <= MaxCacheEntries
  /\ \A i, j \in DOMAIN cache : cache[i].origin = cache[j].origin => i = j
  /\ \A i \in DOMAIN cache :
       /\ cache[i].reply.origin = cache[i].origin
       /\ cache[i].age < Ttl => cache[i].reply.age <= cache[i].age + Timeout + Late

(* Every check returns, although sites may never answer, send half a body,  *)
(* or ask for one delay after another.                                      *)
EveryCheckReturns ==
  \A c \in Checks : check[c].pc = "fetch" ~> check[c].pc = "done"

=============================================================================
