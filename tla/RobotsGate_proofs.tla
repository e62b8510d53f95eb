--------------------------- MODULE RobotsGate_proofs ---------------------------
(***************************************************************************)
(* What decides a page: for any number of checks and origins, every time   *)
(* to live, timeout and size of the cache.  A reply is never older than    *)
(* the check that holds it has been running, and an entry of the cache,    *)
(* while it is served, hardly older than it says.                          *)
(*                                                                         *)
(* And what a robots.txt is taken to say, for every file: the groups, the  *)
(* rules and the winner are read in one pass each, and after each line,    *)
(* group or rule they are what the lines so far say (Sofar).               *)
(***************************************************************************)
EXTENDS RobotsGate, SequenceTheorems, WellFoundedInduction, TLAPS

(* An entry speaks for its own origin and its age is close to its reply's.  *)
Fair(e) ==
  /\ e.reply.origin = e.origin
  /\ e.age < Ttl => e.reply.age <= e.age + Timeout + Late

Once(s) == \A i, j \in DOMAIN s : s[i].origin = s[j].origin => i = j

CacheInv ==
  /\ cache \in Seq(Entry)
  /\ Len(cache) <= MaxCacheEntries
  /\ Once(cache)
  /\ \A i \in DOMAIN cache : Fair(cache[i])

(* The reply a check holds is its own, and came while it was running.  One  *)
(* that is stopped has none, one that reads a body has one; one that sleeps *)
(* has a retry left.                                                        *)
Own(k) ==
  /\ k.reply # Nothing =>
       /\ k.reply.origin = k.origin
       /\ k.pc \in Awaiting => k.reply.age <= k.elapsed
       /\ k.pc = "done" => k.reply.age <= MaxAge
  /\ k.stopped => k.reply = Nothing
  /\ k.pc = "body" /\ ~k.stopped => k.reply # Nothing
  /\ k.pc = "sleep" => k.attempt < Retries

GInv ==
  /\ CacheInv
  /\ check \in [Checks -> Check]
  /\ \A c \in Checks : Own(check[c])

LEMMA Options ==
  /\ Ttl \in Nat /\ Retries \in Nat /\ Late \in Nat
  /\ Timeout \in Nat \ {0} /\ MaxCacheEntries \in Nat \ {0}
  /\ MaxAge \in Nat /\ Never = MaxAge + 1
<1>1. \A n \in {Ttl, Retries, Late} : n \in Nat
  BY GateAssumption
<1>2. \A n \in {Timeout, MaxCacheEntries} : n \in Nat \ {0}
  BY GateAssumption
<1> QED
  BY <1>1, <1>2 DEF MaxAge, Never

LEMMA UnusedIsCheck == Unused \in Check /\ Unused.reply = Nothing /\ Unused.pc = "idle" /\ ~Unused.stopped
<1>1. (CHOOSE o \in Origins : TRUE) \in Origins
  BY GateAssumption
<1> QED
  BY <1>1, Options DEF Unused, Check

-----------------------------------------------------------------------------
(* Taking one entry out keeps the others, in their order.                   *)
LEMMA WithoutKeeps ==
  ASSUME CacheInv, NEW o
  PROVE  /\ Without(o) \in Seq(Entry)
         /\ Len(Without(o)) <= Len(cache)
         /\ (\E i \in DOMAIN cache : cache[i].origin = o) => Len(Without(o)) = Len(cache) - 1
         /\ Once(Without(o))
         /\ \A k \in DOMAIN Without(o) : Fair(Without(o)[k]) /\ Without(o)[k].origin # o
<1> DEFINE places == {i \in DOMAIN cache : cache[i].origin = o}
<1>1. cache \in Seq(Entry) /\ Len(cache) \in Nat /\ DOMAIN cache = 1..Len(cache)
  BY DEF CacheInv
<1>2. CASE places = {}
  <2>1. Without(o) = cache
    BY <1>2 DEF Without
  <2>2. \A i \in DOMAIN cache : cache[i].origin # o
    BY <1>2
  <2>3. /\ Without(o) \in Seq(Entry) /\ Len(Without(o)) <= Len(cache) /\ Once(Without(o))
        /\ ~\E i \in DOMAIN cache : cache[i].origin = o
    BY <1>1, <2>1, <2>2 DEF CacheInv
  <2>4. \A k \in DOMAIN Without(o) : Fair(Without(o)[k]) /\ Without(o)[k].origin # o
    BY <2>1, <2>2 DEF CacheInv
  <2> QED
    BY <2>3, <2>4
<1>3. CASE places # {}
  <2> DEFINE p == CHOOSE i \in places : TRUE
             rest == SubSeq(cache, 1, p - 1) \o SubSeq(cache, p + 1, Len(cache))
  <2>1. p \in 1..Len(cache) /\ cache[p].origin = o
    BY <1>1, <1>3
  <2>2. Without(o) = rest
    BY <1>3 DEF Without
  <2>3. \A k \in 1..Len(cache) : k # p => cache[k].origin # o
    BY <1>1, <2>1 DEF CacheInv, Once
  <2> HIDE DEF p
  <2> DEFINE front == SubSeq(cache, 1, p - 1)
             back == SubSeq(cache, p + 1, Len(cache))
  <2> HIDE DEF front, back, rest
  <2>4. /\ front \in Seq(Entry) /\ Len(front) = p - 1
        /\ \A k \in 1..(p - 1) : front[k] = cache[k]
    BY <1>1, <2>1 DEF front
  <2>5. /\ back \in Seq(Entry) /\ Len(back) = Len(cache) - p
        /\ \A k \in 1..(Len(cache) - p) : back[k] = cache[k + p]
    <3>1. p + 1 \in Int /\ Len(cache) \in Int /\ \A k \in (p + 1)..Len(cache) : cache[k] \in Entry
      BY <1>1, <2>1
    <3>2. /\ back \in Seq(Entry)
          /\ Len(back) = IF p + 1 <= Len(cache) THEN Len(cache) - (p + 1) + 1 ELSE 0
          /\ \A k \in 1..(Len(cache) - (p + 1) + 1) : back[k] = cache[(p + 1) + k - 1]
      BY <3>1, SubSeqProperties DEF back
    <3>3. Len(back) = Len(cache) - p
      <4>1. Len(back) = IF p + 1 <= Len(cache) THEN Len(cache) - (p + 1) + 1 ELSE 0
        BY <3>2
      <4>2. Len(cache) \in Nat /\ p \in 1..Len(cache)
        BY <1>1, <2>1
      <4> QED
        BY <4>1, <4>2
    <3>4. ASSUME NEW k \in 1..(Len(cache) - p)
          PROVE  back[k] = cache[k + p]
      <4>1. k \in 1..(Len(cache) - (p + 1) + 1) /\ (p + 1) + k - 1 = k + p
        BY <1>1, <2>1, <3>4
      <4> QED
        BY <3>2, <4>1
    <3> QED
      BY <3>2, <3>3, <3>4
  <2>6. /\ rest \in Seq(Entry) /\ Len(rest) = Len(cache) - 1 /\ DOMAIN rest = 1..(Len(cache) - 1)
        /\ \A k \in 1..(Len(cache) - 1) : rest[k] = cache[IF k < p THEN k ELSE k + 1]
    <3>1. rest = front \o back
      BY DEF front, back, rest
    <3>2. rest \in Seq(Entry) /\ Len(rest) = Len(cache) - 1 /\ DOMAIN rest = 1..(Len(cache) - 1)
      <4>1. rest \in Seq(Entry) /\ Len(rest) = Len(front) + Len(back)
        BY <2>4, <2>5, <3>1, ConcatProperties
      <4> QED
        BY <1>1, <2>1, <2>4, <2>5, <4>1
    <3>3. ASSUME NEW k \in 1..(Len(cache) - 1)
          PROVE  rest[k] = cache[IF k < p THEN k ELSE k + 1]
      <4>1. rest[k] = IF k <= p - 1 THEN front[k] ELSE back[k - (p - 1)]
        <5>1. k \in 1..(Len(front) + Len(back))
          BY <1>1, <2>1, <2>4, <2>5, <3>3
        <5> QED
          BY <2>4, <2>5, <3>1, <5>1, ConcatProperties
      <4>2. CASE k < p
        BY <2>1, <2>4, <3>3, <4>1, <4>2
      <4>3. CASE k >= p
        <5>1. k - (p - 1) \in 1..(Len(cache) - p) /\ (k - (p - 1)) + p = k + 1
          BY <1>1, <2>1, <3>3, <4>3
        <5> QED
          BY <1>1, <2>1, <2>5, <3>3, <4>1, <4>3, <5>1
      <4> QED
        BY <2>1, <3>3, <4>2, <4>3
    <3> QED
      BY <3>2, <3>3
  <2> DEFINE was(k) == IF k < p THEN k ELSE k + 1
  <2>7. ASSUME NEW k \in DOMAIN rest
        PROVE  /\ was(k) \in DOMAIN cache /\ was(k) # p /\ rest[k] = cache[was(k)]
               /\ Fair(rest[k]) /\ rest[k].origin # o
    <3>1. was(k) \in DOMAIN cache /\ was(k) # p /\ rest[k] = cache[was(k)]
      BY <1>1, <2>1, <2>6
    <3> HIDE DEF was
    <3> QED
      BY <1>1, <2>3, <3>1 DEF CacheInv
  <2>8. Once(rest)
    <3>1. ASSUME NEW i \in DOMAIN rest, NEW j \in DOMAIN rest, rest[i].origin = rest[j].origin
          PROVE  i = j
      <4>1. cache[was(i)].origin = cache[was(j)].origin
        BY <2>7, <3>1
      <4>2. was(i) = was(j)
        BY <2>7, <4>1 DEF CacheInv, Once
      <4>3. i \in Nat /\ j \in Nat /\ p \in Nat
        BY <1>1, <2>1, <2>6, <3>1
      <4> QED
        BY <4>2, <4>3
    <3> QED
      BY <3>1 DEF Once
  <2>9. rest \in Seq(Entry) /\ Len(rest) = Len(cache) - 1 /\ Len(rest) <= Len(cache)
    BY <1>1, <2>6
  <2> HIDE DEF places
  <2>10. Without(o) \in Seq(Entry) /\ Len(Without(o)) = Len(cache) - 1 /\ Len(Without(o)) <= Len(cache)
    BY <2>2, <2>9
  <2>11. Once(Without(o))
    BY <2>2, <2>8
  <2>12. \A k \in DOMAIN Without(o) : Fair(Without(o)[k]) /\ Without(o)[k].origin # o
    BY <2>2, <2>7
  <2> QED
    BY <2>10, <2>11, <2>12
<1> QED
  BY <1>2, <1>3

(* A fair entry of an origin that is not there goes last.                   *)
LEMMA AppendKeeps ==
  ASSUME NEW s \in Seq(Entry), Once(s), \A i \in DOMAIN s : Fair(s[i]),
         NEW e \in Entry, Fair(e), \A i \in DOMAIN s : s[i].origin # e.origin
  PROVE  LET t == Append(s, e) IN
         /\ t \in Seq(Entry) /\ Len(t) = Len(s) + 1 /\ Once(t) /\ \A i \in DOMAIN t : Fair(t[i])
BY DEF Once

LEMMA RememberKeeps ==
  ASSUME CacheInv, NEW o \in Origins, NEW reply \in Reply,
         reply.origin = o, reply.age <= Timeout + Late, Remember(o, reply)
  PROVE  CacheInv'
<1> DEFINE e == [origin |-> o, reply |-> reply, age |-> 0]
           longer == Append(Without(o), e)
           over == IF Len(longer) > MaxCacheEntries THEN Len(longer) - MaxCacheEntries ELSE 0
<1>1. e \in Entry /\ Fair(e)
  BY Options DEF Entry, Fair
<1>2. /\ longer \in Seq(Entry) /\ Len(longer) \in Nat \ {0} /\ Once(longer)
      /\ \A i \in DOMAIN longer : Fair(longer[i])
  BY <1>1, WithoutKeeps, AppendKeeps
<1> HIDE DEF longer
<1>3. CASE Ttl = 0
  BY <1>3 DEF Remember, CacheInv
<1>4. CASE Ttl # 0
  <2> DEFINE t == SubSeq(longer, over + 1, Len(longer))
  <2>1. over \in 0..Len(longer) /\ Len(longer) - over <= MaxCacheEntries
    BY <1>2, Options
  <2> HIDE DEF over
  <2>2. /\ t \in Seq(Entry) /\ Len(t) = Len(longer) - over
        /\ \A k \in DOMAIN t : k + over \in DOMAIN longer /\ t[k] = longer[k + over]
    BY <1>2, <2>1
  <2> HIDE DEF t
  <2>3. \A k \in DOMAIN t : Fair(t[k])
    BY <1>2, <2>2
  <2>5. ASSUME NEW i \in DOMAIN t, NEW j \in DOMAIN t, t[i].origin = t[j].origin
        PROVE  i = j
    <3>1. i + over = j + over
      BY <1>2, <2>2, <2>5 DEF Once
    <3> QED
      BY <2>1, <2>2, <3>1
  <2>4. cache' = t
    BY <1>4 DEF Remember, t, over, longer
  <2> QED
    BY <2>1, <2>2, <2>3, <2>4, <2>5 DEF CacheInv, Once
<1> QED
  BY <1>3, <1>4

-----------------------------------------------------------------------------
(* The steps of a check.                                                    *)

LEMMA InitGInv == Init => GInv
<1> SUFFICES ASSUME Init PROVE GInv
  OBVIOUS
<1>1. CacheInv
  BY Options DEF Init, CacheInv, Once
<1>2. check \in [Checks -> Check] /\ \A c \in Checks : Own(check[c])
  BY UnusedIsCheck DEF Init, Own
<1> QED
  BY <1>1, <1>2 DEF GInv

(* A check that moves leaves the others alone.                              *)
LEMMA Moves ==
  ASSUME GInv, CacheInv', NEW c \in Checks, NEW k \in Check, Own(k), check' = [check EXCEPT ![c] = k]
  PROVE  GInv'
<1>1. check' \in [Checks -> Check]
  BY DEF GInv
<1>2. ASSUME NEW d \in Checks
      PROVE  Own(check'[d])
  BY DEF GInv, Own
<1> QED
  BY <1>1, <1>2 DEF GInv, Own

LEMMA DecidedIsCheck ==
  ASSUME NEW o \in Origins, NEW reply \in Reply \cup {Nothing}
  PROVE  /\ Decided(o, reply) \in Check /\ Decided(o, reply).pc = "done"
         /\ Decided(o, reply).origin = o /\ Decided(o, reply).reply = reply
         /\ ~Decided(o, reply).stopped
BY UnusedIsCheck DEF Decided, Check

LEMMA BeginDecides == GInv /\ (\E c \in Checks, o \in Origins : Begin(c, o)) => GInv'
<1> SUFFICES ASSUME GInv, NEW c \in Checks, NEW o \in Origins, Begin(c, o) PROVE GInv'
  OBVIOUS
<1>1. CacheInv
  BY DEF GInv
<1>2. CASE \E i \in Hits(o) : /\ cache' = Append(Without(o), cache[i])
                              /\ check' = [check EXCEPT ![c] = Decided(o, cache[i].reply)]
  <2>1. PICK i \in Hits(o) : /\ cache' = Append(Without(o), cache[i])
                             /\ check' = [check EXCEPT ![c] = Decided(o, cache[i].reply)]
    BY <1>2
  <2>2. i \in DOMAIN cache /\ cache[i].origin = o /\ cache[i].age < Ttl
    BY DEF Hits
  <2>3. cache[i] \in Entry /\ Fair(cache[i])
    BY <1>1, <2>2 DEF CacheInv
  <2>4. Len(Without(o)) = Len(cache) - 1 /\ Len(cache) \in Nat
    BY <1>1, <2>2, WithoutKeeps DEF CacheInv
  <2>5. CacheInv'
    BY <1>1, <2>1, <2>2, <2>3, <2>4, WithoutKeeps, AppendKeeps DEF CacheInv
  <2>6. cache[i].reply \in Reply /\ cache[i].reply.origin = o /\ cache[i].reply.age <= MaxAge
    BY <2>2, <2>3, Options DEF Fair, Entry, Reply, MaxAge
  <2> DEFINE k == Decided(o, cache[i].reply)
  <2>7. /\ k \in Check /\ k.pc = "done" /\ k.origin = o /\ k.reply = cache[i].reply /\ ~k.stopped
        /\ check' = [check EXCEPT ![c] = k]
    BY <2>1, <2>6, DecidedIsCheck
  <2> HIDE DEF k
  <2>8. Own(k)
    BY <2>6, <2>7 DEF Awaiting, Own
  <2> QED
    BY <2>5, <2>7, <2>8, Moves
<1>3. CASE Hits(o) = {} /\ cache' = Without(o)
           /\ check' = [check EXCEPT ![c] = [Unused EXCEPT !.pc = "fetch", !.origin = o]]
  <2>1. CacheInv'
    BY <1>1, <1>3, WithoutKeeps, Options DEF CacheInv
  <2> DEFINE k == [Unused EXCEPT !.pc = "fetch", !.origin = o]
  <2>2. k \in Check /\ k.reply = Nothing /\ k.pc = "fetch" /\ ~k.stopped
    BY UnusedIsCheck DEF Check, Awaiting
  <2>3. Own(k)
    BY <2>2 DEF Own
  <2> QED
    BY <1>3, <2>1, <2>2, <2>3, Moves
<1> QED
  BY <1>2, <1>3 DEF Begin

LEMMA FailDecides == GInv /\ (\E c \in Checks : Fail(c)) => GInv'
<1> SUFFICES ASSUME GInv, NEW c \in Checks, Fail(c) PROVE GInv'
  OBVIOUS
<1>1. CacheInv'
  BY DEF Fail, GInv, CacheInv, Once, Fair
<1> DEFINE k == [Unused EXCEPT !.pc = "done"]
<1>2. k \in Check /\ Own(k)
  BY UnusedIsCheck DEF Check, Own
<1> QED
  BY <1>1, <1>2, Moves DEF Fail

LEMMA AcceptDecides ==
  ASSUME GInv, NEW c \in Checks, check[c].pc \in Awaiting, check[c].reply # Nothing, Accept(c)
  PROVE  GInv'
<1>1. /\ check[c].reply \in Reply /\ check[c].origin \in Origins
      /\ check[c].elapsed \in 0..(Timeout + Late)
      /\ check[c].reply.origin = check[c].origin /\ check[c].reply.age <= check[c].elapsed
  BY DEF GInv, Check, Own
<1>2. check[c].reply.age <= Timeout + Late /\ check[c].reply.age <= MaxAge
  <2>1. check[c].reply.age \in 0..Never
    BY <1>1 DEF Reply
  <2> QED
    BY <1>1, <2>1, Options DEF MaxAge
<1>3. CacheInv'
  BY <1>1, <1>2, RememberKeeps DEF Accept, GInv
<1> DEFINE k == Decided(check[c].origin, check[c].reply)
<1>4. /\ k \in Check /\ k.pc = "done" /\ k.origin = check[c].origin /\ k.reply = check[c].reply
      /\ ~k.stopped /\ check' = [check EXCEPT ![c] = k]
  BY <1>1, DecidedIsCheck DEF Accept
<1> HIDE DEF k
<1>5. Own(k)
  BY <1>1, <1>2, <1>4 DEF Awaiting, Own
<1> QED
  BY <1>3, <1>4, <1>5, Moves

(* The awaits of a check, other than its end.                               *)
LEMMA AwaitKeeps ==
  ASSUME GInv, NEW c \in Checks,
         \/ Answer(c) \/ RateLimited(c) \/ Found(c) \/ Stop(c)
         \/ /\ check[c].pc = "sleep" /\ check[c].wait = 0 /\ UNCHANGED cache
            /\ check' = [check EXCEPT ![c].pc = "fetch", ![c].reply = Nothing, ![c].attempt = @ + 1]
  PROVE  GInv'
<1>1. CacheInv'
  BY DEF Answer, RateLimited, Found, Stop, GInv, CacheInv, Once, Fair
<1>2. check[c] \in Check /\ Own(check[c]) /\ check \in [Checks -> Check]
  BY DEF GInv
<1>3. CASE Answer(c)
  <2>1. PICK res \in Resources :
          check' = [check EXCEPT ![c].reply =
                      [origin |-> check[c].origin, resource |-> res, age |-> 0]]
    BY <1>3 DEF Answer
  <2> DEFINE k == [check[c] EXCEPT !.reply = [origin |-> check[c].origin, resource |-> res, age |-> 0]]
  <2>2. [origin |-> check[c].origin, resource |-> res, age |-> 0] \in Reply
    BY <1>2, Options DEF Check, Reply
  <2>3. k \in Check /\ check' = [check EXCEPT ![c] = k]
    BY <1>2, <2>1, <2>2 DEF Check
  <2>4. Own(k)
    BY <1>2, <1>3, Options DEF Own, Answer, Check, Awaiting
  <2> QED
    BY <1>1, <2>3, <2>4, Moves
<1>4. CASE RateLimited(c)
  <2>1. PICK delay \in RetryAfters :
          delay < Timeout /\ check' = [check EXCEPT ![c].pc = "sleep", ![c].wait = delay]
    BY <1>4 DEF RateLimited
  <2> DEFINE k == [check[c] EXCEPT !.pc = "sleep", !.wait = delay]
  <2>2. delay \in 0..Timeout
    BY <2>1, Options, GateAssumption
  <2>3. k \in Check /\ check' = [check EXCEPT ![c] = k]
    BY <1>2, <2>1, <2>2 DEF Check, Awaiting
  <2>4. Own(k)
    BY <1>2, <1>4 DEF Own, RateLimited, Check, Awaiting
  <2> QED
    BY <1>1, <2>3, <2>4, Moves
<1>5. CASE Found(c)
  <2> DEFINE k == [check[c] EXCEPT !.pc = "body"]
  <2>1. k \in Check /\ check' = [check EXCEPT ![c] = k]
    BY <1>2, <1>5 DEF Check, Awaiting, Found
  <2>2. Own(k)
    BY <1>2, <1>5 DEF Own, Found, Check, Awaiting
  <2> QED
    BY <1>1, <2>1, <2>2, Moves
<1>6. CASE Stop(c)
  <2> DEFINE k == [check[c] EXCEPT !.stopped = TRUE, !.elapsed = 0, !.reply = Nothing]
  <2>1. check' = [check EXCEPT ![c] = k]
    BY <1>6 DEF Stop
  <2>2. k.stopped = TRUE /\ k.reply = Nothing /\ k.pc = check[c].pc /\ k.attempt = check[c].attempt
    BY <1>2 DEF Check
  <2>4. k \in Check
    <3>1. 0 \in 0..(Timeout + Late)
      BY Options
    <3> QED
      BY <1>2, <3>1 DEF Check
  <2> HIDE DEF k
  <2>3. Own(k)
    BY <1>2, <2>2 DEF Own
  <2> QED
    BY <1>1, <2>1, <2>3, <2>4, Moves
<1>7. CASE /\ check[c].pc = "sleep" /\ check[c].wait = 0 /\ UNCHANGED cache
           /\ check' = [check EXCEPT ![c].pc = "fetch", ![c].reply = Nothing, ![c].attempt = @ + 1]
  <2> DEFINE k == [check[c] EXCEPT !.pc = "fetch", !.reply = Nothing, !.attempt = check[c].attempt + 1]
  <2>1. check[c].attempt + 1 \in 0..Retries
    BY <1>2, <1>7, Options DEF Own, Check
  <2>2. k \in Check /\ check' = [check EXCEPT ![c] = k]
    BY <1>2, <1>7, <2>1 DEF Check, Awaiting
  <2>3. Own(k)
    BY <1>2 DEF Own, Check
  <2> QED
    BY <1>1, <2>2, <2>3, Moves
<1> QED
  BY <1>3, <1>4, <1>5, <1>6, <1>7

-----------------------------------------------------------------------------
(* Time.                                                                    *)

LEMMA TickKeeps == GInv /\ Tick => GInv'
<1> SUFFICES ASSUME GInv, Tick PROVE GInv'
  OBVIOUS
<1>1. CacheInv'
  <2>1. cache \in Seq(Entry) /\ Len(cache) \in Nat /\ DOMAIN cache = 1..Len(cache)
    BY DEF GInv, CacheInv
  <2> DEFINE older(e) == [e EXCEPT !.age = Older(e.age, Ttl), !.reply.age = Older(e.reply.age, Never)]
  <2>2. cache' = [i \in DOMAIN cache |-> older(cache[i])]
    BY DEF Tick
  <2>3. ASSUME NEW e \in Entry, Fair(e)
        PROVE  older(e) \in Entry /\ Fair(older(e)) /\ older(e).origin = e.origin
    <3>1. /\ e.age \in 0..Ttl /\ e.reply \in Reply /\ e.reply.age \in 0..Never /\ e.origin \in Origins
      BY <2>3 DEF Entry, Reply
    <3>2. Older(e.age, Ttl) \in 0..Ttl /\ Older(e.reply.age, Never) \in 0..Never
      BY <3>1, Options DEF Older
    <3> DEFINE r == [e.reply EXCEPT !.age = Older(e.reply.age, Never)]
    <3>3. r \in Reply /\ r.origin = e.reply.origin /\ r.age = Older(e.reply.age, Never)
      BY <3>1, <3>2 DEF Reply
    <3>4. /\ older(e).reply = r /\ older(e).age = Older(e.age, Ttl) /\ older(e).origin = e.origin
          /\ older(e) \in Entry
      BY <2>3, <3>2, <3>3 DEF Entry
    <3>5. ASSUME Older(e.age, Ttl) < Ttl
          PROVE  Older(e.reply.age, Never) <= Older(e.age, Ttl) + Timeout + Late
      <4>1. Older(e.age, Ttl) = e.age + 1 /\ e.reply.age <= e.age + Timeout + Late
        BY <2>3, <3>1, <3>5, Options DEF Fair, Older
      <4> QED
        BY <3>1, <4>1, Options DEF Older
    <3>6. e.reply.origin = e.origin
      BY <2>3 DEF Fair
    <3> HIDE DEF r, older
    <3> QED
      BY <3>3, <3>4, <3>5, <3>6 DEF Fair
  <2> HIDE DEF older
  <2>4. \A i \in DOMAIN cache : cache[i] \in Entry /\ Fair(cache[i])
    BY <2>1 DEF GInv, CacheInv
  <2>5. /\ cache' \in Seq(Entry) /\ Len(cache') = Len(cache) /\ DOMAIN cache' = DOMAIN cache
        /\ \A i \in DOMAIN cache : cache'[i] = older(cache[i])
    BY <2>1, <2>2, <2>3, <2>4
  <2> QED
    BY <2>3, <2>4, <2>5 DEF GInv, CacheInv, Once
<1>2. ASSUME NEW c \in Checks
      PROVE  check'[c] \in Check /\ Own(check'[c])
  <2> DEFINE k == check[c]
  <2>1. k \in Check /\ Own(k)
    BY DEF GInv
  <2>2. CASE k.pc \notin Awaiting
    BY <2>1, <2>2 DEF Tick
  <2>3. CASE k.pc \in Awaiting
    <3> DEFINE elapsed == IF k.stopped THEN k.elapsed ELSE Older(k.elapsed, Timeout + Late)
               reply == Aged(k.reply)
               after == [k EXCEPT !.elapsed = elapsed, !.wait = Sooner(k.wait), !.reply = reply]
    <3>1. check'[c] = after
      BY <2>3 DEF Tick
    <3>2. /\ k.elapsed \in 0..(Timeout + Late) /\ k.wait \in 0..Timeout
          /\ k.reply \in Reply \cup {Nothing}
      BY <2>1 DEF Check
    <3>3. elapsed \in 0..(Timeout + Late) /\ Sooner(k.wait) \in 0..Timeout
      BY <3>2, Options DEF Older, Sooner
    <3>4. CASE k.reply = Nothing
      <4>1. reply = Nothing
        BY <3>4 DEF Aged
      <4> HIDE DEF elapsed, reply
      <4>2. /\ after \in Check /\ after.reply = Nothing /\ after.pc = k.pc
            /\ after.attempt = k.attempt /\ after.stopped = k.stopped
        BY <2>1, <3>3, <4>1 DEF Check
      <4> HIDE DEF after
      <4> QED
        BY <2>1, <3>1, <3>4, <4>2 DEF Own
    <3>5. CASE k.reply # Nothing
      <4>1. /\ k.reply \in Reply /\ k.reply.age \in 0..Never /\ ~k.stopped
            /\ k.reply.origin = k.origin /\ k.reply.age <= k.elapsed
        BY <2>1, <2>3, <3>2, <3>5 DEF Own, Reply
      <4>2. k.elapsed < Timeout + Late
        BY <2>3, <4>1 DEF Tick
      <4>3. elapsed = k.elapsed + 1
        BY <4>1, <4>2 DEF Older
      <4>4. Older(k.reply.age, Never) \in 0..Never /\ Older(k.reply.age, Never) <= elapsed
        BY <3>2, <4>1, <4>3, Options DEF Older
      <4>5. /\ reply \in Reply /\ reply.age = Older(k.reply.age, Never)
            /\ reply.origin = k.reply.origin
        BY <3>5, <4>1, <4>4 DEF Reply, Aged
      <4> HIDE DEF elapsed, reply
      <4>6. /\ after \in Check /\ after.reply = reply /\ after.pc = k.pc /\ after.origin = k.origin
            /\ after.elapsed = elapsed /\ after.attempt = k.attempt /\ ~after.stopped
        BY <2>1, <3>3, <4>1, <4>5 DEF Check
      <4> HIDE DEF after
      <4>7. after.pc # "done" /\ reply # Nothing
        BY <2>3, <4>5, <4>6, GateAssumption DEF Awaiting
      <4> QED
        BY <2>1, <3>1, <4>1, <4>4, <4>5, <4>6, <4>7 DEF Own
    <3> QED
      BY <3>4, <3>5
  <2> QED
    BY <2>2, <2>3
<1>3. check' \in [Checks -> Check]
  BY <1>2 DEF Tick
<1> QED
  BY <1>1, <1>2, <1>3 DEF GInv

-----------------------------------------------------------------------------
LEMMA NextGInv == GInv /\ [Next]_vars => GInv'
<1> SUFFICES ASSUME GInv, [Next]_vars PROVE GInv'
  OBVIOUS
<1>1. CASE UNCHANGED vars
  BY <1>1 DEF vars, GInv, CacheInv, Once, Fair, Own
<1>2. CASE Tick
  BY <1>2, TickKeeps
<1>3. ASSUME NEW c \in Checks,
             \/ \E o \in Origins : Begin(c, o)
             \/ Answer(c) \/ NoAnswer(c) \/ RateLimited(c) \/ Wake(c) \/ Absent(c) \/ Found(c)
             \/ Read(c) \/ ReadFails(c) \/ Expire(c) \/ Abort(c)
      PROVE  GInv'
  <2>1. CASE \E o \in Origins : Begin(c, o)
    BY <2>1, BeginDecides
  <2>2. CASE Answer(c) \/ RateLimited(c) \/ Found(c)
    BY <2>2, AwaitKeeps
  <2>3. CASE NoAnswer(c) \/ ReadFails(c)
    BY <2>3, FailDecides DEF NoAnswer, ReadFails
  <2>4. CASE Wake(c)
    BY <2>4, AwaitKeeps, FailDecides DEF Wake
  <2>5. CASE Absent(c) \/ Read(c)
    <3>1. check[c].pc \in Awaiting /\ check[c].reply # Nothing /\ Accept(c)
      BY <2>5 DEF Absent, Read, Awaiting, GInv, Own
    <3> QED
      BY <3>1, AcceptDecides
  <2>6. CASE Expire(c) \/ Abort(c)
    BY <2>6, AwaitKeeps DEF Expire, Abort
  <2> QED
    BY <1>3, <2>1, <2>2, <2>3, <2>4, <2>5, <2>6
<1> QED
  BY <1>1, <1>2, <1>3 DEF Next

THEOREM GInvHolds == Spec => []GInv
BY InitGInv, NextGInv, PTL DEF Spec

(* robots.mjs fails closed, for every size of its options: whichever checks *)
(* of whichever origins overlap, time out or retry, a page is decided only  *)
(* by an answer that its own origin gave at most MaxAge before.             *)
THEOREM GateDecidesFresh == Spec => []DecidedWhileFresh
<1>1. GInv => DecidedWhileFresh
  BY DEF GInv, Own, DecidedWhileFresh
<1> QED
  BY <1>1, GInvHolds, PTL

(* The cache keeps its size and one entry per origin, each its origin's own *)
(* and hardly younger than its answer, for any number of overlapping checks.*)
THEOREM GateCacheSound == Spec => []CacheSound
<1>1. GInv => CacheSound
  BY DEF GInv, CacheInv, Once, Fair, CacheSound, TypeOK
<1> QED
  BY <1>1, GInvHolds, PTL

-----------------------------------------------------------------------------
(* How a robots.txt is read.  Its lines, its groups and its rules are taken *)
(* one after the other, however many there are: what is so after each is    *)
(* shown by induction, over a set of naturals.                              *)
LEMMA Least ==
  ASSUME NEW T, T \subseteq Nat, T # {}
  PROVE  \E n \in T : \A m \in T : n <= m
<1>1. IsWellFoundedOn(OpToRel(<, Nat), Nat)
  BY NatLessThanWellFounded
<1>2. PICK n \in T : \A m \in T : ~(<<m, n>> \in OpToRel(<, Nat))
  BY <1>1, WFMin
<1>3. OpToRel(<, Nat) = {ss \in Nat \X Nat : ss[1] < ss[2]}
  BY DEF OpToRel
<1>4. \A m \in T : ~(m < n)
  BY <1>2, <1>3
<1> QED
  BY <1>4

LEMMA Induction ==
  ASSUME NEW G, 0 \in G, \A n \in Nat : n \in G => n + 1 \in G
  PROVE  Nat \subseteq G
<1> SUFFICES ASSUME NEW k \in Nat, k \notin G PROVE FALSE
  OBVIOUS
<1>1. PICK n \in Nat \ G : \A m \in Nat \ G : n <= m
  BY Least
<1>2. n - 1 \in Nat /\ n - 1 \in G
  BY <1>1
<1> QED
  BY <1>1, <1>2

GroupsNext(lines, f, n) ==
  IF n = 0 THEN <<>> ELSE WithLine(f[n - 1], lines[n])

GroupsUpTo(lines, m, f) == f = [n \in 0..m |-> GroupsNext(lines, f, n)]

LEMMA GroupsExist ==
  ASSUME NEW lines, NEW m \in Nat PROVE \E f : GroupsUpTo(lines, m, f)
<1> DEFINE G == {k \in Nat : \E f : GroupsUpTo(lines, k, f)}
<1>1. 0 \in G
  <2> DEFINE f == [n \in 0..0 |-> <<>>]
  <2>1. GroupsUpTo(lines, 0, f)
    BY DEF GroupsUpTo, GroupsNext
  <2> QED
    BY <2>1
<1>2. ASSUME NEW k \in Nat, k \in G PROVE k + 1 \in G
  <2>1. PICK f : GroupsUpTo(lines, k, f)
    BY <1>2
  <2> DEFINE g == [n \in 0..(k + 1) |-> IF n \in 0..k THEN f[n] ELSE GroupsNext(lines, f, n)]
  <2>2. \A n \in 0..(k + 1) : g[n] = GroupsNext(lines, f, n)
    BY <2>1 DEF GroupsUpTo
  <2>3. \A n \in 0..(k + 1) : n # 0 => g[n - 1] = f[n - 1]
    OBVIOUS
  <2>4. \A n \in 0..(k + 1) : GroupsNext(lines, g, n) = GroupsNext(lines, f, n)
    <3> HIDE DEF g
    <3> QED
      BY <2>3 DEF GroupsNext
  <2>5. GroupsUpTo(lines, k + 1, g)
    BY <2>2, <2>4 DEF GroupsUpTo
  <2> HIDE DEF g
  <2> QED
    BY <2>5
<1> HIDE DEF G
<1>3. Nat \subseteq G
  BY <1>1, <1>2, Induction
<1> QED
  BY <1>3 DEF G

LEMMA GroupsStep ==
  ASSUME NEW lines \in Seq(Line)
  PROVE  \E f : /\ Groups(lines) = f[Len(lines)] /\ f[0] = <<>>
                /\ \A n \in 1..Len(lines) : f[n] = WithLine(f[n - 1], lines[n])
<1> DEFINE f == CHOOSE f : GroupsUpTo(lines, Len(lines), f)
<1>1. Len(lines) \in Nat
  OBVIOUS
<1>2. GroupsUpTo(lines, Len(lines), f)
  BY <1>1, GroupsExist
<1>3. Groups(lines) = f[Len(lines)]
  BY DEF Groups, GroupsUpTo, GroupsNext
<1> HIDE DEF f
<1>4. \A n \in 0..Len(lines) : f[n] = GroupsNext(lines, f, n)
  BY <1>2 DEF GroupsUpTo
<1>5. f[0] = <<>>
  BY <1>1, <1>4 DEF GroupsNext
<1>6. \A n \in 1..Len(lines) : f[n] = WithLine(f[n - 1], lines[n])
  BY <1>1, <1>4 DEF GroupsNext
<1> QED
  BY <1>3, <1>5, <1>6

RulesNext(groups, f, n) ==
  IF n = 0 THEN <<>>
  ELSE f[n - 1] \o (IF n \in SelectGroups(groups) THEN groups[n].rules ELSE <<>>)

RulesUpTo(groups, m, f) == f = [n \in 0..m |-> RulesNext(groups, f, n)]

LEMMA RulesExist ==
  ASSUME NEW groups, NEW m \in Nat PROVE \E f : RulesUpTo(groups, m, f)
<1> DEFINE G == {k \in Nat : \E f : RulesUpTo(groups, k, f)}
<1>1. 0 \in G
  <2> DEFINE f == [n \in 0..0 |-> <<>>]
  <2>1. RulesUpTo(groups, 0, f)
    BY DEF RulesUpTo, RulesNext
  <2> QED
    BY <2>1
<1>2. ASSUME NEW k \in Nat, k \in G PROVE k + 1 \in G
  <2>1. PICK f : RulesUpTo(groups, k, f)
    BY <1>2
  <2> DEFINE g == [n \in 0..(k + 1) |-> IF n \in 0..k THEN f[n] ELSE RulesNext(groups, f, n)]
  <2>2. \A n \in 0..(k + 1) : g[n] = RulesNext(groups, f, n)
    BY <2>1 DEF RulesUpTo
  <2>3. \A n \in 0..(k + 1) : n # 0 => g[n - 1] = f[n - 1]
    OBVIOUS
  <2>4. \A n \in 0..(k + 1) : RulesNext(groups, g, n) = RulesNext(groups, f, n)
    <3> HIDE DEF g
    <3> QED
      BY <2>3 DEF RulesNext
  <2>5. RulesUpTo(groups, k + 1, g)
    BY <2>2, <2>4 DEF RulesUpTo
  <2> HIDE DEF g
  <2> QED
    BY <2>5
<1> HIDE DEF G
<1>3. Nat \subseteq G
  BY <1>1, <1>2, Induction
<1> QED
  BY <1>3 DEF G

LEMMA RulesStep ==
  ASSUME NEW lines, NEW groups, groups = Groups(lines), Len(groups) \in Nat
  PROVE  \E f : /\ Rules(lines) = f[Len(groups)] /\ f[0] = <<>>
                /\ \A n \in 1..Len(groups) :
                     f[n] = f[n - 1] \o (IF n \in SelectGroups(groups) THEN groups[n].rules ELSE <<>>)
<1> DEFINE f == CHOOSE f : RulesUpTo(groups, Len(groups), f)
<1>2. RulesUpTo(groups, Len(groups), f)
  BY RulesExist
<1>3. Rules(lines) = f[Len(groups)]
  BY DEF Rules, RulesUpTo, RulesNext
<1> HIDE DEF f
<1>4. \A n \in 0..Len(groups) : f[n] = RulesNext(groups, f, n)
  BY <1>2 DEF RulesUpTo
<1>5. f[0] = <<>>
  BY <1>4 DEF RulesNext
<1>6. ASSUME NEW n \in 1..Len(groups)
      PROVE  f[n] = f[n - 1] \o (IF n \in SelectGroups(groups) THEN groups[n].rules ELSE <<>>)
  <2>1. n \in 0..Len(groups) /\ n # 0
    OBVIOUS
  <2>2. f[n] = RulesNext(groups, f, n)
    BY <1>4, <2>1
  <2> QED
    BY <2>1, <2>2 DEF RulesNext
<1> QED
  BY <1>3, <1>5, <1>6

WinnerNext(rules, path, f, n) ==
  IF n = 0 THEN NoRule
  ELSE IF path \in rules[n].matches /\ Better(rules[n], f[n - 1]) THEN rules[n]
  ELSE f[n - 1]

WinnerUpTo(rules, path, m, f) == f = [n \in 0..m |-> WinnerNext(rules, path, f, n)]

LEMMA WinnerExists ==
  ASSUME NEW rules, NEW path, NEW m \in Nat PROVE \E f : WinnerUpTo(rules, path, m, f)
<1> DEFINE G == {k \in Nat : \E f : WinnerUpTo(rules, path, k, f)}
<1>1. 0 \in G
  <2> DEFINE f == [n \in 0..0 |-> NoRule]
  <2>1. WinnerUpTo(rules, path, 0, f)
    BY DEF WinnerUpTo, WinnerNext
  <2> QED
    BY <2>1
<1>2. ASSUME NEW k \in Nat, k \in G PROVE k + 1 \in G
  <2>1. PICK f : WinnerUpTo(rules, path, k, f)
    BY <1>2
  <2> DEFINE g == [n \in 0..(k + 1) |-> IF n \in 0..k THEN f[n] ELSE WinnerNext(rules, path, f, n)]
  <2>2. \A n \in 0..(k + 1) : g[n] = WinnerNext(rules, path, f, n)
    BY <2>1 DEF WinnerUpTo
  <2>3. \A n \in 0..(k + 1) : n # 0 => g[n - 1] = f[n - 1]
    OBVIOUS
  <2>4. \A n \in 0..(k + 1) : WinnerNext(rules, path, g, n) = WinnerNext(rules, path, f, n)
    <3> HIDE DEF g
    <3> QED
      BY <2>3 DEF WinnerNext
  <2>5. WinnerUpTo(rules, path, k + 1, g)
    BY <2>2, <2>4 DEF WinnerUpTo
  <2> HIDE DEF g
  <2> QED
    BY <2>5
<1> HIDE DEF G
<1>3. Nat \subseteq G
  BY <1>1, <1>2, Induction
<1> QED
  BY <1>3 DEF G

LEMMA WinnerStep ==
  ASSUME NEW rules \in Seq(Rule), NEW path
  PROVE  \E f : /\ Winner(rules, path) = f[Len(rules)] /\ f[0] = NoRule
                /\ \A n \in 1..Len(rules) :
                     f[n] = IF path \in rules[n].matches /\ Better(rules[n], f[n - 1])
                            THEN rules[n] ELSE f[n - 1]
<1> DEFINE f == CHOOSE f : WinnerUpTo(rules, path, Len(rules), f)
<1>1. Len(rules) \in Nat
  OBVIOUS
<1>2. WinnerUpTo(rules, path, Len(rules), f)
  BY <1>1, WinnerExists
<1>3. Winner(rules, path) = f[Len(rules)]
  BY DEF Winner, WinnerUpTo, WinnerNext
<1> HIDE DEF f
<1>4. \A n \in 0..Len(rules) : f[n] = WinnerNext(rules, path, f, n)
  BY <1>2 DEF WinnerUpTo
<1>5. f[0] = NoRule
  BY <1>1, <1>4 DEF WinnerNext
<1>6. \A n \in 1..Len(rules) :
        f[n] = IF path \in rules[n].matches /\ Better(rules[n], f[n - 1]) THEN rules[n] ELSE f[n - 1]
  BY <1>1, <1>4 DEF WinnerNext
<1> QED
  BY <1>3, <1>5, <1>6

-----------------------------------------------------------------------------
(* Which agents a line is about, and how that changes from line to line.    *)
Group == [agents: SUBSET (0..TokenLength), rules: Seq(Rule), closed: BOOLEAN]

LEMMA LineKinds ==
  ASSUME NEW line \in Line
  PROVE  /\ line.field \in {"agent", "rule", "directive"}
         /\ line.field = "agent" => line.agents \in SUBSET (0..TokenLength)
         /\ line.field = "rule" => line.rule \in Rule
BY DEF Line

Unbroken(lines, j, i) ==
  ~\E d, k \in (j + 1)..(i - 1) : d < k /\ lines[d].field # "agent" /\ lines[k].field = "agent"

(* The line at j names agent b for the line at i.                           *)
Names(lines, b, j, i) ==
  lines[j].field = "agent" /\ b \in lines[j].agents /\ Unbroken(lines, j, i)

LEMMA AgentsAre ==
  ASSUME NEW lines, NEW i, NEW b
  PROVE  b \in AgentsOf(lines, i) <=> \E j \in 1..(i - 1) : Names(lines, b, j, i)
BY DEF AgentsOf, Names, Unbroken

LEMMA AgentsOfNext ==
  ASSUME NEW lines \in Seq(Line), NEW n \in DOMAIN lines, NEW b
  PROVE  /\ lines[n].field # "agent" =>
              (b \in AgentsOf(lines, n + 1) <=> b \in AgentsOf(lines, n))
         /\ lines[n].field = "agent" /\ (n > 1 => lines[n - 1].field = "agent") =>
              (b \in AgentsOf(lines, n + 1) <=> b \in AgentsOf(lines, n) \/ b \in lines[n].agents)
         /\ lines[n].field = "agent" /\ n > 1 /\ lines[n - 1].field # "agent" =>
              (b \in AgentsOf(lines, n + 1) <=> b \in lines[n].agents)
<1>1. n \in Nat /\ n >= 1 /\ (n + 1) - 1 = n
  OBVIOUS
<1>2. /\ b \in AgentsOf(lines, n) <=> \E j \in 1..(n - 1) : Names(lines, b, j, n)
      /\ b \in AgentsOf(lines, n + 1) <=> \E j \in 1..n : Names(lines, b, j, n + 1)
  BY <1>1, AgentsAre
<1>3. CASE lines[n].field # "agent"
  <2>1. ASSUME NEW j \in 1..(n - 1) PROVE Unbroken(lines, j, n + 1) <=> Unbroken(lines, j, n)
    <3>1. \A k \in (j + 1)..n : lines[k].field = "agent" => k \in (j + 1)..(n - 1)
      BY <1>1, <1>3
    <3>2. \A d, k \in (j + 1)..n : d < k /\ k \in (j + 1)..(n - 1) => d \in (j + 1)..(n - 1)
      BY <1>1
    <3>3. \A k \in (j + 1)..(n - 1) : k \in (j + 1)..n
      BY <1>1
    <3> QED
      BY <1>1, <3>1, <3>2, <3>3 DEF Unbroken
  <2>2. ~Names(lines, b, n, n + 1)
    BY <1>3 DEF Names
  <2>3. \A j \in 1..(n - 1) : Names(lines, b, j, n + 1) <=> Names(lines, b, j, n)
    BY <2>1 DEF Names
  <2>4. \A j \in 1..n : j = n \/ j \in 1..(n - 1)
    BY <1>1
  <2>5. \A j \in 1..(n - 1) : j \in 1..n
    BY <1>1
  <2> QED
    BY <1>2, <1>3, <2>2, <2>3, <2>4, <2>5
<1>4. CASE lines[n].field = "agent"
  <2>1. Unbroken(lines, n, n + 1)
    BY <1>1 DEF Unbroken
  <2>2. Names(lines, b, n, n + 1) <=> b \in lines[n].agents
    BY <1>4, <2>1 DEF Names
  <2>3. \A j \in 1..n : j = n \/ j \in 1..(n - 1)
    BY <1>1
  <2>4. n \in 1..n /\ \A j \in 1..(n - 1) : j \in 1..n
    BY <1>1
  <2>5. ASSUME n > 1 => lines[n - 1].field = "agent", NEW j \in 1..(n - 1), lines[j].field = "agent"
        PROVE  Unbroken(lines, j, n + 1) <=> Unbroken(lines, j, n)
    <3>1. Unbroken(lines, j, n + 1) => Unbroken(lines, j, n)
      BY <1>1 DEF Unbroken
    <3>2. ASSUME Unbroken(lines, j, n), NEW d \in (j + 1)..n, NEW k \in (j + 1)..n,
                 d < k, lines[d].field # "agent", lines[k].field = "agent"
          PROVE  FALSE
      <4>1. k = n /\ d # n - 1 /\ d # n
        BY <1>1, <2>5, <3>2 DEF Unbroken
      <4>2. d \in (j + 1)..(n - 1) /\ n - 1 \in (j + 1)..(n - 1) /\ d < n - 1 /\ n > 1
        BY <1>1, <3>2, <4>1
      <4> QED
        BY <1>1, <2>5, <3>2, <4>2 DEF Unbroken
    <3>3. Unbroken(lines, j, n) => Unbroken(lines, j, n + 1)
      BY <1>1, <3>2 DEF Unbroken
    <3> QED
      BY <3>1, <3>3
  <2>6. ASSUME n > 1, lines[n - 1].field # "agent", NEW j \in 1..(n - 1), Names(lines, b, j, n + 1)
        PROVE  FALSE
    <3>1. j # n - 1 /\ lines[j].field = "agent" /\ Unbroken(lines, j, n + 1)
      BY <2>6 DEF Names
    <3>2. n - 1 \in (j + 1)..n /\ n \in (j + 1)..n /\ n - 1 < n
      BY <1>1, <2>6, <3>1
    <3> QED
      BY <1>1, <1>4, <2>6, <3>1, <3>2 DEF Unbroken
  <2>7. ASSUME n > 1 => lines[n - 1].field = "agent"
        PROVE  \A j \in 1..(n - 1) : Names(lines, b, j, n + 1) <=> Names(lines, b, j, n)
    BY <2>5, <2>7 DEF Names
  <2>8. (n > 1 => lines[n - 1].field = "agent") =>
          (b \in AgentsOf(lines, n + 1) <=> b \in AgentsOf(lines, n) \/ b \in lines[n].agents)
    BY <1>2, <2>2, <2>3, <2>4, <2>7
  <2>9. n > 1 /\ lines[n - 1].field # "agent" =>
          (b \in AgentsOf(lines, n + 1) <=> b \in lines[n].agents)
    BY <1>2, <2>2, <2>3, <2>4, <2>6
  <2> QED
    BY <1>4, <2>8, <2>9
<1> QED
  BY <1>3, <1>4

LEMMA AgentsOfFirst == ASSUME NEW lines, NEW b PROVE b \notin AgentsOf(lines, 1)
BY AgentsAre

-----------------------------------------------------------------------------
(* The groups after n lines.                                                *)

(* A group that names b has the rule r.                                     *)
Grants(groups, b, r) ==
  \E i \in DOMAIN groups : b \in groups[i].agents /\ \E k \in DOMAIN groups[i].rules : groups[i].rules[k] = r

(* One of the first n lines is the rule r, about b.                         *)
Given(lines, n, b, r) ==
  \E i \in 1..n : lines[i].field = "rule" /\ lines[i].rule = r /\ b \in AgentsOf(lines, i)

Named(lines, n, b) == \E j \in 1..n : lines[j].field = "agent" /\ b \in lines[j].agents

Listing(groups, b) == \E i \in DOMAIN groups : b \in groups[i].agents

(* The last group is about the agents that the next line would be about,    *)
(* and is closed unless an agent was the last thing read; one that is not   *)
(* has no rule yet, so that whoever joins it gets none of earlier lines.    *)
Latest(lines, g, n) ==
  /\ g = <<>> => \A j \in 1..n : lines[j].field # "agent"
  /\ g # <<>> => /\ n > 0
                 /\ \A b : b \in g[Len(g)].agents <=> b \in AgentsOf(lines, n + 1)
                 /\ g[Len(g)].closed <=> lines[n].field # "agent"

Sofar(lines, g, n) ==
  /\ g \in Seq(Group)
  /\ Latest(lines, g, n)
  /\ \A i \in DOMAIN g : ~g[i].closed => g[i].rules = <<>>
  /\ \A b : Listing(g, b) <=> Named(lines, n, b)
  /\ \A b, r : Grants(g, b, r) <=> Given(lines, n, b, r)

LEMMA Further ==
  ASSUME NEW lines, NEW n \in Nat
  PROVE  /\ \A b : Named(lines, n + 1, b) <=>
                     \/ Named(lines, n, b)
                     \/ lines[n + 1].field = "agent" /\ b \in lines[n + 1].agents
         /\ \A b, r : Given(lines, n + 1, b, r) <=>
                     \/ Given(lines, n, b, r)
                     \/ /\ lines[n + 1].field = "rule" /\ lines[n + 1].rule = r
                        /\ b \in AgentsOf(lines, n + 1)
<1>1. \A i : i \in 1..(n + 1) <=> i \in 1..n \/ i = n + 1
  OBVIOUS
<1> QED
  BY <1>1 DEF Named, Given

LEMMA NobodyYet ==
  ASSUME NEW lines \in Seq(Line), NEW n \in Nat, n <= Len(lines),
         \A j \in 1..n : lines[j].field # "agent", NEW b
  PROVE  b \notin AgentsOf(lines, n + 1)
<1>1. b \in AgentsOf(lines, n + 1) <=> \E j \in 1..n : Names(lines, b, j, n + 1)
  <2>1. n + 1 - 1 = n
    OBVIOUS
  <2> QED
    BY <2>1, AgentsAre
<1> QED
  BY <1>1 DEF Names

LEMMA Appended ==
  ASSUME NEW S, NEW s \in Seq(S), NEW x \in S
  PROVE  /\ Append(s, x) \in Seq(S) /\ Len(Append(s, x)) = Len(s) + 1
         /\ DOMAIN Append(s, x) = 1..(Len(s) + 1) /\ Append(s, x) # <<>>
         /\ Append(s, x)[Len(s) + 1] = x
         /\ \A i \in DOMAIN s : Append(s, x)[i] = s[i] /\ i \in DOMAIN Append(s, x)
         /\ \A i \in DOMAIN Append(s, x) : i \in DOMAIN s \/ i = Len(s) + 1
<1> DEFINE t == Append(s, x)
<1>1. t \in Seq(S) /\ Len(t) = Len(s) + 1 /\ t[Len(s) + 1] = x /\ Len(s) \in Nat
  OBVIOUS
<1>2. DOMAIN t = 1..(Len(s) + 1) /\ DOMAIN s = 1..Len(s)
  BY <1>1
<1>3. \A i \in DOMAIN s : t[i] = s[i]
  OBVIOUS
<1> HIDE DEF t
<1>4. t # <<>>
  BY <1>1
<1>5. \A i \in DOMAIN t : i \in DOMAIN s \/ i = Len(s) + 1
  BY <1>1, <1>2
<1>6. \A i \in DOMAIN s : i \in DOMAIN t
  BY <1>1, <1>2
<1> QED
  BY <1>1, <1>2, <1>3, <1>4, <1>5, <1>6 DEF t

LEMMA JoinedGroup ==
  ASSUME NEW group \in Group, NEW more
  PROVE  [group EXCEPT !.agents = @ \cup more] =
           [agents |-> group.agents \cup more, rules |-> group.rules, closed |-> group.closed]
<1>1. ASSUME NEW a, NEW r, NEW c
      PROVE  [[agents |-> a, rules |-> r, closed |-> c] EXCEPT !.agents = @ \cup more] =
               [agents |-> a \cup more, rules |-> r, closed |-> c]
  OBVIOUS
<1>2. PICK a, r, c : group = [agents |-> a, rules |-> r, closed |-> c]
  BY DEF Group
<1> QED
  BY <1>1, <1>2

(* An agent opens a group.                                                  *)
LEMMA GroupOpens ==
  ASSUME NEW lines \in Seq(Line), NEW n \in Nat, n + 1 \in DOMAIN lines, NEW g, Sofar(lines, g, n),
         lines[n + 1].field = "agent", g = <<>> \/ g[Len(g)].closed
  PROVE  Sofar(lines, WithLine(g, lines[n + 1]), n + 1)
<1> DEFINE line == lines[n + 1]
           new == [agents |-> line.agents, rules |-> <<>>, closed |-> FALSE]
           h == Append(g, new)
<1>1. g \in Seq(Group) /\ Len(g) \in Nat /\ DOMAIN g = 1..Len(g)
  BY DEF Sofar
<1>2. WithLine(g, line) = h
  BY DEF WithLine
<1>3. line \in Line /\ line.agents \in SUBSET (0..TokenLength)
  BY LineKinds
<1>4. new \in Group
  BY <1>3 DEF Group
<1>5. /\ h \in Seq(Group) /\ Len(h) = Len(g) + 1 /\ DOMAIN h = 1..(Len(g) + 1) /\ h # <<>>
      /\ h[Len(g) + 1] = new /\ \A i \in DOMAIN g : h[i] = g[i] /\ i \in DOMAIN h
      /\ \A i \in DOMAIN h : i \in DOMAIN g \/ i = Len(g) + 1
  <2> HIDE DEF new
  <2> QED
    BY <1>1, <1>4, Appended
<1>6. new.agents = line.agents /\ new.rules = <<>> /\ ~new.closed /\ DOMAIN new.rules = {}
  OBVIOUS
<1> HIDE DEF h, new
<1>7. Latest(lines, h, n + 1)
  <2>1. CASE g = <<>>
    <3>1. \A b : b \notin AgentsOf(lines, n + 1)
      <4>1. n <= Len(lines) /\ \A j \in 1..n : lines[j].field # "agent"
        BY <2>1 DEF Sofar, Latest
      <4> QED
        BY <4>1, NobodyYet
    <3>2. n + 1 > 1 => lines[(n + 1) - 1].field # "agent"
      BY <2>1 DEF Sofar, Latest
    <3>3. \A b : b \in AgentsOf(lines, (n + 1) + 1) <=> b \in line.agents
      BY <3>1, <3>2, AgentsOfNext
    <3> QED
      BY <1>5, <1>6, <3>3 DEF Latest
  <2>2. CASE g # <<>>
    <3>1. n > 0 /\ lines[n].field # "agent"
      BY <2>2 DEF Sofar, Latest
    <3>2. n + 1 > 1 /\ lines[(n + 1) - 1].field # "agent"
      BY <3>1
    <3>3. \A b : b \in AgentsOf(lines, (n + 1) + 1) <=> b \in line.agents
      BY <3>2, AgentsOfNext
    <3> QED
      BY <1>5, <1>6, <3>3 DEF Latest
  <2> QED
    BY <2>1, <2>2
<1>8. \A i \in DOMAIN h : ~h[i].closed => h[i].rules = <<>>
  BY <1>5, <1>6 DEF Sofar
<1>9. \A b : Listing(h, b) <=> Named(lines, n + 1, b)
  <2>1. \A b : Listing(h, b) <=> Listing(g, b) \/ b \in line.agents
    BY <1>5, <1>6 DEF Listing
  <2> QED
    BY <2>1, Further DEF Sofar
<1>10. \A b, r : Grants(h, b, r) <=> Given(lines, n + 1, b, r)
  <2>1. \A b, r : Grants(h, b, r) <=> Grants(g, b, r)
    BY <1>5, <1>6 DEF Grants
  <2> QED
    BY <2>1, Further DEF Sofar
<1> QED
  BY <1>2, <1>5, <1>7, <1>8, <1>9, <1>10 DEF Sofar

(* One that follows another joins its group.                                *)
LEMMA GroupJoins ==
  ASSUME NEW lines \in Seq(Line), NEW n \in Nat, n + 1 \in DOMAIN lines, NEW g, Sofar(lines, g, n),
         lines[n + 1].field = "agent", g # <<>>, ~g[Len(g)].closed
  PROVE  Sofar(lines, WithLine(g, lines[n + 1]), n + 1)
<1> DEFINE line == lines[n + 1]
           m == Len(g)
           h == [g EXCEPT ![m] = [agents |-> g[m].agents \cup line.agents,
                                  rules |-> g[m].rules, closed |-> g[m].closed]]
<1>1. g \in Seq(Group) /\ m \in Nat /\ DOMAIN g = 1..m /\ m \in DOMAIN g /\ g[m] \in Group
  BY DEF Sofar
<1>2. WithLine(g, line) = h
  <2>2. [g[m] EXCEPT !.agents = @ \cup line.agents] =
          [agents |-> g[m].agents \cup line.agents, rules |-> g[m].rules, closed |-> g[m].closed]
    BY <1>1, JoinedGroup
  <2>3. WithLine(g, line) = [g EXCEPT ![m] = [g[m] EXCEPT !.agents = @ \cup line.agents]]
    BY DEF WithLine
  <2> QED
    BY <2>2, <2>3
<1>3. line \in Line /\ line.agents \in SUBSET (0..TokenLength)
  BY LineKinds
<1>4. g[m].rules = <<>> /\ ~g[m].closed
  BY <1>1 DEF Sofar
<1>5. /\ h \in Seq(Group) /\ Len(h) = m /\ DOMAIN h = 1..m /\ h # <<>>
      /\ h[m].agents = g[m].agents \cup line.agents /\ h[m].rules = <<>> /\ ~h[m].closed
      /\ \A i \in DOMAIN g : i # m => h[i] = g[i]
  <2>1. [agents |-> g[m].agents \cup line.agents, rules |-> g[m].rules, closed |-> g[m].closed] \in Group
    BY <1>1, <1>3 DEF Group
  <2> QED
    BY <1>1, <1>4, <2>1
<1> HIDE DEF h
<1>6. n > 0 /\ lines[n].field = "agent"
  BY <1>4 DEF Sofar, Latest
<1>7. Latest(lines, h, n + 1)
  <2>1. n + 1 > 1 => lines[(n + 1) - 1].field = "agent"
    BY <1>6
  <2>2. \A b : b \in AgentsOf(lines, (n + 1) + 1) <=> b \in AgentsOf(lines, n + 1) \/ b \in line.agents
    BY <2>1, AgentsOfNext
  <2>3. \A b : b \in g[m].agents <=> b \in AgentsOf(lines, n + 1)
    BY DEF Sofar, Latest
  <2> QED
    BY <1>5, <2>2, <2>3 DEF Latest
<1>8. \A i \in DOMAIN h : ~h[i].closed => h[i].rules = <<>>
  BY <1>1, <1>5 DEF Sofar
<1>9. \A b : Listing(h, b) <=> Named(lines, n + 1, b)
  <2>1. \A b : Listing(h, b) <=> Listing(g, b) \/ b \in line.agents
    BY <1>1, <1>5 DEF Listing
  <2> QED
    BY <2>1, Further DEF Sofar
<1>10. \A b, r : Grants(h, b, r) <=> Given(lines, n + 1, b, r)
  <2>1. \A b, r : Grants(h, b, r) <=> Grants(g, b, r)
    BY <1>1, <1>4, <1>5 DEF Grants
  <2> QED
    BY <2>1, Further DEF Sofar
<1> QED
  BY <1>2, <1>5, <1>7, <1>8, <1>9, <1>10 DEF Sofar

(* A rule or another directive closes the last group, if there is one.      *)
LEMMA GroupCloses ==
  ASSUME NEW lines \in Seq(Line), NEW n \in Nat, n + 1 \in DOMAIN lines, NEW g, Sofar(lines, g, n),
         lines[n + 1].field # "agent"
  PROVE  Sofar(lines, WithLine(g, lines[n + 1]), n + 1)
<1> DEFINE line == lines[n + 1]
           m == Len(g)
           with == IF line.field = "rule" THEN Append(g[m].rules, line.rule) ELSE g[m].rules
           h == [g EXCEPT ![m] = [agents |-> g[m].agents, rules |-> with, closed |-> TRUE]]
<1>1. g \in Seq(Group) /\ m \in Nat /\ DOMAIN g = 1..m
  BY DEF Sofar
<1>2. line \in Line /\ (line.field = "rule" => line.rule \in Rule)
  BY LineKinds
<1>3. \A b : b \in AgentsOf(lines, (n + 1) + 1) <=> b \in AgentsOf(lines, n + 1)
  BY AgentsOfNext
<1>4. CASE g = <<>>
  <2>1. WithLine(g, line) = g
    BY <1>4 DEF WithLine
  <2>2. \A j \in 1..(n + 1) : lines[j].field # "agent"
    BY <1>4 DEF Sofar, Latest
  <2>3. \A b : b \notin AgentsOf(lines, n + 1)
    <3>1. n <= Len(lines) /\ \A j \in 1..n : lines[j].field # "agent"
      BY <1>4 DEF Sofar, Latest
    <3> QED
      BY <3>1, NobodyYet
  <2>4. Latest(lines, g, n + 1)
    BY <1>4, <2>2 DEF Latest
  <2>5. \A b : Listing(g, b) <=> Named(lines, n + 1, b)
    BY Further DEF Sofar
  <2>6. \A b, r : Grants(g, b, r) <=> Given(lines, n + 1, b, r)
    BY <2>3, Further DEF Sofar
  <2> QED
    BY <2>1, <2>4, <2>5, <2>6 DEF Sofar
<1>5. CASE g # <<>>
  <2>1. m \in DOMAIN g /\ g[m] \in Group /\ m > 0
    BY <1>1, <1>5
  <2>2. g[m].rules \in Seq(Rule) /\ g[m].agents \in SUBSET (0..TokenLength)
    BY <2>1 DEF Group
  <2>3. WithLine(g, line) = h
    <3>1. g[m] = [agents |-> g[m].agents, rules |-> g[m].rules, closed |-> g[m].closed]
      BY <2>1 DEF Group
    <3>2. WithLine(g, line) =
            [g EXCEPT ![m].closed = TRUE,
                      ![m].rules = IF line.field = "rule" THEN Append(@, line.rule) ELSE @]
      BY <1>5 DEF WithLine
    <3> QED
      BY <2>1, <3>1, <3>2
  <2>4. /\ with \in Seq(Rule)
        /\ \A r : (\E k \in DOMAIN with : with[k] = r) <=>
             (\E k \in DOMAIN g[m].rules : g[m].rules[k] = r) \/ (line.field = "rule" /\ line.rule = r)
    <3>1. CASE line.field = "rule"
      <4> DEFINE s == g[m].rules
                 t == line.rule
      <4>1. s \in Seq(Rule) /\ t \in Rule /\ with = Append(s, t)
        BY <1>2, <2>2, <3>1
      <4> HIDE DEF s, t, with
      <4>2. /\ Append(s, t) \in Seq(Rule) /\ DOMAIN Append(s, t) = DOMAIN s \cup {Len(s) + 1}
            /\ Append(s, t)[Len(s) + 1] = t /\ \A k \in DOMAIN s : Append(s, t)[k] = s[k]
        BY <4>1
      <4>3. \A r : (\E k \in DOMAIN with : with[k] = r) <=> (\E k \in DOMAIN s : s[k] = r) \/ t = r
        BY <4>1, <4>2
      <4> QED
        BY <3>1, <4>1, <4>2, <4>3 DEF s, t
    <3>2. CASE line.field # "rule"
      BY <2>2, <3>2
    <3> QED
      BY <3>1, <3>2
  <2> HIDE DEF with
  <2>5. /\ h \in Seq(Group) /\ Len(h) = m /\ DOMAIN h = 1..m /\ h # <<>>
        /\ h[m].agents = g[m].agents /\ h[m].rules = with /\ h[m].closed
        /\ \A i \in DOMAIN g : i # m => h[i] = g[i]
    <3>1. [agents |-> g[m].agents, rules |-> with, closed |-> TRUE] \in Group
      BY <2>2, <2>4 DEF Group
    <3> QED
      BY <1>1, <2>1, <3>1
  <2> HIDE DEF h
  <2>6. \A b : b \in g[m].agents <=> b \in AgentsOf(lines, n + 1)
    BY <1>5 DEF Sofar, Latest
  <2>7. Latest(lines, h, n + 1)
    BY <1>3, <2>5, <2>6 DEF Latest
  <2>8. \A i \in DOMAIN h : ~h[i].closed => h[i].rules = <<>>
    BY <1>1, <2>5 DEF Sofar
  <2>9. \A b : Listing(h, b) <=> Named(lines, n + 1, b)
    <3>1. \A b : Listing(h, b) <=> Listing(g, b)
      BY <1>1, <2>1, <2>5 DEF Listing
    <3> QED
      BY <3>1, Further DEF Sofar
  <2>10. \A b, r : Grants(h, b, r) <=> Given(lines, n + 1, b, r)
    <3>1. ASSUME NEW b, NEW r
          PROVE  Grants(h, b, r) <=>
                   Grants(g, b, r) \/ (b \in g[m].agents /\ line.field = "rule" /\ line.rule = r)
      <4>1. Grants(h, b, r) <=>
              \/ \E i \in DOMAIN g : /\ i # m /\ b \in g[i].agents
                                     /\ \E k \in DOMAIN g[i].rules : g[i].rules[k] = r
              \/ b \in g[m].agents /\ \E k \in DOMAIN with : with[k] = r
        BY <1>1, <2>1, <2>5 DEF Grants
      <4>2. Grants(g, b, r) <=>
              \/ \E i \in DOMAIN g : /\ i # m /\ b \in g[i].agents
                                     /\ \E k \in DOMAIN g[i].rules : g[i].rules[k] = r
              \/ b \in g[m].agents /\ \E k \in DOMAIN g[m].rules : g[m].rules[k] = r
        BY <2>1 DEF Grants
      <4> QED
        BY <2>4, <4>1, <4>2
    <3> QED
      BY <2>6, <3>1, Further DEF Sofar
  <2> QED
    BY <2>3, <2>5, <2>7, <2>8, <2>9, <2>10 DEF Sofar
<1> QED
  BY <1>4, <1>5

LEMMA GroupsRead ==
  ASSUME NEW lines \in Seq(Line)
  PROVE  Sofar(lines, Groups(lines), Len(lines))
<1>1. PICK f : /\ Groups(lines) = f[Len(lines)] /\ f[0] = <<>>
               /\ \A n \in 1..Len(lines) : f[n] = WithLine(f[n - 1], lines[n])
  BY GroupsStep
<1> DEFINE G == {n \in Nat : n <= Len(lines) => Sofar(lines, f[n], n)}
<1>2. Len(lines) \in Nat /\ DOMAIN lines = 1..Len(lines)
  OBVIOUS
<1>3. 0 \in G
  <2>1. Sofar(lines, <<>>, 0)
    BY DEF Sofar, Latest, Listing, Named, Grants, Given
  <2> QED
    BY <1>1, <2>1
<1>4. ASSUME NEW n \in Nat, n \in G PROVE n + 1 \in G
  <2> SUFFICES ASSUME n + 1 <= Len(lines) PROVE Sofar(lines, f[n + 1], n + 1)
    OBVIOUS
  <2>1. Sofar(lines, f[n], n) /\ n + 1 \in DOMAIN lines /\ n + 1 \in 1..Len(lines) /\ (n + 1) - 1 = n
    BY <1>2, <1>4
  <2>2. f[n + 1] = WithLine(f[n], lines[n + 1])
    BY <1>1, <2>1
  <2> HIDE DEF G
  <2> DEFINE g == f[n]
  <2>3. Sofar(lines, g, n)
    BY <2>1
  <2> HIDE DEF g
  <2>4. Sofar(lines, WithLine(g, lines[n + 1]), n + 1)
    <3>1. CASE lines[n + 1].field # "agent"
      BY <2>1, <2>3, <3>1, GroupCloses
    <3>2. CASE lines[n + 1].field = "agent" /\ (g = <<>> \/ g[Len(g)].closed)
      BY <2>1, <2>3, <3>2, GroupOpens
    <3>3. CASE lines[n + 1].field = "agent" /\ g # <<>> /\ ~g[Len(g)].closed
      BY <2>1, <2>3, <3>3, GroupJoins
    <3> QED
      BY <3>1, <3>2, <3>3
  <2> QED
    BY <2>2, <2>4 DEF g
<1> HIDE DEF G
<1>5. Nat \subseteq G
  BY <1>3, <1>4, Induction
<1> QED
  BY <1>1, <1>2, <1>5 DEF G

-----------------------------------------------------------------------------
(* The rules for us.                                                        *)
LEMMA Most ==
  ASSUME NEW A \in SUBSET (0..TokenLength), A # {}
  PROVE  \E n \in A : \A m \in A : m <= n
<1> DEFINE T == {TokenLength - m : m \in A}
<1>1. TokenLength \in Nat
  BY GateAssumption
<1>2. T \subseteq Nat /\ T # {}
  <2>1. \A m \in 0..TokenLength : TokenLength - m \in Nat
    BY <1>1
  <2>2. \A m \in A : m \in 0..TokenLength
    OBVIOUS
  <2> QED
    BY <2>1, <2>2
<1>3. PICK k \in T : \A m \in T : k <= m
  <2> HIDE DEF T
  <2> QED
    BY <1>2, Least
<1>4. PICK n \in A : k = TokenLength - n
  BY <1>3
<1>5. ASSUME NEW m \in A PROVE m <= n
  <2>1. k <= TokenLength - m
    BY <1>3
  <2>2. m \in 0..TokenLength /\ n \in 0..TokenLength
    OBVIOUS
  <2>3. \A a, b \in 0..TokenLength : TokenLength - a <= TokenLength - b => b <= a
    BY <1>1
  <2> QED
    BY <1>4, <2>1, <2>2, <2>3
<1> QED
  BY <1>5

LEMMA AgentsOfAreNamed ==
  ASSUME NEW lines \in Seq(Line), NEW i \in DOMAIN lines, NEW b \in AgentsOf(lines, i)
  PROVE  Named(lines, Len(lines), b)
<1>1. PICK j \in 1..(i - 1) : Names(lines, b, j, i)
  BY AgentsAre
<1>2. j \in 1..Len(lines)
  OBVIOUS
<1> QED
  BY <1>1, <1>2 DEF Names, Named

(* The rules of the selected groups are those that are ours.                *)
LEMMA SelectedAreOurs ==
  ASSUME NEW lines \in Seq(Line), NEW g, g = Groups(lines), NEW r
  PROVE  (\E i \in SelectGroups(g) : \E k \in DOMAIN g[i].rules : g[i].rules[k] = r) <=> r \in Ours(lines)
<1> DEFINE A == {0} \cup UNION {g[i].agents : i \in DOMAIN g}
           B == {0} \cup UNION {lines[j].agents : j \in {j \in DOMAIN lines : lines[j].field = "agent"}}
           best == CHOOSE n \in A : \A m \in A : m <= n
           n == Len(lines)
<1>1. Sofar(lines, g, n) /\ n \in Nat /\ DOMAIN lines = 1..n
  BY GroupsRead
<1>2. A = B
  <2>1. \A b : b \in A <=> b = 0 \/ Listing(g, b)
    BY DEF Listing
  <2>2. \A b : b \in B <=> b = 0 \/ Named(lines, n, b)
    BY <1>1 DEF Named
  <2> HIDE DEF A, B
  <2> QED
    BY <1>1, <2>1, <2>2 DEF Sofar
<1>3. A \subseteq 0..TokenLength /\ 0 \in A
  <2>1. TokenLength \in Nat
    BY GateAssumption
  <2>2. g \in Seq(Group)
    BY <1>1 DEF Sofar
  <2>3. ASSUME NEW i \in DOMAIN g PROVE g[i].agents \subseteq 0..TokenLength
    <3>1. g[i] \in Group
      BY <2>2
    <3> QED
      BY <3>1 DEF Group
  <2>4. 0 \in 0..TokenLength
    BY <2>1
  <2> QED
    BY <2>3, <2>4
<1>4. best \in A /\ \A m \in A : m <= best
  <2> HIDE DEF A
  <2>1. \E k \in A : \A m \in A : m <= k
    BY <1>3, Most
  <2> QED
    BY <2>1
<1>5. \A k \in A : (\A m \in A : m <= k) => k = best
  <2> HIDE DEF best, A
  <2> QED
    BY <1>3, <1>4
<1>6. SelectGroups(g) = {i \in DOMAIN g : best \in g[i].agents}
  BY DEF SelectGroups
<1> HIDE DEF A, best
<1>7. (\E i \in SelectGroups(g) : \E k \in DOMAIN g[i].rules : g[i].rules[k] = r) <=> Given(lines, n, best, r)
  <2>1. (\E i \in SelectGroups(g) : \E k \in DOMAIN g[i].rules : g[i].rules[k] = r) <=> Grants(g, best, r)
    BY <1>6 DEF Grants
  <2> QED
    BY <1>1, <2>1 DEF Sofar
<1>8. r \in Ours(lines) <=>
        \E i \in DOMAIN lines : /\ lines[i].field = "rule" /\ lines[i].rule = r
                                /\ \E k \in AgentsOf(lines, i) : \A m \in B : m <= k
  BY DEF Ours
<1> HIDE DEF B
<1>9. ASSUME NEW i \in DOMAIN lines
      PROVE  (\E k \in AgentsOf(lines, i) : \A m \in B : m <= k) <=> best \in AgentsOf(lines, i)
  <2>1. \A k \in AgentsOf(lines, i) : k \in A
    <3>1. \A k \in AgentsOf(lines, i) : Listing(g, k)
      BY <1>1, AgentsOfAreNamed DEF Sofar
    <3> QED
      BY <3>1 DEF Listing, A
  <2> QED
    BY <1>2, <1>4, <1>5, <2>1
<1> QED
  BY <1>1, <1>7, <1>8, <1>9 DEF Given

LEMMA RulesAreOurs ==
  ASSUME NEW lines \in Seq(Line)
  PROVE  /\ Rules(lines) \in Seq(Rule)
         /\ \A r : (\E k \in DOMAIN Rules(lines) : Rules(lines)[k] = r) <=> r \in Ours(lines)
<1> DEFINE g == Groups(lines)
           S == SelectGroups(g)
           From(i, r) == \E k \in DOMAIN g[i].rules : g[i].rules[k] = r
           Has(s, r) == \E k \in DOMAIN s : s[k] = r
           Fine(s, m) == s \in Seq(Rule) /\ \A r : Has(s, r) <=> \E i \in 1..m : i \in S /\ From(i, r)
<1>1. g \in Seq(Group) /\ Len(g) \in Nat /\ DOMAIN g = 1..Len(g)
  BY GroupsRead DEF Sofar
<1>2. PICK f : /\ Rules(lines) = f[Len(g)] /\ f[0] = <<>>
               /\ \A n \in 1..Len(g) : f[n] = f[n - 1] \o (IF n \in S THEN g[n].rules ELSE <<>>)
  BY <1>1, RulesStep
<1>3. S \subseteq 1..Len(g)
  BY <1>1 DEF SelectGroups
<1>4. \A i \in 1..Len(g) : g[i].rules \in Seq(Rule)
  <2>1. \A group \in Group : group.rules \in Seq(Rule)
    BY DEF Group
  <2> HIDE DEF g
  <2>2. \A i \in 1..Len(g) : g[i] \in Group
    BY <1>1
  <2> QED
    BY <2>1, <2>2
<1> HIDE DEF g, S
<1> DEFINE G == {n \in Nat : n <= Len(g) => Fine(f[n], n)}
<1>5. 0 \in G
  <2>1. <<>> \in Seq(Rule) /\ \A r : ~Has(<<>>, r)
    OBVIOUS
  <2>2. Fine(<<>>, 0)
    BY <2>1
  <2> QED
    BY <1>2, <2>2
<1>6. ASSUME NEW n \in Nat, n \in G PROVE n + 1 \in G
  <2> SUFFICES ASSUME n + 1 <= Len(g) PROVE Fine(f[n + 1], n + 1)
    OBVIOUS
  <2> DEFINE s == f[n]
             t == IF n + 1 \in S THEN g[n + 1].rules ELSE <<>>
  <2>1. Fine(s, n) /\ n + 1 \in 1..Len(g) /\ (n + 1) - 1 = n
    BY <1>1, <1>6
  <2>2. f[n + 1] = s \o t
    BY <1>2, <2>1
  <2>3. s \in Seq(Rule) /\ t \in Seq(Rule)
    BY <1>4, <2>1
  <2>4. \A r : Has(t, r) <=> n + 1 \in S /\ From(n + 1, r)
    OBVIOUS
  <2> HIDE DEF s, t
  <2>5. s \o t \in Seq(Rule) /\ \A r : Has(s \o t, r) <=> Has(s, r) \/ Has(t, r)
    <3>1. /\ s \o t \in Seq(Rule) /\ Len(s) \in Nat /\ Len(t) \in Nat /\ Len(s \o t) = Len(s) + Len(t)
          /\ DOMAIN s = 1..Len(s) /\ DOMAIN t = 1..Len(t) /\ DOMAIN (s \o t) = 1..(Len(s) + Len(t))
      BY <2>3
    <3>2. \A k \in 1..Len(s) : (s \o t)[k] = s[k] /\ k \in DOMAIN (s \o t)
      BY <2>3, <3>1
    <3>3. \A k \in 1..Len(t) : (s \o t)[Len(s) + k] = t[k] /\ Len(s) + k \in DOMAIN (s \o t)
      BY <2>3, <3>1
    <3>4. \A k \in 1..(Len(s) + Len(t)) :
            k \in 1..Len(s) \/ (k - Len(s) \in 1..Len(t) /\ k = Len(s) + (k - Len(s)))
      BY <3>1
    <3>5. ASSUME NEW r, Has(s \o t, r) PROVE Has(s, r) \/ Has(t, r)
      <4>1. PICK k \in 1..(Len(s) + Len(t)) : (s \o t)[k] = r
        BY <3>1, <3>5
      <4> QED
        BY <3>1, <3>2, <3>3, <3>4, <4>1
    <3>6. ASSUME NEW r, Has(s, r) \/ Has(t, r) PROVE Has(s \o t, r)
      BY <3>1, <3>2, <3>3, <3>6
    <3> QED
      BY <3>1, <3>5, <3>6
  <2>6. \A i : i \in 1..(n + 1) <=> i \in 1..n \/ i = n + 1
    OBVIOUS
  <2> HIDE DEF Has, From
  <2> QED
    BY <2>1, <2>2, <2>4, <2>5, <2>6
<1> HIDE DEF G
<1>7. Nat \subseteq G
  BY <1>5, <1>6, Induction
<1>8. Fine(f[Len(g)], Len(g))
  <2>1. Len(g) \in G
    BY <1>1, <1>7
  <2> HIDE DEF Fine
  <2> QED
    BY <1>1, <2>1 DEF G
<1>9. \A r : (\E i \in S : From(i, r)) <=> r \in Ours(lines)
  BY SelectedAreOurs DEF g, S
<1> QED
  BY <1>2, <1>3, <1>8, <1>9

-----------------------------------------------------------------------------
(* The winner allows a page just when one of the most specific rules that   *)
(* match does, or when none matches.                                        *)
LEMMA WinnerAllows ==
  ASSUME NEW rules \in Seq(Rule), NEW path
  PROVE  LET M == {k \in DOMAIN rules : path \in rules[k].matches} IN
         /\ Winner(rules, path).allow \in BOOLEAN
         /\ Winner(rules, path).allow <=>
              (M # {} => \E k \in M : /\ rules[k].allow
                                      /\ \A j \in M : rules[j].specificity <= rules[k].specificity)
<1> DEFINE M == {k \in DOMAIN rules : path \in rules[k].matches}
           Beats(w, j) == /\ rules[j].specificity <= w.specificity
                          /\ rules[j].specificity = w.specificity /\ rules[j].allow => w.allow
           Best(w, m) == \/ w = NoRule /\ \A j \in 1..m : j \notin M
                         \/ \E k \in 1..m : /\ k \in M /\ w = rules[k]
                                            /\ \A j \in 1..m : j \in M => Beats(w, j)
<1>1. PICK f : /\ Winner(rules, path) = f[Len(rules)] /\ f[0] = NoRule
               /\ \A n \in 1..Len(rules) :
                    f[n] = IF path \in rules[n].matches /\ Better(rules[n], f[n - 1])
                           THEN rules[n] ELSE f[n - 1]
  BY WinnerStep
<1>2. Len(rules) \in Nat /\ DOMAIN rules = 1..Len(rules)
  OBVIOUS
<1>3. \A k \in DOMAIN rules : /\ rules[k] \in Rule /\ rules[k].specificity \in Nat
                              /\ rules[k].allow \in BOOLEAN
  <2>1. \A k \in DOMAIN rules : rules[k] \in Rule
    OBVIOUS
  <2> QED
    BY <2>1 DEF Rule
<1>4. \A k \in M : rules[k] # NoRule
  BY DEF NoRule
<1> DEFINE G == {n \in Nat : n <= Len(rules) => Best(f[n], n)}
<1>5. 0 \in G
  BY <1>1
<1>6. ASSUME NEW n \in Nat, n \in G PROVE n + 1 \in G
  <2> SUFFICES ASSUME n + 1 <= Len(rules) PROVE Best(f[n + 1], n + 1)
    OBVIOUS
  <2> DEFINE w == f[n]
             v == f[n + 1]
             rule == rules[n + 1]
  <2>1. Best(w, n) /\ n + 1 \in 1..Len(rules) /\ (n + 1) - 1 = n
    BY <1>6
  <2>2. v = IF path \in rule.matches /\ Better(rule, w) THEN rule ELSE w
    BY <1>1, <2>1
  <2>3. n + 1 \in M <=> path \in rule.matches
    BY <1>2, <2>1
  <2>4. \A j : j \in 1..(n + 1) <=> j \in 1..n \/ j = n + 1
    OBVIOUS
  <2>5. rule.specificity \in Nat /\ rule.allow \in BOOLEAN
    BY <1>2, <1>3, <2>1
  <2>6. \A j \in 1..n : rules[j].specificity \in Nat /\ rules[j].allow \in BOOLEAN
    BY <1>2, <1>3, <2>1
  <2> HIDE DEF w, v, M
  <2>7. CASE n + 1 \notin M
    <3>1. v = w
      BY <2>2, <2>3, <2>7
    <3> HIDE DEF Beats
    <3>2. Best(v, n + 1)
      BY <2>1, <2>4, <2>7, <3>1
    <3> QED
      BY <3>2 DEF v
  <2>8. CASE n + 1 \in M /\ w = NoRule
    <3>1. v = rule
      BY <2>2, <2>3, <2>8 DEF Better
    <3>2. \A j \in 1..n : j \notin M
      BY <1>4, <2>1, <2>8
    <3>3. Beats(rule, n + 1)
      BY <2>5
    <3>4. \A j \in 1..(n + 1) : j \in M => Beats(rule, j)
      BY <2>4, <3>2, <3>3
    <3>5. n + 1 \in 1..(n + 1)
      OBVIOUS
    <3> HIDE DEF Beats
    <3>6. Best(v, n + 1)
      BY <2>8, <3>1, <3>4, <3>5
    <3> QED
      BY <3>6 DEF v
  <2>9. CASE n + 1 \in M /\ w # NoRule
    <3>1. PICK k \in 1..n : k \in M /\ w = rules[k] /\ \A j \in 1..n : j \in M => Beats(w, j)
      BY <2>1, <2>9
    <3>2. w.specificity \in Nat /\ w.allow \in BOOLEAN
      BY <2>6, <3>1
    <3>3. CASE Better(rule, w)
      <4>1. v = rule
        BY <2>2, <2>3, <2>9, <3>3
      <4>2. rule.specificity > w.specificity \/ (rule.specificity = w.specificity /\ rule.allow /\ ~w.allow)
        BY <2>9, <3>3 DEF Better
      <4>3. ASSUME NEW j \in 1..n, j \in M PROVE Beats(rule, j)
        <5>1. Beats(w, j)
          BY <3>1, <4>3
        <5> QED
          BY <2>5, <2>6, <3>2, <4>2, <5>1
      <4>4. Beats(rule, n + 1)
        BY <2>5
      <4>5. \A j \in 1..(n + 1) : j \in M => Beats(rule, j)
        BY <2>4, <4>3, <4>4
      <4>6. n + 1 \in 1..(n + 1)
        OBVIOUS
      <4> HIDE DEF Beats
      <4>7. Best(v, n + 1)
        BY <2>9, <4>1, <4>5, <4>6
      <4> QED
        BY <4>7 DEF v
    <3>4. CASE ~Better(rule, w)
      <4>1. v = w
        BY <2>2, <3>4
      <4>2. /\ ~(rule.specificity > w.specificity)
            /\ ~(rule.specificity = w.specificity /\ rule.allow /\ ~w.allow)
        BY <3>4 DEF Better
      <4>3. Beats(w, n + 1)
        BY <2>5, <3>2, <4>2
      <4>4. \A j \in 1..(n + 1) : j \in M => Beats(w, j)
        BY <2>4, <3>1, <4>3
      <4>5. k \in 1..(n + 1)
        OBVIOUS
      <4> HIDE DEF Beats
      <4>6. Best(v, n + 1)
        BY <3>1, <4>1, <4>4, <4>5
      <4> QED
        BY <4>6 DEF v
    <3> QED
      BY <3>3, <3>4
  <2> QED
    BY <2>7, <2>8, <2>9
<1> DEFINE w == Winner(rules, path)
<1>7. Best(w, Len(rules))
  <2> HIDE DEF G
  <2>1. Nat \subseteq G
    BY <1>5, <1>6, Induction
  <2>2. Len(rules) \in G
    BY <1>2, <2>1
  <2> HIDE DEF Best
  <2>3. Best(f[Len(rules)], Len(rules))
    BY <1>2, <2>2 DEF G
  <2> QED
    BY <1>1, <2>3
<1> HIDE DEF w
<1>8. CASE w = NoRule /\ \A j \in 1..Len(rules) : j \notin M
  BY <1>2, <1>8 DEF NoRule, w
<1>9. ASSUME NEW k \in M, w = rules[k], \A j \in M : Beats(w, j)
      PROVE  w.allow <=> \E i \in M : /\ rules[i].allow
                                      /\ \A j \in M : rules[j].specificity <= rules[i].specificity
  <2>1. w.allow => rules[k].allow /\ \A j \in M : rules[j].specificity <= rules[k].specificity
    BY <1>9
  <2>2. ASSUME NEW i \in M, rules[i].allow, \A j \in M : rules[j].specificity <= rules[i].specificity
        PROVE  w.allow
    <3>1. rules[k].specificity <= rules[i].specificity /\ Beats(w, i)
      BY <1>9, <2>2
    <3>2. rules[k].specificity \in Nat /\ rules[i].specificity \in Nat
      BY <1>3
    <3>3. rules[i].specificity = w.specificity
      BY <1>9, <3>1, <3>2
    <3> QED
      BY <2>2, <3>1, <3>3
  <2> QED
    BY <2>1, <2>2
<1>10. CASE \E k \in 1..Len(rules) : /\ k \in M /\ w = rules[k]
                                      /\ \A j \in 1..Len(rules) : j \in M => Beats(w, j)
  <2>1. PICK k \in M : w = rules[k] /\ \A j \in M : Beats(w, j)
    BY <1>2, <1>10
  <2> HIDE DEF Beats
  <2>2. w.allow <=> \E i \in M : rules[i].allow /\ \A j \in M : rules[j].specificity <= rules[i].specificity
    BY <1>9, <2>1
  <2>3. w.allow \in BOOLEAN
    BY <1>3, <2>1
  <2> QED
    BY <2>1, <2>2, <2>3 DEF w
<1> QED
  BY <1>7, <1>8, <1>10

(* A page is allowed by a file just when the rules of the file permit it.   *)
LEMMA FilesReadByTheBook ==
  ASSUME NEW lines \in Files, NEW path
  PROVE  Allows(lines, path) = Permits(lines, path)
<1> DEFINE rules == Rules(lines)
           M == {k \in DOMAIN rules : path \in rules[k].matches}
           N == {rule \in Ours(lines) : path \in rule.matches}
<1>1. lines \in Seq(Line)
  BY GateAssumption
<1>2. rules \in Seq(Rule) /\ \A r : (\E k \in DOMAIN rules : rules[k] = r) <=> r \in Ours(lines)
  BY <1>1, RulesAreOurs
<1>3. /\ Allows(lines, path) \in BOOLEAN
      /\ Allows(lines, path) <=>
           (M # {} => \E k \in M : /\ rules[k].allow
                                   /\ \A j \in M : rules[j].specificity <= rules[k].specificity)
  <2> HIDE DEF rules
  <2> QED
    BY <1>2, WinnerAllows DEF Allows, rules
<1>4. Permits(lines, path) <=>
        (N # {} => \E r \in N : r.allow /\ \A other \in N : other.specificity <= r.specificity)
  BY DEF Permits
<1>5. \A r : r \in N <=> \E k \in M : rules[k] = r
  BY <1>2
<1> HIDE DEF rules, M, N
<1>6. Allows(lines, path) <=> Permits(lines, path)
  BY <1>3, <1>4, <1>5
<1>7. Permits(lines, path) \in BOOLEAN
  BY DEF Permits
<1> QED
  BY <1>3, <1>6, <1>7

(* Of every robots.txt, whatever its lines and their order, the gate makes  *)
(* what the book says of it: parseRobots and decide, robots.mjs:124-275.    *)
THEOREM GateReadsByTheBook == Spec => []RulesByTheBook
<1>1. Misread = {}
  BY FilesReadByTheBook DEF Misread
<1>2. RulesByTheBook
  BY <1>1 DEF RulesByTheBook
<1> QED
  BY <1>2, PTL

=============================================================================
