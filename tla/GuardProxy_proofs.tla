-------------------------- MODULE GuardProxy_proofs --------------------------
(***************************************************************************)
(* The policy of the gateway and the places of the guard proxy, for every  *)
(* number of calls, tunnels and redirects and whatever DNS answers.        *)
(*                                                                         *)
(* The invariant has two halves.  Lawful says of one call why its next hop *)
(* may be taken: its URL is none of those asked for, and as secure.        *)
(* PlacesInv ties each call to its handler, so that the handlers that      *)
(* count are those whose tunnel costs something.                           *)
(***************************************************************************)
EXTENDS GuardProxy, FiniteSetTheorems, TLAPS

Lawful(k) ==
  /\ k \in Call /\ k.redirects <= MaxRedirects /\ k.upstream <= 1
  /\ \A i, j \in DOMAIN k.hops : k.hops[i] = k.hops[j] => i = j
  /\ \A i, j \in DOMAIN k.hops : i < j /\ k.hops[i] \in Secure => k.hops[j] \in Secure
  /\ \A i \in DOMAIN k.hops :
       /\ k.hops[i] \in Allowed
       /\ k.hops[i] \in Secure => k.url \in Secure
       /\ k.pc = "resolve" => k.hops[i] # k.url
  /\ k.pc = "connect" => k.selected \in k.resolved \cap Public
  /\ k.peer # Nobody => k.peer \in Public

CallsLawful == call \in [Calls -> Call] /\ \A c \in Calls : Lawful(call[c])

Holders == {c \in Calls : Tunnel(c) /\ handler[c] \in {"opening", "piping", "woken"}}

SocketsTyped ==
  /\ client \in [Calls -> {"none", "open", "gone"}]
  /\ handler \in [Calls -> {"none", "opening", "piping", "woken", "ended"}]
  /\ proxy \in {"open", "closing", "closed", "crashed"}

HandlersFit ==
  \A c \in Calls :
    /\ client[c] = "none" => handler[c] = "none"
    /\ (handler[c] = "opening") <=> InFlight(c)
    /\ Tunnel(c) /\ call[c].upstream > 0 => handler[c] \in {"piping", "woken"}

PlacesInv ==
  /\ SocketsTyped /\ HandlersFit
  /\ active = Cardinality(Holders) /\ active <= MaxTunnels

PInv == CallsLawful /\ PlacesInv

-----------------------------------------------------------------------------
LEMMA IdleLawful == Idle \in Call /\ Lawful(Idle)
<1>1. (CHOOSE u \in Urls : TRUE) \in Urls
  BY EgressAssumption
<1>2. Idle \in Call
  BY <1>1 DEF Idle, Call, Kinds
<1>3. Idle.hops = <<>> /\ Idle.pc = "idle" /\ Idle.peer = Nobody
      /\ Idle.redirects = 0 /\ Idle.upstream = 0
  BY DEF Idle
<1> QED
  BY <1>2, <1>3, ProxyAssumption DEF Lawful

(* A step that gives one call a lawful record keeps them all lawful.        *)
LEMMA OneCall ==
  ASSUME CallsLawful, NEW c \in Calls, NEW k, Lawful(k), call' = [call EXCEPT ![c] = k]
  PROVE  CallsLawful'
<1>1. k \in Call
  BY DEF Lawful
<1>2. call' \in [Calls -> Call]
  BY <1>1 DEF CallsLawful
<1>3. ASSUME NEW d \in Calls PROVE Lawful(call'[d])
  <2>1. call'[d] = IF d = c THEN k ELSE call[d]
    BY DEF CallsLawful
  <2> QED
    BY <2>1 DEF CallsLawful
<1>4. \A d \in Calls : Lawful(call'[d])
  BY <1>3
<1> QED
  BY <1>2, <1>4 DEF CallsLawful, Lawful

LEMMA BeginLawful ==
  ASSUME CallsLawful, NEW c \in Calls, NEW kind \in Kinds, NEW u \in Urls, NEW r \in Nat,
         r <= MaxRedirects, Begin(c, kind, u, r)
  PROVE  CallsLawful'
<1> DEFINE k == [Idle EXCEPT !.kind = kind, !.pc = "resolve", !.url = u, !.redirects = r]
<1>1. call' = [call EXCEPT ![c] = k]
  BY DEF Begin
<1>2. k \in Call
  BY IdleLawful DEF Call
<1>3. k.hops = <<>> /\ k.pc = "resolve" /\ k.peer = Nobody /\ k.redirects = r /\ k.upstream = 0
  BY DEF Idle
<1>4. Lawful(k)
  BY <1>2, <1>3 DEF Lawful
<1> QED
  BY <1>1, <1>4, OneCall

(* Only the ends of a call change: what it asked for and whom it met stay.  *)
LEMMA EndsLawful ==
  ASSUME CallsLawful, NEW c \in Calls, NEW pc \in {"done", "failed"} \cup {call[c].pc},
         NEW aborted \in BOOLEAN, NEW n \in {0, call[c].upstream},
         call' = [call EXCEPT ![c] = [@ EXCEPT !.pc = pc, !.upstream = n, !.aborted = aborted]]
  PROVE  CallsLawful'
<1> DEFINE k == [call[c] EXCEPT !.pc = pc, !.upstream = n, !.aborted = aborted]
<1>1. Lawful(call[c]) /\ call[c] \in Call
  BY DEF CallsLawful
<1>2. call' = [call EXCEPT ![c] = k]
  BY DEF CallsLawful
<1>21. pc \in {"idle", "resolve", "connect", "done", "failed"} /\ n \in Nat
  BY <1>1 DEF Call
<1>3. k \in Call
  BY <1>1, <1>21 DEF Call
<1>4. /\ k.hops = call[c].hops /\ k.url = call[c].url /\ k.redirects = call[c].redirects
      /\ k.resolved = call[c].resolved /\ k.selected = call[c].selected /\ k.peer = call[c].peer
      /\ k.pc = pc /\ k.upstream = n
  BY <1>1 DEF Call
<1>5. Lawful(k)
  BY <1>1, <1>3, <1>4, ProxyAssumption DEF Lawful, Call
<1> QED
  BY <1>2, <1>5, OneCall

LEMMA AuthorizeLawful ==
  ASSUME CallsLawful, NEW c \in Calls, Authorize(c)
  PROVE  CallsLawful'
<1>1. Lawful(call[c]) /\ call[c] \in Call
  BY DEF CallsLawful
<1>2. call[c].pc = "resolve" /\ call[c].url \in Allowed
  BY DEF Authorize
<1>3. PICK records \in SUBSET Public : \E address \in records :
        call' = [call EXCEPT ![c] = [@ EXCEPT
                   !.pc = "connect", !.hops = Append(call[c].hops, call[c].url),
                   !.resolved = records, !.selected = address]]
  BY DEF Authorize
<1>31. PICK address \in records :
        call' = [call EXCEPT ![c] = [@ EXCEPT
                   !.pc = "connect", !.hops = Append(call[c].hops, call[c].url),
                   !.resolved = records, !.selected = address]]
  BY <1>3
<1> DEFINE k == [call[c] EXCEPT !.pc = "connect", !.hops = Append(call[c].hops, call[c].url),
                                !.resolved = records, !.selected = address]
<1>4. call' = [call EXCEPT ![c] = k]
  BY <1>31
<1>5. address \in Public /\ records \in SUBSET Addresses /\ address \in Addresses
  BY <1>31, EgressAssumption
<1>6. call[c].hops \in Seq(Urls) /\ call[c].url \in Urls
  BY <1>1 DEF Call
<1>7. Append(call[c].hops, call[c].url) \in Seq(Urls)
  BY <1>6
<1>8. k \in Call
  BY <1>1, <1>5, <1>7 DEF Call
<1>9. /\ k.hops = Append(call[c].hops, call[c].url) /\ k.url = call[c].url
      /\ k.redirects = call[c].redirects /\ k.upstream = call[c].upstream
      /\ k.peer = call[c].peer /\ k.pc = "connect"
      /\ k.selected = address /\ k.resolved = records
  BY <1>1 DEF Call
<1>10. /\ \A i, j \in DOMAIN k.hops : k.hops[i] = k.hops[j] => i = j
       /\ \A i, j \in DOMAIN k.hops : i < j /\ k.hops[i] \in Secure => k.hops[j] \in Secure
       /\ \A i \in DOMAIN k.hops : k.hops[i] \in Allowed /\ (k.hops[i] \in Secure => k.url \in Secure)
  BY <1>1, <1>2, <1>6, <1>9 DEF Lawful
<1>11. Lawful(k)
  BY <1>1, <1>31, <1>5, <1>8, <1>9, <1>10 DEF Lawful
<1> QED
  BY <1>4, <1>11, OneCall

LEMMA ConnectedLawful ==
  ASSUME CallsLawful, NEW c \in Calls, Connected(c)
  PROVE  CallsLawful'
<1>1. Lawful(call[c]) /\ call[c] \in Call /\ call[c].pc = "connect"
  BY DEF CallsLawful, Connected
<1>2. PICK peer \in Addresses :
        /\ peer = call[c].selected
        /\ call' = [call EXCEPT ![c].pc = "done", ![c].peer = peer, ![c].upstream = 1]
  BY DEF Connected, Matches
<1> DEFINE k == [call[c] EXCEPT !.pc = "done", !.peer = peer, !.upstream = 1]
<1>3. call' = [call EXCEPT ![c] = k]
  BY <1>2 DEF CallsLawful
<1>4. peer \in Public
  BY <1>1, <1>2 DEF Lawful
<1>5. k \in Call
  BY <1>1, <1>2 DEF Call
<1>6. /\ k.hops = call[c].hops /\ k.url = call[c].url /\ k.redirects = call[c].redirects
      /\ k.pc = "done" /\ k.upstream = 1 /\ k.peer = peer
  BY <1>1 DEF Call
<1>7. Lawful(k)
  BY <1>1, <1>4, <1>5, <1>6 DEF Lawful
<1> QED
  BY <1>3, <1>7, OneCall

(* The target was not asked for before, and is secure if what redirects is; *)
(* and that is, if anything before it was.                                  *)
LEMMA RedirectLawful ==
  ASSUME CallsLawful, NEW c \in Calls, Redirect(c)
  PROVE  CallsLawful'
<1>1. Lawful(call[c]) /\ call[c] \in Call /\ call[c].pc = "connect" /\ call[c].redirects > 0
  BY DEF CallsLawful, Redirect
<1>2. PICK next \in Allowed, peer \in Addresses :
        /\ peer = call[c].selected
        /\ call[c].url \in Secure => next \in Secure
        /\ \A i \in DOMAIN call[c].hops : call[c].hops[i] # next
        /\ call' = [call EXCEPT ![c] = [@ EXCEPT
                      !.pc = "resolve", !.url = next, !.peer = peer,
                      !.redirects = call[c].redirects - 1]]
  BY DEF Redirect, Matches
<1> DEFINE k == [call[c] EXCEPT !.pc = "resolve", !.url = next, !.peer = peer,
                                !.redirects = call[c].redirects - 1]
<1>3. call' = [call EXCEPT ![c] = k]
  BY <1>2 DEF CallsLawful
<1>4. peer \in Public /\ next \in Urls
  BY <1>1, <1>2, EgressAssumption DEF Lawful
<1>5. call[c].redirects - 1 \in Nat
  BY <1>1 DEF Call
<1>6. k \in Call
  BY <1>1, <1>4, <1>5 DEF Call
<1>7. /\ k.hops = call[c].hops /\ k.url = next /\ k.redirects = call[c].redirects - 1
      /\ k.pc = "resolve" /\ k.upstream = call[c].upstream /\ k.peer = peer
  BY <1>1 DEF Call
<1>8. k.redirects <= MaxRedirects
  BY <1>1, <1>7, ProxyAssumption DEF Lawful, Call
<1>9. Lawful(k)
  BY <1>1, <1>2, <1>4, <1>6, <1>7, <1>8 DEF Lawful
<1> QED
  BY <1>3, <1>9, OneCall

LEMMA NextLawful == CallsLawful /\ [Next]_vars => CallsLawful'
<1> SUFFICES ASSUME CallsLawful, [Next]_vars PROVE CallsLawful'
  OBVIOUS
<1>1. ASSUME UNCHANGED call PROVE CallsLawful'
  BY <1>1 DEF CallsLawful, Lawful
<1>2. ASSUME NEW c \in Calls, NEW u \in Urls, Request(c, u) PROVE CallsLawful'
  BY <1>2, BeginLawful, ProxyAssumption DEF Request, Kinds
<1>3. ASSUME NEW c \in Calls, NEW u \in Urls, Connect(c, u) PROVE CallsLawful'
  BY <1>3, BeginLawful, ProxyAssumption DEF Connect, Kinds
<1>4. ASSUME NEW c \in Calls, Hop(c) PROVE CallsLawful'
  BY <1>4, AuthorizeLawful, RedirectLawful DEF Hop
<1>5. ASSUME NEW c \in Calls, Open(c) PROVE CallsLawful'
  BY <1>5, ConnectedLawful DEF Open
<1>6. ASSUME NEW c \in Calls, Unopened(c) \/ End(c) \/ UpstreamCloses(c) \/ Deadline(c)
      PROVE  CallsLawful'
  <2>1. call[c] \in Call
    BY DEF CallsLawful
  <2>2. \/ UNCHANGED call
        \/ call' = [call EXCEPT ![c].pc = "failed", ![c].upstream = 0]
        \/ call' = [call EXCEPT ![c].upstream = 0]
        \/ call' = [call EXCEPT ![c].aborted = TRUE]
        \/ call' = [call EXCEPT ![c].aborted = TRUE, ![c].upstream = 0]
    BY <1>6 DEF Unopened, Fails, End, UpstreamCloses, Deadline, AbortCall
  <2> DEFINE Ended(pc, n, aborted) ==
        call' = [call EXCEPT ![c] = [@ EXCEPT !.pc = pc, !.upstream = n, !.aborted = aborted]]
  <2>3. \/ UNCHANGED call
        \/ Ended("failed", 0, call[c].aborted)
        \/ Ended(call[c].pc, 0, call[c].aborted)
        \/ Ended(call[c].pc, call[c].upstream, TRUE)
        \/ Ended(call[c].pc, 0, TRUE)
    BY <2>1, <2>2 DEF CallsLawful, Call
  <2>4. call[c].aborted \in BOOLEAN
    BY <2>1 DEF Call
  <2>5. CASE UNCHANGED call
    BY <2>5, <1>1
  <2>6. CASE Ended("failed", 0, call[c].aborted)
    BY <2>4, <2>6, EndsLawful
  <2>7. CASE Ended(call[c].pc, 0, call[c].aborted)
    BY <2>4, <2>7, EndsLawful
  <2>8. CASE Ended(call[c].pc, call[c].upstream, TRUE)
    BY <2>4, <2>8, EndsLawful
  <2>9. CASE Ended(call[c].pc, 0, TRUE)
    BY <2>4, <2>9, EndsLawful
  <2> QED
    BY <2>3, <2>5, <2>6, <2>7, <2>8, <2>9
<1>7. ASSUME NEW c \in Calls, Refuse(c) \/ ClientCloses(c) \/ ClientResets(c) PROVE UNCHANGED call
  BY <1>7 DEF Refuse, ClientCloses, ClientResets
<1>8. ASSUME Close \/ Closed \/ UNCHANGED vars PROVE UNCHANGED call
  BY <1>8 DEF Close, Closed, vars
<1> QED
  BY <1>1, <1>2, <1>3, <1>4, <1>5, <1>6, <1>7, <1>8 DEF Next

LEMMA InitInv == Init => PInv
<1> SUFFICES ASSUME Init PROVE PInv
  OBVIOUS
<1>1. \A c \in Calls : call[c] = Idle
  BY DEF Init, EgressInit
<1>2. CallsLawful
  BY <1>1, IdleLawful DEF Init, EgressInit, CallsLawful
<1>21. Idle.pc = "idle" /\ Idle.kind = "request"
  BY DEF Idle
<1>3. \A c \in Calls : call[c].pc = "idle" /\ call[c].kind = "request"
  BY <1>1, <1>21
<1>4. SocketsTyped /\ HandlersFit
  BY <1>3 DEF Init, SocketsTyped, HandlersFit, InFlight, Tunnel
<1>5. Holders = {}
  BY DEF Init, Holders
<1> QED
  BY <1>2, <1>4, <1>5, FS_EmptySet, ProxyAssumption DEF Init, PInv, PlacesInv

-----------------------------------------------------------------------------
LEMMA HoldersCounted == IsFiniteSet(Holders) /\ Cardinality(Holders) \in Nat
<1>1. Holders \subseteq Calls
  BY DEF Holders
<1> QED
  BY <1>1, EgressAssumption, FS_Subset, FS_CardinalityType

(* What a step of a call does to the parts that handlers depend on.         *)
LEMMA CallSteps ==
  ASSUME CallsLawful, NEW c \in Calls
  PROVE  /\ \A kind, u, r : Begin(c, kind, u, r) =>
              /\ call'[c].kind = kind /\ InFlight(c)' /\ call'[c].upstream = 0
              /\ call[c].pc = "idle"
         /\ Fails(c) => /\ call'[c].kind = call[c].kind
                        /\ ~InFlight(c)' /\ InFlight(c) /\ call'[c].upstream = 0
         /\ Authorize(c) \/ Redirect(c) =>
              /\ call'[c].kind = call[c].kind
              /\ InFlight(c)' /\ InFlight(c) /\ call'[c].upstream = call[c].upstream
         /\ Connected(c) => /\ call'[c].kind = call[c].kind
                            /\ ~InFlight(c)' /\ InFlight(c)
         /\ AbortCall(c) =>
              /\ call'[c].kind = call[c].kind
              /\ (InFlight(c)' <=> InFlight(c)) /\ call'[c].upstream = call[c].upstream
         /\ \/ \E kind, u, r : Begin(c, kind, u, r)
            \/ Fails(c) \/ Authorize(c) \/ Redirect(c) \/ Connected(c) \/ AbortCall(c)
            => \A d \in Calls \ {c} : call'[d] = call[d]
<1>1. call \in [Calls -> Call] /\ call[c] \in Call
  BY DEF CallsLawful
<1>2. /\ \A kind, u, r : Begin(c, kind, u, r) =>
           /\ call'[c].kind = kind /\ InFlight(c)' /\ call'[c].upstream = 0
           /\ call[c].pc = "idle"
      /\ (\E kind, u, r : Begin(c, kind, u, r)) => \A d \in Calls \ {c} : call'[d] = call[d]
  BY <1>1 DEF Begin, Idle, InFlight
<1>3. Fails(c) => /\ call'[c].kind = call[c].kind
                  /\ ~InFlight(c)' /\ InFlight(c) /\ call'[c].upstream = 0
                  /\ \A d \in Calls \ {c} : call'[d] = call[d]
  BY <1>1 DEF Fails, InFlight, Call
<1>4. Authorize(c) => /\ call'[c].kind = call[c].kind
                      /\ InFlight(c)' /\ InFlight(c) /\ call'[c].upstream = call[c].upstream
                      /\ \A d \in Calls \ {c} : call'[d] = call[d]
  BY <1>1 DEF Authorize, InFlight, Call
<1>5. Redirect(c) => /\ call'[c].kind = call[c].kind
                     /\ InFlight(c)' /\ InFlight(c) /\ call'[c].upstream = call[c].upstream
                     /\ \A d \in Calls \ {c} : call'[d] = call[d]
  BY <1>1 DEF Redirect, InFlight, Call
<1>6. Connected(c) => /\ call'[c].kind = call[c].kind
                      /\ ~InFlight(c)' /\ InFlight(c)
                      /\ \A d \in Calls \ {c} : call'[d] = call[d]
  BY <1>1 DEF Connected, InFlight, Call
<1>7. AbortCall(c) => /\ call'[c].kind = call[c].kind
                      /\ (InFlight(c)' <=> InFlight(c)) /\ call'[c].upstream = call[c].upstream
                      /\ \A d \in Calls \ {c} : call'[d] = call[d]
  BY <1>1 DEF AbortCall, InFlight, Call
<1> QED
  BY <1>2, <1>3, <1>4, <1>5, <1>6, <1>7

(* A step that leaves the holders alone has only to keep the handlers fit.  *)
LEMMA SameHolders ==
  ASSUME PlacesInv, SocketsTyped', HandlersFit', Holders' = Holders, active' = active
  PROVE  PlacesInv'
BY DEF PlacesInv

LEMMA RequestPlaces ==
  ASSUME PInv, NEW c \in Calls, NEW u \in Urls, Request(c, u)
  PROVE  PlacesInv'
<1>1. /\ call'[c].kind = "request" /\ InFlight(c)' /\ \A d \in Calls \ {c} : call'[d] = call[d]
      /\ handler' = [handler EXCEPT ![c] = "opening"] /\ client' = [client EXCEPT ![c] = "open"]
      /\ handler[c] = "none" /\ active' = active /\ proxy' = proxy
  BY CallSteps DEF PInv, PlacesInv, HandlersFit, Request
<1>2. SocketsTyped'
  BY <1>1 DEF PInv, PlacesInv, SocketsTyped
<1>3. HandlersFit'
  BY <1>1 DEF PInv, PlacesInv, SocketsTyped, HandlersFit, InFlight, Tunnel
<1>4. Holders' = Holders
  BY <1>1 DEF PInv, PlacesInv, SocketsTyped, Holders, Tunnel
<1> QED
  BY <1>1, <1>2, <1>3, <1>4, SameHolders DEF PInv

LEMMA ConnectPlaces ==
  ASSUME PInv, NEW c \in Calls, NEW u \in Urls, Connect(c, u)
  PROVE  PlacesInv'
<1>1. /\ call'[c].kind = "tunnel" /\ InFlight(c)' /\ call'[c].upstream = 0
      /\ \A d \in Calls \ {c} : call'[d] = call[d]
      /\ handler' = [handler EXCEPT ![c] = "opening"] /\ client' = [client EXCEPT ![c] = "open"]
      /\ handler[c] = "none" /\ active' = active + 1 /\ active < MaxTunnels /\ proxy' = proxy
  BY CallSteps DEF PInv, PlacesInv, HandlersFit, Connect
<1>2. SocketsTyped'
  BY <1>1 DEF PInv, PlacesInv, SocketsTyped
<1>3. HandlersFit'
  BY <1>1 DEF PInv, PlacesInv, SocketsTyped, HandlersFit, InFlight, Tunnel
<1>4. Holders' = Holders \cup {c} /\ c \notin Holders
  BY <1>1 DEF PInv, PlacesInv, SocketsTyped, Holders, Tunnel
<1>5. Cardinality(Holders') = Cardinality(Holders) + 1
  BY <1>4, HoldersCounted, FS_AddElement
<1>6. active = Cardinality(Holders) /\ active \in Nat
  BY HoldersCounted DEF PInv, PlacesInv
<1> QED
  BY <1>1, <1>2, <1>3, <1>5, <1>6, ProxyAssumption DEF PlacesInv

(* A handler that ends gives its place back, if it had one.                 *)
LEMMA EndedPlaces ==
  ASSUME PInv, NEW c \in Calls,
         handler' = [handler EXCEPT ![c] = "ended"], handler[c] \in {"opening", "woken"},
         call'[c].kind = call[c].kind, \A d \in Calls \ {c} : call'[d] = call[d],
         active' = IF Tunnel(c) THEN active - 1 ELSE active,
         SocketsTyped', HandlersFit'
  PROVE  PlacesInv'
<1>1. active = Cardinality(Holders) /\ active \in Nat /\ active <= MaxTunnels
  BY HoldersCounted DEF PInv, PlacesInv
<1>2. Holders' = IF Tunnel(c) THEN Holders \ {c} ELSE Holders
  BY DEF PInv, PlacesInv, SocketsTyped, Holders, Tunnel
<1>3. Tunnel(c) => c \in Holders
  BY DEF Holders
<1>4. CASE Tunnel(c)
  <2>1. Cardinality(Holders') = Cardinality(Holders) - 1
    BY <1>2, <1>3, <1>4, HoldersCounted, FS_RemoveElement
  <2> QED
    BY <1>1, <1>4, <2>1, ProxyAssumption DEF PlacesInv
<1>5. CASE ~Tunnel(c)
  BY <1>1, <1>2, <1>5 DEF PlacesInv
<1> QED
  BY <1>4, <1>5

LEMMA UnopenedPlaces ==
  ASSUME PInv, NEW c \in Calls, Unopened(c)
  PROVE  PlacesInv'
<1>1. /\ call'[c].kind = call[c].kind /\ ~InFlight(c)' /\ InFlight(c) /\ call'[c].upstream = 0
      /\ \A d \in Calls \ {c} : call'[d] = call[d]
      /\ handler' = [handler EXCEPT ![c] = "ended"]
      /\ active' = IF Tunnel(c) THEN active - 1 ELSE active
      /\ UNCHANGED <<client, proxy>>
  BY CallSteps DEF PInv, Unopened
<1>2. handler[c] = "opening"
  BY <1>1 DEF PInv, PlacesInv, HandlersFit
<1>3. SocketsTyped'
  BY <1>1 DEF PInv, PlacesInv, SocketsTyped
<1>4. HandlersFit'
  BY <1>1, <1>2 DEF PInv, PlacesInv, SocketsTyped, HandlersFit, InFlight, Tunnel
<1> QED
  BY <1>1, <1>2, <1>3, <1>4, EndedPlaces

LEMMA EndPlaces ==
  ASSUME PInv, NEW c \in Calls, End(c)
  PROVE  PlacesInv'
<1>1. call \in [Calls -> Call] /\ call[c] \in Call
  BY DEF PInv, CallsLawful
<1>2. /\ handler[c] = "woken" /\ handler' = [handler EXCEPT ![c] = "ended"] /\ proxy' = proxy
      /\ client' \in {client, [client EXCEPT ![c] = "gone"]}
      /\ active' = IF Tunnel(c) THEN active - 1 ELSE active
      /\ Tunnel(c) => call' = [call EXCEPT ![c].upstream = 0]
      /\ ~Tunnel(c) => call' = call
  BY DEF End
<1>3. /\ call'[c].kind = call[c].kind /\ (InFlight(c)' <=> InFlight(c))
      /\ Tunnel(c) => call'[c].upstream = 0
      /\ \A d \in Calls \ {c} : call'[d] = call[d]
  BY <1>1, <1>2 DEF InFlight, Call
<1>4. SocketsTyped'
  BY <1>2 DEF PInv, PlacesInv, SocketsTyped
<1>5. HandlersFit'
  BY <1>2, <1>3, <1>4 DEF PInv, PlacesInv, SocketsTyped, HandlersFit, InFlight, Tunnel
<1> QED
  BY <1>2, <1>3, <1>4, <1>5, EndedPlaces

(* The other steps of a call or of its sockets.                             *)
LEMMA OtherPlaces ==
  ASSUME PInv, NEW c \in Calls,
         \/ Refuse(c) \/ Hop(c) \/ Open(c)
         \/ ClientCloses(c) \/ ClientResets(c) \/ UpstreamCloses(c) \/ Deadline(c)
  PROVE  PlacesInv'
<1> USE DEF PInv, PlacesInv
<1>1. call \in [Calls -> Call] /\ call[c] \in Call
  BY DEF CallsLawful
<1> DEFINE Quiet == /\ call'[c].kind = call[c].kind
                    /\ (InFlight(c)' <=> InFlight(c))
                    /\ call'[c].upstream > 0 => call[c].upstream > 0
                    /\ \A d \in Calls \ {c} : call'[d] = call[d]
           Woken == handler' = handler \/ (handler[c] = "piping" /\ handler' = [handler EXCEPT ![c] = "woken"])
           Gone == client' = client \/ client' = [client EXCEPT ![c] = "gone"]
<1>2. active' = active
  BY DEF Refuse, Hop, Open, ClientCloses, ClientResets, UpstreamCloses, Deadline
<1>3. ASSUME Quiet, Woken, Gone, proxy' \in {proxy, "crashed"} PROVE PlacesInv'
  <2>1. SocketsTyped'
    BY <1>3 DEF SocketsTyped
  <2>2. HandlersFit'
    BY <1>3, <2>1 DEF SocketsTyped, HandlersFit, InFlight, Tunnel
  <2>3. Holders' = Holders
    BY <1>3 DEF SocketsTyped, Holders, Tunnel
  <2> QED
    BY <1>2, <2>1, <2>2, <2>3, SameHolders
<1>4. CASE Refuse(c)
  <2>1. /\ call' = call /\ handler[c] = "none" /\ handler' = [handler EXCEPT ![c] = "ended"]
        /\ client' = [client EXCEPT ![c] = "open"] /\ proxy' = proxy
    BY <1>4 DEF Refuse, HandlersFit
  <2>2. SocketsTyped'
    BY <2>1 DEF SocketsTyped
  <2>3. HandlersFit'
    BY <2>1 DEF SocketsTyped, HandlersFit, InFlight, Tunnel
  <2>4. Holders' = Holders
    BY <2>1 DEF SocketsTyped, Holders, Tunnel
  <2> QED
    BY <1>2, <2>2, <2>3, <2>4, SameHolders
<1>5. CASE Hop(c)
  <2>1. Quiet /\ UNCHANGED <<client, handler, proxy>>
    BY <1>5, CallSteps DEF Hop
  <2> QED
    BY <1>3, <2>1
<1>6. CASE Open(c)
  <2>1. /\ call'[c].kind = call[c].kind /\ ~InFlight(c)' /\ InFlight(c)
        /\ \A d \in Calls \ {c} : call'[d] = call[d]
        /\ handler' = [handler EXCEPT ![c] = "piping"] /\ UNCHANGED <<client, proxy>>
    BY <1>6, CallSteps DEF Open
  <2>2. handler[c] = "opening"
    BY <2>1 DEF HandlersFit
  <2>3. SocketsTyped'
    BY <2>1 DEF SocketsTyped
  <2>4. HandlersFit'
    BY <2>1, <2>2 DEF SocketsTyped, HandlersFit, InFlight, Tunnel
  <2>5. Holders' = Holders
    BY <2>1, <2>2 DEF SocketsTyped, Holders, Tunnel
  <2> QED
    BY <1>2, <2>3, <2>4, <2>5, SameHolders
<1>7. CASE ClientCloses(c)
  <2>1. Quiet /\ Woken /\ Gone /\ proxy' = proxy
    BY <1>7, <1>1 DEF ClientCloses, Wake, SocketsTyped, InFlight, Call
  <2> QED
    BY <1>3, <2>1
<1>8. CASE ClientResets(c)
  <2>1. Quiet /\ UNCHANGED <<client, handler>> /\ proxy' = "crashed"
    BY <1>8, <1>1 DEF ClientResets, InFlight, Call
  <2> QED
    BY <1>3, <2>1
<1>9. CASE UpstreamCloses(c)
  <2>1. call' = [call EXCEPT ![c].upstream = 0]
    BY <1>9 DEF UpstreamCloses
  <2>2. Quiet
    BY <1>1, <2>1 DEF InFlight, Call
  <2>3. Woken /\ Gone /\ proxy' = proxy
    BY <1>9 DEF UpstreamCloses, Wake, SocketsTyped
  <2> QED
    BY <1>3, <2>2, <2>3
<1>10. CASE Deadline(c)
  <2>1. \/ call' = [call EXCEPT ![c].aborted = TRUE]
        \/ call' = [call EXCEPT ![c].aborted = TRUE, ![c].upstream = 0]
    BY <1>10 DEF Deadline, AbortCall
  <2>2. Quiet
    BY <1>1, <2>1 DEF InFlight, Call
  <2>3. Woken /\ Gone /\ proxy' = proxy
    BY <1>10 DEF Deadline, Wake, SocketsTyped
  <2> QED
    BY <1>3, <2>2, <2>3
<1> QED
  BY <1>4, <1>5, <1>6, <1>7, <1>8, <1>9, <1>10

LEMMA ClosePlaces ==
  ASSUME PInv, Close \/ Closed \/ UNCHANGED vars
  PROVE  PlacesInv'
<1>1. call' = call /\ active' = active
  BY DEF Close, Closed, vars
<1>2. SocketsTyped' /\ HandlersFit'
  BY <1>1 DEF PInv, PlacesInv, SocketsTyped, HandlersFit, InFlight, Tunnel, Close, Closed, vars
<1>3. Holders' = Holders
  BY <1>1 DEF PInv, PlacesInv, SocketsTyped, Holders, Tunnel, Close, Closed, vars
<1> QED
  BY <1>1, <1>2, <1>3, SameHolders DEF PInv

LEMMA NextInv == PInv /\ [Next]_vars => PInv'
<1> SUFFICES ASSUME PInv, [Next]_vars PROVE PInv'
  OBVIOUS
<1>1. CallsLawful'
  BY NextLawful DEF PInv
<1>2. PlacesInv'
  BY RequestPlaces, ConnectPlaces, UnopenedPlaces, EndPlaces, OtherPlaces, ClosePlaces DEF Next
<1> QED
  BY <1>1, <1>2 DEF PInv

LEMMA ProxyInv == Spec => []PInv
BY InitInv, NextInv, PTL DEF Spec

-----------------------------------------------------------------------------
(* No redirect takes a call to a URL twice, out of https or past the URL    *)
(* policy, and no address that is not public is connected to (network.mjs   *)
(* 392-500), for every sequence of redirects and answers of DNS.            *)
THEOREM ProxyKeepsPolicy == Spec => []PolicyKept
<1>1. PInv => PolicyKept
  <2> SUFFICES ASSUME PInv, NEW c \in Calls
               PROVE  Lawful(call[c])
    BY DEF PolicyKept, RedirectsKept, OnlyPublicPeers, Lawful
  <2> QED
    BY DEF PInv, CallsLawful
<1> QED
  BY <1>1, ProxyInv, PTL

(* The count of open tunnels is that of the handlers that are not done,     *)
(* whichever side closed first, and bounds what is open or on its way       *)
(* (browser-security.mjs 225-320), for every number of places and calls.    *)
THEOREM ProxyCountsPlaces == Spec => []PlacesCounted
<1>1. ASSUME PInv PROVE PlacesCounted
  <2>1. TypeOK
    BY <1>1, HoldersCounted DEF PInv, CallsLawful, PlacesInv, SocketsTyped, Lawful, TypeOK
  <2>2. active = Cardinality(Holders) /\ active <= MaxTunnels
    BY <1>1 DEF PInv, PlacesInv
  <2>3. \A c \in Calls : Costs(c) => c \in Holders
    BY <1>1 DEF PInv, PlacesInv, HandlersFit, Costs, Holders
  <2> DEFINE Costly == {c \in Calls : Costs(c)}
  <2>4. Costly \subseteq Holders
    BY <2>3
  <2>5. Cardinality(Costly) <= Cardinality(Holders) /\ Cardinality(Costly) \in Nat
    BY <2>4, HoldersCounted, FS_Subset, FS_CardinalityType
  <2>6. Cardinality(Costly) <= MaxTunnels
    BY <2>2, <2>5, HoldersCounted, ProxyAssumption
  <2>7. \A c \in Calls : Costs(c) => handler[c] # "ended"
    BY <2>3 DEF Holders
  <2> QED
    BY <2>1, <2>2, <2>6, <2>7 DEF PlacesCounted, Holders
<1> QED
  BY <1>1, ProxyInv, PTL

=============================================================================
