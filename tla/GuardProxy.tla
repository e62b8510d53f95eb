----------------------------- MODULE GuardProxy -----------------------------
(***************************************************************************)
(* The guard proxy of src/src/browser-security.mjs, in front of the        *)
(* gateway: requests are executed and their bodies piped back, CONNECT     *)
(* tunnels are opened and piped both ways, at most MaxTunnels at a time.   *)
(* Each has one deadline; a client may close, an upstream may close, and   *)
(* the proxy itself may be closed, at any moment of any of them.           *)
(*                                                                         *)
(* A handler is woken by the first 'close' that it sees: one that happens  *)
(* before it waits is not seen.                                            *)
(***************************************************************************)
EXTENDS Egress

CONSTANTS MaxTunnels, MaxRedirects

VARIABLES
  client,     (* the socket a call came by                                  *)
  handler,    (* the handler of that request or CONNECT                     *)
  active,     (* activeTunnels                                              *)
  proxy

vars == <<call, client, handler, active, proxy>>

ASSUME ProxyAssumption == MaxTunnels \in Nat \ {0} /\ MaxRedirects \in Nat

Init ==
  /\ EgressInit
  /\ client = [c \in Calls |-> "none"]
  /\ handler = [c \in Calls |-> "none"]
  /\ active = 0
  /\ proxy = "open"

Up == proxy # "crashed"

Tunnel(c) == call[c].kind = "tunnel"

(* A handler that waits sees the close of one of its sockets.               *)
Wake(c) == handler' = [handler EXCEPT ![c] = IF @ = "piping" THEN "woken" ELSE @]

-----------------------------------------------------------------------------
(* A request with the token and a plain GET or HEAD; others are answered    *)
(* at once.                                                                 *)
Request(c, u) ==
  /\ proxy = "open" /\ client[c] = "none"
  /\ Begin(c, "request", u, MaxRedirects)
  /\ client' = [client EXCEPT ![c] = "open"]
  /\ handler' = [handler EXCEPT ![c] = "opening"]
  /\ UNCHANGED <<active, proxy>>

(* CONNECT with the token, when there is a place.                           *)
Connect(c, u) ==
  /\ proxy = "open" /\ client[c] = "none" /\ u \in Secure
  /\ active < MaxTunnels
  /\ Begin(c, "tunnel", u, 0)
  /\ client' = [client EXCEPT ![c] = "open"]
  /\ handler' = [handler EXCEPT ![c] = "opening"]
  /\ active' = active + 1
  /\ UNCHANGED proxy

(* CONNECT without a place: 400.                                            *)
Refuse(c) ==
  /\ proxy = "open" /\ client[c] = "none"
  /\ active >= MaxTunnels
  /\ client' = [client EXCEPT ![c] = "open"]
  /\ handler' = [handler EXCEPT ![c] = "ended"]
  /\ UNCHANGED <<call, active, proxy>>

(* The next hop of a redirect.                                              *)
Hop(c) ==
  /\ Up
  /\ Authorize(c) \/ Redirect(c)
  /\ UNCHANGED <<client, handler, active, proxy>>

(* The gateway answers: both sides are piped, and the handler waits.        *)
Open(c) ==
  /\ Up
  /\ Connected(c)
  /\ handler' = [handler EXCEPT ![c] = "piping"]
  /\ UNCHANGED <<client, active, proxy>>

(* Faulty: the place of a tunnel that never opened is not given back.       *)
UnopenedKept(c) ==
  /\ Up
  /\ Fails(c)
  /\ handler' = [handler EXCEPT ![c] = "ended"]
  /\ UNCHANGED <<client, active, proxy>>

(* The gateway throws: 502.                                                 *)
Unopened(c) ==
  /\ Up
  /\ Fails(c)
  /\ handler' = [handler EXCEPT ![c] = "ended"]
  /\ active' = IF Tunnel(c) THEN active - 1 ELSE active
  /\ UNCHANGED <<client, proxy>>

(* A handler that was woken: a tunnel destroys both its sides and gives its *)
(* place back; a request only clears its timer.                             *)
End(c) ==
  /\ Up /\ handler[c] = "woken"
  /\ handler' = [handler EXCEPT ![c] = "ended"]
  /\ IF Tunnel(c)
     THEN /\ client' = [client EXCEPT ![c] = "gone"]
          /\ call' = [call EXCEPT ![c].upstream = 0]
          /\ active' = active - 1
     ELSE UNCHANGED <<call, client, active>>
  /\ UNCHANGED proxy

-----------------------------------------------------------------------------
(* The client goes away.                                                    *)
ClientCloses(c) ==
  /\ Up /\ client[c] = "open"
  /\ client' = [client EXCEPT ![c] = "gone"]
  /\ Wake(c)
  /\ UNCHANGED <<call, active, proxy>>

(* A CONNECT client has no 'error' listener until its tunnel is open: one   *)
(* that resets before ends the node process.                                *)
ClientResets(c) ==
  /\ Up /\ client[c] = "open" /\ Tunnel(c) /\ handler[c] = "opening"
  /\ proxy' = "crashed"
  /\ UNCHANGED <<call, client, handler, active>>

(* The upstream closes, or its body ends.  The end of a body wakes its      *)
(* handler only if the response can still be finished.                      *)
UpstreamCloses(c) ==
  /\ Up /\ handler[c] = "piping" /\ call[c].upstream > 0
  /\ call' = [call EXCEPT ![c].upstream = 0]
  /\ IF Tunnel(c) \/ client[c] = "open"
     THEN Wake(c)
     ELSE UNCHANGED handler
  /\ UNCHANGED <<client, active, proxy>>

(* Faulty: the timer of a tunnel is cleared when it opens.                  *)
DeadlineOfOpening(c) ==
  /\ Up /\ ~call[c].aborted
  /\ handler[c] = "opening" /\ AbortCall(c)
  /\ UNCHANGED <<client, handler, active, proxy>>

(* The deadline, or too many bytes: the gateway gives up, or both sides     *)
(* are destroyed.                                                           *)
Deadline(c) ==
  /\ Up /\ ~call[c].aborted
  /\ \/ /\ handler[c] = "opening"
        /\ AbortCall(c)
        /\ UNCHANGED <<client, handler>>
     \/ /\ handler[c] = "piping"
        /\ call' = [call EXCEPT ![c].aborted = TRUE, ![c].upstream = 0]
        /\ client' = [client EXCEPT ![c] = "gone"]
        /\ IF Tunnel(c) \/ client[c] = "open"
           THEN Wake(c)
           ELSE UNCHANGED handler
  /\ UNCHANGED <<active, proxy>>

(* close: every client's socket is destroyed, and no new one is accepted.   *)
Close ==
  /\ proxy = "open"
  /\ proxy' = "closing"
  /\ client' = [c \in Calls |-> IF client[c] = "open" THEN "gone" ELSE client[c]]
  /\ handler' = [c \in Calls |-> IF client[c] = "open" /\ handler[c] = "piping"
                                 THEN "woken" ELSE handler[c]]
  /\ UNCHANGED <<call, active>>

Closed ==
  /\ proxy = "closing" /\ \A c \in Calls : client[c] # "open"
  /\ proxy' = "closed"
  /\ UNCHANGED <<call, client, handler, active>>

Next ==
  \/ \E c \in Calls :
       \/ \E u \in Urls : Request(c, u) \/ Connect(c, u)
       \/ Refuse(c) \/ Hop(c) \/ Open(c) \/ Unopened(c) \/ End(c)
       \/ ClientCloses(c) \/ ClientResets(c) \/ UpstreamCloses(c) \/ Deadline(c)
  \/ Close \/ Closed

Spec == Init /\ [][Next]_vars

(* Woken handlers go on, timers fire, and an aborted call of the gateway rejects. *)
(* Clients and upstreams owe nothing.                                       *)
FairSpec ==
  /\ Spec
  /\ \A c \in Calls :
       /\ WF_vars(End(c)) /\ WF_vars(Deadline(c))
       /\ WF_vars(call[c].aborted /\ Unopened(c))

-----------------------------------------------------------------------------
(* Properties.                                                              *)

TypeOK ==
  /\ call \in [Calls -> Call]
  /\ \A c \in Calls : call[c].redirects <= MaxRedirects /\ call[c].upstream <= 1
  /\ client \in [Calls -> {"none", "open", "gone"}]
  /\ handler \in [Calls -> {"none", "opening", "piping", "woken", "ended"}]
  /\ active \in Nat
  /\ proxy \in {"open", "closing", "closed", "crashed"}

(* What a tunnel costs: a connection being made or open.                    *)
Costs(c) == Tunnel(c) /\ (InFlight(c) \/ call[c].upstream > 0)

(* Every way a tunnel can end gives its place back once: the count is that  *)
(* of the handlers that are not done, no connection is open or on its way   *)
(* without a place, and so MAX_TUNNELS bounds them too, and no side of a    *)
(* tunnel outlives the other.                                               *)
PlacesCounted ==
  /\ TypeOK
  /\ active = Cardinality({c \in Calls : Tunnel(c) /\ handler[c] \in {"opening", "piping", "woken"}})
  /\ Cardinality({c \in Calls : Costs(c)}) <= MaxTunnels
  /\ \A c \in Calls : Costs(c) => handler[c] # "ended"

(* Every place comes back, although a client or an upstream may stay silent *)
(* or go away unseen, and although the proxy may be closed meanwhile.       *)
EveryPlaceComesBack ==
  \A c \in Calls :
    (Tunnel(c) /\ handler[c] = "opening") ~> (handler[c] = "ended" \/ ~Up)

=============================================================================
