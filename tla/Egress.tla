------------------------------- MODULE Egress -------------------------------
(***************************************************************************)
(* The egress gateway of src/src/network.mjs over its two pinned ports:    *)
(* execute follows redirects hop by hop, openAuthorizedTunnel makes one    *)
(* connection.  Each hop parses its URL, resolves the host anew, refuses   *)
(* it unless every address is public, and connects to the one it selected; *)
(* whoever answers must have that address.                                 *)
(*                                                                         *)
(* DNS answers, connections and redirects are the environment's, and may   *)
(* change from one hop to the next.  A call has no timer of its own but    *)
(* the one of each connection; its caller's signal is what ends it.        *)
(***************************************************************************)
EXTENDS Naturals, Sequences, FiniteSets

CONSTANTS
  Calls,                (* calls of the gateway, each used once              *)
  Urls, Allowed,        (* those that parsePublicUrl accepts                 *)
  Secure,               (* those of https                                    *)
  Addresses, Public,    (* those that classifyIpAddress calls public         *)
  Nobody                (* no address                                        *)

VARIABLE call

ASSUME EgressAssumption ==
  /\ Allowed \subseteq Urls /\ Secure \subseteq Urls
  /\ Public \subseteq Addresses /\ Nobody \notin Addresses
  /\ IsFiniteSet(Calls) /\ Urls # {}

Kinds == {"request", "tunnel"}

(* hops are the URLs this call has asked for, resolved and selected what    *)
(* the last was allowed to use, peer whoever answered it; upstream counts   *)
(* the bodies or sockets that are open.                                     *)
Call ==
  [kind: Kinds, pc: {"idle", "resolve", "connect", "done", "failed"},
   url: Urls, redirects: Nat, hops: Seq(Urls), resolved: SUBSET Addresses,
   selected: Addresses \cup {Nobody}, peer: Addresses \cup {Nobody}, upstream: Nat,
   aborted: BOOLEAN]

Idle ==
  [kind |-> "request", pc |-> "idle", url |-> CHOOSE u \in Urls : TRUE, redirects |-> 0,
   hops |-> <<>>, resolved |-> {}, selected |-> Nobody, peer |-> Nobody, upstream |-> 0,
   aborted |-> FALSE]

EgressInit == call = [c \in Calls |-> Idle]

InFlight(c) == call[c].pc \in {"resolve", "connect"}

-----------------------------------------------------------------------------
(* execute or openAuthorizedTunnel is called: normalizeIntent accepts it.   *)
Begin(c, kind, u, redirects) ==
  /\ call[c].pc = "idle"
  /\ call' = [call EXCEPT ![c] = [Idle EXCEPT
                !.kind = kind, !.pc = "resolve", !.url = u, !.redirects = redirects]]

(* A policy error, a lookup or a connection that fails, a permit or a timer *)
(* that expires, or the caller's signal.  What was open is destroyed.       *)
Fails(c) ==
  /\ InFlight(c)
  /\ call' = [call EXCEPT ![c].pc = "failed", ![c].upstream = 0]

(* Faulty: one public address is enough.                                    *)
AuthorizeSome(c) ==
  /\ call[c].pc = "resolve" /\ ~call[c].aborted
  /\ call[c].url \in Allowed
  /\ \E records \in SUBSET Addresses : \E address \in records :
       /\ records \cap Public # {}
       /\ call' = [call EXCEPT ![c] = [@ EXCEPT
                     !.pc = "connect", !.hops = Append(call[c].hops, call[c].url),
                     !.resolved = records, !.selected = address]]

(* authorizeIntent and the start of requestPinned or connectPinned: the     *)
(* permit names one of the addresses, all of which are public.              *)
Authorize(c) ==
  /\ call[c].pc = "resolve" /\ ~call[c].aborted
  /\ call[c].url \in Allowed
  /\ \E records \in SUBSET Public : \E address \in records :
       call' = [call EXCEPT ![c] = [@ EXCEPT
                  !.pc = "connect", !.hops = Append(call[c].hops, call[c].url),
                  !.resolved = records, !.selected = address]]

(* peerMatches: the connection is to the selected address.                  *)
Matches(c, peer) == peer = call[c].selected

(* A connection is made, or a response that is no redirect arrives.         *)
Connected(c) ==
  /\ call[c].pc = "connect" /\ ~call[c].aborted
  /\ \E peer \in Addresses :
       /\ Matches(c, peer)
       /\ call' = [call EXCEPT ![c].pc = "done", ![c].peer = peer, ![c].upstream = 1]

(* The redirect loop of execute: the body of the redirect is closed, then   *)
(* the budget, the target, a downgrade and the URLs visited are checked.    *)
Redirect(c) ==
  /\ call[c].pc = "connect" /\ call[c].kind = "request" /\ ~call[c].aborted
  /\ call[c].redirects > 0
  /\ \E next \in Allowed, peer \in Addresses :
       /\ Matches(c, peer)
       /\ call[c].url \in Secure => next \in Secure
       /\ \A i \in DOMAIN call[c].hops : call[c].hops[i] # next
       /\ call' = [call EXCEPT ![c] = [@ EXCEPT
                     !.pc = "resolve", !.url = next, !.peer = peer,
                      !.redirects = call[c].redirects - 1]]

(* The caller's signal is heard by the lookup and by both ports.            *)
AbortCall(c) == call' = [call EXCEPT ![c].aborted = TRUE]

-----------------------------------------------------------------------------
(* Properties.                                                              *)

(* network.mjs:392-500.  With whatever redirects, a call never asks for a   *)
(* URL twice, never leaves https once it is there, and asks for nothing     *)
(* that the URL policy refuses.                                             *)
RedirectsKept ==
  \A c \in Calls :
    LET hops == call[c].hops IN
    /\ \A i, j \in DOMAIN hops : hops[i] = hops[j] => i = j
    /\ \A i, j \in DOMAIN hops : i < j /\ hops[i] \in Secure => hops[j] \in Secure
    /\ \A i \in DOMAIN hops : hops[i] \in Allowed

(* No address that is not public is ever connected to, even when another    *)
(* name of the same host is, when a redirect changes host, or when DNS      *)
(* answers differently from one hop to the next; whoever answered a call is *)
(* the address it selected.                                                 *)
OnlyPublicPeers ==
  \A c \in Calls :
    /\ call[c].pc = "connect" => call[c].selected \in call[c].resolved \cap Public
    /\ call[c].peer # Nobody => call[c].peer \in Public

(* What the gateway promises for every request, hop and tunnel that goes    *)
(* through it: its redirects and its peers stay within the policy.          *)
PolicyKept == RedirectsKept /\ OnlyPublicPeers

=============================================================================
