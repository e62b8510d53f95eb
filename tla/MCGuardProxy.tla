---------------------------- MODULE MCGuardProxy ----------------------------
(***************************************************************************)
(* A small instance of GuardProxy: two calls and one place for a tunnel; a *)
(* plain URL, two secure ones and one that the policy refuses; a public    *)
(* address and a private one.                                              *)
(***************************************************************************)
EXTENDS GuardProxy

CONSTANTS c1, c2, plain, secure, other, refused, outside, inside

MCCalls == {c1, c2}
MCUrls == {plain, secure, other, refused}
MCAllowed == {plain, secure, other}
MCSecure == {secure, other}
MCAddresses == {outside, inside}
MCPublic == {outside}

=============================================================================
