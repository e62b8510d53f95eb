-------------------------- MODULE MCNativeAttempts --------------------------
(***************************************************************************)
(* An instance of NativeAttempts in which the delays a server asks for lie *)
(* below and above the cap, and a full run of retries does not fit in the  *)
(* wall limit.                                                             *)
(***************************************************************************)
EXTENDS NativeAttempts

MCRetryAfters == {2, 9}

=============================================================================
