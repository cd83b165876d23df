-------------------------- MODULE MCRuntimeCallbacks --------------------------
(* Two callback ids, each scheduled as a timeout or as a periodic timer. *)
EXTENDS RuntimeCallbacks
=============================================================================
