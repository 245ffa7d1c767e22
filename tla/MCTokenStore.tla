---------------------------- MODULE MCTokenStore ----------------------------
EXTENDS TokenStoreProps

(* In seconds, hence longer than any behaviour of MaxTime ticks. *)
MCRefreshValidity == MaxTime + 1

=============================================================================
