---------------------------- MODULE MCSubscriptions ---------------------------
(* One stream of each kind.                                                  *)
EXTENDS Subscriptions

\* A loop that has stopped never runs again, and the writer is gone with it: no
\* property says anything of what the application does after that.
UntilStopped == loop # "stopped"
=============================================================================
