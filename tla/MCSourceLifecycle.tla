-------------------------- MODULE MCSourceLifecycle --------------------------
(***************************************************************************)
(* Instance of SourceLifecycle for TLC: two connection and two reconnect   *)
(* thread identities, the old and the new one of any moment.               *)
(***************************************************************************)
EXTENDS SourceLifecycle

CONSTANTS c1, c2, t1, t2

MCConns  == {c1, c2}
MCRecons == {t1, t2}

\* What follows a late claim is left out.  A late claim is never forgotten: the
\* properties that hold until one hold trivially behind it, and the two of
\* liveness speak of behaviours without one.
NoLateClaim == ~late
==============================================================================
