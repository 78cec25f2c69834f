---------------------------- MODULE SerialChannel ----------------------------
(***************************************************************************)
(* What ZcHttpTransport promises its callers: "all traffic to one camera   *)
(* runs one request at a time (a per-camera FIFO queue)".  Requests are    *)
(* answered in the order in which they were submitted, each exactly once,  *)
(* until the channel is destroyed; a callback may submit more.             *)
(***************************************************************************)
EXTENDS Naturals, Sequences

CONSTANTS
  Reqs,   \* identities of requests, free again once answered
  None

VARIABLES
  pending,   \* submitted and not answered, in order
  answered,  \* the request whose callback ran last
  open       \* the channel exists

vars == <<pending, answered, open>>

Init ==
  /\ pending = <<>>
  /\ answered = None
  /\ open = TRUE

InSeq(r, s) == \E i \in 1..Len(s) : s[i] = r

\* What a call or a callback may submit: nothing or one or two new requests.
Bursts == {<<>>} \cup {<<r>> : r \in Reqs} \cup {<<p[1], p[2]>> : p \in Reqs \X Reqs}

Fresh(new) ==
  /\ \A i \in 1..Len(new) : ~InSeq(new[i], pending)
  /\ \A i, j \in 1..Len(new) : new[i] = new[j] => i = j

Submit(new) ==
  /\ open
  /\ Fresh(new)
  /\ pending' = pending \o new
  /\ UNCHANGED <<answered, open>>

Answer(new) ==
  /\ open
  /\ pending # <<>>
  /\ Fresh(new)
  /\ pending' = Tail(pending) \o new
  /\ answered' = Head(pending)
  /\ UNCHANGED open

Close ==
  /\ open
  /\ open' = FALSE
  /\ pending' = <<>>
  /\ UNCHANGED answered

Next == Close \/ \E new \in Bursts : Submit(new) \/ Answer(new)

Spec == Init /\ [][Next]_vars

\* The camera answers, or the transfer timeout does.
FairSpec == Spec /\ WF_vars(\E new \in Bursts : Answer(new))
==============================================================================
