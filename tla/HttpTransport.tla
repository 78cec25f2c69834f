---------------------------- MODULE HttpTransport ----------------------------
(***************************************************************************)
(* ZcHttpTransport (zc_http_transport.cpp): the request queue and the      *)
(* Digest authentication of one camera, with ZcCameraClient::connect       *)
(* (zc_camera_client.cpp), which probes the origin in a nested event loop  *)
(* while the panels of the dock already use the client.                    *)
(*                                                                         *)
(* One event of the Qt event loop is one step.  The methods are operators  *)
(* from the state h of the transport to its next state, composed in the    *)
(* order of the calls.                                                     *)
(***************************************************************************)
EXTENDS Integers, Sequences, FiniteSets

CONSTANTS
  Reqs,      \* identities of requests, free again once answered
  None,      \* no request
  MaxNonce,  \* how many nonces the camera issues
  MaxNc      \* requests are only submitted below this nonce count

ASSUME NoneIsNew == None \notin Reqs

ASSUME BoundsAreNat == MaxNonce \in Nat \ {0} /\ MaxNc \in Nat

VARIABLES
  h,     \* the transport and the client; upgrade: the notifier was given an
         \* Authorization; seen: the last count sent with each nonce, and
         \* replayed: whether one was ever sent that was not higher
  nonce  \* the camera's current nonce

Nonces == 1..MaxNonce

\* An Authorization header, up to the request it signs.
NoAuth == [nonce |-> 0, nc |-> 0]

\* The reply on its way: the request, the retries it has left, the header it
\* was sent with, and whether its URL had an origin.
NoWire == [req |-> None, retries |-> 0, auth |-> NoAuth, origin |-> FALSE]

Init ==
  /\ h = [queue |-> <<>>, busy |-> FALSE, wire |-> NoWire, answered |-> None,
          phase |-> "new", probe |-> 0, origin |-> FALSE,
          user |-> FALSE, authRequired |-> FALSE,
          nonce |-> 0, nc |-> 0, header |-> NoAuth, session |-> FALSE,
          upgrade |-> FALSE,
          seen |-> [n \in Nonces |-> 0], replayed |-> FALSE]
  /\ nonce = 1

Waiting == {h.queue[i] : i \in 1..Len(h.queue)}

FreeReqs == Reqs \ (Waiting \cup {h.wire.req})

------------------------------------------------------------------------------
(* ZcHttpTransport.                                                        *)

\* buildAuthorization(), for a transport that has a challenge and a user.
BuildAuthorization(s) ==
  IF s.nonce # 0 /\ s.user
    THEN [s EXCEPT !.nc = @ + 1,
                   !.header = [nonce |-> s.nonce, nc |-> s.nc + 1]]
    ELSE s

\* The camera sees the header of a request whose URL has an origin.
Receive(s) ==
  IF s.header # NoAuth /\ s.origin
    THEN [s EXCEPT !.seen[s.header.nonce] = s.header.nc,
                   !.replayed = @ \/ s.header.nc <= s.seen[s.header.nonce]]
    ELSE s

\* Every request is signed anew.
Send(s, r, retries) ==
  LET a == BuildAuthorization(s)
  IN  [Receive(a) EXCEPT !.wire = [req |-> r, retries |-> retries,
                                   auth |-> a.header, origin |-> a.origin]]

Pump(s) ==
  IF s.busy \/ s.queue = <<>>
    THEN s
    ELSE Send([s EXCEPT !.busy = TRUE, !.queue = Tail(@)], Head(s.queue), 1)

\* Mutant: a request is sent at once.
EnqueueUnqueued(s, new) ==
  IF new = <<>> THEN s ELSE Send([s EXCEPT !.busy = TRUE], Head(new), 1)

\* enqueue() of the requests of one caller: the first is sent if none is on
\* its way, the others wait.
Enqueue(s, new) == Pump([s EXCEPT !.queue = @ \o new])

\* Mutant: every challenge restarts the nonce count.
ParseChallengeResets(s, n) ==
  IF n # 0 THEN [s EXCEPT !.nonce = n, !.nc = 0, !.header = NoAuth] ELSE s

\* n is 0 for a challenge that is missing or not Digest.  Only a new nonce
\* restarts the count and drops the cached header.
ParseChallenge(s, n) ==
  IF n # 0 /\ n # s.nonce
    THEN [s EXCEPT !.nonce = n, !.nc = 0, !.header = NoAuth]
    ELSE s

SetCredentials(s, user) ==
  [s EXCEPT !.user = user, !.header = NoAuth, !.nonce = 0, !.nc = 0]

CaptureSession(s, reply) == [s EXCEPT !.session = @ \/ reply.session]

------------------------------------------------------------------------------
(* The camera.                                                             *)

\* "ok" is any status but 401 (and, for a probe, 403) that is not "failed",
\* which is a transport error, a timeout or, for a probe, a status from 500.
Replies == [code : {"ok", "unauthorized", "failed"}, nonce : {0, nonce},
            session : BOOLEAN]

Possible(reply) == reply.nonce # 0 => reply.code = "unauthorized"

NewNonce ==
  /\ nonce < MaxNonce
  /\ nonce' = nonce + 1
  /\ UNCHANGED h

------------------------------------------------------------------------------
(* Calls and events.                                                       *)

\* Requests of the panels, at most n at a time.
New(n) ==
  IF h.nc >= MaxNc THEN {<<>>}
  ELSE {s \in {<<>>} \cup {<<r>> : r \in FreeReqs}
              \cup {<<p[1], p[2]>> : p \in FreeReqs \X FreeReqs} :
          /\ Len(s) <= n
          /\ Len(s) = 2 => s[1] # s[2]}

\* get(), getQuery() and post() of a panel.  While the origin is probed two
\* identities are kept for connect().
Get(r) ==
  /\ h.phase \in {"probing", "connected"}
  /\ h.nc < MaxNc
  /\ h.phase = "probing" => Cardinality(FreeReqs) > 2
  /\ r \in FreeReqs
  /\ h' = Enqueue(h, <<r>>)
  /\ UNCHANGED nonce

\* connect() of a new client, up to the first probe.
Connect(user) ==
  /\ h.phase = "new"
  /\ h' = [SetCredentials(h, user) EXCEPT !.phase = "probing", !.probe = 1]
  /\ UNCHANGED nonce

\* The dock deletes the client, and with it the transport: no callback runs
\* any more.
Deleted(s) ==
  [s EXCEPT !.phase = "gone", !.queue = <<>>, !.busy = FALSE, !.wire = NoWire]

\* The answer to a probe that was "failed": on to the next of the three
\* candidates, or connect() fails.
ProbeFailed(reply) ==
  /\ h.phase = "probing"
  /\ Possible(reply) /\ reply.code = "failed"
  /\ LET s == CaptureSession(h, reply)
     IN  h' = IF s.probe < 3 THEN [s EXCEPT !.probe = @ + 1] ELSE Deleted(s)
  /\ UNCHANGED nonce

\* What a probe's answer leaves in the transport.
Negotiated(reply) ==
  LET c == IF reply.code = "unauthorized"
             THEN [ParseChallenge(h, reply.nonce) EXCEPT !.authRequired = TRUE]
             ELSE h
  IN  [CaptureSession(c, reply) EXCEPT !.origin = TRUE, !.probe = 0]

\* The camera wants a user and connect() was given none.
ConnectRefused(reply) ==
  /\ h.phase = "probing"
  /\ Possible(reply) /\ reply.code # "failed"
  /\ Negotiated(reply).authRequired /\ ~h.user
  /\ h' = Deleted(Negotiated(reply))
  /\ UNCHANGED nonce

\* The rest of connect(): start the notifier with the headers cached so far,
\* then refreshStatus() and refreshCameraInfo().
Connected(reply, new) ==
  /\ h.phase = "probing"
  /\ Possible(reply) /\ reply.code # "failed"
  /\ ~(Negotiated(reply).authRequired /\ ~h.user)
  /\ Len(new) = 2
  /\ LET s == Negotiated(reply)
     IN  h' = Enqueue([s EXCEPT !.phase = "connected",
                                !.upgrade = s.header # NoAuth], new)
  /\ UNCHANGED nonce

\* Another camera is opened: the dock deletes this client first.
Leave ==
  /\ h.phase = "connected"
  /\ h' = Deleted(h)
  /\ UNCHANGED nonce

\* A 401 with a challenge is retried once.
Retries(reply) ==
  /\ reply.code = "unauthorized"
  /\ h.wire.retries > 0
  /\ h.user
  /\ reply.nonce # 0

\* Mutant: the request is sent again before the challenge is parsed.
RetryUnparsed(reply) ==
  /\ h.wire # NoWire
  /\ Possible(reply) /\ Retries(reply)
  /\ h.wire.origin
  /\ h' = ParseChallenge(Send(CaptureSession(h, reply), h.wire.req,
                              h.wire.retries - 1), reply.nonce)
  /\ UNCHANGED nonce

\* onFinished() of a reply that is a fresh challenge.
Retry(reply) ==
  /\ h.wire # NoWire
  /\ Possible(reply) /\ Retries(reply)
  /\ h.wire.origin
  /\ h' = Send(ParseChallenge(CaptureSession(h, reply), reply.nonce), h.wire.req,
               h.wire.retries - 1)
  /\ UNCHANGED nonce

\* Mutant: the queue only moves when the callback submits something.
FinishWithoutPump(reply, new) ==
  /\ h.wire # NoWire
  /\ Possible(reply) /\ ~Retries(reply)
  /\ h.wire.origin \/ (reply.code = "failed" /\ ~reply.session)
  /\ LET s == [CaptureSession(h, reply) EXCEPT !.busy = FALSE, !.wire = NoWire,
                                               !.answered = h.wire.req]
     IN  h' = IF new = <<>> THEN s ELSE Enqueue(s, new)
  /\ UNCHANGED nonce

\* onFinished() of any other: the callback, which may submit requests, runs
\* with busy_ already cleared.  A URL without an origin fails inside Qt.
Finish(reply, new) ==
  /\ h.wire # NoWire
  /\ Possible(reply) /\ ~Retries(reply)
  /\ h.wire.origin \/ (reply.code = "failed" /\ ~reply.session)
  /\ LET s == [CaptureSession(h, reply) EXCEPT !.busy = FALSE, !.wire = NoWire,
                                               !.answered = h.wire.req]
     IN  h' = Pump(Enqueue(s, new))
  /\ UNCHANGED nonce

------------------------------------------------------------------------------
Answer ==
  \E reply \in Replies : Retry(reply) \/ \E new \in New(2) : Finish(reply, new)

Probe ==
  \E reply \in Replies :
    \/ ProbeFailed(reply) \/ ConnectRefused(reply)
    \/ \E p \in FreeReqs \X FreeReqs : p[1] # p[2] /\ Connected(reply, p)

\* Nothing is left to do once the client is deleted.
Gone ==
  /\ h.phase = "gone"
  /\ UNCHANGED <<h, nonce>>

Next ==
  \/ NewNonce \/ Probe \/ Answer \/ Leave \/ Gone
  \/ \E r \in Reqs : Get(r)
  \/ \E user \in BOOLEAN : Connect(user)

vars == <<h, nonce>>

Spec == Init /\ [][Next]_vars

\* Every request has a transfer timeout.
FairSpec == Spec /\ WF_vars(Answer)

------------------------------------------------------------------------------
(* Properties.                                                             *)

Headers == {NoAuth} \cup [nonce : Nonces, nc : Nat]

Wires == {NoWire} \cup [req : Reqs, retries : 0..1, auth : Headers, origin : BOOLEAN]

State ==
  [queue : Seq(Reqs), busy : BOOLEAN, wire : Wires, answered : Reqs \cup {None},
   phase : {"new", "probing", "connected", "gone"}, probe : 0..3,
   origin : BOOLEAN, user : BOOLEAN, authRequired : BOOLEAN,
   nonce : 0..MaxNonce, nc : Nat, header : Headers, session : BOOLEAN,
   upgrade : BOOLEAN, seen : [Nonces -> Nat], replayed : BOOLEAN]

\* Every field stays in its range.
TypeOK == h \in State /\ nonce \in Nonces

\* The queue never sleeps on work: a request waits only behind one whose reply
\* will call pump(), and busy_ is set exactly while there is such a reply.
NotStuck ==
  /\ h.queue # <<>> => h.busy
  /\ h.busy <=> h.wire # NoWire

\* "RFC 2617 requires nc to increase per nonce": no request repeats a count
\* that an earlier one used with the same nonce, whatever challenges arrive
\* in between and however often they repeat a nonce.
NoReplay == ~h.replayed

\* The one retry that a challenge earns is signed for that challenge.
RetrySigned ==
  h.wire # NoWire /\ h.wire.retries = 0 =>
    h.wire.auth # NoAuth /\ h.wire.auth.nonce = h.nonce

\* The request on its way and those behind it.
Pending(s) == (IF s.wire = NoWire THEN <<>> ELSE <<s.wire.req>>) \o s.queue

\* "a per-camera FIFO queue": the transport answers in order, once, and every
\* request in the end.
Channel == INSTANCE SerialChannel WITH
  pending <- Pending(h),
  answered <- h.answered,
  open <- h.phase # "gone"

Serial == Channel!FairSpec

\* "One-shot GET/POST. Enqueued behind any in-flight request": a request that
\* is submitted while the origin is probed waits until it is known.
SentToOrigin == h.wire # NoWire => h.wire.origin

\* "carrying the Digest Authorization [...] from the transport": the upgrade
\* of a camera that wants authentication is authorized if there is a user.
UpgradeAuthorized ==
  h.phase = "connected" /\ h.authRequired /\ h.user => h.upgrade
==============================================================================
