------------------------ MODULE CameraClient_proofs ------------------------
(***************************************************************************)
(* Theorems about the two connections of a camera client: the transport,   *)
(* for any set of requests and any bounds, and then the notification       *)
(* socket, for a TCP and for a TLS camera.                                 *)
(***************************************************************************)
EXTENDS HttpTransport, WsNotifier, TLAPS

------------------------------------------------------------------------------
(* What the methods do to the fields that the queue is about.              *)

LEMMA SendState ==
  ASSUME NEW s \in State, NEW r \in Reqs, NEW k \in 0..1
  PROVE  /\ Send(s, r, k) \in State
         /\ Send(s, r, k).wire.req = r
         /\ Send(s, r, k).wire # NoWire
         /\ Send(s, r, k).queue = s.queue
         /\ Send(s, r, k).busy = s.busy
         /\ Send(s, r, k).phase = s.phase
         /\ Send(s, r, k).answered = s.answered
<1> DEFINE a == BuildAuthorization(s)
           b == Receive(a)
<1> USE BoundsAreNat
<1>1. /\ a \in State
      /\ a.queue = s.queue /\ a.busy = s.busy /\ a.phase = s.phase
      /\ a.answered = s.answered
  <2>1. CASE s.nonce # 0 /\ s.user
    <3> DEFINE hd == [nonce |-> s.nonce, nc |-> s.nc + 1]
               n == s.nc + 1
    <3>1. hd \in Headers /\ n \in Nat
      BY <2>1 DEF State, Headers, Nonces
    <3>2. a = [s EXCEPT !.nc = n, !.header = hd]
      BY <2>1 DEF BuildAuthorization
    <3> HIDE DEF hd, n, a
    <3> QED
      BY <3>1, <3>2 DEF State
  <2>2. CASE ~(s.nonce # 0 /\ s.user)
    BY <2>2 DEF BuildAuthorization
  <2> QED
    BY <2>1, <2>2
<1>2. /\ b \in State
      /\ b.queue = a.queue /\ b.busy = a.busy /\ b.phase = a.phase
      /\ b.answered = a.answered
  <2>1. a.header # NoAuth => a.header.nonce \in Nonces /\ a.header.nc \in Nat
    BY <1>1 DEF State, Headers
  <2>2. CASE a.header # NoAuth /\ a.origin
    <3> DEFINE sn == [a.seen EXCEPT ![a.header.nonce] = a.header.nc]
               rp == a.replayed \/ a.header.nc <= a.seen[a.header.nonce]
    <3>1. sn \in [Nonces -> Nat] /\ rp \in BOOLEAN
      BY <1>1, <2>1, <2>2 DEF State
    <3>2. b = [a EXCEPT !.seen = sn, !.replayed = rp]
      BY <2>2 DEF Receive
    <3> HIDE DEF sn, rp, a, b
    <3> QED
      BY <1>1, <3>1, <3>2 DEF State
  <2>3. CASE ~(a.header # NoAuth /\ a.origin)
    BY <1>1, <2>3 DEF Receive
  <2> QED
    BY <2>2, <2>3
<1>3. [req |-> r, retries |-> k, auth |-> a.header, origin |-> a.origin] \in Wires
  BY <1>1 DEF Wires, State
<1>4. [req |-> r, retries |-> k, auth |-> a.header, origin |-> a.origin] # NoWire
  BY NoneIsNew DEF NoWire
<1> HIDE DEF a, b
<1> QED
  BY <1>1, <1>2, <1>3, <1>4 DEF Send, State, a, b

LEMMA PumpState ==
  ASSUME NEW s \in State, s.busy <=> s.wire # NoWire
  PROVE  /\ Pump(s) \in State
         /\ Pump(s).busy <=> Pump(s).wire # NoWire
         /\ Pump(s).queue # <<>> => Pump(s).busy
         /\ Pump(s).phase = s.phase
         /\ Pump(s).answered = s.answered
         /\ Pending(Pump(s)) = Pending(s)
<1>1. CASE s.busy \/ s.queue = <<>>
  BY <1>1 DEF Pump, State
<1>2. CASE ~s.busy /\ s.queue # <<>>
  <2> DEFINE t == [s EXCEPT !.busy = TRUE, !.queue = Tail(@)]
             r == Head(s.queue)
  <2>1. t \in State /\ r \in Reqs /\ s.queue \in Seq(Reqs)
    <3>1. s.queue \in Seq(Reqs)
      BY DEF State
    <3> DEFINE q == Tail(s.queue)
    <3>2. q \in Seq(Reqs) /\ r \in Reqs
      BY <1>2, <3>1
    <3> HIDE DEF q
    <3>3. [s EXCEPT !.busy = TRUE, !.queue = q] \in State
      BY <3>2 DEF State
    <3> QED
      BY <3>1, <3>2, <3>3 DEF q
  <2>2. t.busy /\ t.queue = Tail(s.queue) /\ t.phase = s.phase /\ t.answered = s.answered
    BY DEF State
  <2>3. Pump(s) = Send(t, r, 1)
    BY <1>2 DEF Pump
  <2>4. <<r>> \o Tail(s.queue) = s.queue
    BY <1>2, <2>1
  <2>5. <<>> \o s.queue = s.queue
    BY <2>1
  <2> HIDE DEF t, r
  <2>6. /\ Send(t, r, 1) \in State
        /\ Send(t, r, 1).wire.req = r
        /\ Send(t, r, 1).wire # NoWire
        /\ Send(t, r, 1).queue = Tail(s.queue)
        /\ Send(t, r, 1).busy
        /\ Send(t, r, 1).phase = s.phase
        /\ Send(t, r, 1).answered = s.answered
    BY <2>1, <2>2, SendState
  <2> HIDE DEF Send
  <2>7. Pending(Send(t, r, 1)) = Pending(s)
    BY <1>2, <2>4, <2>5, <2>6 DEF Pending
  <2> QED
    BY <2>3, <2>6, <2>7
<1> QED
  BY <1>1, <1>2 DEF State

LEMMA EnqueueState ==
  ASSUME NEW s \in State, s.busy <=> s.wire # NoWire, NEW new \in Seq(Reqs)
  PROVE  /\ Enqueue(s, new) \in State
         /\ Enqueue(s, new).busy <=> Enqueue(s, new).wire # NoWire
         /\ Enqueue(s, new).queue # <<>> => Enqueue(s, new).busy
         /\ Enqueue(s, new).phase = s.phase
         /\ Enqueue(s, new).answered = s.answered
         /\ Pending(Enqueue(s, new)) = Pending(s) \o new
<1> DEFINE t == [s EXCEPT !.queue = @ \o new]
<1>1. t \in State
  <2> DEFINE q == s.queue \o new
  <2>1. q \in Seq(Reqs)
    BY DEF State
  <2> HIDE DEF q
  <2>2. [s EXCEPT !.queue = q] \in State
    BY <2>1 DEF State
  <2> QED
    BY <2>2 DEF q
<1>2. /\ t.busy = s.busy /\ t.wire = s.wire /\ t.queue = s.queue \o new
      /\ t.phase = s.phase /\ t.answered = s.answered
  BY DEF State
<1>3. Enqueue(s, new) = Pump(t)
  BY DEF Enqueue
<1>4. s.queue \in Seq(Reqs) /\ s.wire \in Wires
  BY DEF State
<1>5. Pending(t) = Pending(s) \o new
  <2>1. CASE s.wire = NoWire
    BY <1>2, <1>4, <2>1 DEF Pending
  <2>2. CASE s.wire # NoWire
    <3>1. s.wire.req \in Reqs
      BY <1>4, <2>2 DEF Wires
    <3> DEFINE r == s.wire.req
               q == s.queue
    <3>2. <<r>> \in Seq(Reqs) /\ q \in Seq(Reqs)
      BY <3>1, <1>4
    <3> HIDE DEF r, q
    <3>3. <<r>> \o (q \o new) = (<<r>> \o q) \o new
      BY <3>2
    <3> QED
      BY <1>2, <2>2, <3>3 DEF Pending, r, q
  <2> QED
    BY <2>1, <2>2
<1> HIDE DEF t
<1> QED
  BY <1>1, <1>2, <1>3, <1>5, PumpState

LEMMA CaptureState ==
  ASSUME NEW s \in State, NEW reply \in Replies
  PROVE  /\ CaptureSession(s, reply) \in State
         /\ CaptureSession(s, reply).queue = s.queue
         /\ CaptureSession(s, reply).busy = s.busy
         /\ CaptureSession(s, reply).wire = s.wire
         /\ CaptureSession(s, reply).phase = s.phase
         /\ CaptureSession(s, reply).answered = s.answered
         /\ CaptureSession(s, reply).probe = s.probe
<1> DEFINE b == s.session \/ reply.session
           c == CaptureSession(s, reply)
<1>1. b \in BOOLEAN /\ c = [s EXCEPT !.session = b]
  BY DEF CaptureSession
<1> HIDE DEF b, c
<1>2. /\ c \in State /\ c.queue = s.queue /\ c.busy = s.busy /\ c.wire = s.wire
      /\ c.phase = s.phase /\ c.answered = s.answered /\ c.probe = s.probe
  BY <1>1 DEF State
<1> QED
  BY <1>2 DEF c

LEMMA RetryState ==
  ASSUME NEW s \in State, NEW n \in {0} \cup Nonces, NEW reply \in Replies
  PROVE  LET t == ParseChallenge(CaptureSession(s, reply), n)
         IN  /\ t \in State
             /\ t.queue = s.queue /\ t.busy = s.busy /\ t.wire = s.wire
             /\ t.phase = s.phase /\ t.answered = s.answered
<1> DEFINE c == CaptureSession(s, reply)
<1>1. /\ c \in State
      /\ c.queue = s.queue /\ c.busy = s.busy /\ c.wire = s.wire
      /\ c.phase = s.phase /\ c.answered = s.answered
  BY CaptureState
<1> HIDE DEF c
<1>2. NoAuth \in Headers /\ 0 \in Nat /\ n \in 0..MaxNonce
  BY BoundsAreNat DEF Headers, Nonces
<1>3. CASE n # 0 /\ n # c.nonce
  BY <1>1, <1>2, <1>3 DEF ParseChallenge, State, c
<1>4. CASE ~(n # 0 /\ n # c.nonce)
  BY <1>1, <1>4 DEF ParseChallenge, c
<1> QED
  BY <1>3, <1>4

LEMMA NegotiatedState ==
  ASSUME h \in State, nonce \in Nonces, NEW reply \in Replies
  PROVE  /\ Negotiated(reply) \in State
         /\ Negotiated(reply).queue = h.queue
         /\ Negotiated(reply).busy = h.busy
         /\ Negotiated(reply).wire = h.wire
         /\ Negotiated(reply).answered = h.answered
<1> DEFINE p == ParseChallenge(h, reply.nonce)
           c == IF reply.code = "unauthorized"
                  THEN [p EXCEPT !.authRequired = TRUE] ELSE h
           b == c.session \/ reply.session
<1>1. NoAuth \in Headers /\ 0 \in Nat /\ reply.nonce \in 0..MaxNonce /\ 0 \in 0..3
  BY BoundsAreNat DEF Headers, Nonces, Replies
<1>2. /\ p \in State
      /\ p.queue = h.queue /\ p.busy = h.busy /\ p.wire = h.wire
      /\ p.answered = h.answered
  <2>1. CASE reply.nonce # 0 /\ reply.nonce # h.nonce
    BY <1>1, <2>1 DEF ParseChallenge, State
  <2>2. CASE ~(reply.nonce # 0 /\ reply.nonce # h.nonce)
    BY <2>2 DEF ParseChallenge
  <2> QED
    BY <2>1, <2>2
<1> HIDE DEF p
<1>3. /\ c \in State
      /\ c.queue = h.queue /\ c.busy = h.busy /\ c.wire = h.wire
      /\ c.answered = h.answered
  <2>1. CASE reply.code = "unauthorized"
    BY <1>2, <2>1 DEF State
  <2>2. CASE reply.code # "unauthorized"
    BY <2>2
  <2> QED
    BY <2>1, <2>2
<1>4. Negotiated(reply) = [c EXCEPT !.session = b, !.origin = TRUE, !.probe = 0]
  BY DEF Negotiated, CaptureSession, p
<1>5. b \in BOOLEAN
  OBVIOUS
<1> HIDE DEF b, c
<1> QED
  BY <1>1, <1>3, <1>4, <1>5 DEF State

LEMMA DeletedState ==
  ASSUME NEW s \in State
  PROVE  /\ Deleted(s) \in State
         /\ Deleted(s).queue = <<>> /\ ~Deleted(s).busy /\ Deleted(s).wire = NoWire
         /\ Deleted(s).phase = "gone" /\ Deleted(s).answered = s.answered
         /\ Pending(Deleted(s)) = <<>>
<1>1. <<>> \in Seq(Reqs) /\ NoWire \in Wires /\ <<>> \o <<>> = <<>>
  BY DEF Wires
<1>2. /\ Deleted(s) \in State
      /\ Deleted(s).queue = <<>> /\ ~Deleted(s).busy /\ Deleted(s).wire = NoWire
      /\ Deleted(s).phase = "gone" /\ Deleted(s).answered = s.answered
  BY <1>1 DEF Deleted, State
<1> QED
  BY <1>1, <1>2 DEF Pending

------------------------------------------------------------------------------
(* The queue.                                                              *)

\* There is no request before connect() and after the client was deleted.
NoRequests == h.phase \in {"new", "gone"} => h.wire = NoWire /\ h.queue = <<>>

QueueInv == TypeOK /\ NotStuck /\ NoRequests

ChannelStep == [Channel!Next]_(Channel!vars)

LEMMA QueueInit == Init => QueueInv
<1> SUFFICES ASSUME Init PROVE QueueInv
  OBVIOUS
<1>1. /\ <<>> \in Seq(Reqs) /\ NoWire \in Wires /\ NoAuth \in Headers
      /\ [n \in Nonces |-> 0] \in [Nonces -> Nat] /\ 0 \in 0..MaxNonce /\ 1 \in Nonces
  BY BoundsAreNat DEF Wires, Headers, Nonces
<1> QED
  BY <1>1 DEF Init, QueueInv, TypeOK, NotStuck, NoRequests, State

LEMMA FreeIsFresh ==
  ASSUME TypeOK, NEW r \in FreeReqs
  PROVE  ~Channel!InSeq(r, Pending(h))
<1>1. h.queue \in Seq(Reqs) /\ h.wire \in Wires
  BY DEF TypeOK, State
<1>2. r # h.wire.req /\ \A i \in 1..Len(h.queue) : h.queue[i] # r
  BY DEF FreeReqs, Waiting
<1>3. CASE h.wire = NoWire
  <2>1. Pending(h) = h.queue
    BY <1>1, <1>3 DEF Pending
  <2> QED
    BY <1>2, <2>1 DEF Channel!InSeq
<1>4. CASE h.wire # NoWire
  <2>1. h.wire.req \in Reqs
    BY <1>1, <1>4 DEF Wires
  <2> DEFINE q == h.queue
             x == h.wire.req
             c == <<x>> \o q
  <2>2. /\ Len(c) = 1 + Len(q)
        /\ \A i \in 1..Len(c) : c[i] = IF i <= 1 THEN x ELSE q[i - 1]
    BY <1>1, <2>1
  <2>3. Pending(h) = c
    BY <1>4 DEF Pending
  <2>4. Len(q) \in Nat
    BY <1>1
  <2> HIDE DEF c
  <2>5. \A i \in 1..Len(c) : c[i] # r
    <3> SUFFICES ASSUME NEW i \in 1..Len(c) PROVE c[i] # r
      OBVIOUS
    <3>1. CASE i <= 1
      BY <1>2, <2>2, <3>1
    <3>2. CASE ~(i <= 1)
      <4>1. i - 1 \in 1..Len(q)
        BY <2>2, <2>4, <3>2
      <4> QED
        BY <1>2, <2>2, <3>2, <4>1
    <3> QED
      BY <3>1, <3>2
  <2> QED
    BY <2>3, <2>5 DEF Channel!InSeq
<1> QED
  BY <1>3, <1>4

\* A burst of free requests may be submitted.
LEMMA NewIsBurst ==
  ASSUME TypeOK,
         NEW new, new \in {<<>>} \cup {<<r>> : r \in FreeReqs}
                    \cup {<<q[1], q[2]>> : q \in FreeReqs \X FreeReqs},
         Len(new) = 2 => new[1] # new[2]
  PROVE  new \in Seq(Reqs) /\ new \in Channel!Bursts /\ Channel!Fresh(new)
<1>0. FreeReqs \subseteq Reqs
  BY DEF FreeReqs
<1>1. CASE new = <<>>
  BY <1>1 DEF Channel!Bursts, Channel!Fresh
<1>2. CASE \E r \in FreeReqs : new = <<r>>
  <2> PICK r \in FreeReqs : new = <<r>>
    BY <1>2
  <2>1. Len(new) = 1 /\ new[1] = r
    OBVIOUS
  <2>2. ~Channel!InSeq(r, Pending(h))
    BY FreeIsFresh
  <2>3. Channel!Fresh(new)
    BY <2>1, <2>2 DEF Channel!Fresh
  <2> QED
    BY <1>0, <2>3 DEF Channel!Bursts
<1>3. CASE \E q \in FreeReqs \X FreeReqs : new = <<q[1], q[2]>>
  <2> PICK q \in FreeReqs \X FreeReqs : new = <<q[1], q[2]>>
    BY <1>3
  <2>1. q[1] \in FreeReqs /\ q[2] \in FreeReqs
    OBVIOUS
  <2>2. Len(new) = 2 /\ new[1] = q[1] /\ new[2] = q[2]
    OBVIOUS
  <2>3. ~Channel!InSeq(new[1], Pending(h)) /\ ~Channel!InSeq(new[2], Pending(h))
    BY <2>1, <2>2, FreeIsFresh
  <2>4. Channel!Fresh(new)
    BY <2>2, <2>3 DEF Channel!Fresh
  <2>5. new \in Channel!Bursts
    BY <1>0, <2>1 DEF Channel!Bursts
  <2> QED
    BY <1>0, <2>1, <2>4, <2>5
<1> QED
  BY <1>1, <1>2, <1>3

LEMMA QueueStep == QueueInv /\ [Next]_vars => QueueInv' /\ ChannelStep
<1> SUFFICES ASSUME QueueInv, [Next]_vars PROVE QueueInv' /\ ChannelStep
  OBVIOUS
<1>0. h \in State /\ nonce \in Nonces /\ TypeOK /\ NotStuck /\ NoRequests
  BY DEF QueueInv, TypeOK
<1> DEFINE Same(t) == /\ t.queue = h.queue /\ t.busy = h.busy /\ t.wire = h.wire
                      /\ t.answered = h.answered
\* A step that leaves the requests alone.
<1>a. ASSUME h' \in State, nonce' \in Nonces, Same(h'),
             h'.phase = h.phase \/ (h.phase = "new" /\ h'.phase = "probing")
      PROVE  QueueInv' /\ ChannelStep
  <2>1. Pending(h)' = Pending(h)
    BY <1>a DEF Pending
  <2>2. (h.phase # "gone")' = (h.phase # "gone")
    BY <1>a
  <2>3. ChannelStep
    BY <1>a, <2>1, <2>2 DEF ChannelStep, Channel!vars
  <2> QED
    BY <1>0, <1>a, <2>3 DEF QueueInv, TypeOK, NotStuck, NoRequests
\* A step that deletes the client.
<1>b. ASSUME NEW s \in State, s.answered = h.answered, h' = Deleted(s),
             h.phase # "gone", nonce' = nonce
      PROVE  QueueInv' /\ ChannelStep
  <2>1. Pending(h)' = <<>>
    BY <1>b, DeletedState
  <2>2. h'.phase = "gone" /\ h'.answered = h.answered
    BY <1>b, DeletedState
  <2>3. Channel!Close
    BY <1>b, <2>1, <2>2 DEF Channel!Close
  <2>4. QueueInv'
    BY <1>0, <1>b, DeletedState DEF QueueInv, TypeOK, NotStuck, NoRequests
  <2> QED
    BY <2>3, <2>4 DEF ChannelStep, Channel!Next
\* A step that submits requests.
<1>c. ASSUME NEW s \in State, Same(s), s.phase \in {"probing", "connected"},
             h.phase # "gone", NEW new \in Seq(Reqs), new \in Channel!Bursts,
             Channel!Fresh(new), h' = Enqueue(s, new), nonce' = nonce
      PROVE  QueueInv' /\ ChannelStep
  <2>1. s.busy <=> s.wire # NoWire
    BY <1>0, <1>c DEF NotStuck
  <2>2. /\ h' \in State
        /\ h'.busy <=> h'.wire # NoWire
        /\ h'.queue # <<>> => h'.busy
        /\ h'.phase = s.phase
        /\ h'.answered = s.answered
        /\ Pending(h') = Pending(s) \o new
    BY <1>c, <2>1, EnqueueState
  <2>3. Pending(s) = Pending(h)
    BY <1>c DEF Pending
  <2>4. Channel!Submit(new)
    BY <1>c, <2>2, <2>3 DEF Channel!Submit
  <2>5. QueueInv'
    BY <1>0, <1>c, <2>2 DEF QueueInv, TypeOK, NotStuck, NoRequests
  <2> QED
    BY <1>c, <2>4, <2>5 DEF ChannelStep, Channel!Next
<1>1. CASE UNCHANGED vars \/ Gone
  BY <1>0, <1>1, <1>a DEF vars, Gone
<1>2. CASE NewNonce
  <2>1. nonce' \in Nonces
    BY <1>0, <1>2, BoundsAreNat DEF NewNonce, Nonces
  <2> QED
    BY <1>0, <1>2, <1>a, <2>1 DEF NewNonce
<1>3. ASSUME NEW user \in BOOLEAN, Connect(user) PROVE QueueInv' /\ ChannelStep
  <2>1. NoAuth \in Headers /\ 0 \in 0..MaxNonce /\ 0 \in Nat
    BY BoundsAreNat DEF Headers
  <2> DEFINE s == SetCredentials(h, user)
  <2>4. s \in State /\ Same(s)
    BY <1>0, <2>1 DEF SetCredentials, State
  <2>5. h' = [s EXCEPT !.phase = "probing", !.probe = 1]
    BY <1>3 DEF Connect
  <2> HIDE DEF s
  <2>2. h' \in State /\ Same(h') /\ h'.phase = "probing"
    <3>1. 1 \in 0..3 /\ "probing" \in {"new", "probing", "connected", "gone"}
      OBVIOUS
    <3> QED
      BY <2>4, <2>5, <3>1 DEF State
  <2>3. nonce' = nonce /\ h.phase = "new"
    BY <1>3 DEF Connect
  <2> QED
    BY <1>0, <1>a, <2>2, <2>3
<1>4. ASSUME NEW reply \in Replies, ProbeFailed(reply) PROVE QueueInv' /\ ChannelStep
  <2> DEFINE s == CaptureSession(h, reply)
  <2>1. h.phase = "probing" /\ nonce' = nonce
    BY <1>4 DEF ProbeFailed
  <2>2. s \in State /\ Same(s) /\ s.phase = h.phase
    BY <1>0, CaptureState
  <2>3. h' = IF s.probe < 3 THEN [s EXCEPT !.probe = @ + 1] ELSE Deleted(s)
    BY <1>4 DEF ProbeFailed
  <2> HIDE DEF s
  <2>4. CASE s.probe < 3
    <3>1. h' \in State /\ Same(h') /\ h'.phase = h.phase
      <4>1. h' = [s EXCEPT !.probe = s.probe + 1] /\ s.probe + 1 \in 0..3
        BY <2>2, <2>3, <2>4 DEF State
      <4> QED
        BY <2>2, <4>1 DEF State
    <3> QED
      BY <1>0, <1>a, <2>1, <3>1
  <2>5. CASE ~(s.probe < 3)
    BY <1>b, <2>1, <2>2, <2>3, <2>5
  <2> QED
    BY <2>4, <2>5
<1>5. ASSUME NEW reply \in Replies, ConnectRefused(reply) PROVE QueueInv' /\ ChannelStep
  BY <1>0, <1>5, <1>b, NegotiatedState DEF ConnectRefused
<1>6. ASSUME NEW reply \in Replies, NEW q \in FreeReqs \X FreeReqs, q[1] # q[2],
             Connected(reply, q)
      PROVE  QueueInv' /\ ChannelStep
  <2> DEFINE n == Negotiated(reply)
             u == n.header # NoAuth
             s == [n EXCEPT !.phase = "connected", !.upgrade = u]
  <2>1. n \in State /\ Same(n) /\ u \in BOOLEAN
    BY <1>0, <1>6, NegotiatedState
  <2>2. h' = Enqueue(s, q) /\ nonce' = nonce /\ h.phase = "probing"
    BY <1>6 DEF Connected
  <2> HIDE DEF n, u
  <2>3. s \in State /\ Same(s) /\ s.phase = "connected"
    BY <2>1 DEF State
  <2>4. q = <<q[1], q[2]>> /\ q[1] # q[2]
    BY <1>6
  <2>5. q \in Seq(Reqs) /\ q \in Channel!Bursts /\ Channel!Fresh(q)
    BY <1>0, <2>4, NewIsBurst
  <2> HIDE DEF s
  <2> QED
    BY <1>c, <2>2, <2>3, <2>5
<1>7. ASSUME NEW r \in Reqs, Get(r) PROVE QueueInv' /\ ChannelStep
  <2>1. r \in FreeReqs /\ h' = Enqueue(h, <<r>>) /\ nonce' = nonce
    BY <1>7 DEF Get
  <2>2. h.phase \in {"probing", "connected"}
    BY <1>7 DEF Get
  <2>3. Len(<<r>>) # 2
    OBVIOUS
  <2>4. <<r>> \in Seq(Reqs) /\ <<r>> \in Channel!Bursts /\ Channel!Fresh(<<r>>)
    BY <1>0, <2>1, <2>3, NewIsBurst
  <2> QED
    BY <1>0, <1>c, <2>1, <2>2, <2>4
<1>8. CASE Leave
  BY <1>0, <1>8, <1>b DEF Leave
<1>9. ASSUME NEW reply \in Replies, Retry(reply) PROVE QueueInv' /\ ChannelStep
  <2> DEFINE t == ParseChallenge(CaptureSession(h, reply), reply.nonce)
             r == h.wire.req
             k == h.wire.retries - 1
  <2>1. h' = Send(t, r, k) /\ nonce' = nonce /\ h.wire # NoWire
    BY <1>9 DEF Retry
  <2>2. reply.nonce \in {0} \cup Nonces
    BY <1>0 DEF Replies
  <2>3. t \in State /\ Same(t) /\ t.phase = h.phase
    BY <1>0, <2>2, RetryState
  <2>4. h.wire \in [req : Reqs, retries : 0..1, auth : Headers, origin : BOOLEAN]
    BY <1>0, <2>1 DEF State, Wires
  <2>5. r \in Reqs /\ k \in 0..1
    BY <1>9, <2>4 DEF Retry, Retries
  <2> HIDE DEF t, r, k
  <2>6. /\ h' \in State /\ h'.wire.req = r /\ h'.wire # NoWire
        /\ h'.queue = h.queue /\ h'.busy = h.busy /\ h'.phase = h.phase
        /\ h'.answered = h.answered
    BY <2>1, <2>3, <2>5, SendState
  <2>7. Pending(h)' = Pending(h)
    BY <2>1, <2>6 DEF Pending, r
  <2>8. ChannelStep
    BY <2>6, <2>7 DEF ChannelStep, Channel!vars
  <2>9. QueueInv'
    BY <1>0, <2>1, <2>6 DEF QueueInv, TypeOK, NotStuck, NoRequests
  <2> QED
    BY <2>8, <2>9
<1>10. ASSUME NEW reply \in Replies, NEW new \in New(2), Finish(reply, new)
       PROVE  QueueInv' /\ ChannelStep
  <2> DEFINE c == CaptureSession(h, reply)
             s == [c EXCEPT !.busy = FALSE, !.wire = NoWire, !.answered = h.wire.req]
             e == Enqueue(s, new)
  <2>1. h' = Pump(e) /\ nonce' = nonce /\ h.wire # NoWire
    BY <1>10 DEF Finish
  <2>2. h.wire.req \in Reqs /\ NoWire \in Wires /\ h.queue \in Seq(Reqs)
    BY <1>0, <2>1 DEF State, Wires
  <2>3. /\ new \in {<<>>} \cup {<<r>> : r \in FreeReqs}
                \cup {<<q[1], q[2]>> : q \in FreeReqs \X FreeReqs}
        /\ Len(new) = 2 => new[1] # new[2]
    <3>1. CASE h.nc >= MaxNc
      BY <1>10, <3>1 DEF New
    <3>2. CASE ~(h.nc >= MaxNc)
      BY <1>10, <3>2 DEF New
    <3> QED
      BY <3>1, <3>2
  <2>4. new \in Seq(Reqs) /\ new \in Channel!Bursts /\ Channel!Fresh(new)
    BY <1>0, <2>3, NewIsBurst
  <2>5. /\ s \in State /\ ~s.busy /\ s.wire = NoWire /\ s.answered = h.wire.req
        /\ s.queue = h.queue /\ s.phase = h.phase
    <3> DEFINE b == h.session \/ reply.session
               x == h.wire.req
    <3>1. b \in BOOLEAN /\ c = [h EXCEPT !.session = b]
      BY DEF CaptureSession
    <3> HIDE DEF b, x, c
    <3>2. /\ c \in State /\ c.queue = h.queue /\ c.phase = h.phase
          /\ c.answered = h.answered
      BY <1>0, <3>1 DEF State
    <3>3. s = [c EXCEPT !.busy = FALSE, !.wire = NoWire, !.answered = x] /\ x \in Reqs
      BY <2>2 DEF x
    <3> QED
      BY <2>2, <3>2, <3>3 DEF State, x
  <2> HIDE DEF s, c
  <2>6. /\ e \in State
        /\ e.busy <=> e.wire # NoWire
        /\ e.phase = s.phase
        /\ e.answered = s.answered
        /\ Pending(e) = Pending(s) \o new
    BY <2>4, <2>5, EnqueueState
  <2> HIDE DEF e
  <2>7. /\ h' \in State
        /\ h'.busy <=> h'.wire # NoWire
        /\ h'.queue # <<>> => h'.busy
        /\ h'.phase = h.phase
        /\ h'.answered = h.wire.req
        /\ Pending(h') = Pending(s) \o new
    BY <2>1, <2>5, <2>6, PumpState
  <2>8. /\ Pending(s) = Tail(Pending(h))
        /\ Pending(h) # <<>> /\ Head(Pending(h)) = h.wire.req
    <3> DEFINE x == h.wire.req
               q == h.queue
    <3>1. /\ Tail(<<x>> \o q) = q /\ Head(<<x>> \o q) = x /\ <<x>> \o q # <<>>
          /\ <<>> \o q = q
      <4> HIDE DEF x, q
      <4>1. x \in Reqs /\ q \in Seq(Reqs)
        BY <2>2 DEF x, q
      <4> QED
        BY <4>1
    <3> QED
      BY <2>1, <2>5, <3>1 DEF Pending
  <2>9. h.phase # "gone"
    BY <1>0, <2>1 DEF NoRequests
  <2>10. Channel!Answer(new)
    BY <2>4, <2>7, <2>8, <2>9 DEF Channel!Answer
  <2>11. QueueInv'
    BY <1>0, <2>1, <2>7 DEF QueueInv, TypeOK, NotStuck, NoRequests
  <2> QED
    BY <2>4, <2>10, <2>11 DEF ChannelStep, Channel!Next
<1> QED
  BY <1>1, <1>2, <1>3, <1>4, <1>5, <1>6, <1>7, <1>8, <1>9, <1>10
  DEF Next, Probe, Answer

\* Every field of the transport stays in its range, whatever the camera
\* answers and the callbacks submit.
THEOREM Typing == Spec => []TypeOK
<1>1. QueueInv => TypeOK
  BY DEF QueueInv
<1> QED
  BY QueueInit, QueueStep, <1>1, PTL DEF Spec

\* No request is left in the queue without a reply whose handler will call
\* pump(): the early return of pump() and the callbacks that enqueue while
\* onFinished() runs never lose a wakeup.
THEOREM NeverStuck == Spec => []NotStuck
<1>1. QueueInv => NotStuck
  BY DEF QueueInv
<1> QED
  BY QueueInit, QueueStep, <1>1, PTL DEF Spec

\* The queue, busy_ and the retry of onFinished() implement the FIFO channel
\* that the header of ZcHttpTransport promises: requests are answered in the
\* order of their submission, one at a time and once each.
THEOREM Implements == Spec => Channel!Spec
<1>1. Init => Channel!Init
  BY DEF Init, Channel!Init, Pending
<1>2. Spec => [][Channel!Next]_(Channel!vars)
  BY QueueInit, QueueStep, PTL DEF Spec, ChannelStep
<1> QED
  BY <1>1, <1>2, PTL DEF Spec, Channel!Spec

------------------------------------------------------------------------------
(* Digest authentication.                                                  *)

\* No count above the present one was used with the present nonce, and none
\* with a nonce that is still to come; without a challenge or a user there is
\* no header to send.
Counted(s) ==
  /\ s.nonce # 0 => s.seen[s.nonce] <= s.nc
  /\ \A n \in Nonces : n > s.nonce => s.seen[n] = 0
  /\ s.nonce = 0 \/ ~s.user => s.header = NoAuth
  /\ ~s.replayed

LEMMA SendCounted ==
  ASSUME NEW s \in State, NEW r \in Reqs, NEW k \in 0..1, Counted(s)
  PROVE  /\ Counted(Send(s, r, k))
         /\ Send(s, r, k).nonce = s.nonce /\ Send(s, r, k).origin = s.origin
         /\ Send(s, r, k).user = s.user
         /\ Send(s, r, k).wire = [req |-> r, retries |-> k,
                                  auth |-> Send(s, r, k).header, origin |-> s.origin]
         /\ s.nonce # 0 /\ s.user => Send(s, r, k).header.nonce = s.nonce
<1> DEFINE a == BuildAuthorization(s)
           b == Receive(a)
           t == Send(s, r, k)
<1>1. t = [b EXCEPT !.wire = [req |-> r, retries |-> k, auth |-> a.header,
                              origin |-> a.origin]]
  BY DEF Send
<1>2. CASE s.nonce # 0 /\ s.user
  <2> DEFINE n == s.nc + 1
             hd == [nonce |-> s.nonce, nc |-> n]
  <2>1. n \in Nat /\ s.nonce \in Nonces /\ hd \in Headers /\ hd # NoAuth
    BY <1>2 DEF State, Nonces, Headers, NoAuth
  <2>2. a = [s EXCEPT !.nc = n, !.header = hd]
    BY <1>2 DEF BuildAuthorization
  <2>3. /\ a \in State /\ a.nonce = s.nonce /\ a.nc = n /\ a.header = hd
        /\ a.seen = s.seen /\ a.replayed = s.replayed /\ a.origin = s.origin
        /\ a.user = s.user
    <3> HIDE DEF n, hd, a
    <3> QED
      BY <2>1, <2>2 DEF State
  <2> HIDE DEF a
  <2>4. CASE s.origin
    <3> DEFINE sn == [a.seen EXCEPT ![s.nonce] = n]
               rp == a.replayed \/ n <= a.seen[s.nonce]
    <3>1. b = [a EXCEPT !.seen = sn, !.replayed = rp]
      BY <2>1, <2>3, <2>4 DEF Receive
    <3>2. s.seen \in [Nonces -> Nat] /\ s.nc \in Nat
      BY DEF State
    <3>3. sn \in [Nonces -> Nat] /\ rp = FALSE
      BY <1>2, <2>1, <2>3, <3>2 DEF Counted
    <3>4. sn[s.nonce] = n /\ \A m \in Nonces : m > s.nonce => sn[m] = 0
      BY <2>1, <2>3, <3>2, BoundsAreNat DEF Counted, Nonces
    <3> HIDE DEF sn, rp, b
    <3>5. /\ b.nonce = s.nonce /\ b.nc = n /\ b.header = hd /\ b.seen = sn
          /\ b.replayed = FALSE /\ b.origin = s.origin /\ b.user = s.user /\ b \in State
      <4> HIDE DEF hd, n
      <4> QED
        BY <2>3, <3>1, <3>3 DEF State
    <3>6. /\ t.nonce = s.nonce /\ t.nc = n /\ t.header = hd /\ t.seen = sn
          /\ t.replayed = FALSE /\ t.origin = s.origin /\ t.user = s.user
          /\ t.wire = [req |-> r, retries |-> k, auth |-> hd, origin |-> s.origin]
      <4> HIDE DEF hd, n, t
      <4> QED
        BY <1>1, <2>3, <3>5 DEF State
    <3> HIDE DEF t
    <3> QED
      BY <1>2, <2>1, <3>4, <3>6 DEF Counted, t
  <2>5. CASE ~s.origin
    <3>1. b = a
      BY <2>3, <2>5 DEF Receive
    <3>6. /\ t.nonce = s.nonce /\ t.nc = n /\ t.header = hd /\ t.seen = s.seen
          /\ t.replayed = s.replayed /\ t.origin = s.origin /\ t.user = s.user
          /\ t.wire = [req |-> r, retries |-> k, auth |-> hd, origin |-> s.origin]
      <4> HIDE DEF hd, n, t, b
      <4> QED
        BY <1>1, <2>3, <3>1 DEF State
    <3>7. s.seen[s.nonce] <= n
      BY <1>2, <2>1 DEF Counted, State
    <3> HIDE DEF t
    <3> QED
      BY <1>2, <2>1, <3>6, <3>7 DEF Counted, t
  <2> QED
    BY <2>4, <2>5
<1>3. CASE ~(s.nonce # 0 /\ s.user)
  <2>1. a = s /\ s.header = NoAuth
    BY <1>3 DEF BuildAuthorization, Counted, State
  <2>2. b = s
    BY <2>1 DEF Receive
  <2> HIDE DEF a, b, t
  <2>3. /\ t.nonce = s.nonce /\ t.nc = s.nc /\ t.header = s.header /\ t.seen = s.seen
        /\ t.replayed = s.replayed /\ t.origin = s.origin /\ t.user = s.user
        /\ t.wire = [req |-> r, retries |-> k, auth |-> s.header, origin |-> s.origin]
    BY <1>1, <2>1, <2>2 DEF State
  <2> QED
    BY <1>3, <2>3 DEF Counted, t
<1> QED
  BY <1>2, <1>3

LEMMA PumpCounted ==
  ASSUME NEW s \in State, Counted(s)
  PROVE  /\ Counted(Pump(s))
         /\ Pump(s).nonce = s.nonce /\ Pump(s).origin = s.origin
         /\ Pump(s).user = s.user
         /\ \/ Pump(s).wire = s.wire
            \/ Pump(s).wire.retries = 1 /\ Pump(s).wire.origin = s.origin
<1>1. CASE s.busy \/ s.queue = <<>>
  BY <1>1 DEF Pump
<1>2. CASE ~s.busy /\ s.queue # <<>>
  <2> DEFINE q == Tail(s.queue)
             u == [s EXCEPT !.busy = TRUE, !.queue = q]
             r == Head(s.queue)
  <2>1. q \in Seq(Reqs) /\ r \in Reqs
    BY <1>2 DEF State
  <2>2. Pump(s) = Send(u, r, 1)
    BY <1>2 DEF Pump
  <2> HIDE DEF q, r
  <2>3. /\ u \in State /\ u.nonce = s.nonce /\ u.nc = s.nc /\ u.seen = s.seen
        /\ u.header = s.header /\ u.user = s.user /\ u.replayed = s.replayed
        /\ u.origin = s.origin
    BY <2>1 DEF State
  <2>4. Counted(u)
    BY <2>3 DEF Counted
  <2> HIDE DEF u
  <2> DEFINE t == Send(u, r, 1)
  <2>k. 1 \in 0..1
    OBVIOUS
  <2>5. /\ Counted(t)
        /\ t.nonce = u.nonce /\ t.origin = u.origin /\ t.user = u.user
        /\ t.wire = [req |-> r, retries |-> 1, auth |-> t.header, origin |-> u.origin]
    BY <2>1, <2>3, <2>4, <2>k, SendCounted
  <2> HIDE DEF t
  <2>6. t.wire.retries = 1 /\ t.wire.origin = s.origin
    BY <2>3, <2>5
  <2> QED
    BY <2>2, <2>3, <2>5, <2>6 DEF t
<1> QED
  BY <1>1, <1>2

LEMMA EnqueueCounted ==
  ASSUME NEW s \in State, Counted(s), NEW new \in Seq(Reqs)
  PROVE  /\ Counted(Enqueue(s, new))
         /\ Enqueue(s, new).nonce = s.nonce /\ Enqueue(s, new).origin = s.origin
         /\ Enqueue(s, new).user = s.user
         /\ \/ Enqueue(s, new).wire = s.wire
            \/ Enqueue(s, new).wire.retries = 1 /\ Enqueue(s, new).wire.origin = s.origin
<1> DEFINE q == s.queue \o new
           u == [s EXCEPT !.queue = q]
<1>1. q \in Seq(Reqs)
  BY DEF State
<1>2. Enqueue(s, new) = Pump(u)
  BY DEF Enqueue
<1> HIDE DEF q
<1>3. /\ u \in State /\ u.nonce = s.nonce /\ u.nc = s.nc /\ u.seen = s.seen
      /\ u.header = s.header /\ u.user = s.user /\ u.replayed = s.replayed
      /\ u.origin = s.origin /\ u.wire = s.wire
  BY <1>1 DEF State
<1>4. Counted(u)
  BY <1>3 DEF Counted
<1> HIDE DEF u
<1> QED
  BY <1>2, <1>3, <1>4, PumpCounted

LEMMA ParseCounted ==
  ASSUME NEW s \in State, Counted(s), nonce \in Nonces, s.nonce <= nonce,
         NEW n \in {0, nonce}
  PROVE  /\ ParseChallenge(s, n) \in State /\ Counted(ParseChallenge(s, n))
         /\ ParseChallenge(s, n).nonce <= nonce /\ ParseChallenge(s, n).origin = s.origin
         /\ ParseChallenge(s, n).user = s.user
         /\ ParseChallenge(s, n).wire = s.wire /\ ParseChallenge(s, n).phase = s.phase
         /\ n # 0 => ParseChallenge(s, n).nonce = n
<1> DEFINE t == ParseChallenge(s, n)
<1>1. CASE n # 0 /\ n # s.nonce
  <2>1. /\ NoAuth \in Headers /\ n \in 0..MaxNonce /\ n \in Nonces /\ 0 \in Nat
        /\ n > s.nonce /\ n = nonce
    BY <1>1, BoundsAreNat DEF Headers, Nonces, State
  <2>2. t = [s EXCEPT !.nonce = n, !.nc = 0, !.header = NoAuth]
    BY <1>1 DEF ParseChallenge
  <2> HIDE DEF t
  <2>3. /\ t \in State /\ t.nonce = n /\ t.nc = 0 /\ t.header = NoAuth
        /\ t.seen = s.seen /\ t.replayed = s.replayed /\ t.origin = s.origin
        /\ t.user = s.user /\ t.wire = s.wire /\ t.phase = s.phase
    BY <2>1, <2>2 DEF State
  <2>4. t.seen[n] = 0 /\ \A m \in Nonces : m > n => t.seen[m] = 0
    BY <2>1, <2>3, BoundsAreNat DEF Counted, Nonces, State
  <2>5. Counted(t)
    BY <2>1, <2>3, <2>4 DEF Counted
  <2> QED
    BY <2>1, <2>3, <2>5, BoundsAreNat DEF t, Nonces
<1>2. CASE ~(n # 0 /\ n # s.nonce)
  BY <1>2 DEF ParseChallenge
<1> QED
  BY <1>1, <1>2

LEMMA CaptureCounted ==
  ASSUME NEW s \in State, Counted(s), NEW reply
  PROVE  /\ CaptureSession(s, reply) \in State /\ Counted(CaptureSession(s, reply))
         /\ CaptureSession(s, reply).nonce = s.nonce /\ CaptureSession(s, reply).origin = s.origin
         /\ CaptureSession(s, reply).user = s.user
         /\ CaptureSession(s, reply).wire = s.wire /\ CaptureSession(s, reply).phase = s.phase
<1> DEFINE b == s.session \/ reply.session
           t == CaptureSession(s, reply)
<1>1. b \in BOOLEAN /\ t = [s EXCEPT !.session = b]
  BY DEF CaptureSession
<1> HIDE DEF b, t
<1>2. /\ t \in State /\ t.nonce = s.nonce /\ t.nc = s.nc /\ t.seen = s.seen
      /\ t.header = s.header /\ t.user = s.user /\ t.replayed = s.replayed
      /\ t.origin = s.origin /\ t.wire = s.wire /\ t.phase = s.phase
  BY <1>1 DEF State
<1> QED
  BY <1>2 DEF Counted, t

\* The invariant behind NoReplay and RetrySigned: before the origin is known
\* no request reaches the camera, so none is retried, and the challenge of a
\* probe cannot replace the nonce of a retry on its way.
SignInv ==
  /\ Counted(h)
  /\ h.nonce <= nonce
  /\ h.phase = "new" => h.nonce = 0
  /\ h.phase \in {"new", "probing"} =>
       ~h.origin /\ (h.wire # NoWire => h.wire.retries = 1 /\ ~h.wire.origin)
  /\ RetrySigned

LEMMA SignInit == Init => SignInv
  BY BoundsAreNat DEF Init, SignInv, Counted, RetrySigned, NoWire, NoAuth, Nonces

LEMMA SignStep == QueueInv /\ SignInv /\ [Next]_vars => SignInv'
<1> SUFFICES ASSUME QueueInv, SignInv, [Next]_vars PROVE SignInv'
  OBVIOUS
<1>0. /\ h \in State /\ nonce \in Nonces /\ nonce \in Nat /\ Counted(h)
      /\ h.nonce <= nonce /\ RetrySigned /\ NoRequests /\ TypeOK
  BY BoundsAreNat DEF QueueInv, TypeOK, SignInv, Nonces
\* A step that deletes the client.
<1>b. ASSUME NEW s \in State, Counted(s), s.nonce <= nonce, h' = Deleted(s),
             nonce' = nonce
      PROVE  SignInv'
  <2>1. /\ h'.wire = NoWire /\ h'.phase = "gone" /\ h'.nonce = s.nonce
        /\ h'.nc = s.nc /\ h'.seen = s.seen /\ h'.header = s.header
        /\ h'.user = s.user /\ h'.replayed = s.replayed
    BY <1>b DEF Deleted, State
  <2> QED
    BY <1>b, <2>1 DEF SignInv, Counted, RetrySigned
\* A step that submits requests.
<1>c. ASSUME NEW s \in State, Counted(s), s.nonce <= nonce,
             s.busy <=> s.wire # NoWire,
             s.phase \in {"probing", "connected"},
             s.phase = "probing" =>
               ~s.origin /\ (s.wire # NoWire => s.wire.retries = 1 /\ ~s.wire.origin),
             s.wire # NoWire /\ s.wire.retries = 0 =>
               s.wire.auth # NoAuth /\ s.wire.auth.nonce = s.nonce,
             NEW new \in Seq(Reqs), h' = Enqueue(s, new), nonce' = nonce
      PROVE  SignInv'
  <2>1. h'.phase = s.phase
    BY <1>c, EnqueueState
  <2>2. /\ Counted(h')
        /\ h'.nonce = s.nonce /\ h'.origin = s.origin
        /\ \/ h'.wire = s.wire
           \/ h'.wire.retries = 1 /\ h'.wire.origin = s.origin
    BY <1>c, EnqueueCounted
  <2> QED
    BY <1>c, <2>1, <2>2 DEF SignInv, RetrySigned
<1>1. CASE UNCHANGED vars \/ Gone
  <2>1. h' = h /\ nonce' = nonce
    BY <1>1 DEF vars, Gone
  <2>2. SignInv
    OBVIOUS
  <2> QED
    BY <2>1, <2>2 DEF SignInv, Counted, RetrySigned
<1>2. CASE NewNonce
  <2>1. h' = h /\ h'.nonce <= nonce'
    BY <1>0, <1>2 DEF NewNonce, State
  <2>2. SignInv
    OBVIOUS
  <2> QED
    BY <2>1, <2>2 DEF SignInv, Counted, RetrySigned
<1>3. ASSUME NEW user \in BOOLEAN, Connect(user) PROVE SignInv'
  <2> DEFINE s == SetCredentials(h, user)
  <2>1. /\ s \in State /\ s.nonce = 0 /\ s.header = NoAuth /\ s.seen = h.seen
        /\ s.replayed = h.replayed /\ s.origin = h.origin /\ s.wire = h.wire
    <3>1. NoAuth \in Headers /\ 0 \in 0..MaxNonce /\ 0 \in Nat
      BY BoundsAreNat DEF Headers
    <3> QED
      BY <1>0, <3>1 DEF SetCredentials, State
  <2>2. h' = [s EXCEPT !.phase = "probing", !.probe = 1] /\ h.phase = "new"
    BY <1>3 DEF Connect
  <2> HIDE DEF s
  <2>3. /\ h'.nonce = 0 /\ h'.header = NoAuth /\ h'.seen = h.seen
        /\ h'.replayed = h.replayed /\ h'.origin = h.origin /\ h'.wire = h.wire
        /\ h'.phase = "probing"
    BY <2>1, <2>2 DEF State
  <2>4. ~h.origin /\ h.wire = NoWire /\ h.nonce = 0 /\ nonce' = nonce
    BY <1>0, <1>3, <2>2 DEF SignInv, NoRequests, Connect
  <2> QED
    BY <1>0, <2>3, <2>4 DEF SignInv, Counted, RetrySigned
<1>4. ASSUME NEW reply \in Replies, ProbeFailed(reply) PROVE SignInv'
  <2> DEFINE s == CaptureSession(h, reply)
  <2>1. h.phase = "probing" /\ nonce' = nonce
    BY <1>4 DEF ProbeFailed
  <2>2. /\ s \in State /\ Counted(s) /\ s.nonce = h.nonce /\ s.origin = h.origin
        /\ s.wire = h.wire /\ s.phase = h.phase
    BY <1>0, CaptureCounted
  <2>3. h' = IF s.probe < 3 THEN [s EXCEPT !.probe = @ + 1] ELSE Deleted(s)
    BY <1>4 DEF ProbeFailed
  <2> HIDE DEF s
  <2>4. CASE s.probe < 3
    <3>1. /\ h'.nonce = s.nonce /\ h'.header = s.header /\ h'.seen = s.seen
          /\ h'.nc = s.nc /\ h'.user = s.user /\ h'.replayed = s.replayed
          /\ h'.origin = s.origin /\ h'.wire = s.wire /\ h'.phase = s.phase
      BY <2>2, <2>3, <2>4 DEF State
    <3>2. Counted(h')
      BY <2>2, <3>1 DEF Counted
    <3> QED
      BY <1>0, <2>1, <2>2, <3>1, <3>2 DEF SignInv, RetrySigned
  <2>5. CASE ~(s.probe < 3)
    BY <1>0, <1>b, <2>1, <2>2, <2>3, <2>5
  <2> QED
    BY <2>4, <2>5
\* What a probe leaves behind.
<1>n. ASSUME NEW reply \in Replies
      PROVE  /\ Negotiated(reply) \in State /\ Counted(Negotiated(reply))
             /\ Negotiated(reply).nonce <= nonce
  <2> DEFINE p == ParseChallenge(h, reply.nonce)
             a == [p EXCEPT !.authRequired = TRUE]
             c == IF reply.code = "unauthorized" THEN a ELSE h
             d == CaptureSession(c, reply)
  <2>1. reply.nonce \in {0, nonce}
    BY <1>n DEF Replies
  <2>2. p \in State /\ Counted(p) /\ p.nonce <= nonce
    BY <1>0, <2>1, ParseCounted
  <2> HIDE DEF p
  <2>3. /\ a \in State /\ a.nonce = p.nonce /\ a.nc = p.nc /\ a.seen = p.seen
        /\ a.header = p.header /\ a.user = p.user /\ a.replayed = p.replayed
    BY <2>2 DEF State
  <2>4. Counted(a) /\ a.nonce <= nonce
    BY <2>2, <2>3 DEF Counted
  <2> HIDE DEF a
  <2>5. c \in State /\ Counted(c) /\ c.nonce <= nonce
    BY <1>0, <2>3, <2>4
  <2> HIDE DEF c
  <2>6. d \in State /\ Counted(d) /\ d.nonce <= nonce
    BY <2>5, CaptureCounted
  <2>7. Negotiated(reply) = [d EXCEPT !.origin = TRUE, !.probe = 0]
    BY DEF Negotiated, a, c, p
  <2> DEFINE e == Negotiated(reply)
  <2> HIDE DEF d, e
  <2>8. /\ e.nonce = d.nonce /\ e.nc = d.nc /\ e.seen = d.seen
        /\ e.header = d.header /\ e.user = d.user /\ e.replayed = d.replayed
        /\ e \in State
    <3>1. e = [d EXCEPT !.origin = TRUE, !.probe = 0] /\ 0 \in 0..3
      BY <2>7 DEF e
    <3> QED
      BY <2>6, <3>1 DEF State
  <2>9. Counted(e) /\ e.nonce <= nonce
    BY <2>6, <2>8 DEF Counted
  <2> QED
    BY <2>8, <2>9 DEF e
<1>5. ASSUME NEW reply \in Replies, ConnectRefused(reply) PROVE SignInv'
  BY <1>5, <1>b, <1>n DEF ConnectRefused
<1>6. ASSUME NEW reply \in Replies, NEW q \in FreeReqs \X FreeReqs, q[1] # q[2],
             Connected(reply, q)
      PROVE  SignInv'
  <2> DEFINE n == Negotiated(reply)
             u == n.header # NoAuth
             s == [n EXCEPT !.phase = "connected", !.upgrade = u]
  <2>1. /\ n \in State /\ Counted(n) /\ n.nonce <= nonce /\ u \in BOOLEAN
        /\ n.wire = h.wire /\ n.busy = h.busy
    BY <1>0, <1>n, NegotiatedState
  <2>2. h' = Enqueue(s, q) /\ nonce' = nonce /\ h.phase = "probing"
    BY <1>6 DEF Connected
  <2> HIDE DEF n, u
  <2>3. /\ s \in State /\ s.nonce = n.nonce /\ s.nc = n.nc /\ s.seen = n.seen
        /\ s.header = n.header /\ s.user = n.user /\ s.replayed = n.replayed
        /\ s.wire = h.wire /\ s.busy = h.busy /\ s.phase = "connected"
    BY <2>1 DEF State
  <2>4. Counted(s) /\ s.nonce <= nonce
    BY <2>1, <2>3 DEF Counted
  <2> HIDE DEF s
  <2>5. /\ s.busy <=> s.wire # NoWire
        /\ s.wire # NoWire => s.wire.retries = 1
    BY <2>2, <2>3 DEF QueueInv, NotStuck, SignInv
  <2>6. q = <<q[1], q[2]>> /\ q[1] # q[2]
    BY <1>6
  <2>7. q \in Seq(Reqs)
    BY <1>0, <2>6, NewIsBurst
  <2> QED
    BY <1>c, <2>2, <2>3, <2>4, <2>5, <2>7
<1>7. ASSUME NEW r \in Reqs, Get(r) PROVE SignInv'
  <2>1. h' = Enqueue(h, <<r>>) /\ nonce' = nonce /\ <<r>> \in Seq(Reqs)
    BY <1>7 DEF Get
  <2>2. h.phase \in {"probing", "connected"}
    BY <1>7 DEF Get
  <2>3. h.busy <=> h.wire # NoWire
    BY DEF QueueInv, NotStuck
  <2> QED
    BY <1>0, <1>c, <2>1, <2>2, <2>3 DEF SignInv, RetrySigned
<1>8. CASE Leave
  BY <1>0, <1>8, <1>b DEF Leave
<1>9. ASSUME NEW reply \in Replies, Retry(reply) PROVE SignInv'
  <2> DEFINE c == CaptureSession(h, reply)
             t == ParseChallenge(c, reply.nonce)
             r == h.wire.req
             k == h.wire.retries - 1
  <2>1. /\ h' = Send(t, r, k) /\ nonce' = nonce /\ h.wire # NoWire /\ h.wire.origin
        /\ h.user /\ reply.nonce # 0
    BY <1>9 DEF Retry, Retries
  <2>2. reply.nonce \in {0, nonce}
    BY DEF Replies
  <2>3. /\ c \in State /\ Counted(c) /\ c.nonce = h.nonce /\ c.user = h.user
        /\ c.phase = h.phase
    BY <1>0, CaptureCounted
  <2> HIDE DEF c
  <2>4. /\ t \in State /\ Counted(t) /\ t.nonce <= nonce /\ t.nonce = reply.nonce
        /\ t.user /\ t.phase = h.phase
    BY <1>0, <2>1, <2>2, <2>3, ParseCounted
  <2>5. h.wire \in [req : Reqs, retries : 0..1, auth : Headers, origin : BOOLEAN]
    BY <1>0, <2>1 DEF State, Wires
  <2>6. r \in Reqs /\ k \in 0..1
    BY <1>9, <2>5 DEF Retry, Retries
  <2>7. h.phase \notin {"new", "probing"}
    BY <1>0, <2>1 DEF SignInv
  <2> HIDE DEF t, r, k
  <2>8. h'.phase = h.phase
    BY <2>1, <2>4, <2>6, SendState
  <2>9. /\ Counted(h') /\ h'.nonce = t.nonce /\ h'.wire.auth = h'.header
        /\ h'.header.nonce = t.nonce
    <3> DEFINE g == Send(t, r, k)
    <3>1. /\ Counted(g) /\ g.nonce = t.nonce
          /\ g.wire = [req |-> r, retries |-> k, auth |-> g.header,
                       origin |-> t.origin]
          /\ g.header.nonce = t.nonce
      BY <2>1, <2>4, <2>6, SendCounted
    <3>2. h' = g
      BY <2>1
    <3> HIDE DEF g
    <3> QED
      BY <3>1, <3>2
  <2>10. h'.wire.auth # NoAuth
    BY <2>1, <2>4, <2>9 DEF NoAuth
  <2> QED
    BY <2>1, <2>4, <2>7, <2>8, <2>9, <2>10 DEF SignInv, RetrySigned
<1>10. ASSUME NEW reply \in Replies, NEW new \in New(2), Finish(reply, new)
       PROVE  SignInv'
  <2> DEFINE c == CaptureSession(h, reply)
             x == h.wire.req
             s == [c EXCEPT !.busy = FALSE, !.wire = NoWire, !.answered = x]
             e == Enqueue(s, new)
  <2>1. h' = Pump(e) /\ nonce' = nonce /\ h.wire # NoWire
    BY <1>10 DEF Finish
  <2>2. x \in Reqs /\ NoWire \in Wires
    BY <1>0, <2>1 DEF State, Wires
  <2>3. new \in Seq(Reqs)
    <3>1. /\ new \in {<<>>} \cup {<<r>> : r \in FreeReqs}
                  \cup {<<q[1], q[2]>> : q \in FreeReqs \X FreeReqs}
          /\ Len(new) = 2 => new[1] # new[2]
      <4>1. CASE h.nc >= MaxNc
        BY <1>10, <4>1 DEF New
      <4>2. CASE ~(h.nc >= MaxNc)
        BY <1>10, <4>2 DEF New
      <4> QED
        BY <4>1, <4>2
    <3> QED
      BY <1>0, <3>1, NewIsBurst
  <2>4. /\ c \in State /\ Counted(c) /\ c.nonce = h.nonce /\ c.origin = h.origin
        /\ c.phase = h.phase
    BY <1>0, CaptureCounted
  <2> HIDE DEF c, x
  <2>5. /\ s \in State /\ s.nonce = c.nonce /\ s.nc = c.nc /\ s.seen = c.seen
        /\ s.header = c.header /\ s.user = c.user /\ s.replayed = c.replayed
        /\ s.origin = c.origin /\ s.wire = NoWire /\ ~s.busy /\ s.phase = c.phase
    BY <2>2, <2>4 DEF State
  <2>6. Counted(s)
    BY <2>4, <2>5 DEF Counted
  <2> HIDE DEF s
  <2>7. /\ e \in State
        /\ e.phase = s.phase
        /\ e.busy <=> e.wire # NoWire
    BY <2>3, <2>5, EnqueueState
  <2>8. /\ Counted(e) /\ e.nonce = s.nonce /\ e.origin = s.origin
        /\ e.wire = NoWire \/ (e.wire.retries = 1 /\ e.wire.origin = s.origin)
    BY <2>3, <2>5, <2>6, EnqueueCounted
  <2> HIDE DEF e
  <2>9. h'.phase = h.phase
    BY <2>1, <2>4, <2>5, <2>7, PumpState
  <2>10. /\ Counted(h') /\ h'.nonce = h.nonce /\ h'.origin = h.origin
         /\ \/ h'.wire = e.wire
            \/ h'.wire.retries = 1 /\ h'.wire.origin = h.origin
    BY <2>1, <2>4, <2>5, <2>7, <2>8, PumpCounted
  <2>11. h'.wire = NoWire \/ (h'.wire.retries = 1 /\ h'.wire.origin = h.origin)
    BY <2>4, <2>5, <2>8, <2>10
  <2> QED
    BY <1>0, <2>1, <2>9, <2>10, <2>11 DEF SignInv, RetrySigned
<1> QED
  BY <1>1, <1>2, <1>3, <1>4, <1>5, <1>6, <1>7, <1>8, <1>9, <1>10
  DEF Next, Probe, Answer

LEMMA SignInvariant == Spec => [](QueueInv /\ SignInv)
  BY QueueInit, QueueStep, SignInit, SignStep, PTL DEF Spec

\* The nonce count that buildAuthorization() sends is higher than every count
\* sent with that nonce before, however often parseChallenge() sees a nonce
\* again and whatever is in flight when a new one arrives.
THEOREM NoReplayHolds == Spec => []NoReplay
<1>1. SignInv => NoReplay
  BY DEF SignInv, Counted, NoReplay
<1> QED
  BY SignInvariant, <1>1, PTL

\* The transparent retry of onFinished() always carries a header for the
\* challenge that caused it.
THEOREM RetrySignedHolds == Spec => []RetrySigned
<1>1. SignInv => RetrySigned
  BY DEF SignInv
<1> QED
  BY SignInvariant, <1>1, PTL


------------------------------------------------------------------------------
(* The inductive invariant, as a predicate of a state of the pair, so that *)
(* it can be asked of the states between two nested handlers too.          *)

Timers == {0, 1000, 2000, 4000, 8000, 16000, 10000}

Socket ==
  [stopped : BOOLEAN, live : BOOLEAN, retry : 0..5, timer : Timers,
   sock : {"none", "connecting", "connected", "closing", "rejected",
           "closed", "failed"},
   done : BOOLEAN, pendingClose : BOOLEAN]

\* What holds between two handlers as well: the handshake is only over on a
\* socket that connected, a loss is repaired and a stop is final.
Sound(s) ==
  /\ s \in Socket
  /\ s.stopped => s.timer = 0
  /\ s.sock = "closed" /\ ~s.stopped => s.timer # 0
  /\ s.sock = "connecting" => ~s.done

\* What holds when a handler returns to the event loop.
Watched(s) ==
  s.sock = "connected" /\ s.done /\ ~s.stopped => s.live \/ s.timer # 0

NotifierInv == Sound(w) /\ Watched(w)

------------------------------------------------------------------------------
(* The handlers.                                                           *)

LEMMA DelayArms ==
  ASSUME NEW retry \in 0..5
  PROVE  Delay(retry) \in Timers \ {0}
<1>1. 2 ^ 0 = 1 /\ 2 ^ 1 = 2 /\ 2 ^ 2 = 4 /\ 2 ^ 3 = 8 /\ 2 ^ 4 = 16
  OBVIOUS
<1>2. Delay(0) = 1000 /\ Delay(1) = 2000 /\ Delay(2) = 4000 /\ Delay(3) = 8000
  BY <1>1 DEF Delay
<1>3. Delay(4) = 16000 /\ Delay(5) = 10000
  BY <1>1 DEF Delay
<1>4. retry \in {0, 1, 2, 3, 4, 5}
  OBVIOUS
<1> QED
  BY <1>2, <1>3, <1>4 DEF Timers

LEMMA ZeroInRange == 0 \in 0..5 /\ 0 \in Timers
BY DEF Timers

\* Every handler that loses the connection keeps the rest of the state, and
\* arms the timer unless the notifier is stopped.
LEMMA LossHandled ==
  ASSUME NEW s \in Socket, s.stopped => s.timer = 0
  PROVE  LET e == ScheduleReconnect([s EXCEPT !.live = FALSE])
         IN  /\ e \in Socket
             /\ e.stopped = s.stopped
             /\ e.sock = s.sock
             /\ e.done = s.done
             /\ e.stopped => e.timer = 0
             /\ ~e.stopped => e.timer # 0
<1> DEFINE t == [s EXCEPT !.live = FALSE]
           e == ScheduleReconnect(t)
           Handled == /\ e \in Socket
                      /\ e.stopped = s.stopped /\ e.sock = s.sock /\ e.done = s.done
                      /\ e.stopped => e.timer = 0
                      /\ ~e.stopped => e.timer # 0
<1>1. /\ t \in Socket /\ t.stopped = s.stopped /\ t.sock = s.sock
      /\ t.done = s.done /\ t.timer = s.timer
  BY DEF Socket
<1> HIDE DEF t
<1>2. ASSUME t.stopped PROVE Handled
  <2>1. e = t /\ t.timer = 0 /\ s.stopped
    BY <1>1, <1>2 DEF ScheduleReconnect
  <2> HIDE DEF e
  <2> QED
    BY <1>1, <1>2, <2>1
<1>3. ASSUME ~t.stopped PROVE Handled
  <2> DEFINE d == Delay(t.retry)
             n == IF t.retry < 5 THEN t.retry + 1 ELSE t.retry
  <2>1. d \in Timers \ {0}
    BY <1>1, DelayArms DEF Socket
  <2>2. n \in 0..5
    BY <1>1 DEF Socket
  <2>3. e = [t EXCEPT !.timer = d, !.retry = n]
    BY <1>3 DEF ScheduleReconnect
  <2> HIDE DEF d, n, e
  <2>4. /\ e \in Socket /\ e.stopped = t.stopped /\ e.sock = t.sock
        /\ e.done = t.done /\ e.timer = d
    BY <1>1, <2>1, <2>2, <2>3 DEF Socket
  <2> QED
    BY <1>1, <1>3, <2>1, <2>4
<1>4. Handled
  BY <1>2, <1>3
<1> QED
  BY <1>4 DEF t

LEMMA SocketLossHandled ==
  ASSUME NEW s, Sound(s)
  PROVE  LET e == OnSocketDisconnected(s)
         IN  Sound(e) /\ e.sock = "closed" /\ e.stopped = s.stopped
<1> DEFINE t == [s EXCEPT !.sock = "closed", !.done = FALSE]
<1>1. /\ t \in Socket /\ t.stopped = s.stopped /\ t.sock = "closed"
      /\ t.timer = s.timer
  BY DEF Sound, Socket
<1> HIDE DEF t
<1>2. OnSocketDisconnected(s) = ScheduleReconnect([t EXCEPT !.live = FALSE])
  BY DEF OnSocketDisconnected, OnDisconnected, t
<1> HIDE DEF ScheduleReconnect
<1> QED
  BY <1>1, <1>2, LossHandled DEF Sound

LEMMA ErrorHandled ==
  ASSUME NEW s, Sound(s)
  PROVE  LET e == OnSocketError(s)
         IN  /\ Sound(e) /\ Watched(e)
             /\ e.sock = s.sock /\ e.done = s.done /\ e.stopped = s.stopped
<1> HIDE DEF ScheduleReconnect
<1> QED
  BY LossHandled DEF OnSocketError, Sound, Watched

LEMMA DisconnectHandled ==
  ASSUME NEW s, Sound(s), NEW flushed \in BOOLEAN
  PROVE  LET e == DisconnectFromHost(s, flushed)
         IN  Sound(e) /\ (Watched(s) => Watched(e)) /\ e.stopped = s.stopped
                     /\ e.sock # "connected"
<1>1. CASE s.sock = "connecting"
  BY <1>1 DEF DisconnectFromHost, Sound, Socket, Watched
<1>2. CASE s.sock = "connected" /\ flushed
  <2>1. DisconnectFromHost(s, flushed) = OnSocketDisconnected(s)
    BY <1>2 DEF DisconnectFromHost
  <2> HIDE DEF OnSocketDisconnected
  <2> QED
    BY <2>1, SocketLossHandled DEF Watched
<1>3. CASE s.sock = "connected" /\ ~flushed
  BY <1>3 DEF DisconnectFromHost, Sound, Socket, Watched
<1>4. CASE s.sock \notin {"connecting", "connected"}
  BY <1>4 DEF DisconnectFromHost, Sound, Socket, Watched
<1> QED
  BY <1>1, <1>2, <1>3, <1>4

LEMMA IncomingHandled ==
  ASSUME NEW s, Sound(s), NEW chunk \in Chunks, NEW flushed \in BOOLEAN
  PROVE  LET e == HandleIncoming(s, chunk, flushed)
         IN  Sound(e) /\ (Watched(s) => Watched(e))
<1> DEFINE e == IF chunk.fragment THEN OnSocketError(s) ELSE s
<1>1. Sound(e) /\ (Watched(s) => Watched(e))
  <2> HIDE DEF OnSocketError
  <2> QED
    BY ErrorHandled
<1> HIDE DEF e
<1>2. HandleIncoming(s, chunk, flushed)
        = IF chunk.close THEN DisconnectFromHost(e, flushed) ELSE e
  BY DEF HandleIncoming, e
<1> HIDE DEF DisconnectFromHost
<1> QED
  BY <1>1, <1>2, DisconnectHandled

------------------------------------------------------------------------------
(* The invariant.                                                          *)

LEMMA NotifierInvInit == NotifierInit => NotifierInv
BY DEF NotifierInit, NotifierInv, Sound, Watched, Socket, Timers

LEMMA NotifierInvNext == NotifierInv /\ [NotifierNext]_w => NotifierInv'
<1> SUFFICES ASSUME NotifierInv, [NotifierNext]_w
             PROVE  NotifierInv'
  OBVIOUS
<1> USE DEF NotifierInv
<1>1. CASE Start
  <2>1. w' = Open([w EXCEPT !.retry = 0, !.stopped = FALSE])
    BY <1>1 DEF Start, DoConnect, Sound, Socket
  <2>2. /\ w' \in Socket /\ w'.timer = w.timer /\ w'.sock = "connecting"
        /\ ~w'.stopped /\ ~w'.done
    BY <2>1, ZeroInRange DEF Open, Sound, Socket
  <2> QED
    BY <2>2 DEF Sound, Watched
<1>2. CASE Timeout
  <2>1. ~w.stopped
    BY <1>2 DEF Timeout, Sound
  <2>2. w' = Open([w EXCEPT !.timer = 0])
    BY <1>2, <2>1 DEF Timeout, DoConnect, Sound, Socket
  <2>3. /\ w' \in Socket /\ w'.timer = 0 /\ w'.sock = "connecting"
        /\ w'.stopped = w.stopped /\ ~w'.done
    BY <2>2, ZeroInRange DEF Open, Sound, Socket
  <2> QED
    BY <2>1, <2>3 DEF Sound, Watched
<1>3. CASE SocketRefused
  BY <1>3 DEF SocketRefused, Sound, Watched, Socket
<1>4. CASE SocketDisconnected
  <2> HIDE DEF OnSocketDisconnected
  <2> QED
    BY <1>4, SocketLossHandled DEF SocketDisconnected, Watched
<1>5. CASE HandshakeTooLarge
  <2> HIDE DEF OnSocketError
  <2> QED
    BY <1>5, ErrorHandled DEF HandshakeTooLarge
<1>6. ASSUME NEW flushed \in BOOLEAN, Stop(flushed)
      PROVE  NotifierInv'
  <2> DEFINE s == [w EXCEPT !.stopped = TRUE, !.timer = 0]
             e == DisconnectFromHost(s, flushed)
  <2>1. Sound(s) /\ s.stopped
    <3>1. /\ s \in Socket /\ s.timer = 0 /\ s.stopped
          /\ s.sock = w.sock /\ s.done = w.done
      BY ZeroInRange DEF Sound, Socket
    <3> HIDE DEF s
    <3> QED
      BY <3>1 DEF Sound
  <2> HIDE DEF s
  <2>2. Sound(e) /\ e.stopped
    <3> HIDE DEF DisconnectFromHost
    <3> QED
      BY <2>1, DisconnectHandled
  <2>3. w' = [e EXCEPT !.live = FALSE]
    BY <1>6 DEF Stop, s
  <2> HIDE DEF e
  <2> QED
    BY <2>2, <2>3 DEF Sound, Watched, Socket
<1>7. ASSUME NEW flushed \in BOOLEAN, SocketConnected(flushed)
      PROVE  NotifierInv'
  <2> DEFINE s == [w EXCEPT !.sock = "connected", !.pendingClose = FALSE]
  <2>1. Sound(s) /\ Watched(s)
    BY <1>7 DEF SocketConnected, Sound, Watched, Socket
  <2>2. w' = IF w.pendingClose THEN DisconnectFromHost(s, flushed) ELSE s
    BY <1>7 DEF SocketConnected
  <2> HIDE DEF s, DisconnectFromHost
  <2> QED
    BY <2>1, <2>2, DisconnectHandled
<1>8. ASSUME NEW flushed \in BOOLEAN, HandshakeRejected(flushed)
      PROVE  NotifierInv'
  <2> DEFINE e == OnSocketError(w)
  <2>1. Sound(e)
    <3> HIDE DEF OnSocketError
    <3> QED
      BY ErrorHandled
  <2>2. \/ w' = OnSocketDisconnected(e)
        \/ w' = [e EXCEPT !.sock = "rejected"]
    BY <1>8 DEF HandshakeRejected
  <2> HIDE DEF e
  <2>3. CASE w' = OnSocketDisconnected(e)
    <3> HIDE DEF OnSocketDisconnected
    <3> QED
      BY <2>1, <2>3, SocketLossHandled DEF Watched
  <2>4. CASE w' = [e EXCEPT !.sock = "rejected"]
    BY <2>1, <2>4 DEF Sound, Watched, Socket
  <2> QED
    BY <2>2, <2>3, <2>4
<1>9. ASSUME NEW chunk \in Chunks, NEW flushed \in BOOLEAN,
             HandshakeAccepted(chunk, flushed)
      PROVE  NotifierInv'
  <2> DEFINE s == [w EXCEPT !.done = TRUE]
             e == HandleIncoming(s, chunk, flushed)
  <2>1. Sound(s)
    BY <1>9 DEF HandshakeAccepted, Readable, Sound, Socket
  <2> HIDE DEF s
  <2>2. Sound(e)
    <3> HIDE DEF HandleIncoming
    <3> QED
      BY <2>1, IncomingHandled
  <2>3. w' = [e EXCEPT !.live = TRUE, !.retry = 0]
    BY <1>9 DEF HandshakeAccepted, OnConnected, s
  <2> HIDE DEF e
  <2>4. /\ w' \in Socket /\ w'.timer = e.timer /\ w'.stopped = e.stopped
        /\ w'.sock = e.sock /\ w'.done = e.done /\ w'.live
    BY <2>2, <2>3, ZeroInRange DEF Sound, Socket
  <2> QED
    BY <2>2, <2>4 DEF Sound, Watched
<1>10. ASSUME NEW chunk \in Chunks, NEW flushed \in BOOLEAN,
              FramesReceived(chunk, flushed)
       PROVE  NotifierInv'
  <2> HIDE DEF HandleIncoming
  <2> QED
    BY <1>10, IncomingHandled DEF FramesReceived
<1>11. CASE UNCHANGED w
  BY <1>11
<1> QED
  BY <1>1, <1>2, <1>3, <1>4, <1>5, <1>6, <1>7, <1>8, <1>9, <1>10, <1>11 DEF NotifierNext

------------------------------------------------------------------------------
(* The theorems.                                                           *)

LEMMA NotifierInvariance == NotifierSpec => []NotifierInv
BY NotifierInvInit, NotifierInvNext, PTL DEF NotifierSpec

\* Every field stays in its range: in particular the delay is always one of
\* the steps of the backoff, whatever the order of errors and timeouts.
THEOREM NotifierTyping == NotifierSpec => []NotifierTypeOK
<1>1. NotifierInv => NotifierTypeOK
  BY DEF NotifierInv, Sound, Socket, Timers, NotifierTypeOK
<1> QED
  BY <1>1, NotifierInvariance, PTL

\* stop() is final: no event that the socket still reports arms the timer.
THEOREM StopIsFinal == NotifierSpec => []StoppedStaysDown
<1>1. NotifierInv => StoppedStaysDown
  BY DEF NotifierInv, Sound, StoppedStaysDown
<1> QED
  BY <1>1, NotifierInvariance, PTL

\* A connection that was lost, in whatever phase, has its reconnect armed.
THEOREM LossRepaired == NotifierSpec => []LossIsRepaired
<1>1. NotifierInv => LossIsRepaired
  BY DEF NotifierInv, Sound, LossIsRepaired
<1> QED
  BY <1>1, NotifierInvariance, PTL

\* An open socket after its handshake is believed live or is being replaced.
THEOREM OpenWatched == NotifierSpec => []OpenIsLiveOrReplaced
<1>1. NotifierInv => OpenIsLiveOrReplaced
  BY DEF NotifierInv, Watched, OpenIsLiveOrReplaced
<1> QED
  BY <1>1, NotifierInvariance, PTL

==============================================================================
