------------------------------ MODULE WsNotifier ------------------------------
(***************************************************************************)
(* The notification socket of a camera: ZcWsNotifier (zc_ws_notifier.cpp)  *)
(* over ZcWsClient (zc_ws_client.cpp) over a Qt TCP or TLS socket.         *)
(*                                                                         *)
(* Everything runs on the Qt event loop, so one event is one step.         *)
(* Signals are direct calls: a handler that closes the socket may be       *)
(* called back by it before it returns.  The handlers are therefore        *)
(* operators from the state w of the pair to its next state, and an event  *)
(* composes them in the order of the calls.                                *)
(***************************************************************************)
EXTENDS Naturals

CONSTANT
  Tls   \* httpsOrigin_: the camera answers on https, the socket is wss

ASSUME TlsIsBoolean == Tls \in BOOLEAN

VARIABLE
  w    \* the notifier: stopped_, live_, retry_, reconnectTimer_ (its delay,
       \* 0 when off); the client: the state of socket_, handshakeDone_; and
       \* whether a close waits for the socket to connect

NotifierInit ==
  w = [stopped |-> TRUE, live |-> FALSE, retry |-> 0, timer |-> 0,
       sock |-> "none", done |-> FALSE, pendingClose |-> FALSE]

------------------------------------------------------------------------------
(* ZcWsNotifier.                                                           *)

Delay(retry) == IF retry < 5 THEN 1000 * 2 ^ retry ELSE 10000

\* Mutant: a reconnect is scheduled even after stop().
ScheduleReconnectAlways(s) ==
  [s EXCEPT !.timer = Delay(s.retry), !.retry = IF @ < 5 THEN @ + 1 ELSE @]

\* retry_ only matters below 5: counting stops there.
ScheduleReconnect(s) ==
  IF s.stopped
    THEN s
    ELSE [s EXCEPT !.timer = Delay(s.retry), !.retry = IF @ < 5 THEN @ + 1 ELSE @]

OnConnected(s) == [s EXCEPT !.live = TRUE, !.retry = 0]

\* Mutant: only the loss of a live connection is repaired.
OnDisconnectedIfLive(s) ==
  IF s.live THEN ScheduleReconnect([s EXCEPT !.live = FALSE]) ELSE s

OnDisconnected(s) == ScheduleReconnect([s EXCEPT !.live = FALSE])

\* Mutant: an error is noted but not repaired.
OnSocketErrorNoRetry(s) == [s EXCEPT !.live = FALSE]

OnSocketError(s) == ScheduleReconnect([s EXCEPT !.live = FALSE])

------------------------------------------------------------------------------
(* ZcWsClient.                                                             *)

\* A new socket; the previous one is detached before it is aborted.
Open(s) ==
  [s EXCEPT !.sock = "connecting", !.done = FALSE, !.pendingClose = FALSE]

OnSocketDisconnected(s) ==
  OnDisconnected([s EXCEPT !.sock = "closed", !.done = FALSE])

\* QAbstractSocket::disconnectFromHost(): at once when everything is written,
\* later otherwise, and not before the socket is connected.
DisconnectFromHost(s, flushed) ==
  CASE s.sock = "connecting"            -> [s EXCEPT !.pendingClose = TRUE]
    [] s.sock = "connected" /\ flushed  -> OnSocketDisconnected(s)
    [] s.sock = "connected" /\ ~flushed -> [s EXCEPT !.sock = "closing"]
    [] OTHER                            -> s

\* The frames of a chunk that matter: a fragmented text frame is an error, a
\* close frame ends the connection and the parsing.
Chunks == [fragment : BOOLEAN, close : BOOLEAN]

HandleIncoming(s, chunk, flushed) ==
  LET e == IF chunk.fragment THEN OnSocketError(s) ELSE s
  IN  IF chunk.close THEN DisconnectFromHost(e, flushed) ELSE e

\* The socket still delivers; its answer may not have been rejected yet.
Readable == w.sock \in {"connected", "closing"}

------------------------------------------------------------------------------
(* Calls of ZcCameraClient.                                                *)

DoConnect(s) == IF s.stopped THEN s ELSE Open(s)

\* connect() is called once for a client, or again after its disconnect().
Start ==
  /\ w.stopped
  /\ w' = DoConnect([w EXCEPT !.retry = 0, !.stopped = FALSE])

Stop(flushed) ==
  LET s == [w EXCEPT !.stopped = TRUE, !.timer = 0]
  IN  w' = [DisconnectFromHost(s, flushed) EXCEPT !.live = FALSE]

(* Events of the Qt event loop.                                            *)

\* Mutant: the timer is stopped before it is serviced.
TimeoutDoesNothing ==
  /\ w.timer # 0
  /\ w' = [w EXCEPT !.timer = 0]

\* reconnectTimer_ is single-shot.
Timeout ==
  /\ w.timer # 0
  /\ w' = DoConnect([w EXCEPT !.timer = 0])

\* A TCP socket sends the upgrade request; a TLS socket starts encryption, and
\* nothing follows when that is done.
SocketConnected(flushed) ==
  /\ w.sock = "connecting"
  /\ LET s == [w EXCEPT !.sock = "connected", !.pendingClose = FALSE]
     IN  w' = IF w.pendingClose THEN DisconnectFromHost(s, flushed) ELSE s

\* The attempt fails: Qt reports errorOccurred, to which nothing is connected,
\* and no disconnected.
SocketRefused ==
  /\ w.sock = "connecting"
  /\ w' = [w EXCEPT !.sock = "failed", !.pendingClose = FALSE]

\* The peer closes, or the last byte of a closing socket is written.
SocketDisconnected ==
  /\ Readable \/ w.sock = "rejected"
  /\ w' = OnSocketDisconnected(w)

\* The answer to the upgrade request grows past 16384 bytes without an end.
HandshakeTooLarge ==
  /\ Readable /\ ~Tls /\ ~w.done
  /\ w' = OnSocketError(w)

\* It is not a 101, or its Sec-WebSocket-Accept is wrong.  handshake_ keeps it:
\* whatever a socket that is slow to close still delivers is rejected again.
HandshakeRejected(flushed) ==
  /\ ~Tls /\ ~w.done
  /\ Readable \/ w.sock = "rejected"
  /\ LET e == OnSocketError(w)
     IN  w' = IF w.sock = "connected" /\ flushed
                THEN OnSocketDisconnected(e)
                ELSE [e EXCEPT !.sock = "rejected"]

\* It is good; frames that arrived with it are handled first.
HandshakeAccepted(chunk, flushed) ==
  /\ Readable /\ ~Tls /\ ~w.done
  /\ w' = OnConnected(HandleIncoming([w EXCEPT !.done = TRUE], chunk, flushed))

FramesReceived(chunk, flushed) ==
  /\ Readable /\ w.done
  /\ w' = HandleIncoming(w, chunk, flushed)

------------------------------------------------------------------------------
NotifierNext ==
  \/ Start \/ Timeout \/ SocketRefused \/ SocketDisconnected \/ HandshakeTooLarge
  \/ \E flushed \in BOOLEAN :
       \/ Stop(flushed) \/ SocketConnected(flushed) \/ HandshakeRejected(flushed)
       \/ \E chunk \in Chunks :
            HandshakeAccepted(chunk, flushed) \/ FramesReceived(chunk, flushed)

NotifierSpec == NotifierInit /\ [][NotifierNext]_w

\* The upgrade request of a plain TCP socket goes out; its answer is a 101.
Asked == \E flushed \in BOOLEAN : SocketConnected(flushed)

Granted == \E flushed \in BOOLEAN :
  HandshakeAccepted([fragment |-> FALSE, close |-> FALSE], flushed)

\* A timer fires (the camera does not send errors faster than the delay for
\* ever, each of which starts it anew), connection attempts end, closing
\* sockets close, a TLS server drops a client that never sends its request, and
\* a camera that is asked for the upgrade again and again grants it again and
\* again.  Nothing obliges it to answer a request at all.
NotifierFairness ==
  /\ WF_w(Timeout)
  /\ WF_w(SocketRefused \/ Asked)
  /\ WF_w((Tls \/ w.sock \in {"closing", "rejected"}) /\ SocketDisconnected)
  /\ ~Tls => (([]<><<Asked>>_w) => ([]<><<Granted>>_w))

NotifierFairSpec == NotifierSpec /\ NotifierFairness

------------------------------------------------------------------------------
(* Properties.                                                             *)

\* Every field stays in its range.
NotifierTypeOK ==
  w \in [stopped : BOOLEAN, live : BOOLEAN, retry : 0..5,
         timer : {0, 1000, 2000, 4000, 8000, 16000, 10000},
         sock : {"none", "connecting", "connected", "closing", "rejected",
                 "closed", "failed"},
         done : BOOLEAN, pendingClose : BOOLEAN]

\* "Never schedule a reconnect after stop()": the timer is off while stopped,
\* although stop() closes the socket after it stopped the timer, and the
\* socket may report that at once or any time later.
StoppedStaysDown == w.stopped => w.timer = 0

\* A connection that was established and lost is tried again: whatever ended
\* it, live or not, the timer is armed.
LossIsRepaired == w.sock = "closed" /\ ~w.stopped => w.timer # 0

\* The notifier never rests on an open socket that it believes dead: either
\* notifications count, or the handshake is under way, or a reconnect will
\* replace the socket.
OpenIsLiveOrReplaced ==
  w.sock = "connected" /\ w.done /\ ~w.stopped => w.live \/ w.timer # 0

\* "On disconnect we [...] reconnect with backoff": a started notifier is live
\* again and again, unless it is stopped.
Recovers == []<>(w.live \/ w.stopped)

\* What the code keeps of it: a started notifier is live again and again,
\* unless it is stopped, an attempt was refused, or a peer leaves the upgrade
\* request unanswered on an open socket, for which there is no timeout.
RecoversIfAnswered ==
  \/ []<>(w.live \/ w.stopped \/ w.sock = "failed")
  \/ <>[](w.sock = "connected" /\ ~w.done)

\* "Escalating backoff: 1s, 2s, 4s, ... capped at 10s"
BackoffCapped == w.timer <= 10000

\* "Mark the socket as live (receiving notifications)": live_ is only true
\* while the socket is open.
LiveMeansOpen == w.live => w.sock \in {"connected", "closing"} /\ w.done
==============================================================================
