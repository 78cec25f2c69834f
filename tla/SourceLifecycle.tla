--------------------------- MODULE SourceLifecycle ---------------------------
(***************************************************************************)
(* Connection lifecycle of one ZCamera source: ZcSspSource::start, stop,   *)
(* update, activate, watchdog, onDisconnected and reconnectThread of       *)
(* src/zc_source.cpp over SSPClientIso of src/ssp-client-iso.cpp.          *)
(*                                                                         *)
(* Threads.  Obs is the libobs side: libobs defers update() of a video     *)
(* source to the tick of its video thread, which also calls activate() and *)
(* video_render, and it destroys a source only once it is not rendered any *)
(* more, so these calls never overlap.  Every connection c \in Conns has a *)
(* receive thread of its own; every t \in Recons is one run of             *)
(* reconnectThread().  Connection and thread identities are recycled once  *)
(* nothing refers to them, so the number of reconnects is not bounded.     *)
(***************************************************************************)
EXTENDS Naturals, FiniteSets

CONSTANTS
  Obs,             \* the libobs thread
  Conns,           \* identities of SSPClientIso objects and their workers
  Recons,          \* identities of reconnect threads
  None             \* nullptr / not joinable / unlocked

ASSUME ThreadsDistinct ==
  /\ Obs \notin Conns \cup Recons
  /\ Conns \cap Recons = {}
  /\ None \notin Conns \cup Recons \cup {Obs}

Threads == {Obs} \cup Conns \cup Recons

\* Threads that run teardownConnection() and start().
Drivers == {Obs} \cup Recons

VARIABLES
  pc,        \* where each thread is; "none" = not started or joined
  ret,       \* where a thread continues after teardownConnection()/start()
  call,      \* the libobs call in progress: update or destroy
  addr,      \* ip_ is known (configured, or recovered from the source's name)
  running,   \* running_
  stopping,  \* stopping_
  joined,    \* reconnectJoined_
  handle,    \* reconnectThread_: the thread it owns
  lock,      \* lifecycleMutex_: its holder
  client,    \* client_
  alive,     \* SSPClientIso::running of each connection
  link,      \* the connector at the other end of each connection's pipe
  stamp,     \* age of startedNs_/lastPacketNs_ against ZC_STALL_TIMEOUT_MS
  backoff,   \* delay of the last reconnect wait; 0 once a packet arrived
  late       \* history: a reconnect was claimed behind the back of stop()

vars == <<pc, ret, call, addr, running, stopping, joined, handle, lock,
          client, alive, link, stamp, backoff, late>>

------------------------------------------------------------------------------
(* Control states. *)

DiscPCs == {"disc", "cas", "retire", "spawn"}       \* onDisconnected()
TearPCs == {"td", "tdJoin", "tdReset"}              \* teardownConnection()
UpPCs   == {"start", "startClear", "startUp"}       \* start()
StopPCs == {"stop", "joinT", "joining", "stopped"}  \* stop(), besides teardown

ObsPCs   == {"idle", "destroyed"} \cup StopPCs \cup TearPCs \cup UpPCs \cup DiscPCs
ConnPCs  == {"none", "hello", "loop", "read", "done"} \cup DiscPCs
ReconPCs == {"none", "for", "wait", "woken", "recheck", "clear", "publish", "done"}
              \cup TearPCs \cup UpPCs

\* delays[] of reconnectThread(), in milliseconds.
Delays == <<3000, 6000, 10000, 15000>>

Goto(p, l) == pc' = [pc EXCEPT ![p] = l]

\* stop() is on the stack of the libobs thread.
StopInProgress ==
  \/ pc[Obs] \in StopPCs
  \/ pc[Obs] \in TearPCs

\* stop() is past the join of the receive thread of its first teardown.
StopPast ==
  \/ pc[Obs] \in {"joinT", "joining", "tdReset", "stopped", "destroyed"}
  \/ pc[Obs] \in TearPCs /\ ret[Obs] = "stopped"

Init ==
  /\ pc = [p \in Threads |-> IF p = Obs THEN "idle" ELSE "none"]
  /\ ret = [p \in Drivers |-> "idle"]
  /\ call = "update"
  /\ addr = FALSE
  /\ running = FALSE
  /\ stopping = FALSE
  /\ joined = TRUE
  /\ handle = None
  /\ lock = None
  /\ client = None
  /\ alive = [c \in Conns |-> FALSE]
  /\ link = [c \in Conns |-> "none"]
  /\ stamp = "fresh"
  /\ backoff = 0
  /\ late = FALSE

------------------------------------------------------------------------------
(* teardownConnection(), called by stop() and by reconnectNow().           *)

\* Mutant: client_->Stop() does not join the receive thread.
TearLockNoJoin(p) ==
  /\ pc[p] = "td"
  /\ lock = None
  /\ lock' = p
  /\ running' = FALSE
  /\ alive' = [c \in Conns |-> alive[c] /\ c # client]
  /\ Goto(p, "tdReset")
  /\ UNCHANGED <<ret, call, addr, stopping, joined, handle, client, link,
                 stamp, backoff, late>>

\* Mutant: SSPClientIso::Stop() joins without clearing its running flag.
TearLockKeepsRunning(p) ==
  /\ pc[p] = "td"
  /\ lock = None
  /\ lock' = p
  /\ running' = FALSE
  /\ Goto(p, IF client # None /\ alive[client] THEN "tdJoin" ELSE "tdReset")
  /\ UNCHANGED <<ret, call, addr, stopping, joined, handle, client, alive,
                 link, stamp, backoff, late>>

\* Take lifecycleMutex_, clear running_ and enter client_->Stop(), which
\* returns at once unless the receive thread was started.
TearLock(p) ==
  /\ pc[p] = "td"
  /\ lock = None
  /\ lock' = p
  /\ running' = FALSE
  /\ IF client # None /\ alive[client]
       THEN /\ alive' = [alive EXCEPT ![client] = FALSE]
            /\ Goto(p, "tdJoin")
       ELSE /\ Goto(p, "tdReset")
            /\ UNCHANGED alive
  /\ UNCHANGED <<ret, call, addr, stopping, joined, handle, client, link,
                 stamp, backoff, late>>

\* worker.join() returns when the receive thread has ended; only then is the
\* pipe, and with it the connector, destroyed.
TearJoin(p) ==
  /\ pc[p] = "tdJoin"
  /\ pc[client] = "done"
  /\ pc' = [pc EXCEPT ![p] = "tdReset", ![client] = "none"]
  /\ link' = [link EXCEPT ![client] = "none"]
  /\ UNCHANGED <<ret, call, addr, running, stopping, joined, handle, lock,
                 client, alive, stamp, backoff, late>>

TearReset(p) ==
  /\ pc[p] = "tdReset"
  /\ client' = None
  /\ lock' = None
  /\ Goto(p, ret[p])
  /\ UNCHANGED <<ret, call, addr, running, stopping, joined, handle, alive,
                 link, stamp, backoff, late>>

(* start(), called by update(), activate() and reconnectNow().             *)

\* "Backstop for a source whose name was not readable yet when update() ran"
StartEnter(p) ==
  /\ pc[p] = "start"
  /\ lock = None
  /\ addr' \in {addr, TRUE}
  /\ IF ~addr' \/ running
       THEN Goto(p, ret[p]) /\ UNCHANGED lock
       ELSE Goto(p, "startClear") /\ lock' = p
  /\ UNCHANGED <<ret, call, running, stopping, joined, handle, client, alive,
                 link, stamp, backoff, late>>

\* "a fresh start must clear it, or the next reconnect would abort at once"
StartClear(p) ==
  /\ pc[p] = "startClear"
  /\ stopping' = FALSE
  /\ Goto(p, "startUp")
  /\ UNCHANGED <<ret, call, addr, running, joined, handle, lock, client,
                 alive, link, stamp, backoff, late>>

\* A new client, the stall clock, running_, then client_->Start(): doStart()
\* spawns the connector and the receive thread, or gives up silently when the
\* process cannot be created.
StartUp(p) ==
  /\ pc[p] = "startUp"
  /\ \E c \in Conns :
       /\ pc[c] = "none"
       /\ c # client
       /\ client' = c
       /\ \/ /\ alive' = [alive EXCEPT ![c] = TRUE]
             /\ link' = [link EXCEPT ![c] = "live"]
             /\ pc' = [pc EXCEPT ![p] = ret[p], ![c] = "hello"]
          \/ /\ alive' = [alive EXCEPT ![c] = FALSE]
             /\ link' = [link EXCEPT ![c] = "none"]
             /\ Goto(p, ret[p])
  /\ running' = TRUE
  /\ stamp' = "fresh"
  /\ lock' = None
  /\ UNCHANGED <<ret, call, addr, stopping, joined, handle, backoff, late>>

------------------------------------------------------------------------------
(* onDisconnected(), on a receive thread (DisconnectMsg) or on Obs (from   *)
(* watchdog()).                                                            *)

DiscReturn(p) == IF p = Obs THEN "idle" ELSE "loop"

DiscCheck(p) ==
  /\ pc[p] = "disc"
  /\ Goto(p, IF running THEN "cas" ELSE DiscReturn(p))
  /\ UNCHANGED <<ret, call, addr, running, stopping, joined, handle, lock,
                 client, alive, link, stamp, backoff, late>>

\* Mutant: reconnectJoined_ is stored, not compared and exchanged.
DiscClaimStores(p) ==
  /\ pc[p] = "cas"
  /\ joined' = FALSE
  /\ late' = (late \/ StopPast)
  /\ Goto(p, "retire")
  /\ UNCHANGED <<ret, call, addr, running, stopping, handle, lock, client,
                 alive, link, stamp, backoff>>

\* reconnectJoined_.compare_exchange_strong(true, false)
DiscClaim(p) ==
  /\ pc[p] = "cas"
  /\ IF joined
       THEN /\ joined' = FALSE
            /\ late' = (late \/ StopPast)
            /\ Goto(p, "retire")
       ELSE Goto(p, DiscReturn(p)) /\ UNCHANGED <<joined, late>>
  /\ UNCHANGED <<ret, call, addr, running, stopping, handle, lock, client,
                 alive, link, stamp, backoff>>

\* Join the previous reconnect thread if it is still joinable.
DiscRetire(p) ==
  /\ pc[p] = "retire"
  /\ IF handle = None
       THEN Goto(p, "spawn") /\ UNCHANGED handle
       ELSE /\ pc[handle] = "done"
            /\ pc' = [pc EXCEPT ![p] = "spawn", ![handle] = "none"]
            /\ handle' = None
  /\ UNCHANGED <<ret, call, addr, running, stopping, joined, lock, client,
                 alive, link, stamp, backoff, late>>

\* reconnectThread_ = std::thread(...), which ends the process if the old one
\* is still joinable.  If stop() is inside join() of the same std::thread the
\* outcome is undefined: its reset of the joined handle may wipe out the new
\* one.
DiscSpawn(p) ==
  /\ pc[p] = "spawn"
  /\ handle = None
  /\ \E t \in Recons :
       /\ pc[t] \in {"none", "done"}
       /\ \/ handle' = t
          \/ pc[Obs] = "joining" /\ handle' = None
       /\ pc' = [pc EXCEPT ![p] = DiscReturn(p), ![t] = "for"]
  /\ UNCHANGED <<ret, call, addr, running, stopping, joined, lock, client,
                 alive, link, stamp, backoff, late>>

------------------------------------------------------------------------------
(* reconnectThread() and reconnectNow().                                   *)

\* Mutant: reconnectJoined_ is set when the thread begins, not when it ends.
ReconLoopPublishes(t) ==
  /\ pc[t] = "for"
  /\ joined' = TRUE
  /\ Goto(t, IF running THEN "wait" ELSE "clear")
  /\ UNCHANGED <<ret, call, addr, running, stopping, handle, lock, client,
                 alive, link, stamp, backoff, late>>

\* for (int attempt = 0; running_; attempt++): every pass ends in a break, so
\* the only attempt a thread makes is attempt 0.
ReconLoop(t) ==
  /\ pc[t] = "for"
  /\ IF running
       THEN Goto(t, "wait") /\ backoff' = Delays[1]
       ELSE Goto(t, "clear") /\ UNCHANGED backoff
  /\ UNCHANGED <<ret, call, addr, running, stopping, joined, handle, lock,
                 client, alive, link, stamp, late>>

\* cv_.wait_for(): woken by stop(), or the delay has passed.
ReconWait(t) ==
  /\ pc[t] = "wait"
  /\ Goto(t, IF stopping THEN "clear" ELSE "woken")
  /\ UNCHANGED <<ret, call, addr, running, stopping, joined, handle, lock,
                 client, alive, link, stamp, backoff, late>>

ReconWoken(t) ==
  /\ pc[t] = "woken"
  /\ IF ~running \/ stopping
       THEN Goto(t, "clear") /\ UNCHANGED ret
       ELSE Goto(t, "td") /\ ret' = [ret EXCEPT ![t] = "recheck"]
  /\ UNCHANGED <<call, addr, running, stopping, joined, handle, lock, client,
                 alive, link, stamp, backoff, late>>

\* reconnectNow() after its teardown: "do not bring the connection back up"
ReconRecheck(t) ==
  /\ pc[t] = "recheck"
  /\ IF stopping
       THEN Goto(t, "clear") /\ UNCHANGED ret
       ELSE Goto(t, "start") /\ ret' = [ret EXCEPT ![t] = "clear"]
  /\ UNCHANGED <<call, addr, running, stopping, joined, handle, lock, client,
                 alive, link, stamp, backoff, late>>

ReconClear(t) ==
  /\ pc[t] = "clear"
  /\ stopping' = FALSE
  /\ Goto(t, "publish")
  /\ UNCHANGED <<ret, call, addr, running, joined, handle, lock, client,
                 alive, link, stamp, backoff, late>>

\* Mutant: reconnectThread() ends without reconnectJoined_ = true.
ReconPublishForgets(t) ==
  /\ pc[t] = "publish"
  /\ Goto(t, "done")
  /\ UNCHANGED <<ret, call, addr, running, stopping, joined, handle, lock,
                 client, alive, link, stamp, backoff, late>>

ReconPublish(t) ==
  /\ pc[t] = "publish"
  /\ joined' = TRUE
  /\ Goto(t, "done")
  /\ UNCHANGED <<ret, call, addr, running, stopping, handle, lock, client,
                 alive, link, stamp, backoff, late>>

------------------------------------------------------------------------------
(* SSPClientIso::ReceiveThread.                                            *)

\* The first message has to be ConnectorOkMsg; anything else, or the end of
\* the pipe, ends the thread without telling the source.
Hello(c) ==
  /\ pc[c] = "hello"
  /\ \/ link[c] = "live" /\ Goto(c, "loop")
     \/ link[c] \in {"live", "eof"} /\ Goto(c, "done")
  /\ UNCHANGED <<ret, call, addr, running, stopping, joined, handle, lock,
                 client, alive, link, stamp, backoff, late>>

\* while (th->running)
ReceiveLoop(c) ==
  /\ pc[c] = "loop"
  /\ Goto(c, IF alive[c] THEN "read" ELSE "done")
  /\ UNCHANGED <<ret, call, addr, running, stopping, joined, handle, lock,
                 client, alive, link, stamp, backoff, late>>

\* A video packet: onVideoData() stamps lastPacketNs_ unless stopped.
ReceiveVideo(c) ==
  /\ pc[c] = "read"
  /\ link[c] = "live"
  /\ IF running
       THEN stamp' = "fresh" /\ backoff' = 0
       ELSE UNCHANGED <<stamp, backoff>>
  /\ Goto(c, "loop")
  /\ UNCHANGED <<ret, call, addr, running, stopping, joined, handle, lock,
                 client, alive, link, late>>

\* Metadata, audio, connected, buffer-full, exception: nothing of the
\* lifecycle changes.
ReceiveOther(c) ==
  /\ pc[c] = "read"
  /\ link[c] = "live"
  /\ Goto(c, "loop")
  /\ UNCHANGED <<ret, call, addr, running, stopping, joined, handle, lock,
                 client, alive, link, stamp, backoff, late>>

\* DisconnectMsg; the connector quits after sending it.
ReceiveDisconnect(c) ==
  /\ pc[c] = "read"
  /\ link[c] = "live"
  /\ link' = [link EXCEPT ![c] = "eof"]
  /\ Goto(c, "disc")
  /\ UNCHANGED <<ret, call, addr, running, stopping, joined, handle, lock,
                 client, alive, stamp, backoff, late>>

\* msg_recv() fails: "Receive error", the thread ends.
ReceiveError(c) ==
  /\ pc[c] = "read"
  /\ link[c] = "eof"
  /\ Goto(c, "done")
  /\ UNCHANGED <<ret, call, addr, running, stopping, joined, handle, lock,
                 client, alive, link, stamp, backoff, late>>

------------------------------------------------------------------------------
(* Calls from libobs.                                                      *)

\* update() with changed settings, or the destructor: both begin with stop().
ObsStop ==
  /\ pc[Obs] = "idle"
  /\ call' \in {"update", "destroy"}
  /\ Goto(Obs, "stop")
  /\ UNCHANGED <<ret, addr, running, stopping, joined, handle, lock, client,
                 alive, link, stamp, backoff, late>>

StopSignal ==
  /\ pc[Obs] = "stop"
  /\ stopping' = TRUE
  /\ Goto(Obs, "td")
  /\ ret' = [ret EXCEPT ![Obs] = "joinT"]
  /\ UNCHANGED <<call, addr, running, joined, handle, lock, client, alive,
                 link, stamp, backoff, late>>

\* reconnectThread_.joinable()
StopJoinable ==
  /\ pc[Obs] = "joinT"
  /\ IF handle # None
       THEN Goto(Obs, "joining") /\ UNCHANGED ret
       ELSE Goto(Obs, "td") /\ ret' = [ret EXCEPT ![Obs] = "stopped"]
  /\ UNCHANGED <<call, addr, running, stopping, joined, handle, lock, client,
                 alive, link, stamp, backoff, late>>

\* Mutant: stop() ends after the join, without the second teardown.
StopJoinReturns ==
  /\ pc[Obs] = "joining"
  /\ handle # None => pc[handle] = "done"
  /\ pc' = [p \in Threads |-> CASE p = Obs -> "stopped"
                               [] p = handle -> "none"
                               [] OTHER -> pc[p]]
  /\ handle' = None
  /\ joined' = TRUE
  /\ UNCHANGED <<ret, call, addr, running, stopping, lock, client, alive,
                 link, stamp, backoff, late>>

\* reconnectThread_.join(); reconnectJoined_ = true; then the second teardown.
\* The thread has ended, or onDisconnected() has joined it meanwhile.
StopJoin ==
  /\ pc[Obs] = "joining"
  /\ handle # None => pc[handle] = "done"
  /\ pc' = [p \in Threads |-> CASE p = Obs -> "td"
                               [] p = handle -> "none"
                               [] OTHER -> pc[p]]
  /\ handle' = None
  /\ joined' = TRUE
  /\ ret' = [ret EXCEPT ![Obs] = "stopped"]
  /\ UNCHANGED <<call, addr, running, stopping, lock, client, alive, link,
                 stamp, backoff, late>>

\* stop() returns: update() takes the new settings and starts again, the
\* destructor frees the source.
StopReturn ==
  /\ pc[Obs] = "stopped"
  /\ IF call = "update"
       THEN /\ addr' \in BOOLEAN
            /\ ret' = [ret EXCEPT ![Obs] = "idle"]
            /\ Goto(Obs, "start")
       ELSE Goto(Obs, "destroyed") /\ UNCHANGED <<addr, ret>>
  /\ UNCHANGED <<call, running, stopping, joined, handle, lock, client, alive,
                 link, stamp, backoff, late>>

Activate ==
  /\ pc[Obs] = "idle"
  /\ ~running
  /\ Goto(Obs, "start")
  /\ ret' = [ret EXCEPT ![Obs] = "idle"]
  /\ UNCHANGED <<call, addr, running, stopping, joined, handle, lock, client,
                 alive, link, stamp, backoff, late>>

\* watchdog(), run by every videoRender(): re-arm, then rebuild.
Watchdog ==
  /\ pc[Obs] = "idle"
  /\ running
  /\ stamp = "old"
  /\ stamp' = "fresh"
  /\ Goto(Obs, "disc")
  /\ UNCHANGED <<ret, call, addr, running, stopping, joined, handle, lock,
                 client, alive, link, backoff, late>>

------------------------------------------------------------------------------
(* The environment: the clock, and the connector behind the pipe.          *)

\* ZC_STALL_TIMEOUT_MS pass without a new stamp.
Elapse ==
  /\ stamp = "fresh"
  /\ running
  /\ stamp' = "old"
  /\ UNCHANGED <<pc, ret, call, addr, running, stopping, joined, handle, lock,
                 client, alive, link, backoff, late>>

\* The connector stops writing but keeps the pipe open, resumes, or exits
\* (ExceptionMsg and a failed camera connection end it too).
ConnectorHangs(c) ==
  /\ link[c] = "live"
  /\ link' = [link EXCEPT ![c] = "hung"]
  /\ UNCHANGED <<pc, ret, call, addr, running, stopping, joined, handle, lock,
                 client, alive, stamp, backoff, late>>

ConnectorResumes(c) ==
  /\ link[c] = "hung"
  /\ link' = [link EXCEPT ![c] = "live"]
  /\ UNCHANGED <<pc, ret, call, addr, running, stopping, joined, handle, lock,
                 client, alive, stamp, backoff, late>>

ConnectorExits(c) ==
  /\ link[c] \in {"live", "hung"}
  /\ link' = [link EXCEPT ![c] = "eof"]
  /\ UNCHANGED <<pc, ret, call, addr, running, stopping, joined, handle, lock,
                 client, alive, stamp, backoff, late>>

\* The source was destroyed and nothing is left to do.
Terminated ==
  /\ pc[Obs] = "destroyed"
  /\ \A p \in Conns \cup Recons : pc[p] \in {"none", "done"}
  /\ UNCHANGED vars

------------------------------------------------------------------------------
Teardown(p) == TearLock(p) \/ TearJoin(p) \/ TearReset(p)

Start(p) == StartEnter(p) \/ StartClear(p) \/ StartUp(p)

OnDisconnected(p) ==
  DiscCheck(p) \/ DiscClaim(p) \/ DiscRetire(p) \/ DiscSpawn(p)

ReconnectThread(t) ==
  \/ ReconLoop(t) \/ ReconWait(t) \/ ReconWoken(t) \/ ReconRecheck(t)
  \/ ReconClear(t) \/ ReconPublish(t) \/ Teardown(t) \/ Start(t)

ReceiveThread(c) ==
  \/ Hello(c) \/ ReceiveLoop(c) \/ ReceiveVideo(c) \/ ReceiveOther(c)
  \/ ReceiveDisconnect(c) \/ ReceiveError(c) \/ OnDisconnected(c)

StopCall == StopSignal \/ StopJoinable \/ StopJoin \/ StopReturn

ObsStep == StopCall \/ Teardown(Obs) \/ Start(Obs) \/ OnDisconnected(Obs)

Environment ==
  \/ Elapse
  \/ \E c \in Conns : ConnectorHangs(c) \/ ConnectorResumes(c) \/ ConnectorExits(c)

Next ==
  \/ ObsStop \/ Activate \/ Watchdog \/ ObsStep
  \/ \E c \in Conns : ReceiveThread(c)
  \/ \E t \in Recons : ReconnectThread(t)
  \/ Environment
  \/ Terminated

Spec == Init /\ [][Next]_vars

\* No packet can arrive on the current connection.
Quiet == client # None => pc[client] \in {"none", "done"} \/ link[client] # "live"

\* Threads that can run do run, a connector that is not hung keeps sending
\* (a camera sends at least one frame per second), OBS keeps rendering the
\* source, and real time passes on a silent connection.  stop() gets
\* lifecycleMutex_ if that is free again and again: a reconnect leaves it free
\* for the seconds of its wait.  Nothing obliges libobs to call stop(), nor a
\* hung connector to resume or exit.
Fairness ==
  /\ WF_vars(ObsStep)
  /\ SF_vars(TearLock(Obs))
  /\ WF_vars(Watchdog)
  /\ WF_vars(Quiet /\ Elapse)
  /\ \A c \in Conns : WF_vars(ReceiveThread(c))
  /\ \A t \in Recons : WF_vars(ReconnectThread(t))

FairSpec == Spec /\ Fairness

------------------------------------------------------------------------------
(* Properties.                                                             *)

\* Control state and identities.
LabelsOK ==
  /\ pc \in [Threads -> ObsPCs \cup ConnPCs \cup ReconPCs]
  /\ pc[Obs] \in ObsPCs
  /\ \A c \in Conns : pc[c] \in ConnPCs
  /\ \A t \in Recons : pc[t] \in ReconPCs
  /\ ret \in [Drivers -> {"idle", "joinT", "stopped", "recheck", "clear"}]
  /\ call \in {"update", "destroy"}
  /\ handle \in Recons \cup {None}
  /\ lock \in Drivers \cup {None}
  /\ client \in Conns \cup {None}
  /\ link \in [Conns -> {"none", "live", "hung", "eof"}]
  /\ stamp \in {"fresh", "old"}
  /\ backoff \in {0, 3000, 6000, 10000, 15000}

FlagsOK ==
  /\ addr \in BOOLEAN
  /\ running \in BOOLEAN
  /\ stopping \in BOOLEAN
  /\ joined \in BOOLEAN
  /\ late \in BOOLEAN
  /\ alive \in [Conns -> BOOLEAN]

\* Every variable stays in its range, and every thread at a label of the
\* code it runs.
TypeOK == LabelsOK /\ FlagsOK

\* A receive thread that has not been joined yet and may still call back
\* into the source.
WorkerRuns(c) == pc[c] \notin {"none", "done"}

\* Whenever lifecycleMutex_ is free, running_ says exactly whether there is a
\* client_: start() and teardownConnection(), on whichever two threads they
\* meet, leave no half-built connection behind.
ConnSlot == lock = None => (running <=> client # None)

\* The only receive thread that can call onVideoData(), onMeta() or
\* onDisconnected() is the one of client_: a reconnect never leaves the
\* worker of the connection it replaces running beside the new one.
OneWorker == \A c \in Conns : WorkerRuns(c) => c = client

\* While reconnectJoined_ is false some thread is on its way to set it again,
\* so a disconnect that onDisconnected() ignores as a duplicate is always
\* covered by a reconnect in progress.
ReconnectNotLost ==
  ~joined => \/ \E p \in {Obs} \cup Conns : pc[p] \in {"retire", "spawn"}
             \/ \E t \in Recons : pc[t] \notin {"none", "done"}

\* Threads between their test of reconnectThread_ and their last use of it.
UsesHandle(p) == pc[p] \in {"joinT", "joining", "retire", "spawn"}

\* stop() and onDisconnected() do not use reconnectThread_ at the same time:
\* std::thread is not synchronised, and two joins of it are undefined.
HandleExclusive ==
  \A p, q \in {Obs} \cup Conns : UsesHandle(p) /\ UsesHandle(q) => p = q

\* "it is at its last instruction, so the join returns immediately": the
\* thread onDisconnected() retires has published reconnectJoined_ and ended,
\* so a receive thread never waits there for a reconnect thread that is
\* itself waiting to join that receive thread.
RetireReturnsAtOnce ==
  \A p \in {Obs} \cup Conns :
    pc[p] = "retire" /\ handle # None => pc[handle] = "done"

\* No reconnect thread outlives its handle: every one that has started and
\* was not joined is the one reconnectThread_ owns.
OwnedReconnect == \A t \in Recons : pc[t] # "none" => handle = t

\* "Join the reconnect thread so it never touches freed `this`": when stop()
\* returns to update() or to the destructor there is no client, no reconnect
\* thread and no receive thread left that could touch the source.
StopLeavesNothingRunning ==
  pc[Obs] \in {"stopped", "destroyed"} =>
    /\ ~running
    /\ client = None
    /\ handle = None
    /\ \A p \in Conns \cup Recons : pc[p] = "none"

(* The code keeps these three until a receive thread claims a reconnect    *)
(* after stop() has joined the receive thread of its first teardown: the   *)
(* connection it belongs to was brought up by a reconnect while stop() ran.*)

\* stop() and onDisconnected() meet at reconnectThread_ only after a claim
\* that a connection made which a reconnect brought up while stop() ran.
ExclusiveUntilLate == late \/ HandleExclusive

\* onDisconnected() waits for a reconnect thread that still runs only after
\* such a claim: no other interleaving of disconnects, watchdog, reconnects
\* and stop() makes reconnectJoined_ true too early.
RetireUntilLate == late \/ RetireReturnsAtOnce

\* stop() leaves a thread or a connection behind only after such a claim:
\* a reconnect that merely runs while stop() does is always cleaned up.
StopCleanUntilLate == late \/ StopLeavesNothingRunning

\* stop() returns if connectors do not stay silent for ever and no claim was
\* late: neither the join of the receive thread nor that of the reconnect
\* thread, which may be waiting for lifecycleMutex_ inside reconnectNow(),
\* deadlocks.
StopReturns ==
  []~late /\ (<>[](\A c \in Conns : link[c] # "hung"))
    => (StopInProgress ~> ~StopInProgress)

\* A connection whose receive thread ended without a disconnect callback
\* (connector missing, protocol error, end of the pipe) is torn down by the
\* watchdog, and so is one whose connector reported the disconnect, unless a
\* late claim has left it to a source that is destroyed.
DeadConnectionReplaced ==
  []~late => \A c \in Conns :
    (client = c /\ pc[c] \in {"none", "done"}) ~> client # c

\* "this check [...] rebuilds the connection once that stamp is older than
\* ZC_STALL_TIMEOUT_MS": a connection whose connector has gone silent is
\* eventually replaced, unless the connector speaks or exits by itself or
\* stop() is called.
SilenceRebuilt ==
  \A c \in Conns :
    (client = c /\ link[c] = "hung")
      ~> (client # c \/ link[c] # "hung" \/ StopInProgress)

\* "Escalating delay: 3 -> 6 -> 10 -> 15s": a reconnect that follows a
\* reconnect after which no packet arrived waits longer than that one did.
EscalatingDelay ==
  [][\A t \in Recons :
       pc[t] = "for" /\ pc'[t] = "wait" /\ backoff \in {3000, 6000, 10000}
         => backoff' > backoff]_vars
==============================================================================
