----------------------- MODULE SourceLifecycle_proofs -----------------------
(***************************************************************************)
(* Theorems about the lifecycle of a source, for any number of connection  *)
(* and reconnect thread identities.                                        *)
(***************************************************************************)
EXTENDS SourceLifecycle, TLAPS

\* Where teardownConnection() and start() return to.
RetInv ==
  /\ pc[Obs] \in TearPCs => ret[Obs] \in {"joinT", "stopped"}
  /\ pc[Obs] \in UpPCs => ret[Obs] = "idle"
  /\ \A t \in Recons : pc[t] \in TearPCs => ret[t] = "recheck"
  /\ \A t \in Recons : pc[t] \in UpPCs => ret[t] = "clear"

\* lifecycleMutex_ protects client_: a thread inside teardownConnection() or
\* start() holds it, and there is a client_ while its worker is joined.
LockInv == \A p \in Drivers :
  /\ pc[p] \in {"tdJoin", "tdReset", "startClear", "startUp"} => lock = p
  /\ pc[p] = "tdJoin" => client \in Conns

ControlInv == LabelsOK /\ RetInv /\ LockInv

(* The actions of Next, grouped by the threads that take them. *)
DriverStep == \E p \in Drivers :
  \/ TearLock(p) \/ TearJoin(p) \/ TearReset(p) \/ StartEnter(p)
  \/ StartClear(p) \/ StartUp(p)

DisconnectStep == \E p \in {Obs} \cup Conns :
  \/ DiscCheck(p) \/ DiscClaim(p) \/ DiscRetire(p) \/ DiscSpawn(p)

ReconStep == \E t \in Recons :
  \/ ReconLoop(t) \/ ReconWait(t) \/ ReconWoken(t) \/ ReconRecheck(t)
  \/ ReconClear(t) \/ ReconPublish(t)

ReceiveStep == \E c \in Conns :
  \/ Hello(c) \/ ReceiveLoop(c) \/ ReceiveVideo(c) \/ ReceiveOther(c)
  \/ ReceiveDisconnect(c) \/ ReceiveError(c)

CallStep ==
  \/ ObsStop \/ StopSignal \/ StopJoinable \/ StopJoin \/ StopReturn
  \/ Activate \/ Watchdog \/ Elapse

ConnectorStep == \E c \in Conns :
  \/ ConnectorHangs(c) \/ ConnectorResumes(c) \/ ConnectorExits(c)

LEMMA NextCases ==
  ASSUME [Next]_vars
  PROVE \/ UNCHANGED vars \/ DriverStep \/ DisconnectStep \/ ReconStep
        \/ ReceiveStep \/ CallStep \/ ConnectorStep
<1>1. ASSUME NEW c \in Conns, ReceiveThread(c) PROVE ReceiveStep \/ DisconnectStep
  BY <1>1 DEF ReceiveThread, OnDisconnected, ReceiveStep, DisconnectStep
<1>2. ASSUME NEW t \in Recons, ReconnectThread(t) PROVE ReconStep \/ DriverStep
  BY <1>2 DEF ReconnectThread, Teardown, Start, Drivers, ReconStep, DriverStep
<1>3. ASSUME ObsStep PROVE CallStep \/ DriverStep \/ DisconnectStep
  BY <1>3 DEF ObsStep, StopCall, Teardown, Start, OnDisconnected, Drivers,
              CallStep, DriverStep, DisconnectStep
<1>4. ASSUME Environment PROVE CallStep \/ ConnectorStep
  BY <1>4 DEF Environment, CallStep, ConnectorStep
<1>5. ASSUME ObsStop \/ Activate \/ Watchdog PROVE CallStep
  BY <1>5 DEF CallStep
<1>6. ASSUME Terminated PROVE UNCHANGED vars
  BY <1>6 DEF Terminated
<1> QED
  BY <1>1, <1>2, <1>3, <1>4, <1>5, <1>6 DEF Next

LEMMA ControlInit == Init => ControlInv
  BY ThreadsDistinct
  DEF Init, ControlInv, LockInv, LabelsOK, RetInv, Threads, Drivers, ObsPCs, ConnPCs,
      ReconPCs, StopPCs, TearPCs, UpPCs, DiscPCs

LEMMA FlagsInit == Init => FlagsOK
  BY Zenon DEF Init, FlagsOK

LEMMA ControlStep == ControlInv /\ [Next]_vars => ControlInv'
<1> SUFFICES ASSUME ControlInv, [Next]_vars PROVE ControlInv'
  OBVIOUS
<1> USE ThreadsDistinct DEF ControlInv, LockInv, LabelsOK, RetInv, Threads, Drivers, ObsPCs,
      ConnPCs, ReconPCs, StopPCs, TearPCs, UpPCs, DiscPCs, Goto, DiscReturn,
      Delays
<1>1. ASSUME NEW p \in Drivers, TearLock(p) PROVE ControlInv'
  BY <1>1 DEF TearLock
<1>2. ASSUME NEW p \in Drivers, TearJoin(p) PROVE ControlInv'
  BY <1>2 DEF TearJoin
<1>3. ASSUME NEW p \in Drivers, TearReset(p) PROVE ControlInv'
  BY <1>3 DEF TearReset
<1>4. ASSUME NEW p \in Drivers, StartEnter(p) PROVE ControlInv'
  BY <1>4 DEF StartEnter
<1>5. ASSUME NEW p \in Drivers, StartClear(p) PROVE ControlInv'
  BY <1>5 DEF StartClear
<1>6. ASSUME NEW p \in Drivers, StartUp(p) PROVE ControlInv'
  BY <1>6 DEF StartUp
<1>7. ASSUME NEW p \in {Obs} \cup Conns, DiscCheck(p) PROVE ControlInv'
  BY <1>7 DEF DiscCheck
<1>8. ASSUME NEW p \in {Obs} \cup Conns, DiscClaim(p) PROVE ControlInv'
  BY <1>8 DEF DiscClaim
<1>9. ASSUME NEW p \in {Obs} \cup Conns, DiscRetire(p) PROVE ControlInv'
  BY <1>9 DEF DiscRetire
<1>10. ASSUME NEW p \in {Obs} \cup Conns, DiscSpawn(p) PROVE ControlInv'
  BY <1>10 DEF DiscSpawn
<1>11. ASSUME NEW t \in Recons, ReconLoop(t) PROVE ControlInv'
  BY <1>11 DEF ReconLoop
<1>12. ASSUME NEW t \in Recons, ReconWait(t) PROVE ControlInv'
  BY <1>12 DEF ReconWait
<1>13. ASSUME NEW t \in Recons, ReconWoken(t) PROVE ControlInv'
  BY <1>13 DEF ReconWoken
<1>14. ASSUME NEW t \in Recons, ReconRecheck(t) PROVE ControlInv'
  BY <1>14 DEF ReconRecheck
<1>15. ASSUME NEW t \in Recons, ReconClear(t) PROVE ControlInv'
  BY <1>15 DEF ReconClear
<1>16. ASSUME NEW t \in Recons, ReconPublish(t) PROVE ControlInv'
  BY <1>16 DEF ReconPublish
<1>17. ASSUME NEW c \in Conns, Hello(c) PROVE ControlInv'
  BY <1>17 DEF Hello
<1>18. ASSUME NEW c \in Conns, ReceiveLoop(c) PROVE ControlInv'
  BY <1>18 DEF ReceiveLoop
<1>19. ASSUME NEW c \in Conns, ReceiveVideo(c) PROVE ControlInv'
  BY <1>19 DEF ReceiveVideo
<1>20. ASSUME NEW c \in Conns, ReceiveOther(c) PROVE ControlInv'
  BY <1>20 DEF ReceiveOther
<1>21. ASSUME NEW c \in Conns, ReceiveDisconnect(c) PROVE ControlInv'
  BY <1>21 DEF ReceiveDisconnect
<1>22. ASSUME NEW c \in Conns, ReceiveError(c) PROVE ControlInv'
  BY <1>22 DEF ReceiveError
<1>23. CASE ObsStop
  BY <1>23 DEF ObsStop
<1>24. CASE StopSignal
  BY <1>24 DEF StopSignal
<1>25. CASE StopJoinable
  BY <1>25 DEF StopJoinable
<1>26. CASE StopJoin
  BY <1>26 DEF StopJoin
<1>27. CASE StopReturn
  BY <1>27 DEF StopReturn
<1>28. CASE Activate
  BY <1>28 DEF Activate
<1>29. CASE Watchdog
  BY <1>29 DEF Watchdog
<1>30. CASE Elapse
  BY <1>30 DEF Elapse
<1>31. ASSUME NEW c \in Conns, ConnectorHangs(c) PROVE ControlInv'
  BY <1>31 DEF ConnectorHangs
<1>32. ASSUME NEW c \in Conns, ConnectorResumes(c) PROVE ControlInv'
  BY <1>32 DEF ConnectorResumes
<1>33. ASSUME NEW c \in Conns, ConnectorExits(c) PROVE ControlInv'
  BY <1>33 DEF ConnectorExits
<1>34. CASE UNCHANGED vars
  BY <1>34 DEF vars
<1> HIDE DEF ControlInv, LockInv, LabelsOK, RetInv, Threads, Drivers, ObsPCs,
      ConnPCs, ReconPCs, StopPCs, TearPCs, UpPCs, DiscPCs, Goto, DiscReturn,
      Delays
<1> QED
  BY <1>1, <1>2, <1>3, <1>4, <1>5, <1>6, <1>7, <1>8, <1>9, <1>10, <1>11,
     <1>12, <1>13, <1>14, <1>15, <1>16, <1>17, <1>18, <1>19, <1>20, <1>21,
     <1>22, <1>23, <1>24, <1>25, <1>26, <1>27, <1>28, <1>29, <1>30, <1>31,
     <1>32, <1>33, <1>34,
     NextCases
  DEF DriverStep, DisconnectStep, ReconStep, ReceiveStep, CallStep, ConnectorStep

LEMMA FlagsStep == ControlInv /\ FlagsOK /\ [Next]_vars => FlagsOK'
<1> SUFFICES ASSUME ControlInv, FlagsOK, [Next]_vars PROVE FlagsOK'
  OBVIOUS
<1> USE DEF FlagsOK
<1>1. ASSUME NEW p \in Drivers, TearLock(p) PROVE FlagsOK'
  BY <1>1 DEF TearLock
<1>2. ASSUME NEW p \in Drivers, TearJoin(p) PROVE FlagsOK'
  BY <1>2 DEF TearJoin
<1>3. ASSUME NEW p \in Drivers, TearReset(p) PROVE FlagsOK'
  BY <1>3 DEF TearReset
<1>4. ASSUME NEW p \in Drivers, StartEnter(p) PROVE FlagsOK'
  BY <1>4 DEF StartEnter
<1>5. ASSUME NEW p \in Drivers, StartClear(p) PROVE FlagsOK'
  BY <1>5 DEF StartClear
<1>6. ASSUME NEW p \in Drivers, StartUp(p) PROVE FlagsOK'
  BY <1>6 DEF StartUp
<1>7. ASSUME NEW p \in {Obs} \cup Conns, DiscCheck(p) PROVE FlagsOK'
  BY <1>7 DEF DiscCheck
<1>8. ASSUME NEW p \in {Obs} \cup Conns, DiscClaim(p) PROVE FlagsOK'
  BY <1>8 DEF DiscClaim
<1>9. ASSUME NEW p \in {Obs} \cup Conns, DiscRetire(p) PROVE FlagsOK'
  BY <1>9 DEF DiscRetire
<1>10. ASSUME NEW p \in {Obs} \cup Conns, DiscSpawn(p) PROVE FlagsOK'
  BY <1>10 DEF DiscSpawn
<1>11. ASSUME NEW t \in Recons, ReconLoop(t) PROVE FlagsOK'
  BY <1>11 DEF ReconLoop
<1>12. ASSUME NEW t \in Recons, ReconWait(t) PROVE FlagsOK'
  BY <1>12 DEF ReconWait
<1>13. ASSUME NEW t \in Recons, ReconWoken(t) PROVE FlagsOK'
  BY <1>13 DEF ReconWoken
<1>14. ASSUME NEW t \in Recons, ReconRecheck(t) PROVE FlagsOK'
  BY <1>14 DEF ReconRecheck
<1>15. ASSUME NEW t \in Recons, ReconClear(t) PROVE FlagsOK'
  BY <1>15 DEF ReconClear
<1>16. ASSUME NEW t \in Recons, ReconPublish(t) PROVE FlagsOK'
  BY <1>16 DEF ReconPublish
<1>17. ASSUME NEW c \in Conns, Hello(c) PROVE FlagsOK'
  BY <1>17 DEF Hello
<1>18. ASSUME NEW c \in Conns, ReceiveLoop(c) PROVE FlagsOK'
  BY <1>18 DEF ReceiveLoop
<1>19. ASSUME NEW c \in Conns, ReceiveVideo(c) PROVE FlagsOK'
  BY <1>19 DEF ReceiveVideo
<1>20. ASSUME NEW c \in Conns, ReceiveOther(c) PROVE FlagsOK'
  BY <1>20 DEF ReceiveOther
<1>21. ASSUME NEW c \in Conns, ReceiveDisconnect(c) PROVE FlagsOK'
  BY <1>21 DEF ReceiveDisconnect
<1>22. ASSUME NEW c \in Conns, ReceiveError(c) PROVE FlagsOK'
  BY <1>22 DEF ReceiveError
<1>23. CASE ObsStop
  BY <1>23 DEF ObsStop
<1>24. CASE StopSignal
  BY <1>24 DEF StopSignal
<1>25. CASE StopJoinable
  BY <1>25 DEF StopJoinable
<1>26. CASE StopJoin
  BY <1>26 DEF StopJoin
<1>27. CASE StopReturn
  BY <1>27 DEF StopReturn
<1>28. CASE Activate
  BY <1>28 DEF Activate
<1>29. CASE Watchdog
  BY <1>29 DEF Watchdog
<1>30. CASE Elapse
  BY <1>30 DEF Elapse
<1>31. ASSUME NEW c \in Conns, ConnectorHangs(c) PROVE FlagsOK'
  BY <1>31 DEF ConnectorHangs
<1>32. ASSUME NEW c \in Conns, ConnectorResumes(c) PROVE FlagsOK'
  BY <1>32 DEF ConnectorResumes
<1>33. ASSUME NEW c \in Conns, ConnectorExits(c) PROVE FlagsOK'
  BY <1>33 DEF ConnectorExits
<1>34. CASE UNCHANGED vars
  BY <1>34 DEF vars
<1> HIDE DEF FlagsOK
<1> QED
  BY <1>1, <1>2, <1>3, <1>4, <1>5, <1>6, <1>7, <1>8, <1>9, <1>10, <1>11,
     <1>12, <1>13, <1>14, <1>15, <1>16, <1>17, <1>18, <1>19, <1>20, <1>21,
     <1>22, <1>23, <1>24, <1>25, <1>26, <1>27, <1>28, <1>29, <1>30, <1>31,
     <1>32, <1>33, <1>34,
     NextCases
  DEF DriverStep, DisconnectStep, ReconStep, ReceiveStep, CallStep, ConnectorStep

\* Every variable stays in its range and every thread at a label of its code.
THEOREM Typing == Spec => []TypeOK
<1>1. Spec => [](ControlInv /\ FlagsOK)
  BY ControlInit, ControlStep, FlagsInit, FlagsStep, PTL DEF Spec
<1> QED
  BY <1>1, PTL DEF TypeOK, ControlInv

------------------------------------------------------------------------------
(* The connection slot: client_, running_ and the receive threads.         *)

Holding == {"tdJoin", "tdReset", "startClear", "startUp"}

\* What lifecycleMutex_ protects, stage by stage.  A receive thread belongs to
\* client_, and its running flag is down only while its join is awaited.
SlotInv ==
  /\ ConnSlot
  /\ lock # None => pc[lock] \in Holding
  /\ \A c \in Conns : pc[c] # "none" => c = client
  /\ \A c \in Conns : pc[c] # "none" /\ ~alive[c] => lock # None /\ pc[lock] = "tdJoin"
  /\ \A p \in Drivers : pc[p] \in Holding => ~running
  /\ \A p \in Drivers : pc[p] = "tdReset" => \A c \in Conns : pc[c] = "none"
  /\ \A p \in Drivers : pc[p] \in {"startClear", "startUp"} => client = None

LEMMA SlotInit == Init => SlotInv
  BY ThreadsDistinct DEF Init, SlotInv, ConnSlot, Threads, Drivers, Holding

LEMMA SlotStep == ControlInv /\ FlagsOK /\ SlotInv /\ [Next]_vars => SlotInv'
<1> SUFFICES ASSUME ControlInv, FlagsOK, SlotInv, [Next]_vars PROVE SlotInv'
  OBVIOUS
<1> USE ThreadsDistinct DEF SlotInv, ConnSlot, Holding, ControlInv, LockInv,
      LabelsOK, RetInv, Threads, Drivers, ObsPCs, ConnPCs, ReconPCs,
      StopPCs, TearPCs, UpPCs, DiscPCs, Goto, DiscReturn
<1>1. ASSUME NEW p \in Drivers, TearLock(p) PROVE SlotInv'
  BY <1>1 DEF TearLock
<1>2. ASSUME NEW p \in Drivers, TearJoin(p) PROVE SlotInv'
  BY <1>2 DEF TearJoin
<1>3. ASSUME NEW p \in Drivers, TearReset(p) PROVE SlotInv'
  BY <1>3 DEF TearReset
<1>4. ASSUME NEW p \in Drivers, StartEnter(p) PROVE SlotInv'
  BY <1>4 DEF StartEnter
<1>5. ASSUME NEW p \in Drivers, StartClear(p) PROVE SlotInv'
  BY <1>5 DEF StartClear
<1>6. ASSUME NEW p \in Drivers, StartUp(p) PROVE SlotInv'
  <2>1. /\ lock = p /\ client = None
        /\ ret[p] \notin Holding
        /\ \A c \in Conns : pc[c] = "none"
        /\ \A q \in Drivers \ {p} : pc[q] \notin Holding
    BY <1>6 DEF StartUp
  <2>2. PICK d \in Conns :
          /\ client' = d
          /\ \/ alive' = [alive EXCEPT ![d] = TRUE] /\ pc' = [pc EXCEPT ![p] = ret[p], ![d] = "hello"]
             \/ alive' = [alive EXCEPT ![d] = FALSE] /\ pc' = [pc EXCEPT ![p] = ret[p]]
    BY <1>6 DEF StartUp
  <2>3. lock' = None /\ running' = TRUE
    BY <1>6 DEF StartUp
  <2>4. \A q \in Drivers : pc'[q] \notin Holding
    BY <2>1, <2>2
  <2>5. \A c \in Conns : pc'[c] # "none" => c = d /\ alive'[c]
    BY <2>1, <2>2 DEF FlagsOK
  <2> QED
    BY <2>2, <2>3, <2>4, <2>5
<1>7. ASSUME NEW p \in {Obs} \cup Conns, DiscCheck(p) PROVE SlotInv'
  BY <1>7 DEF DiscCheck
<1>8. ASSUME NEW p \in {Obs} \cup Conns, DiscClaim(p) PROVE SlotInv'
  BY <1>8 DEF DiscClaim
<1>9. ASSUME NEW p \in {Obs} \cup Conns, DiscRetire(p) PROVE SlotInv'
  BY <1>9 DEF DiscRetire
<1>10. ASSUME NEW p \in {Obs} \cup Conns, DiscSpawn(p) PROVE SlotInv'
  BY <1>10 DEF DiscSpawn
<1>11. ASSUME NEW t \in Recons, ReconLoop(t) PROVE SlotInv'
  BY <1>11 DEF ReconLoop
<1>12. ASSUME NEW t \in Recons, ReconWait(t) PROVE SlotInv'
  BY <1>12 DEF ReconWait
<1>13. ASSUME NEW t \in Recons, ReconWoken(t) PROVE SlotInv'
  BY <1>13 DEF ReconWoken
<1>14. ASSUME NEW t \in Recons, ReconRecheck(t) PROVE SlotInv'
  BY <1>14 DEF ReconRecheck
<1>15. ASSUME NEW t \in Recons, ReconClear(t) PROVE SlotInv'
  BY <1>15 DEF ReconClear
<1>16. ASSUME NEW t \in Recons, ReconPublish(t) PROVE SlotInv'
  BY <1>16 DEF ReconPublish
<1>17. ASSUME NEW c \in Conns, Hello(c) PROVE SlotInv'
  BY <1>17 DEF Hello
<1>18. ASSUME NEW c \in Conns, ReceiveLoop(c) PROVE SlotInv'
  BY <1>18 DEF ReceiveLoop
<1>19. ASSUME NEW c \in Conns, ReceiveVideo(c) PROVE SlotInv'
  BY <1>19 DEF ReceiveVideo
<1>20. ASSUME NEW c \in Conns, ReceiveOther(c) PROVE SlotInv'
  BY <1>20 DEF ReceiveOther
<1>21. ASSUME NEW c \in Conns, ReceiveDisconnect(c) PROVE SlotInv'
  BY <1>21 DEF ReceiveDisconnect
<1>22. ASSUME NEW c \in Conns, ReceiveError(c) PROVE SlotInv'
  BY <1>22 DEF ReceiveError
<1>23. CASE ObsStop
  BY <1>23 DEF ObsStop
<1>24. CASE StopSignal
  BY <1>24 DEF StopSignal
<1>25. CASE StopJoinable
  BY <1>25 DEF StopJoinable
<1>26. CASE StopJoin
  BY <1>26 DEF StopJoin
<1>27. CASE StopReturn
  BY <1>27 DEF StopReturn
<1>28. CASE Activate
  BY <1>28 DEF Activate
<1>29. CASE Watchdog
  BY <1>29 DEF Watchdog
<1>30. CASE Elapse
  BY <1>30 DEF Elapse
<1>31. ASSUME NEW c \in Conns, ConnectorHangs(c) PROVE SlotInv'
  BY <1>31 DEF ConnectorHangs
<1>32. ASSUME NEW c \in Conns, ConnectorResumes(c) PROVE SlotInv'
  BY <1>32 DEF ConnectorResumes
<1>33. ASSUME NEW c \in Conns, ConnectorExits(c) PROVE SlotInv'
  BY <1>33 DEF ConnectorExits
<1>34. CASE UNCHANGED vars
  BY <1>34 DEF vars
<1> HIDE DEF SlotInv, ConnSlot, Holding, ControlInv, LockInv,
      LabelsOK, RetInv, Threads, Drivers, ObsPCs, ConnPCs, ReconPCs,
      StopPCs, TearPCs, UpPCs, DiscPCs, Goto, DiscReturn
<1> QED
  BY <1>1, <1>2, <1>3, <1>4, <1>5, <1>6, <1>7, <1>8, <1>9, <1>10, <1>11,
     <1>12, <1>13, <1>14, <1>15, <1>16, <1>17, <1>18, <1>19, <1>20, <1>21,
     <1>22, <1>23, <1>24, <1>25, <1>26, <1>27, <1>28, <1>29, <1>30, <1>31,
     <1>32, <1>33, <1>34,
     NextCases
  DEF DriverStep, DisconnectStep, ReconStep, ReceiveStep, CallStep, ConnectorStep

\* running_ and client_ agree whenever lifecycleMutex_ is free.
THEOREM ConnSlotHolds == Spec => []ConnSlot
<1>1. Spec => [](ControlInv /\ FlagsOK /\ SlotInv)
  BY ControlInit, ControlStep, FlagsInit, FlagsStep, SlotInit, SlotStep, PTL DEF Spec
<1> QED
  BY <1>1, PTL DEF SlotInv

\* The only running receive thread is the one of client_.
THEOREM OneWorkerHolds == Spec => []OneWorker
<1>1. Spec => [](ControlInv /\ FlagsOK /\ SlotInv)
  BY ControlInit, ControlStep, FlagsInit, FlagsStep, SlotInit, SlotStep, PTL DEF Spec
<1>2. SlotInv => OneWorker
  BY DEF SlotInv, OneWorker, WorkerRuns
<1> QED
  BY <1>1, <1>2, PTL

LEMMA NotLostStep == ControlInv /\ ReconnectNotLost /\ [Next]_vars => ReconnectNotLost'
<1> SUFFICES ASSUME ControlInv, ReconnectNotLost, [Next]_vars
             PROVE ReconnectNotLost'
  OBVIOUS
<1> USE ThreadsDistinct DEF ReconnectNotLost, ControlInv, LockInv, LabelsOK, RetInv, Threads,
      Drivers, ObsPCs, ConnPCs, ReconPCs, StopPCs, TearPCs, UpPCs, DiscPCs,
      Goto, DiscReturn
<1>1. ASSUME NEW p \in Drivers, TearLock(p) PROVE ReconnectNotLost'
  BY <1>1 DEF TearLock
<1>2. ASSUME NEW p \in Drivers, TearJoin(p) PROVE ReconnectNotLost'
  BY <1>2 DEF TearJoin
<1>3. ASSUME NEW p \in Drivers, TearReset(p) PROVE ReconnectNotLost'
  BY <1>3 DEF TearReset
<1>4. ASSUME NEW p \in Drivers, StartEnter(p) PROVE ReconnectNotLost'
  BY <1>4 DEF StartEnter
<1>5. ASSUME NEW p \in Drivers, StartClear(p) PROVE ReconnectNotLost'
  BY <1>5 DEF StartClear
<1>6. ASSUME NEW p \in Drivers, StartUp(p) PROVE ReconnectNotLost'
  BY <1>6 DEF StartUp
<1>7. ASSUME NEW p \in {Obs} \cup Conns, DiscCheck(p) PROVE ReconnectNotLost'
  BY <1>7 DEF DiscCheck
<1>8. ASSUME NEW p \in {Obs} \cup Conns, DiscClaim(p) PROVE ReconnectNotLost'
  BY <1>8 DEF DiscClaim
<1>9. ASSUME NEW p \in {Obs} \cup Conns, DiscRetire(p) PROVE ReconnectNotLost'
  BY <1>9 DEF DiscRetire
<1>10. ASSUME NEW p \in {Obs} \cup Conns, DiscSpawn(p) PROVE ReconnectNotLost'
  BY <1>10 DEF DiscSpawn
<1>11. ASSUME NEW t \in Recons, ReconLoop(t) PROVE ReconnectNotLost'
  BY <1>11 DEF ReconLoop
<1>12. ASSUME NEW t \in Recons, ReconWait(t) PROVE ReconnectNotLost'
  BY <1>12 DEF ReconWait
<1>13. ASSUME NEW t \in Recons, ReconWoken(t) PROVE ReconnectNotLost'
  BY <1>13 DEF ReconWoken
<1>14. ASSUME NEW t \in Recons, ReconRecheck(t) PROVE ReconnectNotLost'
  BY <1>14 DEF ReconRecheck
<1>15. ASSUME NEW t \in Recons, ReconClear(t) PROVE ReconnectNotLost'
  BY <1>15 DEF ReconClear
<1>16. ASSUME NEW t \in Recons, ReconPublish(t) PROVE ReconnectNotLost'
  BY <1>16 DEF ReconPublish
<1>17. ASSUME NEW c \in Conns, Hello(c) PROVE ReconnectNotLost'
  BY <1>17 DEF Hello
<1>18. ASSUME NEW c \in Conns, ReceiveLoop(c) PROVE ReconnectNotLost'
  BY <1>18 DEF ReceiveLoop
<1>19. ASSUME NEW c \in Conns, ReceiveVideo(c) PROVE ReconnectNotLost'
  BY <1>19 DEF ReceiveVideo
<1>20. ASSUME NEW c \in Conns, ReceiveOther(c) PROVE ReconnectNotLost'
  BY <1>20 DEF ReceiveOther
<1>21. ASSUME NEW c \in Conns, ReceiveDisconnect(c) PROVE ReconnectNotLost'
  BY <1>21 DEF ReceiveDisconnect
<1>22. ASSUME NEW c \in Conns, ReceiveError(c) PROVE ReconnectNotLost'
  BY <1>22 DEF ReceiveError
<1>23. CASE ObsStop
  BY <1>23 DEF ObsStop
<1>24. CASE StopSignal
  BY <1>24 DEF StopSignal
<1>25. CASE StopJoinable
  BY <1>25 DEF StopJoinable
<1>26. CASE StopJoin
  BY <1>26 DEF StopJoin
<1>27. CASE StopReturn
  BY <1>27 DEF StopReturn
<1>28. CASE Activate
  BY <1>28 DEF Activate
<1>29. CASE Watchdog
  BY <1>29 DEF Watchdog
<1>30. CASE Elapse
  BY <1>30 DEF Elapse
<1>31. ASSUME NEW c \in Conns, ConnectorHangs(c) PROVE ReconnectNotLost'
  BY <1>31 DEF ConnectorHangs
<1>32. ASSUME NEW c \in Conns, ConnectorResumes(c) PROVE ReconnectNotLost'
  BY <1>32 DEF ConnectorResumes
<1>33. ASSUME NEW c \in Conns, ConnectorExits(c) PROVE ReconnectNotLost'
  BY <1>33 DEF ConnectorExits
<1>34. CASE UNCHANGED vars
  BY <1>34 DEF vars
<1> HIDE DEF ReconnectNotLost, ControlInv, LockInv, LabelsOK, RetInv, Threads,
      Drivers, ObsPCs, ConnPCs, ReconPCs, StopPCs, TearPCs, UpPCs, DiscPCs,
      Goto, DiscReturn
<1> QED
  BY <1>1, <1>2, <1>3, <1>4, <1>5, <1>6, <1>7, <1>8, <1>9, <1>10, <1>11,
     <1>12, <1>13, <1>14, <1>15, <1>16, <1>17, <1>18, <1>19, <1>20, <1>21,
     <1>22, <1>23, <1>24, <1>25, <1>26, <1>27, <1>28, <1>29, <1>30, <1>31,
     <1>32, <1>33, <1>34,
     NextCases
  DEF DriverStep, DisconnectStep, ReconStep, ReceiveStep, CallStep, ConnectorStep

\* A disconnect ignored as a duplicate is covered by a reconnect in progress.
THEOREM ReconnectNotLostHolds == Spec => []ReconnectNotLost
<1>1. Init => ReconnectNotLost
  BY DEF Init, ReconnectNotLost
<1> QED
  BY <1>1, ControlInit, ControlStep, NotLostStep, PTL DEF Spec

------------------------------------------------------------------------------
(* reconnectThread_: who may use it, and what stop() leaves behind.        *)

Callers == {Obs} \cup Conns

\* reconnectJoined_ is a lock on reconnectThread_ among the callers of
\* onDisconnected(), handed to the reconnect thread while that one runs.
\* stop() does not take it: what keeps stop() apart is that, once its first
\* teardown has joined the receive thread, no thread has claimed a reconnect
\* any more, until a late claim breaks the rule.
HandleInv == ~late =>
  /\ OwnedReconnect
  /\ handle # None => pc[handle] # "none"
  /\ joined => \A t \in Recons : pc[t] \in {"none", "done"}
  /\ \A p \in Callers : pc[p] \in {"retire", "spawn"} =>
        /\ ~joined
        /\ \A t \in Recons : pc[t] \in {"none", "done"}
        /\ \A q \in Callers : pc[q] \in {"retire", "spawn"} => q = p
  /\ \A p \in Callers : pc[p] = "spawn" => handle = None
  /\ StopPast => \A c \in Conns : pc[c] \notin {"retire", "spawn"}
  /\ pc[Obs] \in TearPCs /\ ret[Obs] = "stopped" => handle = None
  /\ pc[Obs] \in {"stopped", "destroyed"} => handle = None /\ ~running /\ client = None

LEMMA HandleInit == Init => HandleInv
  BY ThreadsDistinct
  DEF Init, HandleInv, OwnedReconnect, StopPast, Callers, Threads, Drivers,
      TearPCs, DiscPCs

LEMMA HandleStep ==
  ControlInv /\ FlagsOK /\ SlotInv /\ HandleInv /\ [Next]_vars => HandleInv'
<1> SUFFICES ASSUME ControlInv, FlagsOK, SlotInv, HandleInv, [Next]_vars
             PROVE HandleInv'
  OBVIOUS
<1> USE ThreadsDistinct DEF HandleInv, OwnedReconnect, StopPast, Callers,
      SlotInv, ConnSlot, Holding, ControlInv, LockInv, LabelsOK, RetInv,
      Threads, Drivers, ObsPCs, ConnPCs, ReconPCs, StopPCs, TearPCs, UpPCs,
      DiscPCs, Goto, DiscReturn
<1>1. ASSUME NEW p \in Drivers, TearLock(p) PROVE HandleInv'
  BY <1>1 DEF TearLock
<1>2. ASSUME NEW p \in Drivers, TearJoin(p) PROVE HandleInv'
  BY <1>2 DEF TearJoin
<1>3. ASSUME NEW p \in Drivers, TearReset(p) PROVE HandleInv'
  BY <1>3 DEF TearReset
<1>4. ASSUME NEW p \in Drivers, StartEnter(p) PROVE HandleInv'
  BY <1>4 DEF StartEnter
<1>5. ASSUME NEW p \in Drivers, StartClear(p) PROVE HandleInv'
  BY <1>5 DEF StartClear
<1>6. ASSUME NEW p \in Drivers, StartUp(p) PROVE HandleInv'
  BY <1>6 DEF StartUp
<1>7. ASSUME NEW p \in {Obs} \cup Conns, DiscCheck(p) PROVE HandleInv'
  BY <1>7 DEF DiscCheck
<1>8. ASSUME NEW p \in {Obs} \cup Conns, DiscClaim(p) PROVE HandleInv'
  <2>1. CASE ~joined
    BY <1>8, <2>1 DEF DiscClaim
  <2>2. CASE joined /\ (late \/ StopPast)
    <3>1. late' = TRUE
      BY ONLY <1>8, <2>2 DEF DiscClaim
    <3> QED
      BY <3>1
  <2>3. CASE joined /\ ~late /\ ~StopPast
    <3>1. /\ joined' = FALSE
          /\ pc' = [pc EXCEPT ![p] = "retire"]
          /\ UNCHANGED <<ret, handle, client, running>>
      BY <1>8, <2>3 DEF DiscClaim
    <3> QED
      BY <2>3, <3>1
  <2> QED
    BY <2>1, <2>2, <2>3
<1>9. ASSUME NEW p \in {Obs} \cup Conns, DiscRetire(p) PROVE HandleInv'
  BY <1>9 DEF DiscRetire
<1>10. ASSUME NEW p \in {Obs} \cup Conns, DiscSpawn(p) PROVE HandleInv'
  BY <1>10 DEF DiscSpawn
<1>11. ASSUME NEW t \in Recons, ReconLoop(t) PROVE HandleInv'
  BY <1>11 DEF ReconLoop
<1>12. ASSUME NEW t \in Recons, ReconWait(t) PROVE HandleInv'
  BY <1>12 DEF ReconWait
<1>13. ASSUME NEW t \in Recons, ReconWoken(t) PROVE HandleInv'
  BY <1>13 DEF ReconWoken
<1>14. ASSUME NEW t \in Recons, ReconRecheck(t) PROVE HandleInv'
  BY <1>14 DEF ReconRecheck
<1>15. ASSUME NEW t \in Recons, ReconClear(t) PROVE HandleInv'
  BY <1>15 DEF ReconClear
<1>16. ASSUME NEW t \in Recons, ReconPublish(t) PROVE HandleInv'
  BY <1>16 DEF ReconPublish
<1>17. ASSUME NEW c \in Conns, Hello(c) PROVE HandleInv'
  BY <1>17 DEF Hello
<1>18. ASSUME NEW c \in Conns, ReceiveLoop(c) PROVE HandleInv'
  BY <1>18 DEF ReceiveLoop
<1>19. ASSUME NEW c \in Conns, ReceiveVideo(c) PROVE HandleInv'
  BY <1>19 DEF ReceiveVideo
<1>20. ASSUME NEW c \in Conns, ReceiveOther(c) PROVE HandleInv'
  BY <1>20 DEF ReceiveOther
<1>21. ASSUME NEW c \in Conns, ReceiveDisconnect(c) PROVE HandleInv'
  BY <1>21 DEF ReceiveDisconnect
<1>22. ASSUME NEW c \in Conns, ReceiveError(c) PROVE HandleInv'
  BY <1>22 DEF ReceiveError
<1>23. CASE ObsStop
  BY <1>23 DEF ObsStop
<1>24. CASE StopSignal
  BY <1>24 DEF StopSignal
<1>25. CASE StopJoinable
  BY <1>25 DEF StopJoinable
<1>26. CASE StopJoin
  BY <1>26 DEF StopJoin
<1>27. CASE StopReturn
  BY <1>27 DEF StopReturn
<1>28. CASE Activate
  BY <1>28 DEF Activate
<1>29. CASE Watchdog
  BY <1>29 DEF Watchdog
<1>30. CASE Elapse
  BY <1>30 DEF Elapse
<1>31. ASSUME NEW c \in Conns, ConnectorHangs(c) PROVE HandleInv'
  BY <1>31 DEF ConnectorHangs
<1>32. ASSUME NEW c \in Conns, ConnectorResumes(c) PROVE HandleInv'
  BY <1>32 DEF ConnectorResumes
<1>33. ASSUME NEW c \in Conns, ConnectorExits(c) PROVE HandleInv'
  BY <1>33 DEF ConnectorExits
<1>34. CASE UNCHANGED vars
  BY <1>34 DEF vars
<1> HIDE DEF HandleInv, OwnedReconnect, StopPast, Callers,
      SlotInv, ConnSlot, Holding, ControlInv, LockInv, LabelsOK, RetInv,
      Threads, Drivers, ObsPCs, ConnPCs, ReconPCs, StopPCs, TearPCs, UpPCs,
      DiscPCs, Goto, DiscReturn
<1> QED
  BY <1>1, <1>2, <1>3, <1>4, <1>5, <1>6, <1>7, <1>8, <1>9, <1>10, <1>11,
     <1>12, <1>13, <1>14, <1>15, <1>16, <1>17, <1>18, <1>19, <1>20, <1>21,
     <1>22, <1>23, <1>24, <1>25, <1>26, <1>27, <1>28, <1>29, <1>30, <1>31,
     <1>32, <1>33, <1>34,
     NextCases
  DEF DriverStep, DisconnectStep, ReconStep, ReceiveStep, CallStep, ConnectorStep

LEMMA HandleInvariant == Spec => [](ControlInv /\ SlotInv /\ HandleInv)
  BY ControlInit, ControlStep, FlagsInit, FlagsStep, SlotInit, SlotStep,
     HandleInit, HandleStep, PTL DEF Spec

\* stop() and onDisconnected() meet at reconnectThread_ only after a claim that
\* a connection made which a reconnect brought up while stop() ran.
THEOREM HandleExclusiveHolds == Spec => []ExclusiveUntilLate
<1>1. ControlInv /\ HandleInv => ExclusiveUntilLate
  BY ThreadsDistinct DEF HandleInv, ExclusiveUntilLate, HandleExclusive, UsesHandle,
     StopPast, Callers, ControlInv, LabelsOK, ConnPCs, DiscPCs
<1> QED
  BY <1>1, HandleInvariant, PTL

\* onDisconnected() waits for a reconnect thread that still runs only after a
\* late claim.
THEOREM RetireReturnsAtOnceHolds == Spec => []RetireUntilLate
<1>1. ControlInv /\ HandleInv => RetireUntilLate
  BY DEF HandleInv, RetireUntilLate, RetireReturnsAtOnce, Callers, ControlInv, LabelsOK
<1> QED
  BY <1>1, HandleInvariant, PTL

\* When stop() returns, nothing that could touch the source is left, unless a
\* claim was late.
THEOREM StopLeavesNothingRunningHolds == Spec => []StopCleanUntilLate
<1>1. ControlInv /\ SlotInv /\ HandleInv => StopCleanUntilLate
  BY ThreadsDistinct DEF HandleInv, StopCleanUntilLate, StopLeavesNothingRunning,
     OwnedReconnect, SlotInv, ControlInv, LabelsOK
<1> QED
  BY <1>1, HandleInvariant, PTL
=============================================================================
