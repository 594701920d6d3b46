----------------------------- MODULE FDTDProofs ------------------------------
(***************************************************************************)
(* What holds of the daemon for every set of requests, every assignment of *)
(* transfer ids, every number of ports and of signals, and whether or not  *)
(* the logging calls raise.                                                *)
(***************************************************************************)
EXTENDS FDTD, PortReservationProofs, TLAPS

\* Whatever the daemon does is, for the ports, a step of a caller of reserve():
\* only GetFreePort touches them, and no request releases one.
LEMMA GrantStep == [Next]_vars => [GrantNext]_portVars
  <1> SUFFICES ASSUME [Next]_vars
               PROVE  [GrantNext]_portVars
    OBVIOUS
  <1>1. ASSUME NEW q \in Requests, RequestStep(q)
        PROVE  [GrantNext]_portVars
    <2>1. CASE q \in Receivers /\ GetFreePort(q)
      BY <2>1 DEF GetFreePort, GrantNext, Reserve
    <2>2. CASE ~ (q \in Receivers /\ GetFreePort(q))
      BY <1>1, <2>2
         DEF RequestStep, StarterStep, CleanerStep, GetLogger, CheckStopFlag, ForcePort, SetUp,
             SetSyncFlag, CheckPresence, SpawnFails, Spawn, CheckAgain, Insert, FreeInserted, GetExecutor,
             LookUp, Fetch, Poll, Remove, PutBack, CheckSyncFlag
    <2>. QED
      BY <2>1, <2>2
  <1>2. CASE MainStep
    BY <1>2 DEF MainStep, HandlerStep, HupAcquire, HupCount, HupRaise, SetStop, ShutdownAcquire,
                ShutdownRelease, CheckPort, RemovePidFile
  <1>3. CASE Environment
    BY <1>3 DEF Environment, Arrive, ProcessEnds, Hup, Term
  <1>4. CASE UNCHANGED vars
    BY <1>4 DEF vars
  <1>. QED
    BY <1>1, <1>2, <1>3, <1>4 DEF Next

LEMMA PortStep == [Next]_vars => [PortNext]_portVars
  BY GrantStep DEF GrantNext, PortNext

\* So every behaviour of fdtd, seen through its ports, is one of the class with the
\* receivers as callers.
LEMMA DaemonImplementsPorts == Spec => PortSpec
  <1>1. Init => PortInit
    BY DEF Init
  <1>. QED
    BY <1>1, PortStep, PTL DEF Spec, PortSpec

\* What is proved of the class therefore holds in the daemon: no two receivers
\* are ever given the same port after the first.
THEOREM DaemonLaterPortsExclusive == Spec => []LaterPortsExclusive
  BY DaemonImplementsPorts, LaterPortsAreExclusive, PTL

\* In a daemon with any number of ports and requests two receivers share a port only
\* when more ports were granted than there are.
THEOREM DaemonWithinCapacity == Spec => []WithinCapacityExclusive
  <1>1. Init => CapacityInv
    BY CapacityInit DEF Init
  <1>2. PortTypeOK /\ FirstIsMostUsed /\ CapacityInv /\ [Next]_vars => CapacityInv'
    BY GrantStep, CapacityStep
  <1>3. CapacityInv => WithinCapacityExclusive
    BY DEF CapacityInv, WithinCapacity, WithinCapacityExclusive
  <1>. QED
    BY <1>1, <1>2, <1>3, DaemonImplementsPorts, PortTypeCorrect, FirstMostUsed, PTL
       DEF Spec

-----------------------------------------------------------------------------
LEMMA DaemonTypeStep ==
    ASSUME DaemonTypeOK, [Next]_vars
    PROVE  DaemonTypeOK'
  <1> USE RequestsAssumption DEF DaemonTypeOK, Goto, Outcomes, Requests, Starters
  <1>1. ASSUME NEW q \in Requests, RequestStep(q)
        PROVE  DaemonTypeOK'
    <2>1. CASE GetLogger(q) \/ CheckStopFlag(q)
      BY <2>1 DEF GetLogger, CheckStopFlag, FirstStep, containerVars, processVars, mainVars
    <2>2. CASE q \in Receivers /\ (ForcePort(q) \/ GetFreePort(q))
      BY <2>2 DEF ForcePort, GetFreePort, containerVars, processVars, mainVars
    <2>3. CASE q \in Senders /\ (SetUp(q) \/ SetSyncFlag(q))
      <3>1. CASE SetUp(q)
        BY <2>3, <3>1 DEF SetUp, containerVars, processVars, mainVars
      <3>2. CASE SetSyncFlag(q)
        BY <2>3, <3>2 DEF SetSyncFlag, containerVars, mainVars
      <3>. QED
        BY <2>3, <3>1, <3>2
    <2>4. CASE q \in Starters /\ StarterStep(q)
      <3>1. CASE Insert(q)
        BY <2>4, <3>1 DEF Insert, Ids, processVars, mainVars
      <3>2. CASE FreeInserted(q)
        BY <2>4, <3>2 DEF FreeInserted, processVars, mainVars
      <3>3. CASE ~ Insert(q) /\ ~ FreeInserted(q)
        BY <2>4, <3>3 DEF StarterStep, CheckPresence, SpawnFails, Spawn, CheckAgain,
                          containerVars, processVars, mainVars
      <3>. QED
        BY <3>1, <3>2, <3>3
    <2>5. CASE q \in Cleaners /\ CleanerStep(q)
      <3>1. CASE GetExecutor(q) \/ LookUp(q) \/ Fetch(q) \/ Poll(q) \/ CheckSyncFlag(q)
        BY <2>5, <3>1 DEF GetExecutor, LookUp, Fetch, Poll, CheckSyncFlag, Ids,
                          containerVars, processVars, mainVars
      <3>2. CASE Remove(q) \/ PutBack(q)
        BY <2>5, <3>2 DEF Remove, PutBack, Ids, processVars, mainVars
      <3>. QED
        BY <2>5, <3>1, <3>2 DEF CleanerStep
    <2>. QED
      BY <1>1, <2>1, <2>2, <2>3, <2>4, <2>5 DEF RequestStep
  <1>2. CASE MainStep
    BY <1>2 DEF MainStep, HandlerStep, HupAcquire, HupCount, HupRaise, SetStop, ShutdownAcquire,
                ShutdownRelease, CheckPort, RemovePidFile, Unwound,
                containerVars, requestVars, processVars
  <1>3. CASE Environment
    BY <1>3 DEF Environment, Arrive, ProcessEnds, Hup, Term, Unwound,
                containerVars, requestVars, processVars, mainVars
  <1>4. CASE UNCHANGED vars
    BY <1>4 DEF vars, containerVars, requestVars, processVars, mainVars
  <1>. QED
    BY <1>1, <1>2, <1>3, <1>4 DEF Next

\* Type correctness of the daemon, its ports included.
THEOREM TypeCorrect == Spec => []TypeOK
  <1>1. Init => DaemonTypeOK
    <2> SUFFICES ASSUME Init
                 PROVE  DaemonTypeOK
      OBVIOUS
    <2>1. signals \in 0 .. MaxSignals
      BY RequestsAssumption DEF Init
    <2>. QED
      BY <2>1 DEF Init, DaemonTypeOK
  <1>2. Spec => []DaemonTypeOK
    BY <1>1, DaemonTypeStep, PTL DEF Spec
  <1>. QED
    BY <1>2, DaemonImplementsPorts, PortTypeCorrect, PTL DEF TypeOK

-----------------------------------------------------------------------------
\* Who holds executorsLock.  That a request holds it exactly between its change of the
\* container and the release is inductive only together with the places where the main thread
\* holds it: the count of the SIGHUP handler and the loop of shutdown, which a
\* handler cannot interrupt to the end, as it would wait for the lock itself.
LockInv ==
    /\ RequestsFreeTheLock
    /\ hup = "count" => executorsLock = Main
    /\ main = "iterate" => executorsLock = Main /\ hup \notin {"count", "raise"}

LEMMA LockInvStep ==
    ASSUME DaemonTypeOK, LockInv, [Next]_vars
    PROVE  LockInv'
  <1> USE RequestsAssumption DEF DaemonTypeOK, LockInv, RequestsFreeTheLock, Goto, Requests, Starters
  <1>1. ASSUME NEW q \in Requests, RequestStep(q)
        PROVE  LockInv'
    <2>1. CASE GetLogger(q)
      BY <2>1 DEF GetLogger, containerVars, mainVars
    <2>2. CASE CheckStopFlag(q)
      BY <2>2 DEF CheckStopFlag, FirstStep, containerVars, mainVars
    <2>3. CASE q \in Receivers /\ (ForcePort(q) \/ GetFreePort(q))
      BY <2>3 DEF ForcePort, GetFreePort, containerVars, mainVars
    <2>4. CASE q \in Senders /\ (SetUp(q) \/ SetSyncFlag(q))
      BY <2>4 DEF SetUp, SetSyncFlag, containerVars, mainVars
    <2>5. CASE q \in Starters /\ StarterStep(q)
      BY <2>5 DEF StarterStep, CheckPresence, SpawnFails, Spawn, CheckAgain, Insert, FreeInserted,
                  containerVars, mainVars
    <2>6. CASE q \in Cleaners /\ CleanerStep(q)
      <3>1. CASE GetExecutor(q) \/ LookUp(q) \/ Fetch(q) \/ Poll(q) \/ CheckSyncFlag(q)
        BY <2>6, <3>1 DEF GetExecutor, LookUp, Fetch, Poll, CheckSyncFlag, containerVars, mainVars
      <3>2. CASE Remove(q)
        BY <2>6, <3>2 DEF Remove, mainVars
      <3>3. CASE PutBack(q)
        BY <2>6, <3>3 DEF PutBack, mainVars
      <3>. QED
        BY <2>6, <3>1, <3>2, <3>3 DEF CleanerStep
    <2>. QED
      BY <1>1, <2>1, <2>2, <2>3, <2>4, <2>5, <2>6 DEF RequestStep
  <1>2. CASE MainStep
    BY <1>2 DEF MainStep, HandlerStep, HupAcquire, HupCount, HupRaise, SetStop, ShutdownAcquire,
                ShutdownRelease, CheckPort, RemovePidFile, Unwound,
                containerVars, requestVars, processVars
  <1>3. CASE Environment
    <2>1. ASSUME NEW q \in Requests, Arrive(q)
          PROVE  LockInv'
      BY <2>1 DEF Arrive, containerVars, mainVars
    <2>2. ASSUME NEW e \in Starters, ProcessEnds(e)
          PROVE  LockInv'
      BY <2>2 DEF ProcessEnds, containerVars, requestVars, mainVars
    <2>3. CASE Hup \/ Term
      BY <2>3 DEF Hup, Term, Unwound, containerVars, requestVars
    <2>. QED
      BY <1>3, <2>1, <2>2, <2>3 DEF Environment
  <1>4. CASE UNCHANGED vars
    BY <1>4 DEF vars, containerVars, requestVars, mainVars
  <1>. QED
    BY <1>1, <1>2, <1>3, <1>4 DEF Next

LEMMA LockInvHolds == Spec => [](DaemonTypeOK /\ LockInv)
  <1>1. Init => LockInv
    BY RequestsAssumption DEF Init, LockInv, RequestsFreeTheLock, Requests, Starters
  <1>2. Spec => []DaemonTypeOK
    BY TypeCorrect, PTL DEF TypeOK
  <1>. QED
    BY <1>1, <1>2, LockInvStep, PTL DEF Spec

\* Whatever the requests and the signals, a request thread, of a start or of a cleanup,
\* holds executorsLock exactly from its change of the container to the release that
\* comes next, and so never leaves it taken.
THEOREM RequestsAlwaysFreeTheLock == Spec => []RequestsFreeTheLock
  BY LockInvHolds, PTL DEF LockInv

-----------------------------------------------------------------------------
\* What the main thread leaves behind.  One signal takes it out of the request loop or
\* into the SIGHUP handler, and never into both; only a second one can interrupt the
\* handler, or the shutdown, where it holds the lock.
OneSignal ==
    /\ main # "loop" \/ hup # "none" => signals # 0
    /\ main = "loop" \/ hup = "none" \/ signals > 1

LeavesInv == OneSignal /\ MainFreesTheLock

LEMMA LeavesInvStep ==
    ASSUME DaemonTypeOK, LeavesInv, [Next]_vars
    PROVE  LeavesInv'
  <1> USE RequestsAssumption
      DEF DaemonTypeOK, LeavesInv, OneSignal, MainFreesTheLock
  <1>1. ASSUME NEW q \in Requests, RequestStep(q)
        PROVE  LeavesInv'
    <2>1. UNCHANGED <<stopFlag, main, hup, pidFile, signals>>
      BY <1>1 DEF RequestStep, StarterStep, CleanerStep, GetLogger, CheckStopFlag, ForcePort,
                  GetFreePort, SetUp, SetSyncFlag, CheckPresence, SpawnFails, Spawn, CheckAgain,
                  Insert, FreeInserted, GetExecutor, LookUp, Fetch, Poll, Remove, PutBack, CheckSyncFlag, mainVars
    <2>2. executorsLock' = Main => executorsLock = Main
      BY <1>1 DEF RequestStep, StarterStep, CleanerStep, GetLogger, CheckStopFlag, ForcePort,
                  GetFreePort, SetUp, SetSyncFlag, CheckPresence, SpawnFails, Spawn, CheckAgain,
                  Insert, FreeInserted, GetExecutor, LookUp, Fetch, Poll, Remove, PutBack, CheckSyncFlag,
                  containerVars, Requests
    <2>. QED
      BY <2>1, <2>2
  <1>2. CASE MainStep
    BY <1>2 DEF MainStep, HandlerStep, HupAcquire, HupCount, HupRaise, SetStop, ShutdownAcquire,
                ShutdownRelease, CheckPort, RemovePidFile, Unwound,
                containerVars
  <1>3. CASE Environment
    <2>1. ASSUME NEW q \in Requests, Arrive(q)
          PROVE  LeavesInv'
      BY <2>1 DEF Arrive, containerVars, mainVars
    <2>2. ASSUME NEW e \in Starters, ProcessEnds(e)
          PROVE  LeavesInv'
      BY <2>2 DEF ProcessEnds, containerVars, mainVars
    <2>3. CASE Hup \/ Term
      BY <2>3 DEF Hup, Term, Unwound, containerVars
    <2>. QED
      BY <1>3, <2>1, <2>2, <2>3 DEF Environment
  <1>4. CASE UNCHANGED vars
    BY <1>4 DEF vars, containerVars, mainVars
  <1>. QED
    BY <1>1, <1>2, <1>3, <1>4 DEF Next

LEMMA LeavesInvHolds == Spec => []LeavesInv
  <1>1. Init => LeavesInv
    BY RequestsAssumption DEF Init, LeavesInv, OneSignal, MainFreesTheLock
  <1>2. Spec => []DaemonTypeOK
    BY TypeCorrect, PTL DEF TypeOK
  <1>. QED
    BY <1>1, <1>2, LeavesInvStep, PTL DEF Spec

\* As long as no second signal comes, the main thread holds executorsLock only where its
\* next step releases it, whatever the requests do and in whatever order.
THEOREM MainThreadFreesTheLock == Spec => []MainFreesTheLock
  BY LeavesInvHolds, PTL DEF LeavesInv

-----------------------------------------------------------------------------
\* ContainerSound is inductive with the fact that a starter inserts its executor
\* only after Popen.
ContainerInv ==
    /\ ContainerSound
    /\ \A e \in Starters : pc[e] \in {"add", "insert"} => proc[e] # "none"

LEMMA ContainerInvStep ==
    ASSUME DaemonTypeOK, ContainerInv, [Next]_vars
    PROVE  ContainerInv'
  <1> USE RequestsAssumption DEF DaemonTypeOK, ContainerInv, ContainerSound, Goto, Requests, Starters
  <1>1. ASSUME NEW q \in Requests, RequestStep(q)
        PROVE  ContainerInv'
    <2>1. CASE GetLogger(q)
      BY <2>1 DEF GetLogger, containerVars, processVars
    <2>2. CASE CheckStopFlag(q)
      BY <2>2 DEF CheckStopFlag, FirstStep, containerVars, processVars
    <2>3. CASE q \in Receivers /\ (ForcePort(q) \/ GetFreePort(q))
      BY <2>3 DEF ForcePort, GetFreePort, containerVars, processVars
    <2>4. CASE q \in Senders /\ (SetUp(q) \/ SetSyncFlag(q))
      BY <2>4 DEF SetUp, SetSyncFlag, containerVars, processVars
    <2>5. CASE q \in Starters /\ StarterStep(q)
      <3>1. CASE CheckPresence(q) \/ SpawnFails(q) \/ CheckAgain(q)
        BY <2>5, <3>1 DEF CheckPresence, SpawnFails, CheckAgain, containerVars, processVars
      <3>2. CASE Spawn(q)
        BY <2>5, <3>2 DEF Spawn, containerVars
      <3>3. CASE Insert(q)
        BY <2>5, <3>3 DEF Insert, processVars, Ids
      <3>4. CASE FreeInserted(q)
        BY <2>5, <3>4 DEF FreeInserted, processVars
      <3>. QED
        BY <2>5, <3>1, <3>2, <3>3, <3>4 DEF StarterStep
    <2>6. CASE q \in Cleaners /\ CleanerStep(q)
      <3>1. CASE GetExecutor(q) \/ LookUp(q) \/ Poll(q) \/ CheckSyncFlag(q)
        BY <2>6, <3>1 DEF GetExecutor, LookUp, Poll, CheckSyncFlag, containerVars, processVars
      <3>2. CASE Fetch(q)
        <4>1. IdOf[q] \in Ids
          BY DEF Ids
        <4>. QED
          BY <2>6, <3>2, <4>1 DEF Fetch, Present, containerVars, processVars
      <3>3. CASE Remove(q)
        BY <2>6, <3>3 DEF Remove, processVars
      <3>4. CASE PutBack(q)
        BY <2>6, <3>4 DEF PutBack, processVars
      <3>. QED
        BY <2>6, <3>1, <3>2, <3>3, <3>4 DEF CleanerStep
    <2>. QED
      BY <1>1, <2>1, <2>2, <2>3, <2>4, <2>5, <2>6 DEF RequestStep
  <1>2. CASE MainStep
    BY <1>2 DEF MainStep, HandlerStep, HupAcquire, HupCount, HupRaise, SetStop, ShutdownAcquire,
                ShutdownRelease, CheckPort, RemovePidFile, containerVars, requestVars, processVars
  <1>3. CASE Environment
    <2>1. ASSUME NEW q \in Requests, Arrive(q)
          PROVE  ContainerInv'
      BY <2>1 DEF Arrive, containerVars, processVars
    <2>2. ASSUME NEW e \in Starters, ProcessEnds(e)
          PROVE  ContainerInv'
      BY <2>2 DEF ProcessEnds, containerVars, requestVars
    <2>3. CASE Hup \/ Term
      BY <2>3 DEF Hup, Term, containerVars, requestVars, processVars
    <2>. QED
      BY <1>3, <2>1, <2>2, <2>3 DEF Environment
  <1>4. CASE UNCHANGED vars
    BY <1>4 DEF vars, containerVars, requestVars, processVars
  <1>. QED
    BY <1>1, <1>2, <1>3, <1>4 DEF Next

LEMMA ContainerInvHolds == Spec => []ContainerInv
  <1>1. Init => ContainerInv
    BY RequestsAssumption DEF Init, ContainerInv, ContainerSound, Requests, Starters
  <1>2. Spec => []DaemonTypeOK
    BY TypeCorrect, PTL DEF TypeOK
  <1>. QED
    BY <1>1, <1>2, ContainerInvStep, PTL DEF Spec

\* Whatever the requests and the signals, an executor is found only under its own
\* id and only once its process exists.
THEOREM ContainerIsSound == Spec => []ContainerSound
  BY ContainerInvHolds, PTL DEF ContainerInv

-----------------------------------------------------------------------------
\* A starter that is through with addExecutor stays so.
Started(e) == pc[e] \in {"inserted", "mark", "ok"}

LEMMA StartedStaysStarted ==
    ASSUME DaemonTypeOK, [Next]_vars, NEW e \in Starters, Started(e)
    PROVE  Started(e)' /\ (pc[e] = "ok" => pc'[e] = "ok")
  <1> USE RequestsAssumption DEF DaemonTypeOK, Started, Goto, Requests, Starters
  <1>1. ASSUME NEW q \in Requests, RequestStep(q)
        PROVE  pc'[e] = pc[e] \/ (pc[e] # "ok" /\ pc'[e] \in {"mark", "ok"})
    <2>1. CASE q # e
      BY <1>1, <2>1
         DEF RequestStep, StarterStep, CleanerStep, GetLogger, CheckStopFlag, ForcePort,
             GetFreePort, SetUp, SetSyncFlag, CheckPresence, SpawnFails, Spawn, CheckAgain, Insert, FreeInserted,
             GetExecutor, LookUp, Fetch, Poll, Remove, PutBack, CheckSyncFlag
    <2>2. CASE q = e
      <3>1. q \notin Cleaners
        BY <2>2
      <3>2. (q \in Senders /\ SetSyncFlag(q)) \/ FreeInserted(q)
        BY <1>1, <2>2, <3>1
           DEF RequestStep, StarterStep, GetLogger, CheckStopFlag, ForcePort,
               GetFreePort, SetUp, CheckPresence, SpawnFails, Spawn, CheckAgain, Insert
      <3>. QED
        BY <2>2, <3>2 DEF SetSyncFlag, FreeInserted
    <2>. QED
      BY <2>1, <2>2
  <1>2. CASE MainStep
    BY <1>2 DEF MainStep, HandlerStep, HupAcquire, HupCount, HupRaise, SetStop, ShutdownAcquire,
                ShutdownRelease, CheckPort, RemovePidFile, requestVars
  <1>3. CASE Environment
    BY <1>3 DEF Environment, Arrive, ProcessEnds, Hup, Term, requestVars
  <1>4. CASE UNCHANGED vars
    BY <1>4 DEF vars, requestVars
  <1>. QED
    BY <1>1, <1>2, <1>3, <1>4 DEF Next

\* Where an entry goes: a step that takes the entry of an id out of the container
\* is a Remove, which leaves its cleanup about to put it back; and the entry is
\* put back by that cleanup or replaced by a new start, never lost.
Known(i) ==
    \/ executors[i] # NoExec
    \/ \E c \in Cleaners : pc[c] = "putBack" /\ IdOf[c] = i

LEMMA KnownStaysKnown ==
    ASSUME DaemonTypeOK, LockInv, ContainerInv, [Next]_vars, NEW i \in Ids, Known(i)
    PROVE  Known(i)'
  <1> USE RequestsAssumption DEF DaemonTypeOK, Known, Goto, Requests, Starters
  <1>1. ASSUME NEW q \in Requests, RequestStep(q)
        PROVE  Known(i)'
    <2>1. CASE q \in Cleaners /\ Remove(q)
      BY <2>1 DEF Remove, LockInv, RequestsFreeTheLock
    <2>2. CASE q \in Cleaners /\ PutBack(q)
      <3>1. found[q] # NoExec
        BY <2>2 DEF PutBack, ContainerInv, ContainerSound
      <3>2. executors' = [executors EXCEPT ![IdOf[q]] = found[q]]
            /\ pc' = [pc EXCEPT ![q] = "sync"]
        BY <2>2 DEF PutBack
      <3>. QED
        BY <2>2, <3>1, <3>2
    <2>3. CASE q \in Starters /\ Insert(q)
      BY <2>3 DEF Insert, LockInv, RequestsFreeTheLock
    <2>4. CASE GetLogger(q) \/ CheckStopFlag(q)
      BY <2>4 DEF GetLogger, CheckStopFlag, containerVars
    <2>5. CASE q \in Starters /\ ~ Insert(q) /\ ~ GetLogger(q) /\ ~ CheckStopFlag(q)
      BY <1>1, <2>5
         DEF RequestStep, StarterStep, ForcePort, GetFreePort, SetUp, SetSyncFlag, CheckPresence,
             SpawnFails, Spawn, CheckAgain, FreeInserted, containerVars
    <2>6. CASE q \in Cleaners /\ (GetExecutor(q) \/ LookUp(q) \/ Fetch(q) \/ Poll(q) \/ CheckSyncFlag(q))
      BY <2>6 DEF GetExecutor, LookUp, Fetch, Poll, CheckSyncFlag, containerVars
    <2>. QED
      BY <1>1, <2>1, <2>2, <2>3, <2>4, <2>5, <2>6 DEF RequestStep, CleanerStep
  <1>2. CASE MainStep
    BY <1>2 DEF MainStep, HandlerStep, HupAcquire, HupCount, HupRaise, SetStop, ShutdownAcquire,
                ShutdownRelease, CheckPort, RemovePidFile, containerVars, requestVars
  <1>3. CASE Environment
    <2>1. ASSUME NEW q \in Requests, Arrive(q)
          PROVE  Known(i)'
      BY <2>1 DEF Arrive, containerVars
    <2>. QED
      BY <1>3, <2>1 DEF Environment, ProcessEnds, Hup, Term, containerVars, requestVars
  <1>4. CASE UNCHANGED vars
    BY <1>4 DEF vars, containerVars, requestVars
  <1>. QED
    BY <1>1, <1>2, <1>3, <1>4 DEF Next

LEMMA StartedIdKnownStep ==
    ASSUME DaemonTypeOK, LockInv, ContainerInv, StartedIdKnown, [Next]_vars
    PROVE  StartedIdKnown'
  <1> USE RequestsAssumption DEF Requests, Starters
  <1> SUFFICES ASSUME NEW e \in Starters, Started(e)'
               PROVE  Known(IdOf[e])'
    BY DEF StartedIdKnown, Started, Known, Present
  <1>0. IdOf[e] \in Ids
    BY DEF Ids
  <1>1. CASE Started(e)
    <2>1. Known(IdOf[e])
      BY <1>1 DEF StartedIdKnown, Started, Known, Present
    <2>. QED
      BY <1>0, <2>1, KnownStaysKnown
  <1>2. CASE ~ Started(e)
    <2>1. \A q \in Requests : RequestStep(q) => q = e /\ Insert(e)
      BY <1>2
         DEF DaemonTypeOK, Started, Goto, RequestStep, StarterStep, CleanerStep, GetLogger,
             CheckStopFlag, FirstStep, ForcePort, GetFreePort, SetUp, SetSyncFlag, CheckPresence,
             SpawnFails, Spawn, CheckAgain, GetExecutor, LookUp, Fetch, Poll, Remove, PutBack,
             CheckSyncFlag, Insert, FreeInserted
    <2>2. pc' # pc => \E q \in Requests : RequestStep(q) \/ Arrive(q)
      BY DEF Next, MainStep, HandlerStep, HupAcquire, HupCount, HupRaise, SetStop,
             ShutdownAcquire, ShutdownRelease, CheckPort, RemovePidFile, Environment, ProcessEnds,
             Hup, Term, vars, requestVars
    <2>3. \A q \in Requests : ~ Arrive(q)
      BY <1>2 DEF Arrive, Goto, Started, DaemonTypeOK
    <2>4. Insert(e)
      BY <1>2, <2>1, <2>2, <2>3 DEF Started
    <2>. QED
      BY <1>0, <2>4 DEF Insert, Known, DaemonTypeOK
  <1>. QED
    BY <1>1, <1>2

\* The invariant of the daemon.
DaemonInv == DaemonTypeOK /\ LockInv /\ ContainerInv /\ StartedIdKnown

LEMMA DaemonInvHolds == Spec => []DaemonInv
  <1>1. Init => StartedIdKnown
    BY RequestsAssumption DEF Init, StartedIdKnown, Requests, Starters
  <1>2. Spec => [](DaemonTypeOK /\ LockInv /\ ContainerInv)
    BY LockInvHolds, ContainerInvHolds, PTL
  <1>. QED
    BY <1>1, <1>2, StartedIdKnownStep, PTL DEF Spec, DaemonInv

\* Whatever the requests and the signals, the id of a started transfer stays in
\* the container or with the cleanup that is about to put it back.
THEOREM StartedIdsStayKnown == Spec => []StartedIdKnown
  BY DaemonInvHolds, PTL DEF DaemonInv

\* While the lock is free, or held by the main thread, every started id is present.
LEMMA StartedIsPresent ==
    ASSUME DaemonInv, executorsLock \in {Free, Main}, NEW e \in Starters, Started(e)
    PROVE  executors[IdOf[e]] # NoExec
  BY RequestsAssumption
     DEF DaemonInv, LockInv, RequestsFreeTheLock, StartedIdKnown, Started, Present, Requests

\* Whatever the requests and the signals, a cleanup that looks up a started
\* transfer under the lock finds its executor.
THEOREM CleanupsSeeStarted == Spec => CleanupSeesStarted
  <1> DEFINE Sees == \A c \in Cleaners :
                 /\ pc[c] = "get" /\ pc'[c] = "kill"
                 /\ \E e \in Starters : IdOf[e] = IdOf[c] /\ pc[e] = "ok"
                 => target'[c] # NoExec
  <1>1. DaemonInv /\ [Next]_vars => [Sees]_vars
    <2> SUFFICES ASSUME DaemonInv, Next,
                        NEW c \in Cleaners, pc[c] = "get", pc'[c] = "kill",
                        NEW e \in Starters, IdOf[e] = IdOf[c], pc[e] = "ok"
                 PROVE  target'[c] # NoExec
      OBVIOUS
    <2> USE RequestsAssumption DEF Requests, Starters
    <2>1. DaemonTypeOK
      BY DEF DaemonInv
    <2>2. \A q \in Requests : RequestStep(q) => GetExecutor(c)
      BY <2>1
         DEF DaemonTypeOK, Goto, RequestStep, StarterStep, CleanerStep, GetLogger,
             CheckStopFlag, FirstStep, ForcePort, GetFreePort, SetUp, SetSyncFlag, CheckPresence,
             SpawnFails, Spawn, CheckAgain, GetExecutor, LookUp, Fetch, Poll, Remove, PutBack,
             CheckSyncFlag, Insert, FreeInserted
    <2>3. \E q \in Requests : RequestStep(q) \/ Arrive(q)
      BY DEF Next, MainStep, HandlerStep, HupAcquire, HupCount, HupRaise, SetStop,
             ShutdownAcquire, ShutdownRelease, CheckPort, RemovePidFile, Environment, ProcessEnds,
             Hup, Term, requestVars
    <2>4. \A q \in Requests : ~ Arrive(q)
      BY <2>1 DEF Arrive, Goto, DaemonTypeOK
    <2>5. GetExecutor(c)
      BY <2>2, <2>3, <2>4
    <2>6. executors[IdOf[c]] # NoExec
      BY <2>5, StartedIsPresent DEF GetExecutor, Started
    <2>. QED
      BY <2>1, <2>5, <2>6 DEF GetExecutor, DaemonTypeOK
  <1>. QED
    BY <1>1, DaemonInvHolds, PTL DEF Spec, CleanupSeesStarted

-----------------------------------------------------------------------------
\* SpawnedIsRegistered is inductive with the fact that an executor is in the container,
\* or in the hands of a cleanup, only after its starter was through with addExecutor.
RegisteredStarted ==
    /\ \A i \in Ids : executors[i] # NoExec => Started(executors[i])
    /\ \A c \in Cleaners : pc[c] \in {"poll", "remove", "putBack"} => Started(found[c])

LEMMA RegisteredStartedStep ==
    ASSUME DaemonTypeOK, ContainerInv, RegisteredStarted, [Next]_vars
    PROVE  RegisteredStarted'
  <1> USE RequestsAssumption DEF Requests, Starters
  <1>0. \A e \in Starters : Started(e) => Started(e)'
    BY StartedStaysStarted
  <1>1. ASSUME NEW i \in Ids, executors'[i] # NoExec
        PROVE  Started(executors[i])'
    <2>1. CASE executors'[i] = executors[i]
      <3>1. executors[i] \in Starters /\ Started(executors[i])
        BY <1>1, <2>1 DEF RegisteredStarted, DaemonTypeOK
      <3>. QED
        BY <1>0, <2>1, <3>1 DEF Started
    <2>2. CASE \E e \in Starters : Insert(e) /\ executors'[i] = e
      BY <2>2 DEF Insert, Started, Goto, DaemonTypeOK
    <2>3. CASE \E c \in Cleaners : PutBack(c) /\ executors'[i] = found[c]
      <3>1. PICK c \in Cleaners : PutBack(c) /\ executors'[i] = found[c]
        BY <2>3
      <3>2. found[c] \in Starters /\ Started(found[c])
        BY <3>1 DEF PutBack, RegisteredStarted, ContainerInv, ContainerSound, DaemonTypeOK
      <3>. QED
        BY <1>0, <3>1, <3>2 DEF Started
    <2>4. \/ executors'[i] = executors[i]
          \/ \E e \in Starters : Insert(e) /\ executors'[i] = e
          \/ \E c \in Cleaners : PutBack(c) /\ executors'[i] = found[c]
      <3>1. ASSUME NEW q \in Requests, RequestStep(q), executors' # executors
            PROVE  \/ q \in Starters /\ Insert(q)
                   \/ q \in Cleaners /\ (Remove(q) \/ PutBack(q))
        BY <3>1
           DEF RequestStep, StarterStep, CleanerStep, GetLogger, CheckStopFlag, ForcePort,
               GetFreePort, SetUp, SetSyncFlag, CheckPresence, SpawnFails, Spawn, CheckAgain,
               FreeInserted, GetExecutor, LookUp, Fetch, Poll, CheckSyncFlag, containerVars
      <3>2. executors' # executors => \E q \in Requests : RequestStep(q)
        BY DEF Next, MainStep, HandlerStep, HupAcquire, HupCount, HupRaise, SetStop,
               ShutdownAcquire, ShutdownRelease, CheckPort, RemovePidFile, Environment, Arrive,
               ProcessEnds, Hup, Term, vars, containerVars
      <3>3. CASE executors' # executors
        <4>1. PICK q \in Requests : RequestStep(q)
          BY <3>2, <3>3
        <4>2. CASE q \in Starters /\ Insert(q)
          BY <4>2 DEF Insert, DaemonTypeOK
        <4>3. CASE q \in Cleaners /\ Remove(q)
          BY <1>1, <4>3 DEF Remove, DaemonTypeOK
        <4>4. CASE q \in Cleaners /\ PutBack(q)
          BY <4>4 DEF PutBack, DaemonTypeOK
        <4>. QED
          BY <3>1, <3>3, <4>1, <4>2, <4>3, <4>4
      <3>. QED
        BY <3>3
    <2>. QED
      BY <2>1, <2>2, <2>3, <2>4
  <1>2. ASSUME NEW c \in Cleaners, pc'[c] \in {"poll", "remove", "putBack"}
        PROVE  Started(found[c])'
    <2>1. CASE Fetch(c)
      <3>1. IdOf[c] \in Ids /\ pc' = [pc EXCEPT ![c] = IF Present(c) THEN "poll" ELSE "killFailed"]
        BY <2>1 DEF Fetch, Ids, Goto
      <3>2. Present(c)
        BY <1>2, <3>1 DEF DaemonTypeOK
      <3>3. found'[c] = executors[IdOf[c]]
        BY <2>1 DEF Fetch, DaemonTypeOK
      <3>4. executors[IdOf[c]] \in Starters /\ Started(executors[IdOf[c]])
        BY <3>1, <3>2 DEF Present, RegisteredStarted, DaemonTypeOK
      <3>. QED
        BY <1>0, <3>3, <3>4 DEF Started
    <2>2. CASE ~ Fetch(c)
      <3>1. found'[c] = found[c] /\ pc[c] \in {"poll", "remove", "putBack"}
        <4>1. ASSUME NEW q \in Requests, RequestStep(q)
              PROVE  found'[c] = found[c] /\ pc[c] \in {"poll", "remove", "putBack"}
          <5>1. CASE q = c
            BY <1>2, <2>2, <4>1, <5>1
               DEF RequestStep, CleanerStep, GetLogger, CheckStopFlag, FirstStep, GetExecutor,
                   LookUp, Poll, Remove, PutBack, CheckSyncFlag, Goto, DaemonTypeOK
          <5>2. CASE q # c
            BY <1>2, <4>1, <5>2
               DEF RequestStep, StarterStep, CleanerStep, GetLogger, CheckStopFlag, ForcePort,
                   GetFreePort, SetUp, SetSyncFlag, CheckPresence, SpawnFails, Spawn, CheckAgain,
                   Insert, FreeInserted, GetExecutor, LookUp, Fetch, Poll, Remove, PutBack, CheckSyncFlag,
                   Goto, DaemonTypeOK
          <5>. QED
            BY <5>1, <5>2
        <4>2. CASE MainStep
          BY <1>2, <4>2
             DEF MainStep, HandlerStep, HupAcquire, HupCount, HupRaise, SetStop, ShutdownAcquire,
                 ShutdownRelease, CheckPort, RemovePidFile, requestVars
        <4>3. CASE Environment
          BY <1>2, <4>3 DEF Environment, Arrive, ProcessEnds, Hup, Term, Goto, requestVars, DaemonTypeOK
        <4>4. CASE UNCHANGED vars
          BY <1>2, <4>4 DEF vars, requestVars
        <4>. QED
          BY <4>1, <4>2, <4>3, <4>4 DEF Next
      <3>2. found[c] \in Starters /\ Started(found[c])
        BY <3>1 DEF RegisteredStarted, ContainerInv, ContainerSound, DaemonTypeOK
      <3>. QED
        BY <1>0, <3>1, <3>2 DEF Started
    <2>. QED
      BY <2>1, <2>2
  <1>. QED
    BY <1>1, <1>2 DEF RegisteredStarted

LEMMA RegisteredStartedHolds == Spec => []RegisteredStarted
  <1>1. Init => RegisteredStarted
    BY RequestsAssumption DEF Init, RegisteredStarted, Requests, Starters
  <1>. QED
    BY <1>1, DaemonInvHolds, RegisteredStartedStep, PTL DEF Spec, DaemonInv

\* No other process was ever started for the id of e.
Sole(e) == \A f \in Starters \ {e} : IdOf[f] = IdOf[e] => proc[f] = "none"

Registered(e) ==
    \/ executors[IdOf[e]] = e
    \/ \E c \in Cleaners : pc[c] = "putBack" /\ found[c] = e

SpawnedInv ==
    \A e \in Starters : proc[e] # "none" /\ Sole(e) =>
        \/ pc[e] \in {"add", "insert"}
        \/ Started(e) /\ Registered(e)

\* The step of a request that has not lost its entry keeps it.
LEMMA RegisteredStaysRegistered ==
    ASSUME DaemonTypeOK, LockInv, ContainerInv, [Next]_vars,
           NEW e \in Starters, proc[e] # "none", Sole(e), Sole(e)', Registered(e)
    PROVE  Registered(e)'
  <1> USE RequestsAssumption DEF DaemonTypeOK, Goto, Requests, Starters
  <1>0. IdOf[e] \in Ids
    BY DEF Ids
  <1>1. ASSUME NEW q \in Requests, RequestStep(q)
        PROVE  Registered(e)'
    <2>1. CASE q \in Cleaners /\ Remove(q)
      <3>1. \A c \in Cleaners : pc[c] # "putBack"
        BY <2>1 DEF Remove, LockInv, RequestsFreeTheLock
      <3>2. executors[IdOf[e]] = e
        BY <3>1 DEF Registered
      <3>3. CASE IdOf[q] = IdOf[e]
        <4>1. found[q] \in Starters /\ IdOf[found[q]] = IdOf[q] /\ proc[found[q]] # "none"
          BY <2>1 DEF Remove, ContainerInv, ContainerSound
        <4>2. found[q] = e
          BY <3>3, <4>1 DEF Sole
        <4>. QED
          BY <2>1, <4>2 DEF Remove, Registered
      <3>4. CASE IdOf[q] # IdOf[e]
        BY <1>0, <2>1, <3>2, <3>4 DEF Remove, Registered
      <3>. QED
        BY <3>3, <3>4
    <2>2. CASE q \in Cleaners /\ PutBack(q)
      <3>1. found[q] \in Starters /\ IdOf[found[q]] = IdOf[q] /\ proc[found[q]] # "none"
        BY <2>2 DEF PutBack, ContainerInv, ContainerSound
      <3>2. IdOf[q] = IdOf[e] => found[q] = e
        BY <3>1 DEF Sole
      <3>3. \A c \in Cleaners : pc[c] = "putBack" => c = q
        BY <2>2 DEF PutBack, LockInv, RequestsFreeTheLock
      <3>4. executors' = [executors EXCEPT ![IdOf[q]] = found[q]]
        BY <2>2 DEF PutBack
      <3>5. CASE IdOf[q] = IdOf[e]
        BY <1>0, <3>2, <3>4, <3>5 DEF Registered
      <3>6. CASE IdOf[q] # IdOf[e]
        <4>1. executors[IdOf[e]] = e
          BY <3>1, <3>3, <3>6 DEF Registered
        <4>. QED
          BY <1>0, <3>4, <3>6, <4>1 DEF Registered
      <3>. QED
        BY <3>5, <3>6
    <2>3. CASE q \in Starters /\ Insert(q)
      <3>1. proc[q] # "none"
        BY <2>3 DEF Insert, ContainerInv
      <3>2. IdOf[q] = IdOf[e] => q = e
        BY <2>3, <3>1 DEF Sole
      <3>3. \A c \in Cleaners : pc[c] # "putBack"
        BY <2>3 DEF Insert, LockInv, RequestsFreeTheLock
      <3>4. executors[IdOf[e]] = e
        BY <3>3 DEF Registered
      <3>. QED
        BY <1>0, <2>3, <3>2, <3>4 DEF Insert, Registered
    <2>4. CASE GetLogger(q) \/ CheckStopFlag(q)
      BY <2>4 DEF GetLogger, CheckStopFlag, Registered, containerVars
    <2>5. CASE q \in Starters /\ ~ Insert(q) /\ ~ GetLogger(q) /\ ~ CheckStopFlag(q)
      BY <1>1, <2>5
         DEF RequestStep, StarterStep, ForcePort, GetFreePort, SetUp, SetSyncFlag, CheckPresence,
             SpawnFails, Spawn, CheckAgain, FreeInserted, Registered, containerVars
    <2>6. CASE q \in Cleaners /\ (GetExecutor(q) \/ LookUp(q) \/ Fetch(q) \/ Poll(q) \/ CheckSyncFlag(q))
      BY <2>6 DEF GetExecutor, LookUp, Fetch, Poll, CheckSyncFlag, Registered, containerVars
    <2>. QED
      BY <1>1, <2>1, <2>2, <2>3, <2>4, <2>5, <2>6 DEF RequestStep, CleanerStep
  <1>2. CASE MainStep
    BY <1>2 DEF MainStep, HandlerStep, HupAcquire, HupCount, HupRaise, SetStop, ShutdownAcquire,
                ShutdownRelease, CheckPort, RemovePidFile, Registered, containerVars, requestVars
  <1>3. CASE Environment
    BY <1>3 DEF Environment, Arrive, ProcessEnds, Hup, Term, Registered, containerVars, requestVars
  <1>4. CASE UNCHANGED vars
    BY <1>4 DEF vars, Registered, containerVars, requestVars
  <1>. QED
    BY <1>1, <1>2, <1>3, <1>4 DEF Next

\* A process, once started, has been started; nothing but its own start starts it.
LEMMA ProcSteps ==
    ASSUME DaemonTypeOK, [Next]_vars, NEW e \in Starters
    PROVE  /\ proc[e] # "none" => proc'[e] # "none"
           /\ proc'[e] # "none" => proc[e] # "none" \/ Spawn(e)
  <1> USE RequestsAssumption DEF DaemonTypeOK, Requests, Starters
  <1>1. ASSUME NEW q \in Requests, RequestStep(q)
        PROVE  UNCHANGED proc \/ (q \in Starters /\ Spawn(q))
    BY <1>1
       DEF RequestStep, StarterStep, CleanerStep, GetLogger, CheckStopFlag, ForcePort,
           GetFreePort, SetUp, SetSyncFlag, CheckPresence, SpawnFails, CheckAgain, Insert, FreeInserted,
           GetExecutor, LookUp, Fetch, Poll, Remove, PutBack, CheckSyncFlag, processVars
  <1>2. ASSUME NEW q \in Starters, Spawn(q)
        PROVE  proc' = [proc EXCEPT ![q] = "running"]
    BY <1>2 DEF Spawn
  <1>3. CASE MainStep
    BY <1>3 DEF MainStep, HandlerStep, HupAcquire, HupCount, HupRaise, SetStop, ShutdownAcquire,
                ShutdownRelease, CheckPort, RemovePidFile, processVars
  <1>4. CASE Environment
    <2>1. ASSUME NEW f \in Starters, ProcessEnds(f)
          PROVE  /\ proc[e] # "none" => proc'[e] # "none"
                 /\ proc'[e] # "none" => proc[e] # "none"
      BY <2>1 DEF ProcessEnds
    <2>. QED
      BY <1>4, <2>1 DEF Environment, Arrive, Hup, Term, processVars
  <1>5. CASE UNCHANGED vars
    BY <1>5 DEF vars, processVars
  <1>6. CASE \E q \in Requests : RequestStep(q)
    BY <1>1, <1>2, <1>6
  <1>. QED
    BY <1>3, <1>4, <1>5, <1>6 DEF Next

LEMMA SpawnedInvStep ==
    ASSUME DaemonInv, RegisteredStarted, SpawnedInv, [Next]_vars
    PROVE  SpawnedInv'
  <1> USE RequestsAssumption DEF Requests, Starters
  <1>1. DaemonTypeOK /\ LockInv /\ ContainerInv
    BY DEF DaemonInv
  <1> SUFFICES ASSUME NEW e \in Starters, proc'[e] # "none", Sole(e)'
               PROVE  \/ pc'[e] \in {"add", "insert"}
                      \/ Started(e)' /\ Registered(e)'
    BY DEF SpawnedInv
  <1>2. Sole(e)
    BY <1>1, ProcSteps DEF Sole
  <1>3. CASE Spawn(e)
    BY <1>1, <1>3 DEF Spawn, Goto, DaemonTypeOK
  <1>4. CASE proc[e] # "none" /\ Started(e)
    <2>1. Registered(e)
      BY <1>2, <1>4 DEF SpawnedInv, Started
    <2>. QED
      BY <1>1, <1>2, <1>4, <2>1, RegisteredStaysRegistered, StartedStaysStarted
  <1>5. CASE proc[e] # "none" /\ pc[e] \in {"add", "insert"}
    <2>1. executors[IdOf[e]] = NoExec
      <3>1. IdOf[e] \in Ids
        BY DEF Ids
      <3>2. ASSUME executors[IdOf[e]] # NoExec
            PROVE  FALSE
        <4>1. executors[IdOf[e]] \in Starters /\ Started(executors[IdOf[e]])
          BY <1>1, <3>1, <3>2 DEF RegisteredStarted, DaemonTypeOK
        <4>2. IdOf[executors[IdOf[e]]] = IdOf[e] /\ proc[executors[IdOf[e]]] # "none"
          BY <1>1, <3>1, <3>2 DEF ContainerInv, ContainerSound
        <4>3. executors[IdOf[e]] = e
          BY <1>2, <4>1, <4>2 DEF Sole
        <4>. QED
          BY <1>5, <4>1, <4>3 DEF Started
      <3>. QED
        BY <3>2
    <2>2. CASE CheckAgain(e)
      BY <1>1, <2>1, <2>2 DEF CheckAgain, Present, Goto, DaemonTypeOK
    <2>3. CASE Insert(e)
      BY <1>1, <2>3 DEF Insert, Goto, Ids, Started, Registered, DaemonTypeOK
    <2>4. CASE ~ CheckAgain(e) /\ ~ Insert(e)
      <3>1. ASSUME NEW q \in Requests, RequestStep(q)
            PROVE  pc'[e] = pc[e]
        <4>1. CASE q = e
          BY <1>1, <1>5, <2>4, <3>1, <4>1
             DEF RequestStep, StarterStep, CleanerStep, GetLogger, CheckStopFlag, ForcePort,
                 GetFreePort, SetUp, SetSyncFlag, CheckPresence, SpawnFails, Spawn, FreeInserted
        <4>2. CASE q # e
          BY <1>1, <3>1, <4>2
             DEF RequestStep, StarterStep, CleanerStep, GetLogger, CheckStopFlag, ForcePort,
                 GetFreePort, SetUp, SetSyncFlag, CheckPresence, SpawnFails, Spawn, CheckAgain,
                 Insert, FreeInserted, GetExecutor, LookUp, Fetch, Poll, Remove, PutBack, CheckSyncFlag,
                 Goto, DaemonTypeOK
        <4>. QED
          BY <4>1, <4>2
      <3>2. ASSUME MainStep
            PROVE  pc'[e] = pc[e]
        BY <3>2 DEF MainStep, HandlerStep, HupAcquire, HupCount, HupRaise, SetStop,
                    ShutdownAcquire, ShutdownRelease, CheckPort, RemovePidFile, requestVars
      <3>3. ASSUME Environment
            PROVE  pc'[e] = pc[e]
        BY <1>1, <1>5, <3>3
           DEF Environment, Arrive, ProcessEnds, Hup, Term, Goto, requestVars, DaemonTypeOK
      <3>4. ASSUME UNCHANGED vars
            PROVE  pc'[e] = pc[e]
        BY <3>4 DEF vars, requestVars
      <3>5. pc'[e] = pc[e]
        BY <3>1, <3>2, <3>3, <3>4 DEF Next
      <3>. QED
        BY <1>5, <3>5
    <2>. QED
      BY <2>2, <2>3, <2>4
  <1>6. proc[e] # "none" \/ Spawn(e)
    BY <1>1, ProcSteps
  <1>. QED
    BY <1>2, <1>3, <1>4, <1>5, <1>6 DEF SpawnedInv

\* Whatever the requests and the signals, a process is out of the daemon's sight only
\* if another one was started for the same id.
THEOREM SpawnedAreRegistered == Spec => []SpawnedIsRegistered
  <1>1. Init => SpawnedInv
    BY DEF Init, SpawnedInv
  <1>2. Spec => []SpawnedInv
    BY <1>1, DaemonInvHolds, RegisteredStartedHolds, SpawnedInvStep, PTL DEF Spec
  <1>3. SpawnedInv => SpawnedIsRegistered
    BY DEF SpawnedInv, SpawnedIsRegistered, Sole, Started, Registered, Ended, Outcomes
  <1>. QED
    BY <1>2, <1>3, PTL

-----------------------------------------------------------------------------
\* StartsRefined needs to know, at every point of a start, whether its process exists: it
\* does exactly from Popen on.  A start that addExecutor refuses found a registered
\* executor, which is another's, as its own is not registered yet.
AnswerInv ==
    \A e \in Starters :
        /\ proc[e] # "none" => pc[e] \in {"add", "insert", "inserted", "mark", "ok", "duplicate"}
        /\ pc[e] \in {"add", "insert", "inserted", "mark", "ok"} => proc[e] # "none"
        /\ pc[e] = "duplicate" => \E f \in Starters \ {e} : IdOf[f] = IdOf[e] /\ proc[f] # "none"

\* The steps that matter to the start e: to which points they take it, and from where.
LEMMA StarterMoves ==
    ASSUME DaemonTypeOK, [Next]_vars, NEW e \in Starters
    PROVE  \/ pc'[e] = pc[e] /\ (proc[e] = "none" => proc'[e] = "none")
           \/ Spawn(e) \/ CheckAgain(e) \/ Insert(e)
           \/ pc[e] \in {"inserted", "mark"} /\ pc'[e] \in {"mark", "ok"} /\ proc' = proc
           \/ /\ pc[e] \notin Outcomes \cup {"add", "insert", "inserted", "mark"}
              /\ pc'[e] \notin {"add", "insert", "inserted", "mark", "ok", "duplicate"}
              /\ proc' = proc
  <1> USE RequestsAssumption DEF DaemonTypeOK, Outcomes, Requests, Starters
  <1>1. ASSUME NEW q \in Requests, RequestStep(q), q # e
        PROVE  pc'[e] = pc[e]
    BY <1>1
       DEF RequestStep, StarterStep, CleanerStep, GetLogger, CheckStopFlag, ForcePort,
           GetFreePort, SetUp, SetSyncFlag, CheckPresence, SpawnFails, Spawn, CheckAgain,
           Insert, FreeInserted, GetExecutor, LookUp, Fetch, Poll, Remove, PutBack, CheckSyncFlag, Goto
  <1>2. CASE RequestStep(e) /\ ~ Spawn(e) /\ ~ CheckAgain(e) /\ ~ Insert(e)
    <2>1. e \notin Cleaners
      OBVIOUS
    <2>2. CASE e \in Senders /\ SetSyncFlag(e)
      BY <2>2 DEF SetSyncFlag, Goto
    <2>3. CASE e \in Receivers /\ (ForcePort(e) \/ GetFreePort(e))
      BY <2>3 DEF ForcePort, GetFreePort, Goto, processVars
    <2>4. CASE GetLogger(e) \/ CheckStopFlag(e)
      BY <2>1, <2>4 DEF GetLogger, CheckStopFlag, FirstStep, Goto, processVars
    <2>5. CASE (e \in Senders /\ SetUp(e)) \/ CheckPresence(e) \/ SpawnFails(e)
      BY <2>5 DEF SetUp, CheckPresence, SpawnFails, Goto, processVars
    <2>6. CASE FreeInserted(e)
      BY <2>6 DEF FreeInserted, Goto, processVars
    <2>. QED
      BY <1>2, <2>1, <2>2, <2>3, <2>4, <2>5, <2>6 DEF RequestStep, StarterStep
  <1>3. CASE Arrive(e)
    BY <1>3 DEF Arrive, Goto, processVars
  <1>4. ASSUME NEW q \in Requests, Arrive(q), q # e
        PROVE  pc'[e] = pc[e]
    BY <1>4 DEF Arrive, Goto
  <1>5. ASSUME MainStep
        PROVE  pc'[e] = pc[e]
    BY <1>5 DEF MainStep, HandlerStep, HupAcquire, HupCount, HupRaise, SetStop, ShutdownAcquire,
                ShutdownRelease, CheckPort, RemovePidFile, requestVars
  <1>6. ASSUME (\E f \in Starters : ProcessEnds(f)) \/ Hup \/ Term
        PROVE  pc'[e] = pc[e]
    BY <1>6 DEF ProcessEnds, Hup, Term, requestVars
  <1>7. ASSUME UNCHANGED vars
        PROVE  pc'[e] = pc[e]
    BY <1>7 DEF vars, requestVars
  <1>8. proc[e] = "none" => proc'[e] = "none" \/ Spawn(e)
    BY ProcSteps
  <1>9. \/ pc'[e] = pc[e]
        \/ RequestStep(e) \/ Arrive(e)
    BY <1>1, <1>4, <1>5, <1>6, <1>7 DEF Next, Environment
  <1>. QED
    BY <1>2, <1>3, <1>8, <1>9

\* A start that has ended takes no step.
LEMMA EndedStays ==
    ASSUME DaemonTypeOK, [Next]_vars, NEW e \in Starters, Ended(e)
    PROVE  pc'[e] = pc[e]
  BY StarterMoves DEF Ended, Outcomes, Spawn, CheckAgain, Insert, FreeInserted

LEMMA AnswerInvStep ==
    ASSUME DaemonInv, RegisteredStarted, AnswerInv, [Next]_vars
    PROVE  AnswerInv'
  <1> USE RequestsAssumption DEF DaemonTypeOK, Requests, Starters, Goto
  <1>1. DaemonTypeOK
    BY DEF DaemonInv
  <1> SUFFICES ASSUME NEW e \in Starters
               PROVE  /\ proc'[e] # "none" => pc'[e] \in {"add", "insert", "inserted", "mark", "ok", "duplicate"}
                      /\ pc'[e] \in {"add", "insert", "inserted", "mark", "ok"} => proc'[e] # "none"
                      /\ pc'[e] = "duplicate" =>
                             \E f \in Starters \ {e} : IdOf[f] = IdOf[e] /\ proc'[f] # "none"
    BY DEF AnswerInv
  <1>2. \A f \in Starters : proc[f] # "none" => proc'[f] # "none"
    BY <1>1, ProcSteps
  <1>3. CASE pc'[e] = pc[e] /\ (proc[e] = "none" => proc'[e] = "none")
    BY <1>2, <1>3 DEF AnswerInv
  <1>4. CASE Spawn(e)
    BY <1>1, <1>4 DEF Spawn
  <1>5. CASE CheckAgain(e)
    <2>1. pc[e] = "add" /\ proc' = proc /\ proc[e] # "none"
      BY <1>5 DEF CheckAgain, AnswerInv, processVars
    <2>2. pc'[e] = IF Present(e) THEN "duplicate" ELSE "insert"
      BY <1>1, <1>5 DEF CheckAgain
    <2>3. CASE Present(e)
      <3>1. IdOf[e] \in Ids
        BY DEF Ids
      <3>2. executors[IdOf[e]] \in Starters /\ Started(executors[IdOf[e]])
        BY <1>1, <2>3, <3>1 DEF Present, RegisteredStarted
      <3>3. IdOf[executors[IdOf[e]]] = IdOf[e] /\ proc[executors[IdOf[e]]] # "none"
        BY <2>3, <3>1 DEF Present, DaemonInv, ContainerInv, ContainerSound
      <3>4. executors[IdOf[e]] # e
        BY <2>1, <3>2 DEF Started
      <3>. QED
        BY <2>1, <2>2, <2>3, <3>2, <3>3, <3>4
    <2>. QED
      BY <2>1, <2>2, <2>3
  <1>6. CASE Insert(e)
    BY <1>1, <1>6 DEF Insert, AnswerInv, processVars
  <1>7. CASE pc[e] \in {"inserted", "mark"} /\ pc'[e] \in {"mark", "ok"} /\ proc' = proc
    BY <1>7 DEF AnswerInv
  <1>8. CASE /\ pc[e] \notin Outcomes \cup {"add", "insert", "inserted", "mark"}
             /\ pc'[e] \notin {"add", "insert", "inserted", "mark", "ok", "duplicate"}
             /\ proc' = proc
    BY <1>8 DEF AnswerInv, Outcomes
  <1>. QED
    BY <1>1, <1>3, <1>4, <1>5, <1>6, <1>7, <1>8, StarterMoves

LEMMA AnswerInvHolds == Spec => []AnswerInv
  <1>1. Init => AnswerInv
    BY RequestsAssumption DEF Init, AnswerInv, Requests, Starters
  <1>. QED
    BY <1>1, DaemonInvHolds, RegisteredStartedHolds, AnswerInvStep, PTL DEF Spec

\* A step moves at most one start.
Unmoved(e) == pc'[e] = pc[e] /\ (proc'[e] = "none" <=> proc[e] = "none")

LEMMA OthersStay ==
    ASSUME DaemonTypeOK, [Next]_vars, NEW e \in Starters, NEW f \in Starters \ {e}, ~ Unmoved(e)
    PROVE  Unmoved(f)
  <1> USE RequestsAssumption DEF DaemonTypeOK, Requests, Starters
  <1>1. ASSUME NEW q \in Requests, RequestStep(q), NEW g \in Starters \ {q}
        PROVE  Unmoved(g)
    BY <1>1
       DEF RequestStep, StarterStep, CleanerStep, GetLogger, CheckStopFlag, ForcePort,
           GetFreePort, SetUp, SetSyncFlag, CheckPresence, SpawnFails, Spawn, CheckAgain,
           Insert, FreeInserted, GetExecutor, LookUp, Fetch, Poll, Remove, PutBack, CheckSyncFlag, Goto,
           processVars, Unmoved
  <1>2. ASSUME NEW q \in Requests, Arrive(q), NEW g \in Starters \ {q}
        PROVE  Unmoved(g)
    BY <1>2 DEF Arrive, Goto, processVars, Unmoved
  <1>3. ASSUME MainStep
        PROVE  Unmoved(e)
    BY <1>3 DEF MainStep, HandlerStep, HupAcquire, HupCount, HupRaise, SetStop, ShutdownAcquire,
                ShutdownRelease, CheckPort, RemovePidFile, requestVars, processVars, Unmoved
  <1>4. ASSUME (\E g \in Starters : ProcessEnds(g)) \/ Hup \/ Term
        PROVE  Unmoved(e)
    BY <1>4 DEF ProcessEnds, Hup, Term, requestVars, processVars, Unmoved
  <1>5. ASSUME UNCHANGED vars
        PROVE  Unmoved(e)
    BY <1>5 DEF vars, requestVars, processVars, Unmoved
  <1>6. \E q \in Requests : RequestStep(q) \/ Arrive(q)
    BY <1>3, <1>4, <1>5 DEF Next, Environment
  <1>. QED
    BY <1>1, <1>2, <1>6

\* The variables of StartService.
Begun    == {e \in Starters : proc[e] # "none"}
AnswerTo == [e \in Starters |-> IF ~ Ended(e) THEN "none"
                               ELSE IF pc[e] = "ok" THEN "done" ELSE "refused"]

\* Popen starts the process of a request that has none; the end of a request is its
\* answer, and what it says of the process is AnswerInv.
LEMMA StartServiceStep ==
    ASSUME DaemonTypeOK, AnswerInv, AnswerInv', [Next]_vars
    PROVE  [Starting!ServiceNext]_<<Begun, AnswerTo>>
  <1> USE RequestsAssumption DEF Requests, Starters
  <1>1. CASE \A e \in Starters : Unmoved(e)
    BY <1>1 DEF Unmoved, Begun, AnswerTo, Ended
  <1>2. ASSUME NEW e \in Starters, ~ Unmoved(e)
        PROVE  [Starting!ServiceNext]_<<Begun, AnswerTo>>
    <2>1. \A f \in Starters \ {e} : Unmoved(f)
      BY <1>2, OthersStay
    <2>2. AnswerTo' = [AnswerTo EXCEPT ![e] = AnswerTo'[e]]
      BY <2>1 DEF Unmoved, AnswerTo, Ended
    <2>3. Begun' \ {e} = Begun \ {e}
      BY <2>1 DEF Unmoved, Begun
    <2>4. CASE Spawn(e)
      <3>1. AnswerTo[e] = "none" /\ AnswerTo'[e] = "none" /\ e \notin Begun
        BY <2>4 DEF Spawn, Goto, DaemonTypeOK, AnswerInv, AnswerTo, Begun, Ended, Outcomes
      <3>2. e \in Begun'
        BY <2>4 DEF Spawn, DaemonTypeOK, Begun
      <3>3. Begun' = Begun \cup {e}
        BY <2>3, <3>1, <3>2
      <3>4. AnswerTo' = AnswerTo
        BY <2>2, <3>1 DEF AnswerTo
      <3>. QED
        BY <3>1, <3>3, <3>4 DEF Starting!ServiceNext, Starting!Start, Begun, AnswerTo
    <2>5. CASE ~ Spawn(e)
      <3>1. Begun' = Begun
        BY <2>3, <2>5, ProcSteps DEF Begun
      <3>2. CASE AnswerTo'[e] = AnswerTo[e]
        BY <2>2, <3>1, <3>2 DEF AnswerTo
      <3>3. CASE AnswerTo'[e] # AnswerTo[e]
        <4>1. AnswerTo[e] = "none"
          BY <3>3, EndedStays DEF AnswerTo, Ended
        <4>2. CASE AnswerTo'[e] = "done"
          <5>1. e \in Begun
            BY <3>1, <4>2 DEF AnswerInv, AnswerTo, Begun
          <5>. QED
            BY <2>2, <3>1, <4>1, <4>2, <5>1
               DEF Starting!ServiceNext, Starting!Confirm, Starting!Reply, Begun, AnswerTo
        <4>3. CASE AnswerTo'[e] = "refused" /\ e \notin Begun
          BY <2>2, <3>1, <4>1, <4>3
             DEF Starting!ServiceNext, Starting!Refuse, Starting!Reply, Begun, AnswerTo
        <4>4. CASE AnswerTo'[e] = "refused" /\ e \in Begun
          <5>1. pc'[e] = "duplicate"
            BY <3>1, <4>4 DEF AnswerInv, AnswerTo, Begun, Ended, Outcomes
          <5>2. \E f \in Begun \ {e} : IdOf[f] = IdOf[e]
            BY <3>1, <5>1 DEF AnswerInv, Begun
          <5>. QED
            BY <2>2, <3>1, <4>1, <4>4, <5>2
               DEF Starting!ServiceNext, Starting!RefuseSecond, Starting!Reply, Begun, AnswerTo
        <4>5. AnswerTo'[e] \in {"none", "done", "refused"}
          BY DEF AnswerTo
        <4>. QED
          BY <3>3, <4>1, <4>2, <4>3, <4>4, <4>5
      <3>. QED
        BY <3>2, <3>3
    <2>. QED
      BY <2>4, <2>5
  <1>. QED
    BY <1>1, <1>2

\* Whatever the requests and the signals, the daemon implements StartService: a start that
\* is answered has its one process; one that ended with an exception has none and will
\* have none, or is the second of its id.
THEOREM DaemonImplementsStarts == Spec => StartsRefined
  <1>1. Init => Starting!ServiceInit
    BY RequestsAssumption DEF Init, Starting!ServiceInit, Ended, Outcomes, Requests, Starters
  <1>2. DaemonTypeOK /\ AnswerInv /\ AnswerInv' /\ [Next]_vars
        => [Starting!ServiceNext]_Starting!serviceVars
    BY StartServiceStep DEF Begun, AnswerTo, Starting!serviceVars
  <1>. QED
    BY <1>1, <1>2, DaemonInvHolds, AnswerInvHolds, PTL
       DEF Spec, DaemonInv, StartsRefined, Starting!ServiceSpec

-----------------------------------------------------------------------------
\* Whatever the requests and the signals, the SIGHUP handler counts no empty container
\* once a start was acknowledged.
THEOREM HupsCountAcknowledged == Spec => HupCountsAcknowledged
  <1> DEFINE Counts == hup = "count" /\ hup' = "raise" => \A e \in Starters : pc[e] # "ok"
  <1>1. DaemonInv /\ [Next]_vars => [Counts]_vars
    <2> SUFFICES ASSUME DaemonInv, Next, hup = "count", hup' = "raise",
                        NEW e \in Starters, pc[e] = "ok"
                 PROVE  FALSE
      OBVIOUS
    <2>1. executors[IdOf[e]] # NoExec
      BY StartedIsPresent DEF DaemonInv, LockInv, Started
    <2>2. IdOf[e] \in Ids
      BY DEF Ids, Requests
    <2>3. HupCount
      <3>1. ASSUME NEW q \in Requests, RequestStep(q)
            PROVE  UNCHANGED mainVars
        BY <3>1
           DEF RequestStep, StarterStep, CleanerStep, GetLogger, CheckStopFlag, ForcePort,
               GetFreePort, SetUp, SetSyncFlag, CheckPresence, SpawnFails, Spawn, CheckAgain,
               Insert, FreeInserted, GetExecutor, LookUp, Fetch, Poll, Remove, PutBack, CheckSyncFlag
      <3>. QED
        BY <3>1 DEF Next, MainStep, HandlerStep, HupAcquire, HupRaise, Environment, Arrive,
                    ProcessEnds, Hup, Term, mainVars
    <2>. QED
      BY <2>1, <2>2, <2>3 DEF HupCount
  <1>. QED
    BY <1>1, DaemonInvHolds, PTL DEF Spec, HupCountsAcknowledged

-----------------------------------------------------------------------------
\* With any number of SIGHUPs, at any points, and no SIGTERM, the daemon stays in
\* its request loop once a start has been acknowledged and no SIGHUP is being
\* handled: the handler counts under the lock, where every started id is present.
THEOREM HupsSpareAcknowledged ==
    ASSUME "SIGTERM" \notin Signals
    PROVE  Spec => HupSparesAcknowledged
  <1> DEFINE Ack   == \E e \in Starters : pc[e] = "ok"
             Up    == main = "loop"
             Quiet == Up /\ hup = "none" /\ Ack
             Stays == Up /\ hup # "raise" /\ Ack
  <1>1. Quiet => Stays
    OBVIOUS
  <1>2. Stays => Up
    OBVIOUS
  <1>3. DaemonInv /\ Stays /\ [Next]_vars => Stays'
    <2> SUFFICES ASSUME DaemonInv, Stays, [Next]_vars
                 PROVE  Stays'
      OBVIOUS
    <2>1. PICK e \in Starters : pc[e] = "ok"
      OBVIOUS
    <2>2. pc'[e] = "ok"
      BY <2>1, StartedStaysStarted DEF DaemonInv, Started
    <2>3. Up' /\ hup' # "raise"
      <3>1. CASE HupCount
        <4>1. executorsLock = Main
          BY <3>1 DEF HupCount, DaemonInv, LockInv
        <4>2. executors[IdOf[e]] # NoExec
          BY <2>1, <4>1, StartedIsPresent DEF Started
        <4>3. IdOf[e] \in Ids
          BY DEF Ids, Requests
        <4>. QED
          BY <3>1, <4>2, <4>3 DEF HupCount
      <3>2. CASE ~ HupCount /\ MainStep
        BY <3>2 DEF MainStep, HandlerStep, HupAcquire, HupRaise, SetStop, ShutdownAcquire,
                    ShutdownRelease, CheckPort, RemovePidFile
      <3>3. CASE Environment
        BY <3>3 DEF Environment, Arrive, ProcessEnds, Hup, Term, mainVars
      <3>4. ASSUME NEW q \in Requests, RequestStep(q)
            PROVE  UNCHANGED mainVars
        BY <3>4
           DEF RequestStep, StarterStep, CleanerStep, GetLogger, CheckStopFlag, ForcePort,
               GetFreePort, SetUp, SetSyncFlag, CheckPresence, SpawnFails, Spawn, CheckAgain,
               Insert, FreeInserted, GetExecutor, LookUp, Fetch, Poll, Remove, PutBack, CheckSyncFlag
      <3>. QED
        BY <3>1, <3>2, <3>3, <3>4 DEF Next, vars, mainVars
    <2>. QED
      BY <2>2, <2>3
  <1>. HIDE DEF Ack, Up, Quiet, Stays
  <1>4. Spec => [](Quiet => []Up)
    BY <1>1, <1>2, <1>3, DaemonInvHolds, PTL DEF Spec
  <1>. QED
    BY <1>4 DEF HupSparesAcknowledged, Quiet, Up, Ack
=============================================================================
