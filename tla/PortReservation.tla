--------------------------- MODULE PortReservation ---------------------------
(***************************************************************************)
(* The class PortReservation of fdtd and the concurrent callers of its     *)
(* reserve() and release().  FDTDService.service runs in the threads of    *)
(* the Pyro4 server, so several receivers may be inside reserve() at once: *)
(* the capacity check is read outside the lock, the choice of a port and   *)
(* the book-keeping are one critical section of self.lock.                 *)
(*                                                                         *)
(* self.ports is a list: port 1 stands for ports[0].                       *)
(***************************************************************************)
EXTENDS Integers, FiniteSets

CONSTANTS
    NumPorts,   \* len(self.ports)
    Receivers,  \* the callers: requests that start an FDT server
    MaxTimes    \* bound of the exploration: grants of the first port

ASSUME NumPortsAssumption == NumPorts \in Nat \ {0}
ASSUME MaxTimesAssumption == MaxTimes \in Nat

Ports  == 1 .. NumPorts
First  == 1
Later  == Ports \ {First}
NoPort == 0

VARIABLES
    reservedNow,    \* port.reservedNow of every port
    reservedTimes,  \* port.reservedTimes of every port
    numTakenPorts,  \* self.numTakenPorts
    call,           \* where each caller is in reserve()
    held            \* the port each caller got and has not given back

portVars == <<reservedNow, reservedTimes, numTakenPorts, call, held>>

Reserved == {p \in Ports : reservedNow[p]}

-----------------------------------------------------------------------------
PortInit ==
    /\ reservedNow = [p \in Ports |-> FALSE]
    /\ reservedTimes = [p \in Ports |-> 0]
    /\ numTakenPorts = 0
    /\ call = [r \in Receivers |-> "out"]
    /\ held = [r \in Receivers |-> NoPort]

\* A mutant of Lagging: the test of reservedNow dropped.
LaggingOrTaken == {p \in Ports : reservedTimes[p] < reservedTimes[First]}

\* The free ports granted fewer times than ports[0]; the loop of reserve()
\* stops at the first of them and falls back to ports[0], free or not.
Lagging == {p \in Ports : ~ reservedNow[p] /\ reservedTimes[p] < reservedTimes[First]}

\* The port reserve() grants next.
Candidate ==
    IF Lagging = {} THEN First
                    ELSE CHOOSE p \in Lagging : \A q \in Lagging : p <= q

\* reserve(), the test of numTakenPorts: made before the lock is taken.
CheckRejects(r) ==
    /\ call[r] # "checked"
    /\ held[r] = NoPort
    /\ numTakenPorts = NumPorts
    /\ call' = [call EXCEPT ![r] = "rejected"]
    /\ UNCHANGED <<reservedNow, reservedTimes, numTakenPorts, held>>

CheckPasses(r) ==
    /\ call[r] # "checked"
    /\ held[r] = NoPort
    /\ numTakenPorts # NumPorts
    /\ reservedTimes[First] < MaxTimes
    /\ call' = [call EXCEPT ![r] = "checked"]
    /\ UNCHANGED <<reservedNow, reservedTimes, numTakenPorts, held>>

\* A mutant of Take: the grants of a port are not counted.
TakeUntimed(r) ==
    /\ call[r] = "checked"
    /\ numTakenPorts' = numTakenPorts + 1
    /\ reservedNow' = [reservedNow EXCEPT ![Candidate] = TRUE]
    /\ held' = [held EXCEPT ![r] = Candidate]
    /\ call' = [call EXCEPT ![r] = "out"]
    /\ UNCHANGED reservedTimes

\* reserve(), the critical section.
Take(r) ==
    /\ call[r] = "checked"
    /\ numTakenPorts' = numTakenPorts + 1
    /\ reservedTimes' = [reservedTimes EXCEPT ![Candidate] = @ + 1]
    /\ reservedNow' = [reservedNow EXCEPT ![Candidate] = TRUE]
    /\ held' = [held EXCEPT ![r] = Candidate]
    /\ call' = [call EXCEPT ![r] = "out"]

\* A mutant of Release: the mark is not cleared.
ReleaseMarked(r) ==
    /\ held[r] # NoPort
    /\ reservedNow[held[r]]
    /\ numTakenPorts' = numTakenPorts - 1
    /\ held' = [held EXCEPT ![r] = NoPort]
    /\ UNCHANGED <<reservedNow, reservedTimes, call>>

\* release(), the critical section, of a port that is reserved.
Release(r) ==
    /\ held[r] # NoPort
    /\ reservedNow[held[r]]
    /\ reservedNow' = [reservedNow EXCEPT ![held[r]] = FALSE]
    /\ numTakenPorts' = numTakenPorts - 1
    /\ held' = [held EXCEPT ![r] = NoPort]
    /\ UNCHANGED <<reservedTimes, call>>

\* A mutant of ReleaseRaises: the counter is decremented before the exception.
ReleaseRaisesLate(r) ==
    /\ held[r] # NoPort
    /\ ~ reservedNow[held[r]]
    /\ numTakenPorts' = numTakenPorts - 1
    /\ held' = [held EXCEPT ![r] = NoPort]
    /\ UNCHANGED <<reservedNow, reservedTimes, call>>

\* release() of a port somebody else has released already: it raises
\* PortReservationException and changes nothing of the object.
ReleaseRaises(r) ==
    /\ held[r] # NoPort
    /\ ~ reservedNow[held[r]]
    /\ held' = [held EXCEPT ![r] = NoPort]
    /\ UNCHANGED <<reservedNow, reservedTimes, numTakenPorts, call>>

Reserve(r) == CheckRejects(r) \/ CheckPasses(r) \/ Take(r)

PortNext ==
    \E r \in Receivers : Reserve(r) \/ Release(r) \/ ReleaseRaises(r)

PortSpec == PortInit /\ [][PortNext]_portVars

-----------------------------------------------------------------------------
\* The values the fields of the object and of the callers range over.
PortTypeOK ==
    /\ reservedNow \in [Ports -> BOOLEAN]
    /\ reservedTimes \in [Ports -> Nat]
    /\ numTakenPorts \in Nat
    /\ call \in [Receivers -> {"out", "checked", "rejected"}]
    /\ held \in [Receivers -> Ports \cup {NoPort}]

\* reserve() compares every port with ports[0] only, so ports[0] is granted
\* at least as often as any other port, whatever is reserved and released in
\* between.
FirstIsMostUsed ==
    \A p \in Ports : reservedTimes[p] <= reservedTimes[First]

\* No two callers of reserve() are ever given the same port of the range,
\* unless it is ports[0]; and a port after the first is marked reserved
\* exactly while somebody holds it.
LaterPortsExclusive ==
    \A p \in Later :
        /\ \A r, s \in Receivers : held[r] = p /\ held[s] = p => r = s
        /\ reservedNow[p] <=> \E r \in Receivers : held[r] = p

\* A port is never left marked reserved when nobody holds it, in spite of
\* double grants and of releases that raise.
NoStaleReservation ==
    \A p \in Reserved : \E r \in Receivers : held[r] = p

\* numTakenPorts never falls below the number of ports marked reserved, so
\* a full range is never taken for one with a port to spare by undercounting.
CounterCoversReserved == numTakenPorts >= Cardinality(Reserved)

\* Slots lost to double grants are lost for good: no step of reserve() or
\* release() brings the counter nearer to the number of reserved ports.
SurplusNeverShrinks ==
    [][numTakenPorts' - Cardinality(Reserved') >= numTakenPorts - Cardinality(Reserved)]_portVars

\* Among the ports after the first, reserve() and release() implement a pool
\* that lends each port to one client at a time; what they do to ports[0] is
\* invisible to that pool.
LaterPool == INSTANCE ExclusivePool
    WITH Clients <- Receivers,
         Pool    <- Later,
         Nothing <- NoPort,
         owns    <- [r \in Receivers |-> IF held[r] \in Later THEN held[r] ELSE NoPort]

PoolRefined == LaterPool!PoolSpec

\* With callers that come one after another the grants rotate: the ports up to
\* some k have been granted equally often and the rest once less.
EvenRotation ==
    \E k \in Ports : \A p \in Ports :
        reservedTimes[p] = IF p <= k
                           THEN reservedTimes[First]
                           ELSE reservedTimes[First] - 1

\* What the docstring of reserve() is after ("shall prevent any 'already in
\* use' error"): a port is held by one caller at a time.
Exclusive ==
    \A r, s \in Receivers : held[r] = held[s] /\ held[r] # NoPort => r = s

\* Callers that never release, as the requests of the daemon, are given the same
\* port only when more ports were granted than there are: the first grants take
\* every port of the range once, whatever passes the capacity test at a time.
WithinCapacityExclusive == numTakenPorts <= NumPorts => Exclusive
=============================================================================
