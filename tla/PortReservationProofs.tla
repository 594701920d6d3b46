------------------------ MODULE PortReservationProofs ------------------------
(***************************************************************************)
(* What holds of PortReservation for every number of ports and every set   *)
(* of callers.                                                             *)
(***************************************************************************)
EXTENDS PortReservation, FiniteSetTheorems, WellFoundedInduction, TLAPS

LEMMA LeastElement ==
    ASSUME NEW S, S \subseteq Nat, S # {}
    PROVE  \E x \in S : \A y \in S : x <= y
  <1> DEFINE R == {pair \in Nat \X Nat : pair[1] < pair[2]}
  <1>1. R = OpToRel(<, Nat)
    BY DEF OpToRel
  <1>2. IsWellFoundedOn(R, Nat)
    BY <1>1, NatLessThanWellFounded
  <1> HIDE DEF R
  <1>3. PICK x \in S : \A y \in S : ~ (<<y, x>> \in R)
    BY <1>2, WFMin
  <1>4. ASSUME NEW y \in S PROVE x <= y
    <2>1. ~ (<<y, x>> \in R)
      BY <1>3
    <2>2. y \in Nat /\ x \in Nat
      OBVIOUS
    <2>. QED
      BY <2>1, <2>2 DEF R
  <1>. QED
    BY <1>4

\* The loop of reserve() ends at the first free port that lags behind
\* ports[0], or else at ports[0].
LEMMA CandidateIsLaggingOrFirst ==
    ASSUME PortTypeOK
    PROVE  /\ Candidate \in Ports
           /\ Candidate # First => /\ ~ reservedNow[Candidate]
                                   /\ reservedTimes[Candidate] < reservedTimes[First]
           /\ Lagging # {} => Candidate \in Lagging /\ \A q \in Lagging : Candidate <= q
           /\ Lagging = {} => Candidate = First
  <1>1. CASE Lagging = {}
    BY <1>1, NumPortsAssumption DEF Candidate, First, Ports
  <1>2. CASE Lagging # {}
    <2>1. Lagging \subseteq Nat
      BY DEF Lagging, Ports
    <2>2. \E p \in Lagging : \A q \in Lagging : p <= q
      BY <1>2, <2>1, LeastElement
    <2>3. Candidate \in Lagging /\ \A q \in Lagging : Candidate <= q
      BY <1>2, <2>2 DEF Candidate
    <2>. QED
      BY <1>2, <2>3 DEF Lagging
  <1>. QED
    BY <1>1, <1>2

-----------------------------------------------------------------------------
\* Marking a port adds at most one to the number of reserved ports, freeing a
\* reserved port takes exactly one off.
LEMMA ReservedIsFinite == IsFiniteSet(Reserved) /\ Cardinality(Reserved) \in Nat
  <1>1. IsFiniteSet(Ports)
    BY NumPortsAssumption, FS_Interval DEF Ports
  <1>2. Reserved \subseteq Ports
    BY DEF Reserved
  <1>. QED
    BY <1>1, <1>2, FS_Subset, FS_CardinalityType

LEMMA ReservedAfterTake ==
    ASSUME PortTypeOK, NEW r \in Receivers, Take(r)
    PROVE  /\ Cardinality(Reserved') <= Cardinality(Reserved) + 1
           /\ Cardinality(Reserved') >= Cardinality(Reserved)
           /\ Cardinality(Reserved') \in Nat
  <1>1. Reserved' = Reserved \cup {Candidate}
    BY CandidateIsLaggingOrFirst DEF Take, Reserved, PortTypeOK
  <1>2. Cardinality(Reserved \cup {Candidate}) =
            IF Candidate \in Reserved THEN Cardinality(Reserved) ELSE Cardinality(Reserved) + 1
    BY ReservedIsFinite, FS_AddElement
  <1>. QED
    BY <1>1, <1>2, ReservedIsFinite

LEMMA ReservedAfterRelease ==
    ASSUME PortTypeOK, NEW r \in Receivers, Release(r)
    PROVE  /\ Cardinality(Reserved) \in Nat \ {0}
           /\ Cardinality(Reserved') = Cardinality(Reserved) - 1
  <1>1. held[r] \in Ports
    BY DEF Release, PortTypeOK
  <1>2. held[r] \in Reserved /\ Reserved' = Reserved \ {held[r]}
    BY <1>1 DEF Release, Reserved, PortTypeOK
  <1>3. Cardinality(Reserved) # 0
    BY <1>2, ReservedIsFinite, FS_EmptySet
  <1>. QED
    BY <1>2, <1>3, ReservedIsFinite, FS_RemoveElement

-----------------------------------------------------------------------------
\* The ranges alone are not inductive: release() decrements the counter, which
\* stays a natural number because it covers the reserved ports.
CountInv == PortTypeOK /\ CounterCoversReserved

LEMMA CountInvStep == CountInv /\ [PortNext]_portVars => CountInv'
  <1> SUFFICES ASSUME CountInv, [PortNext]_portVars
               PROVE  CountInv'
    OBVIOUS
  <1> USE DEF CountInv, CounterCoversReserved
  <1>1. ASSUME NEW r \in Receivers, CheckRejects(r) \/ CheckPasses(r) \/ ReleaseRaises(r)
        PROVE  CountInv'
    <2>1. PortTypeOK'
      BY <1>1 DEF CheckRejects, CheckPasses, ReleaseRaises, PortTypeOK
    <2>2. Reserved' = Reserved /\ numTakenPorts' = numTakenPorts
      BY <1>1 DEF CheckRejects, CheckPasses, ReleaseRaises, Reserved
    <2>. QED
      BY <2>1, <2>2
  <1>2. ASSUME NEW r \in Receivers, Take(r)
        PROVE  CountInv'
    <2>1. PortTypeOK'
      BY <1>2, CandidateIsLaggingOrFirst DEF Take, PortTypeOK
    <2>2. numTakenPorts' = numTakenPorts + 1 /\ numTakenPorts \in Nat
      BY <1>2 DEF Take, PortTypeOK
    <2>. QED
      BY <1>2, <2>1, <2>2, ReservedAfterTake, ReservedIsFinite
  <1>3. ASSUME NEW r \in Receivers, Release(r)
        PROVE  CountInv'
    <2>1. Cardinality(Reserved) \in Nat \ {0} /\ Cardinality(Reserved') = Cardinality(Reserved) - 1
      BY <1>3, ReservedAfterRelease
    <2>2. numTakenPorts \in Nat /\ numTakenPorts >= Cardinality(Reserved)
      BY DEF PortTypeOK
    <2>3. numTakenPorts' = numTakenPorts - 1
      BY <1>3 DEF Release
    <2>4. numTakenPorts - 1 \in Nat
      BY <2>1, <2>2
    <2>5. PortTypeOK'
      BY <1>3, <2>3, <2>4 DEF Release, PortTypeOK
    <2>. QED
      BY <2>1, <2>2, <2>3, <2>5
  <1>4. CASE UNCHANGED portVars
    BY <1>4 DEF portVars, PortTypeOK, Reserved
  <1>. QED
    BY <1>1, <1>2, <1>3, <1>4 DEF PortNext, Reserve

LEMMA CountInvHolds == PortSpec => []CountInv
  <1>1. PortInit => CountInv
    <2> SUFFICES ASSUME PortInit
                 PROVE  CountInv
      OBVIOUS
    <2>1. PortTypeOK
      BY DEF PortInit, PortTypeOK
    <2>2. Reserved = {}
      BY DEF PortInit, Reserved
    <2>. QED
      BY <2>1, <2>2, FS_EmptySet DEF PortInit, CountInv, CounterCoversReserved
  <1>. QED
    BY <1>1, CountInvStep, PTL DEF PortSpec

\* Type correctness: the fields keep their ranges whatever the callers do; in
\* particular numTakenPorts is never negative.
THEOREM PortTypeCorrect == PortSpec => []PortTypeOK
  BY CountInvHolds, PTL DEF CountInv

\* For any number of ports and callers, numTakenPorts is at least the number
\* of ports marked reserved.
THEOREM CounterCovers == PortSpec => []CounterCoversReserved
  BY CountInvHolds, PTL DEF CountInv

\* For any number of ports and callers, a slot once lost to a double grant is
\* never regained.
THEOREM SlotsNeverComeBack == PortSpec => SurplusNeverShrinks
  <1> USE DEF CountInv
  <1>1. CountInv /\ [PortNext]_portVars
            => [numTakenPorts' - Cardinality(Reserved') >= numTakenPorts - Cardinality(Reserved)]_portVars
    <2> SUFFICES ASSUME CountInv, PortNext
                 PROVE  numTakenPorts' - Cardinality(Reserved') >= numTakenPorts - Cardinality(Reserved)
      OBVIOUS
    <2>1. numTakenPorts \in Nat /\ Cardinality(Reserved) \in Nat
      BY ReservedIsFinite DEF PortTypeOK
    <2>2. ASSUME NEW r \in Receivers, CheckRejects(r) \/ CheckPasses(r) \/ ReleaseRaises(r)
          PROVE  Reserved' = Reserved /\ numTakenPorts' = numTakenPorts
      BY <2>2 DEF CheckRejects, CheckPasses, ReleaseRaises, Reserved
    <2>3. ASSUME NEW r \in Receivers, Take(r)
          PROVE  numTakenPorts' - Cardinality(Reserved') >= numTakenPorts - Cardinality(Reserved)
      <3>1. Cardinality(Reserved') <= Cardinality(Reserved) + 1 /\ Cardinality(Reserved') \in Nat
        BY <2>3, ReservedAfterTake
      <3>2. numTakenPorts' = numTakenPorts + 1
        BY <2>3 DEF Take
      <3>. QED
        BY <2>1, <3>1, <3>2
    <2>4. ASSUME NEW r \in Receivers, Release(r)
          PROVE  numTakenPorts' - Cardinality(Reserved') >= numTakenPorts - Cardinality(Reserved)
      <3>1. Cardinality(Reserved') = Cardinality(Reserved) - 1
        BY <2>4, ReservedAfterRelease
      <3>2. numTakenPorts' = numTakenPorts - 1
        BY <2>4 DEF Release
      <3>. QED
        BY <2>1, <3>1, <3>2
    <2>. QED
      BY <2>1, <2>2, <2>3, <2>4 DEF PortNext, Reserve
  <1>. QED
    BY <1>1, CountInvHolds, PTL DEF PortSpec, SurplusNeverShrinks

-----------------------------------------------------------------------------
\* For any number of ports and callers, no port has been granted more often
\* than ports[0].
THEOREM FirstMostUsed == PortSpec => []FirstIsMostUsed
  <1> USE NumPortsAssumption DEF Ports, First
  <1>1. PortInit => FirstIsMostUsed
    BY DEF PortInit, FirstIsMostUsed
  <1>2. PortTypeOK /\ FirstIsMostUsed /\ [PortNext]_portVars => FirstIsMostUsed'
    <2> SUFFICES ASSUME PortTypeOK, FirstIsMostUsed, [PortNext]_portVars
                 PROVE  FirstIsMostUsed'
      OBVIOUS
    <2>1. ASSUME NEW r \in Receivers, Take(r)
          PROVE  FirstIsMostUsed'
      <3>1. Candidate \in Ports
            /\ (Candidate # First => reservedTimes[Candidate] < reservedTimes[First])
        BY CandidateIsLaggingOrFirst
      <3>. QED
        BY <2>1, <3>1 DEF Take, FirstIsMostUsed, PortTypeOK
    <2>2. CASE UNCHANGED reservedTimes
      BY <2>2 DEF FirstIsMostUsed
    <2>. QED
      BY <2>1, <2>2
         DEF PortNext, Reserve, CheckRejects, CheckPasses, Release, ReleaseRaises, portVars
  <1>. QED
    BY <1>1, <1>2, PortTypeCorrect, PTL DEF PortSpec

-----------------------------------------------------------------------------
\* The strengthening that makes exclusivity inductive: a caller between the
\* capacity test and the critical section owns nothing, so a grant loses no
\* port; and a reserved port always has its holder.
CheckedHoldNothing == \A r \in Receivers : call[r] = "checked" => held[r] = NoPort

HoldInv == CheckedHoldNothing /\ LaterPortsExclusive /\ NoStaleReservation

LEMMA HoldInvStep ==
    ASSUME PortTypeOK, HoldInv, [PortNext]_portVars
    PROVE  HoldInv'
  <1> USE NumPortsAssumption DEF Ports, First, Later, NoPort
  <1> USE DEF HoldInv, CheckedHoldNothing, LaterPortsExclusive, NoStaleReservation, Reserved
  <1>1. ASSUME NEW r \in Receivers, CheckRejects(r)
        PROVE  HoldInv'
    BY <1>1 DEF CheckRejects, PortTypeOK
  <1>2. ASSUME NEW r \in Receivers, CheckPasses(r)
        PROVE  HoldInv'
    BY <1>2 DEF CheckPasses, PortTypeOK
  <1>3. ASSUME NEW r \in Receivers, Take(r)
        PROVE  HoldInv'
    <2>1. held[r] = NoPort
      BY <1>3 DEF Take
    <2>2. Candidate \in Ports /\ (Candidate # First => ~ reservedNow[Candidate])
      BY CandidateIsLaggingOrFirst
    <2>3. reservedNow' = [reservedNow EXCEPT ![Candidate] = TRUE]
          /\ held' = [held EXCEPT ![r] = Candidate]
          /\ call' = [call EXCEPT ![r] = "out"]
      BY <1>3 DEF Take
    <2>4. CheckedHoldNothing'
      BY <2>3 DEF PortTypeOK
    <2>5. LaterPortsExclusive'
      BY <2>1, <2>2, <2>3 DEF PortTypeOK
    <2>6. NoStaleReservation'
      BY <2>1, <2>2, <2>3 DEF PortTypeOK
    <2>. QED
      BY <2>4, <2>5, <2>6
  <1>4. ASSUME NEW r \in Receivers, Release(r)
        PROVE  HoldInv'
    <2>1. held[r] \in Ports
      BY <1>4 DEF Release, PortTypeOK
    <2>2. reservedNow' = [reservedNow EXCEPT ![held[r]] = FALSE]
          /\ held' = [held EXCEPT ![r] = NoPort]
          /\ call' = call
      BY <1>4 DEF Release
    <2>3. CheckedHoldNothing'
      BY <2>2 DEF PortTypeOK
    <2>4. LaterPortsExclusive'
      BY <2>1, <2>2 DEF PortTypeOK
    <2>5. NoStaleReservation'
      BY <2>1, <2>2 DEF PortTypeOK
    <2>. QED
      BY <2>3, <2>4, <2>5
  <1>5. ASSUME NEW r \in Receivers, ReleaseRaises(r)
        PROVE  HoldInv'
    BY <1>5 DEF ReleaseRaises, PortTypeOK
  <1>6. CASE UNCHANGED portVars
    BY <1>6 DEF portVars
  <1>. QED
    BY <1>1, <1>2, <1>3, <1>4, <1>5, <1>6 DEF PortNext, Reserve

LEMMA HoldInvHolds == PortSpec => []HoldInv
  <1>1. PortInit => HoldInv
    BY NumPortsAssumption
       DEF PortInit, HoldInv, CheckedHoldNothing, LaterPortsExclusive, NoStaleReservation,
           Reserved, Ports, First, Later, NoPort
  <1>. QED
    BY <1>1, HoldInvStep, PortTypeCorrect, PTL DEF PortSpec

\* For any number of ports and callers, a port after the first is never held
\* by two callers, and is marked reserved exactly while it is held.
THEOREM LaterPortsAreExclusive == PortSpec => []LaterPortsExclusive
  BY HoldInvHolds, PTL DEF HoldInv

\* For any number of ports and callers, a port marked reserved has a holder.
THEOREM ReservationsHaveHolders == PortSpec => []NoStaleReservation
  BY HoldInvHolds, PTL DEF HoldInv

-----------------------------------------------------------------------------
\* For any number of ports and callers, the ports after the first behave as a
\* pool that lends each of them to one caller at a time: a grant of such a port
\* is an Acquire, its release (which never raises) a GiveBack, and every other
\* step, those on ports[0] included, leaves the pool as it is.
THEOREM LaterPortsImplementPool == PortSpec => PoolRefined
  <1> USE NumPortsAssumption DEF Ports, First, Later, NoPort
  <1> DEFINE owns == [r \in Receivers |-> IF held[r] \in Later THEN held[r] ELSE NoPort]
  <1>1. PortInit => LaterPool!PoolInit
    BY DEF PortInit, LaterPool!PoolInit
  <1>2. PortTypeOK /\ HoldInv /\ [PortNext]_portVars => [LaterPool!PoolNext]_owns
    <2> SUFFICES ASSUME PortTypeOK, HoldInv, [PortNext]_portVars
                 PROVE  LaterPool!PoolNext \/ owns' = owns
      BY DEF LaterPool!PoolNext
    <2>1. ASSUME NEW r \in Receivers, Take(r), Candidate \in Later
          PROVE  LaterPool!Acquire(r)
      <3>1. held[r] = NoPort
        BY <2>1 DEF Take, HoldInv, CheckedHoldNothing
      <3>2. ~ reservedNow[Candidate]
        BY <2>1, CandidateIsLaggingOrFirst
      <3>3. \A d \in Receivers : held[d] # Candidate
        BY <2>1, <3>2 DEF HoldInv, LaterPortsExclusive
      <3>4. owns' = [owns EXCEPT ![r] = Candidate]
        BY <2>1 DEF Take, PortTypeOK
      <3>5. owns[r] = NoPort /\ \A d \in Receivers : owns[d] # Candidate
        BY <2>1, <3>1, <3>3
      <3>. QED
        BY <2>1, <3>4, <3>5 DEF LaterPool!Acquire
    <2>2. ASSUME NEW r \in Receivers, Take(r), Candidate \notin Later
          PROVE  owns' = owns
      <3>1. held[r] = NoPort
        BY <2>2 DEF Take, HoldInv, CheckedHoldNothing
      <3>. QED
        BY <2>2, <3>1 DEF Take, PortTypeOK
    <2>3. ASSUME NEW r \in Receivers, Release(r) \/ ReleaseRaises(r)
          PROVE  LaterPool!GiveBack(r) \/ owns' = owns
      <3>1. held' = [held EXCEPT ![r] = NoPort]
        BY <2>3 DEF Release, ReleaseRaises
      <3>2. CASE held[r] \in Later
        <4>1. owns' = [owns EXCEPT ![r] = NoPort]
          BY <3>1 DEF PortTypeOK
        <4>. QED
          BY <3>2, <4>1 DEF LaterPool!GiveBack
      <3>3. CASE held[r] \notin Later
        BY <3>1, <3>3 DEF PortTypeOK
      <3>. QED
        BY <3>2, <3>3
    <2>4. CASE UNCHANGED held
      BY <2>4
    <2>. QED
      BY <2>1, <2>2, <2>3, <2>4
         DEF PortNext, Reserve, CheckRejects, CheckPasses, portVars, LaterPool!PoolNext
  <1>. QED
    BY <1>1, <1>2, PortTypeCorrect, HoldInvHolds, PTL
       DEF PortSpec, PoolRefined, LaterPool!PoolSpec

-----------------------------------------------------------------------------
\* Of callers that never release: a port is marked from its first grant on, and as
\* long as there were no more grants than ports, each grant took a port of its own.
GrantNext == \E r \in Receivers : Reserve(r)

MarkedOnceGranted == \A p \in Ports : reservedNow[p] <=> reservedTimes[p] > 0

HeldIsMarked == \A r \in Receivers : held[r] # NoPort => reservedNow[held[r]]

WithinCapacity ==
    numTakenPorts <= NumPorts =>
        /\ \A p \in Ports : reservedTimes[p] <= 1
        /\ numTakenPorts = Cardinality(Reserved)
        /\ Exclusive

CapacityInv == MarkedOnceGranted /\ HeldIsMarked /\ WithinCapacity

LEMMA CapacityInit == PortInit => CapacityInv
  <1> SUFFICES ASSUME PortInit
               PROVE  CapacityInv
    OBVIOUS
  <1>1. Reserved = {}
    BY DEF PortInit, Reserved
  <1>. QED
    BY <1>1, FS_EmptySet
       DEF PortInit, CapacityInv, MarkedOnceGranted, HeldIsMarked, WithinCapacity, Exclusive

\* While a port is left, the next grant takes one that was never granted.
LEMMA CandidateIsFresh ==
    ASSUME PortTypeOK, FirstIsMostUsed, MarkedOnceGranted,
           \A p \in Ports : reservedTimes[p] <= 1, Cardinality(Reserved) < NumPorts
    PROVE  Candidate \in Ports /\ reservedTimes[Candidate] = 0 /\ ~ reservedNow[Candidate]
  <1> USE NumPortsAssumption
  <1>1. Cardinality(Ports) = NumPorts
    BY FS_Interval DEF Ports
  <1>2. PICK p \in Ports : ~ reservedNow[p]
    BY <1>1 DEF Reserved
  <1>3. First \in Ports /\ \A q \in Ports : reservedTimes[q] \in Nat
    BY DEF First, Ports, PortTypeOK
  <1>4. reservedTimes[p] = 0
    BY <1>2, <1>3 DEF MarkedOnceGranted
  <1>5. CASE reservedTimes[First] = 0
    <2>1. Lagging = {}
      BY <1>3, <1>5 DEF Lagging
    <2>. QED
      BY <1>3, <1>5, <2>1, CandidateIsLaggingOrFirst DEF MarkedOnceGranted
  <1>6. CASE reservedTimes[First] # 0
    <2>1. p \in Lagging
      BY <1>2, <1>3, <1>4, <1>6 DEF Lagging
    <2>2. Candidate \in Lagging
      BY <2>1, CandidateIsLaggingOrFirst
    <2>3. Candidate \in Ports /\ ~ reservedNow[Candidate]
      BY <2>2 DEF Lagging
    <2>. QED
      BY <1>3, <2>3 DEF MarkedOnceGranted
  <1>. QED
    BY <1>5, <1>6

LEMMA CapacityStep ==
    ASSUME PortTypeOK, FirstIsMostUsed, CapacityInv, [GrantNext]_portVars
    PROVE  CapacityInv'
  <1>1. CASE UNCHANGED <<reservedNow, reservedTimes, numTakenPorts, held>>
    BY <1>1 DEF CapacityInv, MarkedOnceGranted, HeldIsMarked, WithinCapacity, Exclusive, Reserved
  <1>2. ASSUME NEW r \in Receivers, Take(r)
        PROVE  CapacityInv'
    <2>1. Candidate \in Ports
      BY CandidateIsLaggingOrFirst
    <2>2. MarkedOnceGranted'
      BY <1>2, <2>1 DEF Take, CapacityInv, MarkedOnceGranted, PortTypeOK
    <2>3. HeldIsMarked'
      BY <1>2, <2>1 DEF Take, CapacityInv, HeldIsMarked, PortTypeOK, NoPort
    <2>4. ASSUME numTakenPorts' <= NumPorts
          PROVE  /\ \A p \in Ports : reservedTimes'[p] <= 1
                 /\ numTakenPorts' = Cardinality(Reserved')
                 /\ Exclusive'
      <3>1. numTakenPorts \in Nat /\ numTakenPorts' = numTakenPorts + 1
        BY <1>2 DEF Take, PortTypeOK
      <3>2. /\ \A p \in Ports : reservedTimes[p] <= 1
            /\ numTakenPorts = Cardinality(Reserved)
            /\ Exclusive
            /\ Cardinality(Reserved) < NumPorts
        BY <2>4, <3>1, NumPortsAssumption DEF CapacityInv, WithinCapacity
      <3>3. reservedTimes[Candidate] = 0 /\ ~ reservedNow[Candidate]
        BY <3>2, CandidateIsFresh DEF CapacityInv
      <3>4. \A p \in Ports : reservedTimes'[p] <= 1
        BY <1>2, <2>1, <3>2, <3>3 DEF Take, PortTypeOK
      <3>5. Reserved' = Reserved \cup {Candidate} /\ Candidate \notin Reserved
        BY <1>2, <2>1, <3>3 DEF Take, Reserved, PortTypeOK
      <3>6. Cardinality(Reserved') = Cardinality(Reserved) + 1
        BY <3>5, ReservedIsFinite, FS_AddElement
      <3>7. \A s \in Receivers : held[s] # Candidate
        BY <2>1, <3>3, NumPortsAssumption DEF CapacityInv, HeldIsMarked, Ports, NoPort
      <3>8. Exclusive'
        BY <1>2, <3>2, <3>7 DEF Take, Exclusive, PortTypeOK
      <3>. QED
        BY <3>1, <3>2, <3>4, <3>6, <3>8
    <2>. QED
      BY <2>2, <2>3, <2>4 DEF CapacityInv, WithinCapacity
  <1>. QED
    BY <1>1, <1>2 DEF GrantNext, Reserve, CheckRejects, CheckPasses, portVars

-----------------------------------------------------------------------------
\* With one caller, whatever the number of ports, the grants go round the range
\* in order: this is the round-robin the docstring of reserve() describes.
THEOREM SingleCallerRotates ==
    ASSUME NEW c, Receivers = {c}
    PROVE  PortSpec => []EvenRotation
  <1> USE NumPortsAssumption DEF Ports, First, NoPort
  <1>1. PortInit => EvenRotation
    BY DEF PortInit, EvenRotation
  <1>2. PortTypeOK /\ HoldInv /\ EvenRotation /\ [PortNext]_portVars => EvenRotation'
    <2> SUFFICES ASSUME PortTypeOK, HoldInv, EvenRotation, [PortNext]_portVars
                 PROVE  EvenRotation'
      OBVIOUS
    <2>1. PICK k \in Ports : \A p \in Ports :
              reservedTimes[p] = IF p <= k THEN reservedTimes[First] ELSE reservedTimes[First] - 1
      BY DEF EvenRotation
    <2>2. ASSUME Take(c)
          PROVE  EvenRotation'
      <3>1. \A p \in Ports : ~ reservedNow[p]
        BY <2>2 DEF Take, HoldInv, CheckedHoldNothing, NoStaleReservation, Reserved
      <3>2. Lagging = {p \in Ports : p > k}
        <4>1. \A p \in Ports : reservedTimes[p] \in Nat
          BY DEF PortTypeOK
        <4>2. \A p \in Ports : reservedTimes[p] < reservedTimes[First] <=> p > k
          BY <2>1, <4>1
        <4>. QED
          BY <3>1, <4>2 DEF Lagging
      <3>3. reservedTimes' = [reservedTimes EXCEPT ![Candidate] = @ + 1]
        BY <2>2 DEF Take
      <3>4. CASE k = NumPorts
        <4>1. Candidate = First
          BY <3>2, <3>4, CandidateIsLaggingOrFirst
        <4>2. \A p \in Ports :
                reservedTimes'[p] = IF p <= 1 THEN reservedTimes'[First]
                                              ELSE reservedTimes'[First] - 1
          BY <2>1, <3>3, <3>4, <4>1 DEF PortTypeOK
        <4>. QED
          BY <4>2 DEF EvenRotation
      <3>5. CASE k # NumPorts
        <4>1. k + 1 \in Lagging
          BY <3>2, <3>5
        <4>2. Candidate = k + 1
          BY <3>2, <4>1, CandidateIsLaggingOrFirst
        <4>3. \A p \in Ports :
                reservedTimes'[p] = IF p <= k + 1 THEN reservedTimes'[First]
                                                  ELSE reservedTimes'[First] - 1
          BY <2>1, <3>3, <3>5, <4>2 DEF PortTypeOK
        <4>. QED
          BY <3>5, <4>3 DEF EvenRotation
      <3>. QED
        BY <3>4, <3>5
    <2>3. CASE UNCHANGED reservedTimes
      BY <2>3 DEF EvenRotation
    <2>. QED
      BY <2>2, <2>3
         DEF PortNext, Reserve, CheckRejects, CheckPasses, Release, ReleaseRaises, portVars
  <1>. QED
    BY <1>1, <1>2, PortTypeCorrect, HoldInvHolds, PTL DEF PortSpec
=============================================================================
