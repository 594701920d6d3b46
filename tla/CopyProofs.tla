----------------------------- MODULE CopyProofs ------------------------------
(***************************************************************************)
(* What holds of Copy for every number of ports, copies and ids.           *)
(***************************************************************************)
EXTENDS Copy, PortReservationProofs, TLAPS

\* For the ports a copy is a caller of reserve(): nothing is ever released.
LEMMA GrantStep == [Next]_vars => [GrantNext]_portVars
  <1> SUFFICES ASSUME [Next]_vars
               PROVE  [GrantNext]_portVars
    OBVIOUS
  <1>1. ASSUME NEW t \in Copies, CopyStep(t)
        PROVE  [GrantNext]_portVars
    <2>1. CASE GetFreePort(t)
      BY <2>1 DEF GetFreePort, GrantNext, Reserve, Copies
    <2>2. CASE ~ GetFreePort(t)
      BY <1>1, <2>2 DEF CopyStep, ForcePort, SetUp, CheckDirectory, MakeDirectory, OpenList, WriteList,
                        CheckPresence, Spawn, CheckAgain, Insert, EndOfLog
    <2>. QED
      BY <2>1, <2>2
  <1>2. ASSUME NEW t \in Copies, FDT(t)
        PROVE  [GrantNext]_portVars
    BY <1>2 DEF FDT, Bind, ProcessEnds, ReadList, Connect
  <1>3. CASE UNCHANGED vars
    BY <1>3 DEF vars
  <1>. QED
    BY <1>1, <1>2, <1>3 DEF Next

LEMMA PortStep == [Next]_vars => [PortNext]_portVars
  BY GrantStep DEF GrantNext, PortNext

\* What is proved of the class of callers that never release.
PortsInv == PortTypeOK /\ FirstIsMostUsed /\ CapacityInv

LEMMA PortsInvHolds == Spec => []PortsInv
  <1>1. Init => PortInit
    BY DEF Init
  <1>2. Spec => PortSpec
    BY <1>1, PortStep, PTL DEF Spec, PortSpec
  <1>3. Init => CapacityInv
    BY CapacityInit DEF Init
  <1>4. PortTypeOK /\ FirstIsMostUsed /\ CapacityInv /\ [Next]_vars => CapacityInv'
    BY GrantStep, CapacityStep
  <1>. QED
    BY <1>2, <1>3, <1>4, PortTypeCorrect, FirstMostUsed, PTL DEF Spec, PortsInv

-----------------------------------------------------------------------------
LEMMA GotoType ==
    ASSUME CopiesTypeOK, NEW t \in Copies, NEW side, NEW step, <<side, step>> \in Places,
           Goto(t, side, step)
    PROVE  pc' \in [Copies -> Places]
  BY DEF Goto, CopiesTypeOK

LEMMA ProcessType ==
    ASSUME CopiesTypeOK, NEW side \in Sides, NEW t \in Copies, NEW state \in ProcessStates
    PROVE  [process EXCEPT ![side][t] = state] \in [Sides -> [Copies -> ProcessStates]]
  BY DEF CopiesTypeOK

LEMMA CopyStepMoves ==
    ASSUME CopiesTypeOK, NEW t \in Copies, CopyStep(t)
    PROVE  pc' \in [Copies -> Places]
  <1>1. \A side \in {"dest", "src", "client"} :
            \A step \in {"port", "setup", "check", "spawn", "add", "insert", "directory", "mkdir",
                         "open", "write", "log", "done", "failed"} :
                Goto(t, side, step) => pc' \in [Copies -> Places]
    BY GotoType DEF Places
  <1>2. UNCHANGED pc => pc' \in [Copies -> Places]
    BY DEF CopiesTypeOK
  <1>3. ASSUME NEW side \in Sides,
               CheckPresence(t, side) \/ Spawn(t, side) \/ CheckAgain(t, side) \/ Insert(t, side)
        PROVE  pc' \in [Copies -> Places]
    BY <1>1, <1>3 DEF CheckPresence, Spawn, CheckAgain, Insert, Fail, Sides
  <1>4. CASE ForcePort(t) \/ GetFreePort(t)
    BY <1>1, <1>2, <1>4 DEF ForcePort, GetFreePort, Fail
  <1>5. CASE SetUp(t) \/ CheckDirectory(t) \/ MakeDirectory(t) \/ OpenList(t) \/ WriteList(t) \/ EndOfLog(t)
    BY <1>1, <1>5 DEF SetUp, CheckDirectory, MakeDirectory, OpenList, WriteList, EndOfLog, Fail
  <1>. QED
    BY <1>3, <1>4, <1>5 DEF CopyStep

LEMMA CopiesTypeStep ==
    ASSUME PortTypeOK, CopiesTypeOK, [Next]_vars
    PROVE  CopiesTypeOK'
  <1> USE CopyAssumption
  <1>1. ASSUME NEW t \in Copies, CopyStep(t)
        PROVE  CopiesTypeOK'
    <2>1. pc' \in [Copies -> Places]
      BY <1>1, CopyStepMoves
    <2>2. CASE ForcePort(t)
      BY <2>1, <2>2 DEF ForcePort, CopiesTypeOK, fileVars, fdtVars
    <2>3. CASE GetFreePort(t)
      <3>1. Candidate \in Ports
        BY CandidateIsLaggingOrFirst
      <3>2. port' \in [Copies -> Ports \cup UserPorts \cup {NoPort}]
        BY <2>3, <3>1 DEF GetFreePort, CopiesTypeOK
      <3>3. UNCHANGED <<id, forced, executors, directory, list, process, reads, link>>
        BY <2>3 DEF GetFreePort, fileVars, fdtVars
      <3>. QED
        BY <2>1, <3>2, <3>3 DEF CopiesTypeOK
    <2>4. CASE SetUp(t) \/ CheckDirectory(t) \/ EndOfLog(t)
      BY <2>1, <2>4 DEF SetUp, CheckDirectory, EndOfLog, CopiesTypeOK, fileVars, fdtVars
    <2>5. CASE MakeDirectory(t) \/ OpenList(t) \/ WriteList(t)
      <3>1. directory' \in BOOLEAN /\ list' \in [Ids -> Copies \cup {Nobody}]
        <4>1. CASE MakeDirectory(t)
          BY <4>1 DEF MakeDirectory, CopiesTypeOK, fdtVars
        <4>2. CASE OpenList(t)
          BY <4>2 DEF OpenList, CopiesTypeOK, fdtVars
        <4>3. CASE WriteList(t)
          BY <4>3 DEF WriteList, CopiesTypeOK, fdtVars
        <4>. QED
          BY <2>5, <4>1, <4>2, <4>3
      <3>2. UNCHANGED <<id, forced, port, executors, process, reads, link>>
        BY <2>5 DEF MakeDirectory, OpenList, WriteList, fdtVars
      <3>. QED
        BY <2>1, <3>1, <3>2 DEF CopiesTypeOK
    <2>6. ASSUME NEW side \in Sides, CheckPresence(t, side) \/ CheckAgain(t, side)
          PROVE  CopiesTypeOK'
      BY <2>1, <2>6 DEF CheckPresence, CheckAgain, CopiesTypeOK, fileVars, fdtVars
    <2>7. ASSUME NEW side \in Sides, Spawn(t, side)
          PROVE  CopiesTypeOK'
      <3>1. process' \in [Sides -> [Copies -> ProcessStates]]
        <4>1. [process EXCEPT ![side][t] = "starting"] \in [Sides -> [Copies -> ProcessStates]]
          BY ProcessType DEF ProcessStates
        <4>2. process' = [process EXCEPT ![side][t] = "starting"] \/ process' = process
          BY <2>7 DEF Spawn
        <4>. QED
          BY <4>1, <4>2 DEF CopiesTypeOK
      <3>2. UNCHANGED <<id, forced, port, executors, directory, list, reads, link>>
        BY <2>7 DEF Spawn, fileVars
      <3>. QED
        BY <2>1, <3>1, <3>2 DEF CopiesTypeOK
    <2>8. ASSUME NEW side \in Sides, Insert(t, side)
          PROVE  CopiesTypeOK'
      <3>1. executors' \in [Sides -> [Ids -> Copies \cup {Nobody}]]
        BY <2>8 DEF Insert, CopiesTypeOK
      <3>2. UNCHANGED <<id, forced, port, directory, list, process, reads, link>>
        BY <2>8 DEF Insert, fileVars, fdtVars
      <3>. QED
        BY <2>1, <3>1, <3>2 DEF CopiesTypeOK
    <2>. QED
      BY <1>1, <2>2, <2>3, <2>4, <2>5, <2>6, <2>7, <2>8 DEF CopyStep
  <1>2. ASSUME NEW t \in Copies, FDT(t)
        PROVE  CopiesTypeOK'
    <2> USE DEF CopiesTypeOK, Sides, ProcessStates, fileVars
    <2>1. CASE Bind(t)
      BY <2>1 DEF Bind
    <2>2. CASE ReadList(t)
      BY <2>2 DEF ReadList
    <2>3. CASE Connect(t)
      BY <2>3 DEF Connect
    <2>4. ASSUME NEW side \in Sides, ProcessEnds(t, side)
          PROVE  CopiesTypeOK'
      BY <2>4 DEF ProcessEnds
    <2>. QED
      BY <1>2, <2>1, <2>2, <2>3, <2>4 DEF FDT
  <1>3. CASE UNCHANGED vars
    BY <1>3 DEF vars, fileVars, fdtVars, CopiesTypeOK
  <1>. QED
    BY <1>1, <1>2, <1>3 DEF Next

LEMMA TypesHold == Spec => [](PortsInv /\ CopiesTypeOK)
  <1>1. Init => CopiesTypeOK
    <2>1. <<"dest", "port">> \in Places /\ "none" \in ProcessStates
      BY DEF Places, ProcessStates
    <2>. QED
      BY <2>1 DEF Init, CopiesTypeOK
  <1>2. PortsInv /\ CopiesTypeOK /\ [Next]_vars => CopiesTypeOK'
    BY CopiesTypeStep DEF PortsInv
  <1>. QED
    BY <1>1, <1>2, PortsInvHolds, PTL DEF Spec

\* Type correctness of a whole copy, for any number of copies, ids and ports.
THEOREM CopyTypeHolds == Spec => []CopyTypeOK
  BY TypesHold, PTL DEF PortsInv, CopyTypeOK

-----------------------------------------------------------------------------
\* Where a copy is says whether it has a port and an FDT client yet: the port is the
\* one it holds or the user's, and the client is started after the list is written.
NotListed(t) ==
    \/ pc[t][1] = "dest"
    \/ pc[t] \in {"src"} \X {"directory", "mkdir", "open", "write"}

Stage(t) ==
    /\ At(t, "dest", "port") => port[t] = NoPort
    /\ port[t] = NoPort => /\ pc[t] \in {<<"dest", "port">>, <<"client", "failed">>}
                          /\ process["dest"][t] = "none" /\ process["src"][t] = "none"
    /\ NotListed(t) => process["src"][t] = "none"
    /\ ~ forced[t] => held[t] = port[t]

StageInv == \A t \in Copies : Stage(t)

\* A client that is connected was told the port of the server it is connected to.
LinkInv ==
    \A t \in Copies : link[t] # Nobody =>
        port[t] # NoPort /\ port[link[t]] = port[t]

LEMMA StageFrame ==
    ASSUME NEW t, Stage(t), pc'[t] = pc[t], port'[t] = port[t], forced'[t] = forced[t],
           held'[t] = held[t], process'["dest"][t] = process["dest"][t],
           process'["src"][t] = process["src"][t]
    PROVE  Stage(t)'
  BY DEF Stage, NotListed, At

LEMMA StageOfPort ==
    ASSUME PortTypeOK, CopiesTypeOK, StageInv, NEW t \in Copies, ForcePort(t) \/ GetFreePort(t)
    PROVE  StageInv'
  <1>1. /\ process' = process /\ forced' = forced
        /\ At(t, "dest", "port") /\ port[t] = NoPort /\ process["src"][t] = "none"
        /\ process["dest"][t] = "none"
    BY DEF ForcePort, GetFreePort, fdtVars, StageInv, Stage, At
  <1>2. \A u \in Copies \ {t} : pc'[u] = pc[u] /\ port'[u] = port[u] /\ held'[u] = held[u]
    <2>1. CASE ForcePort(t)
      BY <2>1 DEF ForcePort, Goto, Fail, portVars, CopiesTypeOK
    <2>2. CASE GetFreePort(t)
      BY <2>2 DEF GetFreePort, CheckRejects, CheckPasses, Take, Goto, Fail, CopiesTypeOK,
                  PortTypeOK, Copies
    <2>. QED
      BY <2>1, <2>2
  <1>3. Stage(t)'
    <2>1. CASE ForcePort(t)
      <3>1. /\ forced[t]
            /\ \/ Goto(t, "dest", "setup") /\ port'[t] # NoPort
               \/ Fail(t) /\ port' = port
        <4>1. \A p \in UserPorts : p # NoPort
          BY CopyAssumption
        <4>2. \A p \in UserPorts : port' = [port EXCEPT ![t] = p] => port'[t] # NoPort
          BY <4>1 DEF CopiesTypeOK
        <4>3. \/ (\E p \in UserPorts : port' = [port EXCEPT ![t] = p]) /\ Goto(t, "dest", "setup")
              \/ Fail(t) /\ port' = port
          BY <2>1 DEF ForcePort
        <4>4. forced[t]
          BY <2>1 DEF ForcePort
        <4>5. (\E p \in UserPorts : port' = [port EXCEPT ![t] = p]) => port'[t] # NoPort
          BY <4>2
        <4>. QED
          BY <4>3, <4>4, <4>5
      <3>. QED
        BY <1>1, <3>1 DEF Stage, NotListed, At, Goto, Fail, CopiesTypeOK
    <2>2. CASE GetFreePort(t)
      <3>1. Candidate # NoPort
        BY CandidateIsLaggingOrFirst, NumPortsAssumption DEF Ports, NoPort
      <3>2. held[t] = NoPort
        BY <1>1, <2>2 DEF GetFreePort, StageInv, Stage
      <3>3. \/ Fail(t) /\ port' = port /\ held' = held
            \/ pc' = pc /\ port' = port /\ held' = held
            \/ Goto(t, "dest", "setup") /\ port'[t] = Candidate /\ held'[t] = Candidate
        BY <2>2 DEF GetFreePort, CheckRejects, CheckPasses, Take, CopiesTypeOK, PortTypeOK, Copies
      <3>. QED
        <4>1. CASE Fail(t) /\ port' = port /\ held' = held
          <5>1. pc'[t] = <<"client", "failed">>
            BY <4>1 DEF Fail, Goto, CopiesTypeOK
          <5>. QED
            BY <1>1, <3>2, <4>1, <5>1 DEF Stage, NotListed, At
        <4>2. CASE pc' = pc /\ port' = port /\ held' = held
          BY <1>1, <3>2, <4>2 DEF Stage, NotListed, At
        <4>3. CASE Goto(t, "dest", "setup") /\ port'[t] = Candidate /\ held'[t] = Candidate
          <5>1. pc'[t] = <<"dest", "setup">>
            BY <4>3 DEF Goto, CopiesTypeOK
          <5>. QED
            BY <1>1, <3>1, <4>3, <5>1 DEF Stage, NotListed, At
        <4>. QED
          BY <3>3, <4>1, <4>2, <4>3
    <2>. QED
      BY <2>1, <2>2
  <1>. QED
    BY <1>1, <1>2, <1>3, StageFrame DEF StageInv

LEMMA StageOfStep ==
    ASSUME CopiesTypeOK, StageInv, NEW t \in Copies, CopyStep(t),
           ~ ForcePort(t), ~ GetFreePort(t)
    PROVE  StageInv'
  <1>1. /\ UNCHANGED <<port, forced, held>>
        /\ \A u \in Copies \ {t} : pc'[u] = pc[u] /\ process'["dest"][u] = process["dest"][u]
                                    /\ process'["src"][u] = process["src"][u]
    <2>1. CASE SetUp(t) \/ CheckDirectory(t) \/ MakeDirectory(t) \/ OpenList(t) \/ WriteList(t) \/ EndOfLog(t)
      BY <2>1 DEF SetUp, CheckDirectory, MakeDirectory, OpenList, WriteList, EndOfLog, Goto, Fail,
                  CopiesTypeOK, portVars, fdtVars
    <2>2. ASSUME NEW side \in Sides, CheckPresence(t, side) \/ CheckAgain(t, side) \/ Insert(t, side)
          PROVE  /\ UNCHANGED <<port, forced, held, process>>
                 /\ \A u \in Copies \ {t} : pc'[u] = pc[u]
      BY <2>2 DEF CheckPresence, CheckAgain, Insert, Goto, Fail, CopiesTypeOK, portVars, fdtVars
    <2>3. ASSUME NEW side \in Sides, Spawn(t, side)
          PROVE  /\ UNCHANGED <<port, forced, held>>
                 /\ \A u \in Copies \ {t} :
                        /\ pc'[u] = pc[u]
                        /\ process'["dest"][u] = process["dest"][u]
                        /\ process'["src"][u] = process["src"][u]
      BY <2>3 DEF Spawn, Goto, Fail, CopiesTypeOK, portVars, Sides
    <2>. QED
      BY <2>1, <2>2, <2>3 DEF CopyStep
  <1>2. pc[t] # <<"dest", "port">> /\ pc[t] # <<"client", "failed">>
    BY DEF CopyStep, SetUp, CheckDirectory, MakeDirectory, OpenList, WriteList, EndOfLog, CheckPresence,
           Spawn, CheckAgain, Insert, At, Sides
  <1>3. Stage(t)'
    <2>1. port[t] # NoPort /\ (~ forced[t] => held[t] = port[t])
      BY <1>2 DEF StageInv, Stage
    <2>2. pc'[t] # <<"dest", "port">>
      BY DEF CopyStep, SetUp, CheckDirectory, MakeDirectory, OpenList, WriteList, EndOfLog, CheckPresence,
             Spawn, CheckAgain, Insert, Goto, Fail, Sides, CopiesTypeOK
    <2>3. NotListed(t)' => NotListed(t) /\ process'["src"][t] = process["src"][t]
      <3>1. CASE SetUp(t) \/ CheckDirectory(t) \/ MakeDirectory(t) \/ OpenList(t) \/ WriteList(t) \/ EndOfLog(t)
        BY <3>1 DEF SetUp, CheckDirectory, MakeDirectory, OpenList, WriteList, EndOfLog, Goto, Fail, At,
                    NotListed, CopiesTypeOK, fdtVars
      <3>2. ASSUME NEW side \in Sides,
                   CheckPresence(t, side) \/ CheckAgain(t, side) \/ Insert(t, side)
            PROVE  NotListed(t)' => NotListed(t) /\ process'["src"][t] = process["src"][t]
        BY <3>2 DEF CheckPresence, CheckAgain, Insert, Goto, Fail, At, NotListed, CopiesTypeOK,
                    fdtVars, Sides
      <3>3. ASSUME NEW side \in Sides, Spawn(t, side)
            PROVE  NotListed(t)' => NotListed(t) /\ process'["src"][t] = process["src"][t]
        BY <3>3 DEF Spawn, Goto, Fail, At, NotListed, CopiesTypeOK, Sides
      <3>. QED
        BY <3>1, <3>2, <3>3 DEF CopyStep
    <2>. QED
      BY <1>1, <2>1, <2>2, <2>3 DEF Stage, At, StageInv
  <1>. QED
    BY <1>1, <1>3, StageFrame DEF StageInv

LEMMA StageStep ==
    ASSUME PortTypeOK, CopiesTypeOK, StageInv, [Next]_vars
    PROVE  StageInv'
  <1>1. ASSUME NEW t \in Copies, CopyStep(t)
        PROVE  StageInv'
    BY <1>1, StageOfPort, StageOfStep
  <1>2. ASSUME NEW t \in Copies, FDT(t)
        PROVE  StageInv'
    BY <1>2 DEF FDT, Bind, ProcessEnds, ReadList, Connect, CopiesTypeOK, portVars, Sides,
                StageInv, Stage, NotListed, At
  <1>3. CASE UNCHANGED vars
    BY <1>3 DEF vars, portVars, fdtVars, StageInv, Stage, NotListed, At
  <1>. QED
    BY <1>1, <1>2, <1>3 DEF Next

LEMMA LinkStep ==
    ASSUME CopiesTypeOK, StageInv, LinkInv, [Next]_vars
    PROVE  LinkInv'
  <1> USE DEF LinkInv
  <1>1. ASSUME NEW t \in Copies, ForcePort(t) \/ GetFreePort(t)
        PROVE  LinkInv'
    <2>1. /\ port[t] = NoPort
          /\ \A u \in Copies \ {t} : port'[u] = port[u]
          /\ link' = link
      BY <1>1 DEF ForcePort, GetFreePort, StageInv, Stage, At, CopiesTypeOK, fdtVars
    <2>. QED
      BY <2>1 DEF CopiesTypeOK
  <1>2. ASSUME NEW t \in Copies, Connect(t)
        PROVE  LinkInv'
    <2>1. port[t] # NoPort
      BY <1>2 DEF Connect, StageInv, Stage
    <2>. QED
      BY <1>2, <2>1 DEF Connect, Listening, CopiesTypeOK
  <1>3. CASE UNCHANGED <<port, link>>
    BY <1>3
  <1>. QED
    BY <1>1, <1>2, <1>3
       DEF Next, CopyStep, FDT, SetUp, CheckDirectory, MakeDirectory, OpenList, WriteList, CheckPresence,
           Spawn, CheckAgain, Insert, EndOfLog, Bind, ProcessEnds, ReadList, vars, fdtVars

LEMMA LinksHold == Spec => [](PortsInv /\ CopiesTypeOK /\ StageInv /\ LinkInv)
  <1>1. Init => StageInv /\ LinkInv
    BY DEF Init, PortInit, StageInv, Stage, NotListed, At, LinkInv, Sides, Copies
  <1>2. PortsInv /\ CopiesTypeOK /\ StageInv /\ LinkInv /\ [Next]_vars => StageInv' /\ LinkInv'
    BY StageStep, LinkStep DEF PortsInv
  <1>. QED
    BY <1>1, <1>2, TypesHold, PTL DEF Spec

\* For any number of copies, ids and ports: an FDT client is never connected to the
\* server of another copy, unless a user chose the port of one of them or more ports
\* were granted than there are.
THEOREM MeetsOwnServerHolds == Spec => []MeetsOwnServer
  <1>1. PortsInv /\ CopiesTypeOK /\ StageInv /\ LinkInv => MeetsOwnServer
    <2> SUFFICES ASSUME PortTypeOK, CapacityInv, CopiesTypeOK, StageInv, LinkInv,
                        NEW t \in Copies, NEW u \in Copies,
                        link[t] = u, u # t, ~ forced[t], ~ forced[u], ~ (numTakenPorts > NumPorts)
                 PROVE  FALSE
      BY DEF MeetsOwnServer, PortsInv
    <2>1. link[t] # Nobody
      BY CopyAssumption
    <2>2. port[t] # NoPort /\ port[u] = port[t]
      BY <2>1 DEF LinkInv
    <2>3. held[t] = port[t] /\ held[u] = port[u]
      BY DEF StageInv, Stage
    <2>4. numTakenPorts <= NumPorts
      BY NumPortsAssumption DEF PortTypeOK
    <2>5. Exclusive
      BY <2>4 DEF CapacityInv, WithinCapacity
    <2>. QED
      BY <2>2, <2>3, <2>5 DEF Exclusive, Copies
  <1>. QED
    BY <1>1, LinksHold, PTL

-----------------------------------------------------------------------------
\* The list of a copy whose id is its own holds its files from the moment it is
\* written: only copies of the same id open that file.
Unique(t) == \A u \in Copies \ {t} : id[u] # id[t]

Listed(t) == ~ NotListed(t) /\ ~ At(t, "client", "failed")

ListInv ==
    \A t \in Copies : Unique(t) =>
        /\ Listed(t) \/ process["src"][t] # "none" => list[id[t]] = t
        /\ process["src"][t] \in {"ready", "connected"} => reads[t] = t

LEMMA ListFrame ==
    ASSUME CopiesTypeOK, ListInv, id' = id, NEW u \in Copies, pc'[u] = pc[u],
           process'["src"][u] = process["src"][u], list'[id[u]] = list[id[u]], reads'[u] = reads[u],
           Unique(u)'
    PROVE  /\ (Listed(u) \/ process["src"][u] # "none")' => list'[id'[u]] = u
           /\ process'["src"][u] \in {"ready", "connected"} => reads'[u] = u
  BY DEF ListInv, Listed, NotListed, At, Unique

\* A step of the copy that leaves the lists and what the clients have read alone.
LEMMA ListKept ==
    ASSUME CopiesTypeOK, ListInv, id' = id, list' = list, reads' = reads, NEW t \in Copies,
           \A u \in Copies \ {t} : pc'[u] = pc[u] /\ process'["src"][u] = process["src"][u],
           Listed(t)' => Listed(t),
           process'["src"][t] # "none" => process["src"][t] # "none" \/ Listed(t),
           process'["src"][t] \in {"ready", "connected"} => process["src"][t] \in {"ready", "connected"}
    PROVE  ListInv'
  <1>1. ASSUME NEW u \in Copies \ {t}, Unique(u)'
        PROVE  /\ (Listed(u) \/ process["src"][u] # "none")' => list'[id'[u]] = u
               /\ process'["src"][u] \in {"ready", "connected"} => reads'[u] = u
    BY <1>1, ListFrame
  <1>2. ASSUME Unique(t)'
        PROVE  /\ (Listed(t) \/ process["src"][t] # "none")' => list'[id'[t]] = t
               /\ process'["src"][t] \in {"ready", "connected"} => reads'[t] = t
    BY <1>2 DEF ListInv, Unique
  <1>. QED
    BY <1>1, <1>2 DEF ListInv

LEMMA ListStep ==
    ASSUME CopiesTypeOK, StageInv, ListInv, [Next]_vars
    PROVE  ListInv'
  <1>1. ASSUME NEW t \in Copies, ForcePort(t) \/ GetFreePort(t)
        PROVE  ListInv'
    <2>1. UNCHANGED <<id, list, reads, process>>
      BY <1>1 DEF ForcePort, GetFreePort, fileVars, fdtVars
    <2>2. \A u \in Copies \ {t} : pc'[u] = pc[u]
      BY <1>1 DEF ForcePort, GetFreePort, Goto, Fail, CopiesTypeOK
    <2>3. pc'[t] \in {<<"dest", "port">>, <<"dest", "setup">>, <<"client", "failed">>}
      BY <1>1 DEF ForcePort, GetFreePort, Goto, Fail, At, CopiesTypeOK
    <2>4. ~ Listed(t)'
      BY <2>3 DEF Listed, NotListed, At
    <2>. QED
      BY <2>1, <2>2, <2>4, ListKept
  <1>2. ASSUME NEW t \in Copies, SetUp(t) \/ CheckDirectory(t) \/ MakeDirectory(t) \/ EndOfLog(t)
        PROVE  ListInv'
    <2>1. UNCHANGED <<id, list, reads, process>>
      BY <1>2 DEF SetUp, CheckDirectory, MakeDirectory, EndOfLog, fileVars, fdtVars
    <2>2. \A u \in Copies \ {t} : pc'[u] = pc[u]
      BY <1>2 DEF SetUp, CheckDirectory, MakeDirectory, EndOfLog, Goto, Fail, CopiesTypeOK
    <2>3. Listed(t)' => Listed(t)
      BY <1>2 DEF SetUp, CheckDirectory, MakeDirectory, EndOfLog, Goto, Fail, At, Listed, NotListed,
                  CopiesTypeOK
    <2>. QED
      BY <2>1, <2>2, <2>3, ListKept
  <1>3. ASSUME NEW t \in Copies, OpenList(t) \/ WriteList(t)
        PROVE  ListInv'
    <2>1. UNCHANGED <<id, reads, process>> /\ process["src"][t] = "none"
      <3>1. UNCHANGED <<id, reads, process>>
        BY <1>3 DEF OpenList, WriteList, fdtVars
      <3>2. pc[t] \in {<<"src", "open">>, <<"src", "write">>}
        BY <1>3 DEF OpenList, WriteList, At
      <3>3. NotListed(t)
        BY <3>2 DEF NotListed
      <3>. QED
        BY <3>1, <3>3 DEF StageInv, Stage
    <2>2. \A u \in Copies \ {t} : pc'[u] = pc[u]
      BY <1>3 DEF OpenList, WriteList, Goto, Fail, CopiesTypeOK
    <2>3. ASSUME NEW u \in Copies \ {t}, Unique(u)'
          PROVE  /\ (Listed(u) \/ process["src"][u] # "none")' => list'[id'[u]] = u
                 /\ process'["src"][u] \in {"ready", "connected"} => reads'[u] = u
      <3>1. id[t] # id[u]
        BY <2>1, <2>3 DEF Unique
      <3>2. list'[id[u]] = list[id[u]]
        BY <1>3, <3>1 DEF OpenList, WriteList, CopiesTypeOK
      <3>. QED
        BY <2>1, <2>2, <2>3, <3>2, ListFrame
    <2>4. Listed(t)' => list'[id'[t]] = t
      <3>1. CASE OpenList(t)
        BY <3>1 DEF OpenList, Goto, Fail, Listed, NotListed, At, CopiesTypeOK
      <3>2. CASE WriteList(t)
        BY <3>2 DEF WriteList, CopiesTypeOK
      <3>. QED
        BY <1>3, <3>1, <3>2
    <2>. QED
      BY <2>1, <2>3, <2>4 DEF ListInv
  <1>4. ASSUME NEW t \in Copies, NEW side \in Sides,
               CheckPresence(t, side) \/ CheckAgain(t, side) \/ Insert(t, side)
        PROVE  ListInv'
    <2>1. UNCHANGED <<id, list, reads, process>>
      BY <1>4 DEF CheckPresence, CheckAgain, Insert, fileVars, fdtVars
    <2>2. \A u \in Copies \ {t} : pc'[u] = pc[u]
      BY <1>4 DEF CheckPresence, CheckAgain, Insert, Goto, Fail, CopiesTypeOK
    <2>3. Listed(t)' => Listed(t)
      <3>1. CASE CheckPresence(t, side)
        BY <3>1 DEF CheckPresence, Goto, Fail, At, Listed, NotListed, Sides, CopiesTypeOK
      <3>2. CASE CheckAgain(t, side)
        BY <3>2 DEF CheckAgain, Goto, Fail, At, Listed, NotListed, Sides, CopiesTypeOK
      <3>3. CASE Insert(t, side)
        BY <3>3 DEF Insert, Goto, Fail, At, Listed, NotListed, Sides, CopiesTypeOK
      <3>. QED
        BY <1>4, <3>1, <3>2, <3>3
    <2>. QED
      BY <2>1, <2>2, <2>3, ListKept
  <1>5. ASSUME NEW t \in Copies, NEW side \in Sides, Spawn(t, side)
        PROVE  ListInv'
    <2>1. UNCHANGED <<id, list, reads>>
      BY <1>5 DEF Spawn, fileVars
    <2>2. \A u \in Copies \ {t} : pc'[u] = pc[u] /\ process'["src"][u] = process["src"][u]
      BY <1>5 DEF Spawn, Goto, Fail, Sides, CopiesTypeOK
    <2>3. Listed(t)' => Listed(t)
      BY <1>5 DEF Spawn, Goto, Fail, At, Listed, NotListed, Sides, CopiesTypeOK
    <2>4. \/ process'["src"][t] = process["src"][t]
          \/ process'["src"][t] = "starting" /\ Listed(t)
      BY <1>5 DEF Spawn, At, Listed, NotListed, Sides, CopiesTypeOK
    <2>. QED
      BY <2>1, <2>2, <2>3, <2>4, ListKept
  <1>6. ASSUME NEW t \in Copies, Bind(t) \/ Connect(t) \/ \E side \in Sides : ProcessEnds(t, side)
        PROVE  ListInv'
    <2>1. UNCHANGED <<id, list, reads, pc>>
      BY <1>6 DEF Bind, Connect, ProcessEnds, fileVars
    <2>2. \A u \in Copies \ {t} : process'["src"][u] = process["src"][u]
      BY <1>6 DEF Bind, Connect, ProcessEnds, Sides, CopiesTypeOK
    <2>3. \/ process'["src"][t] = process["src"][t]
          \/ process["src"][t] # "none" /\ process'["src"][t] = "gone"
          \/ process["src"][t] = "ready" /\ process'["src"][t] = "connected"
      <3>1. CASE Bind(t)
        BY <3>1 DEF Bind, Sides, CopiesTypeOK
      <3>2. CASE Connect(t)
        BY <3>2 DEF Connect, Sides, CopiesTypeOK
      <3>3. ASSUME NEW side \in Sides, ProcessEnds(t, side)
            PROVE  \/ process'["src"][t] = process["src"][t]
                   \/ process["src"][t] # "none" /\ process'["src"][t] = "gone"
        BY <3>3 DEF ProcessEnds, Sides, CopiesTypeOK
      <3>. QED
        BY <1>6, <3>1, <3>2, <3>3
    <2>4. Listed(t)' => Listed(t)
      BY <2>1 DEF Listed, NotListed, At
    <2>. QED
      BY <2>1, <2>2, <2>3, <2>4, ListKept
  <1>7. ASSUME NEW t \in Copies, ReadList(t)
        PROVE  ListInv'
    <2>1. /\ UNCHANGED <<id, list, pc>>
          /\ process["src"][t] = "starting"
          /\ reads' = [reads EXCEPT ![t] = list[id[t]]]
          /\ \A u \in Copies \ {t} : process'["src"][u] = process["src"][u]
      BY <1>7 DEF ReadList, fileVars, Sides, CopiesTypeOK
    <2>2. ASSUME NEW u \in Copies \ {t}, Unique(u)'
          PROVE  /\ (Listed(u) \/ process["src"][u] # "none")' => list'[id'[u]] = u
                 /\ process'["src"][u] \in {"ready", "connected"} => reads'[u] = u
      <3>1. reads'[u] = reads[u]
        BY <2>1 DEF CopiesTypeOK
      <3>. QED
        BY <2>1, <2>2, <3>1, ListFrame
    <2>3. ASSUME Unique(t)'
          PROVE  list'[id'[t]] = t /\ reads'[t] = t
      <3>1. Unique(t)
        BY <2>1, <2>3 DEF Unique
      <3>2. list[id[t]] = t
        BY <2>1, <3>1 DEF ListInv
      <3>. QED
        BY <2>1, <3>2 DEF CopiesTypeOK
    <2>. QED
      BY <2>2, <2>3 DEF ListInv
  <1>8. CASE UNCHANGED vars
    BY <1>8 DEF vars, fileVars, fdtVars, ListInv, Listed, NotListed, At, Unique
  <1>. QED
    BY <1>1, <1>2, <1>3, <1>4, <1>5, <1>6, <1>7, <1>8 DEF Next, CopyStep, FDT

\* For any number of copies, ids and ports: an FDT client sends the files of its own
\* copy, all of them and no others, unless another copy has the same id.
THEOREM SendsOwnFilesHolds == Spec => []SendsOwnFiles
  <1>1. Init => ListInv
    BY DEF Init, ListInv, Listed, NotListed, At, Sides
  <1>2. PortsInv /\ CopiesTypeOK /\ StageInv /\ ListInv /\ [Next]_vars => ListInv'
    BY ListStep
  <1>3. ListInv => SendsOwnFiles
    BY DEF ListInv, Unique, SendsOwnFiles
  <1>. QED
    BY <1>1, <1>2, <1>3, LinksHold, PTL DEF Spec
=============================================================================
