---------------------------- MODULE ServiceProofs ----------------------------
(***************************************************************************)
(* What a client holds of a daemon, for any number of calls.               *)
(***************************************************************************)
EXTENDS Service, TLAPS

\* A call to a constructor has no value yet; an executor comes with the port.
Equipped(c) ==
    /\ kind[c] \in Starting
    /\ hasExecutor[c]
    /\ kind[c] = Receiving => port[c] \in Ports

\* The first step of a thread: it refuses the call, or makes the object.
Construct(c) ==
    \/ Refuse(c)
    \/ ConstructTest(c) \/ ConstructReceiving(c) \/ ConstructSending(c) \/ ConstructCleanup(c)

Contained(c) == executors[id[c]] = c \/ Rival(c)

\* What is true of an object and its process in each state of the thread.
ServerInv ==
    \A c \in Calls :
        /\ server[c] \in {"prepared", "checked", "spawned", "adding"} => Equipped(c)
        /\ server[c] \in {"spawned", "adding"} => process[c]
        /\ server[c] \in {"executed", "returned"} =>
              /\ status[c] = "0"
              /\ kind[c] \in Starting => Equipped(c) /\ process[c] /\ Contained(c)
        /\ process[c] =>
              /\ kind[c] \in Starting
              /\ server[c] \in {"spawned", "adding", "executed", "returned", "raised"}
        /\ process[c] /\ server[c] = "raised" => Rival(c)
        /\ c \in registered <=> server[c] = "returned"

\* What is in the container has a process, and has been put there by its own start.
ContainerInv ==
    \A i \in Ids :
        executors[i] # NoCall =>
            /\ id[executors[i]] = i
            /\ kind[executors[i]] \in Starting
            /\ process[executors[i]]
            /\ server[executors[i]] \in {"executed", "returned"}

\* What a client knows of the thread.
ClientInv ==
    \A c \in Calls :
        /\ client[c] # "error"
        /\ client[c] = "idle" => server[c] = "none"
        /\ client[c] = "timedOut" => kind[c] \in Timed
        /\ client[c] = "failed" => server[c] = "raised"
        /\ client[c] \in {"got", "performed"} => server[c] = "returned"

Inv == ServiceTypeOK /\ ServerInv /\ ContainerInv /\ ClientInv

-----------------------------------------------------------------------------
\* A call keeps its action and its id, and a process that was started was started:
\* a rival stays one.
LEMMA RivalStays ==
    ASSUME ServiceTypeOK, UNCHANGED <<kind, id>>,
           \A d \in Calls : process[d] => process'[d],
           NEW c \in Calls, Rival(c)
    PROVE  Rival(c)'
BY DEF Rival, Starting, Receiving, Sending

\* Nothing has been called yet.
LEMMA InvInit == Init => Inv
BY ServiceAssumption
   DEF Init, Inv, ServiceTypeOK, ServerInv, ContainerInv, ClientInv, ClientStates,
       ServerStates, Starting, Equipped, Contained, Rival

\* The types are kept by every step.
LEMMA TypeStep == ServiceTypeOK /\ [Next]_vars => ServiceTypeOK'
<1> SUFFICES ASSUME ServiceTypeOK, [Next]_vars PROVE ServiceTypeOK'
    OBVIOUS
<1> USE DEF ServiceTypeOK
<1>1. ASSUME NEW c \in Calls, ClientStep(c) PROVE ServiceTypeOK'
    <2>1. CASE Call(c)
        BY <2>1 DEF Call, ClientGoes, ClientStates, ServerStates, objectVars
    <2>2. CASE Alarm(c) \/ Break(c) \/ Answered(c)
        BY <2>2 DEF Alarm, Break, Answered, ClientGoes, ClientStates, objectVars
    <2>3. CASE CheckStatus(c)
        <3>1. PICK w \in {"performed", "broken", "error"} : ClientGoes(c, w)
            BY <2>3 DEF CheckStatus
        <3> QED BY <2>3, <3>1 DEF CheckStatus, ClientGoes, ClientStates, objectVars
    <2> QED BY <1>1, <2>1, <2>2, <2>3 DEF ClientStep
<1>2. ASSUME NEW c \in Calls, ServerStep(c) PROVE ServiceTypeOK'
    <2> USE DEF ServerGoes, ServerStates
    <2>0. CASE Construct(c)
        BY <2>0 DEF Construct, Refuse, ConstructTest, ConstructReceiving, ConstructSending,
                    ConstructCleanup, Constructed, Bare, objectVars
    <2>1. CASE ExecuteTest(c) \/ ExecuteCleanup(c) \/ Register(c)
        BY <2>1 DEF ExecuteTest, ExecuteCleanup, Register, objectVars
    <2>2. CASE Prepare(c)
        <3>1. UNCHANGED <<kind, id, daemon, client, status, process, executors, registered>>
            BY <2>2 DEF Prepare
        <3>2. \E w \in {"prepared", "raised"} : server' = [server EXCEPT ![c] = w]
            BY <2>2 DEF Prepare
        <3>3. port' \in [Calls -> Ports \cup {NoPort}]
            BY <2>2 DEF Prepare
        <3>4. hasExecutor' \in [Calls -> BOOLEAN]
            BY <2>2 DEF Prepare
        <3> QED BY <3>1, <3>2, <3>3, <3>4
    <2>3. CASE CheckPresence(c) \/ Spawn(c) \/ CheckAgain(c)
        BY <2>3 DEF CheckPresence, Spawn, CheckAgain, ExecutorRaises
    <2>4. CASE Insert(c)
        BY <2>4 DEF Insert
    <2> QED BY <1>2, <2>0, <2>1, <2>2, <2>3, <2>4 DEF ServerStep, Construct
<1>3. ASSUME Stop PROVE ServiceTypeOK'
    BY <1>3 DEF Stop, objectVars
<1>4. ASSUME UNCHANGED vars PROVE ServiceTypeOK'
    BY <1>4 DEF vars, objectVars
<1> QED BY <1>1, <1>2, <1>3, <1>4 DEF Next

\* What a client does leaves the daemon as it is, but for the call it sends.
LEMMA ClientKeepsInv ==
    ASSUME Inv, NEW c \in Calls, ClientStep(c)
    PROVE  ServerInv' /\ ContainerInv' /\ ClientInv'
<1> USE DEF Inv, ServiceTypeOK
<1>1. CASE Call(c)
    <2>1. server[c] = "none"
        BY <1>1 DEF Call, ClientInv
    <2>2. server' = [server EXCEPT ![c] = "sent"] /\ client' = [client EXCEPT ![c] = "waiting"]
        BY <1>1 DEF Call, ClientGoes
    <2>3. UNCHANGED <<kind, id, status, port, hasExecutor, process, executors, registered>>
        BY <1>1 DEF Call, objectVars
    <2>4. ServerInv'
        BY <2>1, <2>2, <2>3 DEF ServerInv, Equipped, Contained, Rival
    <2>5. ContainerInv'
        BY <2>1, <2>2, <2>3 DEF ContainerInv
    <2>6. ClientInv'
        BY <2>1, <2>2, <2>3 DEF ClientInv, Timed
    <2> QED BY <2>4, <2>5, <2>6
<1>2. CASE Alarm(c) \/ Break(c) \/ Answered(c) \/ CheckStatus(c)
    <2>1. UNCHANGED <<kind, id, server, status, port, hasExecutor, process, executors, registered>>
        BY <1>2 DEF Alarm, Break, Answered, CheckStatus, objectVars
    <2>2. ServerInv'
        BY <2>1 DEF ServerInv, Equipped, Contained, Rival
    <2>3. ContainerInv'
        BY <2>1 DEF ContainerInv
    <2>4. ClientInv'
        <3>1. CASE Alarm(c) \/ Break(c) \/ Answered(c)
            BY <2>1, <3>1 DEF Alarm, Break, Answered, ClientGoes, ClientInv, Timed
        <3>2. CASE CheckStatus(c)
            <4>1. server[c] = "returned" /\ client[c] = "got"
                BY <3>2 DEF CheckStatus, ClientInv
            <4>2. status[c] = "0"
                BY <4>1 DEF ServerInv
            <4>3. Reply(c, "getStatus") \in {"0", "raises"}
                BY <4>2 DEF Reply, TestMethod, ReceivingMethod, SendingMethod, StartMethod,
                            CleanupMethod, Kinds, Starting
            <4>4. PICK w \in {"performed", "broken"} : client' = [client EXCEPT ![c] = w]
                BY <3>2, <4>3 DEF CheckStatus, ClientGoes
            <4> QED BY <2>1, <4>1, <4>4 DEF ClientInv, Timed
        <3> QED BY <1>2, <3>1, <3>2
    <2> QED BY <2>2, <2>3, <2>4
<1> QED BY <1>1, <1>2 DEF ClientStep

\* A thread works on its own object, and a start on the container: what it replaces there
\* has a rival from then on.
LEMMA ServerKeepsInv ==
    ASSUME Inv, NEW c \in Calls, ServerStep(c)
    PROVE  ServerInv' /\ ContainerInv' /\ ClientInv'
<1> USE DEF Inv, ServiceTypeOK
<1>0. UNCHANGED <<kind, id, daemon, client>>
    BY DEF ServerStep, Refuse, ConstructTest, ConstructReceiving, ConstructSending,
           ConstructCleanup, Constructed, Bare, ExecuteTest, ExecuteCleanup, Prepare, CheckPresence, Spawn,
           CheckAgain, Insert, Register, ExecutorRaises, ServerGoes, objectVars
<1>1. server[c] \notin {"none", "returned", "raised"}
    BY DEF ServerStep, Refuse, ConstructTest, ConstructReceiving, ConstructSending,
           ConstructCleanup, Constructed, Bare, ExecuteTest, ExecuteCleanup, Prepare, CheckPresence, Spawn,
           CheckAgain, Insert, Register
<1>2. \E w \in ServerStates \ {"none"} : server' = [server EXCEPT ![c] = w]
    BY DEF ServerStep, Refuse, ConstructTest, ConstructReceiving, ConstructSending,
           ConstructCleanup, Constructed, Bare, ExecuteTest, ExecuteCleanup, Prepare, CheckPresence, Spawn,
           CheckAgain, Insert, Register, ExecutorRaises, ServerGoes, ServerStates
<1>3. ClientInv'
    BY <1>0, <1>1, <1>2 DEF ClientInv, Timed
<1>4. CASE Construct(c)
    <2>1. UNCHANGED <<process, executors, registered>>
        BY <1>4 DEF Construct, Refuse, ConstructTest, ConstructReceiving, ConstructSending,
                    ConstructCleanup, Constructed, Bare, objectVars
    <2>2. server[c] = "sent" /\ server'[c] \in {"constructed", "raised"}
        BY <1>4 DEF Construct, Refuse, ConstructTest, ConstructReceiving, ConstructSending,
                    ConstructCleanup, Constructed, Bare, ServerGoes
    <2>3. \A d \in Calls \ {c} :
              status'[d] = status[d] /\ port'[d] = port[d] /\ hasExecutor'[d] = hasExecutor[d]
        BY <1>4 DEF Construct, Refuse, ConstructTest, ConstructReceiving, ConstructSending,
                    ConstructCleanup, Constructed, Bare, objectVars
    <2>4. ServerInv'
        BY <1>0, <1>2, <2>1, <2>2, <2>3 DEF ServerInv, Equipped, Contained, Rival
    <2>5. ContainerInv'
        BY <1>0, <1>2, <2>1, <2>2 DEF ContainerInv
    <2> QED BY <1>3, <2>4, <2>5
<1>5. CASE ExecuteTest(c) \/ ExecuteCleanup(c)
    <2>1. UNCHANGED <<port, hasExecutor, process, executors, registered>>
        BY <1>5 DEF ExecuteTest, ExecuteCleanup
    <2>2. /\ server[c] = "constructed" /\ kind[c] \notin Starting
          /\ \/ server'[c] = "executed" /\ status' = [status EXCEPT ![c] = "0"]
             \/ server'[c] = "raised" /\ status' = status
        BY <1>5 DEF ExecuteTest, ExecuteCleanup, ServerGoes, Starting, Test, Cleanup,
                    Receiving, Sending
    <2>3. ServerInv'
        BY <1>0, <1>2, <2>1, <2>2 DEF ServerInv, Equipped, Contained, Rival
    <2>4. ContainerInv'
        BY <1>0, <1>2, <2>1, <2>2 DEF ContainerInv
    <2> QED BY <1>3, <2>3, <2>4
<1>6. CASE Prepare(c)
    <2>1. UNCHANGED <<status, process, executors, registered>>
        BY <1>6 DEF Prepare
    <2>2. server[c] = "constructed" /\ kind[c] \in Starting /\ server'[c] \in {"prepared", "raised"}
        BY <1>6 DEF Prepare, ServerGoes
    <2>3. \A d \in Calls \ {c} : port'[d] = port[d] /\ hasExecutor'[d] = hasExecutor[d]
        BY <1>6 DEF Prepare
    <2>4. server'[c] = "prepared" => Equipped(c)'
        <3> HAVE server'[c] = "prepared"
        <3>1. PICK p \in Ports :
                  port' = IF kind[c] = Receiving THEN [port EXCEPT ![c] = p] ELSE port
            BY <1>2, <1>6 DEF Prepare, ServerGoes
        <3>2. hasExecutor' = [hasExecutor EXCEPT ![c] = TRUE]
            BY <1>2, <1>6 DEF Prepare, ServerGoes
        <3> QED BY <1>0, <2>2, <3>1, <3>2 DEF Equipped
    <2>5. ServerInv'
        BY <1>0, <1>2, <2>1, <2>2, <2>3, <2>4 DEF ServerInv, Equipped, Contained, Rival
    <2>6. ContainerInv'
        BY <1>0, <1>2, <2>1, <2>2 DEF ContainerInv
    <2> QED BY <1>3, <2>5, <2>6
<1>7. CASE CheckPresence(c)
    <2>1. UNCHANGED <<port, hasExecutor, process, executors, registered>>
        BY <1>7 DEF CheckPresence
    <2>2. /\ server[c] = "prepared" /\ server'[c] \in {"checked", "raised"}
          /\ \A d \in Calls \ {c} : status'[d] = status[d]
        BY <1>7 DEF CheckPresence, ServerGoes, ExecutorRaises
    <2>3. ServerInv'
        BY <1>0, <1>2, <2>1, <2>2 DEF ServerInv, Equipped, Contained, Rival
    <2>4. ContainerInv'
        BY <1>0, <1>2, <2>1, <2>2 DEF ContainerInv
    <2> QED BY <1>3, <2>3, <2>4
<1>8. CASE Spawn(c)
    <2>1. UNCHANGED <<port, hasExecutor, executors, registered>>
        BY <1>8 DEF Spawn
    <2>2. /\ server[c] = "checked" /\ \A d \in Calls \ {c} : status'[d] = status[d]
          /\ \/ server'[c] = "spawned" /\ process' = [process EXCEPT ![c] = TRUE]
             \/ server'[c] = "raised" /\ process' = process
        BY <1>8 DEF Spawn, ServerGoes, ExecutorRaises
    <2>3. \A d \in Calls : Rival(d) => Rival(d)'
        BY <1>0, <2>2, RivalStays
    <2>4. ServerInv'
        BY <1>0, <1>2, <2>1, <2>2, <2>3 DEF ServerInv, Equipped, Contained
    <2>5. ContainerInv'
        BY <1>0, <1>2, <2>1, <2>2 DEF ContainerInv
    <2> QED BY <1>3, <2>4, <2>5
<1>9. CASE CheckAgain(c)
    <2>1. UNCHANGED <<port, hasExecutor, process, executors, registered>>
        BY <1>9 DEF CheckAgain
    <2>2. /\ server[c] = "spawned" /\ \A d \in Calls \ {c} : status'[d] = status[d]
          /\ server'[c] = "adding" \/ (server'[c] = "raised" /\ Present(c))
        BY <1>9 DEF CheckAgain, ServerGoes, ExecutorRaises
    <2>3. Present(c) => Rival(c)
        BY <2>2 DEF Present, ContainerInv, Rival
    <2>4. \A d \in Calls : Rival(d) => Rival(d)'
        BY <1>0, <2>1, RivalStays
    <2>5. ServerInv'
        BY <1>0, <1>2, <2>1, <2>2, <2>3, <2>4 DEF ServerInv, Equipped, Contained
    <2>6. ContainerInv'
        BY <1>0, <1>2, <2>1, <2>2 DEF ContainerInv
    <2> QED BY <1>3, <2>5, <2>6
<1>10. CASE Insert(c)
    <2>1. UNCHANGED <<port, hasExecutor, process, registered>>
        BY <1>10 DEF Insert
    <2>2. /\ server[c] = "adding" /\ server'[c] = "executed"
          /\ executors' = [executors EXCEPT ![id[c]] = c]
          /\ status' = [status EXCEPT ![c] = "0"]
        BY <1>10 DEF Insert, ServerGoes
    <2>3. process[c] /\ Equipped(c) /\ kind[c] \in Starting
        BY <2>2 DEF ServerInv, Equipped
    <2>4. \A d \in Calls : Rival(d) => Rival(d)'
        BY <1>0, <2>1, RivalStays
    <2>5. \A d \in Calls : Contained(d) => Contained(d)'
        <3> SUFFICES ASSUME NEW d \in Calls, Contained(d) PROVE Contained(d)'
            OBVIOUS
        <3>1. CASE d = c \/ id[d] # id[c] \/ Rival(d)
            BY <1>0, <2>2, <2>4, <3>1 DEF Contained
        <3>2. CASE d # c /\ id[d] = id[c]
            BY <1>0, <2>1, <2>3, <3>2 DEF Contained, Rival
        <3> QED BY <3>1, <3>2
    <2>6. Contained(c)'
        BY <1>0, <2>2 DEF Contained
    <2>7. ServerInv'
        BY <1>0, <1>2, <2>1, <2>2, <2>3, <2>4, <2>5, <2>6 DEF ServerInv, Equipped
    <2>8. ContainerInv'
        BY <1>0, <1>2, <2>1, <2>2, <2>3 DEF ContainerInv
    <2> QED BY <1>3, <2>7, <2>8
<1>11. CASE Register(c)
    <2>1. UNCHANGED <<status, port, hasExecutor, process, executors>>
        BY <1>11 DEF Register, objectVars
    <2>2. server[c] = "executed" /\ server'[c] = "returned" /\ registered' = registered \cup {c}
        BY <1>11 DEF Register, ServerGoes
    <2>3. ServerInv'
        BY <1>0, <1>2, <2>1, <2>2 DEF ServerInv, Equipped, Contained, Rival
    <2>4. ContainerInv'
        BY <1>0, <1>2, <2>1, <2>2 DEF ContainerInv
    <2> QED BY <1>3, <2>3, <2>4
<1> QED BY <1>4, <1>5, <1>6, <1>7, <1>8, <1>9, <1>10, <1>11 DEF ServerStep, Construct

\* The invariant is kept by every step.
LEMMA InvStep == Inv /\ [Next]_vars => Inv'
<1> SUFFICES ASSUME Inv, [Next]_vars PROVE Inv'
    OBVIOUS
<1>1. ServiceTypeOK'
    BY TypeStep DEF Inv
<1>2. CASE \E c \in Calls : ClientStep(c)
    BY <1>1, <1>2, ClientKeepsInv DEF Inv
<1>3. CASE \E c \in Calls : ServerStep(c)
    BY <1>1, <1>3, ServerKeepsInv DEF Inv
<1>4. CASE Stop \/ UNCHANGED vars
    <2>1. UNCHANGED <<kind, id, client, server, status, port, hasExecutor, process, executors,
                      registered>>
        BY <1>4 DEF Stop, vars, objectVars
    <2> QED BY <1>1, <2>1 DEF Inv, ServerInv, ContainerInv, ClientInv, Equipped, Contained, Rival
<1> QED BY <1>2, <1>3, <1>4 DEF Next

\* At all times.
LEMMA Invariant == Spec => []Inv
BY InvInit, InvStep, PTL DEF Spec

-----------------------------------------------------------------------------
\* The variables keep their types.
THEOREM ServiceTypeHolds == Spec => []ServiceTypeOK
BY Invariant, PTL DEF Inv

\* What a client gets from service() was executed to its end, however many calls there
\* are and whichever of their answers come late or never.
THEOREM HeldIsDoneHolds == Spec => []HeldIsDone
<1>1. Inv => HeldIsDone
    BY DEF Inv, ServerInv, ClientInv, HeldIsDone, Contained
<1> QED BY <1>1, Invariant, PTL

\* A process that was started is accounted for: no timeout leaves one behind.
THEOREM ProcessesAccountedHolds == Spec => []ProcessesAccounted
<1>1. Inv => ProcessesAccounted
    <2> SUFFICES ASSUME Inv, NEW c \in Calls, process[c]
                 PROVE  \/ client[c] \in {"waiting", "broken", "got", "performed"}
                        \/ client[c] = "failed" /\ Rival(c)
        BY DEF ProcessesAccounted
    <2>1. kind[c] \in Starting /\ server[c] # "none"
        BY DEF Inv, ServerInv
    <2>2. client[c] \notin {"idle", "timedOut", "error"}
        BY <2>1 DEF Inv, ClientInv, Timed, Starting, Test, Cleanup, Receiving, Sending
    <2>3. client[c] = "failed" => Rival(c)
        BY DEF Inv, ServerInv, ClientInv
    <2>4. client[c] \in ClientStates
        BY DEF Inv, ServiceTypeOK
    <2> QED BY <2>2, <2>3, <2>4 DEF ClientStates
<1> QED BY <1>1, Invariant, PTL

\* A daemon that runs answers what fdtcp asks of the objects of its starts.
THEOREM StartsAnswerHolds == Spec => []StartsAnswer
<1>1. Inv => StartsAnswer
    <2> SUFFICES ASSUME Inv, NEW c \in Calls, client[c] = "performed", daemon # "down"
                 PROVE  /\ kind[c] = Sending => Reply(c, "executeWithLogOut") = "output"
                        /\ kind[c] = Receiving => Reply(c, "getServerPort") \in Ports
        BY DEF StartsAnswer
    <2>1. server[c] = "returned"
        BY DEF Inv, ClientInv
    <2>2. c \in registered /\ (kind[c] \in Starting => Equipped(c) /\ process[c])
        BY <2>1 DEF Inv, ServerInv
    <2>3. ASSUME kind[c] = Sending PROVE Reply(c, "executeWithLogOut") = "output"
        <3>1. Reply(c, "executeWithLogOut") = StartMethod(c, "executeWithLogOut")
            BY <2>2, <2>3 DEF Reply, SendingMethod, Test, Receiving, Sending, Cleanup
        <3>2. hasExecutor[c] /\ process[c]
            BY <2>2, <2>3 DEF Equipped, Starting
        <3> QED BY <3>1, <3>2 DEF StartMethod
    <2>4. ASSUME kind[c] = Receiving PROVE Reply(c, "getServerPort") \in Ports
        <3>1. Reply(c, "getServerPort") = port[c]
            BY <2>2, <2>4 DEF Reply, ReceivingMethod, Test, Receiving, Sending, Cleanup
        <3> QED BY <2>2, <2>4, <3>1 DEF Equipped, Starting
    <2> QED BY <2>3, <2>4
<1> QED BY <1>1, Invariant, PTL
=============================================================================
