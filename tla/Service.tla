------------------------------- MODULE Service -------------------------------
(***************************************************************************)
(* The calls of service() at one daemon, from FDTCopy.perform of the       *)
(* client to the action object the daemon makes for the call, executes,    *)
(* registers with Pyro and hands out, and on to the methods the client     *)
(* then calls on that object.                                              *)
(*                                                                         *)
(* A request, and an answer, may come after the client has given up.  A    *)
(* cleanup leaves the container as it finds it: FDTD has the moment when   *)
(* it takes an entry out to put it back.  Logging calls do not raise.      *)
(***************************************************************************)

CONSTANTS
    Calls,      \* calls of service()
    Ids,        \* transfer ids
    Ports,      \* what getFreePort or the user can give
    NoCall      \* the container has no executor for an id

Test      == "TestAction"
Receiving == "ReceivingServerAction"
Sending   == "SendingClientAction"
Cleanup   == "CleanupProcessesAction"

Starting == {Receiving, Sending}
Kinds    == {Test, Cleanup} \cup Starting

NoPort == "none"

ASSUME ServiceAssumption == NoCall \notin Calls /\ NoPort \notin Ports

VARIABLES
    kind,       \* the action of a call
    id,         \* its transfer id
    daemon,     \* "up", "stopping" (stopFlag), "down"
    client,     \* where the client is with a call
    server,     \* where the thread of the daemon is with it
    status,     \* the status of its action object, "none" before there is one
    port,       \* the port of the object
    hasExecutor,\* the object has got its executor
    process,    \* its executor has started a process
    executors,  \* FDTD.executors: whose executor an id has
    registered  \* the objects registered with Pyro

objectVars == <<status, port, hasExecutor>>
vars == <<kind, id, daemon, client, server, objectVars, process, executors, registered>>

ClientStates == {"idle", "waiting", "timedOut", "broken", "failed", "got", "error", "performed"}

ServerStates == {"none", "sent", "constructed", "prepared", "checked", "spawned", "adding",
                 "executed", "returned", "raised"}

Methods == {"getID", "getStatus", "getHost", "getMsg", "getLog", "getServerPort",
            "executeWithLogOut", "executeWithOutLogOut"}

-----------------------------------------------------------------------------
\* Nothing has been called.
Init ==
    /\ kind \in [Calls -> Kinds] /\ id \in [Calls -> Ids]
    /\ daemon = "up"
    /\ client = [c \in Calls |-> "idle"]
    /\ server = [c \in Calls |-> "none"]
    /\ status = [c \in Calls |-> "none"]
    /\ port = [c \in Calls |-> NoPort]
    /\ hasExecutor = [c \in Calls |-> FALSE]
    /\ process = [c \in Calls |-> FALSE]
    /\ executors = [i \in Ids |-> NoCall]
    /\ registered = {}

Present(c) == executors[id[c]] # NoCall

-----------------------------------------------------------------------------
\* FDTCopy.call and perform.

ClientGoes(c, where) == client' = [client EXCEPT ![c] = where]

Call(c) ==
    /\ client[c] = "idle"
    /\ ClientGoes(c, "waiting")
    /\ server' = [server EXCEPT ![c] = "sent"]
    /\ UNCHANGED <<kind, id, daemon, objectVars, process, executors, registered>>

\* A mutant of Timed: starts carry a timeout, too.
TimedAll == Kinds

\* The actions that carry a timeout.
Timed == {Test, Cleanup}

\* SIGALRM, which may come any time before signal.alarm(0).
Alarm(c) ==
    /\ client[c] = "waiting" /\ kind[c] \in Timed
    /\ ClientGoes(c, "timedOut")
    /\ UNCHANGED <<kind, id, daemon, server, objectVars, process, executors, registered>>

\* The connection is refused or breaks, or the client is interrupted.
Break(c) ==
    /\ client[c] = "waiting"
    /\ ClientGoes(c, "broken")
    /\ UNCHANGED <<kind, id, daemon, server, objectVars, process, executors, registered>>

Answered(c) ==
    /\ client[c] = "waiting" /\ daemon # "down"
    /\ \/ server[c] = "returned" /\ ClientGoes(c, "got")
       \/ server[c] = "raised" /\ ClientGoes(c, "failed")
    /\ UNCHANGED <<kind, id, daemon, server, objectVars, process, executors, registered>>

-----------------------------------------------------------------------------
\* service() in a thread of the daemon.

ServerGoes(c, where) == server' = [server EXCEPT ![c] = where]

\* handleServiceStopped: stopFlag is set.
Refuse(c) ==
    /\ daemon = "stopping" /\ server[c] = "sent"
    /\ ServerGoes(c, "raised")
    /\ UNCHANGED <<kind, id, daemon, client, objectVars, process, executors, registered>>

\* The constructors, when it is not: the object is there, and nothing has been done.
Constructed(c) ==
    /\ daemon = "up" /\ server[c] = "sent"
    /\ status' = [status EXCEPT ![c] = "-1"]
    /\ ServerGoes(c, "constructed")
    /\ UNCHANGED <<kind, id, daemon, client, process, executors, registered>>

ConstructTest(c) ==
    /\ kind[c] = Test
    /\ Constructed(c)
    /\ UNCHANGED <<port, hasExecutor>>

\* Both starts begin with no port and no executor.
Bare(c) ==
    /\ port' = [port EXCEPT ![c] = NoPort]
    /\ hasExecutor' = [hasExecutor EXCEPT ![c] = FALSE]

ConstructReceiving(c) == kind[c] = Receiving /\ Constructed(c) /\ Bare(c)

ConstructSending(c) == kind[c] = Sending /\ Constructed(c) /\ Bare(c)

ConstructCleanup(c) ==
    /\ kind[c] = Cleanup
    /\ Constructed(c)
    /\ UNCHANGED <<port, hasExecutor>>

ExecuteTest(c) ==
    /\ daemon # "down" /\ server[c] = "constructed" /\ kind[c] = Test
    /\ status' = [status EXCEPT ![c] = "0"]
    /\ ServerGoes(c, "executed")
    /\ UNCHANGED <<kind, id, daemon, client, port, hasExecutor, process, executors, registered>>

\* A mutant of Prepare: the port goes to the executor only.
PrepareNoPort(c) ==
    /\ daemon # "down" /\ server[c] = "constructed" /\ kind[c] \in Starting
    /\ hasExecutor' = [hasExecutor EXCEPT ![c] = TRUE]
    /\ ServerGoes(c, "prepared")
    /\ UNCHANGED <<kind, id, daemon, client, status, port, process, executors, registered>>

\* A start up to Executor.execute: the port of a server, or the list of files, and the
\* Executor.  A failure here never gets into the status: os.mkdir raises no IOError.
Prepare(c) ==
    /\ daemon # "down" /\ server[c] = "constructed" /\ kind[c] \in Starting
    /\ \/ /\ \E p \in Ports :
                port' = IF kind[c] = Receiving THEN [port EXCEPT ![c] = p] ELSE port
          /\ hasExecutor' = [hasExecutor EXCEPT ![c] = TRUE]
          /\ ServerGoes(c, "prepared")
       \/ ServerGoes(c, "raised") /\ UNCHANGED <<port, hasExecutor>>
    /\ UNCHANGED <<kind, id, daemon, client, status, process, executors, registered>>

\* What Executor.execute raises is noted in the status of a receiver only.  No message
\* of it says "Address already in use", so _checkAddrAlreadyInUseError looks at no process.
ExecutorRaises(c) ==
    /\ status' = [status EXCEPT ![c] = IF kind[c] = Receiving THEN "-2" ELSE @]
    /\ ServerGoes(c, "raised")

CheckPresence(c) ==
    /\ daemon # "down" /\ server[c] = "prepared"
    /\ IF Present(c) THEN ExecutorRaises(c) ELSE ServerGoes(c, "checked") /\ UNCHANGED status
    /\ UNCHANGED <<kind, id, daemon, client, port, hasExecutor, process, executors, registered>>

Spawn(c) ==
    /\ daemon # "down" /\ server[c] = "checked"
    /\ \/ /\ process' = [process EXCEPT ![c] = TRUE]
          /\ ServerGoes(c, "spawned")
          /\ UNCHANGED status
       \/ ExecutorRaises(c) /\ UNCHANGED process
    /\ UNCHANGED <<kind, id, daemon, client, port, hasExecutor, executors, registered>>

CheckAgain(c) ==
    /\ daemon # "down" /\ server[c] = "spawned"
    /\ IF Present(c) THEN ExecutorRaises(c) ELSE ServerGoes(c, "adding") /\ UNCHANGED status
    /\ UNCHANGED <<kind, id, daemon, client, port, hasExecutor, process, executors, registered>>

Insert(c) ==
    /\ daemon # "down" /\ server[c] = "adding"
    /\ executors' = [executors EXCEPT ![id[c]] = c]
    /\ status' = [status EXCEPT ![c] = "0"]
    /\ ServerGoes(c, "executed")
    /\ UNCHANGED <<kind, id, daemon, client, port, hasExecutor, process, registered>>

\* CleanupProcessesAction.execute: an executor it finds may make it raise, and that of a
\* receiver does.
ExecuteCleanup(c) ==
    /\ daemon # "down" /\ server[c] = "constructed" /\ kind[c] = Cleanup
    /\ \/ /\ Present(c) => kind[executors[id[c]]] = Sending
          /\ status' = [status EXCEPT ![c] = "0"]
          /\ ServerGoes(c, "executed")
       \/ Present(c) /\ ServerGoes(c, "raised") /\ UNCHANGED status
    /\ UNCHANGED <<kind, id, daemon, client, port, hasExecutor, process, executors, registered>>

\* A mutant of Register: as soon as the action is constructed, and executed behind it.
RegisterEarly(c) ==
    /\ daemon # "down" /\ server[c] \in {"constructed", "executed"}
    /\ registered' = registered \cup {c}
    /\ ServerGoes(c, "returned")
    /\ UNCHANGED <<kind, id, daemon, client, objectVars, process, executors>>

\* The object is registered, for good, and goes to the client as a proxy.
Register(c) ==
    /\ daemon # "down" /\ server[c] = "executed"
    /\ registered' = registered \cup {c}
    /\ ServerGoes(c, "returned")
    /\ UNCHANGED <<kind, id, daemon, client, objectVars, process, executors>>

\* shutdown() sets stopFlag; then the daemon ends, and what it had in memory with it.
Stop ==
    /\ \/ daemon = "up" /\ daemon' = "stopping"
       \/ daemon = "stopping" /\ daemon' = "down"
    /\ UNCHANGED <<kind, id, client, server, objectVars, process, executors, registered>>

-----------------------------------------------------------------------------
\* The methods of the objects: a value, or "raises".

TestMethod(c, m) ==
    CASE m = "getID"     -> "fresh"
      [] m = "getStatus" -> status[c]
      [] OTHER           -> "raises"

\* Executor.getLogs: the log went to the client, and nothing is kept.
getLogs == ""

\* The methods both starts have.  lastMessage, which getMsg calls, is a text.
StartMethod(c, m) ==
    CASE m = "getID"     -> id[c]
      [] m = "getStatus" -> status[c]
      [] m = "getHost"   -> "host"
      [] m = "getLog" /\ hasExecutor[c] -> getLogs
      [] m \in {"executeWithLogOut", "executeWithOutLogOut"} /\ hasExecutor[c] /\ process[c] -> "output"
      [] OTHER           -> "raises"

ReceivingMethod(c, m) == IF m = "getServerPort" THEN port[c] ELSE StartMethod(c, m)

SendingMethod(c, m) == StartMethod(c, m)

CleanupMethod(c, m) ==
    CASE m = "getID"     -> id[c]
      [] m = "getStatus" -> status[c]
      [] m = "getHost"   -> "host"
      [] m = "getMsg"    -> "text"
      [] OTHER           -> "raises"

\* A proxy asks the daemon that made it.
Reply(c, m) ==
    CASE daemon = "down" \/ c \notin registered -> "raises"
      [] kind[c] = Test      -> TestMethod(c, m)
      [] kind[c] = Receiving -> ReceivingMethod(c, m)
      [] kind[c] = Sending   -> SendingMethod(c, m)
      [] kind[c] = Cleanup   -> CleanupMethod(c, m)

\* perform() looks at the status.  An exception is not one of those call() turns into
\* FDTCopyException.
CheckStatus(c) ==
    /\ client[c] = "got"
    /\ LET s == Reply(c, "getStatus")
       IN ClientGoes(c, CASE s = "0" -> "performed" [] s = "raises" -> "broken" [] OTHER -> "error")
    /\ UNCHANGED <<kind, id, daemon, server, objectVars, process, executors, registered>>

-----------------------------------------------------------------------------
ClientStep(c) ==
    \/ Call(c) \/ Alarm(c) \/ Break(c) \/ Answered(c) \/ CheckStatus(c)

ServerStep(c) ==
    \/ Refuse(c)
    \/ ConstructTest(c) \/ ConstructReceiving(c) \/ ConstructSending(c) \/ ConstructCleanup(c)
    \/ ExecuteTest(c) \/ ExecuteCleanup(c)
    \/ Prepare(c) \/ CheckPresence(c) \/ Spawn(c) \/ CheckAgain(c) \/ Insert(c)
    \/ Register(c)

Next == (\E c \in Calls : ClientStep(c) \/ ServerStep(c)) \/ Stop

Spec == Init /\ [][Next]_vars

-----------------------------------------------------------------------------
\* The values the variables range over.
ServiceTypeOK ==
    /\ kind \in [Calls -> Kinds] /\ id \in [Calls -> Ids]
    /\ daemon \in {"up", "stopping", "down"}
    /\ client \in [Calls -> ClientStates] /\ server \in [Calls -> ServerStates]
    /\ status \in [Calls -> {"none", "-1", "-2", "0"}]
    /\ port \in [Calls -> Ports \cup {NoPort}]
    /\ hasExecutor \in [Calls -> BOOLEAN] /\ process \in [Calls -> BOOLEAN]
    /\ executors \in [Ids -> Calls \cup {NoCall}]
    /\ registered \subseteq Calls

\* Another start of the same id.
Rival(c) == \E d \in Calls \ {c} : kind[d] \in Starting /\ id[d] = id[c] /\ process[d]

\* Whatever a client gets from service() has been executed to its end: perform() never
\* comes to its "Error occurred" (which would raise, as there is no getId), and a start
\* is in the container, unless another of the same id replaced it.
HeldIsDone ==
    \A c \in Calls :
        /\ client[c] # "error"
        /\ client[c] \in {"got", "performed"} =>
              /\ status[c] = "0"
              /\ kind[c] \in Starting => process[c] /\ (executors[id[c]] = c \/ Rival(c))

\* A process is known to a client that may ask for it, or to one whose call may still be
\* answered, or the call broke: a timeout never leaves one behind, though a late answer
\* may cross it, and a refused start only if there is another of the same id.
ProcessesAccounted ==
    \A c \in Calls :
        process[c] =>
            \/ client[c] \in {"waiting", "broken", "got", "performed"}
            \/ client[c] = "failed" /\ Rival(c)

\* What fdtcp calls on the object of a start, the port of the server and the log of the
\* client, is answered as long as the daemon runs, and the port is one it was granted.
StartsAnswer ==
    \A c \in Calls :
        client[c] = "performed" /\ daemon # "down" =>
            /\ kind[c] = Sending => Reply(c, "executeWithLogOut") = "output"
            /\ kind[c] = Receiving => Reply(c, "getServerPort") \in Ports

\* TestAction.py:14, "id is generated here and used throughout the whole transfer
\* process": the object of a test has the id of the transfer.
TestIdIsUsed ==
    \A c \in Calls :
        client[c] = "performed" /\ daemon # "down" => Reply(c, "getID") = id[c]

\* ReceivingServerAction.py:207, "Returns last raised message in the queue": there is one
\* to be had of a start.
MessageReadable ==
    \A c \in Calls :
        client[c] = "performed" /\ daemon # "down" /\ kind[c] \in Starting =>
            Reply(c, "getMsg") # "raises"
=============================================================================
