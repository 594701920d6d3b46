-------------------------------- MODULE Copy ---------------------------------
(***************************************************************************)
(* Whole copies, from the id fdtcp makes up to the FDT client that reads   *)
(* its list of files and connects: clients that know nothing of each other *)
(* meet at one pair of daemons, in the ports of the destination, the file  *)
(* lists of the source and the containers of both.                         *)
(*                                                                         *)
(* The steps of a copy are those of the client and of the request it waits *)
(* for, one after the other.  FDTD has the other steps of a request, the   *)
(* lock and the shutdown; a cleanup leaves what is modelled here as it     *)
(* finds it.  Source and destination are different hosts; logging calls do *)
(* not raise.  FDT Java is external: a server binds its port some time     *)
(* after it was started, a client reads the list (option -fl) and connects *)
(* to the port (options -c and -p).                                        *)
(***************************************************************************)
EXTENDS PortReservation

CONSTANTS
    Ids,        \* the transfer ids getId() can come up with
    UserPorts,  \* the values of portServer users give
    Nobody      \* no copy

Copies == Receivers
Sides  == {"dest", "src"}

ASSUME CopyAssumption ==
    /\ Ids # {}
    /\ UserPorts \subseteq Nat \ {NoPort}
    /\ Nobody \notin Copies

VARIABLES
    id,         \* Transfer.transferId
    forced,     \* the user gave a portServer
    pc,         \* where the copy is: a side, or the client, and the next step
    port,       \* ReceivingServerAction.port, which the FDT client is told
    executors,  \* the containers of the two daemons: whose executor an id has
    process,    \* the FDT server (dest) and the FDT client (src) of each copy
    directory,  \* the directory fileLists exists
    list,       \* whose files fdt-fileList-<id> names; Nobody: it is empty
    reads,      \* whose files the FDT client was told to send
    link        \* whose server the FDT client is connected to

fileVars == <<directory, list>>
fdtVars  == <<process, reads, link>>
vars == <<portVars, id, forced, pc, port, executors, fileVars, fdtVars>>

Places == {"dest", "src", "client"} \X
              {"port", "setup", "check", "spawn", "add", "insert", "directory", "mkdir",
               "open", "write", "log", "done", "failed"}

ProcessStates == {"none", "starting", "listening", "ready", "connected", "gone"}

At(t, side, step)   == pc[t] = <<side, step>>
Goto(t, side, step) == pc' = [pc EXCEPT ![t] = <<side, step>>]
Fail(t) == Goto(t, "client", "failed")

\* checkExecutorPresence in the daemon of a side.
Present(t, side) == executors[side][id[t]] # Nobody

Init ==
    /\ PortInit
    /\ id \in [Copies -> Ids]
    /\ forced \in [Copies -> BOOLEAN]
    /\ pc = [t \in Copies |-> <<"dest", "port">>]
    /\ port = [t \in Copies |-> NoPort]
    /\ executors = [side \in Sides |-> [i \in Ids |-> Nobody]]
    /\ process = [side \in Sides |-> [t \in Copies |-> "none"]]
    /\ directory \in BOOLEAN
    /\ list = [i \in Ids |-> Nobody]
    /\ reads = [t \in Copies |-> Nobody]
    /\ link = [t \in Copies |-> Nobody]

-----------------------------------------------------------------------------
\* ReceivingServerAction.execute up to the Executor.

\* The user's port is taken as it is, unless int() refuses it.
ForcePort(t) ==
    /\ At(t, "dest", "port") /\ forced[t]
    /\ \/ /\ \E p \in UserPorts : port' = [port EXCEPT ![t] = p]
          /\ Goto(t, "dest", "setup")
       \/ Fail(t) /\ UNCHANGED port
    /\ UNCHANGED <<portVars, id, forced, executors, fileVars, fdtVars>>

GetFreePort(t) ==
    /\ At(t, "dest", "port") /\ ~ forced[t]
    /\ \/ CheckRejects(t) /\ Fail(t) /\ UNCHANGED port
       \/ CheckPasses(t) /\ UNCHANGED <<pc, port>>
       \/ /\ Take(t)
          /\ port' = [port EXCEPT ![t] = Candidate]
          /\ Goto(t, "dest", "setup")
    /\ UNCHANGED <<id, forced, executors, fileVars, fdtVars>>

\* _setUp puts the command together, which fails if the configuration names an option
\* the request has not got; _checkTargetFileNames looks at the target files, for the log
\* only.  A failure leaves the port taken.
SetUp(t) ==
    /\ At(t, "dest", "setup")
    /\ Goto(t, "dest", "check") \/ Fail(t)
    /\ UNCHANGED <<portVars, id, forced, port, executors, fileVars, fdtVars>>

-----------------------------------------------------------------------------
\* SendingClientAction._setUp.

CheckDirectory(t) ==
    /\ At(t, "src", "directory")
    /\ Goto(t, "src", IF directory THEN "open" ELSE "mkdir")
    /\ UNCHANGED <<portVars, id, forced, port, executors, fileVars, fdtVars>>

\* os.mkdir fails also when another request made the directory meanwhile: with
\* OSError, which is no IOError and so escapes as it is.
MakeDirectory(t) ==
    /\ At(t, "src", "mkdir")
    /\ \/ ~ directory /\ directory' = TRUE /\ Goto(t, "src", "open")
       \/ UNCHANGED directory /\ Fail(t)
    /\ UNCHANGED <<portVars, id, forced, port, executors, list, fdtVars>>

\* open(fileListName, 'w') empties the list of an earlier copy of this id ...
OpenList(t) ==
    /\ At(t, "src", "open")
    /\ \/ list' = [list EXCEPT ![id[t]] = Nobody] /\ Goto(t, "src", "write")
       \/ UNCHANGED list /\ Fail(t)
    /\ UNCHANGED <<portVars, id, forced, port, executors, directory, fdtVars>>

\* A mutant of WriteList: every copy writes to the same file.
WriteSharedList(t) ==
    /\ At(t, "src", "write")
    /\ list' = [i \in Ids |-> t]
    /\ Goto(t, "src", "check")
    /\ UNCHANGED <<portVars, id, forced, port, executors, directory, fdtVars>>

\* ... and the buffer is written when the file is closed.  The command is put together,
\* if it can be.  All of it before Executor.execute looks whether the id is in use.
WriteList(t) ==
    /\ At(t, "src", "write")
    /\ list' = [list EXCEPT ![id[t]] = t]
    /\ Goto(t, "src", "check") \/ Fail(t)
    /\ UNCHANGED <<portVars, id, forced, port, executors, directory, fdtVars>>

-----------------------------------------------------------------------------
\* Executor.execute and addExecutor, in the daemon of either side.

CheckPresence(t, side) ==
    /\ At(t, side, "check")
    /\ IF Present(t, side) THEN Fail(t) ELSE Goto(t, side, "spawn")
    /\ UNCHANGED <<portVars, id, forced, port, executors, fileVars, fdtVars>>

Spawn(t, side) ==
    /\ At(t, side, "spawn")
    /\ \/ /\ process' = [process EXCEPT ![side][t] = "starting"]
          /\ Goto(t, side, "add")
       \/ UNCHANGED process /\ Fail(t)
    /\ UNCHANGED <<portVars, id, forced, port, executors, fileVars, reads, link>>

CheckAgain(t, side) ==
    /\ At(t, side, "add")
    /\ IF Present(t, side) THEN Fail(t) ELSE Goto(t, side, "insert")
    /\ UNCHANGED <<portVars, id, forced, port, executors, fileVars, fdtVars>>

\* The result goes back to the client, which asks the source for an FDT client
\* as soon as the destination has answered, and then reads the log.
Insert(t, side) ==
    /\ At(t, side, "insert")
    /\ executors' = [executors EXCEPT ![side][id[t]] = t]
    /\ IF side = "dest" THEN Goto(t, "src", "directory") ELSE Goto(t, "client", "log")
    /\ UNCHANGED <<portVars, id, forced, port, fileVars, fdtVars>>

\* The log of the FDT client comes to an end.
EndOfLog(t) ==
    /\ At(t, "client", "log")
    /\ process["src"][t] = "gone"
    /\ Goto(t, "client", "done")
    /\ UNCHANGED <<portVars, id, forced, port, executors, fileVars, fdtVars>>

-----------------------------------------------------------------------------
\* FDT Java.

Listening(u, p) == process["dest"][u] = "listening" /\ port[u] = p

\* A server gets its port only if no other listens there, or it ends.
Bind(t) ==
    /\ process["dest"][t] = "starting"
    /\ process' = [process EXCEPT !["dest"][t] =
                      IF \E u \in Copies : Listening(u, port[t]) THEN "gone" ELSE "listening"]
    /\ UNCHANGED <<portVars, id, forced, pc, port, executors, fileVars, reads, link>>

ProcessEnds(t, side) ==
    /\ process[side][t] \in {"starting", "listening", "connected"}
    /\ process' = [process EXCEPT ![side][t] = "gone"]
    /\ UNCHANGED <<portVars, id, forced, pc, port, executors, fileVars, reads, link>>

ReadList(t) ==
    /\ process["src"][t] = "starting"
    /\ process' = [process EXCEPT !["src"][t] = "ready"]
    /\ reads' = [reads EXCEPT ![t] = list[id[t]]]
    /\ UNCHANGED <<portVars, id, forced, pc, port, executors, fileVars, link>>

\* The client connects to whatever server listens at the port, or is refused.
Connect(t) ==
    /\ process["src"][t] = "ready"
    /\ \/ \E u \in Copies :
              /\ Listening(u, port[t])
              /\ link' = [link EXCEPT ![t] = u]
              /\ process' = [process EXCEPT !["src"][t] = "connected"]
       \/ /\ \A u \in Copies : ~ Listening(u, port[t])
          /\ process' = [process EXCEPT !["src"][t] = "gone"]
          /\ UNCHANGED link
    /\ UNCHANGED <<portVars, id, forced, pc, port, executors, fileVars, reads>>

-----------------------------------------------------------------------------
CopyStep(t) ==
    \/ ForcePort(t) \/ GetFreePort(t) \/ SetUp(t)
    \/ CheckDirectory(t) \/ MakeDirectory(t) \/ OpenList(t) \/ WriteList(t)
    \/ \E side \in Sides :
           CheckPresence(t, side) \/ Spawn(t, side) \/ CheckAgain(t, side) \/ Insert(t, side)
    \/ EndOfLog(t)

FDT(t) ==
    \/ Bind(t) \/ ReadList(t) \/ Connect(t)
    \/ \E side \in Sides : ProcessEnds(t, side)

Next == \E t \in Copies : CopyStep(t) \/ FDT(t)

Spec == Init /\ [][Next]_vars

-----------------------------------------------------------------------------
\* The values the variables range over.
CopiesTypeOK ==
    /\ id \in [Copies -> Ids]
    /\ forced \in [Copies -> BOOLEAN]
    /\ pc \in [Copies -> Places]
    /\ port \in [Copies -> Ports \cup UserPorts \cup {NoPort}]
    /\ executors \in [Sides -> [Ids -> Copies \cup {Nobody}]]
    /\ process \in [Sides -> [Copies -> ProcessStates]]
    /\ directory \in BOOLEAN
    /\ list \in [Ids -> Copies \cup {Nobody}]
    /\ reads \in [Copies -> Copies \cup {Nobody}]
    /\ link \in [Copies -> Copies \cup {Nobody}]

CopyTypeOK == PortTypeOK /\ CopiesTypeOK

\* An FDT client talks to the server that was started for its own copy, unless a
\* user chose the port of one of the two, or more ports were granted than there are
\* (ReceivingServerAction.execute books no portServer and reserve() tests the
\* capacity outside its lock).
MeetsOwnServer ==
    \A t, u \in Copies :
        link[t] = u /\ u # t => forced[t] \/ forced[u] \/ numTakenPorts > NumPorts

\* An FDT client that has read its list was told to send exactly the files of its
\* own copy, unless another copy has the same id (getId: five random letters and the
\* second): such a copy overwrites the list before it is turned down.
SendsOwnFiles ==
    \A t \in Copies :
        process["src"][t] \in {"ready", "connected"} /\ reads[t] # t =>
            \E u \in Copies \ {t} : id[u] = id[t]

\* ReceivingServerAction.py:181, "FDT server is running": when the destination has
\* answered, the server has its port (or has come and gone).
RunningMeansListening ==
    \A t \in Copies : pc[t][1] = "src" => process["dest"][t] # "starting"
=============================================================================
