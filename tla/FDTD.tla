-------------------------------- MODULE FDTD ---------------------------------
(***************************************************************************)
(* The daemon fdtd: the requests served concurrently by the threads of the *)
(* Pyro4 server (FDTDService.service and the execute() of each action),    *)
(* the container of executors with its lock, the FDT processes, and the    *)
(* main thread, which runs the request loop, the signal handler and the    *)
(* shutdown sequence.  Ports come from PortReservation.                    *)
(*                                                                         *)
(* Python runs signal handlers in the main thread, between two bytecodes;  *)
(* a thread blocked in Lock.acquire() runs no handler (Python 2), and      *)
(* threading.Lock is not reentrant.  A request whose thread is still       *)
(* working when the main thread ends is cut off with it.                   *)
(*                                                                         *)
(* Logging is left out, with one exception: some calls of the logging      *)
(* helpers pass arguments the helpers do not take and so raise TypeError.  *)
(* fatal(..., traceBack=True) at the end of shutdown does.  debugDetails() *)
(* in Executor.execute does too, which no start survives: LoggingRaises    *)
(* says whether it is left to raise, or repaired to see what comes after.  *)
(*                                                                         *)
(* The daemon runs daemonized (it owns a PID file) and with separate log   *)
(* files per transfer, as bin/fdtd.sh starts it and conf/fdtd.conf sets.   *)
(***************************************************************************)
EXTENDS PortReservation

CONSTANTS
    Senders,        \* requests that start an FDT client
    Cleaners,       \* CleanupProcessesAction requests
    Forced,         \* the receivers whose request carries a portServer
    IdOf,           \* the transfer id of every request
    NoExec,         \* no executor
    Free, Main,     \* the lock is free, or held by the main thread
    LoggingRaises,  \* the debug line of Executor.execute raises, as it does
    Signals,        \* the signals somebody sends to the daemon
    MaxSignals      \* bound of the exploration: how many arrive

Starters == Receivers \cup Senders
Requests == Starters \cup Cleaners
Ids      == {IdOf[q] : q \in Requests}

ASSUME RequestsAssumption ==
    /\ Receivers \cap Senders = {}
    /\ Starters \cap Cleaners = {}
    /\ Forced \subseteq Receivers
    /\ NoExec \notin Starters
    /\ Free \notin Requests /\ Main \notin Requests /\ Free # Main
    /\ LoggingRaises \in BOOLEAN
    /\ Signals \subseteq {"SIGHUP", "SIGTERM"} /\ MaxSignals \in Nat

VARIABLES
    executors,      \* self.executors: the executor (named by its request) of an id
    executorsLock,  \* self.executorsLock: Free, Main or the request holding it
    pc,             \* where each request is
    target,         \* CleanupProcessesAction.execute: exe
    found,          \* killProcess: executor
    proc,           \* the process of the executor of each starter
    syncFlag,       \* whether the executor has the attribute syncFlag
    stopFlag,       \* FDTDService.stopFlag
    main,           \* where the main thread is
    hup,            \* where the SIGHUP branch of _signalHandler is
    pidFile,        \* the PID file exists
    signals         \* how many signals were delivered so far

containerVars == <<executors, executorsLock>>
requestVars   == <<pc, target, found>>
processVars   == <<proc, syncFlag>>
mainVars      == <<stopFlag, main, hup, pidFile, signals>>
vars == <<portVars, containerVars, requestVars, processVars, mainVars>>

\* How a request ends.
Outcomes == {"ok",           \* a result is returned
             "refused",      \* PyroError, the service is being stopped
             "noPort",       \* PortReservationException
             "crashed",      \* TypeError out of a logging call
             "present",      \* ExecutorException, the id is in the container
             "duplicate",    \* FDTDException out of addExecutor
             "failed",       \* nothing was started: OSError, ValueError, IOError
             "killFailed",   \* an exception out of killProcess
             "syncFailed"}   \* AttributeError, the executor has no syncFlag

Ended(q) == pc[q] \in Outcomes

Goto(q, where) == pc' = [pc EXCEPT ![q] = where]

Present(q) == executors[IdOf[q]] # NoExec

-----------------------------------------------------------------------------
Init ==
    /\ PortInit
    /\ executors = [i \in Ids |-> NoExec]
    /\ executorsLock = Free
    /\ pc = [q \in Requests |-> "new"]
    /\ target = [c \in Cleaners |-> NoExec]
    /\ found = [c \in Cleaners |-> NoExec]
    /\ proc = [e \in Starters |-> "none"]
    /\ syncFlag = [e \in Starters |-> FALSE]
    /\ stopFlag = FALSE
    /\ main = "loop"
    /\ hup = "none"
    /\ pidFile = TRUE
    /\ signals = 0

-----------------------------------------------------------------------------
\* FDTDService.service.

\* A call of service() reaches a thread of the Pyro4 server.
Arrive(q) ==
    /\ pc[q] = "new"
    /\ Goto(q, "called")
    /\ UNCHANGED <<portVars, containerVars, target, found, processVars, mainVars>>

\* getSeparateLogger looks the id up in the container, which takes the lock.
GetLogger(q) ==
    /\ pc[q] = "called"
    /\ executorsLock = Free
    /\ Goto(q, "entered")
    /\ UNCHANGED <<portVars, containerVars, target, found, processVars, mainVars>>

FirstStep(q) ==
    CASE q \in Receivers -> "port"
      [] q \in Senders   -> "setUp"
      [] q \in Cleaners  -> "get"

\* handleServiceStopped raises before the action is made.
CheckStopFlag(q) ==
    /\ pc[q] = "entered"
    /\ Goto(q, IF stopFlag THEN "refused" ELSE FirstStep(q))
    /\ UNCHANGED <<portVars, containerVars, target, found, processVars, mainVars>>

-----------------------------------------------------------------------------
\* ReceivingServerAction.execute up to the Executor.

\* The user's portServer is taken as it is; int() may refuse it.
ForcePort(r) ==
    /\ pc[r] = "port"
    /\ r \in Forced
    /\ \E isNumber \in BOOLEAN : Goto(r, IF isNumber THEN "execute" ELSE "failed")
    /\ UNCHANGED <<portVars, containerVars, target, found, processVars, mainVars>>

\* getFreePort, through the three steps of reserve().
GetFreePort(r) ==
    /\ pc[r] = "port"
    /\ r \notin Forced
    /\ \/ CheckRejects(r) /\ Goto(r, "noPort")
       \/ CheckPasses(r) /\ UNCHANGED pc
       \/ Take(r) /\ Goto(r, "execute")
    /\ UNCHANGED <<containerVars, target, found, processVars, mainVars>>

\* SendingClientAction._setUp: the file list cannot be written, or it is.
SetUp(s) ==
    /\ pc[s] = "setUp"
    /\ \E written \in BOOLEAN : Goto(s, IF written THEN "execute" ELSE "failed")
    /\ UNCHANGED <<portVars, containerVars, target, found, processVars, mainVars>>

-----------------------------------------------------------------------------
\* Executor.execute and FDTD.addExecutor.

\* The debug line, then the test of checkExecutorPresence, made without the lock.
CheckPresence(e) ==
    /\ pc[e] = "execute"
    /\ Goto(e, CASE LoggingRaises -> "crashed"
                 [] ~ LoggingRaises /\ Present(e) -> "present"
                 [] OTHER -> "spawn")
    /\ UNCHANGED <<portVars, containerVars, target, found, processVars, mainVars>>

\* A mutant of SpawnFails: the executor is registered although Popen failed.
SpawnFailsAnyway(e) ==
    /\ pc[e] = "spawn"
    /\ Goto(e, "add")
    /\ UNCHANGED <<portVars, containerVars, target, found, processVars, mainVars>>

SpawnFails(e) ==
    /\ pc[e] = "spawn"
    /\ Goto(e, "failed")
    /\ UNCHANGED <<portVars, containerVars, target, found, processVars, mainVars>>

Spawn(e) ==
    /\ pc[e] = "spawn"
    /\ proc' = [proc EXCEPT ![e] = "running"]
    /\ Goto(e, "add")
    /\ UNCHANGED <<portVars, containerVars, target, found, syncFlag, mainVars>>

\* A mutant of CheckAgain: the condition is inverted.
CheckAgainInverted(e) ==
    /\ pc[e] = "add"
    /\ Goto(e, IF Present(e) THEN "insert" ELSE "duplicate")
    /\ UNCHANGED <<portVars, containerVars, target, found, processVars, mainVars>>

\* addExecutor tests the presence again, still without the lock ...
CheckAgain(e) ==
    /\ pc[e] = "add"
    /\ Goto(e, IF Present(e) THEN "duplicate" ELSE "insert")
    /\ UNCHANGED <<portVars, containerVars, target, found, processVars, mainVars>>

\* ... and then takes it and inserts, over whatever is there by then: an unlocked
\* test of another thread sees the entry before the lock is free again.
Insert(e) ==
    /\ pc[e] = "insert"
    /\ executorsLock = Free
    /\ executorsLock' = e
    /\ executors' = [executors EXCEPT ![IdOf[e]] = e]
    /\ Goto(e, "inserted")
    /\ UNCHANGED <<portVars, target, found, processVars, mainVars>>

\* A mutant of FreeInserted: the release is forgotten.
FreeNothing(e) ==
    /\ pc[e] = "inserted"
    /\ Goto(e, IF e \in Senders THEN "mark" ELSE "ok")
    /\ UNCHANGED <<portVars, containerVars, target, found, processVars, mainVars>>

FreeInserted(e) ==
    /\ pc[e] = "inserted"
    /\ executorsLock' = Free
    /\ Goto(e, IF e \in Senders THEN "mark" ELSE "ok")
    /\ UNCHANGED <<portVars, executors, target, found, processVars, mainVars>>

\* The finally clause of SendingClientAction.execute creates the attribute.
SetSyncFlag(s) ==
    /\ pc[s] = "mark"
    /\ syncFlag' = [syncFlag EXCEPT ![s] = TRUE]
    /\ Goto(s, "ok")
    /\ UNCHANGED <<portVars, containerVars, target, found, proc, mainVars>>

\* The FDT process ends, by exit() or by a signal, whatever the daemon does.
ProcessEnds(e) ==
    /\ proc[e] = "running"
    /\ \E how \in {"exited", "killed"} : proc' = [proc EXCEPT ![e] = how]
    /\ UNCHANGED <<portVars, containerVars, requestVars, syncFlag, mainVars>>

-----------------------------------------------------------------------------
\* CleanupProcessesAction.execute, killProcess, _killProcess, removeExecutor.

GetExecutor(c) ==
    /\ pc[c] = "get"
    /\ executorsLock = Free
    /\ target' = [target EXCEPT ![c] = executors[IdOf[c]]]
    /\ Goto(c, "kill")
    /\ UNCHANGED <<portVars, containerVars, found, processVars, mainVars>>

\* killProcess: the test `idE in self.executors`, without the lock.
LookUp(c) ==
    /\ pc[c] = "kill"
    /\ Goto(c, IF Present(c) THEN "fetch" ELSE "sync")
    /\ UNCHANGED <<portVars, containerVars, target, found, processVars, mainVars>>

\* A mutant of Fetch: the id is taken for the executor.
FetchId(c) ==
    /\ pc[c] = "fetch"
    /\ found' = [found EXCEPT ![c] = IdOf[c]]
    /\ Goto(c, "poll")
    /\ UNCHANGED <<portVars, containerVars, target, processVars, mainVars>>

\* killProcess: `self.executors[idE]`, without the lock: KeyError if the entry
\* is gone by now.
Fetch(c) ==
    /\ pc[c] = "fetch"
    /\ found' = [found EXCEPT ![c] = executors[IdOf[c]]]
    /\ Goto(c, IF Present(c) THEN "poll" ELSE "killFailed")
    /\ UNCHANGED <<portVars, containerVars, target, processVars, mainVars>>

\* _killProcess: a process that exited by itself is done with; for any other
\* (running, or ended by a signal: negative returncode) the next statement
\* reads exe.killTimeout, an attribute no Executor has.  To a thread that comes
\* too late with its waitpid (ExecutorStream) a killed process has exited.
Poll(c) ==
    /\ pc[c] = "poll"
    /\ \E late \in BOOLEAN :
          Goto(c, IF \/ proc[found[c]] = "exited"
                     \/ proc[found[c]] = "killed" /\ late
                  THEN "remove" ELSE "killFailed")
    /\ UNCHANGED <<portVars, containerVars, target, found, processVars, mainVars>>

\* A mutant of Remove: the lock is not taken.
RemoveUnlocked(c) ==
    /\ pc[c] = "remove"
    /\ executors' = [executors EXCEPT ![IdOf[c]] = NoExec]
    /\ Goto(c, "putBack")
    /\ UNCHANGED <<portVars, executorsLock, target, found, processVars, mainVars>>

\* removeExecutor takes the entry out ...
Remove(c) ==
    /\ pc[c] = "remove"
    /\ executorsLock = Free
    /\ executorsLock' = c
    /\ executors' = [executors EXCEPT ![IdOf[c]] = NoExec]
    /\ Goto(c, "putBack")
    /\ UNCHANGED <<portVars, target, found, processVars, mainVars>>

\* Mutants of PutBack: the lock is not released, or the entry not put back.
PutBackHolding(c) ==
    /\ pc[c] = "putBack"
    /\ executors' = [executors EXCEPT ![IdOf[c]] = found[c]]
    /\ Goto(c, "sync")
    /\ UNCHANGED <<portVars, executorsLock, target, found, processVars, mainVars>>

PutBackNothing(c) ==
    /\ pc[c] = "putBack"
    /\ executorsLock' = Free
    /\ Goto(c, "sync")
    /\ UNCHANGED <<portVars, executors, target, found, processVars, mainVars>>

\* ... and puts it back: nothing probes the process in between, so the branch
\* that frees the port (except NoSuchProcess) is never taken; and as an entry
\* is only ever absent while the lock is held, neither is except KeyError.
PutBack(c) ==
    /\ pc[c] = "putBack"
    /\ executors' = [executors EXCEPT ![IdOf[c]] = found[c]]
    /\ executorsLock' = Free
    /\ Goto(c, "sync")
    /\ UNCHANGED <<portVars, target, found, processVars, mainVars>>

\* `if exe and exe.syncFlag`: the flag is False wherever it exists.
CheckSyncFlag(c) ==
    /\ pc[c] = "sync"
    /\ Goto(c, IF target[c] = NoExec \/ syncFlag[target[c]] THEN "ok" ELSE "syncFailed")
    /\ UNCHANGED <<portVars, containerVars, target, found, processVars, mainVars>>

-----------------------------------------------------------------------------
\* The main thread: _signalHandler, shutdown, the end of startApplication.

\* Where ServiceShutdownBySignal leads, by the point it is raised at.  Out of shutdown()
\* it meets an except clause that logs it with traceBack=True, which fatal() does not
\* take: the TypeError skips what the finally clause has left to do.
Unwound ==
    CASE main = "loop" -> "stop"
      [] OTHER         -> "exited"

\* SIGTERM raises at once: no frame on the way out releases the lock.  While the
\* main thread is blocked in acquire() the handler waits.
Term ==
    /\ main # "exited"
    /\ "SIGTERM" \in Signals /\ signals < MaxSignals
    /\ hup # "acquire"
    /\ signals' = signals + 1
    /\ main' = Unwound
    /\ hup' = "none"
    /\ UNCHANGED <<portVars, containerVars, requestVars, processVars, stopFlag, pidFile>>

\* SIGHUP, also in the handler of an earlier one.  One that comes between the
\* release of the lock and the end of the handler finds what it finds after it.
Hup ==
    /\ main # "exited"
    /\ "SIGHUP" \in Signals /\ signals < MaxSignals
    /\ hup \in {"none", "count"}
    /\ signals' = signals + 1
    /\ hup' = "acquire"
    /\ UNCHANGED <<portVars, containerVars, requestVars, processVars,
                   stopFlag, main, pidFile>>

\* A mutant of HupAcquire: the handler counts without the lock.
HupUnlocked ==
    /\ hup = "acquire"
    /\ hup' = "count"
    /\ UNCHANGED <<portVars, containerVars, requestVars, processVars,
                   stopFlag, main, pidFile, signals>>

HupAcquire ==
    /\ hup = "acquire"
    /\ executorsLock = Free
    /\ executorsLock' = Main
    /\ hup' = "count"
    /\ UNCHANGED <<portVars, executors, requestVars, processVars,
                   stopFlag, main, pidFile, signals>>

\* A mutant of HupCount: the exception is raised before the release.
HupCountHolding ==
    /\ hup = "count"
    /\ IF \A i \in Ids : executors[i] = NoExec
          THEN hup' = "raise" /\ UNCHANGED executorsLock
          ELSE hup' = "none" /\ executorsLock' = Free
    /\ UNCHANGED <<portVars, executors, requestVars, processVars,
                   stopFlag, main, pidFile, signals>>

HupCount ==
    /\ hup = "count"
    /\ executorsLock' = Free
    /\ hup' = IF \A i \in Ids : executors[i] = NoExec THEN "raise" ELSE "none"
    /\ UNCHANGED <<portVars, executors, requestVars, processVars,
                   stopFlag, main, pidFile, signals>>

HupRaise ==
    /\ hup = "raise"
    /\ hup' = "none"
    /\ main' = Unwound
    /\ UNCHANGED <<portVars, containerVars, requestVars, processVars,
                   stopFlag, pidFile, signals>>

\* shutdown, as far as the service stop flag.
SetStop ==
    /\ main = "stop"
    /\ stopFlag' = TRUE
    /\ main' = "lock"
    /\ UNCHANGED <<portVars, containerVars, requestVars, processVars, hup, pidFile, signals>>

ShutdownAcquire ==
    /\ main = "lock"
    /\ executorsLock = Free
    /\ executorsLock' = Main
    /\ main' = "iterate"
    /\ UNCHANGED <<portVars, executors, requestVars, processVars,
                   stopFlag, hup, pidFile, signals>>

\* The loop over the container calls killProcess with the executor where the id
\* belongs: no key equals it, so no process is touched.
ShutdownRelease ==
    /\ main = "iterate"
    /\ executorsLock' = Free
    /\ main' = "checkPort"
    /\ UNCHANGED <<portVars, executors, requestVars, processVars,
                   stopFlag, hup, pidFile, signals>>

\* _checkDaemonReleasedPort makes one pass over the connections; reading
\* local_address raises AttributeError with the psutil versions that lack it, and that
\* leads where every exception out of shutdown() does.
CheckPort ==
    /\ main = "checkPort"
    /\ main' \in {"pid", "exited"}
    /\ UNCHANGED <<portVars, containerVars, requestVars, processVars,
                   stopFlag, hup, pidFile, signals>>

RemovePidFile ==
    /\ main = "pid"
    /\ pidFile' = FALSE
    /\ main' = "exited"
    /\ UNCHANGED <<portVars, containerVars, requestVars, processVars, stopFlag, hup, signals>>

-----------------------------------------------------------------------------
StarterStep(e) ==
    \/ CheckPresence(e) \/ SpawnFails(e) \/ Spawn(e) \/ CheckAgain(e)
    \/ Insert(e) \/ FreeInserted(e)

CleanerStep(c) ==
    \/ GetExecutor(c) \/ LookUp(c) \/ Fetch(c) \/ Poll(c)
    \/ Remove(c) \/ PutBack(c) \/ CheckSyncFlag(c)

\* The thread of a request takes a step.
RequestStep(q) ==
    /\ main # "exited"
    /\ \/ GetLogger(q) \/ CheckStopFlag(q)
       \/ q \in Receivers /\ (ForcePort(q) \/ GetFreePort(q))
       \/ q \in Senders /\ (SetUp(q) \/ SetSyncFlag(q))
       \/ q \in Starters /\ StarterStep(q)
       \/ q \in Cleaners /\ CleanerStep(q)

\* The main thread takes a step; in the handler it takes no other.
HandlerStep == HupAcquire \/ HupCount \/ HupRaise

MainStep ==
    \/ HandlerStep
    \/ hup = "none" /\ (SetStop \/ ShutdownAcquire \/ ShutdownRelease \/ CheckPort \/ RemovePidFile)

Environment ==
    \/ \E q \in Requests : main # "exited" /\ Arrive(q)
    \/ \E e \in Starters : ProcessEnds(e)
    \/ Hup \/ Term

Next == (\E q \in Requests : RequestStep(q)) \/ MainStep \/ Environment

Spec == Init /\ [][Next]_vars

\* Every thread of the daemon that can take a step is scheduled in the end.
\* Requests, signals and the ends of processes are never forced to come.
Fairness == (\A q \in Requests : WF_vars(RequestStep(q))) /\ WF_vars(MainStep)

FairSpec == Spec /\ Fairness

-----------------------------------------------------------------------------
\* The values the variables range over.
DaemonTypeOK ==
    /\ executors \in [Ids -> Starters \cup {NoExec}]
    /\ executorsLock \in Requests \cup {Free, Main}
    /\ pc \in [Requests -> Outcomes \cup
                 {"new", "called", "entered", "port", "setUp", "execute", "spawn", "add",
                  "insert", "inserted", "mark", "get", "kill", "fetch", "poll", "remove", "putBack", "sync"}]
    /\ target \in [Cleaners -> Starters \cup {NoExec}]
    /\ found \in [Cleaners -> Starters \cup {NoExec}]
    /\ proc \in [Starters -> {"none", "running", "exited", "killed"}]
    /\ syncFlag \in [Starters -> BOOLEAN]
    /\ stopFlag \in BOOLEAN
    /\ main \in {"loop", "stop", "lock", "iterate", "checkPort", "pid", "exited"}
    /\ hup \in {"none", "acquire", "count", "raise"}
    /\ pidFile \in BOOLEAN
    /\ signals \in 0 .. MaxSignals

TypeOK == PortTypeOK /\ DaemonTypeOK

\* Every executor in the container, or in the hands of a cleanup, belongs to the
\* id it is looked up by and has a process: killProcess may read executor.proc.
ContainerSound ==
    /\ \A i \in Ids : executors[i] # NoExec =>
           IdOf[executors[i]] = i /\ proc[executors[i]] # "none"
    /\ \A c \in Cleaners : pc[c] \in {"poll", "remove", "putBack"} =>
           found[c] # NoExec /\ IdOf[found[c]] = IdOf[c] /\ proc[found[c]] # "none"

\* A request thread, be it a start or a cleanup, holds executorsLock exactly between its
\* change of the container and the release that comes next: no path of a request leaves
\* the lock taken, and nobody, the main thread included, frees it under a request.
RequestsFreeTheLock ==
    \A q \in Requests : executorsLock = q <=> pc[q] \in {"inserted", "putBack"}

\* The id of a started transfer stays known to the daemon: it is in the container,
\* or about to be put back by the cleanup that holds the lock.
StartedIdKnown ==
    \A e \in Starters : pc[e] \in {"inserted", "mark", "ok"} =>
        \/ Present(e)
        \/ \E c \in Cleaners : pc[c] = "putBack" /\ IdOf[c] = IdOf[e]

\* Unless a second signal comes, the main thread never leaves executorsLock taken: it
\* holds the lock only where the next step releases it.
MainFreesTheLock ==
    signals <= 1 => (executorsLock = Main => main = "iterate" \/ hup = "count")

\* A cleanup that looks its id up under the lock finds the executor of every start
\* acknowledged before, also while other cleanups take it out and put it back.
CleanupSeesStarted ==
    [][\A c \in Cleaners :
        /\ pc[c] = "get" /\ pc'[c] = "kill"
        /\ \E e \in Starters : IdOf[e] = IdOf[c] /\ pc[e] = "ok"
        => target'[c] # NoExec]_vars

\* A process that was started is under its id, or about to be put back there, as
\* soon as its start has ended, with success or not ("so that subsequent
\* CleanupProcesses action knows about it", Executor.execute): one gets lost only
\* when a second process was started for the same id.
SpawnedIsRegistered ==
    \A e \in Starters :
        /\ proc[e] # "none" /\ Ended(e)
        /\ \A f \in Starters \ {e} : IdOf[f] = IdOf[e] => proc[f] = "none"
        => \/ executors[IdOf[e]] = e
           \/ \E c \in Cleaners : pc[c] = "putBack" /\ found[c] = e

\* What a client may make of the answer to a start: a result means that the process was
\* started, an exception that none was or will be, unless addExecutor refused the
\* executor of a process that runs already; then another one of the id was started.
Starting == INSTANCE StartService
    WITH started <- {e \in Starters : proc[e] # "none"},
         answer  <- [e \in Starters |-> IF ~ Ended(e) THEN "none"
                                        ELSE IF pc[e] = "ok" THEN "done" ELSE "refused"]

StartsRefined == Starting!ServiceSpec

\* The SIGHUP handler decides to take the daemon down only if no start had been
\* acknowledged when it counted, also while cleanups take entries out.
HupCountsAcknowledged ==
    [][hup = "count" /\ hup' = "raise" => \A e \in Starters : pc[e] # "ok"]_vars

\* Without SIGTERM, once a start is acknowledged, SIGHUPs that come later leave the
\* daemon in its request loop.
HupSparesAcknowledged ==
    [](main = "loop" /\ hup = "none" /\ (\E e \in Starters : pc[e] = "ok") => [](main = "loop"))

\* A request that reached the daemon ends, with a result or an exception, unless
\* the daemon exits first.
RequestsEnd ==
    \A q \in Requests : pc[q] = "called" ~> Ended(q) \/ main = "exited"

\* Once the main thread has left the request loop, the daemon exits.
ShutdownEnds == main = "stop" ~> main = "exited"

\* fdtd:280: "dictionary of currently running processes spawned from the PYRO
\* service": a process whose start was acknowledged is the one under its id.
AcknowledgedIsRegistered ==
    \A e \in Starters : pc[e] = "ok" /\ proc[e] = "running" => executors[IdOf[e]] = e

\* fdtd:666: "the service goes down only if there is no transfer in progress".
HupOnlyWhenIdle ==
    [][hup = "raise" /\ hup' = "none" => \A i \in Ids : executors[i] = NoExec]_vars

\* fdtd:999: "if daemonize, pidFile should have been created, delete it now when shutting
\* down": a file left behind stops the next start.
PidFileDeleted == main = "exited" => ~ pidFile

\* test_Executor.py:117: after execute() the command is running.
StartsDoNotCrash == \A e \in Starters : pc[e] # "crashed"
=============================================================================
