---------------------------- MODULE Daemonization ----------------------------
(***************************************************************************)
(* The life of fdtd processes on one host: daemonize() with its check of   *)
(* the PID file, the bind of the port of the service, the shutdown and the *)
(* removal of the PID file.  Every instance is one invocation of           *)
(* `fdtd --daemonize` with the same configuration.                         *)
(***************************************************************************)
EXTENDS Naturals

CONSTANTS
    Instances,
    Nobody,     \* the port is not bound
    MaxCrashes  \* bound of the exploration: how many processes are killed

\* What the PID file may hold instead of the PID of an instance.
Absent == "absent"
Empty  == "empty"

ASSUME InstancesAssumption ==
    /\ Nobody \notin Instances /\ Absent \notin Instances /\ Empty \notin Instances
    /\ MaxCrashes \in Nat

VARIABLES
    place,    \* where each instance is
    pidFile,  \* Absent, Empty or the instance whose PID it holds
    port,     \* the instance bound to the port, or Nobody
    crashes,  \* how many processes were killed so far
    overlap   \* a start began before the parent process of another had exited

daemonizeVars == <<place, pidFile, port, crashes, overlap>>

Goto(i, where) == place' = [place EXCEPT ![i] = where]

DaemonizeInit ==
    /\ place = [i \in Instances |-> "new"]
    /\ pidFile = Absent
    /\ port = Nobody
    /\ crashes = 0
    /\ overlap = FALSE

\* bin/fdtd.sh waits for the parent process, which exits once it has forked.
Start(i) ==
    /\ place[i] = "new"
    /\ overlap' = (overlap \/ \E j \in Instances : place[j] \in {"check", "open"})
    /\ Goto(i, "check")
    /\ UNCHANGED <<pidFile, port, crashes>>

\* A mutant of CheckFile: the file is not looked for.
CheckNothing(i) ==
    /\ place[i] = "check"
    /\ Goto(i, "open")
    /\ UNCHANGED <<pidFile, port, crashes, overlap>>

\* os.path.isfile(pidFile).
CheckFile(i) ==
    /\ place[i] = "check"
    /\ Goto(i, IF pidFile = Absent THEN "open" ELSE "refused")
    /\ UNCHANGED <<pidFile, port, crashes, overlap>>

\* The test that the file is writeable creates it, or fails; then the fork.
OpenFile(i) ==
    /\ place[i] = "open"
    /\ \/ Goto(i, "write") /\ pidFile' = Empty
       \/ Goto(i, "refused") /\ UNCHANGED pidFile
    /\ UNCHANGED <<port, crashes, overlap>>

WritePid(i) ==
    /\ place[i] = "write"
    /\ pidFile' = i
    /\ Goto(i, "bind")
    /\ UNCHANGED <<port, crashes, overlap>>

\* A mutant of InitPYRO: a failure leaves the process without the cleanup.
InitOrExit(i) ==
    /\ place[i] = "bind"
    /\ IF port = Nobody THEN port' = i /\ Goto(i, "serve")
                        ELSE Goto(i, "exit") /\ UNCHANGED port
    /\ UNCHANGED <<pidFile, crashes, overlap>>

\* The service insists on its port; without it the daemon object is not made, no
\* shutdown sequence runs, and the PID file is removed.
InitPYRO(i) ==
    /\ place[i] = "bind"
    /\ IF port = Nobody THEN port' = i /\ Goto(i, "serve")
                        ELSE Goto(i, "remove") /\ UNCHANGED port
    /\ UNCHANGED <<pidFile, crashes, overlap>>

\* A signal ends the request loop and shutdown() follows; FDTD models it.  Its last
\* step, _checkDaemonReleasedPort, does not wait: the `continue` is one of the inner
\* loop, whose else clause then ends the outer one.  Whether the library has let
\* go of the port by then is not known.
Shutdown(i) ==
    /\ place[i] = "serve"
    /\ port' \in {port, Nobody}
    /\ Goto(i, "remove")
    /\ UNCHANGED <<pidFile, crashes, overlap>>

\* os.remove(pidFile), whoever wrote it; a missing file is logged.
RemovePidFile(i) ==
    /\ place[i] = "remove"
    /\ pidFile' = Absent
    /\ Goto(i, "exit")
    /\ UNCHANGED <<port, crashes, overlap>>

Release(i) == port' = IF port = i THEN Nobody ELSE port

ProcessExits(i) ==
    /\ place[i] = "exit"
    /\ Release(i)
    /\ Goto(i, "gone")
    /\ UNCHANGED <<pidFile, crashes, overlap>>

\* SIGKILL, or an exception that skips the removal of the file (FDTD, PidFileDeleted).
Crash(i) ==
    /\ place[i] \notin {"new", "refused", "gone"}
    /\ crashes < MaxCrashes
    /\ crashes' = crashes + 1
    /\ Release(i)
    /\ Goto(i, "gone")
    /\ UNCHANGED <<pidFile, overlap>>

DaemonizeNext ==
    \E i \in Instances :
        \/ Start(i) \/ CheckFile(i) \/ OpenFile(i) \/ WritePid(i) \/ InitPYRO(i)
        \/ Shutdown(i) \/ RemovePidFile(i) \/ ProcessExits(i) \/ Crash(i)

DaemonizeSpec == DaemonizeInit /\ [][DaemonizeNext]_daemonizeVars

-----------------------------------------------------------------------------
\* As long as starts do not overlap, a daemon that serves is the one the PID file
\* names: starts that are refused or cannot bind leave it alone.
PidFileNamesServer ==
    ~ overlap => \A i \in Instances : place[i] = "serve" => pidFile = i

\* However starts overlap, once all processes are gone without a crash no PID file
\* is left to block the next start.
NoFileLeftBehind ==
    crashes = 0 /\ (\A i \in Instances : place[i] \in {"new", "refused", "gone"})
        => pidFile = Absent
=============================================================================
