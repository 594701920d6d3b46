-------------------------------- MODULE FDTCP --------------------------------
(***************************************************************************)
(* The client fdtcp: main(), Transfer.performTransfer and performCleanup,  *)
(* for a set of transfers that it performs one after the other.            *)
(*                                                                         *)
(* Of the daemons only what the client can make of them is kept: a request *)
(* that starts an FDT process is on its way (asked), has been served       *)
(* (live), or its answer is lost (lost) while the daemon may still serve   *)
(* it.  A call with a timeout (tests, cleanups) that times out is a call   *)
(* that failed.                                                            *)
(*                                                                         *)
(* As in FDTD, loggingRaises says whether the calls of the logging helpers *)
(* with arguments they do not take raise TypeError, as they do: those of   *)
(* performTransfer with end='', of main() with a format and an argument.   *)
(* Here both cases are explored together.                                  *)
(***************************************************************************)
EXTENDS Naturals, Sequences, SequencesExt

CONSTANTS
    Transfers,      \* the transfers of one run, grouped by hosts and ports
    NoTransfer,     \* no transfer
    MaxSignals      \* bound of the exploration: how many signals arrive

ASSUME ClientAssumption ==
    /\ NoTransfer \notin Transfers
    /\ MaxSignals \in Nat

Parties == {"receiver", "sender"}

\* The exit statuses of the except clauses of main(): FDTCopyException (also a
\* signal), PortInUseException, ExecutorException, FDTDException, any other
\* Exception, KeyboardInterrupt.
BySignal == 1
Other    == 5
Keyboard == 6
Errors   == 1 .. Other

VARIABLES
    report,         \* --report is given
    loggingRaises,  \* the logging calls with wrong arguments raise
    pc,             \* where the client is
    transfer,       \* the transfer at hand
    todo,           \* the transfers the loop at hand has not come to
    result,         \* transfer.result: "none", "ok" (0) or "failed" (1)
    broken,         \* the transfers whose setUp failed
    toCleanup,      \* transfer.toCleanup of every transfer
    remaining,      \* performCleanup: what is left of tmpToCleanup
    exc,            \* the exception being handled, as its exit status
    appExitStatus,
    exitCode,       \* what the shell sees; 0 until the client has exited
    asked, live, lost,  \* requests that start a process, see above
    attempts,       \* the cleanup requests sent for every transfer
    copied,         \* the transfers whose FDT client ended: with success, or not
    signals         \* how many signals arrived

options    == <<report, loggingRaises>>
remoteVars == <<asked, live, lost, attempts, copied>>
statusVars == <<result, broken, exc, appExitStatus, exitCode>>
vars == <<options, pc, transfer, todo, toCleanup, remaining, statusVars, remoteVars, signals>>

-----------------------------------------------------------------------------
\* A transfer whose setUp() failed has result 1 from the start.
Init ==
    /\ report \in BOOLEAN /\ loggingRaises \in BOOLEAN
    /\ pc = "loop"
    /\ transfer = NoTransfer
    /\ todo = Transfers
    /\ broken \in SUBSET Transfers
    /\ result = [t \in Transfers |-> IF t \in broken THEN "failed" ELSE "none"]
    /\ toCleanup = [t \in Transfers |-> <<>>]
    /\ remaining = <<>>
    /\ exc = 0 /\ appExitStatus = 0 /\ exitCode = 0
    /\ asked = {} /\ live = {} /\ lost = {}
    /\ attempts = [t \in Transfers |-> <<>>]
    /\ copied = [t \in Transfers |-> "no"]
    /\ signals = 0

\* An exception leaves performTransfer.
Raise(status) == pc' = "caught" /\ exc' = status

Fails ==
    /\ \E status \in Errors : Raise(status)
    /\ UNCHANGED <<result, broken, appExitStatus, exitCode>>

-----------------------------------------------------------------------------
\* performTransfer.

\* The next transfer; one that failed in setUp is skipped by an early return.
Begin(t) ==
    /\ pc = "loop"
    /\ t \in todo
    /\ todo' = todo \ {t}
    /\ transfer' = t
    /\ pc' = IF result[t] = "none" THEN "testReceiver" ELSE "done"
    /\ UNCHANGED <<toCleanup, remaining, statusVars, remoteVars, signals>>

TestReceiver ==
    /\ pc = "testReceiver"
    /\ \/ pc' = "testSender" /\ UNCHANGED statusVars
       \/ Fails
    /\ UNCHANGED <<transfer, todo, toCleanup, remaining, remoteVars, signals>>

\* A mutant of TestSender: only the receiver is registered.
TestSenderForgets ==
    /\ pc = "testSender"
    /\ \/ /\ pc' = "askReceiver"
          /\ toCleanup' = [toCleanup EXCEPT ![transfer] = <<"receiver">>]
          /\ UNCHANGED statusVars
       \/ Fails /\ UNCHANGED toCleanup
    /\ UNCHANGED <<transfer, todo, remaining, remoteVars, signals>>

\* With both parties tested they are registered for the cleanup.
TestSender ==
    /\ pc = "testSender"
    /\ \/ /\ pc' = "askReceiver"
          /\ toCleanup' = [toCleanup EXCEPT ![transfer] = <<"receiver", "sender">>]
          /\ UNCHANGED statusVars
       \/ Fails /\ UNCHANGED toCleanup
    /\ UNCHANGED <<transfer, todo, remaining, remoteVars, signals>>

Asking(p)  == IF p = "receiver" THEN "askReceiver" ELSE "askSender"
Waiting(p) == IF p = "receiver" THEN "waitReceiver" ELSE "waitSender"
After(p)   == IF p = "receiver" THEN "getPort" ELSE "log"

\* ReceivingServerAction or SendingClientAction is sent, without a timeout.
Ask(p) ==
    /\ pc = Asking(p)
    /\ asked' = asked \cup {<<transfer, p>>}
    /\ pc' = Waiting(p)
    /\ UNCHANGED <<transfer, todo, toCleanup, remaining, statusVars, live, lost,
                   attempts, copied, signals>>

Answered(p) ==
    /\ pc = Waiting(p)
    /\ <<transfer, p>> \notin asked
    /\ pc' = After(p)
    /\ UNCHANGED <<transfer, todo, toCleanup, remaining, statusVars, remoteVars, signals>>

\* The daemon refuses, or starts nothing and raises.
Refused(p) ==
    /\ pc = Waiting(p)
    /\ <<transfer, p>> \in asked
    /\ asked' = asked \ {<<transfer, p>>}
    /\ Fails
    /\ UNCHANGED <<transfer, todo, toCleanup, remaining, live, lost, attempts, copied, signals>>

\* The connection breaks, before the daemon has served the request or after.
Lost(p) ==
    /\ pc = Waiting(p)
    /\ lost' = lost \cup (asked \cap {<<transfer, p>>})
    /\ Fails
    /\ UNCHANGED <<transfer, todo, toCleanup, remaining, asked, live, attempts, copied, signals>>

\* The daemon serves a request, whether or not the client still waits.
Serve(t, p) ==
    /\ <<t, p>> \in asked
    /\ asked' = asked \ {<<t, p>>}
    /\ live' = live \cup {<<t, p>>}
    /\ UNCHANGED <<pc, transfer, todo, toCleanup, remaining, statusVars, lost,
                   attempts, copied, signals>>

\* getServerPort.
GetPort ==
    /\ pc = "getPort"
    /\ \/ pc' = "askSender" /\ UNCHANGED statusVars
       \/ Fails
    /\ UNCHANGED <<transfer, todo, toCleanup, remaining, remoteVars, signals>>

\* The loop over executeWithLogOut.  Its last item carries the return code of the
\* FDT client, and is dropped like any item that is neither STDOUT nor STDERR.
\* Printing an item is one of the calls that raise.
ReadLog ==
    /\ pc = "log"
    /\ \/ /\ ~ loggingRaises
          /\ \E how \in {"success", "failure"} : copied' = [copied EXCEPT ![transfer] = how]
          /\ pc' = "enterCleanup"
          /\ UNCHANGED statusVars
       \/ Fails /\ UNCHANGED copied
    /\ UNCHANGED <<transfer, todo, toCleanup, remaining, asked, live, lost, attempts, signals>>

-----------------------------------------------------------------------------
\* performCleanup, from performTransfer and from the end of main().

InFinal == pc \in {"finalCleanup", "finalSend", "finalPop"}
Step(inTransfer, inFinal) == IF InFinal THEN inFinal ELSE inTransfer

\* A mutant of EnterCleanup: the list is iterated as it is.
EnterCleanupForward ==
    /\ pc \in {"enterCleanup", "finalCleanup"}
    /\ remaining' = toCleanup[transfer]
    /\ pc' = IF toCleanup[transfer] = <<>> THEN Step("done", "report")
                                          ELSE Step("send", "finalSend")
    /\ UNCHANGED <<transfer, todo, toCleanup, statusVars, remoteVars, signals>>

\* The list is reversed in place, and a copy of it is iterated over.
EnterCleanup ==
    /\ pc \in {"enterCleanup", "finalCleanup"}
    /\ IF toCleanup[transfer] = <<>>
          THEN /\ pc' = Step("done", "report")
               /\ UNCHANGED <<toCleanup, remaining>>
          ELSE /\ pc' = Step("send", "finalSend")
               /\ toCleanup' = [toCleanup EXCEPT ![transfer] = Reverse(@)]
               /\ remaining' = toCleanup'[transfer]
    /\ UNCHANGED <<transfer, todo, statusVars, remoteVars, signals>>

\* CleanupProcessesAction is sent; whatever comes of it, a signal included, is
\* logged and dropped.
SendCleanup ==
    /\ pc \in {"send", "finalSend"}
    /\ attempts' = [attempts EXCEPT ![transfer] = Append(@, Head(remaining))]
    /\ live' = live \ {<<transfer, Head(remaining)>>}
    /\ remaining' = Tail(remaining)
    /\ pc' = Step("pop", "finalPop")
    /\ UNCHANGED <<transfer, todo, toCleanup, statusVars, asked, lost, copied, signals>>

\* The last item is popped, though the iteration starts at the first.
Pop ==
    /\ pc \in {"pop", "finalPop"}
    /\ toCleanup' = [toCleanup EXCEPT ![transfer] = Front(@)]
    /\ pc' = IF remaining = <<>> THEN Step("done", "report") ELSE Step("send", "finalSend")
    /\ UNCHANGED <<transfer, todo, remaining, statusVars, remoteVars, signals>>

-----------------------------------------------------------------------------
\* main().

\* performTransfer has returned, also from the early return.
Done ==
    /\ pc = "done"
    /\ result' = [result EXCEPT ![transfer] = "ok"]
    /\ pc' = "loop"
    /\ UNCHANGED <<transfer, todo, toCleanup, remaining, broken, exc, appExitStatus,
                   exitCode, remoteVars, signals>>


\* An except clause; those of the statuses 1 to 4 log with two arguments first.
Caught ==
    /\ pc = "caught"
    /\ IF loggingRaises /\ exc < Other
          THEN pc' = "leave" /\ UNCHANGED result
          ELSE pc' = "status" /\ result' = [result EXCEPT ![transfer] = "failed"]
    /\ UNCHANGED <<transfer, todo, toCleanup, remaining, broken, exc, appExitStatus,
                   exitCode, remoteVars, signals>>

\* Mutants of SetStatus: the status is forgotten, or added up.
SetStatusForgets ==
    /\ pc = "status"
    /\ pc' = IF exc = Keyboard THEN "leave" ELSE "loop"
    /\ UNCHANGED <<transfer, todo, toCleanup, remaining, statusVars, remoteVars, signals>>

SetStatusAdds ==
    /\ pc = "status"
    /\ appExitStatus' = appExitStatus + exc
    /\ pc' = IF exc = Keyboard THEN "leave" ELSE "loop"
    /\ UNCHANGED <<transfer, todo, toCleanup, remaining, result, broken, exc, exitCode,
                   remoteVars, signals>>

SetStatus ==
    /\ pc = "status"
    /\ appExitStatus' = exc
    /\ pc' = IF exc = Keyboard THEN "leave" ELSE "loop"
    /\ UNCHANGED <<transfer, todo, toCleanup, remaining, result, broken, exc, exitCode,
                   remoteVars, signals>>

\* The loop is over, or an exception or a break leaves it: the outer finally.
Leave ==
    /\ pc = "leave" \/ (pc = "loop" /\ todo = {})
    /\ pc' = "final"
    /\ todo' = Transfers
    /\ UNCHANGED <<transfer, toCleanup, remaining, statusVars, remoteVars, signals>>

Finish(t) ==
    /\ pc = "final"
    /\ t \in todo
    /\ todo' = todo \ {t}
    /\ transfer' = t
    /\ pc' = "finalCleanup"
    /\ UNCHANGED <<toCleanup, remaining, statusVars, remoteVars, signals>>

\* An exception leaves the finally clause itself.
Crash ==
    /\ pc' = "exited"
    /\ exitCode' = 1
    /\ UNCHANGED <<result, broken, exc, appExitStatus>>

\* generateReport reads trf.fileSrc of every file of the transfer, and files are
\* strings: AttributeError.
MakeReport ==
    /\ pc = "report"
    /\ IF report THEN Crash ELSE pc' = "final" /\ UNCHANGED statusVars
    /\ UNCHANGED <<transfer, todo, toCleanup, remaining, remoteVars, signals>>

\* sys.exit in the finally clause takes the place of any exception on its way;
\* the line before it logs with two arguments.
Exit ==
    /\ pc = "final"
    /\ todo = {}
    /\ IF loggingRaises
          THEN Crash
          ELSE /\ pc' = "exited"
               /\ exitCode' = appExitStatus
               /\ UNCHANGED <<result, broken, exc, appExitStatus>>
    /\ UNCHANGED <<transfer, todo, toCleanup, remaining, remoteVars, signals>>

\* The handler of SIGTERM, SIGHUP and SIGUSR1 raises FDTCopyShutdownBySignal, a
\* FDTCopyException; SIGINT raises KeyboardInterrupt.
Signal ==
    /\ pc # "exited"
    /\ signals < MaxSignals
    /\ signals' = signals + 1
    /\ \/ /\ pc \in {"loop", "caught", "status", "leave"}
          /\ pc' = "leave"
          /\ UNCHANGED statusVars
       \/ /\ pc \in {"final", "report"} \/ InFinal
          /\ Crash
       \/ /\ pc \notin {"loop", "caught", "status", "leave", "final", "report"} /\ ~ InFinal
          /\ \E status \in {BySignal, Keyboard} : Raise(status)
          /\ UNCHANGED <<result, broken, appExitStatus, exitCode>>
    /\ lost' = IF pc \in {Waiting(p) : p \in Parties}
               THEN lost \cup {a \in asked : a[1] = transfer}
               ELSE lost
    /\ UNCHANGED <<transfer, todo, toCleanup, remaining, asked, live, attempts, copied>>

-----------------------------------------------------------------------------
PerformTransfer ==
    \/ \E t \in Transfers : Begin(t)
    \/ TestReceiver \/ TestSender \/ GetPort \/ ReadLog
    \/ \E p \in Parties : Ask(p) \/ Answered(p) \/ Refused(p) \/ Lost(p)

PerformCleanup == EnterCleanup \/ SendCleanup \/ Pop

Main ==
    \/ Done \/ Caught \/ SetStatus \/ Leave \/ MakeReport \/ Exit
    \/ \E t \in Transfers : Finish(t)

Daemons == \E t \in Transfers, p \in Parties : Serve(t, p)

Next ==
    /\ PerformTransfer \/ PerformCleanup \/ Main \/ Daemons \/ Signal
    /\ UNCHANGED options

Spec == Init /\ [][Next]_vars

\* The calls without a timeout: the starts, the request for the port, the log.
Untimed == {Waiting(p) : p \in Parties} \cup {"getPort", "log"}

\* The client goes on, and a call with a timeout ends.  Nothing is assumed of the
\* others, and nothing of the daemons.
FairSpec ==
    Spec /\ WF_vars(Next /\ pc \notin Untimed /\ (PerformTransfer \/ PerformCleanup \/ Main))

-----------------------------------------------------------------------------
\* The values the variables range over.
ClientTypeOK ==
    /\ report \in BOOLEAN /\ loggingRaises \in BOOLEAN
    /\ pc \in {"loop", "testReceiver", "testSender", "askReceiver", "waitReceiver", "getPort",
               "askSender", "waitSender", "log", "enterCleanup", "send", "pop", "done",
               "caught", "status", "leave", "final", "finalCleanup", "finalSend", "finalPop",
               "report", "exited"}
    /\ transfer \in Transfers \cup {NoTransfer}
    /\ todo \subseteq Transfers
    /\ result \in [Transfers -> {"none", "ok", "failed"}]
    /\ broken \subseteq Transfers
    /\ toCleanup \in [Transfers -> Seq(Parties)]
    /\ remaining \in Seq(Parties)
    /\ {exc, appExitStatus, exitCode} \subseteq 0 .. Keyboard
    /\ asked \subseteq Transfers \X Parties
    /\ live \subseteq Transfers \X Parties
    /\ lost \subseteq Transfers \X Parties
    /\ attempts \in [Transfers -> Seq(Parties)]
    /\ copied \in [Transfers -> {"no", "success", "failure"}]
    /\ signals \in 0 .. MaxSignals

\* The client got no signal, and makes no report (which always raises).
Undisturbed == signals = 0 /\ ~ report

\* When an undisturbed client exits, every process it started was sent a cleanup
\* afterwards, whichever calls fail, unless its start was served after the client
\* had lost the call.
StartedIsCleanedUp == Undisturbed /\ pc = "exited" => live \subseteq lost

\* Once the parties of a transfer are registered for the cleanup, an undisturbed client
\* does not exit before it has sent each of them one request, whichever calls fail in
\* between, and the sender's first: the client "should have finished by this point"
\* (performCleanup).
CleanedOnceSenderFirst ==
    \A t \in Transfers :
        [](toCleanup[t] # <<>> =>
              [](Undisturbed /\ pc = "exited" => attempts[t] = <<"sender", "receiver">>))

\* Unless a signal comes, an exit status of 0 means that both FDT processes of every
\* transfer were started and the log of the FDT client read to its end, setUp
\* failures aside.
ExitZeroMeansPerformed ==
    signals = 0 /\ pc = "exited" /\ exitCode = 0
        => \A t \in Transfers : t \in broken \/ copied[t] # "no"

\* fdtcp:346: performCleanup iterates over a copy because "the original will be
\* shrunk": if it is interrupted, the cleanup at the end of main() finds the parties
\* that were not sent a cleanup yet.
CleanupKnowsTheRest ==
    pc = "finalCleanup" =>
        ToSet(attempts[transfer]) \cup ToSet(toCleanup[transfer]) \in {{}, Parties}

=============================================================================
