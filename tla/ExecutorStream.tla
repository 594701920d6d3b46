---------------------------- MODULE ExecutorStream ----------------------------
(***************************************************************************)
(* The process of an Executor, its two pipes, and those who wait for it:   *)
(* executeWithLogOut, a generator the client advances item by item over    *)
(* the network; executeWithOutLogOut; or nobody (the FDT server: no call   *)
(* of fdtcp reads the output of a ReceivingServerAction).  A cleanup of    *)
(* the same transfer polls the process from another thread.                *)
(*                                                                         *)
(* A line is its number in its stream, and is written in one piece.  The   *)
(* process is sudo or a shell: its descendants inherit the pipes and may   *)
(* write after it has ended, until they end, too.                          *)
(*                                                                         *)
(* subprocess (Python 2.7.4 or later, unbuffered): poll() and wait() call  *)
(* waitpid, unless the return code is known, and then store what it gave.  *)
(* The kernel gives the exit status to one caller only; to the one that    *)
(* comes too late (ECHILD) both functions take the status to be 0.         *)
(***************************************************************************)
EXTENDS Naturals, Sequences

CONSTANTS
    MaxLines,   \* bound of the exploration: lines written to a stream
    PipeSize,   \* how many lines fit into a pipe
    Modes       \* how the process may be waited for

ASSUME StreamAssumption ==
    /\ MaxLines \in Nat
    /\ PipeSize \in Nat \ {0}
    /\ Modes \subseteq {"log", "wait", "nobody"}

Streams == {"STDOUT", "STDERR"}

Codes == {"0", "1", "-9"}

\* The threads that call waitpid: the one that serves the client, and a cleanup.
Pollers == {"reader", "cleanup"}

VARIABLES
    lines,      \* how many lines the process has to write to each stream
    written,    \* how many it has written
    pipe,       \* the lines in the pipes
    open,       \* the pipes whose write end is open
    exit,       \* the exit status, "none" while the process runs
    reaped,     \* somebody's waitpid has got the exit status
    returncode, \* proc.returncode
    sts,        \* what waitpid has given to each thread, "none" if it was not called
    poller,     \* proc.poll() of the cleanup: "idle", has "got" a status, or "stored" it
    mode,       \* who waits for the process
    client,     \* "reads" the generator, or is "gone"
    pc,         \* where the waiting thread is
    ready,      \* ret[0]: what select returned and the loop has not come to
    yielded,    \* the items of each stream the client has got
    rest,       \* what communicate() has read of each stream
    status      \* the last item, or how executeWithOutLogOut ended

processVars == <<lines, written, pipe, open, exit>>
waitVars    == <<reaped, returncode, sts, poller>>
readerVars  == <<mode, client, pc, ready, yielded, rest, status>>
vars == <<processVars, waitVars, readerVars>>

-----------------------------------------------------------------------------
Init ==
    /\ lines \in [Streams -> 0 .. MaxLines]
    /\ written = [s \in Streams |-> 0]
    /\ pipe = [s \in Streams |-> <<>>]
    /\ open = Streams
    /\ exit = "none" /\ returncode = "none"
    /\ reaped = FALSE /\ poller = "idle"
    /\ sts = [p \in Pollers |-> "none"]
    /\ mode \in Modes
    /\ client = "reads"
    /\ pc = [log |-> "select", wait |-> "call", nobody |-> "never"][mode]
    /\ ready = {}
    /\ yielded = [s \in Streams |-> <<>>]
    /\ rest = [s \in Streams |-> <<>>]
    /\ status = "none"

-----------------------------------------------------------------------------
\* The process, its descendants, and the client at the other end.

\* A write to a full pipe blocks.
Write(s) ==
    /\ s \in open
    /\ written[s] < lines[s]
    /\ Len(pipe[s]) < PipeSize
    /\ written' = [written EXCEPT ![s] = @ + 1]
    /\ pipe' = [pipe EXCEPT ![s] = Append(@, written'[s])]
    /\ UNCHANGED <<lines, open, exit, waitVars, readerVars>>

\* The process ends by itself when it has written what it has to ...
Exit ==
    /\ exit = "none"
    /\ written = lines
    /\ exit' \in {"0", "1"}
    /\ UNCHANGED <<lines, written, pipe, open, waitVars, readerVars>>

\* ... or is killed at any time.
Kill ==
    /\ exit = "none"
    /\ exit' = "-9"
    /\ UNCHANGED <<lines, written, pipe, open, waitVars, readerVars>>

\* The last writer of a pipe closes it, or ends.
Close(s) ==
    /\ s \in open
    /\ exit # "none" \/ written[s] = lines[s]
    /\ open' = open \ {s}
    /\ UNCHANGED <<lines, written, pipe, exit, waitVars, readerVars>>

\* The client is interrupted, or its connection breaks.
Leave ==
    /\ mode = "log" /\ client = "reads" /\ pc # "end"
    /\ client' = "gone"
    /\ UNCHANGED <<processVars, waitVars, mode, pc, ready, yielded, rest, status>>

-----------------------------------------------------------------------------
\* waitpid on a process that has ended.
WaitPid(p) ==
    /\ exit # "none"
    /\ sts' = [sts EXCEPT ![p] = IF reaped THEN "0" ELSE exit]
    /\ reaped' = TRUE

-----------------------------------------------------------------------------
\* executeWithLogOut.

\* A mutant of Readable: only lines count, not the end of a stream.
ReadableLines == {s \in Streams : pipe[s] # <<>>}

\* A stream is ready if it can be read without blocking: a line, or the end.
Readable == {s \in Streams : pipe[s] # <<>> \/ s \notin open}

Select ==
    /\ pc = "select"
    /\ Readable # {}
    /\ ready' = Readable
    /\ pc' = "read"
    /\ UNCHANGED <<processVars, waitVars, mode, client, yielded, rest, status>>

\* select returns the descriptors in the order they were given.
Turn == IF "STDOUT" \in ready THEN "STDOUT" ELSE "STDERR"

\* A mutant of ReadLine: two lines are read, and one is yielded.
ReadLineSkips ==
    /\ pc = "read"
    /\ IF Len(pipe[Turn]) < 2
          THEN UNCHANGED <<pipe, yielded>>
          ELSE /\ yielded' = [yielded EXCEPT ![Turn] = Append(@, Head(Tail(pipe[Turn])))]
               /\ pipe' = [pipe EXCEPT ![Turn] = Tail(Tail(@))]
    /\ ready' = ready \ {Turn}
    /\ pc' = IF ready' = {} THEN "poll" ELSE "read"
    /\ UNCHANGED <<lines, written, open, exit, waitVars, mode, client, rest, status>>

\* A line is read and yielded; at the end of a stream that is an empty line.
ReadLine ==
    /\ pc = "read"
    /\ IF pipe[Turn] = <<>>
          THEN UNCHANGED <<pipe, yielded>>
          ELSE /\ yielded' = [yielded EXCEPT ![Turn] = Append(@, Head(pipe[Turn]))]
               /\ pipe' = [pipe EXCEPT ![Turn] = Tail(@)]
    /\ ready' = ready \ {Turn}
    /\ pc' = IF ready' = {} THEN "poll" ELSE "read"
    /\ UNCHANGED <<lines, written, open, exit, waitVars, mode, client, rest, status>>

\* A mutant of Poll: the loop is left when the process has ended, though its
\* return code is not known here yet.
PollEnded ==
    /\ pc = "poll"
    /\ pc' = IF exit # "none" THEN "communicate" ELSE "select"
    /\ UNCHANGED <<processVars, waitVars, mode, client, ready, yielded, rest, status>>

\* poll() knows the return code, or the process runs, or waitpid is called.
Poll ==
    /\ pc = "poll"
    /\ \/ returncode # "none" /\ pc' = "communicate" /\ UNCHANGED waitVars
       \/ exit = "none" /\ pc' = "select" /\ UNCHANGED waitVars
       \/ /\ returncode = "none" /\ WaitPid("reader")
          /\ pc' = "store"
          /\ UNCHANGED <<returncode, poller>>
    /\ UNCHANGED <<processVars, mode, client, ready, yielded, rest, status>>

\* communicate() empties both pipes as they fill ...
Drain ==
    /\ pc = "communicate"
    /\ \E s \in Streams :
        /\ pipe[s] # <<>>
        /\ rest' = [rest EXCEPT ![s] = Append(@, Head(pipe[s]))]
        /\ pipe' = [pipe EXCEPT ![s] = Tail(@)]
    /\ UNCHANGED <<lines, written, open, exit, waitVars, mode, client, pc, ready,
                   yielded, status>>

\* A mutant of Finish: communicate() does not wait for the ends of the streams.
FinishEarly ==
    /\ pc = "communicate"
    /\ status' = IF returncode = "0" THEN "SUCCESS" ELSE "FAILED"
    /\ pc' = "end"
    /\ UNCHANGED <<processVars, waitVars, mode, client, ready, yielded, rest>>

\* ... and returns at the end of both.  The last item is yielded.
Finish ==
    /\ pc = "communicate"
    /\ open = {} /\ \A s \in Streams : pipe[s] = <<>>
    /\ status' = IF returncode = "0" THEN "SUCCESS" ELSE "FAILED"
    /\ pc' = "end"
    /\ UNCHANGED <<processVars, waitVars, mode, client, ready, yielded, rest>>

\* What the last item carries: of the rest only that of STDOUT, and only if the
\* process has failed.
Output == IF status = "FAILED" THEN rest["STDOUT"] ELSE <<>>

-----------------------------------------------------------------------------
\* executeWithOutLogOut: a result, or an ExecutorException.

Outcome(code) == IF code = "0" THEN "SUCCESS" ELSE "FAILED"

CallWait ==
    /\ pc = "call"
    /\ pc' = IF returncode # "none" THEN "return" ELSE "wait"
    /\ UNCHANGED <<processVars, waitVars, mode, client, ready, yielded, rest, status>>

\* waitpid blocks until the process has ended; another thread may have got its status,
\* and stored it, by then.
WaitReturns ==
    /\ pc = "wait"
    /\ WaitPid("reader")
    /\ pc' = "store"
    /\ UNCHANGED <<processVars, returncode, poller, mode, client, ready, yielded, rest, status>>

\* Both poll() and wait() store what waitpid gave them, whatever is stored by then.
Store ==
    /\ pc = "store"
    /\ returncode' = sts["reader"]
    /\ pc' = IF mode = "log" THEN "communicate" ELSE "return"
    /\ UNCHANGED <<processVars, reaped, sts, poller, mode, client, ready, yielded, rest, status>>

\* A mutant of Return: the result is the return code itself.
ReturnCode ==
    /\ pc = "return"
    /\ pc' = "end"
    /\ status' = returncode
    /\ UNCHANGED <<processVars, waitVars, mode, client, ready, yielded, rest>>

Return ==
    /\ pc = "return"
    /\ pc' = "end"
    /\ status' = Outcome(returncode)
    /\ UNCHANGED <<processVars, waitVars, mode, client, ready, yielded, rest>>

-----------------------------------------------------------------------------
\* proc.poll() in _killProcess: waitpid, and then the return code is stored.

CleanupPolls ==
    /\ poller = "idle"
    /\ returncode = "none" /\ WaitPid("cleanup")
    /\ poller' = "got"
    /\ UNCHANGED <<processVars, returncode, readerVars>>

CleanupStores ==
    /\ poller = "got"
    /\ returncode' = sts["cleanup"]
    /\ poller' = "stored"
    /\ UNCHANGED <<processVars, reaped, sts, readerVars>>

-----------------------------------------------------------------------------
\* The generator runs only while the client asks for items.
Reader ==
    /\ client = "reads"
    /\ Select \/ ReadLine \/ Poll \/ Drain \/ Finish

Waiter  == CallWait \/ WaitReturns \/ Store \/ Return
Process == (\E s \in Streams : Write(s) \/ Close(s)) \/ Exit \/ Kill
Cleanup == CleanupPolls \/ CleanupStores

Next == Process \/ Reader \/ Waiter \/ Cleanup \/ Leave

Spec == Init /\ [][Next]_vars

\* A process that can write does, ends when it is done, and so do its descendants;
\* the threads of the daemon go on.  Nobody has to kill, to clean up or to leave.
Fairness ==
    /\ \A s \in Streams : WF_vars(Write(s)) /\ WF_vars(exit # "none" /\ Close(s))
    /\ WF_vars(Exit)
    /\ WF_vars(Reader) /\ WF_vars(Waiter) /\ WF_vars(CleanupStores)

FairSpec == Spec /\ Fairness

-----------------------------------------------------------------------------
\* The values the variables range over.
StreamTypeOK ==
    /\ lines \in [Streams -> Nat] /\ written \in [Streams -> Nat]
    /\ pipe \in [Streams -> Seq(Nat)]
    /\ open \subseteq Streams
    /\ exit \in Codes \cup {"none"} /\ returncode \in Codes \cup {"none"}
    /\ reaped \in BOOLEAN /\ poller \in {"idle", "got", "stored"}
    /\ sts \in [Pollers -> Codes \cup {"none"}]
    /\ mode \in Modes /\ client \in {"reads", "gone"}
    /\ pc \in {"select", "read", "poll", "communicate", "call", "wait",
              "store", "return", "never", "end"}
    /\ ready \subseteq Streams
    /\ yielded \in [Streams -> Seq(Nat)] /\ rest \in [Streams -> Seq(Nat)]
    /\ status \in {"none", "SUCCESS", "FAILED"}

\* 1, 2, ..., n.
UpTo(n) == [i \in 1 .. n |-> i]

\* The last item, or the result, comes after the end of the process; "FAILED" is always
\* true, and "SUCCESS" is unless a cleanup and the thread of the client both got to
\* waitpid, neither knowing of the other, and the later one took the status for 0.
StatusIsTrue ==
    status # "none" =>
        /\ exit # "none"
        /\ status = "FAILED" => Outcome(exit) = "FAILED"
        /\ status = Outcome(exit) \/ \A p \in Pollers : sts[p] # "none"

\* When the process has failed, the client has got every line of its standard
\* output, in the items or in OUTPUT, also what descendants wrote after its end.
FailureLogComplete ==
    mode = "log" /\ status = "FAILED" =>
        yielded["STDOUT"] \o Output = UpTo(written["STDOUT"])

\* To the client that reads it, executeWithLogOut is a channel for lines.
Channel == INSTANCE LineChannel WITH
    sent <- written, got <- yielded, last <- IF mode = "log" THEN status ELSE "none"
ChannelRefined == Channel!ChanSpec

\* The log of a process comes to its end, as long as the client reads it.
StreamEnds == [](mode = "log" => <>(pc = "end" \/ client = "gone"))

\* A process whose log is read is never held up for good by a full pipe.
ProcessEnds == [](mode = "log" => <>(exit # "none" \/ client = "gone"))

\* fdtcp:318: the FDT server "gets automatically shut down once the transfer is
\* over": a process whose output nobody reads ends, too.
UnreadProcessEnds == [](mode = "nobody" => <>(exit # "none"))

\* Executor.py:103: "execute and also push log back to the calling client": when
\* the process has succeeded, the client has got what it wrote.
SuccessLogComplete ==
    mode = "log" /\ status = "SUCCESS" =>
        \A s \in Streams : yielded[s] = UpTo(written[s])
=============================================================================
