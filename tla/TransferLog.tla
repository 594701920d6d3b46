----------------------------- MODULE TransferLog -----------------------------
(***************************************************************************)
(* The log of one transfer at a daemon: Logger, and the requests that log  *)
(* into transfer-<id>.log.  A start (ReceivingServerAction or              *)
(* SendingClientAction) leaves its logger to its executor, whose output is *)
(* logged long after the request; CleanupProcessesAction takes the logger  *)
(* of the executor, if the container has one, and closes it.  An executor  *)
(* never leaves the container, so its logger is there for good.            *)
(*                                                                         *)
(* A logger is a flag (_logFileHandlerOpen) and a list of file handlers.   *)
(* A FileHandler of Python 2.7 that was closed opens its file again at the *)
(* next record.  A message is the request that logs it and its number; all *)
(* of them pass the level of the logger.                                   *)
(***************************************************************************)
EXTENDS Naturals, Sequences, FiniteSets

CONSTANTS
    Starts,     \* the requests that start a process
    Cleanups,   \* the requests that end in logger.close()
    MaxMsgs     \* bound of the exploration: messages of a request

ASSUME LogAssumption == Starts \cap Cleanups = {} /\ MaxMsgs \in Nat

Requests == Starts \cup Cleanups

NoOne == "none"

ASSUME NoOneAssumption == NoOne \notin Requests

VARIABLES
    flag,       \* _logFileHandlerOpen of the logger each request may create
    handlers,   \* its handlers: TRUE if the stream of the handler is open
    registered, \* whose executor is in the container
    use,        \* the request whose logger a request logs into
    pc,         \* where the request is
    sent,       \* how many messages it has issued
    own,        \* the handler it added for its last message, 0 if none
    at,         \* the handler its record goes to next
    left,       \* the records it has to emit
    file,       \* the messages in the file
    early,      \* history: the messages issued before any close() had returned
    after       \* history: the calls that returned after a close() of the file

vars == <<flag, handlers, registered, use, pc, sent, own, at, left, file, early, after>>

-----------------------------------------------------------------------------
Init ==
    /\ flag = [t \in Requests |-> FALSE]
    /\ handlers = [t \in Requests |-> <<>>]
    /\ registered = NoOne
    /\ use = [t \in Requests |-> NoOne]
    /\ pc = [t \in Requests |-> "new"]
    /\ sent = [t \in Requests |-> 0]
    /\ own = [t \in Requests |-> 0]
    /\ at = [t \in Requests |-> 1]
    /\ left = [t \in Requests |-> 1]
    /\ file = {} /\ early = {}
    /\ after = [t \in Requests |-> 0]

\* getSeparateLogger: the logger of the executor, or a new one, which opens the file.
GetLogger(t) ==
    /\ pc[t] = "new"
    /\ pc' = [pc EXCEPT ![t] = "idle"]
    /\ IF registered # NoOne
          THEN /\ use' = [use EXCEPT ![t] = registered]
               /\ UNCHANGED <<flag, handlers>>
          ELSE /\ use' = [use EXCEPT ![t] = t]
               /\ flag' = [flag EXCEPT ![t] = TRUE]
               /\ handlers' = [handlers EXCEPT ![t] = <<TRUE>>]
    /\ UNCHANGED <<registered, sent, own, at, left, file, early, after>>

\* addExecutor, which refuses a second executor of the same id.
Register(t) ==
    /\ t \in Starts /\ pc[t] = "idle"
    /\ registered = NoOne
    /\ registered' = t
    /\ UNCHANGED <<flag, handlers, use, pc, sent, own, at, left, file, early, after>>

-----------------------------------------------------------------------------
\* _myLog.

\* A close() of the logger l has returned.
CloseReturned(l) == \E c \in Cleanups : use[c] = l /\ pc[c] = "end"

\* One has closed its file.
FileClosed(l) == \E c \in Cleanups : use[c] = l /\ pc[c] \in {"clear", "end"}

\* The flag is read without a lock.  If it is not set a new handler is added, for
\* three records of which none has the message: its text is overwritten.
Begin(t, next) ==
    LET l == use[t]
    IN /\ sent' = [sent EXCEPT ![t] = @ + 1]
       /\ own' = [own EXCEPT ![t] = IF flag[l] THEN 0 ELSE Len(handlers[l]) + 1]
       /\ left' = [left EXCEPT ![t] = IF flag[l] THEN 1 ELSE 3]
       /\ handlers' = IF flag[l] THEN handlers ELSE [handlers EXCEPT ![l] = Append(@, TRUE)]
       /\ at' = [at EXCEPT ![t] = 1]
       /\ pc' = [pc EXCEPT ![t] = next]
       /\ early' = IF CloseReturned(l) THEN early ELSE early \cup {<<t, sent'[t]>>}

\* A call of warning, debug, info ... by a request, or by the thread that reads the
\* output of its process.
Log(t) ==
    /\ pc[t] = "idle" /\ sent[t] < MaxMsgs
    /\ Begin(t, "log")
    /\ UNCHANGED <<flag, registered, use, file, after>>

\* A record goes to the handlers one after the other.  One that was closed opens the
\* file again.
Emit(t) ==
    /\ pc[t] \in {"log", "closing"}
    /\ at[t] <= Len(handlers[use[t]])
    /\ handlers' = [handlers EXCEPT ![use[t]] = [@ EXCEPT ![at[t]] = TRUE]]
    /\ file' = IF own[t] = 0 THEN file \cup {<<t, sent[t]>>} ELSE file
    /\ at' = [at EXCEPT ![t] = @ + 1]
    /\ UNCHANGED <<flag, registered, use, pc, sent, own, left, early, after>>

\* The next of the three.
NextRecord(t) ==
    /\ pc[t] \in {"log", "closing"}
    /\ at[t] > Len(handlers[use[t]]) /\ left[t] > 1
    /\ left' = [left EXCEPT ![t] = @ - 1]
    /\ at' = [at EXCEPT ![t] = 1]
    /\ UNCHANGED <<flag, handlers, registered, use, pc, sent, own, file, early, after>>

\* Behind the last record.
Returns(t) ==
    /\ pc[t] \in {"log", "closing"}
    /\ at[t] > Len(handlers[use[t]]) /\ left[t] = 1
    /\ pc' = [pc EXCEPT ![t] = IF @ = "log" THEN "idle" ELSE "close"]
    /\ after' = [after EXCEPT ![use[t]] = IF FileClosed(use[t]) THEN @ + 1 ELSE @]
    /\ UNCHANGED <<flag, registered, use, sent, own, at, left, file, early>>

\* A mutant of Return: the new handler is flushed but not closed.
ReturnOpen(t) == Returns(t) /\ UNCHANGED handlers

\* The new handler is closed.  It stays in the list.
Return(t) ==
    /\ Returns(t)
    /\ handlers' = IF own[t] = 0 THEN handlers
                   ELSE [handlers EXCEPT ![use[t]] = [@ EXCEPT ![own[t]] = FALSE]]

-----------------------------------------------------------------------------
\* close().

\* A mutant of Close: the flag is cleared first.
CloseCleared(t) ==
    /\ t \in Cleanups /\ pc[t] = "idle"
    /\ Begin(t, "closing")
    /\ flag' = [flag EXCEPT ![use[t]] = FALSE]
    /\ UNCHANGED <<registered, use, file, after>>

\* Its own message comes first.  If the logger is closed already, that is a late one.
Close(t) ==
    /\ t \in Cleanups /\ pc[t] = "idle"
    /\ Begin(t, "closing")
    /\ UNCHANGED <<flag, registered, use, file, after>>

\* Only the first handler is closed ...
CloseFile(t) ==
    /\ pc[t] = "close"
    /\ handlers' = [handlers EXCEPT ![use[t]] = [@ EXCEPT ![1] = FALSE]]
    /\ pc' = [pc EXCEPT ![t] = "clear"]
    /\ UNCHANGED <<flag, registered, use, sent, own, at, left, file, early, after>>

\* ... and the flag is cleared.
ClearFlag(t) ==
    /\ pc[t] = "clear"
    /\ flag' = [flag EXCEPT ![use[t]] = FALSE]
    /\ pc' = [pc EXCEPT ![t] = "end"]
    /\ UNCHANGED <<handlers, registered, use, sent, own, at, left, file, early, after>>

-----------------------------------------------------------------------------
Step(t) ==
    \/ GetLogger(t) \/ Register(t) \/ Log(t)
    \/ Emit(t) \/ NextRecord(t) \/ Return(t)
    \/ Close(t) \/ CloseFile(t) \/ ClearFlag(t)

Next == \E t \in Requests : Step(t)

Spec == Init /\ [][Next]_vars

-----------------------------------------------------------------------------
\* The values the variables range over.
LogTypeOK ==
    /\ flag \in [Requests -> BOOLEAN]
    /\ handlers \in [Requests -> Seq(BOOLEAN)]
    /\ registered \in Starts \cup {NoOne}
    /\ use \in [Requests -> Requests \cup {NoOne}]
    /\ pc \in [Requests -> {"new", "idle", "log", "closing", "close", "clear", "end"}]
    /\ sent \in [Requests -> Nat] /\ own \in [Requests -> Nat]
    /\ at \in [Requests -> Nat \ {0}] /\ left \in [Requests -> 1 .. 3]
    /\ file \subseteq Requests \X Nat /\ early \subseteq Requests \X Nat
    /\ after \in [Requests -> Nat]

Writing(t) == pc[t] \in {"log", "closing"}

\* A message issued before any close() of its logger had returned gets into the file,
\* though the flag and the handlers are used without a lock.
KeptUnlessClosed ==
    \A t \in Requests : \A n \in 1 .. sent[t] :
        <<t, n>> \in early => <<t, n>> \in file \/ (Writing(t) /\ n = sent[t])

OpenFiles(l) == {i \in DOMAIN handlers[l] : handlers[l][i]}

\* fdtd:233: a closed logger holds no more descriptors than there were calls that
\* returned after its file was closed: none, if the cleanup came last.
LeakBounded ==
    \A l \in Requests :
        CloseReturned(l) /\ (\A t \in Requests : use[t] = l => ~ Writing(t))
            => Cardinality(OpenFiles(l)) <= after[l]

\* test_Logger.py:122: a message logged into a closed logger is in the file, too.
LateMessageWritten ==
    \A t \in Requests : ~ Writing(t) => \A n \in 1 .. sent[t] : <<t, n>> \in file
=============================================================================
