------------------------- MODULE ExecutorStreamProofs -------------------------
(***************************************************************************)
(* What holds of the log of a process for every number of lines and every  *)
(* size of the pipes.                                                      *)
(***************************************************************************)
EXTENDS ExecutorStream, SequenceTheorems, TLAPS

-----------------------------------------------------------------------------
\* Numbered sequences.

\* s holds the numbers from k + 1 on.
From(s, k) == \A i \in 1 .. Len(s) : s[i] = k + i

LEMMA FromAppend ==
    ASSUME NEW s \in Seq(Nat), NEW k \in Nat, From(s, k), NEW n \in Nat, n = k + Len(s) + 1
    PROVE  /\ Append(s, n) \in Seq(Nat)
           /\ Len(Append(s, n)) = Len(s) + 1
           /\ From(Append(s, n), k)
  <1>1. /\ Append(s, n) \in Seq(Nat)
        /\ Len(Append(s, n)) = Len(s) + 1
        /\ Len(s) \in Nat
    BY AppendProperties
  <1>2. ASSUME NEW i \in 1 .. Len(Append(s, n))
        PROVE  Append(s, n)[i] = k + i
    <2>1. CASE i = Len(s) + 1
      BY <1>1, <2>1, AppendProperties
    <2>2. CASE i # Len(s) + 1
      <3>1. i \in 1 .. Len(s)
        BY <1>1, <1>2, <2>2
      <3>2. Append(s, n)[i] = s[i]
        BY <3>1, AppendProperties
      <3>. QED
        BY <3>1, <3>2 DEF From
    <2>. QED
      BY <2>1, <2>2
  <1>. QED
    BY <1>1, <1>2 DEF From

LEMMA FromHead ==
    ASSUME NEW s \in Seq(Nat), NEW k \in Nat, From(s, k), s # <<>>
    PROVE  /\ Head(s) = k + 1
           /\ Tail(s) \in Seq(Nat)
           /\ Len(s) = Len(Tail(s)) + 1
           /\ From(Tail(s), k + 1)
  BY DEF From

\* A sequence of the first numbers, in two parts.
LEMMA FromConcat ==
    ASSUME NEW s \in Seq(Nat), NEW t \in Seq(Nat), From(s, 0), From(t, Len(s))
    PROVE  s \o t = UpTo(Len(s) + Len(t))
  <1> DEFINE n == Len(s) + Len(t)
  <1>1. s \o t \in Seq(Nat) /\ Len(s \o t) = n
    OBVIOUS
  <1>2. ASSUME NEW i \in 1 .. n
        PROVE  (s \o t)[i] = i
    <2>1. CASE i <= Len(s)
      BY <2>1 DEF From
    <2>2. CASE i > Len(s)
      <3>1. (s \o t)[i] = t[i - Len(s)]
        BY <2>2
      <3>2. i - Len(s) \in 1 .. Len(t)
        BY <2>2
      <3>. QED
        BY <3>1, <3>2 DEF From
    <2>. QED
      BY <2>1, <2>2
  <1>3. UpTo(n) \in Seq(Nat) /\ Len(UpTo(n)) = n /\ \A i \in 1 .. n : UpTo(n)[i] = i
    <2>1. n \in Nat
      OBVIOUS
    <2>. QED
      BY <2>1 DEF UpTo
  <1>. QED
    BY <1>1, <1>2, <1>3, SeqEqual

-----------------------------------------------------------------------------
LEMMA StreamTypeStep ==
    ASSUME StreamTypeOK, [Next]_vars
    PROVE  StreamTypeOK'
  <1> USE DEF StreamTypeOK, Streams, Codes, Pollers
  <1>1. ASSUME NEW s \in Streams, Write(s)
        PROVE  StreamTypeOK'
    BY <1>1 DEF Write, waitVars, readerVars
  <1>2. ASSUME NEW s \in Streams, Close(s)
        PROVE  StreamTypeOK'
    BY <1>2 DEF Close, waitVars, readerVars
  <1>3. CASE Exit \/ Kill
    <2>1. exit' \in Codes /\ UNCHANGED <<lines, written, pipe, open, waitVars, readerVars>>
      BY <1>3 DEF Exit, Kill
    <2>. QED
      BY <2>1 DEF waitVars, readerVars
  <1>4. CASE Leave
    BY <1>4 DEF Leave, processVars, waitVars
  <1>5. CASE Select
    BY <1>5 DEF Select, Readable, processVars, waitVars
  <1>6. CASE ReadLine
    <2>1. Turn \in Streams
      BY DEF Turn
    <2>2. pipe[Turn] # <<>> => Head(pipe[Turn]) \in Nat /\ Tail(pipe[Turn]) \in Seq(Nat)
      BY <2>1
    <2>3. pipe' \in [Streams -> Seq(Nat)]
      BY <1>6, <2>1, <2>2 DEF ReadLine
    <2>4. yielded' \in [Streams -> Seq(Nat)]
      <3>1. CASE pipe[Turn] = <<>>
        BY <1>6, <3>1 DEF ReadLine
      <3>2. CASE pipe[Turn] # <<>>
        <4>1. Append(yielded[Turn], Head(pipe[Turn])) \in Seq(Nat)
          BY <2>1, <2>2, <3>2, AppendProperties
        <4>. QED
          BY <1>6, <2>1, <3>2, <4>1 DEF ReadLine
      <3>. QED
        BY <3>1, <3>2
    <2>. QED
      BY <1>6, <2>3, <2>4 DEF ReadLine, waitVars
  <1>7. CASE Poll
    BY <1>7 DEF Poll, WaitPid, processVars, waitVars
  <1>8. CASE Drain
    <2>1. PICK s \in Streams :
             /\ pipe[s] # <<>>
             /\ rest' = [rest EXCEPT ![s] = Append(@, Head(pipe[s]))]
             /\ pipe' = [pipe EXCEPT ![s] = Tail(@)]
      BY <1>8 DEF Drain
    <2>2. Head(pipe[s]) \in Nat /\ Tail(pipe[s]) \in Seq(Nat)
      BY <2>1
    <2>3. rest' \in [Streams -> Seq(Nat)] /\ pipe' \in [Streams -> Seq(Nat)]
      BY <2>1, <2>2
    <2>. QED
      BY <1>8, <2>3 DEF Drain, waitVars
  <1>9. CASE Finish
    BY <1>9 DEF Finish, processVars, waitVars
  <1>10. CASE CallWait
    BY <1>10 DEF CallWait, processVars, waitVars
  <1>11. CASE WaitReturns \/ Store \/ Return
    BY <1>11 DEF WaitReturns, WaitPid, Store, Return, Outcome, processVars, waitVars
  <1>12. CASE CleanupPolls \/ CleanupStores
    BY <1>12 DEF CleanupPolls, WaitPid, CleanupStores, processVars, readerVars
  <1>13. CASE UNCHANGED vars
    BY <1>13 DEF vars, processVars, waitVars, readerVars
  <1>. QED
    BY <1>1, <1>2, <1>3, <1>4, <1>5, <1>6, <1>7, <1>8, <1>9, <1>10, <1>11, <1>12, <1>13
       DEF Next, Process, Reader, Waiter, Cleanup

LEMMA StreamTypeInit == Init => StreamTypeOK
  <1> SUFFICES ASSUME Init
               PROVE  StreamTypeOK
    OBVIOUS
  <1> USE DEF Streams
  <1>1. lines \in [Streams -> Nat]
    BY StreamAssumption DEF Init
  <1>2. pc \in {"select", "call", "never"}
    BY StreamAssumption DEF Init
  <1>3. written \in [Streams -> Nat] /\ pipe \in [Streams -> Seq(Nat)]
    BY DEF Init
  <1>4. yielded \in [Streams -> Seq(Nat)] /\ rest \in [Streams -> Seq(Nat)]
    BY DEF Init
  <1>. QED
    BY <1>1, <1>2, <1>3, <1>4 DEF Init, StreamTypeOK

\* The variables keep their types (Executor.executeWithLogOut, executeWithOutLogOut).
THEOREM StreamTypeHolds == Spec => []StreamTypeOK
  BY StreamTypeInit, StreamTypeStep, PTL DEF Spec

-----------------------------------------------------------------------------
\* What the properties rest on.

\* Of w lines the first were yielded (y), the next were read by communicate() (r), and
\* the last are still in the pipe (p).
InParts(y, r, p, w) ==
    /\ From(y, 0)
    /\ From(r, Len(y))
    /\ From(p, Len(y) + Len(r))
    /\ w = Len(y) + Len(r) + Len(p)

Parts(s) == InParts(yielded[s], rest[s], pipe[s], written[s])

LEMMA PartsWritten ==
    ASSUME NEW y \in Seq(Nat), NEW r \in Seq(Nat), NEW p \in Seq(Nat), NEW w \in Nat,
           InParts(y, r, p, w)
    PROVE  InParts(y, r, Append(p, w + 1), w + 1)
  <1>1. Len(y) + Len(r) \in Nat /\ Len(p) \in Nat
    OBVIOUS
  <1>2. From(p, Len(y) + Len(r)) /\ w + 1 = Len(y) + Len(r) + Len(p) + 1
    BY <1>1 DEF InParts
  <1>3. From(Append(p, w + 1), Len(y) + Len(r)) /\ Len(Append(p, w + 1)) = Len(p) + 1
    BY <1>1, <1>2, FromAppend
  <1>. QED
    BY <1>1, <1>2, <1>3 DEF InParts

LEMMA PartsYielded ==
    ASSUME NEW y \in Seq(Nat), NEW p \in Seq(Nat), NEW w \in Nat,
           InParts(y, <<>>, p, w), p # <<>>
    PROVE  /\ InParts(Append(y, Head(p)), <<>>, Tail(p), w)
           /\ Head(p) = Len(y) + 1 /\ Len(y) < w
  <1>1. Len(y) \in Nat /\ Len(<<>>) = 0
    OBVIOUS
  <1>2. From(y, 0) /\ From(p, Len(y)) /\ w = Len(y) + Len(p)
    BY <1>1 DEF InParts
  <1>3. /\ Head(p) = Len(y) + 1 /\ Tail(p) \in Seq(Nat)
        /\ Len(p) = Len(Tail(p)) + 1 /\ From(Tail(p), Len(y) + 1)
    BY <1>1, <1>2, FromHead
  <1>4. From(Append(y, Head(p)), 0) /\ Len(Append(y, Head(p))) = Len(y) + 1
    BY <1>1, <1>2, <1>3, FromAppend
  <1>5. From(<<>>, Len(y) + 1) /\ Len(Tail(p)) \in Nat
    BY <1>3 DEF From
  <1>. QED
    BY <1>1, <1>2, <1>3, <1>4, <1>5 DEF InParts

LEMMA PartsDrained ==
    ASSUME NEW y \in Seq(Nat), NEW r \in Seq(Nat), NEW p \in Seq(Nat), NEW w \in Nat,
           InParts(y, r, p, w), p # <<>>
    PROVE  InParts(y, Append(r, Head(p)), Tail(p), w)
  <1>1. Len(y) \in Nat /\ Len(r) \in Nat /\ Len(y) + Len(r) \in Nat
    OBVIOUS
  <1>2. From(y, 0) /\ From(r, Len(y)) /\ From(p, Len(y) + Len(r)) /\ w = Len(y) + Len(r) + Len(p)
    BY DEF InParts
  <1>3. /\ Head(p) = Len(y) + Len(r) + 1 /\ Tail(p) \in Seq(Nat)
        /\ Len(p) = Len(Tail(p)) + 1 /\ From(Tail(p), Len(y) + Len(r) + 1)
    BY <1>1, <1>2, FromHead
  <1>4. From(Append(r, Head(p)), Len(y)) /\ Len(Append(r, Head(p))) = Len(r) + 1
    BY <1>1, <1>2, <1>3, FromAppend
  <1>5. Len(Tail(p)) \in Nat /\ Len(y) + (Len(r) + 1) = Len(y) + Len(r) + 1
    BY <1>1, <1>3
  <1>. QED
    BY <1>1, <1>2, <1>3, <1>4, <1>5 DEF InParts

\* communicate() follows the loop.
RestIsLast ==
    \A s \in Streams : rest[s] # <<>> => pc \in {"communicate", "end"}

\* Where the thread of each mode can be, and when it has a status.
Control ==
    /\ pc \in {"select", "read", "poll", "communicate"} => mode = "log" /\ status = "none"
    /\ pc \in {"call", "wait", "return"} => mode = "wait" /\ status = "none"
    /\ pc = "store" => mode \in {"log", "wait"} /\ status = "none"
    /\ pc = "never" => mode = "nobody" /\ status = "none"
    /\ pc = "end" => mode \in {"log", "wait"}
    /\ pc = "end" /\ mode = "log" => open = {} /\ \A s \in Streams : pipe[s] = <<>>
    /\ pc = "read" => ready # {}

\* A thread that called waitpid got the exit status or took it for 0, and one of those
\* that did got it.  A thread calls it once, on its way to the return code.
StatusGiven ==
    /\ \A p \in Pollers : sts[p] # "none" => reaped /\ sts[p] \in {"0", exit}
    /\ reaped => exit # "none" /\ \E p \in Pollers : sts[p] = exit
    /\ pc \in {"select", "read", "poll", "call", "wait", "never"} => sts["reader"] = "none"
    /\ pc = "store" => sts["reader"] # "none"
    /\ poller = "idle" => sts["cleanup"] = "none"
    /\ poller = "got" => sts["cleanup"] # "none"

\* The return code is what waitpid gave to a thread, and the last item says what one is.
CodeGiven ==
    /\ returncode # "none" => \E p \in Pollers : returncode = sts[p]
    /\ pc \in {"communicate", "return"} => returncode # "none"
    /\ status # "none" => \E p \in Pollers : sts[p] # "none" /\ status = Outcome(sts[p])

StreamInv ==
    /\ \A s \in Streams : Parts(s)
    /\ RestIsLast /\ Control /\ StatusGiven /\ CodeGiven

LEMMA PartsStep ==
    ASSUME StreamTypeOK, StreamInv, [Next]_vars
    PROVE  \A s \in Streams : Parts(s)'
  <1> SUFFICES ASSUME NEW s \in Streams
               PROVE  Parts(s)'
    OBVIOUS
  <1>1. /\ yielded[s] \in Seq(Nat) /\ rest[s] \in Seq(Nat) /\ pipe[s] \in Seq(Nat)
        /\ written[s] \in Nat
    BY DEF StreamTypeOK
  <1>2. InParts(yielded[s], rest[s], pipe[s], written[s])
    BY DEF StreamInv, Parts
  <1>3. CASE /\ written'[s] = written[s] /\ pipe'[s] = pipe[s]
             /\ yielded'[s] = yielded[s] /\ rest'[s] = rest[s]
    BY <1>2, <1>3 DEF Parts
  <1>4. ASSUME NEW t \in Streams, Write(t)
        PROVE  Parts(s)'
    <2>1. UNCHANGED <<yielded, rest>>
      BY <1>4 DEF Write, readerVars
    <2>2. CASE s = t
      <3>1. written'[s] = written[s] + 1 /\ pipe'[s] = Append(pipe[s], written[s] + 1)
        BY <1>4, <2>2 DEF Write, StreamTypeOK
      <3>. QED
        BY <1>1, <1>2, <2>1, <3>1, PartsWritten DEF Parts
    <2>3. CASE s # t
      BY <1>3, <1>4, <2>1, <2>3 DEF Write, StreamTypeOK
    <2>. QED
      BY <2>2, <2>3
  <1>5. CASE ReadLine
    <2>1. UNCHANGED <<written, rest>>
      BY <1>5 DEF ReadLine
    <2>2. rest[s] = <<>>
      BY <1>5 DEF ReadLine, StreamInv, RestIsLast
    <2>3. CASE s = Turn /\ pipe[s] # <<>>
      <3>1. yielded'[s] = Append(yielded[s], Head(pipe[s])) /\ pipe'[s] = Tail(pipe[s])
        BY <1>5, <2>3 DEF ReadLine, StreamTypeOK
      <3>. QED
        BY <1>1, <1>2, <2>1, <2>2, <2>3, <3>1, PartsYielded DEF Parts
    <2>4. CASE s # Turn
      BY <1>3, <1>5, <2>1, <2>4 DEF ReadLine, StreamTypeOK
    <2>5. CASE s = Turn /\ pipe[s] = <<>>
      BY <1>3, <1>5, <2>1, <2>5 DEF ReadLine
    <2>. QED
      BY <2>3, <2>4, <2>5
  <1>6. CASE Drain
    <2>1. PICK t \in Streams :
             /\ pipe[t] # <<>>
             /\ rest' = [rest EXCEPT ![t] = Append(@, Head(pipe[t]))]
             /\ pipe' = [pipe EXCEPT ![t] = Tail(@)]
      BY <1>6 DEF Drain
    <2>2. UNCHANGED <<written, yielded>>
      BY <1>6 DEF Drain
    <2>3. CASE s = t
      <3>1. rest'[s] = Append(rest[s], Head(pipe[s])) /\ pipe'[s] = Tail(pipe[s])
        BY <2>1, <2>3 DEF StreamTypeOK
      <3>. QED
        BY <1>1, <1>2, <2>1, <2>2, <2>3, <3>1, PartsDrained DEF Parts
    <2>4. CASE s # t
      BY <1>3, <2>1, <2>2, <2>4 DEF StreamTypeOK
    <2>. QED
      BY <2>3, <2>4
  <1>7. CASE UNCHANGED vars
    BY <1>3, <1>7 DEF vars, processVars, readerVars
  <1>. QED
    BY <1>3, <1>4, <1>5, <1>6, <1>7
       DEF Next, Process, Reader, Waiter, Cleanup, Close, Exit, Kill, Leave, Select, Poll,
           Finish, CallWait, WaitReturns, Store, Return, CleanupPolls, CleanupStores, processVars, readerVars

LEMMA ControlStep ==
    ASSUME StreamTypeOK, StreamInv, [Next]_vars
    PROVE  RestIsLast' /\ Control'
  <1> USE DEF StreamInv, RestIsLast, Control
  <1>1. ASSUME NEW s \in Streams, Write(s)
        PROVE  RestIsLast' /\ Control'
    BY <1>1 DEF Write, readerVars
  <1>2. ASSUME NEW s \in Streams, Close(s)
        PROVE  RestIsLast' /\ Control'
    BY <1>2 DEF Close, readerVars
  <1>3. CASE Exit \/ Kill
    BY <1>3 DEF Exit, Kill, readerVars
  <1>4. CASE Leave
    BY <1>4 DEF Leave, processVars
  <1>5. CASE Select
    BY <1>5 DEF Select, processVars
  <1>6. CASE ReadLine
    <2>1. UNCHANGED <<rest, open, status, mode>>
      BY <1>6 DEF ReadLine
    <2>2. pc = "read" /\ pc' \in {"poll", "read"} /\ (pc' = "read" => ready' # {})
      BY <1>6 DEF ReadLine
    <2>. QED
      BY <2>1, <2>2
  <1>7. CASE Poll
    BY <1>7 DEF Poll, processVars
  <1>8. CASE Drain
    <2>1. pc = "communicate"
      BY <1>8 DEF Drain
    <2>. QED
      BY <1>8, <2>1 DEF Drain
  <1>9. CASE Finish
    BY <1>9 DEF Finish, processVars
  <1>10. CASE CallWait \/ WaitReturns \/ Store \/ Return
    BY <1>10 DEF CallWait, WaitReturns, Store, Return, processVars
  <1>11. CASE CleanupPolls \/ CleanupStores
    BY <1>11 DEF CleanupPolls, CleanupStores, processVars, readerVars
  <1>12. CASE UNCHANGED vars
    BY <1>12 DEF vars, processVars, readerVars
  <1>. QED
    BY <1>1, <1>2, <1>3, <1>4, <1>5, <1>6, <1>7, <1>8, <1>9, <1>10, <1>11, <1>12
       DEF Next, Process, Reader, Waiter, Cleanup

\* A status that waitpid gave stays with its thread, and is the last it gets.
LEMMA GivenStep ==
    ASSUME StreamTypeOK, StreamInv, [Next]_vars
    PROVE  StatusGiven' /\ CodeGiven'
  <1> USE DEF StreamTypeOK, StreamInv, Control, StatusGiven, CodeGiven, Pollers, Codes
  <1>1. CASE Exit \/ Kill
    <2>1. exit = "none" /\ UNCHANGED <<reaped, returncode, sts, poller, pc, status>>
      BY <1>1 DEF Exit, Kill, waitVars, readerVars
    <2>2. ~ reaped /\ sts["reader"] = "none" /\ sts["cleanup"] = "none"
      BY <2>1
    <2>. QED
      BY <2>1, <2>2
  <1>2. CASE Poll
    <2>1. pc = "poll" /\ UNCHANGED <<exit, mode, status>>
      BY <1>2 DEF Poll, processVars
    <2>2. CASE /\ UNCHANGED waitVars
               /\ pc' = "select" \/ (pc' = "communicate" /\ returncode # "none")
      BY <2>1, <2>2 DEF waitVars
    <2>3. CASE /\ returncode = "none" /\ WaitPid("reader")
               /\ pc' = "store" /\ UNCHANGED <<returncode, poller>>
      BY <2>1, <2>3 DEF WaitPid
    <2>. QED
      BY <1>2, <2>2, <2>3 DEF Poll
  <1>3. CASE Finish
    BY <1>3 DEF Finish, Outcome, processVars, waitVars
  <1>4. CASE CallWait
    BY <1>4 DEF CallWait, processVars, waitVars
  <1>5. CASE WaitReturns
    BY <1>5 DEF WaitReturns, WaitPid, processVars
  <1>6. CASE Store
    BY <1>6 DEF Store, processVars
  <1>7. CASE Return
    BY <1>7 DEF Return, processVars, waitVars
  <1>8. CASE CleanupPolls
    BY <1>8 DEF CleanupPolls, WaitPid, processVars, readerVars
  <1>9. CASE CleanupStores
    BY <1>9 DEF CleanupStores, processVars, readerVars
  <1>10. CASE Select \/ ReadLine \/ Drain \/ Leave
    <2>1. UNCHANGED <<waitVars, exit, status>>
      BY <1>10 DEF Select, ReadLine, Drain, Leave, processVars
    <2>2. \/ pc' = pc
          \/ pc \in {"select", "read"} /\ pc' \in {"read", "poll"}
      BY <1>10 DEF Select, ReadLine, Drain, Leave
    <2>. QED
      BY <2>1, <2>2 DEF waitVars
  <1>11. CASE UNCHANGED vars \/ \E s \in Streams : Write(s) \/ Close(s)
    <2>1. UNCHANGED <<waitVars, exit, status, pc>>
      BY <1>11 DEF Write, Close, vars, processVars, readerVars
    <2>. QED
      BY <2>1 DEF waitVars
  <1>. QED
    BY <1>1, <1>2, <1>3, <1>4, <1>5, <1>6, <1>7, <1>8, <1>9, <1>10, <1>11
       DEF Next, Process, Reader, Waiter, Cleanup

LEMMA StreamInvInit == Init => StreamInv
  <1> SUFFICES ASSUME Init
               PROVE  StreamInv
    OBVIOUS
  <1>1. \A s \in Streams : Parts(s)
    BY DEF Init, Parts, InParts, From
  <1>2. RestIsLast /\ StatusGiven /\ CodeGiven
    BY StreamAssumption DEF Init, RestIsLast, StatusGiven, CodeGiven, Pollers
  <1>3. Control
    BY StreamAssumption DEF Init, Control
  <1>. QED
    BY <1>1, <1>2, <1>3 DEF StreamInv

THEOREM StreamInvHolds == Spec => []StreamInv
  <1>1. StreamTypeOK /\ StreamInv /\ [Next]_vars => StreamInv'
    BY PartsStep, ControlStep, GivenStep DEF StreamInv
  <1>. QED
    BY <1>1, StreamInvInit, StreamTypeHolds, PTL DEF Spec

-----------------------------------------------------------------------------
\* The last item tells how the process ended (Executor.py:119-126): it follows a status
\* that waitpid gave, which is the exit status or 0 for a thread that came too late; and
\* then the other one was there before.
THEOREM StatusIsTrueHolds == Spec => []StatusIsTrue
  <1>1. StreamTypeOK /\ StreamInv => StatusIsTrue
    <2> SUFFICES ASSUME StreamTypeOK, StreamInv, status # "none"
                 PROVE  /\ exit # "none"
                        /\ status = "FAILED" => Outcome(exit) = "FAILED"
                        /\ status = Outcome(exit) \/ \A p \in Pollers : sts[p] # "none"
      BY DEF StatusIsTrue
    <2>1. PICK p \in Pollers : sts[p] # "none" /\ status = Outcome(sts[p])
      BY DEF StreamInv, CodeGiven
    <2>2. exit # "none" /\ sts[p] \in {"0", exit}
      BY <2>1 DEF StreamInv, StatusGiven
    <2>3. PICK q \in Pollers : sts[q] = exit
      BY <2>1 DEF StreamInv, StatusGiven
    <2>. QED
      BY <2>1, <2>2, <2>3 DEF Outcome, Pollers
  <1>. QED
    BY <1>1, StreamTypeHolds, StreamInvHolds, PTL

\* When the process has failed, nothing of its standard output is lost: communicate()
\* reads to the end of the stream, and OUTPUT carries it (Executor.py:121-126).
THEOREM FailureLogCompleteHolds == Spec => []FailureLogComplete
  <1>1. StreamTypeOK /\ StreamInv => FailureLogComplete
    <2> SUFFICES ASSUME StreamTypeOK, StreamInv, mode = "log", status = "FAILED"
                 PROVE  yielded["STDOUT"] \o Output = UpTo(written["STDOUT"])
      BY DEF FailureLogComplete
    <2> DEFINE y == yielded["STDOUT"]
               r == rest["STDOUT"]
    <2>1. "STDOUT" \in Streams
      BY DEF Streams
    <2>2. pc = "end"
      BY DEF StreamInv, Control, StreamTypeOK
    <2>3. pipe["STDOUT"] = <<>>
      BY <2>1, <2>2 DEF StreamInv, Control
    <2>4. /\ y \in Seq(Nat) /\ r \in Seq(Nat)
          /\ From(y, 0) /\ From(r, Len(y))
          /\ written["STDOUT"] = Len(y) + Len(r)
      <3>1. InParts(y, r, <<>>, written["STDOUT"])
        BY <2>1, <2>3 DEF StreamInv, Parts
      <3>2. y \in Seq(Nat) /\ r \in Seq(Nat)
        BY <2>1 DEF StreamTypeOK
      <3>. QED
        BY <3>1, <3>2 DEF InParts
    <2>5. y \o r = UpTo(Len(y) + Len(r))
      BY <2>4, FromConcat
    <2>. QED
      BY <2>4, <2>5 DEF Output
  <1>. QED
    BY <1>1, StreamTypeHolds, StreamInvHolds, PTL

-----------------------------------------------------------------------------
LEMMA ChannelStep ==
    ASSUME StreamTypeOK, StreamInv, [Next]_vars
    PROVE  [Channel!ChanNext]_(Channel!chanVars)
  <1> DEFINE theLast == IF mode = "log" THEN status ELSE "none"
  <1> USE DEF Channel!ChanNext, Channel!chanVars
  <1>1. CASE UNCHANGED <<written, yielded, mode, status>>
    BY <1>1
  <1>2. ASSUME NEW s \in Streams, Write(s)
        PROVE  Channel!Send(s)
    BY <1>2 DEF Write, readerVars, Channel!Send
  <1>3. CASE ReadLine
    <2>1. UNCHANGED <<written, mode, status>> /\ theLast = "none"
      BY <1>3 DEF ReadLine, StreamInv, Control
    <2>2. Turn \in Streams
      BY DEF Turn, Streams
    <2>3. CASE pipe[Turn] = <<>>
      BY <1>1, <1>3, <2>1, <2>3 DEF ReadLine
    <2>4. CASE pipe[Turn] # <<>>
      <3>1. /\ yielded[Turn] \in Seq(Nat) /\ pipe[Turn] \in Seq(Nat)
            /\ Len(pipe[Turn]) > 0
        BY <2>2, <2>4 DEF StreamTypeOK
      <3>2. rest[Turn] = <<>>
        BY <1>3, <2>2 DEF ReadLine, StreamInv, RestIsLast
      <3>3. InParts(yielded[Turn], <<>>, pipe[Turn], written[Turn]) /\ written[Turn] \in Nat
        BY <2>2, <3>2 DEF StreamInv, Parts, StreamTypeOK
      <3>4. Head(pipe[Turn]) = Len(yielded[Turn]) + 1 /\ Len(yielded[Turn]) < written[Turn]
        BY <2>4, <3>1, <3>3, PartsYielded
      <3>5. yielded' = [yielded EXCEPT ![Turn] = Append(@, Len(@) + 1)]
        BY <1>3, <2>2, <2>4, <3>4 DEF ReadLine, StreamTypeOK
      <3>6. Channel!Deliver(Turn)
        BY <2>1, <3>4, <3>5 DEF Channel!Deliver
      <3>. QED
        BY <2>2, <3>6
    <2>. QED
      BY <2>3, <2>4
  <1>4. CASE Finish
    <2>1. theLast = "none" /\ theLast' \in {"SUCCESS", "FAILED"} /\ UNCHANGED <<written, yielded>>
      BY <1>4 DEF Finish, StreamInv, Control, processVars
    <2>. QED
      BY <2>1 DEF Channel!Finish
  <1>5. CASE CallWait \/ WaitReturns \/ Store \/ Return
    <2>1. /\ UNCHANGED <<written, yielded, mode>>
          /\ mode = "wait" \/ UNCHANGED status
      BY <1>5 DEF CallWait, WaitReturns, Store, Return, StreamInv, Control, processVars
    <2>. QED
      BY <2>1
  <1>6. CASE UNCHANGED vars
    BY <1>1, <1>6 DEF vars, processVars, readerVars
  <1>7. CASE Leave \/ Exit \/ Kill \/ Select \/ Poll \/ Drain \/ Cleanup \/ \E s \in Streams : Close(s)
    BY <1>1, <1>7 DEF Leave, Exit, Kill, Select, Poll, Drain, Cleanup, CleanupPolls, CleanupStores,
                      Close, processVars, readerVars
  <1>. QED
    BY <1>2, <1>3, <1>4, <1>5, <1>6, <1>7 DEF Next, Process, Reader, Waiter

\* executeWithLogOut implements a channel for lines: to the client they come in order,
\* each once, none left out in between, and none after the last item.
THEOREM ChannelRefinedHolds == Spec => ChannelRefined
  <1>1. Init => Channel!ChanInit
    BY DEF Init, Channel!ChanInit
  <1>. QED
    BY <1>1, ChannelStep, StreamTypeHolds, StreamInvHolds, PTL
       DEF Spec, ChannelRefined, Channel!ChanSpec
=============================================================================
