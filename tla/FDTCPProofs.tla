----------------------------- MODULE FDTCPProofs -----------------------------
(***************************************************************************)
(* The client fdtcp, for any number of transfers and of signals: what it   *)
(* leaves behind when it exits, and what its exit status says.             *)
(***************************************************************************)
EXTENDS FDTCP, SequenceTheorems, TLAPS

-----------------------------------------------------------------------------
\* The points of the program, by what they say of the transfer at hand.

Testing   == {"testReceiver", "testSender"}
Starting  == {"askReceiver", "waitReceiver", "getPort", "askSender", "waitSender", "log"}
Sends     == {"send", "finalSend"}
Pops      == {"pop", "finalPop"}
Handling  == {"caught", "status"}

LoopPoints  == Testing \cup Starting \cup Handling
                 \cup {"loop", "enterCleanup", "send", "pop", "done", "leave"}
FinalPoints == {"final", "finalCleanup", "finalSend", "finalPop", "report", "exited"}

\* Where no transfer is at hand: the one of before is done with.
Between == {"loop", "leave", "final", "exited"}

AtHand(t) == t = transfer /\ pc \notin Between

-----------------------------------------------------------------------------
\* Types: the cleanup goes on only while something is left of the list.
ListInv ==
    /\ pc \in Sends => remaining # <<>>
    /\ pc \notin Between => transfer \in Transfers

TypeInv == ClientTypeOK /\ ListInv

-----------------------------------------------------------------------------
\* A request that nobody waits for any more is one whose answer is lost.
AskedInv ==
    \A t \in Transfers, p \in Parties :
        <<t, p>> \in asked => <<t, p>> \in lost \/ (t = transfer /\ pc = Waiting(p))

\* The list of a transfer as it was registered, as it is reversed, and its parts.
Listed   == <<"receiver", "sender">>
Reversed == <<"sender", "receiver">>
Sender   == <<"sender">>
Receiver == <<"receiver">>

Untouched(t) ==
    /\ toCleanup[t] = <<>> /\ attempts[t] = <<>> /\ copied[t] = "no"
    /\ \A p \in Parties : <<t, p>> \notin asked \cup live

Registered(t) == toCleanup[t] = Listed /\ attempts[t] = <<>>

Cleaned(t) == toCleanup[t] = <<>> /\ attempts[t] = Reversed

\* Between a request of the cleanup and the next ...
Sending(t) ==
    \/ toCleanup[t] = Reversed /\ attempts[t] = <<>> /\ remaining = Reversed
    \/ toCleanup[t] = Sender /\ attempts[t] = Sender /\ remaining = Receiver

\* ... and before the item of a request that was sent is popped: the wrong one, but
\* what is left to be sent is in remaining.
Popping(t) ==
    \/ toCleanup[t] = Reversed /\ attempts[t] = Sender /\ remaining = Receiver
    \/ toCleanup[t] = Sender /\ attempts[t] = Reversed /\ remaining = <<>>

\* A transfer that needs a cleanup may be waiting for the one at the end.
Settled(t) == Untouched(t) \/ Cleaned(t)
Idle(t)    == Settled(t) \/ (Registered(t) /\ copied[t] = "no")

\* What is true of the transfer at hand.
HandInv(t) ==
    /\ pc \in Testing => Untouched(t)
    /\ pc \in Starting => Registered(t) /\ copied[t] = "no"
    /\ pc = "enterCleanup" => Registered(t)
    /\ pc \in Sends => Sending(t)
    /\ pc \in Pops => Popping(t)
    /\ pc \in Handling \cup {"finalCleanup"} => Idle(t)
    /\ pc \in {"done", "report"} => Settled(t)

\* And of the others, in the loop and in the cleanup at the end of main().
RestInv(t) ==
    /\ pc \in LoopPoints => IF t \in todo THEN Untouched(t) ELSE Idle(t)
    /\ pc \in FinalPoints => IF t \in todo THEN Idle(t) ELSE Settled(t)

\* A process that is live, and whose call was not lost, is still to be sent a cleanup.
Attempted(t) == CASE attempts[t] = Reversed -> Parties
                  [] attempts[t] = Sender   -> {"sender"}
                  [] OTHER                  -> {}

LiveInv ==
    \A t \in Transfers, p \in Parties :
        <<t, p>> \in live => <<t, p>> \in lost \/ p \notin Attempted(t)

Stage(t) ==
    /\ IF AtHand(t) THEN HandInv(t) ELSE RestInv(t)
    /\ AtHand(t) => t \notin todo

StageInv ==
    /\ \A t \in Transfers : Stage(t)
    /\ pc = "exited" => todo = {}
    /\ LiveInv

CleanupInv == Undisturbed => StageInv

-----------------------------------------------------------------------------
\* A transfer the loop has passed was performed, or its failure shows in the exit
\* status: in the one that is set, or in the one of an exception on its way out.
Performed(t) == t \in broken \/ copied[t] # "no"

Shows == appExitStatus # 0 \/ loggingRaises

PerformedInv ==
    /\ pc \in Handling => exc \in Errors
    /\ pc = "leave" => Shows
    /\ \A t \in Transfers :
          /\ AtHand(t) /\ pc \in LoopPoints => t \notin todo
          /\ AtHand(t) /\ pc \in {"enterCleanup", "send", "pop", "done"} => Performed(t)
          /\ pc \in LoopPoints =>
                \/ t \in todo \/ AtHand(t) \/ Performed(t) \/ Shows
          /\ pc \in FinalPoints \ {"exited"} => Performed(t) \/ Shows
          /\ pc \in LoopPoints /\ t \in todo /\ result[t] # "none" => t \in broken
    /\ pc = "exited" /\ exitCode = 0 => \A t \in Transfers : Performed(t)

StatusInv == signals = 0 => PerformedInv

-----------------------------------------------------------------------------
\* What performCleanup does with the list of two parties.
LEMMA ListFacts ==
    /\ Listed # <<>> /\ Reversed # <<>> /\ Sender # <<>> /\ Receiver # <<>>
    /\ Reversed # Sender
    /\ Reverse(Listed) = Reversed
    /\ Head(Reversed) = "sender" /\ Tail(Reversed) = Receiver
    /\ Head(Receiver) = "receiver" /\ Tail(Receiver) = <<>>
    /\ Append(<<>>, "sender") = Sender /\ Append(Sender, "receiver") = Reversed
    /\ Front(Reversed) = Sender /\ Front(Sender) = <<>>
<1>1. Len(Listed) = 2 /\ Listed[1] = "receiver" /\ Listed[2] = "sender"
    BY DEF Listed
<1>2. Reverse(Listed) = Reversed
    <2>1. Reverse(Listed) = [i \in 1 .. 2 |-> Listed[(2 - i) + 1]]
        BY <1>1 DEF Reverse
    <2>2. Reversed = [i \in 1 .. 2 |-> IF i = 1 THEN "sender" ELSE "receiver"]
        BY DEF Reversed
    <2>3. \A i \in 1 .. 2 : Listed[(2 - i) + 1] = IF i = 1 THEN "sender" ELSE "receiver"
        BY <1>1
    <2> QED BY <2>1, <2>2, <2>3
<1>3. /\ Head(Reversed) = "sender" /\ Tail(Reversed) = <<"receiver">>
      /\ Head(<<"receiver">>) = "receiver" /\ Tail(<<"receiver">>) = <<>>
    BY DEF Reversed
<1>4. Append(<<>>, "sender") = <<"sender">> /\ Append(<<"sender">>, "receiver") = Reversed
    <2>1. /\ <<>> \in Seq(Parties) /\ <<"sender">> \in Seq(Parties)
          /\ "sender" \in Parties /\ "receiver" \in Parties
        BY DEF Parties
    <2>2. Append(<<>>, "sender") = <<>> \o <<"sender">>
        BY <2>1, AppendIsConcat
    <2>3. <<>> \o <<"sender">> = <<"sender">>
        BY <2>1, ConcatEmptySeq
    <2>4. Append(<<"sender">>, "receiver") = Reversed
        <3> DEFINE a == Append(<<"sender">>, "receiver")
        <3>1. /\ a \in Seq(Parties) /\ Len(a) = Len(<<"sender">>) + 1
              /\ \A i \in 1 .. Len(<<"sender">>) : a[i] = <<"sender">>[i]
              /\ a[Len(<<"sender">>) + 1] = "receiver"
            BY <2>1, AppendProperties
        <3>2. Len(<<"sender">>) = 1 /\ <<"sender">>[1] = "sender"
            OBVIOUS
        <3>3. Len(a) = 2 /\ a[1] = "sender" /\ a[2] = "receiver"
            BY <3>1, <3>2
        <3>4. /\ Reversed \in Seq(Parties) /\ Len(Reversed) = 2
              /\ Reversed[1] = "sender" /\ Reversed[2] = "receiver"
            BY <2>1 DEF Reversed
        <3>5. \A i \in 1 .. Len(a) : a[i] = Reversed[i]
            BY <3>3, <3>4
        <3> QED BY <3>1, <3>3, <3>4, <3>5, SeqEqual
    <2> QED BY <2>2, <2>3, <2>4
<1>5. Front(Reversed) = <<"sender">> /\ Front(<<"sender">>) = <<>>
    <2>1. Front(Reversed) = SubSeq(Reversed, 1, 1)
        BY DEF Front, Reversed
    <2>2. SubSeq(Reversed, 1, 1) = <<"sender">>
        <3> DEFINE u == SubSeq(Reversed, 1, 1)
        <3>1. Reversed \in Seq(Parties) /\ Len(Reversed) = 2 /\ Reversed[1] = "sender"
            BY DEF Reversed, Parties
        <3>2. u \in Seq(Parties) /\ Len(u) = 1 /\ u[1] = "sender"
            BY <3>1, SubSeqProperties
        <3>3. <<"sender">> \in Seq(Parties) /\ Len(<<"sender">>) = 1 /\ <<"sender">>[1] = "sender"
            BY DEF Parties
        <3>4. Len(u) = Len(<<"sender">>) /\ \A i \in 1 .. Len(u) : u[i] = <<"sender">>[i]
            BY <3>2, <3>3
        <3> QED BY <3>2, <3>3, <3>4, SeqEqual
    <2>3. Front(<<"sender">>) = SubSeq(<<"sender">>, 1, 0)
        BY DEF Front
    <2>4. SubSeq(<<"sender">>, 1, 0) = <<>>
        BY SubSeqEmpty
    <2> QED BY <2>1, <2>2, <2>3, <2>4
<1>6. /\ Listed # <<>> /\ Reversed # <<>> /\ <<"sender">> # <<>> /\ <<"receiver">> # <<>>
      /\ Reversed # <<"sender">>
    BY DEF Listed, Reversed
<1> QED BY <1>2, <1>3, <1>4, <1>5, <1>6 DEF Sender, Receiver

\* Reversed, without its ends and with one more, a list stays a list of parties.
LEMMA ListOfParties ==
    ASSUME NEW s \in Seq(Parties)
    PROVE  /\ Reverse(s) \in Seq(Parties) /\ Front(s) \in Seq(Parties)
           /\ s # <<>> => /\ Reverse(s) # <<>>
                         /\ Head(s) \in Parties /\ Tail(s) \in Seq(Parties)
           /\ \A p \in Parties : Append(s, p) \in Seq(Parties) /\ Append(s, p) # <<>>
<1>1. Len(s) \in Nat /\ \A i \in 1 .. Len(s) : s[i] \in Parties
    BY LenProperties, ElementOfSeq
<1>2. Reverse(s) \in Seq(Parties) /\ Len(Reverse(s)) = Len(s)
    <2>1. \A i \in 1 .. Len(s) : (Len(s) - i) + 1 \in 1 .. Len(s)
        BY <1>1
    <2>2. \A i \in 1 .. Len(s) : s[(Len(s) - i) + 1] \in Parties
        BY <1>1, <2>1
    <2>3. Reverse(s) \in [1 .. Len(s) -> Parties]
        BY <2>2 DEF Reverse
    <2> QED BY <1>1, <2>3, SeqDef
<1>3. Front(s) \in Seq(Parties)
    <2>1. \A i \in 1 .. Len(s) - 1 : s[i] \in Parties
        BY <1>1
    <2> QED BY <1>1, <2>1, SubSeqProperties DEF Front
<1>4. s # <<>> => Reverse(s) # <<>>
    BY <1>2, EmptySeq
<1>5. s # <<>> => Head(s) \in Parties /\ Tail(s) \in Seq(Parties)
    BY HeadTailProperties
<1>6. \A p \in Parties : Append(s, p) \in Seq(Parties) /\ Append(s, p) # <<>>
    BY AppendProperties
<1> QED BY <1>2, <1>3, <1>4, <1>5, <1>6

-----------------------------------------------------------------------------
\* Nothing has begun.
LEMMA TypeInit == Init => TypeInv
<1> SUFFICES ASSUME Init PROVE TypeInv
    OBVIOUS
<1>1. result \in [Transfers -> {"none", "ok", "failed"}]
    BY DEF Init
<1>2. toCleanup \in [Transfers -> Seq(Parties)] /\ attempts \in [Transfers -> Seq(Parties)]
    BY DEF Init, Parties
<1>3. remaining \in Seq(Parties) /\ {exc, appExitStatus, exitCode} \subseteq 0 .. Keyboard
    BY DEF Init, Parties, Keyboard
<1>4. signals \in 0 .. MaxSignals
    BY ClientAssumption DEF Init
<1>5. /\ report \in BOOLEAN /\ loggingRaises \in BOOLEAN
      /\ pc = "loop" /\ transfer \in Transfers \cup {NoTransfer}
      /\ todo \subseteq Transfers /\ broken \subseteq Transfers
      /\ asked \subseteq Transfers \X Parties /\ live \subseteq Transfers \X Parties
      /\ lost \subseteq Transfers \X Parties
      /\ copied \in [Transfers -> {"no", "success", "failure"}]
    BY DEF Init
<1> QED BY <1>1, <1>2, <1>3, <1>4, <1>5 DEF TypeInv, ClientTypeOK, ListInv, Sends, Between

\* The types are kept by every step.
LEMMA TypeStep == TypeInv /\ [Next]_vars => TypeInv'
<1> SUFFICES ASSUME TypeInv, [Next]_vars PROVE TypeInv'
    OBVIOUS
<1> USE DEF TypeInv, ClientTypeOK, ListInv, Sends, Between
<1>0. CASE UNCHANGED vars
    BY <1>0 DEF vars, options, statusVars, remoteVars
<1> SUFFICES ASSUME Next PROVE TypeInv'
    BY <1>0
<1>1. UNCHANGED <<report, loggingRaises>>
    BY DEF Next, options
<1>2. CASE PerformTransfer
    <2> USE DEF Fails, Raise, Errors, Other, Keyboard, statusVars, remoteVars
    <2>1. ASSUME NEW t \in Transfers, Begin(t) PROVE TypeInv'
        BY <1>1, <2>1 DEF Begin
    <2>2. CASE TestReceiver \/ GetPort
        BY <1>1, <2>2 DEF TestReceiver, GetPort
    <2>3. CASE TestSender
        <3>1. <<"receiver", "sender">> \in Seq(Parties)
            BY DEF Parties
        <3>2. toCleanup' \in [Transfers -> Seq(Parties)]
            BY <2>3, <3>1 DEF TestSender
        <3> QED BY <1>1, <2>3, <3>2 DEF TestSender
    <2>4. CASE ReadLog
        <3>1. copied' \in [Transfers -> {"no", "success", "failure"}]
            BY <2>4 DEF ReadLog
        <3>2. pc = "log" /\ pc' \in {"enterCleanup", "caught"} /\ exc' \in 0 .. Keyboard
            BY <2>4 DEF ReadLog
        <3>3. UNCHANGED <<transfer, todo, toCleanup, remaining, asked, live, lost, attempts,
                          signals, result, broken, appExitStatus, exitCode>>
            BY <2>4 DEF ReadLog
        <3> QED BY <1>1, <3>1, <3>2, <3>3
    <2>5. ASSUME NEW p \in Parties, Ask(p) \/ Answered(p) PROVE TypeInv'
        BY <1>1, <2>5 DEF Ask, Answered, Asking, Waiting, After, Parties
    <2>6. ASSUME NEW p \in Parties, Refused(p) \/ Lost(p) PROVE TypeInv'
        BY <1>1, <2>6 DEF Refused, Lost, Waiting, Parties
    <2> QED BY <1>2, <2>1, <2>2, <2>3, <2>4, <2>5, <2>6 DEF PerformTransfer
<1>3. CASE PerformCleanup
    <2> USE DEF statusVars, remoteVars, Step, InFinal
    <2>1. CASE EnterCleanup
        <3>1. transfer \in Transfers /\ toCleanup[transfer] \in Seq(Parties)
            BY <2>1 DEF EnterCleanup
        <3>2. toCleanup[transfer] # <<>> =>
                 Reverse(toCleanup[transfer]) \in Seq(Parties) \ {<<>>}
            BY <3>1, ListOfParties
        <3> QED BY <1>1, <2>1, <3>1, <3>2 DEF EnterCleanup
    <2>2. CASE SendCleanup
        <3>1. /\ transfer \in Transfers /\ Head(remaining) \in Parties
              /\ Tail(remaining) \in Seq(Parties)
            BY <2>2, ListOfParties DEF SendCleanup
        <3>2. Append(attempts[transfer], Head(remaining)) \in Seq(Parties)
            BY <3>1, ListOfParties
        <3> QED BY <1>1, <2>2, <3>1, <3>2 DEF SendCleanup
    <2>3. CASE Pop
        <3>1. transfer \in Transfers /\ Front(toCleanup[transfer]) \in Seq(Parties)
            BY <2>3, ListOfParties DEF Pop
        <3> QED BY <1>1, <2>3, <3>1 DEF Pop
    <2> QED BY <1>3, <2>1, <2>2, <2>3 DEF PerformCleanup
<1>4. CASE Main
    <2> USE DEF Keyboard, Crash, statusVars, remoteVars
    <2>1. CASE Done \/ Caught
        BY <1>1, <2>1 DEF Done, Caught
    <2>2. CASE SetStatus
        BY <1>1, <2>2 DEF SetStatus
    <2>3. CASE Leave
        BY <1>1, <2>3 DEF Leave
    <2>4. CASE MakeReport \/ Exit
        BY <1>1, <2>4 DEF MakeReport, Exit
    <2>5. ASSUME NEW t \in Transfers, Finish(t) PROVE TypeInv'
        BY <1>1, <2>5 DEF Finish
    <2> QED BY <1>4, <2>1, <2>2, <2>3, <2>4, <2>5 DEF Main
<1>5. CASE Daemons
    BY <1>1, <1>5 DEF Daemons, Serve, statusVars, remoteVars
<1>6. CASE Signal
    <2>1. signals' \in 0 .. MaxSignals
        BY <1>6, ClientAssumption DEF Signal
    <2>2. lost' \subseteq Transfers \X Parties
        BY <1>6 DEF Signal
    <2>3. UNCHANGED <<transfer, todo, toCleanup, remaining, result, broken, appExitStatus,
                      asked, live, attempts, copied>>
        BY <1>6 DEF Signal, Crash, statusVars
    <2>4. {exc', exitCode'} \subseteq 0 .. Keyboard
        BY <1>6 DEF Signal, Crash, Raise, statusVars, BySignal, Keyboard
    <2>5. pc' = "leave" \/ pc' = "exited" \/ (pc' = "caught" /\ pc \notin Between)
        BY <1>6 DEF Signal, Crash, Raise
    <2> QED BY <1>1, <2>1, <2>2, <2>3, <2>4, <2>5
<1> QED BY <1>2, <1>3, <1>4, <1>5, <1>6 DEF Next

\* Whatever it does, the client keeps the types.
THEOREM ClientTypeHolds == Spec => []ClientTypeOK
<1>1. TypeInv => ClientTypeOK
    BY DEF TypeInv
<1> QED BY <1>1, TypeInit, TypeStep, PTL DEF Spec

-----------------------------------------------------------------------------
\* A client that waits gets an answer, loses the call or is stopped by a signal: in
\* every case no request is left that it has forgotten.
LEMMA AskedStep == TypeInv /\ AskedInv /\ [Next]_vars => AskedInv'
<1> SUFFICES ASSUME TypeInv, AskedInv, [Next]_vars PROVE AskedInv'
    OBVIOUS
<1> USE DEF AskedInv, Waiting
<1>0. CASE UNCHANGED vars
    BY <1>0 DEF vars, remoteVars
<1>1. CASE PerformTransfer
    <2>1. CASE \E t \in Transfers : Begin(t)
        BY <2>1 DEF Begin, remoteVars
    <2>2. CASE TestReceiver \/ TestSender \/ GetPort \/ ReadLog
        BY <2>2 DEF TestReceiver, TestSender, GetPort, ReadLog, remoteVars
    <2>3. ASSUME NEW p \in Parties, Ask(p) PROVE AskedInv'
        BY <2>3 DEF Ask, Asking, Parties
    <2>4. ASSUME NEW p \in Parties, Answered(p) PROVE AskedInv'
        BY <2>4 DEF Answered, Parties, remoteVars
    <2>5. ASSUME NEW p \in Parties, Refused(p) PROVE AskedInv'
        BY <2>5 DEF Refused, Parties
    <2>6. ASSUME NEW p \in Parties, Lost(p) PROVE AskedInv'
        BY <2>6 DEF Lost, Parties
    <2> QED BY <1>1, <2>1, <2>2, <2>3, <2>4, <2>5, <2>6 DEF PerformTransfer
<1>2. CASE PerformCleanup
    BY <1>2 DEF PerformCleanup, EnterCleanup, SendCleanup, Pop, remoteVars
<1>3. CASE Main
    BY <1>3 DEF Main, Done, Caught, SetStatus, Leave, MakeReport, Exit, Finish, remoteVars
<1>4. CASE Daemons
    BY <1>4 DEF Daemons, Serve
<1>5. CASE Signal
    <2>1. asked' = asked /\ transfer' = transfer /\ lost \subseteq lost'
        BY <1>5 DEF Signal
    <2>2. ASSUME NEW p \in Parties, pc = Waiting(p)
          PROVE  \A a \in asked : a[1] = transfer => a \in lost'
        BY <1>5, <2>2 DEF Signal
    <2> QED BY <2>1, <2>2
<1> QED BY <1>0, <1>1, <1>2, <1>3, <1>4, <1>5 DEF Next

-----------------------------------------------------------------------------
\* A step that does nothing to a transfer but serve its requests leaves it as it was.
Same(t) ==
    /\ toCleanup'[t] = toCleanup[t] /\ attempts'[t] = attempts[t] /\ copied'[t] = copied[t]
    /\ \A p \in Parties : <<t, p>> \in asked' \cup live' => <<t, p>> \in asked \cup live

LEMMA SameKeeps ==
    ASSUME NEW t \in Transfers, Same(t)
    PROVE  /\ Untouched(t) => Untouched(t)'
           /\ Registered(t) => Registered(t)'
           /\ Cleaned(t) => Cleaned(t)'
           /\ Settled(t) => Settled(t)'
           /\ Idle(t) => Idle(t)'
           /\ Sending(t) /\ remaining' = remaining => Sending(t)'
           /\ Popping(t) /\ remaining' = remaining => Popping(t)'
BY DEF Same, Untouched, Registered, Cleaned, Settled, Idle, Sending, Popping

\* Where the cleanup requests and the live processes stay, so does what is to be sent.
LEMMA LiveKept ==
    ASSUME LiveInv, live' \subseteq live, lost \subseteq lost', attempts' = attempts
    PROVE  LiveInv'
BY DEF LiveInv, Attempted

\* A step that moves neither the client nor anything of a transfer keeps its stage.
LEMMA StageKept ==
    ASSUME NEW t \in Transfers, Same(t), Stage(t),
           UNCHANGED <<pc, transfer, todo, remaining>>
    PROVE  Stage(t)'
<1>1. AtHand(t)' = AtHand(t)
    BY DEF AtHand
<1> QED BY <1>1, SameKeeps DEF Stage, HandInv, RestInv, Same, Testing, Starting, Sends, Pops,
                              Handling, LoopPoints, FinalPoints

\* performTransfer, up to its cleanup.
LEMMA StagePerform ==
    ASSUME TypeInv, StageInv, PerformTransfer PROVE StageInv'
<1> USE DEF TypeInv, ClientTypeOK, ListInv
<1>1. UNCHANGED <<live, attempts, remaining>> /\ lost \subseteq lost'
    BY DEF PerformTransfer, Begin, TestReceiver, TestSender, GetPort, ReadLog, Ask, Answered,
           Refused, Lost, remoteVars
<1>2. LiveInv'
    BY <1>1, LiveKept DEF StageInv
<1>3. pc' # "exited"
    BY DEF PerformTransfer, Begin, TestReceiver, TestSender, GetPort, ReadLog, Ask, Answered,
           Refused, Lost, Fails, Raise, Waiting, After, Parties
<1> SUFFICES ASSUME NEW t \in Transfers PROVE Stage(t)'
    BY <1>2, <1>3 DEF StageInv
<1>4. Stage(t)
    BY DEF StageInv
<1> USE DEF Stage, AtHand, HandInv, RestInv, Between, LoopPoints, FinalPoints, Testing,
            Starting, Sends, Pops, Handling
<1>5. ASSUME NEW u \in Transfers, Begin(u) PROVE Stage(t)'
    <2>1. Same(t)
        BY <1>5 DEF Begin, Same, remoteVars
    <2>2. t = u => Untouched(t)
        BY <1>4, <1>5 DEF Begin
    <2> QED BY <1>4, <1>5, <2>1, <2>2, SameKeeps DEF Begin, Settled
<1>6. CASE TestReceiver \/ GetPort
    <2>1. Same(t)
        BY <1>6 DEF TestReceiver, GetPort, Same, remoteVars
    <2> QED BY <1>4, <1>6, <2>1, SameKeeps DEF TestReceiver, GetPort, Fails, Raise, Idle, Settled, Same
<1>7. CASE TestSender
    <2>1. CASE toCleanup' = [toCleanup EXCEPT ![transfer] = <<"receiver", "sender">>]
        <3>1. t # transfer => Same(t)
            BY <1>7, <2>1 DEF TestSender, Same, remoteVars
        <3>2. t = transfer => (Registered(t) /\ copied[t] = "no")'
            BY <1>4, <1>7, <2>1 DEF TestSender, Untouched, Registered, Listed, remoteVars
        <3> QED BY <1>4, <1>7, <3>1, <3>2, SameKeeps DEF TestSender, Fails, Raise, Idle
    <2>2. CASE UNCHANGED toCleanup /\ Fails
        <3>1. Same(t)
            BY <1>7, <2>2 DEF TestSender, Same, remoteVars
        <3> QED BY <1>4, <1>7, <2>2, <3>1, SameKeeps DEF TestSender, Fails, Raise, Idle, Settled
    <2> QED BY <1>7, <2>1, <2>2 DEF TestSender
<1>8. CASE ReadLog
    <2>1. t # transfer => Same(t)
        BY <1>8 DEF ReadLog, Same
    <2>2. t = transfer => Registered(t)'
        BY <1>4, <1>8 DEF ReadLog, Registered
    <2>3. t = transfer /\ copied' = copied => copied'[t] = "no"
        BY <1>4, <1>8 DEF ReadLog
    <2> QED BY <1>4, <1>8, <2>1, <2>2, <2>3, SameKeeps DEF ReadLog, Fails, Raise, Idle
<1>9. ASSUME NEW p \in Parties, Ask(p) \/ Answered(p) \/ Refused(p) \/ Lost(p)
      PROVE  Stage(t)'
    <2>1. t # transfer => Same(t)
        BY <1>9 DEF Ask, Answered, Refused, Lost, Same, remoteVars
    <2>2. pc \in Starting /\ (pc' \in Starting \/ pc' = "caught")
        BY <1>9 DEF Ask, Answered, Refused, Lost, Fails, Raise, Asking, Waiting, After, Parties
    <2>3. UNCHANGED <<transfer, todo, toCleanup, attempts, copied>>
        BY <1>9 DEF Ask, Answered, Refused, Lost, remoteVars
    <2> QED BY <1>4, <2>1, <2>2, <2>3, SameKeeps DEF Registered, Idle
<1> QED BY <1>5, <1>6, <1>7, <1>8, <1>9 DEF PerformTransfer

\* performCleanup: the list is reversed, and what is sent and what is popped keep pace.
LEMMA StageCleanup ==
    ASSUME TypeInv, StageInv, PerformCleanup PROVE StageInv'
<1> USE DEF TypeInv, ClientTypeOK, ListInv
<1>1. pc \notin Between /\ transfer \in Transfers
    BY DEF PerformCleanup, EnterCleanup, SendCleanup, Pop, Between
<1>2. \A t \in Transfers : Stage(t)
    BY DEF StageInv
<1>3. pc' # "exited" /\ UNCHANGED <<transfer, todo, copied, asked, lost>>
    BY DEF PerformCleanup, EnterCleanup, SendCleanup, Pop, Step, InFinal, remoteVars
<1>4. pc \in LoopPoints <=> pc' \in LoopPoints
    BY DEF PerformCleanup, EnterCleanup, SendCleanup, Pop, Step, InFinal, LoopPoints, Testing,
           Starting, Handling
<1>5. pc' \in Sends \cup Pops \cup {"done", "report"}
    BY DEF PerformCleanup, EnterCleanup, SendCleanup, Pop, Step, InFinal, Sends, Pops
<1>6. ASSUME NEW t \in Transfers, t # transfer PROVE Stage(t)'
    <2>1. Same(t)
        BY <1>6 DEF PerformCleanup, EnterCleanup, SendCleanup, Pop, Same, remoteVars
    <2>2. ~ AtHand(t) /\ ~ AtHand(t)'
        BY <1>3, <1>6 DEF AtHand
    <2>3. pc \in FinalPoints <=> pc' \in FinalPoints
        BY <1>1, <1>4, <1>5 DEF LoopPoints, FinalPoints, Testing, Starting, Handling, Sends,
                                Pops, Between
    <2> QED BY <1>2, <1>3, <1>4, <2>1, <2>2, <2>3, SameKeeps DEF Stage, RestInv
<1>7. Stage(transfer) /\ AtHand(transfer) /\ HandInv(transfer)
    BY <1>1, <1>2 DEF Stage, AtHand
<1>8. HandInv(transfer)' /\ LiveInv'
    <2> USE DEF Sends, Pops, Testing, Starting, Handling
    <2>1. CASE EnterCleanup
        <3>1. LiveInv'
            BY <2>1, LiveKept DEF EnterCleanup, StageInv, remoteVars
        <3>2. CASE toCleanup[transfer] = <<>>
            <4>1. Same(transfer)
                BY <2>1, <3>2 DEF EnterCleanup, Same, remoteVars
            <4>2. Settled(transfer)
                BY <1>7, <2>1, <3>2, ListFacts DEF EnterCleanup, HandInv, Idle, Registered
            <4>3. pc' \in {"done", "report"}
                BY <2>1, <3>2 DEF EnterCleanup, Step
            <4>4. Settled(transfer)'
                BY <1>3, <4>1, <4>2, <1>1, SameKeeps DEF Settled, Untouched, Cleaned, Same
            <4> QED BY <3>1, <4>3, <4>4 DEF HandInv
        <3>3. CASE toCleanup[transfer] # <<>>
            <4>1. Registered(transfer)
                BY <1>7, <2>1, <3>3 DEF EnterCleanup, HandInv, Idle, Settled, Untouched, Cleaned
            <4>2. toCleanup'[transfer] = Reversed /\ remaining' = Reversed
                BY <1>1, <2>1, <3>3, <4>1, ListFacts DEF EnterCleanup, Registered
            <4>3. attempts'[transfer] = <<>> /\ pc' \in Sends
                BY <2>1, <3>3, <4>1 DEF EnterCleanup, Registered, remoteVars, Step
            <4> QED BY <1>3, <3>1, <4>2, <4>3 DEF HandInv, Sending
        <3> QED BY <3>2, <3>3
    <2>2. CASE SendCleanup
        <3>1. Sending(transfer)
            BY <1>7, <2>2 DEF SendCleanup, HandInv
        <3>2. /\ attempts' = [attempts EXCEPT ![transfer] = Append(@, Head(remaining))]
              /\ live' = live \ {<<transfer, Head(remaining)>>}
              /\ remaining' = Tail(remaining) /\ UNCHANGED toCleanup /\ pc' \in Pops
            BY <2>2 DEF SendCleanup, Step
        <3>3. attempts'[transfer] = Append(attempts[transfer], Head(remaining))
            BY <1>1, <3>2
        <3>4. CASE attempts[transfer] = <<>> /\ toCleanup[transfer] = Reversed
                   /\ remaining = Reversed
            <4>1. attempts'[transfer] = Sender /\ Head(remaining) = "sender"
                BY <3>3, <3>4, ListFacts
            <4>2. Popping(transfer)'
                BY <1>3, <3>2, <3>4, <4>1, ListFacts DEF Popping
            <4>3. LiveInv'
                BY <1>3, <3>2, <4>1, ListFacts DEF StageInv, LiveInv, Attempted
            <4> QED BY <3>2, <4>2, <4>3 DEF HandInv
        <3>5. CASE attempts[transfer] = Sender /\ toCleanup[transfer] = Sender
                   /\ remaining = Receiver
            <4>1. attempts'[transfer] = Reversed /\ Head(remaining) = "receiver"
                BY <3>3, <3>5, ListFacts
            <4>2. Popping(transfer)'
                BY <1>3, <3>2, <3>5, <4>1, ListFacts DEF Popping
            <4>3. LiveInv'
                BY <1>3, <3>2, <3>5, <4>1, ListFacts DEF StageInv, LiveInv, Attempted, Parties
            <4> QED BY <3>2, <4>2, <4>3 DEF HandInv
        <3> QED BY <3>1, <3>4, <3>5 DEF Sending
    <2>3. CASE Pop
        <3>1. LiveInv'
            BY <2>3, LiveKept DEF Pop, StageInv, remoteVars
        <3>2. Popping(transfer)
            BY <1>7, <2>3 DEF Pop, HandInv
        <3>3. /\ toCleanup'[transfer] = Front(toCleanup[transfer])
              /\ UNCHANGED <<attempts, remaining>>
              /\ pc' \in (IF remaining = <<>> THEN {"done", "report"} ELSE Sends)
            BY <1>1, <2>3 DEF Pop, remoteVars, Step
        <3>4. CASE remaining = Receiver /\ toCleanup[transfer] = Reversed
                   /\ attempts[transfer] = Sender
            <4>1. Sending(transfer)'
                BY <1>3, <3>3, <3>4, ListFacts DEF Sending
            <4> QED BY <3>1, <3>3, <3>4, <4>1, ListFacts DEF HandInv
        <3>5. CASE remaining = <<>> /\ toCleanup[transfer] = Sender
                   /\ attempts[transfer] = Reversed
            <4>1. Settled(transfer)'
                BY <1>3, <3>3, <3>5, ListFacts DEF Settled, Cleaned
            <4> QED BY <3>1, <3>3, <3>5, <4>1 DEF HandInv
        <3> QED BY <3>2, <3>4, <3>5 DEF Popping
    <2> QED BY <2>1, <2>2, <2>3 DEF PerformCleanup
<1>9. Stage(transfer)'
    BY <1>3, <1>5, <1>7, <1>8 DEF Stage, AtHand, Between, Sends, Pops
<1> QED BY <1>3, <1>6, <1>8, <1>9 DEF StageInv

\* main(): a transfer that was done with is passed, by the loop and then by the cleanup.
LEMMA StageMain ==
    ASSUME TypeInv, StageInv, Undisturbed, Main PROVE StageInv'
<1> USE DEF TypeInv, ClientTypeOK, ListInv
<1>1. UNCHANGED <<toCleanup, remaining, attempts, copied, asked, live, lost>>
    BY DEF Main, Done, Caught, SetStatus, Leave, MakeReport, Exit, Finish, remoteVars
<1>2. LiveInv'
    BY <1>1, LiveKept DEF StageInv
<1>3. \A t \in Transfers : Same(t) /\ Stage(t)
    BY <1>1 DEF StageInv, Same
<1>4. (pc' = "exited" => todo' = {})
    BY DEF Main, Done, Caught, SetStatus, Leave, MakeReport, Exit, Finish, Crash, Undisturbed
<1> SUFFICES ASSUME NEW t \in Transfers PROVE Stage(t)'
    BY <1>2, <1>4 DEF StageInv
<1>5. Same(t) /\ Stage(t)
    BY <1>3
<1> USE DEF Stage, AtHand, HandInv, RestInv, Between, LoopPoints, FinalPoints, Testing,
            Starting, Sends, Pops, Handling, Same
<1>6. CASE Done
    BY <1>5, <1>6, SameKeeps DEF Done, Idle
<1>7. CASE Caught
    BY <1>5, <1>7, SameKeeps DEF Caught
<1>8. CASE SetStatus
    BY <1>5, <1>8, SameKeeps DEF SetStatus
<1>9. CASE Leave
    BY <1>5, <1>9, SameKeeps DEF Leave, Idle, Settled
<1>10. CASE MakeReport
    BY <1>5, <1>10, SameKeeps DEF MakeReport, Undisturbed
<1>11. CASE Exit
    BY <1>5, <1>11, SameKeeps DEF Exit, Crash
<1>12. ASSUME NEW u \in Transfers, Finish(u) PROVE Stage(t)'
    BY <1>5, <1>12, SameKeeps DEF Finish
<1> QED BY <1>6, <1>7, <1>8, <1>9, <1>10, <1>11, <1>12 DEF Main

\* A daemon that serves a request: of the transfer at hand, or of one that was lost.
LEMMA StageDaemons ==
    ASSUME TypeInv, AskedInv, StageInv, Daemons PROVE StageInv'
<1> USE DEF TypeInv, ClientTypeOK
<1> PICK u \in Transfers, p \in Parties : Serve(u, p)
    BY DEF Daemons
<1>1. UNCHANGED <<pc, transfer, todo, toCleanup, remaining, lost, attempts, copied>>
    BY DEF Serve
<1>2. <<u, p>> \in asked /\ asked' = asked \ {<<u, p>>} /\ live' = live \cup {<<u, p>>}
    BY DEF Serve
<1>3. ASSUME NEW t \in Transfers PROVE Stage(t)'
    <2>1. Same(t)
        BY <1>1, <1>2 DEF Same
    <2> QED BY <1>1, <2>1, StageKept DEF StageInv
<1>4. LiveInv'
    <2>1. <<u, p>> \in lost \/ p \notin Attempted(u)
        <3>1. CASE u = transfer /\ pc = Waiting(p)
            <4>1. Stage(u) /\ AtHand(u) /\ pc \in Starting
                BY <3>1 DEF StageInv, AtHand, Between, Starting, Waiting, Parties
            <4>2. attempts[u] = <<>>
                BY <4>1 DEF Stage, HandInv, Registered
            <4> QED BY <4>2, ListFacts DEF Attempted
        <3> QED BY <1>2, <3>1 DEF AskedInv
    <2>2. \A t \in Transfers : Attempted(t)' = Attempted(t)
        BY <1>1 DEF Attempted
    <2> QED BY <1>1, <1>2, <2>1, <2>2 DEF StageInv, LiveInv
<1> QED BY <1>1, <1>3, <1>4 DEF StageInv

\* Until a signal comes, every step of the client and of the daemons keeps the stages.
LEMMA CleanupInit == Init => CleanupInv
<1> SUFFICES ASSUME Init PROVE StageInv
    BY DEF CleanupInv
<1> QED BY DEF Init, StageInv, Stage, AtHand, RestInv, Between, LoopPoints, FinalPoints,
               Untouched, LiveInv

LEMMA CleanupStep == TypeInv /\ AskedInv /\ CleanupInv /\ [Next]_vars => CleanupInv'
<1> SUFFICES ASSUME TypeInv, AskedInv, CleanupInv, [Next]_vars, Undisturbed'
             PROVE  StageInv'
    BY DEF CleanupInv
<1>1. signals' = signals \/ Signal
    BY DEF Next, vars, PerformTransfer, Begin, TestReceiver, TestSender, GetPort, ReadLog, Ask,
           Answered, Refused, Lost, PerformCleanup, EnterCleanup, SendCleanup, Pop, Main, Done,
           Caught, SetStatus, Leave, MakeReport, Exit, Finish, Daemons, Serve
<1>2. signals' = signals /\ ~ Signal /\ report' = report
    BY <1>1 DEF Undisturbed, Signal, Next, options, vars, TypeInv, ClientTypeOK
<1>3. Undisturbed /\ StageInv
    BY <1>2 DEF Undisturbed, CleanupInv
<1>4. CASE UNCHANGED vars
    <2>1. UNCHANGED <<pc, transfer, todo, remaining, toCleanup, attempts, copied, asked, live,
                      lost>>
        BY <1>4 DEF vars, remoteVars
    <2>2. \A t \in Transfers : Same(t)
        BY <2>1 DEF Same
    <2> QED BY <1>3, <2>1, <2>2, StageKept, LiveKept DEF StageInv
<1> QED BY <1>2, <1>3, <1>4, StagePerform, StageCleanup, StageMain, StageDaemons DEF Next

LEMMA CleanupHolds == Spec => [](TypeInv /\ AskedInv /\ CleanupInv)
<1>1. Init => AskedInv
    BY DEF Init, AskedInv
<1> QED BY <1>1, TypeInit, TypeStep, AskedStep, CleanupInit, CleanupStep, PTL DEF Spec

\* Nothing an undisturbed client started is left without a cleanup request, except what
\* was started after the client had lost the call.
THEOREM NothingIsLeftRunning == Spec => []StartedIsCleanedUp
<1>1. TypeInv /\ CleanupInv => StartedIsCleanedUp
    <2> SUFFICES ASSUME TypeInv, StageInv, pc = "exited" PROVE live \subseteq lost
        BY DEF CleanupInv, StartedIsCleanedUp
    <2> SUFFICES ASSUME NEW t \in Transfers, NEW p \in Parties, <<t, p>> \in live
                 PROVE  <<t, p>> \in lost
        BY DEF TypeInv, ClientTypeOK
    <2>1. Settled(t)
        BY DEF StageInv, Stage, AtHand, Between, RestInv, FinalPoints
    <2>2. Cleaned(t)
        BY <2>1 DEF Settled, Untouched
    <2>3. Attempted(t) = Parties
        BY <2>2, ListFacts DEF Cleaned, Attempted
    <2> QED BY <2>3 DEF StageInv, LiveInv
<1> QED BY <1>1, CleanupHolds, PTL

\* Registered once, a transfer stays on the list until its first request is sent.
Listing(t) == Undisturbed => toCleanup[t] # <<>> \/ attempts[t] # <<>>

LEMMA ListingStep ==
    ASSUME NEW t \in Transfers, TypeInv, CleanupInv, Listing(t), [Next]_vars
    PROVE  Listing(t)'
<1> SUFFICES ASSUME Undisturbed' PROVE (toCleanup[t] # <<>> \/ attempts[t] # <<>>)'
    BY DEF Listing
<1> USE DEF TypeInv, ClientTypeOK, ListInv
<1>1. signals' = signals \/ Signal
    BY DEF Next, vars, PerformTransfer, Begin, TestReceiver, TestSender, GetPort, ReadLog, Ask,
           Answered, Refused, Lost, PerformCleanup, EnterCleanup, SendCleanup, Pop, Main, Done,
           Caught, SetStatus, Leave, MakeReport, Exit, Finish, Daemons, Serve
<1>2. Undisturbed /\ StageInv /\ (toCleanup[t] # <<>> \/ attempts[t] # <<>>)
    BY <1>1 DEF Undisturbed, CleanupInv, Listing, Signal, Next, options, vars
<1>3. CASE UNCHANGED <<toCleanup, attempts>>
    BY <1>2, <1>3
<1>4. CASE TestSender
    <2>1. /\ attempts' = attempts
          /\ \/ toCleanup' = [toCleanup EXCEPT ![transfer] = Listed]
             \/ toCleanup' = toCleanup
        BY <1>4 DEF TestSender, remoteVars, Listed
    <2> QED BY <1>2, <2>1, ListFacts
<1>5. CASE EnterCleanup
    <2>1. toCleanup[transfer] # <<>> => Reverse(toCleanup[transfer]) # <<>>
        BY <1>5, ListOfParties DEF EnterCleanup, Between
    <2> QED BY <1>2, <1>5, <2>1 DEF EnterCleanup, remoteVars
<1>6. CASE SendCleanup
    <2>1. /\ transfer \in Transfers /\ remaining \in Seq(Parties) /\ remaining # <<>>
          /\ attempts[transfer] \in Seq(Parties)
        BY <1>6 DEF SendCleanup, Between, Sends
    <2>2. Head(remaining) \in Parties
        BY <2>1, ListOfParties
    <2>3. Append(attempts[transfer], Head(remaining)) # <<>>
        BY <2>1, <2>2, ListOfParties
    <2> QED BY <1>2, <1>6, <2>3 DEF SendCleanup
<1>7. CASE Pop
    <2>1. Popping(transfer)
        BY <1>2, <1>7 DEF Pop, StageInv, Stage, AtHand, HandInv, Pops, Between
    <2>2. attempts[transfer] # <<>>
        BY <2>1, ListFacts DEF Popping
    <2>3. t # transfer => toCleanup'[t] = toCleanup[t]
        BY <1>7 DEF Pop
    <2> QED BY <1>2, <1>7, <2>2, <2>3 DEF Pop, remoteVars
<1> QED BY <1>3, <1>4, <1>5, <1>6, <1>7
        DEF Next, vars, remoteVars, PerformTransfer, Begin, TestReceiver, GetPort, ReadLog, Ask,
            Answered, Refused, Lost, PerformCleanup, Main, Done, Caught, SetStatus, Leave,
            MakeReport, Exit, Finish, Daemons, Serve, Signal

\* Once its parties are registered, each of them is sent its cleanup request before an
\* undisturbed client exits, whatever failed in between: the sender first, and none is
\* sent another.
THEOREM CleanupIsOnceAndInOrder == Spec => CleanedOnceSenderFirst
<1> SUFFICES ASSUME NEW t \in Transfers
             PROVE  Spec => [](toCleanup[t] # <<>> =>
                        [](Undisturbed /\ pc = "exited" => attempts[t] = <<"sender", "receiver">>))
    BY DEF CleanedOnceSenderFirst
<1> DEFINE On   == toCleanup[t] # <<>>
           Sent == Undisturbed /\ pc = "exited" => attempts[t] = <<"sender", "receiver">>
<1>1. On => Listing(t)
    BY DEF Listing
<1>2. TypeInv /\ CleanupInv /\ Listing(t) /\ [Next]_vars => Listing(t)'
    BY ListingStep
<1>3. CleanupInv /\ Listing(t) => Sent
    <2> SUFFICES ASSUME StageInv, pc = "exited", toCleanup[t] # <<>> \/ attempts[t] # <<>>
                 PROVE  attempts[t] = Reversed
        BY DEF CleanupInv, Listing, Reversed
    <2>1. Settled(t)
        BY DEF StageInv, Stage, AtHand, Between, RestInv, FinalPoints
    <2> QED BY <2>1 DEF Settled, Untouched, Cleaned
<1>4. Spec => [](On => []Sent)
    <2> HIDE DEF On, Sent
    <2> QED BY <1>1, <1>2, <1>3, CleanupHolds, PTL DEF Spec
<1> QED BY <1>4

-----------------------------------------------------------------------------
\* The exit status: no failure is passed over.
LEMMA StatusInit == Init => StatusInv
<1> SUFFICES ASSUME Init PROVE PerformedInv
    BY DEF StatusInv
<1> QED BY DEF Init, PerformedInv, AtHand, Between, Handling, LoopPoints, FinalPoints

LEMMA StatusStep == TypeInv /\ StatusInv /\ [Next]_vars => StatusInv'
<1> SUFFICES ASSUME TypeInv, StatusInv, [Next]_vars, signals' = 0
             PROVE  PerformedInv'
    BY DEF StatusInv
<1> USE DEF TypeInv, ClientTypeOK, ListInv, Errors, Other
<1>1. signals' = signals \/ Signal
    BY DEF Next, vars, PerformTransfer, Begin, TestReceiver, TestSender, GetPort, ReadLog, Ask,
           Answered, Refused, Lost, PerformCleanup, EnterCleanup, SendCleanup, Pop, Main, Done,
           Caught, SetStatus, Leave, MakeReport, Exit, Finish, Daemons, Serve
<1>2. PerformedInv /\ ~ Signal
    BY <1>1 DEF StatusInv, Signal
<1> HIDE DEF StatusInv
<1> USE <1>2 DEF PerformedInv, AtHand, Performed, Shows, Between, Handling, LoopPoints,
                 FinalPoints, Testing, Starting
<1>3. CASE UNCHANGED vars
    BY <1>3 DEF vars, options, statusVars, remoteVars
<1> SUFFICES ASSUME Next PROVE PerformedInv'
    BY <1>3
<1>4. loggingRaises' = loggingRaises
    BY DEF Next, options
<1>5. CASE PerformTransfer
    <2>1. ASSUME NEW u \in Transfers, Begin(u) PROVE PerformedInv'
        BY <1>4, <2>1 DEF Begin, statusVars, remoteVars
    <2>2. CASE TestReceiver \/ TestSender \/ GetPort
        BY <1>4, <2>2 DEF TestReceiver, TestSender, GetPort, Fails, Raise, statusVars, remoteVars
    <2>3. CASE ReadLog
        BY <1>4, <2>3 DEF ReadLog, Fails, Raise, statusVars
    <2>4. ASSUME NEW p \in Parties, Ask(p) \/ Answered(p) \/ Refused(p) \/ Lost(p)
          PROVE  PerformedInv'
        BY <1>4, <2>4 DEF Ask, Answered, Refused, Lost, Fails, Raise, Asking, Waiting, After,
                          Parties, statusVars, remoteVars
    <2> QED BY <1>5, <2>1, <2>2, <2>3, <2>4 DEF PerformTransfer
<1>6. CASE PerformCleanup
    BY <1>4, <1>6 DEF PerformCleanup, EnterCleanup, SendCleanup, Pop, Step, InFinal, statusVars,
                      remoteVars
<1>7. CASE Main
    <2>1. CASE Done
        BY <1>4, <2>1 DEF Done, remoteVars
    <2>2. CASE Caught
        BY <1>4, <2>2 DEF Caught, remoteVars
    <2>3. CASE SetStatus
        BY <1>4, <2>3 DEF SetStatus, Keyboard, remoteVars
    <2>4. CASE Leave
        BY <1>4, <2>4 DEF Leave, statusVars, remoteVars
    <2>5. CASE MakeReport
        BY <1>4, <2>5 DEF MakeReport, Crash, statusVars, remoteVars
    <2>6. CASE Exit
        BY <1>4, <2>6 DEF Exit, Crash, remoteVars
    <2>7. ASSUME NEW u \in Transfers, Finish(u) PROVE PerformedInv'
        BY <1>4, <2>7 DEF Finish, statusVars, remoteVars
    <2> QED BY <1>7, <2>1, <2>2, <2>3, <2>4, <2>5, <2>6, <2>7 DEF Main
<1>8. CASE Daemons
    BY <1>4, <1>8 DEF Daemons, Serve, statusVars
<1> QED BY <1>2, <1>5, <1>6, <1>7, <1>8 DEF Next

\* The shell may trust a status of 0, unless a signal came.
THEOREM ZeroMeansPerformed == Spec => []ExitZeroMeansPerformed
<1>1. StatusInv => ExitZeroMeansPerformed
    BY DEF StatusInv, PerformedInv, Performed, ExitZeroMeansPerformed
<1> QED BY <1>1, TypeInit, TypeStep, StatusInit, StatusStep, PTL DEF Spec
=============================================================================
