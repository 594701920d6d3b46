-------------------------- MODULE TransferLogProofs --------------------------
(***************************************************************************)
(* What holds of the log of a transfer for any number of requests and      *)
(* messages.                                                               *)
(***************************************************************************)
EXTENDS TransferLog, SequenceTheorems, FiniteSetTheorems, TLAPS

-----------------------------------------------------------------------------
\* Every request that runs has a logger with a handler.
HasLogger ==
    /\ \A t \in Requests : pc[t] # "new" => use[t] \in Requests /\ Len(handlers[use[t]]) > 0
    /\ registered # NoOne =>
          registered \in Requests /\ pc[registered] # "new" /\ use[registered] = registered
    /\ registered = NoOne => \A t \in Requests : pc[t] # "new" => use[t] = t

\* Only a request that has something to write is writing: own is one of the handlers.
OwnIsHandler ==
    \A t \in Requests :
        /\ Writing(t) => own[t] <= Len(handlers[use[t]])
        /\ pc[t] \in {"closing", "close", "clear", "end"} => t \in Cleanups

LogIInv == LogTypeOK /\ HasLogger /\ OwnIsHandler

LEMMA HandlersSet ==
    ASSUME NEW h \in Seq(BOOLEAN), NEW i \in 1 .. Len(h), NEW b \in BOOLEAN
    PROVE  [h EXCEPT ![i] = b] \in Seq(BOOLEAN) /\ Len([h EXCEPT ![i] = b]) = Len(h)
  BY ExceptSeq

\* What Begin leaves behind.
LEMMA BeginType ==
    ASSUME LogIInv, NEW t \in Requests, NEW next \in {"log", "closing"}, pc[t] = "idle",
           Begin(t, next), UNCHANGED <<registered, use>>
    PROVE  /\ sent' \in [Requests -> Nat] /\ own' \in [Requests -> Nat]
           /\ left' \in [Requests -> 1 .. 3] /\ at' \in [Requests -> Nat \ {0}]
           /\ handlers' \in [Requests -> Seq(BOOLEAN)]
           /\ pc' = [pc EXCEPT ![t] = next]
           /\ early' \subseteq Requests \X Nat
           /\ \A l \in Requests : Len(handlers[l]) <= Len(handlers'[l])
           /\ own'[t] <= Len(handlers'[use[t]])
           /\ \A u \in Requests \ {t} : own'[u] = own[u]
  <1> DEFINE l == use[t]
             h == handlers[l]
  <1>1. l \in Requests /\ h \in Seq(BOOLEAN) /\ Len(h) \in Nat
    BY DEF LogIInv, LogTypeOK, HasLogger
  <1>2. Append(h, TRUE) \in Seq(BOOLEAN) /\ Len(Append(h, TRUE)) = Len(h) + 1
    BY <1>1, AppendProperties
  <1>3. \A k \in Requests : Len(handlers[k]) \in Nat
    BY DEF LogIInv, LogTypeOK
  <1>0. /\ sent' \in [Requests -> Nat] /\ at' \in [Requests -> Nat \ {0}]
        /\ pc' = [pc EXCEPT ![t] = next]
        /\ early' \subseteq Requests \X Nat
    BY DEF Begin, LogIInv, LogTypeOK
  <1>4. CASE flag[l]
    <2>1. handlers' = handlers /\ own' = [own EXCEPT ![t] = 0] /\ left' = [left EXCEPT ![t] = 1]
      BY <1>4 DEF Begin
    <2>2. own' \in [Requests -> Nat] /\ left' \in [Requests -> 1 .. 3] /\ own'[t] = 0
      BY <2>1 DEF LogIInv, LogTypeOK
    <2>3. \A u \in Requests \ {t} : own'[u] = own[u]
      BY <2>1 DEF LogIInv, LogTypeOK
    <2>4. /\ handlers' \in [Requests -> Seq(BOOLEAN)]
          /\ \A k \in Requests : Len(handlers[k]) <= Len(handlers'[k])
      BY <1>3, <2>1 DEF LogIInv, LogTypeOK
    <2>5. own'[t] <= Len(handlers'[use[t]])
      BY <1>1, <2>1, <2>2
    <2>. QED
      BY <1>0, <2>2, <2>3, <2>4, <2>5
  <1>5. CASE ~ flag[l]
    <2>1. /\ handlers' = [handlers EXCEPT ![l] = Append(h, TRUE)]
          /\ own' = [own EXCEPT ![t] = Len(h) + 1] /\ left' = [left EXCEPT ![t] = 3]
      BY <1>5 DEF Begin
    <2>2. handlers' \in [Requests -> Seq(BOOLEAN)]
      BY <1>1, <1>2, <2>1 DEF LogIInv, LogTypeOK
    <2>3. \A k \in Requests : Len(handlers[k]) <= Len(handlers'[k])
      BY <1>1, <1>2, <1>3, <2>1 DEF LogIInv, LogTypeOK
    <2>4. own'[t] <= Len(handlers'[use[t]])
      BY <1>1, <1>2, <2>1 DEF LogIInv, LogTypeOK
    <2>5. own' \in [Requests -> Nat] /\ left' \in [Requests -> 1 .. 3]
      BY <1>1, <2>1 DEF LogIInv, LogTypeOK
    <2>6. \A u \in Requests \ {t} : own'[u] = own[u]
      BY <2>1 DEF LogIInv, LogTypeOK
    <2>. QED
      BY <1>0, <2>2, <2>3, <2>4, <2>5, <2>6
  <1>. QED
    BY <1>4, <1>5

\* The calls that log and that close begin alike.
LEMMA BeginInv ==
    ASSUME LogIInv, NEW t \in Requests, NEW next \in {"log", "closing"}, pc[t] = "idle",
           next = "closing" => t \in Cleanups,
           Begin(t, next), UNCHANGED <<flag, registered, use, file, after>>
    PROVE  LogIInv'
  <1>1. /\ handlers' \in [Requests -> Seq(BOOLEAN)]
        /\ pc' = [pc EXCEPT ![t] = next]
        /\ \A k \in Requests : Len(handlers[k]) <= Len(handlers'[k])
        /\ own'[t] <= Len(handlers'[use[t]])
        /\ \A u \in Requests \ {t} : own'[u] = own[u]
    BY BeginType
  <1>2. LogTypeOK'
    <2>1. pc' \in [Requests -> {"new", "idle", "log", "closing", "close", "clear", "end"}]
      BY <1>1 DEF LogIInv, LogTypeOK
    <2>. QED
      BY <2>1, BeginType DEF LogIInv, LogTypeOK
  <1>3. \A u \in Requests : pc'[u] = IF u = t THEN next ELSE pc[u]
    BY <1>1 DEF LogIInv, LogTypeOK
  <1>4. \A k \in Requests : Len(handlers[k]) \in Nat /\ Len(handlers'[k]) \in Nat
    BY <1>1 DEF LogIInv, LogTypeOK
  <1>5. HasLogger'
    <2>1. \A u \in Requests : pc'[u] # "new" <=> pc[u] # "new"
      BY <1>3
    <2>2. \A u \in Requests : pc'[u] # "new" => use[u] \in Requests /\ Len(handlers'[use[u]]) > 0
      <3> SUFFICES ASSUME NEW u \in Requests, pc[u] # "new"
                   PROVE  use[u] \in Requests /\ Len(handlers'[use[u]]) > 0
        BY <2>1
      <3>1. use[u] \in Requests /\ Len(handlers[use[u]]) > 0
        BY DEF LogIInv, HasLogger
      <3>. QED
        BY <1>1, <1>4, <3>1
    <2>. QED
      BY <2>1, <2>2 DEF LogIInv, HasLogger
  <1>6. OwnIsHandler'
    <2> SUFFICES ASSUME NEW u \in Requests
                 PROVE  /\ Writing(u)' => own'[u] <= Len(handlers'[use[u]])
                        /\ pc'[u] \in {"closing", "close", "clear", "end"} => u \in Cleanups
      BY DEF OwnIsHandler
    <2>1. CASE u = t
      BY <1>1, <1>3, <2>1
    <2>2. CASE u # t
      <3>1. Writing(u)' => Writing(u) /\ use[u] \in Requests /\ own[u] <= Len(handlers[use[u]])
        BY <1>3, <2>2 DEF LogIInv, HasLogger, OwnIsHandler, Writing
      <3>2. own[u] \in Nat /\ own'[u] = own[u]
        BY <1>1, <2>2 DEF LogIInv, LogTypeOK
      <3>3. Writing(u)' => own'[u] <= Len(handlers'[use[u]])
        BY <1>1, <1>4, <3>1, <3>2
      <3>4. pc'[u] \in {"closing", "close", "clear", "end"} => u \in Cleanups
        BY <1>3, <2>2 DEF LogIInv, OwnIsHandler
      <3>. QED
        BY <3>3, <3>4
    <2>. QED
      BY <2>1, <2>2
  <1>. QED
    BY <1>2, <1>5, <1>6 DEF LogIInv

\* Actions that set one handler and keep the rest of the list.
LEMMA SetHandler ==
    ASSUME LogTypeOK, NEW l \in Requests, NEW i \in 1 .. Len(handlers[l]), NEW b \in BOOLEAN,
           handlers' = [handlers EXCEPT ![l] = [@ EXCEPT ![i] = b]]
    PROVE  /\ handlers' \in [Requests -> Seq(BOOLEAN)]
           /\ \A k \in Requests : Len(handlers'[k]) = Len(handlers[k])
  <1>1. handlers[l] \in Seq(BOOLEAN)
    BY DEF LogTypeOK
  <1>2. /\ [handlers[l] EXCEPT ![i] = b] \in Seq(BOOLEAN)
        /\ Len([handlers[l] EXCEPT ![i] = b]) = Len(handlers[l])
    BY <1>1, HandlersSet
  <1>. QED
    BY <1>2 DEF LogTypeOK

\* Actions of one request that change no list's length.
LEMMA KeepLists ==
    ASSUME LogIInv, NEW t \in Requests, UNCHANGED <<registered, use, own>>,
           \A k \in Requests : Len(handlers'[k]) = Len(handlers[k]),
           NEW p, pc' = [pc EXCEPT ![t] = p], p # "new", pc[t] # "new",
           p \in {"log", "closing"} => Writing(t),
           p \in {"closing", "close", "clear", "end"} => t \in Cleanups
    PROVE  HasLogger' /\ OwnIsHandler'
  <1>1. \A u \in Requests : pc'[u] = IF u = t THEN p ELSE pc[u]
    BY DEF LogIInv, LogTypeOK
  <1>2. HasLogger'
    <2>1. \A u \in Requests : pc'[u] # "new" <=> pc[u] # "new"
      BY <1>1
    <2>. QED
      BY <2>1 DEF LogIInv, HasLogger
  <1>3. OwnIsHandler'
    <2> SUFFICES ASSUME NEW u \in Requests
                 PROVE  /\ Writing(u)' => own'[u] <= Len(handlers'[use'[u]])
                        /\ pc'[u] \in {"closing", "close", "clear", "end"} => u \in Cleanups
      BY DEF OwnIsHandler
    <2>1. Writing(u)' => Writing(u)
      BY <1>1 DEF Writing
    <2>2. Writing(u) => use[u] \in Requests
      BY DEF Writing, LogIInv, HasLogger
    <2>. QED
      BY <1>1, <2>1, <2>2 DEF LogIInv, OwnIsHandler
  <1>. QED
    BY <1>2, <1>3

-----------------------------------------------------------------------------
LEMMA LogIInvStep ==
    ASSUME LogIInv, [Next]_vars
    PROVE  LogIInv'
  <1>1. CASE UNCHANGED vars
    <2>1. UNCHANGED LogTypeOK /\ UNCHANGED HasLogger /\ UNCHANGED OwnIsHandler
      BY <1>1 DEF vars, LogTypeOK, HasLogger, OwnIsHandler, Writing
    <2>. QED
      BY <2>1 DEF LogIInv
  <1>2. ASSUME NEW t \in Requests, GetLogger(t)
        PROVE  LogIInv'
    <2>1. CASE registered # NoOne
      <3>1. /\ pc[t] = "new" /\ pc' = [pc EXCEPT ![t] = "idle"]
            /\ use' = [use EXCEPT ![t] = registered]
            /\ UNCHANGED <<flag, handlers, registered, sent, own, at, left, file, early, after>>
        BY <1>2, <2>1 DEF GetLogger
      <3>2. \A u \in Requests :
               /\ pc'[u] = IF u = t THEN "idle" ELSE pc[u]
               /\ use'[u] = IF u = t THEN registered ELSE use[u]
        BY <3>1 DEF LogIInv, LogTypeOK
      <3>3. registered \in Requests /\ pc[registered] # "new" /\ use[registered] = registered
        BY <2>1 DEF LogIInv, HasLogger
      <3>4. LogTypeOK'
        BY <3>1, <3>3 DEF LogIInv, LogTypeOK
      <3>5. HasLogger'
        BY <2>1, <3>1, <3>2, <3>3 DEF LogIInv, HasLogger
      <3>6. OwnIsHandler'
        BY <3>1, <3>2 DEF LogIInv, OwnIsHandler, Writing
      <3>. QED
        BY <3>4, <3>5, <3>6 DEF LogIInv
    <2>2. CASE registered = NoOne
      <3>1. /\ pc[t] = "new" /\ pc' = [pc EXCEPT ![t] = "idle"]
            /\ use' = [use EXCEPT ![t] = t]
            /\ flag' = [flag EXCEPT ![t] = TRUE]
            /\ handlers' = [handlers EXCEPT ![t] = <<TRUE>>]
            /\ UNCHANGED <<registered, sent, own, at, left, file, early, after>>
        BY <1>2, <2>2 DEF GetLogger
      <3>2. \A u \in Requests :
               /\ pc'[u] = IF u = t THEN "idle" ELSE pc[u]
               /\ use'[u] = IF u = t THEN t ELSE use[u]
               /\ handlers'[u] = IF u = t THEN <<TRUE>> ELSE handlers[u]
        BY <3>1 DEF LogIInv, LogTypeOK
      <3>3. <<TRUE>> \in Seq(BOOLEAN) /\ Len(<<TRUE>>) = 1
        OBVIOUS
      <3>4. LogTypeOK'
        BY <3>1, <3>3 DEF LogIInv, LogTypeOK
      <3>5. HasLogger'
        BY <2>2, <3>1, <3>2, <3>3 DEF LogIInv, HasLogger
      <3>6. OwnIsHandler'
        <4> SUFFICES ASSUME NEW u \in Requests
                     PROVE  /\ Writing(u)' => own[u] <= Len(handlers'[use'[u]])
                            /\ pc'[u] \in {"closing", "close", "clear", "end"} => u \in Cleanups
          BY <3>1 DEF OwnIsHandler
        <4>1. CASE u = t
          BY <3>2, <4>1 DEF Writing
        <4>2. CASE u # t
          <5>1. Writing(u)' => Writing(u) /\ use[u] = u
            BY <2>2, <3>2, <4>2 DEF LogIInv, HasLogger, Writing
          <5>. QED
            BY <3>2, <4>2, <5>1 DEF LogIInv, OwnIsHandler
        <4>. QED
          BY <4>1, <4>2
      <3>. QED
        BY <3>4, <3>5, <3>6 DEF LogIInv
    <2>. QED
      BY <2>1, <2>2
  <1>3. ASSUME NEW t \in Requests, Register(t)
        PROVE  LogIInv'
    <2>1. /\ t \in Starts /\ pc[t] = "idle" /\ registered = NoOne /\ registered' = t
          /\ UNCHANGED <<flag, handlers, use, pc, sent, own, at, left, file, early, after>>
      BY <1>3 DEF Register
    <2>2. LogTypeOK'
      BY <2>1 DEF LogIInv, LogTypeOK
    <2>3. HasLogger'
      <3>1. t # NoOne
        BY NoOneAssumption
      <3>. QED
        BY <2>1, <3>1 DEF LogIInv, HasLogger
    <2>4. OwnIsHandler'
      BY <2>1 DEF LogIInv, OwnIsHandler, Writing
    <2>. QED
      BY <2>2, <2>3, <2>4 DEF LogIInv
  <1>4. ASSUME NEW t \in Requests, Log(t)
        PROVE  LogIInv'
    BY <1>4, BeginInv DEF Log
  <1>5. ASSUME NEW t \in Requests, Close(t)
        PROVE  LogIInv'
    BY <1>5, BeginInv DEF Close
  <1>6. ASSUME NEW t \in Requests, Emit(t)
        PROVE  LogIInv'
    <2>1. /\ Writing(t) /\ use[t] \in Requests /\ at[t] \in 1 .. Len(handlers[use[t]])
          /\ pc[t] # "new"
      BY <1>6 DEF Emit, Writing, LogIInv, LogTypeOK, HasLogger
    <2>2. /\ handlers' \in [Requests -> Seq(BOOLEAN)]
          /\ \A k \in Requests : Len(handlers'[k]) = Len(handlers[k])
      BY <1>6, <2>1, SetHandler DEF Emit, LogIInv
    <2>3. LogTypeOK'
      <3>1. at' \in [Requests -> Nat \ {0}]
        BY <1>6 DEF Emit, LogIInv, LogTypeOK
      <3>2. file' \subseteq Requests \X Nat
        <4>1. <<t, sent[t]>> \in Requests \X Nat
          BY DEF LogIInv, LogTypeOK
        <4>. QED
          BY <1>6, <4>1 DEF Emit, LogIInv, LogTypeOK
      <3>. QED
        BY <1>6, <2>2, <3>1, <3>2 DEF Emit, LogIInv, LogTypeOK
    <2>4. pc' = [pc EXCEPT ![t] = pc[t]]
      BY <1>6 DEF Emit, LogIInv, LogTypeOK
    <2>5. HasLogger' /\ OwnIsHandler'
      BY <1>6, <2>1, <2>2, <2>4, KeepLists DEF Emit, LogIInv, OwnIsHandler
    <2>. QED
      BY <2>3, <2>5 DEF LogIInv
  <1>7. ASSUME NEW t \in Requests, NextRecord(t)
        PROVE  LogIInv'
    <2>1. /\ Writing(t) /\ pc[t] # "new"
          /\ left' = [left EXCEPT ![t] = @ - 1] /\ left[t] > 1 /\ at' = [at EXCEPT ![t] = 1]
          /\ UNCHANGED <<flag, handlers, registered, use, pc, sent, own, file, early, after>>
      BY <1>7 DEF NextRecord, Writing
    <2>2. LogTypeOK'
      <3>1. left[t] - 1 \in 1 .. 3
        BY <2>1 DEF LogIInv, LogTypeOK
      <3>2. left' \in [Requests -> 1 .. 3] /\ at' \in [Requests -> Nat \ {0}]
        BY <2>1, <3>1 DEF LogIInv, LogTypeOK
      <3>. QED
        BY <2>1, <3>2 DEF LogIInv, LogTypeOK
    <2>3. HasLogger' /\ OwnIsHandler'
      BY <2>1 DEF LogIInv, HasLogger, OwnIsHandler, Writing
    <2>. QED
      BY <2>2, <2>3 DEF LogIInv
  <1>8. ASSUME NEW t \in Requests, Return(t)
        PROVE  LogIInv'
    <2> DEFINE p == IF pc[t] = "log" THEN "idle" ELSE "close"
    <2>1. /\ Writing(t) /\ use[t] \in Requests /\ pc[t] # "new" /\ pc' = [pc EXCEPT ![t] = p]
          /\ after' = [after EXCEPT ![use[t]] = IF FileClosed(use[t]) THEN @ + 1 ELSE @]
          /\ UNCHANGED <<flag, registered, use, sent, own, at, left, file, early>>
      BY <1>8 DEF Return, Returns, Writing, LogIInv, HasLogger
    <2>2. /\ handlers' \in [Requests -> Seq(BOOLEAN)]
          /\ \A k \in Requests : Len(handlers'[k]) = Len(handlers[k])
      <3>1. CASE own[t] = 0
        BY <1>8, <3>1 DEF Return, LogIInv, LogTypeOK
      <3>2. CASE own[t] # 0
        <4>1. own[t] \in 1 .. Len(handlers[use[t]])
          BY <2>1, <3>2 DEF LogIInv, LogTypeOK, OwnIsHandler
        <4>2. handlers' = [handlers EXCEPT ![use[t]] = [@ EXCEPT ![own[t]] = FALSE]]
          BY <1>8, <3>2 DEF Return
        <4>. QED
          BY <2>1, <4>1, <4>2, SetHandler DEF LogIInv
      <3>. QED
        BY <3>1, <3>2
    <2>3. LogTypeOK'
      <3>1. after' \in [Requests -> Nat]
        BY <2>1 DEF LogIInv, LogTypeOK
      <3>. QED
        BY <2>1, <2>2, <3>1 DEF LogIInv, LogTypeOK
    <2>4. p = "close" => t \in Cleanups
      BY <2>1 DEF LogIInv, OwnIsHandler, Writing
    <2>5. HasLogger' /\ OwnIsHandler'
      <3>1. p \in {"idle", "close"}
        OBVIOUS
      <3>. HIDE DEF p
      <3>. QED
        BY <2>1, <2>2, <2>4, <3>1, KeepLists
    <2>. QED
      BY <2>3, <2>5 DEF LogIInv
  <1>9. ASSUME NEW t \in Requests, CloseFile(t)
        PROVE  LogIInv'
    <2>1. /\ use[t] \in Requests /\ 1 \in 1 .. Len(handlers[use[t]]) /\ t \in Cleanups
          /\ pc[t] # "new"
      BY <1>9 DEF CloseFile, LogIInv, LogTypeOK, HasLogger, OwnIsHandler
    <2>2. /\ handlers' \in [Requests -> Seq(BOOLEAN)]
          /\ \A k \in Requests : Len(handlers'[k]) = Len(handlers[k])
      BY <1>9, <2>1, SetHandler DEF CloseFile, LogIInv
    <2>3. LogTypeOK'
      BY <1>9, <2>2 DEF CloseFile, LogIInv, LogTypeOK
    <2>4. HasLogger' /\ OwnIsHandler'
      BY <1>9, <2>1, <2>2, KeepLists DEF CloseFile
    <2>. QED
      BY <2>3, <2>4 DEF LogIInv
  <1>10. ASSUME NEW t \in Requests, ClearFlag(t)
         PROVE  LogIInv'
    <2>1. /\ use[t] \in Requests /\ t \in Cleanups /\ pc[t] # "new"
      BY <1>10 DEF ClearFlag, LogIInv, HasLogger, OwnIsHandler
    <2>2. LogTypeOK'
      BY <1>10 DEF ClearFlag, LogIInv, LogTypeOK
    <2>3. HasLogger' /\ OwnIsHandler'
      BY <1>10, <2>1, KeepLists DEF ClearFlag
    <2>. QED
      BY <2>2, <2>3 DEF LogIInv
  <1>. QED
    BY <1>1, <1>2, <1>3, <1>4, <1>5, <1>6, <1>7, <1>8, <1>9, <1>10 DEF Next, Step

LEMMA LogIInvInit == Init => LogIInv
  BY NoOneAssumption DEF Init, LogIInv, LogTypeOK, HasLogger, OwnIsHandler, Writing

\* The variables keep their types, and every handler a call uses is there (Logger.py:84-97).
THEOREM LogTypeHolds == Spec => []LogTypeOK
  <1>1. Spec => []LogIInv
    BY LogIInvInit, LogIInvStep, PTL DEF Spec
  <1>. QED
    BY <1>1, PTL DEF LogIInv

-----------------------------------------------------------------------------
\* What KeptUnlessClosed rests on: the flag is cleared by a close() that returns with
\* it, a message that found the flag set goes to the first handler at once, and what
\* was issued early found the flag set.
KeptInv ==
    /\ \A t \in Requests : pc[t] # "new" /\ ~ flag[use[t]] => CloseReturned(use[t])
    /\ \A t \in Requests : Writing(t) /\ own[t] = 0 => at[t] = 1 \/ <<t, sent[t]>> \in file
    /\ \A t \in Requests : \A n \in Nat : <<t, n>> \in early => n <= sent[t]
    /\ \A t \in Requests : Writing(t) /\ <<t, sent[t]>> \in early => own[t] = 0
    /\ KeptUnlessClosed

LEMMA KeptBegin ==
    ASSUME LogIInv, KeptInv, NEW t \in Requests, NEW next \in {"log", "closing"}, pc[t] = "idle",
           Begin(t, next), UNCHANGED <<flag, registered, use, file, after>>
    PROVE  KeptInv'
  <1> DEFINE l == use[t]
  <1>1. \A u \in Requests :
           /\ pc'[u] = IF u = t THEN next ELSE pc[u]
           /\ sent'[u] = IF u = t THEN sent[u] + 1 ELSE sent[u]
           /\ at'[u] = IF u = t THEN 1 ELSE at[u]
           /\ u # t => own'[u] = own[u]
    BY DEF Begin, LogIInv, LogTypeOK
  <1>2. flag[l] => own'[t] = 0
    BY DEF Begin, LogIInv, LogTypeOK
  <1>3. ~ CloseReturned(l) => flag[l]
    BY DEF KeptInv
  <1>4. early' = IF CloseReturned(l) THEN early ELSE early \cup {<<t, sent[t] + 1>>}
    BY <1>1 DEF Begin
  <1>5. \A u \in Requests : sent[u] \in Nat
    BY DEF LogIInv, LogTypeOK
  <1>6. \A u \in Requests : pc'[u] # "new" /\ ~ flag'[use'[u]] => CloseReturned(use[u])'
    <2> SUFFICES ASSUME NEW u \in Requests, pc'[u] # "new", ~ flag[use[u]]
                 PROVE  CloseReturned(use[u])'
      OBVIOUS
    <2>1. CloseReturned(use[u])
      BY <1>1 DEF KeptInv
    <2>2. PICK c \in Cleanups : use[c] = use[u] /\ pc[c] = "end"
      BY <2>1 DEF CloseReturned
    <2>3. pc'[c] = "end" /\ use'[c] = use'[u]
      BY <1>1, <2>2 DEF Requests
    <2>. QED
      BY <2>3 DEF CloseReturned
  <1>7. \A u \in Requests : Writing(u)' /\ own'[u] = 0 => at'[u] = 1 \/ <<u, sent'[u]>> \in file'
    BY <1>1 DEF KeptInv, Writing
  <1>8. \A u \in Requests : \A n \in Nat : <<u, n>> \in early' => n <= sent'[u]
    BY <1>1, <1>4, <1>5 DEF KeptInv
  <1>9. \A u \in Requests : Writing(u)' /\ <<u, sent'[u]>> \in early' => own'[u] = 0
    <2> SUFFICES ASSUME NEW u \in Requests, Writing(u)', <<u, sent'[u]>> \in early'
                 PROVE  own'[u] = 0
      OBVIOUS
    <2>1. CASE u = t
      <3>1. <<t, sent[t] + 1>> \notin early
        BY <1>5 DEF KeptInv
      <3>. QED
        BY <1>1, <1>2, <1>3, <1>4, <2>1, <3>1
    <2>2. CASE u # t
      BY <1>1, <1>4, <2>2 DEF KeptInv, Writing
    <2>. QED
      BY <2>1, <2>2
  <1>10. KeptUnlessClosed'
    <2> SUFFICES ASSUME NEW u \in Requests, NEW n \in 1 .. sent'[u], <<u, n>> \in early'
                 PROVE  <<u, n>> \in file \/ (Writing(u)' /\ n = sent'[u])
      BY DEF KeptUnlessClosed
    <2>1. CASE u = t /\ n = sent[t] + 1
      BY <1>1, <2>1 DEF Writing
    <2>2. CASE u = t /\ n # sent[t] + 1
      <3>1. n \in 1 .. sent[t] /\ <<t, n>> \in early /\ ~ Writing(t)
        BY <1>1, <1>4, <1>5, <2>2 DEF Writing
      <3>. QED
        BY <2>2, <3>1 DEF KeptInv, KeptUnlessClosed
    <2>3. CASE u # t
      <3>1. n \in 1 .. sent[u] /\ <<u, n>> \in early /\ (Writing(u) <=> Writing(u)') /\ sent'[u] = sent[u]
        BY <1>1, <1>4, <2>3 DEF Writing
      <3>. QED
        BY <3>1 DEF KeptInv, KeptUnlessClosed
    <2>. QED
      BY <2>1, <2>2, <2>3
  <1>. QED
    BY <1>6, <1>7, <1>8, <1>9, <1>10 DEF KeptInv

\* Steps that issue no message, and clear no flag whose close() has not returned.
LEMMA KeptSame ==
    ASSUME KeptInv, UNCHANGED <<sent, own, early>>, file \subseteq file',
           \A u \in Requests : pc'[u] # "new" /\ ~ flag'[use'[u]] => CloseReturned(use[u])',
           \A u \in Requests : Writing(u)' => Writing(u),
           \A u \in Requests : Writing(u)' /\ own[u] = 0 => at'[u] = 1 \/ <<u, sent[u]>> \in file',
           \A u \in Requests : Writing(u) /\ ~ Writing(u)' /\ own[u] = 0 => <<u, sent[u]>> \in file'
    PROVE  KeptInv'
  <1>1. KeptUnlessClosed'
    <2> SUFFICES ASSUME NEW u \in Requests, NEW n \in 1 .. sent[u], <<u, n>> \in early
                 PROVE  <<u, n>> \in file' \/ (Writing(u)' /\ n = sent[u])
      BY DEF KeptUnlessClosed
    <2>1. <<u, n>> \in file \/ (Writing(u) /\ n = sent[u])
      BY DEF KeptInv, KeptUnlessClosed
    <2>2. Writing(u) /\ n = sent[u] => own[u] = 0
      BY DEF KeptInv
    <2>. QED
      BY <2>1, <2>2
  <1>. QED
    BY <1>1 DEF KeptInv

\* A close() that has returned has returned for good.
LEMMA StillReturned ==
    ASSUME KeptInv, NEW u \in Requests, pc[u] # "new", ~ flag[use[u]], use'[u] = use[u],
           \A c \in Cleanups : pc[c] = "end" => pc'[c] = "end" /\ use'[c] = use[c]
    PROVE  CloseReturned(use[u])'
  <1>1. PICK c \in Cleanups : use[c] = use[u] /\ pc[c] = "end"
    BY DEF KeptInv, CloseReturned
  <1>2. pc'[c] = "end" /\ use'[c] = use'[u]
    BY <1>1
  <1>. QED
    BY <1>2 DEF CloseReturned

LEMMA KeptStep ==
    ASSUME LogIInv, KeptInv, [Next]_vars
    PROVE  KeptInv'
  <1> DEFINE Returned == \A u \in Requests : pc'[u] # "new" /\ ~ flag'[use'[u]] => CloseReturned(use[u])'
  <1>1. CASE UNCHANGED vars
    BY <1>1 DEF vars, KeptInv, KeptUnlessClosed, CloseReturned, Writing
  <1>2. ASSUME NEW t \in Requests, GetLogger(t)
        PROVE  KeptInv'
    <2>1. /\ pc[t] = "new" /\ UNCHANGED <<registered, sent, own, at, file, early>>
          /\ \A u \in Requests : pc'[u] = IF u = t THEN "idle" ELSE pc[u]
          /\ \A u \in Requests : u # t => use'[u] = use[u]
      BY <1>2 DEF GetLogger, LogIInv, LogTypeOK
    <2>2. \A c \in Cleanups : pc[c] = "end" => pc'[c] = "end" /\ use'[c] = use[c]
      BY <2>1 DEF Requests
    <2>3. \A u \in Requests : ~ flag'[u] => ~ flag[u]
      BY <1>2 DEF GetLogger, LogIInv, LogTypeOK
    <2>4. Returned
      <3> SUFFICES ASSUME NEW u \in Requests, pc'[u] # "new", ~ flag'[use'[u]]
                   PROVE  CloseReturned(use[u])'
        OBVIOUS
      <3>1. CASE u # t
        <4>1. pc[u] # "new" /\ use'[u] = use[u] /\ use[u] \in Requests
          BY <2>1, <3>1 DEF LogIInv, HasLogger
        <4>2. ~ flag[use[u]]
          BY <2>3, <4>1
        <4>. QED
          BY <2>2, <4>1, <4>2, StillReturned
      <3>2. CASE u = t /\ registered # NoOne
        <4>1. use'[t] = registered /\ UNCHANGED flag
          BY <1>2, <3>2 DEF GetLogger, LogIInv, LogTypeOK
        <4>2. registered \in Requests /\ pc[registered] # "new" /\ use[registered] = registered
          BY <3>2 DEF LogIInv, HasLogger
        <4>3. PICK c \in Cleanups : use[c] = registered /\ pc[c] = "end"
          BY <3>2, <4>1, <4>2 DEF KeptInv, CloseReturned
        <4>4. pc'[c] = "end" /\ use'[c] = use'[u]
          BY <2>2, <3>2, <4>1, <4>3
        <4>. QED
          BY <4>4 DEF CloseReturned
      <3>3. CASE u = t /\ registered = NoOne
        BY <1>2, <3>3 DEF GetLogger, LogIInv, LogTypeOK
      <3>. QED
        BY <3>1, <3>2, <3>3
    <2>5. \A u \in Requests : Writing(u)' <=> Writing(u)
      BY <2>1 DEF Writing
    <2>. QED
      BY <2>1, <2>4, <2>5, KeptSame DEF KeptInv
  <1>3. ASSUME NEW t \in Requests, Register(t)
        PROVE  KeptInv'
    BY <1>3 DEF Register, KeptInv, KeptUnlessClosed, CloseReturned, Writing
  <1>4. ASSUME NEW t \in Requests, Log(t)
        PROVE  KeptInv'
    BY <1>4, KeptBegin DEF Log
  <1>5. ASSUME NEW t \in Requests, Close(t)
        PROVE  KeptInv'
    BY <1>5, KeptBegin DEF Close
  <1>6. ASSUME NEW t \in Requests, Emit(t)
        PROVE  KeptInv'
    <2>1. UNCHANGED <<flag, use, pc, sent, own, early>> /\ file \subseteq file'
      BY <1>6 DEF Emit
    <2>2. own[t] = 0 => <<t, sent[t]>> \in file'
      BY <1>6 DEF Emit
    <2>3. \A u \in Requests : u # t => at'[u] = at[u]
      BY <1>6 DEF Emit, LogIInv, LogTypeOK
    <2>4. Returned
      BY <2>1 DEF KeptInv, CloseReturned
    <2>5. \A u \in Requests : Writing(u)' <=> Writing(u)
      BY <2>1 DEF Writing
    <2>. QED
      BY <2>1, <2>2, <2>3, <2>4, <2>5, KeptSame DEF KeptInv
  <1>7. ASSUME NEW t \in Requests, NextRecord(t)
        PROVE  KeptInv'
    <2>1. UNCHANGED <<flag, use, pc, sent, own, early, file>>
      BY <1>7 DEF NextRecord
    <2>2. \A u \in Requests : at'[u] = IF u = t THEN 1 ELSE at[u]
      BY <1>7 DEF NextRecord, LogIInv, LogTypeOK
    <2>3. Returned
      BY <2>1 DEF KeptInv, CloseReturned
    <2>4. \A u \in Requests : Writing(u)' <=> Writing(u)
      BY <2>1 DEF Writing
    <2>. QED
      BY <2>1, <2>2, <2>3, <2>4, KeptSame DEF KeptInv
  <1>8. ASSUME NEW t \in Requests, Return(t)
        PROVE  KeptInv'
    <2>1. /\ Writing(t) /\ at[t] > Len(handlers[use[t]])
          /\ UNCHANGED <<flag, use, sent, own, at, file, early>>
      BY <1>8 DEF Return, Returns, Writing
    <2>2. \A u \in Requests : pc'[u] = IF u = t THEN IF pc[t] = "log" THEN "idle" ELSE "close" ELSE pc[u]
      BY <1>8 DEF Return, Returns, LogIInv, LogTypeOK
    <2>3. Len(handlers[use[t]]) > 0 /\ Len(handlers[use[t]]) \in Nat
      BY <2>1 DEF LogIInv, LogTypeOK, HasLogger, Writing
    <2>4. own[t] = 0 => <<t, sent[t]>> \in file
      BY <2>1, <2>3 DEF KeptInv
    <2>5. \A c \in Cleanups : pc[c] = "end" => pc'[c] = "end" /\ use'[c] = use[c]
      BY <2>1, <2>2 DEF Requests, Writing
    <2>6. Returned
      <3> SUFFICES ASSUME NEW u \in Requests, pc'[u] # "new", ~ flag'[use'[u]]
                   PROVE  CloseReturned(use[u])'
        OBVIOUS
      <3>1. pc[u] # "new" /\ ~ flag[use[u]] /\ use'[u] = use[u]
        BY <2>1, <2>2 DEF Writing
      <3>. QED
        BY <2>5, <3>1, StillReturned
    <2>7. \A u \in Requests : Writing(u)' <=> Writing(u) /\ u # t
      BY <2>2 DEF Writing
    <2>. QED
      BY <2>1, <2>4, <2>6, <2>7, KeptSame DEF KeptInv
  <1>9. ASSUME NEW t \in Requests, CloseFile(t)
        PROVE  KeptInv'
    <2>1. pc[t] = "close" /\ UNCHANGED <<flag, use, sent, own, at, file, early>>
      BY <1>9 DEF CloseFile
    <2>2. \A u \in Requests : pc'[u] = IF u = t THEN "clear" ELSE pc[u]
      BY <1>9 DEF CloseFile, LogIInv, LogTypeOK
    <2>3. \A c \in Cleanups : pc[c] = "end" => pc'[c] = "end" /\ use'[c] = use[c]
      BY <2>1, <2>2 DEF Requests
    <2>4. Returned
      <3> SUFFICES ASSUME NEW u \in Requests, pc'[u] # "new", ~ flag'[use'[u]]
                   PROVE  CloseReturned(use[u])'
        OBVIOUS
      <3>1. pc[u] # "new" /\ ~ flag[use[u]] /\ use'[u] = use[u]
        BY <2>1, <2>2
      <3>. QED
        BY <2>3, <3>1, StillReturned
    <2>5. \A u \in Requests : Writing(u)' <=> Writing(u)
      BY <2>1, <2>2 DEF Writing
    <2>. QED
      BY <2>1, <2>4, <2>5, KeptSame DEF KeptInv
  <1>10. ASSUME NEW t \in Requests, ClearFlag(t)
         PROVE  KeptInv'
    <2>1. /\ pc[t] = "clear" /\ t \in Cleanups /\ use[t] \in Requests
          /\ UNCHANGED <<use, sent, own, at, file, early>>
      BY <1>10 DEF ClearFlag, LogIInv, HasLogger, OwnIsHandler
    <2>2. \A u \in Requests : pc'[u] = IF u = t THEN "end" ELSE pc[u]
      BY <1>10 DEF ClearFlag, LogIInv, LogTypeOK
    <2>3. \A l \in Requests : l # use[t] => flag'[l] = flag[l]
      BY <1>10 DEF ClearFlag, LogIInv, LogTypeOK
    <2>4. \A c \in Cleanups : pc[c] = "end" => pc'[c] = "end" /\ use'[c] = use[c]
      BY <2>1, <2>2 DEF Requests
    <2>5. Returned
      <3> SUFFICES ASSUME NEW u \in Requests, pc'[u] # "new", ~ flag'[use'[u]]
                   PROVE  CloseReturned(use[u])'
        OBVIOUS
      <3>1. pc[u] # "new" /\ use'[u] = use[u] /\ use[u] \in Requests
        BY <2>1, <2>2 DEF LogIInv, HasLogger
      <3>2. CASE use[u] = use[t]
        <4>1. pc'[t] = "end" /\ use'[t] = use'[u]
          BY <2>1, <2>2, <3>1, <3>2
        <4>. QED
          BY <2>1, <4>1 DEF CloseReturned
      <3>3. CASE use[u] # use[t]
        <4>1. ~ flag[use[u]]
          BY <2>3, <3>1, <3>3
        <4>. QED
          BY <2>4, <3>1, <4>1, StillReturned
      <3>. QED
        BY <3>2, <3>3
    <2>6. \A u \in Requests : Writing(u)' <=> Writing(u)
      BY <2>1, <2>2 DEF Writing
    <2>. QED
      BY <2>1, <2>5, <2>6, KeptSame DEF KeptInv
  <1>. QED
    BY <1>1, <1>2, <1>3, <1>4, <1>5, <1>6, <1>7, <1>8, <1>9, <1>10 DEF Next, Step

LEMMA KeptInit == Init => KeptInv
  BY DEF Init, KeptInv, KeptUnlessClosed, Writing

\* No message issued before a close() has returned is lost, though _myLog reads the flag
\* without a lock and writes later (Logger.py:84-98, 108-111).
THEOREM KeptHolds == Spec => []KeptUnlessClosed
  <1>1. LogIInv /\ KeptInv /\ [Next]_vars => LogIInv' /\ KeptInv'
    BY LogIInvStep, KeptStep
  <1>2. LogIInv /\ KeptInv => KeptUnlessClosed
    BY DEF KeptInv
  <1>. QED
    BY <1>1, <1>2, LogIInvInit, KeptInit, PTL DEF Spec

-----------------------------------------------------------------------------
\* What LeakBounded rests on: until a file is closed its logger has one handler; then
\* every handler more is that of a call that returned since, or of one that is still
\* writing, which closes it; and with the last of these calls all of them are counted.
Quiet(l)  == \A t \in Requests : use[t] = l => ~ Writing(t)
Adders(l) == {t \in Requests : use[t] = l /\ Writing(t) /\ own[t] # 0}

LeakBound(l) ==
    /\ IsFiniteSet(Adders(l))
    /\ ~ FileClosed(l) => Len(handlers[l]) <= 1
    /\ FileClosed(l) => Len(handlers[l]) <= 1 + after[l] + Cardinality(Adders(l))
    /\ FileClosed(l) /\ Quiet(l) => Cardinality(OpenFiles(l)) <= after[l]

LeakInv ==
    /\ \A t \in Requests : IF pc[t] = "new" THEN use[t] = NoOne ELSE pc[use[t]] # "new"
    /\ \A l \in Requests : LeakBound(l)

\* A list has at most as many open handlers as handlers, and fewer if one is closed.
Open(h) == {i \in DOMAIN h : h[i]}

LEMMA OpenCount ==
    ASSUME NEW h \in Seq(BOOLEAN)
    PROVE  /\ IsFiniteSet(Open(h)) /\ Cardinality(Open(h)) \in Nat
           /\ Cardinality(Open(h)) <= Len(h)
           /\ \A j \in 1 .. Len(h) : ~ h[j] => Cardinality(Open(h)) <= Len(h) - 1
  <1> DEFINE open == Open(h)
  <1>0. open = {i \in DOMAIN h : h[i]}
    BY DEF Open
  <1>1. Len(h) \in Nat /\ DOMAIN h = 1 .. Len(h)
    BY LenProperties
  <1>2. IsFiniteSet(1 .. Len(h)) /\ Cardinality(1 .. Len(h)) = Len(h)
    BY <1>1, FS_Interval
  <1>3. IsFiniteSet(open) /\ Cardinality(open) <= Len(h)
    <2>1. open \in SUBSET (1 .. Len(h))
      BY <1>0, <1>1
    <2>. QED
      BY <1>2, <2>1, FS_Subset
  <1>4. ASSUME NEW j \in 1 .. Len(h), ~ h[j]
        PROVE  Cardinality(open) <= Len(h) - 1
    <2>1. /\ IsFiniteSet((1 .. Len(h)) \ {j})
          /\ Cardinality((1 .. Len(h)) \ {j}) = Len(h) - 1
      BY <1>2, FS_RemoveElement
    <2>2. open \in SUBSET ((1 .. Len(h)) \ {j})
      BY <1>0, <1>1, <1>4
    <2>. QED
      BY <2>1, <2>2, FS_Subset
  <1>5. Cardinality(open) \in Nat
    BY <1>3, FS_CardinalityType
  <1>. QED
    BY <1>3, <1>4, <1>5

\* A step that leaves a logger and its writers alone leaves its bound.
LEMMA LeakSame ==
    ASSUME NEW l, LeakBound(l), handlers'[l] = handlers[l], after'[l] = after[l],
           Adders(l)' = Adders(l), FileClosed(l)' <=> FileClosed(l), Quiet(l)' => Quiet(l)
    PROVE  LeakBound(l)'
  BY DEF LeakBound, OpenFiles

\* A step of a request concerns its own logger only.
LEMMA LeakElsewhere ==
    ASSUME NEW t \in Requests, NEW l \in Requests, use[t] # l, UNCHANGED use,
           \A u \in Requests : u # t => pc'[u] = pc[u] /\ own'[u] = own[u],
           handlers'[l] = handlers[l], after'[l] = after[l], LeakBound(l)
    PROVE  LeakBound(l)'
  <1>1. \A u \in Requests : use[u] = l => pc'[u] = pc[u] /\ own'[u] = own[u]
    OBVIOUS
  <1>2. Adders(l)' = Adders(l) /\ (Quiet(l)' => Quiet(l))
    BY <1>1 DEF Adders, Quiet, Writing
  <1>3. FileClosed(l)' <=> FileClosed(l)
    BY <1>1 DEF FileClosed, Requests
  <1>. QED
    BY <1>2, <1>3, LeakSame

\* As long as somebody writes only the number of handlers counts.
LEMMA LeakWriting ==
    ASSUME NEW l, LeakBound(l), Len(handlers'[l]) = Len(handlers[l]), after'[l] = after[l],
           Adders(l)' = Adders(l), FileClosed(l)' <=> FileClosed(l), ~ Quiet(l)'
    PROVE  LeakBound(l)'
  BY DEF LeakBound

\* A message finds the flag set, or adds a handler to a logger whose file was closed.
LEMMA LeakBegin ==
    ASSUME LogIInv, KeptInv, NEW t \in Requests, NEW l \in Requests, use[t] = l,
           NEW next \in {"log", "closing"}, pc[t] = "idle", LeakBound(l), Begin(t, next), UNCHANGED <<use, after>>
    PROVE  LeakBound(l)'
  <1>1. l \in Requests /\ handlers[l] \in Seq(BOOLEAN) /\ after[l] \in Nat
    BY DEF LogIInv, LogTypeOK, HasLogger
  <1>2. \A u \in Requests : pc'[u] = IF u = t THEN next ELSE pc[u]
    BY DEF Begin, LogIInv, LogTypeOK
  <1>3. \A u \in Requests : own'[u] = IF u # t THEN own[u]
                                     ELSE IF flag[l] THEN 0 ELSE Len(handlers[l]) + 1
    BY DEF Begin, LogIInv, LogTypeOK
  <1>4. ~ Quiet(l)' /\ t \notin Adders(l)
    BY <1>2 DEF Quiet, Adders, Writing
  <1>5. FileClosed(l)' <=> FileClosed(l)
    BY <1>2 DEF FileClosed, Requests
  <1>6. CASE flag[l]
    <2>1. Adders(l)' = Adders(l)
      BY <1>2, <1>3, <1>6 DEF Adders, Writing
    <2>2. handlers' = handlers
      BY <1>6 DEF Begin
    <2>. QED
      BY <1>4, <1>5, <2>1, <2>2, LeakWriting
  <1>7. CASE ~ flag[l]
    <2>1. FileClosed(l)
      BY <1>7 DEF KeptInv, CloseReturned, FileClosed
    <2>2. Adders(l)' = Adders(l) \cup {t}
      BY <1>1, <1>2, <1>3, <1>7 DEF Adders, Writing
    <2>3. handlers'[l] = Append(handlers[l], TRUE)
      BY <1>1, <1>7 DEF Begin, LogIInv, LogTypeOK
    <2>4. Len(handlers'[l]) = Len(handlers[l]) + 1 /\ Len(handlers[l]) \in Nat
      BY <1>1, <2>3, AppendProperties
    <2>5. IsFiniteSet(Adders(l)')
      BY <2>2, FS_AddElement DEF LeakBound
    <2>6. Cardinality(Adders(l)') = Cardinality(Adders(l)) + 1
      BY <1>4, <2>2, FS_AddElement DEF LeakBound
    <2>7. Cardinality(Adders(l)) \in Nat
      BY FS_CardinalityType DEF LeakBound
    <2>8. Len(handlers'[l]) <= 1 + after'[l] + Cardinality(Adders(l)')
      BY <1>1, <2>1, <2>4, <2>6, <2>7 DEF LeakBound
    <2>. QED
      BY <1>4, <1>5, <2>1, <2>5, <2>8 DEF LeakBound
  <1>. QED
    BY <1>6, <1>7

\* A call that returns closes the handler it added, and is counted if the file is closed.
LEMMA LeakReturn ==
    ASSUME LogIInv, NEW t \in Requests, NEW l \in Requests, use[t] = l, LeakBound(l), Return(t)
    PROVE  LeakBound(l)'
  <1> DEFINE h == handlers[l]
             n == IF FileClosed(l) THEN after[l] + 1 ELSE after[l]
  <1>1. Writing(t) /\ UNCHANGED <<use, own>>
    BY DEF Return, Returns, Writing
  <1>2. l \in Requests /\ h \in Seq(BOOLEAN) /\ after[l] \in Nat /\ own[t] \in Nat /\ Len(h) \in Nat
    BY <1>1 DEF LogIInv, LogTypeOK, HasLogger, Writing
  <1>3. \A u \in Requests : pc'[u] = IF u = t THEN IF pc[t] = "log" THEN "idle" ELSE "close" ELSE pc[u]
    BY DEF Return, Returns, LogIInv, LogTypeOK
  <1>4. after'[l] = n
    BY <1>2 DEF Return, Returns, LogIInv, LogTypeOK
  <1>5. Adders(l)' = Adders(l) \ {t} /\ (t \in Adders(l) <=> own[t] # 0)
    BY <1>1, <1>3 DEF Adders, Writing
  <1>6. FileClosed(l)' <=> FileClosed(l)
    BY <1>1, <1>3 DEF FileClosed, Requests, Writing
  <1>7. /\ IsFiniteSet(Adders(l)') /\ Cardinality(Adders(l)) \in Nat
        /\ Cardinality(Adders(l)') = Cardinality(Adders(l)) - (IF own[t] = 0 THEN 0 ELSE 1)
    BY <1>5, FS_RemoveElement, FS_CardinalityType DEF LeakBound
  <1>8. /\ handlers'[l] \in Seq(BOOLEAN) /\ Len(handlers'[l]) = Len(h)
        /\ own[t] # 0 => own[t] \in 1 .. Len(h) /\ ~ handlers'[l][own[t]]
    <2>1. CASE own[t] = 0
      BY <1>2, <2>1 DEF Return
    <2>2. CASE own[t] # 0
      <3>1. own[t] \in 1 .. Len(h)
        BY <1>1, <1>2, <2>2 DEF LogIInv, OwnIsHandler
      <3>2. handlers'[l] = [h EXCEPT ![own[t]] = FALSE]
        BY <1>2, <2>2 DEF Return, LogIInv, LogTypeOK
      <3>. QED
        BY <1>2, <3>1, <3>2, HandlersSet
    <2>. QED
      BY <2>1, <2>2
  <1>9. ASSUME FileClosed(l)
        PROVE  Len(handlers'[l]) <= 1 + n + Cardinality(Adders(l)')
    BY <1>2, <1>7, <1>8, <1>9 DEF LeakBound
  <1>10. ASSUME FileClosed(l), Quiet(l)'
         PROVE  Cardinality(OpenFiles(l)') <= n
    <2>1. Adders(l)' = {}
      BY <1>1, <1>10 DEF Quiet, Adders
    <2>2. Cardinality(Adders(l)') = 0
      BY <2>1, FS_EmptySet
    <2>3. Len(h) <= 1 + after[l] + (IF own[t] = 0 THEN 0 ELSE 1)
      BY <1>2, <1>7, <1>10, <2>2 DEF LeakBound
    <2>4. /\ Cardinality(OpenFiles(l)') \in Nat /\ Cardinality(OpenFiles(l)') <= Len(h)
          /\ own[t] # 0 => Cardinality(OpenFiles(l)') <= Len(h) - 1
      <3>1. OpenFiles(l)' = Open(handlers'[l])
        BY DEF OpenFiles, Open
      <3>. HIDE DEF Open
      <3>. QED
        BY <1>8, <3>1, OpenCount
    <2>. QED
      BY <1>2, <1>10, <2>3, <2>4
  <1>11. ~ FileClosed(l) => Len(handlers'[l]) <= 1
    BY <1>8 DEF LeakBound
  <1>. QED
    <2>. HIDE DEF n
    <2>. QED
      BY <1>4, <1>6, <1>7, <1>9, <1>10, <1>11 DEF LeakBound

\* The first close() finds one handler, and closes it.
LEMMA LeakClose ==
    ASSUME LogIInv, NEW t \in Requests, NEW l \in Requests, use[t] = l, LeakBound(l), CloseFile(t)
    PROVE  LeakBound(l)'
  <1> DEFINE h == handlers[l]
  <1>0. pc[t] = "close" /\ t \in Cleanups /\ UNCHANGED <<use, own, after>>
    BY DEF CloseFile, LogIInv, OwnIsHandler
  <1>1. /\ pc[t] = "close" /\ t \in Cleanups /\ UNCHANGED <<use, own, after>>
        /\ h \in Seq(BOOLEAN) /\ Len(h) \in Nat /\ Len(h) > 0 /\ after[l] \in Nat
    BY <1>0 DEF LogIInv, LogTypeOK, HasLogger
  <1>2. \A u \in Requests : pc'[u] = IF u = t THEN "clear" ELSE pc[u]
    BY DEF CloseFile, LogIInv, LogTypeOK
  <1>3. Adders(l)' = Adders(l) /\ (Quiet(l)' => Quiet(l))
    BY <1>1, <1>2 DEF Adders, Quiet, Writing
  <1>4. FileClosed(l)'
    BY <1>1, <1>2 DEF FileClosed, Requests
  <1>5. handlers'[l] = [h EXCEPT ![1] = FALSE]
    BY <1>1 DEF CloseFile, LogIInv, LogTypeOK
  <1>6. handlers'[l] \in Seq(BOOLEAN) /\ Len(handlers'[l]) = Len(h) /\ ~ handlers'[l][1]
    BY <1>1, <1>5, HandlersSet
  <1>7. Cardinality(Adders(l)) \in Nat
    BY FS_CardinalityType DEF LeakBound
  <1>8. CASE FileClosed(l)
    <2>1. OpenFiles(l)' \in SUBSET OpenFiles(l)
      BY <1>1, <1>5 DEF OpenFiles
    <2>2. /\ Cardinality(OpenFiles(l)') <= Cardinality(OpenFiles(l))
          /\ Cardinality(OpenFiles(l)') \in Nat /\ Cardinality(OpenFiles(l)) \in Nat
      <3>1. OpenFiles(l) = Open(h) /\ OpenFiles(l)' = Open(handlers'[l])
        BY DEF OpenFiles, Open
      <3>. QED
        BY <1>1, <1>6, <2>1, <3>1, OpenCount, FS_Subset
    <2>. QED
      BY <1>1, <1>3, <1>4, <1>6, <1>8, <2>2 DEF LeakBound
  <1>9. CASE ~ FileClosed(l)
    <2>0. Len(h) <= 1
      BY <1>9 DEF LeakBound
    <2>1. Len(h) = 1
      <3>1. \A m \in Nat : m > 0 /\ m <= 1 => m = 1
        OBVIOUS
      <3>2. Len(h) \in Nat /\ Len(h) > 0
        BY <1>1
      <3>. HIDE DEF h
      <3>. QED
        BY <2>0, <3>1, <3>2
    <2>2. Cardinality(OpenFiles(l)') \in Nat /\ Cardinality(OpenFiles(l)') <= 0
      <3>1. 1 \in 1 .. Len(handlers'[l])
        BY <1>1, <1>6
      <3>2. OpenFiles(l)' = Open(handlers'[l])
        BY DEF OpenFiles, Open
      <3>3. ~ handlers'[l][1] => Cardinality(Open(handlers'[l])) <= Len(handlers'[l]) - 1
        BY <1>6, <3>1, OpenCount
      <3>4. Cardinality(Open(handlers'[l])) \in Nat /\ Len(handlers'[l]) = 1
        BY <1>6, <2>1, OpenCount
      <3>. QED
        BY <1>6, <3>2, <3>3, <3>4
    <2>. QED
      BY <1>1, <1>3, <1>4, <1>6, <1>7, <2>1, <2>2 DEF LeakBound
  <1>. QED
    BY <1>8, <1>9

\* A request that gets a logger: the one registered, or a new one nobody uses yet.
LEMMA LeakGetLogger ==
    ASSUME LogIInv, LeakInv, NEW t \in Requests, GetLogger(t)
    PROVE  LeakInv'
  <1>1. pc[t] = "new" /\ UNCHANGED <<registered, own, after>>
    BY DEF GetLogger
  <1>2. /\ \A u \in Requests : pc'[u] = IF u = t THEN "idle" ELSE pc[u]
        /\ \A u \in Requests : u # t => use'[u] = use[u]
    BY DEF GetLogger, LogIInv, LogTypeOK
  <1>3. use[t] = NoOne
    BY <1>1 DEF LeakInv
  <1>4. use'[t] = (IF registered # NoOne THEN registered ELSE t) /\ use'[t] \in Requests
    BY DEF GetLogger, LogIInv, LogTypeOK, HasLogger
  <1>5. \A u \in Requests : IF pc'[u] = "new" THEN use'[u] = NoOne ELSE pc'[use'[u]] # "new"
    <2> SUFFICES ASSUME NEW u \in Requests
                 PROVE  IF pc'[u] = "new" THEN use'[u] = NoOne ELSE pc'[use'[u]] # "new"
      OBVIOUS
    <2>1. CASE u = t
      <3>1. registered # NoOne => registered \in Requests /\ pc[registered] # "new"
        BY DEF LogIInv, HasLogger
      <3>. QED
        BY <1>2, <1>4, <2>1, <3>1
    <2>2. CASE u # t
      <3>1. pc[u] # "new" => use[u] \in Requests /\ pc[use[u]] # "new"
        BY DEF LeakInv, LogIInv, HasLogger
      <3>. QED
        BY <1>2, <2>2, <3>1 DEF LeakInv
    <2>. QED
      BY <2>1, <2>2
  <1>6. ASSUME NEW l \in Requests, handlers'[l] = handlers[l]
        PROVE  LeakBound(l)'
    <2>1. l # NoOne
      BY NoOneAssumption
    <2>2. Adders(l)' = Adders(l) /\ (Quiet(l)' => Quiet(l))
      BY <1>1, <1>2, <1>3, <2>1 DEF Adders, Quiet, Writing
    <2>3. FileClosed(l)' <=> FileClosed(l)
      BY <1>1, <1>2, <1>3, <2>1 DEF FileClosed, Requests
    <2>. QED
      BY <1>1, <1>6, <2>2, <2>3, LeakSame DEF LeakInv
  <1>7. ASSUME NEW l \in Requests, handlers'[l] # handlers[l]
        PROVE  LeakBound(l)'
    <2>1. l = t /\ handlers'[l] = <<TRUE>>
      BY <1>7 DEF GetLogger, LogIInv, LogTypeOK
    <2>2. \A u \in Requests : u # t => use[u] # t
      BY <1>1, NoOneAssumption DEF LeakInv
    <2>3. Adders(l)' = {} /\ ~ FileClosed(l)'
      BY <1>2, <2>1, <2>2 DEF Adders, Writing, FileClosed, Requests
    <2>4. Len(handlers'[l]) = 1
      BY <2>1
    <2>. QED
      BY <2>3, <2>4, FS_EmptySet DEF LeakBound
  <1>. QED
    BY <1>5, <1>6, <1>7 DEF LeakInv

LEMMA LeakStep ==
    ASSUME LogIInv, KeptInv, LeakInv, [Next]_vars
    PROVE  LeakInv'
  <1>1. CASE UNCHANGED vars
    <2>1. UNCHANGED <<handlers, use, pc, own, after>>
      BY <1>1 DEF vars
    <2>2. \A l \in Requests : LeakBound(l)'
      BY <2>1, LeakSame DEF LeakInv, Adders, Quiet, Writing, FileClosed
    <2>. QED
      BY <2>1, <2>2 DEF LeakInv
  <1>2. ASSUME NEW t \in Requests, GetLogger(t)
        PROVE  LeakInv'
    BY <1>2, LeakGetLogger
  <1>3. ASSUME NEW t \in Requests, Register(t)
        PROVE  LeakInv'
    <2>1. UNCHANGED <<handlers, use, pc, own, after>>
      BY <1>3 DEF Register
    <2>2. \A l \in Requests : LeakBound(l)'
      BY <2>1, LeakSame DEF LeakInv, Adders, Quiet, Writing, FileClosed
    <2>. QED
      BY <2>1, <2>2 DEF LeakInv
  <1>4. ASSUME NEW t \in Requests,
               Log(t) \/ Close(t) \/ Emit(t) \/ NextRecord(t) \/ Return(t) \/ CloseFile(t) \/ ClearFlag(t)
        PROVE  LeakInv'
    <2>1. /\ UNCHANGED use /\ pc[t] # "new" /\ pc'[t] # "new"
          /\ \A u \in Requests : u # t => pc'[u] = pc[u] /\ own'[u] = own[u]
      BY <1>4 DEF Log, Close, Begin, Emit, NextRecord, Return, Returns, CloseFile, ClearFlag,
                  LogIInv, LogTypeOK
    <2>2. use[t] \in Requests
      BY <2>1 DEF LogIInv, HasLogger
    <2>3. \A u \in Requests : pc'[u] # "new" <=> pc[u] # "new"
      BY <2>1
    <2>4. \A u \in Requests : IF pc'[u] = "new" THEN use'[u] = NoOne ELSE pc'[use'[u]] # "new"
      <3> SUFFICES ASSUME NEW u \in Requests
                   PROVE  IF pc'[u] = "new" THEN use'[u] = NoOne ELSE pc'[use'[u]] # "new"
        OBVIOUS
      <3>1. pc[u] # "new" => use[u] \in Requests /\ pc[use[u]] # "new"
        BY DEF LeakInv, LogIInv, HasLogger
      <3>. QED
        BY <2>1, <2>3, <3>1 DEF LeakInv
    <2>5. ASSUME NEW l \in Requests, use[t] # l
          PROVE  LeakBound(l)'
      <3>1. handlers' = handlers \/ \E h : handlers' = [handlers EXCEPT ![use[t]] = h]
        BY <1>4 DEF Log, Close, Begin, Emit, NextRecord, Return, CloseFile, ClearFlag
      <3>2. handlers'[l] = handlers[l]
        BY <2>2, <2>5, <3>1 DEF LogIInv, LogTypeOK
      <3>3. after'[l] = after[l]
        BY <1>4, <2>2, <2>5 DEF Log, Close, Begin, Emit, NextRecord, Return, Returns, CloseFile,
                                ClearFlag, LogIInv, LogTypeOK
      <3>. QED
        BY <2>1, <2>5, <3>2, <3>3, LeakElsewhere DEF LeakInv
    <2>6. ASSUME NEW l \in Requests, use[t] = l
          PROVE  LeakBound(l)'
      <3>0. LeakBound(l)
        BY DEF LeakInv
      <3>1. CASE Log(t) \/ Close(t)
        BY <2>6, <3>0, <3>1, LeakBegin DEF Log, Close
      <3>2. CASE Emit(t)
        <4>1. at[t] \in 1 .. Len(handlers[l])
          BY <2>6, <3>2 DEF Emit, LogIInv, LogTypeOK
        <4>2. handlers' = [handlers EXCEPT ![l] = [@ EXCEPT ![at[t]] = TRUE]]
          BY <2>6, <3>2 DEF Emit
        <4>3. Len(handlers'[l]) = Len(handlers[l])
          BY <4>1, <4>2, SetHandler DEF LogIInv
        <4>4. UNCHANGED <<pc, own, use, after>> /\ Writing(t)
          BY <3>2 DEF Emit, Writing
        <4>5. Adders(l)' = Adders(l) /\ (FileClosed(l)' <=> FileClosed(l)) /\ ~ Quiet(l)'
          BY <2>6, <4>4 DEF Adders, FileClosed, Quiet, Writing
        <4>. QED
          BY <3>0, <4>3, <4>4, <4>5, LeakWriting
      <3>3. CASE NextRecord(t)
        <4>1. UNCHANGED <<handlers, pc, own, use, after>>
          BY <3>3 DEF NextRecord
        <4>. QED
          BY <3>0, <4>1, LeakSame DEF Adders, FileClosed, Quiet, Writing
      <3>4. CASE Return(t)
        BY <2>6, <3>0, <3>4, LeakReturn
      <3>5. CASE CloseFile(t)
        BY <2>6, <3>0, <3>5, LeakClose
      <3>6. CASE ClearFlag(t)
        <4>1. /\ pc[t] = "clear" /\ t \in Cleanups /\ UNCHANGED <<handlers, own, use, after>>
          BY <3>6 DEF ClearFlag, LogIInv, OwnIsHandler
        <4>2. \A u \in Requests : pc'[u] = IF u = t THEN "end" ELSE pc[u]
          BY <3>6 DEF ClearFlag, LogIInv, LogTypeOK
        <4>3. Adders(l)' = Adders(l) /\ (FileClosed(l)' <=> FileClosed(l)) /\ (Quiet(l)' => Quiet(l))
          BY <4>1, <4>2 DEF Adders, FileClosed, Quiet, Writing, Requests
        <4>. QED
          BY <3>0, <4>1, <4>3, LeakSame
      <3>. QED
        BY <1>4, <3>1, <3>2, <3>3, <3>4, <3>5, <3>6
    <2>. QED
      BY <2>4, <2>5, <2>6 DEF LeakInv
  <1>. QED
    BY <1>1, <1>2, <1>3, <1>4 DEF Next, Step

LEMMA LeakInit == Init => LeakInv
  <1> SUFFICES ASSUME Init, NEW l \in Requests
               PROVE  LeakBound(l)
    BY DEF Init, LeakInv
  <1>1. Adders(l) = {} /\ ~ FileClosed(l) /\ Len(handlers[l]) = 0
    BY DEF Init, Adders, Writing, FileClosed, Requests
  <1>. QED
    BY <1>1, FS_EmptySet DEF LeakBound

\* A logger whose close() has returned, and that nobody writes to, holds no descriptor
\* but those of calls that returned after it (fdtd:233, Logger.py:84-111).
THEOREM LeaksAreBounded == Spec => []LeakBounded
  <1>1. LogIInv /\ KeptInv /\ LeakInv /\ [Next]_vars => LogIInv' /\ KeptInv' /\ LeakInv'
    BY LogIInvStep, KeptStep, LeakStep
  <1>2. LeakInv => LeakBounded
    BY DEF LeakInv, LeakBound, LeakBounded, Quiet, CloseReturned, FileClosed
  <1>. QED
    BY <1>1, <1>2, LogIInvInit, KeptInit, LeakInit, PTL DEF Spec
=============================================================================
