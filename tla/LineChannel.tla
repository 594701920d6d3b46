----------------------------- MODULE LineChannel -----------------------------
(***************************************************************************)
(* What a reader of the log of a process may rely on: of each stream it    *)
(* gets the lines that were written, in order, none twice and none left    *)
(* out in between; and after the last item, which says how the process     *)
(* ended, it gets no more.  It is not promised the last lines.             *)
(***************************************************************************)
EXTENDS Naturals, Sequences

CONSTANT Streams

VARIABLES
    sent,       \* how many lines were written to each stream
    got,        \* the lines that were delivered of each stream
    last        \* the last item: "none" before it is delivered

chanVars == <<sent, got, last>>

ChanInit ==
    /\ sent = [s \in Streams |-> 0]
    /\ got = [s \in Streams |-> <<>>]
    /\ last = "none"

Send(s) ==
    /\ sent' = [sent EXCEPT ![s] = @ + 1]
    /\ UNCHANGED <<got, last>>

Deliver(s) ==
    /\ last = "none"
    /\ Len(got[s]) < sent[s]
    /\ got' = [got EXCEPT ![s] = Append(@, Len(@) + 1)]
    /\ UNCHANGED <<sent, last>>

Finish ==
    /\ last = "none"
    /\ last' \in {"SUCCESS", "FAILED"}
    /\ UNCHANGED <<sent, got>>

ChanNext == (\E s \in Streams : Send(s) \/ Deliver(s)) \/ Finish

ChanSpec == ChanInit /\ [][ChanNext]_chanVars
=============================================================================
