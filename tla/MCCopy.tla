------------------------------- MODULE MCCopy --------------------------------
(***************************************************************************)
(* Instances of Copy: two whole copies, which are interchangeable as ids   *)
(* are, and a third that gets no farther than its port.                    *)
(***************************************************************************)
EXTENDS Copy, TLC

CONSTANTS t1, t2, t3, i1, i2

Interchangeable == Permutations({t1, t2}) \cup Permutations({i1, i2})

\* Bound of the exploration: t3 asks for a port of the range and is turned down, or
\* fails with the port taken, before it starts a server.
ThirdTakesAPort ==
    /\ ~ forced[t3]
    /\ pc[t3] \in {<<"dest", "port">>, <<"dest", "setup">>, <<"client", "failed">>}
=============================================================================
