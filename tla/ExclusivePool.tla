---------------------------- MODULE ExclusivePool ----------------------------
(***************************************************************************)
(* What a caller of reserve() and release() expects of a set of ports:     *)
(* each one is lent to at most one client at a time.                       *)
(***************************************************************************)
CONSTANTS
    Clients,
    Pool,     \* the ports lent
    Nothing   \* what a client owns when it owns no port; not in Pool

VARIABLE owns

PoolInit == owns = [c \in Clients |-> Nothing]

Acquire(c) ==
    /\ owns[c] = Nothing
    /\ \E p \in Pool :
        /\ \A d \in Clients : owns[d] # p
        /\ owns' = [owns EXCEPT ![c] = p]

GiveBack(c) ==
    /\ owns[c] # Nothing
    /\ owns' = [owns EXCEPT ![c] = Nothing]

PoolNext == \E c \in Clients : Acquire(c) \/ GiveBack(c)

PoolSpec == PoolInit /\ [][PoolNext]_owns
=============================================================================
