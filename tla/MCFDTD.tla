------------------------------- MODULE MCFDTD --------------------------------
(***************************************************************************)
(* Instances of FDTD: which transfer ids the requests carry.               *)
(***************************************************************************)
EXTENDS FDTD, TLC

CONSTANTS r1, r2, r3, r4, s1, c1, c2, t1, t2, t3, t4

\* The receiver and the sender of one transfer share its id; when both accounts
\* are on one host, they meet in one daemon.  Both cleanups are for it.
SharedIds == (r1 :> t1) @@ (r2 :> t2) @@ (s1 :> t1) @@ (c1 :> t1) @@ (c2 :> t1)

\* Every start has an id of its own.
OwnIds == (r1 :> t1) @@ (r2 :> t2) @@ (r3 :> t3) @@ (r4 :> t4) @@ (s1 :> t2) @@ (c1 :> t1) @@ (c2 :> t2)
=============================================================================
