---------------------------- MODULE StartService -----------------------------
(***************************************************************************)
(* What a client expects of a daemon that starts processes for it: each    *)
(* request starts at most one process; a request that is done has started  *)
(* one; one that was refused has started none and never will, unless two   *)
(* requests of one id raced each other.                                    *)
(***************************************************************************)
CONSTANTS
    Starters,   \* the requests
    IdOf        \* the id of every request

VARIABLES
    started,    \* the requests whose process was started
    answer      \* of every request: "none" yet, "done" or "refused"

serviceVars == <<started, answer>>

ServiceInit == started = {} /\ answer = [e \in Starters |-> "none"]

Start(e) ==
    /\ answer[e] = "none" /\ e \notin started
    /\ started' = started \cup {e}
    /\ UNCHANGED answer

Reply(e, what) ==
    /\ answer[e] = "none"
    /\ answer' = [answer EXCEPT ![e] = what]
    /\ UNCHANGED started

Confirm(e) == e \in started /\ Reply(e, "done")

Refuse(e) == e \notin started /\ Reply(e, "refused")

\* The process of e runs all the same.
RefuseSecond(e) ==
    /\ e \in started
    /\ \E f \in started \ {e} : IdOf[f] = IdOf[e]
    /\ Reply(e, "refused")

ServiceNext == \E e \in Starters : Start(e) \/ Confirm(e) \/ Refuse(e) \/ RefuseSecond(e)

ServiceSpec == ServiceInit /\ [][ServiceNext]_serviceVars
=============================================================================
