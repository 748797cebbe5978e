------------------------------ MODULE JobGraph ------------------------------
(***************************************************************************)
(* What the shader job machinery promises a caller, with no pool, queue or *)
(* thread in it: every submitted job settles exactly once, and no body     *)
(* starts before every job it depends on has settled                       *)
(* (MG_Util/Async/JobNode.h:60-72, :96-99).  CompilePool implements it.    *)
(***************************************************************************)
CONSTANT Node

VARIABLES state,    \* JobNode::m_state; "none" before the node exists
          deps      \* the jobs a node's body reads

vars == <<state, deps>>

Terminal(n) == state[n] \in {"Complete", "Canceled"}

Init == /\ state = [n \in Node |-> "none"]
        /\ deps \in [Node -> SUBSET Node]

\* A link and its SPIR-V job enter together, so a submission is of a set.
Submit(S) == /\ \A n \in S : state[n] = "none"
             /\ state' = [n \in Node |-> IF n \in S THEN "Pending" ELSE state[n]]
             /\ \A n \in Node \ S : deps'[n] = deps[n]

Start(n) == /\ state[n] = "Pending"
            /\ \A d \in deps[n] : Terminal(d)
            /\ state' = [state EXCEPT ![n] = "Running"]
            /\ UNCHANGED deps

Abandon(n) == /\ state[n] = "Pending"
              /\ state' = [state EXCEPT ![n] = "Canceled"]
              /\ UNCHANGED deps

Settle(n) == /\ state[n] = "Running"
             /\ \E to \in {"Complete", "Canceled"} : state' = [state EXCEPT ![n] = to]
             /\ UNCHANGED deps

Progress(n) == Start(n) \/ Abandon(n) \/ Settle(n)

Next == \/ \E S \in SUBSET Node : Submit(S)
        \/ \E n \in Node : Progress(n)

Spec == Init /\ [][Next]_vars
=============================================================================
