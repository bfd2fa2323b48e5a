------------------------------ MODULE Transport ------------------------------
(***************************************************************************)
(* What a transport of an MCP client promises its callers (the interface   *)
(* of mcp/client.go:15-20), whichever way the messages go: a call has an   *)
(* id of its own, and returns a result only after the server has answered  *)
(* that very request; otherwise it returns an error.                       *)
(***************************************************************************)
EXTENDS Integers

CONSTANTS Callers, Ids

VARIABLES used,      \* ids of the calls so far
          answered,  \* ids the server has answered
          calling,   \* calling[c]: the id c waits for, 0 if it does not
          outcome    \* outcome[c]: how c's last call ended

vars == <<used, answered, calling, outcome>>

Init ==
    /\ used = {} /\ answered = {}
    /\ calling = [c \in Callers |-> 0]
    /\ outcome = [c \in Callers |-> "none"]

call(c, i) ==
    /\ calling[c] = 0 /\ i \notin used
    /\ used' = used \cup {i}
    /\ calling' = [calling EXCEPT ![c] = i]
    /\ outcome' = [outcome EXCEPT ![c] = "none"]
    /\ UNCHANGED answered

Answer(i) ==
    /\ i \in used
    /\ answered' = answered \cup {i}
    /\ UNCHANGED <<used, calling, outcome>>

Return(c) ==
    /\ calling[c] # 0
    /\ \/ outcome' = [outcome EXCEPT ![c] = "error"]
       \/ calling[c] \in answered /\ outcome' = [outcome EXCEPT ![c] = "result"]
    /\ calling' = [calling EXCEPT ![c] = 0]
    /\ UNCHANGED <<used, answered>>

Next ==
    \/ \E c \in Callers : Return(c) \/ \E i \in Ids : call(c, i)
    \/ \E i \in Ids : Answer(i)

Spec == Init /\ [][Next]_vars
=============================================================================
