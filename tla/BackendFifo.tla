----------------------------- MODULE BackendFifo -----------------------------
(***************************************************************************)
(* What the proxy promises about the Commands it reads from its clients    *)
(* (spec 4.6, 4.7 and the ordering guarantees of section 5), with no       *)
(* tasks, channels or sockets: each Command read from a client is either   *)
(* answered without a backend (locally, or with an error) or handed to one *)
(* backend, as itself or as its subs; the Commands handed to a backend are *)
(* completed in the order they were handed over, each once, with that      *)
(* backend's answer to it or with an error.  The delayed accounting of     *)
(* Back::poll exists to keep this promise across timeouts.                 *)
(***************************************************************************)
EXTENDS Sequences

CONSTANTS
    Nodes,          \* the backends
    Cmds,           \* the Commands the Fronts create for client requests
    Ids,            \* every Command that can hold a reply: Cmds and their subs
    Parts(_),       \* Parts(id): what is sent for id, itself or its subs in order
    Value(_),       \* Value(id): the backend's answer to id
    Failures,       \* the error replies the proxy may set
    LocalAnswers,   \* the replies the proxy gives without a backend
    NoAnswer        \* the empty reply slot

VARIABLES
    issued,     \* the Commands read from clients so far
    pending,    \* pending[n]: the Commands handed to backend n, not completed
    res         \* res[id]: the reply slot of id

qvars == <<issued, pending, res>>

Init ==
    /\ issued = {}
    /\ pending = [n \in Nodes |-> <<>>]
    /\ res = [id \in Ids |-> NoAnswer]

\* A new Command is answered without a backend.
Answer(id) ==
    /\ id \notin issued
    /\ issued' = issued \cup {id}
    /\ res' \in {[res EXCEPT ![id] = r] : r \in LocalAnswers \cup Failures}
    /\ UNCHANGED pending

\* A new Command is handed to backend n.
Accept(id, n) ==
    /\ id \notin issued
    /\ issued' = issued \cup {id}
    /\ pending' = [pending EXCEPT ![n] = @ \o Parts(id)]
    /\ UNCHANGED res

\* The oldest Command handed to n is completed, once, with its own answer
\* or with an error.
Finish(n) ==
    /\ pending[n] # <<>>
    /\ res[Head(pending[n])] = NoAnswer
    /\ res' \in {[res EXCEPT ![Head(pending[n])] = r] :
                    r \in {Value(Head(pending[n]))} \cup Failures}
    /\ pending' = [pending EXCEPT ![n] = Tail(@)]
    /\ UNCHANGED issued

Next ==
    \/ \E id \in Cmds : Answer(id) \/ \E n \in Nodes : Accept(id, n)
    \/ \E n \in Nodes : Finish(n)

\* Every Command handed to a backend is eventually completed.
Spec == Init /\ [][Next]_qvars /\ \A n \in Nodes : WF_qvars(Finish(n))

=============================================================================
