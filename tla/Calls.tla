------------------------------- MODULE Calls --------------------------------
(***************************************************************************)
(* What a service promises its callers, without processes or sockets.      *)
(*                                                                         *)
(* A request is served at most once, and only after it was made.  The      *)
(* caller gets the result of that service, once, or its call fails; a      *)
(* request whose call failed may still be served.                          *)
(***************************************************************************)
EXTENDS Sequences

CONSTANT Request

VARIABLES
    status,     \* of each request: "new", "open", "answered" or "failed"
    served,     \* results of the executions of a request
    answers     \* results its caller was given

vars == <<status, served, answers>>

Init ==
    /\ status = [r \in Request |-> "new"]
    /\ served = [r \in Request |-> <<>>]
    /\ answers = [r \in Request |-> <<>>]

Ask(r) ==
    /\ status[r] = "new"
    /\ status' = [status EXCEPT ![r] = "open"]
    /\ UNCHANGED <<served, answers>>

Serve(r, result) ==
    /\ status[r] # "new"
    /\ served[r] = <<>>
    /\ served' = [served EXCEPT ![r] = <<result>>]
    /\ UNCHANGED <<status, answers>>

Answer(r) ==
    /\ served[r] # <<>>
    /\ answers[r] = <<>>
    /\ answers' = [answers EXCEPT ![r] = served[r]]
    /\ UNCHANGED <<status, served>>

\* A call within the process is served, answered and over at once.
ServeLocally(r, result) ==
    /\ status[r] = "open"
    /\ served[r] = <<>>
    /\ served' = [served EXCEPT ![r] = <<result>>]
    /\ answers' = [answers EXCEPT ![r] = <<result>>]
    /\ status' = [status EXCEPT ![r] = "answered"]

Return(r) ==
    /\ status[r] = "open"
    /\ status' = [status EXCEPT ![r] = IF answers[r] = <<>> THEN "failed"
                                       ELSE "answered"]
    /\ UNCHANGED <<served, answers>>

Next ==
    \E r \in Request :
        \/ Ask(r)
        \/ \E result \in BOOLEAN : Serve(r, result) \/ ServeLocally(r, result)
        \/ Answer(r)
        \/ Return(r)

Spec == Init /\ [][Next]_vars
=============================================================================
