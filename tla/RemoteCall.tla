----------------------------- MODULE RemoteCall -----------------------------
(***************************************************************************)
(* What websocket_endpoint::send_blocking promises to the windows of a     *)
(* client, seen with the server's answers: a client has at most one call   *)
(* open, the server executes a call at most once, and a call that returns  *)
(* returns what the server answered to that very call.  It is not promised *)
(* that a call returns.                                                    *)
(***************************************************************************)
EXTENDS Naturals, Sequences

CONSTANTS Client, Answer

VARIABLES
    calls,      \* calls[c]: how many calls client c has made
    answers,    \* answers[c]: the answers of those the server has executed
    received    \* received[c]: what the calls of c have returned

rcVars == <<calls, answers, received>>

Init ==
    /\ calls = [c \in Client |-> 0]
    /\ answers = [c \in Client |-> <<>>]
    /\ received = [c \in Client |-> <<>>]

Call(c) ==
    /\ Len(received[c]) = calls[c]
    /\ calls' = [calls EXCEPT ![c] = @ + 1]
    /\ UNCHANGED <<answers, received>>

Execute(c) ==
    /\ Len(answers[c]) < calls[c]
    /\ \E a \in Answer : answers' = [answers EXCEPT ![c] = Append(@, a)]
    /\ UNCHANGED <<calls, received>>

Return(c) ==
    /\ Len(received[c]) < Len(answers[c])
    /\ received' = [received EXCEPT ![c] = Append(@, answers[c][Len(@) + 1])]
    /\ UNCHANGED <<calls, answers>>

Next == \E c \in Client : Call(c) \/ Execute(c) \/ Return(c)

Spec == Init /\ [][Next]_rcVars

=============================================================================
