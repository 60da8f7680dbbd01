---------------------------- MODULE AtomicCalls -----------------------------
(***************************************************************************)
(* Client programs that share the state of one server.  A call asks the    *)
(* server, which acts on its state and answers, and the program has gone   *)
(* on with the answer, all in one step; between two calls of a program the *)
(* others call.  This is the step in which Session, ChatWindow and Boards  *)
(* count: it is not promised that a program takes it.                      *)
(***************************************************************************)
CONSTANTS
    Client, Answer,
    Local,      \* the states of a client program
    Calling,    \* those of them in which it is about to call
    Request,
    State,      \* the states of the server
    Asks,       \* Asks[l]: the request a program calls with in l
    Resume,     \* Resume[l][a]: where it goes on when the answer is a
    Turn,       \* Turn[l]: where it may go from l without a call
    Result,     \* Result[s][r]: the server's next states with its answers to r
    Start,      \* Start[c]: where c starts
    Empty       \* the first state of the server

VARIABLES
    db,         \* the state of the server
    local       \* local[c]: the state of the program of c

acVars == <<db, local>>

Init == db = Empty /\ local = Start

Call(c) ==
    /\ local[c] \in Calling
    /\ \E r \in Result[db][Asks[local[c]]] :
          /\ db' = r.state
          /\ local' = [local EXCEPT ![c] = Resume[@][r.answer]]

Move(c) ==
    /\ local[c] \in Local \ Calling
    /\ \E l \in Turn[local[c]] : local' = [local EXCEPT ![c] = l]
    /\ UNCHANGED db

Next == \E c \in Client : Call(c) \/ Move(c)

Spec == Init /\ [][Next]_acVars
=============================================================================
