------------------------------ MODULE Handlers ------------------------------
(***************************************************************************)
(* What runs over the connections of Endpoint: the handlers of the clients *)
(* in their GUI threads, which go on from each send_blocking with what it  *)
(* returned, and the methods of Database in the thread of the server.      *)
(*                                                                         *)
(* A process is a client of its own: one that is started again is another  *)
(* client.  What a handler does between two calls touches nothing of the   *)
(* server or of another client and is part of the step in which the first  *)
(* of them returns.                                                        *)
(***************************************************************************)
EXTENDS Endpoint

(* The programs and the server, as AtomicCalls describes them. *)
CONSTANTS Local, Calling, Request, State, Asks, Resume, Turn, Result, Start, Empty

ASSUME ProgramAssumption ==
    /\ Calling \subseteq Local /\ Asks \in [Calling -> Request]
    /\ Resume \in [Calling -> [Answer -> Local]]
    /\ Turn \in [Local \ Calling -> SUBSET Local]
    /\ Start \in [Client -> Local]
ASSUME ServerAssumption ==
    /\ Empty \in State
    /\ Result \in [State -> [Request -> SUBSET [state : State, answer : Answer] \ {{}}]]

VARIABLES
    db,         \* what the server keeps
    local       \* local[c]: where the handlers of c are and what they hold

hVars == <<vars, db, local>>

HandlersInit == Init /\ db = Empty /\ local = Start

(* In the event loop, no call open: a button, a timer, the end of a window. *)
Event(c) ==
    /\ gui[c] = "idle" /\ local[c] \in Local \ Calling
    /\ \E l \in Turn[local[c]] : local' = [local EXCEPT ![c] = l]
    /\ UNCHANGED <<vars, db>>

Ask(c) == local[c] \in Calling /\ SendBlocking(c) /\ UNCHANGED <<db, local>>

GoOn(c) ==
    /\ UpdateFuture(c)
    /\ local' = [local EXCEPT ![c] = Resume[@][received'[c][Len(received'[c])]]]
    /\ UNCHANGED db

BadAct(c) ==               \* once more after an answer, as after a timeout
    /\ Handle(c)
    /\ \E first \in Result[db][Asks[local[c]]] :
       \E r \in Result[first.state][Asks[local[c]]] :
          db' = r.state /\ executed'[c] = Append(executed[c], r.answer)
    /\ UNCHANGED local

(* on_message of the server: the request it takes is the one its client    *)
(* still waits for, or was killed in.                                      *)
Act(c) ==
    /\ Handle(c)
    /\ \E r \in Result[db][Asks[local[c]]] :
          db' = r.state /\ executed'[c] = Append(executed[c], r.answer)
    /\ UNCHANGED local

Other(c) ==
    /\ \/ Send(c) \/ Destroy(c) \/ Join(c) \/ OnOpen(c) \/ OnMessage(c) \/ OnClose(c)
       \/ HandleThrows(c) \/ Break(c) \/ Kill(c)
    /\ UNCHANGED <<db, local>>

HandlersNext == \E c \in Client : Event(c) \/ Ask(c) \/ GoOn(c) \/ Act(c) \/ Other(c)

HandlersSpec == HandlersInit /\ [][HandlersNext]_hVars
FairHandlers == HandlersSpec /\ Fairness

-----------------------------------------------------------------------------
(* A call of send_blocking can be taken for one step, the step in which    *)
(* the server acts: where the client is in the queues, asleep or about to  *)
(* wake makes no difference to it or to anybody else.  Seen so, a client   *)
(* has gone on from its open call as soon as the server has answered it.   *)
AC == INSTANCE AtomicCalls WITH
    local <- [c \in Client |->
        IF Len(executed[c]) > Len(received[c])
        THEN Resume[local[c]][executed[c][Len(executed[c])]] ELSE local[c]]
ImplementsAtomicCalls == AC!Spec
=============================================================================
