------------------------------ MODULE Endpoint ------------------------------
(***************************************************************************)
(* The connection between the clients and the server.                      *)
(*                                                                         *)
(* A client process has two threads: the GUI thread, which calls           *)
(* endpoint.send_blocking (src/client/src/socket.cpp) and sleeps on the    *)
(* future of the promise endpoint.p, and the I/O thread, which runs the    *)
(* websocketpp handlers and fulfils that promise.  The server has one      *)
(* thread, which handles one request at a time (on_message of              *)
(* src/server/server.cpp) and answers on the connection it came from.      *)
(*                                                                         *)
(* The states of a connection and what send, close and the handlers do in  *)
(* each of them are websocketpp's, as these two files use it.              *)
(***************************************************************************)
EXTENDS Naturals, Sequences

CONSTANTS
    Client,
    Answer,     \* what the server can answer
    MaxCalls    \* bound: calls a client makes

ASSUME MaxCallsAssumption == MaxCalls \in Nat

VARIABLES
    gui,        \* gui[c]: where the GUI thread of c is
    conn,       \* conn[c]: m_state of the connection, as c sees it
    link,       \* link[c]: whether bytes still travel between c and the server
    p,          \* p[c]: endpoint.p, the answer in it or <<>>
    requests,   \* requests[c]: what c has sent and the server has not handled
    replies,    \* replies[c]: what the server has sent and c has not read
    calls,      \* calls[c]: how many calls c has made
    executed,   \* executed[c]: the answers of the requests of c, in order
    received,   \* received[c]: what the calls of c have returned
    lost        \* lost[c]: why the open call of c will never be answered

vars == <<gui, conn, link, p, requests, replies, calls, executed, received, lost>>

(* "idle"       in the event loop, no call open                            *)
(* "fresh"      in send_blocking, p assigned, the request not yet sent     *)
(* "waiting"    in future.wait()                                           *)
(* "joining"    in the destructor, in m_thread->join()                     *)
(* "exited", "killed"    the process is gone                               *)
(* "terminated" std::terminate: the destructor left m_thread joinable      *)
(* "satisfied"  std::terminate: set_value on a promise that has its value  *)
GuiState == {"idle", "fresh", "waiting", "joining", "exited", "killed",
             "terminated", "satisfied"}
ConnState == {"connecting", "open", "closing", "closed"}
Loss == {"no", "refused", "dropped", "unanswered"}

Reply == [call : Nat, answer : Answer]

(* The two threads, the connection, the promise and the traffic are what   *)
(* the lists above say (the members of websocket_endpoint, socket.h:49-53).*)
TypeOK ==
    /\ gui \in [Client -> GuiState]
    /\ conn \in [Client -> ConnState]
    /\ link \in [Client -> {"up", "down"}]
    /\ p \in [Client -> Seq(Reply)]
    /\ requests \in [Client -> Seq(Nat)]
    /\ replies \in [Client -> Seq(Reply)]
    /\ calls \in [Client -> 0 .. MaxCalls]
    /\ executed \in [Client -> Seq(Answer)]
    /\ received \in [Client -> Seq(Answer)]
    /\ lost \in [Client -> Loss]

Running(c) == gui[c] \in {"idle", "fresh", "waiting", "joining"}

(* The constructor of the global endpoint: the connection is being opened. *)
Init ==
    /\ gui = [c \in Client |-> "idle"]
    /\ conn = [c \in Client |-> "connecting"]
    /\ link = [c \in Client |-> "up"]
    /\ p = [c \in Client |-> <<>>]
    /\ requests = [c \in Client |-> <<>>]
    /\ replies = [c \in Client |-> <<>>]
    /\ calls = [c \in Client |-> 0]
    /\ executed = [c \in Client |-> <<>>]
    /\ received = [c \in Client |-> <<>>]
    /\ lost = [c \in Client |-> "no"]

-----------------------------------------------------------------------------
(* The GUI thread. *)

(* A definition named "Bad..." is a fault the one after it might have had, *)
(* kept to see that the properties tell the two apart.                     *)
BadSendBlocking(c) ==
    /\ gui[c] = "idle" /\ calls[c] < MaxCalls
    /\ gui' = [gui EXCEPT ![c] = "fresh"]
    /\ calls' = [calls EXCEPT ![c] = @ + 1]
    /\ UNCHANGED <<conn, link, p, requests, replies, executed, received, lost>>

(* send_blocking: p = std::promise<std::string>() *)
SendBlocking(c) ==
    /\ gui[c] = "idle" /\ calls[c] < MaxCalls
    /\ gui' = [gui EXCEPT ![c] = "fresh"]
    /\ p' = [p EXCEPT ![c] = <<>>]
    /\ calls' = [calls EXCEPT ![c] = @ + 1]
    /\ UNCHANGED <<conn, link, requests, replies, executed, received, lost>>

(* send: websocketpp refuses on a connection that is not open and reports  *)
(* it in ec, which send drops; the bytes may also go nowhere.              *)
Send(c) ==
    /\ gui[c] = "fresh"
    /\ gui' = [gui EXCEPT ![c] = "waiting"]
    /\ \/ /\ conn[c] = "open" /\ link[c] = "up"
          /\ requests' = [requests EXCEPT ![c] = Append(@, calls[c])]
          /\ UNCHANGED lost
       \/ /\ conn[c] = "open" /\ link[c] = "down"
          /\ lost' = [lost EXCEPT ![c] = "dropped"]
          /\ UNCHANGED requests
       \/ /\ conn[c] # "open"
          /\ lost' = [lost EXCEPT ![c] = "refused"]
          /\ UNCHANGED requests
    /\ UNCHANGED <<conn, link, p, replies, calls, executed, received>>

BadUpdateFuture(c) ==      \* wait_for, and something else when there is no answer
    /\ gui[c] = "waiting"
    /\ gui' = [gui EXCEPT ![c] = "idle"]
    /\ \E a \in Answer : received' = [received EXCEPT ![c] =
          Append(@, IF p[c] = <<>> THEN a ELSE p[c][1].answer)]
    /\ UNCHANGED <<conn, link, p, requests, replies, calls, executed, lost>>

(* update_future: future.wait() ends when p has its value. *)
UpdateFuture(c) ==
    /\ gui[c] = "waiting" /\ p[c] # <<>>
    /\ gui' = [gui EXCEPT ![c] = "idle"]
    /\ received' = [received EXCEPT ![c] = Append(@, p[c][1].answer)]
    /\ UNCHANGED <<conn, link, p, requests, replies, calls, executed, lost>>

(* The event loop has ended; ~websocket_endpoint closes the connection. If *)
(* that fails it returns before join() and the thread is destroyed         *)
(* joinable.                                                               *)
Destroy(c) ==
    /\ gui[c] = "idle"
    /\ \/ /\ conn[c] = "open"
          /\ conn' = [conn EXCEPT ![c] = "closing"]
          /\ gui' = [gui EXCEPT ![c] = "joining"]
       \/ /\ conn[c] # "open"
          /\ gui' = [gui EXCEPT ![c] = "terminated"]
          /\ UNCHANGED conn
    /\ UNCHANGED <<link, p, requests, replies, calls, executed, received, lost>>

(* m_thread->join(): run() returns when the connection is gone. *)
Join(c) ==
    /\ gui[c] = "joining" /\ conn[c] = "closed"
    /\ gui' = [gui EXCEPT ![c] = "exited"]
    /\ UNCHANGED <<conn, link, p, requests, replies, calls, executed, received, lost>>

-----------------------------------------------------------------------------
(* The I/O thread. *)

OnOpen(c) ==
    /\ Running(c) /\ conn[c] = "connecting" /\ link[c] = "up"
    /\ conn' = [conn EXCEPT ![c] = "open"]
    /\ UNCHANGED <<gui, link, p, requests, replies, calls, executed, received, lost>>

(* connection_metadata::on_message: endpoint.p.set_value(payload), which   *)
(* throws out of the thread when p has a value.                            *)
OnMessage(c) ==
    /\ Running(c) /\ conn[c] = "open" /\ replies[c] # <<>>
    /\ replies' = [replies EXCEPT ![c] = Tail(@)]
    /\ \/ /\ p[c] = <<>>
          /\ p' = [p EXCEPT ![c] = <<replies[c][1]>>]
          /\ UNCHANGED gui
       \/ /\ p[c] # <<>>
          /\ gui' = [gui EXCEPT ![c] = "satisfied"]
          /\ UNCHANGED p
    /\ UNCHANGED <<conn, link, requests, calls, executed, received, lost>>

BadOnClose(c) ==           \* without the timer of the close handshake
    /\ Running(c) /\ conn[c] # "closed"
    /\ IF conn[c] = "closing" THEN link[c] = "up" ELSE link[c] = "down" /\ replies[c] = <<>>
    /\ conn' = [conn EXCEPT ![c] = "closed"]
    /\ link' = [link EXCEPT ![c] = "down"]
    /\ UNCHANGED <<gui, p, requests, replies, calls, executed, received, lost>>

(* on_fail and on_close: neither touches p.  The thread gets here when it  *)
(* has read everything and the bytes stop, or when the close handshake the *)
(* destructor began ends, by the server's answer or by its timer.          *)
OnClose(c) ==
    /\ Running(c)
    /\ \/ conn[c] \in {"connecting", "open"} /\ link[c] = "down" /\ replies[c] = <<>>
       \/ conn[c] = "closing"
    /\ conn' = [conn EXCEPT ![c] = "closed"]
    /\ link' = [link EXCEPT ![c] = "down"]
    /\ UNCHANGED <<gui, p, requests, replies, calls, executed, received, lost>>

-----------------------------------------------------------------------------
BadHandle(c, copies) ==    \* s->send is called so many times
    /\ requests[c] # <<>>
    /\ requests' = [requests EXCEPT ![c] = Tail(@)]
    /\ \E a \in Answer :
        /\ executed' = [executed EXCEPT ![c] = Append(@, a)]
        /\ replies' = [replies EXCEPT ![c] =
              @ \o [k \in 1 .. copies |-> [call |-> requests[c][1], answer |-> a]]]
    /\ UNCHANGED <<gui, conn, link, p, calls, received, lost>>
BadHandleTwice(c) == BadHandle(c, 2)
BadHandleSilently(c) == BadHandle(c, 0)

(* The server: s->send(hdl, message, ..) after the method of Database. *)
Handle(c) ==
    /\ requests[c] # <<>>
    /\ requests' = [requests EXCEPT ![c] = Tail(@)]
    /\ \E a \in Answer :
        /\ executed' = [executed EXCEPT ![c] = Append(@, a)]
        /\ \/ /\ link[c] = "up"
              /\ replies' = [replies EXCEPT ![c] =
                                Append(@, [call |-> requests[c][1], answer |-> a])]
              /\ UNCHANGED lost
           \/ /\ link[c] = "down"
              /\ lost' = [lost EXCEPT ![c] = "dropped"]
              /\ UNCHANGED replies
    /\ UNCHANGED <<gui, conn, link, p, calls, received>>

BadHandleThrows(c) ==      \* the empty string is sent from the catch block
    /\ requests[c] # <<>>
    /\ requests' = [requests EXCEPT ![c] = Tail(@)]
    /\ replies' = [replies EXCEPT ![c] = Append(@, [call |-> requests[c][1], answer |-> ""])]
    /\ UNCHANGED <<gui, conn, link, p, calls, executed, received, lost>>

(* The handler throws before it answers (an id std::stoi refuses): the     *)
(* exception is logged, nothing is executed and nothing is sent.           *)
HandleThrows(c) ==
    /\ requests[c] # <<>>
    /\ requests' = [requests EXCEPT ![c] = Tail(@)]
    /\ lost' = [lost EXCEPT ![c] = "unanswered"]
    /\ UNCHANGED <<gui, conn, link, p, replies, calls, executed, received>>

-----------------------------------------------------------------------------
(* The environment: the connection breaks, or the server process ends,     *)
(* with or without what was in flight; the user kills a client.            *)
Break(c) ==
    /\ link[c] = "up"
    /\ link' = [link EXCEPT ![c] = "down"]
    /\ \/ UNCHANGED <<requests, replies, lost>>
       \/ /\ requests[c] # <<>> \/ replies[c] # <<>>
          /\ requests' = [requests EXCEPT ![c] = <<>>]
          /\ replies' = [replies EXCEPT ![c] = <<>>]
          /\ lost' = [lost EXCEPT ![c] = "dropped"]
    /\ UNCHANGED <<gui, conn, p, calls, executed, received>>

Kill(c) ==
    /\ Running(c)
    /\ gui' = [gui EXCEPT ![c] = "killed"]
    /\ UNCHANGED <<conn, link, p, requests, replies, calls, executed, received, lost>>

Next == \E c \in Client :
    \/ SendBlocking(c) \/ Send(c) \/ UpdateFuture(c) \/ Destroy(c) \/ Join(c)
    \/ OnOpen(c) \/ OnMessage(c) \/ OnClose(c)
    \/ Handle(c) \/ HandleThrows(c)
    \/ Break(c) \/ Kill(c)

(* Both threads and the server's loop keep running; nothing obliges a user *)
(* to make a call or to leave, or the connection to break.  A request is   *)
(* handled, if perhaps by an exception.                                    *)
Fairness == \A c \in Client :
    /\ WF_vars(Send(c)) /\ WF_vars(UpdateFuture(c)) /\ WF_vars(Join(c))
    /\ WF_vars(OnOpen(c)) /\ WF_vars(OnMessage(c)) /\ WF_vars(OnClose(c))
    /\ WF_vars(Handle(c) \/ HandleThrows(c))

Spec == Init /\ [][Next]_vars

-----------------------------------------------------------------------------
(* The endpoint keeps the promise of RemoteCall: one call at a time,       *)
(* executed at most once, answered with its own answer.                    *)
RC == INSTANCE RemoteCall WITH answers <- executed
ImplementsRemoteCall == RC!Spec

(* set_value never meets a promise that already has a value: on_message    *)
(* (socket.cpp:38) catches nothing, so that would end the process.  It     *)
(* needs the server to answer once per request, send_blocking to assign p  *)
(* before it sends, and the GUI thread never to leave an open call.        *)
NeverSatisfiedTwice == \A c \in Client : gui[c] # "satisfied"

(* A call that waits has its request or its answer on the way, or in p, in *)
(* exactly one of these places, unless it has been lost; and it is lost    *)
(* only for one of the three reasons of the code: send was refused         *)
(* (socket.cpp:122), bytes were dropped, or the handler threw              *)
(* (server.cpp:499).  No wake-up is missed between send and wait.          *)
WaitingIsJustified == \A c \in Client :
    gui[c] = "waiting" =>
        Len(requests[c]) + Len(replies[c]) + Len(p[c]) = IF lost[c] = "no" THEN 1 ELSE 0

(* Nothing waits in a connection for a client that has no call open: a     *)
(* late answer can never be taken for the answer of the next call.         *)
NoStrayReply == \A c \in Client :
    gui[c] \in {"idle", "fresh", "joining"} => requests[c] = <<>> /\ replies[c] = <<>>

(* Every call that is not lost returns (or its process is killed). *)
CallReturns == \A c \in Client :
    gui[c] \in {"fresh", "waiting"} ~> (gui[c] \in {"idle", "killed"} \/ lost[c] # "no")

(* The destructor that reaches join() gets past it. *)
ExitEnds == \A c \in Client : gui[c] = "joining" ~> gui[c] \in {"exited", "killed"}

(* A call that has been lost never returns: the GUI thread stays in wait() *)
(* until the process is killed, for send_blocking has no timeout           *)
(* (socket.cpp:135) and on_close and on_fail leave p alone (47-57).        *)
LostCallHangs ==
    [][\A c \in Client : gui[c] = "waiting" /\ lost[c] # "no" =>
          gui'[c] \in {"waiting", "killed"} /\ lost'[c] = lost[c]]_vars
=============================================================================
