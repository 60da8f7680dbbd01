--------------------------- MODULE EndpointProofs ---------------------------
(***************************************************************************)
(* Theorems about the connection, for every set of clients and answers and *)
(* every number of calls: the type invariant, the absence of a second      *)
(* set_value, of a missed wake-up and of a stray reply, that Endpoint      *)
(* implements RemoteCall, and that handlers over it make atomic calls.     *)
(***************************************************************************)
EXTENDS Handlers, SequenceTheorems, TLAPS

(* One step of client c, its connection or its half of the server. *)
Step(c) ==
    \/ SendBlocking(c) \/ Send(c) \/ UpdateFuture(c) \/ Destroy(c) \/ Join(c)
    \/ OnOpen(c) \/ OnMessage(c) \/ OnClose(c)
    \/ Handle(c) \/ HandleThrows(c)
    \/ Break(c) \/ Kill(c)

(* The inductive invariant, client by client.  The last call of c is open  *)
(* from send_blocking until update_future returns.                         *)
OwnReply(c) == [call |-> calls[c], answer |-> executed[c][calls[c]]]

(* What the three histories of c have to do with each other. *)
Histories(c) ==
    /\ Len(received[c]) <= Len(executed[c])
    /\ Len(executed[c]) <= calls[c] /\ calls[c] <= Len(received[c]) + 1
    /\ \A k \in DOMAIN received[c] : received[c][k] = executed[c][k]
    /\ gui[c] \in {"idle", "joining", "exited", "terminated"} =>
           Len(received[c]) = calls[c] /\ lost[c] = "no"
    /\ gui[c] \in {"fresh", "waiting"} => Len(received[c]) + 1 = calls[c]

(* Where the open call is: in one place at most, and nowhere once lost. *)
OpenCall(c) ==
    /\ gui[c] \notin {"waiting", "killed"} => requests[c] = <<>> /\ replies[c] = <<>>
    /\ gui[c] = "fresh" =>
           p[c] = <<>> /\ lost[c] = "no" /\ Len(executed[c]) + 1 = calls[c]
    /\ requests[c] # <<>> =>
           /\ requests[c] = <<calls[c]>> /\ replies[c] = <<>> /\ p[c] = <<>>
           /\ lost[c] = "no"
           /\ Len(executed[c]) + 1 = calls[c]
    /\ replies[c] # <<>> =>
           /\ replies[c] = <<OwnReply(c)>> /\ requests[c] = <<>> /\ p[c] = <<>>
           /\ lost[c] = "no"
           /\ Len(executed[c]) = calls[c] /\ Len(received[c]) + 1 = calls[c]
    /\ gui[c] = "waiting" /\ p[c] # <<>> =>
           /\ p[c] = <<OwnReply(c)>> /\ lost[c] = "no"
           /\ Len(executed[c]) = calls[c]
    /\ gui[c] = "waiting" /\ lost[c] = "no" =>
           requests[c] # <<>> \/ replies[c] # <<>> \/ p[c] # <<>>
    /\ gui[c] # "satisfied"

IInv == \A c \in Client : Histories(c) /\ OpenCall(c)

-----------------------------------------------------------------------------
(* The short sequences the queues of one connection are.                   *)
LEMMA Singletons ==
    ASSUME NEW e
    PROVE  /\ Len(<<e>>) = 1 /\ <<e>>[1] = e /\ <<e>> # <<>> /\ Len(<<>>) = 0
           /\ Append(<<>>, e) = <<e>> /\ Tail(<<e>>) = <<>>
OBVIOUS

(* Appending keeps the entries there are and puts the new one last.        *)
LEMMA Appended ==
    ASSUME NEW S, NEW s \in Seq(S), NEW e \in S
    PROVE  /\ Append(s, e) \in Seq(S) /\ Len(s) \in Nat
           /\ Len(Append(s, e)) = Len(s) + 1
           /\ DOMAIN s = 1 .. Len(s) /\ DOMAIN Append(s, e) = 1 .. Len(s) + 1
           /\ \A k \in DOMAIN s : Append(s, e)[k] = s[k]
           /\ Append(s, e)[Len(s) + 1] = e
BY AppendProperties

(* Every step of a client, of its I/O thread and of the server is well     *)
(* typed.                                                                  *)
LEMMA TypeStep == TypeOK /\ [Next]_vars => TypeOK'
<1> SUFFICES ASSUME TypeOK, [Next]_vars PROVE TypeOK'
    OBVIOUS
<1>0. CASE UNCHANGED vars
    BY <1>0 DEF TypeOK, vars
<1> SUFFICES ASSUME NEW c \in Client, Step(c) PROVE TypeOK'
    BY <1>0 DEF Next, Step
<1> USE DEF TypeOK, GuiState, ConnState, Loss
<1>1. CASE SendBlocking(c)
    BY <1>1, MaxCallsAssumption DEF SendBlocking
<1>2. CASE Send(c)
    <2>1. Append(requests[c], calls[c]) \in Seq(Nat)
        BY AppendProperties
    <2> QED BY <1>2, <2>1 DEF Send
<1>3. CASE UpdateFuture(c)
    <2>1. p[c] \in Seq(Reply) /\ p[c] # <<>>
        BY <1>3 DEF UpdateFuture
    <2>2. p[c][1] \in Reply
        BY <2>1
    <2>3. Append(received[c], p[c][1].answer) \in Seq(Answer)
        BY <2>2, AppendProperties DEF Reply
    <2> QED BY <1>3, <2>3 DEF UpdateFuture
<1>4. CASE Destroy(c) \/ Join(c) \/ Kill(c)
    BY <1>4 DEF Destroy, Join, Kill
<1>5. CASE OnOpen(c) \/ OnClose(c)
    BY <1>5 DEF OnOpen, OnClose
<1>6. CASE OnMessage(c)
    <2>1. replies[c] \in Seq(Reply) /\ replies[c] # <<>>
        BY <1>6 DEF OnMessage
    <2>2. replies[c][1] \in Reply /\ Tail(replies[c]) \in Seq(Reply)
        BY <2>1
    <2>3. <<replies[c][1]>> \in Seq(Reply)
        BY <2>2
    <2> QED BY <1>6, <2>2, <2>3 DEF OnMessage
<1>7. CASE Handle(c)
    <2>1. requests[c] \in Seq(Nat) /\ requests[c] # <<>>
        BY <1>7 DEF Handle
    <2>2. requests[c][1] \in Nat /\ Tail(requests[c]) \in Seq(Nat)
        BY <2>1
    <2>3. \A a \in Answer : /\ Append(executed[c], a) \in Seq(Answer)
                            /\ [call |-> requests[c][1], answer |-> a] \in Reply
        BY <2>2, AppendProperties DEF Reply
    <2>4. \A a \in Answer :
            Append(replies[c], [call |-> requests[c][1], answer |-> a]) \in Seq(Reply)
        BY <2>3, AppendProperties
    <2> HIDE DEF Reply
    <2> QED BY <1>7, <2>2, <2>3, <2>4 DEF Handle
<1>8. CASE HandleThrows(c)
    <2>1. Tail(requests[c]) \in Seq(Nat)
        BY <1>8 DEF HandleThrows
    <2> QED BY <1>8, <2>1 DEF HandleThrows
<1>9. CASE Break(c)
    <2>0. link' \in [Client -> {"up", "down"}]
        BY <1>9 DEF Break
    <2>1. CASE UNCHANGED <<requests, replies, lost>>
        BY <1>9, <2>0, <2>1 DEF Break
    <2>2. CASE /\ requests' = [requests EXCEPT ![c] = <<>>]
               /\ replies' = [replies EXCEPT ![c] = <<>>]
               /\ lost' = [lost EXCEPT ![c] = "dropped"]
        <3>1. requests' \in [Client -> Seq(Nat)]
            BY <2>2
        <3>2. replies' \in [Client -> Seq(Reply)]
            BY <2>2
        <3> QED BY <1>9, <2>0, <2>2, <3>1, <3>2 DEF Break
    <2> QED BY <1>9, <2>1, <2>2 DEF Break
<1> QED BY <1>1, <1>2, <1>3, <1>4, <1>5, <1>6, <1>7, <1>8, <1>9 DEF Step

(* A step of one client leaves everything of the others alone. *)
Same(d) ==
    /\ gui'[d] = gui[d] /\ p'[d] = p[d] /\ requests'[d] = requests[d]
    /\ replies'[d] = replies[d] /\ calls'[d] = calls[d] /\ executed'[d] = executed[d]
    /\ received'[d] = received[d] /\ lost'[d] = lost[d]

(* A step of one client leaves the call of another alone: connections      *)
(* share nothing in this module.                                           *)
LEMMA Frame ==
    ASSUME TypeOK, NEW c \in Client, Step(c), NEW d \in Client, d # c
    PROVE  Same(d)
<1> USE DEF TypeOK, Same
<1>1. CASE SendBlocking(c) \/ Send(c)
    BY <1>1 DEF SendBlocking, Send
<1>2. CASE UpdateFuture(c) \/ Destroy(c) \/ Join(c) \/ Kill(c)
    BY <1>2 DEF UpdateFuture, Destroy, Join, Kill
<1>3. CASE OnOpen(c) \/ OnMessage(c) \/ OnClose(c)
    BY <1>3 DEF OnOpen, OnMessage, OnClose
<1>4. CASE Handle(c) \/ HandleThrows(c)
    BY <1>4 DEF Handle, HandleThrows
<1>5. CASE Break(c)
    BY <1>5 DEF Break
<1> QED BY <1>1, <1>2, <1>3, <1>4, <1>5 DEF Step

(* The steps that change nothing the invariant speaks of but gui. *)
LEMMA GuiStep ==
    ASSUME TypeOK, NEW c \in Client, Histories(c), OpenCall(c),
           p' = p, requests' = requests, replies' = replies, calls' = calls,
           executed' = executed, received' = received, lost' = lost,
           \/ gui' = gui
           \/ gui' = [gui EXCEPT ![c] = "killed"]
           \/ gui[c] = "idle" /\ gui' = [gui EXCEPT ![c] = "joining"]
           \/ gui[c] = "idle" /\ gui' = [gui EXCEPT ![c] = "terminated"]
           \/ gui[c] = "joining" /\ gui' = [gui EXCEPT ![c] = "exited"]
    PROVE  Histories(c)' /\ OpenCall(c)'
<1>1. \/ gui'[c] = gui[c]
      \/ gui'[c] = "killed"
      \/ gui[c] = "idle" /\ gui'[c] \in {"joining", "terminated"}
      \/ gui[c] = "joining" /\ gui'[c] = "exited"
    BY DEF TypeOK
<1>2. Histories(c)'
    BY <1>1 DEF Histories
<1>3. OpenCall(c)'
    BY <1>1 DEF OpenCall, OwnReply
<1> QED BY <1>2, <1>3

(* A step of a client keeps the invariant for that client.                 *)
LEMMA LocalStep ==
    ASSUME TypeOK, TypeOK', NEW c \in Client, Histories(c), OpenCall(c), Step(c)
    PROVE  Histories(c)' /\ OpenCall(c)'
<1>0. /\ calls[c] \in Nat /\ Len(received[c]) \in Nat /\ Len(executed[c]) \in Nat
      /\ received[c] \in Seq(Answer) /\ executed[c] \in Seq(Answer)
      /\ DOMAIN received[c] = 1 .. Len(received[c])
      /\ DOMAIN executed[c] = 1 .. Len(executed[c])
    BY MaxCallsAssumption DEF TypeOK
<1>1. CASE SendBlocking(c)
    <2>1. /\ gui[c] = "idle" /\ gui'[c] = "fresh"
          /\ p'[c] = <<>> /\ calls'[c] = calls[c] + 1
          /\ UNCHANGED <<requests, replies, executed, received, lost>>
        BY <1>1 DEF SendBlocking, TypeOK
    <2>2. Len(received[c]) = calls[c] /\ Len(executed[c]) = calls[c] /\ lost[c] = "no"
        BY <1>0, <2>1 DEF Histories
    <2>3. Histories(c)'
        BY <1>0, <2>1, <2>2 DEF Histories
    <2>4. OpenCall(c)'
        BY <1>0, <2>1, <2>2 DEF OpenCall
    <2> QED BY <2>3, <2>4
<1>2. CASE Send(c)
    <2>1. /\ gui[c] = "fresh" /\ gui'[c] = "waiting"
          /\ UNCHANGED <<p, replies, calls, executed, received>>
          /\ \/ requests'[c] = Append(requests[c], calls[c]) /\ lost'[c] = lost[c]
             \/ requests'[c] = requests[c] /\ lost'[c] \in {"dropped", "refused"}
        BY <1>2 DEF Send, TypeOK
    <2>2. /\ p[c] = <<>> /\ lost[c] = "no" /\ requests[c] = <<>> /\ replies[c] = <<>>
          /\ Len(executed[c]) + 1 = calls[c]
        BY <2>1 DEF OpenCall
    <2>3. \/ requests'[c] = <<calls[c]>> /\ lost'[c] = "no"
          \/ requests'[c] = <<>> /\ lost'[c] \in {"dropped", "refused"}
        BY <2>1, <2>2, Singletons
    <2>4. Histories(c)'
        BY <2>1 DEF Histories
    <2>5. OpenCall(c)'
        BY <2>1, <2>2, <2>3, Singletons DEF OpenCall
    <2> QED BY <2>4, <2>5
<1>3. CASE UpdateFuture(c)
    <2>1. /\ gui[c] = "waiting" /\ p[c] # <<>> /\ gui'[c] = "idle"
          /\ received'[c] = Append(received[c], p[c][1].answer)
          /\ UNCHANGED <<p, requests, replies, calls, executed, lost>>
        BY <1>3 DEF UpdateFuture, TypeOK
    <2>2. /\ p[c] = <<OwnReply(c)>> /\ Len(executed[c]) = calls[c] /\ lost[c] = "no"
          /\ requests[c] = <<>> /\ replies[c] = <<>>
          /\ Len(received[c]) + 1 = calls[c]
        BY <2>1 DEF OpenCall, Histories
    <2>3. p[c][1].answer = executed[c][calls[c]] /\ executed[c][calls[c]] \in Answer
        BY <1>0, <2>2, Singletons DEF OwnReply
    <2>4. /\ Len(received'[c]) = calls[c]
          /\ DOMAIN received'[c] = 1 .. calls[c]
          /\ \A k \in DOMAIN received[c] : received'[c][k] = received[c][k]
          /\ received'[c][calls[c]] = executed[c][calls[c]]
        BY <1>0, <2>1, <2>2, <2>3, Appended
    <2>5. \A k \in DOMAIN received'[c] : received'[c][k] = executed'[c][k]
        BY <1>0, <2>1, <2>2, <2>4 DEF Histories
    <2>6. Histories(c)'
        BY <1>0, <2>1, <2>2, <2>4, <2>5 DEF Histories
    <2>7. OpenCall(c)'
        BY <2>1, <2>2 DEF OpenCall
    <2> QED BY <2>6, <2>7
<1>4. CASE Destroy(c) \/ Join(c) \/ Kill(c)
    BY <1>4, GuiStep DEF Destroy, Join, Kill
<1>5. CASE OnOpen(c) \/ OnClose(c)
    BY <1>5, GuiStep DEF OnOpen, OnClose
<1>6. CASE OnMessage(c)
    <2>1. replies[c] # <<>> /\ gui[c] \in {"idle", "fresh", "waiting", "joining"}
        BY <1>6 DEF OnMessage, Running
    <2>2. /\ replies[c] = <<OwnReply(c)>> /\ requests[c] = <<>> /\ p[c] = <<>>
          /\ lost[c] = "no" /\ gui[c] = "waiting"
          /\ Len(executed[c]) = calls[c] /\ Len(received[c]) + 1 = calls[c]
        BY <2>1 DEF OpenCall
    <2>3. /\ gui' = gui /\ p'[c] = <<replies[c][1]>> /\ replies'[c] = Tail(replies[c])
          /\ UNCHANGED <<requests, calls, executed, received, lost>>
        BY <1>6, <2>2 DEF OnMessage, TypeOK
    <2>4. p'[c] = <<OwnReply(c)>> /\ replies'[c] = <<>>
        BY <2>2, <2>3, Singletons
    <2>5. Histories(c)'
        BY <2>3 DEF Histories
    <2>6. OpenCall(c)'
        BY <2>2, <2>3, <2>4, Singletons DEF OpenCall, OwnReply
    <2> QED BY <2>5, <2>6
<1>7. CASE Handle(c)
    <2>1. PICK a \in Answer :
            /\ executed'[c] = Append(executed[c], a)
            /\ requests'[c] = Tail(requests[c])
            /\ \/ /\ replies'[c] = Append(replies[c], [call |-> requests[c][1], answer |-> a])
                  /\ lost'[c] = lost[c]
               \/ replies'[c] = replies[c] /\ lost'[c] = "dropped"
        BY <1>7 DEF Handle, TypeOK
    <2>2. requests[c] # <<>> /\ UNCHANGED <<gui, p, calls, received>>
        BY <1>7 DEF Handle
    <2>3. /\ requests[c] = <<calls[c]>> /\ replies[c] = <<>> /\ p[c] = <<>>
          /\ lost[c] = "no" /\ gui[c] \in {"waiting", "killed"}
          /\ Len(executed[c]) + 1 = calls[c]
        BY <2>2 DEF OpenCall
    <2>4. /\ Len(executed'[c]) = calls[c] /\ executed'[c][calls[c]] = a
          /\ \A k \in DOMAIN executed[c] : executed'[c][k] = executed[c][k]
        BY <1>0, <2>1, <2>3, Appended
    <2>5. requests'[c] = <<>> /\ requests[c][1] = calls[c]
        BY <2>1, <2>3, Singletons
    <2>6. OwnReply(c)' = [call |-> calls[c], answer |-> a]
        BY <2>2, <2>4 DEF OwnReply
    <2>7. \/ replies'[c] = <<OwnReply(c)'>> /\ lost'[c] = "no"
          \/ replies'[c] = <<>> /\ lost'[c] = "dropped"
        BY <2>1, <2>3, <2>5, <2>6, Singletons
    <2>8. Len(received[c]) + 1 = calls[c]
        BY <1>0, <2>3 DEF Histories
    <2>9. Histories(c)'
        BY <1>0, <2>2, <2>3, <2>4, <2>8 DEF Histories
    <2>10. OpenCall(c)'
        <3>1. /\ gui'[c] \in {"waiting", "killed"} /\ p'[c] = <<>> /\ calls'[c] = calls[c]
              /\ requests'[c] = <<>> /\ Len(executed'[c]) = calls'[c]
              /\ Len(received'[c]) + 1 = calls'[c]
            BY <2>2, <2>3, <2>4, <2>5, <2>8
        <3> HIDE DEF OwnReply
        <3> QED BY <2>7, <3>1, Singletons DEF OpenCall
    <2> QED BY <2>9, <2>10
<1>8. CASE HandleThrows(c)
    <2>1. /\ requests[c] # <<>> /\ requests'[c] = Tail(requests[c])
          /\ lost'[c] = "unanswered"
          /\ UNCHANGED <<gui, p, replies, calls, executed, received>>
        BY <1>8 DEF HandleThrows, TypeOK
    <2>2. /\ requests[c] = <<calls[c]>> /\ replies[c] = <<>> /\ p[c] = <<>>
          /\ gui[c] \in {"waiting", "killed"}
        BY <2>1 DEF OpenCall
    <2>3. requests'[c] = <<>>
        BY <2>1, <2>2, Singletons
    <2>4. Histories(c)'
        BY <2>1, <2>2 DEF Histories
    <2>5. OpenCall(c)'
        BY <2>1, <2>2, <2>3 DEF OpenCall
    <2> QED BY <2>4, <2>5
<1>9. CASE Break(c)
    <2>0. UNCHANGED <<gui, p, calls, executed, received>>
        BY <1>9 DEF Break
    <2>1. CASE UNCHANGED <<requests, replies, lost>>
        BY <2>0, <2>1, GuiStep
    <2>2. CASE /\ requests[c] # <<>> \/ replies[c] # <<>>
               /\ requests'[c] = <<>> /\ replies'[c] = <<>> /\ lost'[c] = "dropped"
        <3>1. gui[c] \in {"waiting", "killed"} /\ p[c] = <<>>
            BY <2>2 DEF OpenCall
        <3>2. Histories(c)'
            BY <2>0, <2>2, <3>1 DEF Histories
        <3>3. OpenCall(c)'
            BY <2>0, <2>2, <3>1 DEF OpenCall
        <3> QED BY <3>2, <3>3
    <2> QED BY <1>9, <2>1, <2>2 DEF Break, TypeOK
<1> QED BY <1>1, <1>2, <1>3, <1>4, <1>5, <1>6, <1>7, <1>8, <1>9 DEF Step

(* Before its first call a client has nothing sent, answered or waiting.   *)
LEMMA Initially == Init => TypeOK /\ IInv
<1> SUFFICES ASSUME Init PROVE TypeOK /\ IInv
    OBVIOUS
<1>1. TypeOK
    BY MaxCallsAssumption DEF Init, TypeOK, GuiState, ConnState, Loss
<1>2. IInv
    <2> SUFFICES ASSUME NEW c \in Client PROVE Histories(c) /\ OpenCall(c)
        BY DEF IInv
    <2>1. /\ gui[c] = "idle" /\ lost[c] = "no" /\ calls[c] = 0
          /\ requests[c] = <<>> /\ replies[c] = <<>>
          /\ executed[c] = <<>> /\ received[c] = <<>>
        BY DEF Init
    <2>2. Len(received[c]) = 0 /\ Len(executed[c]) = 0 /\ DOMAIN received[c] = {}
        BY <2>1
    <2>3. Histories(c)
        BY <2>1, <2>2 DEF Histories
    <2>4. OpenCall(c)
        BY <2>1 DEF OpenCall
    <2> QED BY <2>3, <2>4
<1> QED BY <1>1, <1>2

(* IInv is inductive: LocalStep for the client that moves, Frame for the   *)
(* rest.                                                                   *)
LEMMA InvariantStep == TypeOK /\ TypeOK' /\ IInv /\ [Next]_vars => IInv'
<1> SUFFICES ASSUME TypeOK, TypeOK', IInv, [Next]_vars, NEW d \in Client
             PROVE  Histories(d)' /\ OpenCall(d)'
    BY DEF IInv
<1>0. Histories(d) /\ OpenCall(d)
    BY DEF IInv
<1>1. CASE Same(d)
    <2>1. Histories(d)'
        BY <1>0, <1>1 DEF Same, Histories
    <2>2. OpenCall(d)'
        BY <1>0, <1>1 DEF Same, OpenCall, OwnReply
    <2> QED BY <2>1, <2>2
<1>2. CASE UNCHANGED vars
    BY <1>1, <1>2 DEF Same, vars
<1>3. ASSUME NEW c \in Client, Step(c) PROVE Histories(d)' /\ OpenCall(d)'
    <2>1. CASE d = c
        BY <1>0, <1>3, <2>1, LocalStep
    <2>2. CASE d # c
        BY <1>1, <1>3, <2>2, Frame
    <2> QED BY <2>1, <2>2
<1> QED BY <1>2, <1>3 DEF Next, Step

(* What the invariant says of the promise, of a call that waits and of a   *)
(* client with no call open.                                               *)
LEMMA InvariantImplies ==
    TypeOK /\ IInv => NeverSatisfiedTwice /\ WaitingIsJustified /\ NoStrayReply
<1> SUFFICES ASSUME TypeOK, IInv, NEW c \in Client
             PROVE  /\ gui[c] # "satisfied"
                    /\ gui[c] = "waiting" =>
                         Len(requests[c]) + Len(replies[c]) + Len(p[c])
                            = IF lost[c] = "no" THEN 1 ELSE 0
                    /\ gui[c] \in {"idle", "fresh", "joining"} =>
                         requests[c] = <<>> /\ replies[c] = <<>>
    BY DEF NeverSatisfiedTwice, WaitingIsJustified, NoStrayReply
<1>1. OpenCall(c)
    BY DEF IInv
<1>2. gui[c] # "satisfied"
    BY <1>1 DEF OpenCall
<1>3. ASSUME gui[c] = "waiting"
      PROVE  Len(requests[c]) + Len(replies[c]) + Len(p[c])
                = IF lost[c] = "no" THEN 1 ELSE 0
    <2>1. CASE requests[c] # <<>>
        <3>1. /\ requests[c] = <<calls[c]>> /\ replies[c] = <<>> /\ p[c] = <<>>
              /\ lost[c] = "no"
            BY <1>1, <2>1 DEF OpenCall
        <3>2. Len(requests[c]) = 1 /\ Len(replies[c]) = 0 /\ Len(p[c]) = 0
            BY <3>1, Singletons
        <3> QED BY <3>1, <3>2
    <2>2. CASE replies[c] # <<>>
        <3>1. /\ replies[c] = <<OwnReply(c)>> /\ requests[c] = <<>> /\ p[c] = <<>>
              /\ lost[c] = "no"
            BY <1>1, <2>2 DEF OpenCall
        <3>2. Len(requests[c]) = 0 /\ Len(replies[c]) = 1 /\ Len(p[c]) = 0
            BY <3>1, Singletons
        <3> QED BY <3>1, <3>2
    <2>3. CASE p[c] # <<>>
        <3>1. /\ p[c] = <<OwnReply(c)>> /\ requests[c] = <<>> /\ replies[c] = <<>>
              /\ lost[c] = "no"
            BY <1>1, <1>3, <2>3 DEF OpenCall
        <3>2. Len(requests[c]) = 0 /\ Len(replies[c]) = 0 /\ Len(p[c]) = 1
            BY <3>1, Singletons
        <3> QED BY <3>1, <3>2
    <2>4. CASE requests[c] = <<>> /\ replies[c] = <<>> /\ p[c] = <<>>
        BY <1>1, <1>3, <2>4, Singletons DEF OpenCall
    <2> QED BY <2>1, <2>2, <2>3, <2>4
<1>4. gui[c] \in {"idle", "fresh", "joining"} => requests[c] = <<>> /\ replies[c] = <<>>
    BY <1>1 DEF OpenCall
<1> QED BY <1>2, <1>3, <1>4

-----------------------------------------------------------------------------
(* The state of both threads and of the connection stays well typed.       *)
THEOREM TypeCorrect == Spec => []TypeOK
BY Initially, TypeStep, PTL DEF Spec

(* The open call of a client is in exactly one place: its request, its     *)
(* answer, p, or lost; and the histories of calls and answers agree with   *)
(* it.                                                                     *)
THEOREM Invariant == Spec => []IInv
<1>1. TypeOK /\ TypeOK' /\ IInv /\ [Next]_vars => IInv'
    BY InvariantStep
<1> QED BY <1>1, Initially, TypeCorrect, PTL DEF Spec

(* set_value never finds a promise that already has its value: p is        *)
(* assigned anew before each send, and the server answers a request once   *)
(* (socket.cpp:38 and 128).                                                *)
THEOREM PromiseSafe == Spec => []NeverSatisfiedTwice
BY InvariantImplies, TypeCorrect, Invariant, PTL

(* A GUI thread sleeps in future.wait() only while its answer is still to  *)
(* come or the call has been lost: no wake-up is missed.                   *)
THEOREM NoMissedWakeUp == Spec => []WaitingIsJustified
BY InvariantImplies, TypeCorrect, Invariant, PTL

(* No answer is left over for a call that did not ask for it.              *)
THEOREM NoReplyLeftOver == Spec => []NoStrayReply
BY InvariantImplies, TypeCorrect, Invariant, PTL

(* A call of send_blocking is executed at most once and returns the answer *)
(* to itself: every step of Endpoint is a step of RemoteCall or a stutter. *)
THEOREM Refinement == Spec => ImplementsRemoteCall
<1>1. Init => RC!Init
    BY DEF Init, RC!Init
<1>2. TypeOK /\ IInv /\ [Next]_vars => [RC!Next]_(RC!rcVars)
    <2> SUFFICES ASSUME TypeOK, IInv, [Next]_vars
                 PROVE  [RC!Next]_(RC!rcVars)
        OBVIOUS
    <2>0. CASE UNCHANGED <<calls, executed, received>>
        BY <2>0 DEF RC!rcVars
    <2> SUFFICES ASSUME NEW c \in Client, Step(c)
                 PROVE  [RC!Next]_(RC!rcVars)
        BY <2>0 DEF Next, Step, vars
    <2>a. Histories(c) /\ OpenCall(c)
        BY DEF IInv
    <2>b. /\ calls[c] \in Nat /\ Len(received[c]) \in Nat
          /\ executed[c] \in Seq(Answer)
        BY MaxCallsAssumption DEF TypeOK
    <2>1. CASE SendBlocking(c)
        <3>1. Len(received[c]) = calls[c]
            BY <2>a, <2>1 DEF SendBlocking, Histories
        <3>2. RC!Call(c)
            BY <2>1, <3>1 DEF SendBlocking, RC!Call
        <3> QED BY <3>2 DEF RC!Next
    <2>2. CASE Handle(c)
        <3>1. Len(executed[c]) + 1 = calls[c]
            BY <2>a, <2>2 DEF Handle, OpenCall
        <3>2. Len(executed[c]) < calls[c]
            BY <2>b, <3>1
        <3>3. RC!Execute(c)
            BY <2>2, <3>2 DEF Handle, RC!Execute
        <3> QED BY <3>3 DEF RC!Next
    <2>3. CASE UpdateFuture(c)
        <3>1. /\ p[c] = <<OwnReply(c)>> /\ Len(executed[c]) = calls[c]
              /\ Len(received[c]) + 1 = calls[c]
            BY <2>a, <2>3 DEF UpdateFuture, OpenCall, Histories
        <3>2. p[c][1].answer = executed[c][Len(received[c]) + 1]
            BY <3>1 DEF OwnReply
        <3>3. Len(received[c]) < Len(executed[c])
            BY <2>b, <3>1
        <3>4. RC!Return(c)
            BY <2>3, <3>2, <3>3 DEF UpdateFuture, RC!Return, TypeOK
        <3> QED BY <3>4 DEF RC!Next
    <2>4. CASE Send(c) \/ Destroy(c) \/ Join(c) \/ Kill(c)
        BY <2>0, <2>4 DEF Send, Destroy, Join, Kill
    <2>5. CASE OnOpen(c) \/ OnMessage(c) \/ OnClose(c) \/ HandleThrows(c) \/ Break(c)
        BY <2>0, <2>5 DEF OnOpen, OnMessage, OnClose, HandleThrows, Break
    <2> QED BY <2>1, <2>2, <2>3, <2>4, <2>5 DEF Step
<1> QED BY <1>1, <1>2, TypeCorrect, Invariant, PTL DEF Spec, RC!Spec, ImplementsRemoteCall

(* A call whose request or answer is lost hangs until the process is       *)
(* killed: no step of any thread can complete it.                          *)
THEOREM LostCallsHang == Spec => LostCallHangs
<1> DEFINE Hangs(d) == gui[d] = "waiting" /\ lost[d] # "no" =>
                          gui'[d] \in {"waiting", "killed"} /\ lost'[d] = lost[d]
<1>1. ASSUME TypeOK, IInv, Next, NEW d \in Client PROVE Hangs(d)
    <2> SUFFICES ASSUME gui[d] = "waiting", lost[d] # "no"
                 PROVE  gui'[d] \in {"waiting", "killed"} /\ lost'[d] = lost[d]
        OBVIOUS
    <2>0. p[d] = <<>> /\ requests[d] = <<>> /\ replies[d] = <<>>
        BY <1>1 DEF IInv, OpenCall
    <2> PICK c \in Client : Step(c)
        BY <1>1 DEF Next, Step
    <2>1. CASE c # d
        BY <1>1, <2>1, Frame DEF Same
    <2>2. CASE c = d
        <3>1. ~ UpdateFuture(d) /\ ~ OnMessage(d) /\ ~ Handle(d) /\ ~ HandleThrows(d)
            BY <2>0 DEF UpdateFuture, OnMessage, Handle, HandleThrows
        <3>2. ~ SendBlocking(d) /\ ~ Send(d) /\ ~ Destroy(d) /\ ~ Join(d)
            BY DEF SendBlocking, Send, Destroy, Join
        <3>3. CASE OnOpen(d) \/ OnClose(d)
            BY <3>3 DEF OnOpen, OnClose
        <3>4. CASE Break(d)
            BY <2>0, <3>4 DEF Break
        <3>5. CASE Kill(d)
            BY <1>1, <3>5 DEF Kill, TypeOK
        <3> QED BY <2>2, <3>1, <3>2, <3>3, <3>4, <3>5 DEF Step
    <2> QED BY <2>1, <2>2
<1>2. TypeOK /\ IInv /\ [Next]_vars => [\A c \in Client : Hangs(c)]_vars
    BY <1>1
<1> QED BY <1>2, TypeCorrect, Invariant, PTL DEF Spec, LostCallHangs

-----------------------------------------------------------------------------
(* What the handlers do they do through the endpoint, so that all the      *)
(* above holds of them.                                                    *)
LEMMA HandlersStep == [HandlersNext]_hVars => [Next]_vars
BY DEF HandlersNext, hVars, Event, Ask, GoOn, Act, Other, Next

(* Whoever has a call open is at a place of the handler that calls.        *)
AskingOK ==
    /\ db \in State /\ local \in [Client -> Local]
    /\ \A c \in Client : Len(received[c]) # calls[c] => local[c] \in Calling

(* One step of the handlers of c, or of the server for c.                  *)
HandlerStep(c) == Event(c) \/ Ask(c) \/ GoOn(c) \/ Act(c) \/ Other(c)

(* What a step of the handlers is for the two histories the mapping reads. *)
LEMMA HandlerShape ==
    ASSUME TypeOK, IInv, AskingOK, NEW c \in Client, HandlerStep(c)
    PROVE  /\ \A d \in Client \ {c} :
                 /\ calls'[d] = calls[d] /\ executed'[d] = executed[d]
                 /\ received'[d] = received[d] /\ local'[d] = local[d]
           /\ db' \in State /\ local' \in [Client -> Local]
           /\ \/ /\ Event(c) /\ Len(received[c]) = calls[c] /\ Len(executed[c]) = calls[c]
                 /\ UNCHANGED <<calls, executed, received>>
              \/ /\ Len(executed[c]) = Len(received[c]) /\ local[c] \in Calling
                 /\ UNCHANGED <<db, local, executed, received>>
              \/ /\ Len(executed[c]) = calls[c] /\ Len(received[c]) + 1 = calls[c]
                 /\ Len(received'[c]) = calls[c]
                 /\ local'[c] = Resume[local[c]][executed[c][calls[c]]]
                 /\ UNCHANGED <<db, calls, executed>>
              \/ /\ Len(executed[c]) = Len(received[c]) /\ local[c] \in Calling
                 /\ \E r \in Result[db][Asks[local[c]]] :
                       /\ db' = r.state
                       /\ Len(executed'[c]) = Len(received[c]) + 1
                       /\ executed'[c][Len(executed'[c])] = r.answer
                 /\ UNCHANGED <<local, calls, received>>
              \/ UNCHANGED <<db, local, calls, executed, received>>
<1> DEFINE Others == \A d \in Client \ {c} :
                 /\ calls'[d] = calls[d] /\ executed'[d] = executed[d]
                 /\ received'[d] = received[d] /\ local'[d] = local[d]
<1>0. /\ Histories(c) /\ OpenCall(c)
      /\ calls[c] \in Nat /\ Len(received[c]) \in Nat /\ Len(executed[c]) \in Nat
      /\ received[c] \in Seq(Answer) /\ executed[c] \in Seq(Answer)
      /\ db \in State /\ local \in [Client -> Local]
    BY MaxCallsAssumption DEF IInv, TypeOK, AskingOK
<1>1. ASSUME Step(c), NEW d \in Client \ {c}
      PROVE  calls'[d] = calls[d] /\ executed'[d] = executed[d] /\ received'[d] = received[d]
    BY <1>1, Frame DEF Same
<1>2. CASE Event(c)
    <2>1. /\ gui[c] = "idle" /\ local[c] \in Local \ Calling
          /\ \E l \in Turn[local[c]] : local' = [local EXCEPT ![c] = l]
          /\ UNCHANGED <<calls, executed, received, db>>
        BY <1>2 DEF Event, vars
    <2>2. Len(received[c]) = calls[c] /\ Len(executed[c]) = calls[c]
        BY <1>0, <2>1 DEF Histories
    <2>3. local' \in [Client -> Local]
        BY <1>0, <2>1, ProgramAssumption
    <2>4. Others
        BY <1>0, <2>1
    <2> QED BY <1>0, <1>2, <2>1, <2>2, <2>3, <2>4
<1>3. CASE Ask(c)
    <2>1. /\ gui[c] = "idle" /\ local[c] \in Calling
          /\ UNCHANGED <<db, local, executed, received>>
        BY <1>3 DEF Ask, SendBlocking
    <2>2. Len(executed[c]) = Len(received[c])
        BY <1>0, <2>1 DEF Histories
    <2>3. Others
        BY <1>1, <1>3, <2>1 DEF Ask, Step
    <2> QED BY <1>0, <2>1, <2>2, <2>3
<1>4. CASE GoOn(c)
    <2>1. /\ gui[c] = "waiting" /\ p[c] # <<>>
          /\ received'[c] = Append(received[c], p[c][1].answer)
          /\ local' = [local EXCEPT ![c] = Resume[local[c]][received'[c][Len(received'[c])]]]
          /\ UNCHANGED <<db, calls, executed>>
        BY <1>0, <1>4 DEF GoOn, UpdateFuture, TypeOK
    <2>2. /\ p[c] = <<OwnReply(c)>> /\ Len(executed[c]) = calls[c]
          /\ Len(received[c]) + 1 = calls[c]
        BY <1>0, <2>1 DEF OpenCall, Histories
    <2>3. /\ p[c][1].answer = executed[c][calls[c]] /\ executed[c][calls[c]] \in Answer
        BY <1>0, <2>2, Singletons DEF OwnReply
    <2>4. /\ Len(received'[c]) = calls[c]
          /\ received'[c][Len(received'[c])] = executed[c][calls[c]]
        BY <1>0, <2>1, <2>2, <2>3, Appended
    <2>5. local' = [local EXCEPT ![c] = Resume[local[c]][executed[c][calls[c]]]]
        BY <2>1, <2>4
    <2>6. Resume[local[c]][executed[c][calls[c]]] \in Local
        <3>1. local[c] \in Calling
            BY <1>0, <2>2 DEF AskingOK
        <3> QED BY <1>0, <2>3, <3>1, ProgramAssumption
    <2>7. local' \in [Client -> Local]
          /\ local'[c] = Resume[local[c]][executed[c][calls[c]]]
          /\ \A d \in Client \ {c} : local'[d] = local[d]
        BY <1>0, <2>5, <2>6
    <2>8. Others
        BY <1>1, <1>4, <2>7 DEF GoOn, Step
    <2> QED BY <1>0, <2>1, <2>2, <2>4, <2>7, <2>8
<1>5. CASE Act(c)
    <2>1. requests[c] # <<>> /\ UNCHANGED <<local, calls, received>>
        BY <1>5 DEF Act, Handle
    <2>2. PICK r \in Result[db][Asks[local[c]]] :
              db' = r.state /\ executed'[c] = Append(executed[c], r.answer)
        BY <1>5 DEF Act
    <2>3. Len(executed[c]) + 1 = calls[c] /\ Len(received[c]) + 1 = calls[c]
        BY <1>0, <2>1 DEF OpenCall, Histories
    <2>4. local[c] \in Calling
        BY <1>0, <2>3 DEF AskingOK
    <2>5. r \in [state : State, answer : Answer]
        BY <1>0, <2>4, ProgramAssumption, ServerAssumption
    <2>6. /\ Len(executed'[c]) = Len(received[c]) + 1
          /\ executed'[c][Len(executed'[c])] = r.answer
        BY <1>0, <2>2, <2>3, <2>5, Appended
    <2>7. Others
        BY <1>1, <1>5, <2>1 DEF Act, Step
    <2> QED BY <1>0, <2>1, <2>2, <2>3, <2>4, <2>5, <2>6, <2>7
<1>6. CASE Other(c)
    <2>1. UNCHANGED <<db, local, calls, executed, received>>
        BY <1>6 DEF Other, Send, Destroy, Join, OnOpen, OnMessage, OnClose,
                    HandleThrows, Break, Kill
    <2> QED BY <1>0, <2>1
<1> QED BY <1>2, <1>3, <1>4, <1>5, <1>6 DEF HandlerStep

(* A client asks before it calls and nothing moves it until it has its     *)
(* answer.                                                                 *)
LEMMA AskingStep == TypeOK /\ IInv /\ AskingOK /\ [HandlersNext]_hVars => AskingOK'
<1> SUFFICES ASSUME TypeOK, IInv, AskingOK, [HandlersNext]_hVars PROVE AskingOK'
    OBVIOUS
<1>0. CASE UNCHANGED hVars
    BY <1>0 DEF hVars, vars, AskingOK
<1>1. ASSUME NEW c \in Client, HandlerStep(c) PROVE AskingOK'
    <2>1. \A d \in Client \ {c} : Len(received'[d]) # calls'[d] => local'[d] \in Calling
        BY <1>1, HandlerShape DEF AskingOK
    <2>2. Len(received'[c]) # calls'[c] => local'[c] \in Calling
        BY <1>1, HandlerShape DEF AskingOK
    <2> QED BY <1>1, <2>1, <2>2, HandlerShape DEF AskingOK
<1> QED BY <1>0, <1>1 DEF HandlersNext, HandlerStep

(* A step of the handlers is a step of AtomicCalls: the one in which the   *)
(* server acts is the call, and waking up with its answer is nothing new.  *)
LEMMA AtomicStep == TypeOK /\ IInv /\ AskingOK /\ [HandlersNext]_hVars => [AC!Next]_AC!acVars
<1> SUFFICES ASSUME TypeOK, IInv, AskingOK, [HandlersNext]_hVars PROVE [AC!Next]_AC!acVars
    OBVIOUS
<1> DEFINE seen == [c \in Client |->
               IF Len(executed[c]) > Len(received[c])
               THEN Resume[local[c]][executed[c][Len(executed[c])]] ELSE local[c]]
<1>0. CASE UNCHANGED <<db, local, executed, received>>
    BY <1>0 DEF AC!acVars
<1>1. ASSUME NEW c \in Client, HandlerStep(c) PROVE [AC!Next]_AC!acVars
    <2>0. /\ Len(received[c]) \in Nat /\ Len(executed[c]) \in Nat /\ calls[c] \in Nat
          /\ local \in [Client -> Local]
        BY MaxCallsAssumption DEF TypeOK, AskingOK
    <2>1. \A d \in Client \ {c} : seen'[d] = seen[d]
        BY <1>1, HandlerShape
    <2>2. ASSUME NEW l, seen'[c] = l PROVE seen' = [seen EXCEPT ![c] = l]
        BY <2>1, <2>2
    <2>3. CASE /\ Event(c) /\ Len(received[c]) = calls[c] /\ Len(executed[c]) = calls[c]
               /\ UNCHANGED <<calls, executed, received>>
        <3>1. seen[c] = local[c] /\ seen'[c] = local'[c]
            BY <2>0, <2>3
        <3>2. PICK l \in Turn[local[c]] :
                  local' = [local EXCEPT ![c] = l] /\ local[c] \in Local \ Calling /\ db' = db
            BY <2>3 DEF Event
        <3>3. seen' = [seen EXCEPT ![c] = l]
            BY <2>0, <2>2, <3>1, <3>2
        <3>4. AC!Move(c)
            BY <3>1, <3>2, <3>3 DEF AC!Move
        <3> QED BY <3>4 DEF AC!Next
    <2>4. CASE /\ Len(executed[c]) = calls[c] /\ Len(received[c]) + 1 = calls[c]
               /\ Len(received'[c]) = calls[c]
               /\ local'[c] = Resume[local[c]][executed[c][calls[c]]]
               /\ UNCHANGED <<db, calls, executed>>
        <3>1. seen[c] = Resume[local[c]][executed[c][calls[c]]] /\ seen'[c] = seen[c]
            BY <2>0, <2>4
        <3>2. seen' = seen
            BY <2>1, <3>1
        <3> QED BY <2>4, <3>2 DEF AC!acVars
    <2>5. CASE /\ Len(executed[c]) = Len(received[c]) /\ local[c] \in Calling
               /\ \E r \in Result[db][Asks[local[c]]] :
                     /\ db' = r.state
                     /\ Len(executed'[c]) = Len(received[c]) + 1
                     /\ executed'[c][Len(executed'[c])] = r.answer
               /\ UNCHANGED <<local, calls, received>>
        <3>1. PICK r \in Result[db][Asks[local[c]]] :
                  /\ db' = r.state
                  /\ Len(executed'[c]) = Len(received[c]) + 1
                  /\ executed'[c][Len(executed'[c])] = r.answer
            BY <2>5
        <3>2. seen[c] = local[c] /\ seen'[c] = Resume[local[c]][r.answer]
            BY <2>0, <2>5, <3>1
        <3>3. seen' = [seen EXCEPT ![c] = Resume[seen[c]][r.answer]]
            BY <2>2, <3>2
        <3>4. AC!Call(c)
            BY <2>5, <3>1, <3>2, <3>3 DEF AC!Call
        <3> QED BY <3>4 DEF AC!Next
    <2> QED BY <1>0, <1>1, <2>3, <2>4, <2>5, HandlerShape
<1> QED BY <1>0, <1>1 DEF HandlersNext, HandlerStep, hVars, vars

(* The handlers use the endpoint as the theorems above suppose: they hold  *)
(* of the clients of Handlers too.                                         *)
THEOREM HandlersUseEndpoint == HandlersSpec => Spec
BY HandlersStep, PTL DEF HandlersSpec, HandlersInit, Spec

(* Every call of a handler can be taken for one step: for any programs,    *)
(* any server that acts on one request at a time and any number of calls,  *)
(* what two threads, queues, broken connections and killed processes make  *)
(* of send_blocking is a behaviour in which a client calls, and has gone   *)
(* on, all at once.  It is what Session, ChatWindow and Boards count on.   *)
THEOREM CallsAreAtomic == HandlersSpec => ImplementsAtomicCalls
<1>1. HandlersSpec => Spec
    BY HandlersUseEndpoint
<1>2. HandlersInit => AskingOK
    BY ProgramAssumption, ServerAssumption DEF HandlersInit, Init, AskingOK
<1>3. HandlersInit => AC!Init
    <2> SUFFICES ASSUME HandlersInit PROVE AC!Init
        OBVIOUS
    <2>1. \A c \in Client : executed[c] = <<>> /\ received[c] = <<>>
        BY DEF HandlersInit, Init
    <2>2. Len(<<>>) = 0 /\ ~ (0 > 0)
        OBVIOUS
    <2>3. \A c \in Client : ~ (Len(executed[c]) > Len(received[c]))
        BY <2>1, <2>2
    <2> QED BY <2>3, ProgramAssumption DEF HandlersInit, AC!Init
<1>4. TypeOK /\ IInv /\ AskingOK /\ [HandlersNext]_hVars => AskingOK'
    BY AskingStep
<1>5. TypeOK /\ IInv /\ AskingOK /\ [HandlersNext]_hVars => [AC!Next]_AC!acVars
    BY AtomicStep
<1> QED BY <1>1, <1>2, <1>3, <1>4, <1>5, TypeCorrect, Invariant, PTL
        DEF HandlersSpec, ImplementsAtomicCalls, AC!Spec
=============================================================================
