---------------------------- MODULE GoogleLogin ----------------------------
(***************************************************************************)
(* The login with Google of the client processes of one computer:          *)
(* GoogleAuth::work (src/client/src/auth_google.cpp), the handler of the   *)
(* Auth button around it (auth.cpp:21-83) and download_userinfo            *)
(* (user.cpp:52-68).                                                       *)
(*                                                                         *)
(* work() runs an event loop inside the handler, and the window with the   *)
(* button stays open: a second click runs a second handler inside the      *)
(* first.  The browser can reach a login only through its reply handler,   *)
(* and only one reply handler of the computer has port 10002: it is a      *)
(* child of the handler's GoogleAuth (auth.cpp:22) and goes with it, at    *)
(* the end of the handler.  A loop is left only when it is the innermost.  *)
(*                                                                         *)
(* What the handler does between work() and its end is Session.  Here it   *)
(* is one stretch in which the thread has no event loop: it may end with   *)
(* the next window or with the process, and it need not end (a call that   *)
(* is lost, Endpoint!LostCallHangs; the loop of auth.cpp:35,               *)
(* Session!LoserSpins).                                                    *)
(***************************************************************************)
EXTENDS Naturals, Sequences, SequencesExt

CONSTANTS
    Client,     \* the processes
    NoClient,   \* nobody
    MaxClicks   \* bound: how many handlers may run inside each other

ASSUME ClientAssumption == NoClient \notin Client
ASSUME ClicksAssumption == MaxClicks \in Nat

VARIABLES
    window,     \* window[c]: "auth", "next" after a login, "closed", "none"
    logins,     \* logins[c]: the handlers that run, the innermost last
    asking,     \* asking[c]: the innermost has left work() and runs on
    named,      \* named[c]: user.get_username() is the name Google reported
    port        \* the process that listens on port 10002

vars == <<window, logins, asking, named, port>>

(* A login hears the browser when its reply handler has the port.          *)
Login == [hears : BOOLEAN, answer : {"none", "denied", "granted"}]

LoginTypeOK ==
    /\ window \in [Client -> {"auth", "next", "closed", "none"}]
    /\ logins \in [Client -> Seq(Login)]
    /\ asking \in [Client -> BOOLEAN]
    /\ named \in [Client -> BOOLEAN]
    /\ port \in Client \cup {NoClient}

LoginInit ==
    /\ window = [c \in Client |-> "none"]
    /\ logins = [c \in Client |-> <<>>]
    /\ asking = [c \in Client |-> FALSE]
    /\ named = [c \in Client |-> FALSE]
    /\ port = NoClient

Start(c) ==
    /\ window[c] = "none" /\ window' = [window EXCEPT ![c] = "auth"]
    /\ UNCHANGED <<logins, asking, named, port>>

(* The process ends: killed, left, or by an exception main.cpp:31 catches. *)
End(c) ==
    /\ window' = [window EXCEPT ![c] = "none"]
    /\ logins' = [logins EXCEPT ![c] = <<>>]
    /\ asking' = [asking EXCEPT ![c] = FALSE]
    /\ named' = [named EXCEPT ![c] = FALSE]
    /\ port' = IF port = c THEN NoClient ELSE port
Kill(c) == window[c] # "none" /\ End(c)

(* Click on Auth: work() up to eventLoop.exec().  A second reply handler   *)
(* finds the port in use, is not told so, and waits all the same.          *)
Click(c) ==
    /\ window[c] = "auth" /\ ~ asking[c] /\ Len(logins[c]) < MaxClicks
    /\ logins' = [logins EXCEPT ![c] =
                    Append(@, [hears |-> port = NoClient, answer |-> "none"])]
    /\ port' = IF port = NoClient THEN c ELSE port
    /\ UNCHANGED <<window, asking, named>>

(* The browser comes back to login k.  granted: download_userinfo sets the *)
(* name and then fetches the picture; either request may throw.  Nothing   *)
(* is connected to the refusal, after which the browser may come again.    *)
Answer(c, k, a) == logins' = [logins EXCEPT ![c][k] = [hears |-> TRUE, answer |-> a]]
Redirect(c) == ~ asking[c] /\ \E k \in DOMAIN logins[c] :
    /\ logins[c][k].hears /\ logins[c][k].answer # "granted"
    /\ \/ Answer(c, k, "granted") /\ named' = [named EXCEPT ![c] = TRUE]
          /\ UNCHANGED <<window, asking, port>>
       \/ Answer(c, k, "denied") /\ UNCHANGED <<window, asking, named, port>>
       \/ End(c)

(* Closing the last window quits every event loop of the process.          *)
CloseWindow(c) ==
    /\ window[c] \in {"auth", "next"} /\ ~ asking[c]
    /\ IF logins[c] = <<>> THEN End(c)
       ELSE /\ window' = [window EXCEPT ![c] = "closed"]
            /\ UNCHANGED <<logins, asking, named, port>>

(* A definition named "Bad..." is a fault the one after it might have had, *)
(* kept to see that the properties tell the two apart.                     *)
BadExits(c, k) == window[c] = "closed" \/ logins[c][k].answer # "none"
BadNoQuit(c, k) == window[c] = "closed"
(* quit() of login k has been called. *)
Exits(c, k) == window[c] = "closed" \/ logins[c][k].answer = "granted"

BadProceed(c) ==            \* any login's quit() ends the loop that runs
    /\ ~ asking[c] /\ \E k \in DOMAIN logins[c] : Exits(c, k)
    /\ asking' = [asking EXCEPT ![c] = TRUE]
    /\ UNCHANGED <<window, logins, named, port>>
(* exec() of the innermost loop returns, and its handler runs on.          *)
Proceed(c) ==
    /\ ~ asking[c] /\ logins[c] # <<>> /\ Exits(c, Len(logins[c]))
    /\ asking' = [asking EXCEPT ![c] = TRUE]
    /\ UNCHANGED <<window, logins, named, port>>

BadFinish(c) ==             \* the reply handler outlives its login
    /\ asking[c] /\ asking' = [asking EXCEPT ![c] = FALSE]
    /\ logins' = [logins EXCEPT ![c] = Front(@)]
    /\ window' = [window EXCEPT ![c] = IF @ = "auth" THEN "next" ELSE @]
    /\ UNCHANGED <<named, port>>
(* The handler ends: it has opened the next window, and its GoogleAuth is  *)
(* destroyed.  What throws in it is Kill.                                  *)
Finish(c) ==
    /\ asking[c]
    /\ IF window[c] = "closed" /\ Len(logins[c]) = 1 THEN End(c)
       ELSE /\ asking' = [asking EXCEPT ![c] = FALSE]
            /\ logins' = [logins EXCEPT ![c] = Front(@)]
            /\ window' = [window EXCEPT ![c] = IF @ = "auth" THEN "next" ELSE @]
            /\ port' = IF Last(logins[c]).hears THEN NoClient ELSE port
            /\ UNCHANGED named

LoginNext == \E c \in Client :
    \/ Start(c) \/ Kill(c) \/ Click(c) \/ Redirect(c) \/ CloseWindow(c)
    \/ Proceed(c) \/ Finish(c)

LoginSpec == LoginInit /\ [][LoginNext]_vars
(* An event loop that was told to quit returns from exec().  The user and  *)
(* the browser need not do anything, and the handler need not end.         *)
FairLoginSpec == LoginSpec /\ \A c \in Client : WF_vars(Proceed(c))

-----------------------------------------------------------------------------
(* A client goes on to its next window only with the name Google reported. *)
(* The handler also runs on without one, and then registers the user of    *)
(* the empty name (auth.cpp:24-47), but only after its window was closed,  *)
(* which ends all the loops (auth_google.cpp:64).                          *)
NextWindowIsNamed ==
    [][\A c \in Client : window[c] = "auth" /\ window'[c] = "next" => named[c]]_vars

(* Once a click has started a login that does not hear, granting the login *)
(* below it has no effect: its loop was told to quit and is never left, so *)
(* that no window opens but by the end of the process.                     *)
SecondClickSticks ==
    [][\A c \in Client :
          logins[c] # <<>> /\ ~ Last(logins[c]).hears /\ window[c] = "auth" =>
             window'[c] # "next"]_vars

(* The port is taken exactly as long as the handler of a login of its      *)
(* holder runs (auth.cpp:22, auth_google.cpp:53), and no two logins hear   *)
(* at once: a handler that ends or dies leaves it to the other clients of  *)
(* the computer, one that hangs does not.                                  *)
PortIsHeld ==
    /\ \A c \in Client : port = c <=> \E k \in DOMAIN logins[c] : logins[c][k].hears
    /\ \A c \in Client : \A j, k \in DOMAIN logins[c] :
          logins[c][j].hears /\ logins[c][k].hears => j = k

(* A login that Google has granted leaves work() for the requests of its   *)
(* handler (auth_google.cpp:61-64), unless the button is clicked again or  *)
(* the window closed before its loop has returned.  Whether the handler    *)
(* then ends is another matter.                                            *)
GrantedLoginGoesOn == \A c \in Client :
    (logins[c] # <<>> /\ Last(logins[c]).answer = "granted")
        ~> \/ asking[c] \/ window[c] # "auth"
           \/ logins[c] # <<>> /\ ~ Last(logins[c]).hears
=============================================================================
