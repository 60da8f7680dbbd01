------------------------- MODULE GoogleLoginProofs -------------------------
(***************************************************************************)
(* Theorems about the login with Google, for every number of clients of a  *)
(* computer and of clicks: who holds port 10002, that no window opens      *)
(* without a name, and that a second click keeps the first login from      *)
(* ending.                                                                 *)
(***************************************************************************)
EXTENDS GoogleLogin, TLAPS

(* The parts of the invariant, client by client: the holder of the port    *)
(* has a login that hears, no client has two, a login that was granted is  *)
(* one that hears and has set the name, and a handler that runs on is that *)
(* of a granted login or of a closed window.                               *)
Holder(c) == port = c <=> \E k \in DOMAIN logins[c] : logins[c][k].hears
OneHears(c) == \A j, k \in DOMAIN logins[c] : logins[c][j].hears /\ logins[c][k].hears => j = k
GrantedHears(c) == \A k \in DOMAIN logins[c] :
    logins[c][k].answer = "granted" => logins[c][k].hears
GrantedIsNamed(c) == (\E k \in DOMAIN logins[c] : logins[c][k].answer = "granted") => named[c]

AskerMay(c) == asking[c] =>
    logins[c] # <<>> /\ (window[c] = "closed" \/ logins[c][Len(logins[c])].answer = "granted")

CInv(c) == Holder(c) /\ OneHears(c) /\ GrantedHears(c) /\ GrantedIsNamed(c) /\ AskerMay(c)
IInv == \A c \in Client : CInv(c)

(* One step of one client. *)
Step(c) ==
    \/ Start(c) \/ Kill(c) \/ Click(c) \/ Redirect(c) \/ CloseWindow(c)
    \/ Proceed(c) \/ Finish(c)

-----------------------------------------------------------------------------
(* Appending keeps the logins there are and puts the new one innermost.    *)
LEMMA Entered ==
    ASSUME NEW S, NEW s \in Seq(S), NEW e \in S
    PROVE  /\ Append(s, e) \in Seq(S) /\ Len(s) \in Nat /\ DOMAIN s = 1 .. Len(s)
           /\ DOMAIN Append(s, e) = 1 .. Len(s) + 1
           /\ \A k \in DOMAIN s : Append(s, e)[k] = s[k]
           /\ Append(s, e)[Len(s) + 1] = e
OBVIOUS

(* Leaving the innermost login keeps the others.                           *)
LEMMA Left ==
    ASSUME NEW S, NEW s \in Seq(S), s # <<>>
    PROVE  /\ Front(s) \in Seq(S) /\ Len(s) \in Nat \ {0} /\ DOMAIN s = 1 .. Len(s)
           /\ DOMAIN Front(s) = 1 .. Len(s) - 1
           /\ \A k \in DOMAIN Front(s) : k \in DOMAIN s /\ k # Len(s) /\ Front(s)[k] = s[k]
           /\ Last(s) = s[Len(s)] /\ Last(s) \in S
BY DEF Front, Last

(* The state after a step is well typed. *)
LEMMA TypeStep == LoginTypeOK /\ IInv /\ [LoginNext]_vars => LoginTypeOK'
<1> SUFFICES ASSUME LoginTypeOK, IInv, [LoginNext]_vars PROVE LoginTypeOK'
    OBVIOUS
<1>0. CASE UNCHANGED vars
    BY <1>0 DEF vars, LoginTypeOK
<1> SUFFICES ASSUME NEW c \in Client, Step(c) PROVE LoginTypeOK'
    BY <1>0 DEF LoginNext, Step
<1> USE DEF LoginTypeOK
<1>1. CASE Start(c)
    BY <1>1 DEF Start
<1>2. CASE End(c)
    BY <1>2 DEF End
<1>3. CASE Click(c)
    <2>1. Append(logins[c], [hears |-> port = NoClient, answer |-> "none"]) \in Seq(Login)
        BY Entered DEF Login
    <2> QED BY <1>3, <2>1 DEF Click
<1>4. CASE Redirect(c)
    <2>1. ASSUME NEW k \in DOMAIN logins[c], NEW a \in {"denied", "granted"}, Answer(c, k, a)
          PROVE  logins' \in [Client -> Seq(Login)]
        <3>1. [logins[c] EXCEPT ![k] = [hears |-> TRUE, answer |-> a]] \in Seq(Login)
            BY DEF Login
        <3> QED BY <2>1, <3>1 DEF Answer
    <2> QED BY <1>2, <1>4, <2>1 DEF Redirect
<1>5. CASE CloseWindow(c)
    BY <1>2, <1>5 DEF CloseWindow
<1>6. CASE Proceed(c)
    <2>1. asking' \in [Client -> BOOLEAN]
        BY <1>6, Zenon DEF Proceed
    <2> QED BY <1>6, <2>1 DEF Proceed
<1>7. CASE Finish(c) /\ ~ End(c) /\ logins[c] # <<>>
    <2>1. Front(logins[c]) \in Seq(Login)
        BY <1>7, Left
    <2>2. asking' \in [Client -> BOOLEAN]
        BY <1>7, Zenon DEF Finish
    <2> QED BY <1>7, <2>1, <2>2 DEF Finish
<1>8. logins[c] # <<>> \/ ~ asking[c]
    BY DEF IInv, CInv, AskerMay
<1> QED BY <1>1, <1>2, <1>3, <1>4, <1>5, <1>6, <1>7, <1>8 DEF Step, Kill, Finish

(* A step of one client leaves everything of the others alone.             *)
LEMMA Frame ==
    ASSUME NEW c \in Client, NEW d \in Client \ {c}, CInv(d),
           logins'[d] = logins[d], named'[d] = named[d], port' = d <=> port = d,
           asking'[d] = asking[d], window'[d] = window[d]
    PROVE  CInv(d)'
<1>1. Holder(d)' /\ OneHears(d)' /\ GrantedHears(d)'
    BY DEF CInv, Holder, OneHears, GrantedHears
<1>3. AskerMay(d)'
    BY Zenon DEF CInv, AskerMay
<1>2. GrantedIsNamed(d)'
    BY Zenon DEF CInv, GrantedIsNamed
<1> QED BY <1>1, <1>2, <1>3 DEF CInv

(* The end of a process leaves it without a login and without the port.    *)
LEMMA EndStep ==
    ASSUME LoginTypeOK, IInv, NEW c \in Client, End(c) PROVE IInv'
<1>a. /\ NoClient \notin Client /\ logins \in [Client -> Seq(Login)]
      /\ named \in [Client -> BOOLEAN] /\ asking \in [Client -> BOOLEAN]
      /\ window \in [Client -> {"auth", "next", "closed", "none"}]
    BY ClientAssumption DEF LoginTypeOK
<1>1. logins'[c] = <<>> /\ port' # c
    BY <1>a DEF End
<1>2. DOMAIN logins'[c] = {}
    BY <1>1
<1>3. asking'[c] = FALSE
    BY <1>a, Zenon DEF End
<1>4. CInv(c)'
    BY <1>1, <1>2, <1>3 DEF CInv, Holder, OneHears, GrantedHears, GrantedIsNamed, AskerMay
<1>5. ASSUME NEW d \in Client \ {c} PROVE CInv(d)'
    <2>1. /\ logins'[d] = logins[d] /\ (port' = d <=> port = d)
          /\ window'[d] = window[d]
        BY <1>a DEF End
    <2>2. named'[d] = named[d] /\ asking'[d] = asking[d]
        BY <1>a, Zenon DEF End
    <2> QED BY <2>1, <2>2, Frame DEF IInv
<1> QED BY <1>4, <1>5 DEF IInv

(* A click takes the port if it is free, and otherwise cannot hear.        *)
LEMMA ClickStep ==
    ASSUME LoginTypeOK, IInv, NEW c \in Client, Click(c) PROVE IInv'
<1>a. NoClient \notin Client /\ logins \in [Client -> Seq(Login)]
    BY ClientAssumption DEF LoginTypeOK
<1> DEFINE new == [hears |-> port = NoClient, answer |-> "none"]
           n == Len(logins[c]) + 1
<1>1. /\ logins'[c] = Append(logins[c], new) /\ new \in Login
      /\ named' = named /\ asking' = asking /\ window' = window /\ ~ asking[c]
      /\ port' = IF port = NoClient THEN c ELSE port
    BY <1>a DEF Click, Login
<1>2. /\ \A k \in DOMAIN logins'[c] : k \in DOMAIN logins[c] \/ k = n
      /\ \A k \in DOMAIN logins[c] : k \in DOMAIN logins'[c] /\ logins'[c][k] = logins[c][k]
      /\ logins'[c][n] = new /\ n \in DOMAIN logins'[c]
    <2>1. logins[c] \in Seq(Login)
        BY <1>a
    <2> QED BY <1>1, <2>1, Entered
<1>3. /\ new.hears = (port = NoClient) /\ new.answer = "none"
    OBVIOUS
<1> HIDE DEF new, n
<1>4. CInv(c)
    BY DEF IInv
<1>5. Holder(c)' /\ OneHears(c)'
    <2>1. CASE port = NoClient
        <3>1. \A k \in DOMAIN logins[c] : ~ logins[c][k].hears
            BY <1>a, <1>4, <2>1 DEF CInv, Holder
        <3> QED BY <1>1, <1>2, <1>3, <2>1, <3>1 DEF Holder, OneHears
    <2>2. CASE port # NoClient
        BY <1>1, <1>2, <1>3, <1>4, <2>2 DEF CInv, Holder, OneHears
    <2> QED BY <2>1, <2>2
<1>6. GrantedHears(c)'
    BY <1>2, <1>3, <1>4 DEF CInv, GrantedHears
<1>7. GrantedIsNamed(c)'
    <2>1. \A k \in DOMAIN logins'[c] : logins'[c][k].answer = "granted" =>
              \E j \in DOMAIN logins[c] : logins[c][j].answer = "granted"
        BY <1>2, <1>3
    <2> QED BY <1>1, <1>4, <2>1 DEF CInv, GrantedIsNamed
<1>8. ASSUME NEW d \in Client \ {c} PROVE CInv(d)'
    <2>1. logins'[d] = logins[d]
        BY <1>a, <1>1 DEF Click
    <2>2. port' = d <=> port = d
        BY <1>a, <1>1
    <2> QED BY <1>1, <2>1, <2>2, Frame DEF IInv
<1>9. AskerMay(c)'
    BY <1>1 DEF AskerMay
<1> QED BY <1>5, <1>6, <1>7, <1>8, <1>9 DEF IInv, CInv

(* The browser answers a login that hears, and a granted one has the name. *)
LEMMA RedirectStep ==
    ASSUME LoginTypeOK, IInv, NEW c \in Client, Redirect(c), ~ End(c) PROVE IInv'
<1>a. /\ logins \in [Client -> Seq(Login)] /\ named \in [Client -> BOOLEAN]
    BY DEF LoginTypeOK
<1>1. PICK k \in DOMAIN logins[c], a \in {"granted", "denied"} :
        /\ logins[c][k].hears /\ Answer(c, k, a)
        /\ port' = port /\ asking' = asking /\ window' = window /\ ~ asking[c]
        /\ \/ a = "granted" /\ named' = [named EXCEPT ![c] = TRUE]
           \/ a = "denied" /\ named' = named
    BY DEF Redirect
<1>2. /\ DOMAIN logins'[c] = DOMAIN logins[c]
      /\ \A j \in DOMAIN logins[c] \ {k} : logins'[c][j] = logins[c][j]
      /\ logins'[c][k].hears = TRUE /\ logins'[c][k].answer = a
    BY <1>a, <1>1 DEF Answer
<1>3. CInv(c)
    BY DEF IInv
<1>4. Holder(c)' /\ OneHears(c)' /\ GrantedHears(c)'
    BY <1>1, <1>2, <1>3 DEF CInv, Holder, OneHears, GrantedHears
<1>5. GrantedIsNamed(c)'
    <2>1. CASE named' = [named EXCEPT ![c] = TRUE]
        <3>1. named'[c] = TRUE
            BY <1>a, <2>1, Zenon
        <3> QED BY <3>1 DEF GrantedIsNamed
    <2>2. CASE a = "denied" /\ named' = named
        BY <1>2, <1>3, <2>2 DEF CInv, GrantedIsNamed
    <2> QED BY <1>1, <2>1, <2>2
<1>6. ASSUME NEW d \in Client \ {c} PROVE CInv(d)'
    <2>1. logins'[d] = logins[d]
        BY <1>a, <1>1 DEF Answer
    <2>2. named'[d] = named[d]
        BY <1>a, <1>1, Zenon
    <2> QED BY <1>1, <2>1, <2>2, Frame DEF IInv
<1>7. AskerMay(c)'
    BY <1>1 DEF AskerMay
<1> QED BY <1>4, <1>5, <1>6, <1>7 DEF IInv, CInv

(* The innermost login leaves work() by its grant or a closed window.      *)
LEMMA ProceedStep ==
    ASSUME LoginTypeOK, IInv, NEW c \in Client, Proceed(c) PROVE IInv'
<1>1. \A d \in Client : /\ Holder(d)' /\ OneHears(d)' /\ GrantedHears(d)'
                         /\ GrantedIsNamed(d)'
    BY DEF Proceed, IInv, CInv, Holder, OneHears, GrantedHears, GrantedIsNamed
<1>2. AskerMay(c)'
    BY DEF Proceed, Exits, AskerMay
<1>3. ASSUME NEW d \in Client \ {c} PROVE AskerMay(d)'
    <2>1. asking'[d] = asking[d]
        BY Zenon DEF Proceed, LoginTypeOK
    <2> QED BY <2>1, Zenon DEF Proceed, IInv, CInv, AskerMay
<1> QED BY <1>1, <1>2, <1>3 DEF IInv, CInv

(* The innermost login ends and frees the port if it has it.               *)
LEMMA FinishStep ==
    ASSUME LoginTypeOK, IInv, NEW c \in Client, Finish(c), ~ End(c) PROVE IInv'
<1>a. /\ NoClient \notin Client /\ logins \in [Client -> Seq(Login)]
      /\ asking \in [Client -> BOOLEAN]
      /\ window \in [Client -> {"auth", "next", "closed", "none"}]
    BY ClientAssumption DEF LoginTypeOK
<1>b. logins[c] # <<>> /\ asking'[c] = FALSE
    <2>1. logins[c] # <<>>
        BY DEF Finish, IInv, CInv, AskerMay
    <2>2. asking'[c] = FALSE
        BY <1>a, Zenon DEF Finish
    <2> QED BY <2>1, <2>2
<1> DEFINE n == Len(logins[c])
<1>1. /\ logins[c] # <<>> /\ logins'[c] = Front(logins[c]) /\ named' = named
      /\ port' = IF Last(logins[c]).hears THEN NoClient ELSE port
    BY <1>a, <1>b DEF Finish
<1>2. /\ \A k \in DOMAIN logins'[c] : /\ k \in DOMAIN logins[c] /\ k # n
                                     /\ logins'[c][k] = logins[c][k]
      /\ \A k \in DOMAIN logins[c] : k \in DOMAIN logins'[c] \/ k = n
      /\ Last(logins[c]) = logins[c][n] /\ n \in DOMAIN logins[c]
    <2>1. logins[c] \in Seq(Login)
        BY <1>a
    <2> QED BY <1>1, <2>1, Left
<1> HIDE DEF n
<1>3. CInv(c)
    BY DEF IInv
<1>4. Holder(c)'
    <2>1. CASE logins[c][n].hears
        <3>1. \A k \in DOMAIN logins'[c] : ~ logins'[c][k].hears
            BY <1>2, <1>3, <2>1 DEF CInv, OneHears
        <3> QED BY <1>a, <1>1, <1>2, <2>1, <3>1 DEF Holder
    <2>2. CASE ~ logins[c][n].hears
        BY <1>1, <1>2, <1>3, <2>2 DEF CInv, Holder
    <2> QED BY <2>1, <2>2
<1>5. OneHears(c)' /\ GrantedHears(c)'
    BY <1>2, <1>3 DEF CInv, OneHears, GrantedHears
<1>6. GrantedIsNamed(c)'
    BY <1>1, <1>2, <1>3 DEF CInv, GrantedIsNamed
<1>7. ASSUME NEW d \in Client \ {c} PROVE CInv(d)'
    <2>1. logins'[d] = logins[d] /\ named'[d] = named[d] /\ window'[d] = window[d]
        BY <1>a, <1>1 DEF Finish
    <2>4. asking'[d] = asking[d]
        BY <1>a, Zenon DEF Finish
    <2>2. logins[c][n].hears => port = c
        BY <1>2, <1>3 DEF CInv, Holder
    <2>3. port' = d <=> port = d
        BY <1>a, <1>1, <1>2, <2>2
    <2> QED BY <2>1, <2>3, <2>4, Frame DEF IInv
<1>8. AskerMay(c)'
    BY <1>b DEF AskerMay
<1> QED BY <1>4, <1>5, <1>6, <1>7, <1>8 DEF IInv, CInv

(* The invariant is kept by every step.                                    *)
LEMMA InvariantStep == LoginTypeOK /\ IInv /\ [LoginNext]_vars => IInv'
<1> SUFFICES ASSUME LoginTypeOK, IInv, [LoginNext]_vars PROVE IInv'
    OBVIOUS
<1>0. ASSUME UNCHANGED <<logins, asking, port, named>>,
             \A c \in Client : window[c] = "closed" => window'[c] = "closed"
      PROVE  IInv'
    <2>1. \A c \in Client : /\ Holder(c)' /\ OneHears(c)' /\ GrantedHears(c)'
                             /\ GrantedIsNamed(c)'
        BY <1>0 DEF IInv, CInv, Holder, OneHears, GrantedHears, GrantedIsNamed
    <2>2. \A c \in Client : AskerMay(c)'
        BY <1>0 DEF IInv, CInv, AskerMay
    <2> QED BY <2>1, <2>2 DEF IInv, CInv
<1>1. CASE UNCHANGED vars
    BY <1>0, <1>1 DEF vars
<1>2. ASSUME NEW c \in Client, Step(c) PROVE IInv'
    <2>1. CASE End(c)
        BY <2>1, EndStep
    <2>2. CASE Click(c)
        BY <2>2, ClickStep
    <2>3. CASE Redirect(c) /\ ~ End(c)
        BY <2>3, RedirectStep
    <2>4. CASE Proceed(c)
        BY <2>4, ProceedStep
    <2>5. CASE Finish(c) /\ ~ End(c)
        BY <2>5, FinishStep
    <2>6. CASE Start(c) \/ (CloseWindow(c) /\ ~ End(c))
        BY <1>0, <2>6 DEF Start, CloseWindow, LoginTypeOK
    <2> QED BY <1>2, <2>1, <2>2, <2>3, <2>4, <2>5, <2>6 DEF Step, Kill
<1> QED BY <1>1, <1>2 DEF LoginNext, Step

-----------------------------------------------------------------------------
(* The state is well typed, which needs the invariant: a handler that runs *)
(* on is one of those the client has.                                      *)
THEOREM LoginTypeCorrect == LoginSpec => []LoginTypeOK
<1>1. LoginInit => LoginTypeOK /\ IInv
    BY ClientAssumption
       DEF LoginInit, LoginTypeOK, IInv, CInv, Holder, OneHears, GrantedHears,
           GrantedIsNamed, AskerMay
<1> QED BY <1>1, TypeStep, InvariantStep, PTL DEF LoginSpec

(* The inductive invariant.                                                *)
THEOREM Invariant == LoginSpec => []IInv
<1>1. LoginInit => IInv
    BY ClientAssumption
       DEF LoginInit, IInv, CInv, Holder, OneHears, GrantedHears, GrantedIsNamed, AskerMay
<1> QED BY <1>1, InvariantStep, LoginTypeCorrect, PTL DEF LoginSpec

(* The port is taken exactly as long as one handler of its holder runs     *)
(* (the reply handler is a child of the GoogleAuth of auth.cpp:22).        *)
THEOREM PortIsFreed == LoginSpec => []PortIsHeld
<1>1. IInv => PortIsHeld
    BY DEF IInv, CInv, Holder, OneHears, PortIsHeld
<1> QED BY <1>1, Invariant, PTL

(* No window opens after a login without the name Google reported: the     *)
(* only other way out of work() is a window that was closed.               *)
THEOREM NobodyUnnamed == LoginSpec => NextWindowIsNamed
<1>1. IInv /\ LoginTypeOK /\ [LoginNext]_vars =>
        [\A c \in Client : window[c] = "auth" /\ window'[c] = "next" => named[c]]_vars
    <2> SUFFICES ASSUME IInv, LoginTypeOK, LoginNext, NEW c \in Client,
                        window[c] = "auth", window'[c] = "next"
                 PROVE  named[c]
        OBVIOUS
    <2>1. PICK d \in Client : Step(d)
        BY DEF LoginNext, Step
    <2>2. d = c /\ Finish(c)
        BY <2>1
           DEF LoginTypeOK, Step, Start, Kill, Click, Redirect, CloseWindow, Proceed, Finish, End
    <2>3. logins[c] # <<>> /\ logins[c][Len(logins[c])].answer = "granted"
        BY <2>2 DEF Finish, IInv, CInv, AskerMay
    <2>4. Len(logins[c]) \in DOMAIN logins[c]
        BY <2>3 DEF LoginTypeOK
    <2> QED BY <2>3, <2>4 DEF IInv, CInv, GrantedIsNamed
<1> QED BY <1>1, Invariant, LoginTypeCorrect, PTL DEF LoginSpec, NextWindowIsNamed

(* A login that does not hear keeps every window from opening while it is  *)
(* the innermost: no login below it can end (auth_google.cpp:64).          *)
THEOREM SecondClickIsStuck == LoginSpec => SecondClickSticks
<1>1. IInv /\ LoginTypeOK /\ [LoginNext]_vars =>
        [\A c \in Client :
            logins[c] # <<>> /\ ~ Last(logins[c]).hears /\ window[c] = "auth" =>
               window'[c] # "next"]_vars
    <2> SUFFICES ASSUME IInv, LoginTypeOK, LoginNext, NEW c \in Client,
                        logins[c] # <<>>, ~ Last(logins[c]).hears, window[c] = "auth",
                        window'[c] = "next"
                 PROVE  FALSE
        OBVIOUS
    <2>1. PICK d \in Client : Step(d)
        BY DEF LoginNext, Step
    <2>2. d = c /\ Finish(c)
        BY <2>1
           DEF LoginTypeOK, Step, Start, Kill, Click, Redirect, CloseWindow, Proceed, Finish, End
    <2>3. logins[c][Len(logins[c])].answer = "granted"
        BY <2>2 DEF Finish, IInv, CInv, AskerMay
    <2>4. Len(logins[c]) \in DOMAIN logins[c] /\ Last(logins[c]) = logins[c][Len(logins[c])]
        <3>1. logins[c] \in Seq(Login)
            BY DEF LoginTypeOK
        <3>2. /\ Len(logins[c]) \in Nat \ {0} /\ DOMAIN logins[c] = 1 .. Len(logins[c])
              /\ Last(logins[c]) = logins[c][Len(logins[c])]
            BY <3>1, Left
        <3> QED BY <3>2
    <2> QED BY <2>3, <2>4 DEF IInv, CInv, GrantedHears
<1> QED BY <1>1, Invariant, LoginTypeCorrect, PTL DEF LoginSpec, SecondClickSticks
=============================================================================
