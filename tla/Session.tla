------------------------------ MODULE Session -------------------------------
(***************************************************************************)
(* The sessions of several clients of one server: login and registration   *)
(* (src/client/src/auth.cpp, trello_auth.cpp) and, from the main window,   *)
(* the dialogs that add a chat (add_chat.cpp) and a member to a chat       *)
(* (add_member.cpp).  Of the main window (mainwindow.cpp) there is what    *)
(* add_member reads: the list of chats and the id of the chat in view.     *)
(* The rest of it is ChatWindow.                                           *)
(*                                                                         *)
(* A handler is a sequence of send_blocking calls with local steps between *)
(* them.  A call is one step here (Endpoint implements RemoteCall: it is   *)
(* executed at most once and returns its own answer); between two calls of *)
(* a client the server handles the calls of the others.  A call that never *)
(* returns is a client that takes no further step; a client may be ended   *)
(* between any two calls, after the server has executed the first.         *)
(***************************************************************************)
EXTENDS Database

CONSTANTS
    Client,
    Account,    \* Account[c]: the name Google reports for the user of c
    Notes,      \* Notes[n]: the chat name  n + " notes"
    MaxStarts   \* bound: how often a client is started

ASSUME AccountAssumption == Account \in [Client -> UserName]
ASSUME NotesAssumption ==
    /\ Notes \in [UserName -> ChatName]
    /\ \A m, n \in UserName : Notes[m] = Notes[n] => m = n
ASSUME StartsAssumption == MaxStarts \in Nat

VARIABLES
    pc,         \* pc[c]: the call of c that comes next
    user_id,    \* user_id[c]: user.get_user_id() of the process, 0 before login
    chat_name,  \* chat_name[c]: the chat name the running handler of c works on
    chat_id,    \* chat_id[c]: the id get_chat_id gave that handler
    guest,      \* guest[c]: the user the running add_member handler has found
    listed,     \* listed[c]: the chats whose items listWidget_2 has, by row
    current_chat_id,    \* current_chat_id[c]: the chat in view, 0 for none
    starts,     \* starts[c]: how often c has been started
    halfway     \* the users and chats whose creation a client was ended in

handler == <<chat_name, chat_id, guest>>
window == <<listed, current_chat_id>>
vars == <<dbVars, pc, user_id, handler, window, starts, halfway>>

NoName == "none"
(* The places are the calls of the handlers in their order.  "trello" and  *)
(* "main" are the two later windows, "opening" is the constructor of the   *)
(* second, "taken" is the main window with the pop-up of a refused chat    *)
(* name, "gone" is no process.                                             *)
Registering == {"refind", "add_chat", "get_chat_id", "link"}
Adding == {"dialog get_chat_id", "dialog link"}
Place == {"auth", "add_user", "trello", "opening", "main", "taken", "member link", "gone"}
            \cup Registering \cup Adding

(* What a handler holds is an id or a chat name, of the sort it is used as *)
(* in the next request.                                                    *)
SessionTypeOK ==
    /\ pc \in [Client -> Place]
    /\ user_id \in [Client -> Id]
    /\ chat_name \in [Client -> ChatName \cup {NoName}]
    /\ chat_id \in [Client -> Id] /\ guest \in [Client -> Id]
    /\ listed \in [Client -> Seq(Nat)] /\ current_chat_id \in [Client -> Id]
    /\ starts \in [Client -> 0 .. MaxStarts]
    /\ halfway \subseteq UserName \cup ChatName

SessionInit ==
    /\ Init
    /\ pc = [c \in Client |-> "gone"]
    /\ user_id = [c \in Client |-> 0]
    /\ chat_name = [c \in Client |-> NoName]
    /\ chat_id = [c \in Client |-> 0] /\ guest = [c \in Client |-> 0]
    /\ listed = [c \in Client |-> <<>>] /\ current_chat_id = [c \in Client |-> 0]
    /\ starts = [c \in Client |-> 0]
    /\ halfway = {}

(* The handler goes on with its next call, or returns to the event loop.   *)
Move(c, place) == pc' = [pc EXCEPT ![c] = place] /\ UNCHANGED <<starts, halfway>>
Go(c, place) == Move(c, place) /\ UNCHANGED window
Dropped(c) ==
    /\ chat_name' = [chat_name EXCEPT ![c] = NoName]
    /\ chat_id' = [chat_id EXCEPT ![c] = 0] /\ guest' = [guest EXCEPT ![c] = 0]
Return(c, place) == Go(c, place) /\ Dropped(c) /\ UNCHANGED user_id

Start(c) ==
    /\ pc[c] = "gone" /\ starts[c] < MaxStarts
    /\ pc' = [pc EXCEPT ![c] = "auth"]
    /\ starts' = [starts EXCEPT ![c] = @ + 1]
    /\ UNCHANGED <<dbVars, user_id, handler, window, halfway>>

(* The process ends: windows closed, killed in a call, or an exception of  *)
(* json::parse that main.cpp:31 catches.  What it was creating stays.      *)
End(c) ==
    /\ pc' = [pc EXCEPT ![c] = "gone"]
    /\ user_id' = [user_id EXCEPT ![c] = 0] /\ Dropped(c)
    /\ listed' = [listed EXCEPT ![c] = <<>>]
    /\ current_chat_id' = [current_chat_id EXCEPT ![c] = 0]
    /\ halfway' = halfway
          \cup (IF pc[c] \in Registering THEN {Account[c]} ELSE {})
          \cup (IF pc[c] \in {"get_chat_id", "link"} \cup Adding THEN {chat_name[c]} ELSE {})
    /\ UNCHANGED starts

Leave(c) == pc[c] # "gone" /\ End(c) /\ UNCHANGED dbVars

-----------------------------------------------------------------------------
(* A definition named "Bad..." is a fault the one after it might have had, *)
(* kept to see that the properties tell the two apart.                     *)
BadFindUser(c) == pc[c] = "auth" /\ \E ans \in {find_user(Account[c]), Fail} :
    /\ Query(find_user(Account[c]), ans)
    /\ \/ ans = Fail /\ End(c)
       \/ ans = NotFound /\ Go(c, "add_user") /\ UNCHANGED <<user_id, handler>>
       \/ /\ ans \notin {Fail, NotFound} /\ Go(c, "trello")
          /\ user_id' = [user_id EXCEPT ![c] = ans.user_id]
          /\ UNCHANGED handler

(* auth.cpp, the handler of the Auth button.  The closure's new_user is    *)
(* TRUE exactly at the places after add_user.                              *)
FindUser(c) == pc[c] = "auth" /\ \E ans \in {find_user(Account[c]), Fail} :
    /\ Query(find_user(Account[c]), ans)
    /\ \/ ans = Fail /\ End(c)
       \/ ans = NotFound /\ Go(c, "add_user") /\ UNCHANGED <<user_id, handler>>
       \/ /\ ans \notin {Fail, NotFound} /\ Go(c, "opening")
          /\ user_id' = [user_id EXCEPT ![c] = ans.user_id]
          /\ UNCHANGED handler

BadAddUserForever(c) == pc[c] = "add_user" /\ \E ans \in {Success, Fail} :
    add_user(Account[c], ans) /\ Go(c, "add_user") /\ UNCHANGED <<user_id, handler>>
BadAddUserOnce(c) == pc[c] = "add_user" /\ \E ans \in {Success, Fail} :
    add_user(Account[c], ans) /\ Go(c, "refind") /\ UNCHANGED <<user_id, handler>>

(* while (user_exists != "SUCCESS") *)
AddUserLoop(c) == pc[c] = "add_user" /\ \E ans \in {Success, Fail} :
    /\ add_user(Account[c], ans)
    /\ Go(c, IF ans = Success THEN "refind" ELSE "add_user")
    /\ UNCHANGED <<user_id, handler>>

BadFindNewUser(c) ==       \* the newest id instead of the id of the name
    /\ pc[c] = "refind" /\ UNCHANGED dbVars /\ Go(c, "add_chat")
    /\ user_id' = [user_id EXCEPT ![c] = user_seq]
    /\ chat_name' = [chat_name EXCEPT ![c] = Notes[Account[c]]]
    /\ UNCHANGED <<chat_id, guest>>

FindNewUser(c) == pc[c] = "refind" /\ \E ans \in {find_user(Account[c]), Fail} :
    /\ Query(find_user(Account[c]), ans)
    /\ \/ ans \in {Fail, NotFound} /\ End(c)
       \/ /\ ans \notin {Fail, NotFound} /\ Go(c, "add_chat")
          /\ user_id' = [user_id EXCEPT ![c] = ans.user_id]
          /\ chat_name' = [chat_name EXCEPT ![c] = Notes[Account[c]]]
          /\ UNCHANGED <<chat_id, guest>>

(* After FAIL only a pop-up is shown; the handler goes on. *)
AddFirstChat(c) == pc[c] = "add_chat" /\ \E ans \in {Success, Fail} :
    /\ add_chat(chat_name[c], ans) /\ Go(c, "get_chat_id")
    /\ UNCHANGED <<user_id, handler>>

(* json::parse(response), then j["chat_id"].dump(): of null it is the text *)
(* null, which the server's ">> chat_id" turns into 0; of FAIL it throws.  *)
TakeChatId(c, next) == \E ans \in {get_chat_id(chat_name[c]), Fail} :
    /\ Query(get_chat_id(chat_name[c]), ans)
    /\ \/ ans = Fail /\ End(c)
       \/ /\ ans # Fail /\ Go(c, next)
          /\ chat_id' = [chat_id EXCEPT ![c] = IF ans = Null THEN 0 ELSE ans.chat_id]
          /\ UNCHANGED <<user_id, chat_name, guest>>

GetFirstChatId(c) == pc[c] = "get_chat_id" /\ TakeChatId(c, "link")

(* The answer to link_user_to_chat is not looked at. *)
LinkFirstChat(c) == pc[c] = "link" /\ \E ans \in {Success, Fail} :
    link_user_to_chat(user_id[c], chat_id[c], ans) /\ Return(c, "trello")

(* trelloButtonClicked: the token is stored, the answer ignored, and then  *)
(* Trello is asked whether it is a token at all; if not, curl throws.      *)
SetTrelloTokenClicked(c) == pc[c] = "trello" /\ \E t \in Token, ans \in {Success, Fail} :
    set_trello_token(user_id[c], t, ans) /\ (Return(c, "opening") \/ End(c))

-----------------------------------------------------------------------------
(* mainwindow.cpp *)
InMain(c) == pc[c] \in {"main", "taken"}
Ids(ans) == IF ans = Null THEN <<>> ELSE ans.rows

(* The constructor shows the first chat; of an empty list item(0) is null, *)
(* for which icon_to_chat_id has 0.                                        *)
OpenWindow(c) == pc[c] = "opening" /\ \E ans \in {get_chat_list(user_id[c]), Fail} :
    /\ Query(get_chat_list(user_id[c]), ans)
    /\ \/ ans = Fail /\ End(c)
       \/ /\ ans # Fail /\ Move(c, "main") /\ UNCHANGED <<user_id, handler>>
          /\ listed' = [listed EXCEPT ![c] = Ids(ans)]
          /\ current_chat_id' = [current_chat_id EXCEPT ![c] =
                                    IF Ids(ans) = <<>> THEN 0 ELSE Ids(ans)[1]]

(* The timer rebuilds a list that has another length than the answer, or   *)
(* lets it be (after a failed link it stays empty: ChatWindow); the chat   *)
(* in view it leaves alone.                                                *)
UpdateChats(c) == InMain(c) /\ \E ans \in {get_chat_list(user_id[c]), Fail} :
    /\ Query(get_chat_list(user_id[c]), ans)
    /\ \/ ans = Fail /\ End(c)
       \/ /\ ans # Fail /\ Len(Ids(ans)) # Len(listed[c])
          /\ listed' = [listed EXCEPT ![c] = Ids(ans)]
          /\ UNCHANGED <<pc, user_id, handler, current_chat_id, starts, halfway>>

BadItemClicked(c) == InMain(c) /\ \E k \in DOMAIN listed[c] :   \* the row for the id
    /\ current_chat_id' = [current_chat_id EXCEPT ![c] = k]
    /\ UNCHANGED <<dbVars, pc, user_id, handler, listed, starts, halfway>>
ItemClicked(c) == InMain(c) /\ \E k \in DOMAIN listed[c] :
    /\ current_chat_id' = [current_chat_id EXCEPT ![c] = listed[c][k]]
    /\ UNCHANGED <<dbVars, pc, user_id, handler, listed, starts, halfway>>

(* add_chat.cpp *)
AddChatDialog(c) == InMain(c) /\ \E n \in ChatName, ans \in {Success, Fail} :
    /\ add_chat(n, ans)
    /\ Go(c, IF ans = Success THEN "dialog get_chat_id" ELSE "taken")
    /\ chat_name' = [chat_name EXCEPT ![c] = n]
    /\ UNCHANGED <<user_id, chat_id, guest>>

DialogGetChatId(c) == pc[c] = "dialog get_chat_id" /\ TakeChatId(c, "dialog link")

BadDialogLink(c) == pc[c] = "dialog link" /\ \E ans \in {Success, Fail} :
    link_user_to_chat(chat_id[c], user_id[c], ans) /\ Return(c, "main")

(* The list is cleared, for the timer to fill again.                       *)
DialogLink(c) == pc[c] = "dialog link" /\ \E ans \in {Success, Fail} :
    /\ link_user_to_chat(user_id[c], chat_id[c], ans)
    /\ Move(c, "main") /\ Dropped(c) /\ UNCHANGED <<user_id, current_chat_id>>
    /\ listed' = [listed EXCEPT ![c] = <<>>]

BadFindGuest(c) == InMain(c) /\ \E n \in UserName :
    /\ Taken(users, n) /\ UNCHANGED dbVars /\ Go(c, "member link")
    /\ guest' = [guest EXCEPT ![c] = n]
    /\ UNCHANGED <<user_id, chat_name, chat_id>>

(* add_member.cpp: "There is no such user." leaves the dialog as it is;    *)
(* the parse of FAIL throws.                                               *)
FindGuest(c) == InMain(c) /\ \E n \in UserName : \E ans \in {find_user(n), Fail} :
    /\ Query(find_user(n), ans)
    /\ \/ ans = Fail /\ End(c)
       \/ ans = NotFound /\ Return(c, "main")
       \/ /\ ans \notin {Fail, NotFound} /\ Go(c, "member link")
          /\ guest' = [guest EXCEPT ![c] = ans.user_id]
          /\ chat_name' = [chat_name EXCEPT ![c] = NoName]
          /\ UNCHANGED <<user_id, chat_id>>

(* The chat is the one in view when the answer to find_user is there, not  *)
(* the one that was when the dialog was opened.                            *)
LinkGuest(c) == pc[c] = "member link" /\ \E ans \in {Success, Fail} :
    link_user_to_chat(guest[c], current_chat_id[c], ans) /\ Return(c, "main")

(* A call of a login or of a dialog that is under way. *)
Continue(c) ==
    \/ FindUser(c) \/ AddUserLoop(c) \/ FindNewUser(c) \/ AddFirstChat(c)
    \/ GetFirstChatId(c) \/ LinkFirstChat(c) \/ OpenWindow(c)
    \/ DialogGetChatId(c) \/ DialogLink(c) \/ LinkGuest(c)

SessionNext == \E c \in Client :
    \/ Start(c) \/ Leave(c) \/ Continue(c)
    \/ SetTrelloTokenClicked(c) \/ UpdateChats(c) \/ ItemClicked(c)
    \/ AddChatDialog(c) \/ FindGuest(c)

SessionSpec == SessionInit /\ [][SessionNext]_vars
(* A handler whose calls return runs on: Endpoint!CallReturns gives that   *)
(* for the calls that are not lost, and this specification is of clients   *)
(* that lose none.  Nothing makes the connection to PostgreSQL break, and  *)
(* whether a user starts a handler is up to the user.                      *)
RunsOn(c) == Continue(c) /\ UNCHANGED backend
FairSessionSpec == SessionSpec /\ \A c \in Client : WF_vars(RunsOn(c))

-----------------------------------------------------------------------------
LoggedIn(c) == pc[c] \in {"add_chat", "get_chat_id", "link", "trello", "opening", "main",
                       "taken", "member link"} \cup Adding
HasMember(i) == \E k \in DOMAIN links : links[k].chat_id = i
HasChat(u) == \E k \in DOMAIN links : links[k].user_id = u

(* A logged-in client acts as the stored user of its own name, whatever    *)
(* races with its registration (auth.cpp:24-43).                           *)
SessionMatchesAccount == \A c \in Client :
    LoggedIn(c) => user_id[c] \in DOMAIN users /\ users[user_id[c]] = Account[c]

(* The loop of auth.cpp:35 is entered for a name that is not stored.  It   *)
(* is left on SUCCESS only, so once the name is stored by somebody else it *)
(* never is: that takes a second client of the same name that has been     *)
(* started, or a commit in doubt of its own.                               *)
HasRival(c) == \E d \in Client \ {c} : Account[d] = Account[c] /\ starts[d] > 0
StuckOnlyByRace == \A c \in Client :
    pc[c] = "add_user" /\ Taken(users, Account[c]) => backend = "lost" \/ HasRival(c)

(* And then nothing but the end of the process takes it out of the loop.   *)
LoserSpins ==
    [][\A c \in Client : pc[c] = "add_user" /\ Taken(users, Account[c]) =>
          pc'[c] \in {"add_user", "gone"}]_vars

(* Without faults a chat with no members or a user with no chat is one     *)
(* that a client is just creating, or was ended while creating: nobody     *)
(* could enter the chat, and its name is taken for good.  A user also has  *)
(* no chat when the name of the first one is too long (auth.cpp:46) or the *)
(* chat ids had run out.                                                   *)
NothingHalfDone ==
    /\ \A i \in DOMAIN chats : ~ HasMember(i) =>
         \/ chats[i] \in halfway
         \/ \E c \in Client : /\ chat_name[c] = chats[i]
                              /\ pc[c] \in {"get_chat_id", "link"} \cup Adding
    /\ \A u \in DOMAIN users : ~ HasChat(u) =>
         \/ users[u] \in halfway
         \/ Notes[users[u]] \in TooLong \/ ~ HasId(chat_seq)
         \/ \E c \in Client : Account[c] = users[u] /\ pc[c] \in Registering

(* A user enters a chat in two ways only.  His own client puts him into    *)
(* the chat of the name its handler works on, never into another for want  *)
(* of that one (auth.cpp:55-65, add_chat.cpp:39-50).  Or the client of a   *)
(* member does: the chat id its main window has remembered, from whichever *)
(* list of whichever time and over whatever windows, dialogs, restarts and *)
(* new chats since, is one of a chat its user is in (add_member.cpp:40-42).*)
EnteredByMember ==
    [][\A k \in DOMAIN links' \ DOMAIN links : \E c \in Client :
          /\ LoggedIn(c) /\ pc'[c] # pc[c]
          /\ \/ /\ links'[k].user_id = user_id[c]
                /\ chats[links'[k].chat_id] = chat_name[c]
             \/ Linked(user_id[c], links'[k].chat_id)]_vars

(* A user is asked for a Trello token once, after registering              *)
(* (auth.cpp:73-76): whatever is mistyped or refused then, or left undone, *)
(* stays, since the program never asks again, and the boards handlers,     *)
(* which take the oldest token of a user, have only this one to take.      *)
OneTokenEach == \A j, k \in DOMAIN tokens : tokens[j].user_id = tokens[k].user_id => j = k

(* A login whose calls return ends, in the main window, in the Trello      *)
(* window or with the process, unless the loop of auth.cpp:35 catches it:  *)
(* for a name that a rival has stored meanwhile, or over a connection to   *)
(* PostgreSQL that is gone.                                                *)
LoginEnds == \A c \in Client :
    pc[c] \in {"auth", "add_user", "opening"} \cup Registering
        ~> \/ pc[c] \in {"trello", "main", "gone"}
           \/ /\ pc[c] = "add_user"
              /\ backend = "lost" \/ (Taken(users, Account[c]) /\ HasRival(c))

(* "Adding first chat" (auth.cpp:45): the chat a new user is linked to is  *)
(* one this registration added, so that nobody else is in it.              *)
AddsFirstChat ==
    [][\A c \in Client : pc[c] = "link" /\ pc'[c] = "trello" =>
          \A k \in DOMAIN links : links[k].chat_id # chat_id[c]]_vars

(* "This chat name is taken. Please, choose another one."                  *)
(* (add_chat.cpp:36) is shown for names some chat has.                     *)
TakenMeansTaken == \A c \in Client : pc[c] = "taken" => Taken(chats, chat_name[c])
=============================================================================
