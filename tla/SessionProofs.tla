---------------------------- MODULE SessionProofs ----------------------------
(***************************************************************************)
(* Theorems about the sessions of any number of clients of one server, for *)
(* every set of names and tokens and every choice of faults: whom a client *)
(* acts as, who is caught in the loop of auth.cpp:35, who enters a chat,   *)
(* how often a user stores a Trello token, what is left half done and when *)
(* a chat name that nobody has is reported as taken.                       *)
(***************************************************************************)
EXTENDS Session, DatabaseProofs

(* One step of one client. *)
StepOf(c) ==
    \/ Start(c) \/ Leave(c) \/ Continue(c)
    \/ SetTrelloTokenClicked(c) \/ UpdateChats(c) \/ ItemClicked(c)
    \/ AddChatDialog(c) \/ FindGuest(c)

(* While a handler creates a chat, it holds the name of one.               *)
Naming == {"add_chat", "get_chat_id", "link"} \cup Adding
Named(c) == pc[c] \in Naming => chat_name[c] \in ChatName

(* What the main window remembers are chats of its user, from the moment   *)
(* it is there to the end of the process.                                  *)
Shown == {"main", "taken", "member link"} \cup Adding
OwnList(c, s) == \A k \in DOMAIN s : Linked(user_id[c], s[k])
OwnChat(c, i) == i = 0 \/ Linked(user_id[c], i)
Remembers(c) ==
    /\ pc[c] \notin Shown => listed[c] = <<>> /\ current_chat_id[c] = 0
    /\ OwnList(c, listed[c]) /\ OwnChat(c, current_chat_id[c])

Typed ==
    /\ TypeOK /\ ReferencesResolve /\ SessionTypeOK
    /\ \A c \in Client : Named(c) /\ Remembers(c)

-----------------------------------------------------------------------------
(* The ids of stored users and chats are ids.                              *)
LEMMA StoredIds == TypeOK => DOMAIN users \subseteq Id /\ DOMAIN chats \subseteq Id
BY BoundAssumption DEF TypeOK, Id

(* find_user answers "User not found" for names nobody has, and otherwise  *)
(* the row of the user of that name.                                       *)
LEMMA Found ==
    ASSUME TypeOK, NEW n, NEW ans \in {find_user(n), Fail}, Query(find_user(n), ans)
    PROVE  /\ ans = NotFound => ~ Taken(users, n) /\ UNCHANGED dbVars
           /\ ans \notin {Fail, NotFound} =>
                /\ ans.user_id \in DOMAIN users /\ users[ans.user_id] = n
                /\ ans.user_id \in Id /\ UNCHANGED dbVars
<1>1. ans # Fail => ans = find_user(n) /\ UNCHANGED dbVars
    BY DEF Query, Faulted, Unreachable
<1>2. CASE Taken(users, n)
    <2> DEFINE id == CHOOSE i \in DOMAIN users : users[i] = n
    <2>1. id \in DOMAIN users /\ users[id] = n
        BY <1>2 DEF Taken
    <2>2. id \in Id
        BY <2>1, StoredIds
    <2>3. find_user(n) = [user_id |-> id, user_name |-> n]
        BY <1>2 DEF find_user
    <2>4. find_user(n) # NotFound /\ find_user(n).user_id = id
        BY <2>3, RowIsNotMissing
    <2> HIDE DEF id
    <2> QED BY <1>1, <2>1, <2>2, <2>4, LiteralsDiffer
<1>3. CASE ~ Taken(users, n)
    <2>1. find_user(n) = NotFound
        BY <1>3 DEF find_user
    <2> QED BY <1>1, <1>3, <2>1, LiteralsDiffer
<1> QED BY <1>2, <1>3

(* get_chat_id answers null or the id of a chat.                           *)
LEMMA ChatFound ==
    ASSUME TypeOK, NEW n, get_chat_id(n) # Null
    PROVE  get_chat_id(n).chat_id \in Id
<1> DEFINE id == CHOOSE i \in DOMAIN chats : chats[i] = n
<1>1. Taken(chats, n) /\ get_chat_id(n) = [chat_id |-> id, chat_name |-> n]
    BY DEF get_chat_id
<1>2. id \in DOMAIN chats
    BY <1>1 DEF Taken
<1>3. id \in Id
    BY <1>2, StoredIds
<1> QED BY <1>1, <1>3

(* A chat somebody is in is a stored one.                                  *)
LEMMA LinkedChat ==
    ASSUME TypeOK, ReferencesResolve, NEW u, NEW i, Linked(u, i)
    PROVE  i \in DOMAIN chats /\ i \in Id
<1>1. PICK k \in DOMAIN links : links[k] = [user_id |-> u, chat_id |-> i]
    BY DEF Linked
<1>2. links[k].chat_id = i
    BY <1>1
<1> QED BY <1>2, StoredIds DEF ReferencesResolve, Resolves

(* A list the server answers with holds chats of the user it was asked of. *)
LEMMA ListedChats ==
    ASSUME TypeOK, NEW u, NEW ans \in {get_chat_list(u), Fail}, ans # Fail
    PROVE  Ids(ans) \in Seq(Nat) /\ \A k \in DOMAIN Ids(ans) : Linked(u, Ids(ans)[k])
<1> DEFINE list == ChatsIn(links, u)
<1>1. links \in Seq(Link)
    BY DEF TypeOK
<1>2. list \in Seq(Nat) /\ \A j \in DOMAIN list : \E k \in DOMAIN links :
          links[k].user_id = u /\ links[k].chat_id = list[j]
    BY <1>1, ChatsRows
<1>3. ans = Rows(list)
    BY AnswersAreLists
<1> HIDE DEF list
<1>4. Ids(ans) = list
    BY <1>3, ListIsRead DEF Ids
<1>5. ASSUME NEW j \in DOMAIN list PROVE Linked(u, list[j])
    <2>1. PICK k \in DOMAIN links : links[k].user_id = u /\ links[k].chat_id = list[j]
        BY <1>2
    <2>2. links[k] \in Link
        BY <1>1
    <2>3. links[k] = [user_id |-> u, chat_id |-> list[j]]
        BY <2>1, <2>2 DEF Link
    <2> QED BY <2>3 DEF Linked
<1> QED BY <1>2, <1>4, <1>5

(* 0 is the id of nothing. *)
LEMMA ZeroIsNoId == TypeOK => 0 \notin DOMAIN users /\ 0 \notin DOMAIN chats /\ 0 \in Id
BY BoundAssumption DEF TypeOK, Id

(* The part of SessionTypeOK about the main windows.                       *)
WindowOK == listed \in [Client -> Seq(Nat)] /\ current_chat_id \in [Client -> Id]

(* However a process ends, its variables are those of no process.          *)
LEMMA EndStep ==
    ASSUME SessionTypeOK, \A d \in Client : Named(d), NEW c \in Client, End(c), WindowOK'
    PROVE  SessionTypeOK' /\ (\A d \in Client : Named(d))'
<1>1. pc[c] \in {"get_chat_id", "link"} \cup Adding => chat_name[c] \in ChatName
    BY DEF Named, Naming
<1>2. halfway' \subseteq UserName \cup ChatName
    BY <1>1, AccountAssumption DEF End, SessionTypeOK
<1>3. /\ pc' \in [Client -> Place] /\ user_id' \in [Client -> Id]
      /\ chat_name' \in [Client -> ChatName \cup {NoName}]
      /\ chat_id' \in [Client -> Id] /\ guest' \in [Client -> Id]
      /\ starts' \in [Client -> 0 .. MaxStarts]
    <2>1. "gone" \in Place /\ 0 \in Id
        BY BoundAssumption DEF Place, Id
    <2> QED BY <2>1 DEF End, Dropped, SessionTypeOK
<1>4. pc'[c] \notin Naming
    BY DEF End, SessionTypeOK, Naming, Adding
<1>5. \A d \in Client \ {c} : pc'[d] = pc[d] /\ chat_name'[d] = chat_name[d]
    BY DEF End, Dropped, SessionTypeOK
<1> QED BY <1>2, <1>3, <1>4, <1>5 DEF SessionTypeOK, Named, WindowOK

(* A handler that goes on, or returns, with an id and a name of its sort.  *)
LEMMA GoStep ==
    ASSUME SessionTypeOK, \A d \in Client : Named(d), NEW c \in Client,
           NEW place \in Place, Move(c, place), WindowOK',
           NEW u \in Id, user_id' = [user_id EXCEPT ![c] = u],
           NEW n \in ChatName \cup {NoName}, chat_name' = [chat_name EXCEPT ![c] = n],
           NEW i \in Id, chat_id' = [chat_id EXCEPT ![c] = i],
           NEW g \in Id, guest' = [guest EXCEPT ![c] = g],
           place \in Naming => n \in ChatName
    PROVE  SessionTypeOK' /\ (\A d \in Client : Named(d))'
<1>1. /\ pc' \in [Client -> Place] /\ user_id' \in [Client -> Id]
      /\ chat_name' \in [Client -> ChatName \cup {NoName}]
      /\ chat_id' \in [Client -> Id] /\ guest' \in [Client -> Id]
      /\ starts' = starts /\ halfway' = halfway
    BY DEF Move, SessionTypeOK
<1>2. pc'[c] = place /\ chat_name'[c] = n
    BY DEF Move, SessionTypeOK
<1>3. \A d \in Client \ {c} : pc'[d] = pc[d] /\ chat_name'[d] = chat_name[d]
    BY DEF Move, SessionTypeOK
<1> QED BY <1>1, <1>2, <1>3 DEF SessionTypeOK, Named, WindowOK

(* A variable of a client that a step leaves alone is set to what it is.   *)
LEMMA Same ==
    ASSUME SessionTypeOK, NEW c \in Client
    PROVE  /\ user_id[c] \in Id /\ chat_name[c] \in ChatName \cup {NoName}
           /\ chat_id[c] \in Id /\ guest[c] \in Id
           /\ user_id = [user_id EXCEPT ![c] = user_id[c]]
           /\ chat_name = [chat_name EXCEPT ![c] = chat_name[c]]
           /\ chat_id = [chat_id EXCEPT ![c] = chat_id[c]]
           /\ guest = [guest EXCEPT ![c] = guest[c]]
BY DEF SessionTypeOK

(* A handler that returns holds nothing. *)
LEMMA ReturnStep ==
    ASSUME SessionTypeOK, \A d \in Client : Named(d), NEW c \in Client,
           NEW place \in Place \ Naming, Move(c, place), Dropped(c), user_id' = user_id,
           WindowOK'
    PROVE  SessionTypeOK' /\ (\A d \in Client : Named(d))'
<1>1. 0 \in Id /\ NoName \in ChatName \cup {NoName}
    BY BoundAssumption DEF Id
<1> QED BY <1>1, Same, GoStep DEF Dropped

-----------------------------------------------------------------------------
(* Every call of a handler is one transaction of Database, so the theorems *)
(* about the tables hold for the sessions.                                 *)
LEMMA CallIsTransaction ==
    ASSUME Typed, NEW c \in Client, StepOf(c) PROVE [Next]_dbVars
<1>0. /\ user_id[c] \in Id /\ chat_id[c] \in Id /\ guest[c] \in Id
      /\ current_chat_id[c] \in Id /\ Account[c] \in UserName /\ Named(c)
    BY AccountAssumption DEF Typed, SessionTypeOK
<1>1. CASE UNCHANGED dbVars
    BY <1>1
<1>2. CASE AddUserLoop(c)
    BY <1>0, <1>2 DEF AddUserLoop, Next, AddUser
<1>3. CASE AddFirstChat(c)
    BY <1>0, <1>3 DEF AddFirstChat, Next, AddChat, Named, Naming
<1>4. CASE AddChatDialog(c)
    BY <1>4 DEF AddChatDialog, Next, AddChat
<1>5. CASE LinkFirstChat(c) \/ DialogLink(c)
    BY <1>0, <1>5 DEF LinkFirstChat, DialogLink, Next, LinkUserToChat
<1>6. CASE LinkGuest(c)
    BY <1>0, <1>6 DEF LinkGuest, Next, LinkUserToChat
<1>7. CASE SetTrelloTokenClicked(c)
    BY <1>0, <1>7 DEF SetTrelloTokenClicked, Next, SetTrelloToken
<1>8. CASE FindUser(c) \/ FindNewUser(c) \/ FindGuest(c)
    BY <1>8, QueryIsRead DEF FindUser, FindNewUser, FindGuest
<1>9. CASE GetFirstChatId(c) \/ DialogGetChatId(c)
    BY <1>9, QueryIsRead DEF GetFirstChatId, DialogGetChatId, TakeChatId
<1>10. CASE OpenWindow(c) \/ UpdateChats(c)
    BY <1>10, QueryIsRead DEF OpenWindow, UpdateChats
<1> QED BY <1>1, <1>2, <1>3, <1>4, <1>5, <1>6, <1>7, <1>8, <1>9, <1>10
        DEF StepOf, Start, Leave, Continue, ItemClicked

(* A step of one client moves no other, and gives itself no user id but    *)
(* the answer to a find_user for its own name.                             *)
LEMMA ClientStep ==
    ASSUME Typed, NEW c \in Client, StepOf(c)
    PROVE  /\ \A d \in Client \ {c} : pc'[d] = pc[d] /\ user_id'[d] = user_id[d]
           /\ LoggedIn(c)' =>
                \/ LoggedIn(c) /\ user_id'[c] = user_id[c]
                \/ user_id'[c] \in DOMAIN users /\ users[user_id'[c]] = Account[c]
<1>0. /\ pc \in [Client -> Place] /\ user_id \in [Client -> Id] /\ TypeOK
      /\ Account[c] \in UserName
    BY AccountAssumption DEF Typed, SessionTypeOK
<1>a. ASSUME NEW place, Go(c, place)
      PROVE  pc'[c] = place /\ \A d \in Client \ {c} : pc'[d] = pc[d]
    BY <1>0, <1>a DEF Go, Move
<1>1. CASE Start(c)
    BY <1>0, <1>1 DEF Start, LoggedIn, Adding
<1>2. CASE End(c)
    BY <1>0, <1>2 DEF End, LoggedIn, Adding
<1>3. CASE (FindUser(c) \/ FindNewUser(c)) /\ ~ End(c)
    <2> PICK ans \in {find_user(Account[c]), Fail} :
            /\ Query(find_user(Account[c]), ans)
            /\ \/ Go(c, "add_user") /\ user_id' = user_id
               \/ /\ ans \notin {Fail, NotFound} /\ \E place \in {"opening", "add_chat"} : Go(c, place)
                  /\ user_id' = [user_id EXCEPT ![c] = ans.user_id]
        BY <1>3 DEF FindUser, FindNewUser
    <2>1. CASE Go(c, "add_user") /\ user_id' = user_id
        <3>1. pc'[c] = "add_user" /\ \A d \in Client \ {c} : pc'[d] = pc[d]
            BY <1>a, <2>1
        <3>2. ~ LoggedIn(c)'
            BY <3>1 DEF LoggedIn, Adding
        <3> QED BY <2>1, <3>1, <3>2
    <2>2. CASE /\ ans \notin {Fail, NotFound} /\ \E place \in {"opening", "add_chat"} : Go(c, place)
               /\ user_id' = [user_id EXCEPT ![c] = ans.user_id]
        <3>1. ans.user_id \in DOMAIN users /\ users[ans.user_id] = Account[c]
            BY <1>0, <2>2, Found
        <3>2. user_id'[c] = ans.user_id /\ \A d \in Client \ {c} : user_id'[d] = user_id[d]
            BY <1>0, <2>2
        <3> QED BY <1>a, <2>2, <3>1, <3>2
    <2> QED BY <2>1, <2>2
<1>4. CASE AddUserLoop(c)
    <2>1. \E place \in {"refind", "add_user"} : Go(c, place)
        BY <1>4 DEF AddUserLoop
    <2> QED BY <1>a, <1>4, <2>1 DEF AddUserLoop, LoggedIn, Adding
<1>5. ASSUME NEW place, Go(c, place), user_id' = user_id, LoggedIn(c)
      PROVE  /\ \A d \in Client \ {c} : pc'[d] = pc[d] /\ user_id'[d] = user_id[d]
             /\ LoggedIn(c) /\ user_id'[c] = user_id[c]
    BY <1>a, <1>5
<1>6. CASE AddFirstChat(c) \/ AddChatDialog(c)
    BY <1>5, <1>6 DEF AddFirstChat, AddChatDialog, LoggedIn, InMain
<1>7. CASE (GetFirstChatId(c) \/ DialogGetChatId(c)) /\ ~ End(c)
    BY <1>5, <1>7 DEF GetFirstChatId, DialogGetChatId, TakeChatId, LoggedIn, Adding
<1>8. CASE (FindGuest(c) \/ SetTrelloTokenClicked(c)) /\ ~ End(c)
    BY <1>5, <1>8 DEF FindGuest, SetTrelloTokenClicked, LoggedIn, InMain, Return
<1>9. CASE LinkFirstChat(c) \/ LinkGuest(c)
    BY <1>5, <1>9 DEF LinkFirstChat, LinkGuest, LoggedIn, Adding, Return
<1>10. CASE (OpenWindow(c) \/ DialogLink(c)) /\ ~ End(c)
    <2>1. Move(c, "main") /\ user_id' = user_id /\ LoggedIn(c)
        BY <1>10 DEF OpenWindow, DialogLink, LoggedIn, Adding
    <2> QED BY <1>0, <2>1 DEF Move
<1>11. CASE (UpdateChats(c) \/ ItemClicked(c)) /\ ~ End(c)
    BY <1>11 DEF UpdateChats, ItemClicked, LoggedIn, InMain
<1> QED BY <1>1, <1>2, <1>3, <1>4, <1>6, <1>7, <1>8, <1>9, <1>10, <1>11
        DEF StepOf, Leave, Continue

(* Only the end of the process closes a main window and only its           *)
(* constructor opens it; what either it, the timer, a click or a dialog    *)
(* puts into it are chats of its user.                                     *)
LEMMA WindowMoves ==
    ASSUME Typed, NEW c \in Client, StepOf(c)
    PROVE  \/ End(c)
           \/ /\ UNCHANGED window /\ (pc'[c] \in Shown <=> pc[c] \in Shown)
              /\ pc[c] \in Shown => user_id'[c] = user_id[c]
           \/ /\ pc'[c] \in Shown /\ user_id'[c] = user_id[c]
              /\ \E s \in Seq(Nat), i \in Id :
                    /\ OwnList(c, s) /\ OwnChat(c, i)
                    /\ listed' = [listed EXCEPT ![c] = s]
                    /\ current_chat_id' = [current_chat_id EXCEPT ![c] = i]
<1> DEFINE Shows == /\ pc'[c] \in Shown /\ user_id'[c] = user_id[c]
                    /\ \E s \in Seq(Nat), i \in Id :
                          /\ OwnList(c, s) /\ OwnChat(c, i)
                          /\ listed' = [listed EXCEPT ![c] = s]
                          /\ current_chat_id' = [current_chat_id EXCEPT ![c] = i]
           Keeping == /\ UNCHANGED window /\ (pc'[c] \in Shown <=> pc[c] \in Shown)
                      /\ pc[c] \in Shown => user_id'[c] = user_id[c]
<1>0. /\ pc \in [Client -> Place] /\ TypeOK /\ ReferencesResolve /\ 0 \in Id
      /\ listed \in [Client -> Seq(Nat)] /\ current_chat_id \in [Client -> Id]
      /\ OwnList(c, listed[c]) /\ OwnChat(c, current_chat_id[c])
    BY BoundAssumption DEF Typed, SessionTypeOK, Remembers, Id
<1>a. \A place : Move(c, place) => pc'[c] = place
    BY <1>0 DEF Move
<1>b. \A place : Go(c, place) => pc'[c] = place /\ UNCHANGED window
    BY <1>a DEF Go
<1>c. InMain(c) => pc[c] \in Shown
    BY DEF InMain, Shown
<1>d. \A i : OwnChat(c, i) => i \in Id
    BY <1>0, LinkedChat DEF OwnChat
<1>1. CASE Start(c)
    <2>1. pc[c] = "gone" /\ pc'[c] = "auth" /\ UNCHANGED window
        BY <1>0, <1>1 DEF Start
    <2>2. "gone" \notin Shown /\ "auth" \notin Shown
        BY DEF Shown, Adding
    <2> QED BY <2>1, <2>2
<1>2. CASE (FindUser(c) \/ AddUserLoop(c) \/ FindNewUser(c) \/ AddFirstChat(c)
            \/ GetFirstChatId(c) \/ LinkFirstChat(c) \/ SetTrelloTokenClicked(c)) /\ ~ End(c)
    <2> DEFINE Early == {"auth", "add_user", "refind", "add_chat", "get_chat_id", "link",
                         "trello", "opening"}
    <2>1. pc[c] \in Early /\ \E place \in Early : Go(c, place)
        BY <1>2 DEF FindUser, AddUserLoop, FindNewUser, AddFirstChat, GetFirstChatId,
                    TakeChatId, LinkFirstChat, SetTrelloTokenClicked, Return
    <2>2. Early \cap Shown = {}
        BY DEF Shown, Adding
    <2> HIDE DEF Early
    <2> QED BY <1>b, <2>1, <2>2
<1>3. CASE (AddChatDialog(c) \/ DialogGetChatId(c) \/ FindGuest(c) \/ LinkGuest(c)) /\ ~ End(c)
    <2>1. /\ pc[c] \in Shown /\ user_id' = user_id
          /\ \E place \in Shown : Go(c, place)
        BY <1>3 DEF AddChatDialog, DialogGetChatId, TakeChatId, FindGuest, LinkGuest, Return,
                    InMain, Shown, Adding
    <2> QED BY <1>b, <2>1
<1>4. CASE OpenWindow(c) /\ ~ End(c)
    <2> PICK ans \in {get_chat_list(user_id[c]), Fail} :
            /\ ans # Fail /\ Move(c, "main") /\ UNCHANGED <<user_id, handler>>
            /\ listed' = [listed EXCEPT ![c] = Ids(ans)]
            /\ current_chat_id' = [current_chat_id EXCEPT ![c] =
                                      IF Ids(ans) = <<>> THEN 0 ELSE Ids(ans)[1]]
        BY <1>4 DEF OpenWindow
    <2> DEFINE s == Ids(ans)
               i == IF s = <<>> THEN 0 ELSE s[1]
    <2>1. s \in Seq(Nat) /\ OwnList(c, s)
        BY <1>0, ListedChats DEF OwnList
    <2>2. OwnChat(c, i)
        <3>1. CASE s = <<>>
            BY <3>1 DEF OwnChat
        <3>2. CASE s # <<>>
            <4>1. 1 \in DOMAIN s
                BY <2>1, <3>2
            <4> HIDE DEF s
            <4> QED BY <2>1, <3>2, <4>1 DEF OwnList, OwnChat
        <3> QED BY <3>1, <3>2
    <2>3. pc'[c] \in Shown /\ user_id' = user_id
        BY <1>a DEF Shown
    <2> HIDE DEF i
    <2> QED BY <1>d, <2>1, <2>2, <2>3 DEF i
<1>5. CASE UpdateChats(c) /\ ~ End(c)
    <2> PICK ans \in {get_chat_list(user_id[c]), Fail} :
            /\ ans # Fail /\ listed' = [listed EXCEPT ![c] = Ids(ans)]
            /\ UNCHANGED <<pc, user_id, handler, current_chat_id, starts, halfway>>
        BY <1>5 DEF UpdateChats
    <2>1. Ids(ans) \in Seq(Nat) /\ OwnList(c, Ids(ans))
        BY <1>0, ListedChats DEF OwnList
    <2>2. current_chat_id' = [current_chat_id EXCEPT ![c] = current_chat_id[c]]
        BY <1>0
    <2>3. pc[c] \in Shown
        BY <1>5, <1>c DEF UpdateChats
    <2> QED BY <1>0, <2>1, <2>2, <2>3
<1>6. CASE ItemClicked(c)
    <2> PICK k \in DOMAIN listed[c] :
            current_chat_id' = [current_chat_id EXCEPT ![c] = listed[c][k]]
        BY <1>6 DEF ItemClicked
    <2>1. OwnChat(c, listed[c][k]) /\ listed[c][k] \in Id
        BY <1>0, <1>d DEF OwnList, OwnChat
    <2>2. listed' = [listed EXCEPT ![c] = listed[c]] /\ listed[c] \in Seq(Nat)
        BY <1>0, <1>6 DEF ItemClicked
    <2>3. pc'[c] \in Shown /\ user_id' = user_id
        BY <1>6, <1>c DEF ItemClicked
    <2> QED BY <1>0, <2>1, <2>2, <2>3
<1>7. CASE DialogLink(c)
    <2>1. /\ Move(c, "main") /\ user_id' = user_id /\ current_chat_id' = current_chat_id
          /\ listed' = [listed EXCEPT ![c] = <<>>]
        BY <1>7 DEF DialogLink
    <2>2. <<>> \in Seq(Nat) /\ OwnList(c, <<>>)
        BY DEF OwnList
    <2>3. current_chat_id' = [current_chat_id EXCEPT ![c] = current_chat_id[c]]
        BY <1>0, <2>1
    <2>4. pc'[c] \in Shown
        BY <1>a, <2>1 DEF Shown
    <2> QED BY <1>0, <2>1, <2>2, <2>3, <2>4
<1> QED BY <1>1, <1>2, <1>3, <1>4, <1>5, <1>6, <1>7 DEF StepOf, Leave, Continue

(* So it stays: a membership is never taken back.                          *)
LEMMA WindowStep ==
    ASSUME Typed, NEW c \in Client, StepOf(c)
    PROVE  WindowOK' /\ (\A d \in Client : Remembers(d))'
<1>0. /\ listed \in [Client -> Seq(Nat)] /\ current_chat_id \in [Client -> Id]
      /\ pc \in [Client -> Place] /\ user_id \in [Client -> Id] /\ 0 \in Id
      /\ \A d \in Client : Remembers(d)
    BY BoundAssumption DEF Typed, SessionTypeOK, Id
<1>1. /\ \A d \in Client \ {c} : pc'[d] = pc[d] /\ user_id'[d] = user_id[d]
    BY ClientStep
<1>2. \A u, i : Linked(u, i) => Linked(u, i)'
    <2>1. TypeOK /\ TypeOK' /\ OnlyGrows
        BY CallIsTransaction, GrowthStep, TypeStep DEF Typed
    <2>2. links \in Seq(Link) /\ links' \in Seq(Link) /\ Extends(links', links)
        BY <2>1 DEF TypeOK, OnlyGrows
    <2>3. \A k \in DOMAIN links : k \in DOMAIN links' /\ links'[k] = links[k]
        BY <2>2 DEF Extends
    <2> QED BY <2>3 DEF Linked
<1>3. ASSUME NEW d \in Client, listed'[d] = <<>>, current_chat_id'[d] = 0 PROVE Remembers(d)'
    BY <1>3 DEF Remembers, OwnList, OwnChat
<1>4. ASSUME NEW d \in Client, user_id'[d] = user_id[d], (pc'[d] \in Shown) <=> (pc[d] \in Shown),
             listed'[d] = listed[d], current_chat_id'[d] = current_chat_id[d]
      PROVE  Remembers(d)'
    BY <1>0, <1>2, <1>4 DEF Remembers, OwnList, OwnChat
<1>5. CASE End(c)
    <2>1. WindowOK' /\ listed'[c] = <<>> /\ current_chat_id'[c] = 0
        BY <1>0, <1>5 DEF End, WindowOK
    <2>2. \A d \in Client \ {c} : listed'[d] = listed[d] /\ current_chat_id'[d] = current_chat_id[d]
        BY <1>0, <1>5 DEF End
    <2>3. \A d \in Client \ {c} : Remembers(d)'
        BY <1>1, <1>4, <2>2
    <2> QED BY <1>3, <2>1, <2>3
<1>6. CASE /\ UNCHANGED window /\ (pc'[c] \in Shown <=> pc[c] \in Shown)
           /\ pc[c] \in Shown => user_id'[c] = user_id[c]
    <2>1. listed' = listed /\ current_chat_id' = current_chat_id
        BY <1>6 DEF window
    <2>2. \A d \in Client \ {c} : Remembers(d)'
        BY <1>1, <1>4, <2>1
    <2>3. CASE pc[c] \in Shown
        BY <1>0, <1>4, <1>6, <2>1, <2>2, <2>3 DEF WindowOK
    <2>4. CASE pc[c] \notin Shown
        <3>1. listed'[c] = <<>> /\ current_chat_id'[c] = 0
            BY <1>0, <2>1, <2>4 DEF Remembers
        <3> QED BY <1>0, <1>3, <2>1, <2>2, <3>1 DEF WindowOK
    <2> QED BY <2>3, <2>4
<1>7. ASSUME pc'[c] \in Shown, user_id'[c] = user_id[c], NEW s \in Seq(Nat), NEW i \in Id,
             OwnList(c, s), OwnChat(c, i), listed' = [listed EXCEPT ![c] = s],
             current_chat_id' = [current_chat_id EXCEPT ![c] = i]
      PROVE  WindowOK' /\ \A d \in Client : Remembers(d)'
    <2>1. WindowOK' /\ listed'[c] = s /\ current_chat_id'[c] = i
        BY <1>0, <1>7 DEF WindowOK
    <2>2. \A d \in Client \ {c} : listed'[d] = listed[d] /\ current_chat_id'[d] = current_chat_id[d]
        BY <1>0, <1>7
    <2>3. \A d \in Client \ {c} : Remembers(d)'
        BY <1>1, <1>4, <2>2
    <2>4. Remembers(c)'
        BY <1>2, <1>7, <2>1 DEF Remembers, OwnList, OwnChat
    <2> QED BY <2>1, <2>3, <2>4
<1> QED BY <1>5, <1>6, <1>7, WindowMoves

(* What a client remembers between two calls stays of its sort.            *)
LEMMA HandlerStep ==
    ASSUME Typed, NEW c \in Client, StepOf(c)
    PROVE  SessionTypeOK' /\ (\A d \in Client : Named(d))'
<1>0. TypeOK /\ SessionTypeOK /\ (\A d \in Client : Named(d)) /\ WindowOK'
    BY WindowStep DEF Typed
<1>m. \A place : Go(c, place) => Move(c, place)
    BY DEF Go
<1>a. /\ Account[c] \in UserName /\ Notes[Account[c]] \in ChatName
    BY AccountAssumption, NotesAssumption
<1>b. /\ {"add_user", "refind", "trello", "opening", "main", "taken", "member link"}
            \subseteq Place \ Naming
      /\ Naming \subseteq Place /\ Registering \cup Adding \subseteq Place
      /\ {"add_chat", "get_chat_id", "link", "dialog get_chat_id", "dialog link"} = Naming
    BY DEF Place, Naming, Registering, Adding
<1>c. /\ user_id[c] \in Id /\ chat_id[c] \in Id /\ guest[c] \in Id
      /\ chat_name[c] \in ChatName \cup {NoName} /\ NoName \in ChatName \cup {NoName}
      /\ pc[c] \in Naming => chat_name[c] \in ChatName
    BY <1>0, Same DEF Named
<1>1. CASE Start(c)
    <2>1. "auth" \in Place \ Naming
        BY DEF Place, Naming, Adding
    <2>2. pc' \in [Client -> Place]
        BY <1>0, <1>1, <2>1 DEF Start, SessionTypeOK
    <2>3. starts' \in [Client -> 0 .. MaxStarts]
        <3>1. starts[c] \in Nat /\ starts[c] < MaxStarts /\ starts[c] \in 0 .. MaxStarts
            BY <1>0, <1>1, StartsAssumption DEF Start, SessionTypeOK
        <3>2. starts[c] + 1 \in 0 .. MaxStarts
            BY <3>1, StartsAssumption
        <3> QED BY <1>0, <1>1, <3>2 DEF Start, SessionTypeOK
    <2>4. (\A d \in Client : Named(d))'
        BY <1>0, <1>1, <2>1 DEF Start, SessionTypeOK, Named, handler
    <2> QED BY <1>0, <1>1, <2>2, <2>3, <2>4 DEF Start, SessionTypeOK, handler, WindowOK
<1>2. CASE End(c)
    BY <1>0, <1>2, EndStep
<1>3. CASE FindUser(c) /\ ~ End(c)
    <2> PICK ans \in {find_user(Account[c]), Fail} :
            /\ Query(find_user(Account[c]), ans)
            /\ \/ /\ ans = NotFound /\ Go(c, "add_user")
                  /\ UNCHANGED <<user_id, handler>>
               \/ /\ ans \notin {Fail, NotFound} /\ Go(c, "opening")
                  /\ user_id' = [user_id EXCEPT ![c] = ans.user_id]
                  /\ UNCHANGED handler
        BY <1>3 DEF FindUser
    <2>1. ans \notin {Fail, NotFound} => ans.user_id \in Id
        BY <1>0, Found
    <2>2. CASE Go(c, "add_user") /\ UNCHANGED <<user_id, handler>>
        <3>1. Move(c, "add_user") /\ "add_user" \in Place \ Naming
            BY <1>b, <1>m, <2>2
        <3>2. /\ user_id' = user_id /\ chat_name' = chat_name
              /\ chat_id' = chat_id /\ guest' = guest
            BY <2>2 DEF handler
        <3> QED BY <1>0, <1>c, <3>1, <3>2, Same, GoStep
    <2>3. CASE /\ ans \notin {Fail, NotFound} /\ Go(c, "opening")
               /\ user_id' = [user_id EXCEPT ![c] = ans.user_id]
               /\ UNCHANGED handler
        <3> DEFINE u == ans.user_id
        <3>1. Move(c, "opening") /\ "opening" \in Place \ Naming /\ u \in Id
            BY <1>b, <1>m, <2>1, <2>3
        <3>2. /\ user_id' = [user_id EXCEPT ![c] = u]
              /\ chat_name' = chat_name /\ chat_id' = chat_id /\ guest' = guest
            BY <2>3 DEF handler
        <3>3. /\ chat_name' = [chat_name EXCEPT ![c] = chat_name[c]]
              /\ chat_id' = [chat_id EXCEPT ![c] = chat_id[c]]
              /\ guest' = [guest EXCEPT ![c] = guest[c]]
            BY <1>0, <3>2, Same
        <3> HIDE DEF u
        <3> QED BY <1>0, <1>c, <3>1, <3>2, <3>3, GoStep
    <2> QED BY <2>2, <2>3
<1>4. CASE AddUserLoop(c)
    <2> PICK ans \in {Success, Fail} :
            /\ Go(c, IF ans = Success THEN "refind" ELSE "add_user")
            /\ UNCHANGED <<user_id, handler>>
        BY <1>4 DEF AddUserLoop
    <2> DEFINE place == IF ans = Success THEN "refind" ELSE "add_user"
    <2>1. place \in Place \ Naming
        BY <1>b
    <2>2. Move(c, place) /\ UNCHANGED <<user_id, handler>>
        BY <1>m
    <2> HIDE DEF place
    <2> QED BY <1>0, <1>c, <2>1, <2>2, Same, GoStep DEF handler
<1>5. CASE FindNewUser(c) /\ ~ End(c)
    <2> PICK ans \in {find_user(Account[c]), Fail} :
            /\ Query(find_user(Account[c]), ans)
            /\ ans \notin {Fail, NotFound} /\ Go(c, "add_chat")
            /\ user_id' = [user_id EXCEPT ![c] = ans.user_id]
            /\ chat_name' = [chat_name EXCEPT ![c] = Notes[Account[c]]]
            /\ UNCHANGED <<chat_id, guest>>
        BY <1>5 DEF FindNewUser
    <2>1. ans.user_id \in Id
        BY <1>0, Found
    <2> QED BY <1>0, <1>a, <1>b, <1>c, <1>m, <2>1, Same, GoStep
<1>6. CASE AddFirstChat(c)
    <2>1. pc[c] = "add_chat" /\ Go(c, "get_chat_id") /\ UNCHANGED <<user_id, handler>>
        BY <1>6 DEF AddFirstChat
    <2> QED BY <1>0, <1>b, <1>c, <1>m, <2>1, Same, GoStep DEF handler
<1>7. ASSUME NEW next \in {"link", "dialog link"}, pc[c] \in Naming,
             TakeChatId(c, next), ~ End(c)
      PROVE  SessionTypeOK' /\ (\A d \in Client : Named(d))'
    <2> DEFINE ans == get_chat_id(chat_name[c])
    <2> DEFINE id == IF ans = Null THEN 0 ELSE ans.chat_id
    <2>1. /\ Go(c, next) /\ chat_id' = [chat_id EXCEPT ![c] = id]
          /\ UNCHANGED <<user_id, chat_name, guest>>
        BY <1>7 DEF TakeChatId
    <2>2. id \in Id
        BY <1>0, ChatFound, ZeroIsNoId
    <2>3. chat_name[c] \in ChatName
        BY <1>7, <1>c
    <2> HIDE DEF id
    <2> QED BY <1>0, <1>b, <1>c, <1>m, <2>1, <2>2, <2>3, Same, GoStep
<1>8. CASE (GetFirstChatId(c) \/ DialogGetChatId(c)) /\ ~ End(c)
    BY <1>b, <1>7, <1>8 DEF GetFirstChatId, DialogGetChatId
<1>9. ASSUME NEW place \in {"main", "opening", "trello"}, Move(c, place), Dropped(c),
             user_id' = user_id
      PROVE  SessionTypeOK' /\ (\A d \in Client : Named(d))'
    BY <1>0, <1>9, <1>b, ReturnStep
<1>10. CASE AddChatDialog(c)
    <2> PICK n \in ChatName, ans \in {Success, Fail} :
            /\ Go(c, IF ans = Success THEN "dialog get_chat_id" ELSE "taken")
            /\ chat_name' = [chat_name EXCEPT ![c] = n]
            /\ UNCHANGED <<user_id, chat_id, guest>>
        BY <1>10 DEF AddChatDialog
    <2> DEFINE place == IF ans = Success THEN "dialog get_chat_id" ELSE "taken"
    <2>1. place \in Place
        BY <1>b
    <2>2. Move(c, place)
        BY <1>m
    <2> HIDE DEF place
    <2> QED BY <1>0, <1>c, <2>1, <2>2, Same, GoStep
<1>11. CASE FindGuest(c) /\ ~ End(c) /\ ~ Return(c, "main")
    <2> DEFINE Guest(n, ans) ==
            /\ Query(find_user(n), ans)
            /\ ans \notin {Fail, NotFound} /\ Go(c, "member link")
            /\ guest' = [guest EXCEPT ![c] = ans.user_id]
            /\ chat_name' = [chat_name EXCEPT ![c] = NoName]
            /\ UNCHANGED <<user_id, chat_id>>
    <2> PICK n \in UserName : \E ans \in {find_user(n), Fail} : Guest(n, ans)
        BY <1>11 DEF FindGuest
    <2> PICK ans \in {find_user(n), Fail} : Guest(n, ans)
        OBVIOUS
    <2>1. ans.user_id \in Id
        BY <1>0, Found
    <2> QED BY <1>0, <1>b, <1>c, <1>m, <2>1, Same, GoStep
<1>12. CASE LinkFirstChat(c) \/ LinkGuest(c) \/ SetTrelloTokenClicked(c)
            \/ (FindGuest(c) /\ Return(c, "main"))
    <2>1. End(c) \/ \E place \in {"main", "opening", "trello"} : Return(c, place)
        BY <1>12 DEF LinkFirstChat, LinkGuest, SetTrelloTokenClicked
    <2> QED BY <1>2, <1>9, <1>m, <2>1 DEF Return
<1>13. CASE DialogLink(c)
    <2>1. Move(c, "main") /\ Dropped(c) /\ user_id' = user_id
        BY <1>13 DEF DialogLink
    <2> QED BY <1>9, <2>1
<1>14. CASE (OpenWindow(c) \/ UpdateChats(c) \/ ItemClicked(c)) /\ ~ End(c)
    <2>1. UNCHANGED <<user_id, handler>>
        BY <1>14 DEF OpenWindow, UpdateChats, ItemClicked
    <2>2. CASE Move(c, "main")
        BY <1>0, <1>b, <1>c, <2>1, <2>2, Same, GoStep DEF handler
    <2>3. CASE UNCHANGED <<pc, starts, halfway>>
        BY <1>0, <2>1, <2>3 DEF handler, SessionTypeOK, Named, WindowOK
    <2> QED BY <1>14, <2>2, <2>3 DEF OpenWindow, UpdateChats, ItemClicked
<1> QED BY <1>1, <1>2, <1>3, <1>4, <1>5, <1>6, <1>8, <1>10, <1>11, <1>12, <1>13, <1>14
        DEF StepOf, Leave, Continue

(* The part of the invariant that needs nothing but itself is inductive,   *)
(* and keeps every step a transaction.                                     *)
LEMMA TypedStep ==
    ASSUME Typed, [SessionNext]_vars
    PROVE  Typed' /\ [Next]_dbVars
<1>1. CASE UNCHANGED vars
    <2>1. TypeOK' /\ ReferencesResolve'
        BY <1>1 DEF vars, dbVars, Typed, TypeOK, ReferencesResolve, Resolves
    <2>2. SessionTypeOK'
        BY <1>1 DEF vars, handler, window, Typed, SessionTypeOK
    <2>3. \A c \in Client : Named(c)' /\ Remembers(c)'
        BY <1>1 DEF vars, handler, window, dbVars, Typed, Named, Remembers, OwnList, OwnChat,
                    Linked
    <2> QED BY <1>1, <2>1, <2>2, <2>3 DEF Typed, vars
<1>2. ASSUME NEW c \in Client, StepOf(c) PROVE Typed' /\ [Next]_dbVars
    <2>1. [Next]_dbVars
        BY <1>2, CallIsTransaction
    <2>2. SessionTypeOK' /\ (\A d \in Client : Named(d))'
        BY <1>2, HandlerStep
    <2>3. TypeOK' /\ ReferencesResolve'
        BY <2>1, TypeStep, ReferencesStep DEF Typed
    <2>4. (\A d \in Client : Remembers(d))'
        BY <1>2, WindowStep
    <2> QED BY <2>1, <2>2, <2>3, <2>4 DEF Typed
<1> QED BY <1>1, <1>2 DEF SessionNext, StepOf

(* The first start of the server and of no client. *)
LEMMA InitialSessions == SessionInit => Typed
<1> SUFFICES ASSUME SessionInit PROVE Typed
    OBVIOUS
<1>1. TypeOK /\ ReferencesResolve
    BY InitialTables DEF SessionInit, Integrity
<1>2. SessionTypeOK
    BY BoundAssumption, StartsAssumption DEF SessionInit, SessionTypeOK, Place, Id
<1>3. \A c \in Client : Named(c) /\ Remembers(c)
    BY DEF SessionInit, Named, Naming, Adding, Remembers, OwnList, OwnChat
<1> QED BY <1>1, <1>2, <1>3 DEF Typed

(* Every state of the sessions is typed. *)
LEMMA TypedAlways == SessionSpec => []Typed
<1>1. Typed /\ [SessionNext]_vars => Typed'
    BY TypedStep
<1> QED BY <1>1, InitialSessions, PTL DEF SessionSpec

-----------------------------------------------------------------------------
(* A handler never takes a null, a missing row or the id of another table  *)
(* for what it asked for.                                                  *)
THEOREM SessionTypeCorrect == SessionSpec => []SessionTypeOK
<1>1. Typed => SessionTypeOK
    BY DEF Typed
<1> QED BY <1>1, TypedAlways, PTL

(* The tables keep their integrity, and rows are only added, whatever the  *)
(* dialogs of any number of clients do in whatever order.                  *)
THEOREM SessionsKeepIntegrity == SessionSpec => []Integrity /\ AppendOnly
<1>1. SessionInit => Init
    BY DEF SessionInit
<1>2. Typed /\ [SessionNext]_vars => [Next]_dbVars
    BY TypedStep
<1>3. SessionSpec => Spec
    BY <1>1, <1>2, TypedAlways, PTL DEF SessionSpec, Spec
<1> QED BY <1>3, IntegrityHolds, OnlyAppends, PTL

(* A client acts as the user of its own name from its login to its end,    *)
(* whoever registers, and under whatever name, in between.                 *)
THEOREM ActsAsItself == SessionSpec => []SessionMatchesAccount
<1>1. SessionInit => SessionMatchesAccount
    BY DEF SessionInit, SessionMatchesAccount, LoggedIn, Adding
<1>2. Typed /\ SessionMatchesAccount /\ [SessionNext]_vars => SessionMatchesAccount'
    <2> SUFFICES ASSUME Typed, SessionMatchesAccount, [SessionNext]_vars
                 PROVE  SessionMatchesAccount'
        OBVIOUS
    <2>1. CASE UNCHANGED vars
        BY <2>1 DEF vars, dbVars, SessionMatchesAccount, LoggedIn
    <2>2. ASSUME NEW c \in Client, StepOf(c) PROVE SessionMatchesAccount'
        <3>1. \A i \in DOMAIN users : i \in DOMAIN users' /\ users'[i] = users[i]
            BY TypedStep, GrowthStep DEF Typed, OnlyGrows, Keeps
        <3>2. ASSUME NEW d \in Client, LoggedIn(d)'
              PROVE  user_id'[d] \in DOMAIN users /\ users[user_id'[d]] = Account[d]
            <4>1. CASE d = c
                BY <2>2, <3>2, <4>1, ClientStep DEF SessionMatchesAccount
            <4>2. CASE d # c
                <5>1. pc'[d] = pc[d] /\ user_id'[d] = user_id[d]
                    BY <2>2, <4>2, ClientStep
                <5> QED BY <3>2, <5>1 DEF SessionMatchesAccount, LoggedIn
            <4> QED BY <4>1, <4>2
        <3> QED BY <3>1, <3>2 DEF SessionMatchesAccount
    <2> QED BY <2>1, <2>2 DEF SessionNext, StepOf
<1> QED BY <1>1, <1>2, TypedAlways, PTL DEF SessionSpec

-----------------------------------------------------------------------------
(* A connection that is lost stays lost. *)
LEMMA LostStays == [Next]_dbVars /\ backend = "lost" => backend' = "lost"
<1> SUFFICES ASSUME [Next]_dbVars, backend = "lost" PROVE backend' = "lost"
    OBVIOUS
<1>1. \A ans : ~ Committed(ans) /\ ~ Refused(ans) /\ ~ Faulted(ans)
    BY DEF Committed, Refused, Faulted
<1>2. \A ans : Unreachable(ans) => backend' = "lost"
    BY DEF Unreachable, dbVars
<1>3. CASE UNCHANGED dbVars
    BY <1>3 DEF dbVars
<1> QED BY <1>1, <1>2, <1>3
        DEF Next, AddUser, AddChat, AddMessage, LinkUserToChat, SetTrelloToken, Read,
            add_user, add_chat, add_message, link_user_to_chat, set_trello_token, Query, dbVars

(* The name a client stores is its own, from the loop, which it leaves     *)
(* unless the commit was in doubt.                                         *)
Registered(c) ==
    /\ pc[c] = "add_user" /\ ~ Taken(users, Account[c])
    /\ users' = WithRow(users, user_seq + 1, Account[c])
    /\ pc'[c] = "refind" \/ backend' = "lost"

(* add_user, called in the loop, stores the name and answers SUCCESS,      *)
(* stores it and loses the connection, or answers FAIL.                    *)
LEMMA LoopStep ==
    ASSUME Typed, NEW c \in Client, AddUserLoop(c)
    PROVE  /\ pc[c] = "add_user" /\ pc'[c] \in {"add_user", "refind"} /\ tokens' = tokens
           /\ (pc'[c] = "add_user" /\ users' = users) \/ Registered(c)
<1> PICK ans \in {Success, Fail} :
        /\ pc[c] = "add_user" /\ add_user(Account[c], ans)
        /\ Go(c, IF ans = Success THEN "refind" ELSE "add_user")
    BY DEF AddUserLoop
<1>1. /\ ans = Success => pc'[c] = "refind"
      /\ ans # Success => pc'[c] = "add_user"
    BY DEF Go, Move, Typed, SessionTypeOK
<1>2. tokens' = tokens
    BY DEF add_user, Unreachable, dbVars
<1>3. CASE ans = Success
    <2>1. ~ Taken(users, Account[c]) /\ users' = WithRow(users, user_seq + 1, Account[c])
        BY <1>3, SuccessIsCommit DEF add_user
    <2> QED BY <1>1, <1>2, <1>3, <2>1 DEF Registered
<1>4. CASE ans # Success
    <2>1. CASE users' = users
        BY <1>1, <1>2, <1>4, <2>1
    <2>2. CASE /\ ~ Taken(users, Account[c]) /\ Committed(ans)
               /\ users' = WithRow(users, user_seq + 1, Account[c])
        <3>1. backend' = "lost"
            BY <1>4, <2>2 DEF Committed
        <3> QED BY <1>1, <1>2, <1>4, <2>2, <3>1 DEF Registered
    <2> QED BY <2>1, <2>2 DEF add_user, Unreachable, dbVars
<1> QED BY <1>3, <1>4

(* A step that is not of the loop stores no user; it enters the loop for a *)
(* name that is not stored.                                                *)
LEMMA OtherStep ==
    ASSUME Typed, NEW c \in Client, StepOf(c), ~ AddUserLoop(c)
    PROVE  /\ users' = users
           /\ pc'[c] = "add_user" => ~ Taken(users, Account[c])
<1>0. pc \in [Client -> Place] /\ TypeOK
    BY DEF Typed, SessionTypeOK
<1>a. \A place : Go(c, place) \/ Move(c, place) => pc'[c] = place
    BY <1>0 DEF Go, Move
<1>b. End(c) => pc'[c] = "gone"
    BY <1>0 DEF End
<1>c. \A value, ans : Query(value, ans) => users' = users
    BY DEF Query, Unreachable, dbVars, tables
<1>1. CASE Start(c) \/ Leave(c)
    BY <1>0, <1>1, <1>b DEF Start, Leave, dbVars
<1>2. CASE FindUser(c)
    <2> PICK ans \in {find_user(Account[c]), Fail} :
            /\ Query(find_user(Account[c]), ans)
            /\ \/ End(c)
               \/ ans = NotFound /\ Go(c, "add_user")
               \/ Go(c, "opening")
        BY <1>2 DEF FindUser
    <2>1. ans = NotFound => ~ Taken(users, Account[c])
        BY <1>0, Found
    <2> QED BY <1>a, <1>b, <1>c, <2>1
<1>3. CASE FindNewUser(c) \/ FindGuest(c)
    BY <1>3, <1>a, <1>b, <1>c DEF FindNewUser, FindGuest, Return
<1>4. CASE GetFirstChatId(c) \/ DialogGetChatId(c)
    BY <1>4, <1>a, <1>b, <1>c DEF GetFirstChatId, DialogGetChatId, TakeChatId
<1>5. CASE AddFirstChat(c) \/ AddChatDialog(c)
    <2>1. users' = users
        BY <1>5 DEF AddFirstChat, AddChatDialog, add_chat, Unreachable, dbVars
    <2> QED BY <1>5, <1>a, <2>1 DEF AddFirstChat, AddChatDialog
<1>6. CASE LinkFirstChat(c) \/ DialogLink(c) \/ LinkGuest(c)
    <2>1. users' = users
        BY <1>6 DEF LinkFirstChat, DialogLink, LinkGuest, link_user_to_chat,
                    Unreachable, dbVars
    <2> QED BY <1>6, <1>a, <2>1 DEF LinkFirstChat, DialogLink, LinkGuest, Return
<1>7. CASE SetTrelloTokenClicked(c)
    <2>1. users' = users
        BY <1>7 DEF SetTrelloTokenClicked, set_trello_token, Unreachable, dbVars
    <2> QED BY <1>7, <1>a, <1>b, <2>1 DEF SetTrelloTokenClicked, Return
<1>8. CASE OpenWindow(c) \/ UpdateChats(c) \/ ItemClicked(c)
    <2>1. users' = users
        BY <1>8, <1>c DEF OpenWindow, UpdateChats, ItemClicked, dbVars
    <2>2. pc'[c] # "add_user"
        BY <1>8, <1>a, <1>b DEF OpenWindow, UpdateChats, ItemClicked, InMain
    <2> QED BY <2>1, <2>2
<1> QED BY <1>1, <1>2, <1>3, <1>4, <1>5, <1>6, <1>7, <1>8 DEF StepOf, Continue

(* A process there is has been started. *)
Started == \A c \in Client : pc[c] # "gone" => starts[c] > 0

(* Only Start makes a process out of none; no step forgets a start.        *)
LEMMA StartedStep ==
    ASSUME Typed, Started, NEW c \in Client, StepOf(c)
    PROVE  Started' /\ \A d \in Client : starts[d] > 0 => starts'[d] > 0
<1>0. /\ starts \in [Client -> 0 .. MaxStarts] /\ pc \in [Client -> Place]
      /\ MaxStarts \in Nat
    BY StartsAssumption DEF Typed, SessionTypeOK
<1>1. \A d \in Client \ {c} : pc'[d] = pc[d]
    BY ClientStep
<1>2. CASE Start(c)
    <2>1. starts'[c] > 0 /\ \A d \in Client \ {c} : starts'[d] = starts[d]
        BY <1>0, <1>2 DEF Start
    <2> QED BY <1>1, <2>1 DEF Started
<1>3. CASE starts' = starts /\ pc[c] # "gone"
    BY <1>1, <1>3 DEF Started
<1>4. CASE ~ Start(c)
    <2>1. pc[c] # "gone"
        BY <1>4 DEF StepOf, Leave, Continue, OpenWindow, UpdateChats, ItemClicked, FindUser, AddUserLoop, FindNewUser,
                    AddFirstChat, GetFirstChatId, LinkFirstChat, DialogGetChatId, DialogLink,
                    LinkGuest, SetTrelloTokenClicked, AddChatDialog, FindGuest, InMain
    <2>2. starts' = starts
        BY <1>4 DEF StepOf, Leave, Continue, FindUser, AddUserLoop, FindNewUser,
                    AddFirstChat, GetFirstChatId, LinkFirstChat, DialogGetChatId, DialogLink,
                    LinkGuest, SetTrelloTokenClicked, AddChatDialog, FindGuest, TakeChatId,
                    OpenWindow, UpdateChats, ItemClicked, Return, Go, Move, End
    <2> QED BY <1>3, <2>1, <2>2
<1> QED BY <1>2, <1>4

(* A client is caught in the loop of auth.cpp:35 only by a second client   *)
(* of its name that was started, or with the connection gone.              *)
THEOREM OnlyRaceSticks == SessionSpec => []StuckOnlyByRace
<1>1. SessionInit => StuckOnlyByRace /\ Started
    BY DEF SessionInit, StuckOnlyByRace, Started
<1>2. Typed /\ Started /\ StuckOnlyByRace /\ [SessionNext]_vars => (Started /\ StuckOnlyByRace)'
    <2> SUFFICES ASSUME Typed, Started, StuckOnlyByRace, [SessionNext]_vars
                 PROVE  Started' /\ StuckOnlyByRace'
        OBVIOUS
    <2>0. backend = "lost" => backend' = "lost"
        BY TypedStep, LostStays
    <2>1. CASE UNCHANGED vars
        BY <2>1 DEF vars, dbVars, StuckOnlyByRace, HasRival, Taken, Started
    <2> DEFINE Rival(d, e) == Account[e] = Account[d] /\ starts[e] > 0
    <2>2. ASSUME NEW c \in Client, StepOf(c),
                 NEW d \in Client, pc'[d] = "add_user", Taken(users', Account[d])
          PROVE  backend' = "lost" \/ \E e \in Client \ {d} : Rival(d, e)'
        <3>0. \A e \in Client : Rival(d, e) => Rival(d, e)'
            BY <2>2, StartedStep
        <3>a. pc[d] = "add_user" /\ Taken(users, Account[d]) =>
                  backend = "lost" \/ \E e \in Client \ {d} : Rival(d, e)
            BY DEF StuckOnlyByRace, HasRival
        <3>b. pc[c] # "gone" => starts[c] > 0
            BY <2>2 DEF Started
        <3> HIDE DEF Rival
        <3>1. CASE ~ AddUserLoop(c)
            <4>1. users' = users /\ (pc'[c] = "add_user" => ~ Taken(users, Account[c]))
                BY <2>2, <3>1, OtherStep
            <4>2. d # c /\ pc[d] = "add_user"
                BY <2>2, <4>1, ClientStep
            <4> QED BY <2>0, <2>2, <3>0, <3>a, <4>1, <4>2
        <3>2. CASE AddUserLoop(c)
            <4>1. pc[d] = "add_user" /\ pc[c] = "add_user"
                BY <2>2, <3>2, LoopStep, ClientStep
            <4>2. CASE users' = users
                BY <2>0, <2>2, <3>0, <3>a, <4>1, <4>2
            <4>3. CASE Registered(c)
                <5>1. Taken(users, Account[d]) \/ Account[d] = Account[c]
                    BY <2>2, <4>3 DEF Registered, WithRow, Taken
                <5>2. CASE Taken(users, Account[d])
                    BY <2>0, <3>0, <3>a, <4>1, <5>2
                <5>3. CASE Account[d] = Account[c] /\ d # c
                    <6>1. Rival(d, c)
                        BY <3>b, <4>1, <5>3 DEF Rival
                    <6> QED BY <3>0, <5>3, <6>1
                <5>4. CASE d = c
                    BY <2>2, <4>3, <5>4 DEF Registered
                <5> QED BY <5>1, <5>2, <5>3, <5>4
            <4> QED BY <3>2, <4>2, <4>3, LoopStep
        <3> QED BY <3>1, <3>2
    <2>3. ASSUME NEW c \in Client, StepOf(c) PROVE Started'
        BY <2>3, StartedStep
    <2> QED BY <2>1, <2>2, <2>3 DEF SessionNext, StepOf, StuckOnlyByRace, HasRival
<1> QED BY <1>1, <1>2, TypedAlways, PTL DEF SessionSpec

(* And it stays there to its end: no answer but SUCCESS leaves the loop,   *)
(* and a stored name never gets one.                                       *)
THEOREM LoserStaysInLoop == SessionSpec => LoserSpins
<1> DEFINE Spins == \A c \in Client : pc[c] = "add_user" /\ Taken(users, Account[c]) =>
                        pc'[c] \in {"add_user", "gone"}
<1>1. Typed /\ [SessionNext]_vars => [Spins]_vars
    <2> SUFFICES ASSUME Typed, NEW d \in Client, StepOf(d), NEW c \in Client,
                        pc[c] = "add_user", Taken(users, Account[c])
                 PROVE  pc'[c] \in {"add_user", "gone"}
        BY DEF SessionNext, StepOf
    <2>1. CASE c # d
        BY <2>1, ClientStep
    <2>2. CASE c = d /\ AddUserLoop(c)
        BY <2>2, LoopStep DEF Registered
    <2>3. CASE c = d /\ Leave(c)
        BY <2>3 DEF Leave, End, Typed, SessionTypeOK
    <2> QED BY <2>1, <2>2, <2>3
            DEF StepOf, Start, Continue, FindUser, FindNewUser, AddFirstChat,
                GetFirstChatId, LinkFirstChat, DialogGetChatId, DialogLink, LinkGuest,
                SetTrelloTokenClicked, AddChatDialog, FindGuest, OpenWindow, UpdateChats,
                ItemClicked, InMain
<1> QED BY <1>1, TypedAlways, PTL DEF SessionSpec, LoserSpins

-----------------------------------------------------------------------------
(* A new membership is the one the call names, in a chat that is stored.   *)
LEMMA LinkAdds ==
    ASSUME TypeOK, NEW u \in Id, NEW i \in Id, NEW ans, link_user_to_chat(u, i, ans),
           NEW k \in DOMAIN links' \ DOMAIN links
    PROVE  links'[k].user_id = u /\ links'[k].chat_id = i /\ i \in DOMAIN chats
<1> DEFINE row == [user_id |-> u, chat_id |-> i]
<1>1. links' # links
    OBVIOUS
<1>2. links' = Append(links, row) /\ i \in DOMAIN chats
    BY <1>1 DEF link_user_to_chat, Unreachable, dbVars, Resolves
<1>3. row \in Link
    BY BoundAssumption DEF Link, Id
<1>4. k = Len(links) + 1 /\ links'[k] = row
    BY <1>2, <1>3, AppendedRow DEF TypeOK
<1>5. row.user_id = u /\ row.chat_id = i
    OBVIOUS
<1> HIDE DEF row
<1> QED BY <1>2, <1>4, <1>5

(* No step of one client touches what another holds, or takes a chat from  *)
(* a user or a member from a chat.                                         *)
LEMMA OthersHold ==
    ASSUME Typed, NEW c \in Client, StepOf(c)
    PROVE  /\ \A d \in Client \ {c} : /\ pc'[d] = pc[d] /\ chat_name'[d] = chat_name[d]
                                      /\ chat_id'[d] = chat_id[d]
           /\ halfway \subseteq halfway'
<1>0. /\ pc \in [Client -> Place] /\ chat_id \in [Client -> Id]
      /\ chat_name \in [Client -> ChatName \cup {NoName}]
    BY DEF Typed, SessionTypeOK
<1>1. ASSUME NEW d \in Client \ {c} PROVE pc'[d] = pc[d]
    BY ClientStep
<1>2. ASSUME NEW d \in Client \ {c} PROVE chat_name'[d] = chat_name[d] /\ chat_id'[d] = chat_id[d]
    <2>1. CASE End(c) \/ \E place : Return(c, place)
        BY <1>0, <2>1 DEF End, Return, Dropped
    <2>2. CASE Start(c) \/ FindUser(c) \/ AddUserLoop(c) \/ AddFirstChat(c)
        BY <2>1, <2>2 DEF Start, FindUser, AddUserLoop, AddFirstChat, handler
    <2>3. CASE FindNewUser(c)
        BY <1>0, <2>1, <2>3 DEF FindNewUser
    <2>4. CASE GetFirstChatId(c) \/ DialogGetChatId(c)
        BY <1>0, <2>1, <2>4 DEF GetFirstChatId, DialogGetChatId, TakeChatId
    <2>5. CASE AddChatDialog(c)
        BY <1>0, <2>5 DEF AddChatDialog
    <2>6. CASE FindGuest(c)
        BY <1>0, <2>1, <2>6 DEF FindGuest
    <2>7. CASE LinkFirstChat(c) \/ LinkGuest(c) \/ SetTrelloTokenClicked(c)
        BY <2>1, <2>7 DEF LinkFirstChat, LinkGuest, SetTrelloTokenClicked
    <2>8. CASE DialogLink(c)
        BY <1>0, <2>8 DEF DialogLink, Dropped
    <2>9. CASE OpenWindow(c) \/ UpdateChats(c) \/ ItemClicked(c)
        BY <2>1, <2>9 DEF OpenWindow, UpdateChats, ItemClicked, handler
    <2> QED BY <2>1, <2>2, <2>3, <2>4, <2>5, <2>6, <2>7, <2>8, <2>9 DEF StepOf, Leave, Continue
<1>3. halfway \subseteq halfway'
    BY DEF StepOf, Start, Leave, Continue, FindUser, AddUserLoop, FindNewUser, AddFirstChat,
       GetFirstChatId, LinkFirstChat, DialogGetChatId, DialogLink, LinkGuest,
       SetTrelloTokenClicked, AddChatDialog, FindGuest, TakeChatId, OpenWindow,
       UpdateChats, ItemClicked, Return, Go, Move, End
<1> QED BY <1>1, <1>2, <1>3

(* A handler that is about to link its user holds no chat, or the one of   *)
(* the name it works on.                                                   *)
Holds(c) == pc[c] \in {"link", "dialog link"} =>
    chat_id[c] = 0 \/ (chat_id[c] \in DOMAIN chats /\ chats[chat_id[c]] = chat_name[c])

(* It got the id from get_chat_id for that name, and chats are never       *)
(* renamed.                                                                *)
LEMMA HoldsStep ==
    ASSUME Typed, \A d \in Client : Holds(d), NEW c \in Client, StepOf(c)
    PROVE  \A d \in Client : Holds(d)'
<1>0. /\ pc \in [Client -> Place] /\ chat_id \in [Client -> Id]
    BY DEF Typed, SessionTypeOK
<1>a. \A place : Go(c, place) \/ Move(c, place) => pc'[c] = place
    BY <1>0 DEF Go, Move
<1>b. End(c) => pc'[c] = "gone"
    BY <1>0 DEF End
<1>1. \A i \in DOMAIN chats : i \in DOMAIN chats' /\ chats'[i] = chats[i]
    BY CallIsTransaction, GrowthStep DEF Typed, OnlyGrows, Keeps
<1>2. ASSUME NEW d \in Client \ {c} PROVE Holds(d)'
    BY <1>1, OthersHold DEF Holds
<1>3. ASSUME NEW next, TakeChatId(c, next) PROVE Holds(c)'
    <2> DEFINE found == CHOOSE i \in DOMAIN chats : chats[i] = chat_name[c]
    <2> PICK ans \in {get_chat_id(chat_name[c]), Fail} :
            \/ End(c)
            \/ /\ ans # Fail /\ chat_name' = chat_name
               /\ chat_id' = [chat_id EXCEPT ![c] = IF ans = Null THEN 0 ELSE ans.chat_id]
        BY <1>3 DEF TakeChatId
    <2>1. CASE End(c)
        BY <1>b, <2>1 DEF Holds
    <2>2. CASE ~ End(c) /\ ans = Null
        BY <1>0, <2>2 DEF Holds
    <2>3. CASE ~ End(c) /\ ans # Null
        <3>1. Taken(chats, chat_name[c]) /\ ans = [chat_id |-> found, chat_name |-> chat_name[c]]
            BY <2>3 DEF get_chat_id
        <3>2. found \in DOMAIN chats /\ chats[found] = chat_name[c]
            BY <3>1 DEF Taken
        <3>3. chat_id'[c] = found /\ chat_name'[c] = chat_name[c]
            BY <1>0, <2>3, <3>1
        <3> HIDE DEF found
        <3> QED BY <1>1, <3>2, <3>3 DEF Holds
    <2> QED BY <2>1, <2>2, <2>3
<1>4. CASE GetFirstChatId(c) \/ DialogGetChatId(c)
    BY <1>2, <1>3, <1>4 DEF GetFirstChatId, DialogGetChatId
<1>5. CASE ~ (GetFirstChatId(c) \/ DialogGetChatId(c))
    <2>1. pc'[c] \notin {"link", "dialog link"}
        <3>1. CASE Start(c) \/ Leave(c)
            BY <1>0, <1>b, <3>1 DEF Start, Leave
        <3>2. CASE FindUser(c) \/ AddUserLoop(c) \/ FindNewUser(c)
            BY <1>a, <1>b, <3>2 DEF FindUser, AddUserLoop, FindNewUser
        <3>3. CASE AddFirstChat(c) \/ LinkFirstChat(c) \/ SetTrelloTokenClicked(c)
            BY <1>a, <1>b, <3>3 DEF AddFirstChat, LinkFirstChat, SetTrelloTokenClicked, Return
        <3>4. CASE OpenWindow(c) \/ UpdateChats(c) \/ ItemClicked(c)
            BY <1>a, <1>b, <3>4 DEF OpenWindow, UpdateChats, ItemClicked, InMain
        <3>5. CASE AddChatDialog(c) \/ DialogLink(c) \/ FindGuest(c) \/ LinkGuest(c)
            BY <1>a, <1>b, <3>5 DEF AddChatDialog, DialogLink, FindGuest, LinkGuest, Return
        <3> QED BY <1>5, <3>1, <3>2, <3>3, <3>4, <3>5 DEF StepOf, Continue
    <2>2. Holds(c)'
        BY <2>1 DEF Holds
    <2> QED BY <1>2, <2>2
<1> QED BY <1>4, <1>5

(* Nobody is put into a chat but by himself, into the one he asked for, or *)
(* by one of its members: the chat a main window has in view is one its    *)
(* user was in when it was listed, and from a list of then to the click    *)
(* and to the call of now nobody is taken out of a chat.                   *)
THEOREM MembersLetIn == SessionSpec => EnteredByMember
<1> DEFINE Enters(k, c) == /\ LoggedIn(c) /\ pc'[c] # pc[c]
                           /\ \/ /\ links'[k].user_id = user_id[c]
                                 /\ chats[links'[k].chat_id] = chat_name[c]
                              \/ Linked(user_id[c], links'[k].chat_id)
<1> DEFINE Entered == \A k \in DOMAIN links' \ DOMAIN links : \E c \in Client : Enters(k, c)
<1> DEFINE Hold == \A c \in Client : Holds(c)
<1>1. SessionInit => Hold
    BY DEF SessionInit, Holds
<1>2. Typed /\ Hold /\ [SessionNext]_vars => Hold'
    <2>1. CASE UNCHANGED vars
        BY <2>1 DEF vars, dbVars, handler, Holds
    <2>2. ASSUME Typed, Hold, NEW c \in Client, StepOf(c) PROVE Hold'
        BY <2>2, HoldsStep
    <2> QED BY <2>1, <2>2 DEF SessionNext, StepOf
<1>3. Typed /\ Hold /\ [SessionNext]_vars => [Entered]_vars
    <2> SUFFICES ASSUME Typed, Hold, NEW c \in Client, StepOf(c),
                        NEW k \in DOMAIN links' \ DOMAIN links
                 PROVE  Enters(k, c)
        BY DEF SessionNext, StepOf
    <2>0. /\ TypeOK /\ pc \in [Client -> Place] /\ current_chat_id[c] \in Id
          /\ user_id[c] \in Id /\ chat_id[c] \in Id /\ guest[c] \in Id
          /\ 0 \notin DOMAIN chats
        BY ZeroIsNoId DEF Typed, SessionTypeOK
    <2>a. \A place : Go(c, place) \/ Move(c, place) => pc'[c] = place
        BY <2>0 DEF Go, Move
    <2>1. links' # links
        OBVIOUS
    <2>2. CASE LinkFirstChat(c) \/ DialogLink(c)
        <3>1. /\ links'[k].user_id = user_id[c] /\ links'[k].chat_id = chat_id[c]
              /\ chat_id[c] \in DOMAIN chats
            BY <2>0, <2>2, LinkAdds DEF LinkFirstChat, DialogLink
        <3>2. pc[c] \in {"link", "dialog link"} /\ pc'[c] \in {"trello", "main"}
            BY <2>2, <2>a DEF LinkFirstChat, DialogLink, Return
        <3>3. LoggedIn(c) /\ pc'[c] # pc[c]
            BY <3>2 DEF LoggedIn, Adding
        <3>4. chats[chat_id[c]] = chat_name[c]
            BY <2>0, <3>1, <3>2 DEF Holds
        <3> QED BY <3>1, <3>3, <3>4
    <2>3. CASE LinkGuest(c)
        <3> DEFINE i == current_chat_id[c]
        <3>1. pc[c] = "member link" /\ pc'[c] = "main"
            BY <2>3, <2>a DEF LinkGuest, Return
        <3>2. links'[k].chat_id = i /\ i \in DOMAIN chats
            <4>1. i \in Id /\ \E ans : link_user_to_chat(guest[c], i, ans)
                BY <2>0, <2>3 DEF LinkGuest
            <4> HIDE DEF i
            <4> QED BY <2>0, <4>1, LinkAdds
        <3>3. Linked(user_id[c], links'[k].chat_id)
            BY <2>0, <3>2 DEF Typed, Remembers, OwnChat
        <3>4. LoggedIn(c) /\ pc'[c] # pc[c]
            BY <3>1 DEF LoggedIn
        <3> QED BY <3>3, <3>4
    <2>4. CASE Start(c) \/ Leave(c) \/ ItemClicked(c)
        BY <2>1, <2>4 DEF Start, Leave, ItemClicked, dbVars
    <2>5. CASE FindUser(c) \/ FindNewUser(c) \/ FindGuest(c)
        BY <2>1, <2>5 DEF FindUser, FindNewUser, FindGuest, Query, Unreachable, dbVars, tables
    <2>6. CASE GetFirstChatId(c) \/ DialogGetChatId(c)
        BY <2>1, <2>6 DEF GetFirstChatId, DialogGetChatId, TakeChatId, Query, Unreachable,
                          dbVars, tables
    <2>7. CASE AddFirstChat(c) \/ AddChatDialog(c)
        BY <2>1, <2>7 DEF AddFirstChat, AddChatDialog, add_chat, Unreachable, dbVars
    <2>8. CASE AddUserLoop(c) \/ SetTrelloTokenClicked(c)
        BY <2>1, <2>8 DEF AddUserLoop, SetTrelloTokenClicked, add_user, set_trello_token,
                          Unreachable, dbVars
    <2>9. CASE OpenWindow(c) \/ UpdateChats(c)
        BY <2>1, <2>9 DEF OpenWindow, UpdateChats, Query, Unreachable, dbVars, tables
    <2> QED BY <2>2, <2>3, <2>4, <2>5, <2>6, <2>7, <2>8, <2>9 DEF StepOf, Continue
<1> QED BY <1>1, <1>2, <1>3, TypedAlways, PTL DEF SessionSpec, EnteredByMember

-----------------------------------------------------------------------------
(* A client whose user is being registered, up to the Trello window.       *)
Newcomer(c) == pc[c] \in Registering \cup {"trello"}

(* A newcomer's name is stored and has no token yet, and nobody else is    *)
(* registering it.                                                         *)
Untouched(c) ==
    /\ Taken(users, Account[c])
    /\ \A k \in DOMAIN tokens : users[tokens[k].user_id] # Account[c]
NewcomersApart ==
    /\ \A c \in Client : Newcomer(c) => Untouched(c)
    /\ \A c, d \in Client : Newcomer(c) /\ Newcomer(d) /\ Account[c] = Account[d] => c = d

(* A newcomer comes from the loop with SUCCESS, and leaves with a token or *)
(* without.                                                                *)
LEMMA NewcomerStep ==
    ASSUME Typed, NEW c \in Client, StepOf(c)
    PROVE  /\ Newcomer(c)' => Newcomer(c) \/ (Registered(c) /\ tokens' = tokens)
           /\ \/ tokens' = tokens
              \/ /\ pc[c] = "trello" /\ ~ Newcomer(c)' /\ users' = users
                 /\ \E t \in Token : tokens' = Append(tokens, [user_id |-> user_id[c],
                                                             trello_token |-> t])
<1>0. pc \in [Client -> Place] /\ TypeOK
    BY DEF Typed, SessionTypeOK
<1>a. \A place : Go(c, place) \/ Move(c, place) => pc'[c] = place
    BY <1>0 DEF Go, Move
<1>b. End(c) => pc'[c] = "gone"
    BY <1>0 DEF End
<1>c. \A value, ans : Query(value, ans) => tokens' = tokens
    BY DEF Query, Unreachable, dbVars, tables
<1>1. CASE Start(c) \/ Leave(c)
    BY <1>0, <1>1, <1>b DEF Start, Leave, dbVars, Newcomer, Registering
<1>2. CASE AddUserLoop(c)
    BY <1>2, LoopStep DEF Newcomer, Registering
<1>3. CASE FindUser(c) \/ FindNewUser(c) \/ FindGuest(c)
    BY <1>3, <1>a, <1>b, <1>c
       DEF FindUser, FindNewUser, FindGuest, Return, Newcomer, Registering
<1>4. CASE GetFirstChatId(c) \/ DialogGetChatId(c)
    BY <1>4, <1>a, <1>b, <1>c
       DEF GetFirstChatId, DialogGetChatId, TakeChatId, Newcomer, Registering
<1>5. CASE AddFirstChat(c) \/ AddChatDialog(c)
    <2>1. tokens' = tokens
        BY <1>5 DEF AddFirstChat, AddChatDialog, add_chat, Unreachable, dbVars
    <2> QED BY <1>5, <1>a, <2>1 DEF AddFirstChat, AddChatDialog, Newcomer, Registering
<1>6. CASE LinkFirstChat(c) \/ DialogLink(c) \/ LinkGuest(c)
    <2>1. tokens' = tokens
        BY <1>6 DEF LinkFirstChat, DialogLink, LinkGuest, link_user_to_chat,
                    Unreachable, dbVars
    <2> QED BY <1>6, <1>a, <2>1
            DEF LinkFirstChat, DialogLink, LinkGuest, Return, Newcomer, Registering
<1>7. CASE SetTrelloTokenClicked(c)
    <2> PICK t \in Token, ans \in {Success, Fail} :
            /\ pc[c] = "trello" /\ set_trello_token(user_id[c], t, ans)
            /\ Go(c, "opening") \/ End(c)
        BY <1>7 DEF SetTrelloTokenClicked, Return
    <2>1. ~ Newcomer(c)'
        BY <1>a, <1>b DEF Newcomer, Registering
    <2> QED BY <2>1 DEF set_trello_token, Unreachable, dbVars
<1>8. CASE OpenWindow(c) \/ UpdateChats(c) \/ ItemClicked(c)
    <2>1. tokens' = tokens
        BY <1>8, <1>c DEF OpenWindow, UpdateChats, ItemClicked, dbVars
    <2>2. ~ (Newcomer(c))'
        BY <1>8, <1>a, <1>b DEF OpenWindow, UpdateChats, ItemClicked, InMain, Newcomer,
                                Registering
    <2> QED BY <2>1, <2>2
<1> QED BY <1>1, <1>2, <1>3, <1>4, <1>5, <1>6, <1>7, <1>8 DEF StepOf, Continue

(* Newcomers stay apart, and so a token is the first of its user.          *)
LEMMA TokenStep ==
    ASSUME Typed, Integrity, SessionMatchesAccount, NewcomersApart, OneTokenEach,
           NEW c \in Client, StepOf(c)
    PROVE  NewcomersApart' /\ OneTokenEach'
<1>1. \A d \in Client \ {c} : (Newcomer(d))' <=> Newcomer(d)
    BY ClientStep DEF Newcomer
<1>2. \A k \in DOMAIN tokens : tokens[k].user_id \in DOMAIN users
    BY DEF Integrity, ReferencesResolve
<1>3. /\ \A i \in DOMAIN users : i \in DOMAIN users' /\ users'[i] = users[i]
      /\ \A n : Taken(users, n) => Taken(users', n)
    <2>1. \A i \in DOMAIN users : i \in DOMAIN users' /\ users'[i] = users[i]
        BY TypedStep, GrowthStep DEF Typed, OnlyGrows, Keeps, SessionNext, StepOf
    <2> QED BY <2>1 DEF Taken
<1>4. CASE tokens' = tokens /\ ~ Registered(c)
    <2>1. (Newcomer(c))' => Newcomer(c)
        BY <1>4, NewcomerStep
    <2>2. OneTokenEach'
        BY <1>4 DEF OneTokenEach
    <2>3. \A d \in Client : Untouched(d) => Untouched(d)'
        BY <1>2, <1>3, <1>4 DEF Untouched
    <2> QED BY <1>1, <2>1, <2>2, <2>3 DEF NewcomersApart
<1>5. CASE tokens' = tokens /\ Registered(c)
    <2>1. OneTokenEach'
        BY <1>5 DEF OneTokenEach
    <2>2. \A d \in Client : Untouched(d) => Untouched(d)'
        BY <1>2, <1>3, <1>5 DEF Untouched
    <2>3. Untouched(c)'
        <3>1. Taken(users', Account[c])
            BY <1>5 DEF Registered, WithRow, Taken
        <3>2. \A k \in DOMAIN tokens : users'[tokens[k].user_id] # Account[c]
            BY <1>2, <1>3, <1>5 DEF Registered, Taken
        <3> QED BY <1>5, <3>1, <3>2 DEF Untouched
    <2>4. \A d \in Client \ {c} : Newcomer(d) => Account[d] # Account[c]
        BY <1>5 DEF NewcomersApart, Untouched, Registered
    <2> QED BY <1>1, <2>1, <2>2, <2>3, <2>4 DEF NewcomersApart
<1>6. ASSUME NEW t \in Token, pc[c] = "trello", ~ (Newcomer(c))', users' = users,
             tokens' = Append(tokens, [user_id |-> user_id[c], trello_token |-> t])
      PROVE  NewcomersApart' /\ OneTokenEach'
    <2> DEFINE row == [user_id |-> user_id[c], trello_token |-> t]
    <2>1. row \in TrelloToken /\ row.user_id = user_id[c]
        BY BoundAssumption DEF TrelloToken, Typed, SessionTypeOK, Id
    <2>2. /\ \A k \in DOMAIN tokens' : k \in DOMAIN tokens \/ k = Len(tokens) + 1
          /\ \A k \in DOMAIN tokens : tokens'[k] = tokens[k]
          /\ tokens'[Len(tokens) + 1] = row
        BY <1>6, <2>1, AppendedRow DEF Typed, TypeOK
    <2>3. Newcomer(c) /\ user_id[c] \in DOMAIN users /\ users[user_id[c]] = Account[c]
        BY <1>6 DEF Newcomer, SessionMatchesAccount, LoggedIn
    <2>4. \A k \in DOMAIN tokens : tokens[k].user_id # user_id[c]
        BY <2>3 DEF NewcomersApart, Untouched
    <2> HIDE DEF row
    <2>5. OneTokenEach'
        BY <2>1, <2>2, <2>4 DEF OneTokenEach
    <2>6. ASSUME NEW d \in Client \ {c}, Newcomer(d) PROVE Untouched(d)'
        <3>1. Account[d] # Account[c] /\ Untouched(d)
            BY <2>3, <2>6 DEF NewcomersApart
        <3> QED BY <1>6, <2>1, <2>2, <2>3, <3>1 DEF Untouched
    <2> QED BY <1>1, <1>6, <2>5, <2>6 DEF NewcomersApart
<1> QED BY <1>4, <1>5, <1>6, NewcomerStep

(* A user has at most one token, though any number of clients register,    *)
(* are ended and come back under its name.                                 *)
THEOREM OneToken == SessionSpec => []OneTokenEach
<1>1. SessionInit => NewcomersApart /\ OneTokenEach
    BY DEF SessionInit, Init, NewcomersApart, OneTokenEach, Newcomer, Registering
<1>2. /\ Typed /\ Integrity /\ SessionMatchesAccount
      /\ NewcomersApart /\ OneTokenEach /\ [SessionNext]_vars
      => NewcomersApart' /\ OneTokenEach'
    <2> SUFFICES ASSUME Typed, Integrity, SessionMatchesAccount, NewcomersApart,
                        OneTokenEach, [SessionNext]_vars
                 PROVE  NewcomersApart' /\ OneTokenEach'
        OBVIOUS
    <2>1. CASE UNCHANGED vars
        BY <2>1 DEF vars, dbVars, NewcomersApart, OneTokenEach, Newcomer, Untouched, Taken
    <2>2. CASE \E c \in Client : StepOf(c)
        BY <2>2, TokenStep
    <2> QED BY <2>1, <2>2 DEF SessionNext, StepOf
<1> QED BY <1>1, <1>2, TypedAlways, SessionsKeepIntegrity, ActsAsItself, PTL DEF SessionSpec

-----------------------------------------------------------------------------
(* Client c is creating chat i: it is about to ask for its id, or to link  *)
(* itself to it.                                                           *)
Creates(c, i) ==
    /\ chat_name[c] = chats[i]
    /\ \/ pc[c] \in {"get_chat_id", "dialog get_chat_id"}
       \/ pc[c] \in {"link", "dialog link"} /\ chat_id[c] = i
Registers(c, u) == Account[c] = users[u] /\ pc[c] \in Registering

(* No first chat can be added for a user of this name.                     *)
NoRoom(n) == Notes[n] \in TooLong \/ ~ HasId(chat_seq)

(* What NothingHalfDone needs to be inductive: which chat a client that is *)
(* about to link itself holds, and that a registration which was refused   *)
(* its chat finds one of the same name.                                    *)
ChatsMade == \A i \in DOMAIN chats :
    HasMember(i) \/ chats[i] \in halfway \/ \E c \in Client : Creates(c, i)
UsersMade == \A u \in DOMAIN users :
    HasChat(u) \/ users[u] \in halfway \/ NoRoom(users[u]) \/ \E c \in Client : Registers(c, u)
Provided(c) ==
    /\ pc[c] \in {"add_chat", "get_chat_id", "link"} => chat_name[c] = Notes[Account[c]]
    /\ pc[c] = "get_chat_id" => NoRoom(Account[c]) \/ Taken(chats, chat_name[c])
    /\ pc[c] = "link" => NoRoom(Account[c]) \/ chat_id[c] \in DOMAIN chats
HalfInv == backend = "up" /\ ChatsMade /\ UsersMade /\ \A c \in Client : Provided(c)

(* What a step of c must do for the chats and users that are new, and for  *)
(* those that c was creating.                                              *)
ChatsCarry(c) == \A i \in DOMAIN chats' :
    \/ i \in DOMAIN chats /\ ~ Creates(c, i)
    \/ HasMember(i)' \/ chats'[i] \in halfway' \/ Creates(c, i)'
UsersCarry(c) == \A u \in DOMAIN users' :
    \/ u \in DOMAIN users /\ ~ Registers(c, u)
    \/ HasChat(u)' \/ users'[u] \in halfway'
    \/ Notes[users'[u]] \in TooLong \/ ~ HasId(chat_seq') \/ Registers(c, u)'
Carries(c) == ChatsCarry(c) /\ UsersCarry(c) /\ Provided(c)'

(* Without faults a method fails only when it is refused, and the          *)
(* connection stays.                                                       *)
LEMMA NoFaults ==
    ASSUME Fault = {}, backend = "up", NEW ans
    PROVE  /\ Committed(ans) => ans = Success /\ backend' = "up"
           /\ Refused(ans) => backend' = "up"
           /\ ~ Faulted(ans) /\ ~ Unreachable(ans)
           /\ \A value : Query(value, ans) => ans = value /\ UNCHANGED dbVars
BY DEF Committed, Refused, Faulted, Unreachable, Query

(* And no transaction loses the connection.                                *)
LEMMA StaysUp == Fault = {} /\ backend = "up" /\ [Next]_dbVars => backend' = "up"
<1> SUFFICES ASSUME Fault = {}, backend = "up", [Next]_dbVars PROVE backend' = "up"
    OBVIOUS
<1>1. \A ans : /\ Committed(ans) \/ Refused(ans) => backend' = "up"
               /\ ~ Faulted(ans) /\ ~ Unreachable(ans)
               /\ \A value : Query(value, ans) => UNCHANGED dbVars
    BY NoFaults
<1>2. CASE UNCHANGED dbVars
    BY <1>2 DEF dbVars
<1> QED BY <1>1, <1>2
        DEF Next, AddUser, AddChat, AddMessage, LinkUserToChat, SetTrelloToken, Read,
            add_user, add_chat, add_message, link_user_to_chat, set_trello_token

(* After link_user_to_chat of a user and a chat that are stored, the user  *)
(* is in the chat, whether it was before or not.                           *)
LEMMA LinkIsThere ==
    ASSUME Fault = {}, backend = "up", TypeOK, NEW u \in DOMAIN users, NEW i \in DOMAIN chats,
           NEW ans, link_user_to_chat(u, i, ans)
    PROVE  HasMember(i)' /\ HasChat(u)'
<1> DEFINE row == [user_id |-> u, chat_id |-> i]
<1>1. row \in Link /\ row.user_id = u /\ row.chat_id = i
    BY DEF TypeOK, Link
<1>2. \E k \in DOMAIN links' : links'[k] = row
    <2>1. CASE Linked(u, i) /\ links' = links
        BY <2>1 DEF Linked
    <2>2. CASE links' = Append(links, row)
        <3>1. Len(links) + 1 \in DOMAIN links' /\ links'[Len(links) + 1] = row
            BY <1>1, <2>2, AppendedRow DEF TypeOK
        <3> QED BY <3>1
    <2> QED BY <2>1, <2>2, NoFaults DEF link_user_to_chat, Resolves
<1> HIDE DEF row
<1> QED BY <1>1, <1>2 DEF HasMember, HasChat

(* add_chat stores the chat under a new id, or is refused.                 *)
LEMMA ChatIsThere ==
    ASSUME Fault = {}, backend = "up", TypeOK, NEW n, NEW ans, add_chat(n, ans)
    PROVE  /\ \/ chats' = chats /\ (n \in TooLong \/ ~ HasId(chat_seq) \/ Taken(chats, n))
              \/ /\ ans = Success /\ Taken(chats', n)
                 /\ \A i \in DOMAIN chats' : i \in DOMAIN chats \/ chats'[i] = n
           /\ users' = users /\ chat_seq' >= chat_seq
<1>1. chat_seq \in Nat
    BY BoundAssumption DEF TypeOK
<1>2. CASE /\ Committed(ans) /\ chat_seq' = chat_seq + 1
           /\ chats' = WithRow(chats, chat_seq + 1, n)
    <2>1. Taken(chats', n) /\ \A i \in DOMAIN chats' : i \in DOMAIN chats \/ chats'[i] = n
        BY <1>2 DEF WithRow, Taken
    <2>2. ans = Success /\ users' = users
        BY <1>2, NoFaults DEF add_chat
    <2> QED BY <1>1, <1>2, <2>1, <2>2
<1>3. CASE /\ ~ (n \notin TooLong /\ ~ Taken(chats, n) /\ HasId(chat_seq))
           /\ chat_seq' = SpentOn(chat_seq, n) /\ chats' = chats
    BY <1>1, <1>3 DEF SpentOn, Spent, add_chat
<1> QED BY <1>2, <1>3, NoFaults DEF add_chat

-----------------------------------------------------------------------------
(* Each call of the handlers carries on with what c was creating: stores   *)
(* the membership, or goes on, or is cut off and counts as halfway.        *)
LEMMA CreatorStep ==
    ASSUME Fault = {}, Typed, NamesAreUnique, SessionMatchesAccount, HalfInv,
           NEW c \in Client, StepOf(c)
    PROVE  Carries(c)
<1>0. /\ pc \in [Client -> Place] /\ TypeOK /\ backend = "up" /\ Provided(c)
      /\ chat_name \in [Client -> ChatName \cup {NoName}] /\ chat_id \in [Client -> Id]
    BY DEF Typed, SessionTypeOK, HalfInv
<1>a. \A place : Go(c, place) \/ Move(c, place) => pc'[c] = place /\ halfway' = halfway
    BY <1>0 DEF Go, Move
<1>b. \A value, ans : Query(value, ans) => ans = value /\ UNCHANGED dbVars
    BY <1>0, NoFaults
<1> DEFINE Idle == {"auth", "add_user", "trello", "opening", "main", "taken", "member link", "gone"}
<1>q. ASSUME pc[c] \in Idle, pc'[c] \in Idle, users' = users, chats' = chats
      PROVE  Carries(c)
    BY <1>q DEF Carries, ChatsCarry, UsersCarry, Provided, Creates, Registers, Registering
<1>1. CASE Start(c)
    BY <1>0, <1>1, <1>q DEF Start, dbVars
<1>2. CASE End(c) /\ users' = users /\ chats' = chats
    <2>1. pc'[c] = "gone"
        BY <1>0, <1>2 DEF End
    <2>2. /\ pc[c] \in Registering => Account[c] \in halfway'
          /\ pc[c] \in {"get_chat_id", "link"} \cup Adding => chat_name[c] \in halfway'
        BY <1>2 DEF End
    <2>3. ChatsCarry(c)
        BY <1>2, <2>2 DEF ChatsCarry, Creates, Adding
    <2>4. UsersCarry(c)
        BY <1>2, <2>2 DEF UsersCarry, Registers
    <2>5. Provided(c)'
        BY <2>1 DEF Provided
    <2> QED BY <2>3, <2>4, <2>5 DEF Carries
<1>3. CASE FindUser(c) /\ ~ End(c)
    <2>1. pc'[c] \in {"add_user", "opening"} /\ UNCHANGED dbVars
        BY <1>3, <1>a, <1>b DEF FindUser
    <2> QED BY <1>3, <1>q, <2>1 DEF FindUser, dbVars
<1>4. CASE AddUserLoop(c)
    <2>1. /\ pc[c] = "add_user" /\ pc'[c] \in {"add_user", "refind"}
          /\ (pc'[c] = "add_user" /\ users' = users) \/ Registered(c)
        BY <1>4, LoopStep
    <2>2. chats' = chats /\ backend' = "up"
        <3>1. chats' = chats
            BY <1>4 DEF AddUserLoop, add_user, Unreachable, dbVars
        <3> QED BY <1>0, <3>1, CallIsTransaction, StaysUp
    <2>3. \A u \in DOMAIN users' : u \in DOMAIN users \/ Registers(c, u)'
        <3>1. CASE Registered(c)
            <4>1. pc'[c] = "refind"
                BY <2>2, <3>1 DEF Registered
            <4>2. \A u \in DOMAIN users' : u \in DOMAIN users \/ users'[u] = Account[c]
                BY <3>1 DEF Registered, WithRow
            <4> QED BY <4>1, <4>2 DEF Registers, Registering
        <3> QED BY <2>1, <3>1
    <2>4. UsersCarry(c)
        BY <2>1, <2>3 DEF UsersCarry, Registers, Registering
    <2>5. ChatsCarry(c) /\ Provided(c)'
        BY <2>1, <2>2 DEF ChatsCarry, Creates, Provided
    <2> QED BY <2>4, <2>5 DEF Carries
<1>5. CASE FindNewUser(c) /\ ~ End(c)
    <2>1. /\ pc[c] = "refind" /\ pc'[c] = "add_chat" /\ UNCHANGED dbVars
          /\ chat_name' = [chat_name EXCEPT ![c] = Notes[Account[c]]]
        BY <1>5, <1>a, <1>b DEF FindNewUser
    <2>2. chat_name'[c] = Notes[Account[c]] /\ users' = users /\ chats' = chats
        BY <1>0, <2>1 DEF dbVars
    <2> QED BY <2>1, <2>2
            DEF Carries, ChatsCarry, UsersCarry, Provided, Creates, Registers, Registering
<1>6. CASE AddFirstChat(c)
    <2>1. PICK ans \in {Success, Fail} : add_chat(chat_name[c], ans)
        BY <1>6 DEF AddFirstChat
    <2>2. pc[c] = "add_chat" /\ pc'[c] = "get_chat_id" /\ chat_name' = chat_name
        BY <1>6, <1>a DEF AddFirstChat, handler
    <2>3. chat_name[c] = Notes[Account[c]]
        BY <1>0, <2>2 DEF Provided
    <2>4. /\ \/ /\ chats' = chats
                /\ chat_name[c] \in TooLong \/ ~ HasId(chat_seq) \/ Taken(chats, chat_name[c])
             \/ /\ Taken(chats', chat_name[c])
                /\ \A i \in DOMAIN chats' : i \in DOMAIN chats \/ chats'[i] = chat_name[c]
          /\ users' = users /\ chat_seq' >= chat_seq
        BY <1>0, <2>1, ChatIsThere
    <2>5. ChatsCarry(c)
        BY <2>2, <2>4 DEF ChatsCarry, Creates
    <2>6. UsersCarry(c)
        BY <2>2, <2>4 DEF UsersCarry, Registers, Registering
    <2>7. Provided(c)'
        <3>1. ~ HasId(chat_seq) => ~ HasId(chat_seq')
            <4>1. chat_seq \in Int /\ chat_seq' \in Int
                BY BoundAssumption, TypedStep DEF Typed, TypeOK, SessionNext, StepOf
            <4> QED BY <2>4, <4>1, BoundAssumption DEF HasId
        <3> QED BY <2>2, <2>3, <2>4, <3>1 DEF Provided, NoRoom
    <2> QED BY <2>5, <2>6, <2>7 DEF Carries
<1>7. ASSUME NEW next \in {"link", "dialog link"}, TakeChatId(c, next), ~ End(c),
             pc[c] = IF next = "link" THEN "get_chat_id" ELSE "dialog get_chat_id"
      PROVE  Carries(c)
    <2> DEFINE ans == get_chat_id(chat_name[c])
               id == IF ans = Null THEN 0 ELSE ans.chat_id
    <2>1. /\ pc'[c] = next /\ UNCHANGED dbVars /\ chat_name' = chat_name
          /\ chat_id' = [chat_id EXCEPT ![c] = id]
        BY <1>7, <1>a, <1>b DEF TakeChatId
    <2>2. ASSUME NEW i \in DOMAIN chats, chats[i] = chat_name[c] PROVE id = i
        <3> DEFINE found == CHOOSE j \in DOMAIN chats : chats[j] = chat_name[c]
        <3>1. found \in DOMAIN chats /\ chats[found] = chat_name[c]
            BY <2>2
        <3>2. found = i
            BY <2>2, <3>1 DEF NamesAreUnique, Injective
        <3>3. ans = [chat_id |-> found, chat_name |-> chat_name[c]]
            BY <2>2 DEF get_chat_id, Taken
        <3> HIDE DEF found
        <3>4. ans.chat_id = found /\ ans # Null
            <4> HIDE DEF ans
            <4>1. DOMAIN Null = {"empty"} /\ DOMAIN ans = {"chat_id", "chat_name"}
                BY <3>3 DEF Null
            <4>2. ans # Null
                BY <4>1
            <4> QED BY <3>3, <4>2
        <3> QED BY <3>2, <3>4
    <2> HIDE DEF id
    <2>3. chat_id'[c] = id /\ users' = users /\ chats' = chats /\ chat_seq' = chat_seq
        BY <1>0, <2>1 DEF dbVars
    <2>4. ChatsCarry(c)
        BY <1>7, <2>1, <2>2, <2>3 DEF ChatsCarry, Creates
    <2>5. UsersCarry(c)
        BY <1>7, <2>1, <2>3 DEF UsersCarry, Registers, Registering
    <2>6. Provided(c)'
        BY <1>0, <1>7, <2>1, <2>2, <2>3 DEF Provided, NoRoom, Taken
    <2> QED BY <2>4, <2>5, <2>6 DEF Carries
<1>8. CASE (GetFirstChatId(c) \/ DialogGetChatId(c)) /\ ~ End(c)
    BY <1>7, <1>8 DEF GetFirstChatId, DialogGetChatId
<1>9. CASE LinkFirstChat(c) \/ DialogLink(c)
    <2>1. PICK ans \in {Success, Fail} : link_user_to_chat(user_id[c], chat_id[c], ans)
        BY <1>9 DEF LinkFirstChat, DialogLink
    <2>2. /\ pc[c] \in {"link", "dialog link"} /\ pc'[c] \in {"trello", "main"}
          /\ users' = users /\ chats' = chats
        <3>1. users' = users /\ chats' = chats
            BY <2>1 DEF link_user_to_chat, Unreachable, dbVars
        <3> QED BY <1>9, <1>a, <3>1 DEF LinkFirstChat, DialogLink, Return
    <2>3. PICK me \in DOMAIN users : me = user_id[c] /\ users[me] = Account[c]
        BY <2>2 DEF SessionMatchesAccount, LoggedIn, Adding
    <2>4. ChatsCarry(c)
        <3>1. \A i \in DOMAIN chats : Creates(c, i) => HasMember(i)'
            BY <1>0, <2>1, <2>2, <2>3, LinkIsThere DEF Creates
        <3> QED BY <2>2, <3>1 DEF ChatsCarry
    <2>5. UsersCarry(c)
        <3>1. \A u \in DOMAIN users : users[u] = Account[c] => u = me
            BY <2>3 DEF NamesAreUnique, Injective
        <3>2. pc[c] = "link" => NoRoom(Account[c]) \/ HasChat(me)'
            <4>1. chat_id[c] \in DOMAIN chats => HasChat(me)'
                BY <1>0, <2>1, <2>3, LinkIsThere
            <4> QED BY <1>0, <4>1 DEF Provided
        <3>3. chat_seq' = chat_seq
            BY <2>1 DEF link_user_to_chat, Unreachable, dbVars
        <3>4. pc[c] = "dialog link" => pc[c] \notin Registering
            BY DEF Registering
        <3> QED BY <2>2, <3>1, <3>2, <3>3, <3>4 DEF UsersCarry, Registers, NoRoom
    <2>6. Provided(c)'
        BY <2>2 DEF Provided
    <2> QED BY <2>4, <2>5, <2>6 DEF Carries
<1>10. CASE AddChatDialog(c)
    <2>1. PICK n \in ChatName, ans \in {Success, Fail} :
            /\ add_chat(n, ans)
            /\ Go(c, IF ans = Success THEN "dialog get_chat_id" ELSE "taken")
            /\ chat_name' = [chat_name EXCEPT ![c] = n]
        BY <1>10 DEF AddChatDialog
    <2>2. /\ pc[c] \in {"main", "taken"} /\ pc'[c] \in {"dialog get_chat_id", "taken"}
          /\ ans = Success => pc'[c] = "dialog get_chat_id"
        BY <1>10, <1>a, <2>1 DEF AddChatDialog, InMain
    <2>3. /\ chats' = chats \/ /\ ans = Success
                               /\ \A i \in DOMAIN chats' : i \in DOMAIN chats \/ chats'[i] = n
          /\ users' = users /\ chat_name'[c] = n
        BY <1>0, <2>1, ChatIsThere
    <2>4. ChatsCarry(c)
        BY <2>2, <2>3 DEF ChatsCarry, Creates
    <2>5. UsersCarry(c) /\ Provided(c)'
        BY <2>2, <2>3 DEF UsersCarry, Registers, Registering, Provided
    <2> QED BY <2>4, <2>5 DEF Carries
<1>11. CASE FindGuest(c) /\ ~ End(c)
    <2>1. pc[c] \in {"main", "taken"} /\ pc'[c] \in {"main", "member link"} /\ UNCHANGED dbVars
        BY <1>11, <1>a, <1>b DEF FindGuest, InMain, Return
    <2> QED BY <1>q, <2>1 DEF dbVars
<1>12. CASE LinkGuest(c)
    <2>1. users' = users /\ chats' = chats
        BY <1>12 DEF LinkGuest, link_user_to_chat, Unreachable, dbVars
    <2>2. pc[c] = "member link" /\ pc'[c] = "main"
        BY <1>12, <1>a DEF LinkGuest, Return
    <2> QED BY <1>q, <2>1, <2>2
<1>13. CASE SetTrelloTokenClicked(c)
    <2>1. users' = users /\ chats' = chats
        BY <1>13 DEF SetTrelloTokenClicked, set_trello_token, Unreachable, dbVars
    <2>2. CASE End(c)
        BY <1>2, <2>1, <2>2
    <2>3. CASE ~ End(c)
        <3>1. pc[c] = "trello" /\ pc'[c] = "opening"
            BY <1>13, <1>a, <2>3 DEF SetTrelloTokenClicked, Return
        <3> QED BY <1>q, <2>1, <3>1
    <2> QED BY <2>2, <2>3
<1>14. End(c) => users' = users /\ chats' = chats
    <2>1. CASE Start(c) \/ AddUserLoop(c) \/ AddFirstChat(c) \/ LinkFirstChat(c) \/ DialogLink(c)
                 \/ LinkGuest(c) \/ AddChatDialog(c)
        <3>1. pc'[c] # "gone"
            <4>1. CASE Start(c)
                BY <1>0, <4>1 DEF Start
            <4>2. CASE AddUserLoop(c)
                BY <4>2, LoopStep
            <4>3. CASE AddFirstChat(c) \/ AddChatDialog(c)
                <5>1. \E place \in {"get_chat_id", "dialog get_chat_id", "taken"} : Go(c, place)
                    BY <4>3 DEF AddFirstChat, AddChatDialog
                <5> QED BY <1>a, <5>1
            <4>4. CASE LinkFirstChat(c) \/ DialogLink(c) \/ LinkGuest(c)
                <5>1. \E place \in {"trello", "main"} : Move(c, place)
                    BY <4>4 DEF LinkFirstChat, DialogLink, LinkGuest, Return, Go
                <5> QED BY <1>a, <5>1
            <4> QED BY <2>1, <4>1, <4>2, <4>3, <4>4
        <3> QED BY <1>0, <3>1 DEF End
    <2>2. CASE Leave(c)
        BY <2>2 DEF Leave, dbVars
    <2>3. CASE SetTrelloTokenClicked(c)
        BY <2>3 DEF SetTrelloTokenClicked, set_trello_token, Unreachable, dbVars
    <2>4. CASE FindUser(c) \/ FindNewUser(c) \/ FindGuest(c)
        BY <2>4, <1>b DEF FindUser, FindNewUser, FindGuest, dbVars
    <2>5. CASE GetFirstChatId(c) \/ DialogGetChatId(c)
        BY <2>5, <1>b DEF GetFirstChatId, DialogGetChatId, TakeChatId, dbVars
    <2>6. CASE OpenWindow(c) \/ UpdateChats(c) \/ ItemClicked(c)
        BY <2>6, <1>b DEF OpenWindow, UpdateChats, ItemClicked, dbVars
    <2> QED BY <2>1, <2>2, <2>3, <2>4, <2>5, <2>6 DEF StepOf, Continue
<1>15. CASE (OpenWindow(c) \/ UpdateChats(c) \/ ItemClicked(c)) /\ ~ End(c)
    <2>1. UNCHANGED dbVars
        BY <1>15, <1>b DEF OpenWindow, UpdateChats, ItemClicked, dbVars
    <2>2. pc[c] \in Idle /\ pc'[c] \in Idle
        BY <1>15, <1>a DEF OpenWindow, UpdateChats, ItemClicked, InMain
    <2> QED BY <1>q, <2>1, <2>2 DEF dbVars
<1> QED BY <1>1, <1>2, <1>3, <1>4, <1>5, <1>6, <1>8, <1>9, <1>10, <1>11, <1>12, <1>13, <1>14, <1>15
        DEF StepOf, Leave, Continue

(* A step of any client keeps the strengthened invariant.                  *)
LEMMA HalfStep ==
    ASSUME Fault = {}, Typed, NamesAreUnique, SessionMatchesAccount, HalfInv,
           NEW c \in Client, StepOf(c)
    PROVE  HalfInv'
<1>1. Carries(c)
    BY CreatorStep
<1>2. Typed' /\ [Next]_dbVars
    BY TypedStep DEF SessionNext, StepOf
<1>3. backend' = "up"
    BY <1>2, StaysUp DEF HalfInv
<1>4. /\ \A i \in DOMAIN users : i \in DOMAIN users' /\ users'[i] = users[i]
      /\ \A i \in DOMAIN chats : i \in DOMAIN chats' /\ chats'[i] = chats[i]
      /\ \A n : Taken(chats, n) => Taken(chats', n)
      /\ \A i : HasMember(i) => HasMember(i)'
      /\ \A u : HasChat(u) => HasChat(u)'
      /\ ~ HasId(chat_seq) => ~ HasId(chat_seq')
    <2>1. OnlyGrows
        BY <1>2, GrowthStep DEF Typed
    <2>2. /\ \A i \in DOMAIN users : i \in DOMAIN users' /\ users'[i] = users[i]
          /\ \A i \in DOMAIN chats : i \in DOMAIN chats' /\ chats'[i] = chats[i]
        BY <2>1 DEF OnlyGrows, Keeps
    <2>3. \A n : Taken(chats, n) => Taken(chats', n)
        BY <2>2 DEF Taken
    <2>4. \A k \in DOMAIN links : k \in DOMAIN links' /\ links'[k] = links[k]
        <3>1. links \in Seq(Link) /\ links' \in Seq(Link) /\ Extends(links', links)
            BY <1>2, <2>1 DEF Typed, TypeOK, OnlyGrows
        <3> QED BY <3>1 DEF Extends
    <2>5. \A i : HasMember(i) => HasMember(i)'
        BY <2>4 DEF HasMember
    <2>6. \A u : HasChat(u) => HasChat(u)'
        BY <2>4 DEF HasChat
    <2>7. ~ HasId(chat_seq) => ~ HasId(chat_seq')
        <3>1. chat_seq \in Int /\ chat_seq' \in Int /\ chat_seq' >= chat_seq
            BY <1>2, <2>1, BoundAssumption DEF Typed, TypeOK, OnlyGrows
        <3> QED BY <3>1, BoundAssumption DEF HasId
    <2> QED BY <2>2, <2>3, <2>5, <2>6, <2>7
<1>5. /\ \A d \in Client \ {c} : /\ pc'[d] = pc[d] /\ chat_name'[d] = chat_name[d]
                                 /\ chat_id'[d] = chat_id[d]
      /\ halfway \subseteq halfway'
    BY OthersHold
<1>6. ChatsMade'
    <2> SUFFICES ASSUME NEW i \in DOMAIN chats'
                 PROVE  \/ HasMember(i)' \/ chats'[i] \in halfway'
                        \/ \E d \in Client : Creates(d, i)'
        BY DEF ChatsMade
    <2>1. CASE i \in DOMAIN chats /\ ~ Creates(c, i)
        <3>1. \A d \in Client \ {c} : Creates(d, i) => Creates(d, i)'
            BY <1>4, <1>5, <2>1 DEF Creates
        <3> QED BY <1>4, <1>5, <2>1, <3>1 DEF HalfInv, ChatsMade
    <2> QED BY <1>1, <2>1 DEF Carries, ChatsCarry
<1>7. UsersMade'
    <2> SUFFICES ASSUME NEW u \in DOMAIN users'
                 PROVE  \/ HasChat(u)' \/ users'[u] \in halfway'
                        \/ Notes[users'[u]] \in TooLong \/ ~ HasId(chat_seq')
                        \/ \E d \in Client : Registers(d, u)'
        BY DEF UsersMade, NoRoom
    <2>1. CASE u \in DOMAIN users /\ ~ Registers(c, u)
        <3>1. \A d \in Client \ {c} : Registers(d, u) => Registers(d, u)'
            BY <1>4, <1>5, <2>1 DEF Registers
        <3> QED BY <1>4, <1>5, <2>1, <3>1 DEF HalfInv, UsersMade, NoRoom
    <2> QED BY <1>1, <2>1 DEF Carries, UsersCarry
<1>8. ASSUME NEW d \in Client PROVE Provided(d)'
    <2>1. CASE d # c
        BY <1>4, <1>5, <2>1 DEF HalfInv, Provided, NoRoom
    <2> QED BY <1>1, <2>1 DEF Carries
<1> QED BY <1>3, <1>6, <1>7, <1>8 DEF HalfInv

(* Without faults of the database nothing is half done but what an ended   *)
(* client was creating, or a living one is: however the registrations and  *)
(* dialogs of any number of clients cross (auth.cpp:24-75, add_chat.cpp).  *)
THEOREM OnlyCutOffIsHalfDone ==
    ASSUME Fault = {} PROVE SessionSpec => []NothingHalfDone
<1>1. SessionInit => HalfInv
    <2> SUFFICES ASSUME SessionInit PROVE HalfInv
        OBVIOUS
    <2>1. DOMAIN users = {} /\ DOMAIN chats = {} /\ backend = "up"
        BY DEF SessionInit, Init
    <2> QED BY <2>1 DEF SessionInit, HalfInv, ChatsMade, UsersMade, Provided
<1>2. /\ Typed /\ Integrity /\ SessionMatchesAccount
      /\ HalfInv /\ [SessionNext]_vars
      => HalfInv'
    <2> SUFFICES ASSUME Typed, Integrity, SessionMatchesAccount, HalfInv, [SessionNext]_vars
                 PROVE  HalfInv'
        OBVIOUS
    <2>1. CASE UNCHANGED vars
        <3>1. /\ users' = users /\ chats' = chats /\ links' = links /\ chat_seq' = chat_seq
              /\ backend' = backend /\ pc' = pc /\ chat_name' = chat_name /\ chat_id' = chat_id
              /\ halfway' = halfway
            BY <2>1 DEF vars, handler, dbVars
        <3>2. ChatsMade' <=> ChatsMade
            BY <3>1 DEF ChatsMade, Creates, HasMember
        <3>3. UsersMade' <=> UsersMade
            BY <3>1 DEF UsersMade, Registers, NoRoom, HasChat
        <3>4. \A c \in Client : Provided(c)' <=> Provided(c)
            BY <3>1 DEF Provided, NoRoom, Taken
        <3> QED BY <3>1, <3>2, <3>3, <3>4 DEF HalfInv
    <2>2. CASE \E c \in Client : StepOf(c)
        BY <2>2, HalfStep DEF Integrity
    <2> QED BY <2>1, <2>2 DEF SessionNext, StepOf
<1>3. HalfInv => NothingHalfDone
    <2> SUFFICES ASSUME HalfInv PROVE NothingHalfDone
        OBVIOUS
    <2>1. ASSUME NEW i \in DOMAIN chats, ~ HasMember(i)
          PROVE  \/ chats[i] \in halfway
                 \/ \E c \in Client : /\ chat_name[c] = chats[i]
                                      /\ pc[c] \in {"get_chat_id", "link"} \cup Adding
        <3>1. \A c \in Client : Creates(c, i) => /\ chat_name[c] = chats[i]
                                                /\ pc[c] \in {"get_chat_id", "link"} \cup Adding
            BY DEF Creates, Adding
        <3>2. chats[i] \in halfway \/ \E c \in Client : Creates(c, i)
            BY <2>1 DEF HalfInv, ChatsMade
        <3> QED BY <3>1, <3>2
    <2>2. ASSUME NEW u \in DOMAIN users, ~ HasChat(u)
          PROVE  \/ users[u] \in halfway
                 \/ Notes[users[u]] \in TooLong \/ ~ HasId(chat_seq)
                 \/ \E c \in Client : Account[c] = users[u] /\ pc[c] \in Registering
        BY <2>2 DEF HalfInv, UsersMade, Registers, NoRoom
    <2> QED BY <2>1, <2>2 DEF NothingHalfDone
<1> QED BY <1>1, <1>2, <1>3, TypedAlways, SessionsKeepIntegrity, ActsAsItself, PTL
        DEF SessionSpec

-----------------------------------------------------------------------------
(* What the pop-up of add_chat.cpp:36 can stand for besides a taken name:  *)
(* a name too long for its column, the end of the ids, a backend that is   *)
(* gone for good, or a statement that failed on a connection that did not. *)
Excused(c) ==
    \/ Taken(chats, chat_name[c]) \/ chat_name[c] \in TooLong
    \/ chat_seq = MaxId \/ backend = "lost" \/ "error" \in Fault
PopUpExplained == \A c \in Client : pc[c] = "taken" => Excused(c)

(* An add_chat that was answered FAIL has an excuse, and had it before.    *)
LEMMA RefusedName ==
    ASSUME TypeOK, NEW n, add_chat(n, Fail), "error" \notin Fault, backend' # "lost"
    PROVE  Taken(chats, n) \/ n \in TooLong \/ chat_seq = MaxId
<1>1. ~ Committed(Fail) /\ ~ Faulted(Fail)
    BY LiteralsDiffer DEF Committed, Faulted
<1>2. ~ Unreachable(Fail)
    BY DEF Unreachable, dbVars
<1>3. ~ HasId(chat_seq) => chat_seq = MaxId
    BY BoundAssumption DEF TypeOK, HasId
<1> QED BY <1>1, <1>2, <1>3 DEF add_chat

(* Only the dialog makes the pop-up, and a step of one client leaves the   *)
(* name another works on alone.                                            *)
LEMMA PopUpStep ==
    ASSUME Typed, NEW c \in Client, StepOf(c)
    PROVE  /\ \A d \in Client \ {c} : chat_name'[d] = chat_name[d]
           /\ pc'[c] = "taken" =>
                AddChatDialog(c) \/ (pc[c] = "taken" /\ chat_name'[c] = chat_name[c])
<1>0. pc \in [Client -> Place] /\ chat_name \in [Client -> ChatName \cup {NoName}]
    BY DEF Typed, SessionTypeOK
<1>a. \A place : Go(c, place) \/ Move(c, place) => pc'[c] = place
    BY <1>0 DEF Go, Move
<1>b. End(c) => pc'[c] = "gone" /\ \A d \in Client \ {c} : chat_name'[d] = chat_name[d]
    BY <1>0 DEF End, Dropped
<1>c. ASSUME NEW place, Move(c, place), Dropped(c)
      PROVE  pc'[c] = place /\ \A d \in Client \ {c} : chat_name'[d] = chat_name[d]
    BY <1>0, <1>a, <1>c DEF Dropped
<1>1. CASE Start(c) \/ Leave(c)
    BY <1>0, <1>1, <1>b DEF Start, Leave, handler
<1>2. CASE FindUser(c) \/ AddUserLoop(c) \/ FindNewUser(c)
    BY <1>0, <1>2, <1>a, <1>b DEF FindUser, AddUserLoop, FindNewUser, handler
<1>3. CASE AddFirstChat(c) \/ GetFirstChatId(c) \/ DialogGetChatId(c)
    BY <1>0, <1>3, <1>a, <1>b DEF AddFirstChat, GetFirstChatId, DialogGetChatId, TakeChatId,
                                  handler
<1>4. CASE LinkFirstChat(c) \/ DialogLink(c) \/ LinkGuest(c) \/ SetTrelloTokenClicked(c)
    <2>1. End(c) \/ \E place \in {"trello", "opening", "main"} : Move(c, place) /\ Dropped(c)
        BY <1>4 DEF LinkFirstChat, DialogLink, LinkGuest, SetTrelloTokenClicked, Return, Go
    <2> QED BY <1>b, <1>c, <2>1
<1>5. CASE AddChatDialog(c)
    BY <1>0, <1>5 DEF AddChatDialog
<1>6. CASE FindGuest(c)
    <2>1. \/ End(c) \/ Return(c, "main")
          \/ Go(c, "member link") /\ chat_name' = [chat_name EXCEPT ![c] = NoName]
        <3> DEFINE Guest(n, ans) ==
                \/ ans = Fail /\ End(c)
                \/ ans = NotFound /\ Return(c, "main")
                \/ /\ ans \notin {Fail, NotFound} /\ Go(c, "member link")
                   /\ guest' = [guest EXCEPT ![c] = ans.user_id]
                   /\ chat_name' = [chat_name EXCEPT ![c] = NoName]
                   /\ UNCHANGED <<user_id, chat_id>>
        <3>1. \E n, ans : Guest(n, ans)
            BY <1>6 DEF FindGuest
        <3> QED BY <3>1
    <2>2. CASE End(c) \/ Return(c, "main")
        BY <1>b, <1>c, <2>2 DEF Return, Go
    <2>3. CASE Go(c, "member link") /\ chat_name' = [chat_name EXCEPT ![c] = NoName]
        BY <1>0, <1>a, <2>3
    <2> QED BY <2>1, <2>2, <2>3
<1>7. CASE OpenWindow(c)
    <2>1. End(c) \/ (Move(c, "main") /\ chat_name' = chat_name)
        BY <1>7 DEF OpenWindow, handler
    <2> QED BY <1>a, <1>b, <2>1
<1>8. CASE UpdateChats(c) \/ ItemClicked(c)
    BY <1>b, <1>8 DEF UpdateChats, ItemClicked, handler
<1> QED BY <1>1, <1>2, <1>3, <1>4, <1>5, <1>6, <1>7, <1>8 DEF StepOf, Continue

(* TakenMeansTaken does not hold (run taken), and this is all that is      *)
(* missing: the pop-up is wrong only for a name of more than 50 characters,*)
(* for the last id, or when the database has failed.  Otherwise the name is*)
(* a chat's, and stays one, for as long as the pop-up is there.            *)
THEOREM TakenIsExplained == SessionSpec => []PopUpExplained
<1>1. SessionInit => PopUpExplained
    BY DEF SessionInit, PopUpExplained
<1>2. Typed /\ PopUpExplained /\ [SessionNext]_vars => PopUpExplained'
    <2> SUFFICES ASSUME Typed, PopUpExplained, [SessionNext]_vars
                 PROVE  PopUpExplained'
        OBVIOUS
    <2>1. [Next]_dbVars /\ TypeOK /\ TypeOK'
        BY TypedStep DEF Typed
    <2>2. backend = "lost" => backend' = "lost"
        BY <2>1, LostStays
    <2>3. ASSUME NEW n, Taken(chats, n) \/ n \in TooLong \/ chat_seq = MaxId
          PROVE  Taken(chats, n)' \/ n \in TooLong \/ chat_seq' = MaxId
        <3>1. /\ \A i \in DOMAIN chats : i \in DOMAIN chats' /\ chats'[i] = chats[i]
              /\ chat_seq' >= chat_seq
            BY <2>1, GrowthStep DEF OnlyGrows, Keeps
        <3>2. chat_seq \in 0 .. MaxId /\ chat_seq' \in 0 .. MaxId /\ MaxId \in Nat
            BY <2>1, BoundAssumption DEF TypeOK
        <3>3. chat_seq = MaxId => chat_seq' = MaxId
            BY <3>1, <3>2
        <3>4. Taken(chats, n) => Taken(chats, n)'
            BY <3>1 DEF Taken
        <3> QED BY <2>3, <3>3, <3>4
    <2>4. ASSUME NEW d \in Client, pc[d] = "taken", chat_name'[d] = chat_name[d]
          PROVE  Excused(d)'
        BY <2>2, <2>3, <2>4 DEF PopUpExplained, Excused
    <2>5. CASE UNCHANGED vars
        BY <2>4, <2>5 DEF vars, handler, PopUpExplained
    <2>6. ASSUME NEW c \in Client, StepOf(c), NEW d \in Client, pc'[d] = "taken"
          PROVE  Excused(d)'
        <3>1. CASE d # c
            BY <2>4, <2>6, <3>1, ClientStep, PopUpStep
        <3>2. CASE d = c /\ "error" \notin Fault /\ backend' # "lost"
            <4>1. SUFFICES ASSUME AddChatDialog(c) PROVE Excused(d)'
                BY <2>4, <2>6, <3>2, PopUpStep
            <4>2. PICK n \in ChatName, ans \in {Success, Fail} :
                      /\ add_chat(n, ans)
                      /\ Go(c, IF ans = Success THEN "dialog get_chat_id" ELSE "taken")
                      /\ chat_name' = [chat_name EXCEPT ![c] = n]
                BY <4>1 DEF AddChatDialog
            <4>3. chat_name'[c] = n /\ ans = Fail
                BY <2>6, <3>2, <4>2 DEF Go, Move, Typed, SessionTypeOK
            <4>4. Taken(chats, n) \/ n \in TooLong \/ chat_seq = MaxId
                BY <2>1, <3>2, <4>2, <4>3, RefusedName
            <4> QED BY <2>3, <3>2, <4>3, <4>4 DEF Excused
        <3>3. CASE "error" \in Fault \/ backend' = "lost"
            BY <3>3 DEF Excused
        <3> QED BY <3>1, <3>2, <3>3
    <2> QED BY <2>5, <2>6 DEF PopUpExplained, SessionNext, StepOf
<1> QED BY <1>1, <1>2, TypedAlways, PTL DEF SessionSpec
=============================================================================
