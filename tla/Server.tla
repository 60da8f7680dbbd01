------------------------------- MODULE Server -------------------------------
(***************************************************************************)
(* on_message (src/server/server.cpp:378-505): the handler that parses one *)
(* request, calls the method of Database it names and sends the answer     *)
(* back.  The server has one thread: a request is one step.                *)
(*                                                                         *)
(* The ids of get_chat_name, get_chat_history, get_chat_list, get_trello_  *)
(* token, get_chat_members and get_user_name go through std::stoi, which   *)
(* throws on a number that does not fit an int; the ids of the others are  *)
(* read into a size_t.  What the handler throws is caught and logged, and  *)
(* the client is sent nothing.                                             *)
(***************************************************************************)
EXTENDS Database

CONSTANT MaxInt     \* the largest number std::stoi accepts, INT_MAX

ASSUME MaxIntAssumption == MaxInt \in Nat

VARIABLE reply      \* the last request handled and what was sent for it

serverVars == <<dbVars, reply>>

Sent(request, about, ans) == reply' = [to |-> request, about |-> about, answer |-> ans]

(* A writing method: the answer is one of the two literals. *)
WriteAnswer == {Success, Fail}

FindUser == \E n \in UserName : \E ans \in {find_user(n), Fail} :
    Query(find_user(n), ans) /\ Sent("find_user", <<n>>, ans)

AddUserRequest == \E n \in UserName, ans \in WriteAnswer :
    add_user(n, ans) /\ Sent("add_user", <<n>>, ans)

AddChatRequest == \E n \in ChatName, ans \in WriteAnswer :
    add_chat(n, ans) /\ Sent("add_chat", <<n>>, ans)

AddMessageRequest == \E c, u \in Id, t \in Text, ans \in WriteAnswer :
    add_message(c, u, t, ans) /\ Sent("add_message", <<c, u, t>>, ans)

LinkUserToChatRequest == \E u, c \in Id, ans \in WriteAnswer :
    link_user_to_chat(u, c, ans) /\ Sent("link_user_to_chat", <<u, c>>, ans)

GetChatId == \E n \in ChatName : \E ans \in {get_chat_id(n), Fail} :
    Query(get_chat_id(n), ans) /\ Sent("get_chat_id", <<n>>, ans)

SetTrelloTokenRequest == \E u \in Id, t \in Token, ans \in WriteAnswer :
    set_trello_token(u, t, ans) /\ Sent("set_trello_token", <<u, t>>, ans)

(* A request whose id goes through stoi: the method is not even called     *)
(* when the number does not fit.                                           *)
ById(request, Value(_)) == \E i \in Id :
    \/ /\ i <= MaxInt
       /\ \E ans \in {Value(i), Fail} : Query(Value(i), ans) /\ Sent(request, <<i>>, ans)
    \/ i > MaxInt /\ UNCHANGED dbVars /\ Sent(request, <<i>>, NoReply)

GetChatName == ById("get_chat_name", get_chat_name)
GetChatHistory == ById("get_chat_history", get_chat_history)
GetChatList == ById("get_chat_list", get_chat_list)
GetTrelloToken == ById("get_trello_token", get_trello_token)
GetChatMembers == ById("get_chat_members", get_chat_members)
GetUserName == ById("get_user_name", get_user_name)

on_message ==
    \/ FindUser \/ AddUserRequest \/ AddChatRequest \/ AddMessageRequest
    \/ LinkUserToChatRequest \/ GetChatName \/ GetChatId \/ GetChatHistory
    \/ GetChatList \/ SetTrelloTokenRequest \/ GetTrelloToken
    \/ GetChatMembers \/ GetUserName

ServerInit == Init /\ reply = [to |-> "none", about |-> <<>>, answer |-> NoReply]
ServerSpec == ServerInit /\ [][on_message]_serverVars

-----------------------------------------------------------------------------
(* The server is the ChatService: five tables, two sequences and loops     *)
(* over joins of rows behave like one list per account and one log per     *)
(* chat, every answer being right at the moment of its request.            *)
CS == INSTANCE ChatService WITH
    account <- users, chat <- chats,
    entered <- [u \in Id |-> ChatsIn(links, u)],
    members <- [c \in Id |-> MembersIn(links, c)],
    log <- [c \in Id |-> HistoryIn(messages, c)],
    token <- [u \in Id |-> TokenIn(tokens, u)],
    up <- backend = "up", said <- reply
ImplementsChatService == CS!Spec

(* SUCCESS is a promise: what the client asked to store can be read back   *)
(* by the very request the client sends next (auth.cpp:39 and 55,          *)
(* add_chat.cpp:40, view_boards.cpp:30).                                   *)
SuccessIsStored ==
    reply.answer = Success =>
        LET x == reply.about
        IN  /\ reply.to = "add_user" => find_user(x[1]) # NotFound
            /\ reply.to = "add_chat" => get_chat_id(x[1]) # Null
            /\ reply.to = "link_user_to_chat" =>
                  \E k \in DOMAIN links : links[k] = [user_id |-> x[1], chat_id |-> x[2]]
            /\ reply.to = "add_message" =>
                  /\ messages # <<>>
                  /\ messages[Len(messages)] =
                       [chat_id |-> x[1], sender_id |-> x[2], message_text |-> x[3]]
            /\ reply.to = "set_trello_token" => get_trello_token(x[1]) # Null

(* FAIL means that nothing was stored, except when the connection to the   *)
(* backend breaks in the commit; and from then on every answer is FAIL,    *)
(* so that no client is ever told that a later request succeeded.          *)
FailStoresNothing ==
    [][/\ reply'.answer = Fail /\ backend' = "up" => UNCHANGED tables
       /\ backend = "lost" => backend' = "lost" /\ reply'.answer \in {Fail, NoReply}
      ]_serverVars

(* What the client does with a chat list and with a history never meets a  *)
(* missing row: mainwindow.cpp:161-170 asks for the name of each chat it   *)
(* was listed and reads x["chat_name"], 187-218 asks for the name of each  *)
(* sender, viewBoards (112-116) takes two members to be two users.         *)
RowsAreUsable ==
    /\ \A u \in DOMAIN users : LET list == get_chat_list(u) IN
         list # Null => \A j, k \in DOMAIN list.rows :
            /\ get_chat_name(list.rows[j]) # Null
            /\ list.rows[j] = list.rows[k] => j = k
    /\ \A c \in DOMAIN chats :
         /\ LET history == get_chat_history(c) IN
              history # Null => \A k \in DOMAIN history.rows :
                 get_user_name(history.rows[k].sender_id) # NotFound
         /\ LET members == get_chat_members(c) IN
              members # Null => \A j, k \in DOMAIN members.rows :
                 /\ members.rows[j] = members.rows[k] => j = k
                 /\ \E r \in {get_chat_list(members.rows[j])} :
                      r # Null /\ \E n \in DOMAIN r.rows : r.rows[n] = c
=============================================================================
