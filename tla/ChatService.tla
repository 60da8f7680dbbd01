----------------------------- MODULE ChatService -----------------------------
(***************************************************************************)
(* What the chat server is to its clients, without tables, joins and       *)
(* transactions: accounts and chats under names of their own; the chats an *)
(* account has entered and the members of a chat, each in the order in     *)
(* which they came; a log of what was said in each chat; one Trello token  *)
(* for each account.  A request takes effect at once, or not at all, and a *)
(* reading request is answered from what is there at that moment.          *)
(*                                                                         *)
(* Any request may be refused with FAIL.  It has then changed nothing,     *)
(* except when the service ends with it; what it does afterwards is to     *)
(* answer FAIL.                                                            *)
(***************************************************************************)
EXTENDS Answers, Naturals, Sequences

CONSTANTS UserName, ChatName, Text, Token,
    Id,         \* the numbers a request can carry
    MaxInt      \* the largest of them a request for reading can carry

VARIABLES
    account,    \* the accounts: id -> name
    chat,       \* the chats: id -> name
    entered,    \* entered[u]: the chats u has entered
    members,    \* members[c]: who has entered c
    log,        \* log[c]: what was said in c
    token,      \* token[u]: the answer that brings the token of u, or Null
    up,         \* whether the service still works
    said        \* the last request and the answer to it

content == <<account, chat, entered, members, log, token>>
serviceVars == <<content, up, said>>

Init ==
    /\ account = <<>> /\ chat = <<>>
    /\ entered = [u \in Id |-> <<>>] /\ members = [c \in Id |-> <<>>]
    /\ log = [c \in Id |-> <<>>] /\ token = [u \in Id |-> Null]
    /\ up = TRUE
    /\ said = [to |-> "none", about |-> <<>>, answer |-> NoReply]

-----------------------------------------------------------------------------
Say(request, about, ans) == said' = [to |-> request, about |-> about, answer |-> ans]

(* How a request ends: what it asked for is done; it is refused; its value *)
(* is shown; it is dropped without an answer.                              *)
Done(request, about) ==
    up /\ up' \in BOOLEAN /\ Say(request, about, IF up' THEN Success ELSE Fail)
Refused(request, about) ==
    Say(request, about, Fail) /\ up' \in {up, FALSE} /\ UNCHANGED content
Shown(request, about, value) ==
    Say(request, about, value) /\ up /\ UNCHANGED <<content, up>>
Dropped(request, about) ==
    Say(request, about, NoReply) /\ UNCHANGED <<content, up>>

Named(names, n) == {i \in DOMAIN names : names[i] = n}
(* A new name gets an id that nobody has. *)
Enrolled(names, n, new) ==
    /\ Named(names, n) = {}
    /\ \E id \in Id \ DOMAIN names :
          new = [i \in DOMAIN names \cup {id} |-> IF i = id THEN n ELSE names[i]]

AddUser(n) ==
    \/ /\ Done("add_user", <<n>>)
       /\ Enrolled(account, n, account')
       /\ UNCHANGED <<chat, entered, members, log, token>>
    \/ Refused("add_user", <<n>>)

AddChat(n) ==
    \/ /\ Done("add_chat", <<n>>)
       /\ Enrolled(chat, n, chat')
       /\ UNCHANGED <<account, entered, members, log, token>>
    \/ Refused("add_chat", <<n>>)

AddMessage(c, u, t) ==
    \/ /\ Done("add_message", <<c, u, t>>)
       /\ u \in DOMAIN account /\ c \in DOMAIN chat
       /\ log' = [log EXCEPT ![c] =
             Append(@, [chat_id |-> c, sender_id |-> u, message_text |-> t])]
       /\ UNCHANGED <<account, chat, entered, members, token>>
    \/ Refused("add_message", <<c, u, t>>)

(* Who enters a chat again stays where he is, in both lists. *)
LinkUserToChat(u, c) ==
    \/ /\ Done("link_user_to_chat", <<u, c>>)
       /\ u \in DOMAIN account /\ c \in DOMAIN chat
       /\ IF \E k \in DOMAIN entered[u] : entered[u][k] = c
          THEN UNCHANGED <<entered, members>>
          ELSE /\ entered' = [entered EXCEPT ![u] = Append(@, c)]
               /\ members' = [members EXCEPT ![c] = Append(@, u)]
       /\ UNCHANGED <<account, chat, log, token>>
    \/ Refused("link_user_to_chat", <<u, c>>)

(* The first token of an account stays; nobody else's is accepted. *)
SetTrelloToken(u, t) ==
    \/ /\ Done("set_trello_token", <<u, t>>)
       /\ u \in DOMAIN account
       /\ \A v \in Id : token[v] # [trello_token |-> t]
       /\ token' = [token EXCEPT ![u] = IF @ = Null THEN [trello_token |-> t] ELSE @]
       /\ UNCHANGED <<account, chat, entered, members, log>>
    \/ Refused("set_trello_token", <<u, t>>)

FindUser(n) ==
    \/ \E i \in Named(account, n) : Shown("find_user", <<n>>, [user_id |-> i, user_name |-> n])
    \/ Named(account, n) = {} /\ Shown("find_user", <<n>>, NotFound)
    \/ Refused("find_user", <<n>>)

GetChatId(n) ==
    \/ \E i \in Named(chat, n) : Shown("get_chat_id", <<n>>, [chat_id |-> i, chat_name |-> n])
    \/ Named(chat, n) = {} /\ Shown("get_chat_id", <<n>>, Null)
    \/ Refused("get_chat_id", <<n>>)

(* A request for reading that carries a number. *)
Get(request, i, value) ==
    \/ i <= MaxInt /\ (Shown(request, <<i>>, value) \/ Refused(request, <<i>>))
    \/ i > MaxInt /\ Dropped(request, <<i>>)

GetById(i) ==
    \/ Get("get_user_name", i, IF i \in DOMAIN account
                               THEN [user_id |-> i, user_name |-> account[i]] ELSE NotFound)
    \/ Get("get_chat_name", i, IF i \in DOMAIN chat
                               THEN [chat_id |-> i, chat_name |-> chat[i]] ELSE Null)
    \/ Get("get_chat_history", i, Rows(log[i]))
    \/ Get("get_chat_list", i, Rows(entered[i]))
    \/ Get("get_chat_members", i, Rows(members[i]))
    \/ Get("get_trello_token", i, token[i])

(* One request; its name in said tells which. *)
Next ==
    \/ said'.to \in {"add_user", "find_user"} /\ \E n \in UserName : AddUser(n) \/ FindUser(n)
    \/ said'.to \in {"add_chat", "get_chat_id"} /\ \E n \in ChatName : AddChat(n) \/ GetChatId(n)
    \/ said'.to = "link_user_to_chat" /\ \E u, c \in Id : LinkUserToChat(u, c)
    \/ said'.to = "add_message" /\ \E c, u \in Id, t \in Text : AddMessage(c, u, t)
    \/ said'.to = "set_trello_token" /\ \E u \in Id, t \in Token : SetTrelloToken(u, t)
    \/ \E i \in Id : GetById(i)

Spec == Init /\ [][Next]_serviceVars
=============================================================================
