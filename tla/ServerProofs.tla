---------------------------- MODULE ServerProofs ----------------------------
(***************************************************************************)
(* Theorems about the requests of the chat server, for every set of names, *)
(* texts and tokens, every choice of faults and every bound: the tables    *)
(* keep their integrity under on_message, FAIL stores nothing, what the    *)
(* answer SUCCESS promises can be read back, and the server implements     *)
(* ChatService.                                                            *)
(***************************************************************************)
EXTENDS Server, DatabaseProofs

(* Every request on_message handles is one transaction of Database, or     *)
(* leaves it alone; so the theorems about the tables hold for the server.  *)
LEMMA RequestIsTransaction == [on_message]_serverVars => [Next]_dbVars
<1> SUFFICES ASSUME [on_message]_serverVars PROVE [Next]_dbVars
    OBVIOUS
<1>0. CASE UNCHANGED serverVars
    BY <1>0 DEF serverVars
<1>1. CASE AddUserRequest \/ AddChatRequest
    BY <1>1 DEF AddUserRequest, AddChatRequest, Next, AddUser, AddChat, WriteAnswer
<1>2. CASE AddMessageRequest
    BY <1>2 DEF AddMessageRequest, Next, AddMessage, WriteAnswer
<1>3. CASE LinkUserToChatRequest
    BY <1>3 DEF LinkUserToChatRequest, Next, LinkUserToChat, WriteAnswer
<1>4. CASE SetTrelloTokenRequest
    BY <1>4 DEF SetTrelloTokenRequest, Next, SetTrelloToken, WriteAnswer
<1>5. CASE FindUser \/ GetChatId
    BY <1>5, QueryIsRead DEF FindUser, GetChatId
<1>6. CASE GetChatName \/ GetChatHistory \/ GetChatList
    BY <1>6, QueryIsRead DEF GetChatName, GetChatHistory, GetChatList, ById
<1>7. CASE GetTrelloToken \/ GetChatMembers \/ GetUserName
    BY <1>7, QueryIsRead DEF GetTrelloToken, GetChatMembers, GetUserName, ById
<1> QED BY <1>0, <1>1, <1>2, <1>3, <1>4, <1>5, <1>6, <1>7 DEF on_message

(* What holds of the tables under any sequence of transactions holds under *)
(* the requests of on_message: integrity, and that rows are only added.    *)
THEOREM ServerKeepsIntegrity == ServerSpec => []Integrity /\ AppendOnly
<1>1. ServerSpec => Spec
    BY RequestIsTransaction, PTL DEF ServerSpec, ServerInit, Spec
<1> QED BY <1>1, IntegrityHolds, OnlyAppends, PTL

-----------------------------------------------------------------------------
(* A writing method that answers FAIL on a live connection stored nothing. *)
HonestWrite(ans) ==
    /\ ans = Fail /\ backend' = "up" => UNCHANGED tables
    /\ backend = "lost" => backend' = "lost" /\ ans = Fail

(* What the four endings of a method say of the connection and the answer. *)
LEMMA CommittedIsSuccess ==
    ASSUME NEW ans
    PROVE  /\ Committed(ans) => backend = "up" /\ (backend' = "up" => ans # Fail)
           /\ Refused(ans) \/ Faulted(ans) => backend = "up"
           /\ Unreachable(ans) => ans = Fail /\ UNCHANGED dbVars
BY LiteralsDiffer DEF Committed, Refused, Faulted, Unreachable, dbVars

(* add_user, add_chat, add_message, link_user_to_chat and set_trello_token *)
(* are honest.                                                             *)
LEMMA WritesAreHonest ==
    ASSUME NEW n, NEW u, NEW c, NEW t, NEW ans,
           \/ add_user(n, ans) \/ add_chat(n, ans) \/ add_message(c, u, t, ans)
           \/ link_user_to_chat(u, c, ans) \/ set_trello_token(u, t, ans)
    PROVE  HonestWrite(ans)
<1>1. CASE Unreachable(ans)
    BY <1>1, CommittedIsSuccess DEF HonestWrite, Unreachable, dbVars, tables
<1>2. CASE Committed(ans)
    BY <1>2, CommittedIsSuccess DEF HonestWrite
<1>3. CASE (Refused(ans) \/ Faulted(ans)) /\ UNCHANGED tables
    BY <1>3, CommittedIsSuccess DEF HonestWrite
<1> QED BY <1>1, <1>2, <1>3
        DEF add_user, add_chat, add_message, link_user_to_chat, set_trello_token, tables

(* So is every method that reads.                                          *)
LEMMA QueriesAreHonest ==
    ASSUME NEW value, NEW ans, Query(value, ans) PROVE HonestWrite(ans)
BY DEF Query, Faulted, Unreachable, HonestWrite, dbVars, tables

(* FAIL is honest: a request answered FAIL stored nothing, unless the      *)
(* connection to the backend broke with it; and once it is broken no       *)
(* answer but FAIL is ever sent.                                           *)
THEOREM FailIsHonest == ServerSpec => FailStoresNothing
<1> DEFINE Honest == /\ reply'.answer = Fail /\ backend' = "up" => UNCHANGED tables
                     /\ backend = "lost" =>
                          backend' = "lost" /\ reply'.answer \in {Fail, NoReply}
<1>1. ASSUME NEW ans, NEW request, NEW about, HonestWrite(ans), Sent(request, about, ans)
      PROVE  Honest
    BY <1>1 DEF HonestWrite, Sent
<1>2. on_message => Honest
    <2> SUFFICES ASSUME on_message PROVE Honest
        OBVIOUS
    <2> HIDE DEF Honest
    <2>1. CASE AddUserRequest \/ AddChatRequest
        BY <2>1, <1>1, WritesAreHonest DEF AddUserRequest, AddChatRequest
    <2>2. CASE AddMessageRequest
        BY <2>2, <1>1, WritesAreHonest DEF AddMessageRequest
    <2>3. CASE LinkUserToChatRequest
        BY <2>3, <1>1, WritesAreHonest DEF LinkUserToChatRequest
    <2>4. CASE SetTrelloTokenRequest
        BY <2>4, <1>1, WritesAreHonest DEF SetTrelloTokenRequest
    <2>5. CASE FindUser \/ GetChatId
        BY <2>5, <1>1, QueriesAreHonest DEF FindUser, GetChatId
    <2>6. ASSUME NEW request, NEW Value(_), ById(request, Value) PROVE Honest
        BY <2>6, <1>1, QueriesAreHonest DEF ById, Sent, Honest, dbVars, tables
    <2> QED BY <2>1, <2>2, <2>3, <2>4, <2>5, <2>6
            DEF on_message, GetChatName, GetChatHistory, GetChatList, GetTrelloToken,
                GetChatMembers, GetUserName
<1> QED BY <1>2, PTL DEF ServerSpec, FailStoresNothing

-----------------------------------------------------------------------------
(* No answer but the literal of a writing method is SUCCESS, and the       *)
(* answers that bring a row are not the ones that say there is none.       *)
LEMMA AnswersDiffer ==
    /\ Fail # Success /\ NoReply # Success
    /\ \A n, i : find_user(n) # Success /\ get_user_name(i) # Success
    /\ \A n, i : get_chat_id(n) # Success /\ get_chat_name(i) # Success
    /\ \A i : get_chat_history(i) # Success /\ get_chat_list(i) # Success
    /\ \A i : get_chat_members(i) # Success /\ get_trello_token(i) # Success
<1>1. /\ Fail # Success /\ NoReply # Success /\ Null # Success /\ NotFound # Success
    <2>1. DOMAIN Success = {"done"} /\ DOMAIN NoReply = {"silent"}
        BY DEF Success, NoReply
    <2> QED BY <2>1, LiteralsDiffer
<1>2. ASSUME NEW a, NEW b PROVE
          /\ [user_id |-> a, user_name |-> b] # Success
          /\ [chat_id |-> a, chat_name |-> b] # Success
          /\ [rows |-> a] # Success /\ [trello_token |-> a] # Success
    <2>1. /\ "done" \in DOMAIN Success
          /\ "done" \notin DOMAIN [user_id |-> a, user_name |-> b]
          /\ "done" \notin DOMAIN [chat_id |-> a, chat_name |-> b]
          /\ "done" \notin DOMAIN [rows |-> a]
          /\ "done" \notin DOMAIN [trello_token |-> a]
        BY DEF Success
    <2> QED BY <2>1
<1>3. \A rows : Rows(rows) # Success
    BY <1>1, <1>2 DEF Rows
<1>4. \A n, i : find_user(n) # Success /\ get_user_name(i) # Success
    BY <1>1, <1>2 DEF find_user, get_user_name
<1>5. \A n, i : get_chat_id(n) # Success /\ get_chat_name(i) # Success
    BY <1>1, <1>2 DEF get_chat_id, get_chat_name
<1>6. \A i : get_chat_history(i) # Success /\ get_chat_list(i) # Success
    BY <1>3 DEF get_chat_history, get_chat_list
<1>7. \A i : get_chat_members(i) # Success /\ get_trello_token(i) # Success
    BY <1>1, <1>2, <1>3 DEF get_chat_members, get_trello_token, TokenIn
<1> QED BY <1>1, <1>4, <1>5, <1>6, <1>7

(* After add_user, or add_chat, has answered SUCCESS the name is found.    *)
LEMMA NamesAreFound ==
    ASSUME NEW n
    PROVE  /\ add_user(n, Success) => find_user(n)' # NotFound
           /\ add_chat(n, Success) => get_chat_id(n)' # Null
<1>1. ASSUME add_user(n, Success) PROVE find_user(n)' # NotFound
    <2>1. users' = WithRow(users, user_seq + 1, n)
        BY <1>1, SuccessIsCommit DEF add_user
    <2>2. user_seq + 1 \in DOMAIN users' /\ users'[user_seq + 1] = n
        BY <2>1 DEF WithRow
    <2>3. Taken(users', n)
        BY <2>2 DEF Taken
    <2> QED BY <2>3, RowIsNotMissing DEF find_user
<1>2. ASSUME add_chat(n, Success) PROVE get_chat_id(n)' # Null
    <2>1. chats' = WithRow(chats, chat_seq + 1, n)
        BY <1>2, SuccessIsCommit DEF add_chat
    <2>2. chat_seq + 1 \in DOMAIN chats' /\ chats'[chat_seq + 1] = n
        BY <2>1 DEF WithRow
    <2>3. Taken(chats', n)
        BY <2>2 DEF Taken
    <2> QED BY <2>3, RowIsNotMissing DEF get_chat_id
<1> QED BY <1>1, <1>2

(* After add_message has answered SUCCESS the message is the last one.     *)
LEMMA MessageIsLast ==
    ASSUME TypeOK, NEW c \in Id, NEW u \in Id, NEW t \in Text, add_message(c, u, t, Success)
    PROVE  /\ messages' # <<>>
           /\ messages'[Len(messages')] = [chat_id |-> c, sender_id |-> u, message_text |-> t]
<1> DEFINE row == [chat_id |-> c, sender_id |-> u, message_text |-> t]
<1>1. messages' = Append(messages, row) /\ row \in Message
    BY SuccessIsCommit, BoundAssumption DEF add_message, Message, Id
<1>2. /\ Len(messages') = Len(messages) + 1 /\ Len(messages) \in Nat
      /\ messages'[Len(messages) + 1] = row
    BY <1>1, AppendedRow DEF TypeOK
<1> QED BY <1>2

(* After link_user_to_chat has answered SUCCESS the membership is there,   *)
(* whether it was stored now or before.                                    *)
LEMMA LinkIsThere ==
    ASSUME TypeOK, NEW u \in Id, NEW c \in Id, link_user_to_chat(u, c, Success)
    PROVE  \E k \in DOMAIN links' : links'[k] = [user_id |-> u, chat_id |-> c]
<1> DEFINE row == [user_id |-> u, chat_id |-> c]
<1>1. CASE Linked(u, c) /\ UNCHANGED links
    BY <1>1 DEF Linked
<1>2. CASE links' = Append(links, row)
    <2>1. row \in Link
        BY BoundAssumption DEF Link, Id
    <2>2. /\ Len(links) + 1 \in DOMAIN links' /\ links'[Len(links) + 1] = row
        BY <1>2, <2>1, AppendedRow DEF TypeOK
    <2> QED BY <2>2
<1> QED BY <1>1, <1>2, SuccessIsCommit DEF link_user_to_chat

(* After set_trello_token has answered SUCCESS the user has a token.       *)
LEMMA TokenIsThere ==
    ASSUME TypeOK, NEW u \in Id, NEW t \in Token, set_trello_token(u, t, Success)
    PROVE  get_trello_token(u)' # Null
<1> DEFINE row == [user_id |-> u, trello_token |-> t]
<1>1. tokens' = Append(tokens, row) /\ row \in TrelloToken
    BY SuccessIsCommit, BoundAssumption DEF set_trello_token, TrelloToken, Id
<1>2. /\ Len(tokens) + 1 \in DOMAIN tokens' /\ tokens'[Len(tokens) + 1] = row
    BY <1>1, AppendedRow DEF TypeOK
<1>3. {k \in DOMAIN tokens' : tokens'[k].user_id = u} # {}
    BY <1>2
<1> QED BY <1>3, RowIsNotMissing DEF get_trello_token, TokenIn

(* SUCCESS is a promise kept: what a client is told is stored can be read  *)
(* back by its next request, for every set of names, texts and tokens.     *)
THEOREM SuccessIsKept == ServerSpec => []SuccessIsStored
<1>1. ServerInit => SuccessIsStored
    BY AnswersDiffer DEF ServerInit, SuccessIsStored
<1>2. TypeOK /\ SuccessIsStored /\ [on_message]_serverVars => SuccessIsStored'
    <2> SUFFICES ASSUME TypeOK, SuccessIsStored, [on_message]_serverVars
                 PROVE  SuccessIsStored'
        OBVIOUS
    <2>0. CASE UNCHANGED serverVars
        BY <2>0 DEF serverVars, dbVars, SuccessIsStored, find_user, get_chat_id,
                    get_trello_token, Taken
    <2>1. CASE reply'.answer # Success
        BY <2>1 DEF SuccessIsStored
    <2>a. ASSUME NEW request, NEW about, NEW ans, Sent(request, about, ans)
          PROVE  /\ reply'.to = request /\ reply'.about = about
                 /\ ans # Success => reply'.answer # Success
        BY <2>a DEF Sent
    <2>2. CASE AddUserRequest
        <3> PICK n \in UserName, ans \in WriteAnswer :
                add_user(n, ans) /\ Sent("add_user", <<n>>, ans)
            BY <2>2 DEF AddUserRequest
        <3> QED BY <2>1, <2>a, NamesAreFound DEF SuccessIsStored, WriteAnswer
    <2>3. CASE AddChatRequest
        <3> PICK n \in ChatName, ans \in WriteAnswer :
                add_chat(n, ans) /\ Sent("add_chat", <<n>>, ans)
            BY <2>3 DEF AddChatRequest
        <3> QED BY <2>1, <2>a, NamesAreFound DEF SuccessIsStored, WriteAnswer
    <2>4. CASE AddMessageRequest
        <3> PICK c \in Id, u \in Id, t \in Text, ans \in WriteAnswer :
                add_message(c, u, t, ans) /\ Sent("add_message", <<c, u, t>>, ans)
            BY <2>4 DEF AddMessageRequest
        <3> QED BY <2>1, <2>a, MessageIsLast DEF SuccessIsStored, WriteAnswer
    <2>5. CASE LinkUserToChatRequest
        <3> PICK u \in Id, c \in Id, ans \in WriteAnswer :
                link_user_to_chat(u, c, ans) /\ Sent("link_user_to_chat", <<u, c>>, ans)
            BY <2>5 DEF LinkUserToChatRequest
        <3> QED BY <2>1, <2>a, LinkIsThere DEF SuccessIsStored, WriteAnswer
    <2>6. CASE SetTrelloTokenRequest
        <3> PICK u \in Id, t \in Token, ans \in WriteAnswer :
                set_trello_token(u, t, ans) /\ Sent("set_trello_token", <<u, t>>, ans)
            BY <2>6 DEF SetTrelloTokenRequest
        <3> QED BY <2>1, <2>a, TokenIsThere DEF SuccessIsStored, WriteAnswer
    <2>7. CASE FindUser \/ GetChatId
        BY <2>1, <2>7, <2>a, AnswersDiffer DEF FindUser, GetChatId
    <2>8. CASE GetChatName \/ GetChatHistory \/ GetChatList
        BY <2>1, <2>8, <2>a, AnswersDiffer DEF GetChatName, GetChatHistory, GetChatList, ById
    <2>9. CASE GetTrelloToken \/ GetChatMembers \/ GetUserName
        BY <2>1, <2>9, <2>a, AnswersDiffer DEF GetTrelloToken, GetChatMembers, GetUserName, ById
    <2> QED BY <2>0, <2>2, <2>3, <2>4, <2>5, <2>6, <2>7, <2>8, <2>9 DEF on_message
<1>3. ServerSpec => []TypeOK
    BY RequestIsTransaction, TypeCorrect, PTL DEF ServerSpec, ServerInit, Spec
<1> QED BY <1>1, <1>2, <1>3, PTL DEF ServerSpec

-----------------------------------------------------------------------------
(* What the tables hold when their references resolve and no membership is *)
(* stored twice: each list and history names only chats and users there    *)
(* are, and names none twice.                                              *)
LEMMA IntegrityIsUsable == ASSUME TypeOK, Integrity PROVE RowsAreUsable
<1>0. links \in Seq(Link) /\ messages \in Seq(Message)
    BY DEF TypeOK
<1>1. /\ \A k \in DOMAIN links : links[k].user_id \in DOMAIN users
                                 /\ links[k].chat_id \in DOMAIN chats
      /\ \A k \in DOMAIN messages : messages[k].sender_id \in DOMAIN users
      /\ \A j, k \in DOMAIN links : links[j] = links[k] => j = k
    BY DEF Integrity, ReferencesResolve, Resolves, LinksDistinct
<1>2. /\ \A i \in DOMAIN chats : get_chat_name(i) # Null
      /\ \A i \in DOMAIN users : get_user_name(i) # NotFound
    BY RowIsNotMissing DEF get_chat_name, get_user_name
<1>3. ASSUME NEW u, get_chat_list(u) # Null, NEW j \in DOMAIN get_chat_list(u).rows,
             NEW k \in DOMAIN get_chat_list(u).rows
      PROVE  LET list == get_chat_list(u).rows
             IN  get_chat_name(list[j]) # Null /\ (list[j] = list[k] => j = k)
    <2> DEFINE list == ChatsIn(links, u)
    <2>1. get_chat_list(u).rows = list
        BY <1>3, AnswersAreLists, ListIsRead
    <2>2. /\ \E n \in DOMAIN links : links[n].user_id = u /\ links[n].chat_id = list[j]
          /\ list[j] = list[k] => j = k
        <3>1. /\ \A m \in DOMAIN list : \E n \in DOMAIN links :
                    links[n].user_id = u /\ links[n].chat_id = list[m]
              /\ (\A m, n \in DOMAIN links : links[m] = links[n] => m = n) =>
                    \A m, n \in DOMAIN list : list[m] = list[n] => m = n
            BY <1>0, ChatsRows
        <3>2. j \in DOMAIN list /\ k \in DOMAIN list
            BY <2>1
        <3> HIDE DEF list
        <3> QED BY <1>1, <3>1, <3>2
    <2>3. list[j] \in DOMAIN chats
        BY <1>1, <2>2
    <2> QED BY <1>2, <2>1, <2>2, <2>3
<1>4. ASSUME NEW c, get_chat_history(c) # Null, NEW k \in DOMAIN get_chat_history(c).rows
      PROVE  get_user_name(get_chat_history(c).rows[k].sender_id) # NotFound
    <2> DEFINE list == HistoryIn(messages, c)
    <2>1. get_chat_history(c).rows = list
        BY <1>4, AnswersAreLists, ListIsRead
    <2>2. \E n \in DOMAIN messages : list[k] = messages[n]
        BY <1>0, <1>4, <2>1, HistoryRows
    <2> QED BY <1>1, <1>2, <2>1, <2>2
<1>5. ASSUME NEW c, get_chat_members(c) # Null, NEW j \in DOMAIN get_chat_members(c).rows,
             NEW k \in DOMAIN get_chat_members(c).rows
      PROVE  LET list == get_chat_members(c).rows
             IN  /\ list[j] = list[k] => j = k
                 /\ \E r \in {get_chat_list(list[j])} :
                      r # Null /\ \E n \in DOMAIN r.rows : r.rows[n] = c
    <2> DEFINE list == MembersIn(links, c)
               its == ChatsIn(links, list[j])
    <2>1. get_chat_members(c).rows = list
        BY <1>5, AnswersAreLists, ListIsRead
    <2>2. /\ \E n \in DOMAIN links : links[n].chat_id = c /\ links[n].user_id = list[j]
          /\ list[j] = list[k] => j = k
        <3>1. /\ \A m \in DOMAIN list : \E n \in DOMAIN links :
                    links[n].chat_id = c /\ links[n].user_id = list[m]
              /\ (\A m, n \in DOMAIN links : links[m] = links[n] => m = n) =>
                    \A m, n \in DOMAIN list : list[m] = list[n] => m = n
            BY <1>0, MembersRows
        <3>2. j \in DOMAIN list /\ k \in DOMAIN list
            BY <2>1
        <3> HIDE DEF list
        <3> QED BY <1>1, <3>1, <3>2
    <2>3. \E n \in DOMAIN its : its[n] = c
        <3>1. \A n \in DOMAIN links : links[n].user_id = list[j] =>
                  \E m \in DOMAIN its : its[m] = links[n].chat_id
            BY <1>0, ChatsRows
        <3> HIDE DEF its, list
        <3> QED BY <2>2, <3>1
    <2>4. get_chat_list(list[j]) # Null /\ get_chat_list(list[j]).rows = its
        <3>1. its # <<>>
            BY <2>3
        <3> QED BY <3>1, AnswersAreLists, ListIsRead
    <2> QED BY <2>1, <2>2, <2>3, <2>4
<1> QED BY <1>3, <1>4, <1>5 DEF RowsAreUsable

(* No list or history a client is answered ever names a chat or a user     *)
(* that the next request of the client would not find, and two members     *)
(* listed are two users.                                                   *)
THEOREM ListsAreUsable == ServerSpec => []RowsAreUsable
<1>1. ServerSpec => Spec
    BY RequestIsTransaction, PTL DEF ServerSpec, ServerInit, Spec
<1>2. TypeOK /\ Integrity => RowsAreUsable
    BY IntegrityIsUsable
<1> QED BY <1>1, <1>2, TypeCorrect, IntegrityHolds, PTL
-----------------------------------------------------------------------------
(* The service and the server say the same things.                         *)
LEMMA SameAnswers == CS!Success = Success /\ CS!Fail = Fail /\ CS!NotFound = NotFound
   /\ CS!Null = Null /\ CS!NoReply = NoReply /\ \A r : CS!Rows(r) = Rows(r)
BY DEF CS!Success, Success, CS!Fail, Fail, CS!NotFound, NotFound, CS!Null, Null, CS!NoReply, NoReply, CS!Rows, Rows

(* What the service holds is read from the tables.                         *)
LEMMA ContentKept == ASSUME UNCHANGED tables PROVE UNCHANGED CS!content
BY DEF tables, CS!content

(* How a method ends is how a request of the service ends: with a commit   *)
(* the request is done, whether or not the client learns of it; ...        *)
LEMMA WriteEnds ==
    ASSUME NEW request, NEW about, NEW ans, Committed(ans), Sent(request, about, ans)
    PROVE  CS!Done(request, about)
<1>1. /\ backend = "up"
      /\ (backend' = "up" /\ ans = Success) \/ (backend' = "lost" /\ ans = Fail)
    BY DEF Committed
<1>2. reply' = [to |-> request, about |-> about, answer |-> ans]
    BY DEF Sent
<1> QED BY <1>1, <1>2, SameAnswers DEF CS!Done, CS!Say

(* ... a transaction that is rolled back refuses it; ...                   *)
LEMMA RefusalEnds ==
    ASSUME NEW request, NEW about, NEW ans, Sent(request, about, ans), UNCHANGED tables,
           Refused(ans) \/ Faulted(ans) \/ Unreachable(ans)
    PROVE  CS!Refused(request, about)
<1>1. ans = Fail /\ (backend' = "up" => backend = "up")
    BY DEF Refused, Faulted, Unreachable, dbVars
<1>2. CS!Say(request, about, CS!Fail)
    BY <1>1, SameAnswers DEF Sent, CS!Say
<1> QED BY <1>1, <1>2, ContentKept DEF CS!Refused

(* ... and a SELECT shows what it reads, or refuses.                       *)
LEMMA QueryEnds ==
    ASSUME NEW request, NEW about, NEW value, NEW ans, Query(value, ans), Sent(request, about, ans)
    PROVE  CS!Shown(request, about, value) \/ CS!Refused(request, about)
<1>1. CASE backend = "up" /\ ans = value /\ UNCHANGED dbVars
    <2>1. UNCHANGED tables /\ backend' = backend
        BY <1>1 DEF dbVars, tables
    <2>2. CS!Say(request, about, value)
        BY <1>1 DEF Sent, CS!Say
    <2> QED BY <1>1, <2>1, <2>2, ContentKept DEF CS!Shown
<1>2. CASE (Faulted(ans) \/ Unreachable(ans)) /\ UNCHANGED tables
    BY <1>2, RefusalEnds
<1> QED BY <1>1, <1>2 DEF Query, Unreachable, dbVars, tables

(* A row with the next id of the sequence is a name enrolled.              *)
LEMMA NewName ==
    ASSUME NEW names, NEW n, NEW new, NEW seq \in Nat, HasId(seq), ~ Taken(names, n),
           DOMAIN names \subseteq 1 .. seq, new = WithRow(names, seq + 1, n)
    PROVE  CS!Enrolled(names, n, new)
<1>1. CS!Named(names, n) = {}
    BY DEF CS!Named, Taken
<1>2. seq + 1 \in Id \ DOMAIN names
    BY BoundAssumption DEF HasId, Id
<1> QED BY <1>1, <1>2 DEF CS!Enrolled, WithRow

(* add_user is AddUser: an unused name is enrolled or refused.             *)
LEMMA AddUserIsService ==
    ASSUME TypeOK, NEW n, NEW ans, add_user(n, ans), Sent("add_user", <<n>>, ans)
    PROVE  CS!AddUser(n)
<1>1. CASE /\ ~ Taken(users, n) /\ HasId(user_seq) /\ Committed(ans)
           /\ users' = WithRow(users, user_seq + 1, n)
           /\ UNCHANGED <<chats, links, messages, tokens>>
    <2>1. CS!Enrolled(users, n, users')
        BY <1>1, NewName DEF TypeOK
    <2>2. CS!Done("add_user", <<n>>)
        BY <1>1, WriteEnds
    <2> QED BY <1>1, <2>1, <2>2 DEF CS!AddUser
<1>2. CASE (Refused(ans) \/ Faulted(ans) \/ Unreachable(ans)) /\ UNCHANGED tables
    BY <1>2, RefusalEnds DEF CS!AddUser
<1> QED BY <1>1, <1>2 DEF add_user, Unreachable, dbVars, tables

(* add_chat is AddChat.                                                    *)
LEMMA AddChatIsService ==
    ASSUME TypeOK, NEW n, NEW ans, add_chat(n, ans), Sent("add_chat", <<n>>, ans)
    PROVE  CS!AddChat(n)
<1>1. CASE /\ ~ Taken(chats, n) /\ HasId(chat_seq) /\ Committed(ans)
           /\ chats' = WithRow(chats, chat_seq + 1, n)
           /\ UNCHANGED <<users, links, messages, tokens>>
    <2>1. CS!Enrolled(chats, n, chats')
        BY <1>1, NewName DEF TypeOK
    <2>2. CS!Done("add_chat", <<n>>)
        BY <1>1, WriteEnds
    <2> QED BY <1>1, <2>1, <2>2 DEF CS!AddChat
<1>2. CASE (Refused(ans) \/ Faulted(ans) \/ Unreachable(ans)) /\ UNCHANGED tables
    BY <1>2, RefusalEnds DEF CS!AddChat
<1> QED BY <1>1, <1>2 DEF add_chat, Unreachable, dbVars, tables

(* add_message is AddMessage: the SELECT of get_chat_history finds the new *)
(* row at the end of the log of its chat, and every other log as it was.   *)
LEMMA AddMessageIsService ==
    ASSUME TypeOK, NEW c \in Id, NEW u \in Id, NEW t \in Text, NEW ans,
           add_message(c, u, t, ans), Sent("add_message", <<c, u, t>>, ans)
    PROVE  CS!AddMessage(c, u, t)
<1> DEFINE row == [chat_id |-> c, sender_id |-> u, message_text |-> t]
           said == [i \in Id |-> HistoryIn(messages, i)]
<1>1. CASE /\ Resolves(u, c) /\ Committed(ans)
           /\ messages' = Append(messages, row)
           /\ UNCHANGED <<users, chats, links, tokens>>
    <2>1. row \in Message /\ messages \in Seq(Message)
        BY BoundAssumption DEF TypeOK, Message, Id
    <2>2. ASSUME NEW i \in Id
          PROVE  HistoryIn(messages', i) = IF i = c THEN Append(HistoryIn(messages, i), row)
                                                    ELSE HistoryIn(messages, i)
        <3>1. HistoryIn(Append(messages, row), i) =
                  IF row.chat_id = i THEN Append(HistoryIn(messages, i), row)
                                     ELSE HistoryIn(messages, i)
            BY <2>1, HistoryMoves
        <3> QED BY <1>1, <3>1
    <2>3. said' = [said EXCEPT ![c] = Append(@, row)]
        BY <2>2
    <2>4. CS!Done("add_message", <<c, u, t>>)
        BY <1>1, WriteEnds
    <2> QED BY <1>1, <2>3, <2>4 DEF CS!AddMessage, Resolves
<1>2. CASE (Refused(ans) \/ Faulted(ans) \/ Unreachable(ans)) /\ UNCHANGED tables
    BY <1>2, RefusalEnds DEF CS!AddMessage
<1> QED BY <1>1, <1>2 DEF add_message, Unreachable, dbVars, tables

(* link_user_to_chat is LinkUserToChat: the rows check_link looks for are  *)
(* there just when the chat is in the user's list, and one new row is one  *)
(* new chat in the list of the user and one new member in that of the chat. *)
LEMMA LinkIsService ==
    ASSUME TypeOK, ReferencesResolve, NEW u \in Id, NEW c \in Id, NEW ans,
           link_user_to_chat(u, c, ans), Sent("link_user_to_chat", <<u, c>>, ans)
    PROVE  CS!LinkUserToChat(u, c)
<1> DEFINE row == [user_id |-> u, chat_id |-> c]
           in == [i \in Id |-> ChatsIn(links, i)]
           of == [i \in Id |-> MembersIn(links, i)]
<1>0. row \in Link /\ links \in Seq(Link)
    BY BoundAssumption DEF TypeOK, Link, Id
<1>1. Linked(u, c) <=> \E k \in DOMAIN in[u] : in[u][k] = c
    <2> DEFINE list == ChatsIn(links, u)
    <2>1. /\ \A j \in DOMAIN list : \E k \in DOMAIN links :
                links[k].user_id = u /\ links[k].chat_id = list[j]
          /\ \A k \in DOMAIN links :
                links[k].user_id = u => \E j \in DOMAIN list : list[j] = links[k].chat_id
        BY <1>0, ChatsRows
    <2>2. \A k \in DOMAIN links : links[k] = row <=> links[k].user_id = u /\ links[k].chat_id = c
        <3> SUFFICES ASSUME NEW k \in DOMAIN links
                     PROVE  links[k] = row <=> links[k].user_id = u /\ links[k].chat_id = c
            OBVIOUS
        <3>1. links[k] \in Link
            BY <1>0
        <3> QED BY <3>1 DEF Link
    <2>3. in[u] = list
        OBVIOUS
    <2> HIDE DEF list, in
    <2> QED BY <2>1, <2>2, <2>3 DEF Linked
<1>2. CASE /\ Linked(u, c) /\ Committed(ans)
           /\ UNCHANGED <<users, chats, links, messages, tokens>>
    <2>1. u \in DOMAIN users /\ c \in DOMAIN chats
        BY <1>2 DEF Linked, ReferencesResolve, Resolves
    <2>2. CS!Done("link_user_to_chat", <<u, c>>)
        BY <1>2, WriteEnds
    <2> QED BY <1>1, <1>2, <2>1, <2>2 DEF CS!LinkUserToChat
<1>3. CASE /\ ~ Linked(u, c) /\ Resolves(u, c) /\ Committed(ans)
           /\ links' = Append(links, row)
           /\ UNCHANGED <<users, chats, messages, tokens>>
    <2>1. ASSUME NEW i \in Id
          PROVE  /\ ChatsIn(links', i) = IF i = u THEN Append(ChatsIn(links, i), c)
                                                  ELSE ChatsIn(links, i)
                 /\ MembersIn(links', i) = IF i = c THEN Append(MembersIn(links, i), u)
                                                    ELSE MembersIn(links, i)
        <3>1. /\ ChatsIn(Append(links, row), i) =
                    IF row.user_id = i THEN Append(ChatsIn(links, i), row.chat_id)
                                       ELSE ChatsIn(links, i)
              /\ MembersIn(Append(links, row), i) =
                    IF row.chat_id = i THEN Append(MembersIn(links, i), row.user_id)
                                       ELSE MembersIn(links, i)
            BY <1>0, ListsMove
        <3> QED BY <1>3, <3>1
    <2>2. in' = [in EXCEPT ![u] = Append(@, c)] /\ of' = [of EXCEPT ![c] = Append(@, u)]
        BY <2>1
    <2>3. CS!Done("link_user_to_chat", <<u, c>>)
        BY <1>3, WriteEnds
    <2> QED BY <1>1, <1>3, <2>2, <2>3 DEF CS!LinkUserToChat, Resolves
<1>4. CASE (Refused(ans) \/ Faulted(ans) \/ Unreachable(ans)) /\ UNCHANGED tables
    BY <1>4, RefusalEnds DEF CS!LinkUserToChat
<1> QED BY <1>2, <1>3, <1>4 DEF link_user_to_chat, Unreachable, dbVars, tables

(* set_trello_token is SetTrelloToken: the method that reads returns at the *)
(* user's first row, so a second token is stored and never seen.           *)
LEMMA TokenIsService ==
    ASSUME TypeOK, NEW u \in Id, NEW t \in Token, NEW ans,
           set_trello_token(u, t, ans), Sent("set_trello_token", <<u, t>>, ans)
    PROVE  CS!SetTrelloToken(u, t)
<1> DEFINE row == [user_id |-> u, trello_token |-> t]
           has == [i \in Id |-> TokenIn(tokens, i)]
<1>1. CASE /\ Acceptable(u, t) /\ Committed(ans)
           /\ tokens' = Append(tokens, row)
           /\ UNCHANGED <<users, chats, links, messages>>
    <2>1. row \in TrelloToken /\ tokens \in Seq(TrelloToken)
        BY BoundAssumption DEF TypeOK, TrelloToken, Id
    <2>2. ASSUME NEW i \in Id
          PROVE  TokenIn(tokens', i) =
                     IF i = u /\ TokenIn(tokens, i) = Null THEN [trello_token |-> t]
                                                           ELSE TokenIn(tokens, i)
        <3>1. TokenIn(Append(tokens, row), i) =
                  IF row.user_id = i /\ TokenIn(tokens, i) = Null
                  THEN [trello_token |-> row.trello_token] ELSE TokenIn(tokens, i)
            BY <2>1, TokenMoves
        <3> QED BY <1>1, <3>1
    <2>3. has' = [has EXCEPT ![u] = IF @ = Null THEN [trello_token |-> t] ELSE @]
        BY <2>2
    <2>4. \A i \in Id : TokenIn(tokens, i) # [trello_token |-> t]
        <3> SUFFICES ASSUME NEW i \in Id PROVE TokenIn(tokens, i) # [trello_token |-> t]
            OBVIOUS
        <3>1. CASE TokenIn(tokens, i) = Null
            BY <3>1, RowIsNotMissing
        <3>2. CASE TokenIn(tokens, i) # Null
            <4>1. PICK k \in DOMAIN tokens :
                      TokenIn(tokens, i) = [trello_token |-> tokens[k].trello_token]
                BY <2>1, <3>2, FirstRow
            <4>2. tokens[k].trello_token # t
                BY <1>1 DEF Acceptable
            <4>3. \A a, b : [trello_token |-> a] = [trello_token |-> b] => a = b
                <5> TAKE a, b
                <5>1. [trello_token |-> a].trello_token = a /\ [trello_token |-> b].trello_token = b
                    OBVIOUS
                <5> QED BY <5>1
            <4> QED BY <4>1, <4>2, <4>3
        <3> QED BY <3>1, <3>2
    <2>5. CS!Done("set_trello_token", <<u, t>>)
        BY <1>1, WriteEnds
    <2> QED BY <1>1, <2>3, <2>4, <2>5, SameAnswers DEF CS!SetTrelloToken, Acceptable
<1>2. CASE (Refused(ans) \/ Faulted(ans) \/ Unreachable(ans)) /\ UNCHANGED tables
    BY <1>2, RefusalEnds DEF CS!SetTrelloToken
<1> QED BY <1>1, <1>2 DEF set_trello_token, Unreachable, dbVars, tables

(* find_user and get_chat_id answer with the one id the name has.          *)
LEMMA NameReadIsService ==
    ASSUME NEW n, NEW ans
    PROVE  /\ Query(find_user(n), ans) /\ Sent("find_user", <<n>>, ans) => CS!FindUser(n)
           /\ Query(get_chat_id(n), ans) /\ Sent("get_chat_id", <<n>>, ans) => CS!GetChatId(n)
<1>1. ASSUME Query(find_user(n), ans), Sent("find_user", <<n>>, ans) PROVE CS!FindUser(n)
    <2>1. \/ CS!Shown("find_user", <<n>>, find_user(n))
          \/ CS!Refused("find_user", <<n>>)
        BY <1>1, QueryEnds
    <2>2. IF Taken(users, n)
          THEN \E i \in CS!Named(users, n) : find_user(n) = [user_id |-> i, user_name |-> n]
          ELSE CS!Named(users, n) = {} /\ find_user(n) = CS!NotFound
        BY SameAnswers DEF find_user, Taken, CS!Named
    <2> QED BY <2>1, <2>2 DEF CS!FindUser
<1>2. ASSUME Query(get_chat_id(n), ans), Sent("get_chat_id", <<n>>, ans) PROVE CS!GetChatId(n)
    <2>1. \/ CS!Shown("get_chat_id", <<n>>, get_chat_id(n))
          \/ CS!Refused("get_chat_id", <<n>>)
        BY <1>2, QueryEnds
    <2>2. IF Taken(chats, n)
          THEN \E i \in CS!Named(chats, n) : get_chat_id(n) = [chat_id |-> i, chat_name |-> n]
          ELSE CS!Named(chats, n) = {} /\ get_chat_id(n) = CS!Null
        BY SameAnswers DEF get_chat_id, Taken, CS!Named
    <2> QED BY <2>1, <2>2 DEF CS!GetChatId
<1> QED BY <1>1, <1>2

(* A request whose number std::stoi refuses is dropped, and any other shows *)
(* what the method finds.                                                  *)
LEMMA GetEnds ==
    ASSUME NEW request, NEW i \in Id, NEW value,
           \/ /\ i <= MaxInt
              /\ \E ans \in {value, Fail} : Query(value, ans) /\ Sent(request, <<i>>, ans)
           \/ i > MaxInt /\ UNCHANGED dbVars /\ Sent(request, <<i>>, NoReply)
    PROVE  CS!Get(request, i, value)
<1>1. CASE /\ i <= MaxInt
           /\ \E ans \in {value, Fail} : Query(value, ans) /\ Sent(request, <<i>>, ans)
    BY <1>1, QueryEnds DEF CS!Get
<1>2. CASE i > MaxInt /\ UNCHANGED dbVars /\ Sent(request, <<i>>, NoReply)
    <2>1. UNCHANGED tables /\ backend' = backend
        BY <1>2 DEF dbVars, tables
    <2>2. CS!Say(request, <<i>>, CS!NoReply)
        BY <1>2, SameAnswers DEF Sent, CS!Say
    <2>3. CS!Dropped(request, <<i>>)
        BY <2>1, <2>2, ContentKept DEF CS!Dropped
    <2> QED BY <1>2, <2>3 DEF CS!Get
<1> QED BY <1>1, <1>2

(* The six requests that carry one number show what the service holds.     *)
LEMMA IdReadIsService ==
    ASSUME GetChatName \/ GetChatHistory \/ GetChatList \/ GetTrelloToken
           \/ GetChatMembers \/ GetUserName
    PROVE  \E i \in Id : CS!GetById(i)
<1>1. ASSUME NEW i \in Id
      PROVE  /\ get_user_name(i) = IF i \in DOMAIN users
                                   THEN [user_id |-> i, user_name |-> users[i]] ELSE CS!NotFound
             /\ get_chat_name(i) = IF i \in DOMAIN chats
                                   THEN [chat_id |-> i, chat_name |-> chats[i]] ELSE CS!Null
             /\ get_chat_history(i) = CS!Rows([c \in Id |-> HistoryIn(messages, c)][i])
             /\ get_chat_list(i) = CS!Rows([u \in Id |-> ChatsIn(links, u)][i])
             /\ get_chat_members(i) = CS!Rows([c \in Id |-> MembersIn(links, c)][i])
             /\ get_trello_token(i) = [u \in Id |-> TokenIn(tokens, u)][i]
    BY SameAnswers DEF get_user_name, get_chat_name, get_chat_history, get_chat_list,
                       get_chat_members, get_trello_token
<1>2. CASE GetUserName
    <2>1. PICK i \in Id : CS!Get("get_user_name", i, get_user_name(i))
        BY <1>2, GetEnds DEF GetUserName, ById
    <2> QED BY <1>1, <2>1 DEF CS!GetById
<1>3. CASE GetChatName
    <2>1. PICK i \in Id : CS!Get("get_chat_name", i, get_chat_name(i))
        BY <1>3, GetEnds DEF GetChatName, ById
    <2> QED BY <1>1, <2>1 DEF CS!GetById
<1>4. CASE GetChatHistory
    <2>1. PICK i \in Id : CS!Get("get_chat_history", i, get_chat_history(i))
        BY <1>4, GetEnds DEF GetChatHistory, ById
    <2> QED BY <1>1, <2>1 DEF CS!GetById
<1>5. CASE GetChatList
    <2>1. PICK i \in Id : CS!Get("get_chat_list", i, get_chat_list(i))
        BY <1>5, GetEnds DEF GetChatList, ById
    <2> QED BY <1>1, <2>1 DEF CS!GetById
<1>6. CASE GetChatMembers
    <2>1. PICK i \in Id : CS!Get("get_chat_members", i, get_chat_members(i))
        BY <1>6, GetEnds DEF GetChatMembers, ById
    <2> QED BY <1>1, <2>1 DEF CS!GetById
<1>7. CASE GetTrelloToken
    <2>1. PICK i \in Id : CS!Get("get_trello_token", i, get_trello_token(i))
        BY <1>7, GetEnds DEF GetTrelloToken, ById
    <2> QED BY <1>1, <2>1 DEF CS!GetById
<1> QED BY <1>2, <1>3, <1>4, <1>5, <1>6, <1>7

(* Every request on_message handles is one step of the service.  Its answer *)
(* is right because the rows a membership names are rows there are.        *)
LEMMA RequestIsService == TypeOK /\ Integrity /\ [on_message]_serverVars => [CS!Next]_CS!serviceVars
<1> SUFFICES ASSUME TypeOK, Integrity, [on_message]_serverVars
             PROVE  [CS!Next]_CS!serviceVars
    OBVIOUS
<1>0. CASE UNCHANGED serverVars
    <2>1. UNCHANGED tables /\ backend' = backend /\ reply' = reply
        BY <1>0 DEF serverVars, dbVars, tables
    <2> QED BY <2>1, ContentKept DEF CS!serviceVars
<1>1. ASSUME NEW request, NEW about, NEW ans, Sent(request, about, ans)
      PROVE  reply'.to = request
    BY <1>1 DEF Sent
<1>2. CASE AddUserRequest
    <2>1. PICK n \in UserName, ans \in WriteAnswer :
              add_user(n, ans) /\ Sent("add_user", <<n>>, ans)
        BY <1>2 DEF AddUserRequest
    <2> QED BY <1>1, <2>1, AddUserIsService DEF CS!Next
<1>3. CASE FindUser
    <2>1. PICK n \in UserName : \E ans :
              Query(find_user(n), ans) /\ Sent("find_user", <<n>>, ans)
        BY <1>3 DEF FindUser
    <2> QED BY <1>1, <2>1, NameReadIsService DEF CS!Next
<1>4. CASE AddChatRequest
    <2>1. PICK n \in ChatName, ans \in WriteAnswer :
              add_chat(n, ans) /\ Sent("add_chat", <<n>>, ans)
        BY <1>4 DEF AddChatRequest
    <2> QED BY <1>1, <2>1, AddChatIsService DEF CS!Next
<1>5. CASE GetChatId
    <2>1. PICK n \in ChatName : \E ans :
              Query(get_chat_id(n), ans) /\ Sent("get_chat_id", <<n>>, ans)
        BY <1>5 DEF GetChatId
    <2> QED BY <1>1, <2>1, NameReadIsService DEF CS!Next
<1>6. CASE LinkUserToChatRequest
    <2>1. PICK u \in Id, c \in Id, ans \in WriteAnswer :
              link_user_to_chat(u, c, ans) /\ Sent("link_user_to_chat", <<u, c>>, ans)
        BY <1>6 DEF LinkUserToChatRequest
    <2> QED BY <1>1, <2>1, LinkIsService DEF CS!Next, Integrity
<1>7. CASE AddMessageRequest
    <2>1. PICK c \in Id, u \in Id, t \in Text, ans \in WriteAnswer :
              add_message(c, u, t, ans) /\ Sent("add_message", <<c, u, t>>, ans)
        BY <1>7 DEF AddMessageRequest
    <2> QED BY <1>1, <2>1, AddMessageIsService DEF CS!Next
<1>8. CASE SetTrelloTokenRequest
    <2>1. PICK u \in Id, t \in Token, ans \in WriteAnswer :
              set_trello_token(u, t, ans) /\ Sent("set_trello_token", <<u, t>>, ans)
        BY <1>8 DEF SetTrelloTokenRequest
    <2> QED BY <1>1, <2>1, TokenIsService DEF CS!Next
<1>9. CASE \/ GetChatName \/ GetChatHistory \/ GetChatList
           \/ GetTrelloToken \/ GetChatMembers \/ GetUserName
    BY <1>9, IdReadIsService DEF CS!Next
<1> QED BY <1>0, <1>2, <1>3, <1>4, <1>5, <1>6, <1>7, <1>8, <1>9 DEF on_message

(* Nothing is listed from empty tables.                                    *)
LEMMA NothingIsRead ==
    ASSUME NEW id
    PROVE  /\ ChatsIn(<<>>, id) = <<>> /\ MembersIn(<<>>, id) = <<>>
           /\ HistoryIn(<<>>, id) = <<>> /\ TokenIn(<<>>, id) = Null
<1>1. /\ <<>> \in Seq(Link) /\ <<>> \in Seq(Message) /\ Len(<<>>) = 0 /\ DOMAIN <<>> = {}
      /\ \A S : \A list \in Seq(S) : Len(list) <= 0 => list = <<>>
    OBVIOUS
<1>2. ChatsIn(<<>>, id) = <<>>
    <2> DEFINE list == ChatsIn(<<>>, id)
    <2>1. list \in Seq(Nat) /\ Len(list) <= 0
        BY <1>1, ChatsRows
    <2> HIDE DEF list
    <2> QED BY <1>1, <2>1 DEF list
<1>3. MembersIn(<<>>, id) = <<>>
    <2> DEFINE list == MembersIn(<<>>, id)
    <2>1. list \in Seq(Nat) /\ Len(list) <= 0
        BY <1>1, MembersRows
    <2> HIDE DEF list
    <2> QED BY <1>1, <2>1 DEF list
<1>4. HistoryIn(<<>>, id) = <<>>
    <2> DEFINE list == HistoryIn(<<>>, id)
    <2>1. list \in Seq(Message) /\ \A j \in DOMAIN list : FALSE
        BY <1>1, HistoryRows
    <2> HIDE DEF list
    <2>2. Len(list) \in Nat /\ DOMAIN list = 1 .. Len(list)
        BY <2>1
    <2>3. Len(list) <= 0
        <3>1. 1 \notin DOMAIN list
            BY <2>1
        <3> QED BY <2>2, <3>1
    <2> QED BY <1>1, <2>1, <2>3 DEF list
<1>5. TokenIn(<<>>, id) = Null
    BY DEF TokenIn
<1> QED BY <1>2, <1>3, <1>4, <1>5

(* The server implements the ChatService: for every set of names, texts    *)
(* and tokens, every bound and every choice of faults of the connection, a *)
(* client sees of the five tables no more than accounts, chats, one list   *)
(* per account and per chat, one log per chat and one token per account.   *)
THEOREM ServerIsChatService == ServerSpec => ImplementsChatService
<1>1. ServerInit => CS!Init
    BY NothingIsRead, SameAnswers DEF ServerInit, Init, CS!Init
<1>2. TypeOK /\ Integrity /\ [on_message]_serverVars => [CS!Next]_CS!serviceVars
    BY RequestIsService
<1>3. ServerSpec => []TypeOK /\ []Integrity
    BY RequestIsTransaction, TypeCorrect, IntegrityHolds, PTL DEF ServerSpec, ServerInit, Spec
<1> QED BY <1>1, <1>2, <1>3, PTL DEF ServerSpec, ImplementsChatService, CS!Spec
=============================================================================
