------------------------------ MODULE Database ------------------------------
(***************************************************************************)
(* class Database (src/server/server.cpp): the five PostgreSQL tables the  *)
(* chat server keeps and the methods that read and write them.  Every      *)
(* method is one transaction on the server's only connection, run by the   *)
(* server's only thread, so a method is one atomic step.                   *)
(*                                                                         *)
(* A method that writes is an action  method(arguments, ans)  with ans the *)
(* string it returns.  A method that reads is an operator that gives the   *)
(* answer the tables hold; Query(value, ans) is the step that returns it.  *)
(***************************************************************************)
EXTENDS Answers, Naturals, Sequences

CONSTANTS
    UserName, ChatName, Text, Token,
    TooLong,    \* the names of more than the 50 characters of VARCHAR(50)
    Fault,      \* the faults of the PostgreSQL connection that may happen
    MaxId,      \* the last id of the two BIGSERIAL sequences, 2^63 - 1
    MaxRows     \* bound: rows of each of links, messages and tokens

(***************************************************************************)
(* "error"    a statement fails for a reason that is not in the data       *)
(* "lost"     the connection breaks and the transaction is rolled back     *)
(* "in doubt" the connection breaks after the backend has committed, so    *)
(*            that W.commit() throws although the row is stored            *)
(***************************************************************************)
FaultKind == {"error", "lost", "in doubt"}

ASSUME FaultAssumption == Fault \subseteq FaultKind
ASSUME BoundAssumption == MaxId \in Nat \ {0} /\ MaxRows \in Nat

VARIABLES
    users,      \* Users: user_id -> user_name
    chats,      \* Chats: chat_id -> chat_name
    links,      \* UserID_ChatID, in the order the rows were inserted
    messages,   \* Messages, in the order the rows were inserted
    tokens,     \* UserID_TrelloToken, in the order the rows were inserted
    user_seq,   \* the BIGSERIAL sequence of Users: the last id handed out
    chat_seq,   \* the BIGSERIAL sequence of Chats
    backend     \* the connection C to PostgreSQL

tables == <<users, chats, links, messages, tokens>>
dbVars == <<users, chats, links, messages, tokens, user_seq, chat_seq, backend>>

Link == [user_id : Nat, chat_id : Nat]
Message == [chat_id : Nat, sender_id : Nat, message_text : Text]
TrelloToken == [user_id : Nat, trello_token : Token]

(* Ids are ids the sequences have given out, and rows have the columns of  *)
(* the tables (server.cpp:38-79).                                          *)
TypeOK ==
    /\ user_seq \in 0 .. MaxId /\ chat_seq \in 0 .. MaxId
    /\ DOMAIN users \subseteq 1 .. user_seq /\ users \in [DOMAIN users -> UserName]
    /\ DOMAIN chats \subseteq 1 .. chat_seq /\ chats \in [DOMAIN chats -> ChatName]
    /\ links \in Seq(Link) /\ messages \in Seq(Message) /\ tokens \in Seq(TrelloToken)
    /\ backend \in {"up", "lost"}

(* The constructor on a database that has no tables yet. *)
Init ==
    /\ users = <<>> /\ chats = <<>>
    /\ links = <<>> /\ messages = <<>> /\ tokens = <<>>
    /\ user_seq = 0 /\ chat_seq = 0
    /\ backend = "up"

-----------------------------------------------------------------------------
(* How the try block of a writing method can end, and what it then returns *)
(* (each definition named "Bad..." is a fault the one after it might have  *)
(* had, kept to see that the properties tell the two apart).               *)
BadCommitted(ans) == backend = "up" /\ ans \in {Success, Fail} /\ UNCHANGED backend
Committed(ans) ==
    /\ backend = "up"
    /\ \/ ans = Success /\ UNCHANGED backend
       \/ "in doubt" \in Fault /\ ans = Fail /\ backend' = "lost"

BadRefused(ans) == backend = "up" /\ ans = Success /\ UNCHANGED backend
Refused(ans) == backend = "up" /\ ans = Fail /\ UNCHANGED backend

Faulted(ans) ==
    /\ backend = "up" /\ ans = Fail
    /\ \/ "error" \in Fault /\ UNCHANGED backend
       \/ "lost" \in Fault /\ backend' = "lost"

(* pqxx::work on a broken connection throws; nothing ever reconnects it. *)
Unreachable(ans) == backend = "lost" /\ ans = Fail /\ UNCHANGED dbVars

(* A row of Users or Chats is given nextval(seq), which no rollback takes  *)
(* back: a statement that fails after it leaves the id unused for ever.    *)
(* A sequence at its last value refuses the statement.                     *)
HasId(seq) == seq < MaxId
BadSpent(seq) == seq + 1
Spent(seq) == IF HasId(seq) THEN seq + 1 ELSE seq
BadWithRow(table, id, name) ==
    LET free == CHOOSE i \in 1 .. id : i \notin DOMAIN table
    IN  [i \in DOMAIN table \cup {free} |-> IF i = free THEN name ELSE table[i]]
WithRow(table, id, name) ==
    [i \in DOMAIN table \cup {id} |-> IF i = id THEN name ELSE table[i]]
Taken(table, name) == \E i \in DOMAIN table : table[i] = name
(* A constant string too long for its column is refused before nextval. *)
SpentOn(seq, name) == IF name \in TooLong THEN seq ELSE Spent(seq)

-----------------------------------------------------------------------------
add_user(user_name, ans) ==
    LET valid == user_name \notin TooLong /\ ~ Taken(users, user_name) /\ HasId(user_seq)
    IN  /\ \/ /\ valid /\ Committed(ans)
              /\ user_seq' = user_seq + 1
              /\ users' = WithRow(users, user_seq + 1, user_name)
           \/ /\ ~ valid /\ Refused(ans)
              /\ user_seq' = SpentOn(user_seq, user_name)
              /\ UNCHANGED users
           \/ /\ Faulted(ans)
              /\ user_seq' \in {user_seq, SpentOn(user_seq, user_name)}
              /\ UNCHANGED users
           \/ Unreachable(ans)
        /\ UNCHANGED <<chats, links, messages, tokens, chat_seq>>

add_chat(chat_name, ans) ==
    LET valid == chat_name \notin TooLong /\ ~ Taken(chats, chat_name) /\ HasId(chat_seq)
    IN  /\ \/ /\ valid /\ Committed(ans)
              /\ chat_seq' = chat_seq + 1
              /\ chats' = WithRow(chats, chat_seq + 1, chat_name)
           \/ /\ ~ valid /\ Refused(ans)
              /\ chat_seq' = SpentOn(chat_seq, chat_name)
              /\ UNCHANGED chats
           \/ /\ Faulted(ans)
              /\ chat_seq' \in {chat_seq, SpentOn(chat_seq, chat_name)}
              /\ UNCHANGED chats
           \/ Unreachable(ans)
        /\ UNCHANGED <<users, links, messages, tokens, user_seq>>

(* FOREIGN KEY: the ids a row names must be ids of the referenced tables. *)
BadResolves(user_id, chat_id) == chat_id \in DOMAIN chats
Resolves(user_id, chat_id) == user_id \in DOMAIN users /\ chat_id \in DOMAIN chats

add_message(chat_id, sender_id, message_text, ans) ==
    /\ \/ /\ Resolves(sender_id, chat_id) /\ Len(messages) < MaxRows /\ Committed(ans)
          /\ messages' = Append(messages, [chat_id |-> chat_id, sender_id |-> sender_id,
                                           message_text |-> message_text])
       \/ ~ Resolves(sender_id, chat_id) /\ Refused(ans) /\ UNCHANGED messages
       \/ Faulted(ans) /\ UNCHANGED messages
       \/ Unreachable(ans)
    /\ UNCHANGED <<users, chats, links, tokens, user_seq, chat_seq>>

(* check_link: the SELECT whose rows decide whether the row is inserted. *)
BadLinked(user_id, chat_id) == FALSE
Linked(user_id, chat_id) ==
    \E k \in DOMAIN links : links[k] = [user_id |-> user_id, chat_id |-> chat_id]

link_user_to_chat(user_id, chat_id, ans) ==
    /\ \/ /\ Linked(user_id, chat_id) /\ Committed(ans)
          /\ UNCHANGED links
       \/ /\ ~ Linked(user_id, chat_id) /\ Resolves(user_id, chat_id)
          /\ Len(links) < MaxRows /\ Committed(ans)
          /\ links' = Append(links, [user_id |-> user_id, chat_id |-> chat_id])
       \/ /\ ~ Linked(user_id, chat_id) /\ ~ Resolves(user_id, chat_id)
          /\ Refused(ans) /\ UNCHANGED links
       \/ Faulted(ans) /\ UNCHANGED links
       \/ Unreachable(ans)
    /\ UNCHANGED <<users, chats, messages, tokens, user_seq, chat_seq>>

(* trello_token is UNIQUE over the table; a user may have several rows. *)
Acceptable(user_id, trello_token) ==
    /\ user_id \in DOMAIN users
    /\ \A k \in DOMAIN tokens : tokens[k].trello_token # trello_token

set_trello_token(user_id, trello_token, ans) ==
    /\ \/ /\ Acceptable(user_id, trello_token) /\ Len(tokens) < MaxRows /\ Committed(ans)
          /\ tokens' = Append(tokens, [user_id |-> user_id, trello_token |-> trello_token])
       \/ ~ Acceptable(user_id, trello_token) /\ Refused(ans) /\ UNCHANGED tokens
       \/ Faulted(ans) /\ UNCHANGED tokens
       \/ Unreachable(ans)
    /\ UNCHANGED <<users, chats, links, messages, user_seq, chat_seq>>

-----------------------------------------------------------------------------
(* The methods that read.  A SELECT without ORDER BY scans the heap: rows  *)
(* that are never updated or deleted come in the order of insertion.       *)
find_user(user_name) ==
    IF Taken(users, user_name)
    THEN [user_id |-> CHOOSE i \in DOMAIN users : users[i] = user_name,
          user_name |-> user_name]
    ELSE NotFound

get_user_name(user_id) ==
    IF user_id \in DOMAIN users
    THEN [user_id |-> user_id, user_name |-> users[user_id]]
    ELSE NotFound

get_chat_id(chat_name) ==
    IF Taken(chats, chat_name)
    THEN [chat_id |-> CHOOSE i \in DOMAIN chats : chats[i] = chat_name,
          chat_name |-> chat_name]
    ELSE Null

get_chat_name(chat_id) ==
    IF chat_id \in DOMAIN chats
    THEN [chat_id |-> chat_id, chat_name |-> chats[chat_id]]
    ELSE Null

(* The loops over the rows of a SELECT with a WHERE.                       *)
Kept(rows, keep) ==
    LET kept[n \in 0 .. Len(rows)] ==
            IF n = 0 THEN <<>>
            ELSE IF keep[n] THEN Append(kept[n - 1], rows[n]) ELSE kept[n - 1]
    IN  kept[Len(rows)]

(* What the methods below list, as functions of the rows of a table. *)
HistoryIn(rows, id) == Kept(rows, [k \in DOMAIN rows |-> rows[k].chat_id = id])
BadChatsIn(rows, id) ==    \* the first match only, like the loops of the other methods
    LET its == Kept(rows, [k \in DOMAIN rows |-> rows[k].user_id = id])
    IN  IF its = <<>> THEN <<>> ELSE <<its[1].chat_id>>
ChatsIn(rows, id) ==
    LET its == Kept(rows, [k \in DOMAIN rows |-> rows[k].user_id = id])
    IN  [k \in DOMAIN its |-> its[k].chat_id]
MembersIn(rows, id) ==
    LET its == Kept(rows, [k \in DOMAIN rows |-> rows[k].chat_id = id])
    IN  [k \in DOMAIN its |-> its[k].user_id]
(* A loop that returns at its first row: the oldest token of the user. *)
TokenIn(rows, id) ==
    LET its == {k \in DOMAIN rows : rows[k].user_id = id}
        oldest == CHOOSE k \in its : \A j \in its : k <= j
    IN  IF its = {} THEN Null ELSE [trello_token |-> rows[oldest].trello_token]

get_chat_history(chat_id) == Rows(HistoryIn(messages, chat_id))
get_chat_list(user_id) == Rows(ChatsIn(links, user_id))
get_chat_members(chat_id) == Rows(MembersIn(links, chat_id))
get_trello_token(user_id) == TokenIn(tokens, user_id)

Query(value, ans) ==
    \/ backend = "up" /\ ans = value /\ UNCHANGED dbVars
    \/ Faulted(ans) /\ UNCHANGED <<tables, user_seq, chat_seq>>
    \/ Unreachable(ans)

-----------------------------------------------------------------------------
(* Ids as requests carry them; 0 is what "ss >> id" leaves of a non-number. *)
Id == 0 .. MaxId

AddUser == \E n \in UserName, ans \in {Success, Fail} : add_user(n, ans)
AddChat == \E n \in ChatName, ans \in {Success, Fail} : add_chat(n, ans)
AddMessage == \E c, u \in Id, t \in Text, ans \in {Success, Fail} : add_message(c, u, t, ans)
LinkUserToChat == \E u, c \in Id, ans \in {Success, Fail} : link_user_to_chat(u, c, ans)
SetTrelloToken == \E u \in Id, t \in Token, ans \in {Success, Fail} : set_trello_token(u, t, ans)
(* Whatever a query reads, it changes nothing but perhaps the connection. *)
Read == \E ans \in {Null, Fail} : Query(Null, ans)

Next == AddUser \/ AddChat \/ AddMessage \/ LinkUserToChat \/ SetTrelloToken \/ Read

Spec == Init /\ [][Next]_dbVars

-----------------------------------------------------------------------------
(* What the clients rely on. *)

(* No two users share a name and no two chats do (UNIQUE, lines 40 and 48). *)
Injective(table) == \A i, j \in DOMAIN table : table[i] = table[j] => i = j
NamesAreUnique == Injective(users) /\ Injective(chats)

(* Every id a stored row names is the id of a stored user or chat, so that *)
(* get_chat_name and get_user_name never miss for a row of a chat list or  *)
(* of a history (the FOREIGN KEYs of lines 56-58, 66-69 and 78).           *)
ReferencesResolve ==
    /\ \A k \in DOMAIN links : Resolves(links[k].user_id, links[k].chat_id)
    /\ \A k \in DOMAIN messages : Resolves(messages[k].sender_id, messages[k].chat_id)
    /\ \A k \in DOMAIN tokens : tokens[k].user_id \in DOMAIN users

(* link_user_to_chat never stores a membership twice (lines 140-165), even *)
(* though the table has no constraint that forbids it and requests are     *)
(* repeated: a chat would be listed twice, and two members counted three.  *)
LinksDistinct == \A j, k \in DOMAIN links : links[j] = links[k] => j = k

(* The same Trello token is never stored for two users (line 77). *)
TokensDistinct ==
    \A j, k \in DOMAIN tokens : tokens[j].trello_token = tokens[k].trello_token => j = k

(* The four together: what the tables keep of the requests' sense.         *)
Integrity == NamesAreUnique /\ ReferencesResolve /\ LinksDistinct /\ TokensDistinct

(* Nothing stored is ever changed, removed or reordered, and an id is      *)
(* given out once: what a client remembers of an answer (its user_id, the  *)
(* chat id of a list item, the length of a history) stays true.            *)
Extends(new, old) ==
    Len(new) >= Len(old) /\ \A k \in DOMAIN old : new[k] = old[k]
Keeps(new, old, seq) ==
    /\ \A i \in DOMAIN old : i \in DOMAIN new /\ new[i] = old[i]
    /\ \A i \in DOMAIN new \ DOMAIN old : i > seq
OnlyGrows ==
    /\ Keeps(users', users, user_seq) /\ Keeps(chats', chats, chat_seq)
    /\ Extends(links', links) /\ Extends(messages', messages) /\ Extends(tokens', tokens)
    /\ user_seq' >= user_seq /\ chat_seq' >= chat_seq
AppendOnly == [][OnlyGrows]_dbVars
=============================================================================
