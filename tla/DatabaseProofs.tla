--------------------------- MODULE DatabaseProofs ---------------------------
(***************************************************************************)
(* Theorems about the tables of the chat server, for every set of names,   *)
(* texts and tokens, every choice of faults and every bound: the tables    *)
(* are well typed, Integrity is invariant and the tables only grow.        *)
(*                                                                         *)
(* Every step of Next stores one row in one table or none at all           *)
(* (StepShape); the invariants are then proved shape by shape.  The second *)
(* half is about the loops of the reading methods: what they list of the   *)
(* rows, and that a list only grows at its end when the table does.        *)
(***************************************************************************)
EXTENDS Database, SequenceTheorems, WellFoundedInduction, TLAPS

(* The six things a step can do to the tables. *)
NoRow ==
    /\ UNCHANGED tables
    /\ user_seq' \in user_seq .. MaxId /\ chat_seq' \in chat_seq .. MaxId
NewUser == \E n \in UserName :
    /\ ~ Taken(users, n) /\ HasId(user_seq)
    /\ user_seq' = user_seq + 1 /\ users' = WithRow(users, user_seq + 1, n)
    /\ UNCHANGED <<chats, links, messages, tokens, chat_seq>>
NewChat == \E n \in ChatName :
    /\ ~ Taken(chats, n) /\ HasId(chat_seq)
    /\ chat_seq' = chat_seq + 1 /\ chats' = WithRow(chats, chat_seq + 1, n)
    /\ UNCHANGED <<users, links, messages, tokens, user_seq>>
NewLink == \E r \in Link :
    /\ Resolves(r.user_id, r.chat_id) /\ \A k \in DOMAIN links : links[k] # r
    /\ links' = Append(links, r)
    /\ UNCHANGED <<users, chats, messages, tokens, user_seq, chat_seq>>
NewMessage == \E r \in Message :
    /\ Resolves(r.sender_id, r.chat_id)
    /\ messages' = Append(messages, r)
    /\ UNCHANGED <<users, chats, links, tokens, user_seq, chat_seq>>
NewToken == \E r \in TrelloToken :
    /\ r.user_id \in DOMAIN users
    /\ \A k \in DOMAIN tokens : tokens[k].trello_token # r.trello_token
    /\ tokens' = Append(tokens, r)
    /\ UNCHANGED <<users, chats, links, messages, user_seq, chat_seq>>

Shape == NoRow \/ NewUser \/ NewChat \/ NewLink \/ NewMessage \/ NewToken

-----------------------------------------------------------------------------
(* Appending keeps the rows there are and puts the new one last.           *)
LEMMA AppendedRow ==
    ASSUME NEW S, NEW s \in Seq(S), NEW e \in S
    PROVE  /\ Append(s, e) \in Seq(S)
           /\ DOMAIN s = 1 .. Len(s) /\ Len(s) \in Nat
           /\ DOMAIN Append(s, e) = 1 .. Len(s) + 1
           /\ Len(Append(s, e)) = Len(s) + 1
           /\ \A k \in DOMAIN s : Append(s, e)[k] = s[k]
           /\ Append(s, e)[Len(s) + 1] = e
           /\ \A k \in DOMAIN Append(s, e) : k \in DOMAIN s \/ k = Len(s) + 1
<1>1. /\ Append(s, e) \in Seq(S) /\ Len(Append(s, e)) = Len(s) + 1
      /\ \A k \in 1 .. Len(s) : Append(s, e)[k] = s[k]
      /\ Append(s, e)[Len(s) + 1] = e
    BY AppendProperties
<1>2. /\ DOMAIN s = 1 .. Len(s) /\ Len(s) \in Nat
      /\ DOMAIN Append(s, e) = 1 .. Len(s) + 1
    BY <1>1
<1> QED BY <1>1, <1>2

(* However a writing method ends, the connection is up or lost; an         *)
(* unreachable backend changes nothing else.                               *)
LEMMA EndOfWrite ==
    ASSUME TypeOK, NEW ans
    PROVE  /\ Committed(ans) => backend' \in {"up", "lost"}
           /\ Refused(ans) => backend' \in {"up", "lost"}
           /\ Faulted(ans) => backend' \in {"up", "lost"}
           /\ Unreachable(ans) =>
                /\ backend' \in {"up", "lost"} /\ UNCHANGED tables
                /\ user_seq' = user_seq /\ chat_seq' = chat_seq
BY DEF TypeOK, Committed, Refused, Faulted, Unreachable, tables, dbVars

(* A BIGSERIAL sequence never moves back nor past its last value, whether  *)
(* its number is used (nextval of add_user and add_chat) or burned by a    *)
(* refused statement.                                                      *)
LEMMA SequenceMoves ==
    ASSUME NEW seq \in 0 .. MaxId, NEW name
    PROVE  /\ Spent(seq) \in seq .. MaxId
           /\ SpentOn(seq, name) \in seq .. MaxId
           /\ seq \in seq .. MaxId
BY BoundAssumption DEF Spent, SpentOn, HasId

(* Every transaction stores nothing or one row of one table.               *)
LEMMA StepShape ==
    ASSUME TypeOK, [Next]_dbVars
    PROVE  Shape /\ backend' \in {"up", "lost"}
<1>0. /\ user_seq \in user_seq .. MaxId /\ chat_seq \in chat_seq .. MaxId
      /\ backend \in {"up", "lost"}
    BY SequenceMoves DEF TypeOK
<1>1. CASE UNCHANGED dbVars
    BY <1>0, <1>1 DEF Shape, NoRow, tables, dbVars
<1>2. CASE AddUser
    <2> PICK n \in UserName, ans \in {Success, Fail} : add_user(n, ans)
        BY <1>2 DEF AddUser
    <2> DEFINE valid == n \notin TooLong /\ ~ Taken(users, n) /\ HasId(user_seq)
    <2>0. /\ UNCHANGED <<chats, links, messages, tokens, chat_seq>>
          /\ chat_seq' \in chat_seq .. MaxId
        BY <1>0 DEF add_user
    <2>1. CASE /\ valid /\ Committed(ans)
               /\ user_seq' = user_seq + 1
               /\ users' = WithRow(users, user_seq + 1, n)
        BY <2>0, <2>1, EndOfWrite DEF Shape, NewUser
    <2>2. CASE ~ valid /\ Refused(ans) /\ user_seq' = SpentOn(user_seq, n) /\ UNCHANGED users
        BY <2>0, <2>2, EndOfWrite, SequenceMoves DEF Shape, NoRow, tables, TypeOK
    <2>3. CASE /\ Faulted(ans) /\ UNCHANGED users
               /\ user_seq' \in {user_seq, SpentOn(user_seq, n)}
        BY <2>0, <2>3, EndOfWrite, SequenceMoves DEF Shape, NoRow, tables, TypeOK
    <2>4. CASE Unreachable(ans)
        BY <1>0, <2>4, EndOfWrite DEF Shape, NoRow
    <2> QED BY <2>1, <2>2, <2>3, <2>4 DEF add_user
<1>3. CASE AddChat
    <2> PICK n \in ChatName, ans \in {Success, Fail} : add_chat(n, ans)
        BY <1>3 DEF AddChat
    <2> DEFINE valid == n \notin TooLong /\ ~ Taken(chats, n) /\ HasId(chat_seq)
    <2>0. /\ UNCHANGED <<users, links, messages, tokens, user_seq>>
          /\ user_seq' \in user_seq .. MaxId
        BY <1>0 DEF add_chat
    <2>1. CASE /\ valid /\ Committed(ans)
               /\ chat_seq' = chat_seq + 1
               /\ chats' = WithRow(chats, chat_seq + 1, n)
        BY <2>0, <2>1, EndOfWrite DEF Shape, NewChat
    <2>2. CASE ~ valid /\ Refused(ans) /\ chat_seq' = SpentOn(chat_seq, n) /\ UNCHANGED chats
        BY <2>0, <2>2, EndOfWrite, SequenceMoves DEF Shape, NoRow, tables, TypeOK
    <2>3. CASE /\ Faulted(ans) /\ UNCHANGED chats
               /\ chat_seq' \in {chat_seq, SpentOn(chat_seq, n)}
        BY <2>0, <2>3, EndOfWrite, SequenceMoves DEF Shape, NoRow, tables, TypeOK
    <2>4. CASE Unreachable(ans)
        BY <1>0, <2>4, EndOfWrite DEF Shape, NoRow
    <2> QED BY <2>1, <2>2, <2>3, <2>4 DEF add_chat
<1>4. CASE AddMessage
    <2> PICK c \in Id, u \in Id, t \in Text, ans \in {Success, Fail} : add_message(c, u, t, ans)
        BY <1>4 DEF AddMessage
    <2> DEFINE row == [chat_id |-> c, sender_id |-> u, message_text |-> t]
    <2>0. /\ UNCHANGED <<users, chats, links, tokens, user_seq, chat_seq>>
          /\ row \in Message
          /\ user_seq' \in user_seq .. MaxId /\ chat_seq' \in chat_seq .. MaxId
        BY <1>0, BoundAssumption DEF add_message, Message, Id
    <2>1. CASE Resolves(u, c) /\ Committed(ans) /\ messages' = Append(messages, row)
        BY <2>0, <2>1, EndOfWrite DEF Shape, NewMessage
    <2>2. CASE (Refused(ans) \/ Faulted(ans)) /\ UNCHANGED messages
        BY <2>0, <2>2, EndOfWrite DEF Shape, NoRow, tables
    <2>3. CASE Unreachable(ans)
        BY <1>0, <2>3, EndOfWrite DEF Shape, NoRow
    <2> QED BY <2>1, <2>2, <2>3 DEF add_message
<1>5. CASE LinkUserToChat
    <2> PICK u \in Id, c \in Id, ans \in {Success, Fail} : link_user_to_chat(u, c, ans)
        BY <1>5 DEF LinkUserToChat
    <2> DEFINE row == [user_id |-> u, chat_id |-> c]
    <2>0. /\ UNCHANGED <<users, chats, messages, tokens, user_seq, chat_seq>>
          /\ row \in Link
          /\ user_seq' \in user_seq .. MaxId /\ chat_seq' \in chat_seq .. MaxId
        BY <1>0, BoundAssumption DEF link_user_to_chat, Link, Id
    <2>1. CASE /\ ~ Linked(u, c) /\ Resolves(u, c) /\ Committed(ans)
               /\ links' = Append(links, row)
        BY <2>0, <2>1, EndOfWrite DEF Shape, NewLink, Linked
    <2>2. CASE (Committed(ans) \/ Refused(ans) \/ Faulted(ans)) /\ UNCHANGED links
        BY <2>0, <2>2, EndOfWrite DEF Shape, NoRow, tables
    <2>3. CASE Unreachable(ans)
        BY <1>0, <2>3, EndOfWrite DEF Shape, NoRow
    <2> QED BY <2>1, <2>2, <2>3 DEF link_user_to_chat
<1>6. CASE SetTrelloToken
    <2> PICK u \in Id, t \in Token, ans \in {Success, Fail} : set_trello_token(u, t, ans)
        BY <1>6 DEF SetTrelloToken
    <2> DEFINE row == [user_id |-> u, trello_token |-> t]
    <2>0. /\ UNCHANGED <<users, chats, links, messages, user_seq, chat_seq>>
          /\ row \in TrelloToken
          /\ user_seq' \in user_seq .. MaxId /\ chat_seq' \in chat_seq .. MaxId
        BY <1>0, BoundAssumption DEF set_trello_token, TrelloToken, Id
    <2>1. CASE Acceptable(u, t) /\ Committed(ans) /\ tokens' = Append(tokens, row)
        BY <2>0, <2>1, EndOfWrite DEF Shape, NewToken, Acceptable
    <2>2. CASE (Refused(ans) \/ Faulted(ans)) /\ UNCHANGED tokens
        BY <2>0, <2>2, EndOfWrite DEF Shape, NoRow, tables
    <2>3. CASE Unreachable(ans)
        BY <1>0, <2>3, EndOfWrite DEF Shape, NoRow
    <2> QED BY <2>1, <2>2, <2>3 DEF set_trello_token
<1>7. CASE Read
    <2> PICK ans \in {Null, Fail} : Query(Null, ans)
        BY <1>7 DEF Read
    <2>1. CASE UNCHANGED dbVars
        BY <1>1, <2>1
    <2>2. CASE Faulted(ans) /\ UNCHANGED <<tables, user_seq, chat_seq>>
        BY <1>0, <2>2, EndOfWrite DEF Shape, NoRow
    <2>3. CASE Unreachable(ans)
        BY <1>0, <2>3, EndOfWrite DEF Shape, NoRow
    <2> QED BY <2>1, <2>2, <2>3 DEF Query
<1> QED BY <1>1, <1>2, <1>3, <1>4, <1>5, <1>6, <1>7 DEF Next

(* The empty tables of a first start satisfy everything.                   *)
LEMMA InitialTables == Init => TypeOK /\ Integrity
BY BoundAssumption
   DEF Init, TypeOK, Integrity, NamesAreUnique, Injective, ReferencesResolve,
       LinksDistinct, TokensDistinct

(* A row with a fresh id and a fresh name. *)
LEMMA InsertedRow ==
    ASSUME NEW seq \in 0 .. MaxId, HasId(seq), NEW Name, NEW n \in Name,
           NEW table, table \in [DOMAIN table -> Name], DOMAIN table \subseteq 1 .. seq,
           ~ Taken(table, n)
    PROVE  LET new == WithRow(table, seq + 1, n) IN
           /\ seq + 1 \in 1 .. MaxId /\ seq + 1 >= seq
           /\ DOMAIN new = DOMAIN table \cup {seq + 1}
           /\ DOMAIN new \subseteq 1 .. seq + 1
           /\ new \in [DOMAIN new -> Name]
           /\ Keeps(new, table, seq)
           /\ Injective(table) => Injective(new)
<1> DEFINE new == WithRow(table, seq + 1, n)
<1>1. /\ seq + 1 \in 1 .. MaxId /\ seq + 1 >= seq
      /\ DOMAIN new = DOMAIN table \cup {seq + 1}
      /\ seq + 1 \notin DOMAIN table
      /\ \A i \in DOMAIN table : i \in Nat /\ i <= seq
    BY BoundAssumption DEF HasId, WithRow
<1>2. \A i \in DOMAIN new : new[i] = IF i = seq + 1 THEN n ELSE table[i]
    BY DEF WithRow
<1>3. DOMAIN new \subseteq 1 .. seq + 1
    BY <1>1
<1>4. new \in [DOMAIN new -> Name]
    BY <1>1 DEF WithRow
<1>5. Keeps(new, table, seq)
    BY <1>1, <1>2 DEF Keeps
<1>6. Injective(table) => Injective(new)
    BY <1>1, <1>2 DEF Injective, Taken
<1> QED BY <1>1, <1>3, <1>4, <1>5, <1>6

(* add_user gives a new user an id of its own and a name of its own        *)
(* (UNIQUE, server.cpp:40).                                                *)
LEMMA NewUserRow ==
    ASSUME TypeOK, NewUser
    PROVE  /\ user_seq' \in 0 .. MaxId /\ user_seq' >= user_seq
           /\ DOMAIN users \subseteq DOMAIN users'
           /\ DOMAIN users' \subseteq 1 .. user_seq'
           /\ users' \in [DOMAIN users' -> UserName]
           /\ Keeps(users', users, user_seq)
           /\ Injective(users) => Injective(users')
<1> PICK n \in UserName :
        /\ ~ Taken(users, n) /\ HasId(user_seq)
        /\ user_seq' = user_seq + 1 /\ users' = WithRow(users, user_seq + 1, n)
    BY DEF NewUser
<1> DEFINE new == WithRow(users, user_seq + 1, n)
<1>1. /\ user_seq + 1 \in 1 .. MaxId /\ user_seq + 1 >= user_seq
      /\ DOMAIN new = DOMAIN users \cup {user_seq + 1}
      /\ DOMAIN new \subseteq 1 .. user_seq + 1
      /\ new \in [DOMAIN new -> UserName]
      /\ Keeps(new, users, user_seq)
      /\ Injective(users) => Injective(new)
    BY InsertedRow DEF TypeOK
<1>2. users' = new /\ user_seq' = user_seq + 1
    OBVIOUS
<1> HIDE DEF new
<1> QED BY <1>1, <1>2

(* add_chat does the same for a chat (server.cpp:48).                      *)
LEMMA NewChatRow ==
    ASSUME TypeOK, NewChat
    PROVE  /\ chat_seq' \in 0 .. MaxId /\ chat_seq' >= chat_seq
           /\ DOMAIN chats \subseteq DOMAIN chats'
           /\ DOMAIN chats' \subseteq 1 .. chat_seq'
           /\ chats' \in [DOMAIN chats' -> ChatName]
           /\ Keeps(chats', chats, chat_seq)
           /\ Injective(chats) => Injective(chats')
<1> PICK n \in ChatName :
        /\ ~ Taken(chats, n) /\ HasId(chat_seq)
        /\ chat_seq' = chat_seq + 1 /\ chats' = WithRow(chats, chat_seq + 1, n)
    BY DEF NewChat
<1> DEFINE new == WithRow(chats, chat_seq + 1, n)
<1>1. /\ chat_seq + 1 \in 1 .. MaxId /\ chat_seq + 1 >= chat_seq
      /\ DOMAIN new = DOMAIN chats \cup {chat_seq + 1}
      /\ DOMAIN new \subseteq 1 .. chat_seq + 1
      /\ new \in [DOMAIN new -> ChatName]
      /\ Keeps(new, chats, chat_seq)
      /\ Injective(chats) => Injective(new)
    BY InsertedRow DEF TypeOK
<1>2. chats' = new /\ chat_seq' = chat_seq + 1
    OBVIOUS
<1> HIDE DEF new
<1> QED BY <1>1, <1>2

(* The state after a step is well typed. *)
LEMMA TypeStep == TypeOK /\ [Next]_dbVars => TypeOK'
<1> SUFFICES ASSUME TypeOK, [Next]_dbVars PROVE TypeOK'
    OBVIOUS
<1>0. Shape /\ backend' \in {"up", "lost"}
    BY StepShape
<1>1. CASE NoRow
    BY <1>0, <1>1 DEF NoRow, TypeOK, tables
<1>2. CASE NewUser
    BY <1>0, <1>2, NewUserRow DEF NewUser, TypeOK
<1>3. CASE NewChat
    BY <1>0, <1>3, NewChatRow DEF NewChat, TypeOK
<1>4. CASE NewLink
    BY <1>0, <1>4, AppendedRow DEF NewLink, TypeOK
<1>5. CASE NewMessage
    BY <1>0, <1>5, AppendedRow DEF NewMessage, TypeOK
<1>6. CASE NewToken
    BY <1>0, <1>6, AppendedRow DEF NewToken, TypeOK
<1> QED BY <1>0, <1>1, <1>2, <1>3, <1>4, <1>5, <1>6 DEF Shape

(* The state after a step keeps what was stored before it. *)
LEMMA GrowthStep == TypeOK /\ [Next]_dbVars => OnlyGrows
<1> SUFFICES ASSUME TypeOK, [Next]_dbVars PROVE OnlyGrows
    OBVIOUS
<1>0. Shape
    BY StepShape
<1>a. \A s : Keeps(users, users, s) /\ Keeps(chats, chats, s)
    BY DEF Keeps
<1>b. Extends(links, links) /\ Extends(messages, messages) /\ Extends(tokens, tokens)
    BY DEF Extends, TypeOK
<1>c. user_seq \in Nat /\ chat_seq \in Nat
    BY DEF TypeOK
<1>1. CASE NoRow
    BY <1>a, <1>b, <1>c, <1>1 DEF NoRow, OnlyGrows, tables
<1>2. CASE NewUser
    <2>1. Keeps(users', users, user_seq) /\ user_seq' >= user_seq
        BY <1>2, NewUserRow
    <2> QED BY <2>1, <1>a, <1>b, <1>c, <1>2 DEF NewUser, OnlyGrows
<1>3. CASE NewChat
    <2>1. Keeps(chats', chats, chat_seq) /\ chat_seq' >= chat_seq
        BY <1>3, NewChatRow
    <2> QED BY <2>1, <1>a, <1>b, <1>c, <1>3 DEF NewChat, OnlyGrows
<1>4. CASE NewLink
    <2>1. Extends(links', links)
        BY <1>4, AppendedRow DEF NewLink, TypeOK, Extends
    <2> QED BY <2>1, <1>a, <1>b, <1>c, <1>4 DEF NewLink, OnlyGrows
<1>5. CASE NewMessage
    <2>1. Extends(messages', messages)
        BY <1>5, AppendedRow DEF NewMessage, TypeOK, Extends
    <2> QED BY <2>1, <1>a, <1>b, <1>c, <1>5 DEF NewMessage, OnlyGrows
<1>6. CASE NewToken
    <2>1. Extends(tokens', tokens)
        BY <1>6, AppendedRow DEF NewToken, TypeOK, Extends
    <2> QED BY <2>1, <1>a, <1>b, <1>c, <1>6 DEF NewToken, OnlyGrows
<1> QED BY <1>0, <1>1, <1>2, <1>3, <1>4, <1>5, <1>6 DEF Shape

(* Appending a row none of the rows is equal to, in the whole or in the    *)
(* field that must not repeat, keeps the rows distinct.                    *)
LEMMA DistinctLinks ==
    ASSUME TypeOK, NewLink, LinksDistinct PROVE LinksDistinct'
<1> PICK r \in Link : /\ \A k \in DOMAIN links : links[k] # r
                      /\ links' = Append(links, r)
    BY DEF NewLink
<1>1. /\ \A k \in DOMAIN links' : k \in DOMAIN links \/ k = Len(links) + 1
      /\ \A k \in DOMAIN links : links'[k] = links[k]
      /\ links'[Len(links) + 1] = r
    BY AppendedRow DEF TypeOK
<1> QED BY <1>1 DEF LinksDistinct

(* set_trello_token stores no token a second time (UNIQUE, server.cpp:77). *)
LEMMA DistinctTokens ==
    ASSUME TypeOK, NewToken, TokensDistinct PROVE TokensDistinct'
<1> PICK r \in TrelloToken :
        /\ \A k \in DOMAIN tokens : tokens[k].trello_token # r.trello_token
        /\ tokens' = Append(tokens, r)
    BY DEF NewToken
<1>1. /\ \A k \in DOMAIN tokens' : k \in DOMAIN tokens \/ k = Len(tokens) + 1
      /\ \A k \in DOMAIN tokens : tokens'[k] = tokens[k]
      /\ tokens'[Len(tokens) + 1] = r
    BY AppendedRow DEF TypeOK
<1> QED BY <1>1 DEF TokensDistinct

(* No transaction gives two users, or two chats, one name.                 *)
LEMMA NamesStep ==
    ASSUME TypeOK, [Next]_dbVars, NamesAreUnique PROVE NamesAreUnique'
<1>0. Shape
    BY StepShape
<1>1. CASE NewUser
    BY <1>1, NewUserRow DEF NamesAreUnique, NewUser
<1>2. CASE NewChat
    BY <1>2, NewChatRow DEF NamesAreUnique, NewChat
<1>3. CASE UNCHANGED <<users, chats>>
    BY <1>3 DEF NamesAreUnique, Injective
<1> QED BY <1>0, <1>1, <1>2, <1>3
        DEF Shape, NoRow, NewLink, NewMessage, NewToken, tables

(* No transaction stores a row that names a missing user or chat, and none *)
(* removes what a stored row names (the FOREIGN KEYs).                     *)
LEMMA ReferencesStep ==
    ASSUME TypeOK, [Next]_dbVars, ReferencesResolve PROVE ReferencesResolve'
<1>0. Shape
    BY StepShape
<1>1. CASE UNCHANGED <<users, chats>> /\ NewLink
    <2> PICK r \in Link : Resolves(r.user_id, r.chat_id) /\ links' = Append(links, r)
        BY <1>1 DEF NewLink
    <2>1. /\ \A k \in DOMAIN links' : k \in DOMAIN links \/ k = Len(links) + 1
          /\ \A k \in DOMAIN links : links'[k] = links[k]
          /\ links'[Len(links) + 1] = r
        BY AppendedRow DEF TypeOK
    <2>2. \A k \in DOMAIN links' : Resolves(links'[k].user_id, links'[k].chat_id)
        BY <2>1 DEF ReferencesResolve
    <2> QED BY <1>1, <2>2 DEF ReferencesResolve, Resolves, NewLink
<1>2. CASE UNCHANGED <<users, chats>> /\ NewMessage
    <2> PICK r \in Message : /\ Resolves(r.sender_id, r.chat_id)
                             /\ messages' = Append(messages, r)
        BY <1>2 DEF NewMessage
    <2>1. /\ \A k \in DOMAIN messages' : k \in DOMAIN messages \/ k = Len(messages) + 1
          /\ \A k \in DOMAIN messages : messages'[k] = messages[k]
          /\ messages'[Len(messages) + 1] = r
        BY AppendedRow DEF TypeOK
    <2>2. \A k \in DOMAIN messages' : Resolves(messages'[k].sender_id, messages'[k].chat_id)
        BY <2>1 DEF ReferencesResolve
    <2> QED BY <1>2, <2>2 DEF ReferencesResolve, Resolves, NewMessage
<1>3. CASE UNCHANGED <<users, chats>> /\ NewToken
    <2> PICK r \in TrelloToken : r.user_id \in DOMAIN users /\ tokens' = Append(tokens, r)
        BY <1>3 DEF NewToken
    <2>1. /\ \A k \in DOMAIN tokens' : k \in DOMAIN tokens \/ k = Len(tokens) + 1
          /\ \A k \in DOMAIN tokens : tokens'[k] = tokens[k]
          /\ tokens'[Len(tokens) + 1] = r
        BY AppendedRow DEF TypeOK
    <2>2. \A k \in DOMAIN tokens' : tokens'[k].user_id \in DOMAIN users
        BY <2>1 DEF ReferencesResolve
    <2> QED BY <1>3, <2>2 DEF ReferencesResolve, Resolves, NewToken
<1>4. CASE UNCHANGED <<links, messages, tokens>>
    <2>1. DOMAIN users \subseteq DOMAIN users' /\ DOMAIN chats \subseteq DOMAIN chats'
        BY GrowthStep DEF OnlyGrows, Keeps
    <2> QED BY <1>4, <2>1 DEF ReferencesResolve, Resolves
<1> QED BY <1>0, <1>1, <1>2, <1>3, <1>4
        DEF Shape, NoRow, NewUser, NewChat, NewLink, NewMessage, NewToken, tables

(* Integrity is inductive, given TypeOK.                                   *)
LEMMA IntegrityStep ==
    ASSUME TypeOK, [Next]_dbVars, Integrity PROVE Integrity'
<1>0. Shape
    BY StepShape
<1>1. NamesAreUnique' /\ ReferencesResolve'
    BY NamesStep, ReferencesStep DEF Integrity
<1>2. LinksDistinct'
    <2>1. CASE NewLink
        BY <2>1, DistinctLinks DEF Integrity
    <2>2. CASE UNCHANGED links
        BY <2>2 DEF Integrity, LinksDistinct
    <2> QED BY <1>0, <2>1, <2>2
            DEF Shape, NoRow, NewUser, NewChat, NewMessage, NewToken, tables
<1>3. TokensDistinct'
    <2>1. CASE NewToken
        BY <2>1, DistinctTokens DEF Integrity
    <2>2. CASE UNCHANGED tokens
        BY <2>2 DEF Integrity, TokensDistinct
    <2> QED BY <1>0, <2>1, <2>2
            DEF Shape, NoRow, NewUser, NewChat, NewMessage, NewLink, tables
<1> QED BY <1>1, <1>2, <1>3 DEF Integrity

(* The strings the methods answer are different.                           *)
LEMMA LiteralsDiffer ==
    Fail # Success /\ Fail # NotFound /\ Success # NotFound /\ Null # Success
<1>1. /\ DOMAIN Success = {"done"} /\ DOMAIN Fail = {"error"}
      /\ DOMAIN Null = {"empty"} /\ DOMAIN NotFound = {"missing"}
    BY DEF Success, Fail, Null, NotFound
<1> QED BY <1>1

(* A row is not the answer that says there is none.                        *)
LEMMA RowIsNotMissing ==
    ASSUME NEW a, NEW b
    PROVE  /\ [user_id |-> a, user_name |-> b] # NotFound
           /\ [chat_id |-> a, chat_name |-> b] # Null
           /\ [trello_token |-> a] # Null
<1>1. /\ "missing" \in DOMAIN NotFound /\ "empty" \in DOMAIN Null
      /\ "missing" \notin DOMAIN [user_id |-> a, user_name |-> b]
      /\ "empty" \notin DOMAIN [chat_id |-> a, chat_name |-> b]
      /\ "empty" \notin DOMAIN [trello_token |-> a]
    BY DEF NotFound, Null
<1> QED BY <1>1

(* Only a commit answers SUCCESS.                                          *)
LEMMA SuccessIsCommit == ~ Refused(Success) /\ ~ Faulted(Success) /\ ~ Unreachable(Success)
BY LiteralsDiffer DEF Refused, Faulted, Unreachable

(* A query is a step of Read whatever value it looks up. *)
LEMMA QueryIsRead ==
    ASSUME NEW value, NEW ans, Query(value, ans) PROVE [Next]_dbVars
<1>1. CASE UNCHANGED dbVars
    BY <1>1
<1>2. CASE Faulted(ans) /\ UNCHANGED <<tables, user_seq, chat_seq>>
    BY <1>2 DEF Next, Read, Query, Faulted
<1> QED BY <1>1, <1>2 DEF Query, Unreachable

-----------------------------------------------------------------------------
(* The state of class Database is well typed: no id is ever stored that    *)
(* the sequences have not handed out.                                      *)
THEOREM TypeCorrect == Spec => []TypeOK
<1>1. Init => TypeOK
    BY InitialTables
<1>2. TypeOK /\ [Next]_dbVars => TypeOK'
    BY TypeStep
<1> QED BY <1>1, <1>2, PTL DEF Spec

(* Names, references, memberships and tokens keep their integrity whatever *)
(* requests arrive, in whatever order, and whichever transactions fail.    *)
THEOREM IntegrityHolds == Spec => []Integrity
<1>1. Init => Integrity
    BY InitialTables
<1>2. TypeOK /\ Integrity /\ [Next]_dbVars => Integrity'
    BY IntegrityStep
<1> QED BY <1>1, <1>2, TypeCorrect, PTL DEF Spec

(* No method of Database changes, removes or reorders a stored row, and no *)
(* id is handed out twice.                                                 *)
THEOREM OnlyAppends == Spec => AppendOnly
<1>1. TypeOK /\ [Next]_dbVars => [OnlyGrows]_dbVars
    BY GrowthStep
<1> QED BY <1>1, TypeCorrect, PTL DEF Spec, AppendOnly

-----------------------------------------------------------------------------
(* Every set of numbers has a least one; so a fact about n that fails has  *)
(* a first failure, which is how the lemmas below go through a loop.       *)
LEMMA Least ==
    ASSUME NEW S, S \subseteq Nat, S # {}
    PROVE  \E m \in S : \A k \in S : m <= k
<1> DEFINE R == {p \in Nat \X Nat : p[1] < p[2]}
<1>1. IsWellFoundedOn(R, Nat)
    BY NatLessThanWellFounded DEF OpToRel
<1>2. \E m \in S : \A k \in S : ~ (<<k, m>> \in R)
    <2> HIDE DEF R
    <2> QED BY <1>1, WFMin
<1>3. \A k, m \in Nat : <<k, m>> \notin R => m <= k
    OBVIOUS
<1> QED BY <1>2, <1>3

(* kept[n] is what the loop of Kept has kept after n rows.                 *)
Turn(kept, rows, keep, n) ==
    IF n = 0 THEN <<>>
    ELSE IF keep[n] THEN Append(kept[n - 1], rows[n]) ELSE kept[n - 1]
IsLoop(kept, rows, keep, N) == kept = [n \in 0 .. N |-> Turn(kept, rows, keep, n)]

(* The n-th turn of a loop does what the body says.                        *)
LEMMA LoopTurns ==
    ASSUME NEW kept, NEW rows, NEW keep, NEW N, IsLoop(kept, rows, keep, N), NEW n \in 0 .. N
    PROVE  kept[n] = Turn(kept, rows, keep, n)
BY DEF IsLoop

(* A loop over finitely many rows ends: the recursive function exists.     *)
LEMMA LoopExists ==
    ASSUME NEW rows, NEW keep, NEW N \in Nat
    PROVE  \E kept : IsLoop(kept, rows, keep, N)
<1> DEFINE Endless == {n \in Nat : ~ \E kept : IsLoop(kept, rows, keep, n)}
<1> SUFFICES ASSUME Endless # {} PROVE FALSE
    OBVIOUS
<1>1. PICK m \in Endless : \A k \in Endless : m <= k
    <2> HIDE DEF Endless
    <2> Endless \subseteq Nat
        BY DEF Endless
    <2> QED BY Least
<1>2. CASE m = 0
    <2> DEFINE f == [n \in 0 .. 0 |-> <<>>]
    <2>1. IsLoop(f, rows, keep, 0)
        BY DEF IsLoop, Turn
    <2> QED BY <1>2, <2>1
<1>3. CASE m # 0
    <2>1. m - 1 \in Nat /\ m \in Nat /\ m - 1 \notin Endless
        BY <1>1, <1>3
    <2> PICK f : IsLoop(f, rows, keep, m - 1)
        BY <2>1
    <2> DEFINE g == [n \in 0 .. m |-> IF n = m THEN Turn(f, rows, keep, m) ELSE f[n]]
    <2>2. \A n \in 0 .. m : g[n] = Turn(g, rows, keep, n)
        <3> TAKE n \in 0 .. m
        <3>1. CASE n = m
            BY <1>3, <3>1, <2>1 DEF Turn
        <3>2. CASE n # m
            <4>1. n \in 0 .. m - 1 /\ (n # 0 => n - 1 \in 0 .. m - 1)
                BY <3>2, <2>1
            <4>2. g[n] = f[n] /\ (n # 0 => g[n - 1] = f[n - 1])
                BY <4>1, <2>1
            <4>3. f[n] = Turn(f, rows, keep, n)
                BY <4>1 DEF IsLoop
            <4> QED BY <4>2, <4>3 DEF Turn
        <3> QED BY <3>1, <3>2
    <2>3. IsLoop(g, rows, keep, m)
        BY <2>2 DEF IsLoop
    <2> QED BY <2>3
<1> QED BY <1>2, <1>3

(* Kept is what such a loop has kept after the last row.                   *)
LEMMA KeptIsLoop ==
    ASSUME NEW rows, NEW keep, Len(rows) \in Nat
    PROVE  \E kept : IsLoop(kept, rows, keep, Len(rows)) /\ Kept(rows, keep) = kept[Len(rows)]
<1>1. \E kept : IsLoop(kept, rows, keep, Len(rows))
    BY LoopExists
<1>2. \E kept : kept = [n \in 0 .. Len(rows) |-> IF n = 0 THEN <<>>
            ELSE IF keep[n] THEN Append(kept[n - 1], rows[n]) ELSE kept[n - 1]]
    BY <1>1 DEF IsLoop, Turn
<1> QED BY <1>2 DEF Kept, IsLoop, Turn

(* Loops over the same rows keep the same, however many rows follow.       *)
LEMMA LoopsAgree ==
    ASSUME NEW f, NEW g, NEW rows, NEW more, NEW keep, NEW also,
           NEW M \in Nat, NEW N \in Nat, M <= N,
           IsLoop(f, rows, keep, M), IsLoop(g, more, also, N),
           \A k \in 1 .. M : more[k] = rows[k] /\ also[k] = keep[k]
    PROVE  \A n \in 0 .. M : g[n] = f[n]
<1> DEFINE Apart == {n \in 0 .. M : g[n] # f[n]}
<1> SUFFICES ASSUME Apart # {} PROVE FALSE
    OBVIOUS
<1>1. PICK m \in Apart : \A k \in Apart : m <= k
    <2>1. Apart \subseteq Nat
        OBVIOUS
    <2> HIDE DEF Apart
    <2> QED BY <2>1, Least
<1>2. /\ m \in 0 .. M /\ m \in 0 .. N
      /\ f[m] = Turn(f, rows, keep, m) /\ g[m] = Turn(g, more, also, m)
    <2>1. m \in 0 .. M /\ m \in 0 .. N
        OBVIOUS
    <2> QED BY <2>1, LoopTurns
<1>3. CASE m = 0
    BY <1>2, <1>3 DEF Turn
<1>4. CASE m # 0
    <2>1. m - 1 \in 0 .. M /\ m - 1 \notin Apart /\ m \in 1 .. M
        BY <1>1, <1>2, <1>4
    <2>2. g[m - 1] = f[m - 1]
        BY <2>1
    <2> QED BY <1>2, <1>4, <2>1, <2>2 DEF Turn
<1> QED BY <1>3, <1>4

(* What is kept of a sequence with one more row.                           *)
LEMMA KeptAppend ==
    ASSUME NEW S, NEW rows \in Seq(S), NEW e \in S, NEW keep, NEW also,
           \A k \in DOMAIN rows : also[k] = keep[k]
    PROVE  Kept(Append(rows, e), also) =
               IF also[Len(rows) + 1] THEN Append(Kept(rows, keep), e) ELSE Kept(rows, keep)
<1> DEFINE more == Append(rows, e)
<1>1. /\ Len(rows) \in Nat /\ Len(more) = Len(rows) + 1 /\ DOMAIN rows = 1 .. Len(rows)
      /\ \A k \in 1 .. Len(rows) : more[k] = rows[k]
      /\ more[Len(rows) + 1] = e
    BY AppendProperties
<1> HIDE DEF more
<1> PICK f : IsLoop(f, rows, keep, Len(rows)) /\ Kept(rows, keep) = f[Len(rows)]
    BY <1>1, KeptIsLoop
<1> PICK g : IsLoop(g, more, also, Len(more)) /\ Kept(more, also) = g[Len(more)]
    BY <1>1, KeptIsLoop
<1>2. \A n \in 0 .. Len(rows) : g[n] = f[n]
    <2>1. /\ Len(more) \in Nat /\ Len(rows) <= Len(more)
          /\ \A k \in 1 .. Len(rows) : more[k] = rows[k] /\ also[k] = keep[k]
        BY <1>1
    <2>2. IsLoop(f, rows, keep, Len(rows)) /\ IsLoop(g, more, also, Len(more)) /\ Len(rows) \in Nat
        BY <1>1
    <2> QED BY <2>1, <2>2, LoopsAgree
<1>3. g[Len(rows) + 1] = Turn(g, more, also, Len(rows) + 1)
    BY <1>1, LoopTurns
<1>4. g[Len(rows)] = f[Len(rows)] /\ Len(rows) + 1 # 0 /\ (Len(rows) + 1) - 1 = Len(rows)
    BY <1>1, <1>2
<1> QED BY <1>1, <1>3, <1>4 DEF Turn, more

(* The rows kept are the ones to keep, each as often as it is there.       *)
Faithful(kept, rows, keep, n) ==
    /\ \A j \in DOMAIN kept : \E k \in 1 .. n : keep[k] /\ kept[j] = rows[k]
    /\ \A k \in 1 .. n : keep[k] => \E j \in DOMAIN kept : kept[j] = rows[k]
    /\ (\A i, j \in 1 .. n : keep[i] /\ keep[j] /\ rows[i] = rows[j] => i = j)
         => \A i, j \in DOMAIN kept : kept[i] = kept[j] => i = j

(* After every turn the loop has kept just the rows it should.             *)
LEMMA LoopIsFaithful ==
    ASSUME NEW S, NEW rows \in Seq(S), NEW keep, NEW kept,
           IsLoop(kept, rows, keep, Len(rows)), NEW n \in 0 .. Len(rows)
    PROVE  /\ kept[n] \in Seq(S) /\ Len(kept[n]) <= n
           /\ Faithful(kept[n], rows, keep, n)
<1> DEFINE Ok(i) == /\ kept[i] \in Seq(S) /\ Len(kept[i]) <= i
                    /\ Faithful(kept[i], rows, keep, i)
<1> DEFINE Wrong == {i \in 0 .. Len(rows) : ~ Ok(i)}
<1> SUFFICES ASSUME Wrong # {} PROVE FALSE
    OBVIOUS
<1>0. Len(rows) \in Nat /\ DOMAIN rows = 1 .. Len(rows) /\ \A i \in 1 .. Len(rows) : rows[i] \in S
    OBVIOUS
<1>1. PICK m \in Wrong : \A i \in Wrong : m <= i
    <2>1. Wrong \subseteq Nat
        BY <1>0
    <2> HIDE DEF Wrong
    <2> QED BY <2>1, Least
<1>2. m \in 0 .. Len(rows) /\ ~ Ok(m) /\ kept[m] = Turn(kept, rows, keep, m)
    BY DEF IsLoop
<1> HIDE DEF Ok
<1>3. CASE m = 0
    <2>1. kept[0] = <<>>
        BY <1>2, <1>3 DEF Turn
    <2>2. Ok(0)
        BY <2>1 DEF Ok, Faithful
    <2> QED BY <1>2, <1>3, <2>2
<1>4. CASE m # 0
    <2>1. m - 1 \in 0 .. Len(rows) /\ m \in 1 .. Len(rows) /\ Ok(m - 1)
        BY <1>0, <1>1, <1>2, <1>4
    <2> DEFINE old == kept[m - 1]
    <2>2. old \in Seq(S) /\ Len(old) <= m - 1 /\ Faithful(old, rows, keep, m - 1)
        BY <2>1 DEF Ok
    <2>3. rows[m] \in S /\ 1 .. m = (1 .. m - 1) \cup {m}
        BY <1>0, <2>1
    <2>4. CASE keep[m]
        <3>1. kept[m] = Append(old, rows[m])
            BY <1>2, <1>4, <2>4 DEF Turn
        <3> DEFINE new == kept[m]
        <3>2. /\ new \in Seq(S) /\ Len(new) <= m
              /\ \A j \in DOMAIN new : j \in DOMAIN old \/ j = Len(old) + 1
              /\ \A j \in DOMAIN old : j \in DOMAIN new /\ new[j] = old[j]
              /\ Len(old) + 1 \in DOMAIN new /\ new[Len(old) + 1] = rows[m]
            BY <2>1, <2>2, <2>3, <3>1, AppendedRow
        <3> HIDE DEF new, old
        <3>3. \A j \in DOMAIN new : \E k \in 1 .. m : keep[k] /\ new[j] = rows[k]
            <4> SUFFICES ASSUME NEW j \in DOMAIN new
                         PROVE  \E k \in 1 .. m : keep[k] /\ new[j] = rows[k]
                OBVIOUS
            <4>1. CASE j \in DOMAIN old
                <5> PICK k \in 1 .. m - 1 : keep[k] /\ old[j] = rows[k]
                    BY <2>2, <4>1 DEF Faithful
                <5> QED BY <2>3, <3>2, <4>1
            <4>2. CASE j = Len(old) + 1
                BY <2>1, <2>4, <3>2, <4>2
            <4> QED BY <3>2, <4>1, <4>2
        <3>4. \A k \in 1 .. m : keep[k] => \E j \in DOMAIN new : new[j] = rows[k]
            <4> SUFFICES ASSUME NEW k \in 1 .. m, keep[k]
                         PROVE  \E j \in DOMAIN new : new[j] = rows[k]
                OBVIOUS
            <4>1. CASE k = m
                BY <3>2, <4>1
            <4>2. CASE k \in 1 .. m - 1
                <5> PICK j \in DOMAIN old : old[j] = rows[k]
                    BY <2>2, <4>2 DEF Faithful
                <5> QED BY <3>2
            <4> QED BY <2>3, <4>1, <4>2
        <3>5. ASSUME \A i, j \in 1 .. m : keep[i] /\ keep[j] /\ rows[i] = rows[j] => i = j
              PROVE  \A i, j \in DOMAIN new : new[i] = new[j] => i = j
            <4>1. \A i, j \in DOMAIN old : old[i] = old[j] => i = j
                BY <2>2, <2>3, <3>5 DEF Faithful
            <4>2. \A j \in DOMAIN old : old[j] # rows[m]
                <5> SUFFICES ASSUME NEW j \in DOMAIN old, old[j] = rows[m] PROVE FALSE
                    OBVIOUS
                <5> PICK k \in 1 .. m - 1 : keep[k] /\ old[j] = rows[k]
                    BY <2>2 DEF Faithful
                <5>1. k = m
                    BY <2>1, <2>3, <2>4, <3>5
                <5> QED BY <2>1, <5>1
            <4> QED BY <3>2, <4>1, <4>2
        <3>6. Ok(m)
            BY <3>2, <3>3, <3>4, <3>5 DEF Ok, Faithful, new
        <3> QED BY <1>2, <3>6
    <2>5. CASE ~ keep[m]
        <3>1. kept[m] = old
            BY <1>2, <1>4, <2>5 DEF Turn
        <3>2. Faithful(old, rows, keep, m)
            BY <2>2, <2>3, <2>5 DEF Faithful
        <3> QED BY <1>2, <2>1, <2>2, <3>1, <3>2 DEF Ok
    <2> QED BY <2>4, <2>5
<1> QED BY <1>3, <1>4

(* So get_chat_history, get_chat_list and get_chat_members list the rows of *)
(* their SELECT: all of them, nothing else, and none twice that is there    *)
(* once.                                                                    *)
LEMMA KeptRows ==
    ASSUME NEW S, NEW rows \in Seq(S), NEW keep
    PROVE  /\ Kept(rows, keep) \in Seq(S) /\ Len(Kept(rows, keep)) <= Len(rows)
           /\ Faithful(Kept(rows, keep), rows, keep, Len(rows))
<1> PICK f : IsLoop(f, rows, keep, Len(rows)) /\ Kept(rows, keep) = f[Len(rows)]
    BY KeptIsLoop
<1> QED BY LoopIsFaithful

-----------------------------------------------------------------------------
(* The answer of a method that lists is null or the list.                  *)
LEMMA AnswersAreLists ==
    /\ \A id : get_chat_history(id) = Rows(HistoryIn(messages, id))
    /\ \A id : get_chat_list(id) = Rows(ChatsIn(links, id))
    /\ \A id : get_chat_members(id) = Rows(MembersIn(links, id))
BY DEF get_chat_history, get_chat_list, get_chat_members

(* An answer of rows can be told from FAIL and from null.                  *)
LEMMA ListIsRead ==
    ASSUME NEW list
    PROVE  /\ Rows(list) # Fail
           /\ Rows(list) = Null <=> list = <<>>
           /\ list # <<>> => Rows(list).rows = list
<1>1. /\ "rows" \in DOMAIN [rows |-> list]
      /\ "rows" \notin DOMAIN Fail /\ "rows" \notin DOMAIN Null
    BY DEF Fail, Null
<1>2. [rows |-> list] # Fail /\ [rows |-> list] # Null
    BY <1>1
<1>3. Null # Fail
    <2>1. DOMAIN Null = {"empty"} /\ DOMAIN Fail = {"error"}
        BY DEF Null, Fail
    <2> QED BY <2>1
<1> QED BY <1>2, <1>3 DEF Rows

(* A history holds messages of the chat, all of which are stored.          *)
LEMMA HistoryRows ==
    ASSUME NEW rows \in Seq(Message), NEW id
    PROVE  /\ HistoryIn(rows, id) \in Seq(Message)
           /\ \A j \in DOMAIN HistoryIn(rows, id) :
                \E k \in DOMAIN rows : HistoryIn(rows, id)[j] = rows[k]
<1> DEFINE keep == [k \in DOMAIN rows |-> rows[k].chat_id = id]
<1>1. HistoryIn(rows, id) = Kept(rows, keep) /\ DOMAIN rows = 1 .. Len(rows)
    BY DEF HistoryIn
<1> HIDE DEF keep
<1>2. /\ Kept(rows, keep) \in Seq(Message)
      /\ Faithful(Kept(rows, keep), rows, keep, Len(rows))
    BY KeptRows
<1>3. ASSUME NEW j \in DOMAIN Kept(rows, keep)
      PROVE  \E k \in DOMAIN rows : Kept(rows, keep)[j] = rows[k]
    <2> PICK k \in 1 .. Len(rows) : keep[k] /\ Kept(rows, keep)[j] = rows[k]
        BY <1>2 DEF Faithful
    <2> QED BY <1>1
<1> QED BY <1>1, <1>2, <1>3

(* A new message comes at the end of the history of its chat, and does not *)
(* touch the others.                                                       *)
LEMMA HistoryMoves ==
    ASSUME NEW rows \in Seq(Message), NEW r \in Message, NEW id
    PROVE  HistoryIn(Append(rows, r), id) =
               IF r.chat_id = id THEN Append(HistoryIn(rows, id), r) ELSE HistoryIn(rows, id)
<1> DEFINE more == Append(rows, r)
           keep == [k \in DOMAIN rows |-> rows[k].chat_id = id]
           also == [k \in DOMAIN more |-> more[k].chat_id = id]
<1>1. /\ \A k \in DOMAIN rows : also[k] = keep[k]
      /\ also[Len(rows) + 1] = (r.chat_id = id)
    BY AppendedRow
<1>2. Kept(more, also) = IF also[Len(rows) + 1] THEN Append(Kept(rows, keep), r)
                                                ELSE Kept(rows, keep)
    <2> HIDE DEF keep, also
    <2> QED BY <1>1, KeptAppend
<1> QED BY <1>1, <1>2 DEF HistoryIn


(* Reading a column keeps the length and, if it is of ids, gives ids.      *)
LEMMA ColumnRows ==
    ASSUME NEW its \in Seq(Link)
    PROVE  /\ [k \in DOMAIN its |-> its[k].chat_id] \in Seq(Nat)
           /\ [k \in DOMAIN its |-> its[k].user_id] \in Seq(Nat)
           /\ Len([k \in DOMAIN its |-> its[k].chat_id]) = Len(its)
           /\ Len([k \in DOMAIN its |-> its[k].user_id]) = Len(its)
<1>1. DOMAIN its = 1 .. Len(its) /\ Len(its) \in Nat
    OBVIOUS
<1>2. \A k \in 1 .. Len(its) : its[k].chat_id \in Nat /\ its[k].user_id \in Nat
    <2>1. \A k \in 1 .. Len(its) : its[k] \in Link
        OBVIOUS
    <2> QED BY <2>1 DEF Link
<1>3. /\ [k \in 1 .. Len(its) |-> its[k].chat_id] \in [1 .. Len(its) -> Nat]
      /\ [k \in 1 .. Len(its) |-> its[k].user_id] \in [1 .. Len(its) -> Nat]
    BY <1>2
<1>4. \A f \in [1 .. Len(its) -> Nat] : f \in Seq(Nat) /\ Len(f) = Len(its)
    BY <1>1, SeqDef
<1> QED BY <1>1, <1>3, <1>4

(* The list of a user's chats holds the chats of his links, each as often  *)
(* as it is linked; the list of a chat's members likewise.                 *)
LEMMA ChatsRows ==
    ASSUME NEW rows \in Seq(Link), NEW id
    PROVE  LET list == ChatsIn(rows, id) IN
           /\ list \in Seq(Nat) /\ Len(list) <= Len(rows)
           /\ \A j \in DOMAIN list : \E k \in DOMAIN rows :
                 rows[k].user_id = id /\ rows[k].chat_id = list[j]
           /\ \A k \in DOMAIN rows :
                 rows[k].user_id = id => \E j \in DOMAIN list : list[j] = rows[k].chat_id
           /\ (\A i, j \in DOMAIN rows : rows[i] = rows[j] => i = j) =>
                 \A i, j \in DOMAIN list : list[i] = list[j] => i = j
<1> DEFINE keep == [k \in DOMAIN rows |-> rows[k].user_id = id]
           its == Kept(rows, keep)
           list == ChatsIn(rows, id)
<1>0. list = [k \in DOMAIN its |-> its[k].chat_id]
    BY DEF ChatsIn
<1>1. /\ DOMAIN rows = 1 .. Len(rows)
      /\ \A k \in DOMAIN rows : keep[k] <=> rows[k].user_id = id
    <2>1. DOMAIN rows = 1 .. Len(rows)
        OBVIOUS
    <2>2. \A k \in DOMAIN rows : keep[k] <=> rows[k].user_id = id
        OBVIOUS
    <2> QED BY <2>1, <2>2
<1> HIDE DEF keep
<1>2. its \in Seq(Link) /\ Len(its) <= Len(rows) /\ Faithful(its, rows, keep, Len(rows))
    BY KeptRows
<1> HIDE DEF its, list
<1>3. list \in Seq(Nat) /\ Len(list) = Len(its) /\ DOMAIN list = DOMAIN its
    BY <1>0, <1>2, ColumnRows
<1>4. /\ \A j \in DOMAIN list : \E k \in DOMAIN rows : keep[k] /\ its[j] = rows[k]
      /\ \A k \in DOMAIN rows : keep[k] => \E j \in DOMAIN list : its[j] = rows[k]
    BY <1>1, <1>2, <1>3 DEF Faithful
<1>7. \A j \in DOMAIN list : list[j] = its[j].chat_id
    BY <1>0, <1>3
<1>5. ASSUME \A i, j \in DOMAIN rows : rows[i] = rows[j] => i = j
      PROVE  \A i, j \in DOMAIN list : list[i] = list[j] => i = j
    <2>1. \A i, j \in DOMAIN its : its[i] = its[j] => i = j
        BY <1>1, <1>2, <1>5 DEF Faithful
    <2>2. \A j \in DOMAIN list : its[j] \in Link /\ its[j].user_id = id
        BY <1>1, <1>2, <1>3, <1>4
    <2>3. \A i, j \in DOMAIN list : its[i].chat_id = its[j].chat_id => its[i] = its[j]
        BY <2>2 DEF Link
    <2> QED BY <1>3, <1>7, <2>1, <2>3
<1>6. /\ \A j \in DOMAIN list : \E k \in DOMAIN rows :
            rows[k].user_id = id /\ rows[k].chat_id = list[j]
      /\ \A k \in DOMAIN rows :
            rows[k].user_id = id => \E j \in DOMAIN list : list[j] = rows[k].chat_id
    <2>1. ASSUME NEW j \in DOMAIN list
          PROVE  \E k \in DOMAIN rows : rows[k].user_id = id /\ rows[k].chat_id = list[j]
        <3> PICK k \in DOMAIN rows : keep[k] /\ its[j] = rows[k]
            BY <1>4
        <3> QED BY <1>1, <1>7
    <2>2. ASSUME NEW k \in DOMAIN rows, rows[k].user_id = id
          PROVE  \E j \in DOMAIN list : list[j] = rows[k].chat_id
        <3> PICK j \in DOMAIN list : its[j] = rows[k]
            BY <1>1, <1>4, <2>2
        <3> QED BY <1>7
    <2> QED BY <2>1, <2>2
<1> QED BY <1>2, <1>3, <1>5, <1>6 DEF list

(* The same for the members of a chat.                                     *)
LEMMA MembersRows ==
    ASSUME NEW rows \in Seq(Link), NEW id
    PROVE  LET list == MembersIn(rows, id) IN
           /\ list \in Seq(Nat) /\ Len(list) <= Len(rows)
           /\ \A j \in DOMAIN list : \E k \in DOMAIN rows :
                 rows[k].chat_id = id /\ rows[k].user_id = list[j]
           /\ \A k \in DOMAIN rows :
                 rows[k].chat_id = id => \E j \in DOMAIN list : list[j] = rows[k].user_id
           /\ (\A i, j \in DOMAIN rows : rows[i] = rows[j] => i = j) =>
                 \A i, j \in DOMAIN list : list[i] = list[j] => i = j
<1> DEFINE keep == [k \in DOMAIN rows |-> rows[k].chat_id = id]
           its == Kept(rows, keep)
           list == MembersIn(rows, id)
<1>0. list = [k \in DOMAIN its |-> its[k].user_id]
    BY DEF MembersIn
<1>1. /\ DOMAIN rows = 1 .. Len(rows)
      /\ \A k \in DOMAIN rows : keep[k] <=> rows[k].chat_id = id
    <2>1. DOMAIN rows = 1 .. Len(rows)
        OBVIOUS
    <2>2. \A k \in DOMAIN rows : keep[k] <=> rows[k].chat_id = id
        OBVIOUS
    <2> QED BY <2>1, <2>2
<1> HIDE DEF keep
<1>2. its \in Seq(Link) /\ Len(its) <= Len(rows) /\ Faithful(its, rows, keep, Len(rows))
    BY KeptRows
<1> HIDE DEF its, list
<1>3. list \in Seq(Nat) /\ Len(list) = Len(its) /\ DOMAIN list = DOMAIN its
    BY <1>0, <1>2, ColumnRows
<1>4. /\ \A j \in DOMAIN list : \E k \in DOMAIN rows : keep[k] /\ its[j] = rows[k]
      /\ \A k \in DOMAIN rows : keep[k] => \E j \in DOMAIN list : its[j] = rows[k]
    BY <1>1, <1>2, <1>3 DEF Faithful
<1>7. \A j \in DOMAIN list : list[j] = its[j].user_id
    BY <1>0, <1>3
<1>5. ASSUME \A i, j \in DOMAIN rows : rows[i] = rows[j] => i = j
      PROVE  \A i, j \in DOMAIN list : list[i] = list[j] => i = j
    <2>1. \A i, j \in DOMAIN its : its[i] = its[j] => i = j
        BY <1>1, <1>2, <1>5 DEF Faithful
    <2>2. \A j \in DOMAIN list : its[j] \in Link /\ its[j].chat_id = id
        BY <1>1, <1>2, <1>3, <1>4
    <2>3. \A i, j \in DOMAIN list : its[i].user_id = its[j].user_id => its[i] = its[j]
        BY <2>2 DEF Link
    <2> QED BY <1>3, <1>7, <2>1, <2>3
<1>6. /\ \A j \in DOMAIN list : \E k \in DOMAIN rows :
            rows[k].chat_id = id /\ rows[k].user_id = list[j]
      /\ \A k \in DOMAIN rows :
            rows[k].chat_id = id => \E j \in DOMAIN list : list[j] = rows[k].user_id
    <2>1. ASSUME NEW j \in DOMAIN list
          PROVE  \E k \in DOMAIN rows : rows[k].chat_id = id /\ rows[k].user_id = list[j]
        <3> PICK k \in DOMAIN rows : keep[k] /\ its[j] = rows[k]
            BY <1>4
        <3> QED BY <1>1, <1>7
    <2>2. ASSUME NEW k \in DOMAIN rows, rows[k].chat_id = id
          PROVE  \E j \in DOMAIN list : list[j] = rows[k].user_id
        <3> PICK j \in DOMAIN list : its[j] = rows[k]
            BY <1>1, <1>4, <2>2
        <3> QED BY <1>7
    <2> QED BY <2>1, <2>2
<1> QED BY <1>2, <1>3, <1>5, <1>6 DEF list

(* Lists of ids only grow at the end when a link is added.                 *)
LEMMA ColumnGrows ==
    ASSUME NEW its \in Seq(Link), NEW r \in Link
    PROVE  LET more == Append(its, r) IN
           /\ Extends([k \in DOMAIN more |-> more[k].chat_id], [k \in DOMAIN its |-> its[k].chat_id])
           /\ Extends([k \in DOMAIN more |-> more[k].user_id], [k \in DOMAIN its |-> its[k].user_id])
<1> DEFINE more == Append(its, r)
<1>1. /\ more \in Seq(Link) /\ DOMAIN more = 1 .. Len(its) + 1 /\ DOMAIN its = 1 .. Len(its)
      /\ Len(more) = Len(its) + 1 /\ Len(its) \in Nat
      /\ \A k \in DOMAIN its : more[k] = its[k]
    BY AppendedRow
<1> HIDE DEF more
<1>2. /\ Len([k \in DOMAIN more |-> more[k].chat_id]) = Len(more)
      /\ Len([k \in DOMAIN more |-> more[k].user_id]) = Len(more)
      /\ Len([k \in DOMAIN its |-> its[k].chat_id]) = Len(its)
      /\ Len([k \in DOMAIN its |-> its[k].user_id]) = Len(its)
    BY <1>1, ColumnRows
<1>3. \A k \in DOMAIN its : k \in DOMAIN more
    BY <1>1
<1> QED BY <1>1, <1>2, <1>3 DEF Extends, more

(* So a chat never moves in a user's list, nor a member in a chat's.       *)
LEMMA ListsGrow ==
    ASSUME NEW rows \in Seq(Link), NEW r \in Link, NEW id
    PROVE  /\ Extends(ChatsIn(Append(rows, r), id), ChatsIn(rows, id))
           /\ Extends(MembersIn(Append(rows, r), id), MembersIn(rows, id))
<1>1. ASSUME NEW keep, NEW also, \A k \in DOMAIN rows : also[k] = keep[k],
             NEW its, NEW more, its = Kept(rows, keep), more = Kept(Append(rows, r), also)
      PROVE  /\ Extends([k \in DOMAIN more |-> more[k].chat_id],
                         [k \in DOMAIN its |-> its[k].chat_id])
             /\ Extends([k \in DOMAIN more |-> more[k].user_id],
                         [k \in DOMAIN its |-> its[k].user_id])
    <2>1. its \in Seq(Link) /\ more \in {its, Append(its, r)}
        BY <1>1, KeptAppend, KeptRows
    <2>2. CASE more = its
        <3>1. /\ Len([k \in DOMAIN its |-> its[k].chat_id]) = Len(its)
              /\ Len([k \in DOMAIN its |-> its[k].user_id]) = Len(its)
              /\ Len(its) \in Nat
            BY <2>1, ColumnRows
        <3> QED BY <2>2, <3>1 DEF Extends
    <2>3. CASE more = Append(its, r)
        BY <2>1, <2>3, ColumnGrows
    <2> QED BY <2>1, <2>2, <2>3
<1> DEFINE all == Append(rows, r)
<1>2. \A k \in DOMAIN rows : k \in DOMAIN all /\ all[k] = rows[k]
    BY AppendedRow
<1>3. Extends(ChatsIn(all, id), ChatsIn(rows, id))
    <2> DEFINE keep == [k \in DOMAIN rows |-> rows[k].user_id = id]
               also == [k \in DOMAIN all |-> all[k].user_id = id]
    <2>1. \A k \in DOMAIN rows : also[k] = keep[k]
        BY <1>2
    <2> HIDE DEF keep, also
    <2> DEFINE its == Kept(rows, keep)
               more == Kept(all, also)
    <2>2. Extends([k \in DOMAIN more |-> more[k].chat_id], [k \in DOMAIN its |-> its[k].chat_id])
        BY <1>1, <2>1
    <2> QED BY <2>2 DEF ChatsIn, keep, also
<1>4. Extends(MembersIn(all, id), MembersIn(rows, id))
    <2> DEFINE keep == [k \in DOMAIN rows |-> rows[k].chat_id = id]
               also == [k \in DOMAIN all |-> all[k].chat_id = id]
    <2>1. \A k \in DOMAIN rows : also[k] = keep[k]
        BY <1>2
    <2> HIDE DEF keep, also
    <2> DEFINE its == Kept(rows, keep)
               more == Kept(all, also)
    <2>2. Extends([k \in DOMAIN more |-> more[k].user_id], [k \in DOMAIN its |-> its[k].user_id])
        BY <1>1, <2>1
    <2> QED BY <2>2 DEF MembersIn, keep, also
<1> QED BY <1>3, <1>4

(* get_trello_token answers the first row of the user, if there is one.    *)
LEMMA OldestToken ==
    ASSUME NEW rows \in Seq(TrelloToken), NEW id, NEW k \in DOMAIN rows,
           rows[k].user_id = id, \A j \in DOMAIN rows : rows[j].user_id = id => k <= j
    PROVE  TokenIn(rows, id) = [trello_token |-> rows[k].trello_token]
<1> DEFINE its == {i \in DOMAIN rows : rows[i].user_id = id}
           oldest == CHOOSE i \in its : \A j \in its : i <= j
<1>1. k \in its /\ its \subseteq Nat /\ \A j \in its : k <= j
    OBVIOUS
<1>2. TokenIn(rows, id) = IF its = {} THEN Null ELSE [trello_token |-> rows[oldest].trello_token]
    BY DEF TokenIn
<1> HIDE DEF its
<1>3. oldest \in its /\ \A j \in its : oldest <= j
    BY <1>1
<1> HIDE DEF oldest
<1>4. oldest = k
    BY <1>1, <1>3
<1> QED BY <1>1, <1>2, <1>4

(* A user who has a token has a first row.                                 *)
LEMMA FirstRow ==
    ASSUME NEW rows \in Seq(TrelloToken), NEW id, TokenIn(rows, id) # Null
    PROVE  \E k \in DOMAIN rows :
              /\ rows[k].user_id = id /\ rows[k].trello_token \in Token
              /\ \A j \in DOMAIN rows : rows[j].user_id = id => k <= j
              /\ TokenIn(rows, id) = [trello_token |-> rows[k].trello_token]
<1> DEFINE its == {i \in DOMAIN rows : rows[i].user_id = id}
<1>1. its # {} /\ its \subseteq Nat
    BY DEF TokenIn
<1> PICK k \in its : \A j \in its : k <= j
    <2> HIDE DEF its
    <2> QED BY <1>1, Least
<1>2. /\ k \in DOMAIN rows /\ rows[k].user_id = id
      /\ \A j \in DOMAIN rows : rows[j].user_id = id => k <= j
    OBVIOUS
<1>3. TokenIn(rows, id) = [trello_token |-> rows[k].trello_token]
    BY <1>2, OldestToken
<1>4. rows[k].trello_token \in Token
    <2>1. rows[k] \in TrelloToken
        BY <1>2
    <2> QED BY <2>1 DEF TrelloToken
<1> QED BY <1>2, <1>3, <1>4

(* A token that is stored later never takes its place: what                *)
(* get_trello_token has answered of a user, it answers for ever.           *)
LEMMA TokenStays ==
    ASSUME NEW rows \in Seq(TrelloToken), NEW r \in TrelloToken, NEW id,
           TokenIn(rows, id) # Null
    PROVE  TokenIn(Append(rows, r), id) = TokenIn(rows, id)
<1> DEFINE more == Append(rows, r)
<1>1. /\ more \in Seq(TrelloToken)
      /\ \A j \in DOMAIN more : j \in DOMAIN rows \/ j = Len(rows) + 1
      /\ \A j \in DOMAIN rows : j \in DOMAIN more /\ more[j] = rows[j] /\ j <= Len(rows) + 1
    BY AppendedRow
<1> HIDE DEF more
<1> PICK k \in DOMAIN rows :
       /\ rows[k].user_id = id
       /\ \A j \in DOMAIN rows : rows[j].user_id = id => k <= j
       /\ TokenIn(rows, id) = [trello_token |-> rows[k].trello_token]
    BY FirstRow
<1>2. /\ k \in DOMAIN more /\ more[k] = rows[k]
      /\ \A j \in DOMAIN more : more[j].user_id = id => k <= j
    BY <1>1
<1>3. TokenIn(more, id) = [trello_token |-> more[k].trello_token]
    BY <1>1, <1>2, OldestToken
<1> QED BY <1>2, <1>3 DEF more

(* Reading a column of a longer table gives the longer column.             *)
LEMMA ColumnMoves ==
    ASSUME NEW its \in Seq(Link), NEW r \in Link, NEW more, more = Append(its, r)
    PROVE  /\ [k \in DOMAIN more |-> more[k].chat_id] =
                 Append([k \in DOMAIN its |-> its[k].chat_id], r.chat_id)
           /\ [k \in DOMAIN more |-> more[k].user_id] =
                 Append([k \in DOMAIN its |-> its[k].user_id], r.user_id)
<1>1. /\ more \in Seq(Link) /\ DOMAIN more = 1 .. Len(its) + 1 /\ DOMAIN its = 1 .. Len(its)
      /\ Len(more) = Len(its) + 1 /\ Len(its) \in Nat
      /\ \A k \in DOMAIN its : more[k] = its[k]
      /\ more[Len(its) + 1] = r
      /\ \A k \in DOMAIN more : k \in DOMAIN its \/ k = Len(its) + 1
    BY AppendedRow
<1>2. r.chat_id \in Nat /\ r.user_id \in Nat
    BY DEF Link
<1>3. ASSUME NEW old \in Seq(Nat), NEW new \in Seq(Nat), NEW e \in Nat,
             Len(old) = Len(its), Len(new) = Len(its) + 1,
             \A k \in 1 .. Len(its) : new[k] = old[k], new[Len(its) + 1] = e
      PROVE  new = Append(old, e)
    <2>1. /\ Append(old, e) \in Seq(Nat) /\ Len(Append(old, e)) = Len(its) + 1
          /\ \A k \in 1 .. Len(its) : Append(old, e)[k] = old[k]
          /\ Append(old, e)[Len(its) + 1] = e
        BY <1>3, AppendProperties
    <2>2. \A k \in 1 .. Len(new) : new[k] = Append(old, e)[k]
        BY <1>1, <1>3, <2>1
    <2> QED BY <1>3, <2>1, <2>2, SeqEqual
<1>4. /\ [k \in DOMAIN its |-> its[k].chat_id] \in Seq(Nat)
      /\ [k \in DOMAIN its |-> its[k].user_id] \in Seq(Nat)
      /\ Len([k \in DOMAIN its |-> its[k].chat_id]) = Len(its)
      /\ Len([k \in DOMAIN its |-> its[k].user_id]) = Len(its)
      /\ [k \in DOMAIN more |-> more[k].chat_id] \in Seq(Nat)
      /\ [k \in DOMAIN more |-> more[k].user_id] \in Seq(Nat)
      /\ Len([k \in DOMAIN more |-> more[k].chat_id]) = Len(its) + 1
      /\ Len([k \in DOMAIN more |-> more[k].user_id]) = Len(its) + 1
    BY <1>1, ColumnRows
<1>5. [k \in DOMAIN more |-> more[k].chat_id] =
          Append([k \in DOMAIN its |-> its[k].chat_id], r.chat_id)
    <2> DEFINE old == [k \in DOMAIN its |-> its[k].chat_id]
               new == [k \in DOMAIN more |-> more[k].chat_id]
    <2>1. (\A k \in 1 .. Len(its) : new[k] = old[k]) /\ new[Len(its) + 1] = r.chat_id
        BY <1>1
    <2>2. old \in Seq(Nat) /\ new \in Seq(Nat) /\ Len(old) = Len(its) /\ Len(new) = Len(its) + 1
        BY <1>4
    <2> HIDE DEF old, new
    <2> QED BY <1>2, <1>3, <2>1, <2>2 DEF old, new
<1>6. [k \in DOMAIN more |-> more[k].user_id] =
          Append([k \in DOMAIN its |-> its[k].user_id], r.user_id)
    <2> DEFINE old == [k \in DOMAIN its |-> its[k].user_id]
               new == [k \in DOMAIN more |-> more[k].user_id]
    <2>1. (\A k \in 1 .. Len(its) : new[k] = old[k]) /\ new[Len(its) + 1] = r.user_id
        BY <1>1
    <2>2. old \in Seq(Nat) /\ new \in Seq(Nat) /\ Len(old) = Len(its) /\ Len(new) = Len(its) + 1
        BY <1>4
    <2> HIDE DEF old, new
    <2> QED BY <1>2, <1>3, <2>1, <2>2 DEF old, new
<1> QED BY <1>5, <1>6

(* A new membership comes at the end of the user's list of chats and of    *)
(* the chat's list of members, and touches no other list.                  *)
LEMMA ListsMove ==
    ASSUME NEW rows \in Seq(Link), NEW r \in Link, NEW id
    PROVE  /\ ChatsIn(Append(rows, r), id) =
                 IF r.user_id = id THEN Append(ChatsIn(rows, id), r.chat_id) ELSE ChatsIn(rows, id)
           /\ MembersIn(Append(rows, r), id) =
                 IF r.chat_id = id THEN Append(MembersIn(rows, id), r.user_id)
                                   ELSE MembersIn(rows, id)
<1> DEFINE all == Append(rows, r)
<1>1. /\ \A k \in DOMAIN rows : k \in DOMAIN all /\ all[k] = rows[k]
      /\ Len(rows) + 1 \in DOMAIN all /\ all[Len(rows) + 1] = r
    BY AppendedRow
<1>2. ASSUME NEW keep, NEW also, \A k \in DOMAIN rows : also[k] = keep[k]
      PROVE  /\ Kept(rows, keep) \in Seq(Link)
             /\ Kept(all, also) = IF also[Len(rows) + 1] THEN Append(Kept(rows, keep), r)
                                                         ELSE Kept(rows, keep)
    BY <1>2, KeptAppend, KeptRows
<1>3. ChatsIn(all, id) =
          IF r.user_id = id THEN Append(ChatsIn(rows, id), r.chat_id) ELSE ChatsIn(rows, id)
    <2> DEFINE keep == [k \in DOMAIN rows |-> rows[k].user_id = id]
               also == [k \in DOMAIN all |-> all[k].user_id = id]
    <2>1. /\ \A k \in DOMAIN rows : also[k] = keep[k]
          /\ also[Len(rows) + 1] <=> r.user_id = id
        BY <1>1
    <2> DEFINE its == Kept(rows, keep)
               more == Kept(all, also)
    <2>2. /\ ChatsIn(rows, id) = [k \in DOMAIN its |-> its[k].chat_id]
          /\ ChatsIn(all, id) = [k \in DOMAIN more |-> more[k].chat_id]
        BY DEF ChatsIn
    <2> HIDE DEF keep, also, all
    <2>3. /\ its \in Seq(Link)
          /\ r.user_id = id => more = Append(its, r)
          /\ r.user_id # id => more = its
        BY <1>2, <2>1
    <2> HIDE DEF its, more
    <2>4. CASE r.user_id = id
        <3>1. [k \in DOMAIN more |-> more[k].chat_id] =
                  Append([k \in DOMAIN its |-> its[k].chat_id], r.chat_id)
            BY <2>3, <2>4, ColumnMoves
        <3> QED BY <2>2, <2>4, <3>1
    <2>5. CASE r.user_id # id
        BY <2>2, <2>3, <2>5
    <2> QED BY <2>4, <2>5
<1>4. MembersIn(all, id) =
          IF r.chat_id = id THEN Append(MembersIn(rows, id), r.user_id) ELSE MembersIn(rows, id)
    <2> DEFINE keep == [k \in DOMAIN rows |-> rows[k].chat_id = id]
               also == [k \in DOMAIN all |-> all[k].chat_id = id]
    <2>1. /\ \A k \in DOMAIN rows : also[k] = keep[k]
          /\ also[Len(rows) + 1] <=> r.chat_id = id
        BY <1>1
    <2> DEFINE its == Kept(rows, keep)
               more == Kept(all, also)
    <2>2. /\ MembersIn(rows, id) = [k \in DOMAIN its |-> its[k].user_id]
          /\ MembersIn(all, id) = [k \in DOMAIN more |-> more[k].user_id]
        BY DEF MembersIn
    <2> HIDE DEF keep, also, all
    <2>3. /\ its \in Seq(Link)
          /\ r.chat_id = id => more = Append(its, r)
          /\ r.chat_id # id => more = its
        BY <1>2, <2>1
    <2> HIDE DEF its, more
    <2>4. CASE r.chat_id = id
        <3>1. [k \in DOMAIN more |-> more[k].user_id] =
                  Append([k \in DOMAIN its |-> its[k].user_id], r.user_id)
            BY <2>3, <2>4, ColumnMoves
        <3> QED BY <2>2, <2>4, <3>1
    <2>5. CASE r.chat_id # id
        BY <2>2, <2>3, <2>5
    <2> QED BY <2>4, <2>5
<1> QED BY <1>3, <1>4

(* A new token is that of its user if he had none, and of nobody else.     *)
LEMMA TokenMoves ==
    ASSUME NEW rows \in Seq(TrelloToken), NEW r \in TrelloToken, NEW id
    PROVE  TokenIn(Append(rows, r), id) =
               IF r.user_id = id /\ TokenIn(rows, id) = Null
               THEN [trello_token |-> r.trello_token] ELSE TokenIn(rows, id)
<1> DEFINE more == Append(rows, r)
<1>1. /\ more \in Seq(TrelloToken) /\ Len(rows) \in Nat
      /\ \A j \in DOMAIN more : j \in DOMAIN rows \/ j = Len(rows) + 1
      /\ \A j \in DOMAIN rows : j \in DOMAIN more /\ more[j] = rows[j] /\ j <= Len(rows) + 1
      /\ Len(rows) + 1 \in DOMAIN more /\ more[Len(rows) + 1] = r
    BY AppendedRow
<1>2. CASE TokenIn(rows, id) # Null
    BY <1>2, TokenStays
<1>3. CASE TokenIn(rows, id) = Null
    <2>1. \A j \in DOMAIN rows : rows[j].user_id # id
        <3> SUFFICES ASSUME NEW j \in DOMAIN rows, rows[j].user_id = id PROVE FALSE
            OBVIOUS
        <3> DEFINE its == {k \in DOMAIN rows : rows[k].user_id = id}
        <3>1. its # {} /\ its \subseteq Nat
            OBVIOUS
        <3> PICK k \in its : \A i \in its : k <= i
            <4> HIDE DEF its
            <4> QED BY <3>1, Least
        <3>2. TokenIn(rows, id) = [trello_token |-> rows[k].trello_token]
            BY OldestToken
        <3> QED BY <1>3, <3>2, RowIsNotMissing
    <2> HIDE DEF more
    <2>2. CASE r.user_id = id
        <3>1. /\ more[Len(rows) + 1].user_id = id
              /\ \A j \in DOMAIN more : more[j].user_id = id => Len(rows) + 1 <= j
            BY <1>1, <2>1, <2>2
        <3>2. TokenIn(more, id) = [trello_token |-> more[Len(rows) + 1].trello_token]
            BY <1>1, <3>1, OldestToken
        <3> QED BY <1>1, <1>3, <2>2, <3>2 DEF more
    <2>3. CASE r.user_id # id
        <3>1. {k \in DOMAIN more : more[k].user_id = id} = {}
            BY <1>1, <2>1, <2>3
        <3>2. TokenIn(more, id) = Null
            BY <3>1 DEF TokenIn
        <3> QED BY <1>3, <2>3, <3>2 DEF more
    <2> QED BY <2>2, <2>3
<1> QED BY <1>2, <1>3

(* A transaction leaves each table of rows alone or puts one row at its    *)
(* end.                                                                    *)
LEMMA RowsMove ==
    ASSUME TypeOK, [Next]_dbVars
    PROVE  /\ links' = links \/ \E r \in Link : links' = Append(links, r)
           /\ messages' = messages \/ \E r \in Message : messages' = Append(messages, r)
           /\ tokens' = tokens \/ \E r \in TrelloToken : tokens' = Append(tokens, r)
BY StepShape DEF Shape, NoRow, NewUser, NewChat, NewLink, NewMessage, NewToken, tables
=============================================================================
