-------------------------- MODULE ChatWindowProofs --------------------------
(***************************************************************************)
(* Theorems about the main window, for every set of users, chats and       *)
(* texts, every choice of faults and every bound: the list of chats is     *)
(* always one that was true, a message goes to the chat in view, and       *)
(* comparing sizes is enough to tell that the view is the history.         *)
(*                                                                         *)
(* The window never sees a table, only lists that the loops of the server  *)
(* read from it.  That those lists only grow at their end (HistoryMoves    *)
(* and ListsGrow of DatabaseProofs) is what the argument rests on.         *)
(***************************************************************************)
EXTENDS ChatWindow, DatabaseProofs

(* What the handlers read of an answer is the list the server read.        *)
LEMMA ListIsBack ==
    /\ \A list : RowsOf(Rows(list)) = list /\ Rows(list) # Fail
    /\ MyChats = ChatsIn(links, me) /\ MyChats' = ChatsIn(links', me)
    /\ History = HistoryIn(messages, current_chat_id)
    /\ History' = HistoryIn(messages', current_chat_id')
    /\ get_chat_list(me) = Rows(ChatsIn(links, me))
    /\ \A id : get_chat_history(id) = Rows(HistoryIn(messages, id))
<1>1. \A list : RowsOf(Rows(list)) = list /\ Rows(list) # Fail
    BY ListIsRead DEF RowsOf
<1>2. MyChats = ChatsIn(links, me) /\ MyChats' = ChatsIn(links', me)
    BY <1>1 DEF MyChats, get_chat_list, me
<1>3. /\ History = HistoryIn(messages, current_chat_id)
      /\ History' = HistoryIn(messages', current_chat_id')
    BY <1>1 DEF History, get_chat_history, HistoryIn
<1> QED BY <1>1, <1>2, <1>3, AnswersAreLists

(* The bubbles drawn for a history are as many as its messages, and one    *)
(* more for one more.                                                      *)
LEMMA BubblesGrow ==
    ASSUME NEW rows \in Seq(Message)
    PROVE  /\ Bubbles(rows) \in Seq(Shown) /\ Len(Bubbles(rows)) = Len(rows)
           /\ \A r \in Message : Bubbles(Append(rows, r)) =
                Append(Bubbles(rows), [sender_id |-> r.sender_id, message_text |-> r.message_text])
<1>1. ASSUME NEW some \in Seq(Message)
      PROVE  /\ Bubbles(some) \in Seq(Shown) /\ Len(Bubbles(some)) = Len(some)
             /\ \A k \in 1 .. Len(some) : Bubbles(some)[k] =
                   [sender_id |-> some[k].sender_id, message_text |-> some[k].message_text]
    <2>1. DOMAIN some = 1 .. Len(some) /\ Len(some) \in Nat
        OBVIOUS
    <2>2. \A k \in 1 .. Len(some) : some[k] \in Message
        OBVIOUS
    <2>3. \A k \in 1 .. Len(some) :
             [sender_id |-> some[k].sender_id, message_text |-> some[k].message_text] \in Shown
        BY <2>2 DEF Message, Shown
    <2>4. Bubbles(some) \in [1 .. Len(some) -> Shown]
        BY <2>1, <2>3 DEF Bubbles
    <2>5. Bubbles(some) \in Seq(Shown) /\ DOMAIN Bubbles(some) = 1 .. Len(some)
        BY <2>1, <2>4, SeqDef
    <2>6. Len(Bubbles(some)) = Len(some)
        BY <2>1, <2>5
    <2> QED BY <2>1, <2>5, <2>6 DEF Bubbles
<1>2. ASSUME NEW r \in Message
      PROVE  Bubbles(Append(rows, r)) =
                Append(Bubbles(rows), [sender_id |-> r.sender_id, message_text |-> r.message_text])
    <2> DEFINE more == Append(rows, r)
               new == [sender_id |-> r.sender_id, message_text |-> r.message_text]
               drawn == Append(Bubbles(rows), new)
    <2>1. /\ more \in Seq(Message) /\ Len(more) = Len(rows) + 1 /\ Len(rows) \in Nat
          /\ \A k \in 1 .. Len(rows) : more[k] = rows[k]
          /\ more[Len(rows) + 1] = r
        BY AppendedRow
    <2>2. new \in Shown
        BY DEF Message, Shown
    <2>3. /\ drawn \in Seq(Shown) /\ Len(drawn) = Len(rows) + 1
          /\ \A k \in 1 .. Len(rows) : drawn[k] = Bubbles(rows)[k]
          /\ drawn[Len(rows) + 1] = new
        <3>1. Bubbles(rows) \in Seq(Shown) /\ Len(Bubbles(rows)) = Len(rows)
            BY <1>1
        <3> HIDE DEF new
        <3> QED BY <2>2, <3>1, AppendedRow
    <2> HIDE DEF more, drawn
    <2>4. /\ Bubbles(more) \in Seq(Shown) /\ Len(Bubbles(more)) = Len(rows) + 1
          /\ \A k \in 1 .. Len(rows) + 1 : Bubbles(more)[k] =
                [sender_id |-> more[k].sender_id, message_text |-> more[k].message_text]
        BY <1>1, <2>1
    <2>5. \A k \in 1 .. Len(rows) + 1 : Bubbles(more)[k] = drawn[k]
        <3> TAKE k \in 1 .. Len(rows) + 1
        <3>1. CASE k = Len(rows) + 1
            BY <2>1, <2>3, <2>4, <3>1
        <3>2. CASE k \in 1 .. Len(rows)
            <4>1. Bubbles(rows)[k] =
                    [sender_id |-> rows[k].sender_id, message_text |-> rows[k].message_text]
                BY <1>1, <3>2
            <4> QED BY <2>1, <2>3, <2>4, <3>2, <4>1
        <3> QED BY <2>1, <3>1, <3>2
    <2>6. Bubbles(more) = drawn
        BY <2>3, <2>4, <2>5, SeqEqual
    <2> QED BY <2>6 DEF more, drawn
<1> QED BY <1>1, <1>2

-----------------------------------------------------------------------------
(* A view that may be taken for the history: without strays it never runs  *)
(* ahead of what is stored, and is right when it is as long.               *)
GoodView(rows, view, size, lost) ==
    /\ view \in Seq(Shown) /\ size = Len(view) /\ lost \in Nat
    /\ lost = 0 => /\ Len(view) <= Len(rows)
                   /\ Len(view) = Len(rows) => view = Bubbles(rows)

(* The row clicked is the row of the chat in view, in the list as it would *)
(* be drawn now and, unless that is empty, in the list that is.            *)
RowInView(list, row, id, mine) ==
    id # 0 => row \in DOMAIN mine /\ mine[row] = id /\ (list # <<>> => row \in DOMAIN list)

(* The inductive invariant: besides the invariants of the runs, what the   *)
(* window is before its first list, that the chat being linked is stored,  *)
(* and that a view with strays still counts its bubbles.                   *)
WindowInv ==
    /\ WindowTypeOK /\ ReferencesResolve
    /\ ListIsPrefix
    /\ pc = "linking" => Taken(chats, adding)
    /\ pc \in {"closed", "opening"} =>
         shown = <<>> /\ current_chat_messages_size = 0 /\ strays = 0 /\ current_chat = 1
    /\ InView =>
         /\ GoodView(HistoryIn(messages, current_chat_id), shown,
                     current_chat_messages_size, strays)
         /\ RowInView(chat_list, current_chat, current_chat_id, MyChats)

(* The invariant is as strong as the four that are checked.                *)
LEMMA WindowInvIsEnough ==
    WindowInv => SendsToViewedChat /\ SameSizeSameMessages /\ ViewIsStored
<1> SUFFICES ASSUME WindowInv PROVE SendsToViewedChat /\ SameSizeSameMessages /\ ViewIsStored
    OBVIOUS
<1>1. SendsToViewedChat
    BY DEF WindowInv, SendsToViewedChat, RowInView, ChatOfRow, ListIsPrefix
<1>2. SameSizeSameMessages /\ ViewIsStored
    BY ListIsBack DEF WindowInv, SameSizeSameMessages, ViewIsStored, GoodView
<1> QED BY <1>1, <1>2

(* A query changes no table.                                               *)
LEMMA QueryKeeps ==
    ASSUME NEW value, NEW ans, Query(value, ans)
    PROVE  UNCHANGED tables /\ [Next]_dbVars
BY QueryIsRead DEF Query, Unreachable, tables, dbVars

(* update_messages leaves a good view of the chat it asks for, or ends the *)
(* program.                                                                *)
LEMMA UpdateShows ==
    ASSUME TypeOK, NEW id, NEW size, NEW view, NEW lost,
           GoodView(HistoryIn(messages, id), view, size, lost),
           UpdateMessages(id, size, view, lost)
    PROVE  /\ UNCHANGED tables /\ [Next]_dbVars
           /\ \/ pc' = "gone" /\ UNCHANGED window
              \/ /\ pc' = "idle" /\ current_chat_id' = id
                 /\ UNCHANGED <<num_of_chats, chat_list, adding>>
                 /\ GoodView(HistoryIn(messages, id), shown', current_chat_messages_size', strays')
<1> DEFINE rows == HistoryIn(messages, id)
<1> PICK ans \in {get_chat_history(id), Fail} :
       /\ Query(get_chat_history(id), ans)
       /\ LET read == RowsOf(ans)
              differs == Differs(size, read)
          IN  IF ans = Fail THEN Throws
              ELSE /\ pc' = "idle"
                   /\ shown' = IF differs THEN Bubbles(read) ELSE view
                   /\ current_chat_messages_size' = IF differs THEN Len(read) ELSE size
                   /\ strays' = IF differs THEN 0 ELSE lost
                   /\ current_chat_id' = id
                   /\ UNCHANGED <<num_of_chats, chat_list, adding>>
    BY DEF UpdateMessages
<1>1. UNCHANGED tables /\ [Next]_dbVars
    BY QueryKeeps
<1>2. CASE ans = Fail
    BY <1>1, <1>2 DEF Throws
<1>3. CASE ans # Fail
    <2>1. RowsOf(ans) = rows
        BY <1>3, ListIsBack
    <2>2. /\ rows \in Seq(Message) /\ Len(rows) \in Nat
          /\ Bubbles(rows) \in Seq(Shown) /\ Len(Bubbles(rows)) = Len(rows)
        <3>1. rows \in Seq(Message)
            BY HistoryRows DEF TypeOK
        <3> HIDE DEF rows
        <3> QED BY <3>1, BubblesGrow
    <2> HIDE DEF rows
    <2>3. CASE size # Len(rows)
        <3>1. /\ pc' = "idle" /\ shown' = Bubbles(rows) /\ strays' = 0 /\ current_chat_id' = id
              /\ current_chat_messages_size' = Len(rows)
              /\ UNCHANGED <<num_of_chats, chat_list, adding>>
            BY <1>3, <2>1, <2>3 DEF Differs
        <3>2. GoodView(rows, shown', current_chat_messages_size', strays')
            BY <2>2, <3>1 DEF GoodView
        <3> QED BY <1>1, <3>1, <3>2 DEF rows
    <2>4. CASE size = Len(rows)
        <3>1. /\ pc' = "idle" /\ shown' = view /\ strays' = lost /\ current_chat_id' = id
              /\ current_chat_messages_size' = size
              /\ UNCHANGED <<num_of_chats, chat_list, adding>>
            BY <1>3, <2>1, <2>4 DEF Differs
        <3> QED BY <1>1, <3>1 DEF rows
    <2> QED BY <2>3, <2>4
<1> QED BY <1>2, <1>3

-----------------------------------------------------------------------------
(* The ids the window sends are ids: of the chats in its list, or of the   *)
(* chat it has just added.                                                 *)
LEMMA IdsAreIds ==
    ASSUME WindowInv
    PROVE  /\ me \in Id /\ other \in Id /\ 0 \in Id /\ DOMAIN chats \subseteq Id
           /\ \A k \in DOMAIN chat_list : chat_list[k] \in DOMAIN chats
           /\ \A row : ChatOfRow(chat_list, row) \in Id
           /\ pc = "linking" => /\ get_chat_id(adding).chat_id \in DOMAIN chats
                                /\ get_chat_id(adding) # Fail
<1>0. TypeOK /\ links \in Seq(Link) /\ ReferencesResolve
    BY DEF WindowInv, WindowTypeOK, TypeOK
<1>1. me \in Id /\ other \in Id /\ 0 \in Id /\ DOMAIN chats \subseteq Id
    BY <1>0, WindowAssumption, BoundAssumption DEF TypeOK, Id, me, other
<1>2. ASSUME NEW k \in DOMAIN chat_list PROVE chat_list[k] \in DOMAIN chats
    <2> DEFINE mine == ChatsIn(links, me)
    <2>1. mine \in Seq(Nat) /\ mine = MyChats
        BY <1>0, ChatsRows, ListIsBack
    <2>2. chat_list \in Seq(Nat) /\ Len(chat_list) <= Len(mine) /\ chat_list[k] = mine[k]
        BY <2>1 DEF WindowInv, WindowTypeOK, ListIsPrefix
    <2>3. \A j \in DOMAIN mine : \E n \in DOMAIN links :
              links[n].user_id = me /\ links[n].chat_id = mine[j]
        BY <1>0, ChatsRows
    <2> HIDE DEF mine
    <2>4. k \in DOMAIN mine
        BY <2>1, <2>2
    <2> QED BY <1>0, <2>2, <2>3, <2>4 DEF ReferencesResolve, Resolves
<1>3. ASSUME NEW row PROVE ChatOfRow(chat_list, row) \in Id
    BY <1>1, <1>2 DEF ChatOfRow
<1>4. ASSUME pc = "linking"
      PROVE  get_chat_id(adding).chat_id \in DOMAIN chats /\ get_chat_id(adding) # Fail
    <2> DEFINE i == CHOOSE k \in DOMAIN chats : chats[k] = adding
    <2>1. Taken(chats, adding)
        BY <1>4 DEF WindowInv
    <2>2. i \in DOMAIN chats
        BY <2>1 DEF Taken
    <2>3. get_chat_id(adding) = [chat_id |-> i, chat_name |-> adding]
        BY <2>1 DEF get_chat_id
    <2> HIDE DEF i
    <2>4. "error" \in DOMAIN Fail /\ "error" \notin DOMAIN [chat_id |-> i, chat_name |-> adding]
        BY DEF Fail
    <2> QED BY <2>2, <2>3, <2>4
<1> QED BY <1>1, <1>2, <1>3, <1>4

(* Every step of the window or of the others is a transaction of Database, *)
(* or touches no table.                                                    *)
LEMMA WindowIsTransaction ==
    ASSUME WindowInv, [WindowNext]_vars PROVE [Next]_dbVars
<1>0. CASE UNCHANGED vars
    BY <1>0 DEF vars
<1>1. CASE OpenList \/ TimerChat \/ ClearList
    BY <1>1, QueryIsRead DEF OpenList, TimerChat, ClearList, UpdateChats
<1>2. CASE OpenMessages \/ TimerMessage \/ \E row \in DOMAIN chat_list : ItemClicked(row)
    BY <1>2, QueryIsRead DEF OpenMessages, TimerMessage, ItemClicked, UpdateMessages
<1>3. ASSUME NEW text \in Text, SendButton(text) PROVE [Next]_dbVars
    BY <1>3, IdsAreIds DEF SendButton, Next, AddMessage
<1>4. ASSUME NEW name \in ChatName, AddChatDialog(name) PROVE [Next]_dbVars
    BY <1>4 DEF AddChatDialog, Next, AddChat
<1>5. CASE LinkNewChat
    <2>1. CASE \E ans \in {Success, Fail} :
                   link_user_to_chat(me, get_chat_id(adding).chat_id, ans)
        <3>1. get_chat_id(adding).chat_id \in Id /\ me \in Id
            BY <1>5, IdsAreIds DEF LinkNewChat
        <3> QED BY <2>1, <3>1 DEF Next, LinkUserToChat
    <2> QED BY <1>5, <2>1, QueryIsRead DEF LinkNewChat
<1>6. ASSUME NEW id \in DOMAIN chats, NEW text \in Text, OtherMessage(id, text)
      PROVE  [Next]_dbVars
    <2>1. id \in Id /\ other \in Id
        BY IdsAreIds
    <2> QED BY <1>6, <2>1 DEF OtherMessage, Next, AddMessage
<1>7. ASSUME NEW id \in DOMAIN chats, OtherAddsMe(id) PROVE [Next]_dbVars
    <2>1. id \in Id /\ me \in Id
        BY IdsAreIds
    <2> QED BY <1>7, <2>1 DEF OtherAddsMe, Next, LinkUserToChat
<1> QED BY <1>0, <1>1, <1>2, <1>3, <1>4, <1>5, <1>6, <1>7 DEF WindowNext, Handler

(* What a step does to what the window reads: the user's chats grow at the *)
(* end, histories grow at the end, and a stored chat stays stored.         *)
LEMMA ReadingsGrow ==
    ASSUME WindowInv, [Next]_dbVars
    PROVE  /\ TypeOK' /\ ReferencesResolve'
           /\ MyChats \in Seq(Nat) /\ MyChats' \in Seq(Nat) /\ Extends(MyChats', MyChats)
           /\ \A name : Taken(chats, name) => Taken(chats', name)
<1>0. TypeOK /\ links \in Seq(Link) /\ ReferencesResolve
    BY DEF WindowInv, WindowTypeOK, TypeOK
<1>1. TypeOK' /\ ReferencesResolve'
    BY <1>0, TypeStep, ReferencesStep
<1>2. ChatsIn(links, me) \in Seq(Nat) /\ ChatsIn(links', me) \in Seq(Nat)
    <2>1. links' \in Seq(Link)
        BY <1>1 DEF TypeOK
    <2> QED BY <1>0, <2>1, ChatsRows
<1>3. Extends(ChatsIn(links', me), ChatsIn(links, me))
    <2>1. CASE links' = links
        BY <1>2, <2>1 DEF Extends
    <2>2. ASSUME NEW r \in Link, links' = Append(links, r)
          PROVE  Extends(ChatsIn(links', me), ChatsIn(links, me))
        BY <1>0, <2>2, ListsGrow
    <2> QED BY <1>0, <2>1, <2>2, RowsMove
<1>4. \A name : Taken(chats, name) => Taken(chats', name)
    BY <1>0, GrowthStep DEF OnlyGrows, Keeps, Taken
<1> QED BY <1>1, <1>2, <1>3, <1>4, ListIsBack

(* A view stays good while others write: the history may only outgrow it.  *)
LEMMA ViewStaysGood ==
    ASSUME TypeOK, [Next]_dbVars, NEW id, NEW view, NEW size, NEW lost,
           GoodView(HistoryIn(messages, id), view, size, lost)
    PROVE  GoodView(HistoryIn(messages', id), view, size, lost)
<1>1. CASE messages' = messages
    BY <1>1
<1>2. ASSUME NEW r \in Message, messages' = Append(messages, r)
      PROVE  GoodView(HistoryIn(messages', id), view, size, lost)
    <2> DEFINE rows == HistoryIn(messages, id)
               more == HistoryIn(messages', id)
    <2>1. more \in {rows, Append(rows, r)} /\ rows \in Seq(Message)
        BY <1>2, HistoryMoves, HistoryRows DEF TypeOK
    <2>2. GoodView(rows, view, size, lost)
        OBVIOUS
    <2> HIDE DEF rows, more
    <2>3. CASE more = Append(rows, r)
        <3>1. Len(more) = Len(rows) + 1 /\ Len(rows) \in Nat /\ Len(view) \in Nat
            BY <2>1, <2>2, <2>3, AppendedRow DEF GoodView
        <3>2. lost = 0 => Len(view) <= Len(more) /\ Len(view) # Len(more)
            BY <2>2, <3>1 DEF GoodView
        <3>3. GoodView(more, view, size, lost)
            BY <2>2, <3>2 DEF GoodView
        <3> QED BY <3>3 DEF more
    <2>4. CASE more = rows
        BY <2>2, <2>4 DEF more
    <2> QED BY <2>1, <2>3, <2>4
<1> QED BY <1>1, <1>2, RowsMove

(* The row of the chat in view stays its row when the list of the server   *)
(* grows and the window keeps, clears or reads its own.                    *)
LEMMA RowStays ==
    ASSUME NEW mine \in Seq(Nat), NEW later \in Seq(Nat), Extends(later, mine),
           NEW old \in Seq(Nat), NEW list \in {old, <<>>, mine},
           NEW row \in Nat, NEW id, RowInView(old, row, id, mine)
    PROVE  RowInView(list, row, id, later)
<1>1. CASE id = 0
    BY <1>1 DEF RowInView
<1>2. CASE id # 0
    <2>1. row \in DOMAIN mine /\ mine[row] = id /\ (old # <<>> => row \in DOMAIN old)
        BY <1>2 DEF RowInView
    <2>2. row \in DOMAIN later /\ later[row] = id
        BY <2>1 DEF Extends
    <2>3. list # <<>> => row \in DOMAIN list
        BY <2>1
    <2> QED BY <2>2, <2>3 DEF RowInView
<1> QED BY <1>1, <1>2

(* The part every handler's proof shares: whatever it does to the tables,  *)
(* the list it leaves is the old one, none, or the one it has just read,   *)
(* and the view it leaves is good for the chat it leaves in view.          *)
LEMMA InvCarries ==
    ASSUME WindowInv, [Next]_dbVars,
           chat_list' \in {chat_list, <<>>, MyChats}, num_of_chats' \in Nat,
           pc' \in Place, adding' \in ChatName \cup {NoName},
           current_chat' \in Nat, current_chat_id' \in Nat,
           shown' \in Seq(Shown), current_chat_messages_size' \in Nat, strays' \in Nat,
           pc' = "linking" => Taken(chats', adding'),
           pc' \in {"closed", "opening"} => /\ shown' = <<>> /\ current_chat_messages_size' = 0
                                            /\ strays' = 0 /\ current_chat' = 1,
           pc' \in {"idle", "linking", "clearing"} =>
             /\ GoodView(HistoryIn(messages', current_chat_id'), shown',
                         current_chat_messages_size', strays')
             /\ RowInView(chat_list, current_chat', current_chat_id', MyChats)
    PROVE  WindowInv'
<1>1. /\ TypeOK' /\ ReferencesResolve'
      /\ MyChats \in Seq(Nat) /\ MyChats' \in Seq(Nat) /\ Extends(MyChats', MyChats)
    BY ReadingsGrow
<1> DEFINE mine == MyChats
           later == MyChats'
           list == chat_list'
<1>2. /\ chat_list \in Seq(Nat) /\ Len(chat_list) <= Len(mine)
      /\ \A k \in DOMAIN chat_list : chat_list[k] = mine[k]
    BY DEF WindowInv, WindowTypeOK, ListIsPrefix
<1>3. /\ mine \in Seq(Nat) /\ later \in Seq(Nat) /\ Len(later) >= Len(mine)
      /\ \A k \in DOMAIN mine : later[k] = mine[k]
    BY <1>1 DEF Extends
<1>4. list \in {chat_list, <<>>, mine} /\ Extends(later, mine)
    BY <1>1
<1> HIDE DEF mine, later, list
<1>5. list \in Seq(Nat) /\ Len(list) <= Len(later) /\ \A k \in DOMAIN list : list[k] = later[k]
    <2>1. CASE list = <<>>
        BY <1>3, <2>1
    <2>2. CASE list = mine
        BY <1>3, <2>2
    <2>3. CASE list = chat_list
        <3>1. \A k \in DOMAIN chat_list : k \in DOMAIN mine
            BY <1>2, <1>3
        <3>2. Len(chat_list) <= Len(later)
            BY <1>2, <1>3
        <3> QED BY <1>2, <1>3, <2>3, <3>1, <3>2
    <2> QED BY <1>4, <2>1, <2>2, <2>3
<1>6. ListIsPrefix'
    BY <1>5 DEF ListIsPrefix, later, list
<1>7. WindowTypeOK'
    BY <1>1, <1>5 DEF WindowTypeOK, list
<1>8. ASSUME NEW row \in Nat, NEW id, RowInView(chat_list, row, id, mine)
      PROVE  RowInView(list, row, id, later)
    BY <1>2, <1>3, <1>4, <1>8, RowStays
<1>9. InView' => /\ GoodView(HistoryIn(messages', current_chat_id'), shown',
                             current_chat_messages_size', strays')
                 /\ RowInView(list, current_chat', current_chat_id', later)
    BY <1>8 DEF InView, mine
<1> QED BY <1>1, <1>6, <1>7, <1>9 DEF WindowInv, list, later

(* Every step keeps the invariant.                                         *)
LEMMA WindowStep == WindowInv /\ [WindowNext]_vars => WindowInv'
<1> SUFFICES ASSUME WindowInv, [WindowNext]_vars PROVE WindowInv'
    OBVIOUS
<1>a. [Next]_dbVars
    BY WindowIsTransaction
<1>b. /\ TypeOK /\ pc \in Place /\ chat_list \in Seq(Nat) /\ num_of_chats \in Nat
      /\ current_chat \in Nat /\ current_chat_id \in Nat
      /\ shown \in Seq(Shown) /\ current_chat_messages_size \in Nat
      /\ adding \in ChatName \cup {NoName} /\ strays \in Nat
    BY DEF WindowInv, WindowTypeOK
<1>c. \A name : Taken(chats, name) => Taken(chats', name)
    BY <1>a, ReadingsGrow
<1>d. MyChats \in Seq(Nat) /\ Len(MyChats) \in Nat
    BY <1>a, ReadingsGrow
<1>e. InView => /\ GoodView(HistoryIn(messages', current_chat_id), shown,
                            current_chat_messages_size, strays)
                /\ RowInView(chat_list, current_chat, current_chat_id, MyChats)
    BY <1>a, <1>b, ViewStaysGood DEF WindowInv
(* Steps that leave the window alone, or end the program. *)
<1>f. CASE UNCHANGED window /\ pc' \in {pc, "gone", "clearing"} /\ (pc' = "clearing" => InView)
    <2>1. /\ chat_list' = chat_list /\ num_of_chats' = num_of_chats
          /\ current_chat' = current_chat /\ current_chat_id' = current_chat_id
          /\ shown' = shown /\ current_chat_messages_size' = current_chat_messages_size
          /\ adding' = adding /\ strays' = strays
        BY <1>f DEF window
    <2>2. pc' = "linking" => Taken(chats', adding')
        BY <1>c, <1>f, <2>1 DEF WindowInv
    <2>3. pc' \in {"closed", "opening"} => pc = pc'
        BY <1>f
    <2>4. pc' \in {"idle", "linking", "clearing"} => InView
        BY <1>f DEF InView
    <2>5. pc' \in Place
        BY <1>b, <1>f DEF Place
    <2> QED BY <1>a, <1>b, <1>e, <2>1, <2>2, <2>3, <2>4, <2>5, InvCarries DEF WindowInv
(* Steps that read a list of chats. *)
<1>g. CASE /\ pc' \in {"idle", "opening"} /\ (pc' = "idle" => InView) /\ (pc' = "opening" => pc = "closed")
           /\ chat_list' \in {chat_list, <<>>, MyChats} /\ num_of_chats' \in Nat
           /\ adding' \in {adding, NoName}
           /\ UNCHANGED <<current_chat, current_chat_id, shown, current_chat_messages_size, strays>>
    <2>1. pc' = "opening" => /\ shown' = <<>> /\ current_chat_messages_size' = 0
                             /\ strays' = 0 /\ current_chat' = 1
        BY <1>g DEF WindowInv
    <2>2. adding' \in ChatName \cup {NoName} /\ pc' \in Place /\ pc' # "linking"
        BY <1>b, <1>g DEF Place
    <2> QED BY <1>a, <1>b, <1>e, <1>g, <2>1, <2>2, InvCarries
<1>0. CASE UNCHANGED vars
    BY <1>0, <1>f DEF vars, InView
<1>1. CASE OpenList
    <2> PICK ans \in ChatAnswers : /\ UpdateChats(ans)
                                   /\ IF ans = Fail THEN Throws
                                      ELSE /\ pc' = "opening" /\ chat_list' = RowsOf(ans)
                                           /\ UNCHANGED <<num_of_chats, current_chat, current_chat_id,
                                                shown, current_chat_messages_size, adding, strays>>
        BY <1>1 DEF OpenList
    <2>1. CASE ans = Fail
        BY <2>1, <1>f DEF Throws
    <2>2. CASE ans # Fail
        <3>1. RowsOf(ans) = MyChats
            BY <2>2 DEF ChatAnswers, MyChats
        <3> QED BY <1>1, <1>b, <1>g, <2>2, <3>1 DEF OpenList
    <2> QED BY <2>1, <2>2
<1>2. CASE TimerChat
    <2> PICK ans \in ChatAnswers :
            LET ids == RowsOf(ans) IN
            /\ UpdateChats(ans)
            /\ IF ans = Fail THEN Throws ELSE
                 /\ chat_list' = IF Differs(num_of_chats, ids) THEN ids ELSE chat_list
                 /\ num_of_chats' = IF Differs(num_of_chats, ids) THEN Len(ids) ELSE num_of_chats
                 /\ UNCHANGED <<pc, current_chat, current_chat_id, shown,
                                current_chat_messages_size, adding, strays>>
        BY <1>2 DEF TimerChat
    <2>1. CASE ans = Fail
        BY <2>1, <1>f DEF Throws
    <2>2. CASE ans # Fail
        <3>1. RowsOf(ans) = MyChats
            BY <2>2 DEF ChatAnswers, MyChats
        <3>2. chat_list' \in {chat_list, MyChats} /\ num_of_chats' \in Nat
            BY <1>b, <1>d, <2>2, <3>1
        <3>3. pc = "idle" /\ pc' = "idle" /\ InView
            BY <1>2, <2>2 DEF TimerChat, InView
        <3> QED BY <1>g, <2>2, <3>2, <3>3
    <2> QED BY <2>1, <2>2
<1>3. CASE ClearList
    <2> PICK ans \in ChatAnswers :
            /\ UpdateChats(ans)
            /\ IF ans = Fail THEN Throws ELSE
                 /\ pc' = "idle" /\ chat_list' = <<>> /\ adding' = NoName
                 /\ UNCHANGED <<num_of_chats, current_chat, current_chat_id, shown,
                                current_chat_messages_size, strays>>
        BY <1>3 DEF ClearList
    <2>1. CASE ans = Fail
        BY <2>1, <1>f DEF Throws
    <2>2. CASE ans # Fail
        BY <1>3, <1>b, <1>g, <2>2 DEF ClearList, InView
    <2> QED BY <2>1, <2>2
(* Steps that read a history. *)
<1>h. ASSUME NEW id \in Nat, NEW row \in Nat, NEW size, NEW view, NEW lost,
             UpdateMessages(id, size, view, lost), pc' # "gone" => current_chat' = row,
             GoodView(HistoryIn(messages, id), view, size, lost),
             RowInView(chat_list, row, id, MyChats)
      PROVE  WindowInv'
    <2>1. /\ UNCHANGED tables
          /\ \/ pc' = "gone" /\ UNCHANGED window
             \/ /\ pc' = "idle" /\ current_chat_id' = id
                /\ UNCHANGED <<num_of_chats, chat_list, adding>>
                /\ GoodView(HistoryIn(messages, id), shown', current_chat_messages_size', strays')
        BY <1>b, <1>h, UpdateShows
    <2>2. CASE pc' = "gone" /\ UNCHANGED window
        BY <1>f, <2>2
    <2>3. CASE /\ pc' = "idle" /\ current_chat_id' = id
               /\ UNCHANGED <<num_of_chats, chat_list, adding>>
               /\ GoodView(HistoryIn(messages, id), shown', current_chat_messages_size', strays')
        <3>1. current_chat' = row /\ current_chat_id' = id /\ messages' = messages
            BY <1>h, <2>1, <2>3 DEF tables
        <3>2. /\ GoodView(HistoryIn(messages', current_chat_id'), shown',
                          current_chat_messages_size', strays')
              /\ RowInView(chat_list, current_chat', current_chat_id', MyChats)
            BY <1>h, <2>3, <3>1
        <3>3. shown' \in Seq(Shown) /\ current_chat_messages_size' \in Nat /\ strays' \in Nat
            BY <2>3 DEF GoodView
        <3>4. current_chat' \in Nat /\ current_chat_id' \in Nat
            BY <3>1
        <3> QED BY <1>a, <1>b, <2>3, <3>2, <3>3, <3>4, InvCarries DEF Place
    <2> QED BY <2>1, <2>2, <2>3
<1>i. ASSUME NEW id PROVE GoodView(HistoryIn(messages, id), <<>>, 0, 0)
    <2> DEFINE rows == HistoryIn(messages, id)
    <2>1. rows \in Seq(Message)
        BY <1>b, HistoryRows DEF TypeOK
    <2> HIDE DEF rows
    <2>2. Bubbles(<<>>) = <<>>
        BY DEF Bubbles
    <2>3. Len(rows) \in Nat /\ (Len(rows) = 0 => rows = <<>>) /\ <<>> \in Seq(Shown)
        BY <2>1
    <2> QED BY <2>2, <2>3 DEF GoodView, rows
<1>j. ASSUME NEW k \in DOMAIN chat_list
      PROVE  k \in Nat /\ chat_list[k] \in Nat /\ RowInView(chat_list, k, chat_list[k], MyChats)
    <2>1. /\ Len(chat_list) <= Len(MyChats)
          /\ chat_list[k] = MyChats[k]
        BY DEF WindowInv, ListIsPrefix
    <2> DEFINE mine == MyChats
    <2>2. mine \in Seq(Nat)
        BY <1>d
    <2> HIDE DEF mine
    <2>3. k \in DOMAIN mine
        BY <1>b, <2>1, <2>2 DEF mine
    <2> QED BY <1>b, <2>1, <2>3 DEF RowInView, mine
<1>4. CASE OpenMessages
    <2>1. /\ pc = "opening" /\ current_chat' = current_chat
          /\ UpdateMessages(ChatOfRow(chat_list, 1), current_chat_messages_size, shown, strays)
        BY <1>4 DEF OpenMessages
    <2>2. /\ shown = <<>> /\ current_chat_messages_size = 0 /\ strays = 0 /\ current_chat' = 1
        BY <2>1 DEF WindowInv
    <2>3. /\ ChatOfRow(chat_list, 1) \in Nat
          /\ RowInView(chat_list, 1, ChatOfRow(chat_list, 1), MyChats)
        BY <1>j DEF ChatOfRow, RowInView
    <2> QED BY <1>h, <1>i, <2>1, <2>2, <2>3
<1>5. CASE TimerMessage
    <2>1. /\ InView /\ current_chat' = current_chat
          /\ UpdateMessages(current_chat_id, current_chat_messages_size, shown, strays)
        BY <1>5 DEF TimerMessage, InView
    <2>2. /\ GoodView(HistoryIn(messages, current_chat_id), shown,
                      current_chat_messages_size, strays)
          /\ RowInView(chat_list, current_chat, current_chat_id, MyChats)
        BY <2>1 DEF WindowInv
    <2> QED BY <1>b, <1>h, <2>1, <2>2
<1>6. ASSUME NEW row \in DOMAIN chat_list, ItemClicked(row) PROVE WindowInv'
    <2>1. /\ UpdateMessages(chat_list[row], 0, <<>>, 0)
          /\ pc' # "gone" => current_chat' = row
        BY <1>6 DEF ItemClicked
    <2> QED BY <1>h, <1>i, <1>j, <2>1
<1>7. ASSUME NEW name \in ChatName, AddChatDialog(name) PROVE WindowInv'
    <2> PICK ans \in {Success, Fail} :
            /\ add_chat(name, ans)
            /\ IF ans = Success THEN pc' = "linking" /\ adding' = name
                                ELSE UNCHANGED <<pc, adding>>
        BY <1>7 DEF AddChatDialog
    <2>1. /\ pc = "idle"
          /\ UNCHANGED <<chat_list, num_of_chats, current_chat, current_chat_id, shown,
                         current_chat_messages_size, strays>>
        BY <1>7 DEF AddChatDialog
    <2>2. CASE ans = Success
        <3>1. chats' = WithRow(chats, chat_seq + 1, name)
            BY <2>2, SuccessIsCommit DEF add_chat
        <3>2. chat_seq + 1 \in DOMAIN chats' /\ chats'[chat_seq + 1] = name
            BY <3>1 DEF WithRow
        <3>3. pc' = "linking" /\ adding' = name /\ Taken(chats', adding')
            BY <2>2, <3>2 DEF Taken
        <3> QED BY <1>a, <1>b, <1>e, <2>1, <3>3, InvCarries DEF InView, Place
    <2>3. CASE ans = Fail
        <3>1. pc' = "idle" /\ adding' = adding
            BY <2>1, <2>3, LiteralsDiffer
        <3> QED BY <1>a, <1>b, <1>e, <2>1, <3>1, InvCarries DEF InView, Place
    <2> QED BY <2>2, <2>3
<1>8. CASE LinkNewChat
    <2>1. pc = "linking"
        BY <1>8 DEF LinkNewChat
    <2>2. CASE pc' = "clearing" /\ UNCHANGED window
        BY <1>f, <2>1, <2>2 DEF InView
    <2>3. CASE Throws
        BY <1>f, <2>3 DEF Throws
    <2> QED BY <1>8, <2>2, <2>3 DEF LinkNewChat
<1>9. ASSUME NEW id, NEW text, OtherMessage(id, text) \/ OtherAddsMe(id) PROVE WindowInv'
    BY <1>9, <1>f DEF OtherMessage, OtherAddsMe, InView
<1>10. ASSUME NEW text \in Text, SendButton(text) PROVE WindowInv'
    <2> DEFINE target == ChatOfRow(chat_list, current_chat)
               bubble == [sender_id |-> me, message_text |-> text]
               row == [chat_id |-> target, sender_id |-> me, message_text |-> text]
               rows == HistoryIn(messages, current_chat_id)
               more == HistoryIn(messages', current_chat_id)
    <2> PICK ans \in {Success, Fail} :
            /\ add_message(target, me, text, ans)
            /\ strays' = IF ans = Fail \/ target # current_chat_id THEN strays + 1 ELSE strays
        BY <1>10 DEF SendButton
    <2>1. /\ pc = "idle" /\ shown' = Append(shown, bubble)
          /\ current_chat_messages_size' = current_chat_messages_size + 1
          /\ UNCHANGED <<pc, chat_list, num_of_chats, current_chat, current_chat_id, adding>>
        BY <1>10 DEF SendButton
    <2>2. /\ target \in Nat /\ row \in Message /\ bubble \in Shown /\ row.chat_id = target
          /\ [sender_id |-> row.sender_id, message_text |-> row.message_text] = bubble
        <3>1. target \in Id /\ me \in Id
            BY IdsAreIds
        <3>2. target \in Nat /\ me \in Nat
            BY <3>1, BoundAssumption DEF Id
        <3> HIDE DEF target
        <3> QED BY <3>2 DEF Message, Shown
    <2>3. /\ Append(shown, bubble) \in Seq(Shown) /\ Len(Append(shown, bubble)) = Len(shown) + 1
          /\ Len(shown) \in Nat
        <3> HIDE DEF bubble
        <3> QED BY <1>b, <2>2, AppendedRow
    <2>4. rows \in Seq(Message) /\ Len(rows) \in Nat
        <3>1. rows \in Seq(Message)
            BY <1>b, HistoryRows DEF TypeOK
        <3> HIDE DEF rows
        <3> QED BY <3>1
    <2>5. GoodView(rows, shown, current_chat_messages_size, strays)
        BY <2>1 DEF WindowInv, InView
    <2>6. strays' \in Nat /\ (strays' = 0 => strays = 0 /\ ans # Fail /\ target = current_chat_id)
        BY <1>b
    <2>7. ASSUME strays' = 0
          PROVE  more = Append(rows, row)
        <3>1. messages' = Append(messages, row)
            BY <2>6, <2>7, SuccessIsCommit DEF add_message
        <3>2. row.chat_id = current_chat_id /\ row \in Message /\ messages \in Seq(Message)
            BY <1>b, <2>2, <2>6, <2>7 DEF TypeOK
        <3> HIDE DEF row
        <3> QED BY <3>1, <3>2, HistoryMoves
    <2>8. ASSUME strays' = 0
          PROVE  /\ Len(more) = Len(rows) + 1
                 /\ Bubbles(more) = Append(Bubbles(rows), bubble)
        <3>1. more = Append(rows, row)
            BY <2>7, <2>8
        <3> HIDE DEF more, rows, row, bubble
        <3> QED BY <2>2, <2>4, <3>1, BubblesGrow, AppendedRow
    <2> HIDE DEF bubble, row, rows, more, target
    <2>9. GoodView(more, shown', current_chat_messages_size', strays')
        <3>1. ASSUME strays' = 0
              PROVE  /\ Len(shown') <= Len(more)
                     /\ Len(shown') = Len(more) => shown' = Bubbles(more)
            <4>1. strays = 0 /\ Len(shown) <= Len(rows) /\ (Len(shown) = Len(rows) => shown = Bubbles(rows))
                BY <2>5, <2>6, <3>1 DEF GoodView
            <4> QED BY <2>1, <2>3, <2>4, <2>8, <3>1, <4>1
        <3>2. current_chat_messages_size' = Len(shown')
            BY <2>1, <2>3, <2>5 DEF GoodView
        <3> QED BY <2>1, <2>3, <2>6, <3>1, <3>2 DEF GoodView
    <2>10. RowInView(chat_list, current_chat, current_chat_id, MyChats)
        BY <2>1 DEF WindowInv, InView
    <2>11. shown' \in Seq(Shown) /\ current_chat_messages_size' \in Nat
        BY <1>b, <2>1, <2>3
    <2>12. current_chat' = current_chat /\ current_chat_id' = current_chat_id
        BY <2>1
    <2>13. GoodView(HistoryIn(messages', current_chat_id'), shown',
                    current_chat_messages_size', strays')
        BY <2>9, <2>12 DEF more
    <2> QED BY <1>a, <1>b, <2>1, <2>6, <2>10, <2>11, <2>12, <2>13, InvCarries DEF Place
<1> QED BY <1>0, <1>1, <1>2, <1>3, <1>4, <1>5, <1>6, <1>7, <1>8, <1>9, <1>10
        DEF WindowNext, Handler

(* The window before its first list.                                       *)
LEMMA WindowStart == WindowInit => WindowInv
<1> SUFFICES ASSUME WindowInit PROVE WindowInv
    OBVIOUS
<1>1. DOMAIN Rooms = 1 .. Len(Rooms) /\ Len(Rooms) \in Nat /\ Rooms \in [DOMAIN Rooms -> ChatName]
    BY WindowAssumption
<1>2. users = <<Me, Other>> /\ DOMAIN users = {1, 2} /\ users \in [DOMAIN users -> UserName]
    BY WindowAssumption DEF WindowInit
<1> DEFINE Good == {l \in Link : l.user_id \in DOMAIN users /\ l.chat_id \in DOMAIN Rooms}
           others == [k \in DOMAIN Rooms |-> [user_id |-> other, chat_id |-> k]]
           mine == <<[user_id |-> me, chat_id |-> 1]>>
<1>3. others \in Seq(Good)
    <2>1. \A k \in 1 .. Len(Rooms) : [user_id |-> other, chat_id |-> k] \in Good
        BY <1>1, <1>2 DEF Link, other
    <2> HIDE DEF Good
    <2>2. others \in [1 .. Len(Rooms) -> Good]
        BY <1>1, <2>1
    <2> QED BY <1>1, <2>2, SeqDef
<1>4. mine \in Seq(Good)
    <2>1. [user_id |-> me, chat_id |-> 1] \in Good
        BY <1>1, <1>2, WindowAssumption DEF Link, me
    <2> HIDE DEF Good
    <2> QED BY <2>1
<1>5. links \in Seq(Good)
    <2>1. mine \o others \in Seq(Good)
        <3> HIDE DEF Good, mine, others
        <3> QED BY <1>3, <1>4, ConcatProperties
    <2> QED BY <1>3, <2>1 DEF WindowInit
<1>6. links \in Seq(Link) /\ \A k \in DOMAIN links : links[k] \in Good
    <2>1. \A k \in DOMAIN links : links[k] \in Good
        <3> HIDE DEF Good
        <3> QED BY <1>5
    <2>2. Good \subseteq Link
        OBVIOUS
    <2> HIDE DEF Good
    <2>3. links \in Seq(Link)
        BY <1>5, <2>2, SeqMonotonic
    <2> QED BY <2>1, <2>3
<1>7. TypeOK
    <2>1. /\ chats = Rooms /\ chat_seq = Len(Rooms) /\ user_seq = 2
          /\ messages = <<>> /\ tokens = <<>> /\ backend = "up"
        BY DEF WindowInit
    <2>2. user_seq \in 0 .. MaxId /\ chat_seq \in 0 .. MaxId
        BY <1>1, <2>1, WindowAssumption, BoundAssumption
    <2>3. DOMAIN users \subseteq 1 .. user_seq /\ DOMAIN chats \subseteq 1 .. chat_seq
        BY <1>1, <1>2, <2>1
    <2>4. chats \in [DOMAIN chats -> ChatName]
        BY <1>1, <2>1
    <2>5. messages \in Seq(Message) /\ tokens \in Seq(TrelloToken)
        BY <2>1
    <2> QED BY <1>2, <1>6, <2>1, <2>2, <2>3, <2>4, <2>5 DEF TypeOK
<1>8. ReferencesResolve
    BY <1>6 DEF ReferencesResolve, Resolves, WindowInit
<1>9. WindowTypeOK
    BY <1>7 DEF WindowInit, WindowTypeOK, Place
<1>10. ListIsPrefix
    <2>1. MyChats \in Seq(Nat)
        BY <1>6, ChatsRows, ListIsBack
    <2> DEFINE list == MyChats
    <2> HIDE DEF list
    <2>2. Len(<<>>) <= Len(list)
        BY <2>1 DEF list
    <2> QED BY <2>2 DEF WindowInit, ListIsPrefix, list
<1> QED BY <1>8, <1>9, <1>10 DEF WindowInit, WindowInv, InView

-----------------------------------------------------------------------------
(* The inductive invariant holds in every state of the window.             *)
LEMMA WindowInvariant == WindowSpec => []WindowInv
<1>1. WindowInit => WindowInv
    BY WindowStart
<1>2. WindowInv /\ [WindowNext]_vars => WindowInv'
    BY WindowStep
<1> QED BY <1>1, <1>2, PTL DEF WindowSpec

(* The members of MainWindow keep their types whatever the handlers, the   *)
(* timers and the other users do.                                          *)
THEOREM WindowTypeCorrect == WindowSpec => []WindowTypeOK
<1>1. WindowInv => WindowTypeOK
    BY DEF WindowInv
<1> QED BY <1>1, WindowInvariant, PTL

(* Each row of the list of chats is the chat of that row of the user's     *)
(* chats: what timer_chat has not yet read is missing at the end only.     *)
THEOREM ListWasTrue == WindowSpec => []ListIsPrefix
<1>1. WindowInv => ListIsPrefix
    BY DEF WindowInv
<1> QED BY <1>1, WindowInvariant, PTL

(* on_sendButton_clicked, which finds the chat by row in a list that       *)
(* timer_chat and the add_chat dialog rebuild, sends to the chat in view.  *)
THEOREM SendsWhereItLooks == WindowSpec => []SendsToViewedChat
<1>1. WindowInv => SendsToViewedChat
    BY WindowInvIsEnough
<1> QED BY <1>1, WindowInvariant, PTL

(* update_messages may compare lengths only: without strays a view as long *)
(* as the history is the history.                                          *)
THEOREM SizesAreEnough == WindowSpec => []SameSizeSameMessages
<1>1. WindowInv => SameSizeSameMessages
    BY WindowInvIsEnough
<1> QED BY <1>1, WindowInvariant, PTL

(* The size remembered counts the bubbles in view, and without strays the  *)
(* view never runs ahead of the stored history.                            *)
THEOREM ViewWasStored == WindowSpec => []ViewIsStored
<1>1. WindowInv => ViewIsStored
    BY WindowInvIsEnough
<1> QED BY <1>1, WindowInvariant, PTL
=============================================================================
