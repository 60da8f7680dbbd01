----------------------------- MODULE ChatWindow -----------------------------
(***************************************************************************)
(* The main window of one user (src/client/src/mainwindow.cpp) over the    *)
(* database the other users write to: the list of chats, the messages of   *)
(* the chat in view, the two 60 ms timers that poll the server, sending,   *)
(* and the part of the add_chat dialog that touches the window.            *)
(*                                                                         *)
(* The handlers run one after another in the GUI thread; between the calls *)
(* of one handler the server handles the others' calls.  Names and ids     *)
(* never change once stored (AppendOnly), so the calls that look them up   *)
(* are part of the step that needs them; each may FAIL like any other.     *)
(***************************************************************************)
EXTENDS Database

CONSTANTS
    Me, Other,      \* the user of the window, and everybody else
    Rooms,          \* the chats there are when the window opens
    MaxMessages     \* bound: messages stored, and in view, when another is sent

ASSUME WindowAssumption ==
    /\ Me \in UserName /\ Other \in UserName /\ Me # Other
    /\ Rooms \in Seq(ChatName) /\ Len(Rooms) \in 1 .. MaxId
    /\ \A i, j \in DOMAIN Rooms : Rooms[i] = Rooms[j] => i = j
    /\ MaxId >= 2 /\ MaxMessages \in Nat

VARIABLES
    pc,             \* the handler that is under way
    chat_list,      \* listWidget_2: the chat id of each row
    num_of_chats,   \* how many rows the list had when it was last rebuilt
    current_chat,   \* the row clicked last, counted from 1
    current_chat_id,            \* the chat the message timer polls
    shown,                      \* listWidget: the messages in view
    current_chat_messages_size, \* how many messages the view is taken to have
    adding,         \* the name the add_chat dialog has just added
    strays          \* messages in view that were refused or went elsewhere

window == <<chat_list, num_of_chats, current_chat, current_chat_id, shown,
            current_chat_messages_size, adding, strays>>
vars == <<dbVars, pc, window>>

me == 1
other == 2
NoName == "none"
Place == {"closed", "opening", "idle", "linking", "clearing", "gone"}
Shown == [sender_id : Nat, message_text : Text]

(* The members of MainWindow (mainwindow.h:55-61) and the rows of its two  *)
(* lists.                                                                  *)
WindowTypeOK ==
    /\ TypeOK
    /\ pc \in Place
    /\ chat_list \in Seq(Nat) /\ num_of_chats \in Nat
    /\ current_chat \in Nat /\ current_chat_id \in Nat
    /\ shown \in Seq(Shown) /\ current_chat_messages_size \in Nat
    /\ adding \in ChatName \cup {NoName}
    /\ strays \in Nat

(* The chats exist and the others are in them; the user is in the first    *)
(* one, or, ended half-way in registration, in none.                       *)
WindowInit ==
    /\ users = <<Me, Other>> /\ user_seq = 2
    /\ chats = Rooms /\ chat_seq = Len(Rooms)
    /\ LET others == [k \in DOMAIN Rooms |-> [user_id |-> other, chat_id |-> k]]
       IN  links \in {others, <<[user_id |-> me, chat_id |-> 1]>> \o others}
    /\ messages = <<>> /\ tokens = <<>> /\ backend = "up"
    /\ pc = "closed"
    /\ chat_list = <<>> /\ num_of_chats = 0
    /\ current_chat = 1 /\ current_chat_id = 0
    /\ shown = <<>> /\ current_chat_messages_size = 0
    /\ adding = NoName /\ strays = 0

RowsOf(ans) == IF ans = Null THEN <<>> ELSE ans.rows
(* icon_to_chat_id[listWidget_2->item(row)]: of no item it is a fresh 0. *)
ChatOfRow(list, row) == IF row \in DOMAIN list THEN list[row] ELSE 0
(* A definition named "Bad..." is a fault the one after it might have had, *)
(* kept to see that the properties tell the two apart.                     *)
BadBubbles(rows) == rows
Bubbles(rows) == [k \in DOMAIN rows |-> [sender_id |-> rows[k].sender_id,
                                         message_text |-> rows[k].message_text]]

(* What is drawn is drawn again when its size is not that of the answer. *)
BadDiffers(size, rows) == size + 1 < Len(rows)
Differs(size, rows) == size # Len(rows)

(* json::parse("FAIL") throws out of the handler and of main's exec(). *)
Throws == pc' = "gone" /\ UNCHANGED window

-----------------------------------------------------------------------------
(* update_chats: the ids listed, each with its name, unless a call FAILs. *)
ChatAnswers == {get_chat_list(me), Fail}
UpdateChats(ans) == Query(get_chat_list(me), ans)

(* update_messages(chat_id), called with the view and its size as they are *)
(* by then: nothing is drawn again unless the number of messages differs.  *)
UpdateMessages(id, size, view, lost) == \E ans \in {get_chat_history(id), Fail} :
    /\ Query(get_chat_history(id), ans)
    /\ LET rows == RowsOf(ans)
           differs == Differs(size, rows)
       IN  IF ans = Fail THEN Throws
           ELSE /\ pc' = "idle"
                /\ shown' = IF differs THEN Bubbles(rows) ELSE view
                /\ current_chat_messages_size' = IF differs THEN Len(rows) ELSE size
                /\ strays' = IF differs THEN 0 ELSE lost
                /\ current_chat_id' = id
                /\ UNCHANGED <<num_of_chats, chat_list, adding>>

(* The constructor: lines 48-50, then 51-54. *)
OpenList ==
    /\ pc = "closed"
    /\ \E ans \in ChatAnswers :
          /\ UpdateChats(ans)
          /\ IF ans = Fail THEN Throws ELSE
              /\ pc' = "opening" /\ chat_list' = RowsOf(ans)
              /\ UNCHANGED <<num_of_chats, current_chat, current_chat_id, shown,
                             current_chat_messages_size, adding, strays>>

OpenMessages ==
    /\ pc = "opening"
    /\ UpdateMessages(ChatOfRow(chat_list, 1), current_chat_messages_size, shown, strays)
    /\ UNCHANGED current_chat

BadTimerChat ==            \* rows are added to the list, which is not cleared
    /\ pc = "idle"
    /\ \E ans \in ChatAnswers : LET ids == RowsOf(ans) IN
          /\ UpdateChats(ans)
          /\ IF ans = Fail THEN Throws ELSE
              /\ chat_list' = IF num_of_chats # Len(ids) THEN chat_list \o ids ELSE chat_list
              /\ num_of_chats' = Len(ids)
              /\ UNCHANGED <<pc, current_chat, current_chat_id, shown,
                             current_chat_messages_size, adding, strays>>

(* timer_chat *)
TimerChat ==
    /\ pc = "idle"
    /\ \E ans \in ChatAnswers : LET ids == RowsOf(ans) IN
          /\ UpdateChats(ans)
          /\ IF ans = Fail THEN Throws ELSE
              /\ chat_list' = IF Differs(num_of_chats, ids) THEN ids ELSE chat_list
              /\ num_of_chats' = IF Differs(num_of_chats, ids) THEN Len(ids) ELSE num_of_chats
              /\ UNCHANGED <<pc, current_chat, current_chat_id, shown,
                             current_chat_messages_size, adding, strays>>

(* timer_message *)
TimerMessage ==
    /\ pc = "idle"
    /\ UpdateMessages(current_chat_id, current_chat_messages_size, shown, strays)
    /\ UNCHANGED current_chat

BadItemClickedRow(row) ==
    /\ pc = "idle"
    /\ UpdateMessages(chat_list[row], 0, <<>>, 0) /\ UNCHANGED current_chat
BadItemClickedSize(row) ==
    /\ pc = "idle"
    /\ UpdateMessages(chat_list[row], current_chat_messages_size, <<>>, 0)
    /\ IF pc' = "gone" THEN TRUE ELSE current_chat' = row

(* on_listWidget_2_itemClicked *)
ItemClicked(row) ==
    /\ pc = "idle"
    /\ UpdateMessages(chat_list[row], 0, <<>>, 0)
    /\ IF pc' = "gone" THEN TRUE ELSE current_chat' = row

BadSendButton(text) ==     \* the message is shown and not counted
    /\ pc = "idle" /\ Len(shown) < MaxMessages /\ Len(messages) < MaxMessages
    /\ \E ans \in {Success, Fail} :
          add_message(ChatOfRow(chat_list, current_chat), me, text, ans)
    /\ shown' = Append(shown, [sender_id |-> me, message_text |-> text])
    /\ UNCHANGED <<pc, chat_list, num_of_chats, current_chat, current_chat_id,
                   current_chat_messages_size, adding, strays>>

(* sendButton: the message is shown and counted whatever the answer is. *)
SendButton(text) ==
    /\ pc = "idle" /\ Len(shown) < MaxMessages /\ Len(messages) < MaxMessages
    /\ LET target == ChatOfRow(chat_list, current_chat) IN
       \E ans \in {Success, Fail} :
          /\ add_message(target, me, text, ans)
          /\ strays' = IF ans = Fail \/ target # current_chat_id THEN strays + 1 ELSE strays
    /\ shown' = Append(shown, [sender_id |-> me, message_text |-> text])
    /\ current_chat_messages_size' = current_chat_messages_size + 1
    /\ UNCHANGED <<pc, chat_list, num_of_chats, current_chat, current_chat_id, adding>>

(* The add_chat dialog: add_chat; get_chat_id and link_user_to_chat; then  *)
(* the list is cleared and update_chats called.                            *)
AddChatDialog(name) ==
    /\ pc = "idle"
    /\ \E ans \in {Success, Fail} :
          /\ add_chat(name, ans)
          /\ IF ans = Success THEN pc' = "linking" /\ adding' = name
                              ELSE UNCHANGED <<pc, adding>>
    /\ UNCHANGED <<chat_list, num_of_chats, current_chat, current_chat_id, shown,
                   current_chat_messages_size, strays>>

LinkNewChat ==
    /\ pc = "linking"
    /\ \/ /\ \E ans \in {Success, Fail} : link_user_to_chat(me, get_chat_id(adding).chat_id, ans)
          /\ pc' = "clearing" /\ UNCHANGED window
       \/ Query(get_chat_id(adding), Fail) /\ Throws

ClearList ==
    /\ pc = "clearing"
    /\ \E ans \in ChatAnswers :
          /\ UpdateChats(ans)
          /\ IF ans = Fail THEN Throws ELSE
              /\ pc' = "idle" /\ chat_list' = <<>> /\ adding' = NoName
              /\ UNCHANGED <<num_of_chats, current_chat, current_chat_id, shown,
                             current_chat_messages_size, strays>>

(* Everybody else: they write to the chats they are in and add the user    *)
(* to them (EnteredByMember in Session).                                   *)
OtherMessage(id, text) ==
    /\ Linked(other, id) /\ Len(messages) < MaxMessages
    /\ \E ans \in {Success, Fail} : add_message(id, other, text, ans)
    /\ UNCHANGED <<pc, window>>
OtherAddsMe(id) ==
    /\ Linked(other, id) /\ ~ Linked(me, id)
    /\ \E ans \in {Success, Fail} : link_user_to_chat(me, id, ans)
    /\ UNCHANGED <<pc, window>>

Handler ==
    \/ OpenList \/ OpenMessages \/ TimerChat \/ TimerMessage
    \/ \E row \in DOMAIN chat_list : ItemClicked(row)
    \/ \E text \in Text : SendButton(text)
    \/ \E name \in ChatName : AddChatDialog(name)
    \/ LinkNewChat \/ ClearList

WindowNext ==
    \/ Handler
    \/ \E id \in DOMAIN chats, text \in Text : OtherMessage(id, text)
    \/ \E id \in DOMAIN chats : OtherAddsMe(id)

WindowSpec == WindowInit /\ [][WindowNext]_vars

(* The event loop keeps running what it has begun and its two timers; a    *)
(* FAIL is only bound to come of a backend that is lost.                   *)
NoFailForced == pc' = "gone" => backend = "lost"
FairWindowSpec ==
    /\ WindowSpec
    /\ WF_vars(OpenList /\ NoFailForced) /\ WF_vars(OpenMessages /\ NoFailForced)
    /\ WF_vars(TimerChat /\ NoFailForced) /\ WF_vars(TimerMessage /\ NoFailForced)
    /\ WF_vars(LinkNewChat /\ NoFailForced) /\ WF_vars(ClearList /\ NoFailForced)

-----------------------------------------------------------------------------
MyChats == RowsOf(get_chat_list(me))
History == RowsOf(get_chat_history(current_chat_id))
InView == pc \in {"idle", "linking", "clearing"}

(* The chat a message is sent to, which is looked up by row, is the chat   *)
(* in view, which is remembered by id (mainwindow.cpp:71 and 143): the     *)
(* rows are rebuilt under the selection, but only ever grow at the end.    *)
(* The list can be empty for a moment, and a window opened on an empty     *)
(* list has no chat in view until one is clicked.                          *)
SendsToViewedChat ==
    InView /\ chat_list # <<>> /\ current_chat_id # 0 =>
        ChatOfRow(chat_list, current_chat) = current_chat_id

(* The list is always one that was true: each of its rows is the chat of   *)
(* that row of the user's chats.                                           *)
ListIsPrefix ==
    /\ Len(chat_list) <= Len(MyChats)
    /\ \A k \in DOMAIN chat_list : chat_list[k] = MyChats[k]

(* Comparing sizes is enough (mainwindow.cpp:185): while no message in     *)
(* view is a stray, a view as long as the history is the history.          *)
SameSizeSameMessages ==
    InView /\ strays = 0 /\ current_chat_messages_size = Len(History) =>
        shown = Bubbles(History)

(* The size remembered is the number of messages in view, and without      *)
(* strays the view never runs ahead of what is stored.                     *)
ViewIsStored ==
    InView => /\ current_chat_messages_size = Len(shown)
              /\ strays = 0 => Len(shown) <= Len(History)

(* Every message reaches the view of a user who stays in a chat: the view  *)
(* is the history again and again, unless it holds a message of his own    *)
(* that was refused or went elsewhere.                                     *)
ViewCatchesUp ==
    []<>(pc = "gone" \/ strays > 0 \/ (InView /\ shown = Bubbles(History)))

(* Every chat the user is put into reaches his list (mainwindow.cpp:132),  *)
(* unless a link of his own fails: the dialog then empties a list whose    *)
(* length, for all the timer can see, has not changed.                     *)
LinkFailed == pc = "clearing" /\ ~ Linked(me, get_chat_id(adding).chat_id)
ListCatchesUp == <>LinkFailed \/ []<>(pc = "gone" \/ chat_list = MyChats)
=============================================================================
