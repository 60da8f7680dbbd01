------------------------------- MODULE Boards -------------------------------
(***************************************************************************)
(* Two members of a chat share Trello boards: the handler of the boards    *)
(* button (src/client/src/mainwindow.cpp:102-127), the window it opens     *)
(* (view_boards.cpp) and its HTTP requests (curl_raii.cpp), for several    *)
(* clients of one server.  A step is one request to the server or to       *)
(* Trello with the local code up to the next.                              *)
(*                                                                         *)
(* Trello is external, modelled from the requests made of it: a token acts *)
(* for the account it was issued to until it is revoked; an account sees   *)
(* the private boards it is on, and the admins of a board may add others.  *)
(* Boards change by the requests of the clients only.                      *)
(***************************************************************************)
EXTENDS Database

CONSTANTS
    User,       \* the users who run a client; one that is logged in
    Names,      \* the users there are: user_id -> user_name
    Rooms,      \* the chats there are: chat_id -> chat_name
    Account, Nobody, Board,
    Owner,      \* Owner[t]: whose token t is; Nobody's if t is mistyped
    Roles       \* what the accounts may be on the boards at the start

ASSUME NamesAssumption ==
    /\ Names \in Seq(UserName) /\ Len(Names) <= MaxId
    /\ Rooms \in Seq(ChatName) /\ Len(Rooms) <= MaxId
ASSUME UserAssumption == User \subseteq DOMAIN Names
ASSUME OwnerAssumption == Owner \in [Token -> Account \cup {Nobody}] /\ Nobody \notin Account
ASSUME RolesAssumption == Roles \subseteq [Board -> [Account -> {"none", "normal", "admin"}]]

VARIABLES
    pc,         \* pc[u]: the request the client of u makes next
    view,       \* view[u]: what its handlers and its board window hold
    role,       \* Trello: role[b][x], what account x is on board b
    revoked     \* Trello: the tokens that work no longer

trello == <<role, revoked>>
vars == <<dbVars, pc, view, trello>>

NoToken == "none"
NoView == [chatter |-> 0, chatter_token |-> NoToken, boards |-> {}, item |-> {},
           user_trello_token |-> NoToken, runs |-> 0, refused |-> FALSE]

BoardsInit ==
    /\ users = Names /\ user_seq = Len(Names)
    /\ chats = Rooms /\ chat_seq = Len(Rooms)
    /\ links = <<>> /\ messages = <<>> /\ tokens = <<>>
    /\ backend = "up"
    /\ pc = [u \in User |-> "main"] /\ view = [u \in User |-> NoView]
    /\ role \in Roles /\ revoked = {}

Go(u, place, v) == pc' = [pc EXCEPT ![u] = place] /\ view' = [view EXCEPT ![u] = v]

(* The process ends: killed, by a network error of curl, or by the parse   *)
(* of FAIL ("gone"); or by what a null token or a response other than 200  *)
(* throws ("thrown").  It may be started again.                            *)
End(u) == Go(u, "gone", NoView)
Throw(u) == Go(u, "thrown", NoView)
Restart(u) == pc[u] \in {"gone", "thrown"} /\ Go(u, "main", NoView) /\ UNCHANGED <<dbVars, trello>>

(* A request of a handler to the server: FAIL is answered by a pop-up and  *)
(* by json::parse, which throws.                                           *)
Ask(u, value, ans) ==
    /\ UNCHANGED trello
    /\ Query(value, ans) /\ (ans = Fail => End(u))

(* curl::save: only the status 200 is taken.                               *)
Save(u, ok, place, v) ==
    /\ UNCHANGED <<dbVars, trello>>
    /\ \/ ok /\ Go(u, place, v)
       \/ ~ ok /\ Throw(u)
       \/ End(u)

Works(t) == t \notin revoked /\ Owner[t] # Nobody
Sees(x, b) == role[b][x] # "none"

-----------------------------------------------------------------------------
(* A definition named "Bad..." is a fault the one after it might have had, *)
(* kept to see that the properties tell the two apart.                     *)
Size(ans) == IF ans = Null THEN 0 ELSE Len(ans.rows)
BadIsPair(ans) == Size(ans) >= 2
IsPair(ans) == Size(ans) = 2
(* The first member that is not the user.                                  *)
Chatter(u, rows) == rows[CHOOSE k \in DOMAIN rows : rows[k] # u /\ \A j \in 1 .. k - 1 : rows[j] = u]
(* What the main window may have in view: no chat, or one of its user's.   *)
(* That the id it remembers is such a one is Session!EnteredByMember's     *)
(* matter, where the list and the clicks are; here the user may have come  *)
(* to any of his chats.                                                    *)
CurrentChat(u) == {0} \cup {i \in DOMAIN chats : Linked(u, i)}

(* The board window is one more window: the main window stays usable. The  *)
(* window of an earlier click stays open too; only the last is kept here.  *)
AskMembers(u, i) == pc[u] \in {"main", "group", "window"} /\
    \E ans \in {get_chat_members(i), Fail} :
        /\ Ask(u, get_chat_members(i), ans)
        /\ \/ ans = Fail
           \/ ans # Fail /\ ~ IsPair(ans) /\ Go(u, "group", view[u])
           \/ /\ ans # Fail /\ IsPair(ans)
              /\ Go(u, "token", [NoView EXCEPT !.chatter = Chatter(u, ans.rows)])
ViewBoards(u) == \E i \in CurrentChat(u) : AskMembers(u, i)

GetChatterToken(u) == pc[u] = "token" /\
    \E ans \in {get_trello_token(view[u].chatter), Fail} :
        /\ Ask(u, get_trello_token(view[u].chatter), ans)
        /\ \/ ans = Fail
           \/ ans = Null /\ Throw(u)
           \/ /\ ans \notin {Fail, Null}
              /\ Go(u, "member", [view[u] EXCEPT !.chatter_token = ans.trello_token])

GetMember(u) == pc[u] = "member" /\
    Save(u, Works(view[u].chatter_token), "boards", view[u])

GetBoards(u) == pc[u] = "boards" /\ LET t == view[u].chatter_token IN
    Save(u, Works(t), "window",
         [view[u] EXCEPT !.boards = {b \in Board : Owner[t] # Nobody /\ Sees(Owner[t], b)}])

(* The slot is connected by setupUi and by hand: a click runs it twice.    *)
ItemClicked(u) == pc[u] = "window" /\ UNCHANGED <<dbVars, trello>> /\
    \E b \in view[u].boards : Go(u, "own token", [view[u] EXCEPT !.item = {b}, !.runs = 1])

GetOwnToken(u) == pc[u] = "own token" /\
    \E ans \in {get_trello_token(u), Fail} :
        /\ Ask(u, get_trello_token(u), ans)
        /\ \/ ans = Fail
           \/ ans = Null /\ Throw(u)
           \/ /\ ans \notin {Fail, Null}
              /\ Go(u, "own member", [view[u] EXCEPT !.user_trello_token = ans.trello_token])

GetOwnMember(u) == pc[u] = "own member" /\
    Save(u, Works(view[u].user_trello_token), "put", view[u])

(* send() does not look at the status: "refused" is what Trello knows.     *)
BadPut(u) == pc[u] = "put" /\ Go(u, "board", view[u]) /\ UNCHANGED <<dbVars, trello>>
Put(u) == pc[u] = "put" /\ UNCHANGED <<dbVars, revoked>> /\
    \E b \in view[u].item :
        LET t == view[u].chatter_token  x == Owner[view[u].user_trello_token]
            granted == Works(t) /\ role[b][Owner[t]] = "admin" IN
        \/ /\ Go(u, "board", [view[u] EXCEPT !.refused = ~ granted])
           /\ role' = IF granted THEN [role EXCEPT ![b] = [@ EXCEPT ![x] = "admin"]] ELSE role
        \/ End(u) /\ UNCHANGED role

(* The board is opened in the browser; then the second run starts. *)
GetBoard(u) == pc[u] = "board" /\
    \E b \in view[u].item : LET t == view[u].user_trello_token  again == view[u].runs = 1 IN
        Save(u, Works(t) /\ Sees(Owner[t], b),
             IF again THEN "own token" ELSE "window",
             [view[u] EXCEPT !.runs = IF again THEN 2 ELSE 0])

(* What others do meanwhile.  A user stores at most one token              *)
(* (Session!OneTokenEach).                                                 *)
LinkMember == \E u \in DOMAIN users, i \in DOMAIN chats, ans \in {Success, Fail} :
    link_user_to_chat(u, i, ans) /\ UNCHANGED <<pc, view, trello>>
StoreToken == \E u \in DOMAIN users, t \in Token, ans \in {Success, Fail} :
    /\ get_trello_token(u) = Null
    /\ set_trello_token(u, t, ans) /\ UNCHANGED <<pc, view, trello>>
Revoke == \E t \in Token \ revoked :
    revoked' = revoked \cup {t} /\ UNCHANGED <<dbVars, pc, view, role>>

Step(u) ==
    \/ Restart(u) \/ ViewBoards(u) \/ GetChatterToken(u) \/ GetMember(u) \/ GetBoards(u)
    \/ ItemClicked(u) \/ GetOwnToken(u) \/ GetOwnMember(u) \/ Put(u) \/ GetBoard(u)
BoardsNext == (\E u \in User : Step(u)) \/ LinkMember \/ StoreToken \/ Revoke
BoardsSpec == BoardsInit /\ [][BoardsNext]_vars

-----------------------------------------------------------------------------
(* get_trello_token(u) answers this account's token. *)
StoredFor(u, x) ==
    LET ans == get_trello_token(u) IN ans # Null /\ Owner[ans.trello_token] = x
(* Chat i had exactly these two members, when it had two. *)
PairOf(i, u, v) ==
    LET ans == get_chat_members(i)
    IN  Size(ans) >= 2 /\ {ans.rows[1], ans.rows[2]} = {u, v}

(* An account comes on a board, or becomes its admin, only by a click of a *)
(* user who has stored a token of it, with the stored token of an admin of *)
(* the board with whom that user was alone in a chat (view_boards.cpp:86-  *)
(* 116): whatever was revoked, stored or linked between the eight requests *)
(* of the two handlers.                                                    *)
JoinsAreShared ==
    [][\A b \in Board, x \in Account : role'[b][x] # role[b][x] =>
          /\ role'[b][x] = "admin"
          /\ \E u \in User, v \in DOMAIN users, i \in DOMAIN chats, y \in Account :
                /\ u # v /\ PairOf(i, u, v)
                /\ StoredFor(u, x) /\ StoredFor(v, y) /\ role[b][y] = "admin"]_vars

(* The handlers check no answer but by throwing.  They end the program for *)
(* a reason in the data only when one of the two has no token stored or    *)
(* one that does not work, or when Trello has refused to let the user in,  *)
(* whose answer nobody reads; and in the second run of a click only when a *)
(* token has been revoked since the first.                                 *)
Unusable(v) == LET ans == get_trello_token(v) IN ans # Null => ~ Works(ans.trello_token)
ThrowsHaveReason ==
    [][\A u \in User : pc[u] # "thrown" /\ pc'[u] = "thrown" =>
          /\ Unusable(u) \/ Unusable(view[u].chatter) \/ view[u].refused
          /\ view[u].runs = 2 => view[u].user_trello_token \in revoked]_vars

(* "Trello View is not available for group chats."  (mainwindow.cpp:124)   *)
(* is shown for chats of more than two, of those the user is in.           *)
GroupMeansGroup ==
    [][\A u \in User, i \in DOMAIN chats :
          Linked(u, i) /\ AskMembers(u, i) /\ pc[u] # "group" /\ pc'[u] = "group" =>
              Size(get_chat_members(i)) > 2]_vars
=============================================================================
