---------------------------- MODULE BoardsProofs ----------------------------
(***************************************************************************)
(* Theorems about the sharing of Trello boards, for every set of users,    *)
(* chats, accounts, boards and tokens, every choice of faults and every    *)
(* distribution of the roles: who comes on a board, and what ends the      *)
(* program.                                                                *)
(*                                                                         *)
(* The two handlers make eight requests and remember what each has         *)
(* answered; others store, link and revoke between any two.  The invariant *)
(* says of each point of the handlers which of the remembered answers are  *)
(* still true there.                                                       *)
(***************************************************************************)
EXTENDS Boards, DatabaseProofs

(* The points of the handlers after the chatter, his token and the user's  *)
(* own token are known.                                                    *)
HasOwnToken == {"own member", "put", "board"}
HasToken == {"member", "boards", "window", "own token"} \cup HasOwnToken
HasChatter == {"token"} \cup HasToken
Place == {"main", "group", "gone", "thrown"} \cup HasChatter

View == [chatter : Nat, chatter_token : Token \cup {NoToken}, boards : SUBSET Board,
         item : SUBSET Board, user_trello_token : Token \cup {NoToken}, runs : 0 .. 2,
         refused : BOOLEAN]

BoardsTypeOK ==
    /\ TypeOK /\ users = Names /\ chats = Rooms
    /\ pc \in [User -> Place] /\ view \in [User -> View]
    /\ role \in [Board -> [Account -> {"none", "normal", "admin"}]]
    /\ revoked \subseteq Token

(* What the server has told the handlers of user u at point p, with the    *)
(* view w, and would tell them again.                                      *)
Told(u, p, w) ==
    /\ p \in HasChatter => /\ w.chatter # u /\ w.chatter \in DOMAIN users
                           /\ \E i \in DOMAIN chats : PairOf(i, u, w.chatter)
    /\ p \in HasToken => /\ w.chatter_token \in Token
                         /\ get_trello_token(w.chatter) = [trello_token |-> w.chatter_token]
    /\ p \in HasOwnToken \/ w.runs = 2 =>
         /\ w.user_trello_token \in Token
         /\ get_trello_token(u) = [trello_token |-> w.user_trello_token]

(* What Trello has told them, under the roles r.                           *)
OnBoard(w, r) == \A b \in w.item : r[b][Owner[w.user_trello_token]] # "none"
Learnt(p, w, r) ==
    /\ \A a, b \in w.item : a = b
    /\ p \in {"put", "board"} \/ w.runs = 2 => Owner[w.user_trello_token] # Nobody
    /\ p = "board" => w.refused \/ OnBoard(w, r)
    /\ w.runs = 2 => p \in {"own token"} \cup HasOwnToken /\ OnBoard(w, r)

BoardsInv ==
    /\ BoardsTypeOK /\ ReferencesResolve /\ LinksDistinct
    /\ \A u \in User : Told(u, pc[u], view[u]) /\ Learnt(pc[u], view[u], role)

-----------------------------------------------------------------------------
(* The members of a chat as the handlers read them.                        *)
LEMMA MembersAreBack ==
    ASSUME NEW i
    PROVE  LET list == MembersIn(links, i) IN
           /\ get_chat_members(i) # Fail /\ Size(get_chat_members(i)) = Len(list)
           /\ list # <<>> => get_chat_members(i).rows = list
<1> DEFINE list == MembersIn(links, i)
<1>1. get_chat_members(i) = Rows(list)
    BY AnswersAreLists
<1> HIDE DEF list
<1> QED BY <1>1, ListIsRead DEF Size, Rows, list

(* get_trello_token answers null or a row.                                 *)
LEMMA TokenAnswers ==
    /\ \A u : get_trello_token(u) = TokenIn(tokens, u) /\ get_trello_token(u)' = TokenIn(tokens', u)
    /\ \A t : [trello_token |-> t] # Null /\ [trello_token |-> t] # Fail /\ Null # Fail
<1>1. \A u : get_trello_token(u) = TokenIn(tokens, u) /\ get_trello_token(u)' = TokenIn(tokens', u)
    BY DEF get_trello_token
<1>2. ASSUME NEW t
      PROVE  [trello_token |-> t] # Null /\ [trello_token |-> t] # Fail /\ Null # Fail
    <2>1. DOMAIN Null = {"empty"} /\ DOMAIN Fail = {"error"} /\ DOMAIN [trello_token |-> t] = {"trello_token"}
        BY DEF Null, Fail
    <2> QED BY <2>1
<1> QED BY <1>1, <1>2

(* viewBoards picks the other of two: the list of a pair names the user    *)
(* and one more.                                                           *)
LEMMA ChatterIsOther ==
    ASSUME TypeOK, ReferencesResolve, LinksDistinct, NEW u, NEW i \in CurrentChat(u),
           IsPair(get_chat_members(i))
    PROVE  LET c == Chatter(u, get_chat_members(i).rows) IN
           /\ c # u /\ c \in DOMAIN users
           /\ i \in DOMAIN chats /\ PairOf(i, u, c)
<1> DEFINE list == MembersIn(links, i)
<1>0. links \in Seq(Link) /\ DOMAIN chats \subseteq Nat \ {0}
    BY DEF TypeOK
<1>1. /\ list \in Seq(Nat)
      /\ \A j \in DOMAIN list : \E k \in DOMAIN links :
            links[k].chat_id = i /\ links[k].user_id = list[j]
      /\ \A k \in DOMAIN links : links[k].chat_id = i => \E j \in DOMAIN list : list[j] = links[k].user_id
      /\ \A j, k \in DOMAIN list : list[j] = list[k] => j = k
    <2>1. \A j, k \in DOMAIN links : links[j] = links[k] => j = k
        BY DEF LinksDistinct
    <2> QED BY <1>0, <2>1, MembersRows
<1>2. Len(list) = 2 /\ list # <<>> /\ get_chat_members(i).rows = list /\ Size(get_chat_members(i)) = 2
    <2>1. Len(list) = 2 /\ Size(get_chat_members(i)) = 2
        BY MembersAreBack DEF IsPair
    <2>2. list # <<>>
        <3> HIDE DEF list
        <3> QED BY <2>1
    <2> QED BY <2>1, <2>2, MembersAreBack
<1> HIDE DEF list
<1>3. DOMAIN list = {1, 2}
    BY <1>1, <1>2
<1>4. list[1] # list[2]
    BY <1>1, <1>3
<1>5. \A j \in {1, 2} : list[j] \in DOMAIN users /\ i \in DOMAIN chats
    BY <1>1, <1>3 DEF ReferencesResolve, Resolves
<1>6. \E j \in {1, 2} : list[j] = u
    <2>1. Linked(u, i)
        BY <1>0, <1>5 DEF CurrentChat
    <2> PICK k \in DOMAIN links : links[k] = [user_id |-> u, chat_id |-> i]
        BY <2>1 DEF Linked
    <2>2. links[k].chat_id = i /\ links[k].user_id = u
        OBVIOUS
    <2> QED BY <1>1, <1>3, <2>2
<1> DEFINE Q(k) == list[k] # u /\ \A j \in 1 .. k - 1 : list[j] = u
           other == CHOOSE k \in DOMAIN list : Q(k)
<1>7. \E k \in DOMAIN list : Q(k)
    <2>1. CASE list[1] # u
        BY <1>3, <2>1
    <2>2. CASE list[1] = u
        <3>1. list[2] # u /\ 1 .. 2 - 1 = {1}
            BY <1>4, <2>2
        <3> QED BY <1>3, <2>2, <3>1
    <2> QED BY <2>1, <2>2
<1>8. other \in {1, 2} /\ list[other] # u
    <2>1. other \in DOMAIN list /\ Q(other)
        <3> HIDE DEF Q
        <3> QED BY <1>7
    <2> QED BY <1>3, <2>1
<1>9. Chatter(u, get_chat_members(i).rows) = list[other]
    BY <1>2 DEF Chatter
<1> HIDE DEF other, Q
<1>10. {list[1], list[2]} = {u, list[other]}
    BY <1>4, <1>6, <1>8
<1> QED BY <1>2, <1>5, <1>8, <1>9, <1>10 DEF PairOf

-----------------------------------------------------------------------------
(* What the server has told a client stays true: users, pairs and oldest   *)
(* tokens are for ever.                                                    *)
LEMMA ToldStays ==
    ASSUME TypeOK, [Next]_dbVars, users' = users, chats' = chats,
           NEW u, NEW p, NEW w, Told(u, p, w)
    PROVE  Told(u, p, w)'
<1>1. /\ links \in Seq(Link) /\ tokens \in Seq(TrelloToken)
      /\ links' = links \/ \E r \in Link : links' = Append(links, r)
      /\ tokens' = tokens \/ \E r \in TrelloToken : tokens' = Append(tokens, r)
    BY RowsMove DEF TypeOK
<1>2. ASSUME NEW i, NEW v, PairOf(i, u, v) PROVE PairOf(i, u, v)'
    <2> DEFINE list == MembersIn(links, i)
               more == MembersIn(links', i)
    <2>1. CASE links' = links
        BY <1>2, <2>1 DEF PairOf, get_chat_members
    <2>2. ASSUME NEW r \in Link, links' = Append(links, r) PROVE PairOf(i, u, v)'
        <3>1. list \in Seq(Nat) /\ more \in Seq(Nat) /\ Extends(more, list)
            <4>1. links' \in Seq(Link)
                BY <1>1, <2>2, AppendedRow
            <4> QED BY <1>1, <2>2, <4>1, MembersRows, ListsGrow
        <3>2. Len(list) >= 2 /\ (list # <<>> => {list[1], list[2]} = {u, v})
            BY <1>2, MembersAreBack DEF PairOf
        <3>3. get_chat_members(i)' = Rows(more)
            BY DEF get_chat_members
        <3> HIDE DEF list, more
        <3>4. list # <<>>
            BY <3>1, <3>2
        <3>5. Len(more) >= 2 /\ more[1] = list[1] /\ more[2] = list[2]
            BY <3>1, <3>2 DEF Extends
        <3>6. more # <<>>
            BY <3>1, <3>5
        <3>7. get_chat_members(i)'.rows = more /\ get_chat_members(i)' # Null
            BY <3>3, <3>6, ListIsRead
        <3>8. Size(get_chat_members(i)') >= 2
            BY <3>5, <3>7 DEF Size
        <3>9. {more[1], more[2]} = {u, v}
            BY <3>2, <3>4, <3>5
        <3> QED BY <3>7, <3>8, <3>9 DEF PairOf, Size
    <2> QED BY <1>1, <2>1, <2>2
<1>3. ASSUME NEW v, NEW t, get_trello_token(v) = [trello_token |-> t]
      PROVE  get_trello_token(v)' = [trello_token |-> t]
    <2>1. CASE tokens' = tokens
        BY <1>3, <2>1, TokenAnswers
    <2>2. ASSUME NEW r \in TrelloToken, tokens' = Append(tokens, r)
          PROVE  get_trello_token(v)' = [trello_token |-> t]
        <3>1. TokenIn(tokens, v) # Null /\ TokenIn(tokens, v) = [trello_token |-> t]
            BY <1>3, TokenAnswers
        <3>2. TokenIn(tokens', v) = TokenIn(tokens, v)
            BY <1>1, <2>2, <3>1, TokenStays
        <3> QED BY <3>1, <3>2, TokenAnswers
    <2> QED BY <1>1, <2>1, <2>2
<1>4. p \in HasChatter => /\ w.chatter # u /\ w.chatter \in DOMAIN users'
                          /\ \E i \in DOMAIN chats' : PairOf(i, u, w.chatter)'
    BY <1>2 DEF Told
<1>5. p \in HasToken => /\ w.chatter_token \in Token
                        /\ get_trello_token(w.chatter)' = [trello_token |-> w.chatter_token]
    BY <1>3 DEF Told
<1>6. p \in HasOwnToken \/ w.runs = 2 =>
         /\ w.user_trello_token \in Token
         /\ get_trello_token(u)' = [trello_token |-> w.user_trello_token]
    BY <1>3 DEF Told
<1> QED BY <1>4, <1>5, <1>6 DEF Told

(* A role, once an account has one, is not taken from it.                  *)
RolesGrow(r, s) ==
    \A b \in Board, x \in Account : s[b][x] # r[b][x] => s[b][x] = "admin"

(* So what Trello has told the handlers stays true as well.                *)
LEMMA LearntStays ==
    ASSUME NEW p, NEW w \in View, NEW r, NEW s, RolesGrow(r, s), Learnt(p, w, r),
           p \in {"board"} \/ w.runs = 2 => w.user_trello_token \in Token
    PROVE  Learnt(p, w, s)
<1>1. ASSUME OnBoard(w, r), p \in {"board"} \/ w.runs = 2 PROVE OnBoard(w, s)
    <2>1. Owner[w.user_trello_token] \in Account
        BY <1>1, OwnerAssumption DEF Learnt
    <2>2. w.item \subseteq Board
        BY DEF View
    <2> QED BY <1>1, <2>1, <2>2 DEF OnBoard, RolesGrow
<1> QED BY <1>1 DEF Learnt

-----------------------------------------------------------------------------
(* Every step is a transaction of Database or touches no table, and none   *)
(* makes a user or a chat.                                                 *)
LEMMA BoardsIsTransaction ==
    ASSUME BoardsInv, [BoardsNext]_vars
    PROVE  [Next]_dbVars /\ users' = users /\ chats' = chats
<1>0. DOMAIN users \subseteq Id /\ DOMAIN chats \subseteq Id
    BY BoundAssumption DEF BoardsInv, BoardsTypeOK, TypeOK, Id
<1>a. ASSUME NEW value, NEW ans, Query(value, ans)
      PROVE  [Next]_dbVars /\ users' = users /\ chats' = chats
    <2>1. [Next]_dbVars
        BY <1>a, QueryIsRead
    <2> QED BY <1>a, <2>1 DEF Query, Unreachable, tables, dbVars
<1>1. CASE UNCHANGED dbVars
    BY <1>1 DEF dbVars
<1>2. CASE LinkMember
    <2> PICK u \in DOMAIN users, i \in DOMAIN chats, ans \in {Success, Fail} :
            link_user_to_chat(u, i, ans)
        BY <1>2 DEF LinkMember
    <2> QED BY <1>0 DEF Next, LinkUserToChat, link_user_to_chat
<1>3. CASE StoreToken
    <2> PICK u \in DOMAIN users, t \in Token, ans \in {Success, Fail} :
            set_trello_token(u, t, ans)
        BY <1>3 DEF StoreToken
    <2> QED BY <1>0 DEF Next, SetTrelloToken, set_trello_token
<1>4. ASSUME NEW u \in User, Step(u)
      PROVE  [Next]_dbVars /\ users' = users /\ chats' = chats
    <2>1. CASE ViewBoards(u) \/ GetChatterToken(u) \/ GetOwnToken(u)
        BY <1>a, <2>1 DEF ViewBoards, AskMembers, GetChatterToken, GetOwnToken, Ask
    <2>2. CASE ~ (ViewBoards(u) \/ GetChatterToken(u) \/ GetOwnToken(u))
        BY <1>1, <1>4, <2>2
        DEF Step, Restart, GetMember, GetBoards, ItemClicked, GetOwnMember, Put, GetBoard, Save
    <2> QED BY <2>1, <2>2
<1> QED BY <1>1, <1>2, <1>3, <1>4 DEF BoardsNext, Revoke, vars

(* The part every step's proof shares: the tables keep what they must, and *)
(* if what every client holds from now on is true, the invariant is kept.  *)
LEMMA BoardsInvCarries ==
    ASSUME BoardsInv, [Next]_dbVars, users' = users, chats' = chats,
           pc' \in [User -> Place], view' \in [User -> View],
           role' \in [Board -> [Account -> {"none", "normal", "admin"}]], revoked' \subseteq Token,
           \A x \in User : Told(x, pc'[x], view'[x]) /\ Learnt(pc'[x], view'[x], role')
    PROVE  BoardsInv'
<1>1. TypeOK /\ TypeOK' /\ ReferencesResolve'
    BY TypeStep, ReferencesStep DEF BoardsInv, BoardsTypeOK
<1>2. LinksDistinct'
    <2>1. CASE NewLink
        BY <1>1, <2>1, DistinctLinks DEF BoardsInv
    <2>2. CASE UNCHANGED links
        BY <2>2 DEF BoardsInv, LinksDistinct
    <2> QED BY <1>1, <2>1, <2>2, StepShape
            DEF Shape, NoRow, NewUser, NewChat, NewMessage, NewToken, tables
<1>3. BoardsTypeOK'
    BY <1>1 DEF BoardsInv, BoardsTypeOK
<1>4. ASSUME NEW x \in User
      PROVE  Told(x, pc[x], view[x])' /\ Learnt(pc[x], view[x], role)'
    <2> PICK p \in Place : p = pc'[x]
        OBVIOUS
    <2> PICK w \in View : w = view'[x]
        OBVIOUS
    <2>1. Told(x, p, w) /\ Learnt(p, w, role')
        OBVIOUS
    <2>2. Told(x, p, w)'
        BY <1>1, <2>1, ToldStays
    <2>3. Told(x, pc[x], view[x])'
        BY <2>2 DEF Told
    <2>4. Learnt(pc[x], view[x], role)'
        BY <2>1 DEF Learnt, OnBoard
    <2> QED BY <2>3, <2>4
<1> QED BY <1>1, <1>2, <1>3, <1>4 DEF BoardsInv

(* A step of one client: the others hold what they held.                   *)
LEMMA ClientMoves ==
    ASSUME BoardsInv, [Next]_dbVars, users' = users, chats' = chats,
           NEW u \in User, NEW place \in Place, NEW v \in View, Go(u, place, v),
           role' \in [Board -> [Account -> {"none", "normal", "admin"}]],
           RolesGrow(role, role'), revoked' \subseteq Token,
           Told(u, place, v), Learnt(place, v, role')
    PROVE  BoardsInv'
<1>1. /\ pc \in [User -> Place] /\ view \in [User -> View]
      /\ pc' = [pc EXCEPT ![u] = place] /\ view' = [view EXCEPT ![u] = v]
    BY DEF BoardsInv, BoardsTypeOK, Go
<1>2. ASSUME NEW x \in User
      PROVE  Told(x, pc'[x], view'[x]) /\ Learnt(pc'[x], view'[x], role')
    <2>1. CASE x = u
        <3>1. pc'[x] = place /\ view'[x] = v
            BY <1>1, <2>1
        <3> QED BY <2>1, <3>1
    <2>2. CASE x # u
        <3>1. pc'[x] = pc[x] /\ view'[x] = view[x] /\ view[x] \in View
            BY <1>1, <2>2
        <3>2. Told(x, pc[x], view[x]) /\ Learnt(pc[x], view[x], role)
            BY DEF BoardsInv
        <3>3. pc[x] = "board" \/ view[x].runs = 2 => view[x].user_trello_token \in Token
            BY <3>2 DEF Told, HasOwnToken
        <3>4. Learnt(pc[x], view[x], role')
            BY <3>1, <3>2, <3>3, LearntStays
        <3> QED BY <3>1, <3>2, <3>4
    <2> QED BY <2>1, <2>2
<1>3. pc' \in [User -> Place] /\ view' \in [User -> View]
    BY <1>1
<1> QED BY <1>2, <1>3, BoardsInvCarries

(* A step of nobody's client.                                              *)
LEMMA OthersMove ==
    ASSUME BoardsInv, [Next]_dbVars, users' = users, chats' = chats,
           UNCHANGED <<pc, view, role>>, revoked' \subseteq Token
    PROVE  BoardsInv'
BY BoardsInvCarries DEF BoardsInv, BoardsTypeOK

-----------------------------------------------------------------------------
(* Ending, throwing and restarting lose all that was held.                 *)
LEMMA NothingHeld ==
    ASSUME NEW u, NEW r, NEW place \in {"main", "gone", "thrown"}
    PROVE  NoView \in View /\ Told(u, place, NoView) /\ Learnt(place, NoView, r)
<1>1. NoView \in View
    BY DEF NoView, View
<1>2. NoView.item = {} /\ NoView.runs # 2
    BY DEF NoView
<1>3. place \notin HasChatter /\ place \notin HasToken /\ place \notin HasOwnToken
    BY DEF HasChatter, HasToken, HasOwnToken
<1>4. Told(u, place, NoView)
    BY <1>2, <1>3, Zenon DEF Told
<1>5. Learnt(place, NoView, r)
    BY <1>2 DEF Learnt
<1> QED BY <1>1, <1>4, <1>5

(* Each request of the two handlers keeps the invariant.                   *)
LEMMA ClientStep ==
    ASSUME BoardsInv, NEW u \in User, Step(u), [Next]_dbVars, users' = users, chats' = chats
    PROVE  BoardsInv'
<1> DEFINE w == view[u]
<1>0. /\ TypeOK /\ ReferencesResolve /\ LinksDistinct
      /\ pc[u] \in Place /\ w \in View
      /\ role \in [Board -> [Account -> {"none", "normal", "admin"}]] /\ revoked \subseteq Token
      /\ Told(u, pc[u], w) /\ Learnt(pc[u], w, role)
      /\ RolesGrow(role, role)
    BY DEF BoardsInv, BoardsTypeOK, RolesGrow
<1>a. ASSUME NEW place \in {"main", "gone", "thrown"}, Go(u, place, NoView), UNCHANGED trello
      PROVE  BoardsInv'
    <2>1. place \in Place
        BY DEF Place
    <2> QED BY <1>0, <1>a, <2>1, NothingHeld, ClientMoves DEF trello
<1>b. ASSUME NEW place \in Place, NEW v \in View, Go(u, place, v), UNCHANGED trello,
             Told(u, place, v), Learnt(place, v, role)
      PROVE  BoardsInv'
    BY <1>0, <1>b, ClientMoves DEF trello
<1>c. ASSUME NEW ok, NEW place \in Place, NEW v \in View, Save(u, ok, place, v),
             ok => Told(u, place, v) /\ Learnt(place, v, role)
      PROVE  BoardsInv'
    BY <1>a, <1>b, <1>c DEF Save, Throw, End
<1>1. CASE Restart(u)
    BY <1>1, <1>a DEF Restart
<1>2. CASE ViewBoards(u)
    <2> PICK i \in CurrentChat(u) : \E ans \in {get_chat_members(i), Fail} :
            /\ Ask(u, get_chat_members(i), ans)
            /\ \/ ans = Fail
               \/ ans # Fail /\ ~ IsPair(ans) /\ Go(u, "group", view[u])
               \/ /\ ans # Fail /\ IsPair(ans)
                  /\ Go(u, "token", [NoView EXCEPT !.chatter = Chatter(u, ans.rows)])
        BY <1>2 DEF ViewBoards, AskMembers
    <2> PICK ans \in {get_chat_members(i), Fail} :
            /\ Ask(u, get_chat_members(i), ans)
            /\ \/ ans = Fail
               \/ ans # Fail /\ ~ IsPair(ans) /\ Go(u, "group", view[u])
               \/ /\ ans # Fail /\ IsPair(ans)
                  /\ Go(u, "token", [NoView EXCEPT !.chatter = Chatter(u, ans.rows)])
        OBVIOUS
    <2>0. UNCHANGED trello
        BY DEF Ask
    <2>1. CASE ans = Fail
        BY <1>a, <2>0, <2>1 DEF Ask, End
    <2>2. CASE Go(u, "group", w)
        <3>1. Told(u, "group", w) /\ Learnt("group", w, role)
            <4>1. w.runs # 2
                BY <1>0, <1>2 DEF ViewBoards, AskMembers, Learnt, HasOwnToken
            <4> QED BY <1>0, <4>1 DEF Told, Learnt, HasChatter, HasToken, HasOwnToken
        <3> QED BY <1>0, <1>b, <2>0, <2>2, <3>1 DEF Place
    <2>3. CASE /\ ans # Fail /\ IsPair(ans)
               /\ Go(u, "token", [NoView EXCEPT !.chatter = Chatter(u, ans.rows)])
        <3> DEFINE c == Chatter(u, ans.rows)
        <3>1. c # u /\ c \in DOMAIN users /\ i \in DOMAIN chats /\ PairOf(i, u, c)
            BY <1>0, <2>3, ChatterIsOther
        <3> HIDE DEF c
        <3> DEFINE v == [NoView EXCEPT !.chatter = c]
        <3>2. c \in Nat
            BY <1>0, <3>1 DEF TypeOK
        <3>3. v \in View /\ v.chatter = c /\ v.runs = 0 /\ v.item = {}
            <4>1. NoView \in View
                BY NothingHeld
            <4>2. NoView.runs = 0 /\ NoView.item = {}
                BY DEF NoView
            <4>3. v \in View /\ v.chatter = c /\ v.runs = NoView.runs /\ v.item = NoView.item
                BY <3>2, <4>1 DEF View
            <4> QED BY <4>2, <4>3
        <3>4. Go(u, "token", v)
            BY <2>3 DEF c
        <3> HIDE DEF v
        <3>5. Told(u, "token", v) /\ Learnt("token", v, role)
            BY <3>1, <3>3 DEF Told, Learnt, HasToken, HasOwnToken
        <3> QED BY <1>b, <2>0, <3>3, <3>4, <3>5 DEF Place, HasChatter
    <2> QED BY <2>1, <2>2, <2>3
<1>3. CASE GetChatterToken(u)
    <2> PICK ans \in {get_trello_token(w.chatter), Fail} :
            /\ Ask(u, get_trello_token(w.chatter), ans)
            /\ \/ ans = Fail
               \/ ans = Null /\ Throw(u)
               \/ /\ ans \notin {Fail, Null}
                  /\ Go(u, "member", [w EXCEPT !.chatter_token = ans.trello_token])
        BY <1>3 DEF GetChatterToken
    <2>0. UNCHANGED trello
        BY DEF Ask
    <2>1. CASE ans = Fail \/ Throw(u)
        BY <1>a, <2>0, <2>1 DEF Ask, End, Throw
    <2>2. CASE /\ ans \notin {Fail, Null}
               /\ Go(u, "member", [w EXCEPT !.chatter_token = ans.trello_token])
        <3> PICK t \in Token : get_trello_token(w.chatter) = [trello_token |-> t]
            <4>1. TokenIn(tokens, w.chatter) # Null /\ tokens \in Seq(TrelloToken)
                BY <1>0, <2>2, TokenAnswers DEF TypeOK
            <4> QED BY <4>1, FirstRow, TokenAnswers
        <3> HIDE DEF w
        <3> DEFINE v == [w EXCEPT !.chatter_token = t]
        <3>1. ans.trello_token = t
            BY <2>2
        <3>2. /\ v \in View /\ v.chatter = w.chatter /\ v.chatter_token = t
              /\ v.runs = w.runs /\ v.item = w.item
            BY <1>0 DEF View
        <3>3. Go(u, "member", v)
            BY <2>2, <3>1
        <3> HIDE DEF v
        <3>4. pc[u] = "token" /\ w.runs # 2
            BY <1>0, <1>3 DEF GetChatterToken, Learnt, HasOwnToken
        <3>5. Told(u, "member", v) /\ Learnt("member", v, role)
            BY <1>0, <3>2, <3>4 DEF Told, Learnt, HasChatter, HasToken, HasOwnToken
        <3> QED BY <1>b, <2>0, <3>2, <3>3, <3>5 DEF Place, HasChatter, HasToken
    <2> QED BY <2>1, <2>2
<1>4. CASE GetMember(u)
    <2>1. Save(u, Works(w.chatter_token), "boards", w) /\ pc[u] = "member"
        BY <1>4 DEF GetMember
    <2>2. Told(u, "boards", w) /\ Learnt("boards", w, role)
        BY <1>0, <2>1 DEF Told, Learnt, HasChatter, HasToken, HasOwnToken
    <2> QED BY <1>0, <1>c, <2>1, <2>2 DEF Place, HasChatter, HasToken
<1>5. CASE GetBoards(u)
    <2> DEFINE seen == {b \in Board : Owner[w.chatter_token] # Nobody /\ Sees(Owner[w.chatter_token], b)}
               v == [w EXCEPT !.boards = seen]
    <2>1. Save(u, Works(w.chatter_token), "window", v) /\ pc[u] = "boards"
        BY <1>5 DEF GetBoards
    <2>2. seen \in SUBSET Board
        OBVIOUS
    <2> HIDE DEF seen, w
    <2>3. /\ v \in View /\ v.chatter = w.chatter /\ v.chatter_token = w.chatter_token
          /\ v.runs = w.runs /\ v.item = w.item
        BY <1>0, <2>2 DEF View
    <2> HIDE DEF v
    <2>4. Told(u, "window", v) /\ Learnt("window", v, role)
        BY <1>0, <2>1, <2>3 DEF Told, Learnt, HasChatter, HasToken, HasOwnToken
    <2> QED BY <1>c, <2>1, <2>3, <2>4 DEF Place, HasChatter, HasToken
<1>6. CASE ItemClicked(u)
    <2>1. PICK b \in w.boards : Go(u, "own token", [w EXCEPT !.item = {b}, !.runs = 1])
        BY <1>6 DEF ItemClicked
    <2>2. pc[u] = "window" /\ UNCHANGED trello
        BY <1>6 DEF ItemClicked
    <2>3. {b} \in SUBSET Board
        BY <1>0 DEF View
    <2> HIDE DEF w
    <2> DEFINE clicked == [w EXCEPT !.item = {b}]
               v == [w EXCEPT !.item = {b}, !.runs = 1]
    <2>4. /\ clicked \in View /\ clicked.chatter = w.chatter /\ clicked.item = {b}
          /\ clicked.chatter_token = w.chatter_token
        BY <1>0, <2>3 DEF View
    <2> DEFINE first == [clicked EXCEPT !.runs = 1]
    <2>5. v = first
        OBVIOUS
    <2>6. Go(u, "own token", v)
        BY <2>1
    <2> HIDE DEF clicked, v
    <2>7. /\ v \in View /\ v.chatter = clicked.chatter /\ v.runs = 1 /\ v.item = clicked.item
          /\ v.chatter_token = clicked.chatter_token
        <3>1. /\ first \in View /\ first.chatter = clicked.chatter /\ first.runs = 1
              /\ first.item = clicked.item /\ first.chatter_token = clicked.chatter_token
            BY <2>4 DEF View
        <3> HIDE DEF first
        <3> QED BY <2>5, <3>1
    <2>8. /\ v.chatter = w.chatter /\ v.chatter_token = w.chatter_token /\ v.item = {b} /\ v.runs # 2
        BY <2>4, <2>7
    <2>9. Told(u, "own token", v)
        BY <1>0, <2>2, <2>8 DEF Told, HasChatter, HasToken, HasOwnToken
    <2>10. Learnt("own token", v, role)
        BY <2>8 DEF Learnt
    <2> QED BY <1>b, <2>2, <2>6, <2>7, <2>9, <2>10 DEF Place, HasChatter, HasToken
<1>7. CASE GetOwnToken(u)
    <2>1. PICK ans \in {get_trello_token(u), Fail} :
            /\ Ask(u, get_trello_token(u), ans)
            /\ \/ ans = Fail
               \/ ans = Null /\ Throw(u)
               \/ /\ ans \notin {Fail, Null}
                  /\ Go(u, "own member", [w EXCEPT !.user_trello_token = ans.trello_token])
        BY <1>7 DEF GetOwnToken
    <2>2. UNCHANGED trello
        BY <2>1 DEF Ask
    <2>3. CASE ans = Fail \/ Throw(u)
        BY <1>a, <2>1, <2>2, <2>3 DEF Ask, End, Throw
    <2>4. CASE /\ ans \notin {Fail, Null}
               /\ Go(u, "own member", [w EXCEPT !.user_trello_token = ans.trello_token])
        <3>1. PICK t \in Token : get_trello_token(u) = [trello_token |-> t]
            <4>1. TokenIn(tokens, u) # Null /\ tokens \in Seq(TrelloToken)
                BY <1>0, <2>1, <2>4, TokenAnswers DEF TypeOK
            <4> QED BY <4>1, FirstRow, TokenAnswers
        <3> HIDE DEF w
        <3> DEFINE v == [w EXCEPT !.user_trello_token = t]
        <3>2. ans.trello_token = t
            <4>1. ans = get_trello_token(u)
                BY <2>4
            <4> QED BY <3>1, <4>1
        <3>3. /\ v \in View /\ v.user_trello_token = t /\ v.chatter = w.chatter
              /\ v.item = w.item /\ v.chatter_token = w.chatter_token /\ v.runs = w.runs
            BY <1>0 DEF View
        <3>4. Go(u, "own member", v)
            BY <2>4, <3>2
        <3> HIDE DEF v
        <3>5. pc[u] = "own token"
            BY <1>7 DEF GetOwnToken
        <3>6. w.runs = 2 => w.user_trello_token = t
            <4>1. w.runs = 2 => get_trello_token(u) = [trello_token |-> w.user_trello_token]
                BY <1>0 DEF Told
            <4>2. [trello_token |-> t].trello_token = t
                  /\ [trello_token |-> w.user_trello_token].trello_token = w.user_trello_token
                OBVIOUS
            <4> QED BY <3>1, <4>1, <4>2
        <3>7. Told(u, "own member", v)
            BY <1>0, <3>1, <3>3, <3>5 DEF Told, HasChatter, HasToken, HasOwnToken
        <3>8. Learnt("own member", v, role)
            BY <1>0, <3>3, <3>6 DEF Learnt, OnBoard, HasOwnToken
        <3> QED BY <1>b, <2>2, <3>3, <3>4, <3>7, <3>8 DEF Place, HasChatter, HasToken, HasOwnToken
    <2> QED BY <2>1, <2>3, <2>4
<1>8. CASE GetOwnMember(u)
    <2>1. Save(u, Works(w.user_trello_token), "put", w) /\ pc[u] = "own member"
        BY <1>8 DEF GetOwnMember
    <2>2. Works(w.user_trello_token) => Told(u, "put", w) /\ Learnt("put", w, role)
        BY <1>0, <2>1 DEF Told, Learnt, Works, HasChatter, HasToken, HasOwnToken
    <2> QED BY <1>0, <1>c, <2>1, <2>2 DEF Place, HasChatter, HasToken, HasOwnToken
<1>9. CASE Put(u)
    <2> DEFINE t == w.chatter_token
               x == Owner[w.user_trello_token]
    <2>1. PICK b \in w.item :
            LET granted == Works(t) /\ role[b][Owner[t]] = "admin" IN
            \/ /\ Go(u, "board", [w EXCEPT !.refused = ~ granted])
               /\ role' = IF granted THEN [role EXCEPT ![b] = [@ EXCEPT ![x] = "admin"]] ELSE role
            \/ End(u) /\ UNCHANGED role
        BY <1>9 DEF Put
    <2>2. pc[u] = "put" /\ UNCHANGED revoked
        BY <1>9 DEF Put
    <2> DEFINE granted == Works(t) /\ role[b][Owner[t]] = "admin"
    <2>3. CASE End(u) /\ UNCHANGED role
        BY <1>a, <2>2, <2>3 DEF End, trello
    <2>4. CASE /\ Go(u, "board", [w EXCEPT !.refused = ~ granted])
               /\ role' = IF granted THEN [role EXCEPT ![b] = [@ EXCEPT ![x] = "admin"]] ELSE role
        <3>1. b \in Board /\ \A c \in w.item : c = b
            BY <1>0 DEF View, Learnt
        <3>2. x \in Account
            BY <1>0, <2>2, OwnerAssumption DEF Told, Learnt, HasOwnToken
        <3> DEFINE row == [role[b] EXCEPT ![x] = "admin"]
        <3>3. role' = IF granted THEN [role EXCEPT ![b] = row] ELSE role
            BY <2>4
        <3> HIDE DEF granted, w, t
        <3>4. role[b] \in [Account -> {"none", "normal", "admin"}]
            BY <1>0, <3>1
        <3>5. /\ row \in [Account -> {"none", "normal", "admin"}] /\ row[x] = "admin"
              /\ \A y \in Account : row[y] # role[b][y] => row[y] = "admin"
            BY <3>2, <3>4
        <3> HIDE DEF row, x
        <3>6. /\ role' \in [Board -> [Account -> {"none", "normal", "admin"}]]
              /\ RolesGrow(role, role') /\ (granted => role'[b] = row)
            <4>1. CASE granted
                BY <1>0, <3>1, <3>3, <3>5, <4>1 DEF RolesGrow
            <4>2. CASE ~ granted
                BY <1>0, <3>3, <4>2 DEF RolesGrow
            <4> QED BY <4>1, <4>2
        <3> DEFINE no == ~ granted
                   v == [w EXCEPT !.refused = no]
        <3>7. no \in BOOLEAN
            OBVIOUS
        <3>8. /\ v \in View /\ v.refused = no /\ v.chatter = w.chatter /\ v.item = w.item
              /\ v.chatter_token = w.chatter_token /\ v.runs = w.runs
              /\ v.user_trello_token = w.user_trello_token
            <4> HIDE DEF no
            <4> QED BY <1>0, <3>7 DEF View
        <3>9. Go(u, "board", v)
            BY <2>4
        <3>10. no \/ granted
            OBVIOUS
        <3> HIDE DEF v, no
        <3>11. Told(u, "board", v)
            BY <1>0, <2>2, <3>8 DEF Told, HasChatter, HasToken, HasOwnToken
        <3>12. Learnt(pc[u], w, role')
            <4>1. pc[u] = "board" \/ w.runs = 2 => w.user_trello_token \in Token
                BY <1>0 DEF Told, HasOwnToken
            <4> QED BY <1>0, <3>6, <4>1, LearntStays
        <3>13. v.refused \/ OnBoard(v, role')
            <4>1. CASE no
                <5>1. v.refused
                    BY <3>8, <4>1
                <5> QED BY <5>1
            <4>2. CASE granted
                <5>1. role'[b][x] = "admin" /\ x = Owner[v.user_trello_token]
                    BY <3>5, <3>6, <3>8, <4>2 DEF x
                <5>2. \A c \in v.item : c = b
                    BY <3>1, <3>8
                <5> QED BY <5>1, <5>2 DEF OnBoard
            <4> QED BY <3>10, <4>1, <4>2
        <3>14. Learnt("board", v, role')
            BY <2>2, <3>8, <3>12, <3>13 DEF Learnt, OnBoard, HasOwnToken
        <3> QED BY <1>0, <2>2, <3>6, <3>8, <3>9, <3>11, <3>14, ClientMoves
                DEF Place, HasChatter, HasToken, HasOwnToken
    <2> QED BY <2>1, <2>3, <2>4
<1>10. CASE GetBoard(u)
    <2> DEFINE t == w.user_trello_token
    <2>1. PICK b \in w.item :
            LET again == w.runs = 1 IN
            Save(u, Works(t) /\ Sees(Owner[t], b),
                 IF again THEN "own token" ELSE "window",
                 [w EXCEPT !.runs = IF again THEN 2 ELSE 0])
        BY <1>10 DEF GetBoard
    <2>2. pc[u] = "board"
        BY <1>10 DEF GetBoard
    <2> DEFINE n == IF w.runs = 1 THEN 2 ELSE 0
               place == IF w.runs = 1 THEN "own token" ELSE "window"
               v == [w EXCEPT !.runs = n]
               ok == Works(t) /\ Sees(Owner[t], b)
    <2>3. Save(u, ok, place, v)
        BY <2>1
    <2>4. /\ n \in 0 .. 2 /\ (n = 2 => place = "own token")
          /\ place \in {"own token", "window"}
        OBVIOUS
    <2>5. ok => OnBoard(w, role)
        BY <1>0 DEF Sees, OnBoard, Learnt
    <2> HIDE DEF n, place, ok, w
    <2>6. /\ v \in View /\ v.runs = n /\ v.chatter = w.chatter /\ v.item = w.item
          /\ v.chatter_token = w.chatter_token /\ v.user_trello_token = w.user_trello_token
        BY <1>0, <2>4 DEF View
    <2> HIDE DEF v
    <2>7. Told(u, place, v)
        BY <1>0, <2>2, <2>4, <2>6 DEF Told, HasChatter, HasToken, HasOwnToken
    <2>8. ok => Learnt(place, v, role)
        BY <1>0, <2>2, <2>4, <2>5, <2>6 DEF Learnt, OnBoard
    <2>9. place \in Place
        BY <2>4 DEF Place, HasChatter, HasToken
    <2> QED BY <1>c, <2>3, <2>6, <2>7, <2>8, <2>9
<1> QED BY <1>1, <1>2, <1>3, <1>4, <1>5, <1>6, <1>7, <1>8, <1>9, <1>10 DEF Step

(* At the start the tables hold the users and the chats, and the clients   *)
(* nothing.                                                                *)
LEMMA BoardsStart == BoardsInit => BoardsInv
<1> SUFFICES ASSUME BoardsInit PROVE BoardsInv
    OBVIOUS
<1>1. /\ users = Names /\ chats = Rooms /\ user_seq = Len(Names) /\ chat_seq = Len(Rooms)
      /\ links = <<>> /\ messages = <<>> /\ tokens = <<>> /\ backend = "up"
    BY DEF BoardsInit
<1>2. TypeOK
    <2>1. Len(Names) \in 0 .. MaxId /\ Len(Rooms) \in 0 .. MaxId
        BY NamesAssumption, BoundAssumption, LenProperties
    <2>2. \A S : <<>> \in Seq(S)
        OBVIOUS
    <2> QED BY <1>1, <2>1, <2>2, NamesAssumption, BoundAssumption DEF TypeOK
<1>3. ReferencesResolve /\ LinksDistinct
    BY <1>1 DEF ReferencesResolve, LinksDistinct
<1>4. BoardsTypeOK
    <2>1. NoView \in View
        BY NothingHeld
    <2> QED BY <1>1, <1>2, <2>1, RolesAssumption DEF BoardsInit, BoardsTypeOK, Place
<1>5. ASSUME NEW u \in User PROVE Told(u, pc[u], view[u]) /\ Learnt(pc[u], view[u], role)
    <2>1. pc[u] = "main" /\ view[u] = NoView
        BY DEF BoardsInit
    <2> QED BY <2>1, NothingHeld
<1> QED BY <1>2, <1>3, <1>4, <1>5 DEF BoardsInv

(* Each step keeps the invariant.                                          *)
LEMMA BoardsStep == BoardsInv /\ [BoardsNext]_vars => BoardsInv'
<1> SUFFICES ASSUME BoardsInv, [BoardsNext]_vars PROVE BoardsInv'
    OBVIOUS
<1>1. [Next]_dbVars /\ users' = users /\ chats' = chats
    BY BoardsIsTransaction
<1>2. CASE \E u \in User : Step(u)
    BY <1>1, <1>2, ClientStep
<1>3. CASE LinkMember \/ StoreToken \/ UNCHANGED vars
    <2>1. UNCHANGED <<pc, view, role>> /\ revoked' = revoked
        BY <1>3 DEF LinkMember, StoreToken, vars, trello
    <2>2. revoked' \subseteq Token
        BY <2>1 DEF BoardsInv, BoardsTypeOK
    <2> QED BY <1>1, <2>1, <2>2, OthersMove
<1>4. CASE Revoke
    <2>1. UNCHANGED <<pc, view, role>> /\ revoked' \subseteq Token
        BY <1>4 DEF Revoke, BoardsInv, BoardsTypeOK
    <2> QED BY <1>1, <2>1, OthersMove
<1> QED BY <1>2, <1>3, <1>4 DEF BoardsNext

(* What the clients of a server hold between two requests of the handlers  *)
(* of the boards (view_boards.cpp:30-128) is at every point what the       *)
(* server would answer now: the invariant holds in every reachable state.  *)
THEOREM HeldIsTrue == BoardsSpec => []BoardsInv
<1>1. BoardsInv /\ [BoardsNext]_vars => BoardsInv'
    BY BoardsStep
<1> QED BY <1>1, BoardsStart, PTL DEF BoardsSpec

-----------------------------------------------------------------------------
(* A token that is held and was stored answers as StoredFor says.          *)
LEMMA HeldIsStored ==
    ASSUME NEW v, NEW t, get_trello_token(v) = [trello_token |-> t]
    PROVE  /\ StoredFor(v, Owner[t])
           /\ get_trello_token(v) # Null
           /\ Unusable(v) <=> ~ Works(t)
<1>1. get_trello_token(v) # Null
    BY TokenAnswers
<1>2. get_trello_token(v).trello_token = t
    OBVIOUS
<1> QED BY <1>1, <1>2 DEF StoredFor, Unusable

(* Accounts join boards only by a shared click: the roles change only by   *)
(* the PUT of view_boards.cpp:107-116, whose two tokens are the stored     *)
(* ones of two members who were alone in a chat.                           *)
THEOREM JoinsByClick == BoardsSpec => JoinsAreShared
<1> DEFINE Shared == \A b \in Board, x \in Account : role'[b][x] # role[b][x] =>
          /\ role'[b][x] = "admin"
          /\ \E u \in User, v \in DOMAIN users, i \in DOMAIN chats, y \in Account :
                /\ u # v /\ PairOf(i, u, v)
                /\ StoredFor(u, x) /\ StoredFor(v, y) /\ role[b][y] = "admin"
<1>1. ASSUME BoardsInv, [BoardsNext]_vars PROVE [Shared]_vars
    <2> SUFFICES ASSUME NEW b \in Board, NEW x \in Account, role'[b][x] # role[b][x]
                 PROVE  /\ role'[b][x] = "admin"
                        /\ \E u \in User, v \in DOMAIN users, i \in DOMAIN chats, y \in Account :
                              /\ u # v /\ PairOf(i, u, v)
                              /\ StoredFor(u, x) /\ StoredFor(v, y) /\ role[b][y] = "admin"
        OBVIOUS
    <2>1. PICK u \in User : Put(u)
        <3>1. role' # role
            OBVIOUS
        <3>2. ASSUME NEW u \in User, Step(u), ~ Put(u) PROVE FALSE
            BY <3>1, <3>2 DEF Step, Restart, ViewBoards, AskMembers, GetChatterToken, GetMember, GetBoards,
               ItemClicked, GetOwnToken, GetOwnMember, GetBoard, Save, Ask, trello
        <3> QED BY <1>1, <3>1, <3>2 DEF BoardsNext, LinkMember, StoreToken, Revoke, vars, trello
    <2> DEFINE w == view[u]
               t == w.chatter_token
               mine == Owner[w.user_trello_token]
    <2>2. PICK d \in w.item :
            LET granted == Works(t) /\ role[d][Owner[t]] = "admin" IN
            role' = IF granted THEN [role EXCEPT ![d] = [@ EXCEPT ![mine] = "admin"]] ELSE role
        BY <2>1 DEF Put
    <2> DEFINE granted == Works(t) /\ role[d][Owner[t]] = "admin"
               row == [role[d] EXCEPT ![mine] = "admin"]
    <2>3. role' = IF granted THEN [role EXCEPT ![d] = row] ELSE role
        BY <2>2
    <2>4. /\ pc[u] = "put" /\ Told(u, "put", w) /\ w \in View
          /\ role \in [Board -> [Account -> {"none", "normal", "admin"}]]
        BY <1>1, <2>1 DEF Put, BoardsInv, BoardsTypeOK
    <2>5. d \in Board
        BY <2>4 DEF View
    <2>6. granted
        <3> HIDE DEF granted
        <3> QED BY <2>3
    <2>7. role' = [role EXCEPT ![d] = row]
        BY <2>3, <2>6
    <2>8. x = mine /\ b = d /\ role'[b][x] = "admin"
        <3>1. role[d] \in [Account -> {"none", "normal", "admin"}]
            BY <2>4, <2>5
        <3>2. \A y \in Account : row[y] # role[d][y] => y = mine /\ row[y] = "admin"
            BY <3>1
        <3> HIDE DEF row, mine
        <3>3. b = d
            BY <2>4, <2>7
        <3>4. role'[b] = row
            BY <2>4, <2>5, <2>7, <3>3
        <3> QED BY <3>2, <3>3, <3>4
    <2>9. Owner[t] \in Account /\ role[b][Owner[t]] = "admin"
        BY <2>4, <2>6, <2>8, OwnerAssumption DEF Works, Told, HasToken, HasOwnToken
    <2>10. /\ w.chatter # u /\ w.chatter \in DOMAIN users
           /\ \E i \in DOMAIN chats : PairOf(i, u, w.chatter)
           /\ get_trello_token(w.chatter) = [trello_token |-> t]
           /\ get_trello_token(u) = [trello_token |-> w.user_trello_token]
        BY <2>4 DEF Told, HasChatter, HasToken, HasOwnToken
    <2>11. StoredFor(w.chatter, Owner[t]) /\ StoredFor(u, x)
        BY <2>8, <2>10, HeldIsStored
    <2> HIDE DEF w, t, mine, row, granted
    <2> QED BY <2>8, <2>9, <2>10, <2>11
<1> HIDE DEF Shared
<1> QED BY <1>1, HeldIsTrue, PTL DEF BoardsSpec, JoinsAreShared, Shared

(* The handlers end the program by an answer they did not check            *)
(* (curl_raii.cpp, view_boards.cpp) only when one of the two users has no  *)
(* token that works or Trello has refused; in the second run of a click    *)
(* only when a token was revoked in between.                               *)
THEOREM ThrowsAreExplained == BoardsSpec => ThrowsHaveReason
<1> DEFINE Explained == \A u \in User : pc[u] # "thrown" /\ pc'[u] = "thrown" =>
          /\ Unusable(u) \/ Unusable(view[u].chatter) \/ view[u].refused
          /\ view[u].runs = 2 => view[u].user_trello_token \in revoked
<1>1. ASSUME BoardsInv, [BoardsNext]_vars PROVE [Explained]_vars
    <2> SUFFICES ASSUME NEW u \in User, pc[u] # "thrown", pc'[u] = "thrown"
                 PROVE  /\ Unusable(u) \/ Unusable(view[u].chatter) \/ view[u].refused
                        /\ view[u].runs = 2 => view[u].user_trello_token \in revoked
        OBVIOUS
    <2> DEFINE w == view[u]
               p == pc[u]
    <2>1. /\ pc \in [User -> Place] /\ w \in View
          /\ Told(u, p, w) /\ Learnt(p, w, role)
        BY <1>1 DEF BoardsInv, BoardsTypeOK
    <2>2. ASSUME NEW x \in User, NEW place, NEW v, Go(x, place, v) PROVE x = u /\ place = "thrown"
        BY <2>1, <2>2 DEF Go
    <2>3. Step(u)
        <3>1. ASSUME NEW x \in User, Step(x) PROVE x = u
            BY <2>2, <3>1 DEF Step, Restart, ViewBoards, AskMembers, GetChatterToken, GetMember, GetBoards,
               ItemClicked, GetOwnToken, GetOwnMember, Put, GetBoard, Save, Ask, Throw, End
        <3> QED BY <1>1, <3>1 DEF BoardsNext, LinkMember, StoreToken, Revoke, vars
    <2>4. ASSUME NEW ok, NEW place, NEW v, Save(u, ok, place, v), place # "thrown" PROVE ~ ok
        BY <2>2, <2>4 DEF Save, End
    <2>5. CASE GetChatterToken(u)
        <3>1. get_trello_token(w.chatter) = Null /\ p = "token"
            BY <2>2, <2>5 DEF GetChatterToken, Ask, End
        <3>2. w.runs # 2
            BY <2>1, <3>1 DEF Learnt, HasOwnToken
        <3> QED BY <3>1, <3>2 DEF Unusable
    <2>6. CASE GetMember(u) \/ GetBoards(u)
        <3>1. ~ Works(w.chatter_token) /\ p \in {"member", "boards"}
            BY <2>4, <2>6 DEF GetMember, GetBoards
        <3>2. w.runs # 2
            BY <2>1, <3>1 DEF Learnt, HasOwnToken
        <3>3. get_trello_token(w.chatter) = [trello_token |-> w.chatter_token]
            BY <2>1, <3>1 DEF Told, HasToken
        <3> QED BY <3>1, <3>2, <3>3, HeldIsStored
    <2>7. CASE GetOwnToken(u)
        <3>1. get_trello_token(u) = Null
            <4>1. PICK ans \in {get_trello_token(u), Fail} :
                    /\ ans = Fail => End(u)
                    /\ \/ ans = Fail
                       \/ ans = Null /\ Throw(u)
                       \/ \E v : Go(u, "own member", v)
                BY <2>7 DEF GetOwnToken, Ask
            <4>2. \A place, v : Go(u, place, v) => place = "thrown"
                BY <2>2
            <4>3. ~ End(u)
                BY <4>2 DEF End
            <4>4. \A v : ~ Go(u, "own member", v)
                BY <4>2
            <4> QED BY <4>1, <4>3, <4>4
        <3>2. w.runs # 2
            BY <2>1, <3>1, TokenAnswers DEF Told
        <3> QED BY <3>1, <3>2 DEF Unusable
    <2>8. CASE GetOwnMember(u)
        <3>1. ~ Works(w.user_trello_token) /\ p = "own member"
            BY <2>4, <2>8 DEF GetOwnMember
        <3>2. get_trello_token(u) = [trello_token |-> w.user_trello_token]
            BY <2>1, <3>1 DEF Told, HasOwnToken
        <3>3. w.runs = 2 => w.user_trello_token \in revoked
            BY <2>1, <3>1 DEF Learnt, Works
        <3> QED BY <3>1, <3>2, <3>3, HeldIsStored
    <2>9. CASE GetBoard(u)
        <3>1. PICK b \in w.item :
                Save(u, Works(w.user_trello_token) /\ Sees(Owner[w.user_trello_token], b),
                     IF w.runs = 1 THEN "own token" ELSE "window",
                     [w EXCEPT !.runs = IF w.runs = 1 THEN 2 ELSE 0])
            BY <2>9 DEF GetBoard
        <3>2. ~ (Works(w.user_trello_token) /\ Sees(Owner[w.user_trello_token], b))
            BY <2>4, <3>1
        <3>3. p = "board"
            BY <2>9 DEF GetBoard
        <3>4. get_trello_token(u) = [trello_token |-> w.user_trello_token]
            BY <2>1, <3>3 DEF Told, HasOwnToken
        <3>5. Owner[w.user_trello_token] # Nobody
            BY <2>1, <3>3 DEF Learnt
        <3>6. OnBoard(w, role) => Sees(Owner[w.user_trello_token], b)
            BY <3>1 DEF OnBoard, Sees
        <3>7. ~ Works(w.user_trello_token) \/ w.refused
            BY <2>1, <3>2, <3>3, <3>6 DEF Learnt
        <3>8. w.runs = 2 => ~ Works(w.user_trello_token)
            BY <2>1, <3>2, <3>6 DEF Learnt
        <3> QED BY <3>4, <3>5, <3>7, <3>8, HeldIsStored DEF Works
    <2>10. ~ Restart(u) /\ ~ ViewBoards(u) /\ ~ ItemClicked(u) /\ ~ Put(u)
        <3>1. \A place, v : Go(u, place, v) => place = "thrown"
            BY <2>2
        <3>2. ~ End(u)
            BY <3>1 DEF End
        <3>3. ~ Restart(u) /\ ~ ItemClicked(u)
            BY <3>1 DEF Restart, ItemClicked
        <3>4. Put(u) => End(u) \/ \E v : Go(u, "board", v)
            BY DEF Put
        <3>5. ViewBoards(u) => End(u) \/ \E v : Go(u, "group", v) \/ Go(u, "token", v)
            BY DEF ViewBoards, AskMembers, Ask
        <3> QED BY <3>1, <3>2, <3>3, <3>4, <3>5
    <2> QED BY <2>3, <2>5, <2>6, <2>7, <2>8, <2>9, <2>10 DEF Step
<1> HIDE DEF Explained
<1> QED BY <1>1, HeldIsTrue, PTL DEF BoardsSpec, ThrowsHaveReason, Explained
=============================================================================
