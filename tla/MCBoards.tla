------------------------------ MODULE MCBoards ------------------------------
(***************************************************************************)
(* Boards with three users in one chat, of whom two run a client, a board  *)
(* and three tokens: of ann, of bob and a mistyped one.                    *)
(***************************************************************************)
EXTENDS Boards, TLC

CONSTANTS ann, bob, cid, room, board, annKey, bobKey, noKey

MCUserName == {ann, bob, cid}
MCChatName == {room}
MCText == {}
MCToken == {annKey, bobKey, noKey}
MCTooLong == {}
MCUser == {1, 2}
MCNames == <<ann, bob, cid>>
MCRooms == <<room>>
MCAccount == {ann, bob}
MCOwner == annKey :> ann @@ bobKey :> bob @@ noKey :> Nobody
MCBoard == {board}
(* bob may let ann in, or neither may let the other in.                    *)
MCRoles == {[b \in MCBoard |-> r] : r \in
    {ann :> "none" @@ bob :> "admin", ann :> "normal" @@ bob :> "none"}}
ErrorFault == {"error"}
=============================================================================
