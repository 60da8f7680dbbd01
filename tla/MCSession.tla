----------------------------- MODULE MCSession ------------------------------
(***************************************************************************)
(* Session with two clients, two user names and the two "notes" names,     *)
(* which a dialog may also ask for, besides a third chat name in one run.  *)
(***************************************************************************)
EXTENDS Session, TLC

CONSTANTS c1, c2, ann, bob, annNotes, bobNotes, room, key, pin

MCClient == {c1, c2}
MCUserName == {ann, bob}
MCChatName == {annNotes, bobNotes}
WithRoom == {annNotes, bobNotes, room}
MCNotes == ann :> annNotes @@ bob :> bobNotes
OneEach == c1 :> ann @@ c2 :> bob       \* two users
SameName == c1 :> ann @@ c2 :> ann      \* two people, or devices, of one name
MCToken == {key, pin}
OneToken == {key}
MCText == {}
Fitting == {}
BobTooLong == {bobNotes}
NoFault == {}
(* Without "error": a statement that fails for ever keeps a client in the  *)
(* loop of auth.cpp:35 for ever.                                           *)
Breaks == {"lost", "in doubt"}
=============================================================================
