---------------------------- MODULE MCChatWindow ----------------------------
(***************************************************************************)
(* ChatWindow with two chats at the start and one that may be added.       *)
(***************************************************************************)
EXTENDS ChatWindow

CONSTANTS ann, bob, room, den, new, hi, yo

MCUserName == {ann, bob}
MCChatName == {room, den, new}
MCRooms == <<room, den>>
MCToken == {}
TwoTexts == {hi, yo}
MCTooLong == {}
AnyFault == {"error", "lost", "in doubt"}
=============================================================================
