------------------------------ MODULE MCServer ------------------------------
(***************************************************************************)
(* Server on a small instance: two user names, three chat names of which   *)
(* one is too long for its column, one text, one token; or the two names   *)
(* that fit, and a commit in doubt as the only fault.  With MaxInt below   *)
(* MaxId an id that std::stoi refuses is reached.                          *)
(***************************************************************************)
EXTENDS Server, TLC

CONSTANTS ann, bob, room, den, long, hello, key

MCUserName == {ann, bob}
MCChatName == {room, den, long}
MCText == {hello}
MCToken == {key}
MCTooLong == {long}
Names == Permutations(MCUserName) \cup Permutations({room, den})
MCFault == {"error", "lost", "in doubt"}
CommitFault == {"in doubt"}
TwoRooms == {room, den}
Fitting == {}
=============================================================================
