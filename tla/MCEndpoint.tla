----------------------------- MODULE MCEndpoint -----------------------------
(***************************************************************************)
(* Handlers with two clients that make up to three calls each: two         *)
(* processes that log in under one Google name (auth.cpp:22-45).           *)
(***************************************************************************)
EXTENDS Handlers

CONSTANTS c1, c2,
    yes, no, fail   \* SUCCESS or a row; "User not found"; FAIL

MCClient == {c1, c2}
MCAnswer == {yes, no, fail}

(* "window" is the event loop before the click, "main" the one after the   *)
(* login; "ended" is the exception of json::parse on anything but a row.   *)
MCCalling == {"find_user", "add_user", "find_user again"}
MCLocal == MCCalling \cup {"window", "main", "ended"}
MCRequest == {"find_user", "add_user"}
MCAsks == [l \in MCCalling |-> IF l = "add_user" THEN "add_user" ELSE "find_user"]
MCResume == [l \in MCCalling |-> [a \in MCAnswer |->
    IF l = "add_user" THEN IF a = yes THEN "find_user again" ELSE "add_user"
    ELSE IF a = yes THEN "main"
    ELSE IF a = no /\ l = "find_user" THEN "add_user" ELSE "ended"]]
MCTurn == [l \in MCLocal \ MCCalling |-> IF l = "window" THEN {"find_user"} ELSE {}]
MCStart == [c \in MCClient |-> "window"]

(* The server's state is whether the name is stored; any transaction may   *)
(* fail and is then rolled back.                                           *)
MCResult == [s \in BOOLEAN |-> [r \in MCRequest |->
    {[state |-> s, answer |-> fail]} \cup
       IF r = "find_user" THEN {[state |-> s, answer |-> IF s THEN yes ELSE no]}
       ELSE IF s THEN {} ELSE {[state |-> TRUE, answer |-> yes]}]]
=============================================================================
