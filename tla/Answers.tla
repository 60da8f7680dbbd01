------------------------------- MODULE Answers -------------------------------
(***************************************************************************)
(* What the chat server can answer (class Database and on_message of       *)
(* src/server/server.cpp).  An answer of rows is a JSON array; a json      *)
(* value nothing was pushed to dumps as null.                              *)
(***************************************************************************)
Success == [done |-> "SUCCESS"]
Fail == [error |-> "FAIL"]
NotFound == [missing |-> "User not found"]
Null == [empty |-> "null"]
Rows(rows) == IF rows = <<>> THEN Null ELSE [rows |-> rows]
(* What the handler throws is caught and logged: nothing is sent. *)
NoReply == [silent |-> TRUE]
=============================================================================
