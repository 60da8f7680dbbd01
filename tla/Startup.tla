------------------------------- MODULE Startup -------------------------------
(***************************************************************************)
(* main and the constructor of Database (src/server/server.cpp): a server  *)
(* process reads its configuration, creates the tables that do not exist   *)
(* in one transaction W, and listens on port 9002.  Processes may be       *)
(* started while others run, and may be killed at any moment.              *)
(*                                                                         *)
(* PostgreSQL (external) runs the statements of a transaction on tables    *)
(* nobody else sees before the commit.  CREATE TABLE IF NOT EXISTS of a    *)
(* name an open transaction has created waits for its end, and is then     *)
(* refused if the table has been committed.  After a refused statement     *)
(* the transaction is dead: its COMMIT is answered by a silent rollback.   *)
(***************************************************************************)
EXTENDS Naturals, Sequences

CONSTANTS
    Server,     \* the processes
    NoServer,   \* nobody
    Fault,      \* the faults of PostgreSQL that may happen, as in Database
    MaxStarts   \* bound: how often processes are started

ASSUME ServerAssumption == NoServer \notin Server
ASSUME StartsAssumption == MaxStarts \in Nat

VARIABLES
    schema,     \* the tables that are committed
    pc,         \* pc[s]: where process s is
    create,     \* create[s]: which CREATE TABLE of the constructor comes next
    made,       \* made[s]: the tables the open transaction of s has created
    state,      \* state[s]: the transaction W of s, or what became of it
    port,       \* the process that listens on port 9002
    refused,    \* the processes a statement of which failed by itself
    starts      \* how many processes have been started

vars == <<schema, pc, create, made, state, port, refused, starts>>

Order == <<"Users", "Chats", "UserID_ChatID", "Messages", "UserID_TrelloToken">>
Table == {Order[k] : k \in DOMAIN Order}

StartupTypeOK ==
    /\ schema \subseteq Table
    /\ pc \in [Server -> {"off", "constructor", "listen", "run"}]
    /\ create \in [Server -> 1 .. Len(Order) + 1]
    /\ made \in [Server -> SUBSET Table]
    /\ state \in [Server -> {"open", "waiting", "dead", "lost"}]
    /\ port \in Server \cup {NoServer}
    /\ refused \subseteq Server
    /\ starts \in 0 .. MaxStarts

StartupInit ==
    /\ schema = {}
    /\ pc = [s \in Server |-> "off"]
    /\ create = [s \in Server |-> 1]
    /\ made = [s \in Server |-> {}]
    /\ state = [s \in Server |-> "open"]
    /\ port = NoServer
    /\ refused = {} /\ starts = 0

(* Transaction W of s goes on, with what it has made, or is over.          *)
Holds(s, tables) == made' = [made EXCEPT ![s] = tables]
Goes(s, place) == pc' = [pc EXCEPT ![s] = place]
Becomes(s, st) == state' = [state EXCEPT ![s] = st]
Exit(s) ==
    /\ Goes(s, "off") /\ Holds(s, {}) /\ Becomes(s, "open")
    /\ create' = [create EXCEPT ![s] = 1]
    /\ refused' = refused \ {s} /\ UNCHANGED starts
    /\ port' = IF port = s THEN NoServer ELSE port

(* The configuration is read and the connection made; otherwise main       *)
(* returns at once (lines 509-516), which changes nothing.                 *)
Start(s) ==
    /\ pc[s] = "off" /\ starts < MaxStarts /\ starts' = starts + 1
    /\ Goes(s, "constructor")
    /\ UNCHANGED <<schema, create, made, state, port, refused>>

Blocked(s) == \E r \in Server \ {s} : Order[create[s]] \in made[r]

(* A statement that fails is caught, reported and followed by the next one.*)
Caught(s) ==
    /\ create' = [create EXCEPT ![s] = @ + 1]
    /\ UNCHANGED <<schema, pc, port, starts>>

Wait(s) ==
    /\ pc[s] = "constructor" /\ create[s] \in DOMAIN Order
    /\ state[s] = "open" /\ Blocked(s) /\ Becomes(s, "waiting")
    /\ UNCHANGED <<schema, pc, create, made, port, refused, starts>>

(* A definition named "Bad..." is a fault the one after it might have had, *)
(* kept to see that the properties tell the two apart.                     *)
BadCreateTable(s) ==        \* each statement is a transaction of its own
    /\ pc[s] = "constructor" /\ create[s] \in DOMAIN Order
    /\ schema' = schema \cup {Order[create[s]]}
    /\ create' = [create EXCEPT ![s] = @ + 1]
    /\ UNCHANGED <<pc, made, state, port, refused, starts>>

CreateTable(s) ==
    LET table == Order[create[s]] IN
    /\ pc[s] = "constructor" /\ create[s] \in DOMAIN Order
    /\ state[s] \in {"open", "waiting"} => ~ Blocked(s)
    /\ Caught(s)
    /\ \/ /\ state[s] \in {"dead", "lost"}                    \* fails again
          /\ UNCHANGED <<made, state, refused>>
       \/ /\ state[s] = "open" /\ table \in schema            \* exists
          /\ UNCHANGED <<made, state, refused>>
       \/ /\ state[s] = "waiting" /\ table \in schema         \* duplicate
          /\ Becomes(s, "dead") /\ Holds(s, {}) /\ UNCHANGED refused
       \/ /\ state[s] \in {"open", "waiting"} /\ table \notin schema
          /\ Becomes(s, "open") /\ Holds(s, made[s] \cup {table}) /\ UNCHANGED refused
       \/ /\ state[s] \in {"open", "waiting"} /\ "error" \in Fault
          /\ Becomes(s, "dead") /\ Holds(s, {}) /\ refused' = refused \cup {s}
       \/ /\ state[s] \in {"open", "waiting"} /\ "lost" \in Fault
          /\ Becomes(s, "lost") /\ Holds(s, {}) /\ UNCHANGED refused

(* W.commit().  Only a broken connection makes it throw, and then main     *)
(* catches the exception and returns.                                      *)
AtCommit(s) == pc[s] = "constructor" /\ create[s] \notin DOMAIN Order
Kept == UNCHANGED <<create, state, port, refused, starts>>

BadCommitThrows(s) ==       \* the constructor catches this exception as well
    /\ AtCommit(s) /\ (state[s] = "lost" \/ "lost" \in Fault)
    /\ Goes(s, "listen") /\ Holds(s, {}) /\ Kept /\ UNCHANGED schema
CommitThrows(s) ==
    /\ AtCommit(s) /\ Exit(s)
    /\ \/ (state[s] = "lost" \/ "lost" \in Fault) /\ UNCHANGED schema
       \/ state[s] = "open" /\ "in doubt" \in Fault /\ schema' = schema \cup made[s]

BadCommit(s) ==             \* the transaction is left open
    /\ AtCommit(s) /\ state[s] # "lost" /\ Goes(s, "listen")
    /\ Kept /\ UNCHANGED <<schema, made>>
Commit(s) ==
    /\ AtCommit(s) /\ state[s] # "lost"
    /\ schema' = IF state[s] = "open" THEN schema \cup made[s] ELSE schema
    /\ Goes(s, "listen") /\ Holds(s, {}) /\ Kept

(* server.listen(9002) throws when the port is in use. *)
Listen(s) ==
    /\ pc[s] = "listen" /\ UNCHANGED schema
    /\ \/ port = NoServer /\ port' = s /\ Goes(s, "run")
          /\ UNCHANGED <<create, made, state, refused, starts>>
       \/ port # NoServer /\ Exit(s)

Kill(s) == pc[s] # "off" /\ Exit(s) /\ UNCHANGED schema

Continue(s) == Wait(s) \/ CreateTable(s) \/ CommitThrows(s) \/ Commit(s) \/ Listen(s)
StartupNext == \E s \in Server : Start(s) \/ Continue(s) \/ Kill(s)

StartupSpec == StartupInit /\ [][StartupNext]_vars
(* A process that runs takes its next step.  Nobody has to start or kill it. *)
FairStartupSpec == StartupSpec /\ \A s \in Server : WF_vars(Continue(s))

-----------------------------------------------------------------------------
(* All tables or none: whatever fails or is killed, and however many       *)
(* processes run the constructor, no method finds some of its tables       *)
(* (lines 33 and 83).                                                      *)
SchemaIsWhole == schema \in {{}, Table}

(* A server accepts clients without having tables, and then answers FAIL   *)
(* to every request, only when PostgreSQL refused it a statement for a     *)
(* reason of its own (lines 42-82 swallow it): never because it raced with *)
(* another process or because its connection broke.                        *)
BareOnlyIfRefused ==
    \A s \in Server : pc[s] \in {"listen", "run"} /\ schema = {} => s \in refused

(* A server that was started listens or exits: the transactions of two     *)
(* constructors do not wait for each other for ever.                       *)
StartEnds == \A s \in Server :
    pc[s] \in {"constructor", "listen"} ~> pc[s] \in {"run", "off"}
=============================================================================
