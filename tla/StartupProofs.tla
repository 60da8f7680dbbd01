--------------------------- MODULE StartupProofs ---------------------------
(***************************************************************************)
(* Theorems about the start of server processes, for any number of them,   *)
(* of starts and every choice of faults: the schema is there whole or not  *)
(* at all, and a server without it has been refused a statement.           *)
(***************************************************************************)
EXTENDS Startup, TLAPS

(* The tables of the statements before the k-th.                           *)
Before(k) == {Order[j] : j \in 1 .. k - 1}

(* An open transaction has created the tables of all its statements, as    *)
(* long as nobody has committed them, and none afterwards; any other has   *)
(* created nothing.                                                        *)
MadeInOrder(s) ==
    /\ pc[s] # "constructor" \/ state[s] \in {"dead", "lost"} => made[s] = {}
    /\ schema # {} => made[s] = {}
    /\ schema = {} /\ pc[s] = "constructor" /\ state[s] \in {"open", "waiting"} =>
          made[s] = Before(create[s])

(* Where a transaction stands, and what it is dead of.                     *)
Stands(s) ==
    /\ pc[s] = "off" => create[s] = 1 /\ state[s] = "open" /\ made[s] = {}
    /\ state[s] = "waiting" => pc[s] = "constructor" /\ create[s] \in DOMAIN Order
    /\ state[s] = "dead" /\ schema = {} => s \in refused
    /\ pc[s] \in {"listen", "run"} /\ schema = {} => s \in refused

PInv(s) == MadeInOrder(s) /\ Stands(s)

(* Only one transaction has created anything.                              *)
OneMaker == \A r, s \in Server : made[r] # {} /\ made[s] # {} => r = s

IInv == SchemaIsWhole /\ OneMaker /\ \A s \in Server : PInv(s)

(* One step of one process. *)
Step(s) == Start(s) \/ Continue(s) \/ Kill(s)

-----------------------------------------------------------------------------
(* The five CREATE TABLEs of server.cpp:38-79 and the tables before each.  *)
LEMMA Statements ==
    /\ DOMAIN Order = 1 .. 5 /\ Len(Order) = 5 /\ Table # {}
    /\ \A k \in 1 .. 5 : Order[k] \in Table
    /\ Before(1) = {} /\ Before(6) = Table
    /\ \A k \in 1 .. 5 : Before(k + 1) = Before(k) \cup {Order[k]}
    /\ \A k \in 2 .. 6 : Order[1] \in Before(k)
    /\ \A k \in 1 .. 6 : Before(k) \subseteq Table
<1>1. DOMAIN Order = 1 .. 5 /\ Len(Order) = 5
    BY DEF Order
<1>2. Table # {} /\ \A k \in 1 .. 5 : Order[k] \in Table
    BY <1>1 DEF Table
<1>3. Before(1) = {}
    BY DEF Before
<1>4. Before(6) = Table
    BY <1>1 DEF Before, Table
<1>5. \A k \in 1 .. 5 : Before(k + 1) = Before(k) \cup {Order[k]}
    <2> TAKE k \in 1 .. 5
    <2>1. 1 .. (k + 1) - 1 = (1 .. k - 1) \cup {k}
        OBVIOUS
    <2> QED BY <2>1 DEF Before
<1>6. \A k \in 2 .. 6 : Order[1] \in Before(k)
    BY DEF Before
<1>7. \A k \in 1 .. 6 : Before(k) \subseteq Table
    BY <1>1 DEF Before, Table
<1> QED BY <1>1, <1>2, <1>3, <1>4, <1>5, <1>6, <1>7

(* The state after a step is well typed. *)
LEMMA TypeStep == StartupTypeOK /\ [StartupNext]_vars => StartupTypeOK'
<1> SUFFICES ASSUME StartupTypeOK, [StartupNext]_vars PROVE StartupTypeOK'
    OBVIOUS
<1>0. CASE UNCHANGED vars
    BY <1>0 DEF vars, StartupTypeOK
<1> SUFFICES ASSUME NEW s \in Server, Step(s) PROVE StartupTypeOK'
    BY <1>0 DEF StartupNext, Step
<1> USE StartsAssumption, Statements DEF StartupTypeOK, Goes, Holds, Becomes
<1>1. CASE Start(s)
    BY <1>1 DEF Start
<1>2. CASE Exit(s) /\ (UNCHANGED schema \/ schema' = schema \cup made[s])
    <2>1. create' \in [Server -> 1 .. Len(Order) + 1]
        BY <1>2 DEF Exit
    <2>2. made' \in [Server -> SUBSET Table] /\ schema' \subseteq Table
        BY <1>2 DEF Exit
    <2> QED BY <1>2, <2>1, <2>2 DEF Exit
<1>3. CASE Wait(s)
    BY <1>3 DEF Wait
<1>4. CASE CreateTable(s)
    <2>1. create[s] \in 1 .. 5 /\ Order[create[s]] \in Table
        BY <1>4 DEF CreateTable
    <2>2. create' \in [Server -> 1 .. Len(Order) + 1]
        BY <1>4, <2>1 DEF CreateTable, Caught
    <2>3. made[s] \cup {Order[create[s]]} \in SUBSET Table
        BY <2>1
    <2>4. made' \in [Server -> SUBSET Table]
        BY <1>4, <2>3 DEF CreateTable
    <2>5. state' \in [Server -> {"open", "waiting", "dead", "lost"}]
        BY <1>4 DEF CreateTable
    <2> QED BY <1>4, <2>2, <2>4, <2>5 DEF CreateTable, Caught
<1>5. CASE Commit(s)
    BY <1>5 DEF Commit, Kept
<1>6. CASE Listen(s) /\ ~ Exit(s)
    BY <1>6 DEF Listen
<1> QED BY <1>1, <1>2, <1>3, <1>4, <1>5, <1>6 DEF Step, Continue, CommitThrows, Listen, Kill

(* A step of one process leaves the invariant of another alone, also when  *)
(* it commits the schema, if that other has made nothing.                  *)
LEMMA Frame ==
    ASSUME NEW r \in Server, PInv(r),
           pc'[r] = pc[r], create'[r] = create[r], made'[r] = made[r], state'[r] = state[r],
           r \in refused => r \in refused',
           schema' = schema \/ (schema' # {} /\ made[r] = {})
    PROVE  PInv(r)'
BY DEF PInv, MadeInOrder, Stands

(* The makers stay one if nobody becomes one while another is.             *)
LEMMA Makers ==
    ASSUME OneMaker, NEW s \in Server, \A r \in Server \ {s} : made'[r] = made[r],
           made'[s] # {} => made[s] # {} \/ \A r \in Server \ {s} : made[r] = {}
    PROVE  OneMaker'
BY DEF OneMaker

(* What an open transaction commits makes the schema whole.                *)
LEMMA CommitsAll ==
    ASSUME StartupTypeOK, IInv, NEW s \in Server, AtCommit(s), state[s] = "open"
    PROVE  schema \cup made[s] = Table
<1>1. create[s] = 6
    BY Statements DEF StartupTypeOK, AtCommit
<1>2. CASE schema = {}
    BY <1>1, <1>2, Statements DEF IInv, PInv, MadeInOrder, AtCommit
<1>3. CASE schema = Table
    BY <1>3, Statements DEF IInv, PInv, MadeInOrder
<1> QED BY <1>2, <1>3 DEF IInv, SchemaIsWhole

(* A process ends, leaving the schema alone or whole.                      *)
LEMMA ExitStep ==
    ASSUME StartupTypeOK, IInv, NEW s \in Server, Exit(s),
           \/ schema' = schema
           \/ AtCommit(s) /\ state[s] = "open" /\ schema' = schema \cup made[s]
    PROVE  IInv'
<1>1. /\ pc'[s] = "off" /\ create'[s] = 1 /\ made'[s] = {} /\ state'[s] = "open"
      /\ \A r \in Server \ {s} : /\ pc'[r] = pc[r] /\ create'[r] = create[r]
                                 /\ made'[r] = made[r] /\ state'[r] = state[r]
                                 /\ r \in refused => r \in refused'
    BY DEF Exit, Goes, Holds, Becomes, StartupTypeOK
<1>2. schema' = schema \/ (schema' = Table /\ schema' = schema \cup made[s])
    BY CommitsAll
<1>3. PInv(s)'
    BY <1>1 DEF PInv, MadeInOrder, Stands
<1>4. ASSUME NEW r \in Server \ {s} PROVE PInv(r)'
    <2>1. PInv(r)
        BY DEF IInv
    <2>2. CASE schema' = schema
        BY <1>1, <2>1, <2>2, Frame
    <2>3. CASE schema' = Table /\ made[r] = {}
        <3>1. schema' # {}
            BY <2>3, Statements
        <3> QED BY <1>1, <2>1, <2>3, <3>1, Frame
    <2>4. CASE schema' = schema \cup made[s] /\ made[r] # {}
        <3>1. made[s] = {}
            BY <2>4 DEF IInv, OneMaker
        <3> QED BY <2>2, <2>4, <3>1
    <2> QED BY <1>2, <2>2, <2>3, <2>4
<1>5. OneMaker'
    <2>1. OneMaker /\ made'[s] = {} /\ \A r \in Server \ {s} : made'[r] = made[r]
        BY <1>1 DEF IInv
    <2> QED BY <2>1, Makers
<1>6. SchemaIsWhole'
    BY <1>2 DEF IInv, SchemaIsWhole
<1> QED BY <1>3, <1>4, <1>5, <1>6 DEF IInv

(* A statement that goes through while the schema is empty is the next of  *)
(* the only transaction that has created anything: every other would hold  *)
(* the first table.                                                        *)
LEMMA OnlyMaker ==
    ASSUME StartupTypeOK, IInv, NEW s \in Server, schema = {}, pc[s] = "constructor",
           create[s] \in DOMAIN Order, state[s] \in {"open", "waiting"}, ~ Blocked(s)
    PROVE  \A r \in Server \ {s} : made[r] = {}
<1>1. create[s] \in 1 .. 5 /\ made[s] = Before(create[s])
    BY Statements DEF IInv, PInv, MadeInOrder
<1>2. CASE create[s] = 1
    <2> SUFFICES ASSUME NEW r \in Server \ {s}, made[r] # {} PROVE FALSE
        OBVIOUS
    <2>1. made[r] = Before(create[r]) /\ create[r] \in 1 .. 6
        BY Statements DEF IInv, PInv, MadeInOrder, StartupTypeOK
    <2>2. Order[1] \in made[r]
        BY <2>1, Statements
    <2> QED BY <1>2, <2>2 DEF Blocked
<1>3. CASE create[s] # 1
    <2>1. made[s] # {}
        BY <1>1, <1>3, Statements
    <2> QED BY <2>1 DEF IInv, OneMaker
<1> QED BY <1>2, <1>3

(* CREATE TABLE, whichever way it ends.                                    *)
LEMMA CreateStep ==
    ASSUME StartupTypeOK, IInv, NEW s \in Server, CreateTable(s) PROVE IInv'
<1> DEFINE table == Order[create[s]]
<1>1. /\ schema' = schema /\ pc' = pc /\ create[s] \in 1 .. 5 /\ pc[s] = "constructor"
      /\ create'[s] = create[s] + 1 /\ table \in Table
      /\ \A r \in Server \ {s} : /\ create'[r] = create[r] /\ made'[r] = made[r]
                                 /\ state'[r] = state[r]
      /\ refused \subseteq refused'
    BY Statements DEF CreateTable, Caught, Holds, Becomes, StartupTypeOK
<1>2. \A r \in Server \ {s} : PInv(r)'
    BY <1>1, Frame DEF IInv
<1>3. SchemaIsWhole'
    BY <1>1 DEF IInv, SchemaIsWhole
<1>4. PInv(s)
    BY DEF IInv
<1>5. CASE state[s] \in {"dead", "lost"} /\ UNCHANGED <<made, state, refused>>
    <2>1. PInv(s)'
        BY <1>1, <1>4, <1>5 DEF PInv, MadeInOrder, Stands
    <2>2. OneMaker'
        BY <1>1, <1>5, Makers DEF IInv
    <2> QED BY <1>2, <1>3, <2>1, <2>2 DEF IInv
<1>6. CASE state[s] = "open" /\ table \in schema /\ UNCHANGED <<made, state, refused>>
    <2>1. PInv(s)'
        BY <1>1, <1>4, <1>6 DEF PInv, MadeInOrder, Stands
    <2>2. OneMaker'
        BY <1>1, <1>6, Makers DEF IInv
    <2> QED BY <1>2, <1>3, <2>1, <2>2 DEF IInv
<1>7. CASE /\ Holds(s, {}) /\ state'[s] \in {"dead", "lost"}
           /\ state'[s] = "dead" => schema # {} \/ s \in refused'
    <2>0. made'[s] = {}
        BY <1>7 DEF Holds, StartupTypeOK
    <2>1. PInv(s)'
        BY <1>1, <1>4, <1>7, <2>0 DEF PInv, MadeInOrder, Stands
    <2>2. OneMaker'
        BY <1>1, <2>0, Makers DEF IInv
    <2> QED BY <1>2, <1>3, <2>1, <2>2 DEF IInv
<1>8. CASE /\ state[s] \in {"open", "waiting"} /\ table \notin schema
           /\ Becomes(s, "open") /\ Holds(s, made[s] \cup {table}) /\ UNCHANGED refused
    <2>1. schema = {}
        BY <1>1, <1>8 DEF IInv, SchemaIsWhole
    <2>2. made[s] = Before(create[s])
        BY <1>1, <1>4, <1>8, <2>1 DEF PInv, MadeInOrder
    <2>3. made'[s] = Before(create'[s]) /\ state'[s] = "open"
        BY <1>1, <1>8, <2>2, Statements DEF Holds, Becomes, StartupTypeOK
    <2>4. PInv(s)'
        BY <1>1, <1>4, <2>1, <2>3 DEF PInv, MadeInOrder, Stands
    <2>5. \A r \in Server \ {s} : made[r] = {}
        BY <1>1, <1>8, <2>1, OnlyMaker, Statements DEF CreateTable
    <2>6. OneMaker'
        BY <1>1, <2>5, Makers DEF IInv
    <2> QED BY <1>2, <1>3, <2>4, <2>6 DEF IInv
<1>9. CASE \/ state[s] = "waiting" /\ table \in schema
              /\ Becomes(s, "dead") /\ Holds(s, {}) /\ UNCHANGED refused
           \/ Becomes(s, "dead") /\ Holds(s, {}) /\ refused' = refused \cup {s}
           \/ Becomes(s, "lost") /\ Holds(s, {}) /\ UNCHANGED refused
    <2>1. /\ Holds(s, {}) /\ state'[s] \in {"dead", "lost"}
          /\ state'[s] = "dead" => schema # {} \/ s \in refused'
        BY <1>9 DEF Becomes, StartupTypeOK
    <2> QED BY <1>7, <2>1
<1> QED BY <1>5, <1>6, <1>8, <1>9 DEF CreateTable

(* The commit, after which the tables are there unless it was of a dead    *)
(* transaction.                                                            *)
LEMMA CommitStep ==
    ASSUME StartupTypeOK, IInv, NEW s \in Server, Commit(s) PROVE IInv'
<1>1. /\ AtCommit(s) /\ pc'[s] = "listen" /\ made'[s] = {}
      /\ create' = create /\ state' = state /\ refused' = refused
      /\ \A r \in Server \ {s} : pc'[r] = pc[r] /\ made'[r] = made[r]
    BY DEF Commit, Kept, Goes, Holds, StartupTypeOK
<1>2. /\ PInv(s) /\ state[s] \in {"open", "dead"}
    BY <1>1 DEF Commit, StartupTypeOK, IInv, PInv, Stands, AtCommit
<1>3. OneMaker'
    BY <1>1, Makers DEF IInv
<1>4. CASE state[s] = "open"
    <2>1. schema' = Table /\ schema' # {} /\ schema' = schema \cup made[s]
        BY <1>1, <1>4, CommitsAll, Statements DEF Commit
    <2>2. PInv(s)'
        BY <1>1, <1>4, <2>1 DEF PInv, MadeInOrder, Stands
    <2>3. ASSUME NEW r \in Server \ {s} PROVE PInv(r)'
        <3>1. CASE made[s] = {}
            BY <1>1, <2>1, <3>1, Frame DEF IInv
        <3>2. CASE made[s] # {}
            <4>1. made[r] = {}
                BY <3>2 DEF IInv, OneMaker
            <4> QED BY <1>1, <2>1, <4>1, Frame DEF IInv
        <3> QED BY <3>1, <3>2
    <2> QED BY <1>3, <2>1, <2>2, <2>3 DEF IInv, SchemaIsWhole
<1>5. CASE state[s] = "dead"
    <2>1. schema' = schema
        BY <1>5 DEF Commit
    <2>2. PInv(s)'
        BY <1>1, <1>2, <1>5, <2>1 DEF PInv, MadeInOrder, Stands
    <2>3. \A r \in Server \ {s} : PInv(r)'
        BY <1>1, <2>1, Frame DEF IInv
    <2> QED BY <1>3, <2>1, <2>2, <2>3 DEF IInv, SchemaIsWhole
<1> QED BY <1>2, <1>4, <1>5

(* The invariant is kept by every step.                                    *)
LEMMA InvariantStep == StartupTypeOK /\ IInv /\ [StartupNext]_vars => IInv'
<1> SUFFICES ASSUME StartupTypeOK, IInv, [StartupNext]_vars PROVE IInv'
    OBVIOUS
<1>0. CASE UNCHANGED vars
    BY <1>0 DEF vars, IInv, SchemaIsWhole, OneMaker, PInv, MadeInOrder, Stands
<1> SUFFICES ASSUME NEW s \in Server, Step(s) PROVE IInv'
    BY <1>0 DEF StartupNext, Step
<1>1. CASE Exit(s) /\ (UNCHANGED schema \/ CommitThrows(s))
    BY <1>1, ExitStep DEF CommitThrows
<1>2. CASE CreateTable(s)
    BY <1>2, CreateStep
<1>3. CASE Commit(s)
    BY <1>3, CommitStep
<1>4. ASSUME schema' = schema, made' = made, create' = create, refused' = refused,
             \A r \in Server \ {s} : pc'[r] = pc[r] /\ state'[r] = state[r], PInv(s)'
      PROVE  IInv'
    <2>1. \A r \in Server \ {s} : PInv(r)'
        BY <1>4, Frame DEF IInv
    <2>2. OneMaker' /\ SchemaIsWhole'
        BY <1>4 DEF IInv, OneMaker, SchemaIsWhole
    <2> QED BY <1>4, <2>1, <2>2 DEF IInv
<1>5. PInv(s)
    BY DEF IInv
<1>6. CASE Start(s)
    <2>1. /\ pc[s] = "off" /\ pc'[s] = "constructor" /\ state' = state
          /\ \A r \in Server \ {s} : pc'[r] = pc[r]
        BY <1>6 DEF Start, Goes, StartupTypeOK
    <2>2. PInv(s)'
        BY <1>5, <1>6, <2>1, Statements DEF Start, PInv, MadeInOrder, Stands
    <2> QED BY <1>4, <1>6, <2>1, <2>2 DEF Start
<1>7. CASE Wait(s)
    <2>1. /\ state[s] = "open" /\ state'[s] = "waiting" /\ pc' = pc
          /\ pc[s] = "constructor" /\ create[s] \in DOMAIN Order
          /\ \A r \in Server \ {s} : state'[r] = state[r]
        BY <1>7 DEF Wait, Becomes, StartupTypeOK
    <2>2. PInv(s)'
        BY <1>5, <1>7, <2>1 DEF Wait, PInv, MadeInOrder, Stands
    <2> QED BY <1>4, <1>7, <2>1, <2>2 DEF Wait
<1>8. CASE Listen(s) /\ ~ Exit(s)
    <2>1. /\ pc[s] = "listen" /\ pc'[s] = "run" /\ state' = state
          /\ \A r \in Server \ {s} : pc'[r] = pc[r]
        BY <1>8 DEF Listen, Goes, StartupTypeOK
    <2>2. PInv(s)'
        BY <1>5, <1>8, <2>1 DEF Listen, PInv, MadeInOrder, Stands
    <2> QED BY <1>4, <1>8, <2>1, <2>2 DEF Listen
<1> QED BY <1>1, <1>2, <1>3, <1>6, <1>7, <1>8 DEF Step, Continue, CommitThrows, Listen, Kill

-----------------------------------------------------------------------------
(* Processes, transactions and the schema are well typed.                  *)
THEOREM StartupTypeCorrect == StartupSpec => []StartupTypeOK
<1>1. StartupInit => StartupTypeOK
    BY StartsAssumption, Statements DEF StartupInit, StartupTypeOK
<1> QED BY <1>1, TypeStep, PTL DEF StartupSpec

(* The inductive invariant.                                                *)
THEOREM Invariant == StartupSpec => []IInv
<1>1. StartupInit => IInv
    BY DEF StartupInit, IInv, SchemaIsWhole, OneMaker, PInv, MadeInOrder, Stands
<1> QED BY <1>1, InvariantStep, StartupTypeCorrect, PTL DEF StartupSpec

(* All tables or none, however many constructors race, fail or are killed. *)
THEOREM WholeSchema == StartupSpec => []SchemaIsWhole
<1>1. IInv => SchemaIsWhole
    BY DEF IInv
<1> QED BY <1>1, Invariant, PTL

(* A server without tables has been refused a statement for a reason of    *)
(* PostgreSQL's own (server.cpp:42-82).                                    *)
THEOREM BareIsRefused == StartupSpec => []BareOnlyIfRefused
<1>1. IInv => BareOnlyIfRefused
    BY DEF IInv, PInv, Stands, BareOnlyIfRefused
<1> QED BY <1>1, Invariant, PTL
=============================================================================
