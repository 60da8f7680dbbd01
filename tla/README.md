# A TLA+ verification project for BPKproject

BPKproject is a chat program: a Qt client (`src/client`) talks over one
WebSocket to a server (`src/server/server.cpp`) that keeps its data in
PostgreSQL; users log in with Google, and two members of a chat can share
Trello boards. This directory models the server's data and requests, the
connection, the start of the server, the handlers of the client with Trello and
Google behind them, and their interleavings; it checks them with TLC and proves
with TLAPS every safety property the passing runs check.

## 1. The system

| Component | State | Operations |
|---|---|---|
| Database (`server.cpp:22-340`) | five tables, two id sequences, one connection `C` | thirteen methods, each one transaction, answering a JSON row set, `SUCCESS`, `FAIL` or `User not found` |
| Request dispatch (`server.cpp:378-505`) | none | parse one request, call one method, send one answer; an exception sends nothing |
| Server start-up (`server.cpp:22-84, 507-563`) | configuration, one transaction | read the configuration, create the five tables, commit, listen |
| Connection (`socket.cpp`) | promise `p`, connection state, I/O thread | `send_blocking` on the GUI thread; `on_message`, `on_open`, `on_fail`, `on_close` on the I/O thread; the destructor |
| Login and registration (`auth.cpp`, `trello_auth.cpp`) | `user` (id, name, token) | find the user or register it, add and link a first chat, store the Trello token |
| Dialogs (`add_chat.cpp`, `add_member.cpp`) | the name typed in | add a chat and link oneself; link another user to the chat in view |
| Main window (`mainwindow.cpp`) | the list of chats, the messages in view and their number, selected row, current chat id | two 60 ms polling timers, sending, choosing a chat, opening the dialogs and the boards |
| Trello boards (`mainwindow.cpp:102-127`, `view_boards.cpp`) | the other member, both tokens, board ids | list the other member's boards, join one with his token, open it |
| Google login (`auth_google.cpp`, `auth.cpp:21-25`) | nested event loops, the port 10002 | the login in the browser, the name Google reports |
| HTTP wrapper (`curl_raii.cpp`) | a libcurl handle | `save` throws on anything but 200, `send` ignores the status |
| Widgets, `main.cpp`, model library | | layout; the catch-all; unused |

How they interact: every window handler runs on the GUI thread and is a
sequence of `send_blocking` calls with local steps between them. Each call
sleeps on the promise that the I/O thread fulfils. The server has one thread, so
a request is atomic at the server, and the handlers of different clients
interleave at the granularity of requests. Nothing is pushed to a client; the
windows poll.

What is hard: handlers of two clients interleaved request by request (two
registrations of one name, a chat name taken between two calls); a client ended
between two calls, with nothing on the server to undo the first; a request or an
answer that is lost, with no timeout anywhere; the hand-over of the answer
between two threads; a database transaction that fails before, or in, its
commit; a view that is kept up to date by comparing lengths; eight requests to
two services of which any may find that an earlier answer is no longer true; an
event loop inside a handler whose button stays enabled; two servers started at
once. What has to be right for each component is what the properties below say;
`PROJECT.json` lists the hazards line by line.

## 2. Modules

    RemoteCall <--implements-- Endpoint <--EXTENDS-- Handlers --implements--> AtomicCalls
                                                                                  .
                                                   one call = one step            .
                                                                                  v
    ChatService <--implements-- Server --EXTENDS--> Database <--EXTENDS-- Session, ChatWindow,
                                                       .                  Boards
                         Startup . . creates . . . . .'
                     GoogleLogin . . names the user of . . Session

Database, Server and ChatService, which share the words of **Answers**, are checked
through `MCServer`; Endpoint, RemoteCall, Handlers and AtomicCalls through
`MCEndpoint`; every other module `M` has its instance in `MCM`. The theorems about
`M` are in `MProofs`, those about Handlers in `EndpointProofs`. Dotted lines are not
`EXTENDS`: one module is the reason for what another assumes.

**Database** models `class Database`. The variables are the five tables, the two
`BIGSERIAL` sequences and the state of the connection `C`. A writing method is
an action `method(arguments, ans)` where `ans` is the answer it returns; a
reading method is an operator giving the answer, and `Query` the step that
returns it. The endings of a method are named: `Committed`, `Refused` (a
constraint), `Faulted` (error or broken connection) and `Unreachable` (the
connection broke earlier; the code never reconnects). A refused `INSERT` still
burns an id. A sequence at its last value refuses. Names, texts and tokens are
model values: the doubling of quotes before a statement is undone by
PostgreSQL, so the value stored is the value asked for. (`get_chat_id` puts the
doubled form into its answer, `server.cpp:236`; no client reads that field.) The loops over the rows of
a `SELECT` are the recursive function in `Kept`.

**Server** adds the dispatch of `on_message`, its last request and answer
(`reply`), and the difference between the ids read into a `size_t` and those
that go through `std::stoi`, which throws beyond `MaxInt`.

**ChatService** is what the server is to a client, without tables: accounts and
chats under names of their own, for each account the chats it has entered, for
each chat its members and its log, one token per account. A request is done at once, or
refused and nothing has changed, or dropped; a question is answered from what is
there. `ImplementsChatService` maps each list to the loop that reads it
(`entered[u] <- ChatsIn(links, u)`), so it says of every table and every loop at once
that the answers are the right ones: that a message put into a common table turns up
at the end of one log and of no other, a membership in one list of chats and in one list of
members, a second token nowhere.

**Endpoint** models `websocket_endpoint` and `connection_metadata`: per client
the GUI thread (`gui`), the state of the connection as websocketpp keeps it
(`conn`), whether bytes travel (`link`), the promise (`p`), requests and answers
in flight. `send_blocking` is three steps, because the I/O thread runs between
them: assign the promise, send, wait. `executed`, `received` and `lost` record
history: what the server has answered, what the calls returned and why an open
call can no longer be answered; they guard nothing in the threads.
**RemoteCall** is what the rest of the client relies on: at most one open call,
executed at most once, returning its own answer. It does not promise that a call
returns. `ImplementsRemoteCall` is the refinement (`answers <- executed`).

**Handlers** puts programs over Endpoint and a state behind its server: `local[c]` is
where the handlers of `c` are, `Resume` where they go on with an answer, `Result`
what the server may do for a request. Which programs and which server are
constants. **AtomicCalls** is the same programs with a call as one step, which is
how Session, ChatWindow and Boards are written. `ImplementsAtomicCalls` is the
refinement: a client counts as having gone on with its answer from the moment the
server has acted, wherever that answer is. A process is a client of its own here;
one started again is another client.

**Session** models the handlers of login, registration, the Trello token and the
two dialogs for several clients of one server. `pc[c]` is the call that comes
next, so a step is one request with the local code up to the next. By the
refinement above a call is one step; a call that never returns is a client that
takes no more steps. `Leave` ends a client between any two calls. An exception
of `json::parse` ends it too (`End`; `main.cpp:31`). `halfway` is a history
variable: the users and chats whose creation was cut off.

`add_member` works on the chat id its main window remembers, so that memory is here:
`listed[c]` is the list with the id behind each row, `current_chat_id[c]` the chat in
view. `OpenWindow` (the constructor) reads the list and takes its first chat, or 0 of
an empty list; `ItemClicked` takes the id of a row; `UpdateChats` is the timer, which
rebuilds the list and leaves the id; `DialogLink` clears the list and leaves the id.
`LinkGuest` sends whatever id is there when the answer to `find_user` has come.
`EnteredByMember` is about that id being right. When the timer rebuilds and when it does
not (`num_of_chats`, `mainwindow.cpp:132`) is ChatWindow's matter; here it may do either.

`OneTokenEach` is what Boards takes from here: the program asks for a token once,
after registering.

**ChatWindow** models one main window while everybody else writes to its chats.
It keeps the list and the view, the two lengths the code compares, the
selected row and the polled id. `me` and `other` are the two user ids.
Look-ups of names belong to the step that needs them, since nothing stored
changes. `strays` counts messages in view that were refused, or went to another
chat than the one in view.

**Boards** models the two handlers behind the boards button for several clients:
`ViewBoards`, `GetChatterToken`, `GetMember`, `GetBoards` (the constructor of the
window), then twice per click `GetOwnToken`, `GetOwnMember`, `Put`, `GetBoard`,
since the slot is connected by `setupUi` and by hand. `view[u]` is what these
handlers hold. `ViewBoards` asks for the members of the chat in view (`AskMembers`), which
may be any chat of the user's, or none: the list and the clicks that bring it there, and
that it is always one of his, are in Session. Trello is external: `role[b][x]` and the tokens `revoked`. What
others do between two requests is `LinkMember`, `StoreToken` and `Revoke`. A null
answer or a status other than 200 throws (`"thrown"`); a failed request to the
server or a curl error ends the process too (`"gone"`). `refused` records that
Trello has refused the `PUT`, which the program does not look at.

**Startup** models `main` and the constructor for several processes: one
transaction creates the tables; the constructor goes on after a statement that failed because
each is caught by itself; PostgreSQL answers the commit of a dead
transaction by a silent rollback. `made[s]` is what the open transaction holds, and
a second process waits for it.

**GoogleLogin** models the calls of `GoogleAuth::work` of the processes of one
computer as a stack of nested event loops (`logins[c]`); `hears` says whether the
reply handler got port 10002. A loop returns only when it is the innermost (`Proceed`,
which is `exec()` returning and no more). The handler of the button then makes its
calls: `asking[c]` says that it does, and while it does the thread has no event loop. It
ends with the next window (`Finish`), with the process (`Kill`), or not at all, when a call is lost
or the loop of `auth.cpp:35` catches it; what happens in it is Session. Only its end
destroys its `GoogleAuth` and frees the port. A refusal in the browser is not final.

Every definition named `Bad...` is a plausible fault of the definition that
follows it, kept with it so that each property can be seen to fail on a fault.

## 3. Runs

Bounds are constants of the modules: `MaxId` (last value of a sequence, which
really is 2^63 - 1), `MaxRows` (rows of links, messages, tokens), `MaxCalls`,
`MaxStarts`, `MaxMessages`, `MaxClicks` (handlers inside each other). Deadlock
checking is off where it finds nothing but a bound reached, and where a real
client may leave or hang: in all runs but `server`.

| Run | Instance | Question and result |
|---|---|---|
| `server` | 2 users, 3 chat names (one too long), ids to 2, 2 rows, `MaxInt` 1, all faults; symmetric names; 206,578 states | holds: `Integrity`, `SuccessIsStored`, `RowsAreUsable`, `AppendOnly`, `FailStoresNothing` |
| `service` | 2 users, 2 chat names that fit, ids to 2, 2 rows, `MaxInt` 1, commits in doubt; symmetric names; 132,163 states | holds: `ImplementsChatService` |
| `startup` | 2 processes, 4 starts, all faults, fair; 2,854 states | holds: `SchemaIsWhole`, `BareOnlyIfRefused`, `StartEnds` |
| `endpoint` | 2 clients that register under one name (`auth.cpp:22-45`), 3 calls, 3 answers, transactions that fail, fair; 120,748 states | holds: `NeverSatisfiedTwice`, `WaitingIsJustified`, `NoStrayReply`, `ImplementsRemoteCall`, `ImplementsAtomicCalls`, `LostCallHangs`, `CallReturns`, `ExitEnds` |
| `session` | 2 clients of 2 users, each started twice, 3 chat names of which one first-chat name is too long, ids to 3, 4 rows; 2,116,736 states | holds: `SessionMatchesAccount`, `NothingHalfDone`, `EnteredByMember` |
| `session_race` | 2 clients of 1 name, each started twice, ids to 2, 2 rows, 2 tokens, a connection that breaks before or in a commit, fair; 201,166 states | holds: `StuckOnlyByRace`, `OneTokenEach`, `LoserSpins`, `LoginEnds` |
| `first_chat` | as `session`, 2 names that fit, ids to 4 | **violated**: `AddsFirstChat` |
| `taken` | as `session`, 2 names, ids to 4 | **violated**: `TakenMeansTaken` |
| `window` | 2 chats and a third to add, 2 texts, 2 messages, all faults, fair; 407,906 states | holds: `SendsToViewedChat`, `ListIsPrefix`, `SameSizeSameMessages`, `ViewIsStored`, `ViewCatchesUp`, `ListCatchesUp` |
| `google_login` | 2 processes, 3 handlers inside each other, fair; 2,351 states | holds: `PortIsHeld`, `NextWindowIsNamed`, `SecondClickSticks`, `GrantedLoginGoesOn` |
| `boards` | 3 users to enter one chat, 2 of them with a client, 1 board, 3 tokens of which one is mistyped, 2 distributions of the roles, failing requests; 996,224 states | holds: `JoinsAreShared`, `ThrowsHaveReason` |
| `group` | as `boards` | **violated**: `GroupMeansGroup` |

The type invariants `TypeOK`, `SessionTypeOK` and `WindowTypeOK` are checked by
the first run of their modules; those of Startup, GoogleLogin and Boards are part
of the proved invariants.

What they show:

* *The tables.* A repeated or failing request never stores a membership twice,
  never leaves a dangling id, and an answer `SUCCESS` can be read back at once.
  `FAIL` means nothing was stored, except when the connection to PostgreSQL
  breaks in the commit, and then the server answers `FAIL` to everything until it
  is restarted. And what is read back is right (`ImplementsChatService`).
* *The connection.* The promise is never satisfied twice and no answer is taken
  for that of a later call. But a call whose request was refused by `send`
  (`socket.cpp:122`), whose bytes were lost, or whose handler threw on the
  server, blocks the GUI thread until the process is killed (`LostCallHangs`).
  For everything else a call may be thought of as one step of the server
  (`ImplementsAtomicCalls`). The module also has the place `terminated`: a client left while its connection
  is not open destroys a joinable thread (`socket.cpp:144`).
* *Registration.* Two clients of one name: one of them spins in the loop of
  `auth.cpp:35` for good (`LoserSpins`), and nothing gets a client stuck there but
  a rival of its name that was started, or a lost backend (`StuckOnlyByRace`); every other
  login whose calls return ends (`LoginEnds`). Whoever registers, is caught, or comes back
  under a name that was registered, the name gets one token at most (`OneTokenEach`). A client killed at the wrong
  moment leaves a user without a chat, or a chat without members whose name
  stays taken; `NothingHalfDone` says this is the only way, apart from a first-chat
  name that does not fit and exhausted ids. In those cases the handler goes on with
  a null chat id, and `EnteredByMember` says that this puts the user into no other chat.
* *Entering a chat.* The id a main window remembers is old by design: it survives the
  rebuilds of the list, the dialog that clears it, and everything other clients add, and is
  read by a dialog after an answer of the server. It is still always a chat of the window's
  own user, or 0, because memberships are only added and the memory does not outlive the process
  (`EnteredByMember`). Taking the row for the id breaks it (`BadItemClicked`).
* *Three disagreements.* "Adding first chat" (`auth.cpp:45`) may add nothing and put the new
  user into a chat that somebody else made under that name; "This
  chat name is taken" (`add_chat.cpp:36`) is shown for any refused name; and "Trello
  View is not available for group chats" (`mainwindow.cpp:124`) for a chat of one: the trace links user 1 to chat 1, of which
  he is the only member, and he clicks.
* *The window.* Sending by row and polling by id agree as long as the list is
  not empty, because a list only grows at its end. Comparing lengths is enough
  to keep the view right as long as no message of the user's own was refused or
  misdirected; and `ListCatchesUp` needs its exception: after a link that failed
  the dialog has cleared a list whose length has not changed, and the timer does
  not fill it again (`mainwindow.cpp:132`).
* *Start-up.* The single transaction keeps the schema whole through every crash.
  Two servers that start together end with the tables of the one that was first,
  although the other's transaction is dead and its commit does nothing. A server
  that listens without tables was refused a statement by PostgreSQL.
* *Google.* A second click on the button starts a login that cannot be reached,
  on top of the first: granting the first then changes nothing until the process
  ends (`SecondClickSticks`). So does a second client of one computer, whose login
  does not hear; and as the port is held until the handler has made all its calls
  (`PortIsHeld`), a handler that hangs in one keeps it from every other client. A login
  that is granted and not clicked over leaves `work()` (`GrantedLoginGoesOn`);
  whether its handler then ends is `LoginEnds`, `LoserSpins` and `LostCallHangs`.
  Closing the window is what lets the handler run on without a name.
* *Boards.* The token in the window may be that of somebody with whom the user is
  no longer alone; still nobody joins a board but by an admin with whom he once was
  (`JoinsAreShared`), because users, tokens and memberships are only added. The
  handlers check no answer but by throwing; `ThrowsHaveReason` says what ends them,
  and that the second run of a click, which finds its work done, ends for
  nothing but a token revoked since the first.

Why the bounds are enough: two ids per sequence make a burned id, a reused name
and an exhausted sequence all happen; with `MaxInt` below `MaxId` an id stoi
refuses exists. Two clients are the fewest that race, and a third would meet the
same tables. `service` needs no fault but the one that stores a row and still answers
`FAIL`, since the others store nothing, and no refused name, which the service does
not tell from a failure; the theorem covers the rest. In `endpoint` clients share
nothing but the server; two calls show what a late answer of the first could do to the
second, and the third is the one that goes round the registration loop or leaves it.
The server's transactions fail there only by rolling back: a commit in doubt is
another pair of state and answer in `Result`, of which the theorem takes any. In
`session` three chat ids and three names let a user be in two chats, click between
them and clear the list while the other is in a third; four rows are enough for two members of each of
two chats. In `session_race` two ids let the second registration burn one; the first
start of a client races and the second comes back to what was left. Its faults leave out
a statement that fails by itself: one that fails for ever keeps a client in the loop of
`auth.cpp:35` for ever, of which no fairness says otherwise, and `LoginEnds` would only
say so; the theorems take all faults. In `window` five links are all there
can be for two users of three chats where one user is in all of the first two; two
messages can be in one chat or in two, in either order. In `startup` two processes
wait for each other, and four starts let each come back once. In `google_login`
the third nested handler is to the second what the second is to the first. In
`boards` one chat is alone, pair and group in turn; the third user can join at every
point of the others' handlers, and a second board or chat would share nothing
with the first but the tokens.

### Fairness

* `Handlers!FairHandlers`, with `Endpoint!Fairness`: weak fairness of the sleeping and waking GUI thread, of
  the I/O thread and of the server's loop; they are threads of running
  processes. No fairness for calls, for leaving, for breaks or for kills. The
  server's handler is fair as "answers or throws"; nothing says which.
* `Session!FairSessionSpec`: weak fairness of a handler that has begun (`RunsOn`). A user
  need not start one, and nothing makes the connection to PostgreSQL break. A call that
  hangs is outside it: `LoginEnds` is about
  calls that return, which is `CallReturns` of Endpoint. Within one client only one
  action of `Continue` is enabled at a time, so the registration loop gets no
  favour from it.
* `Startup!FairStartupSpec`: weak fairness of a process that has begun, a waiting
  statement included, since PostgreSQL wakes it when the other transaction is
  over; nobody has to start or kill a process.
* `GoogleLogin!FairLoginSpec`: weak fairness of `Proceed` alone: a loop that was asked to
  quit and is innermost returns from `exec()`. Users need not click, the browser need not
  answer, and the rest of the handler need not end.
* `ChatWindow!FairWindowSpec`: weak fairness of what the event loop has begun
  and of the two timers, but never of an answer `FAIL` unless the backend is
  lost (`NoFailForced`): fairness must not be what ends a client.

## 4. Proofs

Each of Database, Server, Startup, Endpoint, Session, ChatWindow, GoogleLogin and
Boards has a module `...Proofs`. Everything in them is proved by TLAPS, for every
value of the constants, from the assumptions the modules name: bounds are natural
numbers (`BoundAssumption`, `MaxIntAssumption`, `MaxCallsAssumption`,
`StartsAssumption`, `ClicksAssumption`), the values that mean "nobody" are not
members of their sets (`ServerAssumption`, `ClientAssumption`, `OwnerAssumption`),
and the sets and functions given are of the right kind
(`FaultAssumption`, `AccountAssumption`, `NotesAssumption`, `NamesAssumption`,
`UserAssumption`, `RolesAssumption`, `WindowAssumption`). First-chat names of
different users differ (`auth.cpp:46`), and the main window has two users and at
least one chat. In Handlers the programs go on from every answer
(`ProgramAssumption`), and the server has some answer to every request in every
state (`ServerAssumption` there). TLC evaluates all of these in the runs. Every safety
property of a passing run and both refinements of the server and of the connection are
theorems.

* **Database.** `TypeCorrect`, `IntegrityHolds`, `OnlyAppends`. `StepShape` reduces
  every transaction, with all its endings, to one of six shapes: no row, or one
  row in one of the five tables. `TypeOK` (ids at most the sequence) makes the
  fresh id of a new row fresh. `Integrity` is inductive together with `TypeOK`: names
  and tokens by the `UNIQUE` guards, references because tables only grow,
  memberships by the check of `link_user_to_chat`. `LoopIsFaithful` and `KeptAppend`
  say what the loops over a `SELECT` return and how that changes when a row is
  appended; they argue about the first row at which two loops differ. From them
  `ListsMove`, `ColumnMoves`, `HistoryMoves` and `TokenMoves`: which list a new row
  is appended to, and that every other stays; and `ListsGrow` and `TokenStays`, on which
  the client modules rest.
* **Server.** Every request is a transaction of Database or leaves it alone
  (`RequestIsTransaction`), so `ServerKeepsIntegrity` and `FailIsHonest` carry over;
  `SuccessIsKept` and `ListsAreUsable` then speak of what the lists contain, for
  tables of any length. `ServerIsChatService` is the refinement of ChatService. It
  follows request by request: `WriteEnds`, `RefusalEnds` and `QueryEnds` say that the
  endings of a method, with all its faults, are those of the service; the lemmas on
  the loops say what one new row does to every list. It rests on `TypeOK`
  (a new id is nobody's, so the service may take it) and on `Integrity`, which makes
  the answer to a name the only one there could be, and without which "entered
  already" and a row in the table would not be the same.
* **Startup.** `WholeSchema` and `BareIsRefused`. The invariant says where each
  process is in its transaction and what that holds, and that only one
  transaction holds new tables (`OneMaker`): without it two processes
  could commit parts of a schema.
* **Endpoint.** `PromiseSafe`, `NoMissedWakeUp`, `NoReplyLeftOver`, `Refinement`,
  `LostCallsHang`. `IInv` says for each client where its one open call is: request
  in flight, answer in flight, in `p`, or lost; and that the histories of calls,
  executions and returns differ by at most that call. `NeverSatisfiedTwice` and
  the others are not inductive without it: that `p` is empty when an answer
  arrives depends on the answer being the only one, which depends on the GUI
  thread not having moved on. `CallsAreAtomic` is the refinement of AtomicCalls, for
  any programs and any server. The handlers take steps of Endpoint and nothing else
  (`HandlersUseEndpoint`), so `IInv` holds; with it and `AskingOK` (a client with an open call
  is at a call in its program) the server's step is the call: it finds the client
  where the call was made, and what it appends to `executed` is what the client will be
  given (`HandlerShape`). All other steps with an open call change nothing the mapping sees.
* **Session.** `HandlerStep` says once what each step of a client does, and
  `CallIsTransaction` that all it does to the tables is one transaction.
  `SessionsKeepIntegrity` follows, and `ActsAsItself`, `OnlyRaceSticks` and
  `LoserStaysInLoop` do with `Typed`, which adds to `SessionTypeOK`
  that a handler that creates a chat holds the name of one; `OnlyRaceSticks` also with
  `Started` (a client that is somewhere was started), which finds the rival in whoever
  stored the name. `MembersLetIn` rests on two invariants about what a client remembers while
  the others act. `Remembers`: every id in its list and the id in view, unless 0, is that of
  a chat its user is in; `WindowMoves` shows it for the constructor, the timer, the click and
  the dialog that clears the list, from what the loop of `get_chat_list` returns
  (`ListedChats`), and `LinkedChat` for the steps of the other clients. `Holds`: a handler about
  to link holds 0 or the id of the chat whose name it asked for. `TakenIsExplained` bounds what the run `taken` shows: the pop-up of
  `add_chat.cpp:36` is wrong only for a name too long, an exhausted sequence, a backend
  that is gone, or a statement that failed by itself; otherwise the name is taken, and still
  is while the pop-up is there. `OneToken` needs `NewcomersApart`: a token is asked for by
  the client that registered the name, no two clients register one name, and nobody
  comes back to that question. `OnlyCutOffIsHalfDone` needs `HalfInv`, which says of
  every row without its link which client is between the two requests, and of
  every client which row it is; like its run it assumes `Fault = {}`, since a
  commit that fails is a cut-off of another kind.
* **ChatWindow.** `ListWasTrue`, `SendsWhereItLooks`, `SizesAreEnough`,
  `ViewWasStored` from `WindowInv`: the list is a beginning of what the server would
  answer now, which stays true as tables grow; the view is empty until a chat is
  chosen; and then, as long as it holds no stray message, it is no longer than the
  history of the chat whose id is polled, and is that history if it is as long.
* **GoogleLogin.** `PortIsFreed`, `NobodyUnnamed`, `SecondClickIsStuck` from an
  invariant per client: it holds the port exactly while one login of its stack hears,
  at most one does, only that one can have been granted, and if it has, the name
  is set; and a handler that runs on was let out of its loop by its own grant or by the
  closing of the window (`AskerMay`).
* **Boards.** `JoinsByClick` and `ThrowsAreExplained` from `BoardsInv`: what a
  handler was told by the server is still so (`Told`), and what it was told by
  Trello is so but for tokens revoked since (`Learnt`, with `RolesGrow`). This is
  what eight requests without a transaction rest on.

Only model-checked: liveness (`StartEnds`, `CallReturns`, `ExitEnds`, `LoginEnds`,
`GrantedLoginGoesOn`, `ViewCatchesUp`, `ListCatchesUp`), which is beyond this prover,
and the three properties that are violated.

## 5. Assumptions and limits

* A `SELECT` without `ORDER BY` returns the rows of a table that is only appended
  to in the order of insertion. PostgreSQL does not promise this; the window
  depends on it for the order of chats and messages.
* A statement with a constant too long for its column is refused before `nextval`; one that
  breaks a `UNIQUE` constraint is refused after it.
* A `CREATE TABLE IF NOT EXISTS` waits for an open transaction that is creating the
  same table and is refused if that commits; after a refusal the transaction is
  dead, refuses every further statement, and its commit is a rollback that
  reports no error.
* websocketpp: `send` and `close` give an error on a connection that is not
  open; a data frame that arrives while the connection is closing is not handed
  to the handler; a close handshake ends by the peer's answer or by its timer.
* Qt: `quit()` of an event loop that is not the innermost takes effect when those
  inside it have returned. Only the first listener gets port 10002.
* Trello: a token acts for its account until it is revoked; only the clients'
  requests change the members of a board; a `PUT` by one who is not an admin is
  refused. Only the last board window of a client is modelled.
* The Google name of an account does not change while a client runs.
* Abstracted: texts and names are model values, non-empty; styles, fonts,
  wording, logs.

Not modelled:

* the splitting of a request string, `"echo"` and unknown commands: a pure function of
  the payload, whose one consequence for the state, the exceptions of `std::stoi`,
  is in Server;
* the OAuth exchange, which is Qt's and Google's; the setters of libcurl options
  and `write_data`, which the handlers see only as a throw;
* `on_http` and the log files of the server, which change nothing the program
  reads;
* widgets (`popup.cpp`, `message_view.cpp`, `bubble.cpp` and their like): layout and
  painting, no state that a handler reads back;
* the model library, whose classes neither program uses.

## 6. Plan

1. *Done:* Database, Server with ChatService, Startup, Endpoint with RemoteCall,
   Handlers with AtomicCalls, Session, ChatWindow, GoogleLogin, Boards; the proofs of
   section 4.
2. The parsing of requests as an operator on token sequences: every request a
   client builds is read back as it was meant.
3. Several board windows of one client open at once.
