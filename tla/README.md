# Verification of the TeamSpeak manager, webserver and tools

TLA+ models of the programs in this repository, the TLC configurations that
check them and the proofs that TLAPS checks. `tlc -config <cfg> <module>` runs a
check, `tlapm <module>` the proofs. Line numbers refer to the sources under
`src/`.

## The system

The **manager** (`man/`, C) is a daemon with one thread. It starts two
**modules**, the chat **bot** (`bot.py`) and the **webserver** (`webserver/`, Go),
reads their output through pipes into a log, restarts them when they die and obeys
commands that come over a Unix socket from the **manager client** (the same
program, started with `-s` or `-i`). The webserver shows pages, pushes messages over web
sockets and runs one of two programs (`ltc/`) that add up how long each user was
connected, from the TeamSpeak server's logs. The bot answers chat commands and runs
the older of the two.

| Component | State | Operations | Interacts with | What is hard |
|---|---|---|---|---|
| Process manager, `man/manager.c` | status, dirty flags, per module: state, pid, needs_restart, num_fails, pipefd; the poll array; the signal mask | loop, `do_module_init`, `do_module_exit`, `__restart_mods`, commands, `setup_poll_fds`, `service_fds`, SIGCHLD and SIGTERM handlers, shutdown | forks the modules; reads their pipes; is called by sessions | handlers run between any two instructions; signals coalesce; pids and descriptors are reused; `poll()` has no timeout |
| Start and socket file, `man/manager.c` 330-413 | the socket's file, the log and each manager's offset in it | `stat`, truncate, daemonize, `bind`, `listen`, `unlink` | other managers through the file system | crashes leave the file; check and use are apart; the log is not opened to append |
| Log relay, `man/manager.c` 673-707 | one buffer | `read_mod_input`, the SIGCHLD handler's line | pipe to log | the buffer's boundary, a handler that writes to the same file, what an earlier write left in it, pipes closed with something in them |
| Command sessions, `man/session.c` | list of sessions; per session: descriptor, cmd_len, bytes_read, buf_tail | accept, read header, read body, carry out, close, tear down | socket; calls the manager | commands in several reads on a blocking socket; the one thread |
| Manager client, `man/client.c` | connection, buffer | connect, send, receive, terminal | the socket | the manager may die meanwhile |
| List, `man/list.h` | pointers | add, delete, move, replace, swap, iterate | sessions | neighbours, ends, deleting while iterating |
| Webserver hub, `webserver/cmd/server.go` | map of connections, broadcast channels | handlers, `handleMessages` | pages, the two producers below | goroutines share a map without a lock; blocking writes |
| Producers, `webserver/cmd/tsc/` | connections to the TeamSpeak server | `PushClientList`, `ListenToServerMessages` | feed the hub over unbuffered channels | connections that end, only one of which is made again |
| Lights, `elights/lights.go`, `static/lights.js` | currentToggle, map of connections; in the page: the toggle it shows | handler, broadcaster, click, message, load, open | page and server over a web socket | shared state read before blocking, no locks, crossing messages |
| Connection times, `ltc/src/main.rs`, `ltc/old_ltc/ltc.cpp` | a table of clients | fold a line, end a file | run by the page (`timemodule.go`) and the bot | lines missing, files that end in a crash, several connections at a time, calendar arithmetic |
| Chat bot, `bot.py` | cache of channel names | event loop, commands | TeamSpeak server; restarted by the manager | uncaught exceptions, stale cache, keep-alive |
| File map, motd, configuration; static pages; scripts | none to speak of | | | |

What makes each component correct, in a sentence. *Manager:* each module process
is accounted for, no death is missed, dead modules are restarted within
their budget, the right processes are signalled, a stop stops everything.
*Sessions:* each command is carried out once, whole, and answered; the thread never
waits for a client; what is polled is what is open. *Start:* one manager at a time and
a start succeeds when there is none. *Log relay:* every byte in order, lines kept
apart. *Hub:* a page that stays gets what is sent after it came, once and in order. (One page
that never reads does stop the others: the broadcaster has no deadline.) *Lights:* pages come to agree. *Times:* nobody is credited time twice or
time that was not. *Bot:* no chat message ends it.

`PROJECT.json` lists the components with what is modelled of each, and
the hazards at their lines with the properties that would catch them.

## Modules

| Module | Models | Companions |
|---|---|---|
| `Manager` | the manager's thread, handlers, mask, modules, children | `MCManager`, `ManagerProofs`; implements `Supervisor` |
| `Supervisor` | what the manager promises of its modules | |
| `Session` | a command from the client to the manager and back, in bytes | `MCSession`, `SessionProofs`; implements `Rpc` |
| `Rpc` | what a client may expect of its calls | |
| `PollSet` | descriptors, the list of sessions, the poll array, a pass over it, the teardown | `MCPollSet`, `PollSetProofs` |
| `Startup` | managers started, stopped and killed side by side | `MCStartup`, `StartupProofs`; implements `OneServer` |
| `OneServer` | what a start promises: one holder of the name, refusals only by it | |
| `LogRelay` | the modules' output through `read_mod_input` into the log, in bytes | `MCLogRelay`, `LogRelayProofs` |
| `List` | the pointers of `list.h` | `MCList`, `ListProofs`; implements `Rows` |
| `Rows` | what lists are to their users: rows of entries | |
| `Hub` | the web sockets' handlers, the broadcaster, the two producers, the pages | `MCHub`, `HubProofs` |
| `Lights` | the lights page, its handlers and its broadcaster | `MCLights` |
| `ClientTimes` | the server that writes the logs and the two programs that fold them | `MCClientTimes`, `TimesProofs` |
| `Calendar` | `str_to_time` against the calendar | `TimesProofs` |

`Manager`, `Session` and `PollSet` are three views of one program: the first has
processes and signals and takes a command as one item, the second has bytes, the
third has descriptor numbers. What one leaves nondeterministic another decides:
`Session` ends the manager at any time, `PollSet` lets modules die at any time and reads a session's
bytes as part of a command or a whole one. `Startup` has what several managers share, and `LogRelay`
the bytes of a module's pipe, which `Manager` only opens and closes.

### Manager and Supervisor

The thread is a program counter `pc` inside one call of `do_module_init` (`attempt`,
`init`, `fork`, `record`, `finish`) or `do_module_exit` (`exit`, `kill`,
`unmask`, `close`), the loop that makes the calls (`ctx`: startup, restart pass,
command, shutdown), and the main loop (`count` and `fill` of `setup_poll_fds`, `loop`, `dirty`,
`toPoll`, `inPoll`, `service`). A step ends wherever a signal could make a
difference. `blocked` and `saved` are the signal mask and the sets saved by
`intr_save` at its two levels; the handlers (`DeliverChld`, `ReapChild`,
`ReturnFromChld`, `DeliverTerm`) run between any two steps when it allows. The kernel
keeps one pending bit per signal, so SIGCHLDs coalesce. Children pass through
forked (before `prctl`), live, term and zombie to free; a freed pid is handed out
again. `pipe()` and `fork()` may fail at any call, and the manager may crash at any
step.

`Supervisor` has one of four conditions per module and a count of failed
recoveries. The mapping is at the end of `Manager`: a module is *crashed* from
the handler on, *recovering* while the restart pass works on it.

### Session and Rpc

Bytes are counted, not named. `wire[c]` holds frames with the length the header
declares and the bytes of the body left; a client writes header and body in one
`write()` and waits. The manager reads the header (`HeaderBad` refuses a length that does not
fit, which `client.c` never sends) and then at most `MAX_CMD_LEN - 5` bytes of the body in one
call, and resumes at the next one (`ReadBody`); when the body is whole `Process` resets the session,
carries the command out and answers. `reading` marks the moments between, so that `tail` is seen where
the completing read leaves it and puts the NUL. `FitsBuffer` and the others hold though
`__process_session` compares nothing but the declared length: they rest on clients that
send what they declare and wait for their answer. `Rpc` says that each call is carried out at most once and before it
returns.

### PollSet

`names` is the kernel's table of descriptors; an open takes the lowest free number.
`array` is what `setup_poll_fds` built, `marked` the entries `poll()` found ready and
`entry` the next one that `service_fds` looks at. Serving looks the number up as
the code does: the listening socket, then the pipes, then the sessions, with their
values of that moment. `Turned` is what a command or a restart pass does to a list of modules, one after the other,
and whether it makes the manager dirty. A session whose number was given out
again during the pass may be reached with nothing to read; its `read()` would block
(`pc = "blocked"`). `needs_restart` is kept across commands as in the code.
`CloseHandler` follows `close_session_handler` through `list_for_each_entry_safe`:
with sessions `<<a, b, c>>` it closes `b` and `c`, takes the list's head for a
session and frees it; what that undefined behaviour can do is a choice (a descriptor
closed or none, a crash or none).

### Startup and OneServer

Each manager runs through `stat`, `open` (`init_manager_log_file`), `daemon`, `bind`, `listen`,
`serving`, `unlink` and `last`, when the name is gone and "Manager shutdown complete." still to be
logged; it may fail or be killed at each. `file` is whose socket the name in the file
system leads to. The log is a sequence of places with a writer each: it is opened with `O_TRUNC` and
without `O_APPEND`, so every manager has an `offset` of its own and a second start leaves the first
with holes or with the other's lines. `racers` records who could still write when a manager
took the name: those past their `stat`, and those that had removed the name and owed their last line;
`LogIsItsOwn` says that only these can spoil its log. `Clear` is the administrator
who removes the file of a manager that crashed. `OneServer` forgets the log and the steps.

Two things follow from the order of the calls and are no property: the process
that the user started ends with success before `bind()` may fail in its child, and a failing
`listen()` leaves the name behind like a crash.

### LogRelay

Bytes are numbered per module; a newline is one of them. `Read` fills the buffer behind
the module's name and writes it out when full; from then on the buffer is full of what was
written and `Finish` looks for a newline in all of it. `Used` is what it writes. A module
may die, be exited (`Exit`: the pipe's contents are lost, `dropped`) or be started again; its
new pipe may have the descriptor that is marked in this pass. Processes that end make SIGCHLD pending
(`Die`, `Obey`), and the handler (`Reap`) may run between any two steps; when no child is left its `waitpid()`
fails and it logs a line, whose place is in `asides`. `Attributed` says that this line falls between two whole buffers of a
burst and nowhere else inside one. `Relayed` says that nothing else is lost,
doubled or moved. `BurstsBreak` is as strong as the code allows: a burst ends
without a newline when it fills the buffer exactly, and its newline need not be at its end.
The manager stays in `read_mod_input` as long as the module's pipe is not empty. `Drained` is
therefore about modules that pause.

### List and Rows

`mem` is the memory: `next` and `prev` of heads and entries, all of which keep their last values
when they are deleted. Operators carry the functions' names where they have one. `Rows` has a
sequence per head; the mapping walks `next` from the head. `list_for_each_entry_safe` is
`Begin`, then `Keep` or `Drop` of the entry visited, then `End`. Calls are made within the
functions' preconditions: `list_move(l, l)`, `list_swap(e, e)`, the replacement of an entry of
no list and additions of an entry that is in a list are not. `PollSet` has the one iteration
that breaks the rules. `list_for_each_safe` and `list_for_each_entry_from` name variables that do not
exist; nothing uses them.

### Hub

A page is none, open or gone; `clients` is the map of connections, from which only a failed
write of a list removes one. `msg` and `todo` are the broadcaster's range over the map: a page that
enters meanwhile may be visited or not, and entering may end the program (`EnterFatal`, the unlocked
map; `log.Fatal` of a failed upgrade is the same). `Write` blocks when the page
does not read. The lister asks over `tsconn`, which is never connected again (`asks`); the
listener's connection is made again (`Reconnect`) or ends the webserver (`ListenerFatal`, which also is
a chat history that cannot be written). Nobody looks at the replies to login, use and registration, so the
new connection may be one that hears nothing (`registered`). What is said while it is not there or not
registered is in `lost`. The messages that pages send are said by the
server's own user and come back with `invokerid=0`; `Scan` passes over every line that holds this text,
wherever it stands, a user's in `Quotes` included. That a user's text is cut at `invokerid=` (smsg.go 110) is not
modelled, nor is what the text looks like.

Facts of the code the steps show and no property states: once lists stop, closed pages stay in the map
(`PagesAreForgotten` is on the condition that they do not); a keep-alive is sent only after the
connection has ended; a handler that gets a chat message while `tsconn` is nil panics;
the channel `broadcast` has no sender.

### Lights

Per page: what it is (`page`), what it shows, the messages to and from it. Per
connection: the handler's state (`conn`, and `held`, the value it evaluated before it
blocked on the channel). The broadcaster takes a value from any waiting handler
(`Take`), writes to the clients in any order (`Write`) and then stores the value
(`Done`). The unlocked accesses are choices: a read of `currentToggle` during its
assignment may find a torn string (`Torn`), an insertion during the range over the map
may or may not be visited, and the Go runtime may end the server
(`EnterFatal`), after which the manager starts it anew. Left out: `log.Fatal` for a request that is no web
socket's (lights.go 42-44), which is an `EnterFatal` without a page, and clicks on a page whose socket is still connecting,
whose `send()` throws.

### ClientTimes and Calendar

The server and both programs run side by side, each line folded in as it is
written. Up to `MaxMissed` lines may be missing; a file may end while clients are
connected. The C++ program takes dates from `str_to_time`, which is a day late in January and February of leap
years: `StrToTime` adds `Day` to the moments in `Late`. So a stay over that New Year is credited a day too many there and one over the end
of that February a day too few; `jumped` and `crossed` record how far the dates have jumped ahead and who was
connected, by the log, at either midnight. It sorts files by these dates, too; since no connection outlives its file the order
changes no number. `Calendar` turns the pages of a calendar day by day and compares
the count with the program's formula; it is proved about and not run, and is where `StrToTime` comes from.

## Runs

| Run | Bounds | What it shows |
|---|---|---|
| `manager_safety` | 2 modules, 3 pids, 1 command, 2 failures to give up | The bookkeeping of children holds at every step and `Supervisor`'s safety part is implemented |
| `manager_live` | 1 module, 2 pids, 2 commands, 2 failures | A shutdown ends all modules, and `Supervisor` is implemented, its answer to every crash included |
| `manager_stale_mark` | 1 module, 1 command | *Violation:* a stale `needs_restart` restarts what is not dead |
| `session` | 2 clients, 2 commands each, buffer 8, header 2, lengths 1, 5, 6, 7 and 8, which is refused | Framing loses, mixes and repeats nothing; `Rpc` is implemented; every wait for an answer ends |
| `pollset` | 2 clients, 1 module, 2 failures, 1 lost pipe, 6 descriptors | No pass blocks, the array is what is open, no descriptor is confused, every client is heard |
| `pollset_release` | 1 client, 1 module | *Violation:* the session handler's teardown leaves a session open |
| `startup` | 3 starts, 2 lines each | One manager has the name, only racing starts and last lines spoil a log, `OneServer` is implemented, every start is decided |
| `relay` | 2 modules saying 3 and 1 bytes, buffer 2, pipe 2, 1 restart | What modules say reaches the log once, in order and under their name, the handler's line only between whole buffers; bursts break lines; pipes are emptied |
| `hub` | 2 pages, 3 chat messages, the first of which holds "invokerid=0", 1 change of the channels, 1 message per socket | A page misses nothing while it stays, chat is lost only while the listener is not registered or if it holds that text, the rest is relayed once and in order, lists never go back, pages become current and, gone, forgotten |
| `list` | 2 lists, 3 entries | The pointers form rings and implement rows, the predicates are right, a safe iteration visits all |
| `lights` | 2 pages, 3 clicks | After the last click all pages come to show the server's toggle, for good |
| `clienttimes` | 1 client, 7 moments, two of them in the January and February of a leap year, 3 connections at a time, 3 missing lines, with and without `-d` | The Rust program credits the stays that end and invents no time; the C++ program counts the same connections and credits the same unless a stay crosses an end of those months, and never more than the logs cover and a day per leap year |

The two violations are disagreements between the code and its comments; `PROJECT.json` quotes them
under `findings`. What else the code does not keep. Where a definition is named that no run lists, it states
the contrary, and adding it to the cfg of its module's run shows it violated:

- A SIGTERM between the test of the status and `poll()` sets the status and wakes nobody:
  `StopIsObeyed` of `Manager`. The poll array is counted by pid and filled by pipe: `EveryPipeHasASlot`
  of `Manager`.
- A page that loads while a click is on its way takes the click back: `QueryChangesNothing` of `Lights`.
- The handler's line may come between a module's name and the rest of its burst, though the comment in
  `manager.c` 674 wants to "distinguish who is talking": `TalksUnderItsName` of `LogRelay`. `Attributed` says
  exactly where the line can fall.
- A user whose text or nickname holds "invokerid=0" is taken for the server and reaches neither the pages nor
  the chat history: `UsersAreHeard` of `Hub`. `ChatIsRelayed` says exactly what is passed over.
- The C++ program credits a day too many to who is connected over the New Year of a leap year:
  `TimeSpentConnected` of `ClientTimes`. `ProgramsAgree` and `WithinTheLogs` say by how much, and to whom.
- A SIGTERM during startup is overwritten when `main()` sets `RUNNING` (`StartupDone`). A manager that
  dies between `fork()` and the child's `prctl()` leaves the child running (`Crash`, `ChildReady`).
- Enabling a module whose death is recorded and not yet cleaned up loses its pipe (`Start` and
  `Leaked` in `PollSet`, where `EveryFdIsOwned` says that nothing else is lost).
- `RightFromMarch` states what `str_to_time` computes, the wrong days included.
- `do_log()` formats into one static buffer, in the handler as well: a line of the thread's own that the handler
  interrupts may come out as the handler's. The text of the manager's lines is not modelled.
- Read in the source and not modelled: the length check of `do_log` is against the size of a pointer, which
  cuts long messages; the interactive client moves bytes past its buffer for commands longer
  than `MAX_CMD_LEN - 4`; the answer to a command of several arguments reflects the last one;
  commands match by prefix; a module that closes its output and lives keeps `poll()` awake.

### Why the bounds are enough

*Manager.* The hazards need one module whose death meets each step of a call,
and a second one to be overlooked by a pass or signalled by mistake; a third pid makes
reuse possible while two children live. The failure limit of 2 (5 in the code) is
reached by one restart. Two modules are all the program has. Sequences of commands do not
need the second module, so the second command is in the run with one. What the run
with two modules checks is proved besides for any number of each.
*Session.* The header is 2 bytes and the read is 5, so lengths up to 7 take one or
two reads and reach the end of the buffer, and 8 is the first that does not fit; the second command finds what the first
left. *PollSet.* Reuse within a pass takes one close and one open, with a
session left to be confused: two clients and a module. `MaxFd` is above what can be
open, the other end of a new pipe included, so it limits nothing; `MaxLeaks` bounds how often a pipe is lost. *Startup.* A race has two starts; the third finds what they left, or what an administrator cleared.
*LogRelay.* Three bytes fill a buffer of 2 (one place is the name's) twice, the second time exactly, and fewer leave it
part full; the second module is there to be mixed up with the first, and may be the last child to die or not. Only the first and second
bytes may be newlines: one that is written with the first buffer, one that begins the next.
*Hub.* One page that does not read and one that does; the third message may follow a reconnection;
sockets that hold one message block at the second. The first message is the one that the filter takes, so that two are left to come to the pages in order. What a page says waits until the listener has nothing
else to read, since it only has to be told from what users say; the TeamSpeak server's steps end with the webserver, which sees no more of them. *List.* Three entries are one between two neighbours,
and every pair of them may be next to each other or not, in one list or two.
*Lights.* Crossing needs two
pages; the third click follows two that crossed. *ClientTimes.* Ids do not interact; three missing lines can hide a whole stay between
two others. There are two moments before, two in and three after the months that are dated wrong, and the date of `-d` falls among them.

### Fairness

`Manager`: the thread, the handlers and signal delivery run when they can, and a child
that got SIGTERM and has armed nothing against it ends; nothing says that a
module dies, a client sends or a user stops anything. `Session`: the array is served in
order, so a ready session is served again and again (strong fairness, since other
sessions' reads come between); clients that wait, read. `PollSet`: the manager's
thread alone. `Lights`: goroutines run; the channel serves its senders first come,
first served (strong fairness of `Take`); an open page handles its messages.
`Startup`: a manager's own steps until it serves or ends (weak fairness per manager); nobody has to start,
stop, kill or clear one. `LogRelay`: the manager's thread. `Hub`: goroutines run (weak fairness of the broadcaster,
of a query that can be made, of the listener); `select` takes each channel that stays ready among its
visits (strong fairness of `TakeList` and `TakeChat`); a page that stays open reads. That last assumption is one about people's browsers and not about the code: `PagesAreCurrent` says nothing of the
pages behind one that never reads. Users, the TeamSpeak server's connections and pages are free. `List`, `ClientTimes` and `Calendar` have no
liveness to state.

Deadlock is not checked where the system may stop: the manager exits, clients and
pages leave, bounded logs and calendars end, modules have said what they say.

## Proofs

All for any value of the constants, under the assumptions named in the modules
(finite sets of pids, of entries and of clients, sizes that fit, lists over the modules, heads that are no entries, enough
descriptor numbers).

`ManagerProofs`: `TypeCorrect`, `PidsAreOurs`, `NoForeignKill`, `NoModuleAstray`,
`NoDeathMissed`. None of these is inductive alone: that a running module's pid is an unreaped child
depends on the mask. The invariant is

    SafeInv == TypeInv /\ MaskOK /\ OwnerOK /\ SectionOK /\ NoStrayChild /\ DeathsNotMissed

`MaskOK`: signals are blocked between the test of a module's state and the last store of
a call, and during the whole of a restart pass and of the shutdown, the saved sets
included, and no handler runs then. `OwnerOK`: a module counts as running exactly with a pid of
its own. `SectionOK`: what holds inside the masked sections (the module about to be
killed is running, the child about to be recorded is nobody's). Masks come
first because the other parts use that `ReapChild` cannot happen in a section; the
step lemmas go by group of actions (`ExitSafe`, `InitSafe`, `HandlerSafe`, `CallSafe`,
`LoopSafe`, `EnvironmentSafe`).

The second half of `ManagerProofs`: `NoDeadForgotten`, `NoModuleLeft` and `ImplementsSupervisor`, the whole of
`manager_safety` together with the above. The invariant

    RecoveryInv == SafeInv /\ StatusOK /\ PassOK /\ DeadOK /\ ShutdownOK

`DeadOK` is stronger than `DeadIsHandled`: during a pass a dead module is still in the queue, whatever
`mods_dirty` says, and outside of one `mods_dirty` is set, since the pass will clear it; so it needs that
no death is recorded during a pass (`MaskOK`) and that a pass skips a dead module only when
the manager stops (`StatusOK`). `PassOK`: what the pass works on has been exited and has attempts left.
`ShutdownOK`: what the shutdown has not exited is in its queue. For the refinement a step
changes the service of one module at most: one lemma per step of `Supervisor` (`SupStops`,
`SupCrashes`, ...) and one for what it does not see (`Still`).

`SessionProofs`: `BufferFits`, `FramesAreAlone`, `NeverBlocked`, `CommandsAreWhole` and
`Implements` (the step simulation of `Rpc`). The invariant

    Inv == TypeOK /\ \A c \in Clients : InStep(c) /\ CallInStep(c) /\ ReadingInStep(c)

says that at most one frame is on the wire, that what a session has counted and what
the frame has left add up to the declared length, that calls, runs and returns
differ by what the client's state says, and that a session being read
has bytes or has its command whole. `BufferFits` follows because a session that is open was declared less than `MAX_CMD_LEN`,
and `buf_tail` is never beyond what was declared.

`StartupProofs`: `TypeCorrect`, `OneManager`, `LogKept` and `ImplementsOneServer`. The invariant
is `TypeOK`, `NamesTheServer` and `LogIsItsOwn` with two strengthenings: a manager that has not served has
at most the place of its last words in the log (`OffsetsOK`), and whoever may still empty the log of a manager that has
the name, or write a last line into it, is among its racers (`RacersKnown`).

`PollSetProofs`: `ThreadNeverWaits`, `OpenIsPolled` and `DescriptorsAreOwned`, for any clients, any modules and any
number of lost pipes. The invariant is `TypeOK` and, until `close_session_handler`,

    Sound == pc # "blocked" /\ Owned(Table, commFd) /\ SessionsOK /\ ArrayOK /\ PassOK

`Owned`: sessions and modules have different numbers, whose names lead back to them. Counting what is open by owner
shows that a number is always free (`SomeFree`). `ArrayOK`: the array is in the code's order, each number once, and holds
what is open unless a flag says that it changed. `PassOK` is why no read waits: numbers are given to sessions
only by the first entry, when nothing of the array is closed yet, so what a session gets is no later entry's; and a later
marked entry's session has not been read from. Without the listening socket in the first place it is false. What
a command or a restart pass does to its modules is a fold; `TurnedIn` shows that a fold keeps what each turn keeps, for
any set of tables, since the library's induction theorems cannot be used.

`LogRelayProofs`: `NothingIsLost`, `UnderItsName` and `EveryBurstBreaks`, for any modules, any buffer
and any pipe. All three speak of `Out`, the log with what the buffer will add to it, so the invariant does too:

    Inv == /\ TypeOK /\ PipesOK /\ Carries(Out, taken, dropped)
           /\ Grouped(Out) /\ Named(Out) /\ Broke(Out, breaks, pc = "read") /\ ReadingOK

`Carries` counts bytes (what was taken from a pipe and not dropped is in `Out`, once and in order); `Grouped`,
`Named` and `Broke` are about bursts, the places of `Out` from one name to the next. `ReadingOK` ties the
buffer to the last burst: whole buffers and what was read since, and whatever `Finish` finds in it, an earlier
write's rest included, is of that burst. That is why a newline found in the wrong place still breaks the right burst.

`HubProofs`: `EveryPageHasTheChat`, `TheChatIsRelayed` and `NoOlderList`, for any pages and any room in their
sockets. The invariant

    Inv == TypeOK /\ HubOK /\ PagesOK /\ ListsOK /\ ChatOK

says who is served: every open page is in the map, and the broadcaster's pages are (`HubOK`); what a page has and
what is on its way to it are together the chat since it came, without the message that it is still due
(`PagesOK`); lists and chat rise on the way from their source to each page (`ListsOK`, `ChatOK`), the newest place first.
The reconnections and refusals only enter through `lost`, and what the filter takes through `Quotes`.

`TimesProofs`: `EitherProgram`, `NoMomentTwice`, `NoTimeInvented`, `StaysCredited` and `RightUpTo2099`. A table is
`Coherent` when those counted as connected are those with a time of coming, and `Follows` compares the number of connections the
Rust program counts with those there are: equal when nothing is missing, too few after a missed connection, too many after a
missed disconnection, and then for the rest of the file. `Matches` compares the two programs: the same counts, times of coming that
differ by `StrToTime`, and equal totals as long as the running stay began on the same side of both midnights as now. `Within` bounds what
a client has and what it would have if it left now; both are needed, since in the C++ program a running stay may count
negative when the file ends. `StaysCredited` is an action property and holds by the same invariant. `RightUpTo2099` is about `Calendar`: the program's count of leap days is followed from day to
day up to the end of 2099, after which it is wrong by the century year that has no leap day.

`ListProofs`: `RingsKept`, `IterationStays`, `ListsAreRows`, `PredicatesAreRight` and `IterationVisitsAll`, for any heads
and finitely many entries. `Rings` counts along the pointers, which is no statement for induction over steps. The
invariant numbers the nodes instead: numbers grow along each ring from its head on, and an owner is handed on
(`Ordered`), so that no two heads share a ring; each function is shown to keep such numbers, those of `add` moved
apart to make room. `Walks`: the cursor of a safe iteration and the entry read ahead are in the iterated list.

The other three speak of `Along`, which follows the pointers by recursion. `RowFound` is what
connects the two: whatever row of distinct entries the pointers string together from a head and back, `Along` finds it. It goes
by induction over the places, for which `Naturally` derives the principle, stated for sets, from the library's theorem that
finite sets are well founded. The invariant is then that there are such rows, and nothing stands in two places of them:

    RowsOK == Rowed(mem.next, linked, RowsNow)

`InsertRow`, `RemoveRow` and `ReplaceRow` show what writing two pointers does to rows, and each function is a
composition of those (`SwapRow`: out, in the other's place, in where it was). So every step is a step of `Rows`.
`VisitOK`, for iterations: what is visited is the row so far, and the pointers still lead along its rest.

Every invariant and action property of a passing run is proved. Only model-checked is liveness (the prover has
neither that nor `ENABLED`): `Supervised` and `ModulesEnd`, `CallsReturn`, `EveryClientIsHeard`, `Drained`,
`PagesAreCurrent` and `PagesAreForgotten`, `OneServer` beyond its steps; and `Settles`, with it everything about `Lights`.

## Not modelled

The chat bot is one sequential loop that answers a message at a time. Its only state is a map of channels that is
built once; its end and restart are a module's in `Manager`. The interactive terminal, the words of a command, the text of log
lines, printing and sorting, file serving, the index page, the message of the day, configuration, the page that runs
the connection times and the static
pages but `lights.js` and what `app.js` does with a message have no state that interleaves with anything. Failures of
`malloc()`, `accept()` (the listening socket then stays ready and the loop spins) and `sigprocmask()` are left out. `PollSet` leaves to `Manager` the death of a module during
`setup_poll_fds` and the SIGTERM that `poll()` sleeps through. `Session` assumes that
connections end with the manager; a module that inherited one keeps it open until it is
told to end itself. `LogRelay` takes a `write()` to the log to be whole, as it is for a file on a disk with room.

## Plan

Done: the manager with its supervisor, sessions, descriptors, start, log relay and lists; the hub and the
lights; connection times and calendar; the proofs above. Left, in order of worth:

1. The words of a command (`parse_command`, `sanitize_command`, `build_message`) as operators against a
   reference definition.
2. The bot's commands and its cache of channels.
