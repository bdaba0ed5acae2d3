# TLA+ models of the CSE320 programs

The repository holds the programs of one course: `hw0` (hello world), `hw1`
(BIRP, an image filter over binary decision diagrams), `hw2` (a chess notation
tool), `hw3` (a memory allocator), `hw4` (Imprimer, a printer spooler) and
`hw5` (Charla, a chat server). This directory holds the specifications of the
last five: TLA+ modules translated from the C sources, TLC configurations that
check them on small instances, and proofs checked by TLAPS.

The concurrent programs come first. `hw5` has threads, mutexes, semaphores and
reference counts, `hw4` has processes and signals; in both most of what can go
wrong depends on an order of steps that a test hardly ever produces. The
others are sequential, and what is hard in them is a long sequence of legal
calls: in `hw3` a wrong bit in a header shows only many calls later, in `hw2` a
move taken back wrongly is seen in a later variation, in `hw1` a node not found
again ends a later run.

Everything is translated from the code. Where the code does not do what a
comment or a handout of the repository says, the model has the code's
behaviour and this file says what TLC finds.

## Inventory

| Component | Source | State | Operations | Talks to |
|---|---|---|---|---|
| USER objects and user registry | `hw5/src/user.c`, `user_registry.c` | reference counts, linked list of users, mutex | `user_create/ref/unref`, `ureg_register/unregister/fini` | client login |
| mailboxes | `hw5/src/mailbox.c` | count, queue, semaphore, mutex, `defunct`, discard hook; references to senders' mailboxes in entries | `mb_init/ref/unref/shutdown/add_message/add_notice/next_entry` | service and mailbox threads; bounces to another mailbox |
| service threads | `hw5/src/server.c` | one service thread for each connection, one mailbox thread for each login | LOGIN, LOGOUT, USERS, SEND, mailbox delivery, bounce hook | all the others |
| clients | `hw5/src/client.c` | status, USER, mailbox, mutex, reference count; the static login mutex | `client_login/logout/ref/unref/get_*/send_packet` | both registries, mailboxes |
| client registry | `hw5/src/client_registry.c` | slots, count, mutex, semaphore | `creg_register/unregister/all_clients/shutdown_all/fini` | service threads, main |
| main | `hw5/src/main.c` | listening socket, SIGHUP flag | accept loop, `terminate` | client registry |
| protocol | `hw5/src/protocol.c` | none | send and receive one packet | sockets |
| Imprimer main process | `hw4/src/cli.c`, `custom_functions.c` | jobs, printers, their bitmaps, counters shared with the handler | the commands, `scanner`, `start_job`, `job_handler`, `delete_jobs` | master processes, by fork, killpg and SIGCHLD |
| conversion pipelines | `hw4/src/custom_functions.c` (child branch of `start_job`) | stages, pipes, two counters shared with `pipeline_handler` | fork the stages, wait, exit | main process, conversion programs, printer |
| allocator | `hw3/src/sfmm.c`, `custom_functions.c` | headers and footers in the heap, free lists, `sf_errno` | `sf_malloc/free/realloc/memalign` | the user's program, `sf_mem_grow` |
| BDD library | `hw1/src/bdd.c`, `custom_functions.c` | node table, hash map, next free index, serial numbers | `bdd_lookup`; from and to rasters and streams; map, rotate, zoom | image tools |
| image tools | `hw1/src/birp.c`, `main.c` | options | `validargs`, the conversions and transformations | BDD library, image files |
| image files | `hw1/src/image.c` | none | read and write PGM and BIRP files | stdin, stdout |
| notation tool | `hw2/src/notation.c` | heap of moves, boards, stack of suspended lines, turn, options | `parse_move`, castling, enter and leave a variation, keywords, numbers, comments | scanner, drivers |
| output drivers | `hw2/src/drivers.c` | format, level, whose move was written last, interruption | write a move, a board, a text, a variation | notation tool |
| scanner | `hw2/src/lexer.l` (`lexer.c` is generated) | start condition | cut the input into tokens, call the parser | notation tool |

What is hard, and what makes each component correct:

- **USER objects and user registry.** Many threads hold pointers to one USER.
  Counts must be exact, or a USER is freed under somebody or never; a handle
  must be listed once.
- **Mailboxes.** Calls lock two mailboxes at a time and run a hook that locks a
  third. Semaphore and queue must agree although they are changed apart;
  messages must come out once, in order, or be bounced once.
- **Service threads.** A mailbox is looked up by one thread, shut down by
  another and drained by a third. Nothing freed may be used, a sender gets a
  receipt or a bounce for what was delivered or not, every thread ends.
- **Login.** A scan of all clients, without their mutexes, decides whether a
  handle is free, while they log out. One client for each handle, every login
  is answered, a registered USER survives other people's failed logins.
- **Client registry and main.** Shutdown must wait for every service thread,
  although main counts without a lock, and must not wait for ever.
- **Imprimer.** SIGCHLD comes between any two instructions where it is not
  masked. Tables, counters and processes must agree, no report of the kernel
  may be lost, and nothing but the next scan starts a job.
- **Pipelines.** Failures anywhere in a pipe must be reported, and the counts
  that the handler and the loop share must be those of the reaped stages.
- **Allocator.** One function merges, splits and relists blocks and trusts the
  header bits of all their neighbours.

- **BDD library and image tools.** Every node is found again by its hash, or the
  table fills and pictures stop being canonical; a node stands for all the levels
  that its children skip, and each transformation must treat a block that is a
  leaf, or half a block, at every level.
- **Notation tool.** A variation takes back a move, is played on a copy of the
  board and is left again. The board must be that of the line at any depth, the
  moves and boards of suspended lines must still be there, and the text must
  say, with as little as it does, which piece moved.

`PROJECT.json` lists the hazards one by one, at their lines.

## Modules

| Module | Models | Uses |
|---|---|---|
| `UserRegistry` | `user.c`, `user_registry.c` | |
| `Mailbox` | `mailbox.c` | |
| `MessageQueue` | abstract: a queue that bounces | |
| `MailboxRefinement` | how `Mailbox` implements it | `Mailbox`, `MessageQueue` |
| `Charla` | threads of `server.c` | instance of `Mailbox` |
| `ClientLogin` | `client_login`, `client_logout` | instance of `UserRegistry` |
| `Sessions` | abstract: one client for each handle | |
| `ClientRegistry` | `client_registry.c`, CLIENT counts, `main.c` | |
| `Imprimer` | main process of `hw4` | |
| `PrintQueue` | abstract: the life of a print job | |
| `Pipeline` | master process of `hw4` | |
| `Sfmm` | the allocator | |
| `Board` | the board of `hw2`: doing, undoing and telling moves apart | |
| `Notation` | `notation.c`, `drivers.c` and the rules of the scanner | `Board` |
| `Bdd` | the node table of `hw1` | |
| `Pictures` | abstract: a picture and what is asked of it | |
| `Birp` | the program of `hw1`, run after run | `Bdd`, `Pictures` |
| `*_proofs` | theorems about the module they are named after; `Programs_proofs` about `Bdd`, `Pipeline`, `Board` and `Notation` | |
| `MC*` | constants of the instances TLC checks | |

Operators headed "Mutant" in a module are variants of the definition that
follows them, with a bug such code could have. Nothing uses them; put in the
place of the definition each makes one property fail, which shows that the
property depends on that line of the code.

### How state and actions correspond to the code

**UserRegistry.** `listed` is the linked list, `handle` and `rc` the fields of
USERs, `ptr` the pointers outside the registry, `owner` the mutex. An address is
reused after it was freed. Locked regions are one step, except that
`ureg_unregister` of an unknown handle returns with the mutex held
(`user_registry.c:107`); the model keeps that step (`UnregisterMissing`), after
which the registry is blocked.

**Mailbox.** A call is cut wherever it can block: at each mutex and at the
semaphore. `pc`, `mb`, `entry` and `todo` say where a thread is, in which
mailbox, with which entry, and what the discard hook still has to do. An
operation that would use a finalised mailbox is not enabled here; whoever calls
the module (Charla) must not do it.

**Charla.** The n-th login of client c creates mailbox and mailbox thread
`<<c, n>>`, thread `<<c, 0>>` is the service thread. A read of a field without
a lock is a step of its own, so that `client_get_mailbox` (`ThreadStart`,
`ThreadField` and `ThreadGet` are its read of the status and its two of the
mailbox), the lookup of SEND and the bounce hook see what another thread left. A
step that would use freed memory or NULL makes the thread undefined, and
`OnlyLogoutRaces` says how this can be reached. Failed writes return -1, as with SIGPIPE ignored, which is how
`tests/server_test.c:41` runs the server; the default action is in
ClientRegistry (`SigPipe`).

**ClientLogin.** The static flag, the login mutex, registration, the scan with
one step for each client, and every error path. `UserRegistry` is instantiated
with the clients as threads and as owners of pointers.

**ClientRegistry.** Connections, CLIENTs and service threads have one name.
Requests are reduced to the references they take: LOGIN, USERS and SEND go
through `creg_all_clients`. Main is in accept, told by SIGHUP, counting,
waiting, finalising or done.

**Imprimer.** A command is one step, since it masks signals; a scan is one step
for each printer and job; the handler is one step for each `waitpid`. A master
is what `killpg` and `waitpid` can see of it. `sf_readline` calls its hook with
signals masked (`include/sf_readline.h`), so a scan is not interrupted.

**Pipeline.** `taken` and `given` count what a stage has read and written, in
units of which a pipe holds `Capacity`. The length of the path is chosen in
`Init`. A pending SIGCHLD is handled before the master's next step, where it is
not blocked; `suspend` is the moment before `sigsuspend` and `suspended` in it.
`forks` is the loop's `i`, `master_pc` and `exit_status` where the master is and what it
exits with.

**Sfmm.** Memory is counted in units of 16 bytes with two rows each: headers are
first rows, the user's pointer and every footer second rows. The functions of
the source are operators from heap to heap, a call of the user is an action. The
user's data is in the same rows, so that a header in the wrong place is data
lost. The literal 7 of `sf_add_to_free_list` is `NumFreeLists - 1`.

**Board.** A board is the 10 by 10 array of the code with its frame. `do_move`,
`undo_move`, the reach of each piece, the guess of the origin that a short
notation leaves out, and `ambiguity`, which finds the pieces that could have
moved as well.

**Notation.** Each rule of the scanner is one action, from the parse of a move,
by the automaton of `transit` and `action`, to what a driver writes for it. A
token is a record, a move's spelling a sequence of symbols. `node` is the heap of
moves with their links, `board` the allocated boards, `stack` the suspended
lines. `did` and `base` are history variables: what reading each move did (a
piece put on the board by hand is a node too), and the board the play started
from. `InputsAssumption` and `OptionsAssumption` say what the scanner's patterns and the
shell let through. `Disciplined` says that the input keeps to the
manual's rules: a move stands between two levels of variation, the play is only
set up outside of variations and the turn before the first move. What is written
is kept as items (a move with its number, its dots and the coordinates shown); a
driver's layout is left out.

**Bdd.** A table has the arrays of `bdd.h` as functions, the next free index and
whether the program had to exit. `bdd_lookup` returns the table after it and the
index.

**Birp.** A step is one run of the program: a new table, the file that the last
successful run wrote, a command line, and the branch of `main` it selects. A
raster is the array of the code, a stream the sequence of the build instructions
of `bdd_serialize`. `shown` is a history variable, the picture in the file, read
off its records without a table; `Pictures` says what the operations do to it. A
run that would write past an array makes the outcome undefined and is not
followed.

`Notation` and `Birp` were compared with the compiled programs on 3000 and 6000
sampled runs without a difference.

## Runs

| Run | Question | States |
|---|---|---|
| `user_registry` | Are USER counts exact and handles listed once, also when addresses are reused? | 1038, with symmetry |
| `mailbox` | Do semaphore, queue and locks agree under any calls; is it a queue that bounces? | 1.0M |
| `charla_one_way` | Are notices truthful and in order; can only a logout take a borrowed mailbox from a thread; is everything answered; does every thread of a closed connection end? | 377k |
| `charla_cycle` | Can the threads of two clients block each other? **Yes**, a finding | |
| `client_login` | One client for each handle, exact USER counts, every LOGIN answered? | 32k |
| `client_registry` | Exact CLIENT counts; does shutdown wait for everybody and end? | 382k |
| `imprimer` | Do tables, counts and processes agree; does a job live as a print job does; does every job that is served come to its end? | 444k |
| `imprimer_quit` | Does `quit` end? **Not always**, a finding | |
| `pipeline` | Does exit status 0 mean the file was printed; do all stages end? | 16k |
| `sfmm` | Are heap, lists and data sound after every sequence of calls; does a call fail only when no block fits and no page is left? | 11k |
| `notation` | Is the board that of the line at any depth, no freed move used, the sheet consistent, and can the moves be read back from it? | 54k |
| `birp` | Does every sequence of runs do to the picture what was asked; are streams canonical; does the table fill only when it must? | 35k |

### Bounds

- *Two threads, two mailboxes, one message id at a time* (`mailbox`): the
  module's nested locks involve two mailboxes, and a third one only through the
  hook, which the second mailbox also can play; two entries in a mailbox show
  order.
- *Two clients* (`charla_*`): every conflict of the server is between the
  threads of a sender and those of a receiver. One login for each; several
  logins are in an extra configuration. The traffic is a constant set of
  messages, each sent once. In `charla_one_way` these are two from a to b, whose
  order and whose bounces can be told apart, and one from a to itself, the other
  path of `mb_add_message`. The sender logs out at any time (`EarlyLeave`), also
  before or while its message is delivered; the receiver hangs up at any time
  after its mailbox thread set the hook, also with messages under way, since what
  is discarded before that is lost without a notice. Two
  messages that differ in nothing but the id are sent in the order of their ids
  (`IdsInOrder`): exchanging them exchanges the names in the rest of the behaviour.
- *Two clients, two handles, three addresses, two LOGINs each*
  (`client_login`): both handles in use and one USER lost by a failed `mb_init`.
- *Three connections for two slots* (`client_registry`): registration fails for
  one, or finds a slot that was freed before.
- *Two jobs, two printers, two process ids* (`imprimer`): two masters end for
  one SIGCHLD, a job waits for a busy printer, a conversion is defined after the
  job. A new process takes the lowest free id (`Fresh`). `CallocFails = {1}`
  names the printer whose master's bookkeeping fails in `calloc`. The file is
  one that any printer may print; in `imprimer_quit` it is for printer 0 alone.
- *Up to three stages, a file of two units, pipes of one* (`pipeline`): a stage
  that is first, middle or last fails, and pipes fill.
- *Two pages of 7 units* (`sfmm`): 4 units are left in the first page and 11 in
  both, for blocks of 2 and of 5 units. That is enough for merging on either
  side, padding, growing with and without a free last block, blocks that are
  too large for the second list and not at the end, and a full heap. `Forget`
  turns rows that no permitted call reads into junk.

- *Seven families of games, thirteen command lines* (`notation`): a family is a
  sequence of alternatives for the next token, among them variations nested,
  adjacent and one deeper than `VARIATION_MAX = 2`, castlings, catches, pieces
  that reach a square from one line, one column or neither, promotions, letters
  of two languages, and tokens that are no moves. `NB_MOVE_TO_DISP = 3` is a
  table of moves to display that one command line overfills.
- *Four pixel values, squares of at most 4 by 4, eight inner nodes* (`birp`):
  the code has 256 values, 2^20 nodes, rasters of 2^26 bytes and products modulo
  2^32; all are scaled so that tables and `raster_data` fill. All rasters of 1 by 1, 2 by 1 and 2 by 2, patterns of 3 by 2 and 3 by 4, the empty
  ones; 27 command lines, right and wrong. The number of runs is not bounded: the
  reachable files close.

`CHECK_DEADLOCK FALSE` is given where the program may stop: all packets were
sent, threads block each other (`charla_cycle`), the process ended or aborted, the
input was read, an array was overrun.

### Fairness

Weak fairness of each thread or process that can take a step: the scheduler of
the kernel runs what is runnable. No strong fairness is assumed of a mutex. In
`ClientRegistry` the peers named in `Stalled` are exempt, nobody is obliged to
send or hang up. In `Imprimer` one condition is for the program, whose scans and
handler go on when they can (the user is never forced to type), and one for each
master, which ends unless it is stopped. In `Pipeline`
stages read, write and end by themselves, failing is up to them. Safety-only
modules (`UserRegistry`, `Mailbox`, `Sfmm`, `Notation`, `Birp`) assume no fairness.

## What is proved

For every value of the constants that satisfies the assumptions of the modules:

The type invariant of each of these concurrent modules is a conjunct of its
inductive invariant, so that it is proved; the runs do not repeat it. In `Notation`
the types proved are `Typed`. TLC checked each inductive invariant, on the
instances of the runs, before it was proved.

- **UserRegistry** (`UserRegistry_proofs`): `RefCountExact`, `HandlesUnique`.
  The invariant is their conjunction with types; exactness is inductive because
  every pointer that is copied, lost or dropped is counted with its USER.
- **Mailbox** (`Mailbox_proofs`): `SemAccounting`, `LockDiscipline`. Neither is
  inductive alone: between `sem_wait` and the removal of an entry a unit has no
  entry, so the invariant also says what a thread between two locks has in hand.
  `ImplementsQueueHolds` is the refinement of `MessageQueue`, for any hook that
  `malloc` may leave in a new mailbox. The abstract owner of an entry is read off
  `entry` and `todo`: an entry is owed to a mailbox by whoever has it in hand or
  has still to discard it. `QueueInv` adds that the mailbox in hand is alive, the
  one being discarded is not, and that one never allocated is as at the start.
- **Charla** (`Charla_proofs`): `NoticesTruthful`, `SenderOrder` and `TypeOK`, whoever logs out
  or hangs up, and whatever is in a fresh hook. Assumed is that messages have ids
  of their own, none of them 0, the id of a discarded message's notice
  (`TrafficOK`). Counting packets is not inductive, so the invariant follows two
  tokens for each message: its fate, which is with the sender, in a job, in a
  mailbox, in a mailbox thread's hand or out on a connection (`Single`), and the
  receipt, made when the message goes out (`Delivered`). Entries and packets carry
  the tokens; each action keeps a token, moves it, loses it or makes a receipt that
  did not exist (`FateStep`). `Routes` adds that a message is only ever in mailboxes
  and hands of its receiver. `SenderOrder` has the hypothesis `MaxLogins = 1`, as in
  its run; without it it is false (below). `Orders` is its part of the invariant: a
  message waits until it is accepted, once, and one accepted later for the same
  receiver is behind in the mailbox, not in hand while the other is queued, and not
  sent before it. Only that a receiver has one mailbox and one mailbox thread uses the
  hypothesis. A thread that uses freed memory stops in the model, so
  this says what the server tells a sender until then.

  `OnlyLogoutRaces` is what the reference counts of hw5 achieve. That no thread uses
  a freed or NULL mailbox is false (below): `server.c` uses one without a reference
  in three places, a SEND after its lookup, the `mb_ref` of a starting mailbox
  thread, and the notice about a message that `mb_next_entry` has returned. The theorem is that
  it happens nowhere else, and in these places only after the client whose mailbox
  it is has logged out; also that no mailbox thread starts on a freed CLIENT, and
  that what is discarded goes through the hook the mailbox thread set, once it has
  come to it. Nothing is assumed of when clients log out or hang up, of who writes
  to whom, of `FreshHooks` or of failing writes; the hypothesis is `MaxLogins = 1`,
  without which even the join of the mailbox thread is not certain (below). Its
  inductive invariant is `CharlaInv` with `LoanInv`. `Begun`: thread creation and
  join are in order. `HookSet`: a mailbox thread has the mailbox of its client,
  and its hook once it got to the loop, or the client has logged out. `Addressed`:
  so has a SEND that of its receiver. `Froms`: the sender that any entry names, in a
  mailbox, in hand or being discarded, has logged in. `Counted`: the count of a
  mailbox is at least what its client, its thread and the messages from it (`Pins`:
  queued, being discarded or just taken out) have, and it is live while that is not
  0. Equality would not do: `mb_unref` leaks the references of messages it discards.
  That `Pins` loses a message exactly when its reference is dropped is from
  `Single`: what is in hand is not in a mailbox too. `Doomed` and `Locked`: what is
  discarded was in a freed mailbox, and a nested call works on a live one. From
  `Counted` a mailbox that is pinned or not yet given back is live (`PinnedLive`,
  `LentLive`), which leaves the three places.
- **ClientLogin** (`ClientLogin_proofs`): `UserReadable`, `LoginExclusive`, and
  that the module implements `Sessions`. A login enters after it has looked at
  all clients one after the other; the invariant says that whoever is logged in
  with the same USER and was already passed has been noticed, which holds since
  nobody else can enter while the mutex is held. Assumed is that the first LOGIN
  initialises the mutex alone (`FirstAlone`) and that nobody logs in twice.
- **ClientRegistry** (`ClientRegistry_proofs`): `RefCountExact`,
  `RegistrySound`, `ShutdownOrderly`. The last needs that a service thread that
  has not unregistered is still counted, and that no thread is on its way to
  registration when SIGHUP comes (`Late = FALSE`).
- **Pipeline** (`Programs_proofs`): `SuccessTruthful`, `CountExact`. That exit
  status 0 means the whole file was printed rests on `Chain`: as long as no
  stage up to k failed, a stage k that is gone has passed on the whole file, for
  it saw the end of its input, and that was the end of stage k - 1.
- **Imprimer** (`Imprimer_proofs`): all five invariants and the refinement of
  `PrintQueue`. None of the five is inductive. A status follows its master only
  through reports which the kernel merges, so the invariant says what a pending
  report tells: none, and the status is true (`ReportsOK`); one, and its last
  word is what the master is doing (`MastersOK`). A printer knows the master it
  was given (`PrintersOK`), and during a scan no pair already passed can be
  started (`ScanOK`), which is what makes `NoIdleWait` hold when the scan ends.
  Most steps touch one job, one printer or one master;
  a lemma says which effects a step can have, and each part of the invariant is
  shown once for each effect. The refinement uses the same lemma.

- **Sfmm** (`Sfmm_proofs`): all four invariants, `FailsOnlyWhenFull` and the
  types, for every page size, number of pages and of lists, with and without
  `Forget`. The invariant sees the heap as a set of blocks: they tile it
  (`Tiles`), what headers and footers say of their neighbours is true (`Bits`),
  the free ones are in the list for them (`Listed`), and the allocated ones are
  those in `live`, with their room, alignment and data (`Kept`). Inside a call
  `Bits` and `Listed` hold but for the block at hand, hence their exceptions; one
  lemma for each function of the code says how it changes the set, and which
  blocks it leaves alone row by row (`SameBlock`), which is what keeps the data.
  `Grown` and `BlocksFrom` are recursive functions; what is needed of them is
  shown by induction on named numbers, as the least of the bad cases. Assumed is
  `NoWrap`: no request plus 23 reaches `SizeLimit`. Without it the block is
  smaller than what was asked for (`MCSfmmSizes`), and writing that overwrites the
  next header. `DataKept` and `PointersTold` also assume `Lookalike = FALSE`: with
  data that repeats the header of its block the second fails (`MCSfmmLook`), and
  the first says "data" where that header is; the heap stays sound either way.
- **Bdd** (`Programs_proofs`): for every size of the table, `LookupSound`: `bdd_lookup` keeps the table sound and every entry in
  it, returns the one index of the node asked for, and exits exactly when that
  node is missing and the table is full; `EmptyTableSound` is the start. The
  argument: nodes are never removed, and no empty slot lies between the slot a
  node hashes to and the slot it is in, so that a search that stops at an empty
  slot has shown the node to be absent; the map has more slots than there are
  nodes, hence by a pigeonhole argument (`FreeSlot`) a search stops.
- **Board** (`Programs_proofs`): `UndoExact`, that undoing a move restores the board,
  for every board and every move that keeps what it took (`Exact` names the
  condition), and `AmbiguityKeepsBoard`, that looking for the other pieces, which
  takes the moving piece off the board and puts it back, leaves the board as it
  was.
- **Notation** (`Programs_proofs`): `MemorySound` and `BoardOfLine`, for tokens,
  games and command lines of any length, any number of levels and of moves to
  display. `HeapInv` is the inductive invariant of the first:
  - the types of what the parser fills in, through the whole automaton (`Typed`);
  - the moves are one tree: a link leads to a move read later, no two links lead to
    the same move, and every move but the head has one that leads to it (`Tree`), so
    that what `free_move_list` reaches is everything and nothing twice;
  - the head is never replaced by a variation (`Told`);
  - the current and the suspended moves have no successor and were read in the
    order of their levels (`LineEnds`): linking a move, a variation or freeing the
    chain touches no line but its own;
  - each open line has a board of its own and there is no other (`LineBoards`).

  The order in which moves were read is in no pointer of the code; it is what makes
  the tree inductive, for a node linked at the end of a line may be in the middle
  of another.

  `BoardOfLine` then needs that the position after a move is the same in the heap
  before and after a step: heaps only grow by moves and links (`Extends`), and a
  position looks at `prev` alone. Doing a move is one step of `Position`; entering
  a variation copies a board on which the move was taken back, which is the
  position before it by `UndoExact`; the turn, the keywords and the drivers'
  search for ambiguity leave all boards alone by `AmbiguityKeepsBoard`; leaving
  takes up the suspended board. A line that starts where a move was not taken back
  exactly is left out, by `Inexact`, as in the run.

  The functions on the heap (`under`, `insertion_point`, `Position`, the automaton)
  are recursive functions along links. `Recursion` shows that such a definition
  defines something, given a measure that the links go down by, and `ByRank` is
  the induction that goes with it; both are proved here.

  Hypothesis is `Disciplined`, as in the run. Without it `MemorySound` is false:
  `MCNotationWild` shows it.

Liveness under fairness stays with TLC, and so do `SheetConsistent` and `ReadsBack`
of `Notation`, the properties of `Birp` and the refinement of `Pictures`.
`SheetConsistent` and `ReadsBack` follow the whole text written so far,
`ReadsBack` through the letters of all the drivers and what `ambiguity` tells of
every piece. `Birp` walks trees and streams by RECURSIVE operators, which are
beyond the prover; the theorems about `Bdd` are what these walks rest on. `MCCharlaSender`, `MCSfmmSizes` and `MCBirpDocs` have two properties that fail
independently: `-continue` shows both.

## What TLC finds that the code does not intend

Findings, with runs of their own: the cycle of mailbox mutexes
(`charla_cycle`), and the wake-up before `sigsuspend` in `quit`
(`imprimer_quit`). The configurations below are not among the runs; each gives a
counterexample with `tlc -config <cfg> <module>`, where the module has the
same first part of the name.

| Configuration | Violated | Behaviour |
|---|---|---|
| `MCCharlaSender` | `SenderAlive` | `server.c:46` uses `entry->from`, whose reference was dropped inside `mb_next_entry` and whose owner logged out |
| `MCCharlaSender` | `NoticesNamed` | `server.c:17` bounces a discarded message with id 0, where `mailbox.h:36-39` and `protocol.h:73-82` have the id of the message the notice pertains to, for the client to associate the two; `EveryMessageAnswered` therefore counts a bounce with id 0 as one for some message without another notice |
| `MCCharlaRelogin` | `ServiceTerminates` | after a second login, a mailbox thread is never joined, or waits for a unit that the other login's shutdown took |
| `MCClientLoginTwice` | `LoginAnswered` | `client.c:85` returns with `login_mutex` held: no later LOGIN is answered |
| `MCClientRegistryUsers` | `UsersReplyExact` | USERS measures and copies in two loops, and clients come and go between them |
| `MCClientRegistryEnds` | `EndsOrderly` | an answer to a peer that is gone ends the server by SIGPIPE |
| `MCPipelineFails` | `FailureReported` | a master waits for ever: SIGCHLD came before `sigsuspend`, or forking stopped after a failure and the count never reaches `length`, or a stage waits for a dead reader whose pipe others hold open |
| `MCSfmmStale` | `StaleRefused` | a freed block that was merged into the one before it keeps its header, so that `sf_free` of the old pointer does not abort |
| `MCSfmmLook` | `PointersTold` | a block whose last 8 bytes of data equal its header is taken for free, and `sf_free` of it aborts |
| `MCSfmmSizes` | `LiveSound` | `8 + size` wraps, and a request of almost SIZE_MAX bytes gets 24 |
| `MCSfmmSizes` | `WildernessAlone` | blocks above 2048 bytes join the wilderness in list 7, which `include/sfmm.h` reserves for it |
| `MCNotationWild` | `MemorySound` | `@clearboard`, `@default` or `@config...` inside a variation frees the suspended move, which `}` takes up again |
| `MCBirpDocs` | `StaysInBounds` | the product of two sizes is an `int` that wraps, and a raster is written past `raster_data` (`birp.c:28`); the last serial number of a full table is one past `bdd_index_map` (`bdd.c:128`) |
| `MCBirpDocs` | `ZoomOutAsDocumented` | a block of one gray value stays gray when it is zoomed out; `bdd.h:205` has it white |

Other values of the constants show more:

- `MCCharlaSender` with `Traffic <- TwoWay`, `LoggingOut`, `HangingUp` and
  `EarlyLeave` all `{a, b}`: messages both ways and clients that leave at any time.
  With `FreshHooks <- {"null", "wild"}` (1.18M states) exact counts, truthful
  notices, `OnlyLogoutRaces` and the parts of `LoanInv` are kept, but not
  `NoUndefinedUse`: `client_get_mailbox` reads the status once and the mailbox
  twice; SEND can add to a mailbox that is gone or NULL, or look up a CLIENT that is
  freed; a discard before the hook is set calls what `malloc` left there.
- `Charla` with `MaxLogins = 2` does not keep `SenderOrder`: the mailbox thread of
  a receiver's first login may still have a message in hand, to be sent on the
  same connection, while the thread of the second sends a later one.
- `client_login` with `FirstAlone = FALSE`: two first LOGINs initialise the
  mutex twice and both enter.
- `client_registry` with `Late = TRUE`: a thread that has not registered when
  SIGHUP comes is not waited for, or not shut down; with a connection in
  `Stalled`, a peer that does not read keeps its CLIENT's mutex, which
  `creg_all_clients` waits for with the registry's mutex held.

Kept in the models without a property against them:

- hw4: `cancel` before a master has a group is lost (`cli.c:219`); `cancel` of a
  finished job makes it an aborted one; a job that is paused and ends goes from
  PAUSED to FINISHED, as a stopped master may be continued from outside; a master
  whose bookkeeping failed in `calloc` is known to nobody.
- hw5: a discarded message keeps its reference to the sender's mailbox; what is
  discarded before the mailbox thread has set the hook is lost without a notice.
- hw2: of two knights that differ in line and column no origin is written
  (`drivers.c:286`); an "en passant" is done and undone on the wrong square of the
  two; a promoted pawn stays a pawn on the board; `{ {` gives the inner variation
  the wrong turn; `@whitesmove` after a move recolours it; a move that takes from
  an empty square leaves a piece there; an unreadable token leaves a node and
  passes the turn; an illegal move ends the program with status 0
  (`notation.c:1248`); the numbers in the input are not compared with the moves.
- hw1: without any flag the input is copied unchanged (`birp.c:126-128`), where
  the README (`src/hw1/README.md:173-174`) has the usage and `EXIT_FAILURE`; a full table ends the program where `bdd.h` has NULL returned; the opcode
  of level 32 is not the letter of `bdd.h`; `bdd_from_raster` tests the width
  twice and never the height.

## Not modelled

- The text of packets, handles, file names and messages; parsing; output.
- `protocol.c`: pure I/O on sockets (planned, see below).
- The CLIENT mutex in `Charla`: nothing asks for it with a mailbox mutex held.
- A SIGHUP that another thread than main takes, option parsing, socket set-up.
- `image.c`: the characters of a header, magic numbers, comments (a comment cut
  off by the end of the file is never left, `image.c:26`), truncated streams. A
  file read is a raster or what the program wrote.
- `hw2`: the layout of the drivers, headers and boards drawn; the tables of the
  generated scanner. Its start conditions are in the tokens: what is inside a
  comment or a string is one token.
- `hw2`, writes past a table that have no effect in the model: option `c` stores a
  number before it tests whether the table is full (`notation.c:1692-1706`), and
  `alternate_moves[10]` is too short for more than nine candidates
  (`notation.c:291`, `notation.c:917-922`).
- `hw0`: nothing to model.

## Plan

Done, in this order, the most important first: `UserRegistry`, `Mailbox` with
`MessageQueue`, `Charla` over `Mailbox`, `ClientLogin` over `UserRegistry` with
`Sessions`, `ClientRegistry`, `Imprimer` with `PrintQueue`, `Pipeline`, `Sfmm`,
`Board` and `Notation`, `Bdd` and `Birp` with `Pictures`; proofs of eleven of them.

Next:

1. `SheetConsistent` for every input: the flag of `flush_buffer` as a relation of
   the text written and the stack of lines.
2. `Protocol`: short reads and writes, packets of two writers on one socket, the
   byte order of lengths. Property: a reader gets whole packets in the order in
   which the CLIENT mutex let them out.
