# A verification project for MBSE BBS

MBSE BBS is a bulletin board system with a Fidonet mailer and tosser for Unix.
It is not one program but some twenty that share a directory tree, a set of
binary configuration files and one daemon. Nearly every program is sequential;
what is hard is where they meet: lock files, tables that the daemon keeps for
processes that may vanish at any moment, work that is requested by one program
and done by another, and links to other systems over UDP or a telephone line.
This directory holds TLA+ models of those places, the TLC runs that check them
on small instances, and TLAPS proofs of what matters most for instances of any
size.

    tlc -workers 2 -config DirLock_three.cfg MCDirLock.tla     one run
    tlapm InboundProofs.tla                                    one module's proofs

`PROJECT.json` has the list of runs, the lines of code each definition stands
for, and for every property a change of the code ("mutant") that breaks it.
Paths below are relative to `src/`.

## 1. The system

Programs (left) and what they share (right):

    mbtask, the daemon: scheduler, table of     <- UDP/Unix socket: every program
      clients, chat server, status              <- UDP: chat servers of other systems
                                                -> fork/exec: mbfido, mbcico, mbindex, mbfile
    mbcico, a mailer session                    <-> inbound, outbound, node locks, call status
    mbfido, the tosser                          <-> inbound, outbound, queue, message bases
    mbsebbs, a BBS session                      <-> message bases, file areas, the daemon
    mbnntp, mbmon, mbsetup, utilities           <-> message bases, configuration, the daemon

| Component | Source | State it keeps | Operations | Talks to |
|---|---|---|---|---|
| Directory lock | `mbfido/dirlock.c`, `mbcico/dirlock.c` | `LOCKFILE`, `TMP.<pid>` in a directory | `lockdir`, `ulockdir` | other programs, through the file system |
| Task registration | `mbtask/taskregs.c` | table of connected clients, counters of mailers, TCP/IP sessions and clients | `reg_newcon`, `reg_closecon`, `reg_tty`/`reg_ip`, `reg_timer`, `reg_nop`, `reg_check` | every program; signals; chat server |
| Personal messages | `mbtask/taskregs.c` | a ring of messages in each client's slot, its flags, the reason of a page behind it | `reg_spm`, `reg_ipm_r`, `reg_silent` | BBS sessions, monitor |
| List of clients, single user doors | `mbtask/taskregs.c`, `mbsebbs/door.c` | one cursor over the table | `get_reginfo_r`, `ExtDoor` | BBS sessions, monitor |
| Sysop page | `mbtask/taskregs.c`, `mbsebbs/page.c` | paging flags of the table, `sysop_present` | `reg_page`, `reg_cancel`, `reg_checkpage_r`, `reg_sysop` | BBS sessions, monitor |
| Chat server | `mbtask/taskchat.c`, `taskibc.c` | users, channels, servers, one ring of lines | connect, put (join, part, nick, topic, quit), get, close, clean up | BBS sessions, monitor |
| Chat links | `mbtask/taskibc.c` | neighbours and their states, servers, routes | PASS/SERVER handshake, relay of commands, PING/PONG, SQUIT | other systems over UDP |
| Scheduler | `mbtask/mbtask.c` | task table, semaphores, pause and wait timers | main loop, `launch`, `checktasks`, signals | starts mailers, tosser, file utilities |
| Call selection | `mbtask/outstat.c`, `scanout.c`, `calllist.c`, `callstat.c`, `mbcico/callstat.c` | call list, call status of each node | scan of the outbound, choice of the next call | scheduler, mailer |
| Status, disk watch, internet check | `mbtask/taskstat.c`, `taskdisk.c`, `ping.c` | counters, semaphore flags, zone mail hour, free space, online state | status commands, timers | every program, scheduler |
| Daemon protocol | `mbtask/taskcomm.c`, `taskutil.c`, `lib/client.c` | none | decoding and dispatch of commands | every program |
| Program lock | `lib/proglock.c` and `die()` of each program | `<prog>`, `<prog>.tmp` in `tmp/` | `lockprogram`, `ulockprogram` | the same program started twice |
| Node lock | `lib/nodelock.c` | `<node>.bsy`, `<node>.lk` in the outbound | `nodelock`, `nodeulock` | mailers, tosser, other mailers on the outbound |
| Mailer | `mbcico/*.c` | a session; queue of files; files received so far | EMSI, binkp, Hydra, Zmodem, FTS-0001, lines and modems | the mailer of another system |
| Tosser | `mbfido/*.c` | packets, queue directories, tic files, dupe base | toss, scan, pack, attach, tic, area and file managers | mailers, message bases |
| Message base | `lib/jammsg.c`, `lib/msg.c` | JAM header, index, text files, and their lock | open, lock, add, delete, pack | BBS, tosser, news server |
| Duplicate base | `lib/dbdupe.c` | checksums in memory and on disk | check, close | tosser |
| Nodelist, gateway, news, BBS menus, file areas, setup, monitor, utilities | `mbsebbs/`, `mbnntp/`, `mbfido/`, `mbsetup/`, `mbmon/`, `mbutils/` | one user or one file at a time | menus, screens, conversions | all of the above |

### Hard behaviours, and what makes each part correct

* **Directory lock.** System calls of several programs interleave, an owner may
  crash and its pid be reused. Correct: one owner at a time, nobody else's lock
  is removed, a call comes back.
* **Task registration.** Clients crash, hang, find the table full, outlive a
  restart of the daemon; pids are reused. Correct: counters agree with the table
  (they hold back the tosser and limit calls), nobody connected is forgotten,
  nobody gone stays, SIGKILL only after SIGTERM.
* **Personal messages.** A ring whose pointers have one position more than its
  arrays. Correct: each message once and in order, none lost or overwritten.
* **List of clients.** A cursor shared by all readers. Correct: who reads the
  list alone sees everybody who was there, and comes to an end.
* **Chat server.** Membership, counts of users per channel and entries are
  changed in several places, and a session may vanish between any two commands.
  Correct: counts and members agree, the gone are out, rights hold. Lines go
  through one ring for all: everyone who keeps up gets each line once.
* **Chat links.** UDP datagrams are lost, doubled, overtaken; calls cross;
  servers restart. Correct: tables follow the link, linked servers agree on
  their users, a broken link comes back.
* **Scheduler.** Jobs wait for each other, for mailers, and for a timer that
  many events set again; programs end at any moment, and a mailer counts only
  after it has registered. Correct: one tosser, exclusive jobs alone, no request
  waits for ever.
* **Program and node locks.** As the directory lock, but with `die()` handlers that
  unlock what they do not own (program lock), and with a rule that breaks the
  lock of a running owner after six hours (node lock). Correct: one owner at a
  time, and it is known exactly what it takes to lose that.
* **Mailer.** Two peers, each with a receiver and a transmitter, over a stream that
  breaks, and sessions that resume. Correct: a file leaves the outbound only when
  the peer has it, both sides agree on how a session ended, and it ends.
* **Outgoing queue.** The tosser fills archives that sessions send and truncate; a
  crash between any two steps, a failing archiver, a lock that is lost. Correct:
  mail is dropped only when the remote has it, is sent once, and does not stay.
* **Message base.** Four files that are replaced one after the other by a pack,
  several writers, one count kept by hand. Correct: a stored message stays, the
  index agrees with the headers, a user's pointer passes over nothing unread.
* **Call status.** Two programs read, change and write one file per node without a
  lock. Correct: a node is called again, and not by two mailers at once.

## 2. The modules

| Module | What it is | Code |
|---|---|---|
| `ExclusiveLock` | abstract: a lock with one owner, who may end with it | – |
| `DirLock` | the lock files, one action per system call | `mbfido/dirlock.c` |
| `MCDirLock` | three programs | – |
| `TaskRegs` | table of clients, counters, watchdog | `mbtask/taskregs.c` |
| `TaskRegsProofs` | proofs about `TaskRegs` | – |
| `BoundedFifo` | abstract: a mailbox with a capacity | – |
| `PersonalMsg` | ring of messages with its layout in memory | `mbtask/taskregs.c` |
| `ClientList` | cursor over the table, and a door's check of it | `mbtask/taskregs.c`, `mbsebbs/door.c` |
| `ClientTableProofs` | proofs about `PersonalMsg` and `ClientList` | – |
| `ChatTables` | tables of users and channels, pure functions on them | `mbtask/taskibc.c` |
| `ChatServer` | commands of local users on those tables | `mbtask/taskchat.c`, `mbsebbs/chat.c`, `mbmon/mbmon.c` |
| `MCChatServer` | names that are cut, symmetry | – |
| `ChatServerProofs` | proofs about `ChatServer`, `ChatTables` and `ChatRing` | – |
| `ChatRing` | the way of a line to the users | `mbtask/taskchat.c` |
| `Scheduler` | main loop from request to started program | `mbtask/mbtask.c`, `taskstat.c` |
| `SchedulerProofs` | proofs about `Scheduler` | – |
| `IbcLink` | two chat servers and the network between them | `mbtask/taskibc.c` |
| `IbcLinkProofs` | proofs about `IbcLink` | – |
| `Transfer` | abstract: the way of a file from one outbound to the other inbound | – |
| `Binkp` | two peers, their connection, sessions that resume | `mbcico/binkp.c`, `bopenfile.c` |
| `MCBinkp` | owners and sizes of files, parts kept from earlier sessions | – |
| `InboundProofs` | proofs about `DirLock` and `Binkp` | – |
| `JamBase` | the four files of a message base and the programs at work on it | `lib/jammsg.c`, `lib/msg.c`, `mbsebbs/mail.c` |
| `MCJamBase` | mixtures of programs | – |
| `JamBaseProofs` | proofs about `JamBase` | – |
| `NodeLock` | the `.bsy` file of a node, one action per system call | `lib/nodelock.c` |
| `Outbound` | tosser and sessions at work in one outbound, under `NodeLock` | `mbfido/queue.c`, `lib/attach.c`, `mbcico/filelist.c` |
| `MCOutbound` | two processes, two messages | – |
| `OutboundProofs` | proofs about `NodeLock` and `Outbound` | – |

They compose as follows. `DirLock` and `NodeLock` have an `INSTANCE` of
`ExclusiveLock`, `PersonalMsg` one of `BoundedFifo` and `Binkp` one of `Transfer`,
each with a refinement mapping; `ChatServer` extends `ChatTables`. `Outbound`
extends `NodeLock`: its programs lock by the steps of that module and do their
work in between, and it is shown to implement `ExclusiveLock` as well. The daemon's tables meet in variables that
stand for the neighbouring module: `TaskRegs` keeps who chats (`chatting`),
because closing a registration must clean up the chat; `ChatServer` keeps who is
registered, because that is when `chat_cleanuser` runs; `Scheduler` has the
sessions over TCP/IP, registered and stale, that `TaskRegs` counts as
`ipmailers`. They are separate modules because the product of all would be out of
TLC's reach, and because the daemon handles one command at a time: what one
module does between two steps of another is any of its steps.

The daemon is one thread. One command, or one turn of a function called by the
scheduler, is therefore one action, with everything it calls. Programs other than
the daemon are separate processes: every command they send, and in `DirLock`,
`NodeLock`, `Outbound` and `JamBase` every system call that others can see, is an
action of its own, and they may end between any two.

### DirLock

`lockfile` is the program whose pid is in `LOCKFILE`; `tmpfile[p]`
the file `TMP.<pid>`; `pc[p]` the next system call. `Call`, `CreateTmp`, `LinkOk`,
`LinkExists`, `Locked`, `ReadLock`, `ReadGone`, `ProbeStale`, `ProbeInUse`,
`UnlinkStale` and `GiveUp` are the calls of `lockdir`; `CallUnlock`, `OwnLock`,
`NotOwnLock` and `UnlinkOwn` those of `ulockdir`. A program calls `ulockdir`
whether or not it holds the lock, as `die()` of mbfido does. `Exit`, `ReusePid`
and `FreePid` are the system around them. `raced` remembers that a stale unlink
hit another lock than the one that was read.

`ExclusiveLock` has an owner and the set of programs that use the lock. It is
taken when free, left by its owner, and broken when its owner does not use it
any more; a program that comes back with the pid of an owner that ended finds
the lock its own. The mapping takes the owner from `lockfile` and the users from
`pc`.

### TaskRegs

`reg[s]` is slot `s` of `reginfo[]`; a free slot is all clear, as `memset` leaves
it. `altime` is kept as whether it is at least 600 seconds, which is the one thing
`reg_check` asks of it, and `lastcon` as whether more than `altime` seconds went
by. The actions are `NewCon`, `CloseCon`, `Ip`, `Timer`, `Talk` and `Chat` of a
client, `Check` of the scheduler, `Start`, `Gone` and `Elapse` of processes and
the clock, and `Restart` of the daemon. `CloseCon` and `Check` clear a slot along
with its counters and its user in the chat.

### PersonalMsg

`fname[RB]`, `msg[RB]` and `reason` lie one after the other in a record, and the
ring's pointers take the values 0 to `RB`, one more than the arrays have. So
the model keeps memory cell by cell: the name at position `RB` is the first text,
the text at position `RB` is the reason for a page. `cell` is that memory, and
`at` remembers which message was put where, for the mapping to `BoundedFifo`.

### ClientList

`entrypos` is the static cursor of `get_reginfo_r`. Its values behind the table
are `Eof` and, for any further one, `Beyond`: the end is noticed only when the
cursor equals `MAXCLIENT`, so after two readers have shared it, it may run on, and
what lies behind the table is then taken for an entry or ends the daemon. `ScanFirst`
and `ScanNext` are one turn of the loop in `ExtDoor`.

### ChatTables, ChatServer and ChatRing

`ChatTables` has what `add_user`, `del_user`, `add_channel`, `del_channel` and
`del_userchannel` return; `ChatServer` applies them. `Connect`, `Close`, `Command`
(`/join`, `/part`, `/nick`, `/topic`, `/quit`, and lines), `Get` and `CleanUser`
are the daemon's handlers, and `Refused` and `RefusedConnect` their answers to a session
while the system closes. `sess[p]` is where the program is, with the steps
that a forced chat with the sysop takes by itself; `Gone` ends a program anywhere.
A channel name longer than 20 characters is cut when it is stored and compared
uncut: `Cut` maps each name to what fits.

`ChatRing` has the ring of lines: each line is stored once for every user it is meant
for, a user's pointer follows the head when his program asks, and the cell
behind the array is a cell like the others. Who is in which channel is left to
`ChatServer`: `Say` takes any of the connected users, in any order of the table.
Lines have numbers, and `inbox[p]` is the set of those that user `p` has yet to get.

### Scheduler

`pc` walks the main loop: `Poll` (commands, `checktasks`), `Check` (the
timers, which run when a second or a minute has passed), one `Job` per semaphore
in the order of the code, then calls. `task` has for every slot the kind of
program, whether it is alive, and whether a mailer has registered. `Launch`
reaps as `launch` does, fails on a full table, and sets the pause timer.
`closed` stands for every flag that stops the scheduler. Two histories: `astray`, a program
was stopped and lives on outside of the table, since `checktasks` takes it for one
that ended; `waited`, the minutes that mailers alone have kept mbfido from tossing
since mail was last asked to be tossed.

### IbcLink

`link[n]` is the entry of the peer: state, token of the call that is open, `gotpass`,
`halfdead`, the PINGs sent since the last sign of life, and `behind`: it has
given up a call while its peer was waiting for an answer, and the peer waits
still. `socket` has the servers that own one for their peer: it is made in the first
state of the entry (NCS_INIT) only, after the name was found. `check_servers` gives
the actions of `Timers`, `ibc_receiver` those of
`Receive`. `net[n]` is the sequence of datagrams on their way to `n`;
`Damage` loses, doubles or reorders them. `Reset` is a changed configuration,
`Killed`, `Shutdown` and `Boot` a server that ends and comes back. `upset`,
`spoilt` and `stale` (a server has accepted a call that was over) are histories that
properties are conditioned on; `open` holds the calls that may still link the two.

### Binkp and Transfer

A frame is a command or a block of data with the file, its version and the
offset; `chan[p]` is what is under way to `p`. `ft[p]` is the function
`file_transfer` is in: `Switch` alternates between the receiver (`rx[p]`: `WaitF`,
`ReceD`, `Done`) and the transmitter (`tx[p]`: `GNF`, `TryR`, `WLA`, `Done`), and
`Process` is the transmitter working off the messages in `tql[p]`. Each frame the
receiver takes is one action with all that the code does for it, and so is a
turn of the transmitter: it writes only its own variables and adds to the channel.
`bll[p]` is the list of files with their states, `eob` and `messages` decide
whether a batch or the session is over, `batch` counts to its limit. `tmp` and
`inbound` are the directories of partial and of received files; a file is a
sequence of blocks, each with the version it came from, so that a part of an old
file before the rest of a new one is seen. `LineDrops`, `LineSilent`, a failing
write or move are faults; `NewSession` starts over with the partial files kept;
`Changes` replaces a file in the outbound by another of the same name. A run begins
with the first session (`FirstSession`), or with a last one after a history of which
only the parts in `tmp` are left, each of the `Kept` ones (`LastSession`).

`Transfer` moves each file from `outbound` over `both` to `inbound`, and has two
ways out that need a cause of their own: `Strand` a failed move, and `Lose` a kept part
with data in it that is not of this file (`foreign`).

### JamBase

`dir` and `tmp` map the four names and the four temporary names to files, `jhr`,
`jdt`, `jdx` and `jlr` have what is in them, and `fd[p]` says which files a program
has open: a program that opened the base before a pack goes on with the old ones. A
file that has no name any more and that nobody has open is emptied and may be used
again (`Forget`). `act[p]` is
the count of messages as it was when the base was opened. Opening (`Again`,
`Create`, `OpenNext`), `Lock`, the four writes of a message (`AddIndex`,
`AddHeader`, `AddText`, `AddFinal`, `AddCount`), `Delete` and `DeleteCount`, `Pack`
and one `Swap` per file are the actions of a writer; `FindNext`, `Show` and
`SetLastRead` those of a reader, who opens the base twice with a number in
hand that he found when he had opened it first. `Pack` computes the new files at once: what is copied keeps its order, so the
n-th header of the copy is that of the n-th element of the set of places that are
read and not deleted (`Rank`, `Place`). `mishap` and `astray` are histories of what
went wrong and where, and each property names the ones it depends on.

### NodeLock and Outbound

`bsy` is the pid in the `.bsy` file, `aged` whether it is older than six hours,
`pc[p]` the next system call of `nodelock` or `nodeulock`, `found[p]` the pid it read
in the file and `late[p]` whether it took it to be over six hours old. Two histories:
`same` has the programs that have read the lock which is there, and `broken` the ways
in which a lock was taken from a running owner, "raced" or "sixhours".

`Outbound` has the files of one node: `queue` (the packets), `arc` and `there` (the
archives), `flo` (the lines of the `.flo` file). `TossStart`, `Archive`,
`UnlinkPacket`, `Attach` and `TossDone` are the loop of `flush_dir`;
`CreateFilelist`, `Send`, `Mark`, `Truncate`, `Disposed` and `SessionEnd` are what a
session does to the outbound, with `Skipped` and `SessionFails` for what a remote or
a line may do in any protocol. `Chosen` is the choice of an archive's name, by which
an archive that is too big, or was sent, is passed over. `ArchiveFails`,
`NoArchiver`, `Crash` and a pid that is reused are the faults: after `NoArchiver` the
program goes on with other nodes and keeps the lock until it ends (`EndsLocked`).
`LockAges` and `WeekPasses` are the time that passes. `Sweep` is mbtask, which removes
archives that were sent: it looks at the size (`SweepLooks`), and unlinks what has the name by
then (`SweepUnlinks`), in two steps and without the node lock. Mail it removes with them is
remembered in `swiped`.

## 3. What the runs check

Times are for two workers on an ordinary machine. Every run is complete for its
bounds.

| Run | Question | States | Time |
|---|---|---|---|
| `dirlock` | Is `lockdir` an exclusive lock, and does it return, when programs crash and pids are reused? | 190,000 | 45 s |
| `taskregs` | Do table, counters, chat and signals agree, and is a client that hangs or is gone got rid of? | 265,000 | 3 min |
| `messages` | Is the ring a bounded mailbox, and what can the extra position damage? | 4,100 | 5 s |
| `clientlist` | Is the list of clients complete and finite for who reads it alone? | 136,000 | 45 s |
| `chat_tables` | Do counts, members and rights stay right when sessions vanish or are refused? | 239,000 | 30 s |
| `chat_survives` | Is a refused client sent away? No: see departure 1. | violated | 5 s |
| `chatring` | Does every user who keeps up get each line once and in order? | 96,000 | 15 s |
| `scheduler` | Do exclusive jobs run alone, and is every request dealt with? | 149,000 | 1.5 min |
| `ibclink` | Do tables follow the link, do servers agree, does a link come back? | 226,000 | 2 min |
| `binkp` | Is a file disposed of only when the other side has it, do both sides agree how a session ended, does it end? | 345,000 | 3 min |
| `jam` | Do messages, counts, numbers and a reader's pointer survive adding, deleting and packing at the same time, and kills? | 1,120,000 | 1 min |
| `outbound` | Does the node lock hold, is mail kept, sent once and sent at all, through crashes, archiver failures, stolen locks and swept archives? | 805,000 | 3 min |

### Properties

Most conditions that a property carries are not there to make it hold but are its
content: they list what can take it away, found by letting TLC object
to a weaker list. Within the bounds of the run nothing else can, and where section 4 has
the theorem, nothing else in the model at all. Properties of one kind are
often conjoined into one definition; its conjuncts are named here.

* `DirLock`: `ExclusiveUnlessRaced` and `ImplementsLock` say that exclusion is
  lost through one window only, the one between reading a pid in `LOCKFILE` and
  unlinking it (`mbfido/dirlock.c:92`; the other copy of the code has it too).
  Everything else that could break it, a crash at any system call, a reused pid,
  two programs that break the same stale lock, a `die()` that unlocks what it does
  not hold, does not. `LockdirReturns`: the loop ends, though it has no bound
  and no sleep.
* `TaskRegs`: `CountersExact` (`Counters` and `IpCounter`) relates totals and table
  over any sequence of registrations, refusals, crashes and restarts. `IpCounter`
  and `KillAfterTerm` hold unless a pid came back while its old registration was
  in the table; the daemon then finds the first slot with that pid, and what
  is meant for one goes to the other. `Connected` (`ClientsKnown`,
  `ChattersRegistered`): nobody connected is forgotten, nobody stays in the chat
  without a registration. `LostClientsGo` (`HungGoes`, `GoneIsRemoved`) is the
  watchdog's promise.
* `PersonalMsg`: `ImplementsFifo` says that equal pointers with and without
  `ismsg` are never confused. `DamageConfined` bounds the damage of position `RB`:
  only the first and the last message of a ring that has used it, and the
  reason of a page, may be garbled.
* `ClientList`: `ScanComplete`, `ScanEnds`: a scan that nobody disturbs shows
  every session that was there all the time, and ends, whoever comes and goes. A
  disturbed scan does neither.
* `ChatServer`: `CountsExact`, `CountsAddUp` and `UsersCounted` relate the counts,
  which decide when a channel is removed and when the daily reset may run, to the
  users in the table. `CountsExact` compares channel by channel, where a name that
  was cut is excepted because the table then has several entries of one name;
  `CountsAddUp` compares for each name the members with the seats (`Seats`) that its
  entries count together, with no exception. `GoneIsOut`: a session that
  vanished is in no channel. `OnlySysopCreates`: the sysop's channel begins with
  the sysop.
* `ChatRing`: `Delivered` compares what a user would be given with what was said
  to him since, and he gets each line once and in order; the order, and `NeverBack`,
  hold also for a user who was overtaken by the head.
* `Scheduler`: `OneTosser`, `IdleAlone` and `MailinAlone` are about programs that
  run, not about what the daemon's tables and counters say of them, as long as no
  program was stopped (`astray`): they hold because the pause after every start is
  longer than a mailer needs to register (assumed: `RegDelay < PauseTime`; on a machine
  where it takes longer, `MailinAlone` is lost), and because the count of tasks is
  refreshed after each start. `MailinAlone`: while the wait is not over, mail is tossed
  beside no mailer that the daemon has started, over whatever line, and beside no
  registered session over TCP/IP. It says nothing of a mailer that answers an
  incoming call over a modem or ISDN, because the code does not look for one
  (`mbtask/mbtask.c:1359`). `MailinWaits`: mailers alone keep mail waiting for at most
  `TossWait` minutes since it was last asked for, which is what is left of the half hour
  the comment at `mbtask/mbtask.c:1355` speaks of: each request starts the wait anew.
  `Served`: no request waits for ever, however many mailers come.
* `IbcLink`: `TablesFollowLink` and `NoGhosts` hold until a connected server is
  called anew (`upset`). `DiesOfFaultsOnly`: crossing calls alone do not make
  either side give up. `Agreement`: two linked servers that have read
  everything agree on their users, however many faults there were, unless news was damaged, tables
  were kept, or a call that was over was accepted: `command_server` takes the
  token of any SERVER line for that of a call still open (`mbtask/taskibc.c:1143`).
  `Relinked`: after a bounded number of faults the servers connect and stay connected,
  unless one of them stays without a socket (`Mute`): when the name of the peer cannot be
  resolved and, before the next attempt, a datagram of that peer moves the state on, nothing
  leads back to the state in which the socket is made.
* `Binkp`: `ImplementsTransfer`: a file that the sender disposes of is complete in
  the inbound of the receiver, over lines that drop at any frame, sessions that
  resume a partial file, and answers (M_GOT, M_SKIP, M_GET) that cross the data
  they are about. Two ways out are part of the abstract specification, because the
  code has them (section 5): the complete file cannot be moved to the inbound, or the
  receiver keeps a part that has the right length and the data of another file.
  `CleanEnd`: the two counters of a batch (`eob`, `messages`) do not make one side take
  the end of a batch for that of the session: a session without a fault, in which
  nothing is resumed, ends well on both sides and with empty outbounds. This is
  so within the bounds of the run; section 4 has what lies outside of them.
  `SessionEnds`: nobody waits for ever, except on a line that went silent, for a file
  that M_GET has put aside (`Abandoned`), or for one whose batch was over before it
  came (`Ignored`).
* `JamBase`: `MessagesKept`, `CountExact`, `Ascending` and `NothingSkipped` are what a
  writer, `Msg_Number`, a reader and the user's pointer rely on. They hold for any mixture
  of writers, a pack and a reader as long as nobody works on files a pack
  has replaced; each names what else takes it away. A writer killed between index entry
  and header (`entry`) leaves an entry that leads to the header written next, so that
  two entries have its number: `Ascending` and `NothingSkipped` name it. A header left
  without its end (`tail`) alone loses no message, since the next pack finds the headers
  behind it by the index; it does when they are not where the index and their
  numbers say (`Displaced`), and `MessagesKept` names the two together.
* `Outbound`: `ImplementsLock`: the node lock is an exclusive lock but for the two
  ways in which `nodelock()` takes it from a running owner, remembered in `broken`.
  `Alone`, `Attached`, `Once` and `MailSent` hold until that happens. `MailKept`
  holds even after it, unless mail was added to an archive that is being sent
  (`clash`) or to one that mbtask had found empty and unlinked after (`swiped`).
  `Attached` is the invariant behind them: the archive with mail has an
  unsent line, or someone under the lock is about to write or to truncate it. It and `Once`
  end with the first archive in use that is unlinked. `MailSent` is conditional: if
  mbfido flushes the queue again and again while there is mail in it (`Flushing`), the mail
  that has arrived is again and again with the remote. That it does is nobody's promise.

Each module has one type invariant besides, as a conjunct of `Inv` where there
are several.

### Bounds, and why they are enough

| Run | Bound | Cases that happen within it |
|---|---|---|
| `dirlock` | 3 programs; any number of calls, crashes, reuses | owner, one that breaks its lock, one that takes it in between |
| `taskregs` | 2 pids, slots for 2 clients; one reuse of a registered pid (`Start`) | a full table, a pid registered twice, a client gone while another registers, SIGTERM ignored, restart while hung |
| `messages` | `RB` = 3 (5 in the code), 9 messages | the four positions wrap twice, full and empty with equal pointers |
| `clientlist` | 3 sessions, 4 slots (100 in the code) | two readers and one who comes, goes or enters the door |
| `chat_tables` | 2 users, 2 entries each of users and channels, 2 pids, 4 channel names | full tables, a session refused at any command while it is in a channel, a pid that comes back as another user, the sysop's channel, two names that are cut to the same |
| `chatring` | 2 users, 4 positions (100 + 1 in the code), 5 lines | the head passes a pointer, the ring wraps with several copies of a line |
| `scheduler` | 3 tasks (10 in the code), 2 requests or items of mail, 1 call, 1 session from outside, pause 2, wait 1 | a full table, jobs of all four kinds beside a mailer that has not registered, a program that is stopped. `newnews` goes through the same code as `mailout`, `reqindex` as `msglink`; they are not asked for here |
| `ibclink` | 2 faults, 1 login, 4 tokens, 2 unanswered calls (6 in the code), 3 PINGs without an answer (6 or 7 in the code) | every pair of faults, in any order and at any moment |
| `binkp` | 2 files, of 3 blocks (2 when replaced) and of 1 (2 when replaced), a batch of 2 (20 in the code), 4 frames on the line; 2 sessions with 1 fault, and a last session that begins with a block kept of each file, or with a part of one that the other was resumed into | files in both directions at once, a batch that is full, a partial file resumed, one replaced between two sessions, a file got, skipped or asked for again at each frame; two kept parts in one session, and a part that is not the file's own |
| `jam` | 2 programs, 4 messages; eight plans, among them writer beside writer, pack, delete and reader, each killed anywhere | a base opened before, during and after a pack; header without index, index without header; an empty base |
| `outbound` | 2 pids that are reused, 2 messages, 2 names of archives with one truncation each, 1 fault, 1 passing week, sweeps until one has removed mail | tosser and session, two sessions; a lock broken by age or by a vanished file; each step followed by a crash; an archive that is used again between mbtask's look at it and its removal |

In `ibclink` a fault is a datagram that is lost, doubled or overtaken, an answer
after the caller's timeout, a PING that the peer answers between two of its calls (they
are more than a minute apart then, which they may be by ten seconds with the default delay,
and in any measure with a longer one), a name that does not resolve, a changed configuration or a daemon that ends. When nothing
goes wrong, datagrams arrive before the next timer runs out, which is 10 seconds
at least. One user at one server is enough there: the two servers are alike, and
news of users do not depend on each other. A number that two servers draw as
token is never the same; they are sequence numbers that come round after 2^32
calls.

In `binkp` the four frames stand for the buffers of the connection; they bound how far the
transmitter is ahead of the receiver, and four are the longest file with its
header. In the last session, which begins with parts that earlier sessions have left, no
further fault happens: what those parts lead to is all the code's own doing. In `jam` two packs of one base at once, the second with files it had opened
before the first (`stalepack`), are within the model and outside of the plans of
the run: with them there are three million states, and the properties hold.

Symmetry is used in `chat_tables` and `chat_survives` over pids only, and never
with liveness.

Deadlock is not checked where the system may stop: a daemon that has ended
(`chat_tables`, `chat_survives`, `clientlist`), all bounded requests dealt with and
everything at rest (`scheduler`, `binkp`, `jam`, `outbound`), or all lines said
(`chatring`).

### Fairness

* `DirLock`: a program inside `lockdir` or `ulockdir` goes on (weak fairness of its
  next system call); nothing makes it call, or end.
* `TaskRegs`: the scheduler calls `reg_check` on each turn of its loop, and time
  passes (weak fairness of `Check` and `Elapse`). No client is fair.
* `ClientList`: a session in the loop of `ExtDoor` asks again.
* `Scheduler`: the loop runs (weak); seconds and minutes both keep passing
  (strong fairness of the `Check` with both, since turns without either come
  between); a mailer that lives registers before its pause is over (strong, since
  the loop only reads commands at one place); a program that was started ends
  some time. The last is an assumption about mbfido, mbindex, mbfile and mbcico, which
  work through finite jobs and sessions with timeouts, and are signalled by
  `reg_check` when they are silent (`TaskRegs`). `Served` needs it: a job that
  waits for the tosser waits as long as the tosser runs.
* `IbcLink`: timers run, datagrams that were not lost arrive, a server that ended
  is started again, and calls of the two servers do not cross for ever. The
  last is strong fairness of accepting a call: the delay before each call is
  random between 10 seconds and a configured number (60 by default,
  `mbtask/mbtask.c:336`), so a server without an open call meets the peer's call
  again and again. Were the delay a constant, both could collide for ever.
* `Binkp`: both programs run, and what was sent arrives while the line is up (strong
  fairness of the receiver, which waits for frames; weak of the transmitter). A
  line that falls silent is not fair, and nothing starts the next session.
* `Outbound`: a program that runs goes on; mbtask calls the node while the `.flo` file has
  an unsent line, with whatever pid; a lock that was left behind grows old (weak, all
  three). After 30 failed calls the daemon calls a node no more, which the bound on faults
  stays far below. Nothing makes mbfido start: mbtask does not look at the queue, and mbfido
  flushes it when it has tossed or scanned something itself or was called for it
  (`mbfido/mbfido.c:602`, `706`), so mail that it left there because the node was busy
  waits for other mail. `MailSent` has this as its condition and not as fairness.

## 4. What is proved

`tlapm` checks 37 listed theorems in eight modules, with no step left out. Each is about
the specification of its module, for all values of the constants that the named assumptions allow; fairness
is not used.

| Module | Theorems | From |
|---|---|---|
| `InboundProofs` | `DirTypeOKHolds`, `Exclusion`, `Implementation`, `BinkpTypeOKHolds` | `NoProcAssumption`: no program is the mark for an absent lock file; for binkp `FilesAssumption`: finitely many files of a block at least, each of one owner; a kept part is any sequence of blocks |
| `TaskRegsProofs` | `TypeCorrect`, `CountersAgree`, `ClientsInTable`, `KillIsLastResort` | `MaxClientAssumption`: there is the daemon's slot; `NoPidAssumption` |
| `ClientTableProofs` | `InvHolds`, `FifoRefined`, `ListInvHolds` | `RBAssumption`, `MaxSentAssumption`; for the list of clients `MaxClientAssumption` |
| `SchedulerProofs` | `InvHolds`, `IdleJobsAlone`, `MailTossedAlone`, `MailinWaitsHolds` | `SchedulerAssumption`: sizes and times, with `RegDelay < PauseTime` |
| `ChatServerProofs` | `InvHolds`, `CountsAgree`, `SeatsTaken`, `UsersAgree`, `SysopCreates`, `RingDelivers`, `RingNeverBack` | `ChatAssumption`, `ChatServerAssumption`: among them that a name that was cut has 20 letters and so is not `#sysop`; for the ring `ChatRingAssumption`: finitely many users and a cell at least |
| `IbcLinkProofs` | `InvHolds`, `NoGhostsHolds`, `DiesOfFaultsOnlyHolds`, `AgreementHolds` | `LinkAssumption`: two servers |
| `OutboundProofs` | `LockTypeOKHolds`, `LockRefined`, `NodeLockRefined`, `AloneHolds`, `MailKeptHolds`, `OInvHolds`, `InvHolds` | `NoPidAssumption`, `BoundsAssumption` |
| `JamBaseProofs` | `JInvHolds`, `IndexSoundHolds`, `MessagesKeptHolds`, `NothingSkippedHolds` | `JamBaseAssumption`: the messages of a plan, and one more for each deletion, are fewer than an unsigned int can count |

Each rests on an invariant that says what the property leaves out; all of them were
checked by TLC first.

* **DirLock.** Nothing in `ExclusiveUnlessRaced` says why a program that
  is about to unlink may do so. The invariant adds that what a program
  compares was read from a lock file (`ReadPid`), that the owner of the lock it is
  about to unlink has ended, and will not come back, since a pid that is reused
  runs a program that does not use this lock (`StaleOwnerEnded`), and that until the
  first wrong unlink whoever has linked the file finds it his own
  (`OwnerInLockfile`). Two holders would both be in the one lock file. For the
  refinement, a lock file that is removed is that of a program that has given it
  up or has ended: the first from `OwnerInLockfile`, the second from
  `StaleOwnerEnded` and `raced'` being false.
* **Binkp.** The types are those of `Inv`: among them that a block is written only while
  a file is open and blocks of it are to come, and that the file being sent is in the
  list. They need `IInv`, which says the same of the frames under way, the queue of
  answers and the entries of the list: each offset is one of the file it names. The
  hard steps are those of the receiver, which resumes at the length of what it finds
  among the partial files. The proof found what the bounds of the run hid: after two
  faults an M_FILE may go on with a file that was never opened, where the code calls
  `fseek` on no file and ends (`NotOpen`).
* **TaskRegs.** The invariant is the types, `Counters`, and three parts.
  `ClientsHaveSlot` and `ChattersHaveSlot` say of which program the slot is that a
  client or a chat user has: `CloseCon` removes a user from the chat only when the
  slot it found is that of a BBS session, so it matters that this is what it
  finds. `SlotsTruthful`, until a pid is reused, says that a slot marked as TCP/IP
  belongs to a process that said so and that a slot with the short timeout belongs
  to one that had SIGTERM. The lemma `ClearSlots` has the arithmetic for
  `CloseCon` and `Check` at once: clearing any set of used slots lowers each
  counter by as many as the set has of the kind.
* **PersonalMsg.** `PointersMeet` relates the distance of the two pointers, modulo
  `RB` + 1, to the number of messages; `ExtraKnown` says what was put into the cells
  that the position behind the arrays shares, and when. From these a message that is
  read is the oldest one, and `DamageConfined` follows for any size of the ring.
* **ClientList.** `ScanComplete` speaks of the end of a scan only. `MissingAhead` says
  what makes it so: while nobody else has moved the cursor, every session that is still
  to be shown has a slot behind it. An answer is the least used slot from there on
  (`FirstSlot`), so none of those is passed over, and when there is no such slot
  nothing is missing. A session that goes leaves the list of what is missing
  (`MissingThere`), whoever takes its slot.
* **Scheduler.** `RunningExact`: the count by which the jobs go is that of the used
  slots while the loop is at the jobs. `Pausing`: the age of a mailer that has not
  registered and what is left of the pause are at least the pause together, so that
  at its end every mailer has registered. `OneInTable` holds of the table also after a
  program was stopped; that it is about the programs that run is what `astray` leaves.
  `WaitBounded` for `MailinWaits`: while mail is to be tossed, the minutes waited and
  the minutes left are together at most `TossWait`, and one for the minute under way;
  each request begins both anew.
* **ChatServer.** The counts are proved without summing: `Housed` says that there is a
  function that gives each user who is in a channel one entry of that channel's
  name, and that each entry's count is the number of the users it was given to. Each
  of the functions on the tables changes that function in one place. `CountsExact` follows
  for names of which there is one entry, and `CountsAddUp` for every name, since the same
  function numbers the members of a channel through the seats of its entries; the other parts say how sessions, user
  entries and pids belong together (`OurUsers`, `OneActs`, `Sessions`).
* **ChatRing.** `Newest` says what is left of a user's lines when the head has passed
  him: the cells from his pointer on hold the newest of them, and `Newer` that these are
  newer than what he got last. The hard step is `Say`, which may go once round the
  ring and further: either the cells it writes are behind all that is unread
  (`SayBehind`), so that a user's new line is the last one for him, or it meets the pointer
  (`SayRound`), and whatever the old cells held is older than the new line. No line can
  be there twice, since each step of it writes for another user.
* **IbcLink.** `NewsOfSender` is about the datagrams under way: until tables have been kept
  over a lost link, what a server tells is of users of its own, so nothing it says can
  enter at the other side a user of that side. `TablesFit` then says for each server
  alone which tables fit which state of its link, and every handler keeps it. It
  holds under any loss, doubling and order, because the network adds no news.
  `DiesOfFaultsOnly` needs both servers and both directions of the network at once:
  `AllCalm` describes them until the first fault. A server that waits for an answer has
  its call on the way, or, when the peer is connected already, the answer among what it
  has yet to read, with only chatter behind it; a server that is not connected has a
  peer that is not; and a PING that has not been answered is on its way, or its PONG is.
  So no call is given up and nobody becomes half dead. That what a server sends is
  really sent is `Wired`: before the first fault each has a socket, and later each connected
  one, unless a call that was over was accepted without one.
  `Agreement` needs what two linked servers have told each other, after any number of faults.
  `Tells` describes one direction: behind a call there is no news, two servers that
  call do not answer each other, and the datagrams behind an answer, or all of them
  between two linked servers, tell exactly what the sender's table says of its
  own user (`Told`), whatever the receiver has read of them so far. Two directions make a `Pair`
  and all of them `AllTold`, which holds until one of the three accidents. Steps that only
  read, lose, double or reorder datagrams without news keep it (`Like`); for the others
  `open` says which calls may still link the two, so that a call accepted late cannot
  open the link between news that was sent before it was lost and after.
* **NodeLock.** `SameRead` relates the programs that have read the lock that is there
  to what they found, `LateSeen` and `LateAged` what they think of its age to its
  age, and `StaleGone` says that who is about to remove a lock whose owner it found
  gone is right or has lost the race that `broken` records.
* **Outbound.** `Present`, `PacketSafe` and `SentSafe` follow one message through a
  packet, an archive and a filelist: which step of the owner of the lock may have it
  where, and that a session only truncates what was received. `OneToss` is that one
  program packs. `MailKeptHolds` needs
  nothing of the lock but that `clash` records its loss, and of mbtask that `swiped` has
  what it unlinked. `Attached` and `Once` do need
  it: until the lock is taken from a running program or an archive in use is unlinked, `Order` says which lines of the
  `.flo` file fit which archives, and what the program that has the lock is about to
  do to them. `Counted` is the invariant behind `Once`: the times the remote has got a
  message, the archives on their way to it that hold the message, and the packet still to
  come are together at most one more than the faults. That `Chosen` passes over archives
  until it finds one is a fact about a least number, proved as such (`HasLeast`).
* **JamBase.** The invariant has two halves. `Base` holds whatever happens: what a
  program has open at which step (`Stage`); that the new files of a pack belong to
  nobody else (`Apart`) and a file that comes into use is empty (`Blank`); that a header
  file is locked by one program (`Locking`); that every message still to be written has
  room, so that the unsigned count of messages does not wrap (`Room`); and what the
  writer that has the lock has written of its message (`Writing`). The other half is about
  the base as the next program will find it: `Target` is the file that has the name, or
  will have it when the exchange of files that is under way is over. Each part holds until
  the accident that breaks it. `Orderly`: one program at most exchanges the files. `Held`:
  a writer works on the target unless its message is one of those that went
  astray. `Counting`, `Tails`, `Lined`, `Serial`, `Rising`: the count, unfinished
  headers, the index, and two statements about numbers, one that survives `restart` and
  one that does not. `Keeping` is `MessagesKept` for the target at any time, `Reading` is
  `NothingSkipped` with what a reader between two of its sessions knows. The hard step is
  `Pack`: `ReadsAll` says when every header is read, `RenumberedSerial` what the recursive
  renumbering makes of the pointer, and the lemmas about `Rank` and `Place` that the copy
  has every message once and in order.

Not proved, and only model-checked:

* Liveness (`LockdirReturns`, `LostClientsGo`, `ScanEnds`, `Served`, `Relinked`,
  `SessionEnds`, `MailSent`), which is out of the prover's reach, as is ENABLED.
* `CleanEnd` and `ImplementsTransfer` of `Binkp`. `CleanEnd` holds for the bounds of the
  run and not for all: two replaced files that are both damaged, or a limit
  of one batch, make a session fail that nothing else disturbed. `ImplementsTransfer` is
  the more valuable one; its invariant has to say, for every frame under way, which file at which
  side it belongs to. With more sessions and faults than two and one, a part of one file
  gets data of another (`mbcico/binkp.c:1216-1222`: a file that comes from an offset which
  is the length of the part found last is written to that part), and a file that comes again with as
  many bytes as its part has is resumed at its end (`1249-1257`). `Foreign` names such
  parts however they came about; the run meets them by beginning a session with one.

Induction over data is done by the least counterexample (`HasLeast`, from the library's
theorem that the natural numbers are well-founded): the induction rule itself takes an
operator as its parameter, which no installed prover can instantiate.

No module declares a RECURSIVE operator, so each can still be proved about.

## 5. Where the code departs from what it says, or from what one would want

1. `mbtask/taskchat.c:761`: the client takes `200:1,` for a refusal, the daemon
   sends `100:1,`; a refused forced chat goes on with `CPUT`, and the daemon logs
   that client's pid with `%s`. The manual promises an error answer. The run
   `chat_survives` shows it.

Others were met while modelling. The models do as the code does; where a property
has to be conditioned on one of them, the condition names it, and where the name of
a condition is given in brackets it is the one.

* *Directory lock.* `lockdir` unlinks the lock file whose owner it found dead,
  without knowing that it is still the same file (`dirlock.c:92`, both copies). If
  the owner unlocks and ends after its pid was read, and a third program locks,
  the third one's lock is removed and a second is granted (`raced`).
  `mbfido … unprot` locks `CFG.inbound`, any other mbfido `CFG.pinbound`
  (`mbfido/mbfido.c:530-556`), and nothing locks `out_queue`: two tossers that hold
  different locks would share the queue. `Outbound` has one at a time, as mbtask
  starts them.
* *Registration.* The sysop's message is refused by a user who does not want to
  be disturbed (`taskregs.c:477-479`), though the comment there says otherwise.
  Position `RB` of the ring lies outside of both arrays (`taskregs.c:491`). The
  end of the list of clients is only noticed at one value of the cursor
  (`taskregs.c:576`). A single user door is checked and taken in different
  commands, so two users can enter it (`mbsebbs/door.c:148`).
* *Chat.* Names of channels longer than 20 characters are cut when stored and compared
  uncut, so each join makes another entry (`taskchat.c:202`). The owner of any
  channel may set the topic of the one he is in (`taskchat.c:545-551`). A nick may
  be the name of a user who is not connected yet (`taskibc.c:271`). A user
  whose session vanished cannot come back until the daemon restarts
  ("Already registered", `taskchat.c:351` removes him from his channel, not from
  the table), and the daily reset waits for him. `/topic` in #sysop is sent to
  links (`taskchat.c:708`). The name of that channel is compared with and
  without regard to case (`taskchat.c:220`, `745`). The head of the ring of
  lines takes a value behind its array (`taskchat.c:125`). The nick of a forced
  chat is always refused, since it is the user's own name.
* *Links.* A server connected by its own call that is called again goes back to waiting
  with its tables kept (`taskibc.c:1134`), and a user who has left in the
  meantime comes back as a ghost. Any SERVER after a PASS is accepted,
  also one that answers a call given up long ago (`taskibc.c:1143`). A server whose lookup
  of the peer's name failed waits without a socket (`822`, `836`); when the peer's PASS
  and SERVER come meanwhile, it takes itself for connected, or calls later on, but
  nothing it sends leaves, and only a state it does not come back to would make the
  socket (`Mute`). A doubled
  SERVER connects a connected link anew. Six calls, not five as the comment at
  `taskibc.c:908` says, make a connected server give up; if the peer's calls are
  more than a minute apart, PINGs in between reset the count, and the peer is not
  let in until something else breaks the link. A lost USER or QUIT is never
  repeated.
* *Scheduler.* A new mailin request starts the wait of 30 minutes anew
  (`taskstat.c:424`), against the comment at `mbtask.c:1355`. A request is lost when
  its program cannot be started (`mbtask.c:1348`). `call_entry` runs over one more
  position than the call list has (`mbtask.c:1453`). A node leaves the list while it
  is being called (`calllist.c:88`). A stopped program is taken for one that ended
  (`mbtask.c:613`, `670`), so that a second may run beside it (`astray`). Mail is to be
  tossed when no mailers run, says the comment at `mbtask.c:1353`; the code counts the
  mailers it has started and the sessions over TCP/IP (`1359`), and not the mailers that
  answer a modem or an ISDN line.
* *Binkp.* M_GOT is sent also when the received file could not be moved to the
  inbound; the sender disposes of it, and it stays in the temporary directory
  (`binkp.c:1432`, `Strand`). A partial file is found by its name and resumed at its
  length, whatever its date, when it is not longer than the file offered
  (`bopenfile.c:83-87`, `binkp.c:1249-1257`); after the sender has replaced a file by
  another of that name, halves of both are joined. A file that comes from
  an offset which is the length of the part found last is taken for that one's
  and written to it (`1216-1222`), so that a part gets data of another file. Of either kind of part a
  file of the same length is taken to be complete (`Lose`). M_GET for a file other than the one
  being sent puts it back to "Sending", and nothing sends it (`2603`, `Abandoned`). A
  transmitter that is told to go back in a file after its M_EOB takes the M_EOB of the
  other side, sent before that, for the end of the batch and begins the next
  (`1810-1822`); what it then sends of that file is not taken and not answered, and both
  sides wait (`Ignored`). The timer is not
  looked at while the output is writable, so a silent line may keep a session for
  ever (`1014-1019`). `fseek` is called on a file that could not be opened
  (`1219`, `NotOpen`: it ends the program), and lines 2564–2568 set a pointer to NULL and use it, for an M_GET whose
  offset is the size of the file; no receiver in this code sends that.
* *Message base.* The lock is on the header file and goes with it when a pack closes
  it, before the four new files are renamed (`jammsg.c:882`): a writer in between
  adds to files about to be replaced (`astray`). The number of messages is read when
  the base is opened, before it is locked (`424`). A message numbered by a program that
  opened the base when it was empty starts again from below (`restart`, `blind`). A writer
  killed while it writes a header leaves bytes behind it that are no header. A pack
  goes on at the next entry of the index if its number is its position, which is
  not so where numbers began again; it then leaves out all that follow. A pack that
  meets a header that leads behind the end of the texts reads zero bytes for ever
  (`780`). A reader opens the base again, to show a message and then to set the
  pointer, with a number from the first time (`mail.c:2579-2610`, `1225`). `KillArea` sizes an array by the count in
  the header plus 100, which the same defects make too small.
* *Node lock and outbound.* When the lock vanishes between reading it and asking its
  age, `file_time` gives −1, which is taken for older than six hours, and the lock
  that the next owner has made in between is unlinked (`nodelock.c:118`). Without any
  fault, the rule of six hours takes the lock from an owner that still works. A
  read-only `aa<pid>` that was left behind keeps every later program of that pid from
  locking. When no archiver can be had the node stays locked until the program ends
  (`queue.c:274`), and then until the lock is stale. An archive is left without a
  line, so that neither it nor later mail of that name goes out until old files are
  swept, by a crash between archiver and attach (`queue.c:385`), by an archiver that
  fails and leaves a file, and by a crash between marking a line and truncating the
  file (`orphan`). After a lost lock a session may truncate an archive that mbfido has
  just added to (`clash`): that mail is lost. mbtask takes the age and the size of an
  archive and unlinks it without the node lock (`mbtask/scanout.c:149-158`); mbfido may
  have put mail into a new archive of that name in between, which goes with it (`swiped`).
  Mail that mbfido leaves in the queue because the node is busy stays there until it
  has something else to flush (`mbfido.c:602`, `706`).

## 6. What is not modelled, and why

Left out of the modelled parts:

* `TaskRegs`, `ChatServer`, `ClientList`: texts and listings, the monitor's display,
  the status file; restarts of the daemon in the last two. `Scheduler`: reload of the
  configuration, shutdown, and which node a call goes to. `IbcLink`: nicks, channels,
  topics, and servers behind the neighbour.
* `Binkp`: binkp/1.0 peers, passwords and CRAM, the CRC and compression extensions and
  the non-reliable mode; files without content; a file that has vanished from the
  outbound when its turn comes, which is skipped or treated as received
  (`binkp.c:1569-1571`, `2816-2820`), and the entries of the list that are no file of the
  remote's and are disposed of with any M_GOT (`2633-2636`). A turn of the transmitter is one step:
  nothing it reads changes in between but through messages it reads on its next turn.
* `JamBase`: appending a text is one step; one user with one pointer, without the
  second one (`HighReadMsg`); the flag that a message was received, which a reader writes
  into the header he has read (`mail.c:1366-1374`) and for which the header is read again
  under the lock; the removal of the four temporary names at the end of a pack
  (`jammsg.c:909-924`), which are free by then unless a second pack has made them anew; reply links (`Msg_Link`), which change neither numbers nor
  counts, and purging of users.
* `NodeLock`, `Outbound`: one node, one flavour, one message per packet and one
  weekday; Directory sessions, packets sent unpacked, files attached by tic, routing, and
  locks without content. The daemon's deliberate removal of mail after `toss_days`
  (`scanout.c:163-168`). An unsent line of an archive that is not there is treated like that of an
  empty one. Calls with nothing to send. Programs that start after the
  lock of a running one was taken are not followed further. Removing the private
  temporary file is merged with the step before it.

Parts without a module:

* *Program lock* (`lib/proglock.c`): the file protocol of `DirLock` with one temporary
  file for all starts (`53`), a lock file that may be empty after a full disk
  (`59`), the probe and unlink of `dirlock.c:92` (`88`), a `die()` that removes a lock it
  does not own (`mbutils/mball.c:93`) and a daemon's pid that is filled in after
  the fork (`mbtask.c:1722`). It guards short programs against being started twice;
  its departures are known from reading, and what can be checked of it is what `DirLock`
  checks.
* *Call selection and outbound status* (`calllist.c`, `outstat.c`, `callstat.c` on both
  sides): the most worthwhile next module. The status of a node is read, changed and
  written after the node lock is gone (`mbcico/callstat.c:67`), there may be more systems
  than slots (`calllist.c:117`), and a node may be called twice (`calllist.c:88`);
  `Outbound` assumes of it only that calls keep coming.
* *Sysop page*: a page that nobody answers blocks all others, a monitor that dies stays
  present (`taskregs.c:396`). Its states are those of `TaskRegs` slots, whose product with
  the pages is the cost.
* *Tosser: mail, file echo, managers, duplicate base*: one program at a time under
  `DirLock`, working through files; what it shares with others is the queue (`Outbound`)
  and the bases (`JamBase`). A crash between tossing and writing the
  checksums (`lib/dbdupe.c:133`) lets duplicates in, and nothing in the code promises
  otherwise.
* *News of nicks and channels over links*: on `ChatTables`, two linked servers and their
  channels are beyond TLC at a size where they would meet.
* *EMSI, Hydra, Zmodem, FTS-0001, modem lines*: older byte protocols over the same
  session; most of their code is coding and timing of bytes.
* *Nodelist, gateway, news, BBS menus and screens, file areas, setup, monitor, display,
  language and macro files, utilities, archives and conversions*: one user or one file at
  a time. They keep no state that programs share, or share it through a lock that is
  modelled.

The last group is nearly all of the 160,000 lines, which is why the modelled lines are
a small share of them: what programs do to each other is in a few thousand lines.

Hazards of the code are in `PROJECT.json`: those a property covers, and, with the reason,
those that none does.
