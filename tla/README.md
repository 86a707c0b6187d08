# Specifications of xmcd

TLA+ models of the parts of xmcd and cda whose correctness depends on order,
interleaving or failure, TLC configurations that check them on small
instances, and TLAPS proofs for every instance.

## The system

xmcd (X11) and cda (command line) play audio CDs.  Both link the same
libraries; the directories of `src/` are the components.

| Component | State it keeps | Operations | Talks to | What is hard |
|---|---|---|---|---|
| `cdda_d`: CDDA playback pipeline (`cdda.c`, `pthr.c`, `sysvipc.c`, `rd_*.c`, `wr_*.c`) | shared `cd_info_t` (play state, ids, `cdda_done`, heartbeats), ring buffer `cd_buffer_t`, three semaphores | `cdda_play`, `cdda_stop`, `cdda_halt`, `cdda_pause_resume`, `cdda_getstatus`; the reader and writer threads or processes | called by `libdi_d`; threads share memory with their parent and kill each other | two threads and a client over one ring buffer; kills in the middle of a wait; ids stored by the new thread; unlocked reads of the play state |
| `cdda_d`: outputs (`wr_gen.c`, `wr_fp.c`, `if_*.c`) | open file, pipe and encoder descriptors | open, write a chunk, close, track changes | called by the writers | partial writes, header rewrites, child encoders |
| `libdi_d`: player (`slioc.c`, `scsipt.c`, `fbioc.c`, `aixioc.c`) | `curstat_t` (mode, track, program order, A-B points) and the method's static play state | `play_pause`, `stop`, `prevtrk`, `nexttrk`, `sample`, `chgdisc`, timers that poll | drives the device or CDDA, calls back into the UI | timer polls between user commands; program, shuffle, repeat and segment; errors |
| `libdi_d`: device lock (`libdi.c`) | lock files in `/tmp` | `di_devlock`, `di_devunlock` | other xmcd and cda processes | stale locks, two processes taking one over |
| `libdi_d`: drive simulator (`cdsim.c`) | simulated drive in a child process | requests over a pipe | the SCSI pass-through layer | request and reply framing |
| `cda_d/cda.c`: cda client and daemon | two FIFOs, the daemon's lock file | `cda_sendcmd`, `cda_docmd`, `cda_poll`, `cda_daemon` | client processes and daemon through the FIFOs | several clients on one response FIFO, retries, stale locks, a dead daemon |
| `cdinfo_d`: disc information (`cdinfo_x.c`, `cdinfo_i.c`), with its windows in `dbprog.c` | a child process and its pipe, the disc record, the list of matches | `cdinfo_load`, `cdinfo_load_cancel`, reload, choose a match, register, authorize | child processes running `cddb_d`; `libdi_d` on insertion and ejection | lookups nested in each other's event loops, cancelled and timed out while they write |
| `cdinfo_d/hist.c`: history, with its window in `dbprog.c` | a list in each program, their common file, the window's lines | add, delete, delete all, load | `xmcd_d`, `cda_d`; child processes that rewrite the file | three copies of one list, positions that go stale, waits that let events in |
| `cddb_d`: CDDB protocol | connection, result lists | queries and submissions | the CDDB server | network failure |
| `common_d/util.c`: utilities | none | string, path, time and child-process helpers | all | waiting for children, number conversion |
| `xmcd_d/command.c`: remote control | three properties of the receiver's window | `cmd_sendrmt`; `cmd_propchg` of the receiver | other xmcd processes through the X server | several senders, events before their request, nested event loops, a sender that is killed |
| `xmcd_d`: X11 front end | widgets, dialogs, the program list | callbacks | all of the above | long-running callbacks, wait dialogs |
| `labelh_d`, `util_d`, `misc_d`, `docs_d` | none of note | label widget, installation helpers, documentation | | |

`PROJECT.json` lists every component with what is and is not modelled, and
the hazards, at their lines, that the properties are for.

## Plan

In order of importance; what is done says so.

1. **CDDA pipeline** (`Cdda*`), done: the only place where xmcd runs
   concurrent threads over shared memory.  Both IPC methods, all failures,
   refinement of `CddaStream`, eight theorems.
2. **cda client and daemon** (`CdaDaemon`, `CdaPipe`), done: who serves a
   drive, and the packets over two FIFOs.
3. **Device lock** of `libdi.c` (`PidLock`, `DevLock`), done.
4. **Heartbeats** of the CDDA threads (`Heartbeat`), done.
5. **Player logic** of `slioc.c`, driven by the callbacks of `cdfunc.c` and
   `dbprog.c` and by the commands of cda's daemon (`Player*`), done for one
   drive in standard playback.
6. **Disc information** (`DiscInfoState`, `DiscInfo`), done.
7. **Remote control** (`Remote`), done.
8. **History list** (`History`), done but for the changer's list.
9. **Proofs** of the safety properties of all of these, done.
10. Next: the repeat count, volume and a changer in `Player`.

## CDDA pipeline

| Module | Models |
|---|---|
| `CddaState` | `cd_info_t`, `cd_buffer_t`, the semaphores; `cdda_waitsem`, `cdda_postsem`, `cdda_kill` for both IPC methods; the type invariant |
| `CddaReader` | the reader thread: `scsi_read` with `scsicd_read_fillbuf` and `scsicd_read_cont`, and `scsi_rdone` |
| `CddaWriter` | the writer thread: `oss_write` with `ossaud_write`, and `oss_wdone` |
| `CddaCancel` | what a kill does: cancellation points and `cdda_pthr_unblock`, or the SIGTERM handlers |
| `CddaClient` | `cdda_play`, `cdda_stop`, `cdda_halt`, `cdda_pause_resume`, `cdda_getstatus` of the player's main thread |
| `Cdda` | their composition, fairness, the properties |
| `CddaStream` | the abstract promise: one area comes out in order, at most one late chunk after a pause or a stop, none once the stop has returned |
| `CddaInv` | the inductive invariants |
| `CddaProofs` | the theorems |
| `MCCdda` | the instances |

**State.**  A disc area is counted in chunks; the chunk `<<s, k>>` is the
`k`-th of the area of play number `s`, so that a chunk left from another play
shows.  Each play has its own pair of threads `R(s)`, `W(s)`, and `pc` says
where each is: one label per call of `cdda_waitsem` and `cdda_postsem` and per
access to a shared variable outside the lock.  The steps between two such
points are one action, as nothing else can see them.

**Semaphores.**  A POSIX-threads semaphore is a flag under a mutex: posting it
twice is posting it once, and a waiter sleeps in `pthread_cond_wait`
(`asleep`).  A thread cancelled there locks the mutex again before its cleanup
handler runs (`owner`).  A System V semaphore counts.

**The client** is one thread: xmcd and cda call CDDA from their main loop, so
an operation runs to its end before the next starts.  `Orderly` restricts it
to the discipline under which the code keeps its promises: no call before the
threads of the last play have stored their ids, and no play on top of a
completed one that has not been stopped (in the program `cdda_getstatus`,
polled several times a second, sees to both).

**Failures** are chosen by `Faults`: a read, a write or an opening of an
output fails; a thread or process cannot be created; a heartbeat check finds
a thread hung and kills both.

### Runs

Two slots and areas of one and three chunks: an area that fits the buffer, and
one that wraps it, fills it and makes the reader wait.  Two plays show what one
leaves to the next.

| Run | What it shows |
|---|---|
| `cdda_pthr_faults` | POSIX threads with all failures but creation: `TypeOK`, `MutualExclusion`, `RingConsistent`, `InOrder`, `Quiescent`.  Deadlock is not checked: a cancelled thread may block on its own mutex (see "Disagreements") |
| `cdda_pthr_live` | POSIX threads without failures, with pauses, resumes and halts: `StopReturns`, `WroteAllButOne`, and `ImplementsStream`, the refinement of `CddaStream` |
| `cdda_pthr_create` | failing creations: `LOCK` survives (`LockAvailable`).  A reader whose writer could not be created may be left, so deadlock is not checked |
| `cdda_sysv` | System V processes with writes that fail, whose writer ends the reader with SIGTERM anywhere: `StopReturns`, `PlayEnds` |

**Fairness** (`FairSpec`) is weak fairness of each thread, of the effects of a
kill, and of the operation the client has started: the scheduler runs threads
that can run, device calls return, and nothing obliges the client to call.

### Proofs

All theorems hold for any number of plays, any buffer size and any areas.
The inductive invariants (`CddaInv`) were checked with TLC before they were
proved.

- `TypeCorrect`: `Spec => []TypeOK`, for both IPC methods and all failures.
  The strengthening `PlayBound` bounds the play that is about to start.
- `MutualExclusionHolds`, `QuiescentHolds`: POSIX threads, an orderly client and
  threads that can be created.  `PthrInv` says that only the last play has
  threads (`OldGone`), that those past their start are registered
  (`Registered`), what each step of a client operation finds (`ClientAt`), and
  `LockInv`: a thread inside the region has `LOCK` at 0, or the other has
  retired.  The second case is needed because a failing writer and
  `cdda_pthr_unblock` post `LOCK` without holding it.
- `RingConsistentHolds`: the same, without pauses (with them it does not hold,
  see "Disagreements").  `RingInv` adds what a thread inside the region knows of the
  count; mutual exclusion keeps it true until it is used.
- `LockAvailableHolds`: POSIX threads, any client and all failures.  `LockOwed`
  says that when `LOCK` is 0 some thread is inside the region or in its
  cleanup, and so still owes the post; nobody is created twice (`Unborn`).
- `InOrderHolds`, with the assumptions of `RingConsistentHolds`.  `OrderInv`
  accounts for every chunk: those written, the one in the writer's hand, those
  in the ring slot by slot, and the one the reader reads next are consecutive,
  and none is past the end of the area.
- `ImplementsStreamHolds`, if nothing fails either (`Faultless`).  Each step is
  matched with a step of `CddaStream` or leaves it alone.  `StreamInv` says that
  nobody is killed, that a writer leaves its loop only when the play is over,
  and that `cdda_done` is set when at most one chunk has still to be put in the
  ring: so the end that the writer sees is one that `Finish` allows.
- `WroteAllButOneHolds`, likewise.  `WroteInv` adds that an area that fits the
  buffer is read in the pre-fill, which the writer sees whole or not at all.

## Heartbeats

In `Cdda` the check of the heartbeats is a choice of the environment.
`Heartbeat` models the check itself, `cdda_pthr_getstatus`: the counter
`hbcnt` with its interval, `skip_hbchk`, the two time stamps with their
time-outs, and what resets them: `cdda_pthr_initshm`, at the end of every
stop, clears the time stamps and the time-outs (`Initshm`), but not `hbcnt`
and `skip_hbchk`, which a play takes over from the one before.  A play follows
a stop, or a poll that found the last play ended and stopped it; a play on top
of one that has ended (`pthr.c:869`) is `Cdda`'s.  `TypeOK` holds in its run and
is not among its properties.  Time advances by one unit from poll to poll
of the client; a time stamp is known by its age, `Never` standing for the time
0 of a heartbeat never given, and for a counter below 0.  Of the threads there
is only when they owe a heartbeat: from their start, while they work, but not
while they wait for a resume or for a hung thread.  `StartTime`, `BeatTime`,
`FillTime` and `DrainTime` bound how long that may take; a fill longer than
`Timeout` is beyond the runs, since `common.cfg` asks for a longer time-out on
such a system.

| Run | What it shows |
|---|---|
| `heartbeat` | two plays, paused, stopped and hung anywhere: `NoFalseAlarm` and `HangFound`, with time-out 5, 2 units of buffer, and 2 checks left out after a pause, so that a pause and the end of the reading can each outlast what is left of the time-out |

The threads of this run start before the next poll (`StartTime = 0`), as
`HangFound` needs: `hbcnt` goes on from where the last play left it, and may
reach 0 at the first poll of the next.  The
time-out is longer than the draining of the buffer; without that the two
properties do not hold (see "Disagreements").

**Proofs** (`HeartbeatProofs`), for any times: `HeartbeatTypeCorrect`, and
`NoFalseAlarmHolds`, `Spec => []NoFalseAlarm`, for times that are `Timely`:
the time-out covers two beats and the draining of the buffer; a late start of
the writer and the draining; a late start of the reader, its filling of the
buffer and a beat; and the checks left out after a pause (`Skip` times `HbInt`
polls) cover a beat and the draining.  TLC finds a false alarm with each of
these bounds one unit too small (`BeatTime = 2`; `HbInt = 6` with
`StartTime = 4` and `FillTime = 0`, or with `StartTime = 3`; `Skip = 1`).
`NoFalseAlarm` says nothing of how old the time stamps are, so the invariant
`HbInv` adds it: a thread that has not begun has no heartbeat, and has been
starting for as long as the other may have worked (`Starts`); before the
buffer is full the reader has beaten within its time, and the writer since the
filling could begin (`Fills`); then each has beaten lately, or the next check
that counts comes only after it must have (`Beats`, with `Spared`); and a
reader that is done has, or will be let off, until the buffer is drained
(`Drains`).  While paused no poll counts down, and the resume sets `skip_hbchk`
anew, so that the time stamps may be of any age.  A false alarm would need a
time stamp above the time-out at a check that counts (`NoneFailed`).

`FairSpec` lets the client poll on and the threads that are not hung go on.
Deadlock is not checked, as no time passes while a thread misses the bound
given to it; the bounds are two plays for what
one leaves to the next, and ages up to just above the longest time-out, where
they all compare alike.

## Locks

`PidLock` is the protocol that `di_devlock` and `cda_daemonlock` share: create
the file exclusively, write the pid into it; or read the pid of another, judge
whether it is alive, unlink the file *by name*, and start over.  Each access
to the file is a step.

`DevLock` composes it with `slioc_disc_ready` (the lock is asked for again at
every poll, and a missing device node counts as locked), the opening and
closing of the device, `di_halt`, and kills.  `devlocked` is `locked`; the
lock's path that `di_devlock` stores, and `di_devunlock` unlinks, is `named`.
What may happen is a setting `env`, chosen at first and kept: whether attempts
of several processes may overlap, and which faults there are.

| Run | What it shows |
|---|---|
| `devlock_all` | three processes in three settings: ends and kills anywhere, with attempts that do not overlap; overlap without ends; and overlap, ends and a device node that comes and goes.  `Exclusive` holds in the sound settings (`Sound`), and `TakenOver` in all: the last process left gets the device's lock whatever the others have left, unless one was killed between creating the file and naming itself in it |

Three processes are the smallest number for a stale lock with two that want
it.  `FairSpec` is weak fairness of each process that polls: `slioc` polls
from a timer until it has the device.  Processes end, so deadlock is not
checked.

**Proofs** (`LockProofs`), for any number of processes and
any settings: `DevTypeCorrect`, and `ExclusiveHolds`, `DevSpec => []Exclusive`;
`Exclusive` carries its condition: the device node stays, and nobody ends if
attempts overlap.  It is not inductive.  `DevInv` adds that whoever has the
device open is alive and holds a lock (`opened \subseteq locked \ dead`), and
`LockInv` that a process that holds a lock finds itself in the file; there is
one file, hence one holder.  A process that unlinks a file has judged its
owner dead, and under `Sound` that owner's file is still the one unlinked.

## cda: daemons and clients

`CdaDaemon` is `cda_daemon` as far as its command loop, with `PidLock` for
`cda_daemonlock`, the making and opening of the two FIFOs, `cda_quit`, and
clients that open the FIFOs by name.  A FIFO is known by the daemon that made
it, `fifo` says where the names lead, and an open waits for the other end of
the same FIFO (`woken`).  A lock file that is still empty is read into an
uninitialised buffer (`cda_daemon_alive`): `Alive` may then be either.

| Run | What it shows |
|---|---|
| `cdadaemon_serial` | three daemons killed anywhere, starts that do not overlap: `OneDaemon`, `NamesLead` |

`LockProofs` also proves `DaemonTypeCorrect`, and `OneDaemonHolds` and
`NamesLeadHolds` for any number of daemons and clients when starts do not
overlap (`~Overlap`).  The argument is `DaemonInv`: a daemon is alone from its
start to its end, and as long as it serves the lock file names it, so that
whoever starts next either finds it alive or is right to take over.

`CdaPipe` is what is sent over the FIFOs: `cda_sendcmd` with its retries,
`cda_getpkt`, `cda_docmd` as the answer it gives, and `cda_quit`.  A packet
has the pid of its client, its reject count, and, for the properties only, the
number of the request.  A command line client whose command fails ends; one in
visual mode opens the FIFOs again.

| Run | What it shows |
|---|---|
| `cdapipe_all` | one client of each kind, interrupted and killed, and a daemon that exits: `TypeOK`, `NoDuplicate`, `Conserved`, `AnswerMatches` for the client on the command line, and `WaitEnds` |

`MaxRetries` is 3 for the code's 200: the limits are reached within two clients' rejections of each other.  Two
requests show what an earlier one leaves behind.  `Capacity` is 2 of the at
most 4 packets, so that a FIFO can be full; `WaitEnds` excepts the client that
is `Stuck`, with a packet to put back into a full FIFO that only it could
drain.  `FairSpec` lets the daemon, and clients in the middle of a command,
run; nobody has to send.  Clients end and requests are bounded, so deadlock is
not checked.

The requests are read and written in one piece: a packet is shorter than
`PIPE_BUF`.  What the commands do, and the format of their answers, is left
out.

**Proofs** (`CdaPipeProofs`), for any number of clients and requests, any
FIFO and any retry limit: `PipeTypeCorrect`, by which a FIFO never exceeds its
capacity nor a client its retries, and `AnswerMatchesHolds`: a client on the
command line never takes the answer to another request than its own.  A packet
has no number in the code; what replaces it is `PipeInv`: such a client has at
most one packet on its way (`Single`), which is at one place at a time (in a
FIFO, with the daemon, with a client that is about to put it back) and belongs
to its last request (`Fresh`), because it does not go on without it: a client
on the command line waits, puts a packet back, or ends when its command fails
(`Busy`).  The visual client goes on, and the property does not hold of it.
`ConservedHolds` is about all clients: a client that waits has its packet
`Somewhere` or recorded in `lost` (`Safe`), since whoever takes a packet has
none in hand yet (`Free`) that it could overwrite.  `NoDuplicateHolds` counts:
there are as many requests on their way as packets.  `Unique` says it without
counting, place by place: no two packets in the FIFOs, the daemon's hand and
the clients' belong to one request, and none to a request that its client has
yet to count, so that the next one is new.

## Player

| Module | Models |
|---|---|
| `PlayerState` | `curstat_t` and the static variables of `slioc.c` as one record `p.s`, `p.m`; the drive `p.d`; `slioc_do_playaudio`, `slioc_do_pause_resume`, the timers and what resets them; the type `State` |
| `PlayerPoll` | `slioc_get_playstatus` with all it starts at an end or an error: `run_prog`, `run_repeat`, `run_sample`, `run_ab`, `play_recov` |
| `PlayerOps` | play and pause, stop, previous and next track and index, sampling, eject, with the callbacks of `cdfunc.c` around them |
| `PlayerModes` | search, warp, segments, keypad, shuffle, repeat, the program and the track list |
| `PlayerCda` | the daemon of cda: the service functions that change what plays, and the update before each |
| `Player` | who calls them: the user or cda's clients, the timers or the daemon's poll, the drive; the properties |
| `PlayerInv` | the inductive invariant, and the conditions of the theorems |
| `PlayerProofs` | the theorems |
| `MCPlayer` | the instances |

Every callback of the X toolkit, and every command of the daemon, runs to its
end before the next, so an action is one of them, and its functions are operators from a state to a state with
a return value (`ret`).  What the drive does not determine (the order of a
shuffle, an index, whether a command is taken) is a choice `World`.

| Run | What it shows |
|---|---|
| `player` | what plays is watched by a timer (`Polled`), what does not play is not heard (`Silent`), a list, a segment and their order are kept (`InList`, `InSegment`, `InTurn`), and each status that finds the drive at rest uses up something that runs out (`Proceeds`), so that playing comes to its end |

`Proceeds` and `Polled` together are the liveness of the player in a form that
needs no fairness: there is always a poll, and each one moves a bounded
measure.  `TypeOK` holds in the run and is not among its properties.

**Bounds.**  A disc of three tracks in five blocks, the second a data track,
with an order, two programs, and thresholds of a block; four commands, errors
or disc changes (`MaxCalls`) at any place between the steps of timers and
drive.  Four are enough to start a list, change it, step in it and come back.
`OpSets` are three users of xmcd, whose commands are of a kind (warp and
segments; sampling and segments; search; each can do all the rest), and the
clients of cda.  These have fewer commands, and give six (`MaxServed`).  Which
program runs is `p.app`: the daemon has no timers, and sees what the drive does
when it waits for a command (`CdaPoll`) or is given one (`Update`).

**Assumptions.**  The mouse that holds a search button down gives no other
command; the timer of a search is faster than the drive; the disc is changed
when the timers have noticed that the last one is gone; the program is edited
while stopped; commands are taken by the drive (`Faults = {}`); a warp before
playing, a data track chosen by hand, and in cda a place behind the last block
of its track that is played or a program written while a disc plays, only in a set of operations that
names them ("preset", "data", "beyond", "edit"); the question of the keypad and of the warp
slider is answered "yes".  Without each of these, see "Disagreements".
Volume, the repeat count, CDDA, changers, and loading and saving programs are
left out.

**Proofs** (`PlayerProofs`), for any disc, shuffled orders and programs of any
length, any thresholds and any number of commands and disc changes:
`PlayerTypeCorrect`, `PolledHolds`, `SilentHolds`, `InListHolds`,
`InSegmentHolds`, and for the steps `InTurnHolds` and `ProceedsHolds`.  They
are about what the run is about, and the conditions are those under which
the code keeps the properties:

- `Sane`: commands are taken (`Faults = {}`); `CLIP_FRAMES` (10) is no more
  than `minimumPlayBlocks` (25 in `device.cfg`, `ClipFrames <= MinPlayBlks`)
  and every track is longer than it, since the clip is taken off every end and
  of a shorter track nothing would be left to play; and a disc has an audio track, so that
  no shuffled order is empty.
- `Plain(ops)`: the operations named in "Disagreements" are not among
  those given, and neither is search (whose release is one of them).  Warp and
  sampling are not both given; with warp, a drive does not call a stopped disc
  paused; the daemon's disc begins with an audio track.  Each of the last three
  excludes an entry of "Disagreements" that was met when the proof did not go
  through.
- `InListHolds` is about xmcd only (likewise), and `ProceedsHolds` asks
  for `Mends(ops)`: the skip over an unreadable block is not nothing, and where
  blocks are unreadable, a drive does not call a stopped disc paused.

None of the properties is inductive, because each is about one thing (the
mode, the timer, the drive, the list) and the next command acts on all.  The
invariant `Inv`, of one state of the player and the operations, says how they
hang together:

- `Timed`: `PLAY` and `SAMPLE` have a poll, `PAUSE` has none, and a poll that
  is on has a timer.  A poll of `STOP` is a sampling that has ended by
  itself, one of `NODISC` finds no disc: its next status ends it.
  With `stat_id` overwritten a timer may be left over (`stray`), and is counted.
- `Quiet`: modes that do not play have a drive that does not.  This is what a
  command relies on when it only sets the mode; `Unforced` and `Flags` say that
  the flags with which one function tells another what to do (`fake_stop`,
  `idx_pause`, the search) are never left over from one command to the next.
- `Lists`, `Entered`: a list leaves no room for a segment or sampling, and the
  position in its order is an entry.  While an order waits to be
  started anew (`new_progshuf`) it is a repeated one at its end.
- `InEntries`, `InSeg`: the drive is in the track of that entry, or in the
  segment, what it plays ends there, *and so does what it would play on*
  behind an unreadable block (`sav_msf`, which is set by another command than
  the one that reads it).  With the warp slider, which plays to the end of
  `cur_trk`, the display must show that track too.
- `Resumable`: what would be played on ends no later than what plays, which
  `Proceeds` needs.
- `Placed`: no place is kept from before a stop (`curpos_trk.addr`) that the next
  play of a list would add to the start of its first track.

A command calls a dozen functions, in whose middle only parts of this hold
(`Ok`, without the timers and `Unforced`).  Each function `F` therefore has a
lemma `FIs`, that says what it may change and to what; from these `FOk` or
`FInv` show that it keeps, or restores, the invariant; the lemmas of actions
(`ButtonsInv`, `ServicesInv`, `TimersInv` and so on) put these together.
`InTurn` and `Proceeds` need no more of the state, but of each step what it
does to the position and the poll: a command counts (`calls`), the drive's steps change neither, and a
status is followed through its cases (`StatusSteps`).  A list's next audio
entry is found by a search through the order; that it is
found if there is one is by well-founded induction on the position.
TLC checked `Inv` on the instance of the run, and with
`StoppedAs = {"idle"}`, before it was proved: of the sets of `MCOpSets`, the one
with sampling and that of the daemon are then `Plain` in any case, and
that with warp in the second.

## Disc information

`DiscInfoState` holds the state `x` that a lookup works on and the functions
of `cdinfo_x.c`, `cdinfo_i.c` and `dbprog.c` that change it; `DiscInfo` who
calls them.  A lookup is a child process that writes into a pipe what it has
found; the parent reads in an event loop, so that any button, dialog or timer
may begin another call inside.  The calls under way are a stack (`x.stack`,
innermost first) of places `at`: reading a pipe, reading the rest after a
choice, waiting for the child, in a dialog, or waiting for the history's
child: a lookup that ends, and an authorization that is given up, enter the
disc into the history, and the child that writes the entry takes `child_pid`
and leaves it 0 (`HistNew`, `Added`).  An entry that is at the head of the history already
is not written again (`hist`).

| Run | What it shows |
|---|---|
| `discinfo` | two discs, ejected, reloaded, stopped and exchanged at any time, in four settings: `OneLookup`, `RightInfo`, `Watched`, `Reloadable`, and `LoadEnds` |

**Settings** (`MCSettings`).  "helper": other children, which share
`child_pid`, are forked while a lookup runs: a browser, a mail, one that
deletes from the history, and the history's own where a choice is refused or
an authorization given up over a nested lookup; "prompt": events are handled
only when the innermost call has nothing to read; "calm": the disc stays,
no reload timer goes off, and whether to reload is not asked, before the calls
are over; "close" and "single" are
options of the user.  `OneLookup` excepts "helper"; `RightInfo` and
`Watched` hold only when it is calm and prompt, see "Disagreements";
`Reloadable` and `LoadEnds` hold in all settings.

**Bounds.**  Two children alive at a time (`MaxLoads`), three calls when
another begins (`MaxDepth`), and two ejects, reloads or removals (`MaxOps`);
the invariants are proved without them.  `FairSpec`: children end or are given up
(`srv_timeout`), the parent's loops go round, and the user answers what is
asked.  A program that waits for its user stops, so deadlock is not checked.

**Assumptions.**  The disc is changed by hand, after the program has noticed
the removal and not while something is readable; a killed child is gone at
once, while what it has written stays readable; the question to try again after a
failed authorization is part of its dialog; the history is empty at first,
and after a deletion from it any disc may be at its head.  A failing fork or
pipe, changers, the message of the day that the first lookup fetches, and the
question whether to submit changes are left out.

**Proofs** (`DiscInfoProofs`), for any number of discs, children, calls under
way and operations, and any settings: `DiscInfoTypeCorrect`, `OneLookupHolds`,
`RightInfoHolds`, `WatchedHolds` and `ReloadableHolds`.  The properties speak
of the main loop, where no call is under way, or of the children alone; what
makes them true is on the stack, in calls that began before and go on after
whatever was nested in them.  The invariant `Inv` says it:

- `Waits`, `Shown`: if an answer is awaited, the reload button is insensitive
  though the disc was looked up (not `Able`), or a dialog is up, the stack has
  a call whose end puts that right.  An empty stack then gives `Reloadable`.
- `One`: the only running child is `child_pid` (`Only`), and of the calls that
  load or choose the innermost is about it, with nothing above it but the
  question whether to stop it (`Guarded`, `Aside`).  Without the second, the
  outer of two nested loads, or the history's child at its end, could forget
  the child of the inner one.
- `Watch`, `Looked`, when it is calm: without a disc a timer is set, and no
  call is under way that would give up its flag, or mark the next disc as
  looked up, when it returns; with one, it is the disc looked up last.
- `Source`, when it is prompt too: the record holds the text of the disc or
  nothing, a running child looks up this disc and finds nothing read yet, and
  no call has a match still to read once the text is there.
- `Later`: the calls below the innermost have nothing more to read and no
  running child, unless the question whether to stop it interrupts a load.

A handler does several of these things in turn, so the parts of `Inv` that
hold in its middle have names of their own: `Held` for the whole, `Midway` when a call
returns, `Between` when what has been read is worked on, `Ready` when a lookup
begins.  Each function of `DiscInfoState` has a lemma from one of these to the
next or to `Inv`, and each action of `DiscInfo` puts its lemmas together.

## Remote control

`Remote` is `cmd_sendrmt` (`xmcd -remote`) with all it calls, and `cmd_propchg`
and `cmd_rmtlog` of the receiver.  `att`, `req` and `ack` are the three
properties of the receiver's window; `queue` and `rqueue` the events that the
X server has put into the queues of the clients that had selected them by
then.  A sender finds the window, selects its events, waits until nobody is
attached, attaches, writes its request, takes the ack of the end, and
detaches.  The receiver's calls are a stack, as its log's child and its commands run event
loops.

| Run | What it shows |
|---|---|
| `remote` | three senders, killed anywhere, and a receiver that may quit: `Exclusive`, `OwnStatus`, `LogRight`, `SendEnds` |

Two senders contend, and the third waits behind a killed one.  `FairSpec`:
senders and receiver run, and the commands end (a dialog they open is
answered).  `SendEnds` excepts what a sender killed while attached leaves:
nobody takes its property away while the receiver lives.  Senders end, so
deadlock is not checked.  The parsing of commands is left out; a command is
one step.

**Proofs** (`RemoteProofs`), for any number of senders: `RemoteTypeCorrect`,
and `ExclusiveHolds`.  `Exclusive` (on a live window the attach property names
whoever is between its attach and its detach) is inductive with the types: the
look and the attach are one step under the server's grab, and a detach happens
in a place where only the holder is.

`OwnStatusHolds` and `LogRightHolds` follow from one invariant, `StatusInv`.  As long
as no sender has ended after a failure to read its ack (`Confused`), the
window is `Served`: the request that is in the property, on its way in the
receiver's queue or under way in its calls is that of the sender attached, at
one of the stages in which it can be (`Stage`), and when that sender detaches
nothing of it is left (`Rest`).  For that a sender must not take the ack of
another for its own: none reads an absent ack unless an ack event was in its
queue when it attached (`stale`), because otherwise the acks in its queue are
one for each that it is due (`AcksDue`).

## History

`History` has the list of discs played in its three copies: in each program
(`list`, with `fcnt`, and `tail`, whether `cdinfo_hist_tail` leads to its last
entry), in the file all programs of a user share (`disk`, by the names `name`), and in xmcd's window
(`widget`, `hist_cnt`, the selected line `dlist_pos`).  `Add`, `Delete`, `DeleteAll`
and `Load` are `cdinfo_hist_addent`, `_delent`, `_delall` and `_init`.  All but
the last change the list and fork a child that changes the file, while the program
waits (`calls`), xmcd in its event loop; `Return` is what its caller does
after that.

No lock orders the children of several programs, so each goes its own way step
by step (`Child`).  To rewrite the file, it removes the old `.bak` (`Unlink`),
links the file to that name, which fails if there is no file or the name is
taken again (`Link`), removes the old name (`UnlinkOld`), opens the `.bak`
(`OpenBak`), opens a new file or truncates one that another child has made
(`Create`), and copies (`Copy`); to append, it opens what then has the name
(`OpenEnd`), and writes to it, whatever it is called by then (`WriteEnd`).  A file
lives as long as it has a name or is open (`Used`).  Where `USE_RENAME` is
defined, which no build file of the repository does, `Link` and `UnlinkOld` are one step.

| Run | What it shows |
|---|---|
| `history` | four discs come while the user selects, deletes, reloads and changes the list: `FileAgrees`, `Shown`, `Gone` |

**Settings.**  Five runs in one: nothing special; "still", no disc comes while
an entry is selected; "share", a cda daemon adds to the same file; "fail",
children fail anywhere; "come", a disc comes in the middle of a deletion.  The
third and the last come with "apart": a child does not begin to rewrite the
file while another one is at it, but children that append go on at any time.
`FileAgrees` is about the first two, `Shown` about all but "come" (and, for the
selected line, about "still"), `Gone` about those with "apart": without it, it
fails (see "Disagreements").  With "nest", when the user acts in those waits too, none of
them holds, and it is not in the run.

**Bounds.**  Lists of two and one entry more in the file (`MaxHist`,
`HIST_HYST`), for 100 (the default of `maximumHistory`) and 10 in the code; four entries made (`MaxTime`) are enough to fill the
list, rewrite the file and go on.  Six files (`MaxFiles`) are two that have a name and two that
each of two children can have open: the bound is never met.  The program rests when no disc comes any
more, so deadlock is not checked.

**Assumptions.**  A copy is one step (`Copy`): it reads what the `.bak` has
then, and writes from the start of the new file, over lines of the same length
that another child has appended meanwhile; a line is written in one piece; the
look whether the file is there and its opening to append are one step, as is a
load.  A disc and a time tell entries apart; `maximumHistory` is at least 2 (0 and 1 are
taken too, `libdi.c:2043`); the
history file is enabled.  The list of a changer's discs is left out but for
its taking the window.

**Proofs** (`HistoryProofs`), for any number of programs, discs and entries,
any limit from 2 on and any slack of the file: `HistoryTypeCorrect`, and
`FileAgreesHolds`, `ShownHolds` and `GoneHolds`, each property with the settings
it names.  All three hold between calls only, so their invariants say what
holds while a child is awaited:

- `AloneInv`: the list agrees with the file as the pending job will leave it
  (`Result`: `After`, from where the child has got to), and the entries of the
  file are in the order of their times; so a deletion takes exactly one entry,
  and `fcnt` counts what is left.  The child finds its files as it has left
  them (`Undisturbed`).
- `WindowInv`: for each call of xmcd that waits, how the window differs from the
  list: by one entry in front while one is added, by the count alone while one
  is deleted; and the selected entry is never moved.
- `GoneInv`: an entry still to be added is in no file, was not deleted, is in
  no list but its program's, and one job adds it (`OldInv`, `AddsInv`); one
  child at a time rewrites, the name `.bak` is free when it links, and the file it writes is the
  history (`OneInv`); and a deleted entry that is still in the history, or
  is about to be copied there by a child that does not drop it itself, has a
  job of xmcd that takes it out later (`DropsInv`).

What a rewritten file has is known from `KeptFacts`: `Kept` leaves out an entry
and no other, and where it occurs once, those behind it move up.  `Kept` is a recursive function, and the library's induction theorems
take an operator as a parameter; `InductionOnSet` draws the same from the
well-foundedness of the numbers, for a set in place of the operator.

## Disagreements

Where the code does not keep what its comments, its documents or its own other
half say.  All are kept out of the runs, by the condition of a property or by
an assumption named above.  TLC finds each of the first two tables within
minutes when the run's configuration is changed as said.

CDDA, heartbeats, locks, and cda:

| Property, in the run | Changed | What the code does |
|---|---|---|
| `WroteAll`, `cdda_pthr_live` | one play, no `Ops` | `cdda_done` is set before the last chunk is read: the writer may end while the reader still holds it (`rd_scsi.c:357`) |
| `GiveUpEnds`, `cdda_pthr_live` | one play, `Faults = {"read"}`, no `Ops` | a thread cancelled while it sleeps in `cdda_waitsem` owns the mutex that its cleanup handler locks (`pthr.c:487`) |
| `Quiescent`, `cdda_pthr_faults` | `Faults = {}`, no `Ops`, `Orderly = FALSE` | a play on top of a completed one does not stop it first (`pthr.c:869`) |
| `RingConsistent`, `cdda_pthr_faults` | one play, `Faults = {"read"}`, `Ops = {"pause"}` | a pause stored over the end of a failed play lets the writer take from an empty buffer (`pthr.c:979`) |
| `PlayEnds`, `cdda_pthr_live` | none | a pause and a resume stored over the end of a play leave it `PLAYING` without threads (`pthr.c:977`) |
| `Quiescent`, `cdda_pthr_create` | none | a reader whose writer could not be created may be left running (`pthr.c:942`) |
| `StopReturns`, `cdda_sysv` | one play, `Faults = {"read"}` | a process killed inside the region of `LOCK` keeps it, and the time-out of `util_waitchild` does not end the wait for the other (`util.c:2466`) |
| `HangFound`, `heartbeat` | `StartTime = 2` and one play, or `StartTime = 1` | `hbcnt` passes 0 while an id or a heartbeat is missing, and no check is made again (`pthr.c:1275`) |
| `NoFalseAlarm`, `heartbeat` | `Timeout = 3`, `DrainTime = 3`, `FillTime = 1`, `Faults = {}` | the reader that is done is checked while the buffer, as long as the smallest time-out, is drained (`pthr.c:1291`) |
| `Exclusive` without `Sound`, `devlock_all` | one setting, no overlap, `{"node"}` | a process that found no device node counts as locked when the node is back (`libdi.c:3115`) |
| `Exclusive` without `Sound`, `devlock_all` | one setting, overlap, `{"quit"}` | of two that judge a lock stale, the slower unlinks the lock of the faster, and both open the device (`libdi.c:3159`) |
| `TakenOver` without its exception, `devlock_all` | one setting, no overlap, `{"crash", "blank"}` | a lock that names nobody is never taken over (`libdi.c:3145`) |
| `OneDaemon`, `cdadaemon_serial` | `Overlap = TRUE`, `Faults = {}` | a fresh lock is unlinked as stale (`cda.c:1518`) |
| `NamesLead`, `cdadaemon_serial` | two processes, `Overlap = TRUE`, `Faults = {}` | a daemon that quits gives its lock up before it unlinks the FIFOs, which may be the next daemon's by then (`cda.c:6935`) |
| `ClientOpens`, `cdadaemon_serial` | two processes, `FairSpec` | the FIFO of a killed daemon is opened, and waits for ever (`cda.c:7855`) |
| `AnswerMatches` for all of `Client`, `cdapipe_all` | `Faults = {"intr"}` | a packet is known by the pid alone: the late answer to a request given up passes for the next (`cda.c:7353`) |
| `NeverLost`, `cdapipe_all` | `Visual = {}`, `Faults = {}` | an answer rejected `MAX_PKT_RETRIES` times is dropped, and its client waits (`cda.c:7371`) |
| `DaemonStays`, `cdapipe_all` | `Faults = {"kill"}` | a client that ends takes the daemon that answers it along (`cda.c:7622`) |
| `ExitEndsWait`, `cdapipe_all` | `MaxRetries = 2`, `MaxRequests = 1`, `Faults = {"exit"}` | a daemon that exits from its poll leaves a client waiting |

Player and remote control.  For the player one set of operations in
`MCOpSets` is enough, with the name in the second column added:

| Property | Added | What the code does |
|---|---|---|
| `Polled` | "preset" and "warp", `DataTracks = {}` | a warp while stopped leaves a position that a later play of a list uses; the play is refused, with the mode at `PLAY` and no poll |
| `InSegment` | "search" and "segment" in one set | searching back and letting go plays to the end of the disc: the release of `slioc_rew` knows no segment |
| `Silent` | "warp" in the set with "sample" | a warp on a sampling that has ended: `slioc_play_pause` notices the end and stops, and `slioc_warp` goes on and plays, with the mode at stop (`slioc.c:4809`) |
| `Silent`, daemon | `DataTracks = {1}`, `MCOrders` `{<<3, 2>>}` | `cda play` without a track, while another plays, begins with track 1: the mode is set to stop, and the play is refused with the drive playing (`cda.c:1925`) |
| `InList`, daemon | `MCToc` `<<0, 3, 5, 6>>` | `cda play` with a track and a place in it, given to a program that has not been started: the place is added to the start of the program's first track (`slioc.c:2774`), and the play, now behind the end of that track, is refused: a paused drive stays where it was, with the mode at `PLAY` |
| `InList` | `MinPlayBlks = 2`, `MaxCalls = 6`, operations "program", "play", "warp", "remove" | a warp close to the end of the track starts and stops: a drive that calls a stopped disc paused is then paused at block 0, outside the listed track |
| `Silent` | "data" | a data track chosen while another track plays: stopped on the window, and the drive plays on (`cdfunc.c:6686`, `cda.c:1914`) |
| `Silent` | "beyond" | `cda play` with a place behind the end of the track sets stop, and is refused with the drive playing (`cda.c:1946`) |
| `InList` | "edit" | a program written while a disc plays takes effect at once: the position in the order is that of the play before (`cda.c:2174`) |
| `Obeyed`, `remote` | two senders, `Faults = {}` | `cmd_attach` promises exclusive control, but a sender may read an absent ack, give up with `CMD_STAT_ACKFAIL`, and detach while its command runs and the next one attaches (`command.c:3124`) |

Others were met while the player was modelled, and its assumptions exclude
them: with refused commands (`Faults = {"status"}`) the release of a search
goes on whatever the status says, a forced end stays forced, and a mode is
set that the drive never took; `slioc_run_ab` and `slioc_play_pause` both start
the poll, so that two timers run; the end of a segment set before its start is
taken; Next onto a data track of a program leaves the previous one playing;
Previous before the first status of a segment, or after a program written
during a normal play, reads the entry before the table of tracks; letting
search go close to the end of a segment returns without a poll; an end kept
from before an eject is used when a drive that calls itself paused after a
stop is resumed in a data track and fails to read.

Disc information, without "calm" and "prompt" (`RightInfo` and `Watched`
without `Calmly`, `OneLookup` with "helper"):

- an eject during an automatic lookup finds `slioc_insert_polling` still set,
  starts no poll, and the flag is cleared afterwards: no timer watches for the
  next disc (`slioc.c:2147`);
- the outer of two nested lookups ends with `loaded` set after the inner has
  cleared it: the next disc is never looked up;
- forking a helper sets `child_pid` to 0: Stop and Eject no longer cancel the
  lookup, and two lookups may write into the same record;
- so does the history's child when, over a nested lookup, the authorization is
  given up or a choice from an outdated list fails (`dbprog.c:8509`,
  `dbprog.c:8419`);
- an eject makes the reload button insensitive, and the next disc, if it is
  passed over, cannot be looked up by hand either (`dbprog.c:3304`);
- of two nested lists of matches the outer call shows the one that is left,
  whose child is gone, and fails; the pipes of the other leak;
- an eject while an answer is read fills the record of no disc, and the
  text of a cancelled child may be appended to the next disc's;
- the error of an outer call overwrites the mode of the inner one that
  succeeded;
- a question whether to reload that stays open while a lookup begins, and
  whose answer begins another over it, leaves the outer call to read on from a
  pipe that the inner has read past: the text of one disc is appended twice.
  (A lookup ends in the authorization dialog, which is given up over a nested
  lookup: the reload button is then sensitive while that one runs,
  `dbprog.c:8499`.)

History:

- `dlist_pos` stays when a disc comes while an entry is selected: Delete and
  Show act on its neighbour (`Shown` without "still");
- a second Delete in the wait of the first deletes the next entry, and a
  rescan there doubles one ("nest");
- a disc that comes in the wait of a deletion leaves list, file and count in
  disagreement (`FileAgrees` for "come");
- deleting the oldest entry leaves `cdinfo_hist_tail` at freed memory, which
  is used when the list is full again (`hist.c:839`);
- nothing keeps two children from rewriting the file at the same time
  (`hist.c:110`): one that deletes an entry finds the file gone or the name
  `.bak` taken by another, and fails, and the other copies the entry back
  (`Gone` for "share" without "apart" in its condition and in `MCSettings`); or
  one truncates what the other has written;
- with two programs, a rewrite from the list of one drops what the other has
  added, and the file may outgrow its limit; a child that fails between moving
  the file and writing it anew loses it.

## What is proved and what is checked

Proved for every value of the constants, thirty-nine theorems:

| Component | Theorems |
|---|---|
| CDDA pipeline | `TypeCorrect`, `MutualExclusionHolds`, `QuiescentHolds`, `LockAvailableHolds`, `RingConsistentHolds`, `InOrderHolds`, `ImplementsStreamHolds`, `WroteAllButOneHolds` |
| Device lock | `DevTypeCorrect`, `ExclusiveHolds` |
| cda daemon | `DaemonTypeCorrect`, `OneDaemonHolds`, `NamesLeadHolds` |
| cda packets | `PipeTypeCorrect`, `AnswerMatchesHolds`, `ConservedHolds`, `NoDuplicateHolds` |
| Remote control | `RemoteTypeCorrect`, `ExclusiveHolds`, `OwnStatusHolds`, `LogRightHolds` |
| Player | `PlayerTypeCorrect`, `PolledHolds`, `SilentHolds`, `InListHolds`, `InSegmentHolds`, `InTurnHolds`, `ProceedsHolds` |
| Heartbeats | `HeartbeatTypeCorrect`, `NoFalseAlarmHolds` |
| Disc information | `DiscInfoTypeCorrect`, `OneLookupHolds`, `RightInfoHolds`, `WatchedHolds`, `ReloadableHolds` |
| History | `HistoryTypeCorrect`, `FileAgreesHolds`, `ShownHolds`, `GoneHolds` |

Every theorem stands on the named assumptions of the modules and on the
condition it states, and on nothing else.

Every safety property of a run is now a theorem.  Checked by TLC on small
instances only are the liveness properties (`StopReturns`, `PlayEnds`,
`HangFound`, `TakenOver`, `WaitEnds`, `LoadEnds`, `SendEnds`), which are out of the
prover's reach; and of the player, what the theorems leave to it: search,
warp with a drive that calls a stopped disc paused, `InList` in the daemon, and
`Proceeds` with errors on such a drive.  These hold in the run, but with other
tables, thresholds or more commands they need not (see "Disagreements").
What the theorems
about the CDDA pipeline assume away (pauses for `InOrder` and what follows it,
failures for the refinement, System V processes) is checked by TLC as far as
the runs go.

## Not modelled

With the reasons in `PROJECT.json`: the CDDA outputs, and the readers and
writers for other systems; the service functions of cda that set or report
options, volume and output files, and its screen; the drive simulator and the
SCSI pass-through, which hold no state of their own that another part shares;
the variants of the player in `scsipt.c`, `fbioc.c` and `aixioc.c`, which repeat
`slioc.c`; volume, changers and CDDA in the player; the CDDB protocol; the
utilities; the rest of the X11 front end, which is layout and display; the
message of the day; the label widget, tools and documents.
