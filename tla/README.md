# A formal model of SOI-Laboratorium

The repository holds the solutions of an operating-systems laboratory. Four of
them are small systems with a core of their own, and those are what this
directory models, checks and proves things about:

| part | what it is |
|---|---|
| `soi3/` | a chat service: sender and receiver processes, two ring buffers in System V shared memory, five System V semaphores |
| `soi4/` | the same service with threads: a monitor built from POSIX semaphores and a linked list of messages behind it |
| `soi6/` | a virtual disk in a file, with a one-level directory, driven by one command per process |
| `soi2/` | a MINIX kernel whose user scheduler divides time between two groups of processes, and system calls to control it |

`soi0/`, `soi1/` and `soi5/` are a shell line, a sequential table scan and
measurement scripts; they hold no behaviour worth a model.

## Inventory

### soi3: chat on System V IPC

*State.* Two shared segments (`buf`, `buf_pri`), each with `MAX` cells and, behind
them, a write index and a read index; a set of five semaphores: free and full
cells of the normal ring (0, 1), of the priority ring (2, 3), and the critical
section (4). All of it outlives the processes.

*Operations.* Every program first creates or attaches everything; whoever creates
the set initialises indices and semaphores. A sender (`tx`, `spamtx`, `bursttx`,
`px`, `spampx`, `burstpx`) then reserves a cell, enters, writes, advances, counts
the cell as full and leaves. The receiver enters, polls the priority ring, then
the normal one, takes and prints at most one message, leaves and sleeps.

*Hard.* Any interleaving of the calls; several receivers; processes already in
their loop while the set is half initialised; a decrease inside the critical
section that relies on an earlier `GETVAL`; death of a process anywhere, without
`SEM_UNDO`.

*Correct when* the critical section holds one process, no cell is lost or counted
twice, the receiver never sleeps while it is inside, messages of a class come out
in the order they were published and privileged ones first, and everything sent
is shown.

### soi4: monitor and message buffer

*State.* Monitor: semaphore `s`, and per condition a semaphore `w` and a plain
counter. Buffer: `head`, `pri_tail`, `tail`, `buffer_occupancy` and the messages on
the heap.

*Operations.* `enter`, `leave`, `wait`, `signal`; `pop`, `push`, `push_pri`, called in
loops by consumers, producers and privileged producers.

*Hard.* `signal` does not release `s` but hands the monitor over and queues for `s`
again; `wait` counts, releases and blocks in three steps; the conditions are
tested with `if`; three pointers into one list.

*Correct when* exactly one thread or one semaphore holds the monitor, what a
thread waited for still holds when it goes on, no wake-up is missed, the list is
what its pointers say, and no message is lost.

### soi6: virtual disk

*State.* The file `vsfs`: superblock, inode bitmap, data bitmap, inode table, data
blocks; the files of the host.

*Operations.* `mkfs`, `rmfs`, `touch`, `cp`, `rm`, `load`, `cat`, `ls`, `fsinfo`, each a
process that reads the disk, decides and writes.

*Hard.* A command is a sequence of writes and may end between two of them; sizes at
block boundaries; a bitmap search past its end; long sequences of commands.

*Correct when* names are unique, what was copied in is read back unchanged, and no block
belongs to two files.

### soi2: two-group scheduler

*State.* The process table with `pri_group`, the user ready queue with its pointers,
`scheduler_divider`, and the static counters of `sched`.

*Operations.* `ready`, `unready`, `sched`, `do_fork`, `do_xit`, `do_getprigroup`,
`do_changeprigroup`, `do_setscheduler`, `do_getusagetime`; interaction by messages from a process to
MM, which adds the pid, to the system task.

*Hard.* Processes leave the queue from its middle between two rotations; the loop of
`sched` runs with interrupts held back; a counter that only grows; lookup by pid in
slots that keep old pids.

*Correct when* the queue holds exactly the ready processes, the loop ends, nobody
ready starves, time is divided as asked, and a caller is answered about itself.

### soi2: messages, interrupts and signals

*State.* Per process the blocking flags `p_flags`, whom it sends to and waits for, the
queue `p_callerq` of those sending to it, a recorded interrupt, pending signals and their
count; the three ready queues and `proc_ptr`; the held queue of interrupts, `switching`, and
`sig_procs`; the message `m`, static in `system.c`, that SYSTASK's loop and `inform` share;
in MM, how far its start and its loop are, and the `REPLY` flags.

*Operations.* `sys_call` with `mini_send` and `mini_rec`; `interrupt` and `unhold`;
`ready`, `unready`, `pick_proc`, `lock_sched`; `cause_sig` and `inform`; the loop of SYSTASK
with `do_fork`, `do_newmap`, `do_exec`, `do_xit`, `do_trace`, `do_kill`, `do_endsig`; the start
of MM (`mm_init`, which waits for FS and tells it to continue) and its loop (`get_work`, the
call, `setreply`, the replies).

*Interaction.* A user calls MM or FS; MM works for it by calls of SYSTASK and FS; SYSTASK
changes `p_flags`, and with them the ready queues; a task signals a user by `cause_sig`, which
tells MM when MM is free, and MM's own `receive` tells it otherwise. A process blocks and
wakes for the scheduler above exactly when its `p_flags` leaves or reaches 0.

*Hard.* Interrupts in the middle of kernel calls; signals raised while MM is busy, or while
SYSTASK has a request in the message that `inform` writes; processes killed while they are
queued; table entries copied by fork; servers and drivers that want to send to each other;
four places that make a process ready and five that stop one.

*Correct when* nobody waits beside a message, an interrupt or a signal meant for it,
the queues hold exactly the senders and exactly the ready, nobody sends in a circle, the
counts are right, and no request is overwritten.

## Modules

| module | models | notes |
|---|---|---|
| `PriorityChat` | what both message services promise | two FIFO classes with a bound; a normal message is shown only when no privileged one waits |
| `Chat` | `soi3/*.c`, `semaphores.c`, `soi3.h` | one action per semaphore call or access to shared memory |
| `Monitor` | `soi4/monitor.hpp` for any client | one action per semaphore call |
| `MessageBuffer` | `messagebuffer.cpp`, the threads of `main.cpp` | extends `Monitor`; each of its monitor steps *is* the action of `Monitor`, conjoined with the thread's own step |
| `Vsfs` | the commands of `soi6/` | a command decides in one action, then every write is an action; `cat`, `ls` and `fsinfo` are operators |
| `Scheduler` | `sched`, `ready`, `unready`, the system calls | one action per handler, one per turn of the loop of `sched` |
| `Messages` | `sys_call`, `mini_send`, `mini_rec`, `interrupt`, `unhold`, the ready queues, `cause_sig`, `inform`, the loops of SYSTASK and MM, `mm_init` | the functions are operators on the state of the kernel that call each other as in C; one action per kernel call; an interrupt during it is an action after it |
| `MC...` | instances of these for TLC | |
| `ChatProofs`, `MonitorProofs`, `BufferProofs`, `VsfsProofs`, `SchedulerProofs`, `MessagesProofs` | the theorems about each model | |
| `ListLemmas`, `KernelLemmas` | facts these rest on | linked lists, for `BufferProofs` and `SchedulerProofs`; one lemma per function of the kernel, for `MessagesProofs` |

How state and actions correspond to the code:

* **Chat.** `free[r]`, `full[r]`, `mutex` are semaphores 0/2, 1/3 and 4; `cell`, `indexZ`,
  `indexO` are the words of the segments; `creator` and `stage` say who initialises the
  set and how far it has come. A program is a record: the semaphores it uses, the
  segment it attaches as the ring it writes, and its number of messages. The
  programs are otherwise the same text, so that one set of sender actions serves all
  six; `BurstPx` is the one whose segment differs from its semaphores. `Kill` ends a
  process and leaves everything as it is: that is a signal, and also the `exit(1)` of
  a failing call. The report says that `tx` and `spamtx` send ten messages; they send
  five, and so does the model.
* **Monitor.** `at[t]` is where a thread stands: outside, inside, having counted itself
  in (`yielding`), in `w.p()` (`blocked`), or in the `enter()` of `signal` (`reentering`).
* **MessageBuffer.** Messages are heap cells; a cell keeps its `next` when it is freed,
  and `New` may return any cell that is not live. The code of a method between two
  monitor calls is one action, which `OneToken` justifies. `staleTail` is a history
  variable that records when `push_pri` has linked behind `tail`.
* **Vsfs.** The bitmap and inode table are functions, data is counted in units of which
  `BLOCK` make a block. `todo` is the sequence of writes of the running command. The C
  library hands a write over at the next `fseek` or at the end, so that the writes
  reach the disk one by one and in order. What `cp` reads behind the data bitmap is
  some stretch of zero bytes of unknown length (`edge`). Its buffer is on the stack and
  not initialised: the start of it (`CLEAN` units) has never been used by the process and is
  zero, so that `strlen` finds the end of a shorter file; behind a longer one up to
  `MaxGarbage` units of something else may follow (`Sources`). A disk that `mkfs` did not
  finish has a zero superblock or none: the other commands find no inodes on it. What
  `cat`, `ls` and `fsinfo` print are the operators `Content`, `ls` and `fsinfo`, in which the
  properties are stated.
* **Scheduler.** `Nth` follows `p_nextready`. `switching` is the flag of `lock_sched`, and
  while it is set only the turns of the loop, `Skip` and `Pick`, are enabled. `sum`
  wraps around at `INT_MAX`. When a process blocks or wakes is up to it (`Messages` models
  what decides it), as is when the clock calls `sched`: the clock task is not in the
  repository.
* **Messages.** `proc` is the process table with the code's fields, `p_callerq` and the ready
  queues `rdy` as the sequences that their links spell. The functions of the kernel take a
  record of its state (`Kernel`) and give the next one (`Becomes`), so that `cause_sig` calls
  `inform`, which calls `mini_send`, which calls `ready`, and a `BOTH` receives on the state its
  send has left. Inside a kernel call (`mode` `kernel`) or a lock_ operation of a task
  (`switching`) an interrupt only joins the held queue and changes nothing that the call
  reads, which is why the call is one step and `Hold` comes after it. `UnholdTake` and
  `UnholdInterrupt` are the two halves of a turn of `unhold`, between which interrupts are
  enabled. Only `proc_ptr` runs, and who that is follows from the code's own priorities.
  `ReceiveRequest`, one of the `do_` actions (`Answers`) and `SendAnswer` are a turn of SYSTASK's
  loop; between them `m` holds a request, then a reply, and `inform` may come.
  `HearFS` and `TellFS` are the two meetings of MM and FS in `mm_init`; `get_work`, calls while MM
  is at `work`, `setreply` and `SendReply` are a turn of its loop. FS, the
  driver and the users are represented by the set `Calls` of what they ask of the
  kernel; that FS answers a user only while it waits for FS is its protocol (`MayCall`), and
  `told` is the part of a signal that MM has taken over. `lock_sched` turns the users'
  queue by any number of places: how many is what `Scheduler` models.

## Runs

| run | question | result |
|---|---|---|
| `chat_kill` | safety of Chat and what a death does | holds |
| `chat_live` | does Chat implement `PriorityChat`, is all shown | holds |
| `chat_burst` | do privileged messages go to the privileged ring | violated |
| `buffer_threads` | the monitor's accounts, the conditions, who sleeps, the list | holds |
| `buffer_fifo` | does the buffer implement `PriorityChat`, is all collected | holds with one privileged message |
| `buffer_lost` | is every message kept (capacity 3) | violated |
| `vsfs_kills` | names, contents and blocks over commands and kills | holds up to the two named exceptions |
| `vsfs_rm` | are contents kept without kills | violated |
| `sched_queue` | queue, loop and service of the scheduler | holds |
| `sched_share` | is time divided as asked | violated |
| `sched_lookup` | is a caller told its own group | violated |
| `ipc` | are messages, interrupts, requests and signals kept and counted, are the ready queues exact | holds |

The violated ones are disagreements between the code and its reports:

* `burst_pri.c:37` attaches `shmid` where it means `shmid_pri`.
* `push_pri` does not move `tail` when the last privileged message is the last message
  (`messagebuffer.cpp:78`); the next `push` cuts the list there (`:52`). The trace is
  `push_pri`, `push_pri`, `push` into an empty buffer without a `pop`: the list then holds the first
  privileged message and the normal one, the counter says three, and the second privileged
  message is neither in the list nor printed. The buffer does not stop for it: `NeverBothAsleep` holds
  of a list that has been cut, too.
* `rm.c:64` clears bits from the inode's index on instead of from the file's first block.
* `sum` in `sched` is never set back (`proc.c:459`): the divider works for the first 200
  turns only. With `sum` set back, `ShareKept` holds on the same instance.
* The lookups of `system.c:1250` and the others search too few slots.

No run compares the answers of `do_setscheduler` with the report, which allows 0 and 100 and has group B
answered with -1 (`Systemy_operacyjne.md:14`, `:56`): the code, and the model with it, refuses both
bounds with -3 and answers group B with -2 (`system.c:1296-1309`).

Where a property holds only outside such a case, the case is named in it by a
history variable (`staleTail` in `ListExact`, `misfreed` and `resurrected` in
`ContentsKeptUntilMisfreed`, `SpaceReported` and `UniqueNames`), so that everything else stays checked.

### Bounds

* *Chat*: rings of 2 cells wrap and fill with two messages per sender, and full, empty
  and wrapped rings of both classes occur together. `chat_kill` has one process of
  each kind in each role plus a second receiver, so that two receivers compete, and
  one kill; a second kill adds a second dead process in a service that has stopped
  or has not noticed the first.
* *MessageBuffer*: capacity 2 is reached, so producers wait; two consumers wait on an
  empty buffer; five producers' messages make the list pass through every
  combination of pointers several times. Cells are interchangeable
  (`CellSymmetry`, only in a run without liveness). `buffer_lost` has a capacity of 3: with 2 the
  buffer is full after two `push_pri`, the `push` has to wait for a `pop`, and what is lost is then
  the normal message, linked behind the freed cell that `tail` points to.
* *Vsfs*: three inodes, four blocks of two units; files inside a block, across a
  boundary and exactly at one, behind which up to two units of garbage make the file end in
  the same block or in one more; seven commands let inode and block numbers differ and
  blocks be reused; one kill at any write. `MaxCommands` and `MaxKills` are guards.
* *Scheduler*: three user slots (two in `sched_share`), `PERCENT` and `PERIOD` small but in
  the order of the code's 100 and 200 (a period is longer than what both groups can
  be picked), `INT_MAX` just above `PERIOD` in `sched_queue` so that `sum` wraps around
  again and again, and far above in `sched_share`. `MaxEvents` bounds everything except
  the calls of `sched`; `MaxPicks` bounds the history `given`.

* *Messages*: two user slots (INIT and one that is forked, killed and forked again), one
  task that stands for TTY and CLOCK (it drives, signals and calls `lock_sched`), which is enough for circles FS-driver and MM-FS, for two processes pending at
  once, and for a queue with several senders. Both signals of a process may be
  pending or with MM (`MaxPendcount`). Signals are interchangeable (`Alike`); stale
  values of `p_sendto`, `p_getfrom` and the source of a free `m`, which no code reads, are left
  out of the `View`.

### Fairness

* *Chat*: a process blocked in `semop` sleeps in the FIFO queue of the semaphore set, so
  that one which could proceed again and again does: strong fairness of each loop.
  Start-up, which never waits, has weak fairness. Nothing is assumed of `Kill`.
* *MessageBuffer*: weak fairness of each thread. `sem_wait` promises no order, but the
  loops are finite.
* *Scheduler*: weak fairness of the clock's call and of the loop. Events are bounded, so
  `Served` speaks of the time when the processes have settled. A process that blocks
  and wakes faster than the clock ticks is put in front each time and the code
  promises nothing to the others.
* *Vsfs*, *Messages*: only safety is stated. A signal may in fact wait for ever: `mini_rec`
  takes the callers of MM first, and no code bounds how many come.

## Proofs

The proofs hold for any finite number of processes or threads, any ring size or capacity
and any bounds; the assumptions are the named `ASSUME`s of the modules.

* **Chat** (`ChatProofs`). `ChatTyped` first. `MutexAccounting` is inductive together with the
  types because it says more than exclusion: nobody is inside before `stage` 6, and semaphore 4
  is 1 exactly when it is set and nobody is inside. `ChatTakeNeverBlocks` follows from it: only a
  process inside the critical section decreases `full`, so that what `GETVAL` said stays
  true. `ChatSlots` strengthens `SlotAccounting` by `NothingReady` (before stage 6
  of the creator the semaphore that counts readable cells is 0 in both rings) and counts reserving senders and freeing
  receivers as finite sets (lemmas `HoldersFinite`, `CountKept`, `EntryOutside`). The action
  property `DeathInsideFreezes` is a consequence of `MutexAccounting` and one case per action: the dead
  process is the one inside, so that everybody else is stopped in front of semaphore 4 or has nothing
  to do with the rings. `ChatRefinesPriorityChat` is the refinement, for any number of processes and
  deaths and a ring of any size. What a queue of `PriorityChat` is in the code is a stretch of the ring
  counted from two semaphores, so its invariant `RingInv` says where that stretch is: the write index is
  right behind the waiting cells (`Aligned`), a cell that is written and not yet counted lies there and
  holds its sender's message (`Written`), and a receiver that has turned to the normal ring has seen the
  other one empty, which still is so (`PriorityFirst`). Every step then posts, shows or leaves both
  queues alone (`PostStep`, `ShowStep`, `Still`); the arithmetic modulo `MAX` is in lemmas of its own
  (`CellBehind`, `RingBounds`). The hypothesis `NoBurstPx` excludes `burstpx`, whose messages go to
  the segment of the other ring; that is a finding and not a gap of the proof.
* **Monitor** (`MonitorProofs`). `OneToken` is inductive with the type invariant and the
  accounts of the waiters: a signal needs a counted waiter, and the count says that
  there is one. `AllWaitersCounted` and `HandOverNeverLost` for every client.
* **Linked lists** (`ListLemmas`). A list is a row of cells that `next` links from its head to its
  end (`Linked`), none twice (`Distinct`). `InsertCell`, `CutCell` and `RemoveCell` say what the
  assignments of pointers in `push`, `push_pri`, `pop`, `ready`, `unready` and `sched` make of such a row, and
  `WalkOfList` that following the pointers, as the properties do with a recursive function, visits
  it. What the function is at `k` is found in the well-founded order of finite sets instead of by
  an induction over `k`.
* **MessageBuffer** (`BufferProofs`). `BufferUsesMonitor`: every step of the threads is a
  step of the monitor or leaves it alone, so that the theorems on `MonitorSpec` carry
  over (`BufferToken`, `BufferWaiters`, `BufferHandOver`) without being proved again.
  `BufferConditionHolds` is the reason why testing the condition with `if` is
  enough: its invariant `PromiseKept` says that a condition holds from the signal to
  the return of `wait`, because the token is in `w` all the while and nobody enters.
  `BufferNoMissedSignal` is about the moment in which a signaller has handed the monitor over
  and the others wait on: that somebody is on his way is not inductive, so `OneForConsumer` and
  `OneForProducer` say that then there is exactly one message, or one free place, and who it is for.
  `BufferNeverBothAsleep` follows from these two: whoever goes to sleep is alone inside, so that nobody is on
  his way, and sees the buffer empty or full, which the sleepers of the other kind do not sleep in.
  That the two tests exclude each other although one reads `head` and the other the counter is
  `EmptyHasRoom`; it holds of a cut list as well, because only `pop` empties the list and `pop` counts down.
  `BufferListExact` rests on `ListKept`: a row of live cells that nobody is about to push, as long as
  the counter says, with the privileged ones in front and the two tails at their places; once `staleTail`
  is set, `ListKept` still says that the row is no longer than the counter, and that is why
  `pop` never follows `NULL` and `BufferTypeCorrect` holds of the defective code too. The cells of the
  heap are finitely many (`BufferAssumption`).

  `BufferRefinesPriorityChat` is the refinement, under the condition `[]~staleTail`: a run in which a
  push_pri goes behind `tail` loses messages (run `buffer_lost`), and this is the only thing that can go
  wrong. A queue of `PriorityChat` is in the code the part of the row up to `pri_tail`, or behind it (`WaitingExact`;
  `NthOfInterval` says that the j-th message of a class is the j-th of its part). The lemmas about
  `ListKept` say for every action what it makes of the row (`Popped`, `Pushed`, `PushedPri`,
  `Stays`), and `PopQueues`, `PushQueues` and `PushPriQueues` what that is in the two queues:
  one loses its first text or gains a last one, the other is what it was. That a consumer finds a message and
  a producer room is `ConditionHolds`. `BufferInOrder` has no condition on the run: with one
  privileged message at most, as in run `buffer_fifo`, `NeverStale` is an invariant. `Waiting` selects the messages
  of a class by counting them and not with `SelectSeq`, which the prover cannot expand.

* **Vsfs** (`VsfsProofs`). `NamesUnique` is `UniqueNames` for any names and files of the host, a
  disk of any size and any number of commands and kills. The property speaks of the time between two commands,
  so its invariant (`NamesInv`) speaks of the writes that are left: at most one goes to the
  inode table (`OneNode`), an inode is occupied before it is written (`NodeFollows`), the name to be
  written belongs to no other occupied inode (`NewName`), and the names of the inodes that will not be
  written differ (`Settled`). `Typed` carries the types that this rests on. Every command is reduced to one of two
  shapes, `Creates` (touch, cp) and `Harmless` (mkfs, rmfs, rm, load), before the invariant is proved of
  it. `MinNat` (the first free inode exists) uses the well-foundedness of finite subsets, as
  induction over the numbers is out of reach.

  `VsfsTypes`, `VsfsKeepsContents` and `VsfsReportsSpace` rest on a second invariant, about the disk
  together with the writes that are left. `DiskInv`: the writes have their types (`DiskTyped`), nothing is made
  before what it needs and the promise comes last (`Ordered`, `Ready`), and, until a block is
  misfreed or an inode resurrected, the files have no block in common (`Apart`) and their blocks are
  marked (`Marked`), also together with the file about to be created (`Fitted`, `Marking`: its blocks are marked or
  the marks are still to be written, before its inode). This is why a kill in the middle of `cp` harms no
  other file: the marks come first. `KeptInv`: nothing promised is going to be freed or formatted
  (`Clean`), every promise is kept (`Kept`), and the promise that a command is about to make will be
  (`Due`: every unit of the file is written or still to be). The commands are reduced to `Starts` (one creates a
  file) and `StartsPlain`, the writes to one case per area. The sum of `fsinfo` is a recursion over a set;
  it is unfolded at one set at a time, and that it is at most `BLOCK` times the number of blocks follows from the
  smallest set for which it would not be.

* **Scheduler** (`SchedulerProofs`). `SchedulerTypeCorrect` and `SchedulerQueueExact` share one invariant:
  some row of slots without repetition is linked from `rdy_head`, holds the ready processes and ends
  at `rdy_tail` (`Spells`), and while the loop of `sched` turns it is not empty (`QueueKept`). The turn
  needs the last part: it reads through `rdy_head`. A child of `fork` gets a copy of its parent's
  `p_nextready`, which is harmless because the slot was on no row.
* **Messages** (`KernelLemmas`, `MessagesProofs`). The twelve invariants that `ipc` checks are proved
  from one, `IInv`, for any tasks, any number of user slots and any calls that
  `CallAssumption` allows. The lemmas are about one function of the kernel each, on any state `K`:
  what it keeps of the invariant, and what of the rest it leaves alone, so that the composition
  (`CallStep`, `SystemStep`, ...) follows the calls of the code. The parts, and why each is needed:
  * `EntriesSound`: no entry waits beside a sender or an interrupt that it accepts. For a process that sends
    and receives in one this also says that it sends to the one it waits for (`p_getfrom = p_sendto`): when
    its message is taken and it waits on, nobody in its queue can be that one, for that one is
    running. HARDWARE has no flags, MM never receives from HARDWARE alone, and a process that sends to
    SYSTASK is a server that waits for the answer.
  * `SendersExact` and `QueuesExact`: the queues hold exactly the senders and exactly the ready.
  * `SignalsKept`: the flags of each entry agree with its signals, and `sig_procs` counts the
    pending ones. That `p_pendcount` is the number of signals pending or with MM it says of living users only.
  * `MMHears`: MM never waits for ANY or HARDWARE beside a pending process (for an answer of SYSTASK or FS it may). `cause_sig` raises `sig_procs` when
    MM does not, and `inform` comes at once when it does.
  * `Highest`: `proc_ptr` is the first of the first queue. `ready` sets it for a task
    only; for the others it holds because the caller of the kernel, which is ahead of them,
    is still ready, and the lemmas carry that along (`RunsInFront`, `LeadsTasks`, `TasksStay`).
  * `RequestSound`: while SYSTASK works it stays the first of the tasks, and the server it works for waits
    for SYSTASK *and nobody else*. This is why `cause_sig`, called from `do_kill` or `do_exec`, does not let `inform`
    write over a request of MM: MM then does not receive from anybody. When FS asks, MM may be free; none
    of FS's calls signals, except `do_kill`, which has read the request by then.
  * `NoCircle`: in any set of processes one sends to nobody of the set. This is `NoSenderCycle`
    without a walk along `p_sendto`: `CircleRefused` shows that the walk of `mini_send` over
    as many steps as there are processes finds the caller if a set without an exit would arise (a walk
    that stays among finitely many repeats itself, and what it has visited is a smaller set without an exit), and
    `CircleSame` that no other function lets anybody start to send. Only this part needs `ELOCKED`: the
    others hold without it. It takes finitely many tasks (`ProcAssumption`).
  * `InterruptKept` and `MMInv` (the replies that MM still owes go to users that wait for it).

  `CallAssumption` says what the code outside the repository (drivers, FS, users) is taken to ask of the
  kernel: nobody sends to itself; tasks and servers ask nothing of users; MM and whoever calls
  SYSTASK send and receive in one (`sendrec`, as `_taskcall` does).

Only model-checked: liveness, which is out of the prover's reach with its fairness (`AllShown` and
`SurvivorsServed` of `Chat`, `AllCollected` of `MessageBuffer`, `SpinEnds` and `Served` of
`Scheduler`). Every safety and action property that a passing run checks is proved.

## Not modelled

* Printing, times and sleeps; the times that `do_getusagetime` returns (its lookup is modelled).
* A command of `soi6/` on an empty `vsfs`, which `mkfs` leaves when it is killed as it opens
  the file, reads an uninitialised superblock; it is modelled like the one of zeros, which
  has no inodes.
* Failing `shmget`, `semget`, `fopen` and allocation: the program ends before it changes anything.
* `cp` of a file that does not exist (`cp.c:58` tests the wrong pointer and crashes
  before any write); the part of a file of the host beyond the size of the data region, which
  `cp` leaves out; binary files of the host, which `cp` cuts at their first NUL (`strlen`, `cp.c:63`):
  the units of a file in the model are bytes other than NUL.
* Contents of messages, but for the state of SYSTASK's `m`; bad message pointers (`EFAULT`).
* The swapping of MM (`ONSWAP`), which only delays a reply; SYSSIGNON of `do_sysctl`, by which a user becomes a server: what MM
  does for a server that signals itself or exits is not in the repository.
* `interrupt` called from the task level (`k_reenter == -1`, `proc.c:76`), whose callers are not in the
  repository: `Hold` has the other two reasons to hold an interrupt. The state it would leave, an interrupt
  held outside a kernel call, is one that a `Hold` before `SwitchDone` reaches.
* What a disk is like after a kill between the bit of an inode and the inode (`resurrected`): the
  steps are modelled, but the properties of the disk are stated up to it.
* Calls of SYSTASK that move memory or set registers (`OtherCall` stands for them where the
  message passing is concerned); the call tables of MM and FS; `soi0`, `soi1` and `soi5`.
* The chat after a death has no action for a restart: a program that is started
  again is a new process, one of those that are still to start.

## Plan

Done, in this order: `PriorityChat`, `Chat`, `Monitor`, `MessageBuffer`, `Vsfs`, `Scheduler`,
`Messages`, and the proofs of the first four.

Then `Messages` was made a composition of the kernel with the loops of SYSTASK and MM, the start of MM and
with the three ready queues, `ls`, `fsinfo` and `do_getusagetime` were added, and `UniqueNames` was proved.

After that the proofs of `Scheduler`, of the list of `MessageBuffer`, and of the whole kernel of `Messages` were
added. For them the table of tasks starts in the order in which `main` makes it ready, and tasks and
cells are said to be finitely many.

Then `VsfsTypes`, `VsfsKeepsContents` and `VsfsReportsSpace`, and the refinement of `PriorityChat` by
`Chat` and by `MessageBuffer`, were proved. Later `NeverBothAsleep` was added, checked and proved.

Next: what `PriorityChat` itself promises (every message handed over waits or has been shown, once, and
those of one sender in their order), proved of the abstraction and carried over to both services
by their refinements.
