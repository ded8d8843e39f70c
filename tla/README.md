# Models, model checks and proofs for mylinuxprog

The repository accompanies a course on programming Linux kernel modules: the
book in `src/BOOK_PRACTIS_245.md` and, under `src/Tasks/`, the modules it
discusses with their test programs and recorded sessions (`*.hist`). There is no
single program; there are more than a hundred small drivers, each complete in
itself. What they share is the environment that makes them hard: handlers that
the kernel calls from several processes, that may sleep in the middle, that
mostly hold no lock, and whose module may be loaded and unloaded in between.

This directory holds TLA+ modules for these drivers, TLC configurations for
small instances of them, and TLAPS proofs. All paths below `src/Tasks/` are given
relative to that directory.

| module | what it is |
|---|---|
| `ByteFifo` | what /dev/queue promises: one stream of bytes |
| `BlockQueue`, `MCBlockQueue` | `+TASKS/queue/queuel.c`, the list of blocks behind /dev/queue; with the refinement mapping to ByteFifo |
| `PollDev` | `dev/poll.le.3.14/poll.c`: blocking reads, poll and wake-ups |
| `Dubfl`, `MCDubfl` | `blkdev/dubfl/dubfl.c`, the RAM disk with exchangeable file images |
| `TextNodes`, `MCTextNodes` | 37 kinds of files of /dev, /proc and /sys and the programs that use them |
| `Threads` | the modules of `thread/`, `+TASKS/synch` and `+TASKS/smp`: threads, their ends and their locks |
| `Frames`, `MCFrames` | the 27 network modules: frames, interfaces, statistics |
| `CallTable`, `MCCallTable` | entry 223 of the system call table, who competes for it, and the plugin loader behind it |
| `DriverSteps` | the vocabulary of the scripts: what module_init and module_exit take and give back |
| `Lifecycle` | insmod and rmmod of one driver, whatever its script, among others that enter it |
| `CharDrivers`, `BlockDrivers`, `NetDrivers`, `WorkDrivers`, `NodeDrivers`, `ServiceDrivers` | the scripts of 104 drivers |
| `Orderly` | when a script shows by itself that its driver owes nothing |
| `Audit` | what one walk through a script, without callers, shows of its driver |
| `Drivers` | all of them through Lifecycle, and what each owes the kernel |
| `BlockQueueProofs`, `PollDevProofs`, `DubflProofs`, `LifecycleProofs`, `CallTableProofs`, `ThreadsProofs`, `FramesProofs`, `TextNodesProofs` | theorems |

Run from this directory, for instance

    tlc -config MCBlockQueue.cfg MCBlockQueue.tla
    tlc -config MCThreads.cfg Threads.tla
    tlapm FramesProofs.tla

`PROJECT.json` lists every run with its module and configuration, the source
lines each definition translates, a mutation of the code for every property
that the property detects, the findings, the hazards and the theorems. The
definitions marked "Mutant of" in the modules belong to that list; nothing else
uses them.

## Inventory

State, operations, interaction and correctness of each part. "Hard" names what
a test would hardly reach.

### Modelled

| component | state and operations | what is hard | what makes it correct |
|---|---|---|---|
| /dev/queue, block list (`+TASKS/queue/queuel.c`, `common.c`) | a list of `vmalloc`ed blocks with a write and a read position each; read, write, load, unload | either handler may sleep in a copy while the other changes the block it holds, erases blocks or appends them; nothing is locked | bytes come out once, in their order; no handler uses an erased block; end of file and short reads mean that nothing is left |
| /dev/queue, static buffer (`+TASKS/queue/queues.c`) | one message; read whole, write | the length is measured before a copy that may sleep | a read returns one whole message |
| Open policies (`dev/mopen`) | mode 0 shared, 1 exclusive, 2 a private buffer; open, read, write, release | the mark `odd` of the end of file is shared by all open files (in mode 2 only by those of `mmopen.0.c`); the length is measured twice | one session in mode 1, private data in mode 2, each reader sees text, then end |
| Open counter (`dev/cdev/fixdev.c`, `dyndev.c`, `dev/dev.h`) | a counter of openings | test and increment are two steps under no lock | the text read is right whatever the counter says |
| Blocking reads and poll (`dev/poll.le.3.14`) | one buffer, one offset, a wait queue; read (blocking or not), poll, write | the test for data and the sleep are separate; the offset is loaded, used and stored again; signals end sleeps | a read returns bytes of the message only; after the end of file nothing is readable until the next write; no reader sleeps on unread data |
| RAM disk with a file image (`blkdev/dubfl`) | the bound file, its image, its size, the capacity the kernel knows; insmod (loads), rmmod (saves), ioctls, requests | requests overtake the ioctls wherever they sleep; failed loads; a save during writes | pointers and size belong together, what counts as saved is in the file, rmmod loses nothing |
| Plugin loader (`load_module/`) | the slave module loaded for the length of one call | all working data are static and shared by concurrent calls; error returns leave the slave loaded | load and unload are paired; the address called is that of the slave that is there |
| Virtual interfaces (`network/virt*`) | a hook on a parent interface, an address, statistics | the hook may see a frame when ifconfig moves; several processors count; frames are named after they were given away | a frame goes to the right interface and is freed once |
| Network devices, protocols (`network/net`, `netproto`) | registered devices and handlers | unwinding of a partial registration; a frame is read after it was freed | references taken once and given back once |
| Interrupt counters (`+TASKS/irq`) | a counter fed by handler, tasklet or work queue; read through /proc or /sys | the work queue is drained while interrupts fill it; a static mark of the end of file | nothing of the module runs after it is freed; each reader sees value, then end |
| Deferred work (`IRQ/`) | tasklets, work queues | unload, or a failed load, with work pending | work done before the module goes |
| Kernel threads (`thread/`, `+TASKS/smp`), exercises (`+TASKS/synch`) | threads, completions, a counter, a flag; mutex, spin lock, semaphore | threads that outlive the data they use; lines behind the last announcement; a thread stopped before it ran; sleeping with a spin lock | nobody is left in freed code; what threads were given outlives them; every turn is counted; init ends |

### Partly modelled

| component | what is | what is not, and why |
|---|---|---|
| Message channels (`+TASKS/confm/confm.c`) | load with good and bad configurations, the opens that come in between, unload (Drivers) | reads and writes: those of `queuel.c` on a list given as a parameter, which BlockQueue has; several channels side by side would be several of its instances |
| RAM disk, request modes (`blkdev/block_mod.*`) | load with every step failing, unload (Drivers) | the three ways of serving requests copy between a request and memory under the queue's lock and leave no other state |
| System call table (`sys_call_table/`) | the four modules that patch entry 223 (CallTable), load and unload of `mod_wrchg` (Drivers) | the modules that print the table |
| Shared counter (`+TASKS/asu`) | the nodes of `modpasu.c` (TextNodes), load and unload (Drivers) | the clients; that increments of two get lost is plain from the code |
| Signals (`signal/`) | load and unload (Drivers) | whether the remembered task still lives is the kernel's state |
| Pools, slabs, lists (`memory/`) | what load takes and unload gives back, every allocation failing (Drivers) | nobody else uses the objects |
| /proc and /sys (`+TASKS/lproc`, `sys`, `proc/`) | reads and writes of the nodes (TextNodes), load and unload (Drivers) | `proc/own_proc`'s making of a path of directories |
| Older copies (`!previous/`, `*.old`) | those of the network, proc, cdev, ioctl and block drivers have definitions of their own beside the present ones | what is left out there |

### Not modelled

| component | why |
|---|---|
| Largest allocation (`+TASKS/memmax`) | a bisection that keeps no state and prints its result; its overflow of the upper limit is listed as a hazard |
| fuse | its state is FUSE's and the backing file system's; the large files are bundled headers and library examples |
| USB, PCI, DMA requests | they print what the bus reports (load and unload of the PCI and DMA drivers are in Drivers) |
| time, udev | measure clocks and print events; there is nothing a result could contradict |
| first modules, parameters, exports, debugging, files | straight-line code at load time (those that hold something are in Drivers) |

## BlockQueue

| model | code |
|---|---|
| `queue`, `mem` | the `LIST_HEAD` (14) as a sequence of addresses; `data_t` at each |
| `r`, `w` | the locals of `queue_read` and `queue_write`: program counter, bytes still to move, block, length of the copy in progress |
| `loaded`, `oops` | module use; a writer that died in `new()` pins the module |
| `out` | bytes the last step copied to user space |
| `ReadEof`, `ReadStart` | lines 45-56, up to `copy_to_user` |
| `ReadCopied`, `ReadFault` | lines 56-72: what follows the copy, up to the next one |
| `WriteEntry`, `NewBlock`, `NewFails` | lines 78-84 and `new()` (16-22) |
| `WriteCopied`, `WriteFault` | lines 84-95 |

A step runs from one point where the handler may sleep to the next: the copies
and `vmalloc` (one processor and no kernel preemption). One reader and one
writer, as in the sessions of `queue.hist`, which never open the device twice
for the same direction.

**Run `queue`** (SIZE 2, 3 addresses, 2 byte values, calls of at most 3 bytes;
428024 states, no symmetry because the run has a liveness property). A call of 3
bytes crosses a block boundary whatever the positions are, 3 addresses let a
list grow to a middle block and `vmalloc` fail, and 2 byte values show a swap or
duplication. Checked:

* `ListInv`, `EndsInv`: every block but the last is full, only the head has been
  read from; the head is not spent, the tail has room or is just being followed.
* `HeldBlocksLive`, `CopyInBlock`: back from a sleep, a handler still holds the
  head or the tail, and the length it computed still fits.
* `EofOnlyWhenDrained`, `ShortReadOnlyWhenDrained`: see the theorems.
* `FifoSpec`: BlockQueue implements `ByteFifo!Spec`, where the unread bytes of
  the blocks are the FIFO. Faulting copies and a dying writer lose only bytes
  not yet handed over; uninitialised memory reaches no reader.
* `CallsReturn`. Fairness: weak fairness of the reader's and of the writer's
  steps, as the scheduler runs a started handler and copies and `vmalloc`
  return; a fault is an alternative nothing forces. Both loops end because every
  turn moves bytes (`EndsInv`) and the counts only fall. A read of 0 bytes on
  data copies nothing and leaves by line 70.

Left out: after a writer died in `new()`, no further writer is followed (it
would find a full tail, and the reader may erase it under the writer's copy); two
writers or two readers; interleaving between single memory accesses (line 92
reads `wpos` again after line 89 made it visible); `vmalloc` failing before the
addresses are used up, `misc_register` failing, and `len()`, which nothing calls.

## PollDev

| model | code |
|---|---|
| `roff`, `buf` | `struct private` (11-19); `buf` has one index more than the array, to see a write behind it |
| `rd[p]`, `wr[w]` | program counter and locals of each process's call |
| `res`, `hist` | history: result of a reader's last call; end of file met, message not yet begun, who held an offset when it was rewound (`torn`), whom a wake-up found on its way to sleep (`missed`) |
| `ReadTest`, `ReadSleep` | lines 23-28; on the wait queue only after `ReadSleep` |
| `ReadReload`, `ReadEof`, `ReadMeasure`, `ReadCopied`, `ReadFault` | lines 29-39 |
| `WriteCopy` ... `WriteWake` | lines 43-49, one action per statement |
| `PollCall`, `PollAnswer` | lines 54-58; the pause is uninterruptible, a wake-up does not end it |
| `Signal` | a signal ends `interruptible_sleep_on`, line 27 |

Text is three characters: a letter, a newline, NUL. The length arithmetic of
line 35 is that of C: a negative difference compares as a huge unsigned number.
The offset is followed up to `MaxRoff`, two past everything the tests tell apart.

Two constants choose the environment. With `Preempt` the calls of different
processes overlap step by step (several processors, or copies that sleep);
without it a call runs until it returns or sleeps. `Signals` lets a sleep be
interrupted.

* **`poll`** (1 reader, 2 writers, messages of 2, calls of up to 3 bytes, neither
  overlap nor signals; 159164 states). Writes fit the buffer with the added
  newline (`WritesStayInBuffer`), reads stay within the message
  (`ReadsOnlyMessage`), the end of file lasts until the next write (`EofLasts`).
  Lengths 0 to 3 with LEN_MSG 2 cover the empty write, the one that is cut, and
  those with and without a newline of their own. The empty write is where
  line 46 looks at `buf[-1]`, a byte of `roff` that is zero.
* **`poll_live`** (1 reader, 1 writer, messages of 1, overlapping, with signals;
  140102 states): what is left of the promises when calls overlap line by line. A
  wake-up is lost in one way only, by a reader that has tested and does not sleep yet
  when it comes (`OnlyMissedWakeUps`); signals, offsets that move and messages
  being replaced add no other. A message is begun in the middle in one way only: a
  read held the old offset as the write rewound, and stored its own afterwards
  (`OnlyTornReadsMoveIt`). And although a wake-up can be lost, the reader comes
  back if writes keep being completed (`LaterWriteWakes`). Fairness: weak, per
  process, for calls that have begun and do not sleep; that writes recur is the
  premise of the property.
* **`poll_lost_wakeup`** (overlapping, without signals) finds that the way is taken;
  `SleepsOnlyWithoutData` is violated: the reader finds no data; a write completes
  and wakes nobody; the reader goes to sleep on a full buffer. The book (8057)
  states the promise without the condition.

The conditions of run `poll` are needed; with the constants changed by hand TLC
finds, in words:

* overlap: the reader loads the offset, a write replaces the message by a shorter
  one, the reader copies from behind its end (`ReadsOnlyMessage`), or stores an old
  offset after the write has set it to 0 (what `OnlyTornReadsMoveIt` describes);
* two writers overlapping: both find no newline, both append one; the second
  terminator lies behind the array (`WritesStayInBuffer`);
* two readers: one write wakes both; the first reads all, then the end of file;
  the second finds the offset past the end and copies `count` bytes from
  there (`ReadsOnlyMessage`); and, overlapping, one moves the offset back while the
  other sleeps (`OnlyMissedWakeUps`);
* signals: the interrupted reader goes on as if there were data.

## Dubfl

| model | code |
|---|---|
| `dev` | `struct own_disk`: `fname`, `f`, `ssize` (with `bsize`), `data`; FREED is a pointer left dangling |
| `capacity` | what `set_capacity` told the kernel (213) |
| `disk` | the files, as sequences of sectors; a file shorter than a sector has none |
| `op` | the insmod, rmmod or ioctl in progress and how far it is |
| `mod`, `opened` | module in, out, or dead of an oops; the disk is open |
| `unsaved` | history: sectors written since they were loaded or saved |
| `blk_init`, `Setup` | 228-240, 203-226 |
| `IoctlLoad`, `LoadNotFound`, `LoadOpen`, `LoadAlloc`, `LoadNoMem`, `LoadFill` | `load_file` 115-157, one `vfs_read` a step |
| `IoctlSave`, `blk_exit`, `SaveStep` | `save_file` 89-105, one `vfs_write` a step |
| `IoctlUnlink`, `UnlinkFree`, `UnlinkClear` | `unlink_file` 107-113 |
| `RequestWrite`, `RequestDead` | `my_request` and `transfer`, 52-87 |

Operations are one at a time, as `fchange.c` issues them; requests come between
their steps, because opening, closing, reading and writing files and `vmalloc`
sleep. Reads are like writes without effect and appear only where they go wrong.
GET_INFO changes nothing.

* **`dubfl`** (files of 1, 2 and no sectors, one name that is not found, two sector
  values; 6320 states). `MediumWhole`: outside a change of medium, either file,
  image and size belong together or all are empty, after failed loads too, and
  only a name that cannot be opened can be out of step with the bound file.
  `CleanSectorsInFile`: a sector not written since it was loaded or saved is in
  the file, however requests and the save loop interleave. `OnlySwapKills`: a
  request meets a missing image only while a medium is being replaced or
  detached. `UnloadSavesAll`: rmmod frees the image only when all of it is in the
  file. `OperationsEnd`: insmod, rmmod and the ioctls return. Fairness: weak for
  the operation in progress, given that files can be read and written; the loops
  at 97 and 148 retry a failing sector for ever. Two sizes show growth and
  shrinkage of the medium; the third makes `vmalloc(0)` fail. Deadlock is not
  checked because after an oops nothing goes on.
* **`dubfl_unload`**: after a detach or an insmod that did not find its file, rmmod
  calls `save_file` with a NULL file (`UnloadSurvives`).

Three more disagreements have no run: loading another file changes `ssize` but not
the capacity, and `media_change` is never set; the book (10411-10413) says
changes are saved when the device is closed, whereas `my_release` only logs and
rmmod or the ioctl saves; and GET_INFO shows the name of a file whose load
failed, as line 119 stores it before line 123 opens it.

Left out: overlapping ioctls (no lock keeps them apart), I/O errors, getgeo. That
the queue stays when `alloc_disk` fails (211) is in Drivers.

## TextNodes

Thirty-seven drivers answer reads and writes of one text or number. What differs
is a record per driver, one set of actions follows the records:

| field | code it stands for |
|---|---|
| `read` | how the handler finds the end of file: by the offset (`whole`, `once`, `window`), by a mark it toggles (`marked`, `counted`), by the page sysfs holds (`page`), by `read_proc`'s protocol (`refill`, `fill once`), an ioctl, an error always |
| `write` | a string copied and then ended, a block blotted out first, a number parsed, none |
| `opens` | mmopen's flag under the misc mutex, fixdev's counter under nothing |
| `bounded`, `counts`, `ownText`, `ownMark` | whether a write looks at the buffer's size; whether interrupts change the number; what the open file has of its own |

| model | code |
|---|---|
| `text`, `odd`, `opened` | the static buffer, the static mark, the counter of openings |
| `file[c]` | an open file: offset, private buffer and mark, sysfs page, the call in progress; and, as history, what its program has got, what it should get, whether it was alone, whether it was handed more than it has room for |
| `Open`, `OpenLocked`, `OpenTested`, `OpenCounted`, `Close` | open and release; fixdev's in two steps |
| `Read`, `Copy`, `Return` | the test; the copy that may sleep; the second measuring of mopen |
| `Write`, `WriteEnds`, `WriteNumber`, `RefuseNumber`, `Interrupt` | the copy in; the terminator; numbers |
| `cat`, `pmopen`, `rtest`, ... | the programs of the repository as environment: how often they write and read, and how much |

**Run `nodes`** (every driver; two open files, texts of at most 2 bytes, reads of
1 and 3, writes of 0 and 3 bytes, a page of 2, at most 3 reads a program; 694499
states). `CatGetsText`: where nobody writes meanwhile, a program that reads to the end
gets the text once and whole, and never more than it has asked for. Where the mark is shared (`mopen` mode 0 and 1,
`mmopen.0.c`, `irqcntp.c`, `irqcntpv.c`) this needs that sessions keep apart and
that each read to the end: both conditions stand in the property, and without
either it fails. Through `read_proc` whole means one page (`Shown`): the handler copies a
text of any length and returns that length, the kernel hands out what lies in the
page (`variants.hist`, 403-405: 4097 bytes written, 4096 read). Three exceptions:
the drivers of the groups `marked`, `counted` and `once` never look at the size of
a read (`Careless`), and once one of them has written past the end of a program's
buffer (`over`) nothing more is said of that program, so `rtest`, which reads single
bytes, gets nothing promised from them; the second variant of `read_proc` fills
its page for the first read only; and the ioctl copies more than the string.
`StringEnds`: a driver that limits a write never leaves its buffer without a NUL
within it, in the middle of two writes at once either. The drivers that do not
look at the size (`xxx`, `xxm`, `sysdat`: sysfs gives at most a page) are outside
it.
Bounds: a read of 1 cuts every text, one of 3 none; a write of 3 is cut, or, to
the nodes of `variants.le.3.9`, gives a text longer than the page; one of 0 meets `buf[-1]`; three reads are two pieces and the end of file. Two files are
what a race needs; the code does not count further. They are alike, so symmetry
is sound (no liveness property). Deadlock is not checked: fixdev's counter can
stay busy for ever when an increment uses the value that was tested.

The line feed that some drivers add and others strip is left out, and characters
are not told apart but by who wrote them and where. What the copy of a long text, or a
careless read, does to the memory behind the page or the program's buffer is not
followed.

## Threads

| model | code |
|---|---|
| `prog` | the module: how it starts its threads, their turns, how the end is arranged, the lock |
| `main` | the init function: `NoMemory`, `Start` (kthread_run, whose error nobody tests), `Sleep`, `Tell` and `Join` (kthread_stop), `Wait` (completions), `Count` (pamixad's loop on a counter), `Doze` (pamixab's and mod_thr1's fixed pauses) |
| `thread[i]` | `Begin` (where a chain starts the next), `Test`, `Acquire`, `Work`, `Rest`, `Leave` (stops or awaits its child), `Announce` (complete(), the counter), `Exit` (what follows: mlock and mod_for build a message in static memory, all return through the module's text) |
| `InText`, `Fault` | init has returned -1, text and data are freed, and a thread is still in the module: it may carry on, or fault at any line |
| `queue`, `locked` | mutex, spin lock or semaphore with its waiters in order; mlock's plain counter |
| `cpus`, `CpuFree` | the kernel is not preempted: who waits in a loop keeps a processor |

**Run `threads`** (14 modules, each on 1 to 3 processors; 3 threads, 2 turns of
mlock; 34778 states). `NobodyLeftBehind`: a module that uses kthread_stop is freed
only when its threads, and those they started, have left its code. The other modules
keep no such promise. After `complete` or `atomic_inc` a thread has lines to run
(mlock.c:61, mod_for.c:18, mod_thr2.c:12, thr1.c:13, thr2.c:13, pamixad.c:24-27)
while init goes on and returns -1; pamixab and mod_thr1 wait for a time and no
event. In all of them threads can be in freed text, which the model has as
`Fault`. `HandedMemoryLives` is what completions and the counter do promise: the
vector, the static completions and those on the stack of init or of another
thread are there until the thread that was given them announces its end.
`CountedAll`: the plain counter of mlock, read before the sleep and stored after,
misses no turn. `InitEnds`: init
leaves, except when a thread could not be started (its error pointer is
dereferenced) or those who wait in a loop fill the processors: the thread that
holds pamixx's spin lock sleeps, so with as many processors as waiters nothing
moves. Fairness: weak for init and for each thread, what a scheduler gives to
those it can run; fair queues are modelled as such. Three threads are a chain
with a middle, and a lock with a waiter behind a waiter. Deadlock is not checked
because the end of init is the end.

## Frames

| model | code |
|---|---|
| `net` | the module: where it hooks in (`rx_handler`, protocol, tap), which frames it takes, whether open looks the address up, what becomes of a frame to send, whether it counts, whether it looks at the frame afterwards |
| `state`, `address`, `child_ip` | ifconfig's up and down; the interface's address; what `open` remembered of it (a list that may be empty: it dies) |
| `frame[f]` | one frame: its kind, its device, the handlers still to come, its references |
| `Arrive`, `Handle`, `Count`, `Pass`, `Deliver`, `Drop` | the receive path with taps, rx_handlers and protocols as the kernel calls them; the counter is loaded and stored in two steps |
| `Send`, `Sent`, `LookBack` | the transmit functions, the parent that frees the frame when it likes, and the module that then names its device |
| `SetAddress`, `Open`, `Stop` | ifconfig, at any time |

**Run `frames`** (27 modules; 2 frames under way on two processors, 2 addresses;
1905686 states). `FreedOnce`: references come out even on every sequence of
handlers, and freed memory is read in two ways only: virt names the device of a
frame the parent already has, and a tap that is the last to get a frame reads its
length after `kfree_skb`. `RightInterface`: the stack gets a frame from the child
exactly when it is the child's, unless ifconfig moved meanwhile: an address set
while the interface is up is never learnt. `StatisticsAddUp`: what is sent is
counted exactly; what is received never too often, and exactly while no two
processors count at once. `MaxFrames` (3) bounds what is counted, in the guards of
`Arrive` and `Send`. Frames are alike and so are addresses, hence the symmetry.
Two frames are one race of the counters; one address is the interface's, the
other somebody else's or the next one. Deadlock is not checked: an open without an
address dies with the lock of all interfaces held.

## CallTable

| model | code |
|---|---|
| `slot`, `mods` | `sys_call_table[223]`; `old_sys_addr` of add-sys and of plugin master |
| `Save`, `Patch`, `Unpatch`, `SymbolMissing` | their init (tested, saved, and written later) and exit functions |
| `HiddenTests`, `HiddenPatches`, `RestoreFrees`, `RestorePatches` | `hidden.c` and `restore.c`, which do their work in init and refuse to stay |
| `static` | `buf_msg`, `mod_file`, `par1`, `faddr`: the data all calls share |
| `call[c]` | a process in the call: `CopyText`, `Choose`, `ReadFile`, `Load`, `Find`, `Run`, `Unload` and their failures |
| `slave` | the slave module that is loaded; all export one name, so there is one at most |

**Run `calltable`** (two callers, one block of kmalloc, three kinds of texts;
1235317 states; callers are alike). `SlotIsLive`: however the loads and unloads
overlap, the entry names code that is there: each module patches only an empty
entry, so each puts back the same. Only restore has it for a moment name memory it
has freed. `OneInside`: the exported name is the lock: one call is between load and
unload, and runs the function of the slave that is there, though others
overwrite its text. `OwnTranslation`, `TranslatedUnloads`: a call that no other
overlapped returns the value of its own text and unloads its slave. Three texts:
one that translates, one negative as an int, one of no base. rmmod of plugin
master under a call ends the caller; the entry lives on.

**Run `calltable_left`**: the error returns (master.c:102) leave the slave loaded and
every later call fails, whereas the book (35244) says the plug-in is unloaded at
once (`NoSlaveBetweenCalls`).

Not modelled here: restore on an entry that names a module's handler frees what
kmalloc never gave.

## Lifecycle and Drivers

A driver is a script: what `module_init` and `module_exit` take and give back, in
their order, each step with what the code does when it fails (unwind, go on, or
cannot). `Lifecycle` runs any script:

| model | code |
|---|---|
| `Insmod`, `Rmmod`, `Returns` | the system calls; rmmod is refused while a file or mount with an owner is open |
| `Acquires`, `Fails`, `Misses`, `Releases`, `Passes`, `Tests` | one call of the script and its result |
| `Starts`, `Awaits` | threads and work the module sets off or waits for |
| `Oops` | a release or dereference of what is not there |
| `Enter(r)`, `Leave(r)` | other processes, frames and interrupts through whatever is published; some leave things behind (`keeps`), some start work (`starts`) |
| `Waits` | releases that return only when nobody is inside: /proc, interrupts, tasklets, work queues, ... |

The rules of `Enter`, `Leave` and `Waits` are the kernel's as the drivers rely on
them; the scripts are the code.

**Run `drivers`** (all 104; 3310 states). Many drivers break a duty somewhere; the
tables of `Drivers` name each breach as <<driver, thing>> and the properties say
that there is no other:

* `LeavesNothing` (`LeftByFailedLoad`, `LeftByUnload`): for instance
  `block_mod_e.c` returns without freeing memory and queue, confm forgets the
  blocks of its channels;
* `UsesOnlyWhatItHolds` (`Faults`): `mulnet.c` frees one device again and again
  when a later one cannot be registered, `block_mod_s.c` frees data a failed setup
  has freed;
* `CallsFindWhatTheyNeed` (`Races`): confm registers a channel before it links it,
  `mod_proc.c` frees a page before its node;
* `NobodyInFreedText` (`StillInside`): a system call table entry keeps nobody from
  unloading the code behind it; a tasklet or work still queued;
* `UnloadEnds`: rmmod does not wait for ever. Fairness: insmod and rmmod run to
  their end, and a call that is waited for is one read, write or interrupt, which
  is finite.

`Orderly` is a condition on the text of a script alone: each thing is acquired after
what its code uses; every error return, and `module_exit`, gives back all that was
surely acquired and, after a test, all that may have been, users before what they
use; what an open file keeps in is registered last; and no interface is left that
neither an owner nor a waiting release guards. 38 of the 104 drivers are orderly
(`OrderlyDrivers`; TLC evaluates that these are and no other is). Those that are not
either break a duty above or do more than acquire and release (tests of pointers
without an error return, work they start, calls that leave something behind).

`Audit` walks through any script once, without callers (`Walk`). At each place of
it a `View` says what is surely held, what may be held, and who may be inside by
then: whoever a published interface lets in (`Callers`), what they set off, and
nobody whose release has waited. Calls are not interleaved with the walk, and those
that end are not followed; what they may have left behind (`Kept`) may be held from
then on. `Missing`, `Left`, `Unserved` and `Staying` collect what the views show.
`AuditAssumption` says that what they show of a driver is in the tables, and
`TablesAssumption` that the tables list nothing else; TLC evaluates both. Five drivers are left out
of the first (`WithMutants`): a mutation of their scripts has to break a property
and not an assumption. The walks show exactly the 91 breaches the run meets.

There is no bound to choose: a script is finite, and a driver's life is followed
from load to unload once. Deadlock is not checked because a life ends.

## Proofs

| module | theorem | states |
|---|---|---|
| `BlockQueueProofs` | `TypeCorrect` | positions never leave their block |
| | `ListShape`, `EndsOpen` | `[]ListInv`, `[]EndsInv` |
| | `NoUseAfterErase`, `CopyStaysInBlock` | `[]HeldBlocksLive`, `[]CopyInBlock` |
| | `EofIsTrue` | `EofOnlyWhenDrained`: read answers end of file only if no block of the list holds an unread byte |
| | `ShortReadIsTrue` | `ShortReadOnlyWhenDrained`: an unfaulted short read leaves nothing behind |
| | `OneStream` | `Spec => FifoSpec`: the list of blocks implements one stream of bytes, for blocks and calls of any size and any number of addresses |
| `PollDevProofs` | `NewlineFits` | `[]WritesStayInBuffer`, for messages and calls of any length and any number of readers, if writes do not overlap each other (`WritersApart`) |
| | `OffsetsAreTornOneWay` | `[]OnlyTornReadsMoveIt`, for any number of readers and writers, with signals and overlap, if writes keep apart (`WritersApart`) |
| | `WakeUpsAreMissedOneWay` | `[]OnlyMissedWakeUps`, the same with one reader (`OneReader`) |
| | `NoWrapAround`, `EndOfFileLasts` | `[]ReadsOnlyMessage`, `EofLasts`, for any number of writers, if there is one reader, no signals, and a call is overtaken only while it sleeps (`OneAtATime`) |
| `DubflProofs` | `PointersAndSizeAgree`, `SavedIsInFile` | `[]MediumWhole`, `[]CleanSectorsInFile` for any files of any sizes |
| | `SwapAloneKills`, `NothingIsLost` | `OnlySwapKills`, `UnloadSavesAll` |
| `LifecycleProofs` | `OrderlyOwesNothing` | (without a run) a driver whose script is `Orderly` meets all four duties of `Drivers` without exception |
| | `OneWalkShowsAll` | (without a run) for every set of scripts, one walk without callers shows all that goes wrong in any interleaving with them |
| | `AuditedLeavesNothing`, `AuditedUsesWhatItHolds`, `AuditedServesCalls`, `AuditedIsLeft` | `LeavesNothing`, `UsesOnlyWhatItHolds`, `CallsFindWhatTheyNeed`, `NobodyInFreedText` for every driver whose walk shows no more than the tables list (`Audited`; all 104 are) |
| `CallTableProofs` | `TypeCorrect`, `EntryLive`, `OneInSlave` | `[]TypeOK`, `[]SlotIsLive`, `[]OneInside` for any number of callers and blocks |
| | `AloneTranslatesItsOwn`, `AloneUnloadsItsSlave` | `[]OwnTranslation` and the action property `TranslatedUnloads` for any texts and callers |
| `ThreadsProofs` | `NobodyIsLeftBehind`, `HandedMemoryIsThere` | `[]NobodyLeftBehind` (kthread_stop), `[]HandedMemoryLives` (completions and the counter too) for any number of threads, turns and processors |
| | `EveryTurnIsCounted` | `[]CountedAll`: under mlock's semaphore the plain counter is the sum of all turns |
| `FramesProofs` | `FramesAreFreedOnce`, `InterfaceIsRight`, `StatisticsAreRight` | the three invariants of run `frames` for any number of frames and addresses |
| `TextNodesProofs` | `StringsEnd` | `[]StringEnds` for buffers and writes of any size and any number of writers at once |
| | `TheTextIsRead` | `[]CatGetsText` for all 37 drivers, texts, pages and reads of any size, any number of open files, with the exceptions named in the property |

The assumptions are those named in the modules (`SizeAssumption`,
`CountAssumption`, `NoByteAssumption`, `NullAssumption`, `CopyAssumption`,
`ProcessAssumption`, `LengthAssumption`, `RoffAssumption`, `FileAssumption`,
`MemAssumption`, `ThreadsAssumption`, `FramesAssumption`, `FlagAssumption`, `ScriptAssumption`, `PageAssumption`,
`NulAssumption`); TLC evaluates them in each run. The theorems on PollDev have a premise besides,
`WritersApart`, `OneReader` or `OneAtATime`: without it TLC finds a counterexample with at
most two readers and two writers, or, when writes overlap, a message without an end, of
which neither the code nor the model knows what strlen returns. They are premises and not assumptions
of the module because the other runs of PollDev are about what happens without them. On TextNodes
`LengthAssumption` says that the programs ask for at least one byte (`cat` and the
test programs do; a read of none would be taken for an end of file), and
`NulAssumption` that a written character is not the terminator.

**BlockQueue.** `IInv == TypeOK /\ ListInv /\ EndsInv /\ HeldBlocksLive /\
CopyInBlock`; no part is inductive alone. That the reader erases only a block no
writer holds needs a spent head to differ from the tail the writer copies into:
a spent head has all SIZE bytes written (`CopyInBlock`), and the tail of a writer
in its copy has room (`EndsInv`). `EndsInv` for the next turn needs the list's
shape: when the head is erased, the next block has not been read and is full
unless it is the last. The shape needs that a block is appended only after a
full one (`EndsInv`), and `CopyInBlock` that a sleeping handler's positions are
moved by the other one only in its favour. One lemma per action that changes the
list or a block; the others are together in `QuietSteps`. The action properties
follow from IInv: an empty head in a list of this shape is the only block.

`OneStream` maps each step to one of ByteFifo. `ReadCopied` is the hard one: the
bytes that went out are the first of the head, the block may be erased with it,
and what is left of all blocks together is the rest of the stream. Besides IInv it
needs `NothingLeft` (between two calls the writer owes no bytes). What the blocks
hold is `FlattenSeq` of their unread parts, a recursive function of the
community modules. The induction theorems of the library cannot be used, so the
lemmas (`GluedExists`, `GluedAlike`, `FlattenAppend`, `FlattenTail`) argue
by a least counterexample: the set of indices where a claim fails has no
first element, by the well-foundedness of the naturals (`Least`). The rest says what
one changed block changes in the stream: the tail grows (`LastGrows`), the head
shrinks (`FirstShrinks`).

**PollDev.** The invariant of `PollDevProofs` has layers, each proved under its own premise
from those before. `BufferInv` (writes apart): one write at a time, and `buf[]` holds
a NUL early enough, in the middle of a write too. On it rest three that say how little
each property needs. `TornInv` (no more): while nobody has begun a message, who holds
an offset is one that held it as the write rewound (`Holds`), so the line that loads
an offset is the only way to become one. `SleepsInv` (one reader): a reader on
its way to sleep, or asleep, is behind the end, or a write is in progress, or a
wake-up has found it on its way; it is not the end of the write but the wake-up in it
that carries the step. And for reads that stay in the message: `OffsetInv` (no overlap)
says that only one call at a time does not sleep (`AloneBy`) and that what a reader loaded
of the offset is still the driver's (`KnowsBy`); `MessageInv` (one reader, no signals
besides) that a woken reader finds the offset 0, so it is inside of the message when it
measures what is left (`InsideBy`), and that after an end of file the offset is past
the text until a write begins. The steps are first put in a
table of what each does to the rest of the device (`ReadMoves`, `WriteMoves`; lemmas
`ReadEffects`, `WriteEffects`); the layers are proved from the table. That strlen, a
CHOOSE of a least index, finds a NUL at or before any known one is a lemma from the
well-foundedness of the naturals (`StrlenEnds`).

**Dubfl.** `IInv` of `DubflProofs` says for every stage of an operation what of the
medium is there: `Whole` and `Stages` (pointers and size), `Named` and `Loading`
(the name and the file, before insmod ends), `Written` and `Leaving` (requests meet
existing sectors; a save before rmmod is behind no request), `Saved` (a sector not
marked unsaved is in the file, of a file being loaded as far as it was read).
`MediumWhole` alone is not inductive: between `vfree` and `vmalloc` it is false, and
what holds there is `Stages`. `SavedIsInFile` needs that the save loop clears the
mark of a sector in the step that writes it, so that a request in between either
comes before, and is saved, or after, and marks the sector again.

**Lifecycle.** What the kernel promises to every script is a lemma (`GuardedAlways`): a
module is unloaded only when no user of an owned interface is inside, and a release that
waits lets no call survive it. It says nothing of the drivers by itself.
`OrderlyOwesNothing` needs an invariant that says where insmod or rmmod is (`Place`): it
has taken the first k steps of `module_init`, and holds what is certain and at most what is
possible after them, or it is m steps into the list that undoes them; and
what this means for others (`Closed`): who is inside came through something still
held, and what is held has what it uses. A release cannot break the latter:
users are released before, openable files are not on the way of an error return,
and at rmmod the lemma keeps their callers out.

`OneWalkShowsAll` is about all scripts. Its invariant `Seen`: some view of the walk
`Agrees` with the state (what it takes for sure is held, what is held it holds for
possible, who is inside it expects), or, after a bad access, some view `Foreseen`
it. A step of the script leads to a view the walk leads to (`StepsOf`, `RunsSeen`),
and a caller that comes, goes or leaves something stays within the view
(`OthersSeen`), because a complete walk (`Complete`) has added everyone who may come in.
`Walk` is a recursive function, of which the proof uses nothing: the theorem holds
for a walk that is complete, and that it is complete is part of what TLC evaluates
for each driver (`Audited`). So the proof takes the interleavings, and TLC the 104
given scripts; a driver that is added or changed needs the second only.

**CallTable.** `Inv` adds to the types what keeps the entry live: a module that is
loaded saved "ni", because it patches only an empty entry; and what the exported
name excludes. `OneInSlave` follows since `Load` needs that no slave is there and
only the one inside unloads it. `AloneTranslatesItsOwn` needs more: `AloneKnows` says
what a call that nobody overlapped finds in the static data at each point
(`Knows`: its own text, the slave of its base, the address of that slave), and
that it is the only one in progress. A second call ends its being alone when it
enters, not when it does harm, hence no step of another has to be followed.

**Threads.** `IInv` of `ThreadsProofs`: `Queued` (who wants the lock is in its
queue) and `Exclusion` (who is in a turn is its first), `Order` (in a chain nobody
exists before the one that starts it), `ChildrenFirst` (while the module is there nobody
ends before those behind it have ended, or announced it, as the module has it),
`Counted` (the counter is one from init and one from each thread that announced its end, so
Thr + 1 means all), `Progress` (how far init is, and that the threads it has passed have
ended or announced it), and for the time after init `NobodyLeftBehind` and `LeftAlone`,
because a thread in freed text may fault and then ends nothing in any order.
For the counter a cardinality argument carries the step.
`EveryTurnIsCounted` compares a counter with a sum over threads. The sum is a fold
(`MapThenSumSet`), whose value the lemmas get by a least counterexample again
(`AddsExists`, `AddsAlike`); `OneMore` says that a thread that ends a turn adds one. That no
turn is lost between loading and storing the counter is `Exclusion`.

**Frames.** `IInv` of `FramesProofs`: per frame `Routed` (what may still come, by
kind and hook), `Refs` (references by place in that sequence), `Judged` and
`Named` (a frame in hand is what it was when it came, and renamed once), `Looped`,
`Delivered`; and for all `Knows` (what open learnt is the address while nothing
moved) and `Readings` (who is about to count has read no more than was handed on,
and exactly that while there is no race).

**TextNodes.** `StringEnds` is nearly inductive (what a bounded write puts into the last byte
is its terminator), `CatGetsText` far from it. `IInv` of `TextNodesProofs` says
for every file what its program has got so far (`Copies`): the first `pos` bytes of the
text where the offset or the page decides, all or nothing where the mark does; of the
page of `read_proc` the part `Shown`; that it was never handed more than it asked for,
unless the driver does not look; and
where the mark stands (`Marks`: set between the copy of the text and the end of file
that follows). For a shared mark this holds of sessions that keep apart only,
so `AloneLive` says that such a session is the only open file, and `MarkLeft`
that one read to the end leaves the mark as it found it. `Digit` (a number that
interrupts count is never empty) keeps the first read from being taken for the end.
Each action then disturbs one file: a lemma per way of reading
shows that the file keeps its part, and the others keep theirs because either
their buffer did not change or they are not `quiet` any more. Two lemmas on
sequences carry the data: the string of a buffer is its beginning (`StrFacts`, and `ShownFacts`
for a page of it), and a sequence begins with its parts, one after the other (`PartsFollow`).

Every IInv, the layers of PollDev and `AloneKnows` were checked by TLC on small
instances before they were proved.

Model-checked only:

* liveness (`CallsReturn`, `LaterWriteWakes`, `OperationsEnd`, `UnloadEnds`,
  `InitEnds`): fairness and ENABLED are beyond the provers here;
* which of the 104 drivers are `Orderly` and `Audited`: the theorems are about every
  script with this property, TLC evaluates it for the given ones;
* PollDev with overlapping calls: there `ReadsOnlyMessage`, `EofLasts` and
  `SleepsOnlyWithoutData` are false. What remains true is proved
  (`OnlyMissedWakeUps`, `OnlyTornReadsMoveIt`); that a later write wakes the reader
  all the same is run `poll_live`.

## What the results rest on

* TLC's results hold for the instances named; the theorems for all values of the
  constants under the named assumptions.
* Atomicity is as stated for each module: between two points where a handler
  may sleep (BlockQueue, Dubfl, CallTable, TextNodes), per statement (PollDev with
  Preempt), per access to what threads or processors share (Threads, Frames).
* Memory is sequentially consistent; an access to freed memory is not modelled
  as doing something, it is what the properties exclude, or the end of the module
  (Dubfl, Lifecycle), or of the thread, unless it gets away with it (Threads). So it is
  with memory behind the end of a buffer, but for the byte behind the message of PollDev:
  TextNodes notes that it was written, and no more.
* The kernel functions are modelled by how the drivers use them: copies may fault,
  allocations may fail.

## Plan

Done: the queue with its proofs and its refinement; poll, dubfl, threads, frames,
the call table and the nodes of /dev, /proc and /sys with their proofs; load and
unload of every driver that holds something. Every safety property that a passing
run checks is a theorem.

Left, in this order:

1. confm as several block queues behind one list of channels.
2. A finer-grained BlockQueue (several readers and writers, steps between single
   accesses to shared memory).
3. The request modes of `block_mod.*`; the clients of `asu`.
