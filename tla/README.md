# nanos-lite, AM and NEMU in TLA+

The repository is a complete small computer: **NEMU** emulates a RISC-V machine
with devices and a debugger, the **abstract machine** (AM) puts traps, address
spaces and I/O of that machine behind a C interface, **nanos-lite** is an
operating system on AM, and **navy-apps** are the libraries and programs that
run on it. These modules specify the parts of it in which a step here makes
another step there go wrong: who owns the CPU, the address spaces, the shared
file table, the debugger's lists, the emulator's states, and the way of a key
from the user to the line on the screen; and the computations that a test
hardly covers: expressions, the stack of arguments, drawing. TLC checks small
instances; TLAPS proves the central statements for every size.

`PROJECT.json` lists the components, runs, mutants, the source lines behind each
definition, the findings, the hazards and the theorems. File names below are
relative to `nanos-lite/src`, `abstract-machine/am/src`, `nemu/src`, and
`navy-apps` (`libs`, `apps`).

## 1. Inventory

| Component | State | Operations | What is hard | What makes it correct |
|---|---|---|---|---|
| Process core (`proc.c`, `syscall.c`, `irq.c`) | `pcb[4]`, `pcb_boot`, `current`, `fg_pcb`, `schedule_cnt`, `ev_buf`, `curr_pathname` | `init_proc`, `schedule`, `context_uload`, `switch_boot_pcb`, exit, execve, yield, brk | a handler that replaces the context it is handling; a global pathname for all processes; a foreground and a background that share the CPU | a process resumes from its own, live context; background and foreground both get the CPU |
| Traps and contexts (`riscv/nemu/trap.S`, `cte.c`, `vme.c`) | frames in the kernel stacks, `mscratch`, the `pdir` word, `satp` | trap entry and return, `yield` in the kernel, `__am_get_cur_as`, `__am_switch` | nested frames whose `pdir` word is never written; the choice of the stack by `mscratch` | user code runs in the directory of its own context |
| Address spaces (`vme.c`, `mm.c`) | directories, tables, `pf`, `as.ptr`, `max_brk` | `new_page`, `pg_alloc`, `vme_init`, `protect`, `map`, `mm_brk` | tables and data from one bump allocator; first entry of a fresh table | what user space maps is apart from tables and from other user spaces; the kernel is in every directory |
| Loader (`loader.c`) | pages of the image, `max_brk` | `loader` | page ends, reads longer than the page, bss over page ends | the memory is the file's image, then zeros |
| MMU (`isa/riscv32/system/mmu.c`) | none | the two-level walk | it is what the tables must agree with | - |
| Interrupts (`intr.c`, `timer.c`, `alarm.c`) | `cpu.intr`, MIE | tick, query, raise | set by a signal, taken between instructions | only user code is interrupted |
| File system (`fs.c`, `ramdisk.c`) | one `open_offset` per file, read and write functions set by open, the ramdisk | open, read, write, lseek, close | the offset is shared by all processes; `size_t` differences | a call touches its own file only |
| Kernel devices (`device.c`) | the screen, the event text | `events_read`, `fb_write`, `dispinfo_read`, `serial_write` | units of `/dev/fb`; pixel placement over line ends | a frame is shown whole |
| Drawing library (`libndl/NDL.c`) | canvas position | `NDL_DrawRect`: lseek, write, close | three system calls, preemption between them | the same |
| Monitor (`cpu/cpu-exec.c`, `utils/state.c`, `hostcall.c`, `sdb.c`, `device.c`) | `nemu_state`, `n`, batch mode | c, si, w, d, q, the execution loop | several places set the state in one round | an ended program stays ended; exit status |
| Differential testing (`cpu/difftest/dut.c`) | `is_skip_ref`, `skip_dut_nr_inst` | `difftest_step` | a flag set by one instruction and used later | a verdict is not replaced |
| Watchpoints (`monitor/sdb/watchpoint.c`) | 32 nodes on two sorted lists | new, free, add, remove, scan | list surgery with head, middle and tail cases | no node is lost or doubled |
| Expressions (`monitor/sdb/expr.c`) | tokens | tokenise, evaluate | unary or binary by the token before; the last operator that binds least | the value is what the grammar says, and nothing else is accepted |
| Keyboard (`device/keyboard.c`, `device/device.c`, `ioe/input.c`, `libndl`, `libminiSDL/event.c`) | SDL's queue, ring of events, `ev_buf`, `keystat` of each program | collect, enqueue, dequeue, poll, clear at the debugger's prompt | two readers of one register; events lost at a stop; a full ring | first in, first out, each event to one reader; what a program knows of a key is true |
| nterm (`apps/nterm`) | screen of characters, cursor, line, dirty cells, `shift` | key to character, keypress, write, scroll, erase, refresh, run a command | shift as a toggle; wrap, scroll and erase; replaced by its command | the line is what was typed and stands on the screen |
| Program arguments (`proc.c`, `libos/crt0.c`) | the user stack | push strings, pointers and argc; `call_main` | two stack pointers, pushed in the reverse order | `main()` gets its arguments and environment |
| Surfaces (`libminiSDL/video.c`, `libndl/NDL.c`) | pixels, palette, the frame buffer of the library | set mode, fill, blit, update | rows collected until the last; word orders; centring | what is drawn appears |
| Other applications | - | read events, exit, system calls | - | as an environment of the above |
| Interpreter, tracers, device maps, klib, am-kernels, other ports | see `PROJECT.json` | | data, output or third-party code | not modelled |

How they interact: an instruction of a program (NEMU) may trap; `trap.S` saves a
frame on the kernel stack of the current PCB and calls `do_event()` of
nanos-lite, which calls `schedule()` or `do_syscall()`; the frame that comes
back is restored, and with it `satp`, which the MMU uses for the next
instruction. System calls reach the file system and through it the devices,
whose registers are emulated by NEMU in the same thread. The timer's signal only
sets `cpu.intr`. Kernel code runs with MIE = 0: what interleaves are the traps
of different processes, the ticks, and the user's keys, which NEMU collects
between two instructions and which wait in a ring until `schedule()` or a
program reads them. NEMU's debugger runs between two instructions, too.
`nanos-lite/README.md:5-15`, which speaks of two tasks and nine system calls, is
older than this code.

## 2. Modules

| Module | Models | Abstract specification | Runs | Proofs |
|---|---|---|---|---|
| `NanosKernel` | process core, traps, switches | `ProcessSwitch` | `kernel_safety`, `kernel_liveness`, `kernel_failed_execve` | `NanosKernelProofs` |
| `AddressSpace` | allocator, tables, loader, MMU walk | `VirtualMemory` | `vm_safety`, `vm_stack` | `AddressSpaceProofs` |
| `FileSystem` | file table, ramdisk, devices | `Files` | `fs_safety`, `fs_seek_end` | `FileSystemProofs` |
| `Canvas` (on `FileSystem`) | programs that draw | - | `canvas` | `CanvasProofs` |
| `Watchpoints` | the pool and its lists | `WatchSet` | `monitor` | `WatchpointsProofs` |
| `Monitor` (on `Watchpoints`) | emulator states, execution loop, debugger commands, difftest verdict | - | `monitor`, `monitor_quit` | `MonitorProofs` |
| `KeyEvents` | keyboard, register and its readers, key state | `KeyQueue` | `nterm` | `KeyEventsProofs`, `NtermProofs` |
| `Terminal` | the terminal of nterm | - | `nterm` | `NtermProofs` |
| `Nterm` (on `KeyEvents` and `Terminal`) | nterm with its built-in shell, and other programs beside it | - | `nterm` | `NtermProofs` |
| `Expr` | the debugger's expressions | `Meaning`, the grammar, in the same module | `algorithms` | - (recursive) |
| `ArgStack` | arguments of a program | what `main()` reads | `algorithms` | - |
| `Video` | surfaces, frame buffer | the picture expected | `algorithms` | - |

Each `MC` module gives the constants of one of them their small values.

**NanosKernel.** The PCB fields `cp`, `as.ptr` (`dir`) and `max_brk`, the frames
in the kernel stacks (`stack`, indexed by PCB and depth), the globals of
`proc.c` and `syscall.c`, and of the machine `satp`, `mscratch`, the pending
tick `intr`, and the user registers `regs`, of which only the address space they
belong to is kept. A trap goes through the stages of the code: entry
(`UserTrap`, with `TimerInterrupt` or `Ecall` as its cause, or `KernelYield`),
`schedule` or one action per system call, and `ReturnToUser` or
`ReturnToKernel`. `SaveFrame` leaves the `pdir` word of a kernel frame as the
stack had it, as `trap.S` does, and `__am_get_cur_as` and `__am_switch` decide
by it. `schedule` includes the poll of the keyboard, the foreground switch and
the background period. A dead frame stays in the stack where the next trap
finds it.

**AddressSpace.** Physical memory is one array of words that holds directories,
tables and data, so that a write to a wrong place is seen; `map` looks up, takes
a table page and writes the entry exactly as `vme.c` does, its misplaced first
entry included. The operations take and give a memory in progress, a record of
`mem` and `pf`. `loader` maps, reads and clears page by page with the code's
bounds; its loops, and those of `context_uload`, `vme_init`, `mm_brk`, are
recursive functions of the round. Each call (`SysExecve`, `SysExecveMissing`,
`SysBrk`, and a program's `Store`) is one action, since the kernel cannot be
interrupted. Images have the shape of the linked applications: text from the
first page on, data and bss behind it.

**FileSystem.** A descriptor is an index of the table; offsets and lengths count
modulo `SizeT`, so that the differences wrap where they do in C. A failed
assertion, a panic, a null function pointer (a regular file used before any
open), a descriptor beyond the table (`BadFd`) and a copy that runs out of
memory stop the machine; an unknown whence (`SeekOther`) moves nothing.
`fb_write` computes the pixel of every round (`Target`).

**Canvas.** Programs call `Rewind`, `Draw`, `Finish` with any call of the others
between.

**Watchpoints.** One round of each loop is a step: `Insert` is the loop of
`new_wp`, `Find` that of `rm_wp`, `Unlink` and `Free` the two of `free_wp`,
`ScanNext` that of `scan_wp`. `used` is a history variable.

**Monitor.** One instruction goes through `exec_once`, `difftest_step`, the scan
(the loop of Watchpoints), `Break` and `Device`; between commands the thread is
at the prompt. It is the build with CONFIG_WATCHPOINT and CONFIG_DIFFTEST, which
the checked-in `.config` leaves off and Kconfig offers. `outcome` and `old` are
history variables. It contains the loops of Watchpoints, so that one run checks
both.

**KeyEvents.** Events are made by the user (`Press`, `Release`, `CloseWindow`)
into the host's queue. A round of `device_update()` moves one of them into the
ring; that the guest may go on between two rounds is no more than events that
arrive later. `sdb_mainloop` is a stop, or the prompt after the window was
closed, commands and the continuation in one step: all that it changes here is
that the host's queue is empty afterwards and the machine runs.
`schedule` has the poll and the background turn as parameters, because the
counters that decide them are in NanosKernel. `NDL_PollEvent` and `UseEvent` are
the two halves of each of the three functions of `event.c`: a switch may fall
between them. `fate`, `dropped` and `missed` are history variables: who took the
last event of a key, whether it was thrown away, and which programs did not get
an event they would have needed.

**Terminal** is a record and operators on it, in the mode in which lines are
edited; the escape sequences, the colours and the raw mode are never reached,
because the built-in shell writes a banner and prompts only. `put` is one round
of `write()`, for one character, with the scroll that may follow it.

**Nterm.** The loop of `builtin_sh_run()`: `Poll`, `Keypress` or one of the ends
of a line, `refresh_terminal`. What `execvp()` of the C library does is left
open: the program is found (`Runnable`) or not (`NoSuchProgram`). A line without a
word, empty or of blanks, makes it read address 0 (`EmptyCommand`). An exit halts
the machine or starts nterm again; which of them is decided by `curr_pathname`
(NanosKernel), here both are possible. `meant` is the line the user has in mind:
a key goes into it when it is pressed, with the shift keys as they then are. It
is compared with nterm's line where no event went elsewhere (`missed`) and nothing
was typed with two shift keys held (`both`), for then the toggle of
`handle_key()` is wrong.

**Expr.** Symbols are operands with a value, operators and brackets; a chain of
unary operators, the main operator and the checks follow the code, with
`*success` as a field of the result and the emulator's panic as another.

**ArgStack.** Bytes, so that a string without its end or a word that is moved by
one is seen.

**Video.** Pixels at the indices the code computes; the words of palette and
screen with their byte order. `SDL_UpdateRect` is the update of the whole
surface, which is the only one the programs ask for.

## 3. What the runs check

| Run | Instance | Question and result |
|---|---|---|
| `kernel_safety` | 3 processes, background period 2, keyboard poll 2, 5 directories, 2 heap pages | User code always runs in the address space of its context, with its PCB's stack in `mscratch` (`UserRuns`); processes that wait can be resumed (`ParkedResumable`), share no directory (`SeparateSpaces`), have their heap mapped (`HeapMapped`); a trap touches no other stack (`OthersUntouched`); all of it implements `ProcessSwitch`. |
| `kernel_liveness` | 2 processes, period 3, poll 2 | The background process (`BackgroundRuns`) and the foreground one (`ForegroundRuns`) get the CPU. |
| `kernel_failed_execve` | 2 processes, 3 heap pages | Violation, see findings. |
| `vm_safety` | 2 processes, pages of 4 words, tables of 4 entries, 12 user pages in 3 tables | No page mapped in user space holds a table or is mapped in the user space of two processes (`UserPagesApart`), the kernel is mapped alike everywhere (`KernelEverywhere`), and what programs that keep to their addresses read is what `VirtualMemory` promises. |
| `vm_stack` | the same | Violation, see findings. |
| `fs_safety` | 2 adjacent files of 2 and 1 bytes, `size_t` of 5 bits, lengths and offsets 0, 1, 3 and -1 | Offsets stay in the files (`OffsetInFile`), writes hit only the bytes the offset passes (`WritesInPlace`), and the table implements `Files`. |
| `fs_seek_end` | the same files, length 1, SEEK_END of -2 | Violation, see findings. |
| `canvas` | 4 programs, a 2 x 2 screen | Every frame is drawn whole (`FrameWhole`) and never mixed (`OneFrame`). |
| `monitor` | 3 nodes, 1 expression with 2 values, si 0, 1, 2 and c | The lists stay whole (`PoolIntact`), all their loops end (`Returns`), and they implement `WatchSet` (`Implements`). No change is missed (`NothingMissed`) and no stop is without reason (`StopsForAReason`), an ended program stays ended (`StaysEnded`), the emulator comes back (`ComesBack`), the batch exit status is right (`BatchVerdict`). |
| `monitor_quit` | 1 node | Violation, see findings. |
| `nterm` | nterm in process 1, the menu in process 3, keys: two shift keys, a letter that repeats, SPACE, BACKSPACE, RETURN, F1, F3; 3 events, a ring of 3, a screen of 3 x 2, lines of 2 | The ring and its readers are a queue that stops the machine only when it is full (`Implements`, of `KeyQueue`), and is emptied whoever is in front (`KeysDrain`). What a program believes of a key whose last event it got is true (`KeyStateTrue`). The line is what was typed (`WhatYouType`), stands before the cursor (`EchoOnScreen`), and is what the screen shows after a refresh (`RefreshShows`). |
| `algorithms` | all strings of at most 5 of 13 symbols, and of at most 7 of six of them; words of 3 bits; up to 2 arguments and 2 variables; pictures up to 2 x 2 on canvases up to and beyond a screen of 4 x 3, both depths | Expressions mean what the grammar says and nothing else is accepted (`ExprRight`); `main()` gets its arguments (`ArgsArrive`); what is drawn appears (`ScreenShows`). |

Why the bounds are enough. Three processes are the least with a current, a
foreground and a third one that both leave alone. The counters of `schedule()`
are only compared with 0, so 2 or 3 in place of 500 and 10 reaches every case
and every phase between them. Directories are bounded (`MaxDir`) because the
code never frees one; with two more than processes every kind of replacement
(execve, failed execve, exit) and each pair of them happens. Tables of four
entries give an image, a heap that crosses into a second table, and a stack in a
third. Files of two and one bytes have an inside, an edge and a neighbour. Four
programs are all that nanos-lite has. Three nodes give a list a first, an inner
and a last one. Three events fill a ring of three slots beyond its capacity, let
its indices wrap, and are a letter typed and erased, or with one shift key held,
or with both, or a command line. On a screen of three columns and two lines the
prompt and two characters wrap, a line's end scrolls, and erasing crosses a
line's start. Seven symbols hold two binary operators of different levels with
brackets and a unary one; five hold every triple of operands with every pair of
operators. `Length`, `Offset`, `EndOffset`, `Value`, `BrkAt`, `StoreAt`, `Step`
are the inputs programs or the user give, `Reserve` and `HeapEnd` bound physical
memory.

`canvas` depends on two numbers. `fs.c:43` makes `/dev/fb` as long as the screen
in bytes, while `fb_write()` counts pixels, four bytes each; and there are four
processes. Between two `lseek()` the programs together can move the shared
offset by at most four frames, so `fs_write()` never cuts a frame, and
`fb_write()` then draws it at the origin wherever the offset stands. With five
programs, or with the size in pixels (the mutant), frames are cut.

`vm_safety` and `algorithms` may stop: address spaces when memory is used up,
the enumeration of inputs when there are no more (`CHECK_DEADLOCK FALSE`);
everything else has a step for the machine that stopped.

**Fairness.** `kernel_liveness` assumes weak fairness of kernel steps (a handler
runs to its end: MIE is 0 and the emulator executes one instruction after the
other), weak fairness of `TimerTick` (the host's interval timer, `alarm.c`,
repeats), and strong fairness of `TimerInterrupt` (a pending tick is tested
after every instruction, `cpu-exec.c:101`, so a program that keeps trapping
still is interrupted at one of its user instructions). Programs are under no
fairness: they may never make a system call. `monitor` assumes weak fairness of
the single thread's own steps: it waits only at the prompt. `nterm` assumes weak
fairness of `PollingCall` alone, a call of `schedule()` that reads the keyboard:
the timer forces the calls, and every tenth polls; neither the user nor a
program has to do anything.

## 4. Findings

1. **A failed execve leaves two address spaces** (`kernel_failed_execve`).
   `context_uload()` replaces `as.ptr` before `loader()` finds that the file is
   missing. The program goes on in the old directory, `brk()` maps into the new.
2. **The lowest page of the user stack is not mapped** (`vm_stack`). For a fresh
   second-level table `map()` writes the first entry to index 0 (`vme.c:89`).
   `AddressSpace` keeps this behaviour, and `VirtualMemory` leaves that page out.
3. **SEEK_END is not checked** (`fs_seek_end`, property `WritesInPlace`). The
   other two branches of `fs_lseek()` panic beyond the size. In the run a file of
   one byte, behind another one in the ramdisk, is opened and gets SEEK_END with
   -2: its offset is -1. The write of one byte that follows is not cut, as
   offset + length wraps to 0, and changes the last byte of the file in front.
   `fs_safety` therefore lets programs use SEEK_END with offset 0 only.
4. **q turns an abort into a good exit** (`monitor_quit`). A failed differential
   test sets no `halt_ret`, and `cmd_q()` sets NEMU_END.

## 5. What is proved

`NanosKernelProofs` proves for every number of processes, programs, periods and
bounds that meet `KernelAssumption`: `TypeOK`, `UserRuns`, `ParkedResumable`,
`SeparateSpaces`, `HeapMapped`, `OthersUntouched`, and that the core implements
`ProcessSwitch`. None of the invariants is inductive. `UserRuns` needs to know
what the frame that is being returned to holds; that frame was saved while
another process ran, so what parked contexts look like (`Frames`,
`Resumable`) must be an invariant too; that a return reaches the right one needs
what `c`, `current` and the phase have to do with each other (`Control`); and
`HeapMapped` needs that directories are not shared (`Spaces`). `IInv` is their
conjunction. An `IInv` state of user mode has the directory of the program in
the stale frame at the top of its stack, which is why the unwritten `pdir` words
do no harm: the only frames whose word is trusted are user frames, and
`ucontext()` or the trap from user mode has written those. The alternatives of
`ReturnToKernel` that go back to `main()` or to `exit` are never taken.

`WatchpointsProofs` proves for a pool of any size `TypeOK`, `PoolIntact` and
that the lists implement `WatchSet`. Because both lists are sorted, `Linked`
says node by node what a list is (each pointer names the least node above), so
that no notion of reachability, and no induction, is needed. `IInv` says that
the used nodes and the free nodes not in transit are `Linked` at every step
inside the loops, that the loops stay below the node they look for (`Loops`),
and that a scan has refreshed what it passed (`Fresh`). The lemmas on putting a
node between, behind or in front and on taking it out are about any list.

`FileSystemProofs` proves for files of any number and size and a `size_t` of any
width that holds them: `TypeOK`, and if SEEK_END is used with offset 0 only
(finding 3), `OffsetInFile`, `WritesInPlace` and `Implements`. The invariant is
that the offsets stay in the files; the work is in the arithmetic modulo `SizeT`
(a length of -1 wraps in `f_off + len`, and is then not cut) and in showing that
what a copy puts into the ramdisk lies inside one file.

`CanvasProofs` proves `OneFrame` and `FrameWhole` for a screen of any size and up
to four programs (`FewPrograms`, which `fs.c:43` makes necessary). `CanvasInv`
counts: the shared offset is at most one frame for every program that has drawn
and not yet made its `close()`. `Rewind`, `Draw` and `Finish` are the actions of
FileSystem themselves, so nothing is to be proved between the two modules.

`MonitorProofs` first proves that the emulator uses the pool only as Watchpoints
specifies (`MonitorImplements`), so everything proved there holds. `MonitorInv`
adds where the thread is (`Control`), how the program's end, `halt_ret` and
`nemu_state` hang together (`Verdict`, `Batch`), and what a scan has compared
(`Scanned`), and gives `MonitorTypeOK`, `NothingMissed`, `BatchVerdict` and the
action properties `StaysEnded` and `StopsForAReason`.

`KeyEventsProofs` is about events, the host's queue and the ring of any length.
`KeyInv` says, as long as the machine runs, where the last event of every key is:
still waiting, or its fate is known, and then the program that got it has it in
`keystat` or holds it between the two halves of its call (`Tracked`). From it
`NtermProofs` gets `KeyStateTrue`, and that the ring with its two indices
implements `KeyQueue`. For the terminal it proves `TypeOK`, `EchoOnScreen` and
`RefreshShows`, for screens and lines of any size. `Ready` says of a terminal
between two keys that the prompt and the line stand right before the cursor as
cells of one row after the other, whatever wrapped or scrolled; `Screens` adds
that only dirty cells differ from the window (`Drawn`). What `write()` does with
a whole text, a recursion over its characters, is obtained without the induction
theorems: a first character that breaks the claim would exist
(`LeastNumber`), and `put` shows that there is none.

`LineCorrect` is `WhatYouType` for any keys, rings and lines and any number of
shift keys. `handle_key()` toggles with every event of a shift key, so once the
events on their way have arrived, nterm's shift is the parity of the shift keys
held (`Parity`), and that is whether shift is held unless two of them are
(`ShiftIs`). The line that those events lead to (`Typed`) is the one the user
means, if none of it was typed with two (`AsMeant`). The line that is meant
changes when a key is pressed, the line of nterm when it uses the event, and the
events between wait at the host, in the ring or in nterm's hands while the shift
key and the program in front change. The invariant `Typing` therefore replays
them: one event after the other (`After`) leads from the line, the shift and the
program in front that the system has now (`Now`) to those the user means
(`Meant`). The replay is no recursive function but a sequence of states that
exists (`Leads`), and the lemmas add an event at its end (a key is pressed),
take one from its start (nterm uses it) and move one from the host to the ring
without changing it (`Joins`). RETURN and a program in front that is not nterm
begin the line anew.

`AddressSpaceProofs` proves `TypeOK`, `UserPagesApart`, `KernelEverywhere` and that
the tables implement `VirtualMemory` (`Implements`), for any number of
processes, any programs of the shape `ImageAssumption` describes and any size of
pages, tables, stack and heap. None of the invariants is inductive, and the
program has no variable that says what a page is for. `PagesInv` says that an
assignment of roles exists: directory, table at entry i of directory d, or data
at entry j of that table; and that what the directories and tables hold agrees
with it (`Good`). Because a role names the place where the page is mapped, no
page is mapped twice, and a table is no data. The first entry of a new table,
which `map()` misplaces, gets the role of the place it went to. A read of a page
that starts inside it ends in the next physical page, and would destroy a table
there: it does not, because a segment either starts with its page or lies in a
table that is already there, so no table is taken between the two pages
(`LoadPageGood`); whoever takes the next page fills it with data or clears it.
The kernel's part of a directory is a copy of that of `kas` and has the same
tables, which no user mapping reaches (`KernelEntries`). For each operation the
lemmas say what it does word by word, that `pf` only rises, and that `Good` is
kept for later roles; the loops over pages, segments and processes are again
done with the least round that would break the claim.

The refinement rests on the same roles, because they say what an operation
cannot reach: whatever is done to one directory leaves every page alone that has
a role elsewhere (`Kept`), so the memories of the other processes do not change
(`OtherView`), and the word that a program stores is seen at one address of one
process only (`StoreGood`). For the process that acts, the lemmas follow the
words. After k rounds of the loader (`SegmentView`) the pages so far hold what the
file has from their segment's offset in the page on, and the start of the next
page is already there, left by the read that ran over the page's end: the next
round takes exactly that page, and reads up to its start. The bss then is cleared
as if the pages were contiguous, which they are, as no table was taken between
them (`BssView`). Segments that share no page, stack pages and arguments do not
disturb each other (`loaderGood`, `UloadGood`), so a loaded program finds what it
was promised (`Begun`, `LoadedIs`). For brk, one more fact belongs to the
invariant: the last page below `max_brk` lies in a table that exists
(`BrkTables`). `mm_brk()` therefore goes on in that table, or begins the next one
with its first page, for which the place that `map()` always takes in a new table
is the right one. The fact needs `as.ptr` and the context to agree: after an
execve that failed brk maps into a directory that the process does not run with
(finding 1), which is why `Grow` promises nothing new to a process in `lost`.

The assumptions on the constants are those named `...Assumption` in the modules.
`PoolAssumption`: the pool is not empty and the null pointer is no node.
`KernelAssumption`: nterm exists, the initial pathname names no file, programs
have at least one page, there are at least two processes, and a directory for
each. `FileSystemAssumption`: files lie one behind the other in the ramdisk and
`size_t` can hold twice its length. `KeyAssumption`: the ring has at least two
slots, modifiers are finitely many and do not repeat, and the keys that switch
programs are mapped.
`NtermAssumption`: characters are not control characters, the keys that type and
the shift keys are known to NEMU and are no function keys, a shift key types
nothing, and the prompt with the longest line is shorter than the screen without
its last line (else a scroll takes the line's start away; 48 by 16 cells are
enough for the 256 bytes of a line). `AddressSpaceAssumption`,
`ImageAssumption`, `MemoryAssumption`: user space is whole tables, the kernel is
mapped from a table's start on, the stack has at least two pages (eight in
`proc.h:7`), images are text from the start of a table on and then data behind
it (applications are linked to 0x40000000, `scripts/riscv/common.mk`), a page
apart, in one table and below the stack, and the first programs fit into memory.
TLC evaluates all of them on the instances of the runs.

Only model-checked:

- liveness (`BackgroundRuns`, `ForegroundRuns`, `Returns`, `ComesBack`,
  `KeysDrain`), which is out of the prover's reach;
- `ExprRight`, `ArgsArrive`, `ScreenShows`: what recursive operators compute for
  every input needs induction over data.

## 6. Not modelled

- Protection. `vme_init()` maps all of the machine's memory to itself, and
  `protect()` copies that into every directory (`vme.c:36-42`, `vme.c:56`);
  `map()` ignores `prot` (`vme.c:98`), and the MMU checks neither privilege nor
  permission (`mmu.c:28-73`). So nothing keeps a program from the tables or the
  pages of others above user space. `UserPagesApart` and `VirtualMemory` are about
  user space, and about programs that keep to the addresses they were promised
  (`Owns`): they say that the kernel gives no page to two owners.
- The instruction interpreter and the bits of devices, tracing, formatting: data
  and output without control of their own. `klib`'s `snprintf()` ignores its
  limit and pads beyond its buffer (`stdio.c:169`, `stdio.c:243`); which object
  that hits is up to the linker.
- `gettimeofday` (`syscall.c:83-87`, which divides by 1000 where seconds need
  1000000) and the timers on it.
- Bytes of C frames: a kernel stack that overflows into its PCB's fields
  (`proc.h:10`).
- Images other than those the applications are linked to (within one table of
  4 MB, text first), unaligned or page-crossing accesses.
- Memory that runs out: `new_page()` has no bound to check against. A heap that
  reaches the stack needs about 1 GB; the 128 MB of the machine end before.
- The slow path of `fb_write()` (`device.c:55`, which advances by `i` instead of
  1) is in `Target`, but nothing takes it, because frames are written whole.
- What a line typed with both shift keys held should be: the toggle of
  `handle_key()` is wrong then, and `WhatYouType` leaves such a line out.
- Arguments of a command, of which more than 31 overflow `arg_lst`
  (`builtin-sh.cpp:37`), and the 257 bytes that a line of 255 characters puts into
  `cooked` (`term.cpp:280`); escape sequences; the external shell of nterm and
  nwm, which need `fork()`.
- Descriptors below 0: a failed `open()` returns 2 (`fs.c:61`), so no program gets
  one.
- Partial `SDL_UpdateRect()`, colours that are not in the palette of an 8-bit
  surface (`video.c:68` then uses an uninitialised index), fonts, bitmaps,
  audio, fixed-point arithmetic.
- Expressions without a symbol (`expr.c:157`: the index `nr_token - 1` wraps) and
  the regular expressions of the tokens.
- The other applications beyond the events they read and the calls they make:
  games, interpreters and demos, mostly third-party. They and the vendored
  libraries, host tools and other ports are most of the repository's lines.
- `skip_dut_nr_inst`, which no riscv32 code sets; other ports of AM and NEMU.

## 7. Plan

Done: all modules of section 2, and the proofs of section 5: every safety
invariant, action property and refinement that the runs check, except those
listed there as only model-checked. What could follow are models of what section
6 leaves out.
