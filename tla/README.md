# A TLA+ model of pcboot

pcboot is a boot loader and minimal runtime for programs that run directly on a PC: it
loads itself from disk, sets up protected mode, memory, interrupts, a few drivers and file
systems, and a small C library. There is one processor and no threads. Everything
concurrent comes from interrupt handlers that run between any two instructions of the main
program while the interrupt flag is set, and from the hardware itself.

This directory holds TLA+ modules that follow the code under `src/src/`, TLC
configurations that check them on small instances, and TLAPS proofs about eight of the
components for all instances. `PROJECT.json` lists, for every definition, the source lines
it stands for; for every run, what it shows; and for every property, broken variants of
the code that the property detects.

## 1. The system

| component | state it keeps | operations | interacts with |
|---|---|---|---|
| page allocator `mem.c` | page bitmap, number of useful words, search hint | `init_mem`, `alloc_ppages`, `alloc_ppage_range`, `free_ppages`, `free_ppage` | heap, and anything that wants pages; called from handlers |
| heap `libc/malloc.c` | free list, a magic number in each block | `malloc`, `calloc`, `realloc`, `free` | takes pages, never returns them; used by `timer_handler` in interrupt context |
| alarms `timer.c` | tick counter, delta list of events | `set_alarm`, `cancel_alarm`, `timer_handler` (IRQ 0) | heap; alarm functions run inside the handler and call back; floppy motor |
| interrupts `intr.c`, `intr_asm.S` | handler table, current frame, pending end of interrupt; the two PICs' registers | entry stubs, `dispatch_intr`, `end_of_irq`, `interrupt`, `mask_irq`, `unmask_irq` | every driver; `int86` replaces the vectors and reprograms the PICs |
| BIOS calls `lowcode.s` | saved registers, masks, flags | `int86` | disk, video, boot device |
| keyboard `keyb.c` | ring of keys, pressed table, prefix flag | `kbintr` (IRQ 1), `kb_getkey`, `kb_putback`, `kb_wait`, `kb_isdown` | main program and handler share the ring without locking |
| serial port `serial.c` | per port ring of characters | `recv_intr`, `ser_getc`, `ser_getline`, ... | same shape as the keyboard |
| mouse `psaux.c` | packet bytes, position, buttons | handler, `set_mouse_*`, `get_mouse` | keyboard controller |
| sound `audio.c`, `au_sb.c`, `dma.c` | double buffer, callback, DSP and DMA registers | `audio_play`, handler (IRQ 5) | DMA reads while the callback fills |
| boot device `bootdev.c`, `floppy.c` | geometry, motor state | read a sector or range over int 13h with retries | `int86`, alarms |
| partitions `part.c` | none | `read_partitions` walks a chain of boot records | boot device |
| files `fs.c`, `mtab.c`, `fsfat.c`, `fsmem.c` | mount table, working directory, open nodes, cluster chains | open, close, read, write, seek, readdir, create, remove | boot device, heap |
| C library `libc/` | `FILE`, `DIR`, random state | printf family, strings, `qsort`, `strtol`, calendar | everything |
| console `contty.c`, video, VBE, PCI, RTC, segments, start-up | cursor, hardware registers | output and initialization | |
| loader `boot/` | none that survives | load sectors, detect memory | BIOS |

### What is hard about it

* *Interrupts between any two accesses.* Most drivers share indices between a handler and
  the main program without disabling interrupts; each use of a variable is a separate
  memory access.
* *Nesting.* A handler may enable interrupts, raise an exception or call the BIOS, and one
  global (`eoi_pending`) serves all nested frames.
* *Hints and cached values.* The page search starts at a cached word; file positions cache a
  cluster; nodes cache their first open handle.
* *Arithmetic at the edges.* Memory ranges that wrap, rests smaller than a descriptor, delays
  below a tick, sizes with and without a header, FAT12 packing, lengths after a seek past the end.
* *Long legal sequences.* Lists with local dummy heads, joins in a free list, deltas.

`PROJECT.json` lists each hazard at its line with the properties that cover it.

## 2. Modules

| module | models | role |
|---|---|---|
| `PageAlloc` | `mem.c` | the allocator, clients that own pages, one level of interrupt |
| `PageAllocProofs` | | the inductive invariant of `PageAlloc` and its consequences |
| `Heap` | `libc/malloc.c` | the free list and blocks; uses what `PageAlloc` promises (lowest run of pages) |
| `HeapProofs` | | blocks stay disjoint, the free list in order |
| `Alarms` | `timer.h` | what the alarms promise |
| `Timer` | `timer.c` | the delta list; implements `Alarms` |
| `TimerProofs` | | the list is sound and implements `Alarms` |
| `KeyQueue` | `keyb.h`, comments in `keyb.c` | what the keyboard buffer promises |
| `Keyboard` | `keyb.c` | the ring, one memory access at a time; implements `KeyQueue` |
| `KeyboardProofs` | | the pressed table is exact, the ring implements `KeyQueue` |
| `Intr` | `intr.c`, `intr_asm.S`, `lowcode.s` | dispatch, the two 8259As, BIOS calls |
| `IntrProofs` | | flag, masks and controllers after every nesting |
| `FatFs` | `fsfat.c`, `fs_chdir` of `fs.c` | cluster chains, directories in memory, open files, the working directory |
| `FatFsProofs` | | reference counts and positions of directories, the working directory's path, what reads return |
| `MemFs` | `fsmem.c`, `fs_mount` and `fs_chdir` of `fs.c`, `mkdir` and `rmdir` | nodes, open nodes, mounts |
| `Serial` | `serial.c` | two UARTs, the receive rings, lines; the main program one memory access at a time |
| `SerialProofs` | | the receive rings, and that the handler returns |
| `Sound` | `audio.c`, `au_sb.c`, `dma.c` | detection of the card, playback by DMA, one port access at a time |
| `BootDev` | `bootdev.c`, `floppy.c` | sector accesses through the BIOS with retries, the floppy motor and its alarm |
| `Part` | `part.c` | the walk of boot records, composed with `BootDev` |
| `PartProofs` | | accesses, retries, the motor and the table's bound |
| `Printf` | `libc/stdio.c`, conversions of `libc/stdlib.c` | formatted output as a fold over the format |
| `Console` | `contty.c`, `s(n)printf` and `con_printf` | the text buffer, the visible screen and the cursor, composed with `Printf` |
| `CwdPath` | `fs_chdir` | the path string of the working directory, used by `FatFs` and `MemFs` |
| `MC*` | | instances for TLC |

Operators under a comment that starts with `Broken:` are variants of the definition below
them with a plausible mistake. Nothing uses them; `PROJECT.json` pairs each with the
property that notices when it replaces the original.

### State and actions

**PageAlloc.** `bitmap`, `bmwords` (`bmsize / 4`), `last_alloc_idx` are the code's. The
whole bitmap exists for all possible pages, but only its first `bmwords` words are reserved
by `init_mem`: the words above lie in pages that clients may own, so `owner_writes` may
change them. `holders` is a history variable (how many clients have a page). Every
operation disables interrupts and is one step, except `free_ppages`, which is a loop of
`free_ppage` calls: `freeing` is the rest of a loop, per context, and `irq_enter` may come
in between. `init_mem` is modelled with the wrap of 32 bit sums and with its clipped start
but unclipped size. Addresses are counted in 4 byte words.

**Heap.** `pool` is the free list in list order, `live` the blocks in use with their sizes
and the size the client asked for, `taken` the pages, `bad` the descriptors that somebody
has written over: a client that writes the bytes it asked for (`client_fills`) behind a short `realloc`, or
`malloc` itself, for a rest smaller than a descriptor. A walk of the list that meets such a
descriptor ends the behaviour (`walk_fails`), a `free` of its block is the code's panic. `TotalSize` and `BYTES_TO_PAGES` are sums
of 32 bits, and wrap: a request of the last sizes comes to no pages at all, and the model stops at the
descriptor that `malloc` then writes into a free page. Each call is
one step (see "Not modelled").

**Timer.** `evlist` is the list from `evlist` along `next`; each event has its heap
address, so that use after free is visible. The main program's `set_alarm` is two steps
(`malloc` runs with interrupts on, the insertion with interrupts off); inside an alarm
function it is one. `timer_handler` is `timer_tick`, then `timer_fire`/`timer_free` for each
event that is due, then `timer_done`; between fire and free the alarm function runs and may
call `set_alarm` and `cancel_alarm`.

**Keyboard.** The main program is followed load by load and store by store (`pc`); the
handler, which runs with interrupts off, is one step per byte. What is on the wire are scan codes: the handler looks them up in
its two tables `scantbl_set1` and `scantbl_set1_ext`, which are constants of any shape, so that several codes may share an
entry of `keystate`, 0 among them. `Extras` are what keyboards send besides one code per key: Pause, whose E1 the handler takes for a release, and
the shifts around extended keys. `wire` and `held` are the keyboard's side; `heard` (what each code's last byte was) and `extra` (one of `Extras` has been sent)
are histories. `tmp` and `res` are the registers of the compiled code.

**Intr.** `frames` is the stack of interrupt frames. Entry and return are one step each;
between them the handler may acknowledge early, enable interrupts (`Enabling` says when),
raise exceptions or call the BIOS. `irr`, `isr` and `masked` are the PICs', with fully nested
priorities, cascade, non-specific end of interrupt and spurious requests. `mask_irq` and
`unmask_irq` are two steps (`inb`, `outb`). `int86` is four: it writes the flag to its static `saved_if` with interrupts as they are,
disables them and saves the masks, programs the controllers again after the BIOS, and returns once it has read the keyboard's port; IRQs, and with
`Bios = "any"` other calls of `int86` from their handlers, come between the first two. `entering` has the depths that are in that window, `bios` is the
call behind it. `kb_full` is a byte in the keyboard's port, for which the keyboard raises its line once.

**FatFs.** `disk` is the mounted file system: its type, the bytes of the FAT and the raw directory
entries by cluster; a byte of a file is identified with its place on the disk, so that a read that
returns the wrong byte is visible. Names are sequences of pieces: `fs_path_next` cuts a path's name that is longer than `MaxName`, and
loading a directory with such a name ends the behaviour, since `dent_filename` writes it past its buffer. Positions are reckoned modulo `PosMod`, the sum of a
seek from the end as an unsigned one, as in the code. `dirs` are the `fat_dir` structures by heap address with their
reference counts, `nodes` the open nodes (a file keeps position, current cluster and the state of its
cluster buffer), `cwd` and `cwdpath` the working directory of `fs.c`. Each call is one step, since nothing
here runs in a handler: `open` walks the path as the loop in `fsfat.c` does, including the directories
it frees and leaks on the way, and any of its directory reads may fail. `exact` and `seen` are histories
of what clients have been given.

**MemFs.** `mn` are the `memfs_node`s with the code's links (`parent`, `next`, `clist`, `ctail`); they are
never freed, a file's `data` is. `fsn` are the `fs_node`s by heap address; a node's `fsnode` is the address of
the first one opened for it, and stays when that is closed. What is then read there is the old contents, those of the new `fs_node` when
the address has been given out again or, once the heap has given it to any other block (`reused`), `Unknown`: a walk that
takes that for a mount is `astray`, and `open` then calls what it finds there, which ends the behaviour. `realloc` may return up to a descriptor less than a file asks
for (`Reallocs`); a write past that ends the behaviour too. `ideal`, `due` and `mounts` are histories: what was written, what a listing
still owes, what is mounted where. Each allocation inside `open` may fail. `uses` is the set of operations of the
program that runs; it never changes.

**Serial.** `port` holds the fields of `ports[]`, `linebuf` the used part of the static buffer of `ser_getline`.
A received character is named by its position in `rx`, so that a lost, repeated or old one is visible. The main program
goes from one use of `inbuf_ridx`/`inbuf_widx` to the next (`pc`); `recv_intr` is one step, serves both
ports whichever raised the interrupt, stores into the ring also while `ser_open` clears it: its
`memset` goes store by store, `WORD` characters of `inbuf` at a time and then the two indices (`zero_inbuf`, `zero_ridx`, `zero_widx`). The handler spins for ever (`status = "spin"`) when a UART it empties never
becomes empty: under an open divisor latch its data register is not the receiver's. `prog` is the program of a run:
its ports, the functions it calls and what arrives.

**Sound.** `sb_detect` (reset at each port, version, IRQ and DMA from the mixer or forced into it) is one step, with the card
as input. After it the main program's calls are sequences of port writes (`todo`), each preceded by a poll of
the DSP's busy bit; the handler comes between any two. In the handler, starting the next transfer and
acknowledging the card are two steps, since the next transfer may end between them. `dsp`, `dma`, `line` and
`pic` are the card, the DMA controller and the interrupt line as the driver uses them.

**BootDev, Part.** A call (`req`) is one BIOS access per step, each of which the BIOS may refuse. What it transfers is
computed from the registers the code packs, so that a wrong bit is a wrong sector. `alarms` are the events of
`floppy_motors_off` on the list of `timer.c`, each by the ticks it has left, and `evlist` is what `cancel_alarm` has made of that list: it is `"sound"` until an access cancels
the motor's alarm at the head of it, which is freed and stays there (`"freed"`), so that the next alarm goes behind it or gets its memory and is
linked to itself (`"cyclic"`), or cuts off those in front (`"cut"`). Only with `Others`, when the program has an alarm that is due earlier, is the motor's not the head. Ticks come between BIOS accesses. `Part` reads each boot record through
`bdev_read_sect` and stores entries with `first_ebr_offs`, `num_bootrec` and `sidx` as in the code; `table` may
grow past `ptabsz`, as the code's array access does. A program that only reads sectors and one that walks the partitions are the two `Uses`.

**Printf, Console.** `intern_printf` is the fold of `FormatChar` over the characters of a format, on the same local variables;
its result is the sequence of its calls of `bwrite`. Numbers are `WordBits` wide. `Console` sends it to the
screen character by character, or to the buffer of `snprintf` with its limit. `con` is the text buffer, the
cursor and the CRT controller's registers; `term`, the reference, is a plain terminal without a sliding window;
`stale` counts the top lines that a wrap of the window got wrong (section 5).

## 3. Runs

Most invariants are conjunctions of named parts, one of them the module's `TypeOK`; the parts are in
brackets.

Passing runs:

| run | checks | instance |
|---|---|---|
| `PageAlloc` | `TypeOK`, `HintSound`, `SingleHolder`, `BitmapReserved`, `NoSpuriousPanic`, `HeapFirstFit` | 8 pages, 2 per bitmap word, five memory maps (plain, with a hole, tight, wrapping, empty), runs of 1 and 2 pages, a direct range call above the useful bitmap |
| `Timer` | `ListInv` (`ListIsAllocated`), refinement `ImplementsAlarms`, liveness `AlarmIsCalled` | 3 events, 2 functions, delays of 1, 2, 3 ticks and one that wraps to 0 |
| `Heap` | `HeapInv` (`NoOverlap`, `PoolSorted`) | 2 pages of 8 words, descriptors of 2 words, requests that leave a rest smaller than that among them |
| `Keyboard` | `KeystateInv` (`AnyKeyIsSeen`, `KeystateIsExact`), refinement `ImplementsQueue`, liveness `WaitReturns` | ring of 4, keys that differ only in the prefix, two codes of one key, Pause, repeat on; interrupts at any access while there is room for a key, between calls always |
| `Intr` | `MainInv` (`MainFlagKept`, `MasksAsAsked`), `PicsIdle`, `KeyboardNotStuck`, action property `HandlerServesRequest`, liveness `UrgentIsServed` | the keyboard's line and one of the slave, an exception and a trap, nesting of 2, BIOS calls of the main program |
| `MemFs` | `TreeInv` (`ListsAreSound`, `EntriesAreUnique`), `ReadIsExact`, `ListingIsComplete`, `MountsAreCrossed` | four nodes, three open ones (the working directory's among them), three programs: files, trees, mounts |
| `FatFs` | `FileInv` (`CurClustMatches`, `ReadIsExact`), `RefsAreCounted`, `ListingIsExact`, `CwdMatches` | a FAT16 and a FAT32 disk, two handles, eight paths, five directories to change to, failing directory reads; names of up to 2 pieces, positions modulo 16 |
| `Serial` | `RingInv` (`NothingStale`, `RingIsExact`), `TextInv` (`LineIsExact`, `SentIsWritten`), `HandlerReturns`, liveness `CallsReturn` | rings of 4 that are cleared in two stores, lines of 3, FIFOs of 2; five programs: reading, lines, opening and closing one port and two, writing |
| `Sound` | `DetectInv` (`DetectedMatches`), `PlaybackInv` (`BufferIsPlayed`, `NoStall`) | every setting of a card's IRQs and of five DMA channels, with a writable and a fixed mixer, an old card at two ports, no card; playback of buffers of 1, 256 and 65536 bytes on two cards |
| `Part` | `AccessInv` (`GeometryIsRight`, `TransferIsExact`, `RetriesSuffice`), `MotorWillStop`, `TableInv` (`TableIsRight`, `OverrunIsBounded`), action property `MotorStaysOn`, liveness `WalkEnds` | floppies, disks of 255 to 1024 cylinders, one with LBA; up to three BIOS errors in a call; another alarm of the program that may be due before the motor's; 252 disks, well formed and not, tables of 0, 1, 3 and 8 entries |
| `Console` | `ScreenInv` (`ScreenIsExact`, `CursorMatches`), `FormatIsRight`, `FittingTextIsExact` | 10 by 3 characters in a buffer of 6 lines, two attributes, all control characters, up to four calls |

One run ends in a counterexample, against an assertion in the repository:

| run | property | what happens |
|---|---|---|
| `TimerCancel` | `NoDoubleFree` | cancelling the first alarm frees it but leaves it on the list; the next `cancel_alarm` of the same function frees it again |

### Other instances

Eleven more instances end in a counterexample too, each against what a comment, a header or an assertion says of the code; one more passes. Those with a
`.cfg` of their own are here to be run (`tlc -config HeapRealloc.cfg MCHeap`).

| instance | property | what the repository says | what happens |
|---|---|---|---|
| `HeapRealloc.cfg`, `MCHeap` | `NoCorruption` | the assertion "corrupted magic" (`libc/malloc.c:159`) | `realloc` compares the size asked for with one that counts the descriptor (`libc/malloc.c:335`); the block it returns as it is is too small, and a client that fills it overwrites its neighbour |
| `KeyboardPause.cfg`, `MCKeyboard` | `AnyKeyHeld` | `KB_ANY` tests "if any key is held down" (`keyb.h:57`) | each E1 of Pause lowers `num_pressed` (`keyb.c:261`): it is 0 afterwards while a key is held |
| `KeyboardShared.cfg`, `MCKeyboard` | `EveryKeyHeld` | "the current state of a particular key" (`keyb.h:56`) | two keys share an entry of the table (4a and e0 35, 54 and e0 37, `kbscan.h:28-40`); the release of one clears it while the other is held |
| `MCKeyboard`, `Keyboard.cfg` with `Preempt = "any"` | `OnlyOldestDiscarded` | an overflow discards "the oldest keypress" (`keyb.c:284`) | two presses into the full ring inside `ADVANCE` lose all keys (`keyb.c:165`) |
| `FatFsSeek.cfg`, `MCFatFs` | `CurClustMatches` | "cluster number corresponding to cur_pos" (`fsfat.c:159`) | `read` to the end sets `cur_clust` to -1 (`fsfat.c:593`), and a seek within the last cluster keeps it (`fsfat.c:526`) |
| `FatFs12.cfg`, `MCFatFs` | `CurClustMatches` | the same, and "odd entries end up on the high 12 bits" (`fsfat.c:879`) | `READ_FAT12` indexes 16 bit words with the byte offset and tests that offset's parity (`fsfat.c:876`) |
| `MemFsMount.cfg`, `MCMemFs` | `OnlyMountsAreCrossed` | "check if it's another filesystem hanging off this directory" (`fsmem.c:179`) | without any mount: a directory's first open node was closed (`fsmem.c:264`), its memory has another use, and `open` calls what it finds there |
| `SerialReopen.cfg`, `MCSerial` | `OverflowDropsOldest` | "we overflowed, drop the oldest" (`serial.c:333`) | a port closed while the other was open is opened again: an overflow between the `memset`'s last two stores (`serial.c:151`) leaves a ring full of characters nobody sent |
| `FloppyAlarm.cfg`, `MCPart` | `NoDoubleFree` | the assertion "double-free" (`libc/malloc.c:157`) | `bootdev.c:97` cancels the motor's alarm at the head of the list, `set_alarm` gets the same memory, and the event is linked to itself and freed twice |
| `SnprintfEnd.cfg`, `MCConsole` | `NothingPastSize` | `sz` is there "to avoid buffer overflows" (`libc/stdio.c:152-153`) | the terminator of a text that just fills the buffer is written behind it (`libc/stdio.c:364`) |
| `SnprintfBound.cfg`, `MCConsole` | `OutputIsBounded` | "optional maximum size of the output, 0 means unlimited" (`libc/stdio.c:152`) | when `sz` characters are counted the size left is 0, which is unlimited, and then wraps (`libc/stdio.c:161`) |
| `IntrNested.cfg`, `MCIntr` | `PicsIdle` | | passes: handlers that call the BIOS too (none does), also between the two steps of `int86` that save the flag and disable interrupts; `MainFlagKept` does not hold there, since `saved_if` is overwritten |

### Bounds, and why they are enough

* `PageAlloc`: four bitmap words let the hint be below, inside and above a run that crosses
  words; `TightMap` is the case in which the unreserved words lie in allocatable pages. `MaxHolders`
  stops clients from overwriting the bits of pages that are already shared above the useful
  bitmap, which would let counts grow without end. The proofs need none of these bounds.
* `Timer`: three events make a list with a head, a middle and an end; delays 1 to 3 give all
  orders and ties. `CancelHead = FALSE` keeps clients of the passing run from cancelling the
  first alarm, which `TimerCancel` shows to be wrong.
* `Heap`: two adjacent pages of 8 words hold up to four blocks; requests of 1, 3, 5 and larger
  give exact fits, splits, joins at both ends, blocks that span both pages and, with 5, a rest at a page's end that is smaller than a descriptor.
* `Keyboard`: four places give empty, full and wrapped rings; two keys that share a scan code but for the
  prefix byte exercise the pressed table, one of them standing for alt and ctrl and the other for delete. Two more codes are one key, as 4a and e0 35 are. Two
  users keep the state space a sum: one types on the first two keys for ever, the other uses all of them and Pause but presses three times only, while the
  program only looks for keys (`MCKeyboard`). `Preempt = "room"` leaves out the
  interrupts that come inside `ADVANCE` when the ring is full. `MaxWire`, `MaxPressed`, `MaxUnread` bound how
  far the user is ahead of the driver.
* `Intr`: lines 1, the keyboard's, and 15 cover both PICs, the cascade and the spurious stubs of 7 (by line 1's withdrawn
  request) and 15. Two frames are enough for an IRQ in an exception, an exception in an IRQ
  and an IRQ in an acknowledged IRQ.

* `FatFs`: clusters of two bytes, so that reads of 1 and 3 bytes end inside, at and behind a cluster; a
  file of three clusters that are not in order on disk, a directory of two clusters whose long name
  crosses them, a file that fills its clusters. `MaxDirs = 4` is memory for the root directory, the working
  directory and two more; when it is used up (leaks included) `open` panics, as the code does. `CwdSize = 6`
  lets the path overflow. With `PosMod = 16` the sum of a seek from the end can pass 0. `Seeks = "safe"` leaves out seeks after a read has reached the end, and those past the end;
  no path is `.` alone (see section 5).

* `MemFs`: four nodes are a root with three entries (an only, a first, a middle and a last one to remove), or a root,
  a mount point, a mounted root and an entry in it. Files of up to 3 bytes, written in pieces of 1 and 2, take both branches
  of the growth rule. Three programs instead of one that does everything keep the state space a sum where it would be a
  product: content and positions do not depend on the tree's shape, nor listings on mounts. Names
  are one upper case, the same in lower case, and two others. `MountOn = "own"` keeps programs to mounts on a directory's first open node,
  at an address no other node remembers, and from closing it (see section 5). `reuse` is another block that gets a closed open node's memory.

* `Serial`: a ring of four holds three characters, and up to six arrive, so that it wraps and overflows; a FIFO of two
  lets one interrupt take more than one character. `WORD = 2` gives the `memset` two stores for the ring and one for each index. Lines of three fill `linebuf`. Five programs instead of one keep
  the state space a sum: lines and writing do not interact with closing. `MaxSent` bounds what is written.
* `Sound`: `Sizes` has the smallest buffer, one that needs the second byte of the count, and the largest. Playback is explored on
  two cards (`Audible`), one configured and one whose settings the driver forces: the rest of the driver does not depend on how they were found.
* `Part`: `Others = TRUE` lets the motor's alarm be cancelled with another one in front of it, the case in which that works. `MaxFaults = 3` is one more error than a read forgives. `MotorTimeout = 2` lets an alarm be renewed before, at and after
  the tick that would fire it. 255, 256 and 257 cylinders are around the first overflow of a register, 600 and 1024 use its upper bits. `MaxRecords = 6` ends walks of cyclic chains, which
  the code would follow for ever; chains of well formed disks have three at most.
* `Console`: 6 buffer lines under a screen of 3 let the window slide and wrap within four calls; with `RegSize = 8` every
  address needs both bytes of a register. `WordBits = 16` keeps the smallest number within TLC's integers with room for its negation.

### Fairness

* `Timer`: weak fairness of the handler (the 8254 ticks, alarm functions return) and strong
  fairness of the insertion (between ticks the main program runs).
* `Keyboard`: the main program's steps, the controller's interrupt and the timer's interrupt,
  when enabled. `WaitReturns` needs the timer: a key that comes between the last look and `hlt`
  wakes nobody, the next tick does. `init_timer` runs before the first `kb_wait` (`kmain.c`).
* `Intr`: the processor takes a deliverable interrupt (strong: delivery comes and goes with the
  flag), handlers return at each depth, `mask_irq` gets past its `outb`, a BIOS call returns, `int86` gets from its first step to its last, and the main program
  does not keep interrupts off for ever.
* `Serial`: the main program's steps, the receive interrupt when it is pending (the driver never disables interrupts outside it), and
  the UART's transmission of a character.
* `Part`: the walk's steps and the BIOS's answers. Ticks need no fairness: that a motor has an alarm is an invariant, and
  that alarms are called is what `Timer` shows.

## 4. Proofs

Eight modules hold proofs. What they state holds for every value of the constants that satisfies the module's `ASSUME`s
(positive sizes, sets of the right kind; TLC evaluates them in the runs) and the hypothesis in the third column.

| module | theorem: property | hypothesis |
|---|---|---|
| `PageAllocProofs` | `TypeCorrect`: `TypeOK`; `HintIsSound`: `HintSound`; `PagesHaveOneHolder`: `SingleHolder`; `BitmapStaysReserved`: `BitmapReserved`; `NoPanicOnTrackedPage`: `NoSpuriousPanic`; `HeapIsFirstFit`: `HeapFirstFit` | |
| `HeapProofs` | `HeapIsSound`: `HeapInv` | `NonEmpty` |
| `TimerProofs` | `ListIsSound`: `ListInv`; `NothingFreedTwice`: `NoDoubleFree`; `TimerImplementsAlarms`: `ImplementsAlarms` | `~CancelHead` |
| `KeyboardProofs` | `KeysAreDecoded`: `AnyKeyIsSeen`, `KeystateIsExact` | |
| | `KeyboardIsSound`: `KeystateInv`; `KeyboardImplementsQueue`: `ImplementsQueue`; `OldestIsDiscarded`: `OnlyOldestDiscarded` | `Preempt = "room"` |
| `IntrProofs` | `MainIsUndisturbed`: `MainInv` | `Bios # "any"` |
| | `KeyboardIsHeard`: `KeyboardNotStuck` | |
| | `ControllersAreIdle`: `PicsIdle`; `HandlersServeRequests`: `HandlerServesRequest` | `Enabling # "any"` |
| `PartProofs` | `AccessesAreExact`: `AccessInv`; `MotorIsStopped`: `MotorWillStop`; `MotorRunsOn`: `MotorStaysOn`; `TableIsCorrect`: `TableInv`; `TableOverrunIsBounded`: `OverrunIsBounded` | |
| `SerialProofs` | `HandlerAlwaysReturns`: `HandlerReturns`; `RingsAreExact`: `RingInv`; `TextIsExact`: `TextInv` | |
| `FatFsProofs` | `ReferencesAreCounted`: `RefsAreCounted`; `CwdPathLeadsToCwd`: `CwdMatches` | |
| | `ListingsAreExact`: `ListingIsExact` | `Named` |
| | `FilesAreRead`: `FileInv` | `WellFormed`, `Direct`, `Seeks = "safe"`, `"file" \notin Failures` |

The hypotheses are where the code is wrong without them, and what the passing runs assume too:

* `NonEmpty`: no request that clients make comes, with its descriptor, to no pages: neither does the sum wrap to 0, nor is it within a page of 2^32, where
  the rounding (`mem.h:25`) wraps. `malloc` checks neither; the code then writes descriptors into memory that is not the heap's (section 5).
* `~CancelHead`: no client cancels the alarm that is next to fire; the `TimerCancel` run shows what happens otherwise. `NothingFreedTwice` is
  the property of that run, so that this is the only way to it.
* `Preempt = "room"`: the keyboard interrupts `kb_getkey` and `kb_putback` only while there is room for a key (section 5).
* `Bios # "any"`: no handler calls `int86`; none in the repository does. One that did, in the window before the `cli` of the main program's call, would overwrite `saved_if`.
* `Enabling # "any"`: no handler enables interrupts before it has acknowledged its own; none in the repository does.
* `Named`: no path that clients open consists of `.` alone; such a handle shares the working directory's position.
* `WellFormed`: the disk is FAT16 or FAT32, a cluster of a chain is followed by another or by the end, what a directory names as a file has every
  cluster its size needs, and what it names as a directory is one. Chains may still share clusters, and directories may lead anywhere.
* `Direct`: the files that clients open are in the root or the working directory (`open` copies the entry of any other from memory it has freed).
* `Seeks = "safe"`: clients seek inside the file, and back to an earlier cluster once they have read to the end. `"file" \notin Failures`: clusters of files can be read. Directories
  may fail to be read. TLC evaluates `WellFormed` and `Direct` for the disks and paths of its runs (`DisksAreSound` in `MCFatFs`).

### The arguments

Each proof rests on an inductive invariant (`IInv`; `TypeInv`, `FlagInv`, `MaskInv` and `EoiInv` in `IntrProofs`).

* **PageAlloc.** A `free_ppages` loop stays
  in the address space (`FreeingInRange`); the pages that store the useful bitmap have bits of
  their own in it (`RoomInv`), so that reserving them means something; none of them is held or
  about to be released (`ReservedInv`); a page that is held, or that an interrupted loop has yet
  to release, is marked used, and no page is in two loops (`HeldInv`). The last makes `SingleHolder` inductive:
  an interrupt handler can only allocate pages the loop has already passed. `RoomAssumption`: memory is larger than the kernel and the
  bitmap in front of it, since otherwise the bitmap would lie outside memory.
* **Heap.** `NoOverlap` and `PoolSorted` speak of sets of words; the invariant speaks of the ends of blocks (`Apart`, `Beside`, `Sorted`), which arithmetic can follow through
  splitting a block, through taking pages, and through the walk of `free` that inserts and joins.
* **Timer.** `Good` says that events on the list are distinct, no delta is negative, and between ticks the first is at least 1; `PlaceInv` that an event is
  on the list, being set up, or being fired, and never two of these. For the refinement, an alarm's remaining time is
  the sum of the deltas up to it: lemmas say what an insertion, a removal and a tick do to every such sum.
* **Keyboard.** `DecoderInv`: as long as nothing but codes of keys has been sent, the bytes on the wire turn what `heard` has of each code into the keys that are held, and `num_pressed` counts at least those
  heard. The pressed table follows from `heard`, for any two tables of codes: an entry is set only if a code that leads to it is heard, and an entry with one code is that code's. `RingInv` says, for each place in `kb_getkey` and `kb_putback`, what the registers still have to do with the indices after the handler
  has moved them; the contents of the ring, normalised for the half-done `ADVANCE`, are the queue.
* **Intr.** The main program's flag is in the processor or in the lowest frame; a mask change in progress leads to the masks asked for;
  an interrupt that is not acknowledged is the one in service, belongs to the topmost IRQ's frame, and keeps interrupts off. The last fails with `Enabling = "any"`. Between the write of `saved_if` and the `cli` the flag that `int86` will
  restore is the one the program will have there: handlers give it back, and none writes `saved_if`. A byte in the keyboard's port keeps its request, because only `init_pic` takes requests back without reading it, and `int86` reads the port after that.
* **BootDev, Part.** The registers' fields are packed and unpacked by arithmetic lemmas; `errs` equals the tries made. While the list is sound there is at most one alarm of the motor, with as many ticks left as
  the timeout has after the ticks since the access began (`OneAlarm`); nothing makes the list sound again once a head has been cancelled, so that the two properties of the motor are about behaviours without that. The table has as many entries as partitions were counted, and fewer than its size before each boot record is read. On a well formed disk
  the sector being read is the next of the chain of extended boot records, and the table is the list expected of the records read so far; that list is defined by a recursion along the chain, and the walk by another over each record's entries.
* **Serial.** The ring holds the characters numbered upwards to the last one taken from the FIFO, all of them later than `ser_open`, and as many as `inbuf_ridx` says, unless an overflow has interrupted `ser_getc` (`"raced"`) or the last two stores of `ser_open`'s `memset` (`"torn"`);
  for each place in `ser_getc` its registers agree with the ring, and at each place in the `memset` nothing is claimed of the ring, but that the indices are in range and the port is not open yet; the last store
  empties it, whatever the handler has put there. `Alone`: before both ports have been open, an enabled UART has an open port, and an open divisor latch is that of the `ser_open` in progress.
  For text (`OutInv`, `GetlineInv`): what was sent, what is in the transmitter and what `ser_puts` has still to send make up what was written; as long as nothing has been lost, `linebuf` is what `ser_getc` took since the last
  line's end, and the ring and the FIFO hold what comes after it.
* **FatFs.** A walk's directory is the root, the working directory, or one it has loaded itself, which nothing refers to and whose count is 0 (`WalkInv`), at every name of the path. `CountInv` is then
  kept by `open`, `close` and `fs_chdir`, also when `fs_chdir` ends where it began. For listings: two handles never have the same directory, nor the working directory's, since only a path of dots ends where a walk starts.
  For the path (`CwdInv`): a walk is where its names so far lead (`Goes`), `chdir` with a relative path appends to the names that led to the working directory, and `..` walks the shorter path from the root again.
  For files (`DiskInv`, `FileOk`): `cur_clust` is the member of the chain that the position asks for, or -1 at the end, and a valid buffer holds it. A seek follows the chain from its start or goes on from the present
  cluster (`FollowOn`), a pass of `read`'s loop extends the bytes read so far by the next ones of the file (`PassReads`), and
  the loop makes as many passes as it may need. What `open` hands out was found in a directory of the disk (`OnDisk`), and was copied after that directory had been freed only if a name before it led there.

Recursive functions (a walk along a path, the loop of `read`, the emptying of a FIFO, the sums of deltas) are reasoned about by least counterexample:
the modules that need it derive it from `WFMin` and the well-foundedness of `<` (`LeastExists`, `UpTo`), and show that the recursion has a
solution before it uses its equation.

### Model-checked only

* Liveness: `AlarmIsCalled`, `WaitReturns`, `UrgentIsServed`, `CallsReturn`, `WalkEnds`. Fairness and `ENABLED` are outside the prover.
* The invariants of `MemFs`, `Sound` and `Console`: the runs cover them. The formatted output of `Console` is defined by recursion over text, which would take induction over data.

## 5. Further divergences between code and comments

Met while modelling. Those that an instance of section 3 shows are listed there and not repeated. Where a model stops at one of these, or a property leaves it out, it says so.

Memory, timer, keyboard, interrupts:

* `alloc_ppage_range` leaves interrupts disabled on its error path (`mem.c:248`); `alloc_ppages`
  repairs it on its own exits, and nothing else calls it. `PageAlloc` models it so.
* `init_mem` raises the start of a range that begins below the kernel's end but adds it with its full size
  (`mem.c:105`), so that pages of a hole behind the range become allocatable, while the comment on
  `free_ppage` has them "originally reserved" (`mem.c:157`). `HoleMap` is such a map.
* When the useful bitmap ends with its page, ranges that run past the last useful word read
  bits from pages clients own (`mem.c:129`). `SingleHolder` therefore speaks of the pages of the useful bitmap.
* Allocating a whole free block drops what it is larger than the request (`libc/malloc.c:117`);
  those bytes never come back.
* A rest smaller than a descriptor goes to the free list when the request leaves exactly that
  (`libc/malloc.c:136`); its descriptor runs into the next page, whose block overwrites it later. `Heap` marks both.
* The rounding of a size to pages wraps (`mem.h:25`): a `malloc` of within a page of 4 GB asks for no page, which `alloc_ppages` finds at any free one, and writes a descriptor
  there and another in front of it. `Heap` stops there (`"no pages"`).
* A delay of less than one tick is dropped silently (`timer.c:95`).
* Typematic repeats raise `num_pressed` but only one release lowers it (`keyb.c:271`), so that
  `kb_isdown(KB_ANY)` stays true; `AnyKeyIsSeen` therefore asks only that it is true while a key is down.
* All codes that stand for no key share entry 0 of the table (`kbscan.h`), and go into the ring as key 0.
* The flag is copied to a static before interrupts are off (`lowcode.s:49-50`): a handler that called `int86` in between would change the main program's flag. None does.
* What the BIOS, or `int86` itself, reads from the keyboard's port (`lowcode.s:183`) is lost to the driver; a key whose release it was stays down in the table. `Intr` has the
  byte but not what it says, and `Keyboard` has no BIOS calls.
* `cur_intr_frame` is not restored after a nested interrupt (`intr.c:132`); nothing reads it.
* One `eoi_pending` serves all nested frames (`intr.c:148`): a handler that enabled interrupts before it
  acknowledged its own would leave the PIC waiting (`Enabling = "any"` shows it). No handler in the
  repository does so.

File systems:

* The position of a seek from the end is an unsigned sum (`fsfat.c:512`), so that one before the start is near 4 GB instead of the 0 that line 519 is there for.
* `dent_filename` writes a long name of any length to a buffer of `MAX_NAME` bytes (`fsfat.c:825`). `FatFs` stops there; `fs_path_next` cuts the names of paths (`fs.c:260`).
* A read at a position past the end of a file, still in a cluster that `cur_clust` names, copies a negative
  number of bytes (`fsfat.c:584`); a cluster that cannot be read goes unnoticed (`fsfat.c:574`).
* `open` copies the entry it found out of a directory it has just freed (`fsfat.c:425`, `451`), opens a
  directory it failed to load as a file (`fsfat.c:423`), and leaks the directory it stands in when a name
  further down is missing (`fsfat.c:409`). The model has all three.
* Opening `.` shares the working directory's `cur_ent` with every other handle opened that way.
* A memory file system's node remembers the first `fs_node` opened for it also after `close` has freed
  that (`fsmem.c:251`, `264`). A mount made on any other `fs_node` of the directory is therefore not crossed, and a
  mount made on an `fs_node` that got a freed address appears on the other directory too, which may be the
  root after the first `chdir`. `MountOn = "any"` makes TLC show `MountsAreCrossed` violated; that other blocks get such an address needs no mount at all (`MemFsMount`).
* `remove` frees a file's data while other handles point to it (`fsmem.c:454`), and nodes are never freed; `read` behind the
  end copies a negative number of bytes (`fsmem.c:333`), and a file that grows may get less than it asked `realloc` for (`fsmem.c:359`). The model stops there.
* `rmdir` removes files too and returns 0 also when nothing was removed (`libc/unistd.c:51`); `rename` does not look for an
  entry of that name (`fsmem.c:412`); creating `..` in a root directory makes an entry of that name (`fsmem.c:499`).
* `mtab_remove_node` leaves `mnt_tail` and `mnt_count` as they were (`mtab.c:54`); nothing calls it.
* `fs_chdir` checks the length of the new path without its separator and terminator (`fs.c:112`), and keeps
  `..` inside paths as it is, so that `chdir("a/..")` followed by `chdir("..")` ends in `a` (`fs.c:87`).

Serial port:

* `ser_close` disables a UART's interrupts only when it closes the last port (`serial.c:164`). After two ports have been open the
  closed one goes on interrupting, also during the `memset` of the next `ser_open` (`serial.c:151`), and then the handler may find its divisor latch open and wait for ever.
  `HandlerReturns` is therefore about programs that have not had both ports open.
* An overflow while `ser_getc` is between reading and storing `inbuf_ridx` moves the index back (`serial.c:248`); `RingIsExact` excludes
  that case (`ovf = "raced"`), and the overflow of `SerialReopen` (`"torn"`).
* `linebuf` is one static buffer for both ports. A line of its full length writes the terminator behind it and no later line is ever found;
  on a blocking port `ser_getline` returns only when the buffer is full (`serial.c:279`).
* `ser_getc` returns a `char`: the byte 0xff is taken for "nothing there".

Sound:

* A stream that ends in the handler is not acknowledged at the card (`au_sb.c:228`), and an acknowledgement that follows the start of the next
  transfer may clear that one's interrupt; `NoStall` excludes both (`lost`).
* `audio_stop` does not end the stream: a transfer that is running goes on to ask for the next buffer. Starting while something
  plays, as `test/vbetest.c:113` does, may interleave two commands at the DSP (`raced`).
* When only one kind of DMA channel is set on the card, the one found is replaced by a default (`au_sb.c:343`).
* Interrupt 2 of the card arrives as 9 on an AT; DSPs before version 4 do not know the commands sent; the ports computed
  for channels from 4 on are not those of the second controller; `audio_play` without a device calls a null pointer; a pause
  that meets the end of a buffer is lost.

Boot device and partitions:

* `calc_chs`'s caller takes the two upper bits of the cylinder from `>> 10` (`bootdev.c:268`), so that cylinders from 256 on are
  read at their lower eight bits; `TransferIsExact` speaks of those below.
* Every access to a floppy cancels the head of the list of alarms, unless the program has set an earlier one (`bootdev.c:97`): after the second access
  within the timeout the alarm may be freed twice, called twice, or make `set_alarm` search for ever. `BootDev` has all of these as ends of the behaviour.
* An access that lasts longer than the motor's timeout leaves the motor on without an alarm (`bootdev.c:98`).
* Accesses by LBA are not retried. The branch for a partial read cannot be taken.
* A partition behind the extended one in the master boot record is not marked primary (`part.c:105`), and the starts of logical partitions count
  from the first extended boot record and not from their own (`part.c:108`).
* The size of the table is only looked at between boot records: it is overrun by one entry, or up to the four of the master
  boot record. A chain that leads back to itself is followed for ever when nothing fills the table (`part.c:115`).

Console and formatted output:

* A wrap of the text buffer copies from an offset in cells where bytes are needed (`contty.c:248`): until they have scrolled off, the top lines
  show something else. A tab advances by `(x & 7) + 8`. `con_curattr` hides a cursor that should be visible and writes its
  start line to the register of the end line. `con_printf` with an empty result prints an unterminated buffer.
* The flags `-`, `+` and unsigned stay set for later conversions, while the comment "restore default conversion state"
  covers them (`libc/stdio.c:291`). `%%` prints nothing. Sign and `0x` do not count in the
  width, and zeros are put before a minus. The smallest `int` and negative octal numbers come out wrong. Long long and floating
  conversions take one argument word and none (`part.c:129` uses `%llu`). `FormatIsRight` is about the conversions that
  remain (`Regular`).
* What `snprintf` writes when the text does not fit is in `SnprintfEnd` and `SnprintfBound`; `FittingTextIsExact` is about texts that do, with their terminator.

## 6. Not modelled, and the plan

Not modelled because there is nothing for a model checker in it: PCI enumeration and VBE (print
what they read), segment descriptors and start-up code (constants, straight line), the mode
switch inside `int86`, the register dump of `panic`, string functions.

Outside the present abstraction: interrupts inside `malloc` and `free`; the keyboard controller's
command byte (`get_ccb`, `set_ccb`); `FILE` and `DIR` over the file systems; the mouse; the clock and the calendar; the
boot loader. `qsort` (`libc/stdlib.c:259`) is not modelled either; by reading, its partition loop does not end when two of at least four items equal the pivot.

Order of the next steps:

1. `Stdio`: `libc/file.c` and `libc/dirent.c` over the promises of the file systems.
2. Mounts of a FAT file system on a memory file system, composing `FatFs` and `MemFs`.
3. `Mouse`: packets and bounds; the boot loader's reads, which repeat the scheme of `BootDev`.
4. Pure algorithms in one module: `qsort`, `strtol`, the calendar, each against a reference definition.
5. Heap with interrupts inside calls; the keyboard controller's command byte.
6. Proofs: `TreeInv` of `MemFs`, `DetectInv` and `BufferIsPlayed` of `Sound`, `ScreenInv` of `Console`.
