# VirtualMIPS in TLA+

VirtualMIPS emulates a JZ4740 board ("pavo") that boots a MIPS Linux kernel. One
host thread interprets guest instructions, a second one reads the virtual
terminals, a periodic host signal drives the timers, and nothing but the
terminal's buffer is protected by a lock. These modules model that machinery and
the sequential algorithms it rests on, check them with TLC and prove the most
important results with TLAPS for every value of the constants.

Paths below are relative to `src/emulator/`. Line numbers are those of this commit.

## Inventory

| Component | State | Operations | Interacts with |
|---|---|---|---|
| CPU thread (`mips/mips64_fdd.c`) | `cpu->state`, `pause_request`, pc | fetch, execute, take an interrupt, pause to run timers | everything below |
| Host alarm (`mips/mips64_hostalarm.c`) | none of its own | reads `cpu->state` and the timer list, stores `pause_request` | CPU thread |
| Timer service (`utils/vp_timer.c`, `vp_clock.c`) | `active_timers[]`, a linked list by `expire_time` | create, arm (`vp_mod_timer`), cancel, run a round | devices, alarm |
| Boot (`main.c`, `system/jz/pavo/pavo.c`, `jz/soc/jz4740.c`) | `vm->status` | create the CPU thread, build the devices, reset, start | CPU thread |
| Interrupt path (`pavo.c`, `jz4740_dev_int.c`, `mips/mips64.c`) | `INTC_IMR/IPR/ISR`, `irq_cause`, `irq_pending`, CP0 CAUSE and STATUS | `set_irq`, `clear_irq`, update the flag, trigger, `eret` | devices on both threads |
| CP0 and TLB (`mips/mips64_cp0.c`) | TLB entries, EntryHi, Index, PageMask, EntryLo | TLBP, TLBR, TLBWI, TLBWR, mtc0 | translation cache |
| Memory (`memory/mips64_memory.c`) | `mts32_cache` | lookup, fill, unmap, invalidate; loads and stores of all widths, unaligned ones too | TLB, devices, RAM |
| Instruction fetch (`mips64_fdd.c`) | `njm_exec_page`, `njm_exec_ptr` | fetch, fetch a delay slot | memory, exceptions |
| Instruction semantics (`mips64_codetable.h`, `mips64_exec.c`) | registers, LL bit | about 150 instructions | memory, CP0 |
| VTTY (`device/dev_vtty.c`) | a 4096-byte ring, the escape and telnet state | store, get, the reading thread | UART |
| UART (`jz4740_dev_uart.c`) | IER, FCR, LSR, `output` | register accesses, a 25 ms poll, the reader's notification | VTTY, interrupt path, timers |
| Watchdog and TCU (`jz4740_dev_wdt_tcu.c`) | counters, enables, flags, masks | register accesses, two callbacks | timers, interrupt path, board reset |
| NAND (`dev_nand_flash_1g.c`) | a command state machine, page buffers, a block table | command, address, data | image files, boot copy |
| CS8900 (`dev_cs8900.c`) | packet page, one receive buffer, a transmit state | port accesses, an adaptive poll | host network, GPIO interrupt |
| DMA, RTC, GPIO, LCD, touch screen, EMC, CPM (`jz/soc/*`) | register files | register accesses, some poll timers | memory, SDL |
| Device table (`device/device.c`, `system/vm.c`) | 64 slots | bind, unbind, look up by address | memory |
| Debugger (`gdb/*`) | the breakpoint list, a socket, the mode and the step flag | the check before each instruction, the remote protocol inside the CPU loop | CPU thread, GDB |
| Network I/O, SDL, memory pools, CRC, `tool/mknandflash.c` | descriptors, pools | library wrappers, a stand-alone tool | |

What is hard: shared words without locks (`cpu->state`, `pause_request`, the timer
list, `irq_pending`, CAUSE, IPR, LSR); a reset of the whole board from inside a
timer callback; interrupts latched while they are off and never re-evaluated; two
caches of translations that must follow the TLB; a ring filled and drained by two
threads; command state machines that take any order of guest stores. What is *not*
there: nothing is persisted but the flash files, there is one emulated CPU, and no
message can be lost between components (only between the stub and GDB, whose packets may arrive spoilt). `cpu_stop` and `vm_stop` have no caller, so
the HALTED state is never entered again after boot. `PROJECT.json` lists each hazard at its line.

What makes each part correct, in one line each:

- Timers: served in rounds, earliest first, none forgotten, no round endless; the list readable by the signal at any time.
- CPU loop: executes only on a finished board, always comes back from a pause.
- Interrupts: taken only when enabled, never lost for good, their cause readable by the handler.
- Translation: caches are invisible to the guest.
- Fetch: an instruction comes from where the MMU says, or an exception is raised.
- Console: characters reach the guest in order, and the guest is told of them; a transmitter is never left waiting.
- Instructions: a program runs as the architecture says, whatever interrupts it and whatever pages come and go.
- NAND, DMA, CS8900, touch screen: whatever the guest stores, no state leaks from one command to the next.
- TCU, LCD: the host timers follow the registers that start and stop them. RTC: its seconds are those of the calendar.
- Devices: the address is answered by the device that holds it.
- Debugger: no breakpoint is passed, no answer is taken for another, nobody waits for ever.

## Modules

| Module | Models | Proofs |
|---|---|---|
| `TimerQueue` | the list operators of `vp_timer.c` | `CpuLoopProofs` |
| `Deadlines` | abstract: what the timer service promises | |
| `CpuLoop` | CPU thread, alarm, timers, boot, watchdog reset; implements `Deadlines` | `CpuLoopProofs` |
| `IrqPath` | from `set_irq` to the exception, word access by word access | `IrqPathProofs` |
| `Tlb` | CP0's TLB: walk, probe, read, write | |
| `Translation` | abstract: each access walks the TLB | |
| `Mmu` | the translation cache over `Tlb`; implements `Translation` | `MmuProofs` |
| `Fetch` | the fetch cache, delay slots, exceptions of a fetch | `FetchProofs` |
| `VttyRing` | the terminal's ring buffer | |
| `BoundedFifo` | abstract: characters in order, refused only when full | |
| `Console` | VTTY thread, UART registers and poll, serial driver, over `VttyRing`; implements `BoundedFifo` | `ConsoleProofs` |
| `Flash` | abstract: an array of pages, what each operation answers and changes | |
| `Nand` | the NAND's ports, commands and buffers under a driver; implements `Flash` | `NandProofs` |
| `Decode` | the opcode tables | |
| `Alu` | the data instructions, and what the architecture says of each | |
| `MemOps` | loads and stores, and what the architecture says of each | |
| `Program` | branches, traps, and an instruction's effect | |
| `Arch` | abstract: a program alone on the architecture, branch and slot in one step | |
| `Interp` | the interpreter's loop, delay slots, exceptions, under a guest kernel; implements `Arch` | |
| `Gpio` | the ports' registers, as operators | |
| `Cs8900` | the network card, its pin and interrupt, the guest's driver | `DeviceProofs` |
| `WdtTcu` | timer 0, the watchdog, their host timers | `DeviceProofs` |
| `Dma` | transfers, descriptors, the copy in pieces | `DeviceProofs` |
| `Rtc` | the calendar, the alarm, the one-second poll | `DeviceProofs` |
| `Lcd`, `TouchScreen` | the display's and the pen's registers and polls, with the window | `DeviceProofs` |
| `Devices` | the device table and its list of pointers | `DeviceProofs` |
| `Debugger` | breakpoints, the stub's loop, the connection and GDB | `DebuggerProofs` |
| `MCCpuLoop`, `MCProcessor` | the loop, and guest programs for `Interp` | |
| `MCMmu` | the translation cache and the fetch cache | |
| `MCIrqPath`, `MCConsole`, `MCNand` | instances for TLC | |
| `MCBoard` | the devices and the debugger, composed | `DeviceProofs` |

### CpuLoop

`thread` is where the CPU thread is: `loop` (the test at the top of the `for`), `exec`
(an instruction), `switch` (the switch after the loop), `timers` and `callback` (inside
`vp_run_timers`), `reset` (inside the watchdog's callback), `link` (between the two
halves of `vp_mod_timer`), `resume` (before `pause_request` is cleared). `alarm` has the
handler's three reads and stores as separate steps. Guest instructions are what they do to timers.
`active` is the list as a sequence: the stores of `vp_del_timer` and of `vp_mod_timer` that
publish a change are one step each, with any step of the handler between them. The
handler runs on any thread the host picks; reading the list from the CPU thread between two
of its stores or from another thread sees the same lists.

- `ListSound`: the list is duplicate-free and ordered at each of those points.
- `ExecOnlyOnRunningBoard`, `PausedOnlyInRound`: the handshakes over `cpu->state` and `vm->status`.
- `ImplementsDeadlines`: refinement; a linked timer is an armed one. `Deadlines` says a round fires earliest first and closes only when nothing it should serve is left.
- `DueServed`: liveness. `pause_request &= ~CPU_INTERRUPT_EXIT` (fdd:206) may wipe out a request made since `cpu->state` went back to RUNNING; the next signal repeats it.
- `GuestProgress`: liveness. The guest is starved in one way only: by a signal that stores a fresh request, again and again, exactly between `Resume` and the loop's test (`RequestInTheGap`). No round goes on for ever, though the clock runs on while its callbacks arm timers, because a round's callbacks re-arm beyond the instant it was opened at; with `RunTimer` re-reading the clock a round need not end.

Bounds: three timers (one boot-armed, two guest-controlled, one of them the watchdog),
periods 1 and 2: timers expire together and apart, re-arm inside and beyond a round.
The clock has no bound. What the code does depends on how far dates lie from each other, so `MCCpuLoop` moves all dates in use
back together (`Transposes`), which makes the endless behaviours finitely many states; `Deadlines` tells deadlines from
now on, and does not see it. The bound is `MaxAhead`, how far the clock may run ahead of the oldest date in use: 4 ms, two of the longest period.
At the bound the oldest date must be served before the clock goes on.
Fairness: weak, per thread. The host schedules both threads and keeps delivering
the signal; nothing is assumed of which of two enabled steps comes first.

### IrqPath

Both threads run `pavo_set_irq`; `at[p]` is the next word access of thread `p`. The CPU
thread also clears, takes interrupts, raises exceptions, executes `eret`, mtc0, IMR and IPR accesses and is
reset by the watchdog. A mtc0 to COMPARE is `mips64_clear_irq`, whose read and write of `irq_cause` (`ClearLoad`, `ClearStore`) the other
thread may come between, then the update of the flag. STATUS is the set of its bits IE, IM2, EXL, ERL; CAUSE is IP2 and
an exception code (interrupt or another). The exception's vector and EPC are data and left out, as is INTC_ISR.

- `InterruptOnlyWhenEnabled`: `irq_pending` may be set late by the VTTY thread; `mips64_trigger_irq` looks again. It says nothing of an interrupt that a reset of the CPU leaves behind in `irq_cause` and that the rebooted guest is handed once it enables them; the model has it, no property forbids it.
- `LatchedServed`: once the guest idles with interrupts on and the console is quiet, a latched interrupt is not left for ever. `resting` marks the point from which the guest does nothing but idle and handle. Strong fairness: the CPU thread comes back to test `irq_pending` between instructions and the system timer fires again and again (this is what `CpuLoop` shows), a handler executes its `eret`.
- `ExcCodeStands` fails (run `irq_exc_code`): see Findings.

Bounds: two sources, one raised by either thread. More sources only add elements to IMR and IPR; the proof covers any number.

### Tlb, Translation, Mmu

Addresses are page numbers, physical ones frames. The walk takes the first matching
entry. `Mmu` adds the direct-mapped `mts32_cache`: an access is served from the
bucket if `mips_mts32_check_tlbcache` lets it, walks and fills otherwise.

What the guest must keep to, and does under Linux: it does not write a TLB entry that clashes with another
(undefined on MIPS); every physical page it maps is backed by a device or RAM (otherwise the
emulator exits). What the guest puts in EntryLo and PageMask is an input of TLBWI and TLBWR, the only instructions
that read them. Wired has no effect, as in the code.

- `CacheCoherent`: each cached line agrees with a walk in *every* address space it can serve; an mtc0 to EntryHi tells the cache nothing.
- `ImplementsTranslation`: refinement; outcome, fault and EntryHi of each access are those of a walk.

Bounds: two entries, pages of two page pairs, a kseg0 page, two ASIDs, two buckets, so
that pages of different pairs and kinds share a bucket; a global entry, a clean page and an uncached device.
Run `mmu` uses 4K pages; with 16K ones (`mmu_large`) coherence fails: see Findings.

### Fetch

A page is asked of the MMU only when execution moves to another page. The MMU is a function `mapping`
from mapped pages to host pages, changed by TLB writes from unmapped pages. `UserExits` are the unmapped pages
whose code jumps to a mapped page. Instructions are where they leave the program counter.
`FetchCoherent` holds for any such program; `FetchProgress` (for the run, `FetchesOn`) needs that the vector's own page is not among
`UserExits`. With it there, a fetch that fails leaves `njm_exec_page` at the vector's page, so that the next one looks
nothing up, finds `njm_exec_ptr` NULL and fails again, for ever and with no exception (fdd:82-89).
Fairness: weak on fetching and on executing, the CPU thread's own progress. Interrupts and resets are not fair, so they do not rescue it.

### VttyRing, BoundedFifo, Console

`vtty` is where the VTTY thread is (`select`, storing what it has read, then the three parts of the
notification `jz4740_tty_con_input`), `access` where the CPU thread is inside a register access: each access is split where the
other thread's stores to the ring or to LSR can come between. `driver` is the register the
guest's handler reads next, following the protocol at the top of `jz4740_dev_uart.c` (IIR, LSR, RBR until LSR says no
more, then THR). IER, FCR and the mask may be changed at will until the driver has `settled`.
`output` keeps its value over a watchdog reset, as IER does. What the escape and telnet state machine stores
for a byte is any of `Inputs`.

- `ImplementsFifo`: refinement of `BoundedFifo`, with `Held` the slots from `read_ptr` to `write_ptr`; moreover each `vtty_store` is a `Put` of its own character and each read of RBR a `Get`, so that a call with no effect cannot pass for a stutter.
- `InputRead`: liveness. The interrupt a notification raises may be cleared by the handler's read of IIR, hidden by another source's `set_irq` (IPR is assigned) or find its source masked; the poll raises it again.
- `OutputAsked`: liveness, the same for the transmitter. `output` guards against raising twice; the poll clears it first, and must.
- Neither property says that RBR holds a character whenever the driver reads it, and it does not: the notification sets LSR's data-ready bit (uart:95) after the guest may have drained the ring, or when nothing was stored.

Bounds: a ring of three slots, so that it is full with two characters and wraps; two
characters; the terminal readable twice, storing up to two characters each time (three in the code, for an unknown escape).
The properties are about what is in the ring, so that further reads repeat these situations.
Fairness: both threads run, the handler runs on. Strong for the poll, which waits for a register access to end, and
for taking the interrupt: the source is shown again and again, and the system timer's ticks, which hide it, come
apart from the poll often enough.

### Flash, Nand

The guest's driver picks an operation (`Begins`), whose port accesses the chip then serves one by
one: an operation has parts, a part some of eight steps (`Part`), and `part` and `step` are how far the driver has come;
`answers` are the bytes it has read. `Supported` says what it may ask for: pages and columns of the chip, and one move
of the column in a page read. A reset of the board (`BoardResets`) may come
between any two accesses. `left` is the `write_offset` it leaves until a page has been programmed. Commands keep their values; address bytes have `Radix` values. `Pointed` is what
`data_port_ipr` points to: the block's file as it is when the byte is read, or the blank page.

- `NeverAborts`: no access of the listed operations fails one of the assertions.
- `DataPortInBounds`: `read_offset` stays inside the page or the answer, and `col_addr + write_offset` inside the buffer, but for the one case below, which ends a behaviour (`DataPortOverruns`): what the store changes is undefined.
- `ImplementsFlash`: refinement. `Flash` knows the operation asked for, so a byte read from another page, a
  program or an erase of another block, or one that is lost is a violation; `cut` tells an operation the reset cut short from a finished one.
- `LoadsInBuffer` fails (run `nand_reset`): a reset while a page is loaded leaves `write_offset`, and the next page is loaded beyond its column. `Flash` says exactly that and no more: the bytes before the first move of the next page programmed are displaced by `left` columns.
- `CopyBackCopies` fails (run `nand_copy`): the write buffer is filled with 0xff, which is not written (nand:245 and 130). In `Flash` a copy changes nothing.

Bounds: two-valued address bytes, so eight pages of three bytes, two to a block; programs touch two blocks, skip and
move back; reads run on and move back; erases name the other page of a block that is programmed. Each address cycle still matters:
with one mistaken for another, a different page is addressed.
One copy, from a page that is programmed to another.
Not modelled: a driver that moves the column twice in a page read (see the hazards), or asks for pages that do not exist.

### Decode, Alu, MemOps, Program, Arch, Interp

An instruction word is a record of the fields its handler reads. `Op` goes through the five tables as the
handlers do; `Effect` is what a handler leaves in the registers and memory. `Interp` is one step per turn
of the main loop: `FetchFaults`, `RunPlain`, `RunRaises`, `RunBranch` with its slot, `SkipSlot` (a likely branch not
taken), `SlotExcepts`, `Interrupt`, `Exit`. The kernel is external and does what it must: maps the page, serves the
call or emulates the instruction and goes on behind it (finishing the branch when BD is set), or takes a page away, or lets another thread run.
`Heedless` are the likely branches that do not look at what their slot returned.

- `RunsAsIfAlone`: refinement of `Arch`, where a branch and its slot are one step and nothing interrupts. It depends on the order of link and slot, on EPC and BD, on what a failed access leaves behind. The programs' heedless branches have slots that cannot fault; the others are run `interp_likely`.
- `DataInstructionsMean`, `AccessesMean`: each completed instruction against a reference that is not the algorithm: division by its remainder (for the operands the host divides; `HostTraps` are the others, on which the emulator dies), shifts bit by bit, merging accesses by the pairs of register byte and address they move.
- `NoLostUpdate`: an ll/sc loop against another thread that increments the same word in an interrupt. The link bit is cleared by `eret` alone.
- `ExceptionReachesHandler` fails for likely branches (run `interp_likely`): see Findings.

Bounds: words of 8 bits, so that a word is four 2-bit bytes, an immediate is four bits and a product is 16; operands 0, 1, 127, 128, 254, 255, so every sign,
carry and wrap occurs. Every access at each of the distances 0 to 7, to RAM, to a page that is not there and to a device. A program
with a call whose slot stores, a loop, and a jump whose slot lies on the next page; every branch taken and not, with a load in its slot. Up to three interrupts.
The doubleword handlers decode, but no register of the model is wider than a word.

### Gpio, Cs8900

The packet page is the record `nic`; a frame is halfwords `<<frame, position>>`, so that a read of two frames mixed shows. The
receive callback runs between any two accesses of the driver. `rxIndex` and `txIndex` survive a reset, as in the code. BufEvent's code, 0xc, is those of both
other events: writing BufCFG records them all. `RivalRaises` is another device assigning INTC_IPR, `OthersUsePorts` drivers of other pins.

- `EventsNotLost`: what the driver waits for is in ISQ or already announced, and while ISQ holds something the pin's flag says so.
- `FramesReadWhole`: unless a frame or a reset came in the middle of a read (`disturbed`), what the driver reads is one frame in order. A disturbed read may mix two, in the model as in the code; that it does not spoil the next one is part of the property; with one buffer and one index this needs the index back at zero after each.

Not modelled: the receive interval, which is computed and then overwritten (cs8900:543-570), and DMA registers of the card. A unicast frame for another host is accepted when IndividualA is clear, as in the code.
A reset in the middle of sending leaves `txIndex`, so the card may transmit early; the driver goes on and writes its whole frame (`Wrote`).
Bounds: two frames of four kinds and lengths (padded, exact, too long), two sent, one reset.

### WdtTcu

Each of the set and clear addresses is an action; `armed` is whether a host timer is linked. `MayStart` is `(!TSR & 0x01)`, which
is 1 only when *nothing* is stopped. `orphan` remembers a reset of the board that left timer 0 armed.

- `TimersFollow`: the host timers are armed when the registers say so, and otherwise only after such a reset. The odd test of `MayStart` and the armed timer a reset forgets are in the model and excused; what the property pins down is that nothing else starts or stops a host timer.

Bounds: a counter modulo 6 in place of 16 bits, two rates, a full match before the wrap. A rate that jumps over the wrap misses the full match, in the model as in the code.

### Dma

A store that starts channels runs their copies in the same step, cut at page boundaries of both sides; the doorbell's walk is a step per descriptor, since a
ring of linked descriptors does not end. The two loops, over the pieces of a copy and over the channels that start, are the recursive
functions `Copied` and `MovedAll`. `Cleared` is `dcmd |= ~V`: it sets everything but V. The next descriptor is where the top byte of the target address says (`NextSlot`), not DDADR. A reserved unit size and a DDA that is not aligned fail assertions, which end the emulator (`crashed`). A reset of the board clears all registers (`DmaResets`).

- `TransfersMean`: memory changes by exactly the transfers that end, each once. That a descriptor's transfer is served again by the next doorbell is what `Cleared` makes of it, and no property forbids it. A count that the guest itself sets to zero is no end of a transfer.

Descriptors are kept apart from the memory that is moved. `Bank` is what one unit of that top byte stands for.

Bounds: two channels, pages of two bytes, descriptors at 0 and 16 and a DDA of 8 that is not aligned, transfers whose two ends do not overlap (an overlap would smear, as memcpy may).

### Rtc, Lcd, TouchScreen

- `TimeFollowsCalendar`: `jz_mktime` against days counted one by one from 2000 to 2009 by the host's calendar: two full leap cycles and the year after (`LastYear` bounds the polls and the stores to the clock; the proof holds to 2099). The alarm fires only on the exact second, so a late callback can skip it.
- `LcdPollSound`: a poll finds a mode it handles, a controller that is on, and a window of the frame's size, after any stores to LCD_CTRL and the area registers.
- `SamplesInStep`: position and pressure alternate for a driver that reads them in turn, and a pen-up interrupt never splits a sample.

The LCD may give the window another width while events are queued (`WindowResizes`). Sizes that fail the LCD's assertions end the emulator.

Bounds: two window widths; one mouse event, four reads. A store to SADC_STATE complements what is stored (ts:177), so it clears what is written and sets the rest.

### Devices

The list is pointers: `next` of a field and `pprev` of a device, changed by the code's own assignments; a sequence would hide a wrong one.
`base` and `bound` say where each device is and whether its binding was answered 0. The walks of the list are least
closed sets: `Walked` is what a search passes over, `StopsAt` the field it ends at.

- `FindsItsDevice`: a lookup finds a device that holds the address if there is one, the id it is then reached through names the same device, and the next device above is the nearest.

Bounds: three devices, a table of two slots so that it overflows, four addresses; devices may overlap. `dev_remove`, `vm_map_device`, `dev_lookup_next` and `vm_resume` are modelled as the interface they are: the board's own code does not call them. `vm_free`, which nobody calls, is left out.

### Debugger

`stub.at` is where the CPU thread is: before an instruction, in `accept`, in `getpkt`, waiting in `putpkt` for an acknowledgement, or executing. The program stands still while
the stub talks. A packet is one item, possibly spoilt; a ^C is an item of its own and may come where an acknowledgement is expected, which makes `putpkt` send again.
`Chained` is what a walk of the breakpoint list from its head meets.

- `BreakpointsStop`: an instruction that GDB was told has a breakpoint is executed only when GDB has just resumed there. Instructions in delay slots are executed without the check and are not among `Points`.
- `RepliesMatch`: what GDB takes for an answer answers the command it sent.
- `NeverBothWait` fails (run `gdb_step`): see Findings. `gdb_debug_from_poll` is never set, so a ^C is not served while the program runs; the message "continuing" is followed by a wait in `accept`.

Bounds: two addresses, five commands, one spoilt packet, one ^C, one session.

### MCCpuLoop, MCMmu, MCBoard

`CpuLoop` sees of an instruction which timer it moves, and `Interp` sees of the loop that interrupts come: `MCCpuLoop` runs one or the other, as
a variable `focus` says, which is chosen at the start. `MCMmu` does so with `Mmu` and `Fetch`, which sees of the MMU what a lookup answers.

The devices share no state but the interrupt controller, which `IrqPath` models; exploring them all at once would
multiply states without adding behaviour. So `MCBoard` too composes them with a `focus`. Run `board` is thus eight
explorations of one composed specification, with one type invariant, `BoardTypeOK`. It assumes no fairness, and stops only where the bounds stop it.

## Findings

1. `mips64_update_irq_flag` on the VTTY thread writes back a stale CAUSE over an exception code (`mips/mips64.c:156`, run `irq_exc_code`).
2. Overwriting a TLB entry of large pages leaves stale 4K translations (`mips/mips64_cp0.c:220`, run `mmu_large`).
3. A branch-likely other than `beql` goes on to its target when its delay slot raised an exception: EXL is set and the handler is not entered (`mips/mips64_codetable.h:554` and six more, run `interp_likely`).
4. After a single step the stub sends no stop reply, so GDB and the stub wait for each other (`gdb/gdb_interface.c:695`, run `gdb_step`).
5. A reset of the board while a page is loaded leaves `write_offset`: the next page is loaded beyond its column and past the end of `write_buffer` (`device/dev_nand_flash_1g.c:486`, run `nand_reset`).
6. Copy-back, listed as supported, reads nothing and programs a blank buffer (`device/dev_nand_flash_1g.c:245`, run `nand_copy`).

## Proofs

All for arbitrary constants satisfying the named assumptions of the modules. A device's theorems are about its own
specification (`TcuSpec`, `NicSpec`, ...); `BoardIsItsParts` says that run `board`'s specification implements all eight of them.

- `CpuLoopProofs`: removing, inserting and taking the head preserve `Linear` and `Ordered` and change the list's elements as expected, for lists of any length (`UnlinkSound`, `LinkSound`, `TailSound`; the facts about `RemoveAt` and `InsertAt` are proved there too). `IInv` adds to the type invariant and the list's soundness what each thread's position says of the shared words: before the boot is over the CPU thread is in the loop or the switch, PAUSING holds only in a round, RESTARTING only in the reset, and a timer in hand is not linked. Without the last, `FinishModTimer` could link a timer twice. From it: `TypesHold`, `ListHolds`, `ExecWaitsForBoard`, `PauseEnds`; and `ServesDeadlines`, each step mapped to a step of `Deadlines` or a stutter, with a clock that is not bounded.
- `IrqPathProofs`: the invariant is that a CPU thread between `mips64_trigger_irq`'s test and the exception keeps STATUS enabled; the VTTY thread never writes STATUS (`NoUnwantedInterrupt`). `TypesHold` ties each thread's place to the source and the loaded word it has in hand.
- `MmuProofs`: under `SmallPages` (each PageMask written is 4K) the types, the absence of clashing entries and `CacheCoherent` are inductive together; the second is needed because the walk takes the first match, so a new entry must not shadow one a line came from. `TranslatesAsPromised` is the refinement. The assumption is what run `mmu_large` shows to be necessary; `TypesHold` does without it.
- `FetchProofs`: the pointer kept is that of the page kept, except after a reset, which empties the TLB; then the next fetch is from an unmapped page, so that it looks again. With what is being executed having come from it this is inductive: `FetchStaysCoherent`, for any program, mapping, vector and exits.
- `ConsoleProofs`: `RingTypeOK` says that the slots in use hold characters, without which a read could deliver `NoChar`; `StoreSound` and `GetSound` show what the pointer arithmetic does to `Held`, in the four cases of where the pointers stand, and every other step leaves the ring alone. From these `TypesHold` and `DeliversInOrder`, for a ring of any size.
- `NandProofs`: `SafeInv` says what the place the driver has reached asks of the chip: its state (`StateExpected`), the part of the address latched so far (`Latched`), where the data port points (`PointedRight`) and where the next byte is loaded (`LoadsRight`). `NeverAborts` follows from the first two and from `has_issue_30h` being set until the one move of a page read; `DataPortInBounds` from the last two. Latching is arithmetic: a row is the sum of its three bytes in base `Radix`. `DataInv` adds what the buffer holds, what has been answered and how far it is displaced; from it `ChipIsFlash`, the refinement. The lemmas between (`WalkRead`, ..., `CommandsComing`) say which access comes after which in each operation. There is no hypothesis on resets or copies: `SafeInv` carries `left`, which a reset sets and the next program spends, and a step that leaves the buffer changes nothing that is said of the chip.
- `DeviceProofs`, the simpler devices: `HostTimersFollow` is inductive with the registers' types. `PollsFindTheWindow` needs that the surface is the window's size from its creation on. `HalvesStayInStep` needs that the index stays inside the sample, that its parity is that of the halves read so far, and that a pen-up is told of between two samples only. `ClockFollowsCalendar` is arithmetic: each year's days, leap years counted by quarters, the months' by cases.
- `DeviceProofs`, the network card: the driver's place is tied to the card. Until it has opened the card it has set the registers in their order; from then on whatever is in ISQ, and whatever it waits for, is told of by the pin's flag or is about to be read; while it reads a frame undisturbed, `rxIndex` is what it has read. What the card has taken of a frame being sent is tied to what the driver still has to write. `EventsReachDriver`, `FramesAreOne`.
- `DeviceProofs`, the device table: the invariant is that some sequence of devices without repetition, in address order, is what `next` goes along and `pprev` goes back, that its members are the bound devices, and that the table holds each of them once, at its id (`TableInductive`). What a search stops at is then the first of that sequence that satisfies its test, wherever the test lies; that and the order give `LookupsFind`, for any devices (overlapping or not), addresses and number of slots.
- `DeviceProofs`, the DMA controller: a copy and a start of channels are recursive functions, about which nothing can be cited before they are shown to exist. `TailRecursion` does so for any tail recursion over data with a falling rank, `TailComputes` and `TailTyped` say what it computes, and the two loops are instances: the bytes left, and the channels left. Two copies, one after the other, are one copy as long as nothing written is read (`Aside`), so the cut at the page boundaries does not show. `DmaTypes`, and `TransfersCopy` with the hypothesis that the guest programs only such transfers (`GuestAside`): for others the code calls `memcpy` on overlapping memory, which is undefined.
- `DeviceProofs`, the board: each step is a step of the part in focus and leaves the others alone (`BoardIsItsParts`), so that the parts' types are the board's (`BoardTypes`).
- `DebuggerProofs`: `WellLinked` says of the list that no node follows two others, none leads back to the head, and `tail` is the last one; `InsertedSound` and `DeletedSound` show that the code's assignments keep it and change its members by just the one breakpoint, wherever that stands. What GDB has been told is set is in the list (`ListKeepsBreakpoints`), and GDB takes a breakpoint out of its own set when it sends the `z`, before the list loses it. For the connection, at most one packet of GDB's is under way and no answer of the stub's comes before its acknowledgement; what lies before that is left from earlier and is what GDB skips; once GDB waits for an answer, only its own is in flight. From its command to the answer the program stands still. From these `NoBreakpointPassed`, `AnswersMatch` and `DebuggerTypes`, for any addresses, numbers of commands, spoilt packets and ^Cs.

Only model-checked:

- Liveness (`DueServed`, `GuestRunsOn`, `LatchedServed`, `FetchesOn`, `InputRead`, `OutputAsked`), since TLAPS does not reason about fairness.
- `RunsAsIfAlone`, `DataInstructionsMean`, `AccessesMean` and the type invariant of `Interp`: `Alu` uses `Bitwise`, and its recursive references are out of the prover's reach. `NoLostUpdate` is about one program.

## Not modelled

- 64-bit memory code (`memory/mips64_memory.c:109-1049`, under `#if 0`) and what the doubleword handlers compute.
- The TLB refill vector: all exceptions enter one `Vector`, since EXL is set before the refill case tests it (mips64.c:207).
- The telnet and escape state machine of `dev_vtty.c` (abstracted by `Inputs`), terminals, serial ports, sockets.
- `net_io.c`, `utils.c`, `mempool.c`, `crc.c`, `sbox.c`: wrappers and helpers; drawing; parsing the configuration.
- EMC and CPM, and the registers of other devices that nothing else reads.
- `tool/mknandflash.c`, which shares only files with the emulator.
- Code without a caller: `cpu_stop`, `vm_stop`, `vm_free`, `dev_jz4740_gpio_clearirq`.

## Plan

What is left, in this order:

1. `VttyInput`: the escape and telnet state machine against what each sequence should store.
2. `Alu` on sets of bits instead of `Bitwise`, then the type invariant of `Interp` for programs that keep to their memory.
