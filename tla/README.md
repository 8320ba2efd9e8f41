# TLA+ models of TGC-VP

TGC-VP is a virtual prototype of a small RISC-V SoC: a SystemC platform
(`src/`) and the board support package its programs are built with (`fw/bsp`).
The BSP is where the logic is. It runs on bare metal, on one or more harts, with
devices that change state by themselves and interrupts that can strike between
any two instructions. This directory holds TLA+ modules that model it, TLC
configurations that check them on small instances, and TLAPS proofs.

Paths below are relative to the repository, which is `src/` here: `fw/bsp/...`
is `src/fw/bsp/...`.

Contents: 1 inventory, 2 modules and code, 3 runs and bounds, 4 fairness,
5 proofs, 6 disagreements with the comments, 7 limits, 8 plan, 9 how to run.

## 1 Inventory

| Component | Code | State | Operations | Interacts with |
|---|---|---|---|---|
| SMP barrier macros | `include/platform/smp.h` | the CLINT's `msip` bits; loop registers of each hart | `smp_pause`, `smp_resume`, `smp_disable` | other harts, through `msip` only |
| Clock bring-up | `env/tgfs-vp/init.c` | PLLCFG, PLLDIV, HFROSCCFG, AON_LFROSC, SPI SCKDIV | `use_hfrosc`, `use_pll`, `use_default_clocks` | oscillators, PLL and RTC, which go on by themselves |
| PRCI driver | `drivers/fe300prci` | the same registers | `PRCI_use_*`, `PRCI_measure_mcycle_freq`, `PRCI_set_hfrosctrim_for_f_cpu` | as above |
| Frequency measurement | `init.c`, `fe300prci_driver.c` | static `cpu_freq`, UART DIV | `measure_cpu_freq`, `get_cpu_freq`, `uart_init`, `PRCI_measure_mcycle_freq`, `rdmcycle` | mtime, mcycle; the clock calls change what it measures |
| Console output | `libwrap/sys/{write,puts,_exit,isatty}.c`, `handle_trap` | UART TXCTRL and FIFO | `__wrap_write`, `__wrap_puts`, `__wrap_exit`, fatal trap | the UART drains; interrupt handlers and traps print too |
| Heap | `libwrap/stdlib/malloc.c`, `libwrap/sys/sbrk.c` | static `curbrk` | `malloc`, `free`, `sbrk` | the linker script's `_end`, `_heap_end` |
| PLIC driver | `drivers/plic` | PLIC enables, priorities, threshold, claim | the seven `PLIC_*` functions | devices, PLIC gateways, the handler that calls it too |
| Trap entry | `env/entry.S`, `handle_trap` | registers in the trap frame, mepc, mstatus | save, dispatch, restore, `mret` | everything it interrupts, other traps included |
| CLIC driver | `drivers/clic` | clicintcfg, clicintie and clicintip bytes, cliccfg, the vector table | enable, pending, level, priority, handlers | the handler that calls it too |
| printf family | `libwrap/sys/printf.c`, `libwrap/misc/write_hex.c` | the locals of `vprintfmt` | `printf`, `sprintf`, `write_hex` | the console |
| Start-up | `env/start.S`, `_init`, `flash.lds` | memory image, mtvec, mstatus | copy `.data`, clear `.bss`, call `_init` and `main` | the linker script's symbols; traps |
| SystemC platform | `src/tgc_vp/system.*`, `gen/platform_mmap.h` | signal bindings, address map | elaboration | the device models, which are git submodules and not part of the repository; the firmware's headers |
| Testbench | `src/tgc_vp/tb.*`, `rst_gen.h` | reset | hold, release | the platform |
| Launcher | `src/sc_main.cpp`, `src/CLIParser.*` | options, configuration, parameters | parse, configure, override, run | the platform |
| Rest | `hello.c`, stub system calls, headers, linker scripts, `pysysc`, build files | none | | |

What makes these hard, and what must hold:

* **SMP barrier.** Harts interleave at every access to `msip`. Nobody may leave a
  round before all have arrived; no wake-up may be lost or count for the wrong
  round; everybody must get out, also when the macros are used again.
* **Clocks.** The CPU executes from the clock it reprograms. In any sequence of
  calls it must never lose its clock, must wait long enough for the PLL (across a
  wrap of mtime), and must slow the flash down before the boost.
* **Measurement.** Three counters wrap independently, reads take time, mcycle is
  two words, and the result is cached although the clock can be switched.
* **Console.** The poll of the FIFO and the store are separate accesses; handlers
  and fatal traps print in between.
* **Heap.** A sum that wraps; sizes that are signed on one side and unsigned on
  the other.
* **PLIC and traps.** Enable bits share bytes, so enabling a source is a
  read-modify-write that a handler can get between; a claimed source that is
  not completed is dead; the registers of the interrupted code have to survive,
  also when traps nest.
* **printf.** The format is walked with a pointer that goes back when a conversion
  is not known; it must not run past the end, and nothing of one directive may
  stay for the next.
* **CLIC.** A level lands in a field whose place depends on two widths, by way of a
  read-modify-write.
* **Trim search.** Measurements with errors, three targets, and two ways of being out
  of reach.
* **Boot.** Three sources of each parameter; loops over sections that may be empty;
  mstatus and mtvec written twice; two tables of addresses, pins and interrupt
  numbers kept in step by hand.

`PROJECT.json` lists the hazards line by line, with the properties that cover
each one.

## 2 Modules and the code they stand for

Names follow the source. In all modules one action is one access to shared state
(a device register or a CSR), because that is where the actors interleave; a
polling loop is an action that is enabled when the poll that ends it would
succeed, its earlier polls being stutters, except in `CpuFreq`, where time is
what matters and every poll is a step. Definitions named `X_Something` beside a
definition `X` are deliberately wrong variants that show what its properties can
detect; no behaviour of the models uses them.

### SmpBarrierSpec, SmpBarrier, SmpBarrierProofs, MCSmpBarrier

`SmpBarrierSpec` is the promise: a hart leaves its n-th `smp_resume` only when
every hart has reached its own n-th. `SmpBarrier` has one `pc`, one loop register
`reg1` and one count of completed rounds per hart, and the array `msip`.
`Pause` is `smp_pause`; `EnterResume`, `SetMsip` (the loop over all registers by
hart 0), `Wake` (wfi and the check of `mip`), `ClearMsip` and `ScanMsip` are
`smp_resume`. The set `Msips` says which registers of the array exist; a
`MAX_HARTS` larger than the number of harts makes the macros poll registers
nobody owns. `Refines` maps `arrived` to the rounds acknowledged by clearing
`msip`, and `left` to the rounds completed.

### PrciClocks, PrciClocksProofs, MCPrciClocks

State: `hfrosc`, `hfxosc`, `lfrosc`, `pll`, `sckdiv` are the registers as far as
they matter; `mtime` and `phase` the RTC in fractions of a period; `age` the time
since the PLL left bypass. `Tick`, `HfroscReady`, `HfxoscReady` are the hardware;
the other actions are the driver, with `call.driver` telling `init.c` from the
PRCI driver where they differ (the final divider, the SPI divider, turning the
HFROSC off). `LockReads` is what a poll of LOCK can return: anything before
`SettleTime`. The crystal may not have started when the program does, and starts at
some time. Driver actions need `CpuRuns`: a CPU without a clock executes
nothing, so an unsafe switch shows as `CpuKeepsRunning` being false, and as a call
that hangs until the source comes up. `CpuKeepsRunning` is what the header of the
driver promises, and is violated by the switch to the crystal; `HfroscKept` is the
part of it about the other source, which holds. The program's calls come from the
set `Calls`, in any order and any number. `extlf`, of either value at the start, says
whether the board gives the RTC a clock besides the LFROSC, which `use_default_clocks`
turns off.

### CpuFreq, CpuFreqProofs, MCCpuFreq

Time is counted in CPU cycles. `Cycle` advances mcycle (two words) and every
`period` cycles mtime; between two reads of the code at least one and at most
`Poll` cycles pass. `GetCpuFreq ... Got` are `get_cpu_freq` with
`measure_cpu_freq` inlined, first for the warm-up of one tick, whose result is
dropped, then for `RealTicks`; `Got` is also `uart_init`'s divider. `PrciBegin
... PrciResult` are `PRCI_measure_mcycle_freq`, with `rdmcycle` as the three
reads it is (`ReadHi`, `ReadLo`, `ReadHi2`). `SwitchClock` abstracts all of
`PrciClocks`: it only changes `period`. Words are modulo `Word`, so every
difference and sum wraps as in the code. Locals live in the record `loc` and
disappear when the call returns.

### ConsoleSpec, Console, ConsoleProofs, MCConsole

`ConsoleSpec` is what a terminal may show: a prefix of the program's text, and
after a fatal trap the trap's text behind some prefix, until an interrupt handler prints
(`mixed`), after which it promises nothing. `Console` has three
contexts, program, returning interrupt handler and fatal trap, each with its
calls to come, the bytes left of the current call and a `pc`; one UART with a
FIFO of `Depth` bytes. `Begin` is the entry of `write` or `puts` (and rejects
what is no tty), `Poll` the wait for room, `Store` and `StoreCr` the stores of a
byte and of the carriage return behind a line feed, `Drain` the transmitter.
`putchar` of `printf` has the same poll-and-store shape. The texts of
`__wrap_exit` are ordinary calls to descriptor 2.

### Library, LibraryProofs, MCLibrary: Heap, Printf, FormatSpec, Clic, FreqTrim

`Library` puts four parts that share no state into one specification: the
variable `part` says which one a behaviour explores.

* **Heap.** `Malloc(sz)` is `malloc` with `sbrk` inlined; `free` does
  nothing, so it is no action. `BreakPlus` is the pointer addition on a machine word.
  Requests are any words: one of `AddrMod - n` is the increment `-n` to `sbrk(long)`, is
  granted when `n` bytes are in use, and moves the break down. `blocks` is a history of
  everything handed out; `BlocksDisjoint` says what holds until such a grant
  (`GrantedTooMuch`).
* **Printf.** One action per character of the format, as in `vprintfmt`: `at` is the place
  in the code (`text`, the loop that copies; `switch`, the `reswitch` label; `digits`, the
  loop that reads a number), `fmt` and `last_fmt` its pointers, `padc`, `width`,
  `precision`, `ap` its locals. `Unknown` is the label `bad`. `out` is what `putch`
  was given. `PrintNum` and `PrintStr` are the loops that pad and print, `WriteHex` is
  `write_hex`.
* **FormatSpec** is the reference: how a directive is spelled and what the C standard
  says it prints (the texts of `OddCalls` in MCLibrary are the code's own where it has no
  directive: `%f` prints nothing, `%#lx` ignores its flag); `CallOfPieces` makes a call and its text of a sequence of directives.
  `Directive` says which records are directives, and `Standard` names the directives in which `printf.c`, by its own
  comment no general `printf`, goes its own way (left-justified numbers, the sign
  and the width, a width for `%c`, a precision of 0).
* **Clic.** A register byte is the set of its bits, so a shift moves the members of a
  set and loses those that leave the byte. `LevelByte` has C's precedence of `<<`
  and `+`, `PriorityByte` the assignment in the condition of
  `clic_set_int_priority`. `ReadIntcfg` and `WriteIntcfg` are the two halves of the
  read-modify-writes, with `HandlerCall` in between; `raced` remembers whether a handler
  wrote the register there. `LevelAsked` and `PriorityAsked` are the bits a call asks for,
  by its comment, in the field `cliccfg` gives it. `LevelPlaced` is what holds of them,
  `PrioritySet` is the comment.
* **FreqTrim.** `BeginTrim`, `NextTrim`, `EndTrim` are the three parts of
  `PRCI_set_hfrosctrim_for_f_cpu`, `Chosen` its cascade of returns and its switch. A
  measurement is any number within `MeasureError` of the oscillator's frequency; how
  close the code's is, is the subject of `CpuFreq`.

### Boot, BootProofs, MCBoot: Launcher, Platform, Startup

`Boot` composes the three from the command line to the end of the firmware: `Host`
is the launcher; `HoldReset` and `ReleaseReset` are `rst_gen`; everything inside
`Core` is the firmware, which runs only when the simulation does, reset is released
and there is an image at the reset address.

* **Launcher.** `Parse` is the constructor of `CLIParser`, `Elaborate`, `Configure`,
  `OverrideConfig` and `SimulationEnds` are `sc_main` from top to bottom; `ParseError`
  and `OverrideAborts` the ways it ends before the simulation. `param` stands for
  the CCI parameters; the last of the configuration file and `set_value` decides. The
  quantum is none of them: only its option sets it.
* **Platform.** Constants are the two sides' tables. `Access` is an access of the
  firmware to any register it names, those of the CLIC, the OTP, MASKROM and TRAPVEC
  included, and to the first and last word of the linker script's memories; `SelectPin`
  a choice of a pin; `Raise`, `ClaimSource`, `ServeSource` an interrupt from its line to
  the handler, where a source may be claimed while another one is (`claims`). What the
  platform has nothing for is listed: `NotOnPlatform`, `UnboundPins`, `Unwired`. Addresses
  count half words, since 0x80000000 exceeds TLC's integers. The platform is taken
  to number the outputs of a PWM as the firmware does.
* **Startup.** `Reset` to `CallMain` are `_start`; `_init` what `init.c`'s `_init`
  does to the CSRs and, by way of `uart_init` and `get_cpu_freq`, to the static
  `cpu_freq`, a word of `.bss` at `CpuFreqAt`. `ImageReady` therefore looks at the memory
  where the loops end, and behind `_init` at all of it but that word. `Enter` is the
  core, `SaveRegs`, `WriteEpc`, `SetMpp`, `LoadRegs`, `Mret` are `trap_entry` and `HandleFatal`,
  `HandleInterrupt`, `HandlerReturns` are `handle_trap`. The stack counts trap frames. One
  register stands for each kind the calling convention knows, `ft0` for those of the
  FPU, which `trap_entry` does not save: `TrapTransparent` is about the integer registers.
  `Nest` lets the application's handler turn interrupts on. Nothing in `handle_trap` or
  `trap_entry` turns them off again, so a handler may return with them on, and a trap may
  then strike anywhere up to the `mret`: behind `csrw mepc` it replaces mepc and MPP.
  `stale` remembers that a trap has returned since mepc was written; only then may `Mret`
  go elsewhere than the trap came from (`lost`), where the model does not follow it.

### Induction

No code: facts the proofs need about data. A set of numbers that has 0 and with a number
the next one has all of them, likewise from the predecessors; what `Head`, `Tail`,
`Cons` and `SubSeq` make of a sequence; what `FlattenSeq` computes, which is a recursive
function. `Spread(f, s)` concatenates what `f` makes of the members of `s`.

### Interrupts, InterruptsProofs, MCInterrupts

The program runs a sequence of driver calls, `MainCalls`; the handler of source
`s` runs `HandlerCalls[s]`. `ClearEnables`, `ClearPriorities`, `ClearThreshold`
are `PLIC_init`, byte by byte and word by word; `LoadEnable` and `StoreEnable` the
two halves of `PLIC_enable_interrupt` and `PLIC_disable_interrupt`;
`SetThreshold`, `SetPriority`, `Claim`, `Complete` the rest. `TrapEntry` saves and
`TrapReturn` restores the register in which the read-modify-write keeps the byte;
`Serve` is the branch of `handle_trap` that calls the application, which may use
that register for anything. `Raise`, `Gateway`, `Deliverable`, `Before` are the
devices and the PLIC. The PLIC's registers hold anything at reset, as the
comments in `PLIC_init` demand.

Two facts about the application are assumed and named in `UsageAssumption`: it
calls `PLIC_init` only before it turns interrupts on, and a handler does not
disable the source it is serving before it completes it, which the PLIC would
ignore.

## 3 Runs

| Run | Question | Result |
|---|---|---|
| SmpRounds | Is the barrier a barrier, round after round? | holds; refinement holds; the only way to get stuck is being lapped |
| SmpReuse | Do all harts get out when the macros are used twice? | **no**, see section 6 |
| Clocks | Any order of all clock calls of both drivers, from a crystal that may not run yet: HFROSC on while it is needed, wait long enough, PLL left alone while in use, flash slowed down first, source as asked, and does every call return, whatever mtime is? | holds; only the wait for ticks of an RTC that `use_default_clocks` has stopped can hold a call up |
| ClocksCrystal | Does the CPU's clock keep running, as the driver's header promises? | **no**, see section 6 |
| ClocksLock | Do four ticks last 100 us? | **no**, see section 6 |
| CpuFreq | Are measurements close wherever the counters wrap, does the cached one fit, does every call return? | holds, until the clock is switched |
| Console | What can a printing handler and a trap at any point cost? Does the line show the text, and all of it? | at most one byte per interrupt; yes, until a handler prints |
| Interrupts | Can interrupts between two accesses lose a setting, a claim or a request? | only the enable bit of a source that a handler edits in a byte the program edits too |
| Library | Can wrapped sizes make blocks overlap, or be refused for no reason? Does printf read past a format, or print something else than the text expected? Does a CLIC level land in its field? Does the trim search end where it was asked to? | not before a size larger than the heap is granted; no, for the directives of `Standard`; yes; yes, within the measuring error |
| ClicPriority | Is a priority set? | **no**, see section 6 |
| Boot | Do options win over the configuration file? Do firmware and platform agree on registers, pins and interrupts? Is the image in place for `_init`, and the state behind every trap? | yes, but for the listed exceptions, and for a return into which another trap came after mepc was written |
| BootUartPins | Do the console's pins carry UART0? | **no**, see section 6 |

The bounds, and why the interesting cases happen within them:

* **SmpRounds**: 3 harts, 4 registers, 3 rounds. Two harts are needed to race, a
  third to be slower than both; three rounds let a hart be a full round behind in
  the middle of a history. The fourth register is one without a hart.
* **Clocks**, **ClocksCrystal**: an RTC period of 2 fractions, mtime
  modulo 8, which starts anywhere and wraps within a wait. `SettleTime` is 8, more than
  the 6 fractions of three periods: LOCK may still glitch behind the wait, so no property
  of these runs rests on the PLL having settled. `AgeBound` is where nothing changes any
  more. The calls include both drivers, both references, bypass and not; the board has a
  low-frequency clock of its own or not.
* **ClocksLock**: quarters of a period, of which 100 us are 13.1.
* **CpuFreq**: words of 64, 3 to 5 cycles per tick, at most 2 cycles between
  reads, windows of 1, 3 and 5 ticks. The counters start where mtime rolls over
  late, inside a window or not at all, and where the low word of mcycle carries early
  or late. A window with its polls is shorter than a word of cycles, and its result a
  word, as in the code; `WordAssumption` and `BaudAssumption` say so, and the values
  are about the least that satisfy them.
* **Console**: FIFO of 2, texts with a line feed first, last and alone, an empty
  buffer, a rejected descriptor; two interrupts, each with a handler that prints or one
  that does not.
* **Interrupts**: 4 sources, two enable bits to a byte, so that one byte is
  shared by sources of program and handler, one has a single source and the last
  is partly used; two priorities; handlers that enable, disable and change
  priorities; 3 requests, so that a source can fire again while it is served.
* **Library**, **ClicPriority**: 32 addresses, 6 of them heap, up to 5
  blocks, every size, the ones that are negative increments included; words of 16
  bits for `printf`, whose formats are all pairs of a directive (every conversion, flag,
  width, star and precision) with three others, and formats that break off after
  `%`, `l`, a width or a dot; two CLIC sources with 4 configuration bits, nlbits of
  0, 1 and 2, a handler that sets level, priority and the whole byte of either source
  (none in ClicPriority, whose counterexample needs no interrupt);
  6 trims, unevenly spaced, and targets from below the lowest to above the highest.
* **Boot**, **BootUartPins**: all command lines of two options (the image only
  beside `config-file` or `reset`: with it the firmware runs), with good and bad arguments, two
  configuration files that give different parameters; 3 words of `.data`, 2 of
  `.bss`, one behind; external, timer and undefined traps two deep, so that one can
  strike at any instruction of another; two interrupt lines raised at the same time,
  so that the handler has to tell them apart, and a second one can be claimed within the
  handler of the first. Handlers return with interrupts on or off; two traps are enough
  for one to return in the window of another.

Deadlock checking is off where a run ends: the programs of CpuFreq, Console,
Interrupts and Library are finite, the simulation of Boot ends, a lapped hart of
SmpBarrier is stuck for good, and ClocksCrystal and ClocksLock stop at their
counterexamples.

## 4 Fairness

* **SmpBarrier**: weak fairness per hart. Every hart of the platform is clocked.
* **PrciClocks**: weak fairness of the RTC and of the oscillators starting (a
  crystal that never starts hangs the real code as well), strong fairness of the
  driver: its polling loops take a few cycles, an RTC period hundreds, so a
  condition that keeps coming back is seen. It does not help a CPU without a
  clock: no driver action is enabled then.
* **CpuFreq**: weak fairness of the next step; time cannot stand still because at
  most `Poll` cycles go by before the code takes a step.
* **Console**: weak fairness of the transmitter and of the running context.
* **Interrupts**: weak fairness of the gateways, of the running driver call and of
  the trap. Devices need not raise anything.

No fairness is assumed for events from outside: traps, interrupts, requests. Library
and Boot check safety only: their loops end by counting, and how long the firmware
runs is up to the application and `max_time`.

## 5 Proofs

TLAPS proves these for all values of the constants the named assumptions allow. Each
proof states an inductive invariant, one lemma per kind of step, and derives the
properties from it. All safety invariants and action properties that the passing runs
check, and both refinements, are proved; `PrintsText` for all but the calls named below.

* **SmpBarrierProofs**, from `HartsAssumption` (hart 0 exists, every hart has a
  register). The barrier is not inductive: a hart that has scanned half the
  registers must know what it has read. `ScannedArrived` says so: below the index
  of a scan, every hart has acknowledged the round. That a register read as 0
  means "acknowledged" and not "not released yet" comes from `NoLostWakeup`
  (releases = acknowledgements + msip), together with the fact that hart 0
  releases everyone before it scans. Proved: `TypeOK`, `ScannedArrived`, `Barrier`,
  `NoLostWakeup`, `SingleSectionHeld`, and that every step is a step of `SmpBarrierSpec`
  or a stutter.
* **PrciClocksProofs**, from `ClockAssumption`. `IInv` adds where each label of the
  code stands with the hardware (which source runs, what the PLL fields hold) and
  for the wait: the time since bypass is at least the ticks seen since the sample
  times a period, plus the phase. Proved: `TypeOK`, `FourTicksWaited`,
  `PllFrozenWhileSelected`, `SlowFlashBeforeBoost`, `SwitchesAsAsked`, `HfroscKept`,
  and that `CpuKeepsRunning` holds in every state in which the crystal runs
  (`ClockKeepsRunning`): the crystal is the only way to lose the clock. None of them
  assumes anything about how fast the PLL settles.
* **CpuFreqProofs**, from `FreqAssumption`: `TypeOK`, which includes that no
  measurement divides by zero, and `ReadExact` (the high word is at most the one
  at the moment the low word is read, which is at most the one compared).
  From three more assumptions, `MeasuredClose` and `BaudFits`. `WInv` relates every local
  variable to the true time: `start_mtime` is the tick that began so many cycles ago,
  `start_mcycle` lies within `Poll` of it, the end of the window within `Poll` of its
  tick; so the difference of the words, modulo `Word`, is the true one, because it is
  smaller than a word. `OutInv` carries the results on: the cached frequency until the
  next switch, and the divider computed from it.
  * `PollAssumption`: a poll is shorter than an RTC period. The loops take a few dozen
    cycles, the period is 488 cycles at 16 MHz and 32.768 kHz.
  * `WordAssumption`: the cycles of a window, and the products that make the result,
    are words: at 320 MHz, 3000 ticks are 29 million cycles, of 2^32. A window of the
    driver is longer than the reads around it; otherwise it could be over, and its end
    behind a rollover, before its start has been taken.
  * `BaudAssumption`: the CPU is faster than the baud rate, so that `uart_init`'s
    divider is not negative.
* **ConsoleProofs**, from `ConsoleAssumption`: `TypeOK`, `SilentBeforeInit` and
  `LossBounded`. The invariant counts the one context that can be between a successful
  poll and its store with a FIFO that may have filled up since. `Refines`: until a handler
  prints, what the terminal shows, the FIFO, the bytes left of the current call and the
  calls to come are, in this order, the whole text, for the program and for the trap, and
  a trap cuts the program's text off for good.
* **InterruptsProofs**, from `PlicAssumption` and `UsageAssumption`: `TypeOK`,
  `SettingsStick`, `NothingLeftClaimed`. The invariant knows that the calls left
  are a suffix of the program, so that no `PLIC_init` is ahead once interrupts are
  on; what `PLIC_init` has cleared so far; and, between a load and its store, that
  the program's copy of the byte, in the register or in the trap frame, agrees with
  what has been asked for, for every source not contested.
* **LibraryProofs**. From `HeapAssumption`: `TypeOK`, `BlocksDisjoint`,
  `RefusesOnlyTooLarge`, for requests of any size. From `PrintfAssumption`: `FormatInBounds` for any formats (a
  character that is not NUL has one behind it, and every conversion that moves the
  pointer has seen one). From `ClicAssumption`: `LevelPlaced` for any widths (lemmas show
  that the two shifts put exactly the wanted bits in the field, and that reading back
  inverts it; the invariant adds that the byte the program holds between its two accesses
  is still in the register, unless a handler has written it). From `TrimAssumption`: `TrimAsAsked` for any monotone oscillator (the
  invariant says that the previous trim is one below and measured too low, and what the
  last measurement may be off). `PartsBehave` and `LibrarySafe` take all of this to
  `LibSpec`.
* **ComposedPrints**, in LibraryProofs too: a call whose format is any sequence of
  `FormatSpec`'s directives, with any flags, widths, precisions and arguments, prints
  the text the standard says (`Composed(print) => PrintsText`). The invariant
  `TextLeft` says that what has been put, followed by the texts of the directives that
  are left, is the whole text, and that the format and the arguments not yet read spell
  just those directives. Inside a directive, `Phase` says which part is next and what
  the earlier ones left in `padc`, `width` and `precision`; within a number, the value
  read so far is the one its first digits spell (`Reading`). An unknown conversion puts
  its `%` and goes back: what is left of it are literal characters, so the list of
  directives left grows there. `DigitsAreNumeral` shows that `printnum`'s loop makes
  the numeral of `FormatSpec` in bases 8, 10 and 16, `NumeralOfOne` that a decimal
  numeral belongs to one number.
* **BootProofs**. From `StartupAssumption`: `ImageReady` and `TrapTransparent`. The
  invariant `InTrap` relates every open trap to the context it interrupted: between
  `handle_trap` and the end of the restore, its frame holds that context's registers and
  pc; at `trap_entry` and at `mret` the registers are still, or again, those; and
  interrupts are on only from a handler to the `mret`. `OwnCsr` says which CSRs belong to
  the innermost one, mepc and MPP only while they are not `stale`. It is needed because an inner trap overwrites the CSRs of the outer one, so only
  the frame can prove the return right. `Base` and `Loading` say how far the two loops
  are; a trap in between keeps them. `FirmwareRuns` shows that the firmware as the host
  loads, resets and stops it is that firmware, so both hold of `BootSpec`
  (`BootSafe`). `OptionsWin` for any command lines and files: the invariant says
  which of the three sources each parameter has at each stage. `PlatformAgrees`
  for any number of lines raised and handlers nested: lemmas compare the two sides'
  tables entry by entry, and open handlers never have the same source.

The provers cannot apply the library's induction theorems, which take an operator. The
proofs about recursive functions go through sets instead (`Induction`): the numbers a
statement holds for are a set, and a set that is not everything has a least number
outside, since `<` is well-founded on `Nat`.

Only model-checked:

* liveness (`AllPrinted`, `TrapReported`, `RequestsServed`,
  `HangsOnlyWithoutRtc`, `AllReturn`)
  and `ResumeUnlessLapped`, which are out of the prover's reach;
* `PrintsText` for `write_hex`, whose digits are powers of 16, for formats that break
  off, for `%s` of a null pointer and for what `FormatSpec` has no directive for (`%f`,
  `%#lx`, `%p`).

## 6 Where code and comments disagree

Five of these are shown by a run. The others can be read off the code, in the lines
named, and off the definitions that model them; no property says otherwise.

* `smp.h:27-33` offers the macros as a pair to block and resume harts. Used a second
  time they can deadlock (run SmpReuse): hart 0 leaves the first `smp_resume`,
  does its single-threaded work and sets all `msip` bits while a slower hart is still
  scanning for the first round. That hart then reads its own bit as 1. Only it
  could clear it, and it does so only before a scan. With one use, or with two
  phases between uses that are long enough, this cannot happen:
  `ResumeUnlessLapped` says that nothing else can go wrong.
* `init.c:116-120`, `fe300prci_driver.c:128-132`: "Need to wait 100 us ... So wait 4
  ticks". The first tick may come right behind the sample: the wait is then just over
  three periods, 92 us (run ClocksLock). `FourTicksWaited` is what does hold.
* `fe300prci_driver.h:29-32`: `PRCI_use_hfxosc` is said to apply `finaldiv`; the bypass
  branch of `PRCI_use_pll` it calls writes divide-by-one (`BypDiv`).
* `clic_driver.c:32` says "initialize vector table"; the loop behind it,
  `for(int i=0;i++;i<num_irq)`, never runs (`ClicInitialise`): `default_handler` is stored
  nowhere, and an interrupt enabled before `clic_install_handler` goes wherever the
  table happened to point.
* `fe300prci_driver.h:29` and `38-41` promise to switch "safely", not to "turn off or
  glitch the clock the CPU is actually running off". `PRCI_use_pll` with the crystal as
  reference writes PLL_SEL (`fe300prci_driver.c:142`) without having read the crystal's
  ready bit, and turns the HFROSC off: if the crystal is not up yet, the CPU has no clock
  until it is (run ClocksCrystal).
* `clic_driver.h:33`, `clic_driver.c:86`: "sets an interrupt level". The level is ORed
  into the register (`99`): a call adds bits to an earlier level and never takes one
  away (`WriteIntcfg`).
* `clic_driver.h:37`, `clic_driver.c:122`: "sets an interrupt priority".
  `if(priority_bits = 0)` (`130`) assigns, the priority is shifted out, none is ever
  written (run ClicPriority). `LevelPlaced` shows that it does not hurt a level either.
* `entry.S:53`: "Remain in M-mode after mret". A handler that returns with interrupts on,
  as one that lets them nest may, opens a window up to the `mret` in which a trap's own
  `mret` sets MPP to user mode, and mepc to the instruction in `trap_entry`.
  `TrapTransparent` says that this is the only window. No handler in the repository opens
  it; nothing in `handle_trap` prevents it.
* `sc_main.cpp:101`: "overwrite config with command line settings". Four parameters
  (`AlwaysSet`) are set from the options' defaults even if the option is not given: a
  configuration file cannot set them. `OptionsWin` is about the others.
* `platform.h:74-76` has UART0's receive on pin 16 and transmit on pin 17, and `init.c:180`
  and `hello.c:20-21` select these pins for the console; `system.cpp:93-94` binds them to
  UART1's transmit and receive (run BootUartPins).
* `flash.lds:7`: 512M from 0x20400000. The platform's flash ends at 0x40000000
  (`system.cpp:27`), 4 MB before (`BehindFlash`).

Observations that contradict no comment, and are covered as assumptions or hazards:
`malloc` passes an unsigned size to `sbrk(long)`, so a size that is a small negative
number moves the break down into blocks in use (`BlocksDisjoint` says what holds until
then); the cached CPU frequency
is not measured again after a clock switch (`BaudFits` says how long it fits); without
another low-frequency clock, `use_default_clocks` stops the RTC the next `use_pll` waits
for (`HangsOnlyWithoutRtc`); the
read-modify-write of a PLIC enable byte is not atomic, so a handler that edits a
source of the same byte as the program may be undone (`Contested` names these
sources), and so is that of a CLIC register (`raced`).
When its target is out of reach above,
the trim search takes the trim before the highest (`TrimAsAsked` allows it).
A reset address with `0X` reads as 0, and one without digits ends the program.
The registers of the FPU are not saved by `trap_entry`.
The pins of SPI2 and UART1 in `platform.h`, and a chip select and two data lines of
SPI1, have nothing behind them (`UnboundPins`), nor do the CLIC, MASKROM, TRAPVEC, OTP and
its memory, PROCMONCFG (`NotOnPlatform`) and the interrupt numbers of the watchdog, RTC
and GPIO (`Unwired`).

## 7 Not modelled

* Values that no property tells apart: baud rates, PLL factors, loggers' files, trace file
  names, the structure dump.
* Generated or constant code: `encoding.h` (CSR numbers, opcodes and macros around
  single instructions), the bit fields of the device headers (one of which, `ROSC_DIV` in
  `prci.h:15`, masks with 0x2F and so drops a bit of a divider of 16 or more).
* Code that is not built or reached: `ventry.S`, the `ENABLE_SMP` branch of `start.S`,
  the two-word loop of `get_timer_value` (needs `__riscv32`, a macro no build file defines;
  `rdmcycle` has the same shape and is modelled), the Python front-end
  `pysysc`.
* Functions without state: the stub system calls, `read`, `smp_disable` (parks harts
  for good), `clic_get_int_priority`, whose shift count can be negative.
* The clock bindings of `system.cpp`, which carry a period, and the loop-back of the
  GPIO signals and the terminal in `tb.cpp`.
* What the core does after an `mret` that went astray (`lost`); a build with `NO_INIT`, of which
  no build file knows.
* What the application decides: how deep traps nest, against a stack of 2K that ends
  where the heap does; polls held up for longer than an RTC tick (`PollAssumption`).
* What is not in the repository: the device models, the ISS, the SystemC, SCC and CCI
  libraries. They appear as the hardware actions and initial values the code relies on.

## 8 What is left

1. Composition of `Interrupts` and `Console`: handlers that print, served through the
   PLIC.
2. Proof of `PrintsText` for `write_hex` and for formats that break off.
3. `hello.c` beyond a main that computes and prints.

## 9 Running

In this directory: `tlasany M.tla` parses a module, `tlc -config X.cfg MCModule.tla`
checks one of the runs of `PROJECT.json`, `tlapm MProofs.tla` checks a proof module.
Each run takes less than four minutes.
